\* RleRange::encode and RleRange::splice over every column of up to three
\* rows drawn from two values and Null, written after nothing or after
\* another column's bytes, every splice start and end in 0..4 (one past the
\* longest column), and up to two replacement rows.  A panic ends the process.
CONSTANTS
    v1 = v1
    v2 = v2
    Null = Null
    Value <- MCValue
    MaxLen = 3
    MaxWith = 2
SPECIFICATION Spec
PROPERTIES
    EncodeRoundTrip
    SpliceIsVecSplice
    PanicsOnlyOutOfBounds
CHECK_DEADLOCK FALSE
