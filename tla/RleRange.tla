------------------------------ MODULE RleRange ------------------------------
(***************************************************************************)
(* RleRange (automerge/src/columnar_2/column_range/rle.rs): a column of    *)
(* rows, run-length encoded at a byte range of a buffer shared with other *)
(* columns.  RleRange::encode writes the rows of an iterator at the end of *)
(* an output buffer; RleRange::splice decodes the column row by row, copies *)
(* the first `replace.start`, skips the rows in `replace` while appending  *)
(* the replacement rows, copies the rest, and writes the result at the end *)
(* of an output buffer.  Both return the range start..start + finish(),    *)
(* with start the length of the buffer before the encoder wrote to it.     *)
(*                                                                         *)
(* The byte encoding (RleEncoder, RleDecoder) is not among the modelled    *)
(* sources; the encoder is abstracted to the runs it writes, one token a   *)
(* run of equal rows, so a column's bytes are fewer than its rows.  A row  *)
(* is an Option: a value or Null.                                          *)
(***************************************************************************)
EXTENDS Naturals, SequencesExt

CONSTANTS
    Value,   \* the non-null row values
    Null,    \* None
    MaxLen,  \* bound on the length of a column
    MaxWith  \* bound on the number of replacement rows

VARIABLES
    buf,     \* the buffer holding the column, after the other columns' bytes
    range,   \* the column's RleRange: [start, end] into buf
    call,    \* the last call: [kind, start, end, with]
    crashed  \* the last call panicked

vars == <<buf, range, call, crashed>>

Row == Value \cup {Null}

\* What RleEncoder writes for a sequence of rows: a run per maximal block of
\* equal rows.
RECURSIVE Runs(_)
Runs(s) ==
    IF s = <<>> THEN <<>>
    ELSE LET r == Runs(Tail(s))
         IN  IF r # <<>> /\ r[1].val = Head(s)
             THEN <<[len |-> r[1].len + 1, val |-> Head(s)]>> \o Tail(r)
             ELSE <<[len |-> 1, val |-> Head(s)]>> \o r

\* What RleDecoder yields for the bytes of a range: the rows of its runs.
RECURSIVE Expand(_)
Expand(runs) ==
    IF runs = <<>> THEN <<>>
    ELSE [j \in 1..Head(runs).len |-> Head(runs).val] \o Expand(Tail(runs))

\* decoder(data): the rows of data[self.range].
Decoded(data, rg) == Expand(SubSeq(data, rg.start + 1, rg.end))

\* The column's rows.
Rows == Decoded(buf, range)

\* What an output buffer may already hold: nothing, or another column.
Prefix == {<<>>, <<[len |-> 1, val |-> Null]>>}

\* The rows a Range start..end covers: Range::len() is 0 when end <= start.
RangeLen(start, end) == IF end > start THEN end - start ELSE 0

\* Fault: running out of rows before replace.start stops copying instead
\* of panicking.
CopyPrefixBreak(dec, out, idx, start) ==
    LET k == IF start - idx < Len(dec) THEN start - idx ELSE Len(dec)
    IN  [panic |-> FALSE, dec |-> SubSeq(dec, k + 1, Len(dec)),
         out |-> out \o SubSeq(dec, 1, k)]

\* `while idx < replace.start`: copy a row from the decoder to the encoder,
\* panicking "out of bounds" when the decoder is exhausted.
RECURSIVE CopyPrefix(_, _, _, _)
CopyPrefix(dec, out, idx, start) ==
    IF idx < start
    THEN IF dec = <<>> THEN [panic |-> TRUE, dec |-> dec, out |-> out]
         ELSE CopyPrefix(Tail(dec), Append(out, Head(dec)), idx + 1, start)
    ELSE [panic |-> FALSE, dec |-> dec, out |-> out]

\* Fault: the replaced rows are not read from the decoder.
ReplaceRowsNoSkip(dec, with, out, n) ==
    LET k == IF n < Len(with) THEN n ELSE Len(with)
    IN  [dec |-> dec, with |-> SubSeq(with, k + 1, Len(with)),
         out |-> out \o SubSeq(with, 1, k)]

\* `for _ in 0..replace.len()`: skip a row of the decoder (if any is left)
\* and append the next replacement row (if any is left).
RECURSIVE ReplaceRows(_, _, _, _)
ReplaceRows(dec, with, out, n) ==
    IF n = 0 THEN [dec |-> dec, with |-> with, out |-> out]
    ELSE ReplaceRows(IF dec = <<>> THEN dec ELSE Tail(dec),
                     IF with = <<>> THEN with ELSE Tail(with),
                     IF with = <<>> THEN out ELSE Append(out, Head(with)),
                     n - 1)

\* splice(data, replace, replace_with, out) of a column whose decoder yields
\* `data`: the prefix, the replacement rows left after the replaced range,
\* then the decoder's remaining rows, encoded at the end of `out`.
Splice(data, start, end, with, out) ==
    LET p    == CopyPrefix(data, <<>>, 0, start)
        r    == ReplaceRows(p.dec, with, p.out, RangeLen(start, end))
        rows == r.out \o r.with \o r.dec
    IN  [panic |-> p.panic, rows |-> rows, buf |-> out \o Runs(rows),
         range |-> [start |-> Len(out), end |-> Len(out) + Len(Runs(rows))]]

\* Fault: the returned range starts at 0, not where the encoder began.
EncodeFromZero(items, out) ==
    [buf |-> out \o Runs(items), range |-> [start |-> 0, end |-> Len(Runs(items))]]

\* RleRange::encode(items, out): the items appended to out by a new
\* encoder, and the range start..(start + len) with start = out.len().
Encode(items, out) ==
    [buf |-> out \o Runs(items),
     range |-> [start |-> Len(out), end |-> Len(out) + Len(Runs(items))]]

-----------------------------------------------------------------------------

\* The column was written by RleRange::encode.
Init ==
    \E items \in SeqOf(Row, MaxLen), pre \in Prefix :
        LET col == Encode(items, pre)
        IN  /\ buf = col.buf
            /\ range = col.range
            /\ call = [kind |-> "encode", start |-> 0, end |-> 0, with |-> items]
            /\ crashed = FALSE

\* A caller splices the column, whose decoder yields `data`, into the
\* buffer `pre`; a panic ends the process.
SpliceCall(data, start, end, with, pre) ==
    LET res == Splice(data, start, end, with, pre)
    IN  /\ ~crashed
        /\ Len(res.rows) <= MaxLen
        /\ buf' = IF res.panic THEN buf ELSE res.buf
        /\ range' = IF res.panic THEN range ELSE res.range
        /\ call' = [kind |-> "splice", start |-> start, end |-> end, with |-> with]
        /\ crashed' = res.panic

\* A caller encodes new items as the column into the buffer `pre`.
EncodeCall(items, pre) ==
    LET col == Encode(items, pre)
    IN  /\ ~crashed
        /\ buf' = col.buf
        /\ range' = col.range
        /\ call' = [kind |-> "encode", start |-> 0, end |-> 0, with |-> items]
        /\ UNCHANGED crashed

Bound == 0..MaxLen + 1

Next ==
    \/ \E data \in {Rows}, start, end \in Bound, with \in SeqOf(Row, MaxWith), pre \in Prefix :
          SpliceCall(data, start, end, with, pre)
    \/ \E items \in SeqOf(Row, MaxLen), pre \in Prefix : EncodeCall(items, pre)

Spec == Init /\ [][Next]_vars

-----------------------------------------------------------------------------
(* Properties *)

\* Vec::splice with the range clipped as splice clips it: rows from `end`
\* on survive, and a range with end <= start removes nothing.
VecSplice(s, start, end, with) ==
    SubSeq(s, 1, start) \o with
        \o SubSeq(s, (IF end > start THEN end ELSE start) + 1, Len(s))

\* A splice whose start lies within the column leaves exactly the rows
\* Vec::splice would: the three copy loops of splice neither drop, repeat
\* nor reorder a row, whatever the range and the number of replacement rows.
SpliceIsVecSplice ==
    [][call'.kind = "splice" /\ ~crashed' /\ call'.start <= Len(Rows) =>
         Rows' = VecSplice(Rows, call'.start, call'.end, call'.with)]_vars

\* splice panics exactly when replace.start lies past the end of the column.
PanicsOnlyOutOfBounds ==
    [][call'.kind = "splice" => (crashed' <=> call'.start > Len(Rows))]_vars

\* The range RleRange::encode returns decodes, in the buffer it wrote to,
\* to the items it was given, also when the buffer already held another
\* column's bytes: the range starts where the encoder began, not at 0.
EncodeRoundTrip ==
    [][call'.kind = "encode" => Rows' = call'.with]_vars

=============================================================================
