------------------------------- MODULE Bloom --------------------------------
(***************************************************************************)
(* The bloom filter of a Have summary (automerge/src/sync/bloom.rs, which  *)
(* is not among the modelled sources; spec.md section 4.1).                *)
(*                                                                         *)
(* The bit array is abstracted to what a reader of the filter can observe: *)
(* `items`, the hashes inserted, which it always reports present (no false *)
(* negatives), and `fp`, the absent hashes whose bit positions happen to   *)
(* be set (false positives).  A filter built from no hashes has zero bits  *)
(* and reports nothing.  Which absent hashes collide is fixed by the hash  *)
(* bytes, which the model does not have, so it is chosen when the filter   *)
(* is built, among at most MaxFalsePositives of them.                      *)
(***************************************************************************)
EXTENDS Naturals, FiniteSets

\* BloomFilter::default(): zero bits.
EmptyBloom == [items |-> {}, fp |-> {}]

\* The filters BloomFilter::from(hashes) may produce over the hash
\* universe `all`.
BloomsFrom(hashes, all, maxFp) ==
    IF hashes = {} THEN {EmptyBloom}
    ELSE {[items |-> hashes, fp |-> f] :
            f \in {g \in SUBSET (all \ hashes) : Cardinality(g) <= maxFp}}

\* contains_hash
BloomContains(b, h) == h \in b.items \/ h \in b.fp

=============================================================================
