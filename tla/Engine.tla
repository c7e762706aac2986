------------------------------- MODULE Engine -------------------------------
(***************************************************************************)
(* The document engine's change graph, as the sync protocol consumes it.  *)
(* The engine (automerge's change history, its dependency queue and its   *)
(* graph queries) is not part of the sources modelled here: these          *)
(* operators follow the interface of spec.md section 6.                    *)
(*                                                                         *)
(* A change is a model value; its dependencies are `deps[c]`.  A peer's    *)
(* document is the set `doc` of changes applied to its history, which is   *)
(* always closed under dependencies; `queue` holds received changes whose  *)
(* dependencies are not yet in the history.                                *)
(***************************************************************************)

\* The changes of `d` reachable from `S` through dependency edges,
\* `S \cap d` included: the ancestors-or-self of S in d.
RECURSIVE Ancestors(_, _, _)
Ancestors(deps, d, S) ==
    LET here == S \cap d
        up   == UNION {deps[c] : c \in here} \cap d
    IN  IF up \subseteq here THEN here
        ELSE here \cup Ancestors(deps, d, up \cup here)

\* The changes of `within` that descend (reflexively) from `S` through
\* dependency edges inside `within`.
RECURSIVE Descendants(_, _, _)
Descendants(deps, within, S) ==
    LET next == {c \in within : deps[c] \cap S # {}}
    IN  IF next \subseteq S THEN S ELSE Descendants(deps, within, S \cup next)

\* get_heads: the changes no other change of the document depends on.
Heads(deps, d) == {c \in d : \A o \in d : c \notin deps[o]}

\* get_changes(since): every change of the document that is not an
\* ancestor-or-self of a hash in `since`; hashes it does not know are ignored.
GetChanges(deps, d, since) == d \ Ancestors(deps, d, since)

\* get_missing_deps(heads): the dependencies of queued changes and the given
\* heads that are in neither the history nor the queue.
GetMissingDeps(deps, d, q, heads) ==
    ((UNION {deps[c] : c \in q}) \cup heads) \ (d \cup q)

\* apply_changes: add the received changes to the queue and move into the
\* history, repeatedly, every queued change whose dependencies are all in it.
\* Changes already in the history are ignored.
RECURSIVE Drain(_, _, _)
Drain(deps, d, q) ==
    LET ready == {c \in q : deps[c] \subseteq d}
    IN  IF ready = {} THEN d ELSE Drain(deps, d \cup ready, q \ ready)

\* Fault: one pass over the received and queued changes, without retrying
\* the ones an applied change has unblocked.
ApplyDocOnePass(deps, d, q, cs) ==
    d \cup {c \in (q \cup cs) \ d : deps[c] \subseteq d}

ApplyDoc(deps, d, q, cs) == Drain(deps, d, (q \cup cs) \ d)

\* filter_changes(heads, set): remove from `set` every hash the heads imply,
\* the heads themselves included, walking our own history.
FilterChanges(deps, d, heads, set) == set \ (heads \cup Ancestors(deps, d, heads))

=============================================================================
