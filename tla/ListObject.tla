----------------------------- MODULE ListObject ------------------------------
(***************************************************************************)
(* What a list object promises, whatever ops and tree stand behind it.    *)
(* Each replica holds its elements in an order, deleted ones included,    *)
(* and shows the visible ones.  An element never moves and never leaves   *)
(* the order; a local insert at visible index t puts the new element      *)
(* right after the t-th visible element (at the front for t = 0), and     *)
(* that element becomes its origin (`asked` records t); another replica   *)
(* receives it somewhere after the same origin.  Setting or deleting      *)
(* changes the visibility of one element and nothing else.                *)
(***************************************************************************)
EXTENDS Naturals, SequencesExt

CONSTANTS
    Replica, \* the replicas
    HEAD     \* the origin of an element inserted at the front

VARIABLES
    elems,   \* elems[r]: replica r's elements in order, deleted ones included
    visible, \* visible[r]: the elements replica r shows
    origin,  \* origin[e]: the element e was inserted after, for every element made
    asked    \* asked[r]: the visible index of r's last insert

vars == <<elems, visible, origin, asked>>

\* Where an element sits in r's order; HEAD sits before the first.
Position(r, e) == IF e = HEAD THEN 0 ELSE SelectInSeq(elems[r], LAMBDA x : x = e)

\* What replica r shows: its visible elements, in order.
Shown(r) == SelectSeq(elems[r], LAMBDA x : x \in visible[r])

Holds(r, e) == e = HEAD \/ e \in ToSet(elems[r])

Init ==
    /\ elems = [r \in Replica |-> <<>>]
    /\ visible = [r \in Replica |-> {}]
    /\ origin = [e \in {} |-> HEAD]
    /\ asked = [r \in Replica |-> 0]

\* A new element e inserted by r at visible index t: it goes right after
\* the t-th visible element, which becomes its origin.
Create(r, t, e) ==
    /\ t \in 0..Len(Shown(r))
    /\ e \notin DOMAIN origin
    /\ LET k == IF t = 0 THEN HEAD ELSE Shown(r)[t]
       IN  /\ elems' = [elems EXCEPT ![r] = InsertAt(@, Position(r, k) + 1, e)]
           /\ origin' = origin @@ (e :> k)
    /\ visible' = [visible EXCEPT ![r] = @ \cup {e}]
    /\ asked' = [asked EXCEPT ![r] = t]

\* Replica r receives element e, made elsewhere, after its origin.
Receive(r, e) ==
    /\ e \in DOMAIN origin
    /\ ~Holds(r, e)
    /\ Holds(r, origin[e])
    /\ \E p \in Position(r, origin[e]) + 1 .. Len(elems[r]) + 1 :
          elems' = [elems EXCEPT ![r] = InsertAt(@, p, e)]
    /\ visible' = [visible EXCEPT ![r] = @ \cup {e}]
    /\ UNCHANGED <<origin, asked>>

\* A set or delete shows or hides one element r holds.
Flip(r, e) ==
    /\ e \in ToSet(elems[r])
    /\ \/ visible' = [visible EXCEPT ![r] = @ \cup {e}]
       \/ visible' = [visible EXCEPT ![r] = @ \ {e}]
    /\ UNCHANGED <<elems, origin, asked>>

\* The element a step makes or receives is the one its origin or order
\* gains, and the index of an insert is the one it records, so the
\* quantifiers range over what the step adds.
Next ==
    \/ \E r \in Replica, e \in DOMAIN origin' \ DOMAIN origin : Create(r, asked'[r], e)
    \/ \E r \in Replica : \E e \in ToSet(elems'[r]) \ ToSet(elems[r]) : Receive(r, e)
    \/ \E r \in Replica : \E e \in ToSet(elems[r]) : Flip(r, e)

Spec == Init /\ [][Next]_vars

====
