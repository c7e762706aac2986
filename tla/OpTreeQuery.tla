---------------------------- MODULE OpTreeQuery -----------------------------
(***************************************************************************)
(* The two tree queries that place an op in a list or map object: InsertNth *)
(* (query/insert.rs) finds where a local insert at a visible index goes    *)
(* and which element it follows; SeekOp (query/seek_op.rs) finds where an *)
(* op received from another actor goes and which stored ops it overwrites. *)
(*                                                                         *)
(* The ops of the object are kept in tree order as a sequence.  The tree   *)
(* that holds them (op_tree.rs, not in this repository) is any split of    *)
(* the sequence into leaves of at most MaxNode ops with one separator op   *)
(* between two leaves; the walk of OpTreeNode::search calls query_node on  *)
(* the root, then on each child, its elements when it answers Descend,    *)
(* and query_element on each separator.  A query must give the same        *)
(* answer for every such tree.                                             *)
(*                                                                         *)
(* The object is a list or a map.  Each replica is one actor.  In a list   *)
(* it inserts at a visible index, or sets or deletes a visible element; in *)
(* a map it sets or deletes a key; it applies the others' ops in causal    *)
(* order.                                                                  *)
(***************************************************************************)
EXTENDS Naturals, SequencesExt

CONSTANTS
    Actor,   \* the replicas' ActorIds, compared as numbers by lamport_cmp
    None,    \* Option::None
    MaxOps,  \* bound on the ops created in a behaviour
    MaxNode, \* bound on the ops held by one leaf of the tree
    Props    \* the map keys, in key_cmp order

VARIABLES
    objType, \* the object's ObjType: "list" or "map"
    log,     \* every op created, with the ids its creator had applied
    opsAt,   \* opsAt[r]: the object's ops at replica r, in tree order
    applied, \* applied[r]: the ids of the ops replica r has applied
    cache,   \* cache[r]: the last field of the list's SeqOpsCache at r
    reqIndex \* reqIndex[r]: the index r's last insert asked for (history)

vars == <<objType, log, opsAt, applied, cache, reqIndex>>

-----------------------------------------------------------------------------
(* Ids, keys and ops (internal.rs) *)

\* OpId(counter, actor); HEAD is ElemId(OpId(0, 0)), before every element.
OpId == (1..MaxOps) \X Actor
HEAD == <<0, 0>>

\* Key: Map(prop) in a map object, Seq(elem) in a list object.
Prop == ToSet(Props)
Key == Prop \cup OpId \cup {HEAD}

\* InternalOp: insert says whether it creates an element after elem, pred
\* names the ops it overwrites.
InternalOpType == {"set", "del"}
InternalOp == [id : OpId, action : InternalOpType, key : Key,
               pred : SUBSET OpId, insert : BOOLEAN]

\* A stored op also carries succ, the ids of the ops that overwrote it.
StoredOp == [id : OpId, action : InternalOpType, key : Key,
             pred : SUBSET OpId, insert : BOOLEAN, succ : SUBSET OpId]

\* The element an op belongs to: its own id for an insert, else its key.
ElemId(op) == IF op.insert THEN op.id ELSE op.key

Visible(op) == op.succ = {}

Overwrites(op, other) == other.id \in op.pred

\* lamport_cmp: by counter, then by actor.
LamportLess(x, y) == x[1] < y[1] \/ (x[1] = y[1] /\ x[2] < y[2])

\* key_cmp of two map keys: by the props' order.
KeyLess(k1, k2) ==
    SelectInSeq(Props, LAMBDA p : p = k1) < SelectInSeq(Props, LAMBDA p : p = k2)

-----------------------------------------------------------------------------
(* The tree: leaves of at most MaxNode ops, one separator between two. *)

Leaf(s) == [leaf |-> TRUE, ops |-> s]
Separator(op) == [leaf |-> FALSE, ops |-> <<op>>]

RECURSIVE Layouts(_)
Layouts(s) ==
    IF s = <<>> THEN {<<>>}
    ELSE (IF Len(s) <= MaxNode THEN {<<Leaf(s)>>} ELSE {})
         \cup UNION {{<<Leaf(SubSeq(s, 1, i)), Separator(s[i + 1])>> \o rest :
                        rest \in Layouts(SubSeq(s, i + 2, Len(s)))} :
                     i \in {j \in 1..MaxNode : j + 2 <= Len(s)}}

\* The node index: the elements with a visible op, and the ops' ids.
VisibleElems(node) == {ElemId(node[i]) : i \in {j \in DOMAIN node : Visible(node[j])}}
HasVisible(node, e) == e # None /\ e \in VisibleElems(node)
ContainsOp(node, id) == \E i \in DOMAIN node : node[i].id = id

-----------------------------------------------------------------------------
(* InsertNth (query/insert.rs).  last_insert is never read; the query's  *)
(* answer is pos and key.                                                  *)

InsertNthNew(target) ==
    [kind |-> "insert", target |-> target, seen |-> 0, n |-> 0,
     valid |-> IF target = 0 THEN 0 ELSE None,
     lastSeen |-> None,
     lastValidInsert |-> IF target = 0 THEN HEAD ELSE None]

Pos(q) == IF q.valid = None THEN q.n ELSE q.valid

\* query_node: descend when the target lies in this node, else skip it,
\* counting its visible elements once (an element whose visible op was
\* counted in the node before is not counted again).
InsertNthQueryNode(q, node) ==
    LET numVis == Cardinality(VisibleElems(node))
                    - (IF HasVisible(node, q.lastSeen) THEN 1 ELSE 0)
        lastElemid == ElemId(Last(node))
    IN  IF q.seen + numVis >= q.target THEN [q |-> q, res |-> "Descend"]
        ELSE [q |-> [q EXCEPT !.n = @ + Len(node), !.seen = @ + numVis,
                     !.lastSeen = IF HasVisible(node, lastElemid)
                                  THEN lastElemid ELSE @],
              res |-> "Next"]

\* query_element: an insert starts a new element (and, once `target`
\* elements are passed, is where the new one goes); the first visible op
\* of an element counts it, or finishes when `target` were counted.
InsertNthQueryElement(q, op) ==
    LET q1 == IF op.insert
              THEN [q EXCEPT !.valid = IF @ = None /\ q.seen >= q.target
                                       THEN q.n ELSE @,
                             !.lastSeen = None]
              ELSE q
    IN  IF q1.lastSeen = None /\ Visible(op)
        THEN IF q1.seen >= q1.target THEN [q |-> q1, res |-> "Finish"]
             ELSE [q |-> [q1 EXCEPT !.seen = @ + 1, !.lastSeen = ElemId(op),
                                    !.lastValidInsert = ElemId(op), !.n = @ + 1],
                   res |-> "Next"]
        ELSE [q |-> [q1 EXCEPT !.n = @ + 1], res |-> "Next"]

\* Fault: the cache answers an insert at the same index as the cached one,
\* not only at the next index.
InsertNthCacheLookupSame(q, c) ==
    IF c # None /\ c.target = q.target
    THEN [q |-> [q EXCEPT !.lastValidInsert = c.id, !.n = c.pos + 1], hit |-> TRUE]
    ELSE [q |-> q, hit |-> FALSE]

\* cache_lookup_seq: an insert right after the one the cache remembers
\* follows that element and goes one past its position, with no search.
InsertNthCacheLookup(q, c) ==
    IF c # None /\ c.target + 1 = q.target
    THEN [q |-> [q EXCEPT !.lastValidInsert = c.id, !.n = c.pos + 1], hit |-> TRUE]
    ELSE [q |-> q, hit |-> FALSE]

\* cache_update_seq: remember the target, the position and the new op's id.
InsertNthCacheUpdate(q, id) == [target |-> q.target, pos |-> Pos(q), id |-> id]

-----------------------------------------------------------------------------
(* SeekOp (query/seek_op.rs), for the key Seq(elem) of a list object. *)

SeekOpNew(op) == [kind |-> "seek", op |-> op, pos |-> 0, succ |-> {}, found |-> FALSE]

LesserInsert(q, op) == op.insert /\ LamportLess(op.id, q.op.id)

GreaterOpid(q, op) == LamportLess(q.op.id, op.id)

IsTargetInsert(q, op) ==
    /\ op.insert
    /\ IF q.op.insert THEN ElemId(op) = q.op.key ELSE ElemId(op) = ElemId(q.op)

AddSucc(q, op) == IF Overwrites(q.op, op) THEN q.succ \cup {q.pos} ELSE q.succ

\* The Seq(HEAD) loop of query_node: from pos, record what the op
\* overwrites and stop before the first insert that is lamport-less.
RECURSIVE HeadScan(_, _)
HeadScan(q, node) ==
    IF q.pos >= Len(node) THEN q
    ELSE LET op == node[q.pos + 1]
             q1 == [q EXCEPT !.succ = AddSucc(q, op)]
         IN  IF op.insert /\ LamportLess(op.id, q.op.id) THEN q1
             ELSE HeadScan([q1 EXCEPT !.pos = @ + 1], node)

\* binary_search_by over key_cmp: the index of the first op whose key is
\* not less than k, in ops sorted by key.
KeyLowerBound(node, k) == Cardinality({i \in DOMAIN node : KeyLess(node[i].key, k)})

\* The Map loop of query_node: from the first op of the key, record what
\* the op overwrites and stop at the next key or an op with a greater id.
RECURSIVE MapScan(_, _)
MapScan(q, node) ==
    IF q.pos >= Len(node) THEN q
    ELSE LET op == node[q.pos + 1]
             q1 == [q EXCEPT !.succ = AddSucc(q, op)]
         IN  IF op.key # q.op.key THEN q
             ELSE IF LamportLess(q.op.id, op.id) THEN q1
             ELSE MapScan([q1 EXCEPT !.pos = @ + 1], node)

\* Fault: a skipped node's ops are not counted in pos.
SeekOpQueryNodeUncounted(q, node) ==
    IF q.found THEN [q |-> q, res |-> "Descend"]
    ELSE IF q.op.key = HEAD THEN [q |-> HeadScan(q, node), res |-> "Finish"]
    ELSE IF q.op.key \in Prop
    THEN [q |-> MapScan([q EXCEPT !.pos = KeyLowerBound(node, q.op.key)], node),
          res |-> "Finish"]
    ELSE IF ContainsOp(node, q.op.key) THEN [q |-> q, res |-> "Descend"]
    ELSE [q |-> q, res |-> "Next"]

\* query_node_with_metadata: after the target was found every node is
\* entered; a HEAD insert is placed by the scan above; otherwise a node is
\* entered only if it holds the target element, and skipped ops are counted;
\* a map key is placed on the root by a binary search and the scan above.
SeekOpQueryNode(q, node) ==
    IF q.found THEN [q |-> q, res |-> "Descend"]
    ELSE IF q.op.key = HEAD THEN [q |-> HeadScan(q, node), res |-> "Finish"]
    ELSE IF q.op.key \in Prop
    THEN [q |-> MapScan([q EXCEPT !.pos = KeyLowerBound(node, q.op.key)], node),
          res |-> "Finish"]
    ELSE IF ContainsOp(node, q.op.key) THEN [q |-> q, res |-> "Descend"]
    ELSE [q |-> [q EXCEPT !.pos = @ + Len(node)], res |-> "Next"]

\* query_element_with_metadata: find the target element, then an insert
\* stops before the first lamport-less insert, and an update before the
\* next element or the first op with a greater id.
SeekOpQueryElement(q, e) ==
    IF ~q.found
    THEN [q |-> [q EXCEPT !.found = IsTargetInsert(q, e),
                          !.succ = IF IsTargetInsert(q, e) THEN AddSucc(q, e) ELSE @,
                          !.pos = @ + 1],
          res |-> "Next"]
    ELSE LET q1 == [q EXCEPT !.succ = AddSucc(q, e)]
         IN  IF IF q.op.insert THEN LesserInsert(q, e)
                ELSE e.insert \/ GreaterOpid(q, e)
             THEN [q |-> q1, res |-> "Finish"]
             ELSE [q |-> [q1 EXCEPT !.pos = @ + 1], res |-> "Next"]

-----------------------------------------------------------------------------
(* The walk (OpTreeNode::search), dispatching on the query (TreeQuery). *)

QueryNode(q, node) ==
    IF q.kind = "insert" THEN InsertNthQueryNode(q, node) ELSE SeekOpQueryNode(q, node)

QueryElement(q, op) ==
    IF q.kind = "insert" THEN InsertNthQueryElement(q, op) ELSE SeekOpQueryElement(q, op)

RECURSIVE Elements(_, _)
Elements(q, ops) ==
    IF ops = <<>> THEN [q |-> q, res |-> "Next"]
    ELSE LET r == QueryElement(q, Head(ops))
         IN  IF r.res = "Finish" THEN r ELSE Elements(r.q, Tail(ops))

\* The root's children in order: a leaf is asked query_node first, a
\* separator is an element.
RECURSIVE Children(_, _)
Children(q, items) ==
    IF items = <<>> THEN q
    ELSE LET it == Head(items)
             r  == IF ~it.leaf THEN QueryElement(q, it.ops[1])
                   ELSE LET n == QueryNode(q, it.ops)
                        IN  IF n.res = "Descend" THEN Elements(n.q, it.ops) ELSE n
         IN  IF r.res = "Finish" THEN r.q ELSE Children(r.q, Tail(items))

\* OpTreeInternal::search: query_node on the root, then its elements (a
\* leaf root) or its children.
Search(q, layout) ==
    IF layout = <<>> THEN q
    ELSE LET root == FlattenSeq([i \in DOMAIN layout |-> layout[i].ops])
             r    == QueryNode(q, root)
         IN  IF r.res # "Descend" THEN r.q
             ELSE IF Len(layout) = 1 THEN Elements(r.q, root).q
             ELSE Children(r.q, layout)

-----------------------------------------------------------------------------
(* Applying an op (OpSet::insert_op, not in this repository): the ops at  *)
(* the positions in succ get the op as successor, and an op other than a *)
(* delete is stored at pos.                                               *)

ApplyOp(s, op, pos, succ) ==
    LET marked == [i \in DOMAIN s |->
                     IF i - 1 \in succ THEN [s[i] EXCEPT !.succ = @ \cup {op.id}]
                     ELSE s[i]]
        stored == [id |-> op.id, action |-> op.action, key |-> op.key,
                   pred |-> op.pred, insert |-> op.insert, succ |-> {}]
    IN  IF op.action = "del" THEN marked ELSE InsertAt(marked, pos + 1, stored)

\* Fault: the counter follows the replica's own ops only, not the ops it
\* received.
NextIdOwn(r) == <<Cardinality({id \in applied[r] : id[2] = r}) + 1, r>>

\* The next op id of a replica: one past the greatest counter it has seen.
NextId(r) ==
    LET cs == {id[1] : id \in applied[r]}
    IN  <<IF cs = {} THEN 1 ELSE Max(cs) + 1, r>>

\* Replica r places op with SeekOp, on whatever tree holds its ops (trees
\* on which the walk gives the same answer give the same step).
SeekAndApply(r, op) ==
    \E q \in {Search(SeekOpNew(op), layout) : layout \in Layouts(opsAt[r])} :
        opsAt' = [opsAt EXCEPT ![r] = ApplyOp(@, op, q.pos, q.succ)]

Record(r, op) ==
    /\ UNCHANGED objType
    /\ log' = log \cup {[op |-> op, deps |-> applied[r]]}
    /\ applied' = [applied EXCEPT ![r] = @ \cup {op.id}]

-----------------------------------------------------------------------------
(* Actions *)

Init ==
    /\ objType \in {"list", "map"}
    /\ log = {}
    /\ opsAt = [r \in Actor |-> <<>>]
    /\ applied = [r \in Actor |-> {}]
    /\ cache = [r \in Actor |-> None]
    /\ reqIndex = [r \in Actor |-> 0]

\* The query for an insert at target: the cache's answer when it has one,
\* else the walk over the tree.
InsertQuery(r, target, layout) ==
    LET c == InsertNthCacheLookup(InsertNthNew(target), cache[r])
    IN  IF c.hit THEN c.q ELSE Search(c.q, layout)

\* Any other change to the object forgets the cached insert.  SeqOpsCache
\* and its reset live in object_data.rs, not in this repository: this is
\* the assumption under which the cache's answer can be trusted.
Forget(r) == cache' = [cache EXCEPT ![r] = None]

\* Insert at visible index `target`: InsertNth gives the position and the
\* element to insert after, or InvalidIndex (no op is made).
Insert(r, target) ==
    /\ objType = "list"
    /\ Cardinality(log) < MaxOps
    /\ \E q \in {InsertQuery(r, target, layout) : layout \in Layouts(opsAt[r])} :
          LET op == [id |-> NextId(r), action |-> "set", key |-> q.lastValidInsert,
                     pred |-> {}, insert |-> TRUE]
          IN  /\ q.lastValidInsert # None
              /\ opsAt' = [opsAt EXCEPT ![r] = ApplyOp(@, op, Pos(q), {})]
              /\ Record(r, op)
              /\ cache' = [cache EXCEPT ![r] = InsertNthCacheUpdate(q, op.id)]
              /\ reqIndex' = [reqIndex EXCEPT ![r] = target]

\* Set or delete a visible element: the op overwrites the element's
\* visible ops.
Update(r, e, action) ==
    /\ objType = "list"
    /\ Cardinality(log) < MaxOps
    /\ e \in VisibleElems(opsAt[r])
    /\ LET s  == opsAt[r]
           op == [id |-> NextId(r), action |-> action, key |-> e, insert |-> FALSE,
                  pred |-> {s[i].id : i \in {j \in DOMAIN s :
                                               Visible(s[j]) /\ ElemId(s[j]) = e}}]
       IN  /\ SeekAndApply(r, op)
           /\ Record(r, op)
           /\ Forget(r)
           /\ UNCHANGED reqIndex

\* Set a map key, or delete a key that has a visible value: the op
\* overwrites the key's visible ops.
MapUpdate(r, k, action) ==
    /\ objType = "map"
    /\ Cardinality(log) < MaxOps
    /\ LET s    == opsAt[r]
           pred == {s[i].id : i \in {j \in DOMAIN s : Visible(s[j]) /\ s[j].key = k}}
           op   == [id |-> NextId(r), action |-> action, key |-> k, insert |-> FALSE,
                    pred |-> pred]
       IN  /\ action = "del" => pred # {}
           /\ SeekAndApply(r, op)
           /\ Record(r, op)
           /\ Forget(r)
           /\ UNCHANGED reqIndex

\* Apply another replica's op once everything its creator had applied is
\* applied here.
Deliver(r, entry) ==
    /\ entry.op.id \notin applied[r]
    /\ entry.deps \subseteq applied[r]
    /\ SeekAndApply(r, entry.op)
    /\ applied' = [applied EXCEPT ![r] = @ \cup {entry.op.id}]
    /\ Forget(r)
    /\ UNCHANGED <<objType, log, reqIndex>>

Next ==
    \/ \E r \in Actor, target \in 0..MaxOps : Insert(r, target)
    \/ \E r \in Actor, e \in OpId, action \in InternalOpType : Update(r, e, action)
    \/ \E r \in Actor, k \in Prop, action \in InternalOpType : MapUpdate(r, k, action)
    \/ \E r \in Actor, entry \in log : Deliver(r, entry)

Spec == Init /\ [][Next]_vars

-----------------------------------------------------------------------------
(* Properties *)

\* The realised list: the elements that have a visible op, in tree order.
RealisedList(s) ==
    LET ins == SelectSeq(s, LAMBDA o : o.insert /\ o.id \in VisibleElems(s))
    IN  [i \in DOMAIN ins |-> ins[i].id]

IndexOfOp(s, id) == SelectInSeq(s, LAMBDA o : o.id = id)

\* Where an insert at visible index t belongs: after the t-th element and
\* its updates, before the next element (visible or not); index 0 goes to
\* the front after HEAD; past the end of the list there is no place.
NthInsertPlace(s, t) ==
    LET list == RealisedList(s)
        k    == IndexOfOp(s, list[t])
        next == SelectInSubSeq(s, k + 1, Len(s), LAMBDA o : o.insert)
    IN  IF t = 0 THEN [ok |-> TRUE, pos |-> 0, key |-> HEAD]
        ELSE IF t > Len(list) THEN [ok |-> FALSE]
        ELSE [ok |-> TRUE, pos |-> IF next = 0 THEN Len(s) ELSE next - 1,
              key |-> list[t]]

InsertNthAnswer(q) ==
    IF q.lastValidInsert = None THEN [ok |-> FALSE]
    ELSE [ok |-> TRUE, pos |-> Pos(q), key |-> q.lastValidInsert]

\* Whatever tree holds a replica's ops, InsertNth's walk (with the nodes
\* it skips by their visible counts and its guard against counting an
\* element split across nodes twice) answers, for every index up to one
\* past the end, the place right after the index-th visible element, or
\* InvalidIndex exactly when the index lies past the end.
InsertNthIsNth ==
    objType = "list" =>
    \A r \in Actor :
        \A t \in 0..Len(RealisedList(opsAt[r])) + 1 :
            \A layout \in Layouts(opsAt[r]) :
                InsertNthAnswer(Search(InsertNthNew(t), layout))
                    = NthInsertPlace(opsAt[r], t)

\* Where an op belongs in a flat scan from its element: an insert before
\* the first lamport-less insert after it, an update before the next
\* element or the first op with a greater id; in a map, after every op
\* of a lesser key and every lesser op of its key.  It overwrites exactly
\* the stored ops its pred names.
SeekPlace(s, op) ==
    LET start == IF op.key = HEAD THEN 0 ELSE IndexOfOp(s, op.key)
        stop  == SelectInSubSeq(s, start + 1, Len(s),
                     LAMBDA o : IF op.insert THEN o.insert /\ LamportLess(o.id, op.id)
                                ELSE o.insert \/ LamportLess(op.id, o.id))
        below == {i \in DOMAIN s : KeyLess(s[i].key, op.key)
                                   \/ (s[i].key = op.key /\ LamportLess(s[i].id, op.id))}
    IN  [pos |-> IF op.key \in Prop THEN Cardinality(below)
                 ELSE IF stop = 0 THEN Len(s) ELSE stop - 1,
         succ |-> {i - 1 : i \in {j \in DOMAIN s : s[j].id \in op.pred}}]

\* For every op a replica can apply next, SeekOp's walk over any tree of
\* its ops (skipping nodes that lack the element, counting their ops)
\* finds the flat scan's position and every op the new one overwrites.
SeekOpIsScan ==
    \A r \in Actor : \A entry \in log :
        entry.op.id \notin applied[r] /\ entry.deps \subseteq applied[r] =>
            \A layout \in Layouts(opsAt[r]) :
                LET q == Search(SeekOpNew(entry.op), layout)
                IN  [pos |-> q.pos, succ |-> q.succ] = SeekPlace(opsAt[r], entry.op)

\* Replicas that applied the same ops, in whatever order and whether by a
\* local InsertNth or a remote SeekOp, hold them in the same order with
\* the same successors, so they show the same list.
ReplicasAgree ==
    \A r1, r2 \in Actor : applied[r1] = applied[r2] => opsAt[r1] = opsAt[r2]

-----------------------------------------------------------------------------
(* Refinement of the list object's promise (ListObject): a replica's     *)
(* elements are its insert ops in tree order, an element is shown when it *)
(* has a visible op, and its origin is the key of the insert that made it.*)

ElemOrder(s) ==
    LET ins == SelectSeq(s, LAMBDA o : o.insert)
    IN  [i \in DOMAIN ins |-> ins[i].id]

MadeElems == {x.op.id : x \in {y \in log : y.op.insert}}

List == INSTANCE ListObject
          WITH Replica <- Actor,
               elems <- [r \in Actor |-> ElemOrder(opsAt[r])],
               visible <- [r \in Actor |-> IF objType = "list"
                                             THEN VisibleElems(opsAt[r]) ELSE {}],
               origin <- [e \in MadeElems |-> (CHOOSE x \in log : x.op.id = e).op.key],
               asked <- reqIndex

\* Every step of the replicas, local inserts placed by InsertNth or by
\* its cache and sets, deletes and remote ops placed by SeekOp, is a step
\* of the list object (a step of a map object is a stutter): no element
\* ever moves or disappears from a replica's order, a local insert asked
\* for index t (reqIndex) shows the new element at index t + 1, right
\* after the t-th visible element, which it names as its key, a remote
\* insert lands after that same key, and a set or delete shows or hides
\* one element.
ListRefined == List!Spec

====
