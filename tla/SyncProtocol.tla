---------------------------- MODULE SyncProtocol ----------------------------
(***************************************************************************)
(* The peer-to-peer sync protocol of automerge/src/sync.rs: every pair of  *)
(* peers keeps a sync State per direction, generate_sync_message turns the *)
(* state and the local history into the next message (or silence), and    *)
(* receive_sync_message applies a message and updates the state.          *)
(*                                                                         *)
(* Messages travel on one channel per ordered pair of peers.  The channel  *)
(* is a sequence; whether it may reorder, duplicate or lose messages is    *)
(* fixed by the constants, so one module serves the reliable transport the *)
(* convergence claim is about and the lossy one of spec.md section 1.      *)
(* A message crosses the channel as the bytes Message::encode writes, and  *)
(* the receiver runs Message::decode on them (module SyncCodec).           *)
(***************************************************************************)
EXTENDS Naturals, SequencesExt, Engine, Bloom, SyncCodec

CONSTANTS
    Peer,              \* the replicas
    Change,            \* change hashes that may be created
    None,              \* Option::None of the State's their_* fields
    MaxInFlight,       \* bound on messages queued on one channel
    MaxFalsePositives, \* bound on false positives of one bloom filter
    Reorder,           \* may the transport deliver out of order?
    Duplicate,         \* may it deliver a message more than once?
    MaxLoss,           \* how many messages it may lose in a behaviour
    MaxRestarts,       \* how many peers may restart empty
    RestartedMayCommit,\* may a restarted peer make changes of its own?
    Codec              \* the build's Message codec: "v1" or "v2" (storage-v2)

VARIABLES
    deps,     \* deps[c]: the dependencies change c was created with
    created,  \* the changes some peer has created
    doc,      \* doc[p]: the changes in p's history
    queue,    \* queue[p]: changes p received whose dependencies it lacks
    sync,     \* sync[p][q]: p's sync State for its session with q
    chan,     \* chan[p][q]: messages sent by p to q, oldest first
    lost,     \* messages lost so far
    restarted \* the peers that have restarted

vars == <<deps, created, doc, queue, sync, chan, lost, restarted>>

-----------------------------------------------------------------------------
(* Data *)

Have == [lastSync : SUBSET Change,
         bloom : [items : SUBSET Change, fp : SUBSET Change]]

\* Have::default(): no last_sync and an empty filter.
DefaultHave == [lastSync |-> {}, bloom |-> EmptyBloom]

\* The have list generate_sync_message builds holds at most one Have.
HaveList == [1..0 -> Have] \cup [1..1 -> Have]

Message == [heads : SUBSET Change, need : SUBSET Change,
            have : HaveList, changes : SUBSET Change]

\* State::new()
NewState == [sharedHeads |-> {}, lastSentHeads |-> {}, theirHeads |-> None,
             theirHave |-> None, theirNeed |-> None, sentHashes |-> {}]

OrNone(S) == S \cup {None}

\* Every bloom filter a peer may build, and every have list it may send.
Blooms == UNION {BloomsFrom(hs, Change, MaxFalsePositives) : hs \in SUBSET Change}
WireHaves == {<<>>} \cup {<<h>> : h \in [lastSync : SUBSET Change, bloom : Blooms]}

\* What Message::decode returns on the bytes the sender's encode writes, for
\* every message that may be sent.
ReceivedTable == DecodeTable(SUBSET Change, WireHaves, Codec)
Received(m) == Lookup(ReceivedTable, m)

SyncState == [sharedHeads : SUBSET Change, lastSentHeads : SUBSET Change,
              theirHeads : OrNone(SUBSET Change),
              theirHave : OrNone(HaveList),
              theirNeed : OrNone(SUBSET Change), sentHashes : SUBSET Change]

-----------------------------------------------------------------------------
(* Engine queries at peer p *)

OurHeads(p) == Heads(deps, doc[p])

ChangesSince(p, since) == GetChanges(deps, doc[p], since)

\* make_bloom_filter(last_sync): the Haves p may build over its changes
\* since last_sync.
MakeBloomFilter(p, lastSync) ==
    {[lastSync |-> lastSync, bloom |-> b] :
        b \in BloomsFrom(ChangesSince(p, lastSync), Change, MaxFalsePositives)}

\* get_changes_to_send(have, need)
GetChangesToSend(p, have, need) ==
    IF have = <<>> THEN need \cap doc[p]
    ELSE
    LET lastSyncHashes == UNION {have[i].lastSync : i \in DOMAIN have}
        changes        == ChangesSince(p, lastSyncHashes)
        notInBlooms    == {c \in changes :
                             \A i \in DOMAIN have : ~BloomContains(have[i].bloom, c)}
        hashesToSend   == Descendants(deps, changes, notInBlooms) \cup need
    IN  ((need \cap doc[p]) \ changes) \cup (changes \cap hashesToSend)

\* advance_heads(my_old_heads, my_new_heads, our_old_shared_heads)
AdvanceHeads(myOldHeads, myNewHeads, ourOldSharedHeads) ==
    (myNewHeads \ myOldHeads) \cup (ourOldSharedHeads \cap myNewHeads)

\* Fault: all the announced heads are added, known or not.
SharedHeadsAfterUnfiltered(sharedHeads, messageHeads, knownHeads) ==
    IF knownHeads = messageHeads THEN messageHeads
    ELSE sharedHeads \cup messageHeads

\* Fault: the known heads are intersected with the shared heads instead of
\* joining them.
SharedHeadsAfterMeet(sharedHeads, messageHeads, knownHeads) ==
    IF knownHeads = messageHeads THEN messageHeads
    ELSE sharedHeads \cap knownHeads

\* The shared heads receive_sync_message records from the heads the peer
\* announced: those heads if it knows them all, else it adds the ones it
\* knows to its present shared heads.
SharedHeadsAfter(sharedHeads, messageHeads, knownHeads) ==
    IF knownHeads = messageHeads THEN messageHeads
    ELSE sharedHeads \cup knownHeads

\* The message of a reset request: our heads and one default Have.
ResetMessage(ourHeads) ==
    [heads |-> ourHeads, need |-> {}, have |-> <<DefaultHave>>, changes |-> {}]

\* The test by which receive_sync_message concludes that the peer lost all
\* its data: it announces no heads at all.
PeerLostData(messageHeads, knownHeads) ==
    knownHeads = messageHeads /\ messageHeads = {}

TheirHeadsOrEmpty(s) == IF s.theirHeads = None THEN {} ELSE s.theirHeads

\* The reset test of generate_sync_message: the peer's first Have names a
\* last_sync hash p does not have.
NeedsReset(p, s) ==
    /\ s.theirHave # None
    /\ s.theirHave # <<>>
    /\ ~(s.theirHave[1].lastSync \subseteq doc[p])

-----------------------------------------------------------------------------
(* Actions *)

Init ==
    /\ deps = [c \in Change |-> {}]
    /\ created = {}
    /\ doc = [p \in Peer |-> {}]
    /\ queue = [p \in Peer |-> {}]
    /\ sync = [p \in Peer |-> [q \in Peer \ {p} |-> NewState]]
    /\ chan = [p \in Peer |-> [q \in Peer \ {p} |-> <<>>]]
    /\ lost = 0
    /\ restarted = {}

\* The application makes a local change at p: its dependencies are p's heads.
Commit(p, c) ==
    /\ RestartedMayCommit \/ p \notin restarted
    /\ c \notin created
    /\ deps' = [deps EXCEPT ![c] = OurHeads(p)]
    /\ created' = created \cup {c}
    /\ doc' = [doc EXCEPT ![p] = @ \cup {c}]
    /\ UNCHANGED <<queue, sync, chan, lost, restarted>>

Send(p, q, m) == chan' = [chan EXCEPT ![p][q] = Append(@, m)]

\* our_need: what p lacks of the heads the peer announced, and the
\* dependencies of p's queued changes.
OurNeed(p, s) == GetMissingDeps(deps, doc[p], queue[p], TheirHeadsOrEmpty(s))

\* our_have: a bloom filter over p's changes since the shared heads, unless
\* p needs something the peer has not announced as a head.
OurHaves(p, s, ourNeed) ==
    IF ourNeed \subseteq TheirHeadsOrEmpty(s)
    THEN {<<h>> : h \in MakeBloomFilter(p, s.sharedHeads)}
    ELSE {<<>>}

\* changes_to_send: computed only once the peer's have and need are known.
ChangesToSend(p, s) ==
    IF s.theirHave # None /\ s.theirNeed # None
    THEN GetChangesToSend(p, s.theirHave, s.theirNeed)
    ELSE {}

\* Fault: the heads_equal test is dropped.
InSyncHeadsUnchanged(s, ourHeads, toSend) ==
    /\ s.lastSentHeads = ourHeads
    /\ toSend = {}

\* The test after which generate_sync_message returns None: our heads are
\* the ones last sent and the ones the peer announced, and nothing is to
\* be sent.  (The test does not look at our_need.)
InSync(s, ourHeads, toSend) ==
    /\ s.lastSentHeads = ourHeads
    /\ s.theirHeads = ourHeads
    /\ toSend = {}

\* generate_sync_message(sync_state) at p for its session with q, when it
\* returns Some(message).  A call that returns None changes nothing.  The
\* code's let bindings are each bound by \E over one value, so that TLC
\* computes them once when it evaluates the fairness conditions.
GenerateSyncMessage(p, q) ==
    /\ Len(chan[p][q]) < MaxInFlight
    /\ \E s \in {sync[p][q]}, ourHeads \in {OurHeads(p)} :
       \E ourNeed \in {OurNeed(p, s)}, toSend \in {ChangesToSend(p, s)} :
          LET sent == toSend \ s.sentHashes
          IN  \/ /\ NeedsReset(p, s)
                 /\ Send(p, q, ResetMessage(ourHeads))
                 /\ UNCHANGED sync
              \/ /\ ~NeedsReset(p, s)
                 /\ ~InSync(s, ourHeads, toSend)
                 /\ \E ourHave \in OurHaves(p, s, ourNeed) :
                       Send(p, q, [heads |-> ourHeads, need |-> ourNeed,
                                   have |-> ourHave, changes |-> sent])
                 /\ sync' = [sync EXCEPT ![p][q].lastSentHeads = ourHeads,
                                         ![p][q].sentHashes = @ \cup sent]
    /\ UNCHANGED <<deps, created, doc, queue, lost, restarted>>

\* receive_sync_message(sync_state, message) at p, of the message m that q
\* sent on the session.
ReceiveSyncMessage(p, q, m) ==
    \E s \in {sync[p][q]}, beforeHeads \in {OurHeads(p)} :
    \E newDoc \in {IF m.changes = {} THEN doc[p]
                   ELSE ApplyDoc(deps, doc[p], queue[p], m.changes)} :
    LET newQueue    == (queue[p] \cup m.changes) \ newDoc
        advanced    == IF m.changes = {} THEN s.sharedHeads
                       ELSE AdvanceHeads(beforeHeads, Heads(deps, newDoc), s.sharedHeads)
        filtered    == FilterChanges(deps, newDoc, m.heads, s.sentHashes)
        caughtUp    == m.changes = {} /\ m.heads = beforeHeads
        knownHeads  == m.heads \cap newDoc
        peerWiped   == PeerLostData(m.heads, knownHeads)
    IN
    /\ doc' = [doc EXCEPT ![p] = newDoc]
    /\ queue' = [queue EXCEPT ![p] = newQueue]
    /\ sync' = [sync EXCEPT ![p][q] =
         [sharedHeads   |-> SharedHeadsAfter(advanced, m.heads, knownHeads),
          lastSentHeads |-> IF peerWiped THEN {}
                            ELSE IF caughtUp THEN m.heads ELSE s.lastSentHeads,
          theirHeads    |-> m.heads,
          theirHave     |-> m.have,
          theirNeed     |-> m.need,
          sentHashes    |-> IF peerWiped THEN {} ELSE filtered]]
    /\ UNCHANGED <<deps, created, restarted>>

\* The transport hands p the bytes of the i-th message q sent it; it keeps
\* a copy when it duplicates.  p decodes them and receives the message; a
\* decode error goes back to the caller and changes nothing.  (The channel
\* keeps the message, whose encoding is a function of it; r and m name the
\* decoded values.)
Deliver(q, p, i) ==
    /\ i \in DOMAIN chan[q][p]
    /\ Reorder \/ i = 1
    /\ \/ chan' = [chan EXCEPT ![q][p] = RemoveAt(@, i)]
       \/ Duplicate /\ UNCHANGED chan
    /\ UNCHANGED lost
    /\ \E r \in {Received(chan[q][p][i])} :
          IF r.ok THEN \E m \in {r.val} : ReceiveSyncMessage(p, q, m)
          ELSE UNCHANGED <<deps, created, doc, queue, sync, restarted>>

\* The transport loses the i-th message from q to p.
Lose(q, p, i) ==
    /\ lost < MaxLoss
    /\ i \in DOMAIN chan[q][p]
    /\ chan' = [chan EXCEPT ![q][p] = RemoveAt(@, i)]
    /\ lost' = lost + 1
    /\ UNCHANGED <<deps, created, doc, queue, sync, restarted>>

\* Peer p loses its document and restarts with an empty history and a new
\* State for every session.  Messages addressed to the old process are
\* lost with it; those it sent may still arrive.
Restart(p) ==
    /\ p \notin restarted
    /\ Cardinality(restarted) < MaxRestarts
    /\ doc' = [doc EXCEPT ![p] = {}]
    /\ queue' = [queue EXCEPT ![p] = {}]
    /\ sync' = [sync EXCEPT ![p] = [q \in Peer \ {p} |-> NewState]]
    /\ chan' = [q \in Peer |-> IF q = p THEN chan[q]
                               ELSE [chan[q] EXCEPT ![p] = <<>>]]
    /\ restarted' = restarted \cup {p}
    /\ UNCHANGED <<deps, created, lost>>

Index == 1..MaxInFlight

Next ==
    \/ \E p \in Peer, c \in Change : Commit(p, c)
    \/ \E p, q \in Peer : p # q /\ GenerateSyncMessage(p, q)
    \/ \E p, q \in Peer, i \in Index : p # q /\ Deliver(q, p, i)
    \/ \E p, q \in Peer, i \in Index : p # q /\ Lose(q, p, i)
    \/ \E p \in Peer : Restart(p)

\* Callers keep generating and the transport keeps delivering.
Fairness ==
    \A p, q \in Peer : p # q =>
        /\ WF_vars(GenerateSyncMessage(p, q))
        /\ WF_vars(\E i \in Index : Deliver(q, p, i))

Spec == Init /\ [][Next]_vars /\ Fairness

-----------------------------------------------------------------------------
(* Properties *)

\* What receive_sync_message records as shared heads (after applying the
\* peer's changes, or from the heads the peer announced) are changes both
\* peers hold: p holds them, and so does q.
SharedHeadsHeld ==
    \A p \in Peer : \A q \in Peer \ {p} :
        sync[p][q].sharedHeads \subseteq doc[p] \cap doc[q]

\* Every change generate_sync_message sends to a peer that has not lost its
\* data arrives with its dependencies already there or in the same message,
\* so apply_changes never has to queue one (spec.md section 8, "Dependency
\* closure").  A restarted peer is exempt: until its empty heads reach the
\* sender, sent_hashes still holds what its old process received.
ChangesApplicable == \A p \in Peer \ restarted : queue[p] = {}

\* Every message in flight decodes, at its receiver, to the message its
\* sender generated (spec.md section 8, "Round-trip"): each length prefix
\* Message::encode writes is the length of what it writes after it, and
\* Message::decode reads the fields back in the order they were written.
CodecRoundTrip ==
    \A p \in Peer : \A q \in Peer \ {p} : \A i \in DOMAIN chan[p][q] :
        LET r == Received(chan[p][q][i])
        IN  r.ok /\ r.val = chan[p][q][i]

\* The ancestry of what a session takes to be shared never shrinks
\* (spec.md section 8, "Monotone shared heads").
SharedHeadsMonotone ==
    [][\A p \in Peer : \A q \in Peer \ {p} :
          Ancestors(deps, doc[p], sync[p][q].sharedHeads)
            \subseteq Ancestors(deps', doc'[p], sync'[p][q].sharedHeads)]_vars

SameHistory == \A p, q \in Peer : doc[p] = doc[q]

\* Driven by generate_sync_message and receive_sync_message over a reliable
\* transport, the peers end up with the same history (spec.md section 8,
\* "Convergence", first half).
Convergence == <>[]SameHistory

\* ... and then every generate_sync_message call returns None, so no message
\* is in flight any more (spec.md section 8, "Convergence", second half).
Quiescence == <>[](\A p \in Peer : \A q \in Peer \ {p} : chan[p][q] = <<>>)

=============================================================================
