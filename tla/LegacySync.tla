----------------------------- MODULE LegacySync -----------------------------
(***************************************************************************)
(* The sync protocol of the older backend, automerge-backend/src/sync.rs.  *)
(* Its messages and its change selection are those of automerge's sync.rs *)
(* (module SyncProtocol); its State differs: it remembers the changes it   *)
(* sent (`sent_changes`) and never forgets them, `last_sent_heads` is an   *)
(* Option, it stays silent only when it needs nothing, and it has no reset *)
(* for a peer that lost its data.  The peers' history is as in            *)
(* SyncProtocol; the transport is reliable and FIFO and carries the bytes  *)
(* of SyncMessage::encode.  A peer may restart, keeping or losing its      *)
(* document; a restart closes its sessions, which destroys the SyncState   *)
(* on both sides (spec.md section 3, Lifecycles) and the messages in       *)
(* flight on them.                                                         *)
(***************************************************************************)
EXTENDS Naturals, SequencesExt, Engine, Bloom, SyncCodec

CONSTANTS
    Peer,              \* the replicas
    Change,            \* change hashes that may be created
    None,              \* Option::None
    MaxInFlight,       \* bound on messages queued on one channel
    MaxFalsePositives, \* bound on false positives of one bloom filter
    MaxRestarts        \* bound on the restarts of all peers

VARIABLES deps, created, doc, queue, sync, chan,
          restarts \* the number of restarts so far

vars == <<deps, created, doc, queue, sync, chan, restarts>>

-----------------------------------------------------------------------------
(* Data *)

\* SyncHave::default(): no last_sync and an empty filter.
DefaultSyncHave == [lastSync |-> {}, bloom |-> EmptyBloom]

\* SyncState::new() (state.rs)
NewState == [sharedHeads |-> {}, lastSentHeads |-> None, theirHeads |-> None,
             theirHave |-> None, theirNeed |-> None, sentChanges |-> {}]

-----------------------------------------------------------------------------
(* Backend queries at peer p *)

OurHeads(p) == Heads(deps, doc[p])

MakeBloomFilter(p, lastSync) ==
    {[lastSync |-> lastSync, bloom |-> b] :
        b \in BloomsFrom(GetChanges(deps, doc[p], lastSync), Change,
                         MaxFalsePositives)}

GetChangesToSend(p, have, need) ==
    IF have = <<>> THEN need \cap doc[p]
    ELSE
    LET lastSyncHashes == UNION {have[i].lastSync : i \in DOMAIN have}
        changes        == GetChanges(deps, doc[p], lastSyncHashes)
        notInBlooms    == {c \in changes :
                             \A i \in DOMAIN have : ~BloomContains(have[i].bloom, c)}
        hashesToSend   == Descendants(deps, changes, notInBlooms) \cup need
    IN  ((need \cap doc[p]) \ changes) \cup (changes \cap hashesToSend)

AdvanceHeads(myOldHeads, myNewHeads, ourOldSharedHeads) ==
    (myNewHeads \ myOldHeads) \cup (ourOldSharedHeads \cap myNewHeads)

\* Every bloom filter a peer may build, and every have list it may send.
Blooms == UNION {BloomsFrom(hs, Change, MaxFalsePositives) : hs \in SUBSET Change}
WireHaves == {<<>>} \cup {<<h>> : h \in [lastSync : SUBSET Change, bloom : Blooms]}

\* What SyncMessage::decode returns on the bytes the sender's encode writes, for
\* every message that may be sent.
ReceivedTable == DecodeTable(SUBSET Change, WireHaves, "backend")
Received(m) == Lookup(ReceivedTable, m)

\* Fault: the filter keeps the changes that were sent before.
DeduplicateChangesInverted(previousChanges, newChanges) ==
    newChanges \cap previousChanges

\* deduplicate_changes: the new changes not equal to one sent before.
DeduplicateChanges(previousChanges, newChanges) == newChanges \ previousChanges

\* The reset request: our heads and one default SyncHave.
ResetMessage(ourHeads) ==
    [heads |-> ourHeads, need |-> {}, have |-> <<DefaultSyncHave>>, changes |-> {}]

TheirHeadsOrEmpty(s) == IF s.theirHeads = None THEN {} ELSE s.theirHeads

\* The test after which generate_sync_message returns (state, None).  An
\* absent last_sent_heads never equals our heads.
InSync(s, ourHeads, toSend, ourNeed) ==
    /\ s.lastSentHeads = ourHeads
    /\ s.theirHeads = ourHeads
    /\ toSend = {}
    /\ ourNeed = {}

-----------------------------------------------------------------------------
(* Actions *)

Init ==
    /\ deps = [c \in Change |-> {}]
    /\ created = {}
    /\ doc = [p \in Peer |-> {}]
    /\ queue = [p \in Peer |-> {}]
    /\ sync = [p \in Peer |-> [q \in Peer \ {p} |-> NewState]]
    /\ chan = [p \in Peer |-> [q \in Peer \ {p} |-> <<>>]]
    /\ restarts = 0

Commit(p, c) ==
    /\ c \notin created
    /\ deps' = [deps EXCEPT ![c] = OurHeads(p)]
    /\ created' = created \cup {c}
    /\ doc' = [doc EXCEPT ![p] = @ \cup {c}]
    /\ UNCHANGED <<queue, sync, chan, restarts>>

Send(p, q, m) == chan' = [chan EXCEPT ![p][q] = Append(@, m)]

\* generate_sync_message(sync_state) at p for its session with q, when it
\* returns a message.  The reset request leaves the state as it was.
GenerateSyncMessage(p, q) ==
    LET s        == sync[p][q]
        ourHeads == OurHeads(p)
        ourNeed  == GetMissingDeps(deps, doc[p], queue[p], TheirHeadsOrEmpty(s))
        ourHaves == IF ourNeed \subseteq TheirHeadsOrEmpty(s)
                    THEN {<<h>> : h \in MakeBloomFilter(p, s.sharedHeads)}
                    ELSE {<<>>}
        reset    == /\ s.theirHave \notin {None, <<>>}
                    /\ ~(s.theirHave[1].lastSync \subseteq doc[p])
        toSend   == IF s.theirHave # None /\ s.theirNeed # None
                    THEN GetChangesToSend(p, s.theirHave, s.theirNeed)
                    ELSE {}
        sent     == DeduplicateChanges(s.sentChanges, toSend)
    IN
    /\ Len(chan[p][q]) < MaxInFlight
    /\ \/ /\ reset
          /\ Send(p, q, ResetMessage(ourHeads))
          /\ UNCHANGED sync
       \/ /\ ~reset
          /\ ~InSync(s, ourHeads, toSend, ourNeed)
          /\ \E ourHave \in ourHaves :
                Send(p, q, [heads |-> ourHeads, need |-> ourNeed,
                            have |-> ourHave, changes |-> sent])
          /\ sync' = [sync EXCEPT ![p][q].lastSentHeads = ourHeads,
                                  ![p][q].sentChanges = @ \cup sent]
    /\ UNCHANGED <<deps, created, doc, queue, restarts>>

\* receive_sync_message(message, sync_state) at p, of the message m from q.
ReceiveSyncMessage(p, q, m) ==
    LET s           == sync[p][q]
        beforeHeads == OurHeads(p)
        newDoc      == IF m.changes = {} THEN doc[p]
                       ELSE ApplyDoc(deps, doc[p], queue[p], m.changes)
        advanced    == IF m.changes = {} THEN s.sharedHeads
                       ELSE AdvanceHeads(beforeHeads, Heads(deps, newDoc), s.sharedHeads)
        knownHeads  == m.heads \cap newDoc
    IN
    /\ doc' = [doc EXCEPT ![p] = newDoc]
    /\ queue' = [queue EXCEPT ![p] = (queue[p] \cup m.changes) \ newDoc]
    /\ sync' = [sync EXCEPT ![p][q] =
         [sharedHeads   |-> IF knownHeads = m.heads THEN m.heads
                            ELSE advanced \cup knownHeads,
          lastSentHeads |-> IF m.changes = {} /\ m.heads = beforeHeads
                            THEN m.heads ELSE s.lastSentHeads,
          theirHeads    |-> m.heads,
          theirHave     |-> m.have,
          theirNeed     |-> m.need,
          sentChanges   |-> s.sentChanges]]
    /\ UNCHANGED <<deps, created, restarts>>

\* The transport hands p the bytes of the oldest message q sent it; p
\* decodes them and receives the message, or the decode error goes back to
\* the caller and changes nothing.  (r and m name the decoded values.)
Deliver(q, p) ==
    /\ chan[q][p] # <<>>
    /\ chan' = [chan EXCEPT ![q][p] = Tail(@)]
    /\ \E r \in {Received(Head(chan[q][p]))} :
          IF r.ok THEN \E m \in {r.val} : ReceiveSyncMessage(p, q, m)
          ELSE UNCHANGED <<deps, created, doc, queue, sync>>
    /\ UNCHANGED restarts

\* Peer p restarts with the document it saved, or with none.  Each session
\* of p closes: p and its peer both start the next one from
\* SyncState::new(), and what was in flight between them is lost.
Restart(p) ==
    /\ restarts < MaxRestarts
    /\ restarts' = restarts + 1
    /\ \/ UNCHANGED <<doc, queue>>
       \/ /\ doc' = [doc EXCEPT ![p] = {}]
          /\ queue' = [queue EXCEPT ![p] = {}]
    /\ sync' = [s \in Peer |-> [t \in Peer \ {s} |->
                  IF p \in {s, t} THEN NewState ELSE sync[s][t]]]
    /\ chan' = [s \in Peer |-> [t \in Peer \ {s} |->
                  IF p \in {s, t} THEN <<>> ELSE chan[s][t]]]
    /\ UNCHANGED <<deps, created>>

Next ==
    \/ \E p \in Peer, c \in Change : Commit(p, c)
    \/ \E p, q \in Peer : p # q /\ GenerateSyncMessage(p, q)
    \/ \E p, q \in Peer : p # q /\ Deliver(q, p)
    \/ \E p \in Peer : Restart(p)

\* The callers keep generating and delivering; nothing forces a restart.
Fairness ==
    \A p, q \in Peer : p # q =>
        /\ WF_vars(GenerateSyncMessage(p, q))
        /\ WF_vars(Deliver(q, p))

Spec == Init /\ [][Next]_vars /\ Fairness

-----------------------------------------------------------------------------
(* Properties *)

\* Every message in flight decodes, from the bytes SyncMessage::encode
\* writes for it, to the message itself: the round trip of spec.md
\* section 8 for the backend's codec, which writes raw change bytes.
CodecRoundTrip ==
    \A p \in Peer : \A q \in Peer \ {p} : \A i \in DOMAIN chan[p][q] :
        LET r == Received(chan[p][q][i])
        IN  r.ok /\ r.val = chan[p][q][i]

SameHistory == \A p, q \in Peer : doc[p] = doc[q]

\* Over a reliable transport, the backend's generate_sync_message and
\* receive_sync_message bring the peers to the same history, after any
\* restarts, also of a peer that lost its document: sent_changes is never
\* trimmed, so only a fresh SyncState on both sides lets the changes the
\* restarted peer lost be sent again.
Convergence == <>[]SameHistory

=============================================================================
