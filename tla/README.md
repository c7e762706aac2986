# TLA+ models of automerge-rs

This directory holds TLA+ models of the parts of this repository that
TLC can check. The models cover:

- the peer-to-peer sync protocol of `src/automerge/src/sync.rs` and the
  older copy in `src/automerge-backend/src/sync.rs`;
- the byte format of sync messages in both files (`encode`/`decode`);
- the encode and splice of a run-length encoded column and the byte range
  it is returned at (`src/automerge/src/columnar_2/column_range/rle.rs`);
- the two tree queries that place an op in a list or map object,
  `src/automerge/src/query/insert.rs` (`InsertNth`) and
  `src/automerge/src/query/seek_op.rs` (`SeekOp`), with the ids of
  `src/automerge/src/internal.rs`, and an abstract list object
  (`ListObject`) that the queries are shown to implement.
`PROJECT.json` records every component,
run, mutant, finding and hazard, and it maps every modelled definition to its
source lines.

## The system

Two replicas of a document keep in sync by exchanging messages. Each replica
keeps one sync `State` per peer:

- `shared_heads`: heads both sides are believed to have;
- `last_sent_heads`: our heads as of the last message we sent;
- `their_heads`, `their_have`, `their_need`: what the peer last said, or
  `None` before it has said anything;
- `sent_hashes`: changes already sent in this session.

The protocol has two operations:

- **`generate_sync_message`** (sync.rs 24-95):
  1. Compute `our_need`, the missing dependencies.
  2. Build `our_have`, a bloom filter over our changes since
     `shared_heads`. It is empty if we need something the peer did not
     announce.
  3. Send a reset request if the peer's first Have names a hash we lack.
  4. Otherwise select the changes to send (`get_changes_to_send`): the
     changes the peer's bloom lacks, closed over *dependents*, plus what it
     asked for.
  5. Return `None` if our heads were last sent, equal the peer's heads, and
     nothing is to be sent.
  6. Otherwise drop what is in `sent_hashes`, record the heads and hashes,
     and send.
- **`receive_sync_message`** (sync.rs 105-164):
  1. Apply the changes; any with missing dependencies wait in the engine's
     queue.
  2. Advance `shared_heads` (`advance_heads`).
  3. Trim `sent_hashes` to the changes the peer's heads do not imply
     (`filter_changes`).
  4. Mark the peer's heads as last sent if they equal ours and there were no
     changes.
  5. Replace `shared_heads` with the peer's heads if we know them all (and
     reset the session if those heads are empty, which means the peer lost its
     data); otherwise add the ones we know.
  6. Store the peer's heads, have and need.

The backend version (`automerge-backend/src/sync.rs`) runs the same exchange
with these differences:

- it keeps `sent_changes`, which it never trims;
- it has no lost-data reset;
- `last_sent_heads` is an `Option`;
- it stays silent only when `our_need` is empty too.

Messages cross the network as bytes. `Message::encode` writes a type byte
(0x42), the heads and the need as counted hash vectors, the counted Haves
(last_sync hashes and length-prefixed bloom bytes) and the counted,
length-prefixed changes; `Message::decode` reads them back. The two builds
of automerge (with and without the `storage-v2` feature) and the backend
write the same frame and differ only in the bytes of a change.

An object's ops live in an op tree (`op_tree.rs`, not under `src/`).
A local insert at a visible index asks `InsertNth` where the op goes and
which element it follows, unless the list's `SeqOpsCache` remembers an
insert at the index before; an op received from another actor, and every
set or delete, asks `SeekOp` where it goes and which stored ops it
overwrites. In a map `SeekOp` binary-searches the root for the key and
scans its ops. Both walk the tree:
`query_node` on each node (skip it or descend), `query_element` on each op
of a node they descend into.

The document engine (history, dependency queue, `get_changes`,
`get_missing_deps`, `filter_changes`) and the bloom filter are not under
`src/`. They are modelled from `spec.md` sections 4.1 and 6.

## Modules

| module | models | state / actions |
|---|---|---|
| `Engine` | the change graph (spec §6) | operators: `Ancestors`, `Descendants` (the dependents walk of `get_changes_to_send`), `Heads`, `GetChanges`, `GetMissingDeps`, `ApplyDoc` (apply and drain the queue), `FilterChanges` |
| `Bloom` | `BloomFilter` (spec §4.1) | a filter is the set of hashes inserted plus at most `MaxFalsePositives` absent hashes it also reports (chosen nondeterministically, since the colliding bits depend on hash bytes the model does not have) |
| `SyncCodec` | `Message::encode`/`decode` (sync.rs 299-496) and `SyncMessage::encode`/`decode` (backend 254-343) | operators over byte strings of tokens: `Encode(m, codec)` for the three codecs `"v2"`, `"v1"`, `"backend"`; `Decode(b)` as a chain of readers joined by `Bind` (the `?` of the code); `DecodeTable` tabulates `Decode(Encode(m))` |
| `SyncProtocol` | automerge `sync.rs` | variables `deps`, `created`, `doc`, `queue` (engine), `sync[p][q]` (State), `chan[p][q]` (transport), `lost`, `restarted`; actions `Commit`, `GenerateSyncMessage`, `Deliver` (decode, then `receive_sync_message`), `Lose`, `Restart` |
| `MCSyncProtocol` | TLC instance | two peers, three changes (or two), symmetry set |
| `RleRange` | `RleRange` (`columnar_2/column_range/rle.rs`) | variables `buf` (the buffer holding the column, maybe after another column's bytes) and `range` (the RleRange); `Rows` is what `decoder` yields for `buf[range]`; `CopyPrefix`, `ReplaceRows` and `Splice` are the three loops of `splice` as recursive operators; actions `SpliceCall` (a panic ends the process) and `EncodeCall` |
| `MCRleRange` | TLC instance | two values and Null |
| `LegacySync` | backend `sync.rs` | the same variables without `lost` and `restarted`, `sentChanges` in place of `sentHashes`, and `restarts`; actions `Commit`, `GenerateSyncMessage`, `Deliver` (decode with the backend codec, then `receive_sync_message`), `Restart` (keeping or losing the document, closing both sides' sessions) |
| `MCLegacySync` | TLC instance | as `MCSyncProtocol` |
| `OpTreeQuery` | `InsertNth` with its cache, `SeekOp`, `internal.rs` ids and keys | variables `objType` (`"list"` or `"map"`, chosen in `Init`), `log` (every op made, with the ids its maker had applied), `opsAt[r]` (a replica's ops in tree order), `applied[r]`, `cache[r]` (`SeqOpsCache.last`), `reqIndex[r]` (the index r's last insert asked for, a history variable); actions `Insert` (cache or InsertNth, then insert and update the cache), `Update` (set or delete a visible element, placed by SeekOp), `MapUpdate` (set or delete a map key, placed by SeekOp), `Deliver` (a remote op in causal order, placed by SeekOp); `Search(q, layout)` is the tree walk over one split of the ops into leaves and separators; `List == INSTANCE ListObject WITH ...` |
| `ListObject` | what a list object promises | variables `elems[r]` (elements in order, deleted ones included), `visible[r]`, `origin[e]`; `asked[r]` (the index of r's last local insert, a history variable); actions `Create` (local insert at a visible index, recorded in `asked`), `Receive` (a remote element lands after its origin), `Flip` (show or hide one element) |
| `MCOpTreeQuery` | TLC instance | actors 1 and 2, map keys `k1 < k2` |

Correspondence to the code:

- Every `return` of `generate_sync_message` is a disjunct or a guard: the
  reset request, the silence test (`InSync`, a negated guard) and the normal
  message.
- A call that returns `None` changes nothing, so it is not a step.
- `receive_sync_message` is one action, including the queue drain of
  `apply_changes`, `advance_heads`, `filter_changes` and the lost-data reset,
  in the code's order. The failing branch of `apply_changes` (malformed
  changes) is not modelled: a peer only ever sends changes from its own
  history.
- A change hash is a model value. `deps[c]` is fixed when the change is
  committed, and its dependencies are the committing peer's heads.
- Vectors of hashes are sets. The code sorts and deduplicates them, and
  compares them only for equality and membership. The codec writes them in
  the order `HashOrder` (the hashes' byte order).
- `Deliver` hands the receiver the decode of the bytes the sender's encode
  wrote (`Received(m)`); a decode error drops the message, as the caller
  gets an `Err` and the State is untouched. `Codec` chooses the build.

Correspondence of the codec:

- A byte string is a sequence of tokens. Counts and lengths are LEB128
  bytes (`ULeb`, `ReadLeb`), as `leb128::write::unsigned` and the decoders
  write and read them. A hash is one token, as are the bloom bytes: the
  model has no hash bytes, and only lengths matter to the framing.
- A change is its raw chunk (one token, or two for a change in
  `Compressible`, one large enough to be deflated) or its deflated chunk
  (one token). `EncodeChange` writes, per build, the length and the chunk
  the code writes; `ParseChange` accepts bytes that start with a chunk of a
  change, and anything else is malformed.
- A decoder that finds a token of another kind where it expects a byte is
  reading garbage; the model fails the decode as malformed.
- The decode of every message that may be sent is computed once, into a
  table (`DecodeTable`), because TLC re-evaluates operator arguments in
  liveness checking.
- For the same reason the let bindings of `generate_sync_message` and
  `receive_sync_message` are bound by `\E x \in {e}` (one value), so that
  the fairness conditions compute each of them once.

Correspondence of the tree queries:

- A replica's ops are one sequence in tree order. The tree is any split of
  it into leaves of at most `MaxNode` ops with one separator op between two
  leaves (`Layouts`); properties quantify over every split, since
  rebalancing may produce any of them.
- `InsertNthQueryNode`/`InsertNthQueryElement` and
  `SeekOpQueryNode`/`SeekOpQueryElement` translate `query_node` and
  `query_element` of the two files line by line, the index's
  `visible_len`, `has_visible` and op lookup being operators over a node.
- `InsertNthCacheLookup`/`InsertNthCacheUpdate` translate
  `cache_lookup_seq`/`cache_update_seq`. The cache lives in `object_data.rs`
  and is reset there, outside this repository; `Forget` assumes it is reset
  by every change to the object other than a local insert (`Update`,
  `MapUpdate`, `Deliver`). `InsertQuery` uses the cache's answer on a hit
  and walks the tree otherwise, as `OpTreeInternal::search` does.
- `MapScan` is the `Key::Map` loop of `query_node_with_metadata`;
  `KeyLowerBound` stands for `binary_search_by` (not under `src/`), which
  returns the first index whose key is not less than the op's.
- The object is either a list or a map, chosen in `Init`, so the run checks
  both kinds without the product of their state spaces.

`OpTreeQuery` is shown to implement `ListObject`: `ListRefined ==
List!Spec`, where `List` instantiates `ListObject` with `elems` the ids of
a replica's insert ops in tree order (`ElemOrder`), `asked` the history
variable `reqIndex`, `visible` the elements
with a visible op, and `origin` the key of the insert op that made each
element. A local `Insert` is `Create`; a `Deliver` of an insert is
`Receive`; a set or delete that shows or hides an element is `Flip`; any
other step (a set of a visible element, any step of a map) stutters.

The transport has one sequence per ordered pair of peers. Constants decide
whether it may deliver out of order (`Reorder`), keep a delivered copy
(`Duplicate`), or lose up to `MaxLoss` messages. `Restart(p)` empties p's
history and sessions and drops the messages addressed to it. The other peer
keeps its State, as a running process would. `RestartedMayCommit` decides
whether p commits again before resyncing.

`LegacySync` restarts differently, because the backend has no lost-data
reset to rely on: `Restart(p)` (at most `MaxRestarts`) keeps or empties p's
document and closes p's sessions, so both p and its peer start the next
session from `SyncState::new()` and the messages in flight are lost. This
is the session lifecycle of spec §3 ("destroyed when the session closes").

`RleRange` abstracts the bytes `RleEncoder` writes (not in this
repository) to one token per run of equal rows, so a column takes fewer
tokens than it has rows and a range has to be right to decode it. An
output buffer may already hold another column's run (`Prefix`): every test
in rle.rs writes into an empty buffer, where a range counted from 0 would
also be right.

## Runs

All sync runs use two peers. `MaxInFlight` bounds each channel (1 or 2).
`CHECK_DEADLOCK FALSE` is used everywhere because the systems really stop:
once both sides are in sync and the finite set of changes is used up, no
sync step is enabled; a panic ends `rle_splice`; `optree_query` stops when
`MaxOps` ops are made and applied everywhere.

| run | cfg | expect | properties | shows |
|---|---|---|---|---|
| sync_fp_safety | MCSyncFpSafety | pass | SharedHeadsHeld, SharedHeadsMonotone | With one bloom false positive and FIFO delivery that may duplicate or lose one message (storage-v2 codec, no deflated change), shared heads are held by both peers and never lose ancestry (534,687 states) |
| sync_converge | MCSyncConverge | pass | ChangesApplicable, CodecRoundTrip, Convergence | Over reliable FIFO delivery with exact blooms and the codec without storage-v2 (c1 deflated), one peer may restart empty and resyncs before committing: every message decodes to itself, every change sent to a peer that kept its data applies on arrival, and the histories converge (284,661 states) |
| sync_reorder_shared | MCSyncReorderShared | violation | SharedHeadsMonotone | A stale message delivered late moves `shared_heads` back |
| sync_false_positive | MCSyncFalsePositive | violation | ChangesApplicable | A false positive on a dependency sends the dependent alone |
| sync_chatter | MCSyncChatter | violation | Quiescence | A peer answered with silence keeps sending forever |
| sync_loss | MCSyncLoss | violation | Convergence | After one lost message the peers never converge |
| sync_restart_commit | MCSyncRestartCommit | violation | Convergence | A peer that restarts and commits before resyncing never gets back its lost changes |
| sync_codec_v2 | MCSyncCodecV2 | violation | CodecRoundTrip | With storage-v2, a message carrying a deflated change does not decode |
| rle_splice | MCRleRange | pass | EncodeRoundTrip, SpliceIsVecSplice, PanicsOnlyOutOfBounds | For every column of up to 3 rows, written into an empty buffer or after another column, `encode` returns a range that decodes to its items; for every start and end in 0..4 and up to 2 replacement rows, `splice` gives the rows `Vec::splice` would (with the range clipped), and panics exactly when `start` passes the end (4,828 states) |
| legacy_converge | MCLegacyConverge | pass | CodecRoundTrip, Convergence | The backend's messages decode to themselves, and the backend converges over reliable FIFO, also after a restart in which a peer may lose its document (102,021 states) |
| optree_query | MCOpTreeQuery | pass | SeekOpIsScan, ReplicasAgree, ListRefined | Two replicas editing one list or one map and exchanging ops causally: `SeekOp` places every op where a flat scan would, on every tree; replicas that hold the same ops hold them in one order; every step, cached inserts included, implements `ListObject` (438,170 states) |
| optree_insert_nth | MCOpTreeInsertNth | violation | InsertNthIsNth | On some tree, `InsertNth` places an insert one element past the requested index |

Properties:

- **SharedHeadsHeld**: every shared head is in both histories.
- **SharedHeadsMonotone**: an action property. The ancestry of `shared_heads`
  never shrinks.
- **ChangesApplicable**: the engine queue of a peer that did not restart
  stays empty, so no change arrives without its dependencies.
- **CodecRoundTrip**: every message in flight decodes, from the bytes its
  sender's encode writes, to the message itself (spec §8, "Round-trip").
- **Convergence**: `<>[]` both histories equal.
- **Quiescence**: `<>[]` no message is in flight.
- **EncodeRoundTrip**: an action property. The range `encode` returns
  decodes, in the buffer it wrote to, to the items it was given, also when
  the buffer held another column before.
- **SpliceIsVecSplice**: an action property. A splice that does not panic
  leaves, at the range it returns,
  `SubSeq(rows, 1, start) \o with \o SubSeq(rows, max(start, end) + 1, Len(rows))`.
- **PanicsOnlyOutOfBounds**: an action property. A splice panics exactly
  when `start > Len(rows)`.
- **InsertNthIsNth**: for every replica, every index up to one past the end
  and every tree, `InsertNth` answers the place right after the index-th
  visible element (and that element as the key), or `InvalidIndex` exactly
  past the end.
- **SeekOpIsScan**: for every op a replica can apply next and every tree,
  `SeekOp` finds the position of a flat scan from the op's element and the
  ops it overwrites.
- **ReplicasAgree**: two replicas that applied the same ops hold them in the
  same order with the same successors.
- **ListRefined**: every step of the replicas, cached inserts included, is a
  step of `ListObject`: elements never move or leave a replica's order, a
  local insert asked for at index t (the index `reqIndex` records, which
  `Create` takes) shows the new element at index t + 1, right after the t-th
  visible element, and a
  remote insert lands after the element it was inserted after.

`splice` is documented as "similar to `Vec::splice`", and it is more lenient
than `Vec::splice`:

- an `end` past the column is accepted;
- a reversed range (`end < start`) inserts without removing.

`SpliceIsVecSplice` states this clipped semantics, so callers that rely on a
panic for those ranges get none.

### Findings

Each violation run is a disagreement between the code and `spec.md` or a
comment of the code. See `findings` in `PROJECT.json`.

1. **Reordering.** `shared_heads` is replaced, not joined, when all the
   message's heads are known (sync.rs:142). So an out-of-order old message
   makes it regress. With the peer's first message (empty heads) it also
   triggers the lost-data reset. Spec §5 says reordering is safe.
2. **False positives.** The closure of bloom misses adds dependents, not
   dependencies (sync.rs:217-226). Spec §4.6 and §8 promise dependency
   closure. The receiver recovers through `need`.
3. **Chatter.** A receiver whose heads equal the sender's records them as
   last sent and falls silent (sync.rs:133). The sender's `their_heads` stays
   `None`, so it never stops sending. The backend has the same behaviour.
4. **Loss.** A change whose message is lost stays in `sent_hashes` and is
   never resent (sync.rs:80). Spec §1 claims convergence over lossy
   transports.
5. **Restart then commit.** The lost-data reset needs empty heads
   (sync.rs:144).
6. **storage-v2 change length.** `Message::encode` with storage-v2 writes
   `raw_bytes().len()` and then `compressed_bytes()` (sync.rs:374-375). For a
   change large enough to be deflated the prefix is longer than the bytes,
   so `decode` reads into the next field or past the end and fails. Spec
   §4.2 and the round trip of §8 say otherwise; the other build (line 396)
   and the backend (line 268) write the bytes they count. TLC finds it in
   four steps: a commits c1, b sends its first message, a receives it and
   sends c1.
7. **InsertNth last_seen.** When `query_node` skips a node, `last_seen`
   becomes the element of the node's last op only if that element has a
   visible op in the node (insert.rs:107). If the last op is an insert whose
   visible op lies beyond the node, the count misses it and the insert lands
   one element too far. The comment at lines 100-105 says such an op "will be
   counted as seen there".

### Fairness

Liveness runs assume two kinds of weak fairness:

- weak fairness of `GenerateSyncMessage(p, q)`, because applications call
  `generate_sync_message` repeatedly until it returns `None`;
- weak fairness of delivery on each channel (a reliable transport).

`Commit`, `Lose` and `Restart` (in both sync modules) get no fairness. Liveness runs use no symmetry.
`OpTreeQuery` and `RleRange` check safety only.

### Bounds

- Three changes are enough for a chain (c1 <- c2) plus a concurrent change,
  which is what every sync finding needs.
- Two changes are used where a restart or loss already multiplies the state
  space.
- One in-flight message per channel still lets both peers send concurrently.
- One backend restart (`MaxRestarts = 1`), at any point and with or
  without the document, is enough for a session closed with changes in
  flight and for a peer that must be sent its whole history again.
- RLE columns of up to three rows and a one-run prefix give runs of one to
  three rows and a range that starts at 0 or 1.
- Two in flight are needed for reordering.
- `MaxFalsePositives = 1` exercises a single collision.
- One compressible change (`Compressible = {c1}`) makes a raw chunk of two
  bytes and a deflated chunk of one, which is all the length framing tells
  apart. Runs with symmetry keep `Compressible` empty, so that permuting the
  changes does not change what the bytes decode to.
- Five ops with leaves of at most two ops give trees of one to three leaves
  with separators, two concurrent updates of one element, and concurrent
  inserts after one element. The `InsertNth` counterexample needs five ops
  already made and an insert query over them: `optree_insert_nth` checks
  that query directly. `ListRefined` would need the sixth op to be made;
  with `MaxOps = 6` a random simulation reaches that insert within seconds
  and reports it as a `ListRefined` violation, while exhaustive search at
  six ops is out of reach, so `optree_query` keeps five ops and passes.
  Two map keys give a key with ops on both sides of it.

### Mutants

Every property of a passing run is broken by a plausible code mutant. The
mutant operators are written next to the definitions they replace:

| mutant | replaces | fault in the code it stands for |
|---|---|---|
| `SharedHeadsAfterUnfiltered` | `SharedHeadsAfter` | unknown heads counted as shared |
| `SharedHeadsAfterMeet` | `SharedHeadsAfter` | intersection in place of union |
| `ApplyDocOnePass` | `ApplyDoc` | a queue drain without retry |
| `EncodeChangeRawLength` | `EncodeChange` | every build writes the raw length before a change |
| `InSyncHeadsUnchanged` | `InSync` | `heads_equal` dropped from the silence test |
| `EncodeHaveUnprefixed` | `EncodeHave` | the bloom bytes written without their length |
| `DeduplicateChangesInverted` | `DeduplicateChanges` | the `!` of the dedup filter dropped |
| `EncodeFromZero` | `Encode` | the range counted from 0, not from the buffer's length |
| `ReplaceRowsNoSkip` | `ReplaceRows` | the replace loop does not advance the decoder |
| `CopyPrefixBreak` | `CopyPrefix` | the prefix loop stops instead of panicking |
| `SeekOpQueryNodeUncounted` | `SeekOpQueryNode` | a skipped node's ops not counted in `pos` |
| `NextIdOwn` | `NextId` | the op counter ignores ops received from others |
| `InsertNthCacheLookupSame` | `InsertNthCacheLookup` | the cache answers an insert at the cached index itself, its target test without the `+ 1` |

## Not modelled

- **RLE byte encoding.** `RleEncoder`/`RleDecoder` are not in this
  repository; their bytes are abstracted to one token per run (literal
  runs, null runs and LEB128 lengths are not distinguished).
- **The cache's reset** lives in `object_data.rs`, outside `src/`; the
  model assumes every other change to the object resets it.
- **Several objects.** A run holds one list or one map; ops of different
  objects live in different trees and do not interact in these queries.
- **B-tree occupancy.** Trees are every split into bounded leaves, not the
  splits `op_tree.rs` rebalancing produces; a property that holds for every
  split holds for those.
- **A backend session resumed across a peer's restart.** `LegacySync`
  restarts close both sides' sessions. A caller that keeps its backend
  State while the peer restarts empty never resends what the peer lost
  (no lost-data reset, `sent_changes` never trimmed); automerge's version of
  that scenario is `sync_restart_commit`, and the backend's has no run of
  its own.
- **Growth of `sent_changes`.** It is never trimmed within a session; a
  model with a bounded set of changes cannot show unbounded growth.
- **Three peers.** The `advance_heads` hazard with a change drained from the
  queue that came from a third peer needs three peers, four changes and a
  false positive; that instance does not finish in reasonable time.
- **Hash bytes, bloom bits, deflate.** Hashes and bloom bytes are single
  tokens; which hashes collide in a bloom filter is chosen
  nondeterministically; deflate is a shorter chunk.
- **`automerge-frontend/tests`** is a test file.
