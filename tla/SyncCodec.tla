------------------------------ MODULE SyncCodec ------------------------------
(***************************************************************************)
(* The byte format of a sync message: Message::encode and Message::decode  *)
(* of automerge/src/sync.rs, in its two builds (with and without the      *)
(* storage-v2 feature), and SyncMessage::encode/decode of                  *)
(* automerge-backend/src/sync.rs.  The three write the same frame: the     *)
(* type byte 0x42, heads and need as counted hash vectors, the counted    *)
(* Haves (last_sync hashes, length-prefixed bloom bytes) and the counted   *)
(* length-prefixed changes.  They differ in the bytes of a change.         *)
(*                                                                         *)
(* A byte string is a sequence of tokens [k, v, i].  A count or length is  *)
(* a run of "byte" tokens (unsigned LEB128, as leb128::write::unsigned     *)
(* and the decoders' u32/u64 reads).  A hash, whose 32 bytes the model     *)
(* does not have, is one "hash" token; the bloom bytes are one "bloom"     *)
(* token; a change is a run of "raw" or "deflate" tokens, whose lengths    *)
(* are what the framing depends on.  A decoder that reads a token of       *)
(* another kind where it expects a byte reads garbage: the model fails     *)
(* the decode as malformed.                                                *)
(***************************************************************************)
EXTENDS Naturals, SequencesExt

CONSTANTS
    Compressible, \* changes whose raw bytes are long enough to be deflated
    HashOrder     \* every change hash once, in ascending byte order

\* MESSAGE_TYPE_SYNC
MESSAGE_TYPE_SYNC == 66

Tok(k, v, i) == [k |-> k, v |-> v, i |-> i]
Byte(n) == Tok("byte", n, 0)

\* A change's uncompressed chunk (raw_bytes) and what compressed_bytes
\* returns: a shorter deflated chunk when the change is large enough,
\* else the raw chunk itself.
RawBytes(c) ==
    [j \in 1..(IF c \in Compressible THEN 2 ELSE 1) |-> Tok("raw", c, j)]
CompressedBytes(c) ==
    IF c \in Compressible THEN <<Tok("deflate", c, 1)>> ELSE RawBytes(c)

\* leb128::write::unsigned: seven bits per byte, high bit on all but the
\* last.
RECURSIVE ULeb(_)
ULeb(n) == IF n < 128 THEN <<Byte(n)>>
           ELSE <<Byte(128 + (n % 128))>> \o ULeb(n \div 128)

\* encode_many / encode_vec: the count, then every item's bytes (the
\* items given as their encodings).
EncodeMany(encoded) == ULeb(Len(encoded)) \o FlattenSeq(encoded)

\* A set of hashes as the sorted vector the code keeps it in.
Sorted(hs) == SelectSeq(HashOrder, LAMBDA h : h \in hs)

\* encode_hashes: a counted vector of hashes (sorted, as it asserts).
EncodeHashes(hs) ==
    LET s == Sorted(hs) IN EncodeMany([j \in DOMAIN s |-> <<Tok("hash", s[j], 0)>>])

\* BloomFilter::to_bytes
BloomBytes(bl) == <<Tok("bloom", bl, 0)>>

\* Fault: the bloom bytes are written without their length.
EncodeHaveUnprefixed(h) == EncodeHashes(h.lastSync) \o BloomBytes(h.bloom)

\* A Have: its last_sync hashes, then the length-prefixed bloom bytes.
EncodeHave(h) ==
    EncodeHashes(h.lastSync) \o ULeb(Len(BloomBytes(h.bloom))) \o BloomBytes(h.bloom)

\* Fault: every build prefixes a change with its raw length.
EncodeChangeRawLength(c, codec) ==
    ULeb(Len(RawBytes(c)))
      \o (IF codec = "backend" THEN RawBytes(c) ELSE CompressedBytes(c))

\* The bytes of one change of the change vector:
\*   "v2"      storage-v2 encode: raw_bytes().len(), then compressed_bytes();
\*   "v1"      encode without storage-v2: compress(), then compressed_bytes()
\*             as a length-prefixed vector;
\*   "backend" SyncMessage::encode: raw_bytes() as a length-prefixed vector.
EncodeChange(c, codec) ==
    CASE codec = "v2"      -> ULeb(Len(RawBytes(c))) \o CompressedBytes(c)
      [] codec = "v1"      -> ULeb(Len(CompressedBytes(c))) \o CompressedBytes(c)
      [] codec = "backend" -> ULeb(Len(RawBytes(c))) \o RawBytes(c)

\* Message::encode
Encode(m, codec) ==
    <<Byte(MESSAGE_TYPE_SYNC)>>
      \o EncodeHashes(m.heads)
      \o EncodeHashes(m.need)
      \o EncodeMany([j \in DOMAIN m.have |-> EncodeHave(m.have[j])])
      \o EncodeMany(LET s == Sorted(m.changes)
                    IN  [j \in DOMAIN s |-> EncodeChange(s[j], codec)])

-----------------------------------------------------------------------------
(* Decoding.  A reader at position i of b returns Ok(value, next position) *)
(* or a Fail(error).                                                       *)

Ok(v, i) == [ok |-> TRUE, val |-> v, pos |-> i]
Fail(e) == [ok |-> FALSE, err |-> e]

\* The `?` of the decoders: on success continue with F(value, position),
\* else return the error.
Bind(r, F(_, _)) == IF r.ok THEN F(r.val, r.pos) ELSE r

\* leb128_u64 / Decoder::read::<u32>
RECURSIVE ReadLeb(_, _)
ReadLeb(b, i) ==
    IF i > Len(b) THEN Fail("NotEnoughInput")
    ELSE IF b[i].k # "byte" THEN Fail("Malformed")
    ELSE IF b[i].v < 128 THEN Ok(b[i].v, i + 1)
    ELSE Bind(ReadLeb(b, i + 1), LAMBDA hi, j : Ok(b[i].v - 128 + 128 * hi, j))

\* length_prefixed_bytes / Decoder::read::<Vec<u8>>: a length, then that
\* many bytes, or not enough input.
ReadBytes(b, i) ==
    Bind(ReadLeb(b, i), LAMBDA n, j :
        IF j + n - 1 > Len(b) THEN Fail("NotEnoughInput")
        ELSE Ok(SubSeq(b, j, j + n - 1), j + n))

\* The hashes of a counted vector (change_hash / read_bytes(HASH_SIZE)).
RECURSIVE ReadHashItems(_, _, _, _)
ReadHashItems(b, i, k, acc) ==
    IF k = 0 THEN Ok(acc, i)
    ELSE IF i > Len(b) THEN Fail("NotEnoughInput")
    ELSE IF b[i].k # "hash" THEN Fail("Malformed")
    ELSE ReadHashItems(b, i + 1, k - 1, acc \cup {b[i].v})

ReadHashes(b, i) ==
    Bind(ReadLeb(b, i), LAMBDA n, j : ReadHashItems(b, j, n, {}))

\* BloomFilter::parse / try_from over the bloom bytes.
ParseBloom(s) ==
    IF s # <<>> /\ s[1].k = "bloom" THEN Ok(s[1].v, 0) ELSE Fail("Malformed")

\* parse_have / the have loop: last_sync hashes, then the bloom bytes.
RECURSIVE ReadHaveItems(_, _, _, _)
ReadHaveItems(b, i, k, acc) ==
    IF k = 0 THEN Ok(acc, i)
    ELSE Bind(ReadHashes(b, i), LAMBDA ls, j :
         Bind(ReadBytes(b, j), LAMBDA bb, l :
         Bind(ParseBloom(bb), LAMBDA bl, unused :
              ReadHaveItems(b, l, k - 1,
                            Append(acc, [lastSync |-> ls, bloom |-> bl])))))

\* StoredChange::parse / Change::from_bytes over the bytes of one change:
\* they must start with the raw or the deflated chunk of a change; what
\* follows the chunk is ignored.
ParseChange(s) ==
    IF /\ s # <<>>
       /\ s[1].k \in {"raw", "deflate"}
       /\ IsPrefix(RawBytes(s[1].v), s) \/ IsPrefix(CompressedBytes(s[1].v), s)
    THEN Ok(s[1].v, 0)
    ELSE Fail("Malformed")

RECURSIVE ReadChangeItems(_, _, _, _)
ReadChangeItems(b, i, k, acc) ==
    IF k = 0 THEN Ok(acc, i)
    ELSE Bind(ReadBytes(b, i), LAMBDA cb, j :
         Bind(ParseChange(cb), LAMBDA ch, unused :
              ReadChangeItems(b, j, k - 1, acc \cup {ch})))

\* Message::decode: the type byte, heads, need, the Haves, the changes;
\* bytes after the last change are ignored.
Decode(b) ==
    IF b = <<>> THEN Fail("NotEnoughInput")
    ELSE IF b[1].k # "byte" \/ b[1].v # MESSAGE_TYPE_SYNC THEN Fail("WrongType")
    ELSE Bind(ReadHashes(b, 2), LAMBDA hd, i1 :
         Bind(ReadHashes(b, i1), LAMBDA nd, i2 :
         Bind(ReadLeb(b, i2), LAMBDA hc, i3 :
         Bind(ReadHaveItems(b, i3, hc, <<>>), LAMBDA hv, i4 :
         Bind(ReadLeb(b, i4), LAMBDA cc, i5 :
         Bind(ReadChangeItems(b, i5, cc, {}), LAMBDA ch, i6 :
              Ok([heads |-> hd, need |-> nd, have |-> hv, changes |-> ch], i6)))))))

-----------------------------------------------------------------------------
(* What a receiver's decode returns on the bytes the sender's encode       *)
(* writes, for every message with heads, need and changes in hashSets and  *)
(* a have list in haves: a function of the message, indexed field by       *)
(* field.  Stored(f) is the function f itself, which TLC then holds as a   *)
(* table of its values rather than recomputing them.                       *)

Stored(f) == f @@ f

DecodeTable(hashSets, haves, codec) ==
    Stored([hd \in hashSets |-> Stored([nd \in hashSets |->
        Stored([hv \in haves |-> Stored([cs \in hashSets |->
            Decode(Encode([heads |-> hd, need |-> nd, have |-> hv, changes |-> cs],
                          codec))])])])])

Lookup(table, m) == table[m.heads][m.need][m.have][m.changes]

=============================================================================
