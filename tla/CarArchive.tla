----------------------------- MODULE CarArchive -----------------------------
(***************************************************************************)
(* The CAR decoder of crates/atrg-firehose and its use for commits: the    *)
(* "blocks" of a #commit frame are read section by section, and each       *)
(* operation of the commit gets the block of its CID.                      *)
(*                                                                         *)
(* The machine's words are scaled down.  A byte has 3 bits, of which a     *)
(* varint uses Group = 2, and a varint has Width = 5 bits: as with 8, 7    *)
(* and 64, the last byte of the longest varint is not used up.             *)
(***************************************************************************)
EXTENDS Naturals, Sequences, FiniteSetsExt

CONSTANTS
    Blocks,      \* what relays store: [cid, data]
    MaxBlocks,   \* blocks of an archive (bound)
    Headers,     \* header bytes
    V0, V0Length,    \* the two bytes a CIDv0 begins with; its bytes in all
    Unsound      \* first bytes of data that is not CBOR

Group == 2
Width == 5
More == 2 ^ Group    \* the continuation bit
Byte == 0..(2 * More - 1)

VARIABLES
    input,       \* the archive and the header, and the bytes that have arrived
    rest,        \* cursor
    phase,       \* "header", "blocks" or "done"
    blocks       \* CarDecoded::blocks: <<CID, value>>

vars == <<input, rest, phase, blocks>>

-----------------------------------------------------------------------------
(* Encoding, as the relay does it. *)

Varint(n) ==
    LET digits == CHOOSE d \in 1..3 : n < More ^ d /\ (d = 1 \/ n >= More ^ (d - 1))
    IN  [i \in 1..digits |-> ((n \div More ^ (i - 1)) % More) + (IF i < digits THEN More ELSE 0)]

Section(block) == Varint(Len(block.cid \o block.data)) \o block.cid \o block.data
Encoded(archive, header) ==
    LET upTo[n \in 0..Len(archive)] ==
            IF n = 0 THEN Varint(Len(header)) \o header
            ELSE upTo[n - 1] \o Section(archive[n])
    IN  upTo[Len(archive)]

Archives == UNION {[1..n -> Blocks] : n \in 0..MaxBlocks}

\* A CIDv1 is its version, the codec, the hash and its length, and the digest.
IsCid(cid) ==
    \/ Len(cid) = V0Length /\ Len(cid) >= 2 /\ SubSeq(cid, 1, 2) = V0
    \/ \E codec, hash \in 0..(2 ^ Width - 1), n \in 0..Len(cid) :
          cid = Varint(1) \o Varint(codec) \o Varint(hash) \o Varint(n)
                    \o SubSeq(cid, Len(cid) - n + 1, Len(cid))

-----------------------------------------------------------------------------
(* Decoding *)

Failed == [ok |-> FALSE, value |-> 0, rest |-> <<>>]

\* Mutant: the groups are put together in the wrong order.
JoinedReversed(bytes, n) ==
    LET value[i \in 0..n] ==
            IF i = 0 THEN 0 ELSE value[i - 1] + (bytes[i] % More) * More ^ (n - i)
    IN  value[n] % 2 ^ Width

\* The loop of read_varint over n bytes; what does not fit is shifted out.
Joined(bytes, n) ==
    LET value[i \in 0..n] ==
            IF i = 0 THEN 0 ELSE value[i - 1] + (bytes[i] % More) * More ^ (i - 1)
    IN  value[n] % 2 ^ Width

\* read_varint: the bytes run out, or the shift reaches Width, before a byte
\* without the continuation bit.
ReadVarint(bytes) ==
    LET ends == {i \in 1..3 : i <= Len(bytes) /\ bytes[i] < More}
    IN  IF ends = {} THEN Failed
        ELSE [ok |-> TRUE, value |-> Joined(bytes, Min(ends)),
              rest |-> SubSeq(bytes, Min(ends) + 1, Len(bytes))]

\* A reader that has failed stays failed (`?`).
Then(r) == IF r.ok THEN ReadVarint(r.rest) ELSE Failed

\* read_cid: how long the CID at the start of a section is, 0 for an error.
CidLength(s) ==
    LET version == ReadVarint(s)
        digest == Then(Then(Then(version)))
    IN  IF Len(s) >= 2 /\ SubSeq(s, 1, 2) = V0
        THEN IF Len(s) >= V0Length THEN V0Length ELSE 0
        ELSE IF digest.ok /\ version.value = 1 /\ digest.value <= Len(digest.rest)
        THEN Len(s) - Len(digest.rest) + digest.value
        ELSE 0

\* The value of a block, if the CID leaves some data and it is CBOR.
Decoded(s) ==
    LET n == CidLength(s)
    IN  IF n = 0 \/ n = Len(s) \/ s[n + 1] \in Unsound THEN {}
        ELSE {<<SubSeq(s, 1, n), SubSeq(s, n + 1, Len(s))>>}

Inputs == UNION {{[archive |-> a, header |-> h, length |-> n] :
                     n \in 0..Len(Encoded(a, h))} : a \in Archives, h \in Headers}

InitAt(i) ==
    /\ input = i
    /\ rest = SubSeq(Encoded(i.archive, i.header), 1, i.length)
    /\ phase = "header" /\ blocks = {}

Init == \E i \in Inputs : InitAt(i)

\* The header is skipped; an archive without one is empty (unwrap_or_else).
ReadHeader ==
    /\ phase = "header"
    /\ LET length == ReadVarint(rest)
       IN  IF length.ok /\ length.value <= Len(length.rest)
           THEN /\ phase' = "blocks"
                /\ rest' = SubSeq(length.rest, length.value + 1, Len(length.rest))
           ELSE phase' = "done" /\ UNCHANGED rest
    /\ UNCHANGED <<input, blocks>>

\* One turn of the loop: a later block of the same CID replaces an earlier one.
ReadSection ==
    /\ phase = "blocks"
    /\ LET length == ReadVarint(rest)
           section == SubSeq(length.rest, 1, length.value)
       IN  IF length.ok /\ length.value # 0 /\ length.value <= Len(length.rest)
           THEN /\ rest' = SubSeq(length.rest, length.value + 1, Len(length.rest))
                /\ blocks' = {b \in blocks : \A new \in Decoded(section) : b[1] # new[1]}
                                 \cup Decoded(section)
                /\ UNCHANGED phase
           ELSE phase' = "done" /\ UNCHANGED <<rest, blocks>>
    /\ UNCHANGED input

Next == ReadHeader \/ ReadSection

Spec == Init /\ [][Next]_vars

\* decode_commit: the record of an operation whose "cid" is that CID, as a link
\* (with a zero byte in front, which is skipped) or as bytes.
Link(cid) == <<0>> \o cid
Named(bytes) == IF bytes # <<>> /\ bytes[1] = 0 THEN Tail(bytes) ELSE bytes
RecordOf(bytes) == {b[2] : b \in {x \in blocks : x[1] = Named(bytes)}}

-----------------------------------------------------------------------------
(* Properties *)

\* The blocks whose sections have arrived as a whole.
Arrived ==
    {i \in DOMAIN input.archive :
        Len(Encoded(SubSeq(input.archive, 1, i), input.header)) <= input.length}

\* However much of an archive has arrived, an operation finds the record that
\* the relay stored under its CID if the section arrived whole, the last one if
\* there are several, and otherwise nothing: neither a truncated section nor a
\* block that is not CBOR makes another operation lose its record or get one
\* that is not its own.
RecordsAreTheirs ==
    phase = "done" =>
        \A i \in DOMAIN input.archive :
            LET cid == input.archive[i].cid
                sound == {j \in Arrived : /\ input.archive[j].cid = cid
                                          /\ input.archive[j].data[1] \notin Unsound}
            IN  RecordOf(cid) = RecordOf(Link(cid))
                /\ RecordOf(cid) = {input.archive[j].data : j \in {k \in sound : k = Max(sound)}}
=============================================================================
