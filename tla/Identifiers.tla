---------------------------- MODULE Identifiers ----------------------------
(***************************************************************************)
(* The texts that at-rust-go hands out and reads back: TIDs and AT-URIs    *)
(* (crates/atrg-repo), cursors and limits (crates/atrg-core), feed URIs    *)
(* (crates/atrg-feed).  A text is a sequence of tokens: one letter stands  *)
(* for any run of characters without a meaning of their own.  The machine  *)
(* writes one text and reads it, whole or as it was changed on the way.    *)
(***************************************************************************)
EXTENDS Integers, Sequences, FiniteSets, FiniteSetsExt, SequencesExt

CONSTANTS
    Texts,       \* texts a caller may bring
    Stamps,      \* timestamps of cursors
    Feeds,       \* ids of the registered feeds
    Limits,      \* limits a request may ask for
    MaxLimit

\* A TID's 64 bits are 13 characters of 5 bits in the code: here 5 bits, and 3
\* characters of 2, the first of which is likewise never used up.
Bits == 2
Characters == 3
Values == 0..(2 ^ 5 - 1)

VARIABLES
    job,         \* what is written, and from what
    text,        \* the text
    back         \* what reading it gave: {} for an error

vars == <<job, text, back>>

Init == job = [kind |-> "none"] /\ text = <<>> /\ back = {}

-----------------------------------------------------------------------------
(* TIDs *)

\* Mutant: the last character is written first.
EncodedReversed(v) == [i \in 1..Characters |-> (v \div 2 ^ (Bits * (i - 1))) % 2 ^ Bits]

\* encode_base32_sortable; a character is the number of its place in the
\* charset, and the charset is in ASCII order.
Encoded(v) == [i \in 1..Characters |-> (v \div 2 ^ (Bits * (Characters - i))) % 2 ^ Bits]

\* Tid::parse: the length in bytes, and the low byte of every character.  The
\* text that is read is a character's place, or "other".
ParsedTid(t) ==
    IF Len(t) = Characters /\ \A i \in DOMAIN t : t[i] \in 0..(2 ^ Bits - 1) THEN {t} ELSE {}

WriteTid(v) ==
    /\ job' = [kind |-> "tid", value |-> v]
    /\ text' = Encoded(v)
    /\ back' = ParsedTid(Encoded(v))

-----------------------------------------------------------------------------
(* AT-URIs *)

Position(t, token, from) ==
    LET at == {i \in from..Len(t) : t[i] = token} IN IF at = {} THEN 0 ELSE Min(at)

\* AtUri::new
ValidUri(u) ==
    /\ u.authority # <<>> /\ u.authority[1] = "did:"
    /\ Contains(u.collection, ".")
    /\ u.rkey # <<>>
NewUri(u) == IF ValidUri(u) THEN {u} ELSE {}

\* Display
Shown(u) == <<"at://">> \o u.authority \o <<"/">> \o u.collection \o <<"/">> \o u.rkey

\* AtUri::parse: splitn(3, '/'), so that the rkey may contain a slash.
ParsedUri(t) ==
    LET first == Position(t, "/", 2)
        second == Position(t, "/", first + 1)
        u == [authority |-> SubSeq(t, 2, first - 1),
              collection |-> SubSeq(t, first + 1, second - 1),
              rkey |-> SubSeq(t, second + 1, Len(t))]
    IN  IF t = <<>> \/ t[1] # "at://" \/ first = 0 \/ second = 0 \/ u.collection = <<>>
        THEN {} ELSE NewUri(u)

WriteUri(a, c, r) ==
    LET u == [authority |-> a, collection |-> c, rkey |-> r]
    IN  /\ ValidUri(u)
        /\ job' = [kind |-> "uri", uri |-> u]
        /\ text' = Shown(u)
        /\ back' = ParsedUri(Shown(u))

-----------------------------------------------------------------------------
(* Cursors *)

\* encode_cursor, base64 apart; a timestamp is one token.
Cursor(stamp, rkey) == <<stamp, ":">> \o rkey

\* decode_cursor: split_once at the first colon.
DecodedCursor(t) ==
    LET colon == Position(t, ":", 1)
    IN  IF colon = 2 /\ t[1] \in Stamps
        THEN {[stamp |-> t[1], rkey |-> SubSeq(t, colon + 1, Len(t))]} ELSE {}

WriteCursor(stamp, rkey) ==
    /\ job' = [kind |-> "cursor", stamp |-> stamp, rkey |-> rkey]
    /\ text' = Cursor(stamp, rkey)
    /\ back' = DecodedCursor(Cursor(stamp, rkey))

-----------------------------------------------------------------------------
(* Feeds *)

\* describe_feed_generator
FeedUri(id) == <<"at://", "did:", "/", "collection", ".", "generator", "/">> \o id

\* get_feed_skeleton: what follows the last slash, if a feed has that id ...
FeedOf(t) ==
    LET slashes == {i \in DOMAIN t : t[i] = "/"}
        id == SubSeq(t, (IF slashes = {} THEN 0 ELSE Max(slashes)) + 1, Len(t))
    IN  {f \in Feeds : f = id}

\* ... and the limit, clamped.  PaginationParams::effective_limit does the same.
Clamped(limit) == IF limit < 1 THEN 1 ELSE IF limit > MaxLimit THEN MaxLimit ELSE limit

WriteFeed(id, limit) ==
    /\ job' = [kind |-> "feed", id |-> id, limit |-> Clamped(limit)]
    /\ text' = FeedUri(id)
    /\ back' = FeedOf(FeedUri(id))

\* One text is enough: no text depends on another.
Next == job.kind = "none" /\
    \/ \E v \in Values : WriteTid(v)
    \/ \E a, c, r \in Texts : WriteUri(a, c, r)
    \/ \E stamp \in Stamps, rkey \in Texts : WriteCursor(stamp, rkey)
    \/ \E id \in Feeds, limit \in Limits : WriteFeed(id, limit)

Spec == Init /\ [][Next]_vars

-----------------------------------------------------------------------------
(* Properties *)

Plain(t) == ~Contains(t, "/")

\* The order of texts of one length.
Before(s, t) ==
    \E i \in DOMAIN s : s[i] < t[i] /\ \A j \in 1..(i - 1) : s[j] = t[j]

\* What is written is read back as it was: TIDs, and they sort as their values
\* do; cursors, whatever is in the record key; feed ids without a slash, with
\* a limit within bounds; AT-URIs, unless AtUri::new was given a slash in the
\* authority or the collection, which it does not refuse.  Whatever AT-URI is
\* read from that text, it is written as the same text again.
ReadsBack ==
    CASE job.kind = "none" -> TRUE
      [] job.kind = "tid" ->
            /\ back = {text}
            /\ \A w \in Values : w < job.value => Before(Encoded(w), text)
      [] job.kind = "uri" ->
            /\ Plain(job.uri.authority) /\ Plain(job.uri.collection) => back = {job.uri}
            /\ \A u \in back : Shown(u) = text
      [] job.kind = "cursor" -> back = {[stamp |-> job.stamp, rkey |-> job.rkey]}
      [] job.kind = "feed" ->
            /\ Plain(job.id) => back = {job.id}
            /\ job.limit \in 1..MaxLimit
=============================================================================
