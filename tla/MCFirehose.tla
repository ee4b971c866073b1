----------------------------- MODULE MCFirehose -----------------------------
(***************************************************************************)
(* FirehoseConsumer for TLC: the relay's frames.                           *)
(***************************************************************************)
EXTENDS FirehoseConsumer

Sound(type) == [header |-> TRUE, op |-> 1, t |-> type, body |-> "map", seq |-> TRUE]

\* A commit, a commit without "seq", an error frame of the relay (an Info
\* event), a frame of a type unknown to the consumer, and an identity event.
RelayFrames ==
    << Sound("#commit"),
       [Sound("#commit") EXCEPT !.seq = FALSE],
       [Sound("#info") EXCEPT !.op = -1],
       Sound("other"),
       Sound("#identity") >>
=============================================================================
