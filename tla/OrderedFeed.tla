---------------------------- MODULE OrderedFeed ----------------------------
(***************************************************************************)
(* What the handler of a firehose consumer may rely on.  The relay serves  *)
(* events 1, 2, ... again on every connection.  What the handler gets may  *)
(* have gaps, but it gets nothing the relay has not published, nothing     *)
(* twice from one connection, nothing out of order, and nothing of an      *)
(* earlier connection once it has seen a later one.                        *)
(***************************************************************************)
EXTENDS Naturals, Sequences

VARIABLES
    published,   \* how many events the relay has published
    connection,  \* the number of the current connection
    delivered    \* what the handler was given: <<connection, event>> pairs

Precedes(a, b) == a[1] < b[1] \/ (a[1] = b[1] /\ a[2] < b[2])

FeedInit == published = 0 /\ connection = 0 /\ delivered = <<>>

Publish ==
    /\ published' = published + 1
    /\ UNCHANGED <<connection, delivered>>

Connect ==
    /\ connection' = connection + 1
    /\ UNCHANGED <<published, delivered>>

Deliver(item) ==
    /\ item[1] \in 1..connection
    /\ item[2] \in 1..published
    /\ delivered # <<>> => Precedes(delivered[Len(delivered)], item)
    /\ delivered' = Append(delivered, item)
    /\ UNCHANGED <<published, connection>>

FeedNext ==
    \/ Publish
    \/ Connect
    \/ \E item \in (1..connection) \X (1..published) : Deliver(item)

FeedSpec == FeedInit /\ [][FeedNext]_<<published, connection, delivered>>
=============================================================================
