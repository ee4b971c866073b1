----------------------------- MODULE LabelStore -----------------------------
(***************************************************************************)
(* The labeler of crates/atrg-label: labels are issued into one table, a   *)
(* subscriber pages through it over HTTP with a cursor, and the application*)
(* asks the library for the labels of a subject.  A row's id is its        *)
(* position in the table (SQLite, AUTOINCREMENT, one writer at a time, no  *)
(* deletions).                                                             *)
(*                                                                         *)
(* The endpoint answers a query by URI or by source with status 400: its   *)
(* parameters are vectors, which axum's Query cannot deserialize, so that  *)
(* such a request never reaches the handler; and a request without cursor  *)
(* gets InvalidRequest from it.  Both change nothing, so that following    *)
(* the cursor is all a subscriber can do.                                  *)
(***************************************************************************)
EXTENDS Integers, Sequences, SequencesExt

CONSTANTS
    Uris,         \* subjects
    Limits,       \* values of the parameter "limit" that a subscriber may send
    MaxPage,      \* the most labels of an answer (250)
    MaxLabels     \* rows (bound)

VARIABLES
    table,        \* atrg_labels
    \* The subscriber (a client that follows the cursor).
    cursor, received,
    endSeen,      \* the rows there were when it was last told that no more follow
    \* The application's last query for a subject.
    asked         \* the subject, the labels answered, the rows there were then

vars == <<table, cursor, received, endSeen, asked>>

Label == [uri : Uris, neg : BOOLEAN]

Init ==
    /\ table = <<>>
    /\ cursor = 0 /\ received = <<>> /\ endSeen = 0
    /\ asked \in [uri : Uris, labels : {<<>>}, rows : {0}]

\* create_label and negate_label, which differ in the flag: the label is signed,
\* then inserted; if the INSERT fails nothing has happened.
Issue(label) ==
    /\ Len(table) < MaxLabels
    /\ table' = Append(table, label)
    /\ UNCHANGED <<cursor, received, endSeen, asked>>

\* The labels of a sequence that are in a set, in their order.
Only(labels, set) ==
    LET kept[n \in 0..Len(labels)] ==
            IF n = 0 THEN <<>>
            ELSE IF labels[n] \in set THEN Append(kept[n - 1], labels[n]) ELSE kept[n - 1]
    IN  kept[Len(labels)]

Of(uri) == {label \in Label : label.uri = uri}

\* query_labels: SELECT ... WHERE uri = ? ORDER BY id.
QueryLabels(uri) ==
    /\ asked' = [uri |-> uri, labels |-> Only(table, Of(uri)), rows |-> Len(table)]
    /\ UNCHANGED <<table, cursor, received, endSeen>>

\* Mutant: the limit is only bounded from above.
BoundedAbove(limit) == IF limit > MaxPage THEN MaxPage ELSE limit

\* The handler's clamp(1, 250).
Clamped(limit) ==
    IF limit < 1 THEN 1 ELSE IF limit > MaxPage THEN MaxPage ELSE limit

\* query_since: the rows after the cursor, at most Clamped(limit) of them.
PageEnd(limit) ==
    IF cursor + Clamped(limit) <= Len(table) THEN cursor + Clamped(limit) ELSE Len(table)
Page(limit) == SubSeq(table, cursor + 1, PageEnd(limit))

\* query_labels_handler with a cursor.  The next cursor is the id of the last row;
\* an empty page has none, which tells the subscriber that nothing follows.
FollowCursor(limit) ==
    /\ received' = received \o Page(limit)
    /\ cursor' = PageEnd(limit)
    /\ endSeen' = IF Page(limit) = <<>> THEN Len(table) ELSE endSeen
    /\ UNCHANGED <<table, asked>>

Next ==
    \/ \E limit \in Limits : FollowCursor(limit)
    \/ \E uri \in Uris : QueryLabels(uri)
    \/ \E label \in Label : Issue(label)

Spec == Init /\ [][Next]_vars

-----------------------------------------------------------------------------
(* Properties *)

\* Although labels are inserted between the pages and whatever limits it sends, a
\* subscriber that follows the cursor has received exactly the labels the cursor
\* covers, once each and in the order they were issued; and when it is told that
\* nothing follows it had covered all there were.
SubscriberMissesNothing ==
    /\ received = SubSeq(table, 1, cursor)
    /\ endSeen <= cursor

\* The two ways to read the labels agree: what the library answered for a subject
\* is, once the subscriber was told that nothing follows, the beginning of what
\* the subscriber has of that subject, so that no label of the answer is
\* overtaken by its own negation or the other way about.
SubscriberHasTheAnswer ==
    asked.rows <= endSeen => IsPrefix(asked.labels, Only(received, Of(asked.uri)))
=============================================================================
