----------------------------- MODULE RepoClient -----------------------------
(***************************************************************************)
(* Records written through crates/atrg-repo: programs that create, put,    *)
(* get and delete records of one collection at a PDS, and call again when  *)
(* a call returned an error, since a request or its answer may get lost.   *)
(* Record keys for put are TIDs drawn by the program; a TID is its 64-bit  *)
(* value, microseconds above a random clock identifier.                    *)
(***************************************************************************)
EXTENDS Naturals, FiniteSets

CONSTANTS
    Clients,
    ClockIds,    \* there are so many clock identifiers (1024)
    Width,       \* values of a TID are taken modulo this (2^64)
    MaxMicros,   \* ticks of the clock (bound)
    MaxCalls     \* calls of a client for one operation (bound)

VARIABLES
    micros,      \* the clock of all clients
    records,     \* the PDS: the record and who made it, per key
    nextKey,     \* the PDS's own next key
    call,        \* each client's operation, and how its last call ended
    \* History.
    drawn,       \* the TIDs drawn, and when
    unheard      \* creations of each client whose answer got lost

vars == <<micros, records, nextKey, call, drawn, unheard>>

NoCall == [op |-> "none", key |-> <<>>, calls |-> 0, result |-> "error"]

Init ==
    /\ micros = 0 /\ records = {} /\ nextKey = 0
    /\ call = [c \in Clients |-> NoCall]
    /\ drawn = {} /\ unheard = [c \in Clients |-> 0]

Tick ==
    /\ micros < MaxMicros
    /\ micros' = micros + 1
    /\ UNCHANGED <<records, nextKey, call, drawn, unheard>>

Begin(c, op, key) ==
    call' = [call EXCEPT ![c] = [op |-> op, key |-> key, calls |-> 0, result |-> "error"]]

\* Mutant: the clock identifier is not shifted out of the way.
TidUnshifted(id) == (micros + id) % Width

\* Tid::now
Tid(id) == (micros * ClockIds + id) % Width

\* The program draws a key for a record that it is going to put, ...
BeginPut(c, id) ==
    /\ call[c].op = "none"
    /\ Begin(c, "put", <<"client", Tid(id)>>)
    /\ drawn' = drawn \cup {[at |-> micros, tid |-> Tid(id)]}
    /\ UNCHANGED <<micros, records, nextKey, unheard>>

\* ... lets the PDS draw it, ...
BeginCreate(c) ==
    /\ call[c].op = "none"
    /\ Begin(c, "create", <<>>)
    /\ UNCHANGED <<micros, records, nextKey, drawn, unheard>>

\* ... fetches an image, which is named by its digest, in order to upload it ...
BeginUpload(c) ==
    /\ call[c].op = "none"
    /\ Begin(c, "upload", <<"blob", c>>)
    /\ UNCHANGED <<micros, records, nextKey, drawn, unheard>>

\* ... or deletes, or gets, what it has put.
BeginOther(c, op) ==
    /\ call[c].op = "put" /\ call[c].result # "error"
    /\ Begin(c, op, call[c].key)
    /\ UNCHANGED <<micros, records, nextKey, drawn, unheard>>

\* A success, NotFound (404) or any other error.
Ends(c, result) ==
    /\ call[c].op # "none" /\ call[c].result = "error"
    /\ call[c].calls < MaxCalls
    /\ call' = [call EXCEPT ![c].calls = @ + 1, ![c].result = result]

\* The request is lost, or the PDS refuses it.
NotDone(c) ==
    /\ Ends(c, "error")
    /\ UNCHANGED <<micros, records, nextKey, drawn, unheard>>

Keyed(key) == {r \in records : r.key = key}

\* create_record: every request that arrives makes a record.
CreateRecord(c) ==
    /\ call[c].op = "create"
    /\ records' = records \cup {[key |-> <<"pds", nextKey>>, by |-> c]}
    /\ nextKey' = nextKey + 1
    /\ \/ Ends(c, "ok") /\ UNCHANGED unheard
       \/ Ends(c, "error") /\ unheard' = [unheard EXCEPT ![c] = @ + 1]
    /\ UNCHANGED <<micros, drawn>>

\* put_record creates or replaces.
PutRecord(c) ==
    /\ call[c].op = "put"
    /\ records' = (records \ Keyed(call[c].key)) \cup {[key |-> call[c].key, by |-> c]}
    /\ Ends(c, "ok") \/ Ends(c, "error")
    /\ UNCHANGED <<micros, nextKey, drawn, unheard>>

\* upload_blob: an answer without a reference to the blob is an error too.
UploadBlob(c) ==
    /\ call[c].op = "upload"
    /\ records' = records \cup {[key |-> call[c].key, by |-> c]}
    /\ Ends(c, "ok") \/ Ends(c, "error")
    /\ UNCHANGED <<micros, nextKey, drawn, unheard>>

\* delete_record: whether a record that is not there is an error is up to the PDS.
DeleteRecord(c) ==
    /\ call[c].op = "delete"
    /\ records' = records \ Keyed(call[c].key)
    /\ \/ Ends(c, "ok") \/ Ends(c, "error")
       \/ Keyed(call[c].key) = {} /\ Ends(c, "absent")
    /\ UNCHANGED <<micros, nextKey, drawn, unheard>>

\* get_record
GetRecord(c) ==
    /\ call[c].op = "get"
    /\ \/ Ends(c, IF Keyed(call[c].key) = {} THEN "absent" ELSE "ok")
       \/ Ends(c, "error")
    /\ UNCHANGED <<micros, records, nextKey, drawn, unheard>>

Next ==
    \/ Tick
    \/ \E c \in Clients :
          \/ BeginCreate(c) \/ BeginUpload(c) \/ UploadBlob(c)
          \/ \E id \in 0..(ClockIds - 1) : BeginPut(c, id)
          \/ \E op \in {"delete", "get"} : BeginOther(c, op)
          \/ NotDone(c) \/ CreateRecord(c) \/ PutRecord(c) \/ DeleteRecord(c) \/ GetRecord(c)

Spec == Init /\ [][Next]_vars

-----------------------------------------------------------------------------
(* Properties *)

\* No other client has drawn the same key.
Alone(c) == \A d \in Clients \ {c} : call[d].key # call[c].key

\* What a program knows of its record when a call has not returned an error,
\* however often it called before: a put has left one record, an upload one blob
\* (among the records here) and a deletion
\* none, whether it found one or not, and a record that was put is found, as
\* long as no other program drew the same TID; a creation has left one record,
\* and one more for every answer that got lost.  A TID drawn in a later
\* microsecond is greater, whatever the clock identifiers.
RetriesAddUp ==
    /\ \A c \in Clients : call[c].result # "error" =>
          /\ call[c].op \in {"put", "get", "upload"} /\ Alone(c) =>
                 Keyed(call[c].key) = {[key |-> call[c].key, by |-> c]}
          /\ call[c].op = "get" /\ Alone(c) => call[c].result = "ok"
          /\ call[c].op = "delete" /\ Alone(c) => Keyed(call[c].key) = {}
          /\ call[c].op = "create" =>
                 Cardinality({r \in records : r.by = c /\ r.key[1] = "pds"}) = 1 + unheard[c]
    /\ \A a, b \in drawn : a.at < b.at => a.tid < b.tid
=============================================================================
