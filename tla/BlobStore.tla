----------------------------- MODULE BlobStore -----------------------------
(***************************************************************************)
(* The blob stores of crates/atrg-blob, over a directory and over S3:      *)
(* clients put, get and delete blobs that are named by the digest of their *)
(* data, so that a blob is its name, and several may put the same one.     *)
(***************************************************************************)
EXTENDS Naturals

CONSTANTS
    Clients,
    Blobs,
    MaxFaults     \* failed requests and writes, crashes (bound)

VARIABLES
    backend,      \* "file" or "s3"
    content,      \* what is stored of each blob: absent, cut or whole
    writer,       \* the last client to truncate the blob's file, unless that was removed
    call,         \* each client's operation, what it does next, and its answer
    \* History.
    owed,         \* blobs that a put promised to keep, no deletion in between
    faults,
    clashed       \* a file was read while it was being written

vars == <<backend, content, writer, call, owed, faults, clashed>>

Idle == [op |-> "none", blob |-> "none", at |-> "done", answer |-> "none", late |-> FALSE]

Init ==
    /\ backend \in {"file", "s3"}
    /\ content = [b \in Blobs |-> "absent"]
    /\ writer = [b \in Blobs |-> {}]
    /\ call = [c \in Clients |-> Idle]
    /\ owed = {} /\ faults = 0 /\ clashed = FALSE

At(c, op, at) == call[c].op = op /\ call[c].at = at
Goto(c, at) == call' = [call EXCEPT ![c].at = at]
Return(c, answer) == call' = [call EXCEPT ![c].at = "done", ![c].answer = answer]

\* A deletion makes the puts that are under way too late to promise anything.
Begin(c, op, b) ==
    /\ call[c].at = "done"
    /\ call' = [d \in Clients |->
          IF d = c THEN [op |-> op, blob |-> b, at |-> "begin", answer |-> "none",
                         late |-> \E e \in Clients : /\ At(e, "delete", "begin")
                                                        \/ At(e, "delete", "remove")
                                                     /\ call[e].blob = b]
          ELSE IF op = "delete" /\ call[d].blob = b THEN [call[d] EXCEPT !.late = TRUE]
          ELSE call[d]]
    /\ owed' = IF op = "delete" THEN owed \ {b} ELSE owed
    /\ UNCHANGED <<backend, content, writer, faults, clashed>>

Promised(c) == IF call[c].late THEN owed ELSE owed \cup {call[c].blob}

-----------------------------------------------------------------------------
(* FileBlobStore *)

\* put: a file that exists is not written again, whatever is in it.
FindFile(c) ==
    LET b == call[c].blob
    IN  /\ backend = "file" /\ At(c, "put", "begin")
        /\ IF content[b] = "absent" THEN Goto(c, "open") /\ UNCHANGED owed
           ELSE Return(c, "ok") /\ owed' = Promised(c)
        /\ UNCHANGED <<backend, content, writer, faults, clashed>>

\* tokio::fs::write opens and truncates the file ...
Truncate(c) ==
    LET b == call[c].blob
    IN  /\ At(c, "put", "open")
        /\ content' = [content EXCEPT ![b] = "cut"]
        /\ writer' = [writer EXCEPT ![b] = {c}]
        /\ Goto(c, "write")
        /\ UNCHANGED <<backend, owed, faults, clashed>>

\* ... and writes it from where it has got to: the last one to truncate the
\* file makes it whole, unless the file was removed meanwhile.
Write(c) ==
    LET b == call[c].blob
    IN  /\ At(c, "put", "write")
        /\ content' = IF c \in writer[b]
                      THEN [content EXCEPT ![b] = "whole"] ELSE content
        /\ Return(c, "ok")
        /\ owed' = Promised(c)
        /\ UNCHANGED <<backend, writer, faults, clashed>>

\* The file is not opened or not written to its end, or the process dies.
WriteFails(c) ==
    /\ At(c, "put", "open") \/ At(c, "put", "write")
    /\ faults < MaxFaults
    /\ faults' = faults + 1
    /\ Return(c, "error")
    /\ UNCHANGED <<backend, content, writer, owed, clashed>>

Writing == {c \in Clients : At(c, "put", "write")}

\* get: any error is NotFound, and what is read is not compared with its name.
ReadFile(c) ==
    LET b == call[c].blob
    IN  /\ backend = "file" /\ At(c, "get", "begin")
        /\ Return(c, IF content[b] = "absent" THEN "not found" ELSE content[b])
        /\ clashed' = (clashed \/ \E d \in Writing : call[d].blob = b)
        /\ UNCHANGED <<backend, content, writer, owed, faults>>

\* exists
LookUpFile(c) ==
    /\ backend = "file" /\ At(c, "exists", "begin")
    /\ Return(c, IF content[call[c].blob] = "absent" THEN "no" ELSE "yes")
    /\ UNCHANGED <<backend, content, writer, owed, faults, clashed>>

\* delete looks for the file ...
FindFileToRemove(c) ==
    /\ backend = "file" /\ At(c, "delete", "begin")
    /\ IF content[call[c].blob] = "absent" THEN Return(c, "ok") ELSE Goto(c, "remove")
    /\ UNCHANGED <<backend, content, writer, owed, faults, clashed>>

\* ... and removes it, if another deletion has not done so.
RemoveFile(c) ==
    LET b == call[c].blob
    IN  /\ At(c, "delete", "remove")
        /\ content' = [content EXCEPT ![b] = "absent"]
        /\ writer' = [writer EXCEPT ![b] = {}]
        /\ Return(c, IF content[b] = "absent" THEN "error" ELSE "ok")
        /\ UNCHANGED <<backend, owed, faults, clashed>>

-----------------------------------------------------------------------------
(* S3BlobStore: every operation is one request, which S3 carries out as a    *)
(* whole.                                                                    *)

PutObject(c) ==
    /\ backend = "s3" /\ At(c, "put", "begin")
    /\ content' = [content EXCEPT ![call[c].blob] = "whole"]
    /\ Return(c, "ok")
    /\ owed' = Promised(c)
    /\ UNCHANGED <<backend, writer, faults, clashed>>

\* Whether a missing object is NotFound or an error is up to the client library:
\* it may be built to make an error of every status but a success.
GetObject(c) ==
    /\ backend = "s3" /\ At(c, "get", "begin")
    /\ IF content[call[c].blob] = "whole" THEN Return(c, "whole")
       ELSE Return(c, "not found") \/ Return(c, "error")
    /\ UNCHANGED <<backend, content, writer, owed, faults, clashed>>

HeadObject(c) ==
    /\ backend = "s3" /\ At(c, "exists", "begin")
    /\ Return(c, IF content[call[c].blob] = "whole" THEN "yes" ELSE "no")
    /\ UNCHANGED <<backend, content, writer, owed, faults, clashed>>

DeleteObject(c) ==
    /\ backend = "s3" /\ At(c, "delete", "begin")
    /\ content' = [content EXCEPT ![call[c].blob] = "absent"]
    /\ Return(c, "ok")
    /\ UNCHANGED <<backend, writer, owed, faults, clashed>>

\* The request or its answer is lost, or S3 refuses it; exists makes a No of it.
RequestFails(c) ==
    /\ backend = "s3" /\ call[c].at = "begin"
    /\ faults < MaxFaults
    /\ faults' = faults + 1
    /\ Return(c, IF call[c].op = "exists" THEN "no" ELSE "error")
    /\ \/ UNCHANGED content
       \/ call[c].op = "put" /\ content' = [content EXCEPT ![call[c].blob] = "whole"]
       \/ call[c].op = "delete" /\ content' = [content EXCEPT ![call[c].blob] = "absent"]
    /\ UNCHANGED <<backend, writer, owed, clashed>>

Next == \E c \in Clients :
    \/ \E op \in {"put", "get", "exists", "delete"}, b \in Blobs : Begin(c, op, b)
    \/ FindFile(c) \/ Truncate(c) \/ Write(c) \/ WriteFails(c)
    \/ ReadFile(c) \/ LookUpFile(c) \/ FindFileToRemove(c) \/ RemoveFile(c)
    \/ PutObject(c) \/ GetObject(c) \/ HeadObject(c) \/ DeleteObject(c) \/ RequestFails(c)

Spec == Init /\ [][Next]_vars

-----------------------------------------------------------------------------
(* Properties *)

\* A blob that a put has returned for is kept whole until a deletion, whatever
\* other clients put at the time, except while another client is writing the
\* same file once more; and a get that meets no write returns all of a blob or
\* nothing.  In a directory this lasts until a write fails or a process dies:
\* what it left is taken for the blob ever after.  In S3 it lasts.
PutIsKept ==
    faults = 0 \/ backend = "s3" =>
        /\ \A b \in owed : content[b] = "whole" \/ \E c \in Writing : call[c].blob = b
        /\ ~clashed => \A c \in Clients : call[c].answer # "cut"
=============================================================================
