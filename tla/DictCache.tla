----------------------------- MODULE DictCache -----------------------------
(***************************************************************************)
(* The cached download of the zstd dictionary in crates/atrg-stream:       *)
(* several processes of one user load it from one URL and share the file   *)
(* under ~/.cache/atrg.                                                    *)
(***************************************************************************)
EXTENDS Naturals

CONSTANTS
    Processes,
    MaxFaults     \* crashes and failed writes (bound)

VARIABLES
    file,         \* the cache file: absent, or its content
    opener,       \* the process that was the last to truncate it, as a set
    load,         \* what each process is about to do
    answer,       \* what its last load_dictionary returned
    \* History.
    faults,       \* crashes and failed writes
    clashed       \* the file was read while it was being written

vars == <<file, opener, load, answer, faults, clashed>>

Writing == {p \in Processes : load[p] = "write"}

\* "cut" is a file not all of which is there, if only for the moment.
Init ==
    /\ file = "absent" /\ opener = {}
    /\ load = [p \in Processes |-> "idle"]
    /\ answer = [p \in Processes |-> "none"]
    /\ faults = 0 /\ clashed = FALSE

Goto(p, at) == load' = [load EXCEPT ![p] = at]
Return(p, content) == answer' = [answer EXCEPT ![p] = content]

\* load_from_url: whether the file exists ...
Begin(p) ==
    /\ load[p] = "idle"
    /\ Goto(p, IF file = "absent" THEN "get" ELSE "read")
    /\ Return(p, "none")
    /\ UNCHANGED <<file, opener, faults, clashed>>

\* ... and if it does, its content, which is not looked at.
ReadCached(p) ==
    /\ load[p] = "read"
    /\ Goto(p, "idle")
    /\ Return(p, file)
    /\ clashed' = (clashed \/ Writing # {})
    /\ UNCHANGED <<file, opener, faults>>

\* Mutant: the status is not looked at.
AcceptsAll(body) == TRUE

\* resp.status().is_success().
Accepts(body) == body = "whole"

\* The GET: the dictionary, or a page with an error status.  A page goes no
\* further.  What has been downloaded is the answer, if it can be cached.
Download(p) ==
    /\ load[p] = "get"
    /\ \E body \in {"whole", "page"} :
          IF Accepts(body)
          THEN Goto(p, "open") /\ Return(p, body)
          ELSE Goto(p, "idle") /\ UNCHANGED answer
    /\ UNCHANGED <<file, opener, faults, clashed>>

\* tokio::fs::write opens and truncates the file ...
Truncate(p) ==
    /\ load[p] = "open"
    /\ file' = "cut"
    /\ opener' = {p}
    /\ Goto(p, "write")
    /\ UNCHANGED <<answer, faults, clashed>>

\* ... and writes it from where it has got to: a truncation by another process
\* meanwhile leaves a hole, which that process fills.
Write(p) ==
    /\ load[p] = "write"
    /\ file' = IF opener = {p} THEN answer[p] ELSE file
    /\ Goto(p, "idle")
    /\ UNCHANGED <<opener, answer, faults, clashed>>

\* The disk is full, or the process dies, before all is written: what there is
\* of the file stays.
WriteFails(p) ==
    /\ load[p] = "write"
    /\ faults < MaxFaults
    /\ faults' = faults + 1
    /\ Goto(p, "idle")
    /\ Return(p, "none")
    /\ UNCHANGED <<file, opener, clashed>>

Next == \E p \in Processes :
    Begin(p) \/ ReadCached(p) \/ Download(p) \/ Truncate(p) \/ Write(p) \/ WriteFails(p)

Spec == Init /\ [][Next]_vars

-----------------------------------------------------------------------------
(* Properties *)

\* However many processes download and write the dictionary at once, when all
\* of them are done the file is whole, and only a load that read while another
\* process wrote returns anything else.  A write that fails, or a process that
\* dies writing, is the exception: what it left is returned ever after, since
\* the content of the file is never looked at.
LoadsAreWhole ==
    faults = 0 =>
        /\ Writing = {} => file \in {"absent", "whole"}
        /\ ~clashed => \A p \in Processes : load[p] = "idle" => answer[p] \in {"none", "whole"}
=============================================================================
