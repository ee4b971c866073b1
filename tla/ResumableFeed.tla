--------------------------- MODULE ResumableFeed ---------------------------
(***************************************************************************)
(* What a consumer of an ordered, timestamped feed promises when it keeps  *)
(* a checkpoint in a database (atrg-stream's cursor mode "auto"):          *)
(*                                                                         *)
(*   - the checkpoint never moves past an event whose fate is unknown:     *)
(*     every event up to it was handled, was counted as lost, or was       *)
(*     published while nobody asked for it;                                *)
(*   - a consumer resumes exactly at the checkpoint it finds, and while it *)
(*     runs in that resumed state it lets no event slip by unseen and      *)
(*     never moves the checkpoint behind the point it resumed from.        *)
(*                                                                         *)
(* Events are numbered 1, 2, ... in the order of their timestamps; 0 is    *)
(* "no checkpoint" and "not resumed".                                      *)
(***************************************************************************)
EXTENDS Naturals

CONSTANT MaxEvents      \* the number of events the feed ever publishes

VARIABLES
    seen,         \* events handled, or lost and counted in the metrics
    missed,       \* events published while the consumer was not subscribed
    checkpoint,   \* the stored cursor, 0 if there is none
    running,      \* whether the consumer's process is up
    resumedAt     \* the checkpoint this incarnation resumed from, or 0

vars == <<seen, missed, checkpoint, running, resumedAt>>

Events == 1..MaxEvents

Init ==
    /\ seen = {}
    /\ missed = {}
    /\ checkpoint = 0
    /\ running = FALSE
    /\ resumedAt = 0

\* An event has been handled, or its loss has been counted.
See ==
    /\ running
    /\ \E e \in Events : seen' = seen \cup {e}
    /\ UNCHANGED <<missed, checkpoint, running, resumedAt>>

\* A consumer without a checkpoint (re)subscribes at the head of the feed.
Miss ==
    /\ running
    /\ resumedAt = 0
    /\ \E S \in SUBSET Events : missed' = missed \cup S
    /\ UNCHANGED <<seen, checkpoint, running, resumedAt>>

\* The checkpoint may only cover events whose fate is known.
Checkpoint ==
    /\ running
    /\ \E t \in Events :
          /\ 1..t \subseteq seen \cup missed
          /\ resumedAt <= t
          /\ checkpoint' = t
    /\ UNCHANGED <<seen, missed, running, resumedAt>>

\* A process starts from the stored checkpoint.
Resume ==
    /\ ~running
    /\ running' = TRUE
    /\ resumedAt' = checkpoint
    /\ UNCHANGED <<seen, missed, checkpoint>>

\* The process is gone.
Halt ==
    /\ running
    /\ running' = FALSE
    /\ resumedAt' = 0
    /\ UNCHANGED <<seen, missed, checkpoint>>

Next == See \/ Miss \/ Checkpoint \/ Resume \/ Halt

Spec == Init /\ [][Next]_vars
=============================================================================
