---------------------------- MODULE RateLimiter ----------------------------
(***************************************************************************)
(* The per-IP token buckets of crates/atrg-core/src/rate_limit.rs and the  *)
(* task of app.rs that forgets idle ones.  The limiter's mutex makes each  *)
(* call one step, and the clock is read under it.  Tokens, floating point  *)
(* numbers in the code, are counted in units: a request costs Unit of      *)
(* them and Rate of them flow back per tick, so that rates below one       *)
(* request per tick can be expressed; rounding is left out.                *)
(***************************************************************************)
EXTENDS Naturals

CONSTANTS
    Ips,      \* clients
    Unit,     \* units of a token
    Burst,    \* units a bucket holds (burst)
    Rate,     \* units that flow back per tick (requests_per_second)
    MaxAge,   \* ticks after which cleanup forgets a bucket
    MaxTime   \* ticks (bound)

\* The configuration may set any rate and burst, 0 included; the age is the code's
\* own, ten minutes.
ASSUME RateLimitAssumption ==
    /\ Unit \in Nat \ {0} /\ Burst \in Nat /\ Rate \in Nat
    /\ MaxAge \in Nat \ {0} /\ MaxTime \in Nat

VARIABLES
    clock,
    tokens,      \* TokenBucket::tokens
    last,        \* TokenBucket::last_refill
    known,       \* the IPs that have a bucket
    \* History.
    since,       \* the start of a window of time, any window
    granted,     \* units granted to each client in that window
    retryAt      \* when each refused client was told to come back, 0 for never

vars == <<clock, tokens, last, known, since, granted, retryAt>>

Init ==
    /\ clock = 1
    /\ tokens = [i \in Ips |-> Burst] /\ last = [i \in Ips |-> 1] /\ known = {}
    /\ since = 1 /\ granted = [i \in Ips |-> 0]
    /\ retryAt = [i \in Ips |-> 0]

Tick ==
    /\ clock < MaxTime
    /\ clock' = clock + 1
    /\ UNCHANGED <<tokens, last, known, since, granted, retryAt>>

\* Mutant: no cap on what an idle client saves up.
RefilledUncapped(i) ==
    IF i \in known THEN tokens[i] + (clock - last[i]) * Rate ELSE Burst

\* entry(ip).or_insert_with(TokenBucket::new), then TokenBucket::refill.
Refilled(i) ==
    IF i \in known
    THEN IF tokens[i] + (clock - last[i]) * Rate <= Burst
         THEN tokens[i] + (clock - last[i]) * Rate ELSE Burst
    ELSE Burst

\* Mutant: the seconds to wait are rounded down.
WaitRoundedDown(left) == (Unit - left) \div Rate

\* retry_after, rounded up as rate_limit_response does.
Wait(left) == (Unit - left + Rate - 1) \div Rate

\* check, for a request that finds a token ...
Allow(i) ==
    /\ Refilled(i) >= Unit
    /\ tokens' = [tokens EXCEPT ![i] = Refilled(i) - Unit]
    /\ last' = [last EXCEPT ![i] = clock]
    /\ known' = known \cup {i}
    /\ granted' = [granted EXCEPT ![i] = @ + Unit]
    /\ retryAt' = [retryAt EXCEPT ![i] = 0]
    /\ UNCHANGED <<clock, since>>

\* ... and for one that does not.  With a rate of 0 the division gives infinity,
\* of which the header makes the largest number: a time that never comes.
Refuse(i) ==
    /\ Refilled(i) < Unit
    /\ tokens' = [tokens EXCEPT ![i] = Refilled(i)]
    /\ last' = [last EXCEPT ![i] = clock]
    /\ known' = known \cup {i}
    /\ retryAt' = [retryAt EXCEPT ![i] =
                      IF Rate = 0 THEN 0 ELSE clock + Wait(Refilled(i))]
    /\ UNCHANGED <<clock, since, granted>>

\* The buckets cleanup does not retain.
Forgets(i) == last[i] + MaxAge <= clock

Cleanup ==
    /\ known' = known \ {i \in known : Forgets(i)}
    /\ UNCHANGED <<clock, tokens, last, since, granted, retryAt>>

\* Any moment may be the start of the window that is looked at.
OpenWindow ==
    /\ since' = clock
    /\ granted' = [i \in Ips |-> 0]
    /\ UNCHANGED <<clock, tokens, last, known, retryAt>>

Next ==
    \/ Tick \/ Cleanup \/ OpenWindow
    \/ \E i \in Ips : Allow(i) \/ Refuse(i)

Spec == Init /\ [][Next]_vars

-----------------------------------------------------------------------------
(* Properties *)

\* What a client gains when its bucket is forgotten: nothing if MaxAge suffices to
\* fill a bucket, which no check of the configuration demands.
Gain == IF MaxAge * Rate < Burst THEN Burst - MaxAge * Rate ELSE 0

\* How often a bucket can have been forgotten in the window up to time t: once at
\* its start, and again after every MaxAge.
Forgettings(t) == IF t < since THEN 0 ELSE 1 + (t - since) \div MaxAge

\* Whatever the window of time, a client gets no more in it than the burst, what
\* flows back during it, and what it gains from being forgotten, which happens
\* once per MaxAge at most although any cleanup may do it.
WindowBound ==
    \A i \in Ips :
        granted[i] <= Burst + (clock - since) * Rate + Forgettings(clock) * Gain

\* A client that was refused and comes back after Retry-After is let in, unless
\* it was let in before: refused attempts in between do not put it off, nor does
\* a cleanup.  A bucket of a burst of 0 never holds a token.
RetryAfterHolds ==
    Unit <= Burst =>
        \A i \in Ips : retryAt[i] # 0 /\ clock >= retryAt[i] => Refilled(i) >= Unit
=============================================================================
