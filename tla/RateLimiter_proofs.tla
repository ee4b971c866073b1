------------------------- MODULE RateLimiter_proofs -------------------------
(***************************************************************************)
(* The rate limiter's two promises, for any rates, bursts and clients.     *)
(***************************************************************************)
EXTENDS RateLimiter, TLAPS

-----------------------------------------------------------------------------
(* Arithmetic *)

\* More time, more tokens.
LEMMA MoreTime ==
    ASSUME NEW a \in Nat, NEW b \in Nat, NEW r \in Nat, a <= b
    PROVE  a * r <= b * r
<1>1. PICK d \in Nat : b = a + d
  <2>1. b - a \in Nat /\ b = a + (b - a)  OBVIOUS
  <2> QED BY <2>1
<1>2. b * r = a * r + d * r  BY <1>1
<1>3. a * r \in Nat /\ b * r \in Nat /\ d * r \in Nat  OBVIOUS
<1> QED BY <1>2, <1>3

\* One tick, Rate units.
LEMMA OneTick ==
    ASSUME NEW a \in Nat, NEW r \in Nat
    PROVE  /\ a * r \in Nat
           /\ (a + 1) * r = a * r + r
OBVIOUS

\* A number of seconds rounded up brings back what is missing.
LEMMA RoundedUp ==
    ASSUME NEW x \in Nat, NEW r \in Nat \ {0}
    PROVE  /\ (x + r - 1) \div r \in Nat
           /\ x <= ((x + r - 1) \div r) * r
<1> DEFINE n == x + r - 1
           q == n \div r
<1>1. n \in Nat  OBVIOUS
<1>2. q \in Nat /\ n < q * r + r  BY <1>1
<1>3. q * r \in Nat  BY <1>2
<1> HIDE DEF q
<1>4. x <= q * r  BY <1>2, <1>3
<1> QED BY <1>2, <1>4 DEF q

\* A whole period later the quotient is larger by one at least.
LEMMA OnePeriod ==
    ASSUME NEW a \in Nat, NEW b \in Nat, NEW m \in Nat \ {0}
    PROVE  /\ a \div m \in Nat /\ b \div m \in Nat
           /\ a <= b => a \div m <= b \div m
           /\ a + m <= b => a \div m + 1 <= b \div m
<1>1. PICK q : q = a \div m  OBVIOUS
<1>2. PICK p : p = b \div m  OBVIOUS
<1>3. q \in Nat /\ q * m \in Nat /\ q * m <= a  BY <1>1
<1>4. p \in Nat /\ p * m \in Nat /\ b < p * m + m  BY <1>2
<1>5. (p + 1) * m = p * m + m /\ (q + 1) * m = q * m + m  BY <1>3, <1>4, OneTick
<1>6. ASSUME a <= b, p + 1 <= q PROVE FALSE
  <2>1. (p + 1) * m <= q * m  BY <1>3, <1>4, <1>6, MoreTime
  <2> QED BY <1>3, <1>4, <1>5, <1>6, <2>1
<1>7. ASSUME a + m <= b, p <= q PROVE FALSE
  <2>1. p * m <= q * m  BY <1>3, <1>4, <1>7, MoreTime
  <2> QED BY <1>3, <1>4, <1>5, <1>7, <2>1
<1>8. (a <= b => q <= p) /\ (a + m <= b => q + 1 <= p)  BY <1>3, <1>4, <1>6, <1>7
<1> QED BY <1>1, <1>2, <1>3, <1>4, <1>8

-----------------------------------------------------------------------------
(* The inductive invariant *)

Types ==
    /\ clock \in Nat /\ since \in Nat /\ since <= clock
    /\ tokens \in [Ips -> Nat] /\ last \in [Ips -> Nat]
    /\ known \subseteq Ips
    /\ granted \in [Ips -> Nat] /\ retryAt \in [Ips -> Nat]
    /\ \A i \in Ips : tokens[i] <= Burst /\ last[i] <= clock

\* What a client may have gained so far: a bucket cannot have been forgotten since
\* its last request.
Gained(i) == Forgettings(IF i \in known THEN last[i] ELSE clock) * Gain

\* What a client got and what it could get now stay within the bound together.
Saved ==
    \A i \in Ips : granted[i] + Refilled(i) <= Burst + (clock - since) * Rate + Gained(i)

\* When a refused client may come back, its bucket will have a token.
Promised ==
    \A i \in known : retryAt[i] # 0 =>
        /\ last[i] <= retryAt[i]
        /\ Unit <= tokens[i] + (retryAt[i] - last[i]) * Rate

IInv == Types /\ Saved /\ Promised

LEMMA Constants ==
    /\ Unit \in Nat \ {0} /\ Burst \in Nat /\ Rate \in Nat /\ MaxAge \in Nat \ {0}
    /\ MaxAge * Rate \in Nat /\ Gain \in Nat /\ Burst <= MaxAge * Rate + Gain
<1>1. /\ Unit \in Nat \ {0} /\ Burst \in Nat /\ Rate \in Nat /\ MaxAge \in Nat \ {0}
  BY RateLimitAssumption
<1>2. MaxAge * Rate \in Nat  BY <1>1
<1> QED BY <1>1, <1>2 DEF Gain

\* More time, more that may have been forgotten.
LEMMA ForgettingsGrow ==
    ASSUME NEW t \in Nat, NEW u \in Nat, t <= u, since \in Nat
    PROVE  /\ Forgettings(t) \in Nat /\ Forgettings(u) \in Nat
           /\ Forgettings(t) <= Forgettings(u)
           /\ t + MaxAge <= u /\ since <= u => Forgettings(t) + 1 <= Forgettings(u)
<1>1. MaxAge \in Nat \ {0}  BY Constants
<1>2. CASE u < since
  <2>1. t < since  BY <1>2
  <2>2. Forgettings(t) = 0 /\ Forgettings(u) = 0  BY <1>2, <2>1 DEF Forgettings
  <2> QED BY <1>2, <2>2
<1>3. CASE ~(u < since)
  <2>1. PICK b \in Nat : b = u - since  BY <1>3
  <2>2. Forgettings(u) = 1 + b \div MaxAge  BY <1>3, <2>1 DEF Forgettings
  <2>3. b \div MaxAge \in Nat  BY <1>1, OnePeriod
  <2>4. CASE t < since
    <3>1. Forgettings(t) = 0  BY <2>4 DEF Forgettings
    <3> QED BY <2>2, <2>3, <3>1
  <2>5. CASE ~(t < since)
    <3>1. PICK a \in Nat : a = t - since  BY <2>5
    <3>2. Forgettings(t) = 1 + a \div MaxAge  BY <2>5, <3>1 DEF Forgettings
    <3>3. a <= b /\ (t + MaxAge <= u => a + MaxAge <= b)  BY <1>1, <2>1, <3>1
    <3>4. /\ a \div MaxAge \in Nat
          /\ a <= b => a \div MaxAge <= b \div MaxAge
          /\ a + MaxAge <= b => a \div MaxAge + 1 <= b \div MaxAge
      BY <1>1, OnePeriod
    <3> QED BY <2>2, <2>3, <3>2, <3>3, <3>4
  <2> QED BY <2>4, <2>5
<1> QED BY <1>2, <1>3

\* What may have been gained, in numbers.
LEMMA GainedGrows ==
    ASSUME NEW m \in Nat, NEW n \in Nat
    PROVE  /\ m * Gain \in Nat /\ n * Gain \in Nat
           /\ m <= n => m * Gain <= n * Gain
           /\ m + 1 <= n => m * Gain + Gain <= n * Gain
<1>1. Gain \in Nat  BY Constants
<1>2. m * Gain \in Nat /\ n * Gain \in Nat /\ (m + 1) * Gain = m * Gain + Gain
  BY <1>1, OneTick
<1>3. m <= n => m * Gain <= n * Gain  BY <1>1, MoreTime
<1>4. m + 1 <= n => (m + 1) * Gain <= n * Gain  BY <1>1, MoreTime
<1> QED BY <1>2, <1>3, <1>4

\* It never exceeds what the property allows.
LEMMA GainedBounded ==
    ASSUME Types, NEW i \in Ips
    PROVE  /\ Gained(i) \in Nat /\ Forgettings(clock) * Gain \in Nat
           /\ Gained(i) <= Forgettings(clock) * Gain
<1>1. PICK t : t = IF i \in known THEN last[i] ELSE clock  OBVIOUS
<1>2. t \in Nat /\ clock \in Nat /\ t <= clock /\ since \in Nat  BY <1>1 DEF Types
<1>3. /\ Forgettings(t) \in Nat /\ Forgettings(clock) \in Nat
      /\ Forgettings(t) <= Forgettings(clock)
  BY <1>2, ForgettingsGrow
<1>4. Gained(i) = Forgettings(t) * Gain  BY <1>1 DEF Gained
<1> QED BY <1>3, <1>4, GainedGrows

\* A request moves the time a bucket was last used to the present.
LEMMA GainedByRequest ==
    ASSUME Types, NEW i \in Ips, i \in known', last'[i] = clock, since' = since
    PROVE  Gained(i)' \in Nat /\ Gained(i) <= Gained(i)'
<1>1. Gained(i)' = Forgettings(clock) * Gain  BY DEF Gained, Forgettings
<1> QED BY <1>1, GainedBounded

\* Who makes no request gains nothing.
LEMMA GainedByOthers ==
    ASSUME NEW i \in Ips, clock' = clock, since' = since, last'[i] = last[i],
           i \in known' <=> i \in known
    PROVE  Gained(i)' = Gained(i)
BY DEF Gained, Forgettings

\* A refilled bucket is the smaller of its capacity and of what has flowed in.
LEMMA RefilledIs ==
    ASSUME Types, NEW i \in Ips
    PROVE  /\ (clock - last[i]) * Rate \in Nat
           /\ Refilled(i) \in 0..Burst
           /\ i \notin known => Refilled(i) = Burst
           /\ i \in known =>
                 \/ Refilled(i) = Burst /\ Burst <= tokens[i] + (clock - last[i]) * Rate
                 \/ Refilled(i) = tokens[i] + (clock - last[i]) * Rate
<1>1. clock - last[i] \in Nat /\ tokens[i] \in Nat  BY DEF Types
<1>2. (clock - last[i]) * Rate \in Nat  BY <1>1, OneTick, Constants
<1> QED BY <1>1, <1>2, Constants DEF Refilled

\* The invariant holds at the start.
LEMMA Initially == Init => IInv
<1> SUFFICES ASSUME Init PROVE IInv  OBVIOUS
<1>1. Types  BY Constants DEF Init, Types
<1>2. \A i \in Ips : Refilled(i) = Burst  BY DEF Init, Refilled
<1>3. (clock - since) * Rate = 0  BY Constants DEF Init
<1>4. \A i \in Ips : granted[i] = 0  BY DEF Init
<1>5. Saved
  <2> SUFFICES ASSUME NEW i \in Ips
               PROVE  granted[i] + Refilled(i) <= Burst + (clock - since) * Rate + Gained(i)
    BY DEF Saved
  <2>1. granted[i] = 0 /\ Refilled(i) = Burst  BY <1>2, <1>4
  <2>2. Gained(i) \in Nat  BY <1>1, GainedBounded
  <2> QED BY <1>3, <2>1, <2>2, Constants
<1>6. Promised  BY DEF Init, Promised
<1> QED BY <1>1, <1>5, <1>6 DEF IInv

\* A tick lets Rate units flow into each bucket at most, and the bound grows by
\* as much.
LEMMA TickKeeps == IInv /\ Tick => IInv'
<1> SUFFICES ASSUME IInv, Tick PROVE IInv'  OBVIOUS
<1> USE Constants
<1>0. Types /\ Saved /\ Promised  BY DEF IInv
<1>1. clock' = clock + 1 /\ UNCHANGED <<tokens, last, known, since, granted, retryAt>>
  BY DEF Tick
<1>2. Types'  BY <1>0, <1>1 DEF Types
<1>3. ASSUME NEW i \in Ips
      PROVE  granted'[i] + Refilled(i)' <= Burst + (clock' - since') * Rate + Gained(i)'
  <2>1. clock - last[i] \in Nat /\ clock - since \in Nat /\ granted[i] \in Nat
    BY <1>0 DEF Types
  <2>2. /\ clock' - last'[i] = (clock - last[i]) + 1
        /\ clock' - since' = (clock - since) + 1
    BY <1>0, <1>1, <2>1 DEF Types
  <2>3. /\ (clock' - last'[i]) * Rate = (clock - last[i]) * Rate + Rate
        /\ (clock' - since') * Rate = (clock - since) * Rate + Rate
        /\ (clock - since) * Rate \in Nat
    BY <2>1, <2>2, OneTick
  <2>4. tokens'[i] = tokens[i] /\ tokens[i] \in Nat /\ known' = known
    BY <1>0, <1>1 DEF Types
  <2>5. Refilled(i)' <= Refilled(i) + Rate /\ Refilled(i)' \in Nat
    <3>1. Refilled(i) \in 0..Burst /\ (clock - last[i]) * Rate \in Nat
      BY <1>0, RefilledIs
    <3>2. CASE i \notin known
      BY <3>1, <3>2, <2>4 DEF Refilled
    <3>3. CASE i \in known
      <4>1. Refilled(i)' = IF tokens[i] + (clock - last[i]) * Rate + Rate <= Burst
                           THEN tokens[i] + (clock - last[i]) * Rate + Rate ELSE Burst
        BY <3>1, <3>3, <2>3, <2>4 DEF Refilled
      <4>2. Refilled(i) = IF tokens[i] + (clock - last[i]) * Rate <= Burst
                          THEN tokens[i] + (clock - last[i]) * Rate ELSE Burst
        BY <3>3 DEF Refilled
      <4> QED BY <3>1, <4>1, <4>2, <2>4
    <3> QED BY <3>2, <3>3
  <2>6. granted[i] + Refilled(i) <= Burst + (clock - since) * Rate + Gained(i)
    BY <1>0 DEF Saved
  <2>7. Refilled(i) \in Nat /\ Gained(i) \in Nat  BY <1>0, RefilledIs, GainedBounded
  <2>8. Gained(i)' \in Nat /\ Gained(i) <= Gained(i)'
    <3>1. PICK t : t = IF i \in known THEN last[i] ELSE clock  OBVIOUS
    <3>2. PICK u : u = IF i \in known THEN last[i] ELSE clock + 1  OBVIOUS
    <3>3. t \in Nat /\ u \in Nat /\ t <= u /\ since \in Nat
      BY <1>0, <3>1, <3>2 DEF Types
    <3>4. Gained(i) = Forgettings(t) * Gain  BY <3>1 DEF Gained
    <3>5. Gained(i)' = Forgettings(u) * Gain  BY <1>1, <3>2 DEF Gained, Forgettings
    <3>6. /\ Forgettings(t) \in Nat /\ Forgettings(u) \in Nat
          /\ Forgettings(t) <= Forgettings(u)
      BY <3>3, ForgettingsGrow
    <3> QED BY <3>4, <3>5, <3>6, GainedGrows
  <2>9. granted'[i] = granted[i]  BY <1>1
  <2> QED BY <1>1, <2>1, <2>3, <2>5, <2>6, <2>7, <2>8, <2>9
<1>4. Promised'  BY <1>0, <1>1 DEF Promised
<1> QED BY <1>2, <1>3, <1>4 DEF IInv, Saved

\* A bucket that has just been looked at holds what it holds.
LEMMA JustRefilled ==
    ASSUME NEW i \in Ips, i \in known', tokens'[i] \in Nat, tokens'[i] <= Burst,
           clock' \in Nat, last'[i] = clock'
    PROVE  Refilled(i)' = tokens'[i]
<1>1. (clock' - last'[i]) * Rate = 0  BY Constants
<1> QED BY <1>1, Constants DEF Refilled

\* The buckets of the other clients stay as they are.
LEMMA OthersRefilled ==
    ASSUME NEW i \in Ips, clock' = clock, tokens'[i] = tokens[i], last'[i] = last[i],
           i \in known' <=> i \in known
    PROVE  Refilled(i)' = Refilled(i)
BY DEF Refilled

\* A client that is let in moves a token from its bucket to what it was granted.
LEMMA AllowKeeps ==
    ASSUME IInv, NEW i \in Ips, Allow(i)
    PROVE  IInv'
<1> USE Constants
<1>0. Types /\ Saved /\ Promised  BY DEF IInv
<1>1. /\ tokens' = [tokens EXCEPT ![i] = Refilled(i) - Unit]
      /\ last' = [last EXCEPT ![i] = clock]
      /\ known' = known \cup {i}
      /\ granted' = [granted EXCEPT ![i] = granted[i] + Unit]
      /\ retryAt' = [retryAt EXCEPT ![i] = 0]
      /\ clock' = clock /\ since' = since
      /\ Refilled(i) >= Unit
  BY DEF Allow
<1>2. /\ Refilled(i) \in 0..Burst
      /\ Refilled(i) - Unit \in Nat /\ Refilled(i) - Unit <= Burst
  BY <1>0, <1>1, RefilledIs
<1>3. /\ tokens'[i] = Refilled(i) - Unit /\ last'[i] = clock
      /\ granted'[i] = granted[i] + Unit /\ retryAt'[i] = 0
      /\ granted[i] \in Nat
  BY <1>0, <1>1 DEF Types
<1>4. ASSUME NEW j \in Ips, j # i
      PROVE  /\ tokens'[j] = tokens[j] /\ last'[j] = last[j]
             /\ granted'[j] = granted[j] /\ retryAt'[j] = retryAt[j]
             /\ j \in known' <=> j \in known
  BY <1>0, <1>1, <1>4 DEF Types
<1>5. Types'
  <2>1. tokens' \in [Ips -> Nat] /\ last' \in [Ips -> Nat]
    BY <1>0, <1>1, <1>2 DEF Types
  <2>2. granted' \in [Ips -> Nat] /\ retryAt' \in [Ips -> Nat]
    BY <1>0, <1>1, <1>3 DEF Types
  <2>3. \A j \in Ips : tokens'[j] <= Burst /\ last'[j] <= clock'
    <3>1. tokens'[i] <= Burst /\ last'[i] <= clock'
      BY <1>0, <1>1, <1>2, <1>3 DEF Types
    <3>2. ASSUME NEW j \in Ips, j # i PROVE tokens'[j] <= Burst /\ last'[j] <= clock'
      BY <1>0, <1>1, <1>4, <3>2 DEF Types
    <3> QED BY <3>1, <3>2
  <2>4. clock' \in Nat /\ since' \in Nat /\ since' <= clock' /\ known' \subseteq Ips
    BY <1>0, <1>1 DEF Types
  <2> QED BY <2>1, <2>2, <2>3, <2>4 DEF Types
<1>6. ASSUME NEW j \in Ips
      PROVE  granted'[j] + Refilled(j)' = granted[j] + Refilled(j)
  <2>1. CASE j = i
    <3>1. i \in known' /\ tokens'[i] \in Nat /\ tokens'[i] <= Burst
          /\ clock' \in Nat /\ last'[i] = clock'
      BY <1>0, <1>1, <1>2, <1>3 DEF Types
    <3>2. Refilled(i)' = Refilled(i) - Unit  BY <1>3, <3>1, JustRefilled
    <3> QED BY <1>2, <1>3, <2>1, <3>2
  <2>2. CASE j # i
    BY <1>1, <1>4, <2>2, OthersRefilled
  <2> QED BY <2>1, <2>2
<1>7. Saved'
  <2> SUFFICES ASSUME NEW j \in Ips
               PROVE  granted'[j] + Refilled(j)'
                        <= Burst + (clock' - since') * Rate + Gained(j)'
    BY DEF Saved
  <2>1. granted[j] + Refilled(j) <= Burst + (clock - since) * Rate + Gained(j)
    BY <1>0 DEF Saved
  <2>2. Gained(j)' \in Nat /\ Gained(j) \in Nat /\ Gained(j) <= Gained(j)'
    <3>1. Gained(j) \in Nat  BY <1>0, GainedBounded
    <3>2. CASE j = i
      <4>1. i \in known' /\ last'[i] = clock /\ since' = since  BY <1>1, <1>3
      <4> QED BY <1>0, <3>1, <3>2, <4>1, GainedByRequest
    <3>3. CASE j # i
      <4>1. last'[j] = last[j] /\ (j \in known' <=> j \in known)  BY <1>4, <3>3
      <4>2. Gained(j)' = Gained(j)  BY <1>1, <4>1, GainedByOthers
      <4> QED BY <3>1, <4>2
    <3> QED BY <3>2, <3>3
  <2>3. granted[j] \in Nat /\ Refilled(j) \in Nat /\ (clock - since) * Rate \in Nat
    <3>1. clock - since \in Nat  BY <1>0 DEF Types
    <3> QED BY <1>0, <3>1, OneTick, RefilledIs DEF Types
  <2>4. granted'[j] + Refilled(j)' = granted[j] + Refilled(j)  BY <1>6
  <2>5. clock' = clock /\ since' = since  BY <1>1
  <2> QED BY <2>1, <2>2, <2>3, <2>4, <2>5
<1>8. Promised'
  <2> SUFFICES ASSUME NEW j \in known', retryAt'[j] # 0
               PROVE  /\ last'[j] <= retryAt'[j]
                      /\ Unit <= tokens'[j] + (retryAt'[j] - last'[j]) * Rate
    BY DEF Promised
  <2>1. j # i /\ j \in Ips  BY <1>3, <1>5 DEF Types
  <2> QED BY <1>0, <1>4, <2>1 DEF Promised
<1> QED BY <1>5, <1>7, <1>8 DEF IInv

\* A client that is refused is promised a moment when its bucket has a token.
LEMMA RefuseKeeps ==
    ASSUME IInv, NEW i \in Ips, Refuse(i)
    PROVE  IInv'
<1> USE Constants
<1>0. Types /\ Saved /\ Promised  BY DEF IInv
<1> DEFINE again == IF Rate = 0 THEN 0 ELSE clock + Wait(Refilled(i))
<1>1. /\ tokens' = [tokens EXCEPT ![i] = Refilled(i)]
      /\ last' = [last EXCEPT ![i] = clock]
      /\ known' = known \cup {i}
      /\ retryAt' = [retryAt EXCEPT ![i] = again]
      /\ clock' = clock /\ since' = since /\ granted' = granted
      /\ Refilled(i) < Unit
  BY DEF Refuse
<1>2. Refilled(i) \in 0..Burst /\ Refilled(i) \in Nat /\ clock \in Nat
  BY <1>0, RefilledIs DEF Types
<1>3. ASSUME Rate # 0
      PROVE  /\ Wait(Refilled(i)) \in Nat
             /\ Unit <= Refilled(i) + Wait(Refilled(i)) * Rate
  <2> DEFINE x == Unit - Refilled(i)
  <2>1. x \in Nat /\ Rate \in Nat \ {0}  BY <1>1, <1>2, <1>3
  <2>2. Wait(Refilled(i)) = (x + Rate - 1) \div Rate  BY DEF Wait
  <2>3. /\ (x + Rate - 1) \div Rate \in Nat
        /\ x <= ((x + Rate - 1) \div Rate) * Rate
    <3> HIDE DEF x
    <3> QED BY <2>1, RoundedUp
  <2>4. Wait(Refilled(i)) \in Nat /\ x <= Wait(Refilled(i)) * Rate  BY <2>2, <2>3
  <2>5. Wait(Refilled(i)) * Rate \in Nat  BY <2>4
  <2> QED BY <1>2, <2>4, <2>5
<1>4. again \in Nat  BY <1>2, <1>3
<1>5. tokens'[i] = Refilled(i) /\ last'[i] = clock /\ retryAt'[i] = again
  BY <1>0, <1>1 DEF Types
<1>6. ASSUME NEW j \in Ips, j # i
      PROVE  /\ tokens'[j] = tokens[j] /\ last'[j] = last[j]
             /\ retryAt'[j] = retryAt[j]
             /\ j \in known' <=> j \in known
  BY <1>0, <1>1, <1>6 DEF Types
<1>7. Types'
  <2>1. tokens' \in [Ips -> Nat] /\ last' \in [Ips -> Nat]
    BY <1>0, <1>1, <1>2 DEF Types
  <2>2. granted' \in [Ips -> Nat] /\ retryAt' \in [Ips -> Nat]
    <3> HIDE DEF again
    <3> QED BY <1>0, <1>1, <1>4 DEF Types
  <2>3. \A j \in Ips : tokens'[j] <= Burst /\ last'[j] <= clock'
    <3>1. tokens'[i] <= Burst /\ last'[i] <= clock'
      BY <1>1, <1>2, <1>5
    <3>2. ASSUME NEW j \in Ips, j # i PROVE tokens'[j] <= Burst /\ last'[j] <= clock'
      BY <1>0, <1>1, <1>6, <3>2 DEF Types
    <3> QED BY <3>1, <3>2
  <2>4. clock' \in Nat /\ since' \in Nat /\ since' <= clock' /\ known' \subseteq Ips
    BY <1>0, <1>1 DEF Types
  <2> QED BY <2>1, <2>2, <2>3, <2>4 DEF Types
<1>8. ASSUME NEW j \in Ips PROVE Refilled(j)' = Refilled(j)
  <2>1. CASE j = i
    <3>1. i \in known' /\ tokens'[i] \in Nat /\ tokens'[i] <= Burst
          /\ clock' \in Nat /\ last'[i] = clock'
      BY <1>1, <1>2, <1>5
    <3> QED BY <1>5, <2>1, <3>1, JustRefilled
  <2>2. CASE j # i
    BY <1>1, <1>6, <2>2, OthersRefilled
  <2> QED BY <2>1, <2>2
<1>9. Saved'
  <2> SUFFICES ASSUME NEW j \in Ips
               PROVE  granted'[j] + Refilled(j)'
                        <= Burst + (clock' - since') * Rate + Gained(j)'
    BY DEF Saved
  <2>1. granted[j] + Refilled(j) <= Burst + (clock - since) * Rate + Gained(j)
    BY <1>0 DEF Saved
  <2>2. Gained(j)' \in Nat /\ Gained(j) \in Nat /\ Gained(j) <= Gained(j)'
    <3>1. Gained(j) \in Nat  BY <1>0, GainedBounded
    <3>2. CASE j = i
      <4>1. i \in known' /\ last'[i] = clock /\ since' = since  BY <1>1, <1>5
      <4> QED BY <1>0, <3>1, <3>2, <4>1, GainedByRequest
    <3>3. CASE j # i
      <4>1. last'[j] = last[j] /\ (j \in known' <=> j \in known)  BY <1>6, <3>3
      <4>2. Gained(j)' = Gained(j)  BY <1>1, <4>1, GainedByOthers
      <4> QED BY <3>1, <4>2
    <3> QED BY <3>2, <3>3
  <2>3. granted[j] \in Nat /\ Refilled(j) \in Nat /\ (clock - since) * Rate \in Nat
    <3>1. clock - since \in Nat  BY <1>0 DEF Types
    <3> QED BY <1>0, <3>1, OneTick, RefilledIs DEF Types
  <2>4. granted'[j] + Refilled(j)' = granted[j] + Refilled(j)  BY <1>1, <1>8
  <2>5. clock' = clock /\ since' = since  BY <1>1
  <2> QED BY <2>1, <2>2, <2>3, <2>4, <2>5
<1>10. Promised'
  <2> SUFFICES ASSUME NEW j \in known', retryAt'[j] # 0
               PROVE  /\ last'[j] <= retryAt'[j]
                      /\ Unit <= tokens'[j] + (retryAt'[j] - last'[j]) * Rate
    BY DEF Promised
  <2>1. CASE j = i
    <3>1. Rate # 0 /\ retryAt'[i] = clock + Wait(Refilled(i))  BY <1>5, <2>1
    <3>2. retryAt'[i] - last'[i] = Wait(Refilled(i)) /\ last'[i] <= retryAt'[i]
      BY <1>2, <1>3, <1>5, <3>1
    <3> QED BY <1>3, <1>5, <2>1, <3>1, <3>2
  <2>2. CASE j # i
    <3>1. j \in Ips  BY <1>7 DEF Types
    <3>2. /\ tokens'[j] = tokens[j] /\ last'[j] = last[j]
          /\ retryAt'[j] = retryAt[j] /\ j \in known
      BY <1>6, <2>2, <3>1
    <3> QED BY <1>0, <3>2 DEF Promised
  <2> QED BY <2>1, <2>2
<1> QED BY <1>7, <1>9, <1>10 DEF IInv

\* A bucket that is forgotten was full but for the gain.
LEMMA ForgottenWasFull ==
    ASSUME Types, NEW i \in known, Forgets(i)
    PROVE  Burst <= Refilled(i) + Gain
<1> USE Constants
<1>1. i \in Ips /\ last[i] \in Nat /\ clock \in Nat /\ tokens[i] \in Nat  BY DEF Types
<1>2. clock - last[i] \in Nat /\ MaxAge <= clock - last[i]  BY <1>1 DEF Forgets, Types
<1>3. MaxAge * Rate <= (clock - last[i]) * Rate  BY <1>2, MoreTime
<1>4. MaxAge * Rate \in Nat /\ (clock - last[i]) * Rate \in Nat  BY <1>2
<1>5. Refilled(i) = Burst \/ Refilled(i) = tokens[i] + (clock - last[i]) * Rate
  BY <1>1, RefilledIs
<1> QED BY <1>1, <1>3, <1>4, <1>5

LEMMA CleanupKeeps == IInv /\ Cleanup => IInv'
<1> SUFFICES ASSUME IInv, Cleanup PROVE IInv'  OBVIOUS
<1>0. Types /\ Saved /\ Promised  BY DEF IInv
<1>1. /\ known' = known \ {i \in known : Forgets(i)}
      /\ UNCHANGED <<clock, tokens, last, since, granted, retryAt>>
  BY DEF Cleanup
<1>2. Types'  BY <1>0, <1>1 DEF Types
<1>3. ASSUME NEW i \in Ips
      PROVE  granted'[i] + Refilled(i)' <= Burst + (clock' - since') * Rate + Gained(i)'
  <2>1. granted[i] + Refilled(i) <= Burst + (clock - since) * Rate + Gained(i)
    BY <1>0 DEF Saved
  <2>2. CASE i \in known /\ Forgets(i)
    <3>1. i \notin known'  BY <1>1, <2>2
    <3>2. Refilled(i)' = Burst  BY <3>1 DEF Refilled
    <3>3. Burst <= Refilled(i) + Gain  BY <1>0, <2>2, ForgottenWasFull
    <3>4. Gained(i) = Forgettings(last[i]) * Gain  BY <2>2 DEF Gained
    <3>5. Gained(i)' = Forgettings(clock) * Gain  BY <1>1, <3>1 DEF Gained, Forgettings
    <3>6. PICK t \in Nat : t = last[i] /\ t <= clock /\ t + MaxAge <= clock
      BY <1>0, <2>2 DEF Types, Forgets
    <3>7. clock \in Nat /\ since \in Nat /\ since <= clock  BY <1>0 DEF Types
    <3>8. /\ Forgettings(t) \in Nat /\ Forgettings(clock) \in Nat
          /\ Forgettings(t) + 1 <= Forgettings(clock)
      BY <3>6, <3>7, ForgettingsGrow
    <3>9. Gained(i) + Gain <= Gained(i)' /\ Gained(i) \in Nat /\ Gained(i)' \in Nat
      BY <3>4, <3>5, <3>6, <3>8, GainedGrows
    <3>10. /\ granted'[i] = granted[i] /\ granted[i] \in Nat /\ Refilled(i) \in Nat
           /\ clock' = clock /\ since' = since /\ (clock - since) * Rate \in Nat
      <4>1. clock - since \in Nat  BY <3>7
      <4> QED BY <1>0, <1>1, <4>1, Constants, OneTick, RefilledIs DEF Types
    <3> QED BY <2>1, <3>2, <3>3, <3>9, <3>10, Constants
  <2>3. CASE ~(i \in known /\ Forgets(i))
    <3>1. i \in known' <=> i \in known  BY <1>1, <2>3
    <3>2. Refilled(i)' = Refilled(i)  BY <1>1, <3>1, OthersRefilled
    <3>3. Gained(i)' = Gained(i)  BY <1>1, <3>1, GainedByOthers
    <3> QED BY <1>1, <2>1, <3>2, <3>3
  <2> QED BY <2>2, <2>3
<1>4. Saved'  BY <1>3 DEF Saved
<1>5. Promised'  BY <1>0, <1>1 DEF Promised
<1> QED BY <1>2, <1>4, <1>5 DEF IInv

\* A window that has just been opened has granted nothing.
LEMMA OpenWindowKeeps == IInv /\ OpenWindow => IInv'
<1> SUFFICES ASSUME IInv, OpenWindow PROVE IInv'  OBVIOUS
<1> USE Constants
<1>0. Types /\ Saved /\ Promised  BY DEF IInv
<1>1. /\ since' = clock /\ granted' = [i \in Ips |-> 0]
      /\ UNCHANGED <<clock, tokens, last, known, retryAt>>
  BY DEF OpenWindow
<1>2. Types'  BY <1>0, <1>1 DEF Types
<1>3. (clock' - since') * Rate = 0  BY <1>0, <1>1 DEF Types
<1>4. ASSUME NEW i \in Ips PROVE granted'[i] = 0 /\ Refilled(i)' \in 0..Burst
  <2>1. Refilled(i)' = Refilled(i)  BY <1>1, OthersRefilled
  <2> QED BY <1>0, <1>1, <2>1, RefilledIs
<1>5. Saved'
  <2> SUFFICES ASSUME NEW i \in Ips
               PROVE  granted'[i] + Refilled(i)'
                        <= Burst + (clock' - since') * Rate + Gained(i)'
    BY DEF Saved
  <2>1. Gained(i)' \in Nat
    <3>1. PICK t : t = IF i \in known THEN last[i] ELSE clock  OBVIOUS
    <3>2. t \in Nat /\ clock \in Nat /\ t <= clock  BY <1>0, <3>1 DEF Types
    <3>3. PICK n : n = IF t < clock THEN 0 ELSE 1 + (t - clock) \div MaxAge  OBVIOUS
    <3>4. n \in Nat
      <4>1. CASE t < clock  BY <3>3, <4>1
      <4>2. CASE ~(t < clock)
        <5>1. t - clock \in Nat  BY <3>2, <4>2
        <5>2. (t - clock) \div MaxAge \in Nat  BY <5>1, OnePeriod
        <5> QED BY <3>3, <4>2, <5>2
      <4> QED BY <4>1, <4>2
    <3>5. Gained(i)' = n * Gain  BY <1>1, <3>1, <3>3 DEF Gained, Forgettings
    <3> QED BY <3>4, <3>5, GainedGrows
  <2> QED BY <1>3, <1>4, <2>1
<1>6. Promised'  BY <1>0, <1>1 DEF Promised
<1> QED BY <1>2, <1>5, <1>6 DEF IInv

LEMMA Invariance == Spec => []IInv
<1>1. Init => IInv  BY Initially
<1>2. IInv /\ [Next]_vars => IInv'
  <2> SUFFICES ASSUME IInv, [Next]_vars PROVE IInv'  OBVIOUS
  <2>1. CASE UNCHANGED vars
    <3>1. UNCHANGED <<clock, tokens, last, known, since, granted, retryAt>>
      BY <2>1 DEF vars
    <3> QED BY <3>1 DEF IInv, Types, Saved, Promised, Refilled, Gained, Forgettings
  <2> QED BY <2>1, TickKeeps, CleanupKeeps, OpenWindowKeeps, AllowKeeps, RefuseKeeps
          DEF Next
<1> QED BY <1>1, <1>2, PTL DEF Spec

-----------------------------------------------------------------------------
(* Theorems *)

\* In any window of time a client gets at most the burst, what flows back and,
\* once per MaxAge, what a cleanup that is too early gives it, for every rate and
\* burst, 0 included, and every number of clients.
THEOREM BurstBoundsWindows == Spec => []WindowBound
<1>1. IInv => WindowBound
  <2> SUFFICES ASSUME IInv, NEW i \in Ips
               PROVE  granted[i] <= Burst + (clock - since) * Rate + Forgettings(clock) * Gain
    BY DEF WindowBound
  <2>1. Types /\ granted[i] + Refilled(i) <= Burst + (clock - since) * Rate + Gained(i)
    BY DEF IInv, Saved
  <2>2. granted[i] \in Nat /\ clock - since \in Nat  BY <2>1 DEF Types
  <2>3. (clock - since) * Rate \in Nat /\ Refilled(i) \in Nat /\ Burst \in Nat
    BY <2>1, <2>2, OneTick, RefilledIs, Constants
  <2>4. /\ Gained(i) \in Nat /\ Forgettings(clock) * Gain \in Nat
        /\ Gained(i) <= Forgettings(clock) * Gain
    BY <2>1, GainedBounded
  <2> QED BY <2>1, <2>2, <2>3, <2>4
<1> QED BY <1>1, Invariance, PTL

\* A client that waited for as long as Retry-After said finds a token, if its
\* bucket can hold one.
THEOREM WaitingIsEnough == Spec => []RetryAfterHolds
<1>1. IInv => RetryAfterHolds
  <2> SUFFICES ASSUME IInv, Unit <= Burst,
                      NEW i \in Ips, retryAt[i] # 0, clock >= retryAt[i]
               PROVE  Refilled(i) >= Unit
    BY DEF RetryAfterHolds
  <2> USE Constants
  <2>1. Types /\ Promised  BY DEF IInv
  <2>2. CASE i \notin known  BY <2>1, <2>2, RefilledIs
  <2>3. CASE i \in known
    <3>1. /\ last[i] <= retryAt[i] /\ Unit <= tokens[i] + (retryAt[i] - last[i]) * Rate
          /\ last[i] \in Nat /\ retryAt[i] \in Nat /\ clock \in Nat /\ tokens[i] \in Nat
      BY <2>1, <2>3 DEF Promised, Types
    <3>2. /\ retryAt[i] - last[i] \in Nat /\ clock - last[i] \in Nat
          /\ retryAt[i] - last[i] <= clock - last[i]
      BY <3>1
    <3>3. (retryAt[i] - last[i]) * Rate <= (clock - last[i]) * Rate
      BY <3>2, MoreTime
    <3>4. (retryAt[i] - last[i]) * Rate \in Nat /\ (clock - last[i]) * Rate \in Nat
      BY <3>2, OneTick
    <3>5. Unit <= tokens[i] + (clock - last[i]) * Rate  BY <3>1, <3>3, <3>4
    <3> QED BY <2>1, <2>3, <3>5, RefilledIs
  <2> QED BY <2>2, <2>3
<1> QED BY <1>1, Invariance, PTL
=============================================================================
