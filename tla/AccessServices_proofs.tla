----------------------- MODULE AccessServices_proofs ------------------------
(***************************************************************************)
(* Who may get in: e-mailed codes, roles and bans, API keys and sessions,  *)
(* the exchange of authorization codes, and the identities that all of     *)
(* them go by. For each service an inductive invariant of its own module's *)
(* specification, and the property of the composed services that follows   *)
(* from it, for any constants that satisfy the assumptions of              *)
(* AccessServices.                                                         *)
(***************************************************************************)
EXTENDS AccessServices, FiniteSets, FiniteSetTheorems, SequencesExt, TLAPS

-----------------------------------------------------------------------------
(* OtpCodes: the inductive invariant *)

\* Rows are numbered from 1 on, and no two have one number.
Numbered ==
    /\ IsFiniteSet(otpRows) /\ otpClock \in Nat
    /\ \A r \in otpRows : r \in Otp!Row /\ r.id <= Cardinality(otpRows)
    /\ \A r, s \in otpRows : r.id = s.id => r = s

RowIds(R) == {r.id : r \in R}
UsedIds(R) == {r.id : r \in {q \in R : q.used}}

\* What a verification has read: it has found what it holds for valid, and nothing
\* of that was spent before it began, or belongs to somebody else, or had expired.
\* Once it has marked its rows they are used.
Counting(x, who, code, now, spent) ==
    x = [at |-> "count", who |-> who, code |-> code, now |-> now, spent |-> spent]
Holding(x, R, F, at, who, code, now, spent, valid) ==
    /\ x = [at |-> at, who |-> who, code |-> code, now |-> now,
            spent |-> spent, valid |-> valid]
    /\ valid \cap spent = {}
    /\ \A r \in R : r.id \in valid => r.who = who /\ r.code = code /\ r.expires > now
    /\ at = "marked" => \A r \in R : r.id \in valid => r.used
    /\ <<who, code>> \in F

VerifySound(x, R, F) ==
    \/ x = Otp!NoRequest
    \/ \E who \in OtpMembers, code \in OtpDrawn, now \in Nat, spent \in SUBSET UsedIds(R) :
          \/ Counting(x, who, code, now, spent)
          \/ \E at \in {"mark", "marked"}, valid \in SUBSET RowIds(R) :
                Holding(x, R, F, at, who, code, now, spent, valid)

OtpInv ==
    /\ Numbered
    /\ otpVerify = [v \in OtpVerifiers |-> otpVerify[v]]
    /\ \A v \in OtpVerifiers : VerifySound(otpVerify[v], otpRows, otpFound)
    /\ otpAccepted \subseteq RowIds(otpRows)
    /\ Otp!AcceptedIsUsed
    /\ Otp!UsedWasFound

\* A set that is mapped one to one has as many elements.
LEMMA MappedOneToOne ==
    ASSUME NEW S, IsFiniteSet(S), NEW f, f = [x \in S |-> f[x]],
           \A x, y \in S : f[x] = f[y] => x = y
    PROVE  LET T == {f[x] : x \in S}
           IN  IsFiniteSet(T) /\ Cardinality(T) = Cardinality(S)
<1> DEFINE T == {f[x] : x \in S}
<1>1. f \in [S -> T]  OBVIOUS
<1>2. f \in Surjection(S, T)  BY <1>1 DEF Surjection
<1>3. f \in Injection(S, T)  BY <1>1 DEF Injection, IsInjective
<1> QED BY <1>2, <1>3, FS_Surjection

\* A verification that is under way stays sound while rows are added and marked,
\* and others find theirs.
LEMMA VerifyStaysSound ==
    ASSUME NEW x, NEW R, NEW S, NEW F, NEW G, F \subseteq G, NEW n \in Nat,
           VerifySound(x, R, F),
           \A r \in R : r.id \in Nat /\ r.id <= n,
           \A r \in R : \E s \in S : s.id = r.id /\ (r.used => s.used),
           \A s \in S : \/ s.id > n
                        \/ \E r \in R : /\ r.id = s.id /\ r.who = s.who /\ r.code = s.code
                                        /\ r.expires = s.expires /\ (r.used => s.used)
    PROVE  VerifySound(x, S, G)
<1>1. UsedIds(R) \subseteq UsedIds(S)  BY DEF UsedIds
<1>2. RowIds(R) \subseteq RowIds(S)  BY DEF RowIds
<1>3. CASE x = Otp!NoRequest  BY <1>3 DEF VerifySound
<1>4. ASSUME NEW who \in OtpMembers, NEW code \in OtpDrawn, NEW now \in Nat,
             NEW spent \in SUBSET UsedIds(R), Counting(x, who, code, now, spent)
      PROVE  VerifySound(x, S, G)
  BY <1>1, <1>4 DEF VerifySound
<1>5. ASSUME NEW who \in OtpMembers, NEW code \in OtpDrawn, NEW now \in Nat,
             NEW spent \in SUBSET UsedIds(R), NEW at \in {"mark", "marked"},
             NEW valid \in SUBSET RowIds(R),
             Holding(x, R, F, at, who, code, now, spent, valid)
      PROVE  VerifySound(x, S, G)
  <2>1. \A i \in valid : i <= n /\ i \in Nat  BY DEF RowIds
  <2>2. ASSUME NEW s \in S, s.id \in valid
        PROVE  /\ s.who = who /\ s.code = code /\ s.expires > now
               /\ at = "marked" => s.used
    <3>1. s.id <= n /\ s.id \in Nat /\ ~(s.id > n)  BY <2>1, <2>2
    <3>2. PICK r \in R : /\ r.id = s.id /\ r.who = s.who /\ r.code = s.code
                         /\ r.expires = s.expires /\ (r.used => s.used)
      BY <3>1
    <3> QED BY <1>5, <2>2, <3>2 DEF Holding
  <2>3. <<who, code>> \in G  BY <1>5 DEF Holding
  <2>4. Holding(x, S, G, at, who, code, now, spent, valid)
    BY <1>5, <2>2, <2>3 DEF Holding
  <2> QED BY <1>1, <1>2, <2>4 DEF VerifySound
<1> QED BY <1>3, <1>4, <1>5 DEF VerifySound

\* The step of one request leaves the others alone.
LEMMA OtherVerifications ==
    ASSUME OtpInv, NEW v \in OtpVerifiers, NEW x, otpVerify' = [otpVerify EXCEPT ![v] = x],
           VerifySound(x, otpRows', otpFound'),
           \A y : VerifySound(y, otpRows, otpFound) => VerifySound(y, otpRows', otpFound')
    PROVE  /\ otpVerify' = [u \in OtpVerifiers |-> otpVerify'[u]]
           /\ \A u \in OtpVerifiers : VerifySound(otpVerify'[u], otpRows', otpFound')
<1>1. otpVerify' = [u \in OtpVerifiers |-> IF u = v THEN x ELSE otpVerify[u]]  BY DEF OtpInv
<1> QED BY <1>1 DEF OtpInv

\* What a verification that counts, or that has counted, holds.
LEMMA CountingHolds ==
    ASSUME OtpInv, NEW v \in OtpVerifiers, otpVerify[v].at = "count"
    PROVE  \E who \in OtpMembers, code \in OtpDrawn, now \in Nat,
              spent \in SUBSET UsedIds(otpRows) : Counting(otpVerify[v], who, code, now, spent)
<1>1. VerifySound(otpVerify[v], otpRows, otpFound) /\ otpVerify[v] # Otp!NoRequest
  BY DEF OtpInv, Otp!NoRequest
<1>2. ASSUME NEW at \in {"mark", "marked"}, NEW who, NEW code, NEW now, NEW spent, NEW valid,
             Holding(otpVerify[v], otpRows, otpFound, at, who, code, now, spent, valid)
      PROVE  FALSE
  BY <1>2 DEF Holding
<1> QED BY <1>1, <1>2 DEF VerifySound

LEMMA HoldingHolds ==
    ASSUME OtpInv, NEW v \in OtpVerifiers, Otp!Holds(v)
    PROVE  \E who \in OtpMembers, code \in OtpDrawn, now \in Nat,
              spent \in SUBSET UsedIds(otpRows), valid \in SUBSET RowIds(otpRows) :
              Holding(otpVerify[v], otpRows, otpFound, otpVerify[v].at, who, code, now, spent, valid)
<1>1. VerifySound(otpVerify[v], otpRows, otpFound) /\ otpVerify[v] # Otp!NoRequest
  BY DEF OtpInv, Otp!NoRequest, Otp!Holds
<1>2. ASSUME NEW who, NEW code, NEW now, NEW spent,
             Counting(otpVerify[v], who, code, now, spent)
      PROVE  FALSE
  BY <1>2 DEF Counting, Otp!Holds
<1>3. ASSUME NEW at, NEW who, NEW code, NEW now, NEW spent, NEW valid,
             Holding(otpVerify[v], otpRows, otpFound, at, who, code, now, spent, valid)
      PROVE  otpVerify[v].at = at
  BY <1>3 DEF Holding
<1> QED BY <1>1, <1>2, <1>3 DEF VerifySound

\* The instance has its own copy of Cardinality.
LEMMA OtpCardinality == \A S : Otp!Cardinality(S) = Cardinality(S)
BY DEF Otp!Cardinality, Cardinality

LEMMA OtpInit == Otp!Init => OtpInv
<1> SUFFICES ASSUME Otp!Init PROVE OtpInv  OBVIOUS
<1>1. Numbered  BY FS_EmptySet DEF Otp!Init, Numbered
<1>2. \A v \in OtpVerifiers : VerifySound(otpVerify[v], otpRows, otpFound)
  BY DEF Otp!Init, VerifySound
<1> QED BY <1>1, <1>2 DEF Otp!Init, OtpInv, Otp!AcceptedIsUsed, Otp!UsedWasFound

LEMMA OtpNext == OtpInv /\ [Otp!Next]_(Otp!vars) => OtpInv'
<1> SUFFICES ASSUME OtpInv, [Otp!Next]_(Otp!vars) PROVE OtpInv'  OBVIOUS
<1> USE OtpAssumption
<1>0. Cardinality(otpRows) \in Nat  BY FS_CardinalityType DEF OtpInv, Numbered
<1>1. CASE otpRows' = otpRows /\ otpVerify' = otpVerify /\ otpFound' = otpFound /\ otpAccepted' = otpAccepted
           /\ otpClock' \in Nat
  <2>1. Numbered'  BY <1>1 DEF OtpInv, Numbered
  <2>2. \A v \in OtpVerifiers : VerifySound(otpVerify'[v], otpRows', otpFound')
    BY <1>1 DEF OtpInv
  <2> QED BY <1>1, <2>1, <2>2 DEF OtpInv, Otp!AcceptedIsUsed, Otp!UsedWasFound, RowIds
<1>2. ASSUME NEW who \in OtpMembers, NEW code \in OtpDrawn, Otp!SendOtp(who, code) PROVE OtpInv'
  <2> DEFINE new == [id |-> Cardinality(otpRows) + 1, who |-> who, code |-> code,
                     expires |-> otpClock + OtpLifetime, used |-> FALSE]
  <2>1. /\ otpRows' = otpRows \cup {new} /\ Cardinality(otpRows) < OtpMaxSends
        /\ UNCHANGED <<otpClock, otpVerify, otpFound, otpAccepted>>
    BY <1>2, OtpCardinality DEF Otp!SendOtp
  <2>2. new \notin otpRows  BY <1>0 DEF OtpInv, Numbered
  <2>3. IsFiniteSet(otpRows') /\ Cardinality(otpRows') = Cardinality(otpRows) + 1
    BY <2>1, <2>2, FS_AddElement DEF OtpInv, Numbered
  <2>4. new \in Otp!Row  BY <1>0, <2>1 DEF Otp!Row, OtpInv, Numbered
  <2>5. Numbered'
    <3>1. \A r \in otpRows' : r \in Otp!Row /\ r.id <= Cardinality(otpRows')
      <4>1. \A r \in otpRows : r \in Otp!Row /\ r.id \in Nat /\ r.id <= Cardinality(otpRows)
        BY DEF OtpInv, Numbered, Otp!Row
      <4>2. new.id = Cardinality(otpRows')  BY <2>3
      <4> HIDE DEF new
      <4> QED BY <1>0, <2>1, <2>3, <2>4, <4>1, <4>2
    <3>2. \A r \in otpRows : r.id # new.id  BY <1>0 DEF OtpInv, Numbered, Otp!Row
    <3>3. \A r, s \in otpRows' : r.id = s.id => r = s  BY <2>1, <3>2 DEF OtpInv, Numbered
    <3> QED BY <2>1, <2>3, <3>1, <3>3 DEF OtpInv, Numbered
  <2>20. \A r \in otpRows : r.id \in Nat /\ r.id <= Cardinality(otpRows)
    BY DEF OtpInv, Numbered, Otp!Row
  <2>6. \A r \in otpRows : \E s \in otpRows' : s.id = r.id /\ (r.used => s.used)  BY <2>1
  <2>7. \A s \in otpRows' : \/ s.id > Cardinality(otpRows)
                            \/ \E r \in otpRows : /\ r.id = s.id /\ r.who = s.who /\ r.code = s.code
                                                 /\ r.expires = s.expires /\ (r.used => s.used)
    BY <1>0, <2>1
  <2>8. \A y : VerifySound(y, otpRows, otpFound) => VerifySound(y, otpRows', otpFound')
    BY <1>0, <2>1, <2>6, <2>7, <2>20, VerifyStaysSound
  <2>9. ASSUME NEW v \in OtpVerifiers PROVE VerifySound(otpVerify'[v], otpRows', otpFound')
    BY <2>1, <2>8 DEF OtpInv
  <2>10. Otp!UsedWasFound'  BY <2>1 DEF OtpInv, Otp!UsedWasFound
  <2>12. otpAccepted' \subseteq RowIds(otpRows')  BY <2>1 DEF OtpInv, RowIds
  <2>13. Otp!AcceptedIsUsed'
    <3>1. ~(new.id \in otpAccepted)  BY <1>0, <2>20 DEF OtpInv, RowIds
    <3> QED BY <2>1, <3>1 DEF OtpInv, Otp!AcceptedIsUsed
  <2>11. otpVerify' = [v \in OtpVerifiers |-> otpVerify'[v]]  BY <2>1 DEF OtpInv
  <2> QED BY <2>5, <2>9, <2>10, <2>11, <2>12, <2>13 DEF OtpInv
\* A step of one request that changes no row.
<1>3. ASSUME NEW v \in OtpVerifiers, NEW x, otpVerify' = [otpVerify EXCEPT ![v] = x],
             UNCHANGED <<otpClock, otpRows>>, otpFound \subseteq otpFound',
             VerifySound(x, otpRows, otpFound'), otpAccepted' \subseteq RowIds(otpRows),
             \A r \in otpRows : r.id \in otpAccepted' => r.used
      PROVE  OtpInv'
  <2>1. Numbered'  BY <1>3 DEF OtpInv, Numbered
  <2>20. \A r \in otpRows : r.id \in Nat /\ r.id <= Cardinality(otpRows)
    BY DEF OtpInv, Numbered, Otp!Row
  <2>2. \A y : VerifySound(y, otpRows, otpFound) => VerifySound(y, otpRows', otpFound')
    BY <1>0, <1>3, <2>20, VerifyStaysSound
  <2>3. VerifySound(x, otpRows', otpFound')  BY <1>3
  <2>4. /\ otpVerify' = [u \in OtpVerifiers |-> otpVerify'[u]]
        /\ \A u \in OtpVerifiers : VerifySound(otpVerify'[u], otpRows', otpFound')
    BY <1>3, <2>2, <2>3, OtherVerifications
  <2>5. otpAccepted' \subseteq RowIds(otpRows') /\ Otp!AcceptedIsUsed' /\ Otp!UsedWasFound'
    BY <1>3 DEF OtpInv, Otp!AcceptedIsUsed, Otp!UsedWasFound
  <2> QED BY <2>1, <2>4, <2>5 DEF OtpInv
<1>10. otpAccepted \subseteq RowIds(otpRows) /\ \A r \in otpRows : r.id \in otpAccepted => r.used
  BY DEF OtpInv, Otp!AcceptedIsUsed
<1>4. ASSUME NEW v \in OtpVerifiers, NEW who \in OtpMembers, NEW code \in OtpDrawn, Otp!BeginVerify(v, who, code)
      PROVE  OtpInv'
  <2>1. PICK x : x = [at |-> "count", who |-> who, code |-> code, now |-> otpClock, spent |-> UsedIds(otpRows)]
    OBVIOUS
  <2>2. VerifySound(x, otpRows, otpFound)
    BY <2>1 DEF VerifySound, Counting, OtpInv, Numbered
  <2>3. otpVerify' = [otpVerify EXCEPT ![v] = x] /\ UNCHANGED <<otpClock, otpRows, otpFound, otpAccepted>>
    BY <1>4, <2>1 DEF Otp!BeginVerify, UsedIds
  <2> QED BY <1>3, <1>10, <2>2, <2>3
<1>5. ASSUME NEW v \in OtpVerifiers, Otp!CountValid(v) PROVE OtpInv'
  <2> DEFINE hits == {r \in otpRows : Otp!Valid(r, otpVerify[v])}
             valid == {r.id : r \in hits}
  <2>1. otpVerify[v].at = "count" /\ UNCHANGED <<otpClock, otpRows, otpAccepted>>
    BY <1>5 DEF Otp!CountValid
  <2>2. PICK who \in OtpMembers, code \in OtpDrawn, now \in Nat, spent \in SUBSET UsedIds(otpRows) :
           Counting(otpVerify[v], who, code, now, spent)
    BY <2>1, CountingHolds
  <2>3. CASE hits = {}
    <3>1. otpVerify' = [otpVerify EXCEPT ![v] = Otp!NoRequest] /\ otpFound' = otpFound
      BY <1>5, <2>3 DEF Otp!CountValid
    <3>2. VerifySound(Otp!NoRequest, otpRows, otpFound)  BY DEF VerifySound
    <3> QED BY <1>3, <1>10, <2>1, <3>1, <3>2
  <2>4. CASE hits # {}
    <3>1. PICK x : x = [at |-> "mark", who |-> who, code |-> code, now |-> now,
                        spent |-> spent, valid |-> valid]
      OBVIOUS
    <3>2. otpVerify' = [otpVerify EXCEPT ![v] = x] /\ otpFound' = otpFound \cup {<<who, code>>}
      BY <1>5, <2>2, <2>4, <3>1 DEF Otp!CountValid, Counting
    <3>3. \A r \in hits : ~r.used /\ r.who = who /\ r.code = code /\ r.expires > now
      BY <2>2 DEF Otp!Valid, Counting
    <3>4. \A r \in otpRows : r.id \in valid => r \in hits  BY DEF OtpInv, Numbered
    <3>5. valid \cap spent = {}  BY <3>3, <3>4 DEF UsedIds
    <3>6. valid \in SUBSET RowIds(otpRows)  BY DEF RowIds
    <3>7. Holding(x, otpRows, otpFound', "mark", who, code, now, spent, valid)
      BY <3>1, <3>2, <3>3, <3>4, <3>5 DEF Holding
    <3>8. VerifySound(x, otpRows, otpFound')  BY <3>6, <3>7 DEF VerifySound
    <3>9. otpFound \subseteq otpFound'  BY <3>2
    <3> QED BY <1>3, <1>10, <2>1, <3>2, <3>8, <3>9
  <2> QED BY <2>3, <2>4
<1>6. ASSUME NEW v \in OtpVerifiers, Otp!VerifyEnds(v) PROVE OtpInv'
  <2>1. VerifySound(Otp!NoRequest, otpRows, otpFound)  BY DEF VerifySound
  <2> QED BY <1>3, <1>6, <1>10, <2>1 DEF Otp!VerifyEnds
<1>11. ASSUME NEW v \in OtpVerifiers, Otp!Accept(v) PROVE OtpInv'
  <2>1. otpVerify[v].at = "marked"  BY <1>11 DEF Otp!Accept
  <2>2. PICK who \in OtpMembers, code \in OtpDrawn, now \in Nat, spent \in SUBSET UsedIds(otpRows),
             valid \in SUBSET RowIds(otpRows) :
             Holding(otpVerify[v], otpRows, otpFound, "marked", who, code, now, spent, valid)
    BY <2>1, HoldingHolds DEF Otp!Holds
  <2>3. otpVerify[v].valid = valid /\ \A r \in otpRows : r.id \in valid => r.used
    BY <2>2 DEF Holding
  <2>4. VerifySound(Otp!NoRequest, otpRows, otpFound)  BY DEF VerifySound
  <2>5. /\ otpVerify' = [otpVerify EXCEPT ![v] = Otp!NoRequest]
        /\ otpAccepted' = otpAccepted \cup valid
        /\ UNCHANGED <<otpClock, otpRows, otpFound>>
    BY <1>11, <2>3 DEF Otp!Accept
  <2> QED BY <1>3, <1>10, <2>3, <2>4, <2>5
<1>7. ASSUME NEW v \in OtpVerifiers, Otp!MarkUsed(v) PROVE OtpInv'
  <2> DEFINE Mark(r) == IF Otp!Marked(r, otpVerify[v]) THEN [r EXCEPT !.used = TRUE] ELSE r
             f == [r \in otpRows |-> Mark(r)]
  <2>1. otpRows' = {f[r] : r \in otpRows}  BY <1>7 DEF Otp!MarkUsed
  <2>2. ASSUME NEW r \in otpRows
        PROVE  /\ f[r] \in Otp!Row /\ f[r].id = r.id /\ f[r].who = r.who /\ f[r].code = r.code
               /\ f[r].expires = r.expires /\ (r.used => f[r].used)
               /\ f[r].used => r.used \/ (r.who = otpVerify[v].who /\ r.code = otpVerify[v].code)
    <3>1. r \in Otp!Row  BY DEF OtpInv, Numbered
    <3>2. CASE Otp!Marked(r, otpVerify[v])  BY <3>1, <3>2 DEF Otp!Row, Otp!Marked
    <3>3. CASE ~Otp!Marked(r, otpVerify[v])  BY <3>1, <3>3 DEF Otp!Row
    <3> QED BY <3>2, <3>3
  <2> HIDE DEF f
  <2>3. \A r, s \in otpRows : f[r] = f[s] => r = s  BY <2>2 DEF OtpInv, Numbered
  <2>4. f = [r \in otpRows |-> f[r]]  BY DEF f
  <2>5. IsFiniteSet(otpRows') /\ Cardinality(otpRows') = Cardinality(otpRows)
    BY <2>1, <2>3, <2>4, MappedOneToOne DEF OtpInv, Numbered
  <2>6. Numbered'
    <3>1. \A r \in otpRows' : r \in Otp!Row /\ r.id <= Cardinality(otpRows')
      BY <2>1, <2>2, <2>5 DEF OtpInv, Numbered
    <3>2. \A r, s \in otpRows' : r.id = s.id => r = s  BY <2>1, <2>2 DEF OtpInv, Numbered
    <3> QED BY <1>7, <2>5, <3>1, <3>2 DEF OtpInv, Numbered, Otp!MarkUsed
  <2>20. \A r \in otpRows : r.id \in Nat /\ r.id <= Cardinality(otpRows)
    BY DEF OtpInv, Numbered, Otp!Row
  <2>7. \A r \in otpRows : \E s \in otpRows' : s.id = r.id /\ (r.used => s.used)
    BY <2>1, <2>2
  <2>8. \A s \in otpRows' : \E r \in otpRows : /\ r.id = s.id /\ r.who = s.who /\ r.code = s.code
                                             /\ r.expires = s.expires /\ (r.used => s.used)
    BY <2>1, <2>2
  <2>9. otpFound' = otpFound /\ otpAccepted' = otpAccepted /\ otpVerify' = [otpVerify EXCEPT ![v].at = "marked"]
    BY <1>7 DEF Otp!MarkUsed
  <2>10. \A y : VerifySound(y, otpRows, otpFound) => VerifySound(y, otpRows', otpFound')
    BY <1>0, <2>7, <2>8, <2>9, <2>20, VerifyStaysSound
  <2>11. PICK who \in OtpMembers, code \in OtpDrawn, now \in Nat, spent \in SUBSET UsedIds(otpRows),
              valid \in SUBSET RowIds(otpRows) :
              Holding(otpVerify[v], otpRows, otpFound, "mark", who, code, now, spent, valid)
    BY <1>7, HoldingHolds DEF Otp!MarkUsed, Otp!Holds
  <2>12. otpVerify[v].who = who /\ otpVerify[v].code = code  BY <2>11 DEF Holding
  <2>13. PICK x : x = [at |-> "marked", who |-> who, code |-> code, now |-> now,
                       spent |-> spent, valid |-> valid]
    OBVIOUS
  <2>14. otpVerify' = [otpVerify EXCEPT ![v] = x]
    <3>1. otpVerify[v] = [at |-> "mark", who |-> who, code |-> code, now |-> now,
                          spent |-> spent, valid |-> valid]
      BY <2>11 DEF Holding
    <3>2. [otpVerify[v] EXCEPT !.at = "marked"] = x  BY <2>13, <3>1
    <3>3. otpVerify' = [otpVerify EXCEPT ![v] = [otpVerify[v] EXCEPT !.at = "marked"]]
      BY <2>9
    <3> QED BY <3>2, <3>3
  <2>15. ASSUME NEW s \in otpRows', s.id \in valid
         PROVE  s.who = who /\ s.code = code /\ s.expires > now /\ s.used
    <3>1. PICK r \in otpRows : s = f[r]  BY <2>1
    <3>2. /\ s.id = r.id /\ s.who = r.who /\ s.code = r.code /\ s.expires = r.expires
      BY <2>2, <3>1
    <3>3. r.who = who /\ r.code = code /\ r.expires > now  BY <2>11, <2>15, <3>2 DEF Holding
    <3>4. Otp!Marked(r, otpVerify[v])  BY <2>12, <3>3 DEF Otp!Marked
    <3>5. s.used  BY <3>1, <3>4 DEF f, OtpInv, Numbered, Otp!Row
    <3> QED BY <3>2, <3>3, <3>5
  <2>16. Holding(x, otpRows', otpFound', "marked", who, code, now, spent, valid)
    BY <2>9, <2>11, <2>13, <2>15 DEF Holding
  <2>17. VerifySound(x, otpRows', otpFound')
    <3>1. RowIds(otpRows) \subseteq RowIds(otpRows')  BY <2>7 DEF RowIds
    <3>2. UsedIds(otpRows) \subseteq UsedIds(otpRows')  BY <2>7 DEF UsedIds
    <3> QED BY <2>16, <3>1, <3>2 DEF VerifySound
  <2>18. /\ otpVerify' = [u \in OtpVerifiers |-> otpVerify'[u]]
         /\ \A u \in OtpVerifiers : VerifySound(otpVerify'[u], otpRows', otpFound')
    BY <2>10, <2>14, <2>17, OtherVerifications
  <2>19. Otp!UsedWasFound'
    <3>1. ASSUME NEW s \in otpRows', s.used PROVE <<s.who, s.code>> \in otpFound'
      <4>1. PICK r \in otpRows : s = f[r]  BY <2>1
      <4>2. r.used \/ (r.who = who /\ r.code = code)  BY <2>2, <2>12, <3>1, <4>1
      <4>3. s.who = r.who /\ s.code = r.code  BY <2>2, <4>1
      <4>4. <<who, code>> \in otpFound  BY <2>11 DEF Holding
      <4> QED BY <2>9, <4>2, <4>3, <4>4 DEF OtpInv, Otp!UsedWasFound
    <3> QED BY <3>1 DEF Otp!UsedWasFound
  <2>21. otpAccepted' \subseteq RowIds(otpRows')  BY <2>7, <2>9 DEF OtpInv, RowIds
  <2>22. Otp!AcceptedIsUsed'  BY <2>8, <2>9 DEF OtpInv, Otp!AcceptedIsUsed
  <2> QED BY <2>6, <2>18, <2>19, <2>21, <2>22 DEF OtpInv
<1>8. CASE Otp!Tick
  BY <1>1, <1>8 DEF Otp!Tick, OtpInv, Numbered
<1>9. CASE UNCHANGED Otp!vars  BY <1>1, <1>9 DEF Otp!vars, OtpInv, Numbered
<1> QED BY <1>2, <1>4, <1>5, <1>6, <1>7, <1>8, <1>9, <1>11 DEF Otp!Next

LEMMA OtpInvIsEnough == OtpInv => Otp!SpentStaysSpent /\ Otp!AcceptedIsUsed /\ Otp!UsedWasFound
<1> SUFFICES ASSUME OtpInv, NEW v \in OtpVerifiers, Otp!Holds(v)
             PROVE  /\ otpVerify[v].valid \cap otpVerify[v].spent = {}
                    /\ \A r \in otpRows : r.id \in otpVerify[v].valid =>
                           Otp!Marked(r, otpVerify[v]) /\ r.expires > otpVerify[v].now
  BY DEF OtpInv, Otp!SpentStaysSpent
<1>1. PICK who \in OtpMembers, code \in OtpDrawn, now \in Nat, spent \in SUBSET UsedIds(otpRows),
           valid \in SUBSET RowIds(otpRows) :
           Holding(otpVerify[v], otpRows, otpFound, otpVerify[v].at, who, code, now, spent, valid)
  BY HoldingHolds
<1> QED BY <1>1 DEF Holding, Otp!Marked

LEMMA OtpSteps == AccessSpec => Otp!Spec
<1>1. AccessInit => Otp!Init  BY DEF AccessInit
<1>2. [AccessNext]_accessVars => [Otp!Next]_(Otp!vars)
  BY DEF AccessNext, accessVars, otpVars, idVars, keyVars, rbVars, exVars, Otp!vars
<1> QED BY <1>1, <1>2, PTL DEF AccessSpec, Otp!Spec

\* CodesAreSpent: however verifications, lost answers and new codes interleave, a
\* used code is never found by a verification that begins later, one that was
\* answered with true is used, and only one that was found valid is used up.
THEOREM CodesSpent == AccessSpec => []CodesAreSpent
<1>1. OtpInv => CodesAreSpent  BY OtpInvIsEnough DEF CodesAreSpent
<1> QED BY <1>1, OtpInit, OtpNext, OtpSteps, PTL DEF Otp!Spec

-----------------------------------------------------------------------------
(* Rbac: the inductive invariant *)

\* Nothing is left of an assignment that was revoked as a whole.
NoneLeft == \A row \in rbRoles : <<row.did, row.role>> \notin rbWithdrawn

\* The expiry of a ban is as far away as the sentence is long; a ban for ever
\* outlasts the clock.
BanRuns(expiries, left) ==
    /\ left \in Nat
    /\ \/ expiries = {} /\ left = 0
       \/ expiries = {Null} /\ left > RbMaxTime - rbClock
       \/ \E e \in Nat : expiries = {e} /\ left = IF e > rbClock THEN e - rbClock ELSE 0

RolesInv ==
    /\ NoneLeft
    /\ rbClock \in Nat /\ rbClock <= RbMaxTime
    /\ rbBans = [d \in RbDids |-> rbBans[d]] /\ rbSentence = [d \in RbDids |-> rbSentence[d]]
    /\ \A d \in RbDids : BanRuns(rbBans[d], rbSentence[d])

LEMMA RolesInit == Roles!Init => RolesInv
BY RolesAssumption DEF Roles!Init, RolesInv, NoneLeft, BanRuns

\* Whatever is granted is no longer withdrawn.
LEMMA InsertLeavesNone ==
    ASSUME NoneLeft, NEW did, NEW role, NEW type, NEW id, Roles!Insert(did, role, type, id)
    PROVE  NoneLeft'
<1>1. rbWithdrawn' = rbWithdrawn \ {<<did, role>>}  BY DEF Roles!Insert
<1>2. CASE rbRoles' = rbRoles  BY <1>1, <1>2 DEF NoneLeft
<1>3. CASE rbRoles' = rbRoles \cup {[rowid |-> rbNextId, did |-> did, role |-> role,
                                     type |-> type, id |-> id]}
  <2>1. PICK new : new = [rowid |-> rbNextId, did |-> did, role |-> role, type |-> type, id |-> id]
    OBVIOUS
  <2>2. <<new.did, new.role>> \notin rbWithdrawn'  BY <1>1, <2>1
  <2>3. \A row \in rbRoles : <<row.did, row.role>> \notin rbWithdrawn'  BY <1>1 DEF NoneLeft
  <2> QED BY <1>3, <2>1, <2>2, <2>3 DEF NoneLeft
<1> QED BY <1>2, <1>3 DEF Roles!Insert

LEMMA RolesNext == RolesInv /\ [Roles!Next]_(Roles!vars) => RolesInv'
<1> SUFFICES ASSUME RolesInv, [Roles!Next]_(Roles!vars) PROVE RolesInv'  OBVIOUS
<1> USE RolesAssumption
<1>1. ASSUME NoneLeft', UNCHANGED <<rbClock, rbBans, rbSentence>> PROVE RolesInv'
  BY <1>1 DEF RolesInv, BanRuns
<1>2. ASSUME NEW did \in RbDids, NEW expiries, NEW left,
             rbBans' = [rbBans EXCEPT ![did] = expiries],
             rbSentence' = [rbSentence EXCEPT ![did] = left],
             BanRuns(expiries, left), UNCHANGED <<rbClock, rbRoles, rbWithdrawn>>
      PROVE  RolesInv'
  <2>1. NoneLeft'  BY <1>2 DEF RolesInv, NoneLeft
  <2>2. /\ rbBans' = [d \in RbDids |-> IF d = did THEN expiries ELSE rbBans[d]]
        /\ rbSentence' = [d \in RbDids |-> IF d = did THEN left ELSE rbSentence[d]]
    BY <1>2 DEF RolesInv
  <2>3. ASSUME NEW d \in RbDids PROVE BanRuns(rbBans[d], rbSentence[d])'
    BY <1>2, <2>2 DEF RolesInv, BanRuns
  <2> QED BY <1>2, <2>1, <2>2, <2>3 DEF RolesInv
<1>3. CASE Roles!Tick
  <2>1. /\ rbClock' = rbClock + 1 /\ rbClock < RbMaxTime /\ UNCHANGED <<rbRoles, rbBans, rbWithdrawn>>
        /\ rbSentence' = [d \in RbDids |-> IF rbSentence[d] > 0 THEN rbSentence[d] - 1 ELSE 0]
    BY <1>3 DEF Roles!Tick
  <2>2. NoneLeft'  BY <2>1 DEF RolesInv, NoneLeft
  <2>3. ASSUME NEW d \in RbDids PROVE BanRuns(rbBans[d], rbSentence[d])'
    <3>1. /\ rbSentence[d] \in Nat /\ rbClock \in Nat
          /\ rbSentence'[d] = IF rbSentence[d] > 0 THEN rbSentence[d] - 1 ELSE 0
      BY <2>1 DEF RolesInv, BanRuns
    <3>2. CASE rbBans[d] = {} /\ rbSentence[d] = 0  BY <2>1, <3>1, <3>2 DEF BanRuns
    <3>3. CASE rbBans[d] = {Null} /\ rbSentence[d] > RbMaxTime - rbClock
      BY <2>1, <3>1, <3>3 DEF BanRuns
    <3>4. CASE \E e \in Nat : rbBans[d] = {e} /\ rbSentence[d] = IF e > rbClock THEN e - rbClock ELSE 0
      BY <2>1, <3>1, <3>4 DEF BanRuns
    <3> QED BY <3>2, <3>3, <3>4 DEF RolesInv, BanRuns
  <2> QED BY <2>1, <2>2, <2>3 DEF RolesInv
<1>4. ASSUME NEW did \in RbDids, NEW role \in RbRoles, NEW type \in Roles!Types, NEW id \in Roles!Ids,
             Roles!GrantRole(did, role, type, id)
      PROVE  RolesInv'
  BY <1>1, <1>4, InsertLeavesNone DEF Roles!GrantRole, RolesInv
<1>5. ASSUME NEW did \in RbDids, NEW role \in RbRoles, NEW id \in Roles!Ids, Roles!RevokeRole(did, role, id)
      PROVE  RolesInv'
  <2>1. NoneLeft'
    <3>1. /\ rbRoles' = {row \in rbRoles : ~Roles!Revoked(row, did, role, id)}
          /\ rbWithdrawn' = IF id = Null THEN rbWithdrawn \cup {<<did, role>>} ELSE rbWithdrawn
      BY <1>5 DEF Roles!RevokeRole
    <3> QED BY <3>1 DEF RolesInv, NoneLeft, Roles!Revoked
  <2> QED BY <1>1, <1>5, <2>1 DEF Roles!RevokeRole
<1>6. ASSUME NEW p \in RbProcesses, Roles!Provision(p) PROVE RolesInv'
  <2>1. NoneLeft'
    <3>1. CASE Roles!Insert(RbAdmins[rbStartup[p] + 1], "admin", Null, Null)
      BY <3>1, InsertLeavesNone DEF RolesInv
    <3>2. CASE UNCHANGED <<rbNextId, rbRoles, rbWithdrawn>>  BY <3>2 DEF RolesInv, NoneLeft
    <3> QED BY <1>6, <3>1, <3>2 DEF Roles!Provision
  <2> QED BY <1>1, <1>6, <2>1 DEF Roles!Provision
<1>7. ASSUME NEW p \in RbProcesses, Roles!Restart(p) PROVE RolesInv'
  BY <1>1, <1>7 DEF Roles!Restart, RolesInv, NoneLeft
<1>8. ASSUME NEW did \in RbDids, NEW ttl \in RbTtls \cup {Null}, NEW now \in 0..rbClock,
             Roles!BanDid(did, ttl, now)
      PROVE  RolesInv'
  <2>1. PICK expiries, left :
            /\ expiries = {IF ttl = Null THEN Null ELSE now + ttl}
            /\ left = IF ttl = Null THEN RbMaxTime + 1
                      ELSE IF now + ttl > rbClock THEN now + ttl - rbClock ELSE 0
    OBVIOUS
  <2>2. BanRuns(expiries, left)
    <3>1. rbClock \in Nat  BY DEF RolesInv
    <3>2. CASE ttl = Null  BY <2>1, <3>1, <3>2 DEF BanRuns
    <3>3. CASE ttl \in Nat
      <4>1. PICK e \in Nat : e = now + ttl  BY <3>1, <3>3
      <4>2. ttl # Null /\ now \in Nat /\ rbClock \in Nat  BY <3>1, <3>3
      <4>3. expiries = {e}  BY <2>1, <4>1, <4>2
      <4>4. left = IF e > rbClock THEN e - rbClock ELSE 0
        <5>1. CASE e > rbClock
          <6>1. now + ttl > rbClock /\ now + ttl - rbClock = e - rbClock
            BY <3>3, <4>1, <4>2, <5>1
          <6>2. left = now + ttl - rbClock  BY <2>1, <4>2, <6>1
          <6> QED BY <5>1, <6>1, <6>2
        <5>2. CASE ~(e > rbClock)
          <6>1. ~(now + ttl > rbClock)  BY <3>3, <4>1, <4>2, <5>2
          <6>2. left = 0  BY <2>1, <4>2, <6>1
          <6> QED BY <5>2, <6>2
        <5> QED BY <5>1, <5>2
      <4>5. left \in Nat  BY <4>1, <4>2, <4>4
      <4> QED BY <4>1, <4>3, <4>4, <4>5 DEF BanRuns
    <3> QED BY <3>2, <3>3
  <2> QED BY <1>2, <1>8, <2>1, <2>2 DEF Roles!BanDid
<1>9. ASSUME NEW did \in RbDids, Roles!LiftBan(did) PROVE RolesInv'
  <2>1. BanRuns({}, 0)  BY DEF BanRuns
  <2> QED BY <1>2, <1>9, <2>1 DEF Roles!LiftBan
<1>10. CASE UNCHANGED Roles!vars  BY <1>1, <1>10 DEF Roles!vars, RolesInv, NoneLeft
<1> QED BY <1>3, <1>4, <1>5, <1>6, <1>7, <1>8, <1>9, <1>10 DEF Roles!Next

LEMMA RolesInvIsEnough == RolesInv => Roles!RevokedRoleIsGone /\ Roles!BansRunTheirTime
<1> SUFFICES ASSUME RolesInv PROVE Roles!RevokedRoleIsGone /\ Roles!BansRunTheirTime  OBVIOUS
<1>1. Roles!RevokedRoleIsGone
  BY DEF RolesInv, NoneLeft, Roles!RevokedRoleIsGone, Roles!HasRole
<1>2. ASSUME NEW d \in RbDids, NEW now \in 0..rbClock
      PROVE  /\ rbSentence[d] > 0 => Roles!IsBanned(d, now)
             /\ Roles!IsBanned(d, now) /\ now = rbClock => rbSentence[d] > 0
  <2>1. rbClock \in Nat /\ rbClock <= RbMaxTime /\ BanRuns(rbBans[d], rbSentence[d])
    BY DEF RolesInv
  <2> QED BY <2>1, RolesAssumption DEF BanRuns, Roles!IsBanned
<1> QED BY <1>1, <1>2 DEF Roles!BansRunTheirTime

LEMMA RolesSteps == AccessSpec => Roles!Spec
<1>1. AccessInit => Roles!Init  BY DEF AccessInit
<1>2. [AccessNext]_accessVars => [Roles!Next]_(Roles!vars)
  BY DEF AccessNext, accessVars, otpVars, idVars, keyVars, rbVars, exVars, Roles!vars
<1> QED BY <1>1, <1>2, PTL DEF AccessSpec, Roles!Spec

\* DecisionsStand: a role that was revoked as a whole is gone, whatever scopes it
\* was granted in, and a ban lasts as long as it was imposed for.
THEOREM DecisionsHold == AccessSpec => []DecisionsStand
<1>1. RolesInv => DecisionsStand  BY RolesInvIsEnough DEF DecisionsStand
<1> QED BY <1>1, RolesInit, RolesNext, RolesSteps, PTL DEF Roles!Spec

-----------------------------------------------------------------------------
(* ApiKeys: the inductive invariant *)

KeyRow == [key : KeyKeys, did : KeyDids, used : BOOLEAN]

\* A stored key is the one that was made, and is not withdrawn.
Stored ==
    \A r \in keyRows :
        /\ r \in KeyRow
        /\ r.key \in DOMAIN keyOwnerOf /\ keyOwnerOf[r.key] = r.did
        /\ Api!KeyToken(r.key) \notin keyWithdrawn

Live == \A s \in keySessions : s \in DOMAIN KeySessionOf /\ Api!SessionToken(s) \notin keyWithdrawn

\* Only keys that were made and sessions are withdrawn.
Gone ==
    \A t \in keyWithdrawn :
        /\ t.kind \in {"key", "session"}
        /\ t.kind = "key" => t.key \in DOMAIN keyOwnerOf

\* Whom a token authenticates.
AnswersAs(token) == IF token.kind = "jwt" THEN token.claims.sub ELSE Api!Owner(token)

\* A request that holds a row holds one that was not withdrawn when it began.
Holds(x, token, early) ==
    \/ x = [at |-> "jwt", token |-> token, early |-> early] /\ token.kind = "jwt"
    \/ x = [at |-> "key", token |-> token, early |-> early]
    \/ x = [at |-> "session", token |-> token, early |-> early]
    \/ \E r \in KeyRow :
          /\ x = [at |-> "touch", token |-> token, found |-> r, early |-> early]
          /\ token = Api!KeyToken(r.key) /\ token \notin early
          /\ r.key \in DOMAIN keyOwnerOf /\ keyOwnerOf[r.key] = r.did
    \/ /\ x = [at |-> "answered", token |-> token, did |-> AnswersAs(token), early |-> early]
       /\ token \notin early
       /\ token.kind = "key" => token.key \in DOMAIN keyOwnerOf
       /\ token.kind \in {"key", "session", "jwt"}

Presented == Api!Bearers \cup Api!Cookies
Sound(x) == x = Api!Idle \/ \E token \in Presented, early \in SUBSET keyWithdrawn : Holds(x, token, early)

KeysInv ==
    /\ keyRequest = [q \in KeyRequests |-> keyRequest[q]]
    /\ Stored /\ Live /\ Gone
    /\ \A q \in KeyRequests : Sound(keyRequest[q])

LEMMA KeysInvIsEnough == KeysInv => Api!WithdrawnStaysOut
<1> SUFFICES ASSUME KeysInv, NEW q \in KeyRequests, keyRequest[q].at = "answered"
             PROVE  /\ keyRequest[q].token \notin keyRequest[q].early
                    /\ keyRequest[q].token.kind # "jwt" =>
                           keyRequest[q].did = Api!Owner(keyRequest[q].token)
  BY DEF Api!WithdrawnStaysOut
<1>1. keyRequest[q] # Api!Idle  BY DEF Api!Idle
<1>2. PICK token \in Presented, early \in SUBSET keyWithdrawn : Holds(keyRequest[q], token, early)
  BY <1>1 DEF KeysInv, Sound
<1>3. /\ keyRequest[q] = [at |-> "answered", token |-> token, did |-> AnswersAs(token), early |-> early]
      /\ token \notin early
  <2>1. /\ keyRequest[q] # [at |-> "jwt", token |-> token, early |-> early]
        /\ keyRequest[q] # [at |-> "key", token |-> token, early |-> early]
        /\ keyRequest[q] # [at |-> "session", token |-> token, early |-> early]
    OBVIOUS
  <2>2. \A r \in KeyRow :
           keyRequest[q] # [at |-> "touch", token |-> token, found |-> r, early |-> early]
    OBVIOUS
  <2> QED BY <1>2, <2>1, <2>2 DEF Holds
<1> QED BY <1>3 DEF AnswersAs

-----------------------------------------------------------------------------
(* Every step preserves it. *)

\* Owners are made once, and what is withdrawn stays so.
Grows ==
    /\ keyWithdrawn \subseteq keyWithdrawn'
    /\ \A k \in DOMAIN keyOwnerOf : k \in DOMAIN keyOwnerOf' /\ keyOwnerOf'[k] = keyOwnerOf[k]

LEMMA SoundStays ==
    ASSUME Grows, NEW x, Sound(x)
    PROVE  Sound(x)'
<1>1. CASE x = Api!Idle  BY <1>1 DEF Sound
<1>2. ASSUME NEW token \in Presented, NEW early \in SUBSET keyWithdrawn, Holds(x, token, early)
      PROVE  Sound(x)'
  <2>1. early \in SUBSET keyWithdrawn'  BY <1>2 DEF Grows
  <2>2. Holds(x, token, early)'
    <3>1. ASSUME NEW r \in KeyRow,
                 x = [at |-> "touch", token |-> token, found |-> r, early |-> early],
                 token = Api!KeyToken(r.key), token \notin early,
                 r.key \in DOMAIN keyOwnerOf, keyOwnerOf[r.key] = r.did
          PROVE  Holds(x, token, early)'
      BY <3>1 DEF Grows, Holds
    <3>2. ASSUME x = [at |-> "answered", token |-> token, did |-> AnswersAs(token), early |-> early],
                 token \notin early,
                 token.kind = "key" => token.key \in DOMAIN keyOwnerOf,
                 token.kind \in {"key", "session", "jwt"}
          PROVE  Holds(x, token, early)'
      <4>1. AnswersAs(token)' = AnswersAs(token)  BY <3>2 DEF AnswersAs, Api!Owner, Grows
      <4>2. token.kind = "key" => token.key \in DOMAIN keyOwnerOf'  BY <3>2 DEF Grows
      <4> QED BY <3>2, <4>1, <4>2 DEF Holds
    <3> QED BY <1>2, <3>1, <3>2 DEF Holds
  <2> QED BY <2>1, <2>2 DEF Sound
<1> QED BY <1>1, <1>2 DEF Sound

\* A step of one request, which writes no more than the use of a key.
LEMMA RequestStep ==
    ASSUME KeysInv, UNCHANGED <<keySessions, keyOwnerOf, keyWithdrawn>>, Stored',
           NEW q \in KeyRequests, NEW x, keyRequest' = [keyRequest EXCEPT ![q] = x], Sound(x)
    PROVE  KeysInv'
<1>1. Grows  BY DEF Grows
<1>2. Sound(x)'  BY <1>1, SoundStays
<1>3. keyRequest' = [p \in KeyRequests |-> keyRequest'[p]]  BY DEF KeysInv
<1>4. ASSUME NEW p \in KeyRequests PROVE Sound(keyRequest[p])'
  <2>1. CASE p = q
    <3>1. keyRequest'[p] = x  BY <2>1 DEF KeysInv
    <3> HIDE DEF Sound
    <3> QED BY <1>2, <3>1
  <2>2. CASE p # q
    <3>0. PICK y : y = keyRequest[p]  OBVIOUS
    <3>1. y = keyRequest'[p]  BY <2>2, <3>0 DEF KeysInv
    <3>2. Sound(y)  BY <3>0 DEF KeysInv
    <3>3. Sound(y)'  BY <1>1, <3>2, SoundStays
    <3> QED BY <3>1, <3>3
  <2> QED BY <2>1, <2>2
<1> QED BY <1>3, <1>4 DEF KeysInv, Live, Gone

\* A step of the others, which leaves the requests alone.
LEMMA OtherStep ==
    ASSUME KeysInv, UNCHANGED keyRequest, Grows, Stored', Live', Gone'
    PROVE  KeysInv'
<1>1. ASSUME NEW p \in KeyRequests PROVE Sound(keyRequest[p])'
  <2>1. PICK y : y = keyRequest[p]  OBVIOUS
  <2>2. Sound(y)  BY <2>1 DEF KeysInv
  <2>3. Sound(y)'  BY <2>2, SoundStays
  <2>4. y = keyRequest'[p]  BY <2>1
  <2> QED BY <2>3, <2>4
<1> QED BY <1>1 DEF KeysInv

LEMMA KeysInit == Api!Init => KeysInv
<1> SUFFICES ASSUME Api!Init PROVE KeysInv  OBVIOUS
<1>1. Stored /\ Gone /\ Live  BY DEF Api!Init, Stored, Gone, Live
<1>2. ASSUME NEW q \in KeyRequests PROVE Sound(keyRequest[q])
  BY DEF Api!Init, Sound
<1> QED BY <1>1, <1>2 DEF KeysInv, Api!Init

\* A request begins: what has been withdrawn by now is noted.
LEMMA BeginStep ==
    ASSUME KeysInv, NEW q \in KeyRequests, NEW bearer \in Api!Bearers, NEW cookie \in Api!Cookies,
           Api!Begin(q, bearer, cookie)
    PROVE  KeysInv'
<1> USE DEF Api!Begin
<1>1. Stored'  BY DEF KeysInv, Stored
<1>2. bearer \in Presented /\ cookie \in Presented  BY DEF Presented
<1>3. PICK early : early = keyWithdrawn  OBVIOUS
<1>4. early \in SUBSET keyWithdrawn  BY <1>3
<1>5. CASE bearer # Api!None /\ bearer.kind = "jwt"
  <2>1. PICK x : x = [at |-> "jwt", token |-> bearer, early |-> early]  OBVIOUS
  <2>2. keyRequest' = [keyRequest EXCEPT ![q] = x]  BY <1>3, <1>5, <2>1
  <2>3. Sound(x)  BY <1>2, <1>4, <1>5, <2>1 DEF Sound, Holds
  <2> QED BY <1>1, <2>2, <2>3, RequestStep
<1>6. CASE bearer # Api!None /\ bearer.kind # "jwt"
  <2>1. PICK x : x = [at |-> "key", token |-> bearer, early |-> early]  OBVIOUS
  <2>2. keyRequest' = [keyRequest EXCEPT ![q] = x]  BY <1>3, <1>6, <2>1
  <2>3. Sound(x)  BY <1>2, <1>4, <2>1 DEF Sound, Holds
  <2> QED BY <1>1, <2>2, <2>3, RequestStep
<1>7. CASE bearer = Api!None /\ cookie # Api!None
  <2>1. PICK x : x = [at |-> "session", token |-> cookie, early |-> early]  OBVIOUS
  <2>2. keyRequest' = [keyRequest EXCEPT ![q] = x]  BY <1>3, <1>7, <2>1
  <2>3. Sound(x)  BY <1>2, <1>4, <2>1 DEF Sound, Holds
  <2> QED BY <1>1, <2>2, <2>3, RequestStep
<1>8. CASE bearer = Api!None /\ cookie = Api!None
  <2>1. keyRequest' = [keyRequest EXCEPT ![q] = Api!Idle]  BY <1>8
  <2>2. Sound(Api!Idle)  BY DEF Sound
  <2> QED BY <1>1, <2>1, <2>2, RequestStep
<1> QED BY <1>5, <1>6, <1>7, <1>8

\* What a request that is about to do something holds.
LEMMA AboutTo ==
    ASSUME KeysInv, NEW q \in KeyRequests, keyRequest[q].at \in {"jwt", "key", "session", "touch"}
    PROVE  \E token \in Presented, early \in SUBSET keyWithdrawn :
              /\ Holds(keyRequest[q], token, early)
              /\ keyRequest[q].token = token /\ keyRequest[q].early = early
              /\ keyRequest[q].at \in {"jwt", "key", "session"} =>
                    keyRequest[q] = [at |-> keyRequest[q].at, token |-> token, early |-> early]
              /\ keyRequest[q].at = "jwt" => token.kind = "jwt"
              /\ keyRequest[q].at = "touch" =>
                    \E r \in KeyRow :
                       /\ keyRequest[q].found = r
                       /\ token = Api!KeyToken(r.key) /\ token \notin early
                       /\ r.key \in DOMAIN keyOwnerOf /\ keyOwnerOf[r.key] = r.did
<1>1. keyRequest[q] # Api!Idle  BY DEF Api!Idle
<1>2. PICK token \in Presented, early \in SUBSET keyWithdrawn : Holds(keyRequest[q], token, early)
  BY <1>1 DEF KeysInv, Sound
<1>3. keyRequest[q] # [at |-> "answered", token |-> token, did |-> AnswersAs(token), early |-> early]
  OBVIOUS
<1>4. CASE keyRequest[q] = [at |-> "jwt", token |-> token, early |-> early] /\ token.kind = "jwt"
  BY <1>2, <1>4
<1>5. CASE keyRequest[q] = [at |-> "key", token |-> token, early |-> early]
  BY <1>2, <1>5
<1>6. CASE keyRequest[q] = [at |-> "session", token |-> token, early |-> early]
  BY <1>2, <1>6
<1>7. ASSUME NEW r \in KeyRow,
             keyRequest[q] = [at |-> "touch", token |-> token, found |-> r, early |-> early],
             token = Api!KeyToken(r.key), token \notin early,
             r.key \in DOMAIN keyOwnerOf, keyOwnerOf[r.key] = r.did
      PROVE  /\ keyRequest[q].at = "touch" /\ keyRequest[q].found = r
             /\ keyRequest[q].token = token /\ keyRequest[q].early = early
  BY <1>7
<1> QED BY <1>2, <1>3, <1>4, <1>5, <1>6, <1>7 DEF Holds

\* A request is answered with a token that was not withdrawn when it began.
LEMMA AnswerStep ==
    ASSUME KeysInv, UNCHANGED <<keySessions, keyOwnerOf, keyWithdrawn>>, Stored',
           NEW q \in KeyRequests, NEW token \in Presented, NEW did,
           Api!Answer(q, token, did), did = AnswersAs(token),
           token \notin keyRequest[q].early, keyRequest[q].early \in SUBSET keyWithdrawn,
           token.kind = "key" => token.key \in DOMAIN keyOwnerOf,
           token.kind \in {"key", "session", "jwt"}
    PROVE  KeysInv'
<1>1. PICK early : early = keyRequest[q].early  OBVIOUS
<1>2. PICK x : x = [at |-> "answered", token |-> token, did |-> did, early |-> early]
  OBVIOUS
<1>3. keyRequest' = [keyRequest EXCEPT ![q] = x]  BY <1>1, <1>2 DEF Api!Answer
<1>4. Sound(x)  BY <1>1, <1>2 DEF Sound, Holds
<1> QED BY <1>3, <1>4, RequestStep

\* A request goes on to its next attempt.
LEMMA GotoStep ==
    ASSUME KeysInv, UNCHANGED <<keyRows, keySessions, keyOwnerOf, keyWithdrawn>>,
           NEW q \in KeyRequests, NEW at \in {"key", "session"}, Api!Goto(q, at),
           keyRequest[q].at \in {"jwt", "key"}
    PROVE  KeysInv'
<1>1. PICK token \in Presented, early \in SUBSET keyWithdrawn :
          keyRequest[q] = [at |-> keyRequest[q].at, token |-> token, early |-> early]
  BY AboutTo
<1>2. PICK x : x = [at |-> at, token |-> token, early |-> early]  OBVIOUS
<1>3. [keyRequest[q] EXCEPT !.at = at] = x  BY <1>1, <1>2
<1>4. keyRequest' = [keyRequest EXCEPT ![q] = x]  BY <1>3 DEF Api!Goto
<1>5. Sound(x)  BY <1>2 DEF Sound, Holds
<1>6. Stored'  BY DEF KeysInv, Stored
<1> QED BY <1>4, <1>5, <1>6, RequestStep

LEMMA TryJwtStep == ASSUME KeysInv, NEW q \in KeyRequests, Api!TryJwt(q) PROVE KeysInv'
<1>1. PICK token \in Presented, early \in SUBSET keyWithdrawn :
          keyRequest[q].token = token /\ keyRequest[q].early = early /\ token.kind = "jwt"
  BY AboutTo DEF Api!TryJwt
<1>2. CASE Api!Goto(q, "key")  BY <1>2, GotoStep DEF Api!TryJwt
<1>3. CASE Api!Answer(q, token, token.claims.sub)
  <2>1. token \notin early  BY <1>1 DEF KeysInv, Gone
  <2>2. PICK did : did = token.claims.sub  OBVIOUS
  <2>3. did = AnswersAs(token)  BY <1>1, <2>2 DEF AnswersAs, Api!Owner
  <2>4. Stored'  BY DEF Api!TryJwt, KeysInv, Stored
  <2> QED BY <1>1, <1>3, <2>1, <2>2, <2>3, <2>4, AnswerStep DEF Api!TryJwt
<1> QED BY <1>1, <1>2, <1>3 DEF Api!TryJwt

LEMMA FindKeyStep == ASSUME KeysInv, NEW q \in KeyRequests, Api!FindKey(q) PROVE KeysInv'
<1>1. CASE Api!Goto(q, "session")  BY <1>1, GotoStep DEF Api!FindKey
<1>2. ASSUME NEW r \in keyRows, keyRequest[q].token = Api!KeyToken(r.key),
             keyRequest' = [keyRequest EXCEPT ![q] =
                 [at |-> "touch", token |-> keyRequest[q].token, found |-> r,
                  early |-> keyRequest[q].early]]
      PROVE  KeysInv'
  <2>1. PICK token \in Presented, early \in SUBSET keyWithdrawn :
            keyRequest[q].token = token /\ keyRequest[q].early = early
    BY AboutTo DEF Api!FindKey
  <2>2. PICK x : x = [at |-> "touch", token |-> token, found |-> r, early |-> early]
    OBVIOUS
  <2>3. keyRequest' = [keyRequest EXCEPT ![q] = x]  BY <1>2, <2>1, <2>2
  <2>4. /\ r \in KeyRow /\ r.key \in DOMAIN keyOwnerOf /\ keyOwnerOf[r.key] = r.did
        /\ Api!KeyToken(r.key) \notin early
    BY DEF KeysInv, Stored
  <2>5. Sound(x)  BY <1>2, <2>1, <2>2, <2>4 DEF Sound, Holds
  <2>6. Stored'  BY DEF Api!FindKey, KeysInv, Stored
  <2> QED BY <2>3, <2>5, <2>6, RequestStep DEF Api!FindKey
<1> QED BY <1>1, <1>2 DEF Api!FindKey

LEMMA TouchKeyStep == ASSUME KeysInv, NEW q \in KeyRequests, Api!TouchKey(q) PROVE KeysInv'
<1>1. PICK token \in Presented, early \in SUBSET keyWithdrawn :
          /\ keyRequest[q].token = token /\ keyRequest[q].early = early
          /\ \E r \in KeyRow :
                /\ keyRequest[q].found = r
                /\ token = Api!KeyToken(r.key) /\ token \notin early
                /\ r.key \in DOMAIN keyOwnerOf /\ keyOwnerOf[r.key] = r.did
  BY AboutTo DEF Api!TouchKey
<1>2. PICK r \in KeyRow :
          /\ keyRequest[q].found = r
          /\ token = Api!KeyToken(r.key) /\ token \notin early
          /\ r.key \in DOMAIN keyOwnerOf /\ keyOwnerOf[r.key] = r.did
  BY <1>1
<1>3. Stored'
  <2>1. CASE keyRows' = keyRows  BY <2>1 DEF Api!TouchKey, KeysInv, Stored
  <2>2. CASE keyRows' = Api!Touched(r)
    <3>1. ASSUME NEW s \in keyRows'
          PROVE  \E t \in keyRows : s = t \/ s = [t EXCEPT !.used = TRUE]
      BY <2>2 DEF Api!Touched
    <3>2. ASSUME NEW t \in KeyRow
          PROVE  /\ [t EXCEPT !.used = TRUE] \in KeyRow
                 /\ [t EXCEPT !.used = TRUE].key = t.key
                 /\ [t EXCEPT !.used = TRUE].did = t.did
      BY DEF KeyRow
    <3>3. ASSUME NEW s \in keyRows'
          PROVE  \E t \in keyRows : s \in KeyRow /\ s.key = t.key /\ s.did = t.did
      <4>1. PICK t \in keyRows : s = t \/ s = [t EXCEPT !.used = TRUE]  BY <3>1
      <4>2. t \in KeyRow  BY DEF KeysInv, Stored
      <4> QED BY <4>1, <4>2, <3>2
    <3> QED BY <3>3 DEF Api!TouchKey, KeysInv, Stored
  <2> QED BY <1>2, <2>1, <2>2 DEF Api!TouchKey
<1>4. PICK did : did = r.did  OBVIOUS
<1>5. token.kind = "key" /\ token.key = r.key  BY <1>2 DEF Api!KeyToken
<1>6. did = AnswersAs(token)  BY <1>2, <1>4, <1>5 DEF AnswersAs, Api!Owner
<1>7. Api!Answer(q, token, did)  BY <1>1, <1>2, <1>4 DEF Api!TouchKey
<1> QED BY <1>1, <1>2, <1>3, <1>5, <1>6, <1>7, AnswerStep DEF Api!TouchKey

LEMMA TrySessionStep == ASSUME KeysInv, NEW q \in KeyRequests, Api!TrySession(q) PROVE KeysInv'
<1>1. PICK token \in Presented, early \in SUBSET keyWithdrawn :
          keyRequest[q].token = token /\ keyRequest[q].early = early
  BY AboutTo DEF Api!TrySession
<1>2. Stored'  BY DEF Api!TrySession, KeysInv, Stored
<1>3. CASE Api!Refuse(q)
  <2>1. keyRequest' = [keyRequest EXCEPT ![q] = Api!Idle]  BY <1>3 DEF Api!Refuse
  <2>2. Sound(Api!Idle)  BY DEF Sound
  <2> QED BY <1>2, <2>1, <2>2, RequestStep DEF Api!TrySession
<1>4. ASSUME NEW s \in keySessions, token = Api!SessionToken(s), Api!Answer(q, token, KeySessionOf[s])
      PROVE  KeysInv'
  <2>1. token \notin early  BY <1>4 DEF KeysInv, Live
  <2>2. token.kind = "session" /\ token.id = s  BY <1>4 DEF Api!SessionToken
  <2>3. PICK did : did = KeySessionOf[s]  OBVIOUS
  <2>4. did = AnswersAs(token)  BY <2>2, <2>3 DEF AnswersAs, Api!Owner
  <2> QED BY <1>1, <1>2, <1>4, <2>1, <2>2, <2>3, <2>4, AnswerStep DEF Api!TrySession
<1> QED BY <1>1, <1>3, <1>4 DEF Api!TrySession

-----------------------------------------------------------------------------
(* Keys are made and revoked, sessions end. *)

LEMMA CreateKeyStep ==
    ASSUME KeysInv, NEW k \in KeyKeys, NEW did \in KeyDids, Api!CreateKey(k, did)
    PROVE  KeysInv'
<1> USE DEF Api!CreateKey
<1>1. Grows  BY DEF Grows
<1>2. k \in DOMAIN keyOwnerOf' /\ keyOwnerOf'[k] = did  OBVIOUS
<1>3. Api!KeyToken(k) \notin keyWithdrawn  BY DEF KeysInv, Gone, Api!KeyToken
<1>4. Stored'
  <2>1. ASSUME NEW r \in keyRows
        PROVE  /\ r \in KeyRow
               /\ r.key \in DOMAIN keyOwnerOf' /\ keyOwnerOf'[r.key] = r.did
               /\ Api!KeyToken(r.key) \notin keyWithdrawn
    BY <1>1 DEF KeysInv, Stored, Grows
  <2>2. PICK new : new = [key |-> k, did |-> did, used |-> FALSE]  OBVIOUS
  <2>3. /\ new \in KeyRow /\ new.key = k /\ new.did = did  BY <2>2 DEF KeyRow
  <2> QED BY <1>2, <1>3, <2>1, <2>2, <2>3 DEF Stored
<1>5. Live' /\ Gone'  BY <1>1 DEF KeysInv, Live, Gone, Grows
<1> QED BY <1>1, <1>4, <1>5, OtherStep

LEMMA RevokeKeysStep == ASSUME KeysInv, NEW k \in KeyKeys, Api!RevokeKeys(KeyPrefixOf[k]) PROVE KeysInv'
<1> DEFINE gone == {r \in keyRows : KeyPrefixOf[r.key] = KeyPrefixOf[k]}
<1>1. /\ keyRows' = keyRows \ gone
      /\ keyWithdrawn' = keyWithdrawn \cup {Api!KeyToken(r.key) : r \in gone}
      /\ UNCHANGED <<keyClock, keySessions, keyRequest, keyOwnerOf>>
  BY DEF Api!RevokeKeys
<1>2. Grows  BY <1>1 DEF Grows
<1>3. \A a, b : Api!KeyToken(a) = Api!KeyToken(b) => a = b
  <2>1. \A a : Api!KeyToken(a).key = a  BY DEF Api!KeyToken
  <2> QED BY <2>1
<1>4. \A a, s : Api!KeyToken(a) # Api!SessionToken(s)
  <2>1. \A a : Api!KeyToken(a).kind = "key"  BY DEF Api!KeyToken
  <2>2. \A s : Api!SessionToken(s).kind = "session"  BY DEF Api!SessionToken
  <2> QED BY <2>1, <2>2
<1>5. Stored'
  <2>1. ASSUME NEW r \in keyRows' PROVE Api!KeyToken(r.key) \notin keyWithdrawn'
    BY <1>1, <1>3 DEF KeysInv, Stored
  <2> QED BY <1>1, <2>1 DEF KeysInv, Stored
<1>6. Live'  BY <1>1, <1>4 DEF KeysInv, Live
<1>7. Gone'
  <2>1. ASSUME NEW r \in gone
        PROVE  /\ Api!KeyToken(r.key).kind = "key" /\ Api!KeyToken(r.key).key = r.key
               /\ r.key \in DOMAIN keyOwnerOf
    BY DEF KeysInv, Stored, Api!KeyToken
  <2> HIDE DEF gone
  <2> QED BY <1>1, <2>1 DEF KeysInv, Gone
<1> QED BY <1>1, <1>2, <1>5, <1>6, <1>7, OtherStep

LEMMA EndSessionStep == ASSUME KeysInv, NEW s \in keySessions, Api!EndSession(s) PROVE KeysInv'
<1> USE DEF Api!EndSession
<1>1. Grows  BY DEF Grows
<1>2. \A a : /\ Api!KeyToken(a) # Api!SessionToken(s) /\ Api!SessionToken(s).kind = "session"
  <2>1. \A a : Api!KeyToken(a).kind = "key"  BY DEF Api!KeyToken
  <2>2. Api!SessionToken(s).kind = "session"  BY DEF Api!SessionToken
  <2> QED BY <2>1, <2>2
<1>3. \A t : Api!SessionToken(t) = Api!SessionToken(s) => t = s
  <2>1. \A t : Api!SessionToken(t).id = t  BY DEF Api!SessionToken
  <2> QED BY <2>1
<1>4. Stored'  BY <1>2 DEF KeysInv, Stored
<1>5. Live'  BY <1>3 DEF KeysInv, Live
<1>6. Gone'  BY <1>2 DEF KeysInv, Gone
<1> QED BY <1>1, <1>4, <1>5, <1>6, OtherStep

LEMMA KeysNext == KeysInv /\ [Api!Next]_(Api!vars) => KeysInv'
<1> SUFFICES ASSUME KeysInv, [Api!Next]_(Api!vars) PROVE KeysInv'  OBVIOUS
<1>1. CASE Api!Tick \/ UNCHANGED Api!vars
  <2>1. UNCHANGED <<keyRows, keySessions, keyRequest, keyOwnerOf, keyWithdrawn>>
    BY <1>1 DEF Api!Tick, Api!vars
  <2>2. Grows /\ Stored' /\ Live' /\ Gone'
    BY <2>1 DEF KeysInv, Grows, Stored, Live, Gone
  <2> QED BY <2>1, <2>2, OtherStep
<1>2. ASSUME NEW k \in KeyKeys, NEW did \in KeyDids, Api!CreateKey(k, did) PROVE KeysInv'
  BY <1>2, CreateKeyStep
<1>3. ASSUME NEW k \in KeyKeys, Api!RevokeKeys(KeyPrefixOf[k]) PROVE KeysInv'
  BY <1>3, RevokeKeysStep
<1>4. ASSUME NEW s \in keySessions, Api!EndSession(s) PROVE KeysInv'
  BY <1>4, EndSessionStep
<1>5. ASSUME NEW q \in KeyRequests, NEW bearer \in Api!Bearers, NEW cookie \in Api!Cookies,
             Api!Begin(q, bearer, cookie)
      PROVE  KeysInv'
  BY <1>5, BeginStep
<1>6. ASSUME NEW q \in KeyRequests, Api!TryJwt(q) \/ Api!FindKey(q) \/ Api!TouchKey(q) \/ Api!TrySession(q)
      PROVE  KeysInv'
  BY <1>6, TryJwtStep, FindKeyStep, TouchKeyStep, TrySessionStep
<1> QED BY <1>1, <1>2, <1>3, <1>4, <1>5, <1>6 DEF Api!Next

-----------------------------------------------------------------------------

LEMMA ApiSteps == AccessSpec => Api!Spec
<1>1. AccessInit => Api!Init  BY DEF AccessInit
<1>2. [AccessNext]_accessVars => [Api!Next]_(Api!vars)
  BY DEF AccessNext, accessVars, otpVars, idVars, keyVars, rbVars, exVars, Api!vars
<1> QED BY <1>1, <1>2, PTL DEF AccessSpec, Api!Spec

\* WithdrawnStaysOut: a key that was revoked or a session that was ended before a
\* request began does not authenticate it, although the extractor looks a key up
\* and touches its row in two queries; keys and sessions that it accepts
\* authenticate as the DID they were made for.
THEOREM RevocationHolds == AccessSpec => []WithdrawnStaysOut
<1>1. KeysInv => WithdrawnStaysOut  BY KeysInvIsEnough DEF WithdrawnStaysOut
<1> QED BY <1>1, KeysInit, KeysNext, ApiSteps, PTL DEF Api!Spec

-----------------------------------------------------------------------------
(* OAuthExchange: the inductive invariant *)

LoginStages == {"start", "metadata", "authorize", "approved", "failed"}

\* A login whose code was issued keeps the issuer's endpoint with its state.
Approved(l) == exStage[l] = "approved" /\ <<exServer[l], l>> \in exIssued

\* What a callback has sent at each stage.
HasSent(at, posts, e) ==
    \/ at \in {"delete", "exchange"} /\ posts = <<>>
    \/ at = "retry" /\ posts = <<e>>
    \/ at = "ended" /\ posts \in {<<>>, <<e>>, <<e, e>>}

\* What a callback x of login l that has sent these posts holds.
Carries(x, posts, l, at) ==
    /\ Approved(l)
    /\ x = [at |-> at, login |-> l, endpoint |-> exServer[l]]
    /\ HasSent(at, posts, exServer[l])

CallbackSound(x, posts) ==
    \/ x = Exchange!Idle /\ posts = <<>>
    \/ \E l \in ExLogins, at \in {"delete", "exchange", "retry", "ended"} :
          Carries(x, posts, l, at)

ExchangeTypes ==
    /\ exStage \in [ExLogins -> LoginStages]
    /\ exServer = [l \in ExLogins |-> exServer[l]]
    /\ exCallback = [c \in ExCallbacks |-> exCallback[c]]
    /\ exSent = [c \in ExCallbacks |-> exSent[c]]
    /\ exTokens \subseteq ExCallbacks /\ exLost \subseteq ExCallbacks

\* Whoever got the tokens, or lost them, has used up its code.
Used(c) == exCallback[c].at = "ended" /\ Exchange!Code(c) \in exRedeemed

\* For a code that was used up there is one such callback ...
Spent == \A l \in ExLogins, s \in ExServers : <<s, l>> \in exRedeemed =>
            \E c \in exTokens \cup exLost : exCallback[c].login = l

\* ... and no other.
Alone == \A c, d \in exTokens \cup exLost : exCallback[c].login = exCallback[d].login => c = d

Issued == \A l \in ExLogins : exStage[l] = "approved" => <<exServer[l], l>> \in exIssued

ExchangeInv ==
    /\ ExchangeTypes /\ Issued
    /\ \A c \in ExCallbacks : CallbackSound(exCallback[c], exSent[c])
    /\ \A c \in exTokens \cup exLost : Used(c)
    /\ Spent /\ Alone

\* What a callback that is not idle holds.
LEMMA CallbackHolds ==
    ASSUME ExchangeInv, NEW c \in ExCallbacks, exCallback[c] # Exchange!Idle
    PROVE  \E l \in ExLogins, at \in {"delete", "exchange", "retry", "ended"} :
              /\ Carries(exCallback[c], exSent[c], l, at)
              /\ exCallback[c].at = at /\ exCallback[c].login = l
              /\ exCallback[c].endpoint = exServer[l]
<1>1. CallbackSound(exCallback[c], exSent[c])  BY DEF ExchangeInv
<1>2. PICK l \in ExLogins, at \in {"delete", "exchange", "retry", "ended"} :
          Carries(exCallback[c], exSent[c], l, at)
  BY <1>1 DEF CallbackSound
<1>3. exCallback[c].at = at /\ exCallback[c].login = l /\ exCallback[c].endpoint = exServer[l]
  BY <1>2 DEF Carries
<1> QED BY <1>2, <1>3

LEMMA ExchangeInvIsEnough == ExchangeInv => Exchange!CodeStaysHome
<1> SUFFICES ASSUME ExchangeInv PROVE Exchange!CodeStaysHome  OBVIOUS
<1>1. ASSUME NEW c \in ExCallbacks
      PROVE  /\ \A n \in DOMAIN exSent[c] : <<exSent[c][n], exCallback[c].login>> \in exIssued
             /\ Len(exSent[c]) <= 2
  <2>1. CASE exCallback[c] = Exchange!Idle
    <3>1. exSent[c] = <<>>
      <4>1. CallbackSound(exCallback[c], exSent[c])  BY DEF ExchangeInv
      <4>2. \A l, at : [at |-> at, login |-> l, endpoint |-> exServer[l]] # Exchange!Idle
        BY DEF Exchange!Idle
      <4> QED BY <2>1, <4>1, <4>2 DEF CallbackSound, Carries
    <3> QED BY <3>1
  <2>2. CASE exCallback[c] # Exchange!Idle
    <3>1. PICK l \in ExLogins, at \in {"delete", "exchange", "retry", "ended"} :
              Carries(exCallback[c], exSent[c], l, at) /\ exCallback[c].login = l
      BY <2>2, CallbackHolds
    <3>2. PICK e : e = exServer[l]  OBVIOUS
    <3>3. exSent[c] \in {<<>>, <<e>>, <<e, e>>}  BY <3>1, <3>2 DEF Carries, HasSent
    <3>4. <<e, l>> \in exIssued  BY <3>1, <3>2 DEF Carries, Approved
    <3>5. \A n \in DOMAIN exSent[c] : exSent[c][n] = e  BY <3>3
    <3>6. Len(exSent[c]) <= 2
      <4>1. CASE exSent[c] = <<>>  BY <4>1
      <4>2. CASE exSent[c] = <<e>>  BY <4>2
      <4>3. CASE exSent[c] = <<e, e>>  BY <4>3
      <4> QED BY <3>3, <4>1, <4>2, <4>3
    <3> QED BY <3>1, <3>4, <3>5, <3>6
  <2> QED BY <2>1, <2>2
<1> QED BY <1>1 DEF ExchangeInv, Spent, Alone, Exchange!CodeStaysHome

-----------------------------------------------------------------------------
(* Every step preserves it. *)

\* A login moves on: one whose code was issued keeps what it has.
LEMMA LoginStep ==
    ASSUME ExchangeInv, UNCHANGED <<exRedeemed, Exchange!exchanges>>, exIssued \subseteq exIssued',
           exStage' \in [ExLogins -> LoginStages], exServer' = [l \in ExLogins |-> exServer'[l]],
           \A l \in ExLogins : exStage[l] = "approved" =>
               exStage'[l] = "approved" /\ exServer'[l] = exServer[l],
           Issued'
    PROVE  ExchangeInv'
<1>1. UNCHANGED <<exRedeemed, exCallback, exTokens, exSent, exLost>>
  BY DEF Exchange!exchanges
<1>2. ExchangeTypes'  BY <1>1 DEF ExchangeInv, ExchangeTypes
<1>3. ASSUME NEW c \in ExCallbacks PROVE CallbackSound(exCallback[c], exSent[c])'
  <2>1. CASE exCallback[c] = Exchange!Idle
    <3>1. \A l, at : [at |-> at, login |-> l, endpoint |-> exServer[l]] # Exchange!Idle
      BY DEF Exchange!Idle
    <3>2. exSent[c] = <<>>  BY <2>1, <3>1 DEF ExchangeInv, CallbackSound, Carries
    <3> QED BY <1>1, <2>1, <3>2 DEF CallbackSound
  <2>2. CASE exCallback[c] # Exchange!Idle
    <3>1. PICK l \in ExLogins, at \in {"delete", "exchange", "retry", "ended"} :
              Carries(exCallback[c], exSent[c], l, at)
      BY <2>2, CallbackHolds
    <3>2. PICK e : e = exServer[l]  OBVIOUS
    <3>3. exServer'[l] = e /\ Approved(l)'  BY <3>1, <3>2 DEF Carries, Approved
    <3>4. PICK x, posts : x = exCallback[c] /\ posts = exSent[c]  OBVIOUS
    <3>5. x = [at |-> at, login |-> l, endpoint |-> e] /\ HasSent(at, posts, e)
      BY <3>1, <3>2, <3>4 DEF Carries
    <3>6. Carries(x, posts, l, at)'  BY <3>3, <3>5 DEF Carries
    <3>7. x = exCallback'[c] /\ posts = exSent'[c]  BY <1>1, <3>4
    <3> QED BY <3>6, <3>7 DEF CallbackSound
  <2> QED BY <2>1, <2>2
<1>4. \A c \in (exTokens \cup exLost)' : Used(c)'
  BY <1>1 DEF ExchangeInv, Used, Exchange!Code
<1>5. Spent' /\ Alone'  BY <1>1 DEF ExchangeInv, Spent, Alone
<1> QED BY <1>2, <1>3, <1>4, <1>5 DEF ExchangeInv

\* A callback moves on.
LEMMA CallbackStep ==
    ASSUME ExchangeInv, UNCHANGED <<exIssued, Exchange!logins>>, NEW c \in ExCallbacks, NEW x, NEW posts,
           exCallback' = [exCallback EXCEPT ![c] = x], exSent' = [exSent EXCEPT ![c] = posts],
           CallbackSound(x, posts)
    PROVE  /\ \A d \in ExCallbacks : CallbackSound(exCallback[d], exSent[d])'
           /\ \A d \in ExCallbacks \ {c} : exCallback'[d] = exCallback[d]
           /\ exCallback'[c] = x
           /\ exCallback' = [d \in ExCallbacks |-> exCallback'[d]]
           /\ exSent' = [d \in ExCallbacks |-> exSent'[d]]
<1>1. /\ exCallback' = [d \in ExCallbacks |-> IF d = c THEN x ELSE exCallback[d]]
      /\ exSent' = [d \in ExCallbacks |-> IF d = c THEN posts ELSE exSent[d]]
  BY DEF ExchangeInv, ExchangeTypes
<1>2. \A y, z : CallbackSound(y, z)' = CallbackSound(y, z)
  BY DEF CallbackSound, Carries, Approved, Exchange!logins
<1>3. ASSUME NEW d \in ExCallbacks PROVE CallbackSound(exCallback[d], exSent[d])'
  <2>1. CASE d = c
    <3>1. exCallback'[d] = x /\ exSent'[d] = posts  BY <1>1, <2>1
    <3>2. CallbackSound(x, posts)'  BY <1>2
    <3> QED BY <3>1, <3>2 DEF CallbackSound
  <2>2. CASE d # c
    <3>1. PICK y, z : y = exCallback[d] /\ z = exSent[d]  OBVIOUS
    <3>2. exCallback'[d] = y /\ exSent'[d] = z  BY <1>1, <2>2, <3>1
    <3>3. CallbackSound(y, z)'  BY <1>2, <3>1 DEF ExchangeInv
    <3> QED BY <3>2, <3>3 DEF CallbackSound
  <2> QED BY <2>1, <2>2
<1>4. /\ \A d \in ExCallbacks \ {c} : exCallback'[d] = exCallback[d]
      /\ exCallback'[c] = x
      /\ exCallback' = [d \in ExCallbacks |-> exCallback'[d]]
      /\ exSent' = [d \in ExCallbacks |-> exSent'[d]]
  BY <1>1
<1> QED BY <1>3, <1>4

\* One that uses up nothing.
LEMMA QuietStep ==
    ASSUME ExchangeInv, UNCHANGED <<exIssued, exRedeemed, Exchange!logins, exTokens, exLost>>,
           NEW c \in ExCallbacks, exCallback[c].at # "ended", NEW x, NEW posts,
           exCallback' = [exCallback EXCEPT ![c] = x], exSent' = [exSent EXCEPT ![c] = posts],
           CallbackSound(x, posts)
    PROVE  ExchangeInv'
<1>1. /\ \A d \in ExCallbacks : CallbackSound(exCallback[d], exSent[d])'
      /\ \A d \in ExCallbacks \ {c} : exCallback'[d] = exCallback[d]
      /\ exCallback' = [d \in ExCallbacks |-> exCallback'[d]]
      /\ exSent' = [d \in ExCallbacks |-> exSent'[d]]
  BY CallbackStep
<1>2. ExchangeTypes'  BY <1>1 DEF ExchangeInv, ExchangeTypes, Exchange!logins
<1>3. ASSUME NEW d \in exTokens \cup exLost PROVE exCallback'[d] = exCallback[d] /\ Used(d)
  BY <1>1 DEF ExchangeInv, ExchangeTypes, Used
<1>4. exTokens' = exTokens /\ exLost' = exLost /\ exRedeemed' = exRedeemed  OBVIOUS
<1>5. \A d \in (exTokens \cup exLost)' : Used(d)'  BY <1>3, <1>4 DEF Used, Exchange!Code
<1>6. Spent' /\ Alone'  BY <1>3, <1>4 DEF ExchangeInv, Spent, Alone
<1>7. Issued'  BY DEF ExchangeInv, Issued, Exchange!logins
<1> QED BY <1>1, <1>2, <1>5, <1>6, <1>7 DEF ExchangeInv

\* Where a callback gets to.
LEMMA Reaches ==
    ASSUME ExchangeInv, NEW c \in ExCallbacks, exCallback[c] # Exchange!Idle, NEW next, Exchange!Reach(c, next)
    PROVE  exCallback' = [exCallback EXCEPT ![c] =
               [at |-> next, login |-> exCallback[c].login, endpoint |-> exCallback[c].endpoint]]
<1>1. PICK l \in ExLogins, at \in {"delete", "exchange", "retry", "ended"} :
          Carries(exCallback[c], exSent[c], l, at)
  BY CallbackHolds
<1>2. PICK e : e = exServer[l]  OBVIOUS
<1>3. exCallback[c] = [at |-> at, login |-> l, endpoint |-> e]  BY <1>1, <1>2 DEF Carries
<1>4. [exCallback[c] EXCEPT !.at = next] = [at |-> next, login |-> l, endpoint |-> e]
  BY <1>3
<1>5. exCallback[c].login = l /\ exCallback[c].endpoint = e  BY <1>3
<1>6. exCallback' = [exCallback EXCEPT ![c] = [exCallback[c] EXCEPT !.at = next]]
  BY DEF Exchange!Reach
<1> QED BY <1>4, <1>5, <1>6

LEMMA SameItems ==
    ASSUME NEW S, NEW s \in Seq(S), NEW t \in Seq(S), Len(s) = Len(t),
           \A n \in 1..Len(s) : s[n] = t[n]
    PROVE  s = t
<1>1. DOMAIN s = DOMAIN t  OBVIOUS
<1>2. s = [n \in 1..Len(s) |-> s[n]] /\ t = [n \in 1..Len(t) |-> t[n]]  OBVIOUS
<1> QED BY <1>2

LEMMA OneMorePost ==
    ASSUME NEW e
    PROVE  /\ <<>> # <<e>> /\ <<>> # <<e, e>>
           /\ Append(<<>>, e) = <<e>> /\ Append(<<e>>, e) = <<e, e>>
<1>1. Len(<<>>) = 0 /\ Len(<<e>>) = 1 /\ Len(<<e, e>>) = 2  OBVIOUS
<1>2. <<>> # <<e>> /\ <<>> # <<e, e>>  BY <1>1
<1>3. <<>> \in Seq({e}) /\ <<e>> \in Seq({e}) /\ <<e, e>> \in Seq({e})  OBVIOUS
<1>4. Append(<<>>, e) = <<e>>  BY <1>3
<1>5. Append(<<e>>, e) = <<e, e>>
  <2>1. PICK s, t : s = Append(<<e>>, e) /\ t = <<e, e>>  OBVIOUS
  <2>2. s \in Seq({e}) /\ Len(s) = 2  BY <1>1, <1>3, <2>1
  <2>3. t \in Seq({e}) /\ Len(t) = 2  BY <1>1, <1>3, <2>1
  <2>4. \A n \in 1..2 : s[n] = e /\ t[n] = e  BY <2>2, <2>3
  <2> QED BY <2>1, <2>2, <2>3, <2>4, SameItems
<1> QED BY <1>2, <1>4, <1>5

\* What the callback carries when it sends nothing, and when it posts its code.
LEMMA CarriesOn ==
    ASSUME ExchangeInv, NEW c \in ExCallbacks, exCallback[c] # Exchange!Idle, NEW posts,
           NEW next \in {"exchange", "retry", "ended"},
           \/ /\ posts = exSent[c]
              /\ \/ exCallback[c].at = "delete" /\ next = "exchange"
                 \/ next = "ended"
           \/ /\ posts = Append(exSent[c], exCallback[c].endpoint)
              /\ \/ exCallback[c].at = "exchange" /\ next = "retry"
                 \/ exCallback[c].at \in {"exchange", "retry"} /\ next = "ended"
    PROVE  CallbackSound([at |-> next, login |-> exCallback[c].login,
                          endpoint |-> exCallback[c].endpoint], posts)
<1>1. PICK l \in ExLogins, at \in {"delete", "exchange", "retry", "ended"} :
          /\ Carries(exCallback[c], exSent[c], l, at)
          /\ exCallback[c].at = at /\ exCallback[c].login = l /\ exCallback[c].endpoint = exServer[l]
  BY CallbackHolds
<1>2. PICK e, s : e = exServer[l] /\ s = exSent[c]  OBVIOUS
<1>3. HasSent(at, s, e) /\ Approved(l)  BY <1>1, <1>2 DEF Carries
<1>4. /\ <<>> # <<e>> /\ <<>> # <<e, e>>
      /\ Append(<<>>, e) = <<e>> /\ Append(<<e>>, e) = <<e, e>>
  BY OneMorePost
<1>5. HasSent(next, posts, e)
  <2>1. CASE posts = s  BY <1>1, <1>2, <1>3, <1>4, <2>1 DEF HasSent
  <2>2. CASE posts = Append(s, e) /\ at = "exchange"
    <3>1. s = <<>>  BY <1>3, <2>2 DEF HasSent
    <3>2. posts = <<e>>  BY <1>4, <2>2, <3>1
    <3>3. next \in {"retry", "ended"}  BY <1>1, <1>2, <1>4, <2>2, <3>1, <3>2
    <3> QED BY <3>2, <3>3 DEF HasSent
  <2>3. CASE posts = Append(s, e) /\ at = "retry"
    <3>1. s = <<e>>  BY <1>3, <2>3 DEF HasSent
    <3>2. posts = <<e, e>>  BY <1>4, <2>3, <3>1
    <3>3. next = "ended"  BY <1>1, <2>3
    <3> QED BY <3>2, <3>3 DEF HasSent
  <2> QED BY <1>1, <1>2, <2>1, <2>2, <2>3
<1>6. PICK x : x = [at |-> next, login |-> l, endpoint |-> e]  OBVIOUS
<1>7. Carries(x, posts, l, next)  BY <1>2, <1>3, <1>5, <1>6 DEF Carries
<1>8. CallbackSound(x, posts)  BY <1>7 DEF CallbackSound
<1>9. x = [at |-> next, login |-> exCallback[c].login, endpoint |-> exCallback[c].endpoint]
  BY <1>1, <1>2, <1>6
<1> QED BY <1>8, <1>9

LEMMA GrantedStep == ASSUME ExchangeInv, NEW c \in ExCallbacks, Exchange!Granted(c) PROVE ExchangeInv'
<1>1. exCallback[c] # Exchange!Idle /\ exCallback[c].at \in {"exchange", "retry"}
  <2>1. exCallback[c].at \in {"exchange", "retry"}
    BY DEF Exchange!Granted, Exchange!Posting
  <2> QED BY <2>1 DEF Exchange!Idle
<1>2. PICK x, posts :
          /\ x = [at |-> "ended", login |-> exCallback[c].login, endpoint |-> exCallback[c].endpoint]
          /\ posts = Append(exSent[c], exCallback[c].endpoint)
  OBVIOUS
<1>3. exCallback' = [exCallback EXCEPT ![c] = x]
  BY <1>1, <1>2, Reaches DEF Exchange!Granted
<1>4. exSent' = [exSent EXCEPT ![c] = posts]  BY <1>2 DEF Exchange!Granted, Exchange!Post
<1>5. CallbackSound(x, posts)  BY <1>1, <1>2, CarriesOn
<1>6. UNCHANGED <<exIssued, Exchange!logins>>  BY DEF Exchange!Granted
<1>7. /\ \A d \in ExCallbacks : CallbackSound(exCallback[d], exSent[d])'
      /\ \A d \in ExCallbacks \ {c} : exCallback'[d] = exCallback[d]
      /\ exCallback'[c] = x
      /\ exCallback' = [d \in ExCallbacks |-> exCallback'[d]]
      /\ exSent' = [d \in ExCallbacks |-> exSent'[d]]
  BY <1>3, <1>4, <1>5, <1>6, CallbackStep
<1>8. /\ (exTokens \cup exLost)' = exTokens \cup exLost \cup {c}
      /\ exTokens' \subseteq ExCallbacks /\ exLost' \subseteq ExCallbacks
  BY DEF Exchange!Granted, ExchangeInv, ExchangeTypes
<1>9. ExchangeTypes'  BY <1>6, <1>7, <1>8 DEF ExchangeInv, ExchangeTypes, Exchange!logins
<1>10. x.login = exCallback[c].login /\ x.endpoint = exCallback[c].endpoint /\ x.at = "ended"
  BY <1>2
<1>11. exRedeemed' = exRedeemed \cup {Exchange!Code(c)} /\ Exchange!Code(c) \notin exRedeemed
  BY DEF Exchange!Granted
<1>12. c \notin exTokens \cup exLost  BY <1>1 DEF ExchangeInv, Used
<1>13. ASSUME NEW d \in exTokens \cup exLost
       PROVE  exCallback'[d] = exCallback[d] /\ d \in ExCallbacks \ {c} /\ Used(d)
  BY <1>7, <1>12 DEF ExchangeInv, ExchangeTypes
<1>14. ASSUME NEW d \in (exTokens \cup exLost)' PROVE Used(d)'
  <2>1. CASE d = c
    <3>1. Exchange!Code(c)' = Exchange!Code(c)  BY <1>7, <1>10 DEF Exchange!Code
    <3> QED BY <1>7, <1>10, <1>11, <2>1, <3>1 DEF Used
  <2>2. CASE d # c
    <3>1. d \in exTokens \cup exLost  BY <1>8, <2>2
    <3> QED BY <1>11, <1>13, <3>1 DEF Used, Exchange!Code
  <2> QED BY <2>1, <2>2
<1>15. Spent'
  <2>1. SUFFICES ASSUME NEW l \in ExLogins, NEW s \in ExServers, <<s, l>> \in exRedeemed'
                 PROVE  \E d \in (exTokens \cup exLost)' : exCallback'[d].login = l
    BY DEF Spent
  <2>2. CASE <<s, l>> = Exchange!Code(c)
    <3>1. exCallback[c].login = l  BY <2>2 DEF Exchange!Code
    <3> QED BY <1>7, <1>8, <1>10, <3>1
  <2>3. CASE <<s, l>> # Exchange!Code(c)
    <3>1. <<s, l>> \in exRedeemed  BY <1>11, <2>1, <2>3
    <3>2. PICK d \in exTokens \cup exLost : exCallback[d].login = l
      BY <3>1 DEF ExchangeInv, Spent
    <3> QED BY <1>8, <1>13, <3>2
  <2> QED BY <2>2, <2>3
\* Another one of this login would have used up the same code.
<1>16. ASSUME NEW d \in exTokens \cup exLost PROVE exCallback[d].login # exCallback[c].login
  <2>1. Used(d) /\ d \in ExCallbacks  BY <1>13
  <2>2. exCallback[d] # Exchange!Idle  BY <2>1 DEF Used, Exchange!Idle
  <2>3. exCallback[d].endpoint = exServer[exCallback[d].login]  BY <2>1, <2>2, CallbackHolds
  <2>4. exCallback[c].endpoint = exServer[exCallback[c].login]  BY <1>1, CallbackHolds
  <2> QED BY <1>11, <2>1, <2>3, <2>4 DEF Used, Exchange!Code
<1>17. Alone'
  <2>1. SUFFICES ASSUME NEW d \in (exTokens \cup exLost)', NEW e \in (exTokens \cup exLost)',
                        exCallback'[d].login = exCallback'[e].login
                 PROVE  d = e
    BY DEF Alone
  <2>2. \A b \in exTokens \cup exLost : exCallback'[b].login # exCallback'[c].login
    BY <1>7, <1>10, <1>13, <1>16
  <2>3. CASE d = c \/ e = c  BY <1>8, <2>1, <2>2, <2>3
  <2>4. CASE d # c /\ e # c
    <3>1. d \in exTokens \cup exLost /\ e \in exTokens \cup exLost  BY <1>8, <2>4
    <3> QED BY <1>13, <2>1, <3>1 DEF ExchangeInv, Alone
  <2> QED BY <2>3, <2>4
<1>18. Issued'  BY <1>6 DEF ExchangeInv, Issued, Exchange!logins
<1> QED BY <1>7, <1>9, <1>14, <1>15, <1>17, <1>18 DEF ExchangeInv

LEMMA ExchangeInit == Exchange!Init => ExchangeInv
<1> SUFFICES ASSUME Exchange!Init PROVE ExchangeInv  OBVIOUS
<1>1. ExchangeTypes  BY DEF Exchange!Init, ExchangeTypes, LoginStages
<1>2. ASSUME NEW l \in ExLogins PROVE exStage[l] # "approved"  BY DEF Exchange!Init
<1>3. Issued  BY <1>2 DEF Issued
<1>4. ASSUME NEW c \in ExCallbacks PROVE CallbackSound(exCallback[c], exSent[c])
  BY DEF Exchange!Init, CallbackSound
<1>5. Spent /\ Alone /\ exTokens \cup exLost = {}  BY DEF Exchange!Init, Spent, Alone
<1> QED BY <1>1, <1>3, <1>4, <1>5 DEF ExchangeInv

LEMMA ExchangeNext == ExchangeInv /\ [Exchange!Next]_(Exchange!vars) => ExchangeInv'
<1> SUFFICES ASSUME ExchangeInv, [Exchange!Next]_(Exchange!vars) PROVE ExchangeInv'  OBVIOUS
<1> USE DEF Exchange!external, Exchange!logins
<1>1. CASE (\E document \in Exchange!Documents : Exchange!Delegate(document)) \/ UNCHANGED Exchange!vars
  <2>1. UNCHANGED <<exIssued, exRedeemed, Exchange!exchanges, exStage, exServer>>
    BY <1>1 DEF Exchange!Delegate, Exchange!vars, Exchange!exchanges
  <2>2. exIssued \subseteq exIssued' /\ Issued'  BY <2>1 DEF ExchangeInv, Issued
  <2> QED BY <2>1, <2>2, LoginStep DEF ExchangeInv, ExchangeTypes
<1>2. ASSUME NEW l \in ExLogins,
             Exchange!DiscoverServer(l) \/ Exchange!FetchMetadata(l) \/ Exchange!LoginEnds(l) \/ Exchange!Authorize(l)
      PROVE  ExchangeInv'
  <2>1. /\ UNCHANGED <<exRedeemed, Exchange!exchanges>> /\ exIssued \subseteq exIssued'
        /\ exStage[l] # "approved"
    BY <1>2 DEF Exchange!DiscoverServer, Exchange!FetchMetadata, Exchange!LoginEnds,
       Exchange!Authorize
  <2>2. PICK next \in LoginStages : exStage' = [exStage EXCEPT ![l] = next]
    BY <1>2 DEF Exchange!DiscoverServer, Exchange!FetchMetadata, Exchange!LoginEnds,
       Exchange!Authorize, Exchange!Goto, LoginStages
  <2>3. /\ exServer' = [k \in ExLogins |-> exServer'[k]]
        /\ \A k \in ExLogins \ {l} : exServer'[k] = exServer[k]
    BY <1>2 DEF Exchange!DiscoverServer, Exchange!FetchMetadata, Exchange!LoginEnds,
       Exchange!Authorize, ExchangeInv, ExchangeTypes
  <2>4. /\ exStage' \in [ExLogins -> LoginStages]
        /\ \A k \in ExLogins \ {l} : exStage'[k] = exStage[k]
    BY <2>2 DEF ExchangeInv, ExchangeTypes
  <2>5. Issued'
    <3>1. ASSUME NEW k \in ExLogins \ {l}, exStage'[k] = "approved"
          PROVE  <<exServer'[k], k>> \in exIssued'
      BY <2>1, <2>3, <2>4, <3>1 DEF ExchangeInv, Issued
    <3>2. exStage'[l] = "approved" => <<exServer'[l], l>> \in exIssued'
      BY <1>2 DEF Exchange!DiscoverServer, Exchange!FetchMetadata, Exchange!LoginEnds,
         Exchange!Authorize, Exchange!Goto, ExchangeInv, ExchangeTypes
    <3> QED BY <3>1, <3>2 DEF Issued
  <2> QED BY <2>1, <2>3, <2>4, <2>5, LoginStep
<1>3. ASSUME NEW c \in ExCallbacks, NEW l \in ExLogins, Exchange!FindState(c, l) PROVE ExchangeInv'
  <2>1. PICK x : x = [at |-> "delete", login |-> l, endpoint |-> Exchange!Endpoint(l)]  OBVIOUS
  <2>2. exCallback' = [exCallback EXCEPT ![c] = x]  BY <1>3, <2>1 DEF Exchange!FindState
  <2>3. exSent[c] = <<>>
    <3>1. \A k, at : [at |-> at, login |-> k, endpoint |-> exServer[k]] # Exchange!Idle
      BY DEF Exchange!Idle
    <3> QED BY <1>3, <3>1 DEF Exchange!FindState, ExchangeInv, CallbackSound, Carries
  <2>4. exSent' = [exSent EXCEPT ![c] = <<>>]
    BY <1>3, <2>3 DEF Exchange!FindState, ExchangeInv, ExchangeTypes
  <2>5. exCallback[c].at # "ended"  BY <1>3 DEF Exchange!FindState, Exchange!Idle
  <2>6. CallbackSound(x, <<>>)
    <3>1. Approved(l)  BY <1>3 DEF Exchange!FindState, Approved, ExchangeInv, Issued
    <3>2. Carries(x, <<>>, l, "delete")
      BY <2>1, <3>1 DEF Carries, HasSent, Exchange!Endpoint
    <3> QED BY <3>2 DEF CallbackSound
  <2>7. UNCHANGED <<exIssued, exRedeemed, Exchange!logins, exTokens, exLost>>
    BY <1>3 DEF Exchange!FindState
  <2> QED BY <2>2, <2>4, <2>5, <2>6, <2>7, QuietStep
\* A step that sends nothing.
<1>4. ASSUME NEW c \in ExCallbacks, Exchange!DeleteState(c) \/ Exchange!CallbackEnds(c) PROVE ExchangeInv'
  <2>1. PICK next \in {"exchange", "ended"} :
            Exchange!Reach(c, next) /\ (next = "exchange" => exCallback[c].at = "delete")
    BY <1>4 DEF Exchange!DeleteState, Exchange!CallbackEnds
  <2>2. exCallback[c] # Exchange!Idle /\ exCallback[c].at # "ended"
    BY <1>4 DEF Exchange!DeleteState, Exchange!CallbackEnds, Exchange!Idle
  <2>3. PICK x, posts :
            /\ x = [at |-> next, login |-> exCallback[c].login, endpoint |-> exCallback[c].endpoint]
            /\ posts = exSent[c]
    OBVIOUS
  <2>4. exCallback' = [exCallback EXCEPT ![c] = x]  BY <2>1, <2>2, <2>3, Reaches
  <2>5. exSent' = [exSent EXCEPT ![c] = posts]
    BY <1>4, <2>3 DEF Exchange!DeleteState, Exchange!CallbackEnds, ExchangeInv,
       ExchangeTypes
  <2>6. CallbackSound(x, posts)  BY <2>1, <2>2, <2>3, CarriesOn
  <2>7. UNCHANGED <<exIssued, exRedeemed, Exchange!logins, exTokens, exLost>>
    BY <1>4 DEF Exchange!DeleteState, Exchange!CallbackEnds
  <2> QED BY <2>2, <2>4, <2>5, <2>6, <2>7, QuietStep
\* A step that posts the code, which is not redeemed.
<1>5. ASSUME NEW c \in ExCallbacks, Exchange!WantsNonce(c) \/ Exchange!Refused(c) PROVE ExchangeInv'
  <2>1. PICK next \in {"retry", "ended"} :
            /\ Exchange!Reach(c, next) /\ exCallback[c].at \in {"exchange", "retry"}
            /\ next = "retry" => exCallback[c].at = "exchange"
    BY <1>5 DEF Exchange!WantsNonce, Exchange!Refused, Exchange!Posting
  <2>2. exCallback[c] # Exchange!Idle /\ exCallback[c].at # "ended"
    BY <2>1 DEF Exchange!Idle
  <2>3. PICK x, posts :
            /\ x = [at |-> next, login |-> exCallback[c].login, endpoint |-> exCallback[c].endpoint]
            /\ posts = Append(exSent[c], exCallback[c].endpoint)
    OBVIOUS
  <2>4. exCallback' = [exCallback EXCEPT ![c] = x]  BY <2>1, <2>2, <2>3, Reaches
  <2>5. exSent' = [exSent EXCEPT ![c] = posts]
    BY <1>5, <2>3 DEF Exchange!WantsNonce, Exchange!Refused, Exchange!Post
  <2>6. CallbackSound(x, posts)  BY <2>1, <2>2, <2>3, CarriesOn
  <2>7. UNCHANGED <<exIssued, exRedeemed, Exchange!logins, exTokens, exLost>>
    BY <1>5 DEF Exchange!WantsNonce, Exchange!Refused
  <2> QED BY <2>2, <2>4, <2>5, <2>6, <2>7, QuietStep
<1>6. ASSUME NEW c \in ExCallbacks, Exchange!Granted(c) PROVE ExchangeInv'
  BY <1>6, GrantedStep
<1> QED BY <1>1, <1>2, <1>3, <1>4, <1>5, <1>6 DEF Exchange!Next

LEMMA ExchangeSteps == AccessSpec => Exchange!Spec
<1>1. AccessInit => Exchange!Init  BY DEF AccessInit
<1>2. [AccessNext]_accessVars => [Exchange!Next]_(Exchange!vars)
  BY DEF AccessNext, accessVars, otpVars, idVars, keyVars, rbVars, exVars, Exchange!vars
<1> QED BY <1>1, <1>2, PTL DEF AccessSpec, Exchange!Spec

\* CodeStaysHome: a callback sends its code, at most twice, to the server that
\* issued it, wherever the PDS delegates meanwhile, and however many callbacks of
\* one login pass its state, a code that was used up gave one of them its tokens.
THEOREM CodesStayHome == AccessSpec => []CodeStaysHome
<1>1. ExchangeInv => CodeStaysHome  BY ExchangeInvIsEnough DEF CodeStaysHome
<1> QED BY <1>1, ExchangeInit, ExchangeNext, ExchangeSteps, PTL DEF Exchange!Spec

-----------------------------------------------------------------------------
(* IdentityCache: the inductive invariant *)

\* What is cached for a key names the key, and is as fresh as the last invalidation
\* of the key asks for, or was stored by a resolution that this one overtook.
EntrySound(k, e) ==
    \/ e = Identity!Miss
    \/ \E did, handle, late : \E read \in Nat :
          /\ e = [did |-> did, handle |-> handle, read |-> read, late |-> late]
          /\ k = did \/ k = handle
          /\ late \/ read >= idNotBefore[k]

\* What a resolution has read is as fresh as every key asks for that was not
\* invalidated since then.
TaskSound(t) ==
    /\ "at" \in DOMAIN t
    /\ t.at \in {"owned", "store_did", "store_handle"} =>
           /\ {"read", "overtaken"} \subseteq DOMAIN t
           /\ t.read \in Nat
           /\ \A k \in Identity!Keys : k \in t.overtaken \/ t.read >= idNotBefore[k]

IdentityInv ==
    /\ idChanges \in Nat
    /\ idCache = [k \in Identity!Keys |-> idCache[k]]
    /\ idTask = [r \in IdResolvers |-> idTask[r]]
    /\ idNotBefore \in [Identity!Keys -> Nat]
    /\ \A k \in Identity!Keys : idNotBefore[k] <= idChanges /\ EntrySound(k, idCache[k])
    /\ \A r \in IdResolvers : TaskSound(idTask[r])

LEMMA IdentityInit == Identity!Init => IdentityInv
BY DEF Identity!Init, IdentityInv, EntrySound, TaskSound, Identity!Idle

LEMMA IdentityNext == IdentityInv /\ [Identity!Next]_(Identity!vars) => IdentityInv'
<1> SUFFICES ASSUME IdentityInv, [Identity!Next]_(Identity!vars) PROVE IdentityInv'  OBVIOUS
\* A step of one resolution, which stores nothing.
<1>1. ASSUME NEW r \in IdResolvers, NEW t, idTask' = [idTask EXCEPT ![r] = t], TaskSound(t),
             UNCHANGED <<idChanges, idCache, idNotBefore>>
      PROVE  IdentityInv'
  <2>1. idTask' = [q \in IdResolvers |-> IF q = r THEN t ELSE idTask[q]]
    BY <1>1 DEF IdentityInv
  <2>2. \A q \in IdResolvers : TaskSound(idTask[q])'
    BY <1>1, <2>1 DEF IdentityInv, TaskSound
  <2>3. \A k \in Identity!Keys : EntrySound(k, idCache[k])'
    BY <1>1 DEF IdentityInv, EntrySound
  <2>4. idChanges' \in Nat /\ idCache' = [k \in Identity!Keys |-> idCache'[k]]
        /\ idNotBefore' \in [Identity!Keys -> Nat] /\ \A k \in Identity!Keys : idNotBefore'[k] <= idChanges'
    BY <1>1 DEF IdentityInv
  <2>5. idTask' = [q \in IdResolvers |-> idTask'[q]]  BY <2>1
  <2> QED BY <2>2, <2>3, <2>4, <2>5 DEF IdentityInv
\* A step that changes one entry.
<1>2. ASSUME NEW key, NEW e, idCache' = [idCache EXCEPT ![key] = e],
             key \in Identity!Keys => EntrySound(key, e), UNCHANGED <<idChanges, idNotBefore>>,
             idTask' = [r \in IdResolvers |-> idTask'[r]],
             \A r \in IdResolvers : TaskSound(idTask'[r])
      PROVE  IdentityInv'
  <2>1. idCache' = [k \in Identity!Keys |-> IF k = key THEN e ELSE idCache[k]]
    BY <1>2 DEF IdentityInv
  <2>2. ASSUME NEW k \in Identity!Keys PROVE EntrySound(k, idCache[k])'
    <3>1. PICK x : x = idCache'[k]  OBVIOUS
    <3>2. EntrySound(k, x)  BY <1>2, <2>1, <3>1 DEF IdentityInv
    <3> QED BY <1>2, <3>1, <3>2 DEF EntrySound
  <2>3. \A r \in IdResolvers : TaskSound(idTask[r])'  BY <1>2 DEF TaskSound
  <2> QED BY <1>2, <2>1, <2>2, <2>3 DEF IdentityInv
<1>3. CASE Identity!NetworkChanges
  <2>1. idChanges' = idChanges + 1 /\ UNCHANGED <<idCache, idTask, idNotBefore>>
    BY <1>3 DEF Identity!NetworkChanges
  <2>2. \A k \in Identity!Keys : idNotBefore'[k] <= idChanges' /\ EntrySound(k, idCache[k])'
    BY <2>1 DEF IdentityInv, EntrySound
  <2>3. \A r \in IdResolvers : TaskSound(idTask[r])'  BY <2>1 DEF IdentityInv, TaskSound
  <2> QED BY <2>1, <2>2, <2>3 DEF IdentityInv
<1>4. ASSUME NEW k \in Identity!Keys, Identity!Invalidate(k) PROVE IdentityInv'
  <2>1. /\ idCache' = [q \in Identity!Keys |-> IF q = k THEN Identity!Miss ELSE idCache[q]]
        /\ idNotBefore' = [q \in Identity!Keys |-> IF q = k THEN idChanges ELSE idNotBefore[q]]
        /\ idTask' = Identity!Overtaken(k) /\ UNCHANGED idChanges
    BY <1>4 DEF Identity!Invalidate, Identity!Without, IdentityInv
  <2>2. ASSUME NEW q \in Identity!Keys PROVE EntrySound(q, idCache[q])'
    <3>1. CASE q = k
      <4>1. idCache'[q] = Identity!Miss  BY <2>1, <3>1
      <4> QED BY <4>1 DEF EntrySound
    <3>2. CASE q # k
      <4>1. PICK e : e = idCache[q]  OBVIOUS
      <4>2. idCache'[q] = e /\ idNotBefore'[q] = idNotBefore[q]  BY <2>1, <3>2, <4>1
      <4>3. EntrySound(q, e)  BY <4>1 DEF IdentityInv
      <4> QED BY <4>2, <4>3 DEF EntrySound
    <3> QED BY <3>1, <3>2
  <2>3. ASSUME NEW r \in IdResolvers PROVE TaskSound(idTask[r])'
    <3>1. CASE Identity!Holds(r) /\ idTask[r].read < idChanges
      <4>1. PICK t : t = idTask[r]  OBVIOUS
      <4>2. PICK u : u = [t EXCEPT !.overtaken = t.overtaken \cup {k}]  OBVIOUS
      <4>3. idTask'[r] = u  BY <2>1, <3>1, <4>1, <4>2 DEF Identity!Overtaken
      <4>4. TaskSound(t)  BY <4>1 DEF IdentityInv
      <4>5. DOMAIN u = DOMAIN t /\ u.at = t.at  BY <4>2, <4>4 DEF TaskSound
      <4>6. t.at \in {"owned", "store_did", "store_handle"} =>
                u.read = t.read /\ u.overtaken = t.overtaken \cup {k}
        BY <4>2, <4>4 DEF TaskSound
      <4> QED BY <2>1, <4>3, <4>4, <4>5, <4>6 DEF IdentityInv, TaskSound
    <3>2. CASE ~(Identity!Holds(r) /\ idTask[r].read < idChanges)
      <4>1. PICK t : t = idTask[r]  OBVIOUS
      <4>2. idTask'[r] = t  BY <2>1, <3>2, <4>1 DEF Identity!Overtaken
      <4>3. TaskSound(t)  BY <4>1 DEF IdentityInv
      <4>4. t.at \notin {"owned", "store_did", "store_handle"} \/ ~(t.read < idChanges)
        BY <3>2, <4>1 DEF Identity!Holds
      <4> QED BY <2>1, <4>2, <4>3, <4>4 DEF IdentityInv, TaskSound
    <3> QED BY <3>1, <3>2
  <2>4. idNotBefore' \in [Identity!Keys -> Nat] /\ \A q \in Identity!Keys : idNotBefore'[q] <= idChanges'
    BY <2>1 DEF IdentityInv
  <2>5. /\ idChanges' \in Nat /\ idCache' = [q \in Identity!Keys |-> idCache'[q]]
        /\ idTask' = [r \in IdResolvers |-> idTask'[r]]
    BY <2>1 DEF Identity!Overtaken, IdentityInv
  <2> QED BY <2>2, <2>3, <2>4, <2>5 DEF IdentityInv
<1>5. ASSUME NEW k \in Identity!Keys, Identity!Evict(k) PROVE IdentityInv'
  <2>1. EntrySound(k, Identity!Miss)  BY DEF EntrySound
  <2> QED BY <1>2, <1>5, <2>1 DEF Identity!Evict, IdentityInv
<1>6. ASSUME NEW k \in Identity!Keys, NEW r \in IdResolvers, Identity!Resolve(r, k) PROVE IdentityInv'
  <2>1. PICK t :
            t = IF k \in IdDids
                THEN [at |-> "document", did |-> k, asked |-> k]
                ELSE [at |-> "handle", asked |-> k]
    OBVIOUS
  <2>2. TaskSound(t)  BY <2>1 DEF TaskSound
  <2> QED BY <1>1, <1>6, <2>1, <2>2 DEF Identity!Resolve
<1>7. ASSUME NEW r \in IdResolvers, Identity!AskOwner(r) PROVE IdentityInv'
  <2>1. PICK t : t = [at |-> "owned", did |-> idOwner[idTask[r].asked], asked |-> idTask[r].asked,
                      read |-> idChanges, overtaken |-> {}]
    OBVIOUS
  <2>2. TaskSound(t)  BY <2>1 DEF TaskSound, IdentityInv
  <2> QED BY <1>1, <1>7, <2>1, <2>2 DEF Identity!AskOwner
<1>8. ASSUME NEW r \in IdResolvers, Identity!FetchDocument(r) PROVE IdentityInv'
  <2>1. PICK since, late :
            /\ since = IF idTask[r].at = "owned" THEN idTask[r].read ELSE idChanges
            /\ late = IF idTask[r].at = "owned" THEN idTask[r].overtaken ELSE {}
    OBVIOUS
  <2>2. PICK t : t = [at |-> "store_did", did |-> idTask[r].did, handle |-> Identity!HandleOf(idTask[r]),
                      read |-> since, overtaken |-> late]
    OBVIOUS
  <2>3. since \in Nat /\ \A k \in Identity!Keys : k \in late \/ since >= idNotBefore[k]
    BY <2>1 DEF IdentityInv, TaskSound
  <2>4. TaskSound(t)  BY <2>2, <2>3 DEF TaskSound
  <2> QED BY <1>1, <1>8, <2>1, <2>2, <2>4 DEF Identity!FetchDocument
<1>9. ASSUME NEW r \in IdResolvers, Identity!ResolveEnds(r) PROVE IdentityInv'
  <2>1. TaskSound(Identity!Idle)  BY DEF TaskSound, Identity!Idle
  <2> QED BY <1>1, <1>9, <2>1 DEF Identity!ResolveEnds
<1>10. ASSUME NEW r \in IdResolvers, NEW key, idTask[r].at \in {"store_did", "store_handle"},
              key = idTask[r].did \/ key = idTask[r].handle, key \in Identity!Keys
       PROVE  EntrySound(key, Identity!Entry(r, key))
  <2>1. /\ idTask[r].read \in Nat
        /\ key \in idTask[r].overtaken \/ idTask[r].read >= idNotBefore[key]
    BY <1>10 DEF IdentityInv, TaskSound
  <2> QED BY <1>10, <2>1 DEF EntrySound, Identity!Entry
<1>11. ASSUME NEW r \in IdResolvers, Identity!StoreUnderDid(r) PROVE IdentityInv'
  <2>1. PICK key, e : key = idTask[r].did /\ e = Identity!Entry(r, key)  OBVIOUS
  <2>2. key \in Identity!Keys => EntrySound(key, e)
    BY <1>10, <1>11, <2>1 DEF Identity!StoreUnderDid
  <2>3. idTask' = [q \in IdResolvers |->
                      IF q = r THEN [idTask[r] EXCEPT !.at = "store_handle"] ELSE idTask[q]]
    BY <1>11 DEF Identity!StoreUnderDid, IdentityInv
  <2>4. TaskSound([idTask[r] EXCEPT !.at = "store_handle"])
    BY <1>11 DEF Identity!StoreUnderDid, IdentityInv, TaskSound
  <2>5. \A q \in IdResolvers : TaskSound(idTask'[q])  BY <2>3, <2>4 DEF IdentityInv
  <2>6. idTask' = [q \in IdResolvers |-> idTask'[q]]  BY <2>3
  <2> QED BY <1>2, <1>11, <2>1, <2>2, <2>5, <2>6 DEF Identity!StoreUnderDid
<1>12. ASSUME NEW r \in IdResolvers, Identity!StoreUnderHandle(r) PROVE IdentityInv'
  <2>1. PICK key, e : key = idTask[r].handle /\ e = Identity!Entry(r, key)  OBVIOUS
  <2>2. key \in Identity!Keys => EntrySound(key, e)
    BY <1>10, <1>12, <2>1 DEF Identity!StoreUnderHandle
  <2>3. idTask' = [q \in IdResolvers |-> IF q = r THEN Identity!Idle ELSE idTask[q]]
    BY <1>12 DEF Identity!StoreUnderHandle, IdentityInv
  <2>4. TaskSound(Identity!Idle)  BY DEF TaskSound, Identity!Idle
  <2>5. \A q \in IdResolvers : TaskSound(idTask'[q])  BY <2>3, <2>4 DEF IdentityInv
  <2>6. idTask' = [q \in IdResolvers |-> idTask'[q]]  BY <2>3
  <2> QED BY <1>2, <1>12, <2>1, <2>2, <2>5, <2>6 DEF Identity!StoreUnderHandle
<1>13. CASE UNCHANGED Identity!vars
  BY <1>13 DEF Identity!vars, IdentityInv, EntrySound, TaskSound
<1> QED BY <1>3, <1>4, <1>5, <1>6, <1>7, <1>8, <1>9, <1>11, <1>12, <1>13 DEF Identity!Next

LEMMA IdentityInvIsEnough == IdentityInv => Identity!KeyedByItself /\ Identity!InvalidateHolds
<1> SUFFICES ASSUME IdentityInv, NEW k \in Identity!Keys, idCache[k] # Identity!Miss
             PROVE  /\ k = idCache[k].did \/ k = idCache[k].handle
                    /\ idCache[k].late \/ idCache[k].read >= idNotBefore[k]
  BY DEF Identity!KeyedByItself, Identity!InvalidateHolds
<1> QED BY DEF IdentityInv, EntrySound

LEMMA IdentitySteps == AccessSpec => Identity!Spec
<1>1. AccessInit => Identity!Init  BY DEF AccessInit
<1>2. [AccessNext]_accessVars => [Identity!Next]_(Identity!vars)
  BY DEF AccessNext, accessVars, otpVars, idVars, keyVars, rbVars, exVars, Identity!vars
<1> QED BY <1>1, <1>2, PTL DEF AccessSpec, Identity!Spec

\* CacheIsHonest: an entry names the key it is stored under, and what was forgotten
\* comes back only through a resolution that had read the network before that.
THEOREM CacheHonest == AccessSpec => []CacheIsHonest
<1>1. IdentityInv => CacheIsHonest  BY IdentityInvIsEnough DEF CacheIsHonest
<1> QED BY <1>1, IdentityInit, IdentityNext, IdentitySteps, PTL DEF Identity!Spec
=============================================================================
