------------------------ MODULE DataServices_proofs -------------------------
(***************************************************************************)
(* What is written, stored and handed on: identifiers and cursors, blobs,  *)
(* the events of the router, and the archives of commits. For each an      *)
(* inductive invariant or the lemmas about its operators, and the property *)
(* of the composed services that follows.                                  *)
(***************************************************************************)
EXTENDS DataServices, FiniteSets, FiniteSetsExt, FiniteSetTheorems, SequencesExt, SequenceTheorems,
        WellFoundedInduction, TLAPS

-----------------------------------------------------------------------------
(* Natural numbers *)

\* A set of natural numbers that is not empty has a least element.
LEMMA LeastElement ==
    ASSUME NEW T, T \subseteq Nat, T # {}
    PROVE  \E x \in T : \A y \in T : x <= y
<1>1. PICK R : R = OpToRel(<, Nat)  OBVIOUS
<1>2. IsWellFoundedOn(R, Nat)  BY <1>1, NatLessThanWellFounded
<1>3. PICK x \in T : \A y \in T : ~(<<y, x>> \in R)  BY <1>2, WFMin
<1>4. \A i, j \in Nat : i < j => <<i, j>> \in R  BY <1>1 DEF OpToRel
<1>5. \A y \in T : ~(y < x)  BY <1>3, <1>4
<1> QED BY <1>5

LEMMA MinIsLeast ==
    ASSUME NEW T, T \subseteq Nat, T # {}
    PROVE  Min(T) \in T /\ \A y \in T : Min(T) <= y
BY LeastElement DEF Min

\* The instance has its own copies of Min and Max and Contains.
LEMMA IdsMin == \A S : Ids!Min(S) = Min(S)
BY DEF Ids!Min, Min

LEMMA IdsMax == \A S : Ids!Max(S) = Max(S)
BY DEF Ids!Max, Max

LEMMA IdsContains == \A s, e : Ids!Contains(s, e) = Contains(s, e)
BY DEF Ids!Contains, Contains

LEMMA MinIs ==
    ASSUME NEW T, T \subseteq Nat, NEW n \in T, \A y \in T : n <= y
    PROVE  Min(T) = n
<1>1. Min(T) \in T /\ Min(T) <= n  BY MinIsLeast
<1>2. n <= Min(T) /\ n \in Nat /\ Min(T) \in Nat  BY <1>1
<1> QED BY <1>1, <1>2

LEMMA MaxIs ==
    ASSUME NEW T, T \subseteq Nat, NEW n \in T, \A y \in T : y <= n
    PROVE  Max(T) = n
<1>1. \A x, y \in T : x >= y <=> y <= x  OBVIOUS
<1>2. \E x \in T : \A y \in T : x >= y  BY <1>1
<1>3. Max(T) \in T /\ \A y \in T : Max(T) >= y  BY <1>2 DEF Max
<1>4. n \in Nat /\ Max(T) \in Nat /\ Max(T) >= n /\ Max(T) <= n  BY <1>3
<1> QED BY <1>4

-----------------------------------------------------------------------------
(* TIDs *)

LEMMA Powers == 2 ^ Ids!Bits = 4 /\ 2 ^ (Ids!Bits * 0) = 1 /\ 2 ^ (Ids!Bits * 1) = 4 /\ 2 ^ (Ids!Bits * 2) = 16
                /\ 2 ^ 5 = 32
BY DEF Ids!Bits

LEMMA EncodedIs ==
    ASSUME NEW v \in Ids!Values
    PROVE  Ids!Encoded(v) = <<(v \div 16) % 4, (v \div 4) % 4, v % 4>>
<1>1. Ids!Encoded(v) = [i \in 1..3 |-> (v \div 2 ^ (2 * (3 - i))) % 2 ^ 2]
  BY DEF Ids!Encoded, Ids!Characters, Ids!Bits
<1>2. v \in Nat /\ v \div 1 = v  BY DEF Ids!Values
<1>3. \A i \in 1..3 : i = 1 \/ i = 2 \/ i = 3  OBVIOUS
<1>4. /\ (v \div 2 ^ (2 * (3 - 1))) % 2 ^ 2 = (v \div 16) % 4
      /\ (v \div 2 ^ (2 * (3 - 2))) % 2 ^ 2 = (v \div 4) % 4
      /\ (v \div 2 ^ (2 * (3 - 3))) % 2 ^ 2 = v % 4
  BY <1>2, Powers DEF Ids!Bits
<1> QED BY <1>1, <1>3, <1>4
LEMMA Digits ==
    ASSUME NEW v \in Ids!Values
    PROVE  LET a == (v \div 16) % 4
               b == (v \div 4) % 4
               c == v % 4
           IN  v = 16 * a + 4 * b + c /\ a \in 0..3 /\ b \in 0..3 /\ c \in 0..3
<1>1. v \in 0..31  BY Powers DEF Ids!Values
<1> QED BY <1>1

\* The greater of two values has the greater first digit that differs.
LEMMA EncodedSorts ==
    ASSUME NEW v \in Ids!Values, NEW w \in Ids!Values, w < v
    PROVE  Ids!Before(Ids!Encoded(w), Ids!Encoded(v))
<1> DEFINE s == Ids!Encoded(w)
           t == Ids!Encoded(v)
<1>1. /\ v = 16 * t[1] + 4 * t[2] + t[3] /\ t[1] \in 0..3 /\ t[2] \in 0..3 /\ t[3] \in 0..3
      /\ w = 16 * s[1] + 4 * s[2] + s[3] /\ s[1] \in 0..3 /\ s[2] \in 0..3 /\ s[3] \in 0..3
  BY EncodedIs, Digits
<1>2. DOMAIN s = 1..3  BY EncodedIs
<1> HIDE DEF s, t
<1>3. \/ s[1] < t[1]
      \/ s[1] = t[1] /\ s[2] < t[2]
      \/ s[1] = t[1] /\ s[2] = t[2] /\ s[3] < t[3]
  <2>1. PICK a \in 0..3, b \in 0..3, c \in 0..3 :
            a = s[1] /\ b = s[2] /\ c = s[3] /\ w = 16 * a + 4 * b + c
    BY <1>1
  <2>2. PICK d \in 0..3, e \in 0..3, f \in 0..3 :
            d = t[1] /\ e = t[2] /\ f = t[3] /\ v = 16 * d + 4 * e + f
    BY <1>1
  <2>3. 16 * a + 4 * b + c < 16 * d + 4 * e + f  BY <2>1, <2>2
  <2>4. a <= d  BY <2>3
  <2>5. a = d => b <= e  BY <2>3
  <2>6. a = d /\ b = e => c < f  BY <2>3
  <2>7. a < d \/ (a = d /\ b < e) \/ (a = d /\ b = e /\ c < f)  BY <2>4, <2>5, <2>6
  <2> QED BY <2>1, <2>2, <2>7
<1>4. Ids!Before(s, t)
  <2>1. CASE s[1] < t[1]
    <3>1. 1 \in DOMAIN s /\ \A j \in 1..(1 - 1) : s[j] = t[j]  BY <1>2
    <3> QED BY <2>1, <3>1 DEF Ids!Before
  <2>2. CASE s[1] = t[1] /\ s[2] < t[2]
    <3>1. 2 \in DOMAIN s /\ \A j \in 1..(2 - 1) : j = 1  BY <1>2
    <3> QED BY <2>2, <3>1 DEF Ids!Before
  <2>3. CASE s[1] = t[1] /\ s[2] = t[2] /\ s[3] < t[3]
    <3>1. 3 \in DOMAIN s /\ \A j \in 1..(3 - 1) : j = 1 \/ j = 2  BY <1>2
    <3> QED BY <2>3, <3>1 DEF Ids!Before
  <2> QED BY <1>3, <2>1, <2>2, <2>3
<1> QED BY <1>4 DEF s, t

LEMMA TidsReadBack ==
    ASSUME NEW v \in Ids!Values, Ids!WriteTid(v)
    PROVE  Ids!ReadsBack'
<1> DEFINE t == Ids!Encoded(v)
<1>1. Len(t) = Ids!Characters /\ DOMAIN t = 1..3  BY EncodedIs DEF Ids!Characters
<1>2. \A i \in DOMAIN t : t[i] \in 0..(2 ^ Ids!Bits - 1)
  <2>1. t[1] \in 0..3 /\ t[2] \in 0..3 /\ t[3] \in 0..3  BY EncodedIs, Digits
  <2>2. \A i \in DOMAIN t : i = 1 \/ i = 2 \/ i = 3  BY <1>1
  <2> HIDE DEF t
  <2> QED BY <2>1, <2>2, Powers
<1>3. Ids!ParsedTid(t) = {t}  BY <1>1, <1>2 DEF Ids!ParsedTid
<1>4. txtJob' = [kind |-> "tid", value |-> v] /\ txtText' = t /\ txtBack' = {t}
  BY <1>3 DEF Ids!WriteTid
<1>5. \A w \in Ids!Values : w < v => Ids!Before(Ids!Encoded(w), t)  BY EncodedSorts
<1> HIDE DEF t
<1> QED BY <1>4, <1>5 DEF Ids!ReadsBack
-----------------------------------------------------------------------------
(* Texts *)

Tokens == STRING \cup {"at://", "did:", "/", ":", ".", "collection", "generator"} \cup TxtStamps

LEMMA TextsAreTokens == TxtTexts \subseteq Seq(Tokens) /\ TxtFeeds \subseteq Seq(Tokens)
<1>1. STRING \subseteq Tokens  BY DEF Tokens
<1> QED BY <1>1, SeqMonotonic, TextsAssumption

\* Position is the first place from there on where the token stands, or 0.
LEMMA PositionIs ==
    ASSUME NEW t, Len(t) \in Nat, NEW token, NEW from \in Nat, NEW i \in from..Len(t),
           t[i] = token, \A j \in from..(i - 1) : t[j] # token
    PROVE  Ids!Position(t, token, from) = i
<1> DEFINE at == {j \in from..Len(t) : t[j] = token}
<1>1. at \subseteq Nat /\ i \in at /\ \A j \in at : i <= j  OBVIOUS
<1>2. Min(at) = i
  <2> HIDE DEF at
  <2> QED BY <1>1, MinIs
<1> QED BY <1>1, <1>2, IdsMin DEF Ids!Position

LEMMA PositionFinds ==
    ASSUME NEW t, Len(t) \in Nat, NEW token, NEW from \in Nat
    PROVE  \/ Ids!Position(t, token, from) = 0
           \/ Ids!Position(t, token, from) \in from..Len(t) /\ t[Ids!Position(t, token, from)] = token
<1> DEFINE at == {j \in from..Len(t) : t[j] = token}
<1>1. CASE at = {}  BY <1>1 DEF Ids!Position
<1>2. CASE at # {}
  <2>1. at \subseteq Nat  OBVIOUS
  <2>2. Min(at) \in at
    <3> HIDE DEF at
    <3> QED BY <1>2, <2>1, MinIsLeast
  <2> QED BY <1>2, <2>2, IdsMin DEF Ids!Position
<1> QED BY <1>1, <1>2

\* What stands where in two texts put together.
JoinOf(x, s, t) ==
    /\ x \in Seq(Tokens) /\ Len(x) = Len(s) + Len(t)
    /\ \A i \in 1..Len(s) : x[i] = s[i]
    /\ \A i \in 1..Len(t) : x[Len(s) + i] = t[i]

LEMMA Joined ==
    ASSUME NEW s \in Seq(Tokens), NEW t \in Seq(Tokens)
    PROVE  JoinOf(s \o t, s, t)
<1> DEFINE k == Len(s)
<1>1. Len(s) \in Nat /\ Len(t) \in Nat  OBVIOUS
<1>2. /\ s \o t \in Seq(Tokens) /\ Len(s \o t) = k + Len(t)
      /\ \A i \in 1..(k + Len(t)) : (s \o t)[i] = IF i <= k THEN s[i] ELSE t[i - k]
  BY ConcatProperties
<1>3. ASSUME NEW i \in 1..Len(t) PROVE (s \o t)[k + i] = t[i]
  <2>1. k + i \in 1..(k + Len(t)) /\ ~(k + i <= k) /\ (k + i) - k = i  BY <1>1
  <2> QED BY <1>2, <2>1
<1>4. ASSUME NEW i \in 1..k PROVE (s \o t)[i] = s[i]
  <2>1. i \in 1..(k + Len(t)) /\ i <= k  BY <1>1
  <2> QED BY <1>2, <2>1
<1> QED BY <1>2, <1>3, <1>4 DEF JoinOf

\* What stands where in an AT-URI.
UriOf(t, a, c, r) ==
    LET k == Len(a)
        l == Len(c)
    IN  /\ t \in Seq(Tokens) /\ Len(t) = k + l + Len(r) + 3
        /\ t[1] = "at://" /\ t[k + 2] = "/" /\ t[k + l + 3] = "/"
        /\ \A i \in 1..k : t[i + 1] = a[i]
        /\ \A i \in 1..l : t[k + 2 + i] = c[i]
        /\ \A i \in 1..Len(r) : t[k + l + 3 + i] = r[i]

LEMMA ShownIs ==
    ASSUME NEW a \in Seq(Tokens), NEW c \in Seq(Tokens), NEW r \in Seq(Tokens)
    PROVE  UriOf(Ids!Shown([authority |-> a, collection |-> c, rkey |-> r]), a, c, r)
<1>1. /\ <<"at://">> \in Seq(Tokens) /\ Len(<<"at://">>) = 1 /\ <<"at://">>[1] = "at://"
      /\ <<"/">> \in Seq(Tokens) /\ Len(<<"/">>) = 1 /\ <<"/">>[1] = "/"
  BY DEF Tokens
<1>2. PICK k, l, m \in Nat : k = Len(a) /\ l = Len(c) /\ m = Len(r)  OBVIOUS
<1>3. PICK p : p = <<"at://">> \o a  OBVIOUS
<1>4. JoinOf(p, <<"at://">>, a)  BY <1>1, <1>3, Joined
<1>5. /\ p \in Seq(Tokens) /\ Len(p) = 1 + k /\ p[1] = "at://"
      /\ \A i \in 1..k : p[1 + i] = a[i]
  BY <1>1, <1>2, <1>4 DEF JoinOf
<1>6. PICK q : q = p \o <<"/">>  OBVIOUS
<1>7. JoinOf(q, p, <<"/">>)  BY <1>1, <1>5, <1>6, Joined
<1>8. /\ q \in Seq(Tokens) /\ Len(q) = k + 2 /\ q[k + 2] = "/"
      /\ \A i \in 1..(1 + k) : q[i] = p[i]
  <2>1. q[Len(p) + 1] = "/"  BY <1>1, <1>7 DEF JoinOf
  <2>2. Len(p) + 1 = k + 2  BY <1>5
  <2> QED BY <1>1, <1>5, <1>7, <2>1, <2>2 DEF JoinOf
<1>9. PICK s : s = q \o c  OBVIOUS
<1>10. JoinOf(s, q, c)  BY <1>8, <1>9, Joined
<1>11. /\ s \in Seq(Tokens) /\ Len(s) = (k + 2) + l
       /\ \A i \in 1..(k + 2) : s[i] = q[i]
       /\ \A i \in 1..l : s[(k + 2) + i] = c[i]
  BY <1>2, <1>8, <1>10 DEF JoinOf
<1>12. PICK u : u = s \o <<"/">>  OBVIOUS
<1>13. JoinOf(u, s, <<"/">>)  BY <1>1, <1>11, <1>12, Joined
<1>14. /\ u \in Seq(Tokens) /\ Len(u) = k + l + 3 /\ u[k + l + 3] = "/"
       /\ \A i \in 1..((k + 2) + l) : u[i] = s[i]
  <2>1. u[Len(s) + 1] = "/"  BY <1>1, <1>13 DEF JoinOf
  <2>2. Len(s) + 1 = k + l + 3  BY <1>2, <1>11
  <2> QED BY <1>1, <1>11, <1>13, <2>1, <2>2 DEF JoinOf
<1>15. PICK t : t = u \o r  OBVIOUS
<1>16. JoinOf(t, u, r)  BY <1>14, <1>15, Joined
<1>17. /\ t \in Seq(Tokens) /\ Len(t) = (k + l + 3) + m
       /\ \A i \in 1..(k + l + 3) : t[i] = u[i]
       /\ \A i \in 1..m : t[(k + l + 3) + i] = r[i]
  BY <1>2, <1>14, <1>16 DEF JoinOf
<1>18. t = Ids!Shown([authority |-> a, collection |-> c, rkey |-> r])
  BY <1>3, <1>6, <1>9, <1>12, <1>15 DEF Ids!Shown
<1>19. ASSUME NEW i \in 1..(k + 2) PROVE t[i] = q[i]
  <2>1. i \in 1..(k + l + 3) /\ i \in 1..((k + 2) + l)  BY <1>2
  <2> QED BY <1>11, <1>14, <1>17, <2>1
<1>20. t[1] = "at://" /\ t[k + 2] = "/"
  <2>1. 1 \in 1..(k + 2) /\ k + 2 \in 1..(k + 2) /\ 1 \in 1..(1 + k)  BY <1>2
  <2> QED BY <1>5, <1>8, <1>19, <2>1
<1>21. t[k + l + 3] = "/"
  <2>1. k + l + 3 \in 1..(k + l + 3)  BY <1>2
  <2> QED BY <1>14, <1>17, <2>1
<1>22. ASSUME NEW i \in 1..k PROVE t[i + 1] = a[i]
  <2>1. 1 + i \in 1..(k + 2) /\ 1 + i \in 1..(1 + k) /\ 1 + i = i + 1  BY <1>2
  <2> QED BY <1>5, <1>8, <1>19, <2>1
<1>23. ASSUME NEW i \in 1..l PROVE t[k + 2 + i] = c[i]
  <2>1. (k + 2) + i \in 1..(k + l + 3) /\ (k + 2) + i \in 1..((k + 2) + l)  BY <1>2
  <2> QED BY <1>11, <1>14, <1>17, <2>1
<1>24. Len(t) = k + l + m + 3  BY <1>2, <1>17
<1>25. UriOf(t, a, c, r)
  BY <1>2, <1>20, <1>21, <1>22, <1>23, <1>24, <1>17 DEF UriOf
<1> QED BY <1>25, <1>18

\* A part of a text.
LEMMA PartIs ==
    ASSUME NEW t \in Seq(Tokens), NEW m \in Nat \ {0}, NEW n \in Int, n <= Len(t)
    PROVE  /\ SubSeq(t, m, n) \in Seq(Tokens)
           /\ Len(SubSeq(t, m, n)) = IF m <= n THEN n - m + 1 ELSE 0
           /\ \A i \in 1..(n - m + 1) : SubSeq(t, m, n)[i] = t[m + i - 1]
<1>1. \A i \in m..n : t[i] \in Tokens  OBVIOUS
<1> QED BY <1>1, SubSeqProperties

\* What is read from a text is written as that text.
LEMMA ParsedIsShown ==
    ASSUME NEW t \in Seq(Tokens), NEW u \in Ids!ParsedUri(t)
    PROVE  Ids!Shown(u) = t
<1> DEFINE first == Ids!Position(t, "/", 2)
           second == Ids!Position(t, "/", first + 1)
           a == SubSeq(t, 2, first - 1)
           c == SubSeq(t, first + 1, second - 1)
           r == SubSeq(t, second + 1, Len(t))
<1>1. /\ t # <<>> /\ t[1] = "at://" /\ first # 0 /\ second # 0
      /\ u = [authority |-> a, collection |-> c, rkey |-> r]
  BY DEF Ids!ParsedUri, Ids!NewUri
<1>2. Len(t) \in Nat  OBVIOUS
<1>3. first \in 2..Len(t) /\ t[first] = "/"  BY <1>1, <1>2, PositionFinds
<1>4. second \in (first + 1)..Len(t) /\ t[second] = "/"
  <2>1. first + 1 \in Nat  BY <1>3
  <2> QED BY <1>1, <1>2, <2>1, PositionFinds
<1> HIDE DEF first, second
<1>5. /\ a \in Seq(Tokens) /\ Len(a) = first - 2
      /\ \A i \in 1..Len(a) : a[i] = t[i + 1]
  <2>1. first - 1 \in Int /\ first - 1 <= Len(t) /\ 2 <= first  BY <1>2, <1>3
  <2>2. /\ a \in Seq(Tokens) /\ Len(a) = IF 2 <= first - 1 THEN (first - 1) - 2 + 1 ELSE 0
        /\ \A i \in 1..((first - 1) - 2 + 1) : a[i] = t[2 + i - 1]
    BY <2>1, PartIs
  <2>3. Len(a) = first - 2  BY <1>3, <2>2
  <2> QED BY <1>3, <2>2, <2>3
<1>6. /\ c \in Seq(Tokens) /\ Len(c) = second - first - 1
      /\ \A i \in 1..Len(c) : c[i] = t[first + i]
  <2>1. second - 1 \in Int /\ second - 1 <= Len(t) /\ first + 1 \in Nat \ {0}
    BY <1>2, <1>3, <1>4
  <2>2. /\ c \in Seq(Tokens)
        /\ Len(c) = IF first + 1 <= second - 1 THEN (second - 1) - (first + 1) + 1 ELSE 0
        /\ \A i \in 1..((second - 1) - (first + 1) + 1) : c[i] = t[(first + 1) + i - 1]
    BY <2>1, PartIs
  <2>3. Len(c) = second - first - 1  BY <1>3, <1>4, <2>2
  <2> QED BY <1>3, <1>4, <2>2, <2>3
<1>7. /\ r \in Seq(Tokens) /\ Len(r) = Len(t) - second
      /\ \A i \in 1..Len(r) : r[i] = t[second + i]
  <2>1. Len(t) \in Int /\ second + 1 \in Nat \ {0}  BY <1>2, <1>3, <1>4
  <2>2. /\ r \in Seq(Tokens)
        /\ Len(r) = IF second + 1 <= Len(t) THEN Len(t) - (second + 1) + 1 ELSE 0
        /\ \A i \in 1..(Len(t) - (second + 1) + 1) : r[i] = t[(second + 1) + i - 1]
    BY <2>1, PartIs
  <2>3. Len(r) = Len(t) - second  BY <1>3, <1>4, <2>2
  <2> QED BY <1>3, <1>4, <2>2, <2>3
<1> HIDE DEF a, c, r
<1>8. PICK s : s = Ids!Shown([authority |-> a, collection |-> c, rkey |-> r])  OBVIOUS
<1>9. /\ s \in Seq(Tokens) /\ Len(s) = Len(a) + Len(c) + Len(r) + 3
      /\ s[1] = "at://" /\ s[Len(a) + 2] = "/" /\ s[Len(a) + Len(c) + 3] = "/"
      /\ \A i \in 1..Len(a) : s[i + 1] = a[i]
      /\ \A i \in 1..Len(c) : s[Len(a) + 2 + i] = c[i]
      /\ \A i \in 1..Len(r) : s[Len(a) + Len(c) + 3 + i] = r[i]
  <2>1. a \in Seq(Tokens) /\ c \in Seq(Tokens) /\ r \in Seq(Tokens)  BY <1>5, <1>6, <1>7
  <2>2. UriOf(s, a, c, r)  BY <1>8, <2>1, ShownIs
  <2> QED BY <2>2 DEF UriOf
<1>10. Len(s) = Len(t) /\ s[first] = "/" /\ s[second] = "/"
  BY <1>2, <1>3, <1>4, <1>5, <1>6, <1>7, <1>9
<1>11. ASSUME NEW i \in 1..Len(s) PROVE s[i] = t[i]
  <2>1. CASE i = 1 \/ i = first \/ i = second  BY <1>1, <1>3, <1>4, <1>9, <1>10, <2>1
  <2>2. CASE 1 < i /\ i < first
    <3>1. i - 1 \in 1..Len(a) /\ (i - 1) + 1 = i  BY <1>3, <1>5, <2>2
    <3> QED BY <1>5, <1>9, <3>1
  <2>3. CASE first < i /\ i < second
    <3>1. i - first \in 1..Len(c) /\ Len(a) + 2 + (i - first) = i /\ first + (i - first) = i
      BY <1>3, <1>4, <1>5, <1>6, <2>3
    <3> QED BY <1>6, <1>9, <3>1
  <2>4. CASE second < i
    <3>1. /\ i - second \in 1..Len(r) /\ Len(a) + Len(c) + 3 + (i - second) = i
          /\ second + (i - second) = i
      BY <1>2, <1>3, <1>4, <1>5, <1>6, <1>7, <1>10, <2>4
    <3> QED BY <1>7, <1>9, <3>1
  <2> QED BY <1>3, <1>4, <2>1, <2>2, <2>3, <2>4
<1>12. s = t  BY <1>9, <1>10, <1>11, SeqEqual
<1> QED BY <1>1, <1>8, <1>12

\* The part of a text where another one stands.
LEMMA PartIsText ==
    ASSUME NEW t \in Seq(Tokens), NEW s \in Seq(Tokens), NEW k \in Nat, k + Len(s) <= Len(t),
           \A i \in 1..Len(s) : t[k + i] = s[i]
    PROVE  SubSeq(t, k + 1, k + Len(s)) = s
<1>1. PICK l \in Nat : l = Len(s)  OBVIOUS
<1>2. k + 1 \in Nat \ {0} /\ k + l \in Int /\ k + l <= Len(t)  BY <1>1
<1>3. PICK p : p = SubSeq(t, k + 1, k + l)  OBVIOUS
<1>4. /\ p \in Seq(Tokens) /\ Len(p) = IF k + 1 <= k + l THEN (k + l) - (k + 1) + 1 ELSE 0
      /\ \A i \in 1..((k + l) - (k + 1) + 1) : p[i] = t[(k + 1) + i - 1]
  BY <1>2, <1>3, PartIs
<1>5. Len(p) = l  BY <1>4
<1>6. ASSUME NEW i \in 1..l PROVE p[i] = s[i]
  <2>1. i \in 1..((k + l) - (k + 1) + 1) /\ (k + 1) + i - 1 = k + i  OBVIOUS
  <2> QED BY <1>1, <1>4, <2>1
<1>7. p = s  BY <1>1, <1>4, <1>5, <1>6, SeqEqual
<1> QED BY <1>1, <1>3, <1>7

\* An AT-URI is read back, unless there is a slash where none belongs.
LEMMA ShownIsParsed ==
    ASSUME NEW a \in Seq(Tokens), NEW c \in Seq(Tokens), NEW r \in Seq(Tokens),
           Ids!Plain(a), Ids!Plain(c), Ids!ValidUri([authority |-> a, collection |-> c, rkey |-> r])
    PROVE  LET u == [authority |-> a, collection |-> c, rkey |-> r]
           IN  Ids!ParsedUri(Ids!Shown(u)) = {u}
<1>1. PICK u : u = [authority |-> a, collection |-> c, rkey |-> r]  OBVIOUS
<1>2. PICK t : t = Ids!Shown(u)  OBVIOUS
<1>3. PICK k, l, m \in Nat : k = Len(a) /\ l = Len(c) /\ m = Len(r)  OBVIOUS
<1>4. /\ t \in Seq(Tokens) /\ Len(t) = k + l + m + 3
      /\ t[1] = "at://" /\ t[k + 2] = "/" /\ t[k + l + 3] = "/"
      /\ \A i \in 1..k : t[i + 1] = a[i]
      /\ \A i \in 1..l : t[k + 2 + i] = c[i]
      /\ \A i \in 1..m : t[k + l + 3 + i] = r[i]
  <2>1. UriOf(t, a, c, r)  BY <1>1, <1>2, ShownIs
  <2> QED BY <1>3, <2>1 DEF UriOf
<1>5. /\ \A i \in 1..k : a[i] # "/"
      /\ \A i \in 1..l : c[i] # "/"
  BY <1>3, IdsContains DEF Ids!Plain, Contains
<1>6. Ids!Position(t, "/", 2) = k + 2
  <2>1. ASSUME NEW j \in 2..((k + 2) - 1) PROVE t[j] # "/"
    <3>1. j - 1 \in 1..k /\ (j - 1) + 1 = j  OBVIOUS
    <3> QED BY <1>4, <1>5, <3>1
  <2>2. k + 2 \in 2..Len(t) /\ Len(t) \in Nat /\ t[k + 2] = "/"  BY <1>4
  <2> QED BY <2>1, <2>2, PositionIs
<1>7. Ids!Position(t, "/", (k + 2) + 1) = k + l + 3
  <2>1. ASSUME NEW j \in ((k + 2) + 1)..((k + l + 3) - 1) PROVE t[j] # "/"
    <3>1. j - k - 2 \in 1..l /\ k + 2 + (j - k - 2) = j  OBVIOUS
    <3> QED BY <1>4, <1>5, <3>1
  <2>2. k + l + 3 \in ((k + 2) + 1)..Len(t) /\ Len(t) \in Nat /\ (k + 2) + 1 \in Nat
    BY <1>4
  <2>3. t[k + l + 3] = "/"  BY <1>4
  <2> QED BY <2>1, <2>2, <2>3, PositionIs
<1>8. SubSeq(t, 2, (k + 2) - 1) = a
  <2>1. 1 + Len(a) <= Len(t) /\ \A i \in 1..Len(a) : t[1 + i] = a[i]  BY <1>3, <1>4
  <2>2. SubSeq(t, 1 + 1, 1 + Len(a)) = a  BY <1>4, <2>1, PartIsText
  <2>3. (k + 2) - 1 = 1 + Len(a) /\ 1 + 1 = 2  BY <1>3
  <2> QED BY <2>2, <2>3
<1>9. SubSeq(t, (k + 2) + 1, (k + l + 3) - 1) = c
  <2>1. (k + 2) + Len(c) <= Len(t) /\ \A i \in 1..Len(c) : t[(k + 2) + i] = c[i]
    BY <1>3, <1>4
  <2>2. SubSeq(t, (k + 2) + 1, (k + 2) + Len(c)) = c  BY <1>4, <2>1, PartIsText
  <2>3. (k + l + 3) - 1 = (k + 2) + Len(c)  BY <1>3
  <2> QED BY <2>2, <2>3
<1>10. SubSeq(t, (k + l + 3) + 1, Len(t)) = r
  <2>1. (k + l + 3) + Len(r) <= Len(t) /\ \A i \in 1..Len(r) : t[(k + l + 3) + i] = r[i]
    BY <1>3, <1>4
  <2>2. SubSeq(t, (k + l + 3) + 1, (k + l + 3) + Len(r)) = r  BY <1>4, <2>1, PartIsText
  <2>3. Len(t) = (k + l + 3) + Len(r)  BY <1>3, <1>4
  <2> QED BY <2>2, <2>3
<1>11. t # <<>> /\ k + 2 # 0 /\ k + l + 3 # 0  BY <1>4
<1>12. c # <<>>
  <2>1. Contains(c, ".")  BY <1>1, IdsContains DEF Ids!ValidUri
  <2> QED BY <2>1 DEF Contains
<1>13. Ids!NewUri(u) = {u}  BY <1>1 DEF Ids!NewUri
<1>14. Ids!ParsedUri(t) = Ids!NewUri([authority |-> a, collection |-> c, rkey |-> r])
  <2>1. PICK first, second : first = k + 2 /\ second = k + l + 3  OBVIOUS
  <2>2. /\ Ids!Position(t, "/", 2) = first /\ Ids!Position(t, "/", first + 1) = second
        /\ SubSeq(t, 2, first - 1) = a /\ SubSeq(t, first + 1, second - 1) = c
        /\ SubSeq(t, second + 1, Len(t)) = r
    BY <1>6, <1>7, <1>8, <1>9, <1>10, <2>1
  <2>3. t # <<>> /\ t[1] = "at://" /\ first # 0 /\ second # 0  BY <1>4, <1>11, <2>1
  <2> QED BY <1>12, <2>2, <2>3 DEF Ids!ParsedUri
<1> QED BY <1>1, <1>2, <1>13, <1>14

LEMMA UrisReadBack ==
    ASSUME NEW a \in TxtTexts, NEW c \in TxtTexts, NEW r \in TxtTexts, Ids!WriteUri(a, c, r)
    PROVE  Ids!ReadsBack'
<1>1. PICK u : u = [authority |-> a, collection |-> c, rkey |-> r]  OBVIOUS
<1>2. PICK t : t = Ids!Shown(u)  OBVIOUS
<1>3. Ids!ValidUri(u) /\ txtJob' = [kind |-> "uri", uri |-> u] /\ txtText' = t /\ txtBack' = Ids!ParsedUri(t)
  BY <1>1, <1>2 DEF Ids!WriteUri
<1>4. a \in Seq(Tokens) /\ c \in Seq(Tokens) /\ r \in Seq(Tokens)  BY TextsAreTokens
<1>5. t \in Seq(Tokens)
  <2>1. UriOf(t, a, c, r)  BY <1>1, <1>2, <1>4, ShownIs
  <2> QED BY <2>1 DEF UriOf
<1>6. \A x \in Ids!ParsedUri(t) : Ids!Shown(x) = t  BY <1>5, ParsedIsShown
<1>7. Ids!Plain(u.authority) /\ Ids!Plain(u.collection) => Ids!ParsedUri(t) = {u}
  <2> SUFFICES ASSUME Ids!Plain(a), Ids!Plain(c) PROVE Ids!ParsedUri(t) = {u}  BY <1>1
  <2>1. Ids!ValidUri([authority |-> a, collection |-> c, rkey |-> r])  BY <1>1, <1>3
  <2> QED BY <1>1, <1>2, <1>4, <2>1, ShownIsParsed
<1> QED BY <1>3, <1>6, <1>7 DEF Ids!ReadsBack

-----------------------------------------------------------------------------
(* Cursors and feeds *)

LEMMA CursorsReadBack ==
    ASSUME NEW stamp \in TxtStamps, NEW rkey \in TxtTexts, Ids!WriteCursor(stamp, rkey)
    PROVE  Ids!ReadsBack'
<1>1. PICK t : t = <<stamp, ":">> \o rkey  OBVIOUS
<1>2. <<stamp, ":">> \in Seq(Tokens) /\ Len(<<stamp, ":">>) = 2 /\ rkey \in Seq(Tokens)
  BY TextsAreTokens DEF Tokens
<1>3. /\ t \in Seq(Tokens) /\ Len(t) = 2 + Len(rkey)
      /\ \A i \in 1..2 : t[i] = <<stamp, ":">>[i]
      /\ \A i \in 1..Len(rkey) : t[2 + i] = rkey[i]
  <2>1. JoinOf(t, <<stamp, ":">>, rkey)  BY <1>1, <1>2, Joined
  <2> QED BY <1>2, <2>1 DEF JoinOf
<1>4. Len(rkey) \in Nat /\ Len(t) \in Nat  BY <1>2, <1>3
<1>5. t[1] = stamp /\ t[2] = ":"  BY <1>3
<1>6. Ids!Position(t, ":", 1) = 2
  <2>1. 2 \in 1..Len(t) /\ \A j \in 1..(2 - 1) : j = 1  BY <1>3, <1>4
  <2>2. \A j \in 1..(2 - 1) : t[j] # ":"  BY <1>5, <2>1, TextsAssumption
  <2> QED BY <1>4, <1>5, <2>1, <2>2, PositionIs
<1>7. SubSeq(t, 2 + 1, Len(t)) = rkey
  <2>1. SubSeq(t, 2 + 1, 2 + Len(rkey)) = rkey  BY <1>2, <1>3, <1>4, PartIsText
  <2> QED BY <1>3, <2>1
<1>8. Ids!DecodedCursor(t) = {[stamp |-> stamp, rkey |-> rkey]}
  BY <1>5, <1>6, <1>7 DEF Ids!DecodedCursor
<1>9. txtJob' = [kind |-> "cursor", stamp |-> stamp, rkey |-> rkey] /\ txtBack' = Ids!DecodedCursor(t)
  BY <1>1 DEF Ids!WriteCursor, Ids!Cursor
<1> QED BY <1>8, <1>9 DEF Ids!ReadsBack

LEMMA FeedsReadBack ==
    ASSUME NEW id \in TxtFeeds, NEW limit \in TxtLimits, Ids!WriteFeed(id, limit)
    PROVE  Ids!ReadsBack'
<1> DEFINE head == <<"at://", "did:", "/", "collection", ".", "generator", "/">>
<1>1. PICK t : t = head \o id  OBVIOUS
<1>2. head \in Seq(Tokens) /\ Len(head) = 7 /\ head[7] = "/" /\ id \in Seq(Tokens)
  BY TextsAreTokens DEF Tokens
<1>3. /\ t \in Seq(Tokens) /\ Len(t) = 7 + Len(id)
      /\ \A i \in 1..7 : t[i] = head[i]
      /\ \A i \in 1..Len(id) : t[7 + i] = id[i]
  <2> HIDE DEF head
  <2>1. JoinOf(t, head, id)  BY <1>1, <1>2, Joined
  <2> QED BY <1>2, <2>1 DEF JoinOf
<1> HIDE DEF head
<1>4. Len(id) \in Nat /\ Len(t) \in Nat /\ DOMAIN t = 1..Len(t)  BY <1>2, <1>3
<1>5. Ids!Plain(id) => Ids!FeedOf(t) = {id}
  <2> SUFFICES ASSUME Ids!Plain(id) PROVE Ids!FeedOf(t) = {id}  OBVIOUS
  <2> DEFINE slashes == {i \in DOMAIN t : t[i] = "/"}
  <2>1. slashes \subseteq Nat /\ 7 \in slashes  BY <1>2, <1>3, <1>4
  <2>2. ASSUME NEW i \in slashes PROVE i <= 7
    <3> SUFFICES ASSUME i > 7 PROVE FALSE  BY <2>1
    <3>1. i - 7 \in 1..Len(id) /\ 7 + (i - 7) = i  BY <1>3, <1>4
    <3> QED BY <1>3, <3>1, IdsContains DEF Ids!Plain, Contains
  <2>3. Max(slashes) = 7
    <3> HIDE DEF slashes
    <3> QED BY <2>1, <2>2, MaxIs
  <2>4. SubSeq(t, 7 + 1, Len(t)) = id
    <3>1. SubSeq(t, 7 + 1, 7 + Len(id)) = id  BY <1>2, <1>3, <1>4, PartIsText
    <3> QED BY <1>3, <3>1
  <2>5. Ids!FeedOf(t) = {f \in TxtFeeds : f = id}
    BY <2>1, <2>3, <2>4, IdsMax DEF Ids!FeedOf
  <2> QED BY <2>5
<1>6. Ids!Clamped(limit) \in 1..TxtMaxLimit  BY TextsAssumption DEF Ids!Clamped
<1>7. txtJob' = [kind |-> "feed", id |-> id, limit |-> Ids!Clamped(limit)] /\ txtBack' = Ids!FeedOf(t)
  BY <1>1 DEF Ids!WriteFeed, Ids!FeedUri, head
<1> QED BY <1>5, <1>6, <1>7 DEF Ids!ReadsBack

-----------------------------------------------------------------------------

\* What is written is read back as it was.
LEMMA TextsReadBack == Ids!Spec => []Ids!ReadsBack
<1>1. Ids!Init => Ids!ReadsBack  BY DEF Ids!Init, Ids!ReadsBack
<1>2. Ids!ReadsBack /\ [Ids!Next]_(Ids!vars) => Ids!ReadsBack'
  <2> SUFFICES ASSUME Ids!ReadsBack, [Ids!Next]_(Ids!vars) PROVE Ids!ReadsBack'  OBVIOUS
  <2>1. CASE UNCHANGED Ids!vars  BY <2>1 DEF Ids!vars, Ids!ReadsBack
  <2> QED BY <2>1, TidsReadBack, UrisReadBack, CursorsReadBack, FeedsReadBack DEF Ids!Next
<1> QED BY <1>1, <1>2, PTL DEF Ids!Spec

LEMMA IdsSteps == DataSpec => Ids!Spec
<1>1. DataInit => Ids!Init  BY DEF DataInit, DataInitAt
<1>2. [DataNext]_dataVars => [Ids!Next]_(Ids!vars)
  BY DEF DataNext, dataVars, txtVars, blobVars, evVars, carVars, Ids!vars
<1> QED BY <1>1, <1>2, PTL DEF DataSpec, Ids!Spec

-----------------------------------------------------------------------------
(* BlobStore: the inductive invariant *)

Stages == {"begin", "open", "write", "remove", "done"}

Answers == {"none", "ok", "error", "not found", "cut", "whole", "yes", "no"}

Operation ==
    [op : {"none", "put", "get", "exists", "delete"}, blob : BlobBlobs \cup {"none"}, at : Stages,
     answer : Answers,
     late : BOOLEAN]

BlobTypes ==
    /\ blobBackend \in {"file", "s3"}
    /\ blobContent \in [BlobBlobs -> {"absent", "cut", "whole"}]
    /\ blobWriter \in [BlobBlobs -> SUBSET BlobClients]
    /\ blobCall \in [BlobClients -> Operation]
    /\ blobOwed \in SUBSET BlobBlobs
    /\ blobFaults \in Nat
    /\ blobClashed \in BOOLEAN

\* An operation is on a blob; only a put on a file is seen opening or writing it.
UnderWay(x) ==
    x.at # "done" =>
        /\ x.blob \in BlobBlobs
        /\ x.at = "open" \/ x.at = "write" => x.op = "put" /\ blobBackend = "file"
        /\ x.at = "remove" => x.op = "delete"

Deleting(x) == x.op = "delete" /\ (x.at = "begin" \/ x.at = "remove")

\* A deletion that is under way keeps every put from promising its blob.
DeletionsAreHeard ==
    \A e \in BlobClients : Deleting(blobCall[e]) =>
        /\ blobCall[e].blob \notin blobOwed
        /\ \A c \in BlobClients :
               blobCall[c].op = "put" /\ blobCall[c].blob = blobCall[e].blob /\ blobCall[c].at # "done" =>
                       blobCall[c].late

\* A file is cut short only while the last one to truncate it writes it.
CutIsWritten ==
    /\ blobBackend = "s3" => \A b \in BlobBlobs : blobContent[b] # "cut"
    /\ \A b \in BlobBlobs : blobContent[b] = "cut" =>
           \E c \in Blob!Writing : blobWriter[b] = {c} /\ blobCall[c].blob = b

\* What is owed, or is to be, is there.
OwedIsThere ==
    /\ \A b \in blobOwed : blobContent[b] # "absent"
    /\ \A c \in Blob!Writing : ~blobCall[c].late => blobContent[blobCall[c].blob] # "absent"

AnswersAreWhole == ~blobClashed => \A c \in BlobClients : blobCall[c].answer # "cut"

BlobInv ==
    /\ BlobTypes
    /\ \A c \in BlobClients : UnderWay(blobCall[c])
    /\ DeletionsAreHeard
    /\ blobFaults = 0 \/ blobBackend = "s3" => CutIsWritten /\ OwedIsThere /\ AnswersAreWhole

LEMMA BlobInit == Blob!Init => BlobInv
<1> SUFFICES ASSUME Blob!Init PROVE BlobInv  OBVIOUS
<1>1. Blob!Idle \in Operation  BY DEF Blob!Idle, Operation, Stages, Answers
<1>2. BlobTypes
  <2>1. blobWriter \in [BlobBlobs -> SUBSET BlobClients]  BY DEF Blob!Init
  <2>2. blobContent \in [BlobBlobs -> {"absent", "cut", "whole"}]  BY DEF Blob!Init
  <2>3. blobCall \in [BlobClients -> Operation]  BY <1>1 DEF Blob!Init
  <2> QED BY <2>1, <2>2, <2>3 DEF Blob!Init, BlobTypes
<1>3. \A c \in BlobClients : blobCall[c] = Blob!Idle  BY DEF Blob!Init
<1>4. Blob!Idle.at = "done" /\ Blob!Idle.op = "none" /\ Blob!Idle.answer = "none"
  BY DEF Blob!Idle
<1>5. \A c \in BlobClients : UnderWay(blobCall[c])  BY <1>3, <1>4 DEF UnderWay
<1>6. DeletionsAreHeard  BY <1>3, <1>4 DEF DeletionsAreHeard, Deleting
<1>7. CutIsWritten  BY DEF Blob!Init, CutIsWritten
<1>8. OwedIsThere /\ AnswersAreWhole
  BY <1>3, <1>4 DEF Blob!Init, OwedIsThere, AnswersAreWhole, Blob!Writing, Blob!At
<1> QED BY <1>2, <1>5, <1>6, <1>7, <1>8 DEF BlobInv

\* What a client's step makes of its operation.
LEMMA Moved ==
    ASSUME BlobTypes, NEW c \in BlobClients, NEW at, Blob!Goto(c, at)
    PROVE  /\ blobCall'[c] = [blobCall[c] EXCEPT !.at = at]
           /\ blobCall'[c].op = blobCall[c].op /\ blobCall'[c].blob = blobCall[c].blob /\ blobCall'[c].at = at
           /\ blobCall'[c].answer = blobCall[c].answer /\ blobCall'[c].late = blobCall[c].late
           /\ \A d \in BlobClients : d # c => blobCall'[d] = blobCall[d]
           /\ at \in Stages => blobCall' \in [BlobClients -> Operation]
BY DEF BlobTypes, Blob!Goto, Operation

LEMMA Returned ==
    ASSUME BlobTypes, NEW c \in BlobClients, NEW answer, Blob!Return(c, answer)
    PROVE  /\ blobCall'[c].op = blobCall[c].op /\ blobCall'[c].blob = blobCall[c].blob /\ blobCall'[c].at = "done"
           /\ blobCall'[c].answer = answer /\ blobCall'[c].late = blobCall[c].late
           /\ \A d \in BlobClients : d # c => blobCall'[d] = blobCall[d]
           /\ answer \in Answers
                  => blobCall' \in [BlobClients -> Operation]
<1>1. blobCall' = [blobCall EXCEPT ![c] = [blobCall[c] EXCEPT !.at = "done", !.answer = answer]]
  BY DEF Blob!Return, BlobTypes
<1>2. PICK x : x = [blobCall[c] EXCEPT !.at = "done", !.answer = answer]  OBVIOUS
<1>3. /\ x.op = blobCall[c].op /\ x.blob = blobCall[c].blob /\ x.at = "done" /\ x.answer = answer
      /\ x.late = blobCall[c].late
      /\ answer \in Answers
             => x \in Operation
  BY <1>2 DEF BlobTypes, Operation, Stages
<1>4. blobCall \in [BlobClients -> Operation]  BY DEF BlobTypes
<1>5. blobCall' = [blobCall EXCEPT ![c] = x]  BY <1>1, <1>2
<1>6. blobCall'[c] = x /\ \A d \in BlobClients : d # c => blobCall'[d] = blobCall[d]
  BY <1>4, <1>5
<1>7. x \in Operation => blobCall' \in [BlobClients -> Operation]  BY <1>4, <1>5
<1> QED BY <1>3, <1>6, <1>7

\* A step that lets an operation go on, or return, is no deletion's beginning.
LEMMA DeletionsStayHeard ==
    ASSUME BlobInv, NEW c \in BlobClients, blobCall' \in [BlobClients -> Operation],
           blobCall'[c].op = blobCall[c].op, blobCall'[c].blob = blobCall[c].blob, blobCall'[c].late = blobCall[c].late,
           \A d \in BlobClients : d # c => blobCall'[d] = blobCall[d],
           blobCall[c].at # "done", Deleting(blobCall'[c]) => Deleting(blobCall[c]),
           UnderWay(blobCall'[c]), UNCHANGED blobBackend,
           blobOwed' = blobOwed \/ (blobOwed' = Blob!Promised(c) /\ blobCall[c].op = "put")
    PROVE  (\A d \in BlobClients : UnderWay(blobCall[d]))' /\ DeletionsAreHeard'
BY DEF BlobInv, UnderWay, DeletionsAreHeard, Blob!Promised, Deleting

\* An operation returns that does not write the file, while blobs stay as they are.
LEMMA ReturnKeeps ==
    ASSUME BlobInv, NEW c \in BlobClients, NEW answer \in Answers, Blob!Return(c, answer),
           blobCall[c].at = "begin", answer = "cut" => blobClashed',
           UNCHANGED <<blobBackend, blobContent, blobWriter>>, blobClashed' \in BOOLEAN,
           blobFaults' \in Nat, blobFaults' = 0 => blobFaults = 0,
           blobClashed => blobClashed',
           blobOwed' = blobOwed \/ (blobOwed' = Blob!Promised(c) /\ blobCall[c].op = "put" /\ blobContent[blobCall[c].blob] # "absent")
    PROVE  BlobInv'
<1>1. /\ blobCall'[c].op = blobCall[c].op /\ blobCall'[c].blob = blobCall[c].blob /\ blobCall'[c].at = "done"
      /\ blobCall'[c].answer = answer /\ blobCall'[c].late = blobCall[c].late
      /\ \A d \in BlobClients : d # c => blobCall'[d] = blobCall[d]
      /\ blobCall' \in [BlobClients -> Operation]
  BY Returned DEF BlobInv
<1>2. UnderWay(blobCall'[c])  BY <1>1 DEF UnderWay
<1>3. (\A d \in BlobClients : UnderWay(blobCall[d]))' /\ DeletionsAreHeard'
  BY <1>1, <1>2, DeletionsStayHeard DEF Deleting
<1>4. BlobTypes'
  <2>1. blobCall[c].blob \in BlobBlobs  BY DEF BlobInv, UnderWay
  <2>2. blobOwed' \in SUBSET BlobBlobs  BY <2>1 DEF BlobInv, BlobTypes, Blob!Promised
  <2> QED BY <1>1, <2>2 DEF BlobInv, BlobTypes
<1>5. Blob!Writing' = Blob!Writing  BY <1>1 DEF Blob!Writing, Blob!At
<1>6. ASSUME blobFaults' = 0 \/ blobBackend = "s3" PROVE CutIsWritten' /\ OwedIsThere' /\ AnswersAreWhole'
  <2>0. CutIsWritten /\ OwedIsThere /\ AnswersAreWhole  BY <1>6 DEF BlobInv
  <2>1. \A d \in Blob!Writing : d \in BlobClients /\ d # c  BY DEF Blob!Writing, Blob!At
  <2>2. CutIsWritten'  BY <1>1, <1>5, <2>0, <2>1 DEF CutIsWritten
  <2>3. OwedIsThere'  BY <1>1, <1>5, <2>0, <2>1 DEF OwedIsThere, Blob!Promised
  <2>4. AnswersAreWhole'  BY <1>1, <2>0 DEF AnswersAreWhole
  <2> QED BY <2>2, <2>3, <2>4
<1> QED BY <1>3, <1>4, <1>6 DEF BlobInv

\* An operation goes on that has not written anything yet.
LEMMA GoesOn ==
    ASSUME BlobInv, NEW c \in BlobClients, NEW at \in {"open", "remove"}, Blob!Goto(c, at),
           blobCall[c].at = "begin", blobBackend = "file",
           at = "open" => blobCall[c].op = "put", at = "remove" => blobCall[c].op = "delete",
           UNCHANGED <<blobBackend, blobContent, blobWriter, blobOwed, blobFaults, blobClashed>>
    PROVE  BlobInv'
<1>1. /\ blobCall'[c].op = blobCall[c].op /\ blobCall'[c].blob = blobCall[c].blob /\ blobCall'[c].at = at
      /\ blobCall'[c].answer = blobCall[c].answer /\ blobCall'[c].late = blobCall[c].late
      /\ \A d \in BlobClients : d # c => blobCall'[d] = blobCall[d]
      /\ blobCall' \in [BlobClients -> Operation]
  BY Moved DEF BlobInv, Stages
<1>2. UnderWay(blobCall'[c])  BY <1>1 DEF BlobInv, UnderWay
<1>3. (\A d \in BlobClients : UnderWay(blobCall[d]))' /\ DeletionsAreHeard'
  BY <1>1, <1>2, DeletionsStayHeard DEF Deleting
<1>4. BlobTypes'  BY <1>1 DEF BlobInv, BlobTypes
<1>5. Blob!Writing' = Blob!Writing  BY <1>1 DEF Blob!Writing, Blob!At
<1>6. ASSUME blobFaults = 0 \/ blobBackend = "s3" PROVE CutIsWritten' /\ OwedIsThere' /\ AnswersAreWhole'
  <2>0. CutIsWritten /\ OwedIsThere /\ AnswersAreWhole  BY <1>6 DEF BlobInv
  <2>1. \A d \in Blob!Writing : d \in BlobClients /\ d # c  BY DEF Blob!Writing, Blob!At
  <2>2. CutIsWritten'  BY <1>1, <1>5, <2>0, <2>1 DEF CutIsWritten
  <2>3. OwedIsThere'  BY <1>1, <1>5, <2>0, <2>1 DEF OwedIsThere
  <2>4. AnswersAreWhole'  BY <1>1, <2>0 DEF AnswersAreWhole
  <2> QED BY <2>2, <2>3, <2>4
<1> QED BY <1>3, <1>4, <1>6 DEF BlobInv

\* A put of S3 stores the blob, a deletion removes it, each as a whole.
LEMMA ObjectStored ==
    ASSUME BlobInv, NEW c \in BlobClients, NEW answer \in {"ok", "error"}, Blob!Return(c, answer),
           blobBackend = "s3", blobCall[c].at = "begin", UNCHANGED <<blobBackend, blobWriter, blobClashed>>,
           blobFaults' \in Nat,
           \/ /\ blobCall[c].op = "put" /\ blobContent' = [blobContent EXCEPT ![blobCall[c].blob] = "whole"]
              /\ blobOwed' = blobOwed \/ blobOwed' = Blob!Promised(c)
           \/ /\ blobCall[c].op = "delete" /\ blobContent' = [blobContent EXCEPT ![blobCall[c].blob] = "absent"]
              /\ blobOwed' = blobOwed
    PROVE  BlobInv'
<1>1. /\ blobCall'[c].op = blobCall[c].op /\ blobCall'[c].blob = blobCall[c].blob /\ blobCall'[c].at = "done"
      /\ blobCall'[c].answer = answer /\ blobCall'[c].late = blobCall[c].late
      /\ \A d \in BlobClients : d # c => blobCall'[d] = blobCall[d]
      /\ blobCall' \in [BlobClients -> Operation]
  BY Returned DEF BlobInv, Answers
<1>2. UnderWay(blobCall'[c])  BY <1>1 DEF UnderWay
<1>3. (\A d \in BlobClients : UnderWay(blobCall[d]))' /\ DeletionsAreHeard'
  BY <1>1, <1>2, DeletionsStayHeard DEF Deleting
<1>4. blobCall[c].blob \in BlobBlobs  BY DEF BlobInv, UnderWay
<1>5. BlobTypes'
  <2>1. blobOwed' \in SUBSET BlobBlobs  BY <1>4 DEF BlobInv, BlobTypes, Blob!Promised
  <2>2. blobContent' \in [BlobBlobs -> {"absent", "cut", "whole"}]
    BY <1>4 DEF BlobInv, BlobTypes
  <2> QED BY <1>1, <2>1, <2>2 DEF BlobInv, BlobTypes
<1>6. Blob!Writing = {} /\ Blob!Writing' = {}
  <2>1. \A d \in BlobClients : UnderWay(blobCall[d])  BY DEF BlobInv
  <2>2. \A d \in BlobClients : blobCall[d].at # "write"  BY <2>1 DEF UnderWay
  <2>3. \A d \in BlobClients : blobCall'[d].at # "write"  BY <1>1, <2>2
  <2> QED BY <2>2, <2>3 DEF Blob!Writing, Blob!At
<1>7. CutIsWritten /\ OwedIsThere /\ AnswersAreWhole  BY DEF BlobInv
<1>8. \A b \in BlobBlobs : blobContent'[b] = IF b = blobCall[c].blob
                                             THEN IF blobCall[c].op = "put" THEN "whole" ELSE "absent"
                                             ELSE blobContent[b]
  BY DEF BlobInv, BlobTypes
<1>9. CutIsWritten'  BY <1>6, <1>7, <1>8 DEF CutIsWritten
<1>10. OwedIsThere'
  <2>1. CASE blobCall[c].op = "put"
    BY <1>4, <1>6, <1>7, <1>8, <2>1 DEF OwedIsThere, Blob!Promised, BlobInv, BlobTypes
  <2>2. CASE blobCall[c].op = "delete"
    <3>1. blobCall[c].blob \notin blobOwed  BY <2>2 DEF BlobInv, DeletionsAreHeard, Deleting
    <3> QED BY <1>6, <1>7, <1>8, <2>2, <3>1 DEF OwedIsThere, BlobInv, BlobTypes
  <2> QED BY <2>1, <2>2
<1>11. AnswersAreWhole'  BY <1>1, <1>7 DEF AnswersAreWhole
<1> QED BY <1>3, <1>5, <1>9, <1>10, <1>11 DEF BlobInv

LEMMA BlobNext == BlobInv /\ [Blob!Next]_(Blob!vars) => BlobInv'
<1> SUFFICES ASSUME BlobInv, [Blob!Next]_(Blob!vars) PROVE BlobInv'  OBVIOUS
<1> USE DEF Blob!At
<1>1. ASSUME NEW c \in BlobClients, NEW op \in {"put", "get", "exists", "delete"}, NEW b \in BlobBlobs,
             Blob!Begin(c, op, b)
      PROVE  BlobInv'
  <2> DEFINE Late == \E e \in BlobClients : Deleting(blobCall[e]) /\ blobCall[e].blob = b
  <2>1. /\ blobCall'[c].op = op /\ blobCall'[c].blob = b /\ blobCall'[c].at = "begin"
        /\ blobCall'[c].answer = "none" /\ blobCall'[c].late = Late
        /\ blobCall'[c] \in Operation
    <3>1. blobCall'[c] = [op |-> op, blob |-> b, at |-> "begin", answer |-> "none", late |-> Late]
      BY <1>1 DEF Blob!Begin, Deleting
    <3>2. Late \in BOOLEAN  OBVIOUS
    <3> HIDE DEF Late
    <3> QED BY <3>1, <3>2 DEF Operation, Stages, Answers
  <2>2. ASSUME NEW d \in BlobClients, d # c
        PROVE  /\ blobCall'[d].op = blobCall[d].op /\ blobCall'[d].blob = blobCall[d].blob
               /\ blobCall'[d].at = blobCall[d].at /\ blobCall'[d].answer = blobCall[d].answer
               /\ blobCall'[d].late \in BOOLEAN /\ blobCall[d].late => blobCall'[d].late
               /\ op = "delete" /\ blobCall[d].blob = b => blobCall'[d].late
               /\ blobCall'[d] \in Operation
    <3>1. blobCall'[d] = IF op = "delete" /\ blobCall[d].blob = b THEN [blobCall[d] EXCEPT !.late = TRUE]
                         ELSE blobCall[d]
      BY <1>1, <2>2 DEF Blob!Begin
    <3>2. blobCall[d] \in Operation  BY DEF BlobInv, BlobTypes
    <3> QED BY <3>1, <3>2 DEF Operation
  <2>3. blobCall' = [d \in BlobClients |-> blobCall'[d]]  BY <1>1 DEF Blob!Begin
  <2>4. blobCall' \in [BlobClients -> Operation]  BY <2>1, <2>2, <2>3
  <2>5. BlobTypes'  BY <1>1, <2>4 DEF Blob!Begin, BlobInv, BlobTypes
  <2>6. \A d \in BlobClients : UnderWay(blobCall[d])'
    BY <1>1, <2>1, <2>2 DEF Blob!Begin, BlobInv, UnderWay
  <2>7. DeletionsAreHeard'
    BY <1>1, <2>1, <2>2, SMTT(30) DEF Blob!Begin, BlobInv, DeletionsAreHeard, Deleting
  <2>8. Blob!Writing' = Blob!Writing
    <3>1. blobCall[c].at = "done" /\ blobCall'[c].at = "begin"  BY <1>1, <2>1 DEF Blob!Begin
    <3>2. \A d \in BlobClients : blobCall'[d].op = "put" /\ blobCall'[d].at = "write" <=>
                                blobCall[d].op = "put" /\ blobCall[d].at = "write"
      BY <2>2, <3>1
    <3> QED BY <3>2 DEF Blob!Writing, Blob!At
  <2>9. ASSUME blobFaults = 0 \/ blobBackend = "s3" PROVE CutIsWritten' /\ OwedIsThere' /\ AnswersAreWhole'
    <3>0. CutIsWritten /\ OwedIsThere /\ AnswersAreWhole  BY <2>9 DEF BlobInv
    <3>1. \A d \in Blob!Writing : d \in BlobClients /\ d # c
      BY <1>1 DEF Blob!Writing, Blob!Begin
    <3>2. CutIsWritten'
      <4>1. UNCHANGED <<blobBackend, blobContent, blobWriter>>  BY <1>1 DEF Blob!Begin
      <4>2. \A d \in Blob!Writing : blobCall'[d].blob = blobCall[d].blob  BY <2>2, <3>1
      <4> QED BY <2>8, <3>0, <4>1, <4>2 DEF CutIsWritten
    <3>3. OwedIsThere'  BY <1>1, <2>2, <2>8, <3>0, <3>1 DEF OwedIsThere, Blob!Begin
    <3>4. AnswersAreWhole'  BY <1>1, <2>1, <2>2, <3>0 DEF AnswersAreWhole, Blob!Begin
    <3> QED BY <3>2, <3>3, <3>4
  <2> QED BY <1>1, <2>5, <2>6, <2>7, <2>9 DEF BlobInv, Blob!Begin
<1>2. ASSUME NEW c \in BlobClients, Blob!FindFile(c) PROVE BlobInv'
  <2>1. CASE blobContent[blobCall[c].blob] = "absent"
    BY <1>2, <2>1, GoesOn DEF Blob!FindFile
  <2>2. CASE blobContent[blobCall[c].blob] # "absent"
    BY <1>2, <2>2, ReturnKeeps DEF Blob!FindFile, Answers, BlobInv, BlobTypes
  <2> QED BY <2>1, <2>2
<1>3. ASSUME NEW c \in BlobClients, Blob!Truncate(c) PROVE BlobInv'
  <2> DEFINE b == blobCall[c].blob
  <2>1. /\ blobCall'[c].op = "put" /\ blobCall'[c].blob = b /\ blobCall'[c].at = "write"
        /\ blobCall'[c].answer = blobCall[c].answer /\ blobCall'[c].late = blobCall[c].late
        /\ \A d \in BlobClients : d # c => blobCall'[d] = blobCall[d]
        /\ blobCall' \in [BlobClients -> Operation]
    BY <1>3, Moved DEF Blob!Truncate, BlobInv, Stages
  <2>2. blobBackend = "file" /\ b \in BlobBlobs /\ blobCall[c].at = "open" /\ blobCall[c].op = "put"
    BY <1>3 DEF Blob!Truncate, BlobInv, UnderWay
  <2>3. UnderWay(blobCall'[c])  BY <2>1, <2>2 DEF UnderWay
  <2>4. (\A d \in BlobClients : UnderWay(blobCall[d]))' /\ DeletionsAreHeard'
    BY <1>3, <2>1, <2>2, <2>3, DeletionsStayHeard DEF Deleting, Blob!Truncate
  <2>9. BlobTypes'
    <3>1. blobWriter' \in [BlobBlobs -> SUBSET BlobClients]
      BY <1>3 DEF Blob!Truncate, BlobInv, BlobTypes
    <3>2. blobContent' \in [BlobBlobs -> {"absent", "cut", "whole"}]
      BY <1>3 DEF Blob!Truncate, BlobInv, BlobTypes
    <3> QED BY <1>3, <2>1, <3>1, <3>2 DEF Blob!Truncate, BlobInv, BlobTypes
  <2>10. ASSUME blobFaults = 0 \/ blobBackend = "s3"
         PROVE  CutIsWritten' /\ OwedIsThere' /\ AnswersAreWhole'
    <3>0. CutIsWritten /\ OwedIsThere /\ AnswersAreWhole  BY <2>10 DEF BlobInv
    <3>1. Blob!Writing' = Blob!Writing \cup {c}  BY <2>1 DEF Blob!Writing
    <3>2. \A d \in Blob!Writing : d \in BlobClients /\ d # c  BY <2>2 DEF Blob!Writing
    <3>3. \A k \in BlobBlobs : /\ blobContent'[k] = IF k = b THEN "cut" ELSE blobContent[k]
                               /\ blobWriter'[k] = IF k = b THEN {c} ELSE blobWriter[k]
      BY <1>3 DEF Blob!Truncate, BlobInv, BlobTypes
    <3>4. CutIsWritten'
      <4>1. blobBackend' = "file"  BY <1>3, <2>2 DEF Blob!Truncate
      <4>2. ASSUME NEW k \in BlobBlobs, blobContent'[k] = "cut"
            PROVE  \E d \in Blob!Writing' : blobWriter'[k] = {d} /\ blobCall'[d].blob = k
        <5>1. CASE k = b  BY <2>1, <3>1, <3>3, <5>1
        <5>2. CASE k # b  BY <2>1, <3>0, <3>1, <3>2, <3>3, <4>2, <5>2 DEF CutIsWritten
        <5> QED BY <5>1, <5>2
      <4> QED BY <4>1, <4>2 DEF CutIsWritten
    <3>5. OwedIsThere'
      <4>1. blobOwed' = blobOwed /\ \A k \in blobOwed : k \in BlobBlobs
        BY <1>3 DEF Blob!Truncate, BlobInv, BlobTypes
      <4>2. \A d \in Blob!Writing' : blobCall'[d].blob \in BlobBlobs
        BY <2>4 DEF UnderWay, Blob!Writing
      <4>3. ASSUME NEW d \in Blob!Writing', ~blobCall'[d].late PROVE blobContent'[blobCall'[d].blob] # "absent"
        BY <2>1, <3>0, <3>1, <3>2, <3>3, <4>2, <4>3 DEF OwedIsThere
      <4> QED BY <3>0, <3>3, <4>1, <4>3 DEF OwedIsThere
    <3>6. AnswersAreWhole'  BY <1>3, <2>1, <3>0 DEF Blob!Truncate, AnswersAreWhole
    <3> QED BY <3>4, <3>5, <3>6
  <2> QED BY <1>3, <2>4, <2>9, <2>10 DEF Blob!Truncate, BlobInv
<1>4. ASSUME NEW c \in BlobClients, Blob!Write(c) PROVE BlobInv'
  <2> DEFINE b == blobCall[c].blob
  <2>1. /\ blobCall'[c].op = "put" /\ blobCall'[c].blob = b /\ blobCall'[c].at = "done"
        /\ blobCall'[c].answer = "ok" /\ blobCall'[c].late = blobCall[c].late
        /\ \A d \in BlobClients : d # c => blobCall'[d] = blobCall[d]
        /\ blobCall' \in [BlobClients -> Operation]
    BY <1>4, Returned DEF Blob!Write, BlobInv, Answers
  <2>2. b \in BlobBlobs /\ blobCall[c].at = "write" /\ blobCall[c].op = "put" /\ blobBackend = "file"
    BY <1>4 DEF Blob!Write, BlobInv, UnderWay
  <2>3. UnderWay(blobCall'[c])  BY <2>1 DEF UnderWay
  <2>4. (\A d \in BlobClients : UnderWay(blobCall[d]))' /\ DeletionsAreHeard'
    BY <1>4, <2>1, <2>2, <2>3, DeletionsStayHeard DEF Deleting, Blob!Write
  <2>5. BlobTypes'
    <3>1. blobOwed' \in SUBSET BlobBlobs
      BY <1>4, <2>2 DEF Blob!Write, BlobInv, BlobTypes, Blob!Promised
    <3>2. blobContent' \in [BlobBlobs -> {"absent", "cut", "whole"}]
      BY <1>4 DEF Blob!Write, BlobInv, BlobTypes
    <3> QED BY <1>4, <2>1, <3>1, <3>2 DEF Blob!Write, BlobInv, BlobTypes
  <2>6. ASSUME blobFaults = 0 \/ blobBackend = "s3"
        PROVE  CutIsWritten' /\ OwedIsThere' /\ AnswersAreWhole'
    <3>0. CutIsWritten /\ OwedIsThere /\ AnswersAreWhole  BY <2>6 DEF BlobInv
    <3>1. Blob!Writing' = Blob!Writing \ {c} /\ c \in Blob!Writing
      BY <2>1, <2>2 DEF Blob!Writing
    <3>2. \A k \in BlobBlobs : k # b => blobContent'[k] = blobContent[k]
      BY <1>4 DEF Blob!Write, BlobInv, BlobTypes
    <3>3. /\ blobContent'[b] = blobContent[b] \/ blobContent'[b] = "whole"
          /\ blobContent[b] = "cut" /\ blobWriter[b] = {c} => blobContent'[b] = "whole"
      BY <1>4, <2>2, <3>0 DEF Blob!Write, BlobInv, BlobTypes, CutIsWritten
    <3>4. CutIsWritten'
      <4>1. blobBackend' = "file" /\ blobWriter' = blobWriter  BY <1>4, <2>2 DEF Blob!Write
      <4>2. ASSUME NEW k \in BlobBlobs, blobContent'[k] = "cut"
            PROVE  \E d \in Blob!Writing' : blobWriter'[k] = {d} /\ blobCall'[d].blob = k
        <5>1. blobContent[k] = "cut"  BY <3>2, <3>3, <4>2
        <5>2. PICK d \in Blob!Writing : blobWriter[k] = {d} /\ blobCall[d].blob = k
          BY <3>0, <5>1 DEF CutIsWritten
        <5>3. d # c  BY <3>3, <4>2, <5>1, <5>2
        <5>4. d \in BlobClients  BY DEF Blob!Writing
        <5> QED BY <2>1, <3>1, <4>1, <5>2, <5>3, <5>4
      <4> QED BY <4>1, <4>2 DEF CutIsWritten
    <3>5. OwedIsThere'
      <4>1. \A k \in BlobBlobs : blobContent[k] # "absent" => blobContent'[k] # "absent"
        BY <3>2, <3>3
      <4>2. \A k \in blobOwed' : k \in BlobBlobs /\ blobContent[k] # "absent"
        BY <1>4, <2>2, <3>0, <3>1 DEF Blob!Write, Blob!Promised, OwedIsThere, BlobInv,
           BlobTypes
      <4>3. \A d \in Blob!Writing' : d \in BlobClients /\ d \in Blob!Writing /\ d # c /\ blobCall'[d].blob \in BlobBlobs
        BY <2>4, <3>1 DEF UnderWay, Blob!Writing
      <4>4. ASSUME NEW d \in Blob!Writing', ~blobCall'[d].late PROVE blobContent'[blobCall'[d].blob] # "absent"
        BY <2>1, <3>0, <4>1, <4>3, <4>4 DEF OwedIsThere
      <4> QED BY <4>1, <4>2, <4>4 DEF OwedIsThere
    <3>6. AnswersAreWhole'  BY <1>4, <2>1, <3>0 DEF Blob!Write, AnswersAreWhole
    <3> QED BY <3>4, <3>5, <3>6
  <2> QED BY <1>4, <2>4, <2>5, <2>6 DEF Blob!Write, BlobInv
<1>5. ASSUME NEW c \in BlobClients, Blob!WriteFails(c) PROVE BlobInv'
  <2>1. /\ blobCall'[c].op = blobCall[c].op /\ blobCall'[c].blob = blobCall[c].blob /\ blobCall'[c].at = "done"
        /\ blobCall'[c].answer = "error" /\ blobCall'[c].late = blobCall[c].late
        /\ \A d \in BlobClients : d # c => blobCall'[d] = blobCall[d]
        /\ blobCall' \in [BlobClients -> Operation]
    BY <1>5, Returned DEF Blob!WriteFails, BlobInv, Answers
  <2>2. UnderWay(blobCall'[c])  BY <2>1 DEF UnderWay
  <2>3. (\A d \in BlobClients : UnderWay(blobCall[d]))' /\ DeletionsAreHeard'
    BY <1>5, <2>1, <2>2, DeletionsStayHeard DEF Deleting, Blob!WriteFails
  <2>4. blobBackend' = "file"  BY <1>5 DEF Blob!WriteFails, BlobInv, UnderWay
  <2>5. blobFaults' \in Nat /\ blobFaults' # 0
    BY <1>5 DEF Blob!WriteFails, BlobInv, BlobTypes
  <2>6. BlobTypes'  BY <1>5, <2>1, <2>5 DEF Blob!WriteFails, BlobInv, BlobTypes
  <2> QED BY <2>3, <2>4, <2>5, <2>6 DEF BlobInv
<1>6. ASSUME NEW c \in BlobClients, Blob!ReadFile(c) PROVE BlobInv'
  <2> DEFINE b == blobCall[c].blob
             answer == IF blobContent[b] = "absent" THEN "not found" ELSE blobContent[b]
  <2>1. b \in BlobBlobs  BY <1>6 DEF Blob!ReadFile, BlobInv, UnderWay
  <2>2. answer \in Answers  BY <2>1 DEF BlobInv, BlobTypes, Answers
  <2>3. CASE blobClashed' \/ answer # "cut"
    <3>1. /\ blobClashed' \in BOOLEAN /\ (blobClashed => blobClashed')
          /\ blobFaults' \in Nat /\ (blobFaults' = 0 => blobFaults = 0)
      BY <1>6 DEF Blob!ReadFile, BlobInv, BlobTypes
    <3>2. /\ Blob!Return(c, answer) /\ blobCall[c].at = "begin" /\ UNCHANGED <<blobBackend, blobContent, blobWriter>>
          /\ blobOwed' = blobOwed
      BY <1>6 DEF Blob!ReadFile
    <3> HIDE DEF answer
    <3> QED BY <2>2, <2>3, <3>1, <3>2, ReturnKeeps
  <2>4. CASE answer = "cut" /\ ~blobClashed'
    <3>1. ~CutIsWritten  BY <1>6, <2>1, <2>4 DEF Blob!ReadFile, CutIsWritten
    <3>2. blobBackend' = "file" /\ blobFaults' = blobFaults /\ blobFaults # 0
      BY <1>6, <3>1 DEF Blob!ReadFile, BlobInv
    <3>3. /\ blobCall'[c].op = blobCall[c].op /\ blobCall'[c].blob = blobCall[c].blob /\ blobCall'[c].at = "done"
          /\ blobCall'[c].answer = "cut" /\ blobCall'[c].late = blobCall[c].late
          /\ \A d \in BlobClients : d # c => blobCall'[d] = blobCall[d]
          /\ blobCall' \in [BlobClients -> Operation]
      <4>1. Blob!Return(c, answer) /\ BlobTypes  BY <1>6 DEF Blob!ReadFile, BlobInv
      <4> HIDE DEF answer
      <4> QED BY <2>2, <2>4, <4>1, Returned
    <3>4. UnderWay(blobCall'[c])  BY <3>3 DEF UnderWay
    <3>5. (\A d \in BlobClients : UnderWay(blobCall[d]))' /\ DeletionsAreHeard'
      BY <1>6, <3>3, <3>4, DeletionsStayHeard DEF Deleting, Blob!ReadFile
    <3>6. BlobTypes'  BY <1>6, <3>3 DEF Blob!ReadFile, BlobInv, BlobTypes
    <3> QED BY <3>2, <3>5, <3>6 DEF BlobInv
  <2> QED BY <2>3, <2>4
<1>7. ASSUME NEW c \in BlobClients, Blob!LookUpFile(c) \/ Blob!HeadObject(c) PROVE BlobInv'
  <2>1. PICK answer \in {"no", "yes"} : Blob!Return(c, answer)
    BY <1>7 DEF Blob!LookUpFile, Blob!HeadObject
  <2>2. answer \in Answers /\ answer # "cut"  BY DEF Answers
  <2>3. blobCall[c].at = "begin" /\ UNCHANGED <<blobBackend, blobContent, blobWriter, blobOwed, blobFaults, blobClashed>>
    BY <1>7 DEF Blob!LookUpFile, Blob!HeadObject
  <2> QED BY <2>1, <2>2, <2>3, ReturnKeeps DEF BlobInv, BlobTypes
<1>8. ASSUME NEW c \in BlobClients, Blob!FindFileToRemove(c) PROVE BlobInv'
  <2>1. CASE blobContent[blobCall[c].blob] = "absent"
    BY <1>8, <2>1, ReturnKeeps DEF Blob!FindFileToRemove, Answers, BlobInv, BlobTypes
  <2>2. CASE blobContent[blobCall[c].blob] # "absent"
    BY <1>8, <2>2, GoesOn DEF Blob!FindFileToRemove
  <2> QED BY <2>1, <2>2
<1>9. ASSUME NEW c \in BlobClients, Blob!RemoveFile(c) PROVE BlobInv'
  <2> DEFINE b == blobCall[c].blob
  <2>1. PICK answer \in {"error", "ok"} : Blob!Return(c, answer)
    BY <1>9 DEF Blob!RemoveFile
  <2>2. /\ blobCall'[c].op = "delete" /\ blobCall'[c].blob = b /\ blobCall'[c].at = "done"
        /\ blobCall'[c].answer = answer /\ blobCall'[c].late = blobCall[c].late
        /\ \A d \in BlobClients : d # c => blobCall'[d] = blobCall[d]
        /\ blobCall' \in [BlobClients -> Operation]
    BY <1>9, <2>1, Returned DEF Blob!RemoveFile, BlobInv, Answers
  <2>3. b \in BlobBlobs /\ blobCall[c].at = "remove" /\ blobCall[c].op = "delete"
    BY <1>9 DEF Blob!RemoveFile, BlobInv, UnderWay
  <2>4. UnderWay(blobCall'[c])  BY <2>2 DEF UnderWay
  <2>5. (\A d \in BlobClients : UnderWay(blobCall[d]))' /\ DeletionsAreHeard'
    BY <1>9, <2>2, <2>3, <2>4, DeletionsStayHeard DEF Deleting, Blob!RemoveFile
  <2>6. BlobTypes'
    <3>1. blobWriter' \in [BlobBlobs -> SUBSET BlobClients]
      BY <1>9 DEF Blob!RemoveFile, BlobInv, BlobTypes
    <3>2. blobContent' \in [BlobBlobs -> {"absent", "cut", "whole"}]
      BY <1>9 DEF Blob!RemoveFile, BlobInv, BlobTypes
    <3> QED BY <1>9, <2>2, <3>1, <3>2 DEF Blob!RemoveFile, BlobInv, BlobTypes
  <2>7. ASSUME blobFaults = 0 \/ blobBackend = "s3"
        PROVE  CutIsWritten' /\ OwedIsThere' /\ AnswersAreWhole'
    <3>0. CutIsWritten /\ OwedIsThere /\ AnswersAreWhole  BY <2>7 DEF BlobInv
    <3>1. Blob!Writing' = Blob!Writing  BY <2>2, <2>3 DEF Blob!Writing
    <3>2. \A d \in Blob!Writing : d \in BlobClients /\ d # c  BY <2>3 DEF Blob!Writing
    <3>3. \A k \in BlobBlobs : /\ blobContent'[k] = IF k = b THEN "absent" ELSE blobContent[k]
                               /\ k # b => blobWriter'[k] = blobWriter[k]
      BY <1>9 DEF Blob!RemoveFile, BlobInv, BlobTypes
    <3>4. CutIsWritten'
      <4>1. blobBackend' = blobBackend  BY <1>9 DEF Blob!RemoveFile
      <4> QED BY <2>2, <3>0, <3>1, <3>2, <3>3, <4>1 DEF CutIsWritten
    <3>5. OwedIsThere'
      <4>1. /\ b \notin blobOwed
            /\ \A d \in BlobClients : blobCall[d].op = "put" /\ blobCall[d].blob = b /\ blobCall[d].at # "done" =>
                   blobCall[d].late
        BY <2>3 DEF BlobInv, DeletionsAreHeard, Deleting
      <4>2. blobOwed' = blobOwed /\ \A k \in blobOwed : k \in BlobBlobs
        BY <1>9 DEF Blob!RemoveFile, BlobInv, BlobTypes
      <4>3. \A d \in Blob!Writing : blobCall[d].blob \in BlobBlobs /\ blobCall[d].op = "put" /\ blobCall[d].at # "done"
        BY DEF BlobInv, UnderWay, Blob!Writing
      <4>4. ASSUME NEW d \in Blob!Writing', ~blobCall'[d].late PROVE blobContent'[blobCall'[d].blob] # "absent"
        BY <2>2, <3>0, <3>1, <3>2, <3>3, <4>1, <4>3, <4>4 DEF OwedIsThere
      <4> QED BY <3>0, <3>3, <4>1, <4>2, <4>4 DEF OwedIsThere
    <3>6. AnswersAreWhole'  BY <1>9, <2>2, <3>0 DEF Blob!RemoveFile, AnswersAreWhole
    <3> QED BY <3>4, <3>5, <3>6
  <2> QED BY <1>9, <2>5, <2>6, <2>7 DEF Blob!RemoveFile, BlobInv
<1>10. ASSUME NEW c \in BlobClients, Blob!PutObject(c) \/ Blob!DeleteObject(c) PROVE BlobInv'
  <2>1. blobFaults' \in Nat
    BY <1>10 DEF Blob!PutObject, Blob!DeleteObject, BlobInv, BlobTypes
  <2>2. CASE Blob!PutObject(c)  BY <2>1, <2>2, ObjectStored DEF Blob!PutObject
  <2>3. CASE Blob!DeleteObject(c)  BY <2>1, <2>3, ObjectStored DEF Blob!DeleteObject
  <2> QED BY <1>10, <2>2, <2>3
<1>11. ASSUME NEW c \in BlobClients, Blob!GetObject(c) PROVE BlobInv'
  <2>1. PICK answer \in {"whole", "not found", "error"} : Blob!Return(c, answer)
    BY <1>11 DEF Blob!GetObject
  <2>2. answer \in Answers /\ answer # "cut"  BY DEF Answers
  <2>3. blobCall[c].at = "begin" /\ UNCHANGED <<blobBackend, blobContent, blobWriter, blobOwed, blobFaults, blobClashed>>
    BY <1>11 DEF Blob!GetObject
  <2> QED BY <2>1, <2>2, <2>3, ReturnKeeps DEF BlobInv, BlobTypes
<1>12. ASSUME NEW c \in BlobClients, Blob!RequestFails(c) PROVE BlobInv'
  <2>1. PICK answer \in {"no", "error"} : Blob!Return(c, answer)
    BY <1>12 DEF Blob!RequestFails
  <2>2. /\ blobBackend = "s3" /\ blobCall[c].at = "begin" /\ UNCHANGED <<blobBackend, blobWriter, blobOwed, blobClashed>>
        /\ blobFaults' = blobFaults + 1 /\ blobFaults' \in Nat
    BY <1>12 DEF Blob!RequestFails, BlobInv, BlobTypes
  <2>3. CASE UNCHANGED blobContent
    <3>1. answer \in Answers /\ answer # "cut"  BY DEF Answers
    <3> QED BY <2>1, <2>2, <2>3, <3>1, ReturnKeeps DEF BlobInv, BlobTypes
  <2>4. CASE ~UNCHANGED blobContent
    <3>1. \/ blobCall[c].op = "put" /\ blobContent' = [blobContent EXCEPT ![blobCall[c].blob] = "whole"]
          \/ blobCall[c].op = "delete" /\ blobContent' = [blobContent EXCEPT ![blobCall[c].blob] = "absent"]
      BY <1>12, <2>4 DEF Blob!RequestFails
    <3>2. Blob!Return(c, "error")  BY <1>12, <3>1 DEF Blob!RequestFails
    <3> QED BY <2>2, <3>1, <3>2, ObjectStored
  <2> QED BY <2>3, <2>4
<1>13. CASE UNCHANGED Blob!vars
  BY <1>13 DEF Blob!vars, BlobInv, BlobTypes, UnderWay, DeletionsAreHeard, CutIsWritten,
     OwedIsThere,
               AnswersAreWhole, Blob!Writing, Deleting
<1> QED BY <1>1, <1>2, <1>3, <1>4, <1>5, <1>6, <1>7, <1>8, <1>9, <1>10, <1>11, <1>12, <1>13
        DEF Blob!Next

LEMMA BlobInvIsEnough == BlobInv => Blob!PutIsKept
<1> SUFFICES ASSUME BlobInv, blobFaults = 0 \/ blobBackend = "s3"
             PROVE  /\ \A b \in blobOwed : blobContent[b] = "whole" \/ \E c \in Blob!Writing : blobCall[c].blob = b
                    /\ ~blobClashed => \A c \in BlobClients : blobCall[c].answer # "cut"
  BY DEF Blob!PutIsKept
<1>1. CutIsWritten /\ OwedIsThere /\ AnswersAreWhole  BY DEF BlobInv
<1>2. \A b \in blobOwed : b \in BlobBlobs /\ blobContent[b] \in {"absent", "cut", "whole"}
  BY DEF BlobInv, BlobTypes
<1> QED BY <1>1, <1>2 DEF CutIsWritten, OwedIsThere, AnswersAreWhole

LEMMA BlobSteps == DataSpec => Blob!Spec
<1>1. DataInit => Blob!Init  BY DEF DataInit, DataInitAt
<1>2. [DataNext]_dataVars => [Blob!Next]_(Blob!vars)
  BY DEF DataNext, dataVars, txtVars, blobVars, evVars, carVars, Blob!vars
<1> QED BY <1>1, <1>2, PTL DEF DataSpec, Blob!Spec

\* ReadsBack: TIDs, AT-URIs, cursors and feeds are read back as they were written,
\* for all texts; what a put has promised is kept until it is deleted, and a get
\* that meets no write is whole, however puts, gets and deletions interleave.
THEOREM WrittenIsReadBack == DataSpec => []ReadsBack
<1>1. Blob!Spec => []Blob!PutIsKept
  BY BlobInit, BlobNext, BlobInvIsEnough, PTL DEF Blob!Spec
<1> QED BY <1>1, TextsReadBack, IdsSteps, BlobSteps, PTL DEF ReadsBack

-----------------------------------------------------------------------------
(* EventRouter: the inductive invariant *)

HandlerCalled == [event : Nat, route : Nat, outcome : {"ok", "error", "panic"}]

RouterTypes ==
    /\ evRoutes \in Seq(Router!Route) /\ evTaken \in Seq(Router!Event) /\ evCalls \in Seq(HandlerCalled)
    /\ evAt \in Nat /\ evAlive \in BOOLEAN /\ evErrors \in Nat

\* Calls are in order, and none is ahead of the dispatcher.  No call for the
\* event that is being dispatched has failed, and none was of the routes to come.
InOrder ==
    /\ \A m, n \in DOMAIN evCalls : m < n => Router!Earlier(evCalls[m], evCalls[n])
    /\ \A n \in DOMAIN evCalls : evCalls[n].event <= Len(evTaken)
    /\ evAt > 0 => \A n \in DOMAIN evCalls :
                       evCalls[n].event = Len(evTaken) => evCalls[n].route < evAt /\ evCalls[n].outcome = "ok"

\* The dispatcher is within an event only if it knows its operation.
Dispatching == evAt > 0 => /\ evTaken # <<>> /\ \E c \in Router!Current.commit : c.operation \in Router!Operations

Answered(e, i) ==
    \E n \in DOMAIN evCalls :
        evCalls[n].event = e /\ (evCalls[n].route = i \/ evCalls[n].outcome # "ok")

\* No subscribed route that lies behind was passed over.
NonePassedOver ==
    \A e \in DOMAIN evTaken, i \in DOMAIN evRoutes :
        Router!Subscribed(evRoutes[i], evTaken[e]) /\ (e < Len(evTaken) \/ evAt = 0 \/ i < evAt) => Answered(e, i)

\* The events that a handler failed for.
FailedEvents(s) == {s[n].event : n \in {k \in DOMAIN s : s[k].outcome # "ok"}}

FailuresCounted ==
    /\ IsFiniteSet(FailedEvents(evCalls))
    /\ evErrors + (IF evAlive THEN 0 ELSE 1) = Cardinality(FailedEvents(evCalls))

RouterInv == RouterTypes /\ InOrder /\ Dispatching /\ NonePassedOver /\ FailuresCounted

\* The instance has its own copies of Min and Cardinality.
LEMMA RouterMin == \A S : Router!Min(S) = Min(S)
BY DEF Router!Min, Min

LEMMA RouterCardinality == \A S : Router!Cardinality(S) = Cardinality(S)
BY DEF Router!Cardinality, Cardinality

LEMMA RouterInit == Router!Init => RouterInv
<1> SUFFICES ASSUME Router!Init PROVE RouterInv  OBVIOUS
<1>1. RouterTypes  BY DEF Router!Init, RouterTypes
<1>2. DOMAIN evCalls = {} /\ DOMAIN evTaken = {}  BY DEF Router!Init
<1>3. FailedEvents(evCalls) = {}  BY <1>2 DEF FailedEvents
<1>4. FailuresCounted  BY <1>3, FS_EmptySet DEF Router!Init, FailuresCounted
<1> QED BY <1>1, <1>2, <1>4 DEF Router!Init, RouterInv, InOrder, Dispatching, NonePassedOver

\* A route that is subscribed to an event of a known operation matches it.
LEMMA SubscribedMatches ==
    ASSUME NEW route \in Router!Route, NEW event \in Router!Event, Router!Subscribed(route, event)
    PROVE  \E c \in event.commit : c.operation \in Router!Operations /\ Router!Matches(route, c)
BY DEF Router!Subscribed, Router!Matches, Router!Route, Router!Event, Router!Commit,
   Router!Operations

LEMMA Appended ==
    ASSUME NEW S, NEW s \in Seq(S), NEW x \in S
    PROVE  LET t == Append(s, x)
           IN  /\ t \in Seq(S) /\ Len(t) = Len(s) + 1 /\ t # <<>>
               /\ DOMAIN t = DOMAIN s \cup {Len(s) + 1} /\ DOMAIN s = 1..Len(s)
               /\ \A i \in DOMAIN s : t[i] = s[i]
               /\ t[Len(s) + 1] = x
BY AppendProperties

LEMMA RouterNext == RouterInv /\ [Router!Next]_(Router!vars) => RouterInv'
<1> SUFFICES ASSUME RouterInv, [Router!Next]_(Router!vars) PROVE RouterInv'  OBVIOUS
<1>0. RouterTypes /\ InOrder /\ Dispatching /\ NonePassedOver /\ FailuresCounted
  BY DEF RouterInv
<1>l. /\ Len(evTaken) \in Nat /\ DOMAIN evTaken = 1..Len(evTaken) /\ DOMAIN evCalls = 1..Len(evCalls)
      /\ Len(evCalls) \in Nat /\ DOMAIN evRoutes = 1..Len(evRoutes) /\ Len(evRoutes) \in Nat
  BY DEF RouterInv, RouterTypes
<1>c. \A n \in DOMAIN evCalls : evCalls[n].event \in Nat /\ evCalls[n].route \in Nat
  <2>1. evCalls \in Seq(HandlerCalled)  BY <1>0 DEF RouterTypes
  <2>2. \A n \in DOMAIN evCalls : evCalls[n] \in HandlerCalled  BY <2>1
  <2> QED BY <2>2 DEF HandlerCalled
<1>t. evAt \in Nat /\ evErrors \in Nat /\ evAlive \in BOOLEAN  BY <1>0 DEF RouterTypes
<1>1. ASSUME NEW route \in Router!Route, Router!Register(route) PROVE RouterInv'
  <2>1. evRoutes' \in Seq(Router!Route)  BY <1>1 DEF Router!Register, RouterInv, RouterTypes
  <2>2. RouterTypes'  BY <1>0, <1>1, <2>1 DEF Router!Register, RouterTypes
  <2>3. InOrder' /\ Dispatching'
    BY <1>0, <1>1 DEF Router!Register, InOrder, Dispatching, Router!Earlier, Router!Current
  <2>4. NonePassedOver'  BY <1>1, <1>l DEF Router!Register, NonePassedOver
  <2>5. FailuresCounted'  BY <1>0, <1>1 DEF Router!Register, FailuresCounted
  <2> QED BY <2>2, <2>3, <2>4, <2>5 DEF RouterInv
<1>2. ASSUME NEW event \in Router!Event, Router!Dispatch(event) PROVE RouterInv'
  <2>1. /\ evTaken' \in Seq(Router!Event) /\ Len(evTaken') = Len(evTaken) + 1 /\ evTaken' # <<>>
        /\ DOMAIN evTaken' = DOMAIN evTaken \cup {Len(evTaken) + 1}
        /\ \A i \in DOMAIN evTaken : evTaken'[i] = evTaken[i]
        /\ evTaken'[Len(evTaken) + 1] = event
    <3>1. evTaken' = Append(evTaken, event)  BY <1>2 DEF Router!Dispatch
    <3> QED BY <1>0, <3>1, Appended DEF RouterTypes
  <2>2. RouterTypes'  BY <1>0, <1>2, <2>1 DEF Router!Dispatch, RouterTypes
  <2>3. UNCHANGED <<evRoutes, evAlive, evErrors, evCalls>> /\ evAt = 0
    BY <1>2 DEF Router!Dispatch
  <2>4. InOrder'
    <3>1. \A n \in DOMAIN evCalls : evCalls[n].event <= Len(evTaken) /\ evCalls[n].event \in Nat
      BY <1>0, <1>c DEF InOrder
    <3>2. \A n \in DOMAIN evCalls : evCalls[n].event <= Len(evTaken') /\ evCalls[n].event # Len(evTaken')
      BY <1>l, <2>1, <3>1
    <3> QED BY <1>0, <2>3, <3>2 DEF InOrder, Router!Earlier
  <2>5. Dispatching'
    <3>1. Router!Current' = event  BY <2>1 DEF Router!Current
    <3> QED BY <1>2, <2>1, <3>1 DEF Router!Dispatch, Dispatching
  <2>6. NonePassedOver'
    <3> SUFFICES ASSUME NEW e \in DOMAIN evTaken', NEW i \in DOMAIN evRoutes,
                        Router!Subscribed(evRoutes[i], evTaken'[e]), e < Len(evTaken') \/ evAt' = 0 \/ i < evAt'
                 PROVE  Answered(e, i)'
      BY <2>3 DEF NonePassedOver
    <3>1. CASE e \in DOMAIN evTaken
      BY <1>0, <2>1, <2>3, <3>1 DEF NonePassedOver, Answered
    <3>2. CASE e = Len(evTaken) + 1
      <4>1. evRoutes[i] \in Router!Route  BY <1>0 DEF RouterTypes
      <4>2. \E c \in event.commit : c.operation \in Router!Operations
        BY <2>1, <3>2, <4>1, SubscribedMatches
      <4>3. evAt' = 1  BY <1>2, <4>2 DEF Router!Dispatch
      <4>4. ~(e < Len(evTaken')) /\ ~(i < 1)  BY <1>l, <2>1, <3>2
      <4> QED BY <4>3, <4>4
    <3> QED BY <2>1, <3>1, <3>2
  <2>7. FailuresCounted'  BY <1>0, <2>3 DEF FailuresCounted
  <2> QED BY <2>2, <2>4, <2>5, <2>6, <2>7 DEF RouterInv
<1>3. CASE Router!CallHandler
  <2> DEFINE i == Min(Router!Matching)
  <2>1. PICK outcome \in {"ok", "error", "panic"} :
          /\ evCalls' = Append(evCalls, [event |-> Len(evTaken), route |-> i, outcome |-> outcome])
          /\ evAt' = IF outcome = "ok" THEN i + 1 ELSE 0
          /\ evErrors' = IF outcome = "error" THEN evErrors + 1 ELSE evErrors
          /\ evAlive' = (outcome # "panic")
    BY <1>3, RouterMin DEF Router!CallHandler
  <2>2. evAlive /\ evAt > 0 /\ Router!Matching # {} /\ UNCHANGED <<evRoutes, evTaken>>
    BY <1>3 DEF Router!CallHandler
  <2>3. /\ i \in evAt..Len(evRoutes) /\ i \in Nat /\ \A j \in Router!Matching : i <= j
    <3>1. Router!Matching \subseteq Nat /\ Router!Matching \subseteq evAt..Len(evRoutes)
      BY <1>0, <1>l DEF Router!Matching, RouterTypes
    <3> QED BY <2>2, <3>1, MinIsLeast
  <2> HIDE DEF i
  <2>4. PICK x : x = [event |-> Len(evTaken), route |-> i, outcome |-> outcome]  OBVIOUS
  <2>5. /\ x \in HandlerCalled /\ x.event = Len(evTaken) /\ x.route = i /\ x.outcome = outcome
    BY <1>l, <2>3, <2>4 DEF HandlerCalled
  <2>6. /\ evCalls' \in Seq(HandlerCalled) /\ Len(evCalls') = Len(evCalls) + 1
        /\ DOMAIN evCalls' = DOMAIN evCalls \cup {Len(evCalls) + 1}
        /\ \A n \in DOMAIN evCalls : evCalls'[n] = evCalls[n]
        /\ evCalls'[Len(evCalls) + 1] = x
    BY <1>0, <2>1, <2>4, <2>5, Appended DEF RouterTypes
  <2>7. RouterTypes'  BY <1>0, <2>1, <2>2, <2>3, <2>6 DEF RouterTypes
  <2>8. InOrder'
    <3>1. \A n \in DOMAIN evCalls : /\ evCalls[n].event \in Nat /\ evCalls[n].route \in Nat
                                    /\ evCalls[n].event <= Len(evTaken)
                                    /\ evCalls[n].event = Len(evTaken) => evCalls[n].route < evAt
      BY <1>0, <1>c, <2>2 DEF InOrder
    <3>i. evAt <= i  BY <1>t, <1>l, <2>3
    <3>2. \A n \in DOMAIN evCalls : Router!Earlier(evCalls[n], x)
      <4> SUFFICES ASSUME NEW n \in DOMAIN evCalls PROVE Router!Earlier(evCalls[n], x)  OBVIOUS
      <4>1. PICK ev, ro : ev = evCalls[n].event /\ ro = evCalls[n].route  OBVIOUS
      <4>2. ev \in Nat /\ ro \in Nat /\ ev <= Len(evTaken) /\ (ev = Len(evTaken) => ro < evAt)
        BY <3>1, <4>1
      <4>3. ev < Len(evTaken) \/ (ev = Len(evTaken) /\ ro < i)
        <5>1. \A p, q, r, a, k \in Nat : p <= q /\ (p = q => r < a) /\ a <= k => p < q \/ (p = q /\ r < k)
          OBVIOUS
        <5>2. Len(evTaken) \in Nat  BY <1>l
        <5>3. i \in Nat  BY <2>3
        <5> HIDE DEF Router!Matching
        <5> QED BY <1>t, <3>i, <4>2, <5>1, <5>2, <5>3
      <4> QED BY <2>5, <4>1, <4>3 DEF Router!Earlier
    <3>3. \A m, n \in DOMAIN evCalls' : m < n => Router!Earlier(evCalls'[m], evCalls'[n])
      <4> SUFFICES ASSUME NEW m \in DOMAIN evCalls', NEW n \in DOMAIN evCalls', m < n
                   PROVE  Router!Earlier(evCalls'[m], evCalls'[n])
        OBVIOUS
      <4>1. m \in DOMAIN evCalls  BY <1>l, <2>6
      <4>2. CASE n \in DOMAIN evCalls  BY <1>0, <2>6, <4>1, <4>2 DEF InOrder
      <4>3. CASE n = Len(evCalls) + 1  BY <2>6, <3>2, <4>1, <4>3
      <4> QED BY <2>6, <4>2, <4>3
    <3>4. \A n \in DOMAIN evCalls' : evCalls'[n].event <= Len(evTaken')
      <4> SUFFICES ASSUME NEW n \in DOMAIN evCalls' PROVE evCalls'[n].event <= Len(evTaken')  OBVIOUS
      <4>1. evTaken' = evTaken  BY <2>2
      <4>2. CASE n \in DOMAIN evCalls  BY <2>6, <3>1, <4>1, <4>2
      <4>3. CASE n = Len(evCalls) + 1  BY <1>l, <2>5, <2>6, <4>1, <4>3
      <4> QED BY <2>6, <4>2, <4>3
    <3>5. evAt' > 0 => \A n \in DOMAIN evCalls' :
                evCalls'[n].event = Len(evTaken') => evCalls'[n].route < evAt' /\ evCalls'[n].outcome = "ok"
      <4> SUFFICES ASSUME evAt' > 0, NEW n \in DOMAIN evCalls', evCalls'[n].event = Len(evTaken')
                   PROVE  evCalls'[n].route < evAt' /\ evCalls'[n].outcome = "ok"
        OBVIOUS
      <4>1. outcome = "ok" /\ evAt' = i + 1  BY <2>1
      <4>2. CASE n = Len(evCalls) + 1  BY <2>3, <2>5, <2>6, <4>1, <4>2
      <4>3. CASE n \in DOMAIN evCalls
        <5>1. evCalls[n].route < evAt /\ evCalls[n].outcome = "ok"
          BY <1>0, <2>2, <2>6, <4>3 DEF InOrder
        <5>2. evCalls[n].route < i + 1  BY <1>t, <2>3, <3>1, <3>i, <4>3, <5>1
        <5> QED BY <2>6, <4>1, <4>3, <5>1, <5>2
      <4> QED BY <2>6, <4>2, <4>3
    <3> QED BY <3>3, <3>4, <3>5 DEF InOrder
  <2>9. Dispatching'  BY <1>0, <2>2 DEF Dispatching, Router!Current
  <2>10. NonePassedOver'
    <3> SUFFICES ASSUME NEW e \in DOMAIN evTaken, NEW j \in DOMAIN evRoutes,
                        Router!Subscribed(evRoutes[j], evTaken[e]), e < Len(evTaken) \/ evAt' = 0 \/ j < evAt'
                 PROVE  Answered(e, j)'
      BY <2>2 DEF NonePassedOver
    <3>1. Answered(e, j) => Answered(e, j)'  BY <2>6 DEF Answered
    <3>2. CASE e < Len(evTaken)  BY <1>0, <3>1, <3>2 DEF NonePassedOver
    <3>3. CASE e = Len(evTaken) /\ j < evAt  BY <1>0, <3>1, <3>3 DEF NonePassedOver
    <3>4. CASE e = Len(evTaken) /\ outcome # "ok"
      BY <2>5, <2>6, <3>4 DEF Answered
    <3>5. CASE e = Len(evTaken) /\ outcome = "ok" /\ ~(j < evAt)
      <4>1. j <= i  BY <1>l, <2>1, <2>3, <3>5
      <4>2. j = i
        <5>1. evRoutes[j] \in Router!Route /\ evTaken[e] \in Router!Event
          BY <1>0 DEF RouterTypes
        <5>2. \E c \in evTaken[e].commit : Router!Matches(evRoutes[j], c)
          BY <5>1, SubscribedMatches
        <5>3. j \in Router!Matching
          BY <1>0, <1>l, <3>5, <5>2 DEF Router!Matching, Router!Current, RouterTypes
        <5> QED BY <1>l, <2>3, <4>1, <5>3
      <4> QED BY <2>5, <2>6, <3>5, <4>2 DEF Answered
    <3> QED BY <1>l, <3>2, <3>3, <3>4, <3>5
  <2>11. FailuresCounted'
    <3>1. CASE outcome = "ok"
      <4>1. FailedEvents(evCalls') = FailedEvents(evCalls)
        BY <1>l, <2>5, <2>6, <3>1 DEF FailedEvents
      <4> QED BY <1>0, <2>1, <2>2, <3>1, <4>1 DEF FailuresCounted
    <3>2. CASE outcome # "ok"
      <4>1. FailedEvents(evCalls') = FailedEvents(evCalls) \cup {Len(evTaken)}
        BY <1>l, <2>5, <2>6, <3>2 DEF FailedEvents
      <4>2. Len(evTaken) \notin FailedEvents(evCalls)
        BY <1>0, <2>2 DEF InOrder, FailedEvents
      <4>3. IsFiniteSet(FailedEvents(evCalls)) /\ evErrors = Cardinality(FailedEvents(evCalls))
        BY <1>0, <2>2 DEF FailuresCounted, RouterTypes
      <4>4. /\ IsFiniteSet(FailedEvents(evCalls'))
            /\ Cardinality(FailedEvents(evCalls')) = evErrors + 1
        BY <4>1, <4>2, <4>3, FS_AddElement
      <4>5. evErrors' + (IF evAlive' THEN 0 ELSE 1) = evErrors + 1
        <5>1. CASE outcome = "error"
          <6>1. evAlive' = TRUE /\ evErrors' = evErrors + 1  BY <2>1, <5>1
          <6> QED BY <1>t, <6>1
        <5>2. CASE outcome = "panic"
          <6>1. evAlive' = FALSE /\ evErrors' = evErrors  BY <2>1, <5>2
          <6> QED BY <1>t, <6>1
        <5> QED BY <3>2, <5>1, <5>2
      <4> QED BY <4>4, <4>5 DEF FailuresCounted
    <3> QED BY <3>1, <3>2
  <2> QED BY <2>7, <2>8, <2>9, <2>10, <2>11 DEF RouterInv
<1>4. CASE Router!DispatchReturns
  <2>1. evAt' = 0 /\ Router!Matching = {} /\ UNCHANGED <<evRoutes, evTaken, evAlive, evErrors, evCalls>>
    BY <1>4 DEF Router!DispatchReturns
  <2>2. RouterTypes'  BY <1>0, <2>1 DEF RouterTypes
  <2>3. InOrder'  BY <1>0, <2>1 DEF InOrder, Router!Earlier
  <2>4. Dispatching'  BY <2>1 DEF Dispatching
  <2>5. NonePassedOver'
    <3> SUFFICES ASSUME NEW e \in DOMAIN evTaken, NEW j \in DOMAIN evRoutes,
                        Router!Subscribed(evRoutes[j], evTaken[e])
                 PROVE  Answered(e, j)
      BY <2>1 DEF NonePassedOver, Answered
    <3>1. CASE e < Len(evTaken) \/ j < evAt  BY <1>0, <3>1 DEF NonePassedOver
    <3>2. CASE e = Len(evTaken) /\ ~(j < evAt)
      <4>1. evRoutes[j] \in Router!Route /\ evTaken[e] \in Router!Event
        BY <1>0 DEF RouterTypes
      <4>2. \E c \in evTaken[e].commit : Router!Matches(evRoutes[j], c)
        BY <4>1, SubscribedMatches
      <4>3. j \in Router!Matching
        BY <1>0, <1>l, <3>2, <4>2 DEF Router!Matching, Router!Current, RouterTypes
      <4> QED BY <2>1, <4>3
    <3> QED BY <1>l, <3>1, <3>2
  <2>6. FailuresCounted'  BY <1>0, <2>1 DEF FailuresCounted
  <2> QED BY <2>2, <2>3, <2>4, <2>5, <2>6 DEF RouterInv
<1>5. CASE UNCHANGED Router!vars
  BY <1>5 DEF Router!vars, RouterInv, RouterTypes, InOrder, Router!Earlier, Dispatching,
     Router!Current, NonePassedOver,
              Answered, FailuresCounted
<1> QED BY <1>1, <1>2, <1>3, <1>4, <1>5 DEF Router!Next

LEMMA RouterInvIsEnough == RouterInv => Router!NoHandlerMissesSilently
BY RouterCardinality
   DEF RouterInv, InOrder, NonePassedOver, Answered, FailuresCounted, FailedEvents,
       Router!NoHandlerMissesSilently

LEMMA RouterSteps == DataSpec => Router!Spec
<1>1. DataInit => Router!Init  BY DEF DataInit, DataInitAt
<1>2. [DataNext]_dataVars => [Router!Next]_(Router!vars)
  BY DEF DataNext, dataVars, txtVars, blobVars, evVars, carVars, Router!vars
<1> QED BY <1>1, <1>2, PTL DEF DataSpec, Router!Spec

\* NoHandlerMissesSilently: handlers are called once and in order, and a handler
\* that missed an event did so because of a failure that has been counted.
THEOREM HandlersHear == DataSpec => []NoHandlerMissesSilently
<1>1. RouterInv => NoHandlerMissesSilently  BY RouterInvIsEnough DEF NoHandlerMissesSilently
<1> QED BY <1>1, RouterInit, RouterNext, RouterSteps, PTL DEF Router!Spec

LEMMA UpFromZero ==
    ASSUME NEW S, 0 \in S, \A n \in Nat : n \in S => n + 1 \in S
    PROVE  Nat \subseteq S
<1>1. PICK T : T = Nat \ S  OBVIOUS
<1> SUFFICES ASSUME T # {} PROVE FALSE  BY <1>1
<1>2. PICK x \in T : \A y \in T : x <= y  BY <1>1, LeastElement
<1>3. x # 0 /\ x - 1 \in Nat  BY <1>1, <1>2
<1>4. x - 1 \in S  BY <1>1, <1>2, <1>3
<1> QED BY <1>1, <1>2, <1>3, <1>4

-----------------------------------------------------------------------------
(* CarArchive: varints *)

LEMMA Words ==
    /\ Car!More = 4 /\ 2 ^ Car!Width = 32 /\ Car!Byte = 0..7
    /\ Car!More ^ 0 = 1 /\ Car!More ^ 1 = 4 /\ Car!More ^ 2 = 16 /\ Car!More ^ 3 = 64
<1>1. Car!More = 4  BY DEF Car!More, Car!Group
<1>2. 2 ^ Car!Width = 32  BY DEF Car!Width
<1>3. 4 ^ 0 = 1 /\ 4 ^ 1 = 4 /\ 4 ^ 2 = 16 /\ 4 ^ 3 = 64  OBVIOUS
<1>4. Car!Byte = 0..7  BY <1>1 DEF Car!Byte
<1> QED BY <1>1, <1>2, <1>3, <1>4

\* f is the function of Joined on the first n bytes.
Joins(f, bytes, n) ==
    f = [i \in 0..n |->
            IF i = 0 THEN 0 ELSE f[i - 1] + (bytes[i] % Car!More) * Car!More ^ (i - 1)]

LEMMA JoinsExists ==
    ASSUME NEW bytes
    PROVE  \A n \in Nat : \E f : Joins(f, bytes, n)
<1>1. PICK S : S = {n \in Nat : \E f : Joins(f, bytes, n)}  OBVIOUS
<1>2. 0 \in S
  <2>1. PICK f : f = [i \in 0..0 |-> 0]  OBVIOUS
  <2>2. Joins(f, bytes, 0)  BY <2>1 DEF Joins
  <2> QED BY <1>1, <2>2
<1>3. ASSUME NEW n \in Nat, n \in S PROVE n + 1 \in S
  <2>1. PICK f : Joins(f, bytes, n)  BY <1>1, <1>3
  <2>2. PICK top : top = f[n] + (bytes[n + 1] % Car!More) * Car!More ^ n  OBVIOUS
  <2>3. PICK g : g = [i \in 0..(n + 1) |-> IF i = n + 1 THEN top ELSE f[i]]  OBVIOUS
  <2>4. ASSUME NEW i \in 0..(n + 1)
        PROVE  g[i] = IF i = 0 THEN 0 ELSE g[i - 1] + (bytes[i] % Car!More) * Car!More ^ (i - 1)
    <3>1. CASE i = n + 1
      <4>1. i # 0 /\ i - 1 = n /\ i - 1 \in 0..(n + 1) /\ i - 1 # n + 1  BY <3>1
      <4>2. g[i] = top /\ g[i - 1] = f[n]  BY <2>3, <3>1, <4>1
      <4> QED BY <2>2, <3>1, <4>1, <4>2
    <3>2. CASE i # n + 1 /\ i = 0
      <4>1. g[i] = f[i]  BY <2>3, <3>2
      <4>2. f[0] = 0  BY <2>1 DEF Joins
      <4> QED BY <3>2, <4>1, <4>2
    <3>3. CASE i # n + 1 /\ i # 0
      <4>1. i \in 0..n /\ i - 1 \in 0..(n + 1) /\ i - 1 # n + 1  BY <3>3
      <4>2. g[i] = f[i] /\ g[i - 1] = f[i - 1]  BY <2>3, <3>3, <4>1
      <4>3. \A j \in 0..n : j # 0 => f[j] = f[j - 1] + (bytes[j] % Car!More) * Car!More ^ (j - 1)
        BY <2>1 DEF Joins
      <4> QED BY <3>3, <4>1, <4>2, <4>3
    <3> QED BY <3>1, <3>2, <3>3
  <2>5. Joins(g, bytes, n + 1)  BY <2>3, <2>4 DEF Joins
  <2> QED BY <1>1, <2>5
<1>4. Nat \subseteq S  BY <1>2, <1>3, UpFromZero
<1> QED BY <1>1, <1>4

\* What one, two or three bytes stand for.
LEMMA JoinedIs ==
    ASSUME NEW s \in Seq(Car!Byte)
    PROVE  /\ Len(s) >= 1 => Car!Joined(s, 1) = (s[1] % 4) % 32
           /\ Len(s) >= 2 => Car!Joined(s, 2) = ((s[1] % 4) + (s[2] % 4) * 4) % 32
           /\ Len(s) >= 3 => Car!Joined(s, 3) = ((s[1] % 4) + (s[2] % 4) * 4 + (s[3] % 4) * 16) % 32
<1>1. ASSUME NEW n \in 1..3, n <= Len(s)
      PROVE  \E f : /\ Car!Joined(s, n) = f[n] % 32 /\ f[0] = 0
                    /\ \A i \in 1..n : f[i] = f[i - 1] + (s[i] % 4) * (4 ^ (i - 1))
  <2>1. PICK f : f = CHOOSE g : Joins(g, s, n)  OBVIOUS
  <2>2. n \in Nat  OBVIOUS
  <2>3. Joins(f, s, n)  BY <2>1, <2>2, JoinsExists
  <2>4. Car!Joined(s, n) = f[n] % 32  BY <2>1, Words DEF Car!Joined, Joins
  <2>5. f[0] = 0  BY <2>2, <2>3 DEF Joins
  <2>6. \A i \in 0..n : i # 0 => f[i] = f[i - 1] + (s[i] % Car!More) * Car!More ^ (i - 1)
    BY <2>2, <2>3 DEF Joins
  <2>7. \A i \in 1..n : i \in 0..n /\ i # 0  OBVIOUS
  <2>8. \A i \in 1..n : f[i] = f[i - 1] + (s[i] % 4) * (4 ^ (i - 1))
    BY <2>6, <2>7, Words
  <2> QED BY <2>4, <2>5, <2>8
<1>2. 4 ^ 0 = 1 /\ 4 ^ 1 = 4 /\ 4 ^ 2 = 16  OBVIOUS
<1>3. \A i \in 1..Len(s) : s[i] \in 0..7  BY ElementOfSeq, Words
<1>4. Len(s) \in Nat  BY LenProperties
<1>5. ASSUME Len(s) >= 1 PROVE Car!Joined(s, 1) = (s[1] % 4) % 32
  <2>1. PICK f : /\ Car!Joined(s, 1) = f[1] % 32 /\ f[0] = 0
                 /\ \A i \in 1..1 : f[i] = f[i - 1] + (s[i] % 4) * (4 ^ (i - 1))
    BY <1>1, <1>5
  <2>2. f[1] = f[0] + (s[1] % 4) * (4 ^ 0)  BY <2>1
  <2>3. s[1] \in 0..7  BY <1>3, <1>4, <1>5
  <2> QED BY <1>2, <2>1, <2>2, <2>3
<1>6. ASSUME Len(s) >= 2 PROVE Car!Joined(s, 2) = ((s[1] % 4) + (s[2] % 4) * 4) % 32
  <2>1. PICK f : /\ Car!Joined(s, 2) = f[2] % 32 /\ f[0] = 0
                 /\ \A i \in 1..2 : f[i] = f[i - 1] + (s[i] % 4) * (4 ^ (i - 1))
    BY <1>1, <1>6
  <2>2. f[1] = f[0] + (s[1] % 4) * (4 ^ 0) /\ f[2] = f[1] + (s[2] % 4) * (4 ^ 1)
    BY <2>1
  <2>3. s[1] \in 0..7 /\ s[2] \in 0..7  BY <1>3, <1>4, <1>6
  <2> QED BY <1>2, <2>1, <2>2, <2>3
<1>7. ASSUME Len(s) >= 3
      PROVE  Car!Joined(s, 3) = ((s[1] % 4) + (s[2] % 4) * 4 + (s[3] % 4) * 16) % 32
  <2>1. PICK f : /\ Car!Joined(s, 3) = f[3] % 32 /\ f[0] = 0
                 /\ \A i \in 1..3 : f[i] = f[i - 1] + (s[i] % 4) * (4 ^ (i - 1))
    BY <1>1, <1>7
  <2>2. /\ f[1] = f[0] + (s[1] % 4) * (4 ^ 0) /\ f[2] = f[1] + (s[2] % 4) * (4 ^ 1)
        /\ f[3] = f[2] + (s[3] % 4) * (4 ^ 2)
    BY <2>1
  <2>3. s[1] \in 0..7 /\ s[2] \in 0..7 /\ s[3] \in 0..7  BY <1>3, <1>4, <1>7
  <2> QED BY <1>2, <2>1, <2>2, <2>3
<1> QED BY <1>5, <1>6, <1>7

\* A varint has one, two or three bytes, and only its last is below More.
LEMMA VarintIs ==
    ASSUME NEW n \in 0..31
    PROVE  /\ Car!Varint(n) \in Seq(Car!Byte) /\ Len(Car!Varint(n)) \in 1..3
           /\ \A i \in 1..Len(Car!Varint(n)) : Car!Varint(n)[i] < 4 <=> i = Len(Car!Varint(n))
           /\ Len(Car!Varint(n)) = 1 => Car!Varint(n)[1] = n
           /\ Len(Car!Varint(n)) = 2 => (Car!Varint(n)[1] % 4) + Car!Varint(n)[2] * 4 = n
           /\ Len(Car!Varint(n)) = 3 =>
                (Car!Varint(n)[1] % 4) + (Car!Varint(n)[2] % 4) * 4 + Car!Varint(n)[3] * 16 = n
<1>1. PICK d : d = CHOOSE c \in 1..3 : n < Car!More ^ c /\ (c = 1 \/ n >= Car!More ^ (c - 1))
  OBVIOUS
<1>2. Car!Varint(n) = [i \in 1..d |-> ((n \div Car!More ^ (i - 1)) % Car!More) + (IF i < d THEN Car!More ELSE 0)]
  BY <1>1 DEF Car!Varint
<1>3. \A c \in 1..3 : c = 1 \/ c = 2 \/ c = 3  OBVIOUS
<1>4. n < 4 \/ (n >= 4 /\ n < 16) \/ (n >= 16 /\ n < 64)  OBVIOUS
<1>5. /\ (n < Car!More ^ 1 /\ (1 = 1 \/ n >= Car!More ^ (1 - 1))) <=> n < 4
      /\ (n < Car!More ^ 2 /\ (2 = 1 \/ n >= Car!More ^ (2 - 1))) <=> n < 16 /\ n >= 4
      /\ (n < Car!More ^ 3 /\ (3 = 1 \/ n >= Car!More ^ (3 - 1))) <=> n < 64 /\ n >= 16
  BY Words
<1>6. \E c \in 1..3 : n < Car!More ^ c /\ (c = 1 \/ n >= Car!More ^ (c - 1))
  BY <1>4, <1>5
<1>7. d \in 1..3 /\ n < Car!More ^ d /\ (d = 1 \/ n >= Car!More ^ (d - 1))
  BY <1>1, <1>6
<1>8. PICK v : v = Car!Varint(n)  OBVIOUS
<1>9. CASE d = 1
  <2>1. n < 4  BY <1>5, <1>7, <1>9
  <2>2. v = [i \in 1..1 |-> n]
    <3>1. \A i \in 1..1 : ((n \div Car!More ^ (i - 1)) % Car!More) + (IF i < 1 THEN Car!More ELSE 0) = n
      <4>1. Car!More ^ (1 - 1) = 1 /\ n \div 1 = n /\ n % 4 = n  BY <2>1, Words
      <4>2. \A i \in 1..1 : i = 1  OBVIOUS
      <4> QED BY <4>1, <4>2, Words
    <3> QED BY <1>2, <1>8, <1>9, <3>1
  <2>3. v = <<n>> /\ n \in 0..7  BY <2>1, <2>2
  <2>4. v \in Seq(Car!Byte) /\ Len(v) = 1 /\ v[1] = n  BY <2>3, Words
  <2> QED BY <1>8, <2>1, <2>4
<1>10. CASE d = 2
  <2>1. n < 16 /\ n >= 4  BY <1>5, <1>7, <1>10
  <2>2. PICK a : a = (n % 4) + 4  OBVIOUS
  <2>3. PICK b : b = n \div 4  OBVIOUS
  <2>4. a \in 4..7 /\ b \in 0..3 /\ (a % 4) + b * 4 = n  BY <2>1, <2>2, <2>3
  <2>5. v = [i \in 1..2 |-> IF i = 1 THEN a ELSE b]
    <3>1. ((n \div Car!More ^ (1 - 1)) % Car!More) + (IF 1 < 2 THEN Car!More ELSE 0) = a
      <4>1. n \div 1 = n  OBVIOUS
      <4> QED BY <2>2, <4>1, Words
    <3>2. ((n \div Car!More ^ (2 - 1)) % Car!More) + (IF 2 < 2 THEN Car!More ELSE 0) = b
      BY <2>3, <2>4, Words
    <3>3. \A i \in 1..2 : i = 1 \/ i = 2  OBVIOUS
    <3> QED BY <1>2, <1>8, <1>10, <3>1, <3>2, <3>3
  <2>6. v = <<a, b>>  BY <2>5
  <2>7. v \in Seq(Car!Byte) /\ Len(v) = 2 /\ v[1] = a /\ v[2] = b  BY <2>4, <2>6, Words
  <2>8. \A i \in 1..2 : i = 1 \/ i = 2  OBVIOUS
  <2> QED BY <1>8, <2>4, <2>7, <2>8
<1>11. CASE d = 3
  <2>1. n >= 16  BY <1>5, <1>7, <1>11
  <2>2. PICK a : a = (n % 4) + 4  OBVIOUS
  <2>3. PICK b : b = ((n \div 4) % 4) + 4  OBVIOUS
  <2>4. PICK c : c = n \div 16  OBVIOUS
  <2>5. /\ a \in 4..7 /\ b \in 4..7 /\ c \in 0..3
        /\ (a % 4) + (b % 4) * 4 + c * 16 = n
    BY <2>1, <2>2, <2>3, <2>4
  <2>6. v = [i \in 1..3 |-> IF i = 1 THEN a ELSE IF i = 2 THEN b ELSE c]
    <3>1. ((n \div Car!More ^ (1 - 1)) % Car!More) + (IF 1 < 3 THEN Car!More ELSE 0) = a
      <4>1. n \div 1 = n  OBVIOUS
      <4> QED BY <2>2, <4>1, Words
    <3>2. ((n \div Car!More ^ (2 - 1)) % Car!More) + (IF 2 < 3 THEN Car!More ELSE 0) = b
      BY <2>3, Words
    <3>3. ((n \div Car!More ^ (3 - 1)) % Car!More) + (IF 3 < 3 THEN Car!More ELSE 0) = c
      BY <2>4, <2>5, Words
    <3>4. \A i \in 1..3 : i = 1 \/ i = 2 \/ i = 3  OBVIOUS
    <3> QED BY <1>2, <1>8, <1>11, <3>1, <3>2, <3>3, <3>4
  <2>7. v = <<a, b, c>>  BY <2>6
  <2>8. v \in Seq(Car!Byte) /\ Len(v) = 3 /\ v[1] = a /\ v[2] = b /\ v[3] = c
    BY <2>5, <2>7, Words
  <2>9. \A i \in 1..3 : i = 1 \/ i = 2 \/ i = 3  OBVIOUS
  <2> QED BY <1>8, <2>5, <2>8, <2>9
<1> QED BY <1>3, <1>7, <1>9, <1>10, <1>11

-----------------------------------------------------------------------------
(* CarArchive: pieces of sequences *)

Associate(s, t, u) == (s \o t) \o u = s \o (t \o u)

LEMMA BytesAssociate == \A s, t, u \in Seq(Car!Byte) : Associate(s, t, u)
BY ConcatAssociative DEF Associate

LEMMA BytesConcat == \A s, t \in Seq(Car!Byte) : s \o t \in Seq(Car!Byte)
BY ConcatProperties

LEMMA Drops ==
    ASSUME NEW S, NEW s \in Seq(S), NEW n \in 0..Len(s)
    PROVE  /\ SubSeq(s, n + 1, Len(s)) \in Seq(S)
           /\ Len(SubSeq(s, n + 1, Len(s))) = Len(s) - n
           /\ \A i \in 1..(Len(s) - n) : SubSeq(s, n + 1, Len(s))[i] = s[i + n]
<1>1. PICK m \in Nat : m = Len(s)  BY LenProperties
<1>2. n \in 0..m /\ n + 1 \in Int /\ m \in Int  BY <1>1
<1>3. \A i \in (n + 1)..m : s[i] \in S  BY <1>1, <1>2, ElementOfSeq
<1>4. PICK t : t = SubSeq(s, n + 1, m)  OBVIOUS
<1>5. /\ t \in Seq(S) /\ Len(t) = IF n + 1 <= m THEN m - (n + 1) + 1 ELSE 0
      /\ \A i \in 1..(m - (n + 1) + 1) : t[i] = s[(n + 1) + i - 1]
  BY <1>2, <1>3, <1>4, SubSeqProperties
<1>6. Len(t) = m - n  BY <1>2, <1>5
<1>7. \A i \in 1..(m - n) : i \in 1..(m - (n + 1) + 1) /\ (n + 1) + i - 1 = i + n  BY <1>2
<1>8. \A i \in 1..(m - n) : t[i] = s[i + n]  BY <1>5, <1>7
<1> QED BY <1>1, <1>4, <1>5, <1>6, <1>8

LEMMA Takes ==
    ASSUME NEW S, NEW s \in Seq(S), NEW n \in 0..Len(s)
    PROVE  /\ SubSeq(s, 1, n) \in Seq(S) /\ Len(SubSeq(s, 1, n)) = n
           /\ \A i \in 1..n : SubSeq(s, 1, n)[i] = s[i]
<1>1. PICK m \in Nat : m = Len(s)  BY LenProperties
<1>2. n \in 0..m /\ 1 \in Int /\ n \in Int  BY <1>1
<1>3. \A i \in 1..n : s[i] \in S  BY <1>1, <1>2, ElementOfSeq
<1>4. PICK t : t = SubSeq(s, 1, n)  OBVIOUS
<1>5. /\ t \in Seq(S) /\ Len(t) = IF 1 <= n THEN n - 1 + 1 ELSE 0
      /\ \A i \in 1..(n - 1 + 1) : t[i] = s[1 + i - 1]
  BY <1>2, <1>3, <1>4, SubSeqProperties
<1>6. Len(t) = n  BY <1>2, <1>5
<1>7. \A i \in 1..n : i \in 1..(n - 1 + 1) /\ 1 + i - 1 = i  BY <1>2
<1>8. \A i \in 1..n : t[i] = s[i]  BY <1>5, <1>7
<1> QED BY <1>4, <1>5, <1>6, <1>8

\* Two halves.
LEMMA Halves ==
    ASSUME NEW S, NEW a \in Seq(S), NEW b \in Seq(S)
    PROVE  /\ SubSeq(a \o b, 1, Len(a)) = a
           /\ SubSeq(a \o b, Len(a) + 1, Len(a \o b)) = b
<1>1. PICK n \in Nat, m \in Nat : n = Len(a) /\ m = Len(b)  BY LenProperties
<1>2. PICK s : s = a \o b  OBVIOUS
<1>3. s \in Seq(S) /\ Len(s) = n + m /\ n \in 0..Len(s)  BY <1>1, <1>2, ConcatProperties
<1>4. \A i \in 1..(n + m) : s[i] = IF i <= n THEN a[i] ELSE b[i - n]
  BY <1>1, <1>2, ConcatProperties
<1>5. SubSeq(s, 1, n) = a
  <2>1. PICK t : t = SubSeq(s, 1, n)  OBVIOUS
  <2>2. t \in Seq(S) /\ Len(t) = n /\ \A i \in 1..n : t[i] = s[i]  BY <1>3, <2>1, Takes
  <2>3. \A i \in 1..n : i \in 1..(n + m) /\ i <= n  OBVIOUS
  <2>4. \A i \in 1..n : t[i] = a[i]  BY <1>4, <2>2, <2>3
  <2> QED BY <1>1, <2>1, <2>2, <2>4, SeqEqual
<1>6. SubSeq(s, n + 1, n + m) = b
  <2>1. PICK t : t = SubSeq(s, n + 1, n + m)  OBVIOUS
  <2>2. (n + m) - n = m  BY <1>1
  <2>3. t = SubSeq(s, n + 1, Len(s)) /\ Len(s) - n = m  BY <1>3, <2>1, <2>2
  <2>4a. t \in Seq(S) /\ Len(t) = Len(s) - n /\ \A i \in 1..(Len(s) - n) : t[i] = s[i + n]
    BY <1>3, <2>3, Drops
  <2>3b. t \in Seq(S) /\ Len(t) = m /\ \A i \in 1..m : t[i] = s[i + n]
    BY <2>3, <2>4a
  <2>4. \A i \in 1..m : i + n \in 1..(n + m) /\ ~(i + n <= n) /\ (i + n) - n = i  BY <1>1
  <2>5. \A i \in 1..m : t[i] = b[i]  BY <1>4, <2>3b, <2>4
  <2> QED BY <1>1, <2>1, <2>3b, <2>5, SeqEqual
<1> QED BY <1>1, <1>2, <1>3, <1>5, <1>6

\* A sequence is what is taken of it and what is dropped.
LEMMA TakeDrop ==
    ASSUME NEW S, NEW s \in Seq(S), NEW n \in 0..Len(s)
    PROVE  s = SubSeq(s, 1, n) \o SubSeq(s, n + 1, Len(s))
<1>1. PICK m \in Nat : m = Len(s)  BY LenProperties
<1>2. PICK a, b : a = SubSeq(s, 1, n) /\ b = SubSeq(s, n + 1, Len(s))  OBVIOUS
<1>3. a \in Seq(S) /\ Len(a) = n /\ \A i \in 1..n : a[i] = s[i]  BY <1>2, Takes
<1>4. b \in Seq(S) /\ Len(b) = m - n /\ \A i \in 1..(m - n) : b[i] = s[i + n]
  BY <1>1, <1>2, Drops
<1>5. PICK t : t = a \o b  OBVIOUS
<1>6. t \in Seq(S) /\ Len(t) = n + (m - n)
  BY <1>3, <1>4, <1>5, ConcatProperties
<1>7. \A i \in 1..(n + (m - n)) : t[i] = IF i <= n THEN a[i] ELSE b[i - n]
  BY <1>3, <1>4, <1>5, ConcatProperties
<1>8. n \in 0..m /\ n + (m - n) = m  BY <1>1
<1>9. ASSUME NEW i \in 1..m PROVE t[i] = s[i]
  <2>1. CASE i <= n
    <3>1. i \in 1..n  BY <1>8, <2>1
    <3> QED BY <1>3, <1>7, <1>8, <2>1, <3>1
  <2>2. CASE ~(i <= n)
    <3>1. i - n \in 1..(m - n) /\ (i - n) + n = i  BY <1>8, <2>2
    <3>2. b[i - n] = s[i]  BY <1>4, <3>1
    <3> QED BY <1>7, <1>8, <2>2, <3>2
  <2> QED BY <2>1, <2>2
<1>10. Len(t) = Len(s)  BY <1>1, <1>6, <1>8
<1>11. t = s  BY <1>1, <1>6, <1>9, <1>10, SeqEqual
<1> QED BY <1>2, <1>5, <1>11

\* The first l bytes of w are u and r.
Has(w, l, u, r) == SubSeq(w, 1, l) = u \o r

RestIs(a, b, r, n) ==
    Len(a) + Len(r) = n /\ Len(r) \in 0..Len(b) /\ r = SubSeq(b, 1, Len(r))

\* What follows a in a prefix of a \o b is a prefix of b.
LEMMA PrefixRest ==
    ASSUME NEW S, NEW a \in Seq(S), NEW b \in Seq(S), NEW r \in Seq(S),
           NEW n \in 0..Len(a \o b), Has(a \o b, n, a, r)
    PROVE  RestIs(a, b, r, n)
<1>1. PICK i \in Nat, j \in Nat, k \in Nat : i = Len(a) /\ j = Len(b) /\ k = Len(r)
  BY LenProperties
<1>2. PICK s : s = a \o b  OBVIOUS
<1>3. s \in Seq(S) /\ Len(s) = i + j  BY <1>1, <1>2, ConcatProperties
<1>4. \A x \in 1..(i + j) : s[x] = IF x <= i THEN a[x] ELSE b[x - i]
  BY <1>1, <1>2, ConcatProperties
<1>5. PICK p : p = a \o r  OBVIOUS
<1>6. Len(p) = i + k  BY <1>1, <1>5, ConcatProperties
<1>7. \A x \in 1..(i + k) : p[x] = IF x <= i THEN a[x] ELSE r[x - i]
  BY <1>1, <1>5, ConcatProperties
<1>8. p = SubSeq(s, 1, n) /\ n \in 0..Len(s)  BY <1>2, <1>5 DEF Has
<1>9. Len(p) = n /\ \A x \in 1..n : p[x] = s[x]  BY <1>3, <1>8, Takes
<1>10. i + k = n /\ k \in 0..j  BY <1>3, <1>6, <1>8, <1>9
<1>11. PICK t : t = SubSeq(b, 1, k)  OBVIOUS
<1>12. t \in Seq(S) /\ Len(t) = k /\ \A x \in 1..k : t[x] = b[x]
  BY <1>1, <1>10, <1>11, Takes
<1>13. ASSUME NEW x \in 1..k PROVE r[x] = t[x]
  <2>1. x + i \in 1..(i + k) /\ x + i \in 1..(i + j) /\ ~(x + i <= i) /\ (x + i) - i = x
    BY <1>10
  <2>2. p[x + i] = r[x] /\ s[x + i] = b[x]  BY <1>4, <1>7, <2>1
  <2>3. p[x + i] = s[x + i]  BY <1>9, <1>10, <2>1
  <2> QED BY <1>12, <2>2, <2>3
<1>14. r = t  BY <1>1, <1>12, <1>13, SeqEqual
<1> QED BY <1>1, <1>10, <1>11, <1>14 DEF RestIs

\* A prefix of a \o b that has the length of a is a and a prefix of b.
LEMMA PrefixLonger ==
    ASSUME NEW S, NEW a \in Seq(S), NEW b \in Seq(S), NEW n \in Len(a)..Len(a \o b)
    PROVE  \E r \in Seq(S) : /\ SubSeq(a \o b, 1, n) = a \o r
                             /\ r = SubSeq(b, 1, n - Len(a)) /\ Len(r) = n - Len(a)
<1>1. PICK i \in Nat, j \in Nat : i = Len(a) /\ j = Len(b)  BY LenProperties
<1>2. PICK s : s = a \o b  OBVIOUS
<1>3. s \in Seq(S) /\ Len(s) = i + j  BY <1>1, <1>2, ConcatProperties
<1>4. \A x \in 1..(i + j) : s[x] = IF x <= i THEN a[x] ELSE b[x - i]
  BY <1>1, <1>2, ConcatProperties
<1>5. n \in 0..Len(s) /\ n - i \in 0..j /\ n \in i..(i + j)  BY <1>1, <1>2, <1>3
<1>6. PICK r : r = SubSeq(b, 1, n - i)  OBVIOUS
<1>7. r \in Seq(S) /\ Len(r) = n - i /\ \A x \in 1..(n - i) : r[x] = b[x]
  BY <1>1, <1>5, <1>6, Takes
<1>8. PICK p : p = SubSeq(s, 1, n)  OBVIOUS
<1>9. p \in Seq(S) /\ Len(p) = n /\ \A x \in 1..n : p[x] = s[x]  BY <1>3, <1>5, <1>8, Takes
<1>10. PICK q : q = a \o r  OBVIOUS
<1>11. q \in Seq(S) /\ Len(q) = i + (n - i)
  BY <1>1, <1>7, <1>10, ConcatProperties
<1>12. \A x \in 1..(i + (n - i)) : q[x] = IF x <= i THEN a[x] ELSE r[x - i]
  BY <1>1, <1>7, <1>10, ConcatProperties
<1>13. i + (n - i) = n  BY <1>5
<1>14. ASSUME NEW x \in 1..n PROVE p[x] = q[x]
  <2>1. x \in 1..(i + j)  BY <1>5
  <2>2. CASE x <= i  BY <1>4, <1>9, <1>12, <1>13, <2>1, <2>2
  <2>3. CASE ~(x <= i)
    <3>1. x - i \in 1..(n - i)  BY <1>5, <2>3
    <3>2. r[x - i] = b[x - i]  BY <1>7, <3>1
    <3> QED BY <1>4, <1>9, <1>12, <1>13, <2>1, <2>3, <3>2
  <2> QED BY <2>2, <2>3
<1>15. p = q  BY <1>9, <1>11, <1>13, <1>14, SeqEqual
<1> QED BY <1>1, <1>2, <1>6, <1>7, <1>8, <1>10, <1>15

-----------------------------------------------------------------------------
(* CarArchive: reading what was written *)

\* The first of the bytes that have no continuation bit ends the varint.
LEMMA ReadIs ==
    ASSUME NEW s \in Seq(Car!Byte), NEW n \in 1..3, n <= Len(s), s[n] < 4,
           \A i \in 1..3 : i < n => ~(s[i] < 4)
    PROVE  Car!ReadVarint(s) = [ok |-> TRUE, value |-> Car!Joined(s, n),
                                rest |-> SubSeq(s, n + 1, Len(s))]
<1>1. PICK ends : ends = {i \in 1..3 : i <= Len(s) /\ s[i] < Car!More}  OBVIOUS
<1>2. n \in ends /\ ends # {}  BY <1>1, Words
<1>3. \A i \in ends : i \in 1..3 /\ ~(i < n)  BY <1>1, Words
<1>4. \A i \in ends : n <= i  BY <1>3
<1>5. Car!Min(ends) = n
  <2>1. PICK m : m = CHOOSE x \in ends : \A y \in ends : x <= y  OBVIOUS
  <2>2. m \in ends /\ \A y \in ends : m <= y  BY <1>2, <1>4, <2>1
  <2>3. m \in 1..3 /\ m <= n /\ n <= m  BY <1>2, <1>3, <1>4, <2>2
  <2>4. m = n  BY <2>3
  <2> QED BY <2>1, <2>4 DEF Car!Min
<1> QED BY <1>1, <1>2, <1>5 DEF Car!ReadVarint

LEMMA ReadNothing ==
    ASSUME NEW s, \A i \in 1..3 : i <= Len(s) => ~(s[i] < 4)
    PROVE  ~Car!ReadVarint(s).ok
<1>1. {i \in 1..3 : i <= Len(s) /\ s[i] < Car!More} = {}  BY Words
<1> QED BY <1>1 DEF Car!ReadVarint, Car!Failed

LEMMA ReadBack ==
    ASSUME NEW n \in 0..31, NEW x \in Seq(Car!Byte)
    PROVE  Car!ReadVarint(Car!Varint(n) \o x) = [ok |-> TRUE, value |-> n, rest |-> x]
<1>1. PICK v : v = Car!Varint(n)  OBVIOUS
<1>2. PICK m \in 1..3 : m = Len(v)  BY <1>1, VarintIs
<1>3. /\ v \in Seq(Car!Byte) /\ \A i \in 1..m : v[i] < 4 <=> i = m
      /\ m = 1 => v[1] = n
      /\ m = 2 => (v[1] % 4) + v[2] * 4 = n
      /\ m = 3 => (v[1] % 4) + (v[2] % 4) * 4 + v[3] * 16 = n
  BY <1>1, <1>2, VarintIs
<1>4. PICK s : s = v \o x  OBVIOUS
<1>5. PICK k \in Nat : k = Len(x)  BY LenProperties
<1>6. s \in Seq(Car!Byte) /\ Len(s) = m + k  BY <1>2, <1>3, <1>4, <1>5, ConcatProperties
<1>7. \A i \in 1..m : s[i] = v[i]
  <2>1. \A i \in 1..(m + k) : s[i] = IF i <= m THEN v[i] ELSE x[i - m]
    BY <1>2, <1>3, <1>4, <1>5, ConcatProperties
  <2>2. \A i \in 1..m : i \in 1..(m + k) /\ i <= m  OBVIOUS
  <2> QED BY <2>1, <2>2
<1>8. \A i \in 1..m : s[i] \in 0..7
  <2>1. \A i \in 1..m : i \in 1..Len(s)  BY <1>6
  <2> QED BY <1>6, <2>1, ElementOfSeq, Words
<1>9. Car!ReadVarint(s) = [ok |-> TRUE, value |-> Car!Joined(s, m), rest |-> SubSeq(s, m + 1, Len(s))]
  <2>1. m <= Len(s) /\ m \in 1..m  BY <1>6
  <2>2. s[m] < 4  BY <1>3, <1>7, <2>1
  <2>3. ASSUME NEW i \in 1..3, i < m PROVE ~(s[i] < 4)
    <3>1. i \in 1..m /\ i # m  BY <2>3
    <3> QED BY <1>3, <1>7, <3>1
  <2> QED BY <1>6, <2>1, <2>2, <2>3, ReadIs
<1>10. SubSeq(s, m + 1, Len(s)) = x  BY <1>2, <1>3, <1>4, Halves
<1>11. Car!Joined(s, m) = n
  <2>1. CASE m = 1
    <3>1. Car!Joined(s, 1) = (s[1] % 4) % 32  BY <1>6, <2>1, JoinedIs
    <3>2. s[1] = n /\ n < 4  BY <1>3, <1>7, <2>1
    <3> QED BY <2>1, <3>1, <3>2
  <2>2. CASE m = 2
    <3>1. Car!Joined(s, 2) = ((s[1] % 4) + (s[2] % 4) * 4) % 32  BY <1>6, <2>2, JoinedIs
    <3>2. /\ s[1] \in 0..7 /\ s[2] \in 0..7 /\ s[2] < 4
          /\ (s[1] % 4) + s[2] * 4 = n
      BY <1>3, <1>7, <1>8, <2>2
    <3>3. s[2] % 4 = s[2]  BY <3>2
    <3>4. Car!Joined(s, 2) = n % 32  BY <3>1, <3>2, <3>3
    <3>5. n % 32 = n  OBVIOUS
    <3> QED BY <2>2, <3>4, <3>5
  <2>3. CASE m = 3
    <3>1. Car!Joined(s, 3) = ((s[1] % 4) + (s[2] % 4) * 4 + (s[3] % 4) * 16) % 32
      BY <1>6, <2>3, JoinedIs
    <3>2. /\ s[1] \in 0..7 /\ s[2] \in 0..7 /\ s[3] \in 0..7 /\ s[3] < 4
          /\ (s[1] % 4) + (s[2] % 4) * 4 + s[3] * 16 = n
      BY <1>3, <1>7, <1>8, <2>3
    <3>3. s[3] % 4 = s[3]  BY <3>2
    <3>4. Car!Joined(s, 3) = n % 32  BY <3>1, <3>2, <3>3
    <3>5. n % 32 = n  OBVIOUS
    <3> QED BY <2>3, <3>4, <3>5
  <2> QED BY <2>1, <2>2, <2>3
<1> QED BY <1>1, <1>4, <1>9, <1>10, <1>11

\* A piece of data that follows its length is read if it is there as a whole.
LEMMA WholePiece ==
    ASSUME NEW body \in Seq(Car!Byte), NEW c \in 0..31, c = Len(body), NEW y \in Seq(Car!Byte)
    PROVE  Car!ReadVarint((Car!Varint(c) \o body) \o y) = [ok |-> TRUE, value |-> c, rest |-> body \o y]
<1>1. PICK v \in Seq(Car!Byte) : v = Car!Varint(c)  BY VarintIs
<1>2. Associate(v, body, y)  BY BytesAssociate
<1>3. body \o y \in Seq(Car!Byte)  BY ConcatProperties
<1>4. Car!ReadVarint(v \o (body \o y)) = [ok |-> TRUE, value |-> c, rest |-> body \o y]
  BY <1>1, <1>3, ReadBack
<1> QED BY <1>1, <1>2, <1>4 DEF Associate

\* If it was cut, its length is not read or is greater than what is left.
LEMMA CutPiece ==
    ASSUME NEW body \in Seq(Car!Byte), NEW c \in 0..31, c = Len(body), NEW x \in Seq(Car!Byte),
           NEW m \in Nat, m < Len(Car!Varint(c) \o body)
    PROVE  LET r == SubSeq((Car!Varint(c) \o body) \o x, 1, m)
           IN  ~Car!ReadVarint(r).ok \/ ~(Car!ReadVarint(r).value <= Len(Car!ReadVarint(r).rest))
<1>1. PICK v : v = Car!Varint(c)  OBVIOUS
<1>2. PICK l \in 1..3 : l = Len(v)  BY <1>1, VarintIs
<1>3. v \in Seq(Car!Byte) /\ \A i \in 1..l : v[i] < 4 <=> i = l  BY <1>1, <1>2, VarintIs
<1>4. l \in Nat  OBVIOUS
<1>5. m < l + c
  <2>1. Len(v \o body) = Len(v) + Len(body)  BY <1>3, ConcatProperties
  <2>2. m < Len(v \o body)  BY <1>1
  <2> QED BY <1>2, <2>1, <2>2
<1>6. PICK k \in Nat : k = Len(x)  BY LenProperties
<1>7. PICK bx : bx = body \o x  OBVIOUS
<1>8. bx \in Seq(Car!Byte) /\ Len(bx) = c + k  BY <1>6, <1>7, ConcatProperties
<1>9. PICK all : all = v \o bx  OBVIOUS
<1>10. (Car!Varint(c) \o body) \o x = all
  <2>1. Associate(v, body, x)  BY <1>3, BytesAssociate
  <2> QED BY <1>1, <1>7, <1>9, <2>1 DEF Associate
<1>11. all \in Seq(Car!Byte) /\ Len(all) = l + (c + k)
  <2>1. all \in Seq(Car!Byte) /\ Len(all) = Len(v) + Len(bx)
    BY <1>3, <1>8, <1>9, ConcatProperties
  <2> QED BY <1>2, <1>8, <2>1
<1>12. PICK r : r = SubSeq(all, 1, m)  OBVIOUS
<1>13. m \in 0..Len(all)  BY <1>4, <1>5, <1>11
<1>14. CASE m < l
  <2>1. Len(r) = m /\ \A i \in 1..m : r[i] = all[i]  BY <1>11, <1>12, <1>13, Takes
  <2>2. \A i \in 1..(l + (c + k)) : all[i] = IF i <= l THEN v[i] ELSE bx[i - l]
    BY <1>2, <1>3, <1>8, <1>9, ConcatProperties
  <2>3. ASSUME NEW i \in 1..3, i <= Len(r) PROVE ~(r[i] < 4)
    <3>1. i \in 1..m /\ i \in 1..l /\ i # l /\ i <= l /\ i \in 1..(l + (c + k))
      BY <1>14, <2>1, <2>3
    <3>2. r[i] = v[i]  BY <2>1, <2>2, <3>1
    <3> QED BY <1>3, <3>1, <3>2
  <2>4. ~Car!ReadVarint(r).ok  BY <2>3, ReadNothing
  <2> QED BY <1>10, <1>12, <2>4
<1>15. CASE m >= l
  <2>1. PICK z \in Seq(Car!Byte) : r = v \o z /\ Len(z) = m - l
    <3>1. m \in Len(v)..Len(v \o bx)
      <4>1. m \in l..(l + (c + k))  BY <1>5, <1>15
      <4> QED BY <1>2, <1>9, <1>11, <4>1
    <3>2. \E y \in Seq(Car!Byte) : /\ SubSeq(v \o bx, 1, m) = v \o y
                                   /\ y = SubSeq(bx, 1, m - Len(v)) /\ Len(y) = m - Len(v)
      BY <1>3, <1>8, <3>1, PrefixLonger
    <3> QED BY <1>2, <1>9, <1>12, <3>2
  <2>2. Car!ReadVarint(r) = [ok |-> TRUE, value |-> c, rest |-> z]  BY <1>1, <2>1, ReadBack
  <2>3. Car!ReadVarint(r).value = c /\ Car!ReadVarint(r).rest = z  BY <2>2
  <2>4. c > m - l  BY <1>5, <1>15
  <2>5. ~(c <= Len(z))
    <3>1. Len(z) = m - l  BY <2>1
    <3>2. ~(c <= m - l)  BY <2>4
    <3> QED BY <3>1, <3>2
  <2> QED BY <1>10, <1>12, <2>3, <2>5
<1> QED BY <1>14, <1>15
-----------------------------------------------------------------------------
(* CarArchive: the encoder *)

\* f is the function of Encoded on the first n blocks.
Opening(h) == Car!Varint(Len(h)) \o h
Longer(bytes, b) == bytes \o Car!Section(b)
EncodedBy(f, a, h, n) ==
    f = [i \in 0..n |-> IF i = 0 THEN Opening(h) ELSE Longer(f[i - 1], a[i])]

LEMMA EncodedByStep ==
    ASSUME NEW f, NEW a, NEW h, NEW n \in Nat, EncodedBy(f, a, h, n)
    PROVE  /\ f[0] = Opening(h)
           /\ \A i \in 0..n : i # 0 => f[i] = Longer(f[i - 1], a[i])
BY DEF EncodedBy

LEMMA EncodedByExists ==
    ASSUME NEW a, NEW h
    PROVE  \A n \in Nat : \E f : EncodedBy(f, a, h, n)
<1>1. PICK S : S = {n \in Nat : \E f : EncodedBy(f, a, h, n)}  OBVIOUS
<1>2. 0 \in S
  <2>1. PICK f : f = [i \in 0..0 |-> Opening(h)]  OBVIOUS
  <2>2. EncodedBy(f, a, h, 0)  BY <2>1 DEF EncodedBy
  <2> QED BY <1>1, <2>2
<1>3. ASSUME NEW n \in Nat, n \in S PROVE n + 1 \in S
  <2>1. PICK f : EncodedBy(f, a, h, n)  BY <1>1, <1>3
  <2>2. PICK top : top = Longer(f[n], a[n + 1])  OBVIOUS
  <2>3. PICK g : g = [i \in 0..(n + 1) |-> IF i = n + 1 THEN top ELSE f[i]]  OBVIOUS
  <2>4. \A i \in 0..(n + 1) :
            g[i] = IF i = 0 THEN Opening(h) ELSE Longer(g[i - 1], a[i])
    <3> SUFFICES ASSUME NEW i \in 0..(n + 1)
                 PROVE  g[i] = IF i = 0 THEN Opening(h) ELSE Longer(g[i - 1], a[i])
      OBVIOUS
    <3>1. CASE i = n + 1
      <4>1. g[i] = top /\ g[i - 1] = f[n] /\ i # 0  BY <2>3, <3>1
      <4> QED BY <2>2, <3>1, <4>1
    <3>2. CASE i = 0
      <4>1. g[i] = f[0]  BY <2>3, <3>2
      <4> QED BY <2>1, <3>2, <4>1, EncodedByStep
    <3>3. CASE i # n + 1 /\ i # 0
      <4>1. i \in 0..n /\ i - 1 \in 0..n  BY <3>3
      <4>2. g[i] = f[i] /\ g[i - 1] = f[i - 1]  BY <2>3, <3>3, <4>1
      <4> QED BY <2>1, <3>3, <4>1, <4>2, EncodedByStep
    <3> QED BY <3>1, <3>2, <3>3
  <2>5. EncodedBy(g, a, h, n + 1)  BY <2>3, <2>4 DEF EncodedBy
  <2> QED BY <1>1, <2>5
<1>4. Nat \subseteq S  BY <1>2, <1>3, UpFromZero
<1> QED BY <1>1, <1>4

\* The function depends on the blocks it has passed and on nothing else.
LEMMA EncodedByAgree ==
    ASSUME NEW a, NEW b, NEW h, NEW n \in Nat, NEW m \in Nat, n <= m,
           NEW f, EncodedBy(f, a, h, n), NEW g, EncodedBy(g, b, h, m),
           \A i \in 1..n : a[i] = b[i]
    PROVE  \A i \in 0..n : f[i] = g[i]
<1>1. PICK S : S = {i \in Nat : i <= n => f[i] = g[i]}  OBVIOUS
<1>2. 0 \in S  BY <1>1, EncodedByStep
<1>3. ASSUME NEW i \in Nat, i \in S PROVE i + 1 \in S
  <2> SUFFICES ASSUME i + 1 <= n PROVE f[i + 1] = g[i + 1]  BY <1>1
  <2>1. i + 1 \in 0..n /\ i + 1 \in 0..m /\ i + 1 # 0 /\ i + 1 \in 1..n /\ (i + 1) - 1 = i
    OBVIOUS
  <2>2. f[i] = g[i]  BY <1>1, <1>3
  <2>3. a[i + 1] = b[i + 1]  BY <2>1
  <2>4. f[i + 1] = Longer(f[i], a[i + 1])  BY <2>1, EncodedByStep
  <2>5. g[i + 1] = Longer(g[i], b[i + 1])  BY <2>1, EncodedByStep
  <2> QED BY <2>2, <2>3, <2>4, <2>5
<1>4. Nat \subseteq S  BY <1>2, <1>3, UpFromZero
<1> QED BY <1>1, <1>4

LEMMA EncodedIsLast ==
    ASSUME NEW B, NEW a \in Seq(B), NEW h
    PROVE  \E f : EncodedBy(f, a, h, Len(a)) /\ Car!Encoded(a, h) = f[Len(a)]
<1>1. Len(a) \in Nat  BY LenProperties
<1>2. PICK f : f = CHOOSE g : EncodedBy(g, a, h, Len(a))  OBVIOUS
<1>3. EncodedBy(f, a, h, Len(a))  BY <1>1, <1>2, EncodedByExists
<1>4. Car!Encoded(a, h) = f[Len(a)]  BY <1>2 DEF Car!Encoded, EncodedBy, Opening, Longer
<1> QED BY <1>3, <1>4

\* What is encoded of the first i blocks: the header, then section by section.
Upto(a, h, i) == Car!Encoded(SubSeq(a, 1, i), h)

LEMMA UptoIs ==
    ASSUME NEW B, NEW a \in Seq(B), NEW h
    PROVE  /\ Upto(a, h, 0) = Car!Varint(Len(h)) \o h
           /\ \A i \in 1..Len(a) : Upto(a, h, i) = Upto(a, h, i - 1) \o Car!Section(a[i])
           /\ Upto(a, h, Len(a)) = Car!Encoded(a, h)
<1>1. PICK n \in Nat : n = Len(a)  BY LenProperties
<1>2. PICK f : EncodedBy(f, a, h, n) /\ Car!Encoded(a, h) = f[n]  BY <1>1, EncodedIsLast
<1>3. ASSUME NEW i \in 0..n PROVE Upto(a, h, i) = f[i]
  <2>1. PICK b : b = SubSeq(a, 1, i)  OBVIOUS
  <2>2. b \in Seq(B) /\ Len(b) = i /\ \A j \in 1..i : b[j] = a[j]  BY <1>1, <2>1, Takes
  <2>3. PICK g : EncodedBy(g, b, h, i) /\ Car!Encoded(b, h) = g[i]  BY <2>2, EncodedIsLast
  <2>4. i \in Nat /\ i <= n /\ i \in 0..i  OBVIOUS
  <2>5. \A j \in 0..i : g[j] = f[j]
    <3>1. EncodedBy(g, b, h, i) /\ EncodedBy(f, a, h, n)  BY <1>2, <2>3
    <3>2. \A j \in 1..i : b[j] = a[j]  BY <2>2
    <3> QED BY <2>4, <3>1, <3>2, EncodedByAgree
  <2> QED BY <2>1, <2>3, <2>4, <2>5 DEF Upto
<1>4. f[0] = Opening(h) /\ \A i \in 0..n : i # 0 => f[i] = Longer(f[i - 1], a[i])
  BY <1>2, EncodedByStep
<1>5. Upto(a, h, 0) = Car!Varint(Len(h)) \o h
  <2>1. 0 \in 0..n  OBVIOUS
  <2> QED BY <1>3, <1>4, <2>1 DEF Opening
<1>6. ASSUME NEW i \in 1..n PROVE Upto(a, h, i) = Upto(a, h, i - 1) \o Car!Section(a[i])
  <2>1. i \in 0..n /\ i - 1 \in 0..n /\ i # 0  OBVIOUS
  <2>2. Upto(a, h, i) = f[i] /\ Upto(a, h, i - 1) = f[i - 1]  BY <1>3, <2>1
  <2>3. f[i] = Longer(f[i - 1], a[i])  BY <1>4, <2>1
  <2> QED BY <2>2, <2>3 DEF Longer
<1>7. Upto(a, h, n) = Car!Encoded(a, h)
  <2>1. n \in 0..n  OBVIOUS
  <2> QED BY <1>2, <1>3, <2>1
<1> QED BY <1>1, <1>5, <1>6, <1>7

Body(b) == b.cid \o b.data

LEMMA BodyIs ==
    ASSUME NEW b \in CarBlocks
    PROVE  /\ b.cid \in Seq(Car!Byte) /\ Car!IsCid(b.cid) /\ b.data \in Seq(Car!Byte) /\ b.data # <<>>
           /\ Body(b) \in Seq(Car!Byte) /\ Len(Body(b)) \in 1..31
           /\ Len(Body(b)) = Len(b.cid) + Len(b.data)
           /\ Car!Section(b) = Car!Varint(Len(Body(b))) \o Body(b)
           /\ Car!Section(b) \in Seq(Car!Byte)
<1>1. b.cid \in Seq(Car!Byte) /\ Car!IsCid(b.cid) /\ b.data \in Seq(Car!Byte) /\ b.data # <<>>
      /\ Len(b.cid) + Len(b.data) < 2 ^ Car!Width
  BY CarAssumption
<1>2. PICK c, d : c = b.cid /\ d = b.data  OBVIOUS
<1>3. PICK n \in Nat, m \in Nat : n = Len(c) /\ m = Len(d)  BY <1>1, <1>2, LenProperties
<1>4. m # 0  BY <1>1, <1>2, <1>3, EmptySeq
<1>5. PICK w : w = c \o d  OBVIOUS
<1>6. w \in Seq(Car!Byte) /\ Len(w) = n + m  BY <1>1, <1>2, <1>3, <1>5, ConcatProperties
<1>7. n + m \in 1..31
  <2>1. Len(c) + Len(d) < 32  BY <1>1, <1>2, Words
  <2>2. n + m < 32  BY <1>3, <2>1
  <2>3. n \in Nat /\ m \in Nat  BY <1>3
  <2> QED BY <1>4, <2>2, <2>3
<1>8. PICK l \in 0..31 : l = n + m  BY <1>7
<1>9. PICK v \in Seq(Car!Byte) : v = Car!Varint(l)  BY VarintIs
<1>10. Associate(v, c, d)
  <2>1. c \in Seq(Car!Byte) /\ d \in Seq(Car!Byte)  BY <1>1, <1>2
  <2> QED BY <2>1, BytesAssociate
<1>11. Car!Section(b) = v \o w
  BY <1>2, <1>5, <1>6, <1>8, <1>9, <1>10 DEF Car!Section, Associate
<1>12. v \o w \in Seq(Car!Byte)  BY <1>6, ConcatProperties
<1> QED BY <1>1, <1>2, <1>3, <1>5, <1>6, <1>7, <1>8, <1>9, <1>11, <1>12 DEF Body

LEMMA HeaderIs ==
    ASSUME NEW h \in CarHeaders
    PROVE  h \in Seq(Car!Byte) /\ Len(h) \in 0..31 /\ Car!Varint(Len(h)) \o h \in Seq(Car!Byte)
<1>1. h \in Seq(Car!Byte) /\ Len(h) < 32  BY CarAssumption, Words
<1>2. PICK l \in Nat : l = Len(h)  BY <1>1, LenProperties
<1>3. l \in 0..31
  <2>1. l \in Nat /\ l < 32  BY <1>1, <1>2
  <2> QED BY <2>1
<1>4. Car!Varint(l) \in Seq(Car!Byte)  BY <1>3, VarintIs
<1>5. Car!Varint(l) \o h \in Seq(Car!Byte)  BY <1>1, <1>4, ConcatProperties
<1> QED BY <1>1, <1>2, <1>3, <1>5

LEMMA UptoIsASeq ==
    ASSUME NEW a \in Seq(CarBlocks), NEW h \in CarHeaders
    PROVE  \A i \in 0..Len(a) : Upto(a, h, i) \in Seq(Car!Byte)
<1>1. PICK n \in Nat : n = Len(a)  BY LenProperties
<1>2. PICK S : S = {i \in Nat : i <= n => Upto(a, h, i) \in Seq(Car!Byte)}  OBVIOUS
<1>3. 0 \in S  BY <1>2, HeaderIs, UptoIs
<1>4. ASSUME NEW i \in Nat, i \in S PROVE i + 1 \in S
  <2> SUFFICES ASSUME i + 1 <= n PROVE Upto(a, h, i + 1) \in Seq(Car!Byte)  BY <1>2
  <2>1. PICK j : j = i + 1  OBVIOUS
  <2>2. j \in 1..n /\ j - 1 = i  BY <2>1
  <2>3. Upto(a, h, j) = Upto(a, h, i) \o Car!Section(a[j])  BY <1>1, <2>2, UptoIs
  <2>4. a[j] \in CarBlocks  BY <1>1, <2>2, ElementOfSeq
  <2>5. Car!Section(a[j]) \in Seq(Car!Byte)  BY <2>4, BodyIs
  <2>6. Upto(a, h, i) \in Seq(Car!Byte)  BY <1>2, <1>4
  <2>7. Upto(a, h, i) \o Car!Section(a[j]) \in Seq(Car!Byte)  BY <2>5, <2>6, BytesConcat
  <2> QED BY <2>1, <2>3, <2>7
<1>5. Nat \subseteq S  BY <1>3, <1>4, UpFromZero
<1> QED BY <1>1, <1>2, <1>5

\* What is encoded of more blocks continues what is encoded of fewer.
LEMMA UptoContinues ==
    ASSUME NEW a \in Seq(CarBlocks), NEW h \in CarHeaders, NEW i \in 0..Len(a)
    PROVE  \A j \in i..Len(a) : \E t \in Seq(Car!Byte) : Upto(a, h, j) = Upto(a, h, i) \o t
<1>1. PICK n \in Nat : n = Len(a)  BY LenProperties
<1>2. PICK S : S = {d \in Nat : i + d <= n =>
                        \E t \in Seq(Car!Byte) : Upto(a, h, i + d) = Upto(a, h, i) \o t}
  OBVIOUS
<1>3. i \in Nat /\ i \in 0..n  BY <1>1
<1>4. 0 \in S
  <2>1. Upto(a, h, i) \in Seq(Car!Byte)  BY UptoIsASeq
  <2>2. Upto(a, h, i) = Upto(a, h, i) \o <<>> /\ <<>> \in Seq(Car!Byte)
    BY <2>1, ConcatEmptySeq, EmptySeq
  <2>3. i + 0 = i  BY <1>3
  <2> QED BY <1>2, <2>2, <2>3
<1>5. ASSUME NEW d \in Nat, d \in S PROVE d + 1 \in S
  <2> SUFFICES ASSUME i + (d + 1) <= n
               PROVE  \E t \in Seq(Car!Byte) : Upto(a, h, i + (d + 1)) = Upto(a, h, i) \o t
    BY <1>2
  <2>1. PICK j : j = i + (d + 1)  OBVIOUS
  <2>2. j \in 1..n /\ j - 1 = i + d /\ i + d <= n  BY <1>3, <2>1
  <2>3. Upto(a, h, j) = Upto(a, h, i + d) \o Car!Section(a[j])
    <3>1. Upto(a, h, j) = Upto(a, h, j - 1) \o Car!Section(a[j])  BY <1>1, <2>2, UptoIs
    <3> QED BY <2>2, <3>1
  <2>4. a[j] \in CarBlocks  BY <1>1, <2>2, ElementOfSeq
  <2>5. PICK s \in Seq(Car!Byte) : s = Car!Section(a[j])  BY <2>4, BodyIs
  <2>6. PICK t \in Seq(Car!Byte) : Upto(a, h, i + d) = Upto(a, h, i) \o t
    BY <1>2, <1>5, <2>2
  <2>7. PICK u \in Seq(Car!Byte) : u = Upto(a, h, i)  BY UptoIsASeq
  <2>8. Associate(u, t, s)  BY BytesAssociate
  <2>9. t \o s \in Seq(Car!Byte)  BY BytesConcat
  <2> QED BY <2>1, <2>3, <2>5, <2>6, <2>7, <2>8, <2>9 DEF Associate
<1>6. Nat \subseteq S  BY <1>4, <1>5, UpFromZero
<1>7. ASSUME NEW j \in i..n
      PROVE  \E t \in Seq(Car!Byte) : Upto(a, h, j) = Upto(a, h, i) \o t
  <2>1. PICK d \in Nat : d = j - i  BY <1>3
  <2>2. i + d = j /\ i + d <= n  BY <1>3, <2>1
  <2>3. d \in S  BY <1>6
  <2> QED BY <1>2, <2>2, <2>3
<1> QED BY <1>1, <1>7
-----------------------------------------------------------------------------
(* CarArchive: CIDs *)

LEMMA OneIs == Car!Varint(1) \in Seq(Car!Byte) /\ Len(Car!Varint(1)) = 1 /\ Car!Varint(1)[1] = 1
<1>1. 1 \in 0..31  OBVIOUS
<1>2. PICK v : v = Car!Varint(1)  OBVIOUS
<1>3. /\ v \in Seq(Car!Byte) /\ Len(v) \in 1..3
      /\ \A i \in 1..Len(v) : v[i] < 4 <=> i = Len(v)
      /\ Len(v) = 1 => v[1] = 1
      /\ Len(v) = 2 => (v[1] % 4) + v[2] * 4 = 1
      /\ Len(v) = 3 => (v[1] % 4) + (v[2] % 4) * 4 + v[3] * 16 = 1
  BY <1>1, <1>2, VarintIs
<1>4. Car!Varint(1) = [i \in 1..1 |-> 1]
  <2>1. \A d \in 1..3 : d = 1 \/ d = 2 \/ d = 3  OBVIOUS
  <2>2. /\ (1 < Car!More ^ 1 /\ (1 = 1 \/ 1 >= Car!More ^ (1 - 1)))
        /\ ~(1 < Car!More ^ 2 /\ (2 = 1 \/ 1 >= Car!More ^ (2 - 1)))
        /\ ~(1 < Car!More ^ 3 /\ (3 = 1 \/ 1 >= Car!More ^ (3 - 1)))
    BY Words
  <2>3. 1 = CHOOSE d \in 1..3 : 1 < Car!More ^ d /\ (d = 1 \/ 1 >= Car!More ^ (d - 1))
    BY <2>1, <2>2
  <2>4. PICK one : one = CHOOSE d \in 1..3 : 1 < Car!More ^ d /\ (d = 1 \/ 1 >= Car!More ^ (d - 1))
    OBVIOUS
  <2>5. Car!Varint(1) = [i \in 1..one |-> ((1 \div Car!More ^ (i - 1)) % Car!More) + (IF i < one THEN Car!More ELSE 0)]
    BY <2>4 DEF Car!Varint
  <2>6. one = 1  BY <2>3, <2>4
  <2>7. \A i \in 1..1 : ((1 \div Car!More ^ (i - 1)) % Car!More) + (IF i < 1 THEN Car!More ELSE 0) = 1
    <3>1. Car!More ^ (1 - 1) = 1 /\ 1 \div 1 = 1 /\ 1 % 4 = 1  BY Words
    <3>2. \A i \in 1..1 : i = 1  OBVIOUS
    <3> QED BY <3>1, <3>2, Words
  <2> QED BY <2>5, <2>6, <2>7
<1>5. v = <<1>>  BY <1>2, <1>4
<1> QED BY <1>2, <1>3, <1>5

\* The five parts of a CID and what follows, from the left and from the right.
Regroup(a, b, c, d, x, y) ==
    /\ \E r \in Seq(Car!Byte) : (((a \o b) \o c) \o d) \o x = a \o r
    /\ ((((a \o b) \o c) \o d) \o x) \o y = a \o (b \o (c \o (d \o (x \o y))))

LEMMA Regrouped ==
    \A a, b, c, d, x, y \in Seq(Car!Byte) : Regroup(a, b, c, d, x, y)
<1> SUFFICES ASSUME NEW a \in Seq(Car!Byte), NEW b \in Seq(Car!Byte), NEW c \in Seq(Car!Byte),
                    NEW d \in Seq(Car!Byte), NEW x \in Seq(Car!Byte), NEW y \in Seq(Car!Byte)
             PROVE  Regroup(a, b, c, d, x, y)
  OBVIOUS
<1>1. PICK ab \in Seq(Car!Byte) : ab = a \o b  BY BytesConcat
<1>2. PICK abc \in Seq(Car!Byte) : abc = ab \o c  BY BytesConcat
<1>3. PICK abcd \in Seq(Car!Byte) : abcd = abc \o d  BY BytesConcat
<1>4. PICK xy \in Seq(Car!Byte) : xy = x \o y  BY BytesConcat
<1>5. PICK dxy \in Seq(Car!Byte) : dxy = d \o xy  BY BytesConcat
<1>6. PICK cdxy \in Seq(Car!Byte) : cdxy = c \o dxy  BY BytesConcat
<1>7. Associate(abcd, x, y) /\ Associate(abc, d, xy)  BY BytesAssociate
<1>8. Associate(ab, c, dxy) /\ Associate(a, b, cdxy)  BY BytesAssociate
<1>9. ((((a \o b) \o c) \o d) \o x) \o y = abcd \o xy
  BY <1>1, <1>2, <1>3, <1>4, <1>7 DEF Associate
<1>10. abcd \o xy = abc \o dxy  BY <1>3, <1>5, <1>7 DEF Associate
<1>11. abc \o dxy = ab \o cdxy  BY <1>2, <1>6, <1>8 DEF Associate
<1>12. ab \o cdxy = a \o (b \o (c \o (d \o (x \o y))))
  BY <1>1, <1>4, <1>5, <1>6, <1>8 DEF Associate
<1>13. PICK dx \in Seq(Car!Byte) : dx = d \o x  BY BytesConcat
<1>14. PICK cdx \in Seq(Car!Byte) : cdx = c \o dx  BY BytesConcat
<1>15. PICK r \in Seq(Car!Byte) : r = b \o cdx  BY BytesConcat
<1>16. Associate(abc, d, x) /\ Associate(ab, c, dx) /\ Associate(a, b, cdx)
  BY BytesAssociate
<1>17. (((a \o b) \o c) \o d) \o x = abc \o dx
  BY <1>1, <1>2, <1>13, <1>16 DEF Associate
<1>18. abc \o dx = ab \o cdx  BY <1>2, <1>14, <1>16 DEF Associate
<1>19. ab \o cdx = a \o r  BY <1>1, <1>15, <1>16 DEF Associate
<1>20. (((a \o b) \o c) \o d) \o x = a \o r  BY <1>17, <1>18, <1>19
<1>21. ((((a \o b) \o c) \o d) \o x) \o y = a \o (b \o (c \o (d \o (x \o y))))
  BY <1>9, <1>10, <1>11, <1>12
<1>22. \E q \in Seq(Car!Byte) : (((a \o b) \o c) \o d) \o x = a \o q  BY <1>20
<1> QED BY <1>21, <1>22 DEF Regroup

\* A CID does not begin with a zero, and is read off any data that follows it.
LEMMA CidIs ==
    ASSUME NEW cid \in Seq(Car!Byte), Car!IsCid(cid), NEW data \in Seq(Car!Byte),
           Len(cid) \in 0..31
    PROVE  cid # <<>> /\ cid[1] # 0 /\ Car!CidLength(cid \o data) = Len(cid)
<1>1. PICK n \in Nat, m \in Nat : n = Len(cid) /\ m = Len(data)  BY LenProperties
<1>2. PICK s : s = cid \o data  OBVIOUS
<1>3. s \in Seq(Car!Byte) /\ Len(s) = n + m  BY <1>1, <1>2, ConcatProperties
<1>4. \A i \in 1..(n + m) : s[i] = IF i <= n THEN cid[i] ELSE data[i - n]
  BY <1>1, <1>2, ConcatProperties
<1>5. CarV0 \in Seq(Car!Byte) /\ Len(CarV0) = 2 /\ CarV0[1] # 0 /\ CarV0[1] # 1
  BY CarAssumption
<1>d. data \in Seq(Car!Byte)  OBVIOUS
<1>6. CASE Len(cid) = CarV0Length /\ Len(cid) >= 2 /\ SubSeq(cid, 1, 2) = CarV0
  <2>1. n >= 2 /\ CarV0Length = n  BY <1>1, <1>6
  <2>2. 2 \in 0..n /\ 2 \in 0..Len(s)  BY <1>3, <2>1
  <2>3. PICK p : p = SubSeq(cid, 1, 2)  OBVIOUS
  <2>4. Len(p) = 2 /\ \A i \in 1..2 : p[i] = cid[i]  BY <1>1, <2>2, <2>3, Takes
  <2>5. PICK q : q = SubSeq(s, 1, 2)  OBVIOUS
  <2>6. q \in Seq(Car!Byte) /\ Len(q) = 2 /\ \A i \in 1..2 : q[i] = s[i]
    BY <1>3, <2>2, <2>5, Takes
  <2>7. \A i \in 1..2 : i \in 1..(n + m) /\ i <= n  BY <2>1
  <2>8. \A i \in 1..2 : q[i] = p[i]  BY <1>4, <2>4, <2>6, <2>7
  <2>9. p = CarV0 /\ p \in Seq(Car!Byte)  BY <1>5, <1>6, <2>3
  <2>10. q = CarV0  BY <2>4, <2>6, <2>8, <2>9, SeqEqual
  <2>11. Len(s) >= 2 /\ Len(s) >= CarV0Length  BY <1>3, <2>1
  <2>12. Car!CidLength(s) = CarV0Length  BY <2>5, <2>10, <2>11 DEF Car!CidLength
  <2>13. 1 \in 1..2  OBVIOUS
  <2>14. cid[1] = CarV0[1]  BY <2>4, <2>9, <2>13
  <2>15. cid # <<>>  BY <1>1, <2>1, EmptySeq
  <2> QED BY <1>2, <1>5, <1>6, <2>12, <2>14, <2>15
<1>7. CASE \E codec, hash \in 0..(2 ^ Car!Width - 1), k \in 0..Len(cid) :
              cid = Car!Varint(1) \o Car!Varint(codec) \o Car!Varint(hash) \o Car!Varint(k)
                        \o SubSeq(cid, Len(cid) - k + 1, Len(cid))
  <2>1. PICK codec \in 0..31, hash \in 0..31, k \in 0..n :
            cid = Car!Varint(1) \o Car!Varint(codec) \o Car!Varint(hash) \o Car!Varint(k)
                      \o SubSeq(cid, Len(cid) - k + 1, Len(cid))
    <3>1. 2 ^ Car!Width = 32 /\ 32 - 1 = 31  BY Words
    <3>2. 0..(2 ^ Car!Width - 1) = 0..31  BY <3>1
    <3> QED BY <1>1, <1>7, <3>2
  <2>2. PICK e, f, g, j, d :
            /\ e = Car!Varint(1) /\ f = Car!Varint(codec) /\ g = Car!Varint(hash) /\ j = Car!Varint(k)
            /\ d = SubSeq(cid, Len(cid) - k + 1, Len(cid))
    OBVIOUS
  <2>3. e \in Seq(Car!Byte) /\ Len(e) = 1 /\ e[1] = 1  BY <2>2, OneIs
  <2>4. k \in 0..31
    <3>1. n \in 0..31 /\ k \in 0..n  BY <1>1, <2>1
    <3> QED BY <3>1
  <2>5. f \in Seq(Car!Byte) /\ g \in Seq(Car!Byte) /\ j \in Seq(Car!Byte)
    BY <2>2, <2>4, VarintIs
  <2>6. d \in Seq(Car!Byte) /\ Len(d) = k
    <3>1. n - k \in 0..n /\ n - (n - k) = k  BY <1>1, <2>1
    <3>2. n - k \in 0..Len(cid) /\ d = SubSeq(cid, (n - k) + 1, Len(cid))
      BY <1>1, <2>2, <3>1
    <3>3. d \in Seq(Car!Byte) /\ Len(d) = Len(cid) - (n - k)  BY <3>2, Drops
    <3> QED BY <1>1, <3>1, <3>3
  <2>a. /\ e \in Seq(Car!Byte) /\ f \in Seq(Car!Byte) /\ g \in Seq(Car!Byte) /\ j \in Seq(Car!Byte)
        /\ d \in Seq(Car!Byte)
    BY <2>3, <2>5, <2>6
  <2>b. Regroup(e, f, g, j, d, data)  BY <1>d, <2>a, Regrouped
  <2>7. PICK dd : dd = d \o data  OBVIOUS
  <2>8. dd \in Seq(Car!Byte) /\ Len(dd) = k + m  BY <1>1, <2>6, <2>7, ConcatProperties
  <2>9. PICK jd : jd = j \o dd  OBVIOUS
  <2>10. PICK gd : gd = g \o jd  OBVIOUS
  <2>11. PICK fd : fd = f \o gd  OBVIOUS
  <2>12. jd \in Seq(Car!Byte)  BY <2>5, <2>8, <2>9, ConcatProperties
  <2>13. gd \in Seq(Car!Byte)  BY <2>5, <2>10, <2>12, ConcatProperties
  <2>14. fd \in Seq(Car!Byte)  BY <2>5, <2>11, <2>13, ConcatProperties
  <2>15. cid = (((e \o f) \o g) \o j) \o d  BY <2>1, <2>2
  <2>16. s = e \o fd
    <3>1. ((((e \o f) \o g) \o j) \o d) \o data = e \o (f \o (g \o (j \o (d \o data))))
      BY <2>b DEF Regroup
    <3> QED BY <1>2, <2>7, <2>9, <2>10, <2>11, <2>15, <3>1
  <2>17. PICK c \in Seq(Car!Byte) : cid = e \o c
    <3>1. \E c \in Seq(Car!Byte) : (((e \o f) \o g) \o j) \o d = e \o c
      BY <2>b DEF Regroup
    <3> QED BY <2>15, <3>1
  <2>18. n >= 1 /\ cid[1] = 1
    <3>1. PICK l \in Nat : l = Len(c)  BY LenProperties
    <3>2. c \in Seq(Car!Byte)  BY <2>17
    <3>3. /\ Len(e \o c) = Len(e) + Len(c)
          /\ \A i \in 1..(Len(e) + Len(c)) :
                (e \o c)[i] = IF i <= Len(e) THEN e[i] ELSE c[i - Len(e)]
      BY <2>a, <3>2, ConcatProperties
    <3>4. Len(e) = 1 /\ Len(e) + Len(c) = 1 + l  BY <2>3, <3>1
    <3>5. 1 \in 1..(1 + l) /\ 1 <= 1 /\ 1 + l >= 1  BY <3>1
    <3>6. (e \o c)[1] = e[1]  BY <3>3, <3>4, <3>5
    <3>7. Len(e \o c) >= 1  BY <3>3, <3>4, <3>5
    <3> QED BY <1>1, <2>3, <2>17, <3>6, <3>7
  <2>19. cid # <<>>  BY <1>1, <2>18, EmptySeq
  <2>20. s[1] = 1
    <3>1. 1 \in 1..(n + m) /\ 1 <= n  BY <2>18
    <3> QED BY <1>4, <2>18, <3>1
  <2>21. ~(Len(s) >= 2 /\ SubSeq(s, 1, 2) = CarV0)
    <3> SUFFICES ASSUME Len(s) >= 2, SubSeq(s, 1, 2) = CarV0 PROVE FALSE  OBVIOUS
    <3>1. 2 \in 0..Len(s)  BY <1>3
    <3>2. PICK q : q = SubSeq(s, 1, 2)  OBVIOUS
    <3>3. \A i \in 1..2 : q[i] = s[i]  BY <1>3, <3>1, <3>2, Takes
    <3>4. 1 \in 1..2  OBVIOUS
    <3> QED BY <1>5, <2>20, <3>2, <3>3, <3>4
  <2>22. Car!ReadVarint(s) = [ok |-> TRUE, value |-> 1, rest |-> fd]
    <3>1. 1 \in 0..31  OBVIOUS
    <3> QED BY <2>2, <2>14, <2>16, <3>1, ReadBack
  <2>23. Car!ReadVarint(fd) = [ok |-> TRUE, value |-> codec, rest |-> gd]
    BY <2>2, <2>11, <2>13, ReadBack
  <2>24. Car!ReadVarint(gd) = [ok |-> TRUE, value |-> hash, rest |-> jd]
    BY <2>2, <2>10, <2>12, ReadBack
  <2>25. Car!ReadVarint(jd) = [ok |-> TRUE, value |-> k, rest |-> dd]
    BY <2>2, <2>4, <2>8, <2>9, ReadBack
  <2>26. Car!Then(Car!ReadVarint(s)) = Car!ReadVarint(fd)  BY <2>22 DEF Car!Then
  <2>27. Car!Then(Car!ReadVarint(fd)) = Car!ReadVarint(gd)  BY <2>23 DEF Car!Then
  <2>28. Car!Then(Car!ReadVarint(gd)) = Car!ReadVarint(jd)  BY <2>24 DEF Car!Then
  <2>29. Car!Then(Car!Then(Car!Then(Car!ReadVarint(s)))) = [ok |-> TRUE, value |-> k, rest |-> dd]
    BY <2>25, <2>26, <2>27, <2>28
  <2>30. PICK version, digest :
            /\ version = Car!ReadVarint(s) /\ digest = Car!Then(Car!Then(Car!Then(Car!ReadVarint(s))))
    OBVIOUS
  <2>31. version.value = 1 /\ digest.ok /\ digest.value = k /\ digest.rest = dd
    BY <2>22, <2>29, <2>30
  <2>32. k <= k + m  BY <1>1, <2>4
  <2>33. Car!CidLength(s) = Len(s) - Len(dd) + k
    <3>1. digest.value <= Len(digest.rest)  BY <2>8, <2>31, <2>32
    <3> QED BY <2>21, <2>30, <2>31, <3>1 DEF Car!CidLength
  <2>34. (n + m) - (k + m) + k = n  BY <1>1, <2>4
  <2>35. Car!CidLength(s) = n  BY <1>3, <2>8, <2>33, <2>34
  <2> QED BY <1>1, <1>2, <2>18, <2>19, <2>35
<1> QED BY <1>6, <1>7 DEF Car!IsCid
-----------------------------------------------------------------------------
(* CarArchive: pieces of an archive *)

SectionOf(r) == SubSeq(Car!ReadVarint(r).rest, 1, Car!ReadVarint(r).value)
RestOf(r) == SubSeq(Car!ReadVarint(r).rest, Car!ReadVarint(r).value + 1, Len(Car!ReadVarint(r).rest))
Fits(r) == Car!ReadVarint(r).ok /\ Car!ReadVarint(r).value <= Len(Car!ReadVarint(r).rest)

\* A piece is a body that follows its length.
IsPiece(piece, body) ==
    /\ body \in Seq(Car!Byte) /\ Len(body) \in 0..31
    /\ piece \in Seq(Car!Byte) /\ piece = Car!Varint(Len(body)) \o body

PieceWhole(r, piece, body) ==
    /\ Fits(r) /\ Car!ReadVarint(r).value = Len(body) /\ SectionOf(r) = body
    /\ RestOf(r) \in Seq(Car!Byte) /\ r = piece \o RestOf(r)

LEMMA WholeIsRead ==
    ASSUME NEW piece, NEW body, IsPiece(piece, body), NEW y \in Seq(Car!Byte)
    PROVE  PieceWhole(piece \o y, piece, body)
<1>1. body \in Seq(Car!Byte) /\ Len(body) \in 0..31 /\ piece = Car!Varint(Len(body)) \o body
  BY DEF IsPiece
<1>2. PICK c \in 0..31 : c = Len(body)  BY <1>1
<1>3. PICK r : r = piece \o y  OBVIOUS
<1>4. Car!ReadVarint(r) = [ok |-> TRUE, value |-> c, rest |-> body \o y]
  BY <1>1, <1>2, <1>3, WholePiece
<1>5. PICK z : z = body \o y  OBVIOUS
<1>6. Car!ReadVarint(r).ok /\ Car!ReadVarint(r).value = c /\ Car!ReadVarint(r).rest = z
  BY <1>4, <1>5
<1>7. SubSeq(z, 1, c) = body /\ SubSeq(z, c + 1, Len(z)) = y  BY <1>1, <1>2, <1>5, Halves
<1>8. c <= Len(z)
  <2>1. PICK k \in Nat : k = Len(y)  BY LenProperties
  <2>2. Len(z) = c + k  BY <1>1, <1>2, <1>5, <2>1, ConcatProperties
  <2>3. c <= c + k  BY <2>1
  <2> QED BY <2>2, <2>3
<1>9. Fits(r)  BY <1>6, <1>8 DEF Fits
<1>10. SectionOf(r) = body /\ RestOf(r) = y  BY <1>6, <1>7 DEF SectionOf, RestOf
<1> QED BY <1>2, <1>3, <1>6, <1>9, <1>10 DEF PieceWhole

LEMMA PieceRead ==
    ASSUME NEW piece, NEW body, IsPiece(piece, body), NEW x \in Seq(Car!Byte),
           NEW m \in 0..Len(piece \o x)
    PROVE  \/ m >= Len(piece) /\ PieceWhole(SubSeq(piece \o x, 1, m), piece, body)
           \/ m < Len(piece) /\ ~Fits(SubSeq(piece \o x, 1, m))
<1>1. /\ body \in Seq(Car!Byte) /\ Len(body) \in 0..31 /\ piece \in Seq(Car!Byte)
      /\ piece = Car!Varint(Len(body)) \o body
  BY DEF IsPiece
<1>2. PICK c \in 0..31 : c = Len(body)  BY <1>1
<1>3. PICK l \in Nat, k \in Nat : l = Len(piece) /\ k = Len(x)  BY <1>1, LenProperties
<1>4. Len(piece \o x) = l + k  BY <1>1, <1>3, ConcatProperties
<1>5. m \in 0..(l + k)  BY <1>4
<1>6. CASE m >= l
  <2>1. m \in l..(l + k)  BY <1>5, <1>6
  <2>2. m \in Len(piece)..Len(piece \o x)  BY <1>3, <1>4, <2>1
  <2>a. piece \in Seq(Car!Byte) /\ x \in Seq(Car!Byte)  BY <1>1
  <2>3. \E y \in Seq(Car!Byte) : /\ SubSeq(piece \o x, 1, m) = piece \o y
                                 /\ y = SubSeq(x, 1, m - Len(piece)) /\ Len(y) = m - Len(piece)
    BY <2>a, <2>2, PrefixLonger
  <2>4. PICK y \in Seq(Car!Byte) : SubSeq(piece \o x, 1, m) = piece \o y  BY <2>3
  <2>5. PieceWhole(piece \o y, piece, body)  BY WholeIsRead
  <2> QED BY <1>3, <1>6, <2>4, <2>5
<1>7. CASE m < l
  <2>1. m \in Nat /\ m < Len(Car!Varint(c) \o body)  BY <1>1, <1>2, <1>3, <1>5, <1>7
  <2>2. PICK r : r = SubSeq((Car!Varint(c) \o body) \o x, 1, m)  OBVIOUS
  <2>3. ~Car!ReadVarint(r).ok \/ ~(Car!ReadVarint(r).value <= Len(Car!ReadVarint(r).rest))
    BY <1>1, <1>2, <2>1, <2>2, CutPiece
  <2>5. ~Fits(r)  BY <2>3 DEF Fits
  <2>6. r = SubSeq(piece \o x, 1, m)  BY <1>1, <1>2, <2>2
  <2> QED BY <1>3, <1>7, <2>5, <2>6
<1>8. m >= l \/ m < l  BY <1>3, <1>5
<1> QED BY <1>6, <1>7, <1>8

\* The first l bytes of the archive are the first k blocks and r.
Arriving(a, h, l, r, k) ==
    /\ k \in 0..Len(a) /\ r \in Seq(Car!Byte)
    /\ SubSeq(Car!Encoded(a, h), 1, l) = Upto(a, h, k) \o r

\* They hold the first k sections as a whole and no other.
Stopped(a, h, l, k) ==
    /\ k \in 0..Len(a)
    /\ \A i \in 1..Len(a) : Len(Upto(a, h, i)) <= l <=> i <= k

LEMMA StopsAt ==
    ASSUME NEW a \in Seq(CarBlocks), NEW h \in CarHeaders, NEW l \in Nat, NEW k \in 0..Len(a),
           k = 0 \/ Len(Upto(a, h, k)) <= l,
           k = Len(a) \/ l < Len(Upto(a, h, k + 1))
    PROVE  Stopped(a, h, l, k)
<1>1. PICK n \in Nat : n = Len(a)  BY LenProperties
<1>2. \A i \in 0..n : Len(Upto(a, h, i)) \in Nat
  <2>1. \A s \in Seq(Car!Byte) : Len(s) \in Nat  BY LenProperties
  <2> QED BY <1>1, <2>1, UptoIsASeq
<1>3. ASSUME NEW i \in 0..n, NEW j \in i..n
      PROVE  Len(Upto(a, h, i)) <= Len(Upto(a, h, j))
  <2>1. PICK t \in Seq(Car!Byte) : Upto(a, h, j) = Upto(a, h, i) \o t
    BY <1>1, UptoContinues
  <2>2. PICK u \in Seq(Car!Byte) : u = Upto(a, h, i)  BY <1>1, UptoIsASeq
  <2>3. PICK p \in Nat, q \in Nat : p = Len(u) /\ q = Len(t)  BY LenProperties
  <2>4. Len(u \o t) = p + q  BY <2>3, ConcatProperties
  <2>5. p <= p + q  BY <2>3
  <2> QED BY <2>1, <2>2, <2>3, <2>4, <2>5
<1>4. ASSUME NEW i \in 1..n PROVE Len(Upto(a, h, i)) <= l <=> i <= k
  <2>1. k \in 0..n  BY <1>1
  <2>2. CASE i <= k
    <3>1. k # 0 /\ i \in 0..n /\ k \in i..n  BY <2>1, <2>2
    <3>2. Len(Upto(a, h, i)) <= Len(Upto(a, h, k)) /\ Len(Upto(a, h, k)) <= l
      BY <1>3, <3>1
    <3>3. Len(Upto(a, h, i)) \in Nat /\ Len(Upto(a, h, k)) \in Nat  BY <1>2, <2>1, <3>1
    <3>4. Len(Upto(a, h, i)) <= l  BY <3>2, <3>3
    <3> QED BY <2>2, <3>4
  <2>3. CASE ~(i <= k)
    <3>1. k # n /\ k + 1 \in 0..n /\ i \in (k + 1)..n /\ i \in 0..n  BY <2>1, <2>3
    <3>2. PICK j : j = k + 1  OBVIOUS
    <3>3. j \in 0..n /\ i \in j..n /\ l < Len(Upto(a, h, j))  BY <1>1, <3>1, <3>2
    <3>4. Len(Upto(a, h, j)) <= Len(Upto(a, h, i))  BY <1>3, <3>3
    <3>5. Len(Upto(a, h, i)) \in Nat /\ Len(Upto(a, h, j)) \in Nat  BY <1>2, <3>1, <3>3
    <3>6. ~(Len(Upto(a, h, i)) <= l)  BY <3>3, <3>4, <3>5
    <3> QED BY <2>3, <3>6
  <2> QED BY <2>2, <2>3
<1> QED BY <1>1, <1>4 DEF Stopped

-----------------------------------------------------------------------------
(* CarArchive: what a turn of the decoder reads *)

Took(w, l, u, r, piece, body) ==
    /\ Fits(r) /\ Car!ReadVarint(r).value = Len(body) /\ SectionOf(r) = body
    /\ RestOf(r) \in Seq(Car!Byte) /\ Has(w, l, u \o piece, RestOf(r))
    /\ Len(u \o piece) <= l

WasCut(l, u, r, piece) == ~Fits(r) /\ l < Len(u \o piece)

LEMMA PieceAt ==
    ASSUME NEW u \in Seq(Car!Byte), NEW piece, NEW body, IsPiece(piece, body),
           NEW x \in Seq(Car!Byte), NEW r \in Seq(Car!Byte),
           NEW l \in 0..Len((u \o piece) \o x), Has((u \o piece) \o x, l, u, r)
    PROVE  \/ Took((u \o piece) \o x, l, u, r, piece, body)
           \/ WasCut(l, u, r, piece)
<1>1. piece \in Seq(Car!Byte)  BY DEF IsPiece
<1>2. PICK px \in Seq(Car!Byte) : px = piece \o x  BY <1>1, BytesConcat
<1>3. PICK up \in Seq(Car!Byte) : up = u \o piece  BY <1>1, BytesConcat
<1>4. Associate(u, piece, x)  BY <1>1, BytesAssociate
<1>5. PICK w : w = (u \o piece) \o x  OBVIOUS
<1>6. w = u \o px  BY <1>2, <1>4, <1>5 DEF Associate
<1>7. l \in 0..Len(u \o px) /\ Has(u \o px, l, u, r)  BY <1>5, <1>6
<1>8. RestIs(u, px, r, l)  BY <1>7, PrefixRest
<1>9. PICK m : m = Len(r)  OBVIOUS
<1>10. m \in 0..Len(piece \o x)  BY <1>2, <1>8, <1>9 DEF RestIs
<1>11. r = SubSeq(piece \o x, 1, m)  BY <1>2, <1>8, <1>9 DEF RestIs
<1>12. PICK i \in Nat, j \in Nat : i = Len(u) /\ j = Len(piece)  BY <1>1, LenProperties
<1>13. Len(up) = i + j  BY <1>1, <1>3, <1>12, ConcatProperties
<1>14. i + m = l /\ m \in Nat
  <2>1. m \in Nat  BY <1>9, LenProperties
  <2> QED BY <1>8, <1>9, <1>12, <2>1 DEF RestIs
<1>15. CASE m >= Len(piece) /\ PieceWhole(SubSeq(piece \o x, 1, m), piece, body)
  <2>1. PieceWhole(r, piece, body)  BY <1>11, <1>15
  <2>2. PICK y \in Seq(Car!Byte) : y = RestOf(r)  BY <2>1 DEF PieceWhole
  <2>3. r = piece \o y  BY <2>1, <2>2 DEF PieceWhole
  <2>4. Associate(u, piece, y)  BY <1>1, BytesAssociate
  <2>5. SubSeq(w, 1, l) = u \o r  BY <1>6, <1>7 DEF Has
  <2>6. SubSeq(w, 1, l) = (u \o piece) \o y  BY <2>3, <2>4, <2>5 DEF Associate
  <2>7. Has(w, l, u \o piece, RestOf(r))  BY <2>2, <2>6 DEF Has
  <2>8. m >= j  BY <1>12, <1>15
  <2>9. i + j <= l  BY <1>14, <2>8
  <2>10. Len(u \o piece) <= l  BY <1>3, <1>13, <2>9
  <2> QED BY <1>5, <2>1, <2>2, <2>7, <2>10 DEF Took, PieceWhole
<1>16. CASE m < Len(piece) /\ ~Fits(SubSeq(piece \o x, 1, m))
  <2>1. ~Fits(r)  BY <1>11, <1>16
  <2>2. m < j  BY <1>12, <1>16
  <2>3. l < i + j  BY <1>14, <2>2
  <2>4. l < Len(u \o piece)  BY <1>3, <1>13, <2>3
  <2> QED BY <2>1, <2>4 DEF WasCut
<1>17. \/ m >= Len(piece) /\ PieceWhole(SubSeq(piece \o x, 1, m), piece, body)
       \/ m < Len(piece) /\ ~Fits(SubSeq(piece \o x, 1, m))
  BY <1>10, PieceRead
<1> QED BY <1>15, <1>16, <1>17

Ends(r) == ~Fits(r) \/ Car!ReadVarint(r).value = 0

Advances(a, h, l, r, k) ==
    /\ ~Ends(r) /\ k \in 0..(Len(a) - 1) /\ SectionOf(r) = Body(a[k + 1])
    /\ Arriving(a, h, l, RestOf(r), k + 1)

LEMMA SectionRead ==
    ASSUME NEW a \in Seq(CarBlocks), NEW h \in CarHeaders, NEW l \in 0..Len(Car!Encoded(a, h)),
           NEW r, NEW k, Arriving(a, h, l, r, k)
    PROVE  \/ Ends(r) /\ Stopped(a, h, l, k)
           \/ Advances(a, h, l, r, k)
<1>1. PICK n \in Nat : n = Len(a)  BY LenProperties
<1>2. k \in 0..n /\ r \in Seq(Car!Byte) /\ Has(Car!Encoded(a, h), l, Upto(a, h, k), r)
  BY <1>1 DEF Arriving, Has
<1>3. n \in 0..Len(a) /\ k \in 0..Len(a)  BY <1>1, <1>2
<1>4. PICK u \in Seq(Car!Byte) : u = Upto(a, h, k)  BY <1>3, UptoIsASeq
<1>5. Car!Encoded(a, h) = Upto(a, h, n)  BY <1>1, UptoIs
<1>6. CASE k = n
  <2>1. Car!Encoded(a, h) = u  BY <1>4, <1>5, <1>6
  <2>2. <<>> \in Seq(Car!Byte) /\ u \o <<>> = u  BY ConcatEmptySeq, EmptySeq
  <2>3. l \in 0..Len(u \o <<>>) /\ Has(u \o <<>>, l, u, r)  BY <1>2, <1>4, <2>1, <2>2
  <2>4. RestIs(u, <<>>, r, l)  BY <1>2, <2>2, <2>3, PrefixRest
  <2>5. Len(<<>>) = 0  BY EmptySeq
  <2>6. Len(r) \in 0..0 /\ Len(u) + Len(r) = l  BY <2>4, <2>5 DEF RestIs
  <2>7. Len(r) = 0  BY <2>6
  <2>8. \A i \in 1..3 : ~(i <= Len(r))  BY <2>7
  <2>9. ~Car!ReadVarint(r).ok  BY <2>8, ReadNothing
  <2>10. Ends(r)  BY <2>9 DEF Ends, Fits
  <2>11. Len(Upto(a, h, k)) <= l
    <3>1. PICK i \in Nat : i = Len(u)  BY LenProperties
    <3>2. i + 0 = l  BY <2>6, <2>7, <3>1
    <3>3. i <= l  BY <3>2
    <3> QED BY <1>4, <3>1, <3>3
  <2>12. l \in Nat  BY <2>3, LenProperties
  <2>13. Stopped(a, h, l, k)  BY <1>1, <1>3, <1>6, <2>11, <2>12, StopsAt
  <2> QED BY <2>10, <2>13
<1>7. CASE k # n
  <2>1. PICK j : j = k + 1  OBVIOUS
  <2>2. j \in 1..n /\ j - 1 = k /\ k \in 0..(n - 1) /\ j \in 0..n /\ n \in j..n
    BY <1>2, <1>7, <2>1
  <2>3. a[j] \in CarBlocks  BY <1>1, <2>2, ElementOfSeq
  <2>4. PICK piece, body : piece = Car!Section(a[j]) /\ body = Body(a[j])  OBVIOUS
  <2>5. IsPiece(piece, body) /\ Len(body) # 0
    <3>1. /\ Body(a[j]) \in Seq(Car!Byte) /\ Len(Body(a[j])) \in 1..31
          /\ Car!Section(a[j]) = Car!Varint(Len(Body(a[j]))) \o Body(a[j])
          /\ Car!Section(a[j]) \in Seq(Car!Byte)
      BY <2>3, BodyIs
    <3>2. \A i \in 1..31 : i \in 0..31 /\ i # 0  OBVIOUS
    <3> QED BY <2>4, <3>1, <3>2 DEF IsPiece
  <2>6. Upto(a, h, j) = u \o piece
    <3>1. Upto(a, h, j) = Upto(a, h, j - 1) \o Car!Section(a[j])  BY <1>1, <2>2, UptoIs
    <3> QED BY <1>4, <2>2, <2>4, <3>1
  <2>7. PICK x \in Seq(Car!Byte) : Upto(a, h, n) = Upto(a, h, j) \o x
    BY <1>1, <2>2, UptoContinues
  <2>8. Car!Encoded(a, h) = (u \o piece) \o x  BY <1>5, <2>6, <2>7
  <2>9. l \in 0..Len((u \o piece) \o x) /\ Has((u \o piece) \o x, l, u, r)
    BY <1>2, <1>4, <2>8
  <2>10. \/ Took((u \o piece) \o x, l, u, r, piece, body)
         \/ WasCut(l, u, r, piece)
    BY <1>2, <2>5, <2>9, PieceAt
  <2>11. CASE Took((u \o piece) \o x, l, u, r, piece, body)
    <3>1. ~Ends(r) /\ SectionOf(r) = body /\ RestOf(r) \in Seq(Car!Byte)
      BY <2>5, <2>11 DEF Took, Ends
    <3>2. Has(Car!Encoded(a, h), l, Upto(a, h, j), RestOf(r))  BY <2>6, <2>8, <2>11 DEF Took
    <3>3. Arriving(a, h, l, RestOf(r), j)  BY <1>1, <2>2, <3>1, <3>2 DEF Arriving, Has
    <3> QED BY <1>1, <2>1, <2>2, <2>4, <3>1, <3>3 DEF Advances
  <2>12. CASE WasCut(l, u, r, piece)
    <3>1. ~Fits(r) /\ l < Len(Upto(a, h, j))  BY <2>6, <2>12 DEF WasCut
    <3>2. Ends(r)  BY <3>1 DEF Ends
    <3>3. Len(Upto(a, h, k)) <= l
      <4>1. PICK i \in Nat, q \in Nat : i = Len(u) /\ q = Len(r)  BY <1>2, LenProperties
      <4>2. \E px \in Seq(Car!Byte) : l \in 0..Len(u \o px) /\ Has(u \o px, l, u, r)
        <5>1. piece \in Seq(Car!Byte)  BY <2>5 DEF IsPiece
        <5>2. piece \o x \in Seq(Car!Byte)  BY <5>1, BytesConcat
        <5>3. Associate(u, piece, x)  BY <5>1, BytesAssociate
        <5> QED BY <2>9, <5>2, <5>3 DEF Associate
      <4>3. PICK px \in Seq(Car!Byte) : l \in 0..Len(u \o px) /\ Has(u \o px, l, u, r)
        BY <4>2
      <4>4. RestIs(u, px, r, l)  BY <1>2, <4>3, PrefixRest
      <4>5. i + q = l  BY <4>1, <4>4 DEF RestIs
      <4>6. i <= l  BY <4>5
      <4> QED BY <1>4, <4>1, <4>6
    <3>4. l \in Nat
      <4>1. PICK e \in Seq(Car!Byte) : e = Car!Encoded(a, h)  BY <1>3, <1>5, UptoIsASeq
      <4>2. PICK i \in Nat : i = Len(e)  BY LenProperties
      <4>3. l \in 0..i  BY <4>1, <4>2
      <4> QED BY <4>3
    <3>5. Stopped(a, h, l, k)  BY <1>3, <2>1, <3>1, <3>3, <3>4, StopsAt
    <3> QED BY <3>2, <3>5
  <2> QED BY <2>10, <2>11, <2>12
<1> QED BY <1>6, <1>7

LEMMA HeaderRead ==
    ASSUME NEW a \in Seq(CarBlocks), NEW h \in CarHeaders, NEW l \in 0..Len(Car!Encoded(a, h)),
           NEW r, r = SubSeq(Car!Encoded(a, h), 1, l)
    PROVE  \/ Fits(r) /\ Arriving(a, h, l, RestOf(r), 0)
           \/ ~Fits(r) /\ Stopped(a, h, l, 0)
<1>1. PICK n \in Nat : n = Len(a)  BY LenProperties
<1>2. 0 \in 0..n /\ n \in 0..n /\ 0 \in Nat  OBVIOUS
<1>3. PICK piece : piece = Car!Varint(Len(h)) \o h  OBVIOUS
<1>4. h \in Seq(Car!Byte) /\ Len(h) \in 0..31 /\ piece \in Seq(Car!Byte)  BY <1>3, HeaderIs
<1>5. IsPiece(piece, h)  BY <1>3, <1>4 DEF IsPiece
<1>6. Upto(a, h, 0) = piece  BY <1>3, UptoIs
<1>7. Car!Encoded(a, h) = Upto(a, h, n)  BY <1>1, UptoIs
<1>8. PICK x \in Seq(Car!Byte) : Upto(a, h, n) = Upto(a, h, 0) \o x
  BY <1>1, <1>2, UptoContinues
<1>9. PICK u \in Seq(Car!Byte) : u = <<>>  BY EmptySeq
<1>10. \A s \in Seq(Car!Byte) : u \o s = s  BY <1>9, ConcatEmptySeq
<1>11. u \o piece = piece  BY <1>4, <1>10
<1>12. Car!Encoded(a, h) = (u \o piece) \o x  BY <1>6, <1>7, <1>8, <1>11
<1>13. PICK e \in Seq(Car!Byte) : e = Car!Encoded(a, h)  BY <1>1, <1>2, <1>7, UptoIsASeq
<1>14. PICK i \in Nat : i = Len(e)  BY LenProperties
<1>15. l \in 0..i  BY <1>13, <1>14
<1>16. l \in Nat  BY <1>15
<1>17. r \in Seq(Car!Byte)
  <2>1. l \in 0..Len(e)  BY <1>13
  <2> QED BY <1>13, <2>1, Takes
<1>18. Has((u \o piece) \o x, l, u, r)
  <2>1. u \o r = r  BY <1>10, <1>17
  <2> QED BY <1>12, <2>1 DEF Has
<1>19. l \in 0..Len((u \o piece) \o x)  BY <1>12
<1>20. \/ Took((u \o piece) \o x, l, u, r, piece, h)
       \/ WasCut(l, u, r, piece)
  BY <1>5, <1>17, <1>18, <1>19, PieceAt
<1>21. CASE Took((u \o piece) \o x, l, u, r, piece, h)
  <2>1. Fits(r) /\ RestOf(r) \in Seq(Car!Byte)  BY <1>21 DEF Took
  <2>2. Has(Car!Encoded(a, h), l, Upto(a, h, 0), RestOf(r))
    BY <1>6, <1>11, <1>12, <1>21 DEF Took
  <2>3. Arriving(a, h, l, RestOf(r), 0)  BY <1>1, <1>2, <2>1, <2>2 DEF Arriving, Has
  <2> QED BY <2>1, <2>3
<1>22. CASE WasCut(l, u, r, piece)
  <2>1. ~Fits(r) /\ l < Len(Upto(a, h, 0))  BY <1>6, <1>11, <1>22 DEF WasCut
  <2>2. 0 = n \/ l < Len(Upto(a, h, 1))
    <3> SUFFICES ASSUME n # 0 PROVE l < Len(Upto(a, h, 1))  OBVIOUS
    <3>1. 1 \in 0..n  OBVIOUS
    <3>2. PICK t \in Seq(Car!Byte) : Upto(a, h, 1) = Upto(a, h, 0) \o t
      BY <1>1, <1>2, <3>1, UptoContinues
    <3>3. PICK p \in Nat, q \in Nat : p = Len(piece) /\ q = Len(t)  BY <1>4, LenProperties
    <3>4. Len(piece \o t) = p + q  BY <1>4, <3>3, ConcatProperties
    <3>5. l < p  BY <1>6, <2>1, <3>3
    <3>6. l < p + q  BY <1>16, <3>5
    <3> QED BY <1>6, <3>2, <3>4, <3>6
  <2>3. 0 \in 0..Len(a) /\ (0 = Len(a) \/ l < Len(Upto(a, h, 0 + 1)))
    BY <1>1, <1>2, <2>2
  <2>4. Stopped(a, h, l, 0)  BY <1>16, <2>3, StopsAt
  <2> QED BY <2>1, <2>4
<1> QED BY <1>20, <1>21, <1>22

\* What a block adds.
Sound(b) == b.data[1] \notin CarUnsound
Pair(b) == <<b.cid, b.data>>
New(b) == IF Sound(b) THEN {Pair(b)} ELSE {}

LEMMA DecodedIs ==
    ASSUME NEW b \in CarBlocks
    PROVE  Car!Decoded(Body(b)) = New(b)
<1>1. PICK cid, data : cid = b.cid /\ data = b.data  OBVIOUS
<1>2. cid \in Seq(Car!Byte) /\ Car!IsCid(cid) /\ data \in Seq(Car!Byte) /\ data # <<>>
  BY <1>1, BodyIs
<1>3. PICK n \in Nat, m \in Nat : n = Len(cid) /\ m = Len(data)  BY <1>2, LenProperties
<1>4. PICK s : s = cid \o data  OBVIOUS
<1>5. s = Body(b)  BY <1>1, <1>4 DEF Body
<1>6. Len(s) = n + m  BY <1>2, <1>3, <1>4, ConcatProperties
<1>7. n + m \in 1..31
  <2>1. Len(s) \in 1..31  BY <1>5, BodyIs
  <2> QED BY <1>6, <2>1
<1>8. n \in 0..31  BY <1>7
<1>9. cid # <<>> /\ Car!CidLength(s) = n  BY <1>2, <1>3, <1>4, <1>8, CidIs
<1>10. n # 0 /\ m # 0  BY <1>2, <1>3, <1>9, EmptySeq
<1>11. n # n + m /\ n + 1 \in 1..(n + m) /\ ~(n + 1 <= n) /\ (n + 1) - n = 1  BY <1>10
<1>12. s[n + 1] = data[1]
  <2>1. \A i \in 1..(n + m) : s[i] = IF i <= n THEN cid[i] ELSE data[i - n]
    BY <1>2, <1>3, <1>4, ConcatProperties
  <2> QED BY <1>11, <2>1
<1>13. SubSeq(s, 1, n) = cid /\ SubSeq(s, n + 1, Len(s)) = data
  BY <1>2, <1>3, <1>4, Halves
<1>14. Car!CidLength(s) # 0 /\ Car!CidLength(s) # Len(s) /\ s[Car!CidLength(s) + 1] = data[1]
  BY <1>6, <1>9, <1>10, <1>11, <1>12
<1>15. SubSeq(s, 1, Car!CidLength(s)) = cid /\ SubSeq(s, Car!CidLength(s) + 1, Len(s)) = data
  BY <1>9, <1>13
<1>16. Car!Decoded(s) = IF data[1] \in CarUnsound THEN {} ELSE {<<cid, data>>}
  BY <1>14, <1>15 DEF Car!Decoded
<1> QED BY <1>1, <1>5, <1>16 DEF New, Sound, Pair

\* The last sound block of each CID among the first k.
LastOf(a, k) ==
    {x \in 1..k : Sound(a[x]) /\ \A y \in 1..k : y > x /\ Sound(a[y]) => a[y].cid # a[x].cid}
Latest(a, k) == {Pair(a[j]) : j \in LastOf(a, k)}

LEMMA NoneYet == ASSUME NEW a PROVE Latest(a, 0) = {}
<1>1. 1..0 = {}  OBVIOUS
<1>2. LastOf(a, 0) = {}  BY <1>1 DEF LastOf
<1> QED BY <1>2 DEF Latest

LEMMA LastOfStep ==
    ASSUME NEW a, NEW k \in Nat
    PROVE  /\ \A x \in 1..k : x \in LastOf(a, k + 1) <=>
                  x \in LastOf(a, k) /\ (Sound(a[k + 1]) => a[k + 1].cid # a[x].cid)
           /\ k + 1 \in LastOf(a, k + 1) <=> Sound(a[k + 1])
           /\ LastOf(a, k) \subseteq 1..k /\ LastOf(a, k + 1) \subseteq 1..(k + 1)
<1>1. PICK m : m = k + 1  OBVIOUS
<1>2. \A x \in 1..m : x \in 1..k \/ x = m  BY <1>1
<1>3. m \in 1..m /\ \A x \in 1..k : x \in 1..m /\ m > x  BY <1>1
<1>4. \A y \in 1..m : ~(y > m)  BY <1>1
<1>5. m \in LastOf(a, m) <=> Sound(a[m])  BY <1>3, <1>4 DEF LastOf
<1>6. ASSUME NEW x \in 1..k
      PROVE  x \in LastOf(a, m) <=> x \in LastOf(a, k) /\ (Sound(a[m]) => a[m].cid # a[x].cid)
  <2>1. x \in 1..m /\ m > x /\ m \in 1..m  BY <1>3
  <2>2. (\A y \in 1..m : y > x /\ Sound(a[y]) => a[y].cid # a[x].cid)
            <=> /\ \A y \in 1..k : y > x /\ Sound(a[y]) => a[y].cid # a[x].cid
                /\ Sound(a[m]) => a[m].cid # a[x].cid
    BY <1>2, <1>3, <2>1
  <2> QED BY <2>1, <2>2 DEF LastOf
<1>7. LastOf(a, k) \subseteq 1..k /\ LastOf(a, m) \subseteq 1..m  BY DEF LastOf
<1> QED BY <1>1, <1>5, <1>6, <1>7

LEMMA LatestStep ==
    ASSUME NEW a, NEW k \in Nat
    PROVE  Latest(a, k + 1) = {p \in Latest(a, k) : \A q \in New(a[k + 1]) : p[1] # q[1]}
                                  \cup New(a[k + 1])
<1>1. PICK m : m = k + 1  OBVIOUS
<1>2. /\ \A x \in 1..k : x \in LastOf(a, m) <=>
             x \in LastOf(a, k) /\ (Sound(a[m]) => a[m].cid # a[x].cid)
      /\ m \in LastOf(a, m) <=> Sound(a[m])
      /\ LastOf(a, k) \subseteq 1..k /\ LastOf(a, m) \subseteq 1..m
  BY <1>1, LastOfStep
<1>3. \A x \in 1..m : x \in 1..k \/ x = m  BY <1>1
<1>4. \A b : Pair(b)[1] = b.cid  BY DEF Pair
<1>5. ASSUME NEW x \in 1..k
      PROVE  (\A q \in New(a[m]) : Pair(a[x])[1] # q[1])
                 <=> (Sound(a[m]) => a[m].cid # a[x].cid)
  <2>1. CASE Sound(a[m])
    <3>1. New(a[m]) = {Pair(a[m])}  BY <2>1 DEF New
    <3> QED BY <1>4, <2>1, <3>1
  <2>2. CASE ~Sound(a[m])
    <3>1. New(a[m]) = {}  BY <2>2 DEF New
    <3> QED BY <2>2, <3>1
  <2> QED BY <2>1, <2>2
<1>6. ASSUME NEW p \in Latest(a, m)
      PROVE  p \in {q \in Latest(a, k) : \A t \in New(a[m]) : q[1] # t[1]} \cup New(a[m])
  <2>1. PICK x \in LastOf(a, m) : p = Pair(a[x])  BY DEF Latest
  <2>2. CASE x \in 1..k
    <3>1. x \in LastOf(a, k) /\ (Sound(a[m]) => a[m].cid # a[x].cid)  BY <1>2, <2>2
    <3>2. p \in Latest(a, k)  BY <2>1, <3>1 DEF Latest
    <3>3. \A t \in New(a[m]) : p[1] # t[1]  BY <1>5, <2>1, <2>2, <3>1
    <3> QED BY <3>2, <3>3
  <2>3. CASE x = m
    <3>1. p \in New(a[m])  BY <1>2, <2>1, <2>3 DEF New
    <3> QED BY <3>1
  <2> QED BY <1>2, <1>3, <2>2, <2>3
<1>7. ASSUME NEW p \in Latest(a, k), \A t \in New(a[m]) : p[1] # t[1]
      PROVE  p \in Latest(a, m)
  <2>1. PICK x \in LastOf(a, k) : p = Pair(a[x])  BY DEF Latest
  <2>2. x \in 1..k  BY <1>2
  <2>3. Sound(a[m]) => a[m].cid # a[x].cid  BY <1>5, <1>7, <2>1, <2>2
  <2>4. x \in LastOf(a, m)  BY <1>2, <2>2, <2>3
  <2> QED BY <2>1, <2>4 DEF Latest
<1>8. ASSUME NEW p \in New(a[m]) PROVE p \in Latest(a, m)
  <2>1. Sound(a[m]) /\ p = Pair(a[m])  BY <1>8 DEF New
  <2> QED BY <1>2, <2>1 DEF Latest
<1> QED BY <1>1, <1>6, <1>7, <1>8

-----------------------------------------------------------------------------
(* CarArchive: the inductive invariant *)

InputIs(i) ==
    /\ i.archive \in Seq(CarBlocks) /\ i.header \in CarHeaders
    /\ i.length \in 0..Len(Car!Encoded(i.archive, i.header))

\* The cursor stands at the end of a section, and the blocks are the last
\* sound ones of the sections before it.
CarInv ==
    /\ InputIs(carInput)
    /\ carPhase \in {"header", "blocks", "done"}
    /\ carPhase = "header" =>
         /\ carRest = SubSeq(Car!Encoded(carInput.archive, carInput.header), 1, carInput.length)
         /\ carBlocks = {}
    /\ carPhase = "blocks" =>
         \E k : /\ Arriving(carInput.archive, carInput.header, carInput.length, carRest, k)
                /\ carBlocks = Latest(carInput.archive, k)
    /\ carPhase = "done" =>
         \E k : /\ Stopped(carInput.archive, carInput.header, carInput.length, k)
                /\ carBlocks = Latest(carInput.archive, k)

LEMMA CarInit == Car!Init => CarInv
<1> SUFFICES ASSUME Car!Init PROVE CarInv  OBVIOUS
<1>1. PICK i \in Car!Inputs : Car!InitAt(i)  BY DEF Car!Init
<1>2. PICK a \in Car!Archives, h \in CarHeaders : \E n \in 0..Len(Car!Encoded(a, h)) :
          i = [archive |-> a, header |-> h, length |-> n]
  BY DEF Car!Inputs
<1>3. a \in Seq(CarBlocks)
  <2>1. PICK j \in 0..CarMaxBlocks : a \in [1..j -> CarBlocks]  BY DEF Car!Archives
  <2>2. j \in Nat  BY CarAssumption
  <2> QED BY <2>1, <2>2
<1>4. InputIs(i)  BY <1>2, <1>3 DEF InputIs
<1> QED BY <1>1, <1>4 DEF Car!InitAt, CarInv

LEMMA CarNext == CarInv /\ [Car!Next]_(Car!vars) => CarInv'
<1> SUFFICES ASSUME CarInv, [Car!Next]_(Car!vars) PROVE CarInv'  OBVIOUS
<1>1. CASE UNCHANGED Car!vars  BY <1>1 DEF CarInv, Car!vars
<1> PICK a, h, l : a = carInput.archive /\ h = carInput.header /\ l = carInput.length  OBVIOUS
<1>2. InputIs(carInput) /\ a \in Seq(CarBlocks) /\ h \in CarHeaders /\ l \in 0..Len(Car!Encoded(a, h))
  BY DEF CarInv, InputIs
<1>3. CASE Car!ReadHeader
  <2>1. /\ carPhase = "header" /\ carInput' = carInput /\ carBlocks' = carBlocks
        /\ IF Fits(carRest) THEN carPhase' = "blocks" /\ carRest' = RestOf(carRest)
                            ELSE carPhase' = "done"
    BY <1>3 DEF Car!ReadHeader, Fits, RestOf
  <2>2. carRest = SubSeq(Car!Encoded(a, h), 1, l) /\ carBlocks = {}  BY <2>1 DEF CarInv
  <2>3. \/ Fits(carRest) /\ Arriving(a, h, l, RestOf(carRest), 0)
        \/ ~Fits(carRest) /\ Stopped(a, h, l, 0)
    BY <1>2, <2>2, HeaderRead
  <2>4. carBlocks' = Latest(a, 0)  BY <2>1, <2>2, NoneYet
  <2>5. CASE Fits(carRest)
    <3>1. carPhase' = "blocks" /\ Arriving(a, h, l, carRest', 0)  BY <2>1, <2>3, <2>5
    <3> QED BY <1>2, <2>1, <2>4, <3>1 DEF CarInv
  <2>6. CASE ~Fits(carRest)
    <3>1. carPhase' = "done" /\ Stopped(a, h, l, 0)  BY <2>1, <2>3, <2>6
    <3> QED BY <1>2, <2>1, <2>4, <3>1 DEF CarInv
  <2> QED BY <2>5, <2>6
<1>4. CASE Car!ReadSection
  <2>1. carPhase = "blocks" /\ carInput' = carInput  BY <1>4 DEF Car!ReadSection
  <2>2. PICK k : Arriving(a, h, l, carRest, k) /\ carBlocks = Latest(a, k)
    BY <2>1 DEF CarInv
  <2>3. \/ Ends(carRest) /\ Stopped(a, h, l, k)
        \/ Advances(a, h, l, carRest, k)
    BY <1>2, <2>2, SectionRead
  <2>4. k \in 0..Len(a) /\ Len(a) \in Nat  BY <1>2, <2>2, LenProperties DEF Arriving
  <2>5. CASE Ends(carRest) /\ Stopped(a, h, l, k)
    <3>1. carPhase' = "done" /\ carBlocks' = carBlocks
      <4>1. ~Fits(carRest) \/ Car!ReadVarint(carRest).value = 0  BY <2>5 DEF Ends
      <4> QED BY <1>4, <4>1 DEF Car!ReadSection, Fits
    <3> QED BY <1>2, <2>1, <2>2, <2>5, <3>1 DEF CarInv
  <2>6. CASE Advances(a, h, l, carRest, k)
    <3>1. /\ ~Ends(carRest) /\ k \in 0..(Len(a) - 1) /\ SectionOf(carRest) = Body(a[k + 1])
          /\ Arriving(a, h, l, RestOf(carRest), k + 1)
      BY <2>6 DEF Advances
    <3>2. k \in Nat /\ k + 1 \in 1..Len(a)  BY <2>4, <3>1
    <3>3. a[k + 1] \in CarBlocks  BY <1>2, <3>2, ElementOfSeq
    <3>4. Car!Decoded(SectionOf(carRest)) = New(a[k + 1])  BY <3>1, <3>3, DecodedIs
    <3>5. /\ carRest' = RestOf(carRest) /\ carPhase' = carPhase
          /\ carBlocks' = {b \in carBlocks : \A new \in Car!Decoded(SectionOf(carRest)) : b[1] # new[1]}
                              \cup Car!Decoded(SectionOf(carRest))
      <4>1. Fits(carRest) /\ Car!ReadVarint(carRest).value # 0  BY <3>1 DEF Ends
      <4> QED BY <1>4, <4>1 DEF Car!ReadSection, Fits, SectionOf, RestOf
    <3>6. carBlocks' = Latest(a, k + 1)  BY <2>2, <3>2, <3>4, <3>5, LatestStep
    <3>7. Arriving(a, h, l, carRest', k + 1)  BY <3>1, <3>5
    <3> QED BY <1>2, <2>1, <3>5, <3>6, <3>7 DEF CarInv
  <2> QED BY <2>3, <2>5, <2>6
<1> QED BY <1>1, <1>3, <1>4 DEF Car!Next

-----------------------------------------------------------------------------
(* CarArchive: the records of the operations *)

LEMMA GreatestElement ==
    ASSUME NEW k \in Nat, NEW T, T \subseteq 1..k, T # {}
    PROVE  \E x \in T : \A y \in T : x >= y
<1>1. PICK D : D = {n \in Nat : \E x \in T : x = k - n}  OBVIOUS
<1>2. D # {} /\ D \subseteq Nat
  <2>1. PICK x \in T : TRUE  OBVIOUS
  <2>2. k - x \in Nat /\ x = k - (k - x)  OBVIOUS
  <2> QED BY <1>1, <2>2
<1>3. PICK d \in D : \A e \in D : d <= e  BY <1>2, LeastElement
<1>4. PICK x \in T : x = k - d /\ d \in Nat  BY <1>1
<1>5. ASSUME NEW y \in T PROVE x >= y
  <2>1. k - y \in Nat /\ y = k - (k - y)  OBVIOUS
  <2>2. k - y \in D  BY <1>1, <2>1
  <2>3. d <= k - y  BY <1>3, <2>2
  <2> QED BY <1>4, <2>1, <2>3
<1> QED BY <1>5

LEMMA GreatestIs ==
    ASSUME NEW k \in Nat, NEW T, T \subseteq 1..k, T # {}
    PROVE  Car!Max(T) \in T /\ \A y \in T : Car!Max(T) >= y
<1>1. \E x \in T : \A y \in T : x >= y  BY GreatestElement
<1> QED BY <1>1 DEF Car!Max

\* A CID is found as it is and as a link.
LEMMA NamedIs ==
    ASSUME NEW b \in CarBlocks
    PROVE  Car!Named(b.cid) = b.cid /\ Car!Named(Car!Link(b.cid)) = b.cid
<1>1. PICK cid : cid = b.cid  OBVIOUS
<1>2. cid \in Seq(Car!Byte) /\ Car!IsCid(cid) /\ b.data \in Seq(Car!Byte)  BY <1>1, BodyIs
<1>3. PICK n \in Nat, m \in Nat : n = Len(cid) /\ m = Len(b.data)  BY <1>2, LenProperties
<1>4. n \in 0..31
  <2>1. Len(Body(b)) \in 1..31 /\ Len(Body(b)) = Len(cid) + Len(b.data)  BY <1>1, BodyIs
  <2>2. n + m \in 1..31  BY <1>3, <2>1
  <2> QED BY <2>2
<1>5. cid # <<>> /\ cid[1] # 0  BY <1>2, <1>3, <1>4, CidIs
<1>6. Car!Named(cid) = cid  BY <1>5 DEF Car!Named
<1>7. PICK zero : zero = <<0>>  OBVIOUS
<1>8. zero \in Seq(Car!Byte) /\ Len(zero) = 1 /\ zero[1] = 0
  <2>1. 0 \in Car!Byte  BY Words
  <2> QED BY <1>7, <2>1
<1>9. PICK s : s = zero \o cid  OBVIOUS
<1>a. cid \in Seq(Car!Byte) /\ zero \in Seq(Car!Byte)  BY <1>2, <1>8
<1>b. Len(zero) = 1  BY <1>8
<1>c. zero \o cid \in Seq(Car!Byte) /\ Len(zero \o cid) = Len(zero) + Len(cid)
  BY <1>a, ConcatProperties
<1>d. SubSeq(zero \o cid, Len(zero) + 1, Len(zero \o cid)) = cid  BY <1>a, Halves
<1>10. s \in Seq(Car!Byte) /\ Len(s) = 1 + n  BY <1>3, <1>b, <1>c, <1>9
<1>11. s[1] = 0 /\ s # <<>>
  <2>1. \A i \in 1..(1 + n) : s[i] = IF i <= 1 THEN zero[i] ELSE cid[i - 1]
    BY <1>a, <1>3, <1>8, <1>9, ConcatProperties
  <2>2. 1 \in 1..(1 + n) /\ 1 <= 1 /\ 1 + n # 0  OBVIOUS
  <2>3. s[1] = zero[1]  BY <2>1, <2>2
  <2>4. s # <<>>  BY <1>10, <2>2, EmptySeq
  <2> QED BY <1>8, <2>3, <2>4
<1>12. Tail(s) = cid
  <2>1. SubSeq(s, 1 + 1, Len(s)) = cid  BY <1>b, <1>d, <1>9
  <2> QED BY <2>1, <1>10, <1>11, HeadTailProperties DEF Tail
<1>13. Car!Named(s) = cid  BY <1>11, <1>12 DEF Car!Named
<1> QED BY <1>1, <1>6, <1>7, <1>9, <1>13 DEF Car!Link

LEMMA CarInvIsEnough == CarInv => Car!RecordsAreTheirs
<1> SUFFICES ASSUME CarInv, carPhase = "done" PROVE Car!RecordsAreTheirs
  BY DEF Car!RecordsAreTheirs
<1> DEFINE a == carInput.archive  h == carInput.header  l == carInput.length
<1>1. a \in Seq(CarBlocks) /\ DOMAIN a = 1..Len(a)
  <2>1. a \in Seq(CarBlocks)  BY DEF CarInv, InputIs
  <2> QED BY <2>1, LenProperties
<1>2. PICK k : Stopped(a, h, l, k) /\ carBlocks = Latest(a, k)  BY DEF CarInv
<1>3. PICK n \in Nat : n = Len(a)  BY <1>1, LenProperties
<1>4. k \in 0..n /\ k \in Nat /\ \A i \in 1..n : Len(Upto(a, h, i)) <= l <=> i <= k
  <2>1. k \in 0..n /\ \A i \in 1..n : Len(Upto(a, h, i)) <= l <=> i <= k
    BY <1>2, <1>3 DEF Stopped
  <2> QED BY <2>1
<1>5. Car!Arrived = {i \in 1..n : Len(Upto(a, h, i)) <= l}
  BY <1>1, <1>3 DEF Car!Arrived, Upto
<1>6. Car!Arrived = 1..k
  <2>1. \A i \in 1..k : i \in 1..n /\ i <= k  BY <1>4
  <2>2. \A i \in 1..n : i <= k => i \in 1..k  BY <1>4
  <2> QED BY <1>4, <1>5, <2>1, <2>2
<1>7. ASSUME NEW i \in 1..n, NEW cid, cid = a[i].cid,
             NEW sound, sound = {j \in Car!Arrived : a[j].cid = cid /\ Sound(a[j])}
      PROVE  /\ Car!RecordOf(cid) = Car!RecordOf(Car!Link(cid))
             /\ Car!RecordOf(cid) = {a[j].data : j \in {x \in sound : x = Car!Max(sound)}}
  <2>1. a[i] \in CarBlocks  BY <1>1, <1>3, ElementOfSeq
  <2>2. Car!Named(cid) = cid /\ Car!Named(Car!Link(cid)) = cid  BY <1>7, <2>1, NamedIs
  <2>3. sound \subseteq 1..k  BY <1>6, <1>7
  <2>4. \A j \in 1..k : j \in sound <=> a[j].cid = cid /\ Sound(a[j])  BY <1>6, <1>7
  <2>5. ASSUME NEW j \in 1..k
        PROVE  j \in sound /\ j = Car!Max(sound) <=> j \in LastOf(a, k) /\ a[j].cid = cid
    <3>1. ASSUME j \in sound, j = Car!Max(sound) PROVE j \in LastOf(a, k) /\ a[j].cid = cid
      <4>1. \A y \in sound : j >= y  BY <1>4, <2>3, <3>1, GreatestIs
      <4>2. ASSUME NEW y \in 1..k, y > j, Sound(a[y]) PROVE a[y].cid # a[j].cid
        <5>1. ~(j >= y)  BY <4>2
        <5> QED BY <2>4, <3>1, <4>1, <4>2, <5>1
      <4> QED BY <2>4, <3>1, <4>2 DEF LastOf
    <3>2. ASSUME j \in LastOf(a, k), a[j].cid = cid PROVE j \in sound /\ j = Car!Max(sound)
      <4>1. j \in sound  BY <2>4, <3>2 DEF LastOf
      <4>2. Car!Max(sound) \in sound /\ Car!Max(sound) >= j  BY <1>4, <2>3, <4>1, GreatestIs
      <4>3. PICK m \in 1..k : m = Car!Max(sound)  BY <2>3, <4>2
      <4>4. ~(m > j)
        <5>1. a[m].cid = cid /\ Sound(a[m])  BY <2>4, <4>2, <4>3
        <5> QED BY <3>2, <5>1 DEF LastOf
      <4>5. m >= j  BY <4>2, <4>3
      <4>6. m = j  BY <4>4, <4>5
      <4> QED BY <4>1, <4>3, <4>6
    <3> QED BY <3>1, <3>2
  <2>6. LastOf(a, k) \subseteq 1..k  BY DEF LastOf
  <2>7. \A b : Pair(b)[1] = b.cid /\ Pair(b)[2] = b.data  BY DEF Pair
  <2>8. Car!RecordOf(cid) = {p[2] : p \in {x \in Latest(a, k) : x[1] = cid}}
    BY <1>2, <2>2 DEF Car!RecordOf
  <2>9. Car!RecordOf(Car!Link(cid)) = {p[2] : p \in {x \in Latest(a, k) : x[1] = cid}}
    BY <1>2, <2>2 DEF Car!RecordOf
  <2>10. ASSUME NEW d \in {p[2] : p \in {x \in Latest(a, k) : x[1] = cid}}
         PROVE  d \in {a[j].data : j \in {x \in sound : x = Car!Max(sound)}}
    <3>1. PICK p \in Latest(a, k) : p[1] = cid /\ d = p[2]  OBVIOUS
    <3>2. PICK j \in LastOf(a, k) : p = Pair(a[j])  BY DEF Latest
    <3>3. a[j].cid = cid /\ d = a[j].data  BY <2>7, <3>1, <3>2
    <3>4. j \in sound /\ j = Car!Max(sound)  BY <2>5, <2>6, <3>3
    <3> QED BY <3>3, <3>4
  <2>11. ASSUME NEW d \in {a[j].data : j \in {x \in sound : x = Car!Max(sound)}}
         PROVE  d \in {p[2] : p \in {x \in Latest(a, k) : x[1] = cid}}
    <3>1. PICK j \in sound : j = Car!Max(sound) /\ d = a[j].data  OBVIOUS
    <3>2. j \in LastOf(a, k) /\ a[j].cid = cid  BY <2>3, <2>5, <3>1
    <3>3. Pair(a[j]) \in Latest(a, k)  BY <3>2 DEF Latest
    <3>4. Pair(a[j])[1] = cid /\ Pair(a[j])[2] = d  BY <2>7, <3>1, <3>2
    <3> QED BY <3>3, <3>4
  <2> QED BY <2>8, <2>9, <2>10, <2>11
<1>8. \A i \in 1..n :
        LET cid == a[i].cid
            sound == {j \in Car!Arrived : a[j].cid = cid /\ Sound(a[j])}
        IN  /\ Car!RecordOf(cid) = Car!RecordOf(Car!Link(cid))
            /\ Car!RecordOf(cid) = {a[j].data : j \in {x \in sound : x = Car!Max(sound)}}
  BY <1>7
<1>9. \A i \in DOMAIN carInput.archive :
        LET cid == carInput.archive[i].cid
            sound == {j \in Car!Arrived : /\ carInput.archive[j].cid = cid
                                          /\ carInput.archive[j].data[1] \notin CarUnsound}
        IN  /\ Car!RecordOf(cid) = Car!RecordOf(Car!Link(cid))
            /\ Car!RecordOf(cid) = {carInput.archive[j].data : j \in {x \in sound : x = Car!Max(sound)}}
  BY <1>1, <1>3, <1>8 DEF Sound
<1> QED BY <1>9 DEF Car!RecordsAreTheirs

LEMMA CarSteps == DataSpec => Car!Spec
<1>1. DataInit => Car!Init  BY DEF DataInit, DataInitAt, Car!Init
<1>2. [DataNext]_dataVars => [Car!Next]_(Car!vars)
  BY DEF DataNext, dataVars, txtVars, blobVars, evVars, carVars, Car!vars
<1> QED BY <1>1, <1>2, PTL DEF DataSpec, Car!Spec

\* RecordsAreTheirs: wherever an archive of well-formed blocks was cut off, each
\* operation finds the last sound record under its CID among the sections that
\* arrived as a whole, and otherwise nothing, whether its CID is a link or bytes.
THEOREM RecordsAreFound == DataSpec => []RecordsAreTheirs
<1>1. CarInv => RecordsAreTheirs  BY CarInvIsEnough DEF RecordsAreTheirs
<1> QED BY <1>1, CarInit, CarNext, CarSteps, PTL DEF Car!Spec
=============================================================================
