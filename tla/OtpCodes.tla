------------------------------ MODULE OtpCodes ------------------------------
(***************************************************************************)
(* One-time codes of crates/atrg-email: send_otp stores a code and mails   *)
(* it, verify_otp looks for it and then marks it as used, in two queries.  *)
(* A member is a DID with its e-mail address.  Numbering of rows follows   *)
(* the AUTOINCREMENT id.                                                   *)
(***************************************************************************)
EXTENDS Naturals, FiniteSets

CONSTANTS
    Members,    \* pairs of a DID and an e-mail address
    Codes,      \* the values generate_otp may draw
    Verifiers,  \* requests that call verify_otp
    Lifetime,   \* otp_expiry_secs
    MaxSends, MaxTime  \* bounds

VARIABLES
    clock,
    rows,       \* atrg_otp_codes
    verify,     \* what each verifier is about to do and what it holds
    \* History.
    found,      \* the member and code of every verification that found a valid row
    accepted    \* the rows that verifications answered true for

vars == <<clock, rows, verify, found, accepted>>

Row == [id : 1..MaxSends, who : Members, code : Codes,
        expires : Nat, used : BOOLEAN]
NoRequest == [at |-> "idle"]

Init ==
    /\ clock = 0
    /\ rows = {}
    /\ verify = [v \in Verifiers |-> NoRequest]
    /\ found = {} /\ accepted = {}

Tick ==
    /\ clock < MaxTime
    /\ clock' = clock + 1
    /\ UNCHANGED <<rows, verify, found, accepted>>

\* send_otp: the code is drawn at random, and may be one that was drawn before.
\* The mail goes out after the INSERT; when that fails the row stays.
SendOtp(who, code) ==
    /\ Cardinality(rows) < MaxSends
    /\ LET id == Cardinality(rows) + 1
       IN  rows' = rows \cup {[id |-> id, who |-> who, code |-> code,
                               expires |-> clock + Lifetime, used |-> FALSE]}
    /\ UNCHANGED <<clock, verify, found, accepted>>

\* verify_otp reads the clock before it queries.
BeginVerify(v, who, code) ==
    /\ verify[v].at = "idle"
    /\ verify' = [verify EXCEPT ![v] =
           [at |-> "count", who |-> who, code |-> code, now |-> clock,
            spent |-> {r.id : r \in {q \in rows : q.used}}]]
    /\ UNCHANGED <<clock, rows, found, accepted>>

\* Mutant: a code may be used until it expires.
ValidUntilExpiry(r, req) ==
    r.who = req.who /\ r.code = req.code /\ r.expires > req.now

\* The WHERE clause of the first query.
Valid(r, req) ==
    r.who = req.who /\ r.code = req.code /\ r.expires > req.now /\ ~r.used

\* SELECT COUNT: none valid is the answer false.
CountValid(v) ==
    /\ verify[v].at = "count"
    /\ LET valid == {r \in rows : Valid(r, verify[v])}
       IN  \/ /\ valid = {}
              /\ verify' = [verify EXCEPT ![v] = NoRequest]
              /\ UNCHANGED found
           \/ /\ valid # {}
              /\ verify' = [verify EXCEPT ![v] =
                     [at |-> "mark", who |-> @.who, code |-> @.code, now |-> @.now,
                      spent |-> @.spent, valid |-> {r.id : r \in valid}]]
              /\ found' = found \cup {<<verify[v].who, verify[v].code>>}
    /\ UNCHANGED <<clock, rows, accepted>>

\* The WHERE clause of the UPDATE: expired rows included.
Marked(r, req) == r.who = req.who /\ r.code = req.code

\* UPDATE ... SET used takes effect; the answer of the database is under way.
MarkUsed(v) ==
    /\ verify[v].at = "mark"
    /\ rows' = {IF Marked(r, verify[v]) THEN [r EXCEPT !.used = TRUE] ELSE r : r \in rows}
    /\ verify' = [verify EXCEPT ![v].at = "marked"]
    /\ UNCHANGED <<clock, found, accepted>>

\* The UPDATE is answered, and verify_otp answers true.
Accept(v) ==
    /\ verify[v].at = "marked"
    /\ accepted' = accepted \cup verify[v].valid
    /\ verify' = [verify EXCEPT ![v] = NoRequest]
    /\ UNCHANGED <<clock, rows, found>>

\* A query fails, its answer is lost, or the client goes away while one is under
\* way: rows that are marked stay so, and nobody is told true.
VerifyEnds(v) ==
    /\ verify[v].at # "idle"
    /\ verify' = [verify EXCEPT ![v] = NoRequest]
    /\ UNCHANGED <<clock, rows, found, accepted>>

Next ==
    \/ Tick
    \/ \E who \in Members, code \in Codes : SendOtp(who, code)
    \/ \E v \in Verifiers, who \in Members, code \in Codes : BeginVerify(v, who, code)
    \/ \E v \in Verifiers : CountValid(v) \/ MarkUsed(v) \/ Accept(v) \/ VerifyEnds(v)

Spec == Init /\ [][Next]_vars

-----------------------------------------------------------------------------
(* Properties *)

Holds(v) == verify[v].at \in {"mark", "marked"}

\* Once a code is marked as used no verification that begins later accepts it,
\* although finding it and marking it are two queries.  What a verification holds
\* for valid is its own member's code, and had not expired when it began.
SpentStaysSpent ==
    \A v \in Verifiers : Holds(v) =>
        /\ verify[v].valid \cap verify[v].spent = {}
        /\ \A r \in rows : r.id \in verify[v].valid =>
               Marked(r, verify[v]) /\ r.expires > verify[v].now

\* A code that anybody was told true for is used: a second verification is told
\* so too only if it began before that, while the first was under way.
AcceptedIsUsed == \A r \in rows : r.id \in accepted => r.used

\* A code is used up only after a verification of that very code and member found
\* one that was valid: a wrong guess takes nobody's code away.  That the member
\* was told true does not follow, since the answer may get lost on its way.
UsedWasFound == \A r \in rows : r.used => <<r.who, r.code>> \in found
=============================================================================
