----------------------------- MODULE MCServices -----------------------------
(***************************************************************************)
(* All the services, on small constants.  They share no state in the code, *)
(* so that behaviours of all of them together would only multiply their    *)
(* states: every behaviour is that of one service, focus, while the others *)
(* rest in one of their initial states.  It is a behaviour of RateLimiter  *)
(* and of the three modules that compose the services.                     *)
(***************************************************************************)
EXTENDS RateLimiter, AccessServices, StorageServices, DataServices

VARIABLE focus

allVars == <<focus, vars, accessVars, storageVars, dataVars>>

\* ApiKeys: one of the keys is asked for by its bare prefix; two tokens, one that
\* expires and that nobody signed, and one for another audience; one session.
MCPrefixOf == [k \in KeyKeys |-> "p"]
MCJwts == {[claims |-> [sub |-> "alice", exp |-> {0}, aud |-> {}], signed |-> FALSE],
           [claims |-> [sub |-> "bob", exp |-> {}, aud |-> {"elsewhere"}], signed |-> TRUE]}
MCSessionOf == [s \in {"s1"} |-> "alice"]

MCAdmins == <<"d1">>

\* AppStartup: a value that is no header value stands beside a wildcard.
MCOrigins == {{"*"}, {"*", "https://a"}, {"\n"}}
MCUnfit == {"\n"}

\* CarArchive: blocks with a CIDv1 (version 1, codec 2, hash 3, a digest of one
\* byte) and with a CIDv0; one of the values begins with a byte that is not CBOR.
V1Cid == <<1, 2, 3, 1, 6>>
V0Cid == <<2, 3, 5, 5>>
MCBlocks == {[cid |-> V1Cid, data |-> <<1>>], [cid |-> V1Cid, data |-> <<4, 4, 4>>],
             [cid |-> V0Cid, data |-> <<1, 5>>], [cid |-> V0Cid, data |-> <<7>>]}
MCHeaders == {<<3, 3>>, <<>>}
MCV0 == <<2, 3>>

Letters == {"did:", ".", "/", ":"}
MCTexts == UNION {[1..n -> Letters] : n \in 0..2}
MCFeeds == {<<"x">>, <<"y">>, <<"x", "/", "y">>}
MCLimits == 0..4

\* CodeGen: two lexicons of queries and procedures with handlers of one name, one
\* with a field whose name is a keyword, and one that is not a lexicon of version 1.
Object(properties, required) == [properties |-> properties, required |-> required]
Document(id, name, kind, schemas) ==
    [is |-> "document", lexicon |-> 1, id |-> id,
     defs |-> {[name |-> name, kind |-> kind, schemas |-> schemas]}]
Query == [Document(<<"a", "list">>, "main", "query",
    [Params |-> Object([limit |-> <<"integer">>, at |-> <<"string">>], {"at"}),
     Output |-> Object([limit |-> <<"array", "blob">>], {})])
    EXCEPT !.defs = @ \cup {[name |-> "at", kind |-> "token", schemas |-> <<>>]}]
Procedure == Document(<<"b", "list">>, "main", "procedure",
    [Input |-> Object([type |-> <<"array">>], {"type", "more"})])
View == Document(<<"a">>, "list", "object",
    [Object |-> Object([at |-> <<"boolean">>], {"at"})])
MCContents == {Query, Procedure, [View EXCEPT !.lexicon = 2]}
MCSnake == [limit |-> "limit", at |-> "at", type |-> "type"]

\* Migrations: a release with three migrations and one with two.
MCPlan == [p \in MigProcesses |->
              <<[table |-> "app", newest |-> IF p = "new" THEN 3 ELSE 2]>>]

-----------------------------------------------------------------------------
(* One service at a time                                                    *)

Foci == {"rate", "otp", "identity", "labels", "keys", "roles", "router", "dict",
         "startup", "exchange", "repo", "car", "texts", "gen", "blob", "rolling"}

\* The initial states of the service in focus; of the identities one, in which a
\* document claims the other DID for its handle.  The network's change leads to
\* the others.
MCInit ==
    /\ focus \in Foci
    /\ idOwner = [h \in IdHandles |-> "d1"]
    /\ idClaims = [d \in IdDids |-> IF d = "d1" THEN "h1" ELSE "d1"]
    /\ labAsked = [uri |-> CHOOSE u \in LabUris : TRUE, labels |-> <<>>, rows |-> 0]
    /\ appToml \in IF focus = "startup" THEN App!AtMostOne(App!Config) ELSE {{}}
    /\ appMigrations \in IF focus = "startup" THEN BOOLEAN ELSE {FALSE}
    /\ exDelegation \in IF focus = "exchange" THEN Exchange!Documents ELSE {{}}
    /\ genInput \in IF focus = "gen" THEN [GenFiles -> GenContents \cup {Gen!None}]
                    ELSE {[f \in GenFiles |-> Gen!None]}
    /\ blobBackend \in IF focus = "blob" THEN {"file", "s3"} ELSE {"file"}
    /\ \E i \in IF focus = "car" THEN Car!Inputs
               ELSE {[archive |-> <<>>, header |-> <<>>, length |-> 0]} : DataInitAt(i)
    /\ Init /\ AccessInit /\ StorageInit

\* The services other than f rest.
Rest(f) ==
    /\ UNCHANGED focus
    /\ IF f = "rate" THEN TRUE ELSE UNCHANGED vars
    /\ IF f = "otp" THEN TRUE ELSE UNCHANGED otpVars
    /\ IF f = "identity" THEN TRUE ELSE UNCHANGED idVars
    /\ IF f = "labels" THEN TRUE ELSE UNCHANGED labVars
    /\ IF f = "keys" THEN TRUE ELSE UNCHANGED keyVars
    /\ IF f = "roles" THEN TRUE ELSE UNCHANGED rbVars
    /\ IF f = "router" THEN TRUE ELSE UNCHANGED evVars
    /\ IF f = "dict" THEN TRUE ELSE UNCHANGED dictVars
    /\ IF f = "startup" THEN TRUE ELSE UNCHANGED appVars
    /\ IF f = "exchange" THEN TRUE ELSE UNCHANGED exVars
    /\ IF f = "repo" THEN TRUE ELSE UNCHANGED repVars
    /\ IF f = "car" THEN TRUE ELSE UNCHANGED carVars
    /\ IF f = "texts" THEN TRUE ELSE UNCHANGED txtVars
    /\ IF f = "gen" THEN TRUE ELSE UNCHANGED genVars
    /\ IF f = "blob" THEN TRUE ELSE UNCHANGED blobVars
    /\ IF f = "rolling" THEN TRUE ELSE UNCHANGED migVars

MCNext ==
    \/ focus = "rate" /\ Next /\ Rest("rate")
    \/ focus = "otp" /\ Otp!Next /\ Rest("otp")
    \/ focus = "identity" /\ Identity!Next /\ Rest("identity")
    \/ focus = "labels" /\ Labels!Next /\ Rest("labels")
    \/ focus = "keys" /\ Api!Next /\ Rest("keys")
    \/ focus = "roles" /\ Roles!Next /\ Rest("roles")
    \/ focus = "router" /\ Router!Next /\ Rest("router")
    \/ focus = "dict" /\ Dict!Next /\ Rest("dict")
    \/ focus = "startup" /\ App!Next /\ Rest("startup")
    \/ focus = "exchange" /\ Exchange!Next /\ Rest("exchange")
    \/ focus = "repo" /\ Repo!Next /\ Rest("repo")
    \/ focus = "car" /\ Car!Next /\ Rest("car")
    \/ focus = "texts" /\ Ids!Next /\ Rest("texts")
    \/ focus = "gen" /\ Gen!Next /\ Rest("gen")
    \/ focus = "blob" /\ Blob!Next /\ Rest("blob")
    \/ focus = "rolling" /\ Rolling!Next /\ Rest("rolling")

MCSpec == MCInit /\ [][MCNext]_allVars
=============================================================================
