---------------------------- MODULE DataServices ----------------------------
(***************************************************************************)
(* The services that write and read data: identifiers and cursors, blobs,  *)
(* the events that the router hands on, and the archives of commits. Each  *)
(* is an instance of its own module; they share no state in the code.      *)
(***************************************************************************)
EXTENDS Integers, Sequences

CONSTANTS
    TxtTexts, TxtStamps, TxtFeeds, TxtLimits, TxtMaxLimit,
    BlobClients, BlobBlobs, BlobMaxFaults,
    EvCollections, EvMaxRoutes, EvMaxEvents,
    CarBlocks, CarMaxBlocks, CarHeaders, CarV0, CarV0Length, CarUnsound

VARIABLES
    txtJob, txtText, txtBack,
    blobBackend, blobContent, blobWriter, blobCall, blobOwed, blobFaults,
        blobClashed,
    evRoutes, evTaken, evAt, evAlive, evErrors, evCalls,
    carInput, carRest, carPhase, carBlocks

txtVars == <<txtJob, txtText, txtBack>>
blobVars == <<blobBackend, blobContent, blobWriter, blobCall, blobOwed, blobFaults,
              blobClashed>>
evVars == <<evRoutes, evTaken, evAt, evAlive, evErrors, evCalls>>
carVars == <<carInput, carRest, carPhase, carBlocks>>
dataVars == <<txtVars, blobVars, evVars, carVars>>

Ids == INSTANCE Identifiers WITH
    Texts <- TxtTexts, Stamps <- TxtStamps, Feeds <- TxtFeeds, Limits <- TxtLimits,
    MaxLimit <- TxtMaxLimit,
    job <- txtJob, text <- txtText, back <- txtBack

Blob == INSTANCE BlobStore WITH
    Clients <- BlobClients, Blobs <- BlobBlobs, MaxFaults <- BlobMaxFaults,
    backend <- blobBackend, content <- blobContent, writer <- blobWriter,
    call <- blobCall, owed <- blobOwed, faults <- blobFaults, clashed <- blobClashed

Router == INSTANCE EventRouter WITH
    Collections <- EvCollections, MaxRoutes <- EvMaxRoutes, MaxEvents <- EvMaxEvents,
    routes <- evRoutes, taken <- evTaken, at <- evAt, alive <- evAlive,
    errors <- evErrors, calls <- evCalls

Car == INSTANCE CarArchive WITH
    Blocks <- CarBlocks, MaxBlocks <- CarMaxBlocks, Headers <- CarHeaders, V0 <- CarV0,
    V0Length <- CarV0Length, Unsound <- CarUnsound,
    input <- carInput, rest <- carRest, phase <- carPhase, blocks <- carBlocks

-----------------------------------------------------------------------------
(* What the proofs assume of the constants; numbers are numbers.             *)

\* A timestamp is RFC 3339 or a number, a limit is an i64.
ASSUME TextsAssumption ==
    /\ TxtTexts \subseteq Seq(STRING) /\ TxtFeeds \subseteq Seq(STRING)
    /\ ":" \notin TxtStamps
    /\ TxtLimits \subseteq Int /\ TxtMaxLimit \in Nat \ {0}

ASSUME BlobAssumption == BlobMaxFaults \in Nat

\* What a relay stores: blocks that have a CID and data, and a header.  A CIDv0
\* begins with the code of its hash, which is neither 0 nor a version.
ASSUME CarAssumption ==
    /\ CarMaxBlocks \in Nat
    /\ \A b \in CarBlocks : /\ b.cid \in Seq(Car!Byte) /\ Car!IsCid(b.cid)
                             /\ b.data \in Seq(Car!Byte) \ {<<>>}
                             /\ Len(b.cid) + Len(b.data) < 2 ^ Car!Width
    /\ \A h \in CarHeaders : h \in Seq(Car!Byte) /\ Len(h) < 2 ^ Car!Width
    /\ CarV0 \in Seq(Car!Byte) /\ Len(CarV0) = 2 /\ CarV0[1] \notin {0, 1}

-----------------------------------------------------------------------------
(* The composition                                                          *)

\* CarArchive starts from the input i.
DataInitAt(i) ==
    /\ Ids!Init /\ Blob!Init /\ Router!Init /\ Car!InitAt(i)

DataInit == \E i \in Car!Inputs : DataInitAt(i)

DataNext ==
    \/ Ids!Next /\ UNCHANGED <<blobVars, evVars, carVars>>
    \/ Blob!Next /\ UNCHANGED <<txtVars, evVars, carVars>>
    \/ Router!Next /\ UNCHANGED <<txtVars, blobVars, carVars>>
    \/ Car!Next /\ UNCHANGED <<txtVars, blobVars, evVars>>

DataSpec == DataInit /\ [][DataNext]_dataVars

-----------------------------------------------------------------------------
(* The services' properties, as they are stated in their modules.           *)

\* Identifiers, BlobStore: what is written is read back (Tid, AtUri, cursors,
\* feeds; BlobStore::put and get).
ReadsBack == Ids!ReadsBack /\ Blob!PutIsKept

\* EventRouter: handlers are called once, in order, and an event that a handler
\* missed has been counted as an error (EventRouter::build).
NoHandlerMissesSilently == Router!NoHandlerMissesSilently

\* CarArchive: each operation of a commit gets its own record or none
\* (decode_car, decode_commit).
RecordsAreTheirs == Car!RecordsAreTheirs
=============================================================================
