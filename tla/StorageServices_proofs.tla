----------------------- MODULE StorageServices_proofs -----------------------
(***************************************************************************)
(* What is stored and started: the start of an application, the cached     *)
(* dictionary, the records of a PDS, the labels of a labeler, the files of *)
(* a generation, and migrations of two releases. For each an inductive     *)
(* invariant and the property of the composed services that follows from   *)
(* it.                                                                     *)
(***************************************************************************)
EXTENDS StorageServices, FiniteSets, FiniteSetTheorems, SequenceTheorems,
        WellFoundedInduction, TLAPS

-----------------------------------------------------------------------------
(* AppStartup: the inductive invariant *)

\* The stages that come after a step of run.
Assembled == {"rate_limit", "jetstream", "firehose", "cleanup", "bind", "serving"}
Migrated == Assembled \cup {"assemble"}
Prepared == Migrated \cup {"application"}
Connected == Prepared \cup {"internal"}
Configured == Connected \cup {"connect"}

\* The tasks that a process with these sections and handlers starts.
Called(cf, bt) ==
    LET sections == UNION {c.sections : c \in cf}
    IN  (sections \cap {"rate_limit"}) \cup (sections \cap bt.handlers)
            \cup (bt.handlers \cap {"cleanup"})

\* The places where tasks are spawned that a process has passed.
Passed(st) ==
    CASE st = "jetstream" -> {"rate_limit"}
      [] st = "firehose" -> {"rate_limit", "jetstream"}
      [] st = "cleanup" -> {"rate_limit", "jetstream", "firehose"}
      [] st \in {"bind", "serving"} -> {"rate_limit", "jetstream", "firehose", "cleanup"}
      [] OTHER -> {}

\* A process that has got to stage st with configuration cf, pool pl and tasks tk,
\* built from bt, when the file is tm, migrations there are ms, and mg are applied.
ProcessSound(tm, ms, mg, st, cf, pl, bt, tk) ==
    /\ bt.pool \subseteq AppSupported /\ bt.handlers \subseteq AppHandlers
    /\ st \in Configured =>
          cf = tm /\ tm # {} /\ \A c \in tm : App!Validate(c)
    /\ st \in Connected => pl # {} /\ pl \subseteq AppSupported
    /\ st \in Prepared => \A db \in pl : <<db, "internal">> \in mg
    /\ st \in Migrated => (ms => \A db \in pl : <<db, "application">> \in mg)
    /\ st \in Assembled => \A c \in tm : App!HasCorsLayer(c.origins)
    /\ tk = IF st \in Assembled THEN Called(cf, bt) \cap Passed(st) ELSE {}

AppInv ==
    /\ appToml \in App!AtMostOne(App!Config)
    /\ appBuilt = [p \in AppProcesses |-> [pool |-> appBuilt[p].pool, handlers |-> appBuilt[p].handlers]]
    /\ appStage = [p \in AppProcesses |-> appStage[p]]
    /\ appConfig = [p \in AppProcesses |-> appConfig[p]]
    /\ appPool = [p \in AppProcesses |-> appPool[p]]
    /\ appTasks = [p \in AppProcesses |-> appTasks[p]]
    /\ \A p \in AppProcesses :
          ProcessSound(appToml, appMigrations, appMigrated,
                       appStage[p], appConfig[p], appPool[p], appBuilt[p], appTasks[p])

LEMMA AppInit == App!Init => AppInv
<1> SUFFICES ASSUME App!Init PROVE AppInv  OBVIOUS
<1>1. ASSUME NEW p \in AppProcesses
      PROVE  ProcessSound(appToml, appMigrations, appMigrated,
                          appStage[p], appConfig[p], appPool[p], appBuilt[p], appTasks[p])
  <2>1. appStage[p] = "building" /\ appTasks[p] = {} /\ appBuilt[p] = App!Plain
    BY DEF App!Init
  <2> QED
    BY <2>1 DEF ProcessSound, App!Plain, Configured, Connected, Prepared, Migrated,
       Assembled
<1>2. appBuilt = [p \in AppProcesses |-> [pool |-> appBuilt[p].pool, handlers |-> appBuilt[p].handlers]]
  BY DEF App!Init, App!Plain
<1> QED BY <1>1, <1>2 DEF App!Init, AppInv

\* A process whose own state does not change stays sound while others migrate.
LEMMA MigrationsAdd ==
    ASSUME NEW tm, NEW ms, NEW mg, NEW st, NEW cf, NEW pl, NEW bt, NEW tk, NEW more,
           ProcessSound(tm, ms, mg, st, cf, pl, bt, tk), mg \subseteq more
    PROVE  ProcessSound(tm, ms, more, st, cf, pl, bt, tk)
BY DEF ProcessSound

\* The step of one process: it suffices that this process is sound afterwards.
LEMMA OneProcess ==
    ASSUME AppInv, NEW p \in AppProcesses, NEW st, NEW cf, NEW pl, NEW tk, NEW bp, NEW bh,
           appStage' = [appStage EXCEPT ![p] = st], appConfig' = [appConfig EXCEPT ![p] = cf],
           appPool' = [appPool EXCEPT ![p] = pl], appTasks' = [appTasks EXCEPT ![p] = tk],
           appBuilt' = [appBuilt EXCEPT ![p] = [pool |-> bp, handlers |-> bh]],
           appMigrated \subseteq appMigrated', UNCHANGED <<appToml, appMigrations>>,
           ProcessSound(appToml, appMigrations, appMigrated', st, cf, pl, [pool |-> bp, handlers |-> bh], tk)
    PROVE  AppInv'
<1>1. /\ appStage' = [q \in AppProcesses |-> IF q = p THEN st ELSE appStage[q]]
      /\ appConfig' = [q \in AppProcesses |-> IF q = p THEN cf ELSE appConfig[q]]
      /\ appPool' = [q \in AppProcesses |-> IF q = p THEN pl ELSE appPool[q]]
      /\ appTasks' = [q \in AppProcesses |-> IF q = p THEN tk ELSE appTasks[q]]
  BY DEF AppInv
<1>2. appBuilt' = [q \in AppProcesses |->
                      IF q = p THEN [pool |-> bp, handlers |-> bh]
                      ELSE [pool |-> appBuilt[q].pool, handlers |-> appBuilt[q].handlers]]
  BY DEF AppInv
<1>3. ASSUME NEW q \in AppProcesses
      PROVE  ProcessSound(appToml', appMigrations', appMigrated',
                          appStage'[q], appConfig'[q], appPool'[q], appBuilt'[q], appTasks'[q])
  <2>1. CASE q = p  BY <1>1, <1>2, <2>1
  <2>2. CASE q # p
    <3>1. appBuilt[q] = [pool |-> appBuilt[q].pool, handlers |-> appBuilt[q].handlers]
      BY DEF AppInv
    <3>2. /\ appStage'[q] = appStage[q] /\ appConfig'[q] = appConfig[q] /\ appPool'[q] = appPool[q]
          /\ appBuilt'[q] = appBuilt[q] /\ appTasks'[q] = appTasks[q]
      BY <1>1, <1>2, <2>2, <3>1
    <3>3. ProcessSound(appToml, appMigrations, appMigrated,
                       appStage[q], appConfig[q], appPool[q], appBuilt[q], appTasks[q])
      BY DEF AppInv
    <3> QED BY <3>2, <3>3, MigrationsAdd
  <2> QED BY <2>1, <2>2
<1>4. appBuilt' = [q \in AppProcesses |-> [pool |-> appBuilt'[q].pool, handlers |-> appBuilt'[q].handlers]]
  <2>1. ASSUME NEW q \in AppProcesses
        PROVE  appBuilt'[q] = [pool |-> appBuilt'[q].pool, handlers |-> appBuilt'[q].handlers]
    BY <1>2
  <2>2. appBuilt' = [q \in AppProcesses |-> appBuilt'[q]]  BY <1>2
  <2> QED BY <2>1, <2>2
<1>5. /\ appStage' = [q \in AppProcesses |-> appStage'[q]] /\ appConfig' = [q \in AppProcesses |-> appConfig'[q]]
      /\ appPool' = [q \in AppProcesses |-> appPool'[q]] /\ appTasks' = [q \in AppProcesses |-> appTasks'[q]]
  BY <1>1
<1> QED BY <1>3, <1>4, <1>5 DEF AppInv

\* What is left alone is put back.
LEMMA PutBack ==
    ASSUME AppInv, NEW p \in AppProcesses
    PROVE  /\ appStage = [appStage EXCEPT ![p] = appStage[p]] /\ appConfig = [appConfig EXCEPT ![p] = appConfig[p]]
           /\ appPool = [appPool EXCEPT ![p] = appPool[p]] /\ appTasks = [appTasks EXCEPT ![p] = appTasks[p]]
           /\ appBuilt = [appBuilt EXCEPT ![p] = [pool |-> appBuilt[p].pool, handlers |-> appBuilt[p].handlers]]
           /\ appBuilt[p] = [pool |-> appBuilt[p].pool, handlers |-> appBuilt[p].handlers]
<1>1. appBuilt[p] = [pool |-> appBuilt[p].pool, handlers |-> appBuilt[p].handlers]
  BY DEF AppInv
<1>2. /\ appStage = [q \in AppProcesses |-> appStage[q]] /\ appConfig = [q \in AppProcesses |-> appConfig[q]]
      /\ appPool = [q \in AppProcesses |-> appPool[q]] /\ appTasks = [q \in AppProcesses |-> appTasks[q]]
  BY DEF AppInv
<1>3. appBuilt = [q \in AppProcesses |-> appBuilt[q]]  BY DEF AppInv
<1> QED BY <1>1, <1>2, <1>3

\* A step of run that starts no task and leaves the handlers alone.
LEMMA RunStep ==
    ASSUME AppInv, NEW p \in AppProcesses, NEW st, NEW cf, NEW pl,
           appStage' = [appStage EXCEPT ![p] = st], appConfig' = [appConfig EXCEPT ![p] = cf],
           appPool' = [appPool EXCEPT ![p] = pl], UNCHANGED <<appToml, appMigrations, appBuilt, appTasks>>,
           appMigrated \subseteq appMigrated',
           ProcessSound(appToml, appMigrations, appMigrated', st, cf, pl, appBuilt[p], appTasks[p])
    PROVE  AppInv'
<1>1. PICK bp, bh, tk : bp = appBuilt[p].pool /\ bh = appBuilt[p].handlers /\ tk = appTasks[p]  OBVIOUS
<1>2. appBuilt[p] = [pool |-> bp, handlers |-> bh]  BY <1>1, PutBack
<1>3. /\ appBuilt' = [appBuilt EXCEPT ![p] = [pool |-> bp, handlers |-> bh]]
      /\ appTasks' = [appTasks EXCEPT ![p] = tk]
  BY <1>1, PutBack
<1>4. ProcessSound(appToml, appMigrations, appMigrated', st, cf, pl, [pool |-> bp, handlers |-> bh], tk)
  BY <1>1, <1>2
<1> QED BY <1>3, <1>4, OneProcess

LEMMA AppNext == AppInv /\ [App!Next]_(App!vars) => AppInv'
<1> SUFFICES ASSUME AppInv, [App!Next]_(App!vars) PROVE AppInv'  OBVIOUS
<1>0. \A p \in AppProcesses : ProcessSound(appToml, appMigrations, appMigrated,
                                           appStage[p], appConfig[p], appPool[p], appBuilt[p], appTasks[p])
  BY DEF AppInv
<1> USE DEF Configured, Connected, Prepared, Migrated, Assembled
<1>1. ASSUME NEW p \in AppProcesses, NEW db \in AppDatabases, App!WithDbPool(p, db) PROVE AppInv'
  <2>1. PICK bh, st, cf, pl, tk : /\ bh = appBuilt[p].handlers /\ st = appStage[p] /\ cf = appConfig[p]
                                  /\ pl = appPool[p] /\ tk = appTasks[p]
    OBVIOUS
  <2>2. appBuilt[p] = [pool |-> appBuilt[p].pool, handlers |-> bh]  BY <2>1, PutBack
  <2>3. [appBuilt[p] EXCEPT !.pool = {db}] = [pool |-> {db}, handlers |-> bh]  BY <2>2
  <2>4. /\ appStage' = [appStage EXCEPT ![p] = st] /\ appConfig' = [appConfig EXCEPT ![p] = cf]
        /\ appPool' = [appPool EXCEPT ![p] = pl] /\ appTasks' = [appTasks EXCEPT ![p] = tk]
        /\ UNCHANGED <<appToml, appMigrations, appMigrated>>
    BY <1>1, <2>1, PutBack DEF App!WithDbPool
  <2>5. appBuilt' = [appBuilt EXCEPT ![p] = [pool |-> {db}, handlers |-> bh]]
    BY <1>1, <2>3 DEF App!WithDbPool
  <2>6. ProcessSound(appToml, appMigrations, appMigrated', st, cf, pl, [pool |-> {db}, handlers |-> bh], tk)
    BY <1>0, <1>1, <2>1 DEF App!WithDbPool, App!Opens, ProcessSound
  <2> QED BY <2>4, <2>5, <2>6, OneProcess
<1>2. ASSUME NEW p \in AppProcesses, NEW handler \in AppHandlers, App!Register(p, handler) PROVE AppInv'
  <2>1. PICK bp, hs, bh, st, cf, pl, tk :
            /\ bp = appBuilt[p].pool /\ hs = appBuilt[p].handlers /\ bh = hs \cup {handler} /\ st = appStage[p]
            /\ cf = appConfig[p] /\ pl = appPool[p] /\ tk = appTasks[p]
    OBVIOUS
  <2>2. appBuilt[p] = [pool |-> bp, handlers |-> hs]  BY <2>1, PutBack
  <2>3. [appBuilt[p] EXCEPT !.handlers = appBuilt[p].handlers \cup {handler}]
            = [pool |-> bp, handlers |-> bh]
    BY <2>1, <2>2
  <2>4. /\ appStage' = [appStage EXCEPT ![p] = st] /\ appConfig' = [appConfig EXCEPT ![p] = cf]
        /\ appPool' = [appPool EXCEPT ![p] = pl] /\ appTasks' = [appTasks EXCEPT ![p] = tk]
        /\ UNCHANGED <<appToml, appMigrations, appMigrated>>
    BY <1>2, <2>1, PutBack DEF App!Register
  <2>5. appBuilt' = [appBuilt EXCEPT ![p] = [pool |-> bp, handlers |-> bh]]
    BY <1>2, <2>3 DEF App!Register
  <2>6. ProcessSound(appToml, appMigrations, appMigrated', st, cf, pl, [pool |-> bp, handlers |-> bh], tk)
    BY <1>0, <1>2, <2>1 DEF App!Register, ProcessSound
  <2> QED BY <2>4, <2>5, <2>6, OneProcess
<1>3. ASSUME NEW p \in AppProcesses, App!LoadConfig(p) PROVE AppInv'
  <2>1. PICK st, cf, pl : /\ st = IF App!Loaded = {} THEN "exited" ELSE "connect"
                          /\ cf = IF App!Loaded = {} THEN appConfig[p] ELSE App!Loaded
                          /\ pl = appPool[p]
    OBVIOUS
  <2>2. /\ appStage' = [appStage EXCEPT ![p] = st] /\ appConfig' = [appConfig EXCEPT ![p] = cf]
        /\ appPool' = [appPool EXCEPT ![p] = pl]
    BY <1>3, <2>1, PutBack DEF App!LoadConfig, App!Goto
  <2>3. App!Loaded # {} => App!Loaded = appToml /\ appToml # {} /\ \A c \in appToml : App!Validate(c)
    BY DEF App!Loaded, AppInv, App!AtMostOne
  <2>4. ProcessSound(appToml, appMigrations, appMigrated', st, cf, pl, appBuilt[p], appTasks[p])
    BY <1>0, <1>3, <2>1, <2>3 DEF App!LoadConfig, ProcessSound
  <2> QED BY <1>3, <2>2, <2>4, RunStep DEF App!LoadConfig
<1>4. ASSUME NEW p \in AppProcesses, App!Connect(p) PROVE AppInv'
  <2> DEFINE url == {c.url : c \in appConfig[p]}
             given == appBuilt[p].pool
             fails == given = {} /\ \E db \in url : ~App!Opens(db)
  <2>1. PICK st, cf, pl : /\ st = IF fails THEN "exited" ELSE "internal"
                          /\ cf = appConfig[p]
                          /\ pl = IF fails THEN appPool[p] ELSE IF given # {} THEN given ELSE url
    OBVIOUS
  <2>2. /\ appStage' = [appStage EXCEPT ![p] = st] /\ appConfig' = [appConfig EXCEPT ![p] = cf]
        /\ appPool' = [appPool EXCEPT ![p] = pl]
    BY <1>4, <2>1, PutBack DEF App!Connect, App!Goto
  <2>3. ~fails => pl # {} /\ pl \subseteq AppSupported
    <3>1. appStage[p] = "connect"  BY <1>4 DEF App!Connect
    <3>2. appConfig[p] # {} /\ given \subseteq AppSupported  BY <1>0, <3>1 DEF ProcessSound
    <3>3. url # {}  BY <3>2
    <3> QED BY <2>1, <3>2, <3>3 DEF App!Opens
  <2>4. ProcessSound(appToml, appMigrations, appMigrated', st, cf, pl, appBuilt[p], appTasks[p])
    <3>1. appStage[p] = "connect" /\ appMigrated' = appMigrated  BY <1>4 DEF App!Connect
    <3>2. ProcessSound(appToml, appMigrations, appMigrated, appStage[p], appConfig[p], appPool[p], appBuilt[p], appTasks[p])
      BY <1>0
    <3> HIDE DEF fails
    <3> QED BY <2>1, <2>3, <3>1, <3>2 DEF ProcessSound
  <2> QED BY <1>4, <2>2, <2>4, RunStep DEF App!Connect
<1>5. ASSUME NEW p \in AppProcesses, App!MigrateInternal(p) PROVE AppInv'
  <2>1. PICK st, cf, pl : st = "application" /\ cf = appConfig[p] /\ pl = appPool[p]  OBVIOUS
  <2>2. /\ appStage' = [appStage EXCEPT ![p] = st] /\ appConfig' = [appConfig EXCEPT ![p] = cf]
        /\ appPool' = [appPool EXCEPT ![p] = pl] /\ appStage[p] = "internal"
        /\ appMigrated' = appMigrated \cup {<<db, "internal">> : db \in pl}
        /\ UNCHANGED <<appToml, appMigrations, appBuilt, appTasks>>
    BY <1>5, <2>1, PutBack DEF App!MigrateInternal, App!Goto, App!Database
  <2>3. ProcessSound(appToml, appMigrations, appMigrated', st, cf, pl, appBuilt[p], appTasks[p])
    BY <1>0, <2>1, <2>2 DEF ProcessSound
  <2> QED BY <2>2, <2>3, RunStep
<1>6. ASSUME NEW p \in AppProcesses, App!MigrateApplication(p) PROVE AppInv'
  <2>1. PICK st, cf, pl : st = "assemble" /\ cf = appConfig[p] /\ pl = appPool[p]  OBVIOUS
  <2>2. /\ appStage' = [appStage EXCEPT ![p] = st] /\ appConfig' = [appConfig EXCEPT ![p] = cf]
        /\ appPool' = [appPool EXCEPT ![p] = pl] /\ appStage[p] = "application"
        /\ appMigrated' = IF appMigrations THEN appMigrated \cup {<<db, "application">> : db \in pl}
                          ELSE appMigrated
        /\ UNCHANGED <<appToml, appMigrations, appBuilt, appTasks>>
    BY <1>6, <2>1, PutBack DEF App!MigrateApplication, App!Goto, App!Database
  <2>3. ProcessSound(appToml, appMigrations, appMigrated', st, cf, pl, appBuilt[p], appTasks[p])
    BY <1>0, <2>1, <2>2 DEF ProcessSound
  <2> QED BY <2>2, <2>3, RunStep
<1>7. ASSUME NEW p \in AppProcesses, App!AssembleRouter(p) PROVE AppInv'
  <2>1. PICK st, cf, pl :
            /\ st = IF \A c \in appConfig[p] : App!HasCorsLayer(c.origins) THEN "rate_limit" ELSE "exited"
            /\ cf = appConfig[p] /\ pl = appPool[p]
    OBVIOUS
  <2>2. /\ appStage' = [appStage EXCEPT ![p] = st] /\ appConfig' = [appConfig EXCEPT ![p] = cf]
        /\ appPool' = [appPool EXCEPT ![p] = pl] /\ appStage[p] = "assemble"
        /\ UNCHANGED <<appToml, appMigrations, appBuilt, appTasks, appMigrated>>
    BY <1>7, <2>1, PutBack DEF App!AssembleRouter, App!Goto
  <2>3. ProcessSound(appToml, appMigrations, appMigrated', st, cf, pl, appBuilt[p], appTasks[p])
    <3>1. CASE st = "exited"  BY <1>0, <2>1, <2>2, <3>1 DEF ProcessSound
    <3>2. CASE st = "rate_limit"
      <4>1. Passed(st) = {}  BY <3>2 DEF Passed
      <4> QED BY <1>0, <2>1, <2>2, <3>2, <4>1 DEF ProcessSound
    <3> QED BY <2>1, <3>1, <3>2
  <2> QED BY <2>2, <2>3, RunStep
<1>8. ASSUME NEW p \in AppProcesses, App!Spawn(p) PROVE AppInv'
  <2>1. PICK i \in 1..4 :
            /\ appStage[p] = App!Order[i]
            /\ appTasks' = [appTasks EXCEPT ![p] = appTasks[p] \cup (App!Wanted(p) \cap {App!Order[i]})]
            /\ appStage' = [appStage EXCEPT ![p] = App!Order[i + 1]]
            /\ UNCHANGED <<appToml, appMigrations, appBuilt, appConfig, appPool, appMigrated>>
    BY <1>8 DEF App!Spawn, App!Goto
  <2>2. PICK bp, bh, st, cf, pl, tk :
            /\ bp = appBuilt[p].pool /\ bh = appBuilt[p].handlers /\ st = App!Order[i + 1]
            /\ cf = appConfig[p] /\ pl = appPool[p]
            /\ tk = appTasks[p] \cup (App!Wanted(p) \cap {App!Order[i]})
    OBVIOUS
  <2>3. App!Wanted(p) = Called(cf, appBuilt[p])
    BY <2>2 DEF App!Wanted, App!Sectioned, Called
  <2>4. /\ App!Order[i] \in Assembled /\ App!Order[i + 1] \in Assembled
        /\ Passed(App!Order[i + 1]) = Passed(App!Order[i]) \cup {App!Order[i]}
    <3>1. CASE i = 1  BY <3>1 DEF App!Order, Passed
    <3>2. CASE i = 2  BY <3>2 DEF App!Order, Passed
    <3>3. CASE i = 3  BY <3>3 DEF App!Order, Passed
    <3>4. CASE i = 4  BY <3>4 DEF App!Order, Passed
    <3> QED BY <3>1, <3>2, <3>3, <3>4
  <2>5. tk = Called(cf, appBuilt[p]) \cap Passed(st)
    <3>1. appTasks[p] = Called(cf, appBuilt[p]) \cap Passed(App!Order[i])
      BY <1>0, <2>1, <2>2, <2>4 DEF ProcessSound
    <3> QED BY <2>2, <2>3, <2>4, <3>1
  <2>6. appBuilt[p] = [pool |-> bp, handlers |-> bh]  BY <2>2, PutBack
  <2>7. ProcessSound(appToml, appMigrations, appMigrated, st, cf, pl, appBuilt[p], tk)
    BY <1>0, <2>1, <2>2, <2>4, <2>5 DEF ProcessSound
  <2>8. /\ appStage' = [appStage EXCEPT ![p] = st] /\ appConfig' = [appConfig EXCEPT ![p] = cf]
        /\ appPool' = [appPool EXCEPT ![p] = pl] /\ appTasks' = [appTasks EXCEPT ![p] = tk]
        /\ appBuilt' = [appBuilt EXCEPT ![p] = [pool |-> bp, handlers |-> bh]]
        /\ UNCHANGED <<appToml, appMigrations, appMigrated>>
    BY <2>1, <2>2, PutBack
  <2> QED BY <2>6, <2>7, <2>8, OneProcess
<1>9. ASSUME NEW p \in AppProcesses, App!Bind(p) PROVE AppInv'
  <2>1. PICK st, cf, pl : st = "serving" /\ cf = appConfig[p] /\ pl = appPool[p]  OBVIOUS
  <2>2. /\ appStage' = [appStage EXCEPT ![p] = st] /\ appConfig' = [appConfig EXCEPT ![p] = cf]
        /\ appPool' = [appPool EXCEPT ![p] = pl] /\ appStage[p] = "bind"
        /\ UNCHANGED <<appToml, appMigrations, appBuilt, appTasks, appMigrated>>
    BY <1>9, <2>1, PutBack DEF App!Bind, App!Goto
  <2>3. Passed("serving") = Passed("bind")  BY DEF Passed
  <2>4. ProcessSound(appToml, appMigrations, appMigrated', st, cf, pl, appBuilt[p], appTasks[p])
    BY <1>0, <2>1, <2>2, <2>3 DEF ProcessSound
  <2> QED BY <2>2, <2>4, RunStep
<1>10. ASSUME NEW p \in AppProcesses, App!Exit(p) PROVE AppInv'
  <2>1. PICK bp, bh, cf, pl :
            bp = appBuilt[p].pool /\ bh = appBuilt[p].handlers /\ cf = appConfig[p] /\ pl = appPool[p]
    OBVIOUS
  <2>2. appBuilt[p] = [pool |-> bp, handlers |-> bh]  BY <2>1, PutBack
  <2>3. ProcessSound(appToml, appMigrations, appMigrated, "exited", cf, pl, appBuilt[p], {})
    BY <1>0, <2>1 DEF ProcessSound
  <2>4. /\ appStage' = [appStage EXCEPT ![p] = "exited"] /\ appConfig' = [appConfig EXCEPT ![p] = cf]
        /\ appPool' = [appPool EXCEPT ![p] = pl] /\ appTasks' = [appTasks EXCEPT ![p] = {}]
        /\ appBuilt' = [appBuilt EXCEPT ![p] = [pool |-> bp, handlers |-> bh]]
        /\ UNCHANGED <<appToml, appMigrations, appMigrated>>
    BY <1>10, <2>1, PutBack DEF App!Exit, App!Goto
  <2> QED BY <2>2, <2>3, <2>4, OneProcess
<1>11. ASSUME NEW p \in AppProcesses, App!Restart(p) PROVE AppInv'
  <2>1. PICK tk : tk = appTasks[p]  OBVIOUS
  <2>2. ProcessSound(appToml, appMigrations, appMigrated, "building", {}, {}, [pool |-> {}, handlers |-> {}], tk)
    BY <1>0, <1>11, <2>1 DEF App!Restart, ProcessSound
  <2>3. /\ appStage' = [appStage EXCEPT ![p] = "building"] /\ appConfig' = [appConfig EXCEPT ![p] = {}]
        /\ appPool' = [appPool EXCEPT ![p] = {}] /\ appTasks' = [appTasks EXCEPT ![p] = tk]
        /\ appBuilt' = [appBuilt EXCEPT ![p] = [pool |-> {}, handlers |-> {}]]
        /\ UNCHANGED <<appToml, appMigrations, appMigrated>>
    BY <1>11, <2>1, PutBack DEF App!Restart, App!Goto, App!Plain
  <2> QED BY <2>2, <2>3, OneProcess
<1>12. CASE UNCHANGED App!vars  BY <1>12 DEF App!vars, AppInv
<1> QED
  BY <1>1, <1>2, <1>3, <1>4, <1>5, <1>6, <1>7, <1>8, <1>9, <1>10, <1>11, <1>12 DEF App!Next

LEMMA AppInvIsEnough == AppInv => App!WorkSeesTables
<1> SUFFICES ASSUME AppInv, NEW p \in AppProcesses
    PROVE  /\ appTasks[p] # {} \/ appStage[p] = "serving" =>
                  /\ appPool[p] \X {"internal"} \subseteq appMigrated
                  /\ appMigrations => appPool[p] \X {"application"} \subseteq appMigrated
                  /\ appPool[p] # {} /\ \A db \in appPool[p] : App!Opens(db)
                  /\ \A c \in appToml : App!Validate(c) /\ App!HasCorsLayer(c.origins)
           /\ appStage[p] = "serving" => appTasks[p] = App!Wanted(p)
           /\ appStage[p] = "exited" => appTasks[p] = {}
  BY DEF App!WorkSeesTables
<1>1. ProcessSound(appToml, appMigrations, appMigrated,
                   appStage[p], appConfig[p], appPool[p], appBuilt[p], appTasks[p])
  BY DEF AppInv
<1>2. appTasks[p] # {} \/ appStage[p] = "serving" => appStage[p] \in Assembled
  BY <1>1 DEF ProcessSound, Assembled
<1>3. Called(appConfig[p], appBuilt[p]) = App!Wanted(p)
  BY DEF Called, App!Wanted, App!Sectioned
<1>4. appStage[p] = "serving" => appTasks[p] = App!Wanted(p)
  <2> SUFFICES ASSUME appStage[p] = "serving" PROVE appTasks[p] = App!Wanted(p)  OBVIOUS
  <2>1. Passed("serving") = {"rate_limit", "jetstream", "firehose", "cleanup"}
    BY DEF Passed
  <2>2. appTasks[p] = App!Wanted(p) \cap Passed("serving")
    BY <1>1, <1>3 DEF ProcessSound, Assembled
  <2>3. appBuilt[p].handlers \subseteq AppHandlers  BY <1>1 DEF ProcessSound
  <2>4. App!Wanted(p) \subseteq {"rate_limit"} \cup AppHandlers  BY <2>3 DEF App!Wanted
  <2> QED BY <2>1, <2>2, <2>4, AppAssumption
<1> QED BY <1>1, <1>2, <1>4
        DEF ProcessSound, App!Opens, Configured, Connected, Prepared, Migrated, Assembled

LEMMA AppSteps == StorageSpec => App!Spec
<1>1. StorageInit => App!Init  BY DEF StorageInit
<1>2. [StorageNext]_storageVars => [App!Next]_(App!vars)
  BY DEF StorageNext, storageVars, appVars, dictVars, repVars, labVars, genVars, migVars,
     App!vars
<1> QED BY <1>1, <1>2, PTL DEF StorageSpec, App!Spec

\* WorkSeesTables: whatever atrg.toml says and however the starts of processes
\* interleave, no task and no server works on a database before its migrations.
THEOREM WorkHasTables == StorageSpec => []WorkSeesTables
<1>1. AppInv => WorkSeesTables  BY AppInvIsEnough DEF WorkSeesTables
<1> QED BY <1>1, AppInit, AppNext, AppSteps, PTL DEF App!Spec

-----------------------------------------------------------------------------
(* DictCache: the inductive invariant *)

DictTypes ==
    /\ dictLoad = [p \in DictProcesses |-> dictLoad[p]]
    /\ dictAnswer = [p \in DictProcesses |-> dictAnswer[p]]
    /\ dictFaults \in Nat /\ dictClashed \in BOOLEAN

\* A file not all of which is there is being written by the last one to
\* truncate it.
CutIsWritten ==
    /\ dictFile \in {"absent", "cut", "whole"}
    /\ dictFile = "cut" => \E p \in DictProcesses : dictOpener = {p} /\ dictLoad[p] = "write"

\* What a process is about to write, or to read.
HoldsWhole ==
    \A p \in DictProcesses :
        /\ dictLoad[p] \in {"open", "write"} => dictAnswer[p] = "whole"
        /\ dictLoad[p] = "read" => dictFile # "absent"

\* What the loads that met no write returned.
LoadsReturned == dictClashed \/ \A p \in DictProcesses : dictAnswer[p] \in {"none", "whole"}

DictInv == DictTypes /\ (dictFaults = 0 => CutIsWritten /\ HoldsWhole /\ LoadsReturned)

LEMMA DictInvIsEnough == DictInv => Dict!LoadsAreWhole
<1> SUFFICES ASSUME DictInv, dictFaults = 0
             PROVE  /\ Dict!Writing = {} => dictFile \in {"absent", "whole"}
                    /\ ~dictClashed => \A p \in DictProcesses : dictAnswer[p] \in {"none", "whole"}
  BY DEF Dict!LoadsAreWhole
<1> QED BY DEF DictInv, CutIsWritten, LoadsReturned, Dict!Writing

-----------------------------------------------------------------------------

LEMMA DictInit == Dict!Init => DictInv
<1> SUFFICES ASSUME Dict!Init PROVE DictInv  OBVIOUS
<1>1. DictTypes  BY DEF Dict!Init, DictTypes
<1>2. CutIsWritten /\ HoldsWhole /\ LoadsReturned
  BY DEF Dict!Init, CutIsWritten, HoldsWhole, LoadsReturned
<1> QED BY <1>1, <1>2 DEF DictInv

\* What a step of one process does to where it and the others stand.
LEMMA OneMoves ==
    ASSUME DictTypes, NEW p \in DictProcesses, NEW at, Dict!Goto(p, at)
    PROVE  /\ dictLoad' = [q \in DictProcesses |-> dictLoad'[q]]
           /\ dictLoad'[p] = at
           /\ \A q \in DictProcesses \ {p} : dictLoad'[q] = dictLoad[q]
BY DEF DictTypes, Dict!Goto

LEMMA OneReturns ==
    ASSUME DictTypes, NEW p \in DictProcesses, NEW content, Dict!Return(p, content)
    PROVE  /\ dictAnswer' = [q \in DictProcesses |-> dictAnswer'[q]]
           /\ dictAnswer'[p] = content
           /\ \A q \in DictProcesses \ {p} : dictAnswer'[q] = dictAnswer[q]
BY DEF DictTypes, Dict!Return

LEMMA DictNext == DictInv /\ [Dict!Next]_(Dict!vars) => DictInv'
<1> SUFFICES ASSUME DictInv, [Dict!Next]_(Dict!vars) PROVE DictInv'  OBVIOUS
<1> USE DEF DictInv
<1>1. ASSUME NEW p \in DictProcesses, Dict!Begin(p) PROVE DictInv'
  <2> USE <1>1 DEF Dict!Begin
  <2>1. PICK at : at = IF dictFile = "absent" THEN "get" ELSE "read"  OBVIOUS
  <2>2. Dict!Goto(p, at) /\ Dict!Return(p, "none")  BY <2>1
  <2>3. DictTypes'  BY <2>2, OneMoves, OneReturns DEF DictTypes
  <2>4. (CutIsWritten' /\ HoldsWhole' /\ LoadsReturned') \/ dictFaults # 0
    BY <2>1, <2>2, OneMoves, OneReturns DEF CutIsWritten, HoldsWhole, LoadsReturned
  <2> QED BY <2>3, <2>4
<1>2. ASSUME NEW p \in DictProcesses, Dict!ReadCached(p) PROVE DictInv'
  <2> USE <1>2 DEF Dict!ReadCached
  <2>1. PICK content : content = dictFile  OBVIOUS
  <2>2. Dict!Goto(p, "idle") /\ Dict!Return(p, content)  BY <2>1
  <2>3. DictTypes'  BY <2>2, OneMoves, OneReturns DEF DictTypes
  <2>4. ASSUME dictFaults = 0 PROVE CutIsWritten' /\ HoldsWhole' /\ LoadsReturned'
    <3>1. CutIsWritten'  BY <2>2, <2>4, OneMoves DEF CutIsWritten
    <3>2. HoldsWhole'  BY <2>2, <2>4, OneMoves, OneReturns DEF HoldsWhole
    <3>3. dictClashed' \/ content = "whole"
      BY <2>1, <2>4 DEF CutIsWritten, HoldsWhole, Dict!Writing
    <3>4. LoadsReturned'  BY <2>2, <2>4, <3>3, OneReturns DEF LoadsReturned
    <3> QED BY <3>1, <3>2, <3>4
  <2> QED BY <2>3, <2>4
<1>3. ASSUME NEW p \in DictProcesses, Dict!Download(p) PROVE DictInv'
  <2> USE <1>3 DEF Dict!Download
  <2>1. CASE Dict!Goto(p, "open") /\ Dict!Return(p, "whole")
    <3>1. DictTypes'  BY <2>1, OneMoves, OneReturns DEF DictTypes
    <3>2. (CutIsWritten' /\ HoldsWhole' /\ LoadsReturned') \/ dictFaults # 0
      BY <2>1, OneMoves, OneReturns DEF CutIsWritten, HoldsWhole, LoadsReturned
    <3> QED BY <3>1, <3>2
  <2>2. CASE Dict!Goto(p, "idle") /\ UNCHANGED dictAnswer
    <3>1. DictTypes'  BY <2>2, OneMoves DEF DictTypes
    <3>2. (CutIsWritten' /\ HoldsWhole' /\ LoadsReturned') \/ dictFaults # 0
      BY <2>2, OneMoves DEF CutIsWritten, HoldsWhole, LoadsReturned
    <3> QED BY <3>1, <3>2
  <2> QED BY <2>1, <2>2 DEF Dict!Accepts
<1>4. ASSUME NEW p \in DictProcesses, Dict!Truncate(p) PROVE DictInv'
  <2> USE <1>4 DEF Dict!Truncate
  <2>1. DictTypes'  BY OneMoves DEF DictTypes
  <2>2. (CutIsWritten' /\ HoldsWhole' /\ LoadsReturned') \/ dictFaults # 0
    BY OneMoves DEF CutIsWritten, HoldsWhole, LoadsReturned
  <2> QED BY <2>1, <2>2
<1>5. ASSUME NEW p \in DictProcesses, Dict!Write(p) PROVE DictInv'
  <2> USE <1>5 DEF Dict!Write
  <2>1. DictTypes'  BY OneMoves DEF DictTypes
  <2>2. ASSUME dictFaults = 0 PROVE CutIsWritten' /\ HoldsWhole' /\ LoadsReturned'
    <3>1. dictAnswer[p] = "whole"  BY <2>2 DEF HoldsWhole
    <3>2. CutIsWritten'
      <4>1. CASE dictOpener = {p}  BY <3>1, <4>1 DEF CutIsWritten
      <4>2. CASE dictOpener # {p}
        <5>1. dictFile' = dictFile /\ dictOpener' = dictOpener  BY <4>2
        <5>2. dictFile = "cut" => \E q \in DictProcesses \ {p} : dictOpener = {q} /\ dictLoad[q] = "write"
          BY <2>2, <4>2 DEF CutIsWritten
        <5> QED BY <2>2, <5>1, <5>2, OneMoves DEF CutIsWritten
      <4> QED BY <4>1, <4>2
    <3>3. HoldsWhole'  BY <2>2, <3>1, OneMoves DEF HoldsWhole
    <3>4. LoadsReturned'  BY <2>2 DEF LoadsReturned
    <3> QED BY <3>2, <3>3, <3>4
  <2> QED BY <2>1, <2>2
<1>6. ASSUME NEW p \in DictProcesses, Dict!WriteFails(p) PROVE DictInv'
  <2> USE <1>6 DEF Dict!WriteFails
  <2>1. DictTypes'  BY OneMoves, OneReturns DEF DictTypes
  <2>2. dictFaults' # 0  BY DEF DictTypes
  <2> QED BY <2>1, <2>2
<1>7. CASE UNCHANGED Dict!vars
  BY <1>7 DEF Dict!vars, DictTypes, CutIsWritten, HoldsWhole, LoadsReturned
<1> QED BY <1>1, <1>2, <1>3, <1>4, <1>5, <1>6, <1>7 DEF Dict!Next

-----------------------------------------------------------------------------

LEMMA DictSteps == StorageSpec => Dict!Spec
<1>1. StorageInit => Dict!Init  BY DEF StorageInit
<1>2. [StorageNext]_storageVars => [Dict!Next]_(Dict!vars)
  BY DEF StorageNext, storageVars, appVars, dictVars, repVars, labVars, genVars, migVars,
     Dict!vars
<1> QED BY <1>1, <1>2, PTL DEF StorageSpec, Dict!Spec

\* LoadsAreWhole: however many processes find no file, download the dictionary
\* and truncate the file under one another (load_from_url), it is whole when none
\* of them writes, and only a load that met a write returns anything else.
THEOREM DictionaryIsWhole == StorageSpec => []LoadsAreWhole
<1>1. DictInv => LoadsAreWhole  BY DictInvIsEnough DEF LoadsAreWhole
<1> QED BY <1>1, DictInit, DictNext, DictSteps, PTL DEF Dict!Spec

-----------------------------------------------------------------------------
(* RepoClient: the inductive invariant *)

Named == {"put", "upload", "delete", "get"}
CallOps == {"none", "create"} \cup Named
Keys == {<<>>} \cup {<<"client", t>> : t \in Nat} \cup {<<"blob", c>> : c \in RepClients}
Calls == [op : CallOps, key : Keys, calls : Nat, result : {"ok", "absent", "error"}]

RepoTypes ==
    /\ repMicros \in Nat /\ repMicros <= RepMaxMicros /\ repNextKey \in Nat
    /\ repCall \in [RepClients -> Calls]
    /\ repUnheard \in [RepClients -> Nat]

\* The key of a call goes with its operation, and so does its result.
CallFits(x, c) ==
    /\ x.op \in {"none", "create"} => x.key = <<>>
    /\ x.op \in {"put", "delete", "get"} => \E t \in Nat : x.key = <<"client", t>>
    /\ x.op = "upload" => x.key = <<"blob", c>>
    /\ x.op = "none" => x.result = "error"
    /\ x.op \in {"put", "upload", "create"} => x.result # "absent"

CallsFit == \A c \in RepClients : CallFits(repCall[c], c)

\* A record has the key of its maker's call, or is one that the PDS named.
IsMade(r, x, next) ==
    \/ x.op \in Named /\ r.key = x.key
    \/ x.op = "create" /\ \E k \in Nat : k < next /\ r.key = <<"pds", k>>

RecordsAreMade ==
    \A r \in repRecords : /\ r = [key |-> r.key, by |-> r.by]
                          /\ r.by \in RepClients /\ IsMade(r, repCall[r.by], repNextKey)

\* What a program knows of its record, which no other program touches.
KnownOf(x, c, held) ==
    /\ x.op = "get" \/ (x.op \in {"put", "upload"} /\ x.result # "error") =>
           [key |-> x.key, by |-> c] \in held
    /\ x.op = "get" /\ x.result # "error" => x.result = "ok"
    /\ x.op = "delete" /\ x.result # "error" => \A r \in held : r.key # x.key

Known == \A c \in RepClients : Repo!Alone(c) => KnownOf(repCall[c], c, repRecords)

PdsRecords(held, c) == {r \in held : r.by = c /\ r.key[1] = "pds"}

CreatedOf(x, c, held, lost) ==
    /\ IsFiniteSet(PdsRecords(held, c))
    /\ Cardinality(PdsRecords(held, c)) =
           lost + (IF x.op = "create" /\ x.result # "error" THEN 1 ELSE 0)

Created == \A c \in RepClients : CreatedOf(repCall[c], c, repRecords, repUnheard[c])

\* No TID has wrapped.
DrawnFit ==
    \A a \in repDrawn : /\ a.at \in Nat /\ a.at <= repMicros
                        /\ \E id \in Nat : id < RepClockIds /\ a.tid = a.at * RepClockIds + id

HeldInv == RepoTypes /\ CallsFit /\ RecordsAreMade /\ Known /\ Created
RepoInv == HeldInv /\ DrawnFit

-----------------------------------------------------------------------------

LEMMA NothingWraps ==
    ASSUME NEW m \in Nat, NEW id \in Nat, m <= RepMaxMicros, id < RepClockIds
    PROVE  (m * RepClockIds + id) % RepWidth = m * RepClockIds + id /\ m * RepClockIds + id \in Nat
<1>1. RepClockIds \in Nat /\ RepWidth \in Nat /\ RepMaxMicros \in Nat /\ (RepMaxMicros + 1) * RepClockIds <= RepWidth
  BY RepoAssumption DEF TidsFit
<1>2. PICK k \in Nat : RepMaxMicros = m + k  BY <1>1
<1>3. (m + k + 1) * RepClockIds = m * RepClockIds + k * RepClockIds + RepClockIds  BY <1>1
<1>4. k * RepClockIds \in Nat /\ m * RepClockIds \in Nat  BY <1>1
<1>5. m * RepClockIds + id < RepWidth  BY <1>1, <1>2, <1>3, <1>4
<1>6. \A n, w \in Nat : n < w => n % w = n  OBVIOUS
<1> QED BY <1>1, <1>4, <1>5, <1>6

LEMMA LaterIsGreater ==
    ASSUME NEW m \in Nat, NEW n \in Nat, m < n, NEW i \in Nat, NEW j \in Nat, i < RepClockIds
    PROVE  m * RepClockIds + i < n * RepClockIds + j
<1>1. RepClockIds \in Nat  BY RepoAssumption
<1>2. PICK k \in Nat : n = m + 1 + k  OBVIOUS
<1>3. (m + 1 + k) * RepClockIds = m * RepClockIds + RepClockIds + k * RepClockIds  BY <1>1
<1>4. k * RepClockIds \in Nat /\ m * RepClockIds \in Nat  BY <1>1
<1> QED BY <1>1, <1>2, <1>3, <1>4

LEMMA RepoInit == Repo!Init => RepoInv
<1> SUFFICES ASSUME Repo!Init PROVE RepoInv  OBVIOUS
<1>1. Repo!NoCall \in Calls  BY DEF Repo!NoCall, Calls, CallOps, Named, Keys
<1>2. RepoTypes  BY <1>1, RepoAssumption DEF Repo!Init, RepoTypes
<1>3. CallsFit  BY DEF Repo!Init, CallsFit, CallFits, Repo!NoCall
<1>4. RecordsAreMade /\ Known /\ DrawnFit
  BY DEF Repo!Init, RecordsAreMade, Known, KnownOf, DrawnFit, Repo!NoCall
<1>5. ASSUME NEW c \in RepClients PROVE CreatedOf(repCall[c], c, repRecords, repUnheard[c])
  <2>1. PdsRecords(repRecords, c) = {}  BY DEF Repo!Init, PdsRecords
  <2>2. repCall[c].op = "none" /\ repUnheard[c] = 0  BY DEF Repo!Init, Repo!NoCall
  <2> QED BY <2>1, <2>2, FS_EmptySet DEF CreatedOf
<1> QED BY <1>2, <1>3, <1>4, <1>5 DEF RepoInv, HeldInv, Created

\* Keys do not collide but for two programs that draw the same TID.
LEMMA KeysDiffer ==
    ASSUME NEW c, NEW x, x.op \in CallOps, CallFits(x, c)
    PROVE  /\ x.op \in Named => x.key # <<>> /\ x.key[1] # "pds" /\ \A k : x.key # <<"pds", k>>
           /\ x.op \notin Named => x.key = <<>>
<1>1. CASE x.op \in {"put", "delete", "get"}
  <2>1. PICK t \in Nat : x.key = <<"client", t>>  BY <1>1 DEF CallFits
  <2> QED BY <1>1, <2>1 DEF Named
<1>2. CASE x.op = "upload"
  <2>1. x.key = <<"blob", c>>  BY <1>2 DEF CallFits
  <2> QED BY <1>2, <2>1 DEF Named
<1>3. CASE x.op \in {"none", "create"}  BY <1>3 DEF CallFits, Named
<1> QED BY <1>1, <1>2, <1>3 DEF CallOps, Named

\* A step of one program: it changes its own call, adds records of its own and
\* takes away records of its key only.  It suffices that what it knows itself
\* holds afterwards.
LEMMA OneActs ==
    ASSUME HeldInv, NEW c \in RepClients, RepoTypes',
           \A d \in RepClients \ {c} : repCall'[d] = repCall[d] /\ repUnheard'[d] = repUnheard[d],
           repCall'[c].key = repCall[c].key \/ repCall[c].op = "none",
           repCall[c].op \in Named => repCall'[c].op \in Named,
           repCall[c].op = "create" => repCall'[c].op = "create",
           CallFits(repCall'[c], c), repNextKey' \in {repNextKey, repNextKey + 1},
           \A r \in repRecords' : r \in repRecords \/ (r = [key |-> r.key, by |-> c] /\ IsMade(r, repCall'[c], repNextKey')),
           \A r \in repRecords : r \in repRecords' \/ (repCall[c].op \in Named /\ r.key = repCall[c].key),
           Repo!Alone(c)' => KnownOf(repCall'[c], c, repRecords'),
           CreatedOf(repCall'[c], c, repRecords', repUnheard'[c])
    PROVE  HeldInv'
<1>1. CallsFit'  BY DEF HeldInv, CallsFit
<1>o. \A d \in RepClients : repCall[d].op \in CallOps /\ repCall'[d].op \in CallOps
  BY DEF HeldInv, RepoTypes, Calls
<1>k. repNextKey \in Nat /\ repNextKey' \in Nat  BY DEF HeldInv, RepoTypes
<1>2. RecordsAreMade'
  <2>1. \A r : IsMade(r, repCall[c], repNextKey) => IsMade(r, repCall'[c], repNextKey')
    BY <1>k DEF IsMade, Named
  <2>2. \A r, x : IsMade(r, x, repNextKey) => IsMade(r, x, repNextKey')
    BY <1>k DEF IsMade
  <2> SUFFICES ASSUME NEW r \in repRecords'
               PROVE  /\ r = [key |-> r.key, by |-> r.by]
                      /\ r.by \in RepClients /\ IsMade(r, repCall'[r.by], repNextKey')
    BY DEF RecordsAreMade
  <2>3. CASE r \in repRecords
    <3>1. /\ r = [key |-> r.key, by |-> r.by]
          /\ r.by \in RepClients /\ IsMade(r, repCall[r.by], repNextKey)
      BY <2>3 DEF HeldInv, RecordsAreMade
    <3> QED BY <2>1, <2>2, <3>1
  <2>4. CASE r = [key |-> r.key, by |-> c] /\ IsMade(r, repCall'[c], repNextKey')
    <3>1. r.by = c  BY <2>4
    <3> QED BY <2>4, <3>1
  <2> QED BY <2>3, <2>4
<1>3. Known'
  <2> SUFFICES ASSUME NEW d \in RepClients \ {c}, Repo!Alone(d)' PROVE KnownOf(repCall[d], d, repRecords')
    BY DEF Known
  <2>1. CASE repCall[d].op \notin Named  BY <2>1 DEF KnownOf, Named
  <2>2. CASE repCall[d].op \in Named
    <3>1. repCall[d].key # <<>> /\ \A k : repCall[d].key # <<"pds", k>>
      BY <1>o, <2>2, KeysDiffer DEF HeldInv, CallsFit
    <3>2. \A e \in RepClients \ {d} : repCall'[e].key # repCall[d].key  BY DEF Repo!Alone
    <3>3. repCall[c].op = "none" => repCall[c].key = <<>>
      BY DEF HeldInv, CallsFit, CallFits
    <3>4. \A e \in RepClients \ {d} : repCall[e].key # repCall[d].key
      BY <3>1, <3>2, <3>3
    <3>5. KnownOf(repCall[d], d, repRecords)  BY <3>4 DEF Repo!Alone, HeldInv, Known
    <3>6. \A r : r.key = repCall[d].key => (r \in repRecords <=> r \in repRecords')
      <4> SUFFICES ASSUME NEW r, r.key = repCall[d].key PROVE r \in repRecords <=> r \in repRecords'  OBVIOUS
      <4>1. r \in repRecords => r \in repRecords'  BY <3>4
      <4>2. ~IsMade(r, repCall'[c], repNextKey')  BY <3>1, <3>2 DEF IsMade
      <4> QED BY <4>1, <4>2
    <3> QED BY <3>5, <3>6 DEF KnownOf
  <2> QED BY <2>1, <2>2
<1>4. Created'
  <2> SUFFICES ASSUME NEW d \in RepClients \ {c} PROVE CreatedOf(repCall[d], d, repRecords', repUnheard[d])
    BY DEF Created
  <2>1. \A r : r \in repRecords' /\ r.by = d => r \in repRecords
    <3> SUFFICES ASSUME NEW r \in repRecords', r.by = d, r \notin repRecords PROVE FALSE  OBVIOUS
    <3>1. PICK k : r = [key |-> k, by |-> c]  OBVIOUS
    <3> QED BY <3>1
  <2>2. repCall[c].op \in Named => repCall[c].key[1] # "pds"
    BY <1>o, KeysDiffer DEF HeldInv, CallsFit
  <2>3. PdsRecords(repRecords', d) = PdsRecords(repRecords, d)
    BY <2>1, <2>2 DEF PdsRecords
  <2> QED BY <2>3 DEF HeldInv, Created, CreatedOf
<1> QED BY <1>1, <1>2, <1>3, <1>4 DEF HeldInv

\* What a program's start makes of its call.
LEMMA Begun ==
    ASSUME RepoTypes, NEW c \in RepClients, NEW op \in CallOps, NEW key \in Keys, Repo!Begin(c, op, key)
    PROVE  /\ repCall' \in [RepClients -> Calls]
           /\ repCall'[c].op = op /\ repCall'[c].key = key /\ repCall'[c].result = "error"
           /\ \A d \in RepClients \ {c} : repCall'[d] = repCall[d]
<1>1. PICK x : x = [op |-> op, key |-> key, calls |-> 0, result |-> "error"]  OBVIOUS
<1>2. x \in Calls  BY <1>1 DEF Calls
<1>3. /\ repCall' \in [RepClients -> Calls] /\ repCall'[c] = x
      /\ \A d \in RepClients \ {c} : repCall'[d] = repCall[d]
  BY <1>1, <1>2 DEF Repo!Begin, RepoTypes
<1> QED BY <1>1, <1>3

LEMMA EndedCall ==
    ASSUME NEW y \in Calls, NEW result \in {"ok", "absent", "error"}
    PROVE  LET x == [y EXCEPT !.calls = @ + 1, !.result = result]
           IN  x \in Calls /\ x.op = y.op /\ x.key = y.key /\ x.result = result
<1>a. y.calls + 1 \in Nat  BY DEF Calls
<1>1. PICK n \in Nat : n = y.calls + 1  BY <1>a
<1>2. [y EXCEPT !.calls = n, !.result = result] \in Calls  BY DEF Calls
<1>3. [y EXCEPT !.calls = n, !.result = result].key = y.key  BY DEF Calls
<1>4. [y EXCEPT !.calls = n, !.result = result].op = y.op  BY DEF Calls
<1>5. [y EXCEPT !.calls = n, !.result = result].result = result  BY DEF Calls
<1> QED BY <1>1, <1>2, <1>3, <1>4, <1>5

\* What the end of a call makes of it.
LEMMA Ended ==
    ASSUME RepoTypes, NEW c \in RepClients, NEW result \in {"ok", "absent", "error"}, Repo!Ends(c, result)
    PROVE  /\ repCall' \in [RepClients -> Calls]
           /\ repCall'[c].op = repCall[c].op /\ repCall'[c].key = repCall[c].key /\ repCall'[c].result = result
           /\ \A d \in RepClients \ {c} : repCall'[d] = repCall[d]
           /\ repCall[c].op # "none" /\ repCall[c].result = "error"
<1>1. PICK x : x = [repCall[c] EXCEPT !.calls = @ + 1, !.result = result]  OBVIOUS
<1>2. x \in Calls /\ x.op = repCall[c].op /\ x.key = repCall[c].key /\ x.result = result
  <2>1. repCall[c] \in Calls  BY DEF RepoTypes
  <2> QED BY <1>1, <2>1, EndedCall
<1>3. /\ repCall' = [repCall EXCEPT ![c] = x]
      /\ repCall[c].op # "none" /\ repCall[c].result = "error"
  BY <1>1 DEF Repo!Ends
<1> QED BY <1>2, <1>3 DEF RepoTypes

\* A call of an operation on a key ends; it has made the one record of that key,
\* or taken it away, or left all records alone.
LEMMA KeyedCallEnds ==
    ASSUME HeldInv, NEW c \in RepClients, NEW result \in {"ok", "absent", "error"}, Repo!Ends(c, result),
           repCall[c].op \in Named, UNCHANGED <<repMicros, repNextKey, repUnheard>>,
           \A r \in repRecords' : r \in repRecords \/ r = [key |-> repCall[c].key, by |-> c],
           \A r \in repRecords : r \in repRecords' \/ r.key = repCall[c].key,
           repCall[c].op \in {"put", "upload"} => result # "absent",
           repCall[c].op \in {"put", "upload"} /\ result # "error" =>
                  [key |-> repCall[c].key, by |-> c] \in repRecords',
           repCall[c].op = "get" => repRecords' = repRecords,
           repCall[c].op = "get" /\ result = "absent" => \A r \in repRecords : r.key # repCall[c].key,
           repCall[c].op = "delete" /\ result # "error" => \A r \in repRecords' : r.key # repCall[c].key
    PROVE  HeldInv'
<1>t. RepoTypes  BY DEF HeldInv
<1>1. /\ repCall' \in [RepClients -> Calls]
      /\ repCall'[c].op = repCall[c].op /\ repCall'[c].key = repCall[c].key /\ repCall'[c].result = result
      /\ \A d \in RepClients \ {c} : repCall'[d] = repCall[d]
      /\ repCall[c].op # "none" /\ repCall[c].result = "error"
  BY <1>t, Ended
<1>2. RepoTypes'  BY <1>1 DEF HeldInv, RepoTypes
<1>o. repCall[c].op \in CallOps  BY DEF HeldInv, RepoTypes, Calls
<1>3. CallFits(repCall'[c], c)
  <2>1. CallFits(repCall[c], c)  BY DEF HeldInv, CallsFit
  <2> QED BY <1>1, <2>1 DEF CallFits, Named
<1>4. ASSUME NEW r \in repRecords', r \notin repRecords
      PROVE  r = [key |-> r.key, by |-> c] /\ IsMade(r, repCall'[c], repNextKey')
  <2>1. r = [key |-> repCall[c].key, by |-> c]  BY <1>4
  <2>2. r.key = repCall[c].key  BY <2>1
  <2> QED BY <1>1, <2>1, <2>2 DEF IsMade
<1>5. ASSUME Repo!Alone(c)' PROVE KnownOf(repCall'[c], c, repRecords')
  <2>1. Repo!Alone(c)  BY <1>1, <1>5 DEF Repo!Alone
  <2>2. KnownOf(repCall[c], c, repRecords)  BY <2>1 DEF HeldInv, Known
  <2> QED BY <1>1, <2>2 DEF KnownOf
<1>6. CreatedOf(repCall'[c], c, repRecords', repUnheard'[c])
  <2>1. repCall[c].key[1] # "pds"  BY <1>o, KeysDiffer DEF HeldInv, CallsFit
  <2>2. PdsRecords(repRecords', c) = PdsRecords(repRecords, c)
    <3>1. \A r \in repRecords' : r.key[1] = "pds" => r \in repRecords
      <4> SUFFICES ASSUME NEW r \in repRecords', r.key[1] = "pds", r \notin repRecords PROVE FALSE  OBVIOUS
      <4>1. r = [key |-> repCall[c].key, by |-> c]  OBVIOUS
      <4>2. r.key = repCall[c].key  BY <4>1
      <4> QED BY <2>1, <4>2
    <3> QED BY <2>1, <3>1 DEF PdsRecords
  <2>3. CreatedOf(repCall[c], c, repRecords, repUnheard[c])  BY DEF HeldInv, Created
  <2>4. repCall[c].op # "create"  BY DEF Named
  <2> QED BY <1>1, <2>2, <2>3, <2>4 DEF CreatedOf
<1>7. repNextKey' = repNextKey /\ repUnheard' = repUnheard  OBVIOUS
<1> QED BY <1>1, <1>2, <1>3, <1>4, <1>5, <1>6, <1>7, OneActs

\* A program that starts knows nothing yet, but that it gets a record it has put.
LEMMA Starts ==
    ASSUME HeldInv, NEW c \in RepClients, NEW op \in CallOps, NEW key \in Keys, Repo!Begin(c, op, key),
           UNCHANGED <<repMicros, repRecords, repNextKey, repUnheard>>,
           op # "none", CallFits([op |-> op, key |-> key, calls |-> 0, result |-> "error"], c),
           \/ repCall[c].op = "none" /\ op # "get"
           \/ repCall[c].op = "put" /\ repCall[c].result # "error" /\ op \in Named /\ repCall[c].key = key
    PROVE  HeldInv'
<1>t. RepoTypes  BY DEF HeldInv
<1>1. /\ repCall' \in [RepClients -> Calls]
      /\ repCall'[c].op = op /\ repCall'[c].key = key /\ repCall'[c].result = "error"
      /\ \A d \in RepClients \ {c} : repCall'[d] = repCall[d]
  BY <1>t, Begun
<1>2. RepoTypes'  BY <1>1 DEF HeldInv, RepoTypes
<1>3. CallFits(repCall'[c], c)  BY <1>1 DEF CallFits
<1>4. \A r \in repRecords : r = [key |-> r.key, by |-> r.by]  BY DEF HeldInv, RecordsAreMade
<1>5. ASSUME Repo!Alone(c)' PROVE KnownOf(repCall'[c], c, repRecords')
  <2>1. CASE op # "get"  BY <1>1, <2>1 DEF KnownOf
  <2>2. CASE op = "get"
    <3>1. Repo!Alone(c)  BY <1>1, <1>5, <2>2 DEF Repo!Alone
    <3>2. KnownOf(repCall[c], c, repRecords)  BY <3>1 DEF HeldInv, Known
    <3> QED BY <1>1, <2>2, <3>2 DEF KnownOf
  <2> QED BY <2>1, <2>2
<1>6. CreatedOf(repCall'[c], c, repRecords', repUnheard'[c])
  <2>1. CreatedOf(repCall[c], c, repRecords, repUnheard[c])  BY DEF HeldInv, Created
  <2> QED BY <1>1, <2>1 DEF CreatedOf
<1>7. repNextKey' = repNextKey /\ repUnheard' = repUnheard /\ repRecords' = repRecords  OBVIOUS
<1> QED BY <1>1, <1>2, <1>3, <1>5, <1>6, <1>7, OneActs DEF Named

LEMMA CreateArrives ==
    ASSUME HeldInv, NEW c \in RepClients, Repo!CreateRecord(c) PROVE HeldInv'
<1>t. RepoTypes  BY DEF HeldInv
<1>0. repCall[c].op = "create" /\ UNCHANGED repMicros  BY DEF Repo!CreateRecord
<1>1. PICK result \in {"ok", "error"} :
        /\ Repo!Ends(c, result)
        /\ repUnheard' = IF result = "ok" THEN repUnheard ELSE [repUnheard EXCEPT ![c] = @ + 1]
  BY DEF Repo!CreateRecord
<1>2. /\ repCall' \in [RepClients -> Calls]
      /\ repCall'[c].op = repCall[c].op /\ repCall'[c].key = repCall[c].key /\ repCall'[c].result = result
      /\ \A d \in RepClients \ {c} : repCall'[d] = repCall[d]
      /\ repCall[c].op # "none" /\ repCall[c].result = "error"
  BY <1>t, <1>1, Ended
<1>u. /\ repUnheard' \in [RepClients -> Nat]
      /\ \A d \in RepClients \ {c} : repUnheard'[d] = repUnheard[d]
      /\ repUnheard'[c] = IF result = "ok" THEN repUnheard[c] ELSE repUnheard[c] + 1
  BY <1>1, <1>t DEF RepoTypes
<1>n. repNextKey \in Nat /\ repNextKey' = repNextKey + 1
  BY <1>t DEF Repo!CreateRecord, RepoTypes
<1>3. RepoTypes'  BY <1>0, <1>t, <1>2, <1>u, <1>n DEF RepoTypes
<1>4. CallFits(repCall'[c], c)
  <2>1. CallFits(repCall[c], c)  BY DEF HeldInv, CallsFit
  <2> QED BY <1>0, <1>2, <2>1 DEF CallFits
<1>5. PICK x : x = [key |-> <<"pds", repNextKey>>, by |-> c]  OBVIOUS
<1>6. repRecords' = repRecords \cup {x} /\ x.key = <<"pds", repNextKey>> /\ x.by = c /\ x = [key |-> x.key, by |-> c]
  BY <1>5 DEF Repo!CreateRecord
<1>7. IsMade(x, repCall'[c], repNextKey')  BY <1>0, <1>2, <1>6, <1>n DEF IsMade
<1>8. KnownOf(repCall'[c], c, repRecords')  BY <1>0, <1>2 DEF KnownOf
<1>9. CreatedOf(repCall'[c], c, repRecords', repUnheard'[c])
  <2>1. x \notin repRecords
    <3> SUFFICES ASSUME x \in repRecords PROVE FALSE  OBVIOUS
    <3>1. IsMade(x, repCall[c], repNextKey)  BY <1>6 DEF HeldInv, RecordsAreMade
    <3>2. PICK k \in Nat : k < repNextKey /\ x.key = <<"pds", k>>
      BY <1>0, <3>1 DEF IsMade, Named
    <3>3. k = repNextKey  BY <1>6, <3>2
    <3> QED BY <1>n, <3>2, <3>3
  <2>2. x.key[1] = "pds"  BY <1>6
  <2>3. PdsRecords(repRecords', c) = PdsRecords(repRecords, c) \cup {x} /\ x \notin PdsRecords(repRecords, c)
    BY <1>6, <2>1, <2>2 DEF PdsRecords
  <2>4. IsFiniteSet(PdsRecords(repRecords, c)) /\ Cardinality(PdsRecords(repRecords, c)) = repUnheard[c]
    <3>1. CreatedOf(repCall[c], c, repRecords, repUnheard[c])  BY DEF HeldInv, Created
    <3>2. repUnheard[c] \in Nat  BY <1>t DEF RepoTypes
    <3> QED BY <1>2, <3>1, <3>2 DEF CreatedOf
  <2>5. /\ IsFiniteSet(PdsRecords(repRecords', c))
        /\ Cardinality(PdsRecords(repRecords', c)) = repUnheard[c] + 1
    BY <2>3, <2>4, FS_AddElement
  <2>6. repUnheard[c] \in Nat  BY <1>t DEF RepoTypes
  <2>7. repUnheard'[c] + (IF repCall'[c].op = "create" /\ repCall'[c].result # "error" THEN 1 ELSE 0) = repUnheard[c] + 1
    <3>1. CASE result = "ok"  BY <1>0, <1>2, <1>u, <2>6, <3>1
    <3>2. CASE result = "error"  BY <1>0, <1>2, <1>u, <2>6, <3>2
    <3> QED BY <3>1, <3>2
  <2> QED BY <2>5, <2>7 DEF CreatedOf
<1>10. repNextKey' = repNextKey + 1  BY <1>n
<1>11. \A r \in repRecords' : r \in repRecords \/ (r = [key |-> r.key, by |-> c] /\ IsMade(r, repCall'[c], repNextKey'))
  BY <1>6, <1>7
<1>12. \A r \in repRecords : r \in repRecords'  BY <1>6
<1> QED BY <1>0, <1>2, <1>u, <1>3, <1>4, <1>8, <1>9, <1>10, <1>11, <1>12, OneActs DEF Named

\* A call ends and nothing else happened.
LEMMA NothingDone ==
    ASSUME HeldInv, NEW c \in RepClients, Repo!NotDone(c) PROVE HeldInv'
<1>t. RepoTypes  BY DEF HeldInv
<1>1. Repo!Ends(c, "error") /\ UNCHANGED <<repMicros, repRecords, repNextKey, repUnheard>>
  BY DEF Repo!NotDone
<1>2. /\ repCall' \in [RepClients -> Calls]
      /\ repCall'[c].op = repCall[c].op /\ repCall'[c].key = repCall[c].key /\ repCall'[c].result = "error"
      /\ \A d \in RepClients \ {c} : repCall'[d] = repCall[d]
      /\ repCall[c].op # "none" /\ repCall[c].result = "error"
  BY <1>t, <1>1, Ended
<1>3. RepoTypes'  BY <1>t, <1>1, <1>2 DEF RepoTypes
<1>4. CallFits(repCall'[c], c)
  <2>1. CallFits(repCall[c], c)  BY DEF HeldInv, CallsFit
  <2> QED BY <1>2, <2>1 DEF CallFits
<1>5. ASSUME Repo!Alone(c)' PROVE KnownOf(repCall'[c], c, repRecords')
  <2>1. Repo!Alone(c)  BY <1>2, <1>5 DEF Repo!Alone
  <2>2. KnownOf(repCall[c], c, repRecords)  BY <2>1 DEF HeldInv, Known
  <2> QED BY <1>1, <1>2, <2>2 DEF KnownOf
<1>6. CreatedOf(repCall'[c], c, repRecords', repUnheard'[c])
  <2>1. CreatedOf(repCall[c], c, repRecords, repUnheard[c])  BY DEF HeldInv, Created
  <2> QED BY <1>1, <1>2, <2>1 DEF CreatedOf
<1>7. repNextKey' = repNextKey  BY <1>1
<1> QED BY <1>1, <1>2, <1>3, <1>4, <1>5, <1>6, <1>7, OneActs

LEMMA RepoNext == RepoInv /\ [Repo!Next]_(Repo!vars) => RepoInv'
<1> SUFFICES ASSUME RepoInv, [Repo!Next]_(Repo!vars) PROVE RepoInv'  OBVIOUS
<1>h. HeldInv /\ RepoTypes /\ CallsFit /\ repMicros \in Nat /\ repMicros <= RepMaxMicros
  BY DEF RepoInv, HeldInv, RepoTypes
<1>d. UNCHANGED <<repMicros, repDrawn>> => DrawnFit'  BY DEF RepoInv, DrawnFit
<1>1. CASE Repo!Tick
  <2>1. repMicros' \in Nat /\ repMicros' <= RepMaxMicros /\ repMicros <= repMicros'
        /\ UNCHANGED <<repRecords, repNextKey, repCall, repDrawn, repUnheard>>
    BY <1>1, <1>h, RepoAssumption DEF Repo!Tick
  <2>2. RepoTypes'  BY <2>1, <1>h DEF RepoTypes
  <2>3. HeldInv'
    BY <2>1, <2>2, <1>h DEF HeldInv, CallsFit, RecordsAreMade, Known, Repo!Alone, Created
  <2>4. DrawnFit'  BY <2>1, <1>h DEF RepoInv, DrawnFit
  <2> QED BY <2>3, <2>4 DEF RepoInv
<1>2. ASSUME NEW c \in RepClients, Repo!BeginCreate(c) PROVE RepoInv'
  <2>1. repCall[c].op = "none" /\ Repo!Begin(c, "create", <<>>) /\ UNCHANGED <<repMicros, repRecords, repNextKey, repDrawn, repUnheard>>
    BY <1>2 DEF Repo!BeginCreate
  <2>2. CallFits([op |-> "create", key |-> <<>>, calls |-> 0, result |-> "error"], c)
    BY DEF CallFits
  <2>3. "create" \in CallOps /\ <<>> \in Keys  BY DEF CallOps, Keys
  <2>4. HeldInv'  BY <1>h, <2>1, <2>2, <2>3, Starts
  <2> QED BY <1>d, <2>1, <2>4 DEF RepoInv
<1>3. ASSUME NEW c \in RepClients, Repo!BeginUpload(c) PROVE RepoInv'
  <2>1. repCall[c].op = "none" /\ Repo!Begin(c, "upload", <<"blob", c>>)
        /\ UNCHANGED <<repMicros, repRecords, repNextKey, repDrawn, repUnheard>>
    BY <1>3 DEF Repo!BeginUpload
  <2>2. CallFits([op |-> "upload", key |-> <<"blob", c>>, calls |-> 0, result |-> "error"], c)
    BY DEF CallFits
  <2>3. "upload" \in CallOps /\ <<"blob", c>> \in Keys  BY DEF CallOps, Keys, Named
  <2>4. HeldInv'  BY <1>h, <2>1, <2>2, <2>3, Starts
  <2> QED BY <1>d, <2>1, <2>4 DEF RepoInv
<1>4. ASSUME NEW c \in RepClients, NEW id \in 0..(RepClockIds - 1), Repo!BeginPut(c, id) PROVE RepoInv'
  <2>1. repCall[c].op = "none" /\ Repo!Begin(c, "put", <<"client", Repo!Tid(id)>>)
        /\ UNCHANGED <<repMicros, repRecords, repNextKey, repUnheard>>
        /\ repDrawn' = repDrawn \cup {[at |-> repMicros, tid |-> Repo!Tid(id)]}
    BY <1>4 DEF Repo!BeginPut
  <2>i. id \in Nat /\ id < RepClockIds  BY RepoAssumption
  <2>2. Repo!Tid(id) = repMicros * RepClockIds + id /\ Repo!Tid(id) \in Nat
    BY <1>h, <2>i, NothingWraps DEF Repo!Tid
  <2>3. "put" \in CallOps /\ <<"client", Repo!Tid(id)>> \in Keys
    BY <2>2 DEF CallOps, Keys, Named
  <2>4. CallFits([op |-> "put", key |-> <<"client", Repo!Tid(id)>>, calls |-> 0, result |-> "error"], c)
    BY <2>2 DEF CallFits
  <2>5. HeldInv'  BY <1>h, <2>1, <2>3, <2>4, Starts
  <2>6. DrawnFit'
    <3>1. PICK a : a = [at |-> repMicros, tid |-> Repo!Tid(id)]  OBVIOUS
    <3>2. a.at = repMicros /\ a.tid = repMicros * RepClockIds + id  BY <2>2, <3>1
    <3>3. repDrawn' = repDrawn \cup {a} /\ repMicros' = repMicros  BY <2>1, <3>1
    <3> QED BY <1>h, <2>i, <3>2, <3>3 DEF RepoInv, DrawnFit
  <2> QED BY <2>5, <2>6 DEF RepoInv
<1>5. ASSUME NEW c \in RepClients, NEW op \in {"delete", "get"}, Repo!BeginOther(c, op) PROVE RepoInv'
  <2>1. repCall[c].op = "put" /\ repCall[c].result # "error" /\ Repo!Begin(c, op, repCall[c].key)
        /\ UNCHANGED <<repMicros, repRecords, repNextKey, repDrawn, repUnheard>>
    BY <1>5 DEF Repo!BeginOther
  <2>2. CallFits([op |-> op, key |-> repCall[c].key, calls |-> 0, result |-> "error"], c)
    BY <1>h, <2>1 DEF CallFits, CallsFit
  <2>3. op \in CallOps /\ op \in Named /\ repCall[c].key \in Keys
    BY <1>h DEF CallOps, Named, RepoTypes, Calls
  <2>4. HeldInv'  BY <1>h, <2>1, <2>2, <2>3, Starts
  <2> QED BY <1>d, <2>1, <2>4 DEF RepoInv
<1>6. ASSUME NEW c \in RepClients, Repo!NotDone(c) PROVE RepoInv'
  BY <1>6, <1>h, <1>d, NothingDone DEF RepoInv, Repo!NotDone
<1>7. ASSUME NEW c \in RepClients, Repo!CreateRecord(c) PROVE RepoInv'
  BY <1>7, <1>h, <1>d, CreateArrives DEF RepoInv, Repo!CreateRecord
<1>8. ASSUME NEW c \in RepClients, Repo!PutRecord(c) PROVE RepoInv'
  <2>1. repCall[c].op = "put" /\ UNCHANGED <<repMicros, repNextKey, repDrawn, repUnheard>>
        /\ repRecords' = (repRecords \ Repo!Keyed(repCall[c].key)) \cup {[key |-> repCall[c].key, by |-> c]}
    BY <1>8 DEF Repo!PutRecord
  <2>2. PICK result \in {"ok", "error"} : Repo!Ends(c, result)  BY <1>8 DEF Repo!PutRecord
  <2>3. /\ \A r \in repRecords' : r \in repRecords \/ r = [key |-> repCall[c].key, by |-> c]
        /\ \A r \in repRecords : r \in repRecords' \/ r.key = repCall[c].key
        /\ [key |-> repCall[c].key, by |-> c] \in repRecords'
    BY <2>1 DEF Repo!Keyed
  <2>4. HeldInv'  BY <1>h, <2>1, <2>2, <2>3, KeyedCallEnds DEF Named
  <2> QED BY <1>d, <2>1, <2>4 DEF RepoInv
<1>9. ASSUME NEW c \in RepClients, Repo!UploadBlob(c) PROVE RepoInv'
  <2>1. repCall[c].op = "upload" /\ UNCHANGED <<repMicros, repNextKey, repDrawn, repUnheard>>
        /\ repRecords' = repRecords \cup {[key |-> repCall[c].key, by |-> c]}
    BY <1>9 DEF Repo!UploadBlob
  <2>2. PICK result \in {"ok", "error"} : Repo!Ends(c, result)  BY <1>9 DEF Repo!UploadBlob
  <2>3. /\ \A r \in repRecords' : r \in repRecords \/ r = [key |-> repCall[c].key, by |-> c]
        /\ \A r \in repRecords : r \in repRecords' \/ r.key = repCall[c].key
        /\ [key |-> repCall[c].key, by |-> c] \in repRecords'
    BY <2>1
  <2>4. HeldInv'  BY <1>h, <2>1, <2>2, <2>3, KeyedCallEnds DEF Named
  <2> QED BY <1>d, <2>1, <2>4 DEF RepoInv
<1>10. ASSUME NEW c \in RepClients, Repo!DeleteRecord(c) PROVE RepoInv'
  <2>1. repCall[c].op = "delete" /\ UNCHANGED <<repMicros, repNextKey, repDrawn, repUnheard>>
        /\ repRecords' = repRecords \ Repo!Keyed(repCall[c].key)
    BY <1>10 DEF Repo!DeleteRecord
  <2>2. PICK result \in {"ok", "absent", "error"} : Repo!Ends(c, result)
    BY <1>10 DEF Repo!DeleteRecord
  <2>3. /\ \A r \in repRecords' : r \in repRecords /\ r.key # repCall[c].key
        /\ \A r \in repRecords : r \in repRecords' \/ r.key = repCall[c].key
    BY <2>1 DEF Repo!Keyed
  <2>4. HeldInv'  BY <1>h, <2>1, <2>2, <2>3, KeyedCallEnds DEF Named
  <2> QED BY <1>d, <2>1, <2>4 DEF RepoInv
<1>11. ASSUME NEW c \in RepClients, Repo!GetRecord(c) PROVE RepoInv'
  <2>1. repCall[c].op = "get" /\ UNCHANGED <<repMicros, repRecords, repNextKey, repDrawn, repUnheard>>
    BY <1>11 DEF Repo!GetRecord
  <2>2. PICK result \in {"ok", "absent", "error"} :
          Repo!Ends(c, result) /\ (result = "absent" => Repo!Keyed(repCall[c].key) = {})
    BY <1>11 DEF Repo!GetRecord
  <2>3. result = "absent" => \A r \in repRecords : r.key # repCall[c].key
    BY <2>2 DEF Repo!Keyed
  <2>4. HeldInv'  BY <1>h, <2>1, <2>2, <2>3, KeyedCallEnds DEF Named
  <2> QED BY <1>d, <2>1, <2>4 DEF RepoInv
<1>12. CASE UNCHANGED Repo!vars
  <2>1. HeldInv'
    BY <1>12, <1>h DEF Repo!vars, HeldInv, RepoTypes, CallsFit, RecordsAreMade, Known,
       Repo!Alone, Created
  <2> QED BY <1>12, <1>d, <2>1 DEF Repo!vars, RepoInv
<1> QED
  BY <1>1, <1>2, <1>3, <1>4, <1>5, <1>6, <1>7, <1>8, <1>9, <1>10, <1>11, <1>12 DEF Repo!Next

\* The instance has its own copy of Cardinality.
LEMMA RepoCardinality == \A S : Repo!Cardinality(S) = Cardinality(S)
BY DEF Repo!Cardinality, Cardinality

LEMMA RepoInvIsEnough == RepoInv => Repo!RetriesAddUp
<1> SUFFICES ASSUME RepoInv PROVE Repo!RetriesAddUp  OBVIOUS
<1>1. RepoTypes /\ CallsFit /\ RecordsAreMade /\ Known /\ Created /\ DrawnFit
  BY DEF RepoInv, HeldInv
<1>2. ASSUME NEW c \in RepClients, repCall[c].result # "error", Repo!Alone(c), repCall[c].op \in {"put", "get", "upload"}
      PROVE  Repo!Keyed(repCall[c].key) = {[key |-> repCall[c].key, by |-> c]}
  <2>1. KnownOf(repCall[c], c, repRecords)  BY <1>1, <1>2 DEF Known
  <2>2. PICK x : x = [key |-> repCall[c].key, by |-> c]  OBVIOUS
  <2>3. x \in repRecords /\ x.key = repCall[c].key /\ x.by = c
    BY <1>2, <2>1, <2>2 DEF KnownOf
  <2>4. ASSUME NEW r \in repRecords, r.key = repCall[c].key PROVE r = x
    <3>1. r = [key |-> r.key, by |-> r.by] /\ r.by \in RepClients /\ IsMade(r, repCall[r.by], repNextKey)
      BY <1>1 DEF RecordsAreMade
    <3>2. repCall[c].op \in CallOps /\ CallFits(repCall[c], c)
      BY <1>1 DEF RepoTypes, Calls, CallsFit
    <3>3. \A k : repCall[c].key # <<"pds", k>>  BY <1>2, <3>2, KeysDiffer DEF Named
    <3>4. r.key = repCall[r.by].key  BY <2>4, <3>1, <3>3 DEF IsMade
    <3>5. r.by = c  BY <1>2, <2>4, <3>1, <3>4 DEF Repo!Alone
    <3> QED BY <2>2, <2>4, <3>1, <3>5
  <2> QED BY <2>2, <2>3, <2>4 DEF Repo!Keyed
<1>3. ASSUME NEW c \in RepClients, repCall[c].result # "error", Repo!Alone(c)
      PROVE  /\ repCall[c].op = "get" => repCall[c].result = "ok"
             /\ repCall[c].op = "delete" => Repo!Keyed(repCall[c].key) = {}
  BY <1>1, <1>3 DEF Known, KnownOf, Repo!Keyed
<1>4. ASSUME NEW c \in RepClients, repCall[c].result # "error", repCall[c].op = "create"
      PROVE  Cardinality({r \in repRecords : r.by = c /\ r.key[1] = "pds"}) = 1 + repUnheard[c]
  <2>1. CreatedOf(repCall[c], c, repRecords, repUnheard[c]) /\ repUnheard[c] \in Nat
    BY <1>1 DEF Created, RepoTypes
  <2>2. Cardinality(PdsRecords(repRecords, c)) = repUnheard[c] + 1
    BY <1>4, <2>1 DEF CreatedOf
  <2> QED BY <2>1, <2>2 DEF PdsRecords
<1>5. ASSUME NEW a \in repDrawn, NEW b \in repDrawn, a.at < b.at PROVE a.tid < b.tid
  <2>1. a.at \in Nat /\ b.at \in Nat  BY <1>1 DEF DrawnFit
  <2>2. PICK i \in Nat : i < RepClockIds /\ a.tid = a.at * RepClockIds + i
    BY <1>1 DEF DrawnFit
  <2>3. PICK j \in Nat : j < RepClockIds /\ b.tid = b.at * RepClockIds + j
    BY <1>1 DEF DrawnFit
  <2>4. PICK m \in Nat, n \in Nat : m = a.at /\ n = b.at  BY <2>1
  <2>5. m * RepClockIds + i < n * RepClockIds + j  BY <1>5, <2>2, <2>4, LaterIsGreater
  <2> QED BY <2>2, <2>3, <2>4, <2>5
<1> QED BY <1>2, <1>3, <1>4, <1>5, RepoCardinality DEF Repo!RetriesAddUp

LEMMA RepoSteps == StorageSpec => Repo!Spec
<1>1. StorageInit => Repo!Init  BY DEF StorageInit
<1>2. [StorageNext]_storageVars => [Repo!Next]_(Repo!vars)
  BY DEF StorageNext, storageVars, appVars, dictVars, repVars, labVars, genVars, migVars,
     Repo!vars
<1> QED BY <1>1, <1>2, PTL DEF StorageSpec, Repo!Spec

\* RetriesAddUp: however often calls are lost and repeated, puts, uploads and
\* deletions leave what one call would, creations one record per answer and one
\* more per lost answer, and TIDs of later microseconds are greater.
THEOREM RecordsAddUp == StorageSpec => []RetriesAddUp
<1>1. RepoInv => RetriesAddUp  BY RepoInvIsEnough DEF RetriesAddUp
<1> QED BY <1>1, RepoInit, RepoNext, RepoSteps, PTL DEF Repo!Spec

LEMMA LeastElement ==
    ASSUME NEW T, T \subseteq Nat, T # {}
    PROVE  \E x \in T : \A y \in T : x <= y
<1>1. PICK R : R = OpToRel(<, Nat)  OBVIOUS
<1>2. IsWellFoundedOn(R, Nat)  BY <1>1, NatLessThanWellFounded
<1>3. PICK x \in T : \A y \in T : ~(<<y, x>> \in R)  BY <1>2, WFMin
<1>4. \A i, j \in Nat : i < j => <<i, j>> \in R  BY <1>1 DEF OpToRel
<1>5. \A y \in T : ~(y < x)  BY <1>3, <1>4
<1> QED BY <1>5

-----------------------------------------------------------------------------
(* LabelStore: filters of sequences *)

\* A set with zero and with the successor of each of its numbers has them all.
LEMMA UpFromZero ==
    ASSUME NEW S, 0 \in S, \A n \in Nat : n \in S => n + 1 \in S
    PROVE  Nat \subseteq S
<1>1. PICK T : T = Nat \ S  OBVIOUS
<1> SUFFICES ASSUME T # {} PROVE FALSE  BY <1>1
<1>2. PICK x \in T : \A y \in T : x <= y  BY <1>1, LeastElement
<1>3. x # 0 /\ x - 1 \in Nat  BY <1>1, <1>2
<1>4. x - 1 \in S  BY <1>1, <1>2, <1>3
<1> QED BY <1>1, <1>2, <1>3, <1>4

\* A set with the empty sequence and with every sequence that is one longer than
\* one of its members has all sequences.
LEMMA UpFromEmpty ==
    ASSUME NEW L, NEW S, <<>> \in S,
           \A s \in Seq(L), x \in L : s \in S => Append(s, x) \in S
    PROVE  Seq(L) \subseteq S
<1>1. PICK N : N = {n \in Nat : \A s \in Seq(L) : Len(s) = n => s \in S}  OBVIOUS
<1>2. 0 \in N
  <2>1. \A s \in Seq(L) : Len(s) = 0 => s = <<>>  BY EmptySeq
  <2> QED BY <1>1, <2>1
<1>3. ASSUME NEW n \in Nat, n \in N PROVE n + 1 \in N
  <2>1. ASSUME NEW s \in Seq(L), Len(s) = n + 1 PROVE s \in S
    <3>1. s # <<>>  BY <2>1, EmptySeq
    <3>2. PICK u \in Seq(L), x \in L : s = Append(u, x)  BY <3>1, SequenceEmptyOrAppend
    <3>3. Len(s) = Len(u) + 1 /\ Len(u) \in Nat  BY <3>2, AppendProperties, LenProperties
    <3>4. Len(u) = n  BY <2>1, <3>3
    <3> QED BY <1>1, <1>3, <3>2, <3>4
  <2> QED BY <1>1, <2>1
<1>4. Nat \subseteq N  BY <1>2, <1>3, UpFromZero
<1>5. ASSUME NEW s \in Seq(L) PROVE s \in S
  <2>1. Len(s) \in Nat  BY LenProperties
  <2> QED BY <1>1, <1>4, <2>1
<1> QED BY <1>5

\* f is the filter's function on the first n members of s.
Keeps(f, s, K, n) ==
    f = [k \in 0..n |-> IF k = 0 THEN <<>>
                        ELSE IF s[k] \in K THEN Append(f[k - 1], s[k]) ELSE f[k - 1]]

LEMMA KeepsStep ==
    ASSUME NEW f, NEW s, NEW K, NEW n \in Nat, Keeps(f, s, K, n)
    PROVE  /\ f[0] = <<>>
           /\ \A k \in 0..n : k # 0 =>
                f[k] = IF s[k] \in K THEN Append(f[k - 1], s[k]) ELSE f[k - 1]
BY DEF Keeps

LEMMA KeepsExists ==
    ASSUME NEW s, NEW K
    PROVE  \A n \in Nat : \E f : Keeps(f, s, K, n)
<1>1. PICK S : S = {n \in Nat : \E f : Keeps(f, s, K, n)}  OBVIOUS
<1>2. 0 \in S
  <2>1. PICK f : f = [k \in 0..0 |-> <<>>]  OBVIOUS
  <2>2. Keeps(f, s, K, 0)  BY <2>1 DEF Keeps
  <2> QED BY <1>1, <2>2
<1>3. ASSUME NEW n \in Nat, n \in S PROVE n + 1 \in S
  <2>1. PICK f : Keeps(f, s, K, n)  BY <1>1, <1>3
  <2>2. PICK top : top = IF s[n + 1] \in K THEN Append(f[n], s[n + 1]) ELSE f[n]  OBVIOUS
  <2>3. PICK g : g = [k \in 0..(n + 1) |-> IF k = n + 1 THEN top ELSE f[k]]  OBVIOUS
  <2>4. \A k \in 0..(n + 1) :
            g[k] = IF k = 0 THEN <<>>
                   ELSE IF s[k] \in K THEN Append(g[k - 1], s[k]) ELSE g[k - 1]
    <3> SUFFICES ASSUME NEW k \in 0..(n + 1)
                 PROVE  g[k] = IF k = 0 THEN <<>>
                               ELSE IF s[k] \in K THEN Append(g[k - 1], s[k]) ELSE g[k - 1]
      OBVIOUS
    <3>1. CASE k = n + 1
      <4>1. g[k] = top /\ g[k - 1] = f[n] /\ k # 0  BY <2>3, <3>1
      <4> QED BY <2>2, <3>1, <4>1
    <3>2. CASE k = 0
      <4>1. g[k] = f[0]  BY <2>3, <3>2
      <4> QED BY <2>1, <3>2, <4>1, KeepsStep
    <3>3. CASE k # n + 1 /\ k # 0
      <4>1. k \in 0..n /\ k - 1 \in 0..n  BY <3>3
      <4>2. g[k] = f[k] /\ g[k - 1] = f[k - 1]  BY <2>3, <3>3, <4>1
      <4> QED BY <2>1, <3>3, <4>1, <4>2, KeepsStep
    <3> QED BY <3>1, <3>2, <3>3
  <2>5. Keeps(g, s, K, n + 1)  BY <2>3, <2>4 DEF Keeps
  <2> QED BY <1>1, <2>5
<1>4. Nat \subseteq S  BY <1>2, <1>3, UpFromZero
<1> QED BY <1>1, <1>4

\* The function depends on the members it has passed and on nothing else.
LEMMA KeepsAgree ==
    ASSUME NEW s, NEW t, NEW K, NEW n \in Nat, NEW m \in Nat, n <= m,
           NEW f, Keeps(f, s, K, n), NEW g, Keeps(g, t, K, m),
           \A k \in 1..n : s[k] = t[k]
    PROVE  \A k \in 0..n : f[k] = g[k]
<1>1. PICK S : S = {k \in Nat : k <= n => f[k] = g[k]}  OBVIOUS
<1>2. 0 \in S  BY <1>1, KeepsStep
<1>3. ASSUME NEW k \in Nat, k \in S PROVE k + 1 \in S
  <2> SUFFICES ASSUME k + 1 <= n PROVE f[k + 1] = g[k + 1]  BY <1>1
  <2>1. k + 1 \in 0..n /\ k + 1 \in 0..m /\ k + 1 # 0 /\ k + 1 \in 1..n /\ (k + 1) - 1 = k
    OBVIOUS
  <2>2. f[k] = g[k]  BY <1>1, <1>3
  <2>3. s[k + 1] = t[k + 1]  BY <2>1
  <2>4. f[k + 1] = IF s[k + 1] \in K THEN Append(f[k], s[k + 1]) ELSE f[k]
    BY <2>1, KeepsStep
  <2>5. g[k + 1] = IF t[k + 1] \in K THEN Append(g[k], t[k + 1]) ELSE g[k]
    BY <2>1, KeepsStep
  <2> QED BY <2>2, <2>3, <2>4, <2>5
<1>4. Nat \subseteq S  BY <1>2, <1>3, UpFromZero
<1> QED BY <1>1, <1>4

LEMMA OnlyIsLast ==
    ASSUME NEW L, NEW s \in Seq(L), NEW K
    PROVE  \E f : Keeps(f, s, K, Len(s)) /\ Labels!Only(s, K) = f[Len(s)]
<1>1. Len(s) \in Nat  BY LenProperties
<1>2. PICK f : f = CHOOSE g : Keeps(g, s, K, Len(s))  OBVIOUS
<1>3. Keeps(f, s, K, Len(s))  BY <1>1, <1>2, KeepsExists
<1>4. Labels!Only(s, K) = f[Len(s)]  BY <1>2 DEF Labels!Only, Keeps
<1> QED BY <1>3, <1>4

LEMMA OnlyOfNone ==
    ASSUME NEW K
    PROVE  Labels!Only(<<>>, K) = <<>>
<1>1. <<>> \in Seq({}) /\ Len(<<>>) = 0  BY EmptySeq
<1>2. PICK f : Keeps(f, <<>>, K, 0) /\ Labels!Only(<<>>, K) = f[0]  BY <1>1, OnlyIsLast
<1> QED BY <1>2, KeepsStep

LEMMA OnlyOfAppend ==
    ASSUME NEW L, NEW s \in Seq(L), NEW x \in L, NEW K
    PROVE  Labels!Only(Append(s, x), K) = IF x \in K THEN Append(Labels!Only(s, K), x) ELSE Labels!Only(s, K)
<1>1. PICK n \in Nat : n = Len(s)  BY LenProperties
<1>2. PICK t : t = Append(s, x)  OBVIOUS
<1>3. t \in Seq(L) /\ Len(t) = n + 1 /\ t[n + 1] = x /\ \A k \in 1..n : s[k] = t[k]
  BY <1>1, <1>2, AppendProperties
<1>4. PICK f : Keeps(f, s, K, n) /\ Labels!Only(s, K) = f[n]  BY <1>1, OnlyIsLast
<1>5. PICK g : Keeps(g, t, K, n + 1) /\ Labels!Only(t, K) = g[n + 1]  BY <1>3, OnlyIsLast
<1>6. n <= n + 1 /\ n + 1 \in Nat /\ n \in 0..n /\ n + 1 \in 0..(n + 1) /\ n + 1 # 0
      /\ (n + 1) - 1 = n
  OBVIOUS
<1>7. f[n] = g[n]
  <2>1. Keeps(f, s, K, n) /\ Keeps(g, t, K, n + 1)  BY <1>4, <1>5
  <2>2. \A k \in 1..n : s[k] = t[k]  BY <1>3
  <2>3. PICK m \in Nat : m = n + 1 /\ n <= m  BY <1>6
  <2>4. Keeps(f, s, K, n) /\ Keeps(g, t, K, m)  BY <2>1, <2>3
  <2>5. \A k \in 0..n : f[k] = g[k]
    <3>1. n <= m  BY <2>3
    <3> QED BY <2>2, <2>4, <3>1, KeepsAgree
  <2> QED BY <1>6, <2>5
<1>8. g[n + 1] = IF t[n + 1] \in K THEN Append(g[n], t[n + 1]) ELSE g[n]
  BY <1>5, <1>6, KeepsStep
<1> QED BY <1>2, <1>3, <1>4, <1>5, <1>7, <1>8

LEMMA OnlyIsASeq ==
    ASSUME NEW L, NEW K
    PROVE  \A s \in Seq(L) : Labels!Only(s, K) \in Seq(L)
<1>1. PICK S : S = {s \in Seq(L) : Labels!Only(s, K) \in Seq(L)}  OBVIOUS
<1>2. <<>> \in S  BY <1>1, OnlyOfNone, EmptySeq
<1>3. ASSUME NEW s \in Seq(L), NEW x \in L, s \in S PROVE Append(s, x) \in S
  <2>1. Append(s, x) \in Seq(L)  BY AppendProperties
  <2>2. Append(Labels!Only(s, K), x) \in Seq(L)  BY <1>1, <1>3, AppendProperties
  <2>3. Labels!Only(Append(s, x), K) \in Seq(L)  BY <1>1, <1>3, <2>2, OnlyOfAppend
  <2> QED BY <1>1, <2>1, <2>3
<1>4. Seq(L) \subseteq S  BY <1>2, <1>3, UpFromEmpty
<1> QED BY <1>1, <1>4

LEMMA AppendToConcat ==
    ASSUME NEW L, NEW s \in Seq(L), NEW t \in Seq(L), NEW x \in L
    PROVE  s \o Append(t, x) = Append(s \o t, x)
<1>1. <<x>> \in Seq(L)  OBVIOUS
<1>2. s \o t \in Seq(L)  BY ConcatProperties
<1>3. Append(t, x) = t \o <<x>> /\ Append(s \o t, x) = (s \o t) \o <<x>>
  BY <1>2, AppendIsConcat
<1> QED BY <1>1, <1>3, ConcatAssociative

\* Filtering two pages one after the other is filtering what they are together.
LEMMA OnlyOfConcat ==
    ASSUME NEW L, NEW s \in Seq(L), NEW K
    PROVE  \A t \in Seq(L) : Labels!Only(s \o t, K) = Labels!Only(s, K) \o Labels!Only(t, K)
<1>1. PICK S : S = {t \in Seq(L) : Labels!Only(s \o t, K) = Labels!Only(s, K) \o Labels!Only(t, K)}  OBVIOUS
<1>2. Labels!Only(s, K) \in Seq(L)  BY OnlyIsASeq
<1>3. <<>> \in S
  <2>1. s \o <<>> = s /\ Labels!Only(s, K) \o <<>> = Labels!Only(s, K)
    BY <1>2, ConcatEmptySeq
  <2> QED BY <1>1, <2>1, OnlyOfNone, EmptySeq
<1>4. ASSUME NEW t \in Seq(L), NEW x \in L, t \in S PROVE Append(t, x) \in S
  <2>1. Append(t, x) \in Seq(L)  BY AppendProperties
  <2>2. Labels!Only(t, K) \in Seq(L)  BY OnlyIsASeq
  <2>3. s \o t \in Seq(L)  BY ConcatProperties
  <2>4. Labels!Only(s \o t, K) = Labels!Only(s, K) \o Labels!Only(t, K)  BY <1>1, <1>4
  <2>5. Labels!Only(s \o Append(t, x), K) = Labels!Only(Append(s \o t, x), K)
    <3>1. s \o Append(t, x) = Append(s \o t, x)  BY <1>4, AppendToConcat
    <3> QED BY <3>1
  <2>6. CASE x \in K
    <3>1. Labels!Only(Append(t, x), K) = Append(Labels!Only(t, K), x)  BY <2>6, OnlyOfAppend
    <3>2. Labels!Only(Append(s \o t, x), K) = Append(Labels!Only(s, K) \o Labels!Only(t, K), x)
      BY <2>3, <2>4, <2>6, OnlyOfAppend
    <3>3. Labels!Only(s, K) \o Append(Labels!Only(t, K), x) = Append(Labels!Only(s, K) \o Labels!Only(t, K), x)
      BY <1>2, <2>2, AppendToConcat
    <3> QED BY <1>1, <2>1, <2>5, <3>1, <3>2, <3>3
  <2>7. CASE ~(x \in K)
    <3>1. Labels!Only(Append(t, x), K) = Labels!Only(t, K)  BY <2>7, OnlyOfAppend
    <3>2. Labels!Only(Append(s \o t, x), K) = Labels!Only(s, K) \o Labels!Only(t, K)
      BY <2>3, <2>4, <2>7, OnlyOfAppend
    <3> QED BY <1>1, <2>1, <2>5, <3>1, <3>2
  <2> QED BY <2>6, <2>7
<1>5. Seq(L) \subseteq S  BY <1>3, <1>4, UpFromEmpty
<1> QED BY <1>1, <1>5

\* What is put after a sequence leaves it a prefix.
LEMMA PrefixOfConcat ==
    ASSUME NEW L, NEW s \in Seq(L), NEW t \in Seq(L)
    PROVE  Labels!IsPrefix(s, s \o t)
<1>1. PICK n \in Nat, m \in Nat : n = Len(s) /\ m = Len(t)  BY LenProperties
<1>2. PICK u : u = s \o t  OBVIOUS
<1>3. u \in Seq(L) /\ Len(u) = n + m /\ \A i \in 1..n : u[i] = s[i]
  BY <1>1, <1>2, ConcatProperties
<1>4. SubSeq(s, 1, n) = s  BY <1>1, SubSeqFull
<1>5. PICK v : v = SubSeq(u, 1, n)  OBVIOUS
<1>6. n \in Int /\ 1 \in Int /\ \A i \in 1..n : i \in 1..(n + m) /\ 1 + i - 1 = i
  BY <1>1
<1>7. \A i \in 1..n : u[i] \in L  BY <1>3, <1>6, ElementOfSeq
<1>8. /\ v \in Seq(L) /\ Len(v) = IF 1 <= n THEN n - 1 + 1 ELSE 0
      /\ \A i \in 1..(n - 1 + 1) : v[i] = u[1 + i - 1]
  BY <1>5, <1>6, <1>7, SubSeqProperties
<1>9. Len(v) = n /\ n - 1 + 1 = n  BY <1>1, <1>8
<1>10. \A i \in 1..n : v[i] = s[i]  BY <1>3, <1>6, <1>8, <1>9
<1>11. v = s  BY <1>1, <1>8, <1>9, <1>10, SeqEqual
<1>12. n <= n + m  BY <1>1
<1> QED BY <1>1, <1>2, <1>3, <1>4, <1>5, <1>11, <1>12 DEF Labels!IsPrefix

-----------------------------------------------------------------------------
(* LabelStore: the inductive invariant *)

LabelsInv ==
    /\ labTable \in Seq(Labels!Label)
    /\ labCursor \in 0..Len(labTable)
    /\ labEndSeen \in 0..labCursor
    /\ labReceived = SubSeq(labTable, 1, labCursor)
    /\ labAsked \in [uri : LabUris, labels : Seq(Labels!Label), rows : 0..Len(labTable)]
    /\ labAsked.labels = Labels!Only(SubSeq(labTable, 1, labAsked.rows), Labels!Of(labAsked.uri))

LEMMA LabelsInit == Labels!Init => LabelsInv
<1> SUFFICES ASSUME Labels!Init PROVE LabelsInv  OBVIOUS
<1>1. labTable = <<>> /\ labCursor = 0 /\ labReceived = <<>> /\ labEndSeen = 0
  BY DEF Labels!Init
<1>2. PICK uri \in LabUris : labAsked = [uri |-> uri, labels |-> <<>>, rows |-> 0]
  BY DEF Labels!Init
<1>3. <<>> \in Seq(Labels!Label) /\ Len(<<>>) = 0  BY EmptySeq
<1>4. SubSeq(<<>>, 1, 0) = <<>>  BY SubSeqEmpty
<1>5. labAsked.labels = Labels!Only(SubSeq(labTable, 1, labAsked.rows), Labels!Of(labAsked.uri))
  BY <1>1, <1>2, <1>4, OnlyOfNone
<1>6. labAsked \in [uri : LabUris, labels : Seq(Labels!Label), rows : 0..Len(labTable)]
  BY <1>1, <1>2, <1>3
<1> QED BY <1>1, <1>3, <1>4, <1>5, <1>6 DEF LabelsInv

LEMMA SubSeqOfAppend ==
    ASSUME NEW L, NEW s \in Seq(L), NEW x \in L, NEW n \in 0..Len(s)
    PROVE  SubSeq(Append(s, x), 1, n) = SubSeq(s, 1, n)
<1>1. PICK m \in Nat : m = Len(s)  BY LenProperties
<1>2. PICK t : t = Append(s, x)  OBVIOUS
<1>3. t \in Seq(L) /\ Len(t) = m + 1 /\ \A i \in 1..m : t[i] = s[i] /\ s[i] \in L
  BY <1>1, <1>2, AppendProperties, ElementOfSeq
<1>4. n \in Int /\ 1 \in Int /\ \A i \in 1..n : i \in 1..m /\ 1 + i - 1 = i  BY <1>1
<1>5. \A i \in 1..n : t[i] \in L /\ s[i] \in L /\ t[i] = s[i]  BY <1>3, <1>4
<1>6. PICK a : a = SubSeq(s, 1, n)  OBVIOUS
<1>7. PICK b : b = SubSeq(t, 1, n)  OBVIOUS
<1>8. /\ a \in Seq(L) /\ Len(a) = IF 1 <= n THEN n - 1 + 1 ELSE 0
      /\ \A i \in 1..(n - 1 + 1) : a[i] = s[1 + i - 1]
  BY <1>4, <1>5, <1>6, SubSeqProperties
<1>9. /\ b \in Seq(L) /\ Len(b) = IF 1 <= n THEN n - 1 + 1 ELSE 0
      /\ \A i \in 1..(n - 1 + 1) : b[i] = t[1 + i - 1]
  BY <1>4, <1>5, <1>7, SubSeqProperties
<1>10. Len(a) = n /\ Len(b) = n /\ n - 1 + 1 = n  BY <1>1, <1>8, <1>9
<1>11. \A i \in 1..n : a[i] = b[i]  BY <1>4, <1>5, <1>8, <1>9, <1>10
<1>12. a = b  BY <1>8, <1>9, <1>10, <1>11, SeqEqual
<1> QED BY <1>2, <1>6, <1>7, <1>12

LEMMA LabelsNext == LabelsInv /\ [Labels!Next]_(Labels!vars) => LabelsInv'
<1> SUFFICES ASSUME LabelsInv, [Labels!Next]_(Labels!vars) PROVE LabelsInv'  OBVIOUS
<1>1. PICK N \in Nat : N = Len(labTable)  BY LenProperties DEF LabelsInv
<1>2. /\ labTable \in Seq(Labels!Label) /\ labCursor \in 0..N /\ labEndSeen \in 0..labCursor
      /\ labAsked.rows \in 0..N /\ labAsked.uri \in LabUris /\ labAsked.labels \in Seq(Labels!Label)
  BY <1>1 DEF LabelsInv
<1>3. CASE UNCHANGED Labels!vars
  BY <1>3 DEF LabelsInv, Labels!vars, Labels!Of, Labels!Label
<1>4. ASSUME NEW limit \in LabLimits, Labels!FollowCursor(limit) PROVE LabelsInv'
  <2>1. PICK e : e = Labels!PageEnd(limit)  OBVIOUS
  <2>2. e \in labCursor..N /\ (e = labCursor => labCursor = N)
    <3>1. PICK c : c = Labels!Clamped(limit)  OBVIOUS
    <3>2. c \in Nat \ {0}  BY <3>1, LabelsAssumption DEF Labels!Clamped
    <3>3. e = IF labCursor + c <= N THEN labCursor + c ELSE N
      BY <1>1, <2>1, <3>1 DEF Labels!PageEnd
    <3> QED BY <1>2, <3>2, <3>3
  <2>3. PICK b : b = SubSeq(labTable, labCursor + 1, e)  OBVIOUS
  <2>4. b = <<>> => labCursor = N
    <3>1. \A i \in (labCursor + 1)..e : i \in 1..N  BY <1>2, <2>2
    <3>2. \A i \in (labCursor + 1)..e : labTable[i] \in Labels!Label
      BY <1>1, <1>2, <3>1, ElementOfSeq
    <3>3. labCursor + 1 \in Int /\ e \in Int  BY <1>2, <2>2
    <3>4. Len(b) = IF labCursor + 1 <= e THEN e - (labCursor + 1) + 1 ELSE 0
      BY <2>3, <3>2, <3>3, SubSeqProperties
    <3>5. b = <<>> => Len(b) = 0  BY EmptySeq
    <3>6. Len(b) = 0 => e = labCursor  BY <1>2, <2>2, <3>4
    <3> QED BY <2>2, <3>5, <3>6
  <2>5. labReceived \o b = SubSeq(labTable, 1, e)
    <3>1. 1 \in 1..(N + 1) /\ labCursor \in (1 - 1)..N /\ e \in labCursor..N  BY <1>2, <2>2
    <3>2. labReceived = SubSeq(labTable, 1, labCursor)  BY DEF LabelsInv
    <3> QED BY <1>1, <1>2, <2>3, <3>1, <3>2, ConcatAdjacentSubSeq
  <2>6. /\ labReceived' = labReceived \o b /\ labCursor' = e /\ labTable' = labTable /\ labAsked' = labAsked
        /\ labEndSeen' = IF b = <<>> THEN Len(labTable) ELSE labEndSeen
    BY <1>4, <2>1, <2>3 DEF Labels!FollowCursor, Labels!Page
  <2>7. labCursor' \in 0..Len(labTable') /\ labEndSeen' \in 0..labCursor'
    <3>1. labCursor' \in 0..N  BY <1>2, <2>2, <2>6
    <3>2. CASE b = <<>>
      <4>1. e = N  BY <1>2, <2>2, <2>4, <3>2
      <4> QED BY <1>1, <2>6, <3>1, <3>2, <4>1
    <3>3. CASE b # <<>>  BY <1>1, <1>2, <2>2, <2>6, <3>1, <3>3
    <3> QED BY <3>2, <3>3
  <2>8. Labels!Of(labAsked.uri)' = Labels!Of(labAsked.uri)
    BY <2>6 DEF Labels!Of, Labels!Label
  <2>9. labAsked'.labels = Labels!Only(SubSeq(labTable', 1, labAsked'.rows), Labels!Of(labAsked.uri)')
    BY <2>6, <2>8 DEF LabelsInv
  <2> QED BY <2>5, <2>6, <2>7, <2>9 DEF LabelsInv, Labels!Of, Labels!Label
<1>5. ASSUME NEW label \in Labels!Label, Labels!Issue(label) PROVE LabelsInv'
  <2>1. /\ labTable' = Append(labTable, label) /\ labCursor' = labCursor /\ labReceived' = labReceived
        /\ labEndSeen' = labEndSeen /\ labAsked' = labAsked
    BY <1>5 DEF Labels!Issue
  <2>2. labTable' \in Seq(Labels!Label) /\ Len(labTable') = N + 1
    BY <1>1, <1>2, <2>1, AppendProperties
  <2>3. /\ SubSeq(labTable', 1, labCursor) = SubSeq(labTable, 1, labCursor)
        /\ SubSeq(labTable', 1, labAsked.rows) = SubSeq(labTable, 1, labAsked.rows)
    BY <1>1, <1>2, <2>1, SubSeqOfAppend
  <2>4. labCursor \in 0..(N + 1)  BY <1>2
  <2>5. labAsked \in [uri : LabUris, labels : Seq(Labels!Label), rows : 0..(N + 1)]
    <3>1. labAsked \in [uri : LabUris, labels : Seq(Labels!Label), rows : 0..N]
      BY <1>1 DEF LabelsInv
    <3>2. 0..N \subseteq 0..(N + 1)  BY <1>1
    <3> QED BY <3>1, <3>2
  <2> QED BY <2>1, <2>2, <2>3, <2>4, <2>5 DEF LabelsInv, Labels!Of, Labels!Label
<1>6. ASSUME NEW uri \in LabUris, Labels!QueryLabels(uri) PROVE LabelsInv'
  <2>1. PICK found : found = Labels!Only(labTable, Labels!Of(uri))  OBVIOUS
  <2>2. labAsked' = [uri |-> uri, labels |-> found, rows |-> N]
    BY <1>1, <1>6, <2>1 DEF Labels!QueryLabels
  <2>3. UNCHANGED <<labTable, labCursor, labReceived, labEndSeen>>
    BY <1>6 DEF Labels!QueryLabels
  <2>4. found \in Seq(Labels!Label)  BY <1>2, <2>1, OnlyIsASeq
  <2>5. labAsked' \in [uri : LabUris, labels : Seq(Labels!Label), rows : 0..N]
    <3>1. N \in 0..N  BY <1>1
    <3> QED BY <2>2, <2>4, <3>1
  <2>6. SubSeq(labTable, 1, N) = labTable  BY <1>1, <1>2, SubSeqFull
  <2>7. labAsked'.labels = Labels!Only(SubSeq(labTable, 1, labAsked'.rows), Labels!Of(labAsked'.uri))
    BY <2>1, <2>2, <2>6
  <2> QED BY <1>1, <2>3, <2>5, <2>7 DEF LabelsInv, Labels!Of, Labels!Label
<1> QED BY <1>3, <1>4, <1>5, <1>6 DEF Labels!Next

LEMMA LabelsInvIsEnough == LabelsInv => Labels!SubscriberMissesNothing /\ Labels!SubscriberHasTheAnswer
<1> SUFFICES ASSUME LabelsInv PROVE Labels!SubscriberMissesNothing /\ Labels!SubscriberHasTheAnswer
  OBVIOUS
<1>1. PICK N \in Nat : N = Len(labTable)  BY LenProperties DEF LabelsInv
<1>2. labTable \in Seq(Labels!Label) /\ labCursor \in 0..N /\ labEndSeen \in 0..labCursor /\ labAsked.rows \in 0..N
  BY <1>1 DEF LabelsInv
<1>3. Labels!SubscriberMissesNothing  BY <1>2 DEF Labels!SubscriberMissesNothing, LabelsInv
<1>4. ASSUME labAsked.rows <= labEndSeen
      PROVE  Labels!IsPrefix(labAsked.labels, Labels!Only(labReceived, Labels!Of(labAsked.uri)))
  <2>1. PICK n \in 0..labCursor : n = labAsked.rows  BY <1>2, <1>4
  <2>2. PICK K : K = Labels!Of(labAsked.uri)  OBVIOUS
  <2>3. PICK a : a = SubSeq(labTable, 1, n)  OBVIOUS
  <2>4. PICK b : b = SubSeq(labTable, n + 1, labCursor)  OBVIOUS
  <2>5. labReceived = a \o b
    <3>1. 1 \in 1..(N + 1) /\ n \in (1 - 1)..N /\ labCursor \in n..N  BY <1>2
    <3>2. a \o b = SubSeq(labTable, 1, labCursor)
      BY <1>1, <1>2, <2>3, <2>4, <3>1, ConcatAdjacentSubSeq
    <3> QED BY <3>2 DEF LabelsInv
  <2>6. a \in Seq(Labels!Label) /\ b \in Seq(Labels!Label)
    <3>1. /\ \A i \in 1..n : i \in 1..N
          /\ \A i \in (n + 1)..labCursor : i \in 1..N
          /\ 1 \in Int /\ n \in Int /\ n + 1 \in Int /\ labCursor \in Int
      BY <1>2
    <3>2. /\ \A i \in 1..n : labTable[i] \in Labels!Label
          /\ \A i \in (n + 1)..labCursor : labTable[i] \in Labels!Label
      BY <1>1, <1>2, <3>1, ElementOfSeq
    <3>3. a \in Seq(Labels!Label)  BY <2>3, <3>1, <3>2, SubSeqProperties
    <3>4. b \in Seq(Labels!Label)  BY <2>4, <3>1, <3>2, SubSeqProperties
    <3> QED BY <3>3, <3>4
  <2>7. Labels!Only(labReceived, K) = Labels!Only(a, K) \o Labels!Only(b, K)
    BY <2>5, <2>6, OnlyOfConcat
  <2>8. Labels!Only(a, K) \in Seq(Labels!Label) /\ Labels!Only(b, K) \in Seq(Labels!Label)
    BY <2>6, OnlyIsASeq
  <2>9. labAsked.labels = Labels!Only(a, K)  BY <2>1, <2>2, <2>3 DEF LabelsInv
  <2>10. Labels!IsPrefix(Labels!Only(a, K), Labels!Only(a, K) \o Labels!Only(b, K))
    BY <2>8, PrefixOfConcat
  <2> QED BY <2>2, <2>7, <2>9, <2>10
<1> QED BY <1>3, <1>4 DEF Labels!SubscriberHasTheAnswer

LEMMA LabelsSteps == StorageSpec => Labels!Spec
<1>1. StorageInit => Labels!Init  BY DEF StorageInit
<1>2. [StorageNext]_storageVars => [Labels!Next]_(Labels!vars)
  BY DEF StorageNext, storageVars, appVars, dictVars, repVars, labVars, genVars, migVars,
     Labels!vars
<1> QED BY <1>1, <1>2, PTL DEF StorageSpec, Labels!Spec

\* LabelsArrive: a subscriber that follows the cursor, whatever limits it sends,
\* has every label below it once and in order, and when it is told that no more
\* follow it has what the library answered for any subject before.
THEOREM NoLabelIsMissed == StorageSpec => []LabelsArrive
<1>1. LabelsInv => LabelsArrive  BY LabelsInvIsEnough DEF LabelsArrive
<1> QED BY <1>1, LabelsInit, LabelsNext, LabelsSteps, PTL DEF Labels!Spec

-----------------------------------------------------------------------------
(* CodeGen: the routes of documents, in their order *)

Doc == {c \in GenContents : Gen!Parses(c)}
Routes == UNION {{Gen!Route(c, d) : d \in Gen!Mains(c)} : c \in Doc}

\* The instance has its own copy of Cardinality.
LEMMA GenCardinality == \A S : Gen!Cardinality(S) = Cardinality(S)
BY DEF Gen!Cardinality, Cardinality

LEMMA NoRoute == Gen!SetToSeq({}) = <<>>
<1>1. Cardinality({}) = 0  BY FS_EmptySet
<1>2. <<>> \in [1..0 -> {}] /\ Gen!IsInjective(<<>>)  BY DEF Gen!IsInjective
<1>3. \A f \in [1..0 -> {}] : f = <<>>  OBVIOUS
<1> QED BY <1>1, <1>2, <1>3, GenCardinality DEF Gen!SetToSeq

LEMMA OneRoute ==
    ASSUME NEW r
    PROVE  Gen!SetToSeq({r}) = <<r>>
<1>1. Cardinality({r}) = 1  BY FS_Singleton
<1>2. <<r>> \in [1..1 -> {r}] /\ Gen!IsInjective(<<r>>)  BY DEF Gen!IsInjective
<1>3. ASSUME NEW f \in [1..1 -> {r}] PROVE f = <<r>>
  <2>1. f[1] = r  OBVIOUS
  <2> QED BY <2>1
<1> QED BY <1>1, <1>2, <1>3, GenCardinality DEF Gen!SetToSeq

\* A document has one route if it has a main query or procedure and stubs are
\* wanted, and none otherwise: its definitions have different names.
LEMMA RoutesOfDoc ==
    ASSUME NEW doc \in Doc, NEW opts
    PROVE  /\ opts.stubs /\ Gen!Mains(doc) # {} =>
                \E r \in Routes : Gen!RoutesOf(doc, opts) = <<r>> /\ r.nsid = doc.id
           /\ ~opts.stubs \/ Gen!Mains(doc) = {} => Gen!RoutesOf(doc, opts) = <<>>
<1>1. ASSUME opts.stubs, NEW d \in Gen!Mains(doc)
      PROVE  \E r \in Routes : Gen!RoutesOf(doc, opts) = <<r>> /\ r.nsid = doc.id
  <2>1. ASSUME NEW e \in Gen!Mains(doc) PROVE e = d
    <3>1. d \in doc.defs /\ e \in doc.defs /\ d.name = e.name  BY DEF Gen!Mains
    <3>2. doc \in GenContents /\ Gen!Parses(doc)  BY DEF Doc
    <3> QED BY <3>1, <3>2, GenAssumption
  <2>2. {Gen!Route(doc, e) : e \in Gen!Mains(doc)} = {Gen!Route(doc, d)}  BY <2>1
  <2>3. Gen!RoutesOf(doc, opts) = <<Gen!Route(doc, d)>>
    <3>1. Gen!RoutesOf(doc, opts) = Gen!SetToSeq({Gen!Route(doc, e) : e \in Gen!Mains(doc)})
      BY <1>1 DEF Gen!RoutesOf
    <3> QED BY <2>2, <3>1, OneRoute
  <2>4. Gen!Route(doc, d).nsid = doc.id  BY DEF Gen!Route
  <2>5. Gen!Route(doc, d) \in Routes  BY DEF Routes
  <2> QED BY <2>3, <2>4, <2>5
<1>2. ASSUME ~opts.stubs \/ Gen!Mains(doc) = {} PROVE Gen!RoutesOf(doc, opts) = <<>>
  <2>1. CASE ~opts.stubs  BY <2>1 DEF Gen!RoutesOf
  <2>2. CASE opts.stubs /\ Gen!Mains(doc) = {}
    <3>1. {Gen!Route(doc, e) : e \in Gen!Mains(doc)} = {}  BY <2>2
    <3>2. Gen!RoutesOf(doc, opts) = Gen!SetToSeq({Gen!Route(doc, e) : e \in Gen!Mains(doc)})
      BY <2>2 DEF Gen!RoutesOf
    <3> QED BY <3>1, <3>2, NoRoute
  <2> QED BY <1>2, <2>1, <2>2
<1> QED BY <1>1, <1>2

\* f is the function of FlattenSeq on the first n sequences.
Joins(f, seqs, n) == f = [i \in 1..n |-> IF i = 1 THEN seqs[i] ELSE f[i - 1] \o seqs[i]]

LEMMA JoinsExists ==
    ASSUME NEW seqs
    PROVE  \A n \in Nat : \E f : Joins(f, seqs, n)
<1>1. PICK S : S = {n \in Nat : \E f : Joins(f, seqs, n)}  OBVIOUS
<1>2. 0 \in S
  <2>1. PICK f : f = [i \in 1..0 |-> <<>>]  OBVIOUS
  <2>2. Joins(f, seqs, 0)  BY <2>1 DEF Joins
  <2> QED BY <1>1, <2>2
<1>3. ASSUME NEW n \in Nat, n \in S PROVE n + 1 \in S
  <2>1. PICK f : Joins(f, seqs, n)  BY <1>1, <1>3
  <2>2. PICK top : top = IF n = 0 THEN seqs[1] ELSE f[n] \o seqs[n + 1]  OBVIOUS
  <2>3. PICK g : g = [i \in 1..(n + 1) |-> IF i = n + 1 THEN top ELSE f[i]]  OBVIOUS
  <2>4. ASSUME NEW i \in 1..(n + 1)
        PROVE  g[i] = IF i = 1 THEN seqs[i] ELSE g[i - 1] \o seqs[i]
    <3>1. CASE i = n + 1 /\ n = 0  BY <2>2, <2>3, <3>1
    <3>2. CASE i = n + 1 /\ n # 0
      <4>1. i # 1 /\ i - 1 = n /\ i - 1 \in 1..(n + 1) /\ i - 1 # n + 1  BY <3>2
      <4>2. g[i] = top /\ g[i - 1] = f[n]  BY <2>3, <3>2, <4>1
      <4> QED BY <2>2, <3>2, <4>1, <4>2
    <3>3. CASE i # n + 1 /\ i = 1
      <4>1. i \in 1..n  BY <3>3
      <4>2. g[i] = f[i]  BY <2>3, <3>3
      <4>3. f[i] = seqs[i]  BY <2>1, <3>3, <4>1 DEF Joins
      <4> QED BY <3>3, <4>2, <4>3
    <3>4. CASE i # n + 1 /\ i # 1
      <4>1. i \in 1..n /\ i - 1 \in 1..(n + 1) /\ i - 1 # n + 1  BY <3>4
      <4>2. g[i] = f[i] /\ g[i - 1] = f[i - 1]  BY <2>3, <3>4, <4>1
      <4>3. \A j \in 1..n : j # 1 => f[j] = f[j - 1] \o seqs[j]  BY <2>1 DEF Joins
      <4>4. f[i] = f[i - 1] \o seqs[i]  BY <3>4, <4>1, <4>3
      <4> QED BY <3>4, <4>2, <4>4
    <3> QED BY <3>1, <3>2, <3>3, <3>4
  <2>5. Joins(g, seqs, n + 1)  BY <2>3, <2>4 DEF Joins
  <2> QED BY <1>1, <2>5
<1>4. Nat \subseteq S  BY <1>2, <1>3, UpFromZero
<1> QED BY <1>1, <1>4

Routed(docs, n) == {i \in 1..n : Gen!Mains(docs[i]) # {}}

\* The routes are those of the first n documents, in their order.
InTurn(routes, docs, n) ==
    \E of \in [1..Len(routes) -> Routed(docs, n)] :
        /\ \A k, l \in 1..Len(routes) : k < l => of[k] < of[l]
        /\ \A i \in Routed(docs, n) : \E k \in 1..Len(routes) : of[k] = i
        /\ \A k \in 1..Len(routes) : routes[k].nsid = docs[of[k]].id

LEMMA InTurnBy ==
    ASSUME NEW routes, NEW docs, NEW n,
           NEW of \in [1..Len(routes) -> Routed(docs, n)],
           \A k, l \in 1..Len(routes) : k < l => of[k] < of[l],
           \A i \in Routed(docs, n) : \E k \in 1..Len(routes) : of[k] = i,
           \A k \in 1..Len(routes) : routes[k].nsid = docs[of[k]].id
    PROVE  InTurn(routes, docs, n)
BY Zenon DEF InTurn

LEMMA InTurnStep ==
    ASSUME NEW docs \in Seq(Doc), NEW n \in Nat, n + 1 \in 1..Len(docs), NEW opts, opts.stubs,
           NEW routes \in Seq(Routes), InTurn(routes, docs, n)
    PROVE  /\ routes \o Gen!RoutesOf(docs[n + 1], opts) \in Seq(Routes)
           /\ InTurn(routes \o Gen!RoutesOf(docs[n + 1], opts), docs, n + 1)
<1>1. PICK doc \in Doc : doc = docs[n + 1]  BY ElementOfSeq
<1>2. CASE Gen!Mains(doc) = {}
  <2>1. routes \o Gen!RoutesOf(doc, opts) = routes  BY <1>2, RoutesOfDoc, ConcatEmptySeq
  <2>2. Routed(docs, n + 1) = Routed(docs, n)
    <3>1. \A i : i \in 1..(n + 1) <=> i \in 1..n \/ i = n + 1  OBVIOUS
    <3> QED BY <1>1, <1>2, <3>1 DEF Routed
  <2> QED BY <1>1, <2>1, <2>2 DEF InTurn
<1>3. CASE Gen!Mains(doc) # {}
  <2>1. PICK r \in Routes : Gen!RoutesOf(doc, opts) = <<r>> /\ r.nsid = doc.id
    BY <1>3, RoutesOfDoc
  <2>2. PICK m \in Nat : m = Len(routes)  BY LenProperties
  <2>3. PICK all : all = Append(routes, r)  OBVIOUS
  <2>4. routes \o Gen!RoutesOf(doc, opts) = all  BY <2>1, <2>3, AppendIsConcat
  <2>5. /\ all \in Seq(Routes) /\ Len(all) = m + 1 /\ all[m + 1] = r
        /\ \A k \in 1..m : all[k] = routes[k]
    BY <2>2, <2>3, AppendProperties
  <2>6. PICK of \in [1..m -> Routed(docs, n)] :
            /\ \A k, l \in 1..m : k < l => of[k] < of[l]
            /\ \A i \in Routed(docs, n) : \E k \in 1..m : of[k] = i
            /\ \A k \in 1..m : routes[k].nsid = docs[of[k]].id
    BY <2>2 DEF InTurn
  <2>7. PICK to : to = [k \in 1..(m + 1) |-> IF k = m + 1 THEN n + 1 ELSE of[k]]  OBVIOUS
  <2>8. \A i : i \in Routed(docs, n + 1) <=> i \in Routed(docs, n) \/ i = n + 1
    <3>1. \A i : i \in 1..(n + 1) <=> i \in 1..n \/ i = n + 1  OBVIOUS
    <3> QED BY <1>1, <1>3, <3>1 DEF Routed
  <2>9. \A k : k \in 1..(m + 1) <=> k \in 1..m \/ k = m + 1  OBVIOUS
  <2>10. to[m + 1] = n + 1 /\ \A k \in 1..m : to[k] = of[k]
    <3>1. \A k \in 1..m : k \in 1..(m + 1) /\ k # m + 1  OBVIOUS
    <3>2. m + 1 \in 1..(m + 1)  OBVIOUS
    <3> QED BY <2>7, <3>1, <3>2
  <2>11. to \in [1..(m + 1) -> Routed(docs, n + 1)]
    <3>1. \A k \in 1..(m + 1) : to[k] \in Routed(docs, n + 1)  BY <2>6, <2>8, <2>9, <2>10
    <3> QED BY <2>7, <3>1
  <2>12. ASSUME NEW k \in 1..(m + 1), NEW l \in 1..(m + 1), k < l PROVE to[k] < to[l]
    <3>1. k \in 1..m  BY <2>12
    <3>2. of[k] \in 1..n  BY <2>6, <3>1 DEF Routed
    <3>3. CASE l = m + 1
      <4>1. of[k] < n + 1  BY <3>2
      <4> QED BY <2>10, <3>1, <3>3, <4>1
    <3>4. CASE l \in 1..m  BY <2>6, <2>10, <2>12, <3>1, <3>4
    <3> QED BY <2>9, <3>3, <3>4
  <2>13. ASSUME NEW i \in Routed(docs, n + 1) PROVE \E k \in 1..(m + 1) : to[k] = i
    BY <2>6, <2>8, <2>9, <2>10
  <2>14. ASSUME NEW k \in 1..(m + 1) PROVE all[k].nsid = docs[to[k]].id
    <3>1. CASE k \in 1..m  BY <2>5, <2>6, <2>10, <3>1
    <3>2. CASE k = m + 1  BY <1>1, <2>1, <2>5, <2>10, <3>2
    <3> QED BY <2>9, <3>1, <3>2
  <2>15. InTurn(all, docs, n + 1)
    <3>1. Len(all) = m + 1  BY <2>5
    <3>2. to \in [1..Len(all) -> Routed(docs, n + 1)]  BY <2>11, <3>1
    <3>3. \A k, l \in 1..Len(all) : k < l => to[k] < to[l]  BY <2>12, <3>1
    <3>4. \A i \in Routed(docs, n + 1) : \E k \in 1..Len(all) : to[k] = i  BY <2>13, <3>1
    <3>5. \A k \in 1..Len(all) : all[k].nsid = docs[to[k]].id  BY <2>14, <3>1
    <3> QED BY <3>2, <3>3, <3>4, <3>5, InTurnBy
  <2> QED BY <1>1, <2>4, <2>5, <2>15
<1> QED BY <1>2, <1>3

RoutesOfAll(docs, opts) == Gen!FlattenSeq([i \in DOMAIN docs |-> Gen!RoutesOf(docs[i], opts)])

LEMMA RoutesInTurn ==
    ASSUME NEW docs \in Seq(Doc), NEW opts
    PROVE  /\ opts.stubs /\ docs # <<>> =>
                /\ RoutesOfAll(docs, opts) \in Seq(Routes)
                /\ InTurn(RoutesOfAll(docs, opts), docs, Len(docs))
           /\ ~opts.stubs \/ docs = <<>> => RoutesOfAll(docs, opts) = <<>>
<1>1. PICK N \in Nat : N = Len(docs)  BY LenProperties
<1>2. DOMAIN docs = 1..N  BY <1>1, LenProperties
<1>3. PICK seqs : seqs = [i \in 1..N |-> Gen!RoutesOf(docs[i], opts)]  OBVIOUS
<1>4. RoutesOfAll(docs, opts) = Gen!FlattenSeq(seqs)  BY <1>2, <1>3 DEF RoutesOfAll
<1>5. \A i \in 1..N : docs[i] \in Doc  BY <1>1, ElementOfSeq
<1>6. Len(seqs) = N
  <2>1. seqs \in Seq({Gen!RoutesOf(docs[i], opts) : i \in 1..N})  BY <1>3, SeqDef
  <2>2. DOMAIN seqs = 1..Len(seqs) /\ Len(seqs) \in Nat  BY <2>1, LenProperties
  <2>3. 1..Len(seqs) = 1..N  BY <1>3, <2>2
  <2>4. PICK k \in Nat : k = Len(seqs)  BY <2>2
  <2>5. \A i \in Nat : i \in 1..k <=> i \in 1..N  BY <2>3, <2>4
  <2>6. k <= N  BY <2>5
  <2>7. N <= k  BY <2>5
  <2> QED BY <2>4, <2>6, <2>7
<1>7. CASE N = 0
  <2>1. docs = <<>>  BY <1>1, <1>7, EmptySeq
  <2>2. Gen!FlattenSeq(seqs) = seqs  BY <1>6, <1>7 DEF Gen!FlattenSeq
  <2>3. seqs = <<>>  BY <1>3, <1>7
  <2> QED BY <1>4, <2>1, <2>2, <2>3
<1>8. CASE N # 0
  <2>1. docs # <<>>  BY <1>1, <1>8, EmptySeq
  <2>2. PICK f : f = CHOOSE g : Joins(g, seqs, N)  OBVIOUS
  <2>3. Joins(f, seqs, N)  BY <2>2, JoinsExists
  <2>4. RoutesOfAll(docs, opts) = f[N]  BY <1>4, <1>6, <1>8, <2>2 DEF Gen!FlattenSeq, Joins
  <2>5. \A i \in 1..N : seqs[i] = Gen!RoutesOf(docs[i], opts)  BY <1>3
  <2>6. PICK T : T = {n \in Nat : n + 1 <= N =>
                        /\ opts.stubs => f[n + 1] \in Seq(Routes) /\ InTurn(f[n + 1], docs, n + 1)
                        /\ ~opts.stubs => f[n + 1] = <<>>}
    OBVIOUS
  <2>7. 0 \in T
    <3>1. 1 \in 1..N /\ 0 + 1 = 1 /\ 0 + 1 \in 1..Len(docs)  BY <1>1, <1>8
    <3>2. f[1] = Gen!RoutesOf(docs[1], opts)
      <4>1. N \in Nat /\ Joins(f, seqs, N)  BY <1>1, <2>3
      <4>2. f[1] = seqs[1]  BY <3>1, <4>1 DEF Joins
      <4> QED BY <2>5, <3>1, <4>2
    <3>3. CASE opts.stubs
      <4>1. <<>> \in Seq(Routes) /\ Len(<<>>) = 0  BY EmptySeq
      <4>2. InTurn(<<>>, docs, 0)
        <5>1. Routed(docs, 0) = {}  BY DEF Routed
        <5>2. <<>> \in [1..Len(<<>>) -> {}]  BY <4>1
        <5> QED BY <4>1, <5>1, <5>2 DEF InTurn
      <4>3. /\ <<>> \o Gen!RoutesOf(docs[1], opts) \in Seq(Routes)
            /\ InTurn(<<>> \o Gen!RoutesOf(docs[1], opts), docs, 1)
        BY <3>1, <3>3, <4>1, <4>2, InTurnStep
      <4>4. docs[1] \in Doc  BY <1>5, <3>1
      <4>5. Gen!RoutesOf(docs[1], opts) \in Seq(Routes)
        <5>1. \A r \in Routes : <<r>> \in Seq(Routes)  OBVIOUS
        <5> QED BY <4>1, <4>4, <5>1, RoutesOfDoc
      <4>6. <<>> \o Gen!RoutesOf(docs[1], opts) = f[1]  BY <3>2, <4>5, ConcatEmptySeq
      <4>7. f[1] \in Seq(Routes) /\ InTurn(f[1], docs, 1)  BY <4>3, <4>6
      <4> QED BY <2>6, <3>1, <3>3, <4>7
    <3>4. CASE ~opts.stubs
      <4>1. f[1] = <<>>  BY <1>5, <3>1, <3>2, <3>4, RoutesOfDoc
      <4> QED BY <2>6, <3>1, <3>4, <4>1
    <3> QED BY <3>3, <3>4
  <2>8. ASSUME NEW n \in Nat, n \in T PROVE n + 1 \in T
    <3> SUFFICES ASSUME n + 2 <= N
                 PROVE  /\ opts.stubs => f[n + 2] \in Seq(Routes) /\ InTurn(f[n + 2], docs, n + 2)
                        /\ ~opts.stubs => f[n + 2] = <<>>
      <4>1. (n + 1) + 1 = n + 2 /\ n + 1 \in Nat  OBVIOUS
      <4> QED BY <2>6, <4>1
    <3>1. PICK m \in Nat : m = n + 1  OBVIOUS
    <3>2. n + 2 = m + 1 /\ m + 1 \in 1..N /\ m + 1 # 1 /\ (m + 1) - 1 = m /\ n + 1 <= N
      BY <3>1
    <3>3. f[m + 1] = f[m] \o Gen!RoutesOf(docs[m + 1], opts)
      <4>1. PICK i \in 1..N : i = m + 1 /\ i # 1 /\ i - 1 = m  BY <3>2
      <4>2. \A j \in 1..N : j # 1 => f[j] = f[j - 1] \o seqs[j]
        <5>1. N \in Nat /\ Joins(f, seqs, N)  BY <1>1, <2>3
        <5> QED BY <5>1 DEF Joins
      <4>3. seqs[i] = Gen!RoutesOf(docs[i], opts)  BY <2>5
      <4>4. f[i] = f[i - 1] \o seqs[i]  BY <4>1, <4>2
      <4> QED BY <4>1, <4>3, <4>4
    <3>4. CASE opts.stubs
      <4>1. f[m] \in Seq(Routes) /\ InTurn(f[m], docs, m)  BY <2>6, <2>8, <3>1, <3>2, <3>4
      <4>2. /\ f[m] \o Gen!RoutesOf(docs[m + 1], opts) \in Seq(Routes)
            /\ InTurn(f[m] \o Gen!RoutesOf(docs[m + 1], opts), docs, m + 1)
        BY <1>1, <3>2, <3>4, <4>1, InTurnStep
      <4> QED BY <3>2, <3>3, <3>4, <4>2
    <3>5. CASE ~opts.stubs
      <4>1. f[m] = <<>>  BY <2>6, <2>8, <3>1, <3>2, <3>5
      <4>2. Gen!RoutesOf(docs[m + 1], opts) = <<>>  BY <1>5, <3>2, <3>5, RoutesOfDoc
      <4>3. <<>> \o <<>> = <<>>  BY EmptySeq, ConcatEmptySeq
      <4> QED BY <3>2, <3>3, <3>5, <4>1, <4>2, <4>3
    <3> QED BY <3>4, <3>5
  <2>9. Nat \subseteq T  BY <2>7, <2>8, UpFromZero
  <2>10. PICK n \in Nat : n + 1 = N
    <3>1. N - 1 \in Nat /\ (N - 1) + 1 = N  BY <1>8
    <3> QED BY <3>1
  <2>11. /\ opts.stubs => f[N] \in Seq(Routes) /\ InTurn(f[N], docs, N)
         /\ ~opts.stubs => f[N] = <<>>
    BY <2>6, <2>9, <2>10
  <2> QED BY <1>1, <2>1, <2>4, <2>11
<1> QED BY <1>7, <1>8

-----------------------------------------------------------------------------
(* CodeGen: the inductive invariant *)

TypesOf(docs) ==
    LET structs == UNION {Gen!StructsOf(doc) : doc \in Gen!ToSet(docs)}
    IN  [is |-> "whole", structs |-> structs,
         formatted |-> Gen!Formatted(UNION {{m.rust : m \in s.members} : s \in structs})]

RoutesOfFile(docs, opts) ==
    [is |-> "whole", routes |-> RoutesOfAll(docs, opts),
     formatted |-> Gen!Formatted({r.handler : r \in Gen!ToSet(RoutesOfAll(docs, opts))})]

Lists(docs, opts) == opts.routes /\ RoutesOfAll(docs, opts) # <<>>

ModulesOf(docs, opts) ==
    [is |-> "whole", modules |-> {"types"} \cup IF Lists(docs, opts) THEN {"routes"} ELSE {}]

LEMMA FilesAre ==
    /\ Gen!TypesFile = TypesOf(genJob.docs)
    /\ Gen!RoutesFile = RoutesOfFile(genJob.docs, genJob.opts)
    /\ Gen!ModFile = ModulesOf(genJob.docs, genJob.opts)
    /\ Gen!ListsRoutes <=> Lists(genJob.docs, genJob.opts)
<1>1. Gen!AllRoutes = RoutesOfAll(genJob.docs, genJob.opts)
  BY DEF Gen!AllRoutes, RoutesOfAll
<1>2. Gen!TypesFile = TypesOf(genJob.docs)  BY DEF Gen!TypesFile, TypesOf
<1>3. Gen!RoutesFile = RoutesOfFile(genJob.docs, genJob.opts)
  BY <1>1 DEF Gen!RoutesFile, RoutesOfFile
<1>4. Gen!ListsRoutes <=> Lists(genJob.docs, genJob.opts)
  BY <1>1 DEF Gen!ListsRoutes, Lists
<1>5. Gen!ModFile = ModulesOf(genJob.docs, genJob.opts)  BY <1>4 DEF Gen!ModFile, ModulesOf
<1> QED BY <1>2, <1>3, <1>4, <1>5

Written3 == {"types", "routes", "mod"}

JobTypes ==
    /\ genInput \in [GenFiles -> GenContents \cup {Gen!None}]
    /\ genDisk = [f \in Written3 |-> genDisk[f]]
    /\ genJob \in [at : {"idle", "reading"} \cup Written3, todo : SUBSET GenFiles, docs : Seq(Doc),
                   ended : {"none", "ok", "unread", "unwritten"}, opts : Gen!Options]

\* What is read has changed nothing, what is written is of what has been read.
JobInv ==
    /\ genJob.at # "idle" => genJob.ended = "none"
    /\ genJob.at \in Written3 => genJob.docs # <<>>
    /\ genJob.at = "reading" \/ genJob.ended = "unread" \/ genJob.docs = <<>> => genDisk = genBefore
    /\ genJob.at \in {"routes", "mod"} => genDisk["types"] = TypesOf(genJob.docs)
    /\ genJob.at = "routes" => Lists(genJob.docs, genJob.opts)
    /\ genJob.at = "mod" /\ Lists(genJob.docs, genJob.opts) =>
             genDisk["routes"] = RoutesOfFile(genJob.docs, genJob.opts)
    /\ genJob.ended = "ok" /\ genJob.docs # <<>> =>
             /\ genDisk["types"] = TypesOf(genJob.docs)
             /\ genDisk["mod"] = ModulesOf(genJob.docs, genJob.opts)
             /\ Lists(genJob.docs, genJob.opts) => genDisk["routes"] = RoutesOfFile(genJob.docs, genJob.opts)

\* Every module that mod.rs lists is types or routes, and has a file.
ModulesAreThere ==
    genDisk["mod"].is = "whole" =>
           \A m \in genDisk["mod"].modules : m \in {"types", "routes"} /\ genDisk[m].is # "absent"

GenInv == JobTypes /\ JobInv /\ ModulesAreThere

LEMMA GenInit == Gen!Init => GenInv
<1> SUFFICES ASSUME Gen!Init PROVE GenInv  OBVIOUS
<1>1. JobTypes
  <2>1. <<>> \in Seq(Doc)  BY EmptySeq
  <2>2. genDisk = [f \in Written3 |-> genDisk[f]]  BY DEF Gen!Init, Written3
  <2> QED BY <2>1, <2>2 DEF Gen!Init, JobTypes, Written3, Gen!Options
<1>2. JobInv  BY DEF Gen!Init, JobInv, Written3
<1>3. ModulesAreThere  BY DEF Gen!Init, ModulesAreThere
<1> QED BY <1>1, <1>2, <1>3 DEF GenInv

\* A file is written to whatever state: the others stay as they are.
LEMMA OneFile ==
    ASSUME NEW d, d = [f \in Written3 |-> d[f]], NEW file \in Written3, NEW content,
           NEW e, e = [d EXCEPT ![file] = content]
    PROVE  /\ e = [f \in Written3 |-> e[f]]
           /\ e[file] = content
           /\ \A f \in Written3 : f # file => e[f] = d[f]
OBVIOUS

LEMMA GenNext == GenInv /\ [Gen!Next]_(Gen!vars) => GenInv'
<1> SUFFICES ASSUME GenInv, [Gen!Next]_(Gen!vars) PROVE GenInv'  OBVIOUS
<1>1. PICK at, todo, docs, ended, opts :
          /\ genJob = [at |-> at, todo |-> todo, docs |-> docs, ended |-> ended, opts |-> opts]
          /\ at \in {"idle", "reading"} \cup Written3 /\ todo \in SUBSET GenFiles
          /\ docs \in Seq(Doc) /\ ended \in {"none", "ok", "unread", "unwritten"}
          /\ opts \in Gen!Options
  BY DEF GenInv, JobTypes
<1>2. CASE UNCHANGED Gen!vars
  BY <1>2 DEF Gen!vars, GenInv, JobTypes, JobInv, ModulesAreThere
<1>3. ASSUME NEW o \in Gen!Options, Gen!Begin(o) PROVE GenInv'
  <2>1. PICK now : now = {f \in GenFiles : genInput[f] # Gen!None}  OBVIOUS
  <2>2. <<>> \in Seq(Doc) /\ now \in SUBSET GenFiles  BY <2>1, EmptySeq
  <2>3. /\ at = "idle" /\ UNCHANGED <<genInput, genDisk>> /\ genBefore' = genDisk
        /\ \/ genJob' = [at |-> "reading", todo |-> now, docs |-> <<>>, ended |-> "none", opts |-> o]
           \/ genJob' = [at |-> at, todo |-> todo, docs |-> <<>>, ended |-> "unread", opts |-> opts]
    BY <1>1, <1>3, <2>1 DEF Gen!Begin
  <2>4. JobTypes'
    <3>1. CASE genJob'.ended = "none"
      <4>1. genJob' = [at |-> "reading", todo |-> now, docs |-> <<>>, ended |-> "none", opts |-> o]
        BY <2>3, <3>1
      <4> QED BY <1>3, <2>2, <2>3, <4>1 DEF GenInv, JobTypes
    <3>2. CASE genJob'.ended # "none"
      <4>1. genJob' = [at |-> at, todo |-> todo, docs |-> <<>>, ended |-> "unread", opts |-> opts]
        BY <2>3, <3>2
      <4> QED BY <1>1, <2>2, <2>3, <4>1 DEF GenInv, JobTypes
    <3> QED BY <3>1, <3>2
  <2>5. JobInv'  BY <2>3 DEF JobInv, Written3
  <2>6. ModulesAreThere'  BY <2>3 DEF GenInv, ModulesAreThere
  <2> QED BY <2>4, <2>5, <2>6 DEF GenInv
<1>4. ASSUME NEW f \in GenFiles, Gen!ReadFile(f) PROVE GenInv'
  <2>1. at = "reading" /\ UNCHANGED <<genInput, genDisk, genBefore>>
    BY <1>1, <1>4 DEF Gen!ReadFile
  <2>2. ended = "none" /\ genDisk = genBefore  BY <1>1, <2>1 DEF GenInv, JobInv
  <2>3. CASE Gen!Parses(genInput[f])
    <3>1. genInput[f] \in Doc
      <4>1. genInput[f] \in GenContents \cup {Gen!None}  BY DEF GenInv, JobTypes
      <4>2. ~Gen!Parses(Gen!None)  BY DEF Gen!Parses, Gen!None
      <4> QED BY <2>3, <4>1, <4>2 DEF Doc
    <3>2. PICK more : more = Append(docs, genInput[f])  OBVIOUS
    <3>3. more \in Seq(Doc)  BY <1>1, <3>1, <3>2, AppendProperties
    <3>4. genJob' = [at |-> at, todo |-> todo \ {f}, docs |-> more, ended |-> ended, opts |-> opts]
      BY <1>1, <1>4, <2>3, <3>2 DEF Gen!ReadFile
    <3>5. JobTypes'  BY <1>1, <2>1, <3>3, <3>4 DEF GenInv, JobTypes
    <3>6. JobInv'  BY <2>1, <2>2, <3>4 DEF JobInv, Written3
    <3>7. ModulesAreThere'  BY <2>1 DEF GenInv, ModulesAreThere
    <3> QED BY <3>5, <3>6, <3>7 DEF GenInv
  <2>4. CASE ~Gen!Parses(genInput[f])
    <3>1. genJob' = [at |-> "idle", todo |-> {}, docs |-> docs, ended |-> "unread", opts |-> opts]
      BY <1>1, <1>4, <2>4 DEF Gen!ReadFile, Gen!Ends
    <3>2. JobTypes'  BY <1>1, <2>1, <3>1 DEF GenInv, JobTypes
    <3>3. JobInv'  BY <2>1, <2>2, <3>1 DEF JobInv, Written3
    <3>4. ModulesAreThere'  BY <2>1 DEF GenInv, ModulesAreThere
    <3> QED BY <3>2, <3>3, <3>4 DEF GenInv
  <2> QED BY <2>3, <2>4
<1>5. ASSUME NEW f \in GenFiles, Gen!PassOver(f) PROVE GenInv'
  <2>1. /\ at = "reading" /\ UNCHANGED <<genInput, genDisk, genBefore>>
        /\ genJob' = [at |-> at, todo |-> todo \ {f}, docs |-> docs, ended |-> ended, opts |-> opts]
    BY <1>1, <1>5 DEF Gen!PassOver
  <2>2. ended = "none" /\ genDisk = genBefore  BY <1>1, <2>1 DEF GenInv, JobInv
  <2>3. JobTypes'  BY <1>1, <2>1 DEF GenInv, JobTypes
  <2>4. JobInv'  BY <2>1, <2>2 DEF JobInv, Written3
  <2>5. ModulesAreThere'  BY <2>1 DEF GenInv, ModulesAreThere
  <2> QED BY <2>3, <2>4, <2>5 DEF GenInv
<1>6. ASSUME NEW f \in GenFiles, NEW content \in GenContents \cup {Gen!None}, Gen!Edit(f, content)
      PROVE  GenInv'
  <2>1. UNCHANGED <<genDisk, genJob, genBefore>> /\ genInput' = [genInput EXCEPT ![f] = content]
    BY <1>6 DEF Gen!Edit
  <2>2. genInput' \in [GenFiles -> GenContents \cup {Gen!None}]
    BY <1>6, <2>1 DEF GenInv, JobTypes
  <2> QED BY <2>1, <2>2 DEF GenInv, JobTypes, JobInv, ModulesAreThere
<1>7. CASE Gen!ReadAll
  <2>1. at = "reading" /\ todo = {} /\ UNCHANGED <<genInput, genDisk, genBefore>>
    BY <1>1, <1>7 DEF Gen!ReadAll
  <2>2. ended = "none" /\ genDisk = genBefore  BY <1>1, <2>1 DEF GenInv, JobInv
  <2>3. CASE docs = <<>>
    <3>1. genJob' = [at |-> "idle", todo |-> {}, docs |-> docs, ended |-> "ok", opts |-> opts]
      BY <1>1, <1>7, <2>3 DEF Gen!ReadAll, Gen!Ends
    <3>2. JobTypes'  BY <1>1, <2>1, <3>1 DEF GenInv, JobTypes
    <3>3. JobInv'  BY <2>1, <2>2, <2>3, <3>1 DEF JobInv, Written3
    <3>4. ModulesAreThere'  BY <2>1 DEF GenInv, ModulesAreThere
    <3> QED BY <3>2, <3>3, <3>4 DEF GenInv
  <2>4. CASE docs # <<>>
    <3>1. genJob' = [at |-> "types", todo |-> todo, docs |-> docs, ended |-> ended, opts |-> opts]
      BY <1>1, <1>7, <2>4 DEF Gen!ReadAll
    <3>2. JobTypes'  BY <1>1, <2>1, <3>1 DEF GenInv, JobTypes, Written3
    <3>3. JobInv'  BY <2>1, <2>2, <2>4, <3>1 DEF JobInv, Written3
    <3>4. ModulesAreThere'  BY <2>1 DEF GenInv, ModulesAreThere
    <3> QED BY <3>2, <3>3, <3>4 DEF GenInv
  <2> QED BY <2>3, <2>4
<1>8. CASE Gen!WriteFile("types", Gen!TypesFile)
  <2>1. PICK types : types = TypesOf(docs)  OBVIOUS
  <2>2. at = "types" /\ UNCHANGED genInput /\ genDisk' = [genDisk EXCEPT !["types"] = types]
    BY <1>1, <1>8, <2>1, FilesAre DEF Gen!WriteFile
  <2>3. ended = "none" /\ docs # <<>>  BY <1>1, <2>2 DEF GenInv, JobInv, Written3
  <2>4. PICK next : next = IF Lists(docs, opts) THEN "routes" ELSE "mod"  OBVIOUS
  <2>5. genJob' = [at |-> next, todo |-> todo, docs |-> docs, ended |-> ended, opts |-> opts]
    <3>1. Gen!After("types") = next  BY <1>1, <2>4, FilesAre DEF Gen!After
    <3>2. next # "idle"  BY <2>4
    <3> QED BY <1>1, <1>8, <3>1, <3>2 DEF Gen!WriteFile
  <2>6. /\ genDisk' = [f \in Written3 |-> genDisk'[f]] /\ genDisk'["types"] = types
        /\ genDisk'["routes"] = genDisk["routes"] /\ genDisk'["mod"] = genDisk["mod"]
    <3>1. genDisk = [f \in Written3 |-> genDisk[f]]  BY DEF GenInv, JobTypes
    <3>2. "types" \in Written3 /\ "routes" \in Written3 /\ "mod" \in Written3
      BY DEF Written3
    <3> QED BY <2>2, <3>1, <3>2, OneFile
  <2>7. JobTypes'  BY <1>1, <2>2, <2>4, <2>5, <2>6 DEF GenInv, JobTypes, Written3
  <2>8. JobInv'
    <3>1. CASE Lists(docs, opts)  BY <2>1, <2>3, <2>4, <2>5, <2>6, <3>1 DEF JobInv, Written3
    <3>2. CASE ~Lists(docs, opts)
      BY <2>1, <2>3, <2>4, <2>5, <2>6, <3>2 DEF JobInv, Written3
    <3> QED BY <3>1, <3>2
  <2>9. ModulesAreThere'
    <3>1. types.is = "whole"  BY <2>1 DEF TypesOf
    <3> QED BY <2>6, <3>1 DEF GenInv, ModulesAreThere
  <2> QED BY <2>7, <2>8, <2>9 DEF GenInv
<1>9. CASE Gen!WriteFile("routes", Gen!RoutesFile)
  <2>1. PICK routes : routes = RoutesOfFile(docs, opts)  OBVIOUS
  <2>2. at = "routes" /\ UNCHANGED genInput /\ genDisk' = [genDisk EXCEPT !["routes"] = routes]
    BY <1>1, <1>9, <2>1, FilesAre DEF Gen!WriteFile
  <2>3. /\ ended = "none" /\ docs # <<>> /\ Lists(docs, opts)
        /\ genDisk["types"] = TypesOf(docs)
    BY <1>1, <2>2 DEF GenInv, JobInv, Written3
  <2>4. genJob' = [at |-> "mod", todo |-> todo, docs |-> docs, ended |-> ended, opts |-> opts]
    <3>1. Gen!After("routes") = "mod"  BY DEF Gen!After
    <3> QED BY <1>1, <1>9, <3>1 DEF Gen!WriteFile
  <2>5. /\ genDisk' = [f \in Written3 |-> genDisk'[f]] /\ genDisk'["routes"] = routes
        /\ genDisk'["types"] = genDisk["types"] /\ genDisk'["mod"] = genDisk["mod"]
    <3>1. genDisk = [f \in Written3 |-> genDisk[f]]  BY DEF GenInv, JobTypes
    <3>2. "types" \in Written3 /\ "routes" \in Written3 /\ "mod" \in Written3
      BY DEF Written3
    <3> QED BY <2>2, <3>1, <3>2, OneFile
  <2>6. JobTypes'  BY <1>1, <2>2, <2>4, <2>5 DEF GenInv, JobTypes, Written3
  <2>7. JobInv'  BY <2>1, <2>3, <2>4, <2>5 DEF JobInv, Written3
  <2>8. ModulesAreThere'
    <3>1. routes.is = "whole"  BY <2>1 DEF RoutesOfFile
    <3> QED BY <2>5, <3>1 DEF GenInv, ModulesAreThere
  <2> QED BY <2>6, <2>7, <2>8 DEF GenInv
<1>10. CASE Gen!WriteFile("mod", Gen!ModFile)
  <2>1. PICK mod : mod = ModulesOf(docs, opts)  OBVIOUS
  <2>2. at = "mod" /\ UNCHANGED genInput /\ genDisk' = [genDisk EXCEPT !["mod"] = mod]
    BY <1>1, <1>10, <2>1, FilesAre DEF Gen!WriteFile
  <2>3. /\ docs # <<>> /\ genDisk["types"] = TypesOf(docs)
        /\ Lists(docs, opts) => genDisk["routes"] = RoutesOfFile(docs, opts)
    BY <1>1, <2>2 DEF GenInv, JobInv, Written3
  <2>4. genJob' = [at |-> "idle", todo |-> {}, docs |-> docs, ended |-> "ok", opts |-> opts]
    <3>1. Gen!After("mod") = "idle"  BY DEF Gen!After
    <3> QED BY <1>1, <1>10, <3>1 DEF Gen!WriteFile, Gen!Ends
  <2>5. /\ genDisk' = [f \in Written3 |-> genDisk'[f]] /\ genDisk'["mod"] = mod
        /\ genDisk'["types"] = genDisk["types"] /\ genDisk'["routes"] = genDisk["routes"]
    <3>1. genDisk = [f \in Written3 |-> genDisk[f]]  BY DEF GenInv, JobTypes
    <3>2. "types" \in Written3 /\ "routes" \in Written3 /\ "mod" \in Written3
      BY DEF Written3
    <3> QED BY <2>2, <3>1, <3>2, OneFile
  <2>6. JobTypes'  BY <1>1, <2>2, <2>4, <2>5 DEF GenInv, JobTypes, Written3
  <2>7. JobInv'  BY <2>1, <2>3, <2>4, <2>5 DEF JobInv, Written3
  <2>8. ModulesAreThere'
    <3>1. \A m \in mod.modules : m = "types" \/ (m = "routes" /\ Lists(docs, opts))
      BY <2>1 DEF ModulesOf
    <3>2. TypesOf(docs).is = "whole" /\ RoutesOfFile(docs, opts).is = "whole"
      BY DEF TypesOf, RoutesOfFile
    <3> QED BY <2>3, <2>5, <3>1, <3>2 DEF ModulesAreThere
  <2> QED BY <2>6, <2>7, <2>8 DEF GenInv
<1>11. ASSUME NEW file \in Written3, Gen!WriteFails(file) PROVE GenInv'
  <2>1. PICK cut : cut = [is |-> "cut"]  OBVIOUS
  <2>2. /\ at = file /\ UNCHANGED <<genInput, genBefore>>
        /\ genDisk' = [genDisk EXCEPT ![file] = cut] \/ UNCHANGED genDisk
        /\ genJob' = [at |-> "idle", todo |-> {}, docs |-> docs, ended |-> "unwritten", opts |-> opts]
    BY <1>1, <1>11, <2>1 DEF Gen!WriteFails, Gen!Ends
  <2>3. docs # <<>>  BY <1>1, <2>2 DEF GenInv, JobInv
  <2>4. genDisk = [f \in Written3 |-> genDisk[f]]  BY DEF GenInv, JobTypes
  <2>5. CASE genDisk' = [genDisk EXCEPT ![file] = cut]
    <3>1. /\ genDisk' = [f \in Written3 |-> genDisk'[f]] /\ genDisk'[file] = cut
          /\ \A f \in Written3 : f # file => genDisk'[f] = genDisk[f]
      BY <1>11, <2>4, <2>5, OneFile
    <3>2. ModulesAreThere'
      <4>1. cut.is = "cut"  BY <2>1
      <4>2. "mod" \in Written3 /\ "types" \in Written3 /\ "routes" \in Written3
        BY DEF Written3
      <4>3. CASE file = "mod"  BY <3>1, <4>1, <4>3 DEF ModulesAreThere
      <4>4. CASE file # "mod"
        <5>1. genDisk'["mod"] = genDisk["mod"]  BY <3>1, <4>2, <4>4
        <5> QED BY <3>1, <4>1, <4>2, <5>1 DEF GenInv, ModulesAreThere
      <4> QED BY <4>3, <4>4
    <3>3. JobTypes'  BY <1>1, <2>2, <3>1 DEF GenInv, JobTypes
    <3>4. JobInv'  BY <2>2, <2>3 DEF JobInv, Written3
    <3> QED BY <3>2, <3>3, <3>4 DEF GenInv
  <2>6. CASE UNCHANGED genDisk
    <3>1. JobTypes'  BY <1>1, <2>2, <2>6 DEF GenInv, JobTypes
    <3>2. JobInv'  BY <2>2, <2>3 DEF JobInv, Written3
    <3>3. ModulesAreThere'  BY <2>6 DEF GenInv, ModulesAreThere
    <3> QED BY <3>1, <3>2, <3>3 DEF GenInv
  <2> QED BY <2>2, <2>5, <2>6
<1> QED
  BY <1>2, <1>3, <1>4, <1>5, <1>6, <1>7, <1>8, <1>9, <1>10, <1>11 DEF Gen!Next, Written3

-----------------------------------------------------------------------------
(* CodeGen: what follows *)

\* A schema's struct reads and writes back the objects of the schema.
LEMMA StructReads ==
    ASSUME NEW name, NEW schema, NEW object, object \subseteq DOMAIN schema.properties,
           schema.required \cap DOMAIN schema.properties \subseteq object
    PROVE  Gen!Reads(Gen!Struct(name, schema), object) /\ Gen!Written(Gen!Struct(name, schema), object) = object
<1>1. PICK P : P = DOMAIN schema.properties  OBVIOUS
<1>2. PICK Member :
          Member = [p \in P |-> [json |-> p, rust |-> GenSnake[p],
                        type |-> Gen!RustType(schema.properties[p], p \in schema.required)]]
  OBVIOUS
<1>3. Gen!Struct(name, schema).members = {Member[p] : p \in P}  BY <1>1, <1>2 DEF Gen!Struct
<1>4. \A p \in P : Member[p].json = p /\ (Member[p].type.option <=> ~(p \in schema.required))
  BY <1>2 DEF Gen!RustType
<1>5. Gen!Reads(Gen!Struct(name, schema), object)  BY <1>1, <1>3, <1>4 DEF Gen!Reads
<1>6. Gen!Written(Gen!Struct(name, schema), object) = object
  BY <1>1, <1>3, <1>4 DEF Gen!Written
<1> QED BY <1>5, <1>6

\* There are structs of a name, and every object of the schema is read by one of
\* them and written back as it was.
Serves(structs, name, schema) ==
    LET named == {s \in structs : s.name = name}
    IN  /\ named # {}
        /\ \A object \in SUBSET DOMAIN schema.properties :
              schema.required \cap DOMAIN schema.properties \subseteq object =>
                  \E s \in named : Gen!Reads(s, object) /\ Gen!Written(s, object) = object

LEMMA GenInvIsEnough == GenInv => Gen!GeneratedHangsTogether
<1> SUFFICES ASSUME GenInv PROVE Gen!GeneratedHangsTogether  OBVIOUS
<1>1. Gen!ListedIsThere  BY DEF GenInv, ModulesAreThere, Gen!ListedIsThere, Gen!Whole
<1>2. genJob.docs \in Seq(Doc)  BY DEF GenInv, JobTypes
<1>3. Gen!OneReading
  <2>1. genJob.ended = "unread" \/ genJob.docs = <<>> => genDisk = genBefore
    BY DEF GenInv, JobInv
  <2> SUFFICES ASSUME genJob.ended = "ok", genJob.docs # <<>>
               PROVE  /\ genDisk["types"] = Gen!TypesFile /\ genDisk["mod"] = Gen!ModFile
                      /\ "routes" \in genDisk["mod"].modules =>
                            LET routes == genDisk["routes"].routes
                                routed == {i \in DOMAIN genJob.docs : Gen!Mains(genJob.docs[i]) # {}}
                            IN  \E of \in [DOMAIN routes -> routed] :
                                    /\ \A m, n \in DOMAIN routes : m < n => of[m] < of[n]
                                    /\ \A i \in routed : \E n \in DOMAIN routes : of[n] = i
                                    /\ \A n \in DOMAIN routes :
                                          routes[n].nsid = genJob.docs[of[n]].id
    BY <2>1 DEF Gen!OneReading
  <2>2. genDisk["types"] = Gen!TypesFile /\ genDisk["mod"] = Gen!ModFile
    BY FilesAre DEF GenInv, JobInv
  <2>3. ASSUME "routes" \in genDisk["mod"].modules
        PROVE  \E of \in [DOMAIN genDisk["routes"].routes ->
                            {i \in DOMAIN genJob.docs : Gen!Mains(genJob.docs[i]) # {}}] :
                  /\ \A m, n \in DOMAIN genDisk["routes"].routes : m < n => of[m] < of[n]
                  /\ \A i \in {i \in DOMAIN genJob.docs : Gen!Mains(genJob.docs[i]) # {}} :
                        \E n \in DOMAIN genDisk["routes"].routes : of[n] = i
                  /\ \A n \in DOMAIN genDisk["routes"].routes :
                        genDisk["routes"].routes[n].nsid = genJob.docs[of[n]].id
    <3>1. Lists(genJob.docs, genJob.opts)
      <4>1. genDisk["mod"] = ModulesOf(genJob.docs, genJob.opts)  BY DEF GenInv, JobInv
      <4> QED BY <2>3, <4>1 DEF ModulesOf
    <3>2. PICK all : all = RoutesOfAll(genJob.docs, genJob.opts)  OBVIOUS
    <3>3. genDisk["routes"].routes = all
      <4>1. genDisk["routes"] = RoutesOfFile(genJob.docs, genJob.opts)
        BY <3>1 DEF GenInv, JobInv
      <4> QED BY <3>2, <4>1 DEF RoutesOfFile
    <3>4. genJob.opts.stubs  BY <1>2, <3>1, RoutesInTurn DEF Lists
    <3>5. all \in Seq(Routes) /\ InTurn(all, genJob.docs, Len(genJob.docs))
      BY <1>2, <3>2, <3>4, RoutesInTurn
    <3>6. DOMAIN all = 1..Len(all)  BY <3>5, LenProperties
    <3>7. {i \in DOMAIN genJob.docs : Gen!Mains(genJob.docs[i]) # {}} = Routed(genJob.docs, Len(genJob.docs))
      BY <1>2, LenProperties DEF Routed
    <3>8. PICK of \in [1..Len(all) -> Routed(genJob.docs, Len(genJob.docs))] :
              /\ \A k, l \in 1..Len(all) : k < l => of[k] < of[l]
              /\ \A i \in Routed(genJob.docs, Len(genJob.docs)) : \E k \in 1..Len(all) : of[k] = i
              /\ \A k \in 1..Len(all) : all[k].nsid = genJob.docs[of[k]].id
      BY <3>5 DEF InTurn
    <3>9. of \in [DOMAIN all -> {i \in DOMAIN genJob.docs : Gen!Mains(genJob.docs[i]) # {}}]
      BY <3>6, <3>7
    <3>10. \A m, n \in DOMAIN all : m < n => of[m] < of[n]  BY <3>6, <3>8
    <3>11. \A i \in {i \in DOMAIN genJob.docs : Gen!Mains(genJob.docs[i]) # {}} :
              \E n \in DOMAIN all : of[n] = i
      BY <3>6, <3>7, <3>8
    <3>12. \A n \in DOMAIN all : all[n].nsid = genJob.docs[of[n]].id  BY <3>6, <3>8
    <3>13. genDisk["routes"].routes = all  BY <3>3
    <3> QED BY <3>9, <3>10, <3>11, <3>12, <3>13, Zenon
  <2> QED BY <2>2, <2>3
<1>4. Gen!StructsReadTheirs
  <2> SUFFICES ASSUME genJob.ended = "ok", NEW doc \in Gen!ToSet(genJob.docs), NEW def \in doc.defs,
                      NEW part \in Gen!Parts(def)
               PROVE  Serves(genDisk["types"].structs, doc.id \o Gen!Suffix(def, part), def.schemas[part])
    BY DEF Gen!StructsReadTheirs, Serves
  <2>1. PICK name : name = doc.id \o Gen!Suffix(def, part)  OBVIOUS
  <2>2. PICK schema, struct : schema = def.schemas[part] /\ struct = Gen!Struct(name, schema)  OBVIOUS
  <2>3. genJob.docs # <<>>
    <3>1. \A d : d \notin Gen!ToSet(<<>>)  BY DEF Gen!ToSet
    <3> QED BY <3>1
  <2>4. genDisk["types"].structs = UNION {Gen!StructsOf(d) : d \in Gen!ToSet(genJob.docs)}
    <3>1. genDisk["types"] = TypesOf(genJob.docs)  BY <2>3 DEF GenInv, JobInv
    <3> QED BY <3>1 DEF TypesOf
  <2>5. struct \in Gen!StructsOf(doc)  BY <2>1, <2>2 DEF Gen!StructsOf
  <2>6. struct.name = name  BY <2>2 DEF Gen!Struct
  <2>7. struct \in {s \in genDisk["types"].structs : s.name = name}  BY <2>4, <2>5, <2>6
  <2>8. \A object \in SUBSET DOMAIN schema.properties :
            schema.required \cap DOMAIN schema.properties \subseteq object =>
                Gen!Reads(struct, object) /\ Gen!Written(struct, object) = object
    BY <2>2, StructReads
  <2> QED BY <2>1, <2>2, <2>7, <2>8 DEF Serves
<1> QED BY <1>1, <1>3, <1>4 DEF Gen!GeneratedHangsTogether

LEMMA GenSteps == StorageSpec => Gen!Spec
<1>1. StorageInit => Gen!Init  BY DEF StorageInit
<1>2. [StorageNext]_storageVars => [Gen!Next]_(Gen!vars)
  BY DEF StorageNext, storageVars, appVars, dictVars, repVars, labVars, genVars, migVars,
     Gen!vars
<1> QED BY <1>1, <1>2, PTL DEF StorageSpec, Gen!Spec

\* GeneratedHangsTogether: whatever generations are cut short and whatever lexicons
\* are edited under them, the modules that mod.rs lists are there, the files of a
\* finished generation are of one reading, and its structs read their objects.
THEOREM GenerationsHangTogether == StorageSpec => []GeneratedHangsTogether
<1>1. GenInv => GeneratedHangsTogether  BY GenInvIsEnough DEF GeneratedHangsTogether
<1> QED BY <1>1, GenInit, GenNext, GenSteps, PTL DEF Gen!Spec

-----------------------------------------------------------------------------
(* Migrations: two releases side by side *)

\* The theorems of Migrations hold of the instance, since its assumption does.
M == INSTANCE Migrations_proofs WITH
    Processes <- MigProcesses, Tables <- MigTables, Top <- MigTop, Plan <- MigPlan,
    Statements <- MigStatements, Backends <- MigBackends, Guarded <- MigGuarded,
    Faults <- MigFaults,
    backend <- migBackend, schema <- migSchema, recorded <- migRecorded, at <- migAt,
    step <- migStep, applied <- migApplied, version <- migVersion, stmt <- migStmt, faults <- migFaults

LEMMA RollingSteps == StorageSpec => Rolling!Spec
<1>1. StorageInit => Rolling!Init  BY DEF StorageInit
<1>2. [StorageNext]_storageVars => [Rolling!Next]_(Rolling!vars)
  BY DEF StorageNext, storageVars, appVars, dictVars, repVars, labVars, genVars, migVars,
     Rolling!vars
<1> QED BY <1>1, <1>2, PTL DEF StorageSpec, Rolling!Spec

LEMMA MigrationsAssumed == M!MigrationsAssumption
  BY RollingAssumption DEF M!MigrationsAssumption, Rolling!Sources, M!Sources

LEMMA SameInit == Rolling!Init <=> M!Init
  BY DEF Rolling!Init, Rolling!Versions, M!Init, M!Versions

LEMMA SameNext == [Rolling!Next]_(Rolling!vars) <=> [M!Next]_(M!vars)
  BY DEF Rolling!Next, Rolling!Start, Rolling!database, Rolling!Step,
         Rolling!CreateTable, Rolling!ReadApplied, Rolling!Table,
         Rolling!Advance, Rolling!Pending, Rolling!Files, Rolling!Execute,
         Rolling!ExecuteSqlite, Rolling!Conflicts, Rolling!Reach,
         Rolling!ExecutePostgres, Rolling!Rejected, Rolling!Record,
         Rolling!DatabaseError, Rolling!Working, Rolling!Crash, Rolling!vars,
         M!Next, M!Start, M!database, M!Step, M!CreateTable, M!ReadApplied,
         M!Table, M!Advance, M!Pending, M!Files, M!Execute, M!ExecuteSqlite,
         M!Conflicts, M!Reach, M!ExecutePostgres, M!Rejected, M!Record,
         M!DatabaseError, M!Working, M!Crash, M!vars

LEMMA SameOrder == Rolling!ExecutedInOrder <=> M!ExecutedInOrder
  BY DEF Rolling!ExecutedInOrder, Rolling!Versions, Rolling!Complete,
         M!ExecutedInOrder, M!Versions, M!Complete

LEMMA SameReady == Rolling!ReadyIsMigrated <=> M!ReadyIsMigrated
  BY DEF Rolling!ReadyIsMigrated, Rolling!Complete, M!ReadyIsMigrated,
         M!Complete

\* RollingReleases: two releases that start side by side execute their files in
\* order, and a process is ready only when its own files are complete.
THEOREM ReleasesRoll == StorageSpec => []RollingReleases
<1>1. Rolling!Spec => M!Spec  BY SameInit, SameNext, PTL DEF Rolling!Spec, M!Spec
<1>2. M!Spec => []M!ExecutedInOrder  BY MigrationsAssumed, M!FilesRunInOrder
<1>3. M!Spec => []M!ReadyIsMigrated  BY MigrationsAssumed, M!ReadyMeansMigrated
<1> QED BY RollingSteps, SameOrder, SameReady, <1>1, <1>2, <1>3, PTL DEF RollingReleases
=============================================================================
