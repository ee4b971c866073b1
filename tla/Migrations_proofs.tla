------------------------- MODULE Migrations_proofs -------------------------
(***************************************************************************)
(* Proofs about Migrations, for every value of its constants.              *)
(***************************************************************************)
EXTENDS Migrations, TLAPS

-----------------------------------------------------------------------------
(* The inductive invariant *)

\* Entry i of the plan of p has been executed.
Settled(p, i) ==
    \A v \in 1..Plan[p][i].newest : Complete(Plan[p][i].table, v)

\* What a process may rely on where it stands.
Progress(p) ==
    /\ at[p] \notin {"down", "failed"} =>
          \A i \in 1..(step[p] - 1) : Settled(p, i)
    /\ at[p] \in {"executing", "recording"} =>
          /\ version[p] \in Files(p)
          /\ \A u \in applied[p] : Complete(Table(p), u)
          /\ \A u \in 1..(version[p] - 1) : Complete(Table(p), u)
          /\ stmt[p] <= schema[Table(p)][version[p]] + 1
    /\ at[p] = "recording" => Complete(Table(p), version[p])
    /\ at[p] = "ready" => \A i \in 1..Len(Plan[p]) : Settled(p, i)

Ledger ==
    /\ RecordedIsComplete
    /\ ExecutedInOrder
    /\ \A p \in Processes : Progress(p)

-----------------------------------------------------------------------------
(* Types *)

\* The entry of the plan a process works on.
LEMMA PlanEntry ==
    ASSUME NEW p \in Processes, NEW i \in Nat \ {0}, i <= Len(Plan[p])
    PROVE  /\ Len(Plan[p]) \in Nat
           /\ Plan[p][i].table \in Tables
           /\ Plan[p][i].newest \in 0..Top
<1>1. Plan[p] \in Seq(Sources)
  BY MigrationsAssumption
<1>2. Len(Plan[p]) \in Nat /\ Plan[p][i] \in Sources
  BY <1>1
<1> QED
  BY <1>2 DEF Sources

LEMMA CurrentEntry ==
    ASSUME TypeOK, NEW p \in Processes
    PROVE  /\ Table(p) \in Tables
           /\ Files(p) \subseteq Versions
           /\ Len(Plan[p]) \in Nat
<1>1. step[p] \in Nat \ {0} /\ step[p] <= Len(Plan[p])
  BY DEF TypeOK
<1>2. /\ Len(Plan[p]) \in Nat
      /\ Plan[p][step[p]].table \in Tables
      /\ Plan[p][step[p]].newest \in 0..Top
  BY <1>1, PlanEntry
<1> QED
  BY <1>2, MigrationsAssumption DEF Table, Files, Versions

\* The loop's head keeps the types.
LEMMA AdvanceType ==
    ASSUME TypeOK, NEW p \in Processes, NEW after, NEW found,
           Advance(p, after, found)
    PROVE  /\ at' \in [Processes -> Stages]
           /\ step' \in [Processes -> Nat \ {0}]
           /\ \A q \in Processes : step'[q] <= Len(Plan[q])
           /\ version' \in [Processes -> 0..Top]
<1> USE DEF TypeOK, Stages, Working
<1> DEFINE todo == Pending(p, after, found)
<1>0. todo \subseteq 1..Top /\ Len(Plan[p]) \in Nat /\ Top \in Nat
  BY CurrentEntry, MigrationsAssumption DEF Pending, Versions
<1>1. CASE /\ \E v \in todo : version' = [version EXCEPT ![p] = v]
           /\ at' = [at EXCEPT ![p] = "executing"]
           /\ UNCHANGED step
  BY <1>0, <1>1
<1>2. CASE /\ step[p] < Len(Plan[p])
           /\ step' = [step EXCEPT ![p] = @ + 1]
           /\ at' = [at EXCEPT ![p] = "creating"]
           /\ version' = [version EXCEPT ![p] = 0]
  BY <1>0, <1>2
<1>3. CASE /\ at' = [at EXCEPT ![p] = "ready"]
           /\ version' = [version EXCEPT ![p] = 0]
           /\ UNCHANGED step
  BY <1>0, <1>3
<1> QED
  BY <1>1, <1>2, <1>3 DEF Advance

\* Executing statements keeps the type, and loses none.
LEMMA ReachGrows ==
    ASSUME TypeOK, NEW p \in Processes, version[p] \in Versions,
           NEW s \in 1..Statements, Reach(p, s)
    PROVE  /\ schema' \in [Tables -> [Versions -> 0..Statements]]
           /\ \A t \in Tables, v \in Versions : schema[t][v] <= schema'[t][v]
           /\ \A t \in Tables, v \in Versions :
                 <<t, v>> # <<Table(p), version[p]>> => schema'[t][v] = schema[t][v]
           /\ s <= schema'[Table(p)][version[p]]
<1>1. Table(p) \in Tables
  BY CurrentEntry
<1>2. schema \in [Tables -> [Versions -> 0..Statements]] /\ Statements \in Nat
  BY MigrationsAssumption DEF TypeOK
<1>3. CASE s <= schema[Table(p)][version[p]]
  BY <1>1, <1>2, <1>3 DEF Reach
<1>4. CASE ~(s <= schema[Table(p)][version[p]])
  BY <1>1, <1>2, <1>4 DEF Reach
<1> QED
  BY <1>3, <1>4

LEMMA TypeStep == TypeOK /\ Ledger /\ [Next]_vars => TypeOK'
<1> SUFFICES ASSUME TypeOK, Ledger, [Next]_vars PROVE TypeOK'
  OBVIOUS
<1> USE DEF database
<1>0. /\ Statements \in Nat \ {0} /\ Top \in Nat /\ Faults \in Nat
      /\ \A p \in Processes : Len(Plan[p]) \in Nat \ {0}
  BY MigrationsAssumption
<1>1. ASSUME NEW p \in Processes, Start(p) PROVE TypeOK'
  BY <1>0, <1>1 DEF Start, TypeOK, Stages, Working
<1>2. ASSUME NEW p \in Processes, CreateTable(p) PROVE TypeOK'
  BY <1>2 DEF CreateTable, TypeOK, Stages, Working
<1>3. ASSUME NEW p \in Processes, ReadApplied(p) PROVE TypeOK'
  <2>1. Advance(p, 0, recorded[Table(p)])
    BY <1>3 DEF ReadApplied
  <2>2. /\ at' \in [Processes -> Stages]
        /\ step' \in [Processes -> Nat \ {0}]
        /\ \A q \in Processes : step'[q] <= Len(Plan[q])
        /\ version' \in [Processes -> 0..Top]
    BY <2>1, AdvanceType
  <2>3. Table(p) \in Tables
    BY CurrentEntry
  <2>4. /\ applied' \in [Processes -> SUBSET Versions]
        /\ stmt' \in [Processes -> 1..Statements]
        /\ UNCHANGED <<backend, schema, recorded, faults>>
    BY <1>0, <1>3, <2>3 DEF ReadApplied, TypeOK
  <2> QED
    BY <2>2, <2>4 DEF TypeOK
<1>4. ASSUME NEW p \in Processes, ExecuteSqlite(p) PROVE TypeOK'
  <2>1. version[p] \in Versions /\ stmt[p] \in 1..Statements
    BY <1>4, CurrentEntry DEF ExecuteSqlite, Ledger, Progress, TypeOK
  <2>2. schema' \in [Tables -> [Versions -> 0..Statements]]
    BY <1>4, <2>1, ReachGrows DEF ExecuteSqlite
  <2>3. /\ at' \in [Processes -> Stages]
        /\ stmt' \in [Processes -> 1..Statements]
    <3>1. CASE stmt[p] < Statements
      <4>1. stmt[p] + 1 \in 1..Statements
        BY <1>0, <2>1, <3>1
      <4>2. stmt' = [stmt EXCEPT ![p] = stmt[p] + 1] /\ UNCHANGED at
        BY <1>4, <3>1 DEF ExecuteSqlite
      <4> QED
        BY <4>1, <4>2 DEF TypeOK
    <3>2. CASE ~(stmt[p] < Statements)
      BY <1>4, <3>2 DEF ExecuteSqlite, TypeOK, Stages, Working
    <3> QED
      BY <3>1, <3>2
  <2> QED
    BY <1>4, <2>2, <2>3 DEF ExecuteSqlite, TypeOK
<1>5. ASSUME NEW p \in Processes, ExecutePostgres(p) PROVE TypeOK'
  <2>1. version[p] \in Versions /\ Statements \in 1..Statements
    BY <1>0, <1>5, CurrentEntry DEF ExecutePostgres, Ledger, Progress
  <2>2. schema' \in [Tables -> [Versions -> 0..Statements]]
    BY <1>5, <2>1, ReachGrows DEF ExecutePostgres
  <2> QED
    BY <1>5, <2>2 DEF ExecutePostgres, TypeOK, Stages, Working
<1>6. ASSUME NEW p \in Processes, Rejected(p) PROVE TypeOK'
  BY <1>6 DEF Rejected, TypeOK, Stages, Working
<1>7. ASSUME NEW p \in Processes, Record(p) PROVE TypeOK'
  <2>1. Table(p) \in Tables /\ version[p] \in Versions
    BY <1>7, CurrentEntry DEF Record, Ledger, Progress
  <2>2. CASE version[p] \in recorded[Table(p)]
    BY <1>7, <2>2 DEF Record, TypeOK, Stages, Working
  <2>3. CASE version[p] \notin recorded[Table(p)]
    <3>1. /\ at' \in [Processes -> Stages]
          /\ step' \in [Processes -> Nat \ {0}]
          /\ \A q \in Processes : step'[q] <= Len(Plan[q])
          /\ version' \in [Processes -> 0..Top]
      BY <1>7, <2>3, AdvanceType DEF Record
    <3>2. /\ recorded' \in [Tables -> SUBSET Versions]
          /\ stmt' \in [Processes -> 1..Statements]
          /\ UNCHANGED <<backend, schema, applied, faults>>
      <4>1. recorded' = [recorded EXCEPT ![Table(p)]
                             = recorded[Table(p)] \cup {version[p]}]
        BY <1>7, <2>3 DEF Record
      <4>2. recorded[Table(p)] \cup {version[p]} \in SUBSET Versions
        BY <2>1 DEF TypeOK
      <4>3. recorded' \in [Tables -> SUBSET Versions]
        BY <2>1, <4>1, <4>2 DEF TypeOK
      <4>4. stmt' \in [Processes -> 1..Statements]
        <5>1. stmt' = [stmt EXCEPT ![p] = 1] /\ 1 \in 1..Statements
          BY <1>0, <1>7, <2>3 DEF Record
        <5> QED
          BY <5>1 DEF TypeOK
      <4> QED
        BY <1>7, <4>3, <4>4 DEF Record
    <3> QED
      BY <3>1, <3>2 DEF TypeOK
  <2> QED
    BY <2>2, <2>3
<1>8. ASSUME NEW p \in Processes, DatabaseError(p) PROVE TypeOK'
  BY <1>0, <1>8 DEF DatabaseError, TypeOK, Stages, Working
<1>9. ASSUME NEW p \in Processes, Crash(p) PROVE TypeOK'
  BY <1>0, <1>9 DEF Crash, TypeOK, Stages, Working
<1>10. CASE UNCHANGED vars
  BY <1>10 DEF vars, TypeOK
<1> QED
  BY <1>1, <1>2, <1>3, <1>4, <1>5, <1>6, <1>7, <1>8, <1>9, <1>10
  DEF Next, Step, Execute

-----------------------------------------------------------------------------
(* The ledger *)

\* What a step never loses: a complete migration stays complete.
LEMMA CompleteStays ==
    ASSUME TypeOK, TypeOK', NEW t \in Tables, NEW v \in Versions,
           schema[t][v] <= schema'[t][v], Complete(t, v)
    PROVE  Complete(t, v)'
<1>1. schema'[t][v] \in 0..Statements /\ Statements \in Nat
  BY MigrationsAssumption DEF TypeOK
<1> QED
  BY <1>1 DEF Complete

\* The versions of an entry of a plan.
LEMMA SettledStays ==
    ASSUME TypeOK, TypeOK', NEW p \in Processes, NEW i \in 1..Len(Plan[p]),
           \A t \in Tables, v \in Versions : schema[t][v] <= schema'[t][v],
           Settled(p, i)
    PROVE  Settled(p, i)'
<1>1. Len(Plan[p]) \in Nat
  BY MigrationsAssumption
<1>2. Plan[p][i].table \in Tables /\ Plan[p][i].newest \in 0..Top
  BY <1>1, PlanEntry
<1>3. \A v \in 1..Plan[p][i].newest : v \in Versions
  BY <1>2, MigrationsAssumption DEF Versions
<1> QED
  BY <1>2, <1>3, CompleteStays DEF Settled

\* A process that does not move keeps what it relies on.
LEMMA ProgressFrame ==
    ASSUME TypeOK, TypeOK', NEW q \in Processes, Progress(q),
           \A t \in Tables, v \in Versions : schema[t][v] <= schema'[t][v],
           at'[q] = at[q], step'[q] = step[q], applied'[q] = applied[q],
           version'[q] = version[q], stmt'[q] = stmt[q]
    PROVE  Progress(q)'
<1>1. /\ Table(q)' = Table(q) /\ Files(q)' = Files(q)
      /\ Table(q) \in Tables /\ Files(q) \subseteq Versions
      /\ applied[q] \subseteq Versions
      /\ step[q] \in Nat \ {0} /\ step[q] <= Len(Plan[q])
      /\ Len(Plan[q]) \in Nat
  BY CurrentEntry DEF Table, Files, TypeOK
<1>2. at[q] \notin {"down", "failed"} =>
        \A i \in 1..(step[q] - 1) : Settled(q, i)'
  BY <1>1, SettledStays DEF Progress
<1>3. at[q] = "ready" => \A i \in 1..Len(Plan[q]) : Settled(q, i)'
  BY <1>1, SettledStays DEF Progress
<1>4. at[q] = "recording" => Complete(Table(q), version[q])'
  BY <1>1, CompleteStays DEF Progress
<1>5. ASSUME at[q] \in {"executing", "recording"}
      PROVE  /\ version[q] \in Files(q)
             /\ \A u \in applied[q] : Complete(Table(q), u)'
             /\ \A u \in 1..(version[q] - 1) : Complete(Table(q), u)'
             /\ stmt[q] <= schema'[Table(q)][version[q]] + 1
  <2>1. version[q] \in Versions /\ version[q] \in Files(q)
    BY <1>1, <1>5 DEF Progress
  <2>2. \A u \in 1..(version[q] - 1) : u \in Versions
    BY <2>1, MigrationsAssumption DEF Versions
  <2>3. stmt[q] <= schema'[Table(q)][version[q]] + 1
    <3>1. /\ schema[Table(q)][version[q]] \in Nat
          /\ schema'[Table(q)][version[q]] \in Nat
          /\ stmt[q] \in Nat
      BY <1>1, <2>1, MigrationsAssumption DEF TypeOK
    <3> QED
      BY <1>1, <1>5, <2>1, <3>1 DEF Progress
  <2>4. \A u \in applied[q] : Complete(Table(q), u)'
    BY <1>1, <1>5, CompleteStays DEF Progress
  <2>5. \A u \in 1..(version[q] - 1) : Complete(Table(q), u)'
    BY <1>1, <1>5, <2>2, CompleteStays DEF Progress
  <2> QED
    BY <2>1, <2>3, <2>4, <2>5
<1> QED
  BY <1>1, <1>2, <1>3, <1>4, <1>5 DEF Progress, Complete, Settled

\* The head of the loop finds what the next migration may rely on.
LEMMA AdvanceProgress ==
    ASSUME TypeOK, TypeOK', NEW p \in Processes,
           NEW after \in 0..Top, NEW found \in SUBSET Versions,
           Advance(p, after, found), UNCHANGED schema,
           applied'[p] = found, stmt'[p] = 1,
           \A u \in found : Complete(Table(p), u),
           \A u \in 1..after : Complete(Table(p), u),
           \A i \in 1..(step[p] - 1) : Settled(p, i)
    PROVE  Progress(p)'
<1> DEFINE todo == Pending(p, after, found)
<1>0. /\ Table(p) \in Tables /\ Files(p) \subseteq Versions
      /\ Len(Plan[p]) \in Nat /\ Top \in Nat
      /\ step[p] \in Nat \ {0} /\ step[p] <= Len(Plan[p])
      /\ Files(p) = 1..Plan[p][step[p]].newest
      /\ Plan[p][step[p]].newest \in 0..Top
  BY CurrentEntry, PlanEntry, MigrationsAssumption DEF TypeOK, Files
<1>1. \A u \in Files(p) : u \notin todo => Complete(Table(p), u)
  BY <1>0 DEF Pending, Versions
<1>2. \A t, v : Complete(t, v)' <=> Complete(t, v)
  BY DEF Complete
<1>3. \A i : Settled(p, i)' <=> Settled(p, i)
  BY DEF Settled, Complete
<1>4. CASE /\ \E v \in todo :
                 /\ \A u \in todo : v <= u
                 /\ version' = [version EXCEPT ![p] = v]
           /\ at' = [at EXCEPT ![p] = "executing"]
           /\ UNCHANGED step
  <2>1. PICK v \in todo : /\ \A u \in todo : v <= u
                          /\ version' = [version EXCEPT ![p] = v]
    BY <1>4
  <2>2. /\ version'[p] = v /\ at'[p] = "executing" /\ step'[p] = step[p]
        /\ Table(p)' = Table(p) /\ Files(p)' = Files(p)
    BY <1>4, <2>1 DEF TypeOK, Table, Files
  <2>3. v \in Files(p) /\ v \in Versions
    BY <1>0 DEF Pending
  <2>4. \A u \in 1..(v - 1) : Complete(Table(p), u)
    <3> SUFFICES ASSUME NEW u \in 1..(v - 1) PROVE Complete(Table(p), u)
      OBVIOUS
    <3>1. u \in Files(p) /\ ~(v <= u)
      BY <1>0, <2>3
    <3>2. u \notin todo
      BY <2>1, <3>1
    <3> QED
      BY <1>1, <3>1, <3>2
  <2>5. stmt'[p] <= schema'[Table(p)][v] + 1
    <3>1. schema'[Table(p)][v] \in Nat
      BY <1>0, <2>3, MigrationsAssumption DEF TypeOK
    <3> QED
      BY <3>1
  <2> QED
    BY <1>2, <1>3, <2>2, <2>3, <2>4, <2>5 DEF Progress
<1>5. ASSUME todo = {} PROVE Settled(p, step[p])
  BY <1>0, <1>1, <1>5 DEF Settled, Table
<1>6. CASE /\ todo = {}
           /\ step[p] < Len(Plan[p])
           /\ step' = [step EXCEPT ![p] = @ + 1]
           /\ at' = [at EXCEPT ![p] = "creating"]
  <2>1. at'[p] = "creating" /\ step'[p] = step[p] + 1
    BY <1>6 DEF TypeOK
  <2>2. \A i \in 1..(step'[p] - 1) : Settled(p, i)
    <3>1. \A i \in 1..(step'[p] - 1) : i \in 1..(step[p] - 1) \/ i = step[p]
      BY <1>0, <2>1
    <3> QED
      BY <1>5, <1>6, <3>1
  <2> QED
    BY <1>3, <2>1, <2>2 DEF Progress
<1>7. CASE /\ todo = {}
           /\ step[p] = Len(Plan[p])
           /\ at' = [at EXCEPT ![p] = "ready"]
           /\ UNCHANGED step
  <2>1. at'[p] = "ready" /\ step'[p] = step[p]
    BY <1>7 DEF TypeOK
  <2>2. \A i \in 1..Len(Plan[p]) : Settled(p, i)
    <3>1. \A i \in 1..Len(Plan[p]) : i \in 1..(step[p] - 1) \/ i = step[p]
      BY <1>0, <1>7
    <3> QED
      BY <1>5, <1>7, <3>1
  <2> QED
    BY <1>0, <1>3, <1>7, <2>1, <2>2 DEF Progress
<1> QED
  BY <1>4, <1>6, <1>7 DEF Advance

\* The processes a step of p leaves alone.
LEMMA OthersRest ==
    ASSUME TypeOK, NEW p \in Processes, NEW q \in Processes, q # p,
           Start(p) \/ Step(p) \/ DatabaseError(p) \/ Crash(p)
    PROVE  /\ at'[q] = at[q] /\ step'[q] = step[q]
           /\ applied'[q] = applied[q] /\ version'[q] = version[q]
           /\ stmt'[q] = stmt[q]
<1> USE DEF TypeOK
<1>1. CASE Start(p)
  BY <1>1 DEF Start
<1>2. CASE CreateTable(p)
  BY <1>2 DEF CreateTable
<1>3. ASSUME NEW after, NEW found, Advance(p, after, found)
      PROVE  at'[q] = at[q] /\ step'[q] = step[q] /\ version'[q] = version[q]
  BY <1>3 DEF Advance
<1>4. CASE ReadApplied(p)
  BY <1>3, <1>4 DEF ReadApplied
<1>5. CASE Execute(p)
  BY <1>5 DEF Execute, ExecuteSqlite, ExecutePostgres
<1>6. CASE Rejected(p)
  BY <1>6 DEF Rejected
<1>7. CASE Record(p)
  BY <1>3, <1>7 DEF Record
<1>8. CASE DatabaseError(p) \/ Crash(p)
  BY <1>8 DEF DatabaseError, Crash
<1> QED
  BY <1>1, <1>2, <1>4, <1>5, <1>6, <1>7, <1>8 DEF Step

\* Executing statements of the migration p works on grows the schema, in order.
LEMMA ExecuteGrows ==
    ASSUME TypeOK, Ledger, NEW p \in Processes, Execute(p)
    PROVE  /\ version[p] \in Versions
           /\ \A t \in Tables, v \in Versions : schema[t][v] <= schema'[t][v]
           /\ \A t \in Tables, v \in Versions :
                 <<t, v>> # <<Table(p), version[p]>> => schema'[t][v] = schema[t][v]
           /\ ExecuteSqlite(p) => stmt[p] <= schema'[Table(p)][version[p]]
           /\ ExecutePostgres(p) => Statements <= schema'[Table(p)][version[p]]
<1>1. version[p] \in Versions
  BY CurrentEntry DEF Execute, ExecuteSqlite, ExecutePostgres, Ledger, Progress
<1>2. stmt[p] \in 1..Statements /\ Statements \in 1..Statements
  BY MigrationsAssumption DEF TypeOK
<1>3. CASE ExecuteSqlite(p)
  <2>1. Reach(p, stmt[p]) /\ ~ExecutePostgres(p)
    BY <1>3 DEF ExecuteSqlite, ExecutePostgres
  <2> QED
    BY <1>1, <1>2, <2>1, ReachGrows
<1>4. CASE ExecutePostgres(p)
  <2>1. Reach(p, Statements) /\ ~ExecuteSqlite(p)
    BY <1>4 DEF ExecuteSqlite, ExecutePostgres
  <2> QED
    BY <1>1, <1>2, <2>1, ReachGrows
<1> QED
  BY <1>3, <1>4 DEF Execute

\* No step takes a statement back.
LEMMA SchemaGrows ==
    ASSUME TypeOK, Ledger, [Next]_vars
    PROVE  \A t \in Tables, v \in Versions : schema[t][v] <= schema'[t][v]
<1>1. CASE \E p \in Processes : Execute(p)
  BY <1>1, ExecuteGrows
<1>2. CASE UNCHANGED schema
  <2>1. \A t \in Tables, v \in Versions : schema[t][v] \in Nat
    BY MigrationsAssumption DEF TypeOK
  <2> QED
    BY <1>2, <2>1
<1>3. (\E p \in Processes : Execute(p)) \/ UNCHANGED schema
  BY DEF Next, Step, Start, CreateTable, ReadApplied, Rejected, Record,
         DatabaseError, Crash, database, vars
<1> QED
  BY <1>1, <1>2, <1>3

\* Only a migration whose predecessors are complete is executed.
LEMMA OrderStep ==
    ASSUME TypeOK, TypeOK', Ledger, [Next]_vars
    PROVE  ExecutedInOrder'
<1>1. \A t \in Tables, v \in Versions : schema[t][v] <= schema'[t][v]
  BY SchemaGrows
<1> SUFFICES ASSUME NEW t \in Tables, NEW v \in Versions, schema'[t][v] > 0,
                    NEW u \in 1..(v - 1)
             PROVE  Complete(t, u)'
  BY DEF ExecutedInOrder
<1>2. u \in Versions
  BY MigrationsAssumption DEF Versions
<1>3. CASE schema'[t][v] = schema[t][v]
  <2>1. Complete(t, u)
    BY <1>3 DEF Ledger, ExecutedInOrder
  <2> QED
    BY <1>1, <1>2, <2>1, CompleteStays
<1>4. CASE schema'[t][v] # schema[t][v]
  <2>1. PICK p \in Processes : Execute(p)
    BY <1>4 DEF Next, Step, Start, CreateTable, ReadApplied, Rejected, Record,
                DatabaseError, Crash, database, vars
  <2>2. t = Table(p) /\ v = version[p]
    BY <1>4, <2>1, ExecuteGrows
  <2>3. Complete(t, u)
    BY <2>1, <2>2
    DEF Execute, ExecuteSqlite, ExecutePostgres, Ledger, Progress
  <2> QED
    BY <1>1, <1>2, <2>3, CompleteStays
<1> QED
  BY <1>3, <1>4

\* Only a complete migration is recorded.
LEMMA RecordedStep ==
    ASSUME TypeOK, TypeOK', Ledger, [Next]_vars
    PROVE  RecordedIsComplete'
<1>1. \A t \in Tables, v \in Versions : schema[t][v] <= schema'[t][v]
  BY SchemaGrows
<1> SUFFICES ASSUME NEW t \in Tables, NEW v \in recorded'[t]
             PROVE  Complete(t, v)'
  BY DEF RecordedIsComplete
<1>2. v \in Versions
  BY DEF TypeOK
<1>3. CASE v \in recorded[t]
  <2>1. Complete(t, v)
    BY <1>3 DEF Ledger, RecordedIsComplete
  <2> QED
    BY <1>1, <1>2, <2>1, CompleteStays
<1>4. CASE v \notin recorded[t]
  <2>1. PICK p \in Processes : Record(p)
    BY <1>4 DEF Next, Step, Start, CreateTable, ReadApplied, Execute,
                ExecuteSqlite, ExecutePostgres, Rejected,
                DatabaseError, Crash, database, vars
  <2>2. t = Table(p) /\ v = version[p]
    <3>1. recorded' = [recorded EXCEPT ![Table(p)]
                           = recorded[Table(p)] \cup {version[p]}]
      BY <1>4, <2>1 DEF Record
    <3> QED
      BY <1>4, <3>1 DEF TypeOK
  <2>3. Complete(t, v)
    BY <2>1, <2>2 DEF Record, Ledger, Progress
  <2> QED
    BY <1>1, <1>2, <2>3, CompleteStays
<1> QED
  BY <1>3, <1>4

LEMMA ProgressStep ==
    ASSUME TypeOK, TypeOK', Ledger, [Next]_vars, NEW q \in Processes
    PROVE  Progress(q)'
<1>0. /\ \A t \in Tables, v \in Versions : schema[t][v] <= schema'[t][v]
      /\ Progress(q) /\ Table(q) \in Tables
      /\ Statements \in Nat \ {0} /\ Top \in Nat
  BY SchemaGrows, CurrentEntry, MigrationsAssumption DEF Ledger
<1>1. CASE UNCHANGED <<at, step, applied, version, stmt>>
  BY <1>0, <1>1, ProgressFrame
<1>2. ASSUME NEW p \in Processes, p # q,
             Start(p) \/ Step(p) \/ DatabaseError(p) \/ Crash(p)
      PROVE  Progress(q)'
  <2>1. /\ at'[q] = at[q] /\ step'[q] = step[q]
        /\ applied'[q] = applied[q] /\ version'[q] = version[q]
        /\ stmt'[q] = stmt[q]
    BY <1>2, OthersRest
  <2> QED
    BY <1>0, <2>1, ProgressFrame
<1>3. CASE Start(q)
  <2>1. at'[q] = "creating" /\ step'[q] = 1
    BY <1>3 DEF Start, TypeOK
  <2> QED
    BY <2>1 DEF Progress
<1>4. CASE CreateTable(q)
  <2>1. /\ at[q] = "creating" /\ at'[q] = "reading" /\ UNCHANGED <<step, schema>>
    BY <1>4 DEF CreateTable, TypeOK, database
  <2> QED
    BY <1>0, <2>1 DEF Progress, Settled, Complete
<1>5. CASE ReadApplied(q)
  <2> DEFINE found == recorded[Table(q)]
  <2>1. /\ at[q] = "reading" /\ Advance(q, 0, found) /\ UNCHANGED schema
        /\ found \in SUBSET Versions /\ applied'[q] = found /\ stmt'[q] = 1
    BY <1>0, <1>5 DEF ReadApplied, TypeOK, database
  <2>2. \A u \in found : Complete(Table(q), u)
    BY <1>0 DEF Ledger, RecordedIsComplete
  <2>3. \A u \in 1..0 : Complete(Table(q), u)
    OBVIOUS
  <2>4. \A i \in 1..(step[q] - 1) : Settled(q, i)
    BY <1>0, <2>1 DEF Progress
  <2> HIDE DEF found
  <2> QED
    BY <1>0, <2>1, <2>2, <2>3, <2>4, AdvanceProgress
<1>6. CASE Execute(q)
  <2>1. /\ at[q] = "executing" /\ at'[q] \in {"executing", "recording"}
        /\ UNCHANGED <<step, applied, version>>
    BY <1>6 DEF Execute, ExecuteSqlite, ExecutePostgres, TypeOK
  <2>2. /\ Table(q)' = Table(q) /\ Files(q)' = Files(q)
        /\ version[q] \in Versions /\ Files(q) \subseteq Versions
        /\ applied[q] \subseteq Versions
        /\ step[q] \in Nat \ {0} /\ step[q] <= Len(Plan[q])
        /\ Len(Plan[q]) \in Nat
        /\ stmt[q] \in 1..Statements
    BY <1>6, <2>1, ExecuteGrows, CurrentEntry DEF Table, Files, TypeOK
  <2>3. \A i \in 1..(step[q] - 1) : Settled(q, i)'
    <3>1. \A i \in 1..(step[q] - 1) : Settled(q, i) /\ i \in 1..Len(Plan[q])
      BY <1>0, <2>1, <2>2 DEF Progress
    <3> QED
      BY <1>0, <3>1, SettledStays
  <2>4. \A u \in applied[q] : Complete(Table(q), u)'
    BY <1>0, <2>1, <2>2, CompleteStays DEF Progress
  <2>5. \A u \in 1..(version[q] - 1) : Complete(Table(q), u)'
    <3>1. \A u \in 1..(version[q] - 1) : u \in Versions
      BY <1>0, <2>2 DEF Versions
    <3> QED
      BY <1>0, <2>1, <2>2, <3>1, CompleteStays DEF Progress
  <2>6. schema'[Table(q)][version[q]] \in 0..Statements
    BY <1>0, <2>2 DEF TypeOK
  <2>7. CASE ExecuteSqlite(q)
    <3>1. stmt[q] <= schema'[Table(q)][version[q]]
      BY <1>6, <2>7, ExecuteGrows
    <3>2. CASE stmt[q] < Statements
      <4>1. stmt'[q] = stmt[q] + 1 /\ at'[q] = "executing"
        BY <2>1, <2>7, <3>2 DEF ExecuteSqlite, TypeOK
      <4>2. stmt'[q] <= schema'[Table(q)][version[q]] + 1
        BY <1>0, <2>2, <2>6, <3>1, <4>1
      <4> QED
        BY <1>0, <2>1, <2>2, <2>3, <2>4, <2>5, <4>1, <4>2 DEF Progress
    <3>3. CASE ~(stmt[q] < Statements)
      <4>1. stmt'[q] = stmt[q]
        BY <2>7, <3>3 DEF ExecuteSqlite
      <4>2. /\ Complete(Table(q), version[q])'
            /\ stmt'[q] <= schema'[Table(q)][version[q]] + 1
        BY <1>0, <2>1, <2>2, <2>6, <3>1, <3>3, <4>1 DEF Complete
      <4> QED
        BY <1>0, <2>1, <2>2, <2>3, <2>4, <2>5, <4>1, <4>2 DEF Progress
    <3> QED
      BY <3>2, <3>3
  <2>8. CASE ExecutePostgres(q)
    <3>1. Statements <= schema'[Table(q)][version[q]] /\ stmt'[q] = stmt[q]
      BY <1>6, <2>8, ExecuteGrows DEF ExecutePostgres
    <3>2. /\ Complete(Table(q), version[q])'
          /\ stmt'[q] <= schema'[Table(q)][version[q]] + 1
      BY <1>0, <2>1, <2>2, <2>6, <3>1 DEF Complete
    <3> QED
      BY <1>0, <2>1, <2>2, <2>3, <2>4, <2>5, <3>1, <3>2 DEF Progress
  <2> QED
    BY <1>6, <2>7, <2>8 DEF Execute
<1>7. CASE Rejected(q) \/ DatabaseError(q) \/ Crash(q)
  <2>1. at'[q] \in {"failed", "down"}
    BY <1>7 DEF Rejected, DatabaseError, Crash, TypeOK
  <2> QED
    BY <2>1 DEF Progress
<1>8. CASE Record(q)
  <2>1. CASE version[q] \in recorded[Table(q)]
    <3>1. at'[q] = "failed"
      BY <1>8, <2>1 DEF Record, TypeOK
    <3> QED
      BY <3>1 DEF Progress
  <2>2. CASE version[q] \notin recorded[Table(q)]
    <3>1. /\ at[q] = "recording" /\ Advance(q, version[q], applied[q])
          /\ UNCHANGED <<schema, applied>> /\ stmt'[q] = 1
      BY <1>8, <2>2 DEF Record, TypeOK
    <3>2. /\ version[q] \in 0..Top /\ applied[q] \in SUBSET Versions
          /\ applied'[q] = applied[q]
      BY <3>1 DEF TypeOK
    <3>3. /\ \A u \in applied[q] : Complete(Table(q), u)
          /\ \A i \in 1..(step[q] - 1) : Settled(q, i)
          /\ \A u \in 1..(version[q] - 1) : Complete(Table(q), u)
          /\ Complete(Table(q), version[q])
      BY <1>0, <3>1 DEF Progress
    <3>4. \A u \in 1..version[q] : u \in 1..(version[q] - 1) \/ u = version[q]
      BY <1>0, <3>2
    <3>5. \A u \in 1..version[q] : Complete(Table(q), u)
      BY <3>3, <3>4
    <3> QED
      BY <3>1, <3>2, <3>3, <3>5, AdvanceProgress
  <2> QED
    BY <2>1, <2>2
<1>9. CASE UNCHANGED vars
  BY <1>1, <1>9 DEF vars
<1> QED
  BY <1>2, <1>3, <1>4, <1>5, <1>6, <1>7, <1>8, <1>9 DEF Next, Step

-----------------------------------------------------------------------------
(* Theorems *)

LEMMA LedgerInvariant == Spec => [](TypeOK /\ Ledger)
<1>1. Init => TypeOK /\ Ledger
  <2> SUFFICES ASSUME Init PROVE TypeOK /\ Ledger
    OBVIOUS
  <2>1. TypeOK
    BY MigrationsAssumption DEF Init, TypeOK, Stages, Working
  <2>2. RecordedIsComplete
    BY DEF Init, RecordedIsComplete
  <2>3. ExecutedInOrder
    BY DEF Init, ExecutedInOrder
  <2>4. \A p \in Processes : Progress(p)
    BY DEF Init, Progress
  <2> QED
    BY <2>1, <2>2, <2>3, <2>4 DEF Ledger
<1>2. TypeOK /\ Ledger /\ [Next]_vars => (TypeOK /\ Ledger)'
  <2> SUFFICES ASSUME TypeOK, Ledger, [Next]_vars PROVE TypeOK' /\ Ledger'
    OBVIOUS
  <2>1. TypeOK'
    BY TypeStep
  <2>2. RecordedIsComplete' /\ ExecutedInOrder'
    BY <2>1, RecordedStep, OrderStep
  <2>3. \A p \in Processes : Progress(p)'
    BY <2>1, ProgressStep
  <2> QED
    BY <2>1, <2>2, <2>3 DEF Ledger
<1> QED
  BY <1>1, <1>2, PTL DEF Spec

\* The variables keep their types.
THEOREM MigrationsTypeCorrect == Spec => []TypeOK
  BY LedgerInvariant, PTL

\* No tracking table ever names a migration that was not executed to its end,
\* for any number of processes, tables, files and faults, on both backends.
THEOREM RecordsAreHonest == Spec => []RecordedIsComplete
<1>1. Ledger => RecordedIsComplete
  BY DEF Ledger
<1> QED
  BY <1>1, LedgerInvariant, PTL

\* No statement runs before all the files that precede its own are complete.
THEOREM FilesRunInOrder == Spec => []ExecutedInOrder
<1>1. Ledger => ExecutedInOrder
  BY DEF Ledger
<1> QED
  BY <1>1, LedgerInvariant, PTL

\* A process that became ready has executed every file of its plan.
THEOREM ReadyMeansMigrated == Spec => []ReadyIsMigrated
<1>1. Ledger => ReadyIsMigrated
  BY DEF Ledger, Progress, Settled, ReadyIsMigrated
<1> QED
  BY <1>1, LedgerInvariant, PTL
=============================================================================
