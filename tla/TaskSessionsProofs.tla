-------------------------- MODULE TaskSessionsProofs --------------------------
(***************************************************************************)
(* What the servlets tell their clients, for every number of tasks,        *)
(* container threads, batches and failures of the database.                *)
(***************************************************************************)
EXTENDS TaskSessionsProperties, FiniteSetTheorems, TLAPS

(* The inductive invariant. *)

\* The rows, as far as the dispatcher's contract settles them.
Rows ==
  /\ pool \subseteq Tasks /\ taken \subseteq Tasks /\ pool \cap taken = {}
  /\ stored \in [Tasks -> {Nothing} \cup {Dispatcher!Output(t, w) : t \in Tasks, w \in Workers}]

\* What a request has inserted and has still to insert are two parts of its batch, and
\* nothing of either is left once its response is written.
Requests ==
  \A h \in Threads :
    /\ threadPc[h] # "inserting" => left[h] = {} /\ uuids[h] = {}
    /\ left[h] \cap uuids[h] = {}
    /\ Cardinality(left[h] \cup uuids[h]) <= MaxBatch

IInv == TypeOK /\ Rows /\ Requests /\ BatchesAreReported /\ SessionsLag
-------------------------------------------------------------------------------
(* The table. *)

States == {Nothing, "PENDING", "SENT", "COMPLETE"}

LEMMA StageValues ==
  /\ Stage(Nothing) = 0 /\ Stage("PENDING") = 1 /\ Stage("SENT") = 2 /\ Stage("COMPLETE") = 3
  /\ \A s \in States : /\ Stage(s) \in 0 .. 3
                       /\ Stage(s) = 0 <=> s = Nothing
                       /\ Stage(s) = 3 <=> s = "COMPLETE"
BY SessionsAssumption DEF Stage, States

\* A row by where its task is.
RowByTable == \A t \in Tasks :
  /\ Row(t) \in States
  /\ Row(t) = Nothing <=> t \notin Inserted
  /\ t \in pool => Row(t) = "PENDING"
  /\ t \in taken => Row(t) = IF stored[t] = Nothing THEN "SENT" ELSE "COMPLETE"

LEMMA RowValues == Rows => RowByTable
<1> SUFFICES ASSUME Rows, NEW t \in Tasks
             PROVE  /\ Row(t) \in States
                    /\ Row(t) = Nothing <=> t \notin Inserted
                    /\ t \in pool => Row(t) = "PENDING"
                    /\ t \in taken => Row(t) = IF stored[t] = Nothing THEN "SENT" ELSE "COMPLETE"
  BY DEF RowByTable
<1> USE SessionsAssumption DEF Rows, Row, States, Inserted
<1>1. CASE t \in pool
  BY <1>1
<1>2. CASE t \in taken /\ stored[t] = Nothing
  BY <1>2
<1>3. CASE t \in taken /\ stored[t] # Nothing
  BY <1>3
<1>4. CASE t \notin pool \cup taken
  BY <1>4
<1>5. QED
  BY <1>1, <1>2, <1>3, <1>4

\* What a step may do to the table.
TableStep == \/ UNCHANGED table
             \/ \E t \in Tasks : \/ Dispatcher!Submit(t)
                                 \/ Dispatcher!HandOut(t)
                                 \/ \E w \in Workers : Dispatcher!Run(t, w)
                                 \/ Dispatcher!Store(t)

\* A row is there for good, and its state only advances.
LEMMA RowsAdvance ==
  ASSUME Rows, TableStep
  PROVE  /\ Rows'
         /\ Inserted \subseteq Inserted'
         /\ \A t \in Tasks : Stage(Row(t)) <= Stage(Row(t)')
<1>1. Rows' /\ Inserted \subseteq Inserted'
  <2> USE DEF Rows, Inserted
  <2>1. CASE UNCHANGED table
    BY <2>1 DEF table
  <2>2. ASSUME NEW t \in Tasks, Dispatcher!Submit(t) PROVE Rows' /\ Inserted \subseteq Inserted'
    BY <2>2 DEF Dispatcher!Submit
  <2>3. ASSUME NEW t \in Tasks, Dispatcher!HandOut(t) PROVE Rows' /\ Inserted \subseteq Inserted'
    BY <2>3 DEF Dispatcher!HandOut
  <2>4. ASSUME NEW t \in Tasks, NEW w \in Workers, Dispatcher!Run(t, w)
        PROVE  Rows' /\ Inserted \subseteq Inserted'
    BY <2>4 DEF Dispatcher!Run
  <2>5. ASSUME NEW t \in Tasks, Dispatcher!Store(t) PROVE Rows' /\ Inserted \subseteq Inserted'
    BY <2>5 DEF Dispatcher!Store
  <2>6. QED
    BY <2>1, <2>2, <2>3, <2>4, <2>5 DEF TableStep
<1>2. RowByTable /\ RowByTable'
  <2>1. RowByTable
    BY RowValues
  <2>2. Rows' => RowByTable'
    BY RowValues, PTL
  <2>3. QED
    BY <1>1, <2>1, <2>2
<1>3. ASSUME NEW t \in Tasks PROVE Stage(Row(t)) <= Stage(Row(t)')
  <2> USE StageValues, <1>2 DEF RowByTable
  <2>1. CASE t \notin Inserted
    BY <2>1
  <2>2. CASE t \in pool
    <3>1. t \in pool' \/ t \in taken'
      BY <1>1, <2>2 DEF Inserted
    <3>2. Row(t)' # Nothing
      BY <3>1 DEF Inserted
    <3>3. QED
      BY <2>2, <3>2
  <2>3. CASE t \in taken
    <3>1. t \in taken' /\ (stored[t] # Nothing => stored'[t] = stored[t])
      BY <2>3 DEF TableStep, table, Rows, Dispatcher!Submit, Dispatcher!HandOut, Dispatcher!Run,
                  Dispatcher!Store
    <3>2. QED
      BY <2>3, <3>1
  <2>4. QED
    BY <2>1, <2>2, <2>3 DEF Inserted
<1>4. QED
  BY <1>1, <1>3
LEMMA StepsOfTable == [Next]_vars => TableStep
<1> SUFFICES ASSUME [Next]_vars PROVE TableStep
  OBVIOUS
<1> USE DEF TableStep
<1>1. ASSUME NEW h \in Threads, Post(h) PROVE TableStep
  BY <1>1 DEF Post, doPost, InsertFails, writeResponse, ListAfterPost, insertTask
<1>2. ASSUME NEW h \in Threads, NEW t \in Tasks, Poll(h, t) \/ getFile(h, t) PROVE TableStep
  BY <1>2 DEF Poll, getJsonByID, GetByIDFails, getFile
<1>3. ASSUME NEW h \in Threads, getAll(h) PROVE TableStep
  BY <1>3 DEF getAll
<1>4. ASSUME NEW t \in Tasks, Dispatch(t) PROVE TableStep
  BY <1>4 DEF Dispatch
<1>5. CASE UNCHANGED vars
  BY <1>5 DEF vars
<1>6. QED
  BY <1>1, <1>2, <1>3, <1>4, <1>5 DEF Next

-------------------------------------------------------------------------------
(* The sessions. *)

\* What the entity for t in h's session may be after a step.
EntityStep(h, t) == \/ loaded'[h][t] \in {loaded[h][t], Row(t), Nothing}
                    \/ loaded'[h][t] = "PENDING" /\ t \in Inserted'

EntitySteps == /\ loaded' \in [Threads -> [Tasks -> States]]
               /\ \A h \in Threads, t \in Tasks : EntityStep(h, t)

LEMMA SameEntities ==
  ASSUME TypeOK, UNCHANGED loaded PROVE EntitySteps
BY DEF TypeOK, EntitySteps, EntityStep, States

LEMMA NoEntitiesLeft ==
  ASSUME TypeOK, NEW h \in Threads, loaded' = [loaded EXCEPT ![h] = NoEntities] PROVE EntitySteps
BY DEF TypeOK, EntitySteps, EntityStep, States, NoEntities

LEMMA LoadedEntities ==
  ASSUME TypeOK, Rows, NEW h \in Threads, NEW ts, Loads(h, ts) PROVE EntitySteps
<1>1. \A t \in Tasks : Row(t) \in States
  BY RowValues DEF RowByTable
<1>2. QED
  BY <1>1 DEF TypeOK, EntitySteps, EntityStep, States, Loads, Entity

LEMMA StepsOfSessions ==
  ASSUME TypeOK, Rows, [Next]_vars PROVE EntitySteps
<1>1. ASSUME NEW h \in Threads, NEW t \in Tasks, insertTask(h, t) PROVE EntitySteps
  <2>1. t \in Inserted'
    BY <1>1 DEF insertTask, Dispatcher!Submit, Inserted
  <2>2. QED
    BY <1>1, <2>1 DEF insertTask, TypeOK, EntitySteps, EntityStep, States
<1>2. ASSUME NEW h \in Threads, doPost(h) \/ writeResponse(h) PROVE EntitySteps
  BY <1>2, SameEntities DEF doPost, writeResponse, session
<1>3. ASSUME NEW h \in Threads, InsertFails(h) PROVE EntitySteps
  BY <1>3, NoEntitiesLeft DEF InsertFails, WriteFails
<1>4. ASSUME NEW h \in Threads, ListAfterPost(h) \/ getAll(h) PROVE EntitySteps
  BY <1>4, SameEntities, LoadedEntities DEF ListAfterPost, getAll, ReadFails, BeginFails, session
<1>5. ASSUME NEW h \in Threads, NEW t \in Tasks, Poll(h, t) \/ getFile(h, t) PROVE EntitySteps
  BY <1>5, SameEntities, LoadedEntities
     DEF Poll, getJsonByID, GetByIDFails, getFile, ReadFails, BeginFails, session
<1>6. ASSUME NEW t \in Tasks, Dispatch(t) PROVE EntitySteps
  BY <1>6, SameEntities DEF Dispatch, session
<1>7. CASE UNCHANGED vars
  BY <1>7, SameEntities DEF vars, session
<1>8. QED
  BY <1>1, <1>2, <1>3, <1>4, <1>5, <1>6, <1>7 DEF Next, Post

LEMMA StepSessionsLag ==
  ASSUME TypeOK, Rows, SessionsLag, [Next]_vars PROVE SessionsLag'
<1> SUFFICES ASSUME NEW h \in Threads, NEW t \in Tasks
             PROVE  Stage(loaded'[h][t]) <= Stage(Row(t)')
  BY DEF SessionsLag
<1>1. TableStep
  BY StepsOfTable
<1>2. Rows' /\ Stage(Row(t)) <= Stage(Row(t)')
  BY <1>1, RowsAdvance
<1>3. RowByTable /\ RowByTable'
  <2>1. RowByTable
    BY RowValues
  <2>2. Rows' => RowByTable'
    BY RowValues, PTL
  <2>3. QED
    BY <1>2, <2>1, <2>2
<1>4. EntityStep(h, t)
  BY StepsOfSessions DEF EntitySteps
<1>5. CASE loaded'[h][t] \in {loaded[h][t], Row(t), Nothing}
  <2>1. Row(t) \in States /\ Row(t)' \in States /\ loaded[h][t] \in States
    BY <1>3 DEF RowByTable, TypeOK, States
  <2>2. Stage(loaded[h][t]) <= Stage(Row(t))
    BY DEF SessionsLag
  <2>3. QED
    BY <1>2, <1>5, <2>1, <2>2, StageValues
<1>6. CASE loaded'[h][t] = "PENDING" /\ t \in Inserted'
  <2>1. Row(t)' \in States /\ Row(t)' # Nothing
    BY <1>3, <1>6 DEF RowByTable
  <2>2. QED
    BY <1>6, <2>1, StageValues
<1>7. QED
  BY <1>4, <1>5, <1>6 DEF EntityStep

\* A read that fails uses up a fault at most and settles what becomes of its transaction.
LEMMA FailedReadTypes ==
  ASSUME TypeOK, NEW h \in Threads, ReadFails(h)
  PROVE  active' \in [Threads -> BOOLEAN] /\ faults' \in 0 .. MaxFaults
<1>1. CASE BeginFails(h)
  BY <1>1 DEF TypeOK, BeginFails, session
<1>2. CASE ~BeginFails(h)
  <2>1. active' = [active EXCEPT ![h] = TRUE] /\ DatabaseFault
    BY <1>2 DEF ReadFails
  <2>2. active' \in [Threads -> BOOLEAN]
    BY <2>1 DEF TypeOK
  <2>3. faults' \in 0 .. MaxFaults
    BY <2>1, SessionsAssumption DEF TypeOK, DatabaseFault
  <2>4. QED
    BY <2>2, <2>3
<1>3. QED
  BY <1>1, <1>2

LEMMA StepTypes ==
  ASSUME TypeOK, Rows, [Next]_vars PROVE TypeOK'
<1> USE SessionsAssumption DEF TypeOK
<1>1. loaded' \in [Threads -> [Tasks -> {Nothing, "PENDING", "SENT", "COMPLETE"}]]
  BY StepsOfSessions DEF EntitySteps, States
<1>2. ASSUME NEW h \in Threads, doPost(h) PROVE TypeOK'
  BY <1>1, <1>2 DEF doPost, session, Fresh
<1>3. ASSUME NEW h \in Threads, InsertFails(h) PROVE TypeOK'
  BY <1>1, <1>3 DEF InsertFails, WriteFails, DatabaseFault
<1>4. ASSUME NEW h \in Threads, writeResponse(h) PROVE TypeOK'
  BY <1>1, <1>4 DEF writeResponse, session
<1>5. ASSUME NEW h \in Threads, ListAfterPost(h) PROVE TypeOK'
  BY <1>1, <1>5, FailedReadTypes DEF ListAfterPost
<1>6. ASSUME NEW h \in Threads, NEW t \in Tasks, insertTask(h, t) PROVE TypeOK'
  BY <1>1, <1>6 DEF insertTask
<1>7. ASSUME NEW h \in Threads, NEW t \in Tasks, getJsonByID(h, t) PROVE TypeOK'
  BY <1>1, <1>7 DEF getJsonByID, request
<1>8. ASSUME NEW h \in Threads, NEW t \in Tasks, GetByIDFails(h, t) PROVE TypeOK'
  BY <1>1, <1>8, FailedReadTypes DEF GetByIDFails, request
<1>9. ASSUME NEW h \in Threads, NEW t \in Tasks, getFile(h, t) PROVE TypeOK'
  BY <1>1, <1>9, FailedReadTypes DEF getFile, request
<1>10. ASSUME NEW h \in Threads, getAll(h) PROVE TypeOK'
  BY <1>1, <1>10, FailedReadTypes DEF getAll, request
<1>11. ASSUME NEW t \in Tasks, Dispatch(t) PROVE TypeOK'
  BY <1>1, <1>11 DEF Dispatch, session, request
<1>12. CASE UNCHANGED vars
  BY <1>12 DEF vars, session, request
<1>13. QED
  BY <1>2, <1>3, <1>4, <1>5, <1>6, <1>7, <1>8, <1>9, <1>10, <1>11, <1>12 DEF Next, Post, Poll

-------------------------------------------------------------------------------
(* The requests. *)

\* Nothing of a batch is lost or counted twice while it is inserted.
LEMMA StepRequests ==
  ASSUME TypeOK, Requests, BatchesAreReported, [Next]_vars PROVE Requests'
<1> USE DEF TypeOK, Requests
<1>1. CASE UNCHANGED request
  BY <1>1 DEF request
<1>2. ASSUME NEW h \in Threads, doPost(h) PROVE Requests'
  <2>1. PICK batch \in SUBSET Fresh : /\ Cardinality(batch) <= MaxBatch
                                      /\ left' = [left EXCEPT ![h] = batch]
    BY <1>2 DEF doPost
  <2>2. uuids[h] = {} /\ batch \cup {} = batch
    BY <1>2 DEF doPost
  <2>3. QED
    BY <1>2, <2>1, <2>2 DEF doPost
<1>3. ASSUME NEW h \in Threads, InsertFails(h) PROVE Requests'
  <2>1. Cardinality({} \cup {}) <= MaxBatch
    BY SessionsAssumption, FS_EmptySet
  <2>2. QED
    BY <1>3, <2>1 DEF InsertFails
<1>4. ASSUME NEW h \in Threads, writeResponse(h) PROVE Requests'
  <2>1. Cardinality({} \cup {}) <= MaxBatch
    BY SessionsAssumption, FS_EmptySet
  <2>2. QED
    BY <1>4, <2>1 DEF writeResponse
<1>5. ASSUME NEW h \in Threads, ListAfterPost(h) PROVE Requests'
  BY <1>5 DEF ListAfterPost
<1>6. ASSUME NEW h \in Threads, NEW t \in Tasks, insertTask(h, t) PROVE Requests'
  <2>1. left[h] \cup uuids[h] = left'[h] \cup uuids'[h] /\ left'[h] \cap uuids'[h] = {}
    BY <1>6 DEF insertTask
  <2>2. QED
    BY <1>6, <2>1 DEF insertTask
<1>7. QED
  BY <1>1, <1>2, <1>3, <1>4, <1>5, <1>6
     DEF Next, Post, Poll, getJsonByID, GetByIDFails, getFile, getAll, Dispatch, vars
-------------------------------------------------------------------------------
(* The reports. *)

\* A step that leaves no more tasks unreported keeps their bound, whatever fails in it.
LEMMA NoMoreUnreported ==
  ASSUME IInv, Rows', TypeOK', faults <= faults', Unreported' \subseteq Unreported
  PROVE  Cardinality(Unreported') <= faults' * (MaxBatch - 1)
<1>1. Unreported \subseteq Tasks
  BY DEF Unreported, Inserted, IInv, Rows
<1>2. IsFiniteSet(Unreported) /\ IsFiniteSet(Unreported')
  BY <1>1, SessionsAssumption, FS_Subset
<1>3. Cardinality(Unreported') <= Cardinality(Unreported)
  BY <1>2, FS_Subset
<1>4. Cardinality(Unreported) \in Nat /\ Cardinality(Unreported') \in Nat
  BY <1>2, FS_CardinalityType
<1>5. faults \in Nat /\ faults' \in Nat /\ MaxBatch - 1 \in Nat
  BY SessionsAssumption DEF IInv, TypeOK
<1>6. faults * (MaxBatch - 1) <= faults' * (MaxBatch - 1)
  BY <1>5
<1>7. Cardinality(Unreported) <= faults * (MaxBatch - 1)
  BY DEF IInv, BatchesAreReported
<1>8. QED
  BY <1>3, <1>4, <1>5, <1>6, <1>7

\* A request that fails leaves behind what it has inserted: less than its batch.
LEMMA FailedBatch ==
  ASSUME IInv, Rows', TypeOK', NEW h \in Threads, InsertFails(h)
  PROVE  Cardinality(Unreported') <= faults' * (MaxBatch - 1)
<1>1. Unreported' \subseteq Unreported \cup uuids[h]
  BY DEF InsertFails, table, Unreported, Inserted, Listed, IInv, TypeOK
<1>2. CASE active[h]
  <2>1. uuids[h] = {}
    BY <1>2 DEF IInv, BatchesAreReported
  <2>2. faults' = faults
    BY <1>2 DEF InsertFails, WriteFails
  <2>3. QED
    BY <1>1, <2>1, <2>2, NoMoreUnreported DEF IInv, TypeOK
<1>3. CASE ~active[h]
  <2>1. faults' = faults + 1
    BY <1>3 DEF InsertFails, WriteFails, DatabaseFault
  <2>2. Unreported \subseteq Tasks /\ uuids[h] \subseteq Tasks /\ left[h] \subseteq Tasks
    BY DEF Unreported, Inserted, IInv, Rows, TypeOK
  <2>3. /\ IsFiniteSet(Unreported) /\ IsFiniteSet(uuids[h]) /\ IsFiniteSet(left[h] \cup uuids[h])
        /\ IsFiniteSet(Unreported \cup uuids[h]) /\ IsFiniteSet(Unreported')
    BY <1>1, <2>2, SessionsAssumption, FS_Subset
  <2>4. Cardinality(uuids[h]) <= MaxBatch - 1
    <3>1. PICK t \in left[h] : t \notin uuids[h]
      BY DEF InsertFails, IInv, Requests
    <3>2. Cardinality(uuids[h] \cup {t}) = Cardinality(uuids[h]) + 1
      BY <2>3, <3>1, FS_AddElement
    <3>3. Cardinality(uuids[h] \cup {t}) <= Cardinality(left[h] \cup uuids[h])
      BY <2>3, <3>1, FS_Subset
    <3>4. Cardinality(left[h] \cup uuids[h]) <= MaxBatch
      BY DEF IInv, Requests
    <3>5. Cardinality(uuids[h]) \in Nat /\ Cardinality(left[h] \cup uuids[h]) \in Nat
      BY <2>3, FS_CardinalityType
    <3>6. QED
      BY <3>2, <3>3, <3>4, <3>5, SessionsAssumption
  <2>5. Cardinality(Unreported') <= Cardinality(Unreported) + Cardinality(uuids[h])
    <3>1. Cardinality(Unreported') <= Cardinality(Unreported \cup uuids[h])
      BY <1>1, <2>3, FS_Subset
    <3>2. Cardinality(Unreported \cup uuids[h]) <= Cardinality(Unreported) + Cardinality(uuids[h])
      <4>1. /\ Cardinality(Unreported \cup uuids[h]) =
                 Cardinality(Unreported) + Cardinality(uuids[h])
                   - Cardinality(Unreported \cap uuids[h])
            /\ IsFiniteSet(Unreported \cap uuids[h])
        BY <2>3, FS_Union, FS_Intersection
      <4>2. /\ Cardinality(Unreported) \in Nat /\ Cardinality(uuids[h]) \in Nat
            /\ Cardinality(Unreported \cap uuids[h]) \in Nat
        BY <2>3, <4>1, FS_CardinalityType
      <4>3. QED
        BY <4>1, <4>2
    <3>3. QED
      BY <2>3, <3>1, <3>2, FS_CardinalityType
  <2>6. Cardinality(Unreported) <= faults * (MaxBatch - 1)
    BY DEF IInv, BatchesAreReported
  <2>7. faults \in Nat /\ MaxBatch - 1 \in Nat
    BY SessionsAssumption DEF IInv, TypeOK
  <2>8. (faults + 1) * (MaxBatch - 1) = faults * (MaxBatch - 1) + (MaxBatch - 1)
    BY <2>7
  <2>9. /\ Cardinality(Unreported) \in Nat /\ Cardinality(uuids[h]) \in Nat
        /\ Cardinality(Unreported') \in Nat /\ faults * (MaxBatch - 1) \in Nat
    BY <2>3, <2>7, FS_CardinalityType
  <2>10. QED
    BY <2>1, <2>4, <2>5, <2>6, <2>7, <2>8, <2>9
<1>4. QED
  BY <1>2, <1>3
\* A UUID is listed once its row is there, and rows stay.
LEMMA ReportsHaveRows ==
  ASSUME IInv, [Next]_vars, Inserted \subseteq Inserted'
  PROVE  reported' \cup Listed' \subseteq Inserted'
<1> USE DEF IInv, TypeOK, BatchesAreReported, Listed
<1>1. CASE UNCHANGED <<uuids, reported>>
  BY <1>1
<1>2. ASSUME NEW h \in Threads, NEW t \in Tasks, insertTask(h, t)
      PROVE  reported' \cup Listed' \subseteq Inserted'
  <2>1. t \in Inserted' /\ Listed' \subseteq Listed \cup {t} /\ reported' = reported
    BY <1>2 DEF insertTask, Dispatcher!Submit, Inserted
  <2>2. QED
    BY <2>1
<1>3. ASSUME NEW h \in Threads, InsertFails(h) PROVE reported' \cup Listed' \subseteq Inserted'
  <2>1. Listed' \subseteq Listed /\ reported' = reported
    BY <1>3 DEF InsertFails
  <2>2. QED
    BY <2>1
<1>4. ASSUME NEW h \in Threads, writeResponse(h) PROVE reported' \cup Listed' \subseteq Inserted'
  <2>1. Listed' \subseteq Listed /\ reported' \subseteq reported \cup Listed
    BY <1>4 DEF writeResponse
  <2>2. QED
    BY <2>1
<1>5. QED
  BY <1>1, <1>2, <1>3, <1>4
     DEF Next, Post, Poll, doPost, ListAfterPost, getJsonByID, GetByIDFails, getFile, getAll,
         Dispatch, vars, request

\* Only a request that fails takes UUIDs off its list before they are reported.
LEMMA StepUnreported ==
  ASSUME IInv, [Next]_vars, \A h \in Threads : ~InsertFails(h)
  PROVE  Unreported' \subseteq Unreported /\ faults <= faults'
<1> DEFINE Fewer == Unreported' \subseteq Unreported /\ faults <= faults'
<1> USE DEF IInv, TypeOK, Unreported, Listed, Inserted
<1>1. ASSUME NEW h \in Threads, NEW t \in Tasks, insertTask(h, t) PROVE Fewer
  <2>1. /\ Inserted' = Inserted \cup {t} /\ t \in Listed'
        /\ Listed \subseteq Listed' /\ reported' = reported
    BY <1>1 DEF insertTask, Dispatcher!Submit
  <2>2. faults' = faults
    BY <1>1 DEF insertTask
  <2>3. QED
    BY <2>1, <2>2
<1>2. ASSUME NEW h \in Threads, writeResponse(h) PROVE Fewer
  <2>1. Inserted' = Inserted /\ faults' = faults
    BY <1>2 DEF writeResponse, table, session
  <2>2. reported \cup Listed \subseteq reported' \cup Listed'
    BY <1>2 DEF writeResponse
  <2>3. QED
    BY <2>1, <2>2
<1>3. ASSUME NEW t \in Tasks, Dispatch(t) PROVE Fewer
  <2>1. Inserted' \subseteq Inserted
    BY <1>3 DEF Dispatch, Dispatcher!HandOut, Dispatcher!Run, Dispatcher!Store
  <2>2. UNCHANGED <<uuids, reported, faults>>
    BY <1>3 DEF Dispatch, request
  <2>3. QED
    BY <2>1, <2>2
<1>4. ASSUME UNCHANGED <<table, uuids, reported>>, faults' = faults \/ DatabaseFault PROVE Fewer
  BY <1>4 DEF table, DatabaseFault
<1>5. QED
  BY <1>1, <1>2, <1>3, <1>4
     DEF Next, Post, Poll, doPost, ListAfterPost, getJsonByID, GetByIDFails, getFile, getAll,
         ReadFails, BeginFails, vars, request

\* A transaction is left active by reads, between requests.
LEMMA StepActive ==
  ASSUME IInv, [Next]_vars, NEW h \in Threads, active'[h] PROVE uuids'[h] = {}
<1> USE DEF IInv, TypeOK, BatchesAreReported, Requests
<1>1. CASE UNCHANGED <<active, uuids>>
  BY <1>1
<1>2. ASSUME NEW k \in Threads, NEW t \in Tasks, insertTask(k, t) PROVE uuids'[h] = {}
  BY <1>2 DEF insertTask
<1>3. ASSUME NEW k \in Threads, InsertFails(k) PROVE uuids'[h] = {}
  BY <1>3 DEF InsertFails, WriteFails
<1>4. ASSUME NEW k \in Threads, writeResponse(k) PROVE uuids'[h] = {}
  BY <1>4 DEF writeResponse, session
<1>5. ASSUME NEW k \in Threads, threadPc[k] # "inserting", ReadFails(k), UNCHANGED uuids
      PROVE  uuids'[h] = {}
  BY <1>5 DEF ReadFails, BeginFails, session
<1>6. QED
  BY <1>1, <1>2, <1>3, <1>4, <1>5
     DEF Next, Post, Poll, doPost, ListAfterPost, getJsonByID, GetByIDFails, getFile, getAll,
         Dispatch, vars, request, session

-------------------------------------------------------------------------------

LEMMA InitInv == Init => IInv
<1> SUFFICES ASSUME Init PROVE IInv
  OBVIOUS
<1> USE SessionsAssumption DEF Init
<1>1. TypeOK
  BY DEF TypeOK, NoEntities
<1>2. Rows
  BY DEF Rows, Dispatcher!Init
<1>3. Requests
  BY FS_EmptySet DEF Requests
<1>4. BatchesAreReported
  <2>1. Unreported = {} /\ reported \cup Listed \subseteq Inserted
    BY DEF Unreported, Inserted, Listed, Dispatcher!Init
  <2>2. Cardinality(Unreported) = 0
    BY <2>1, FS_EmptySet
  <2>3. QED
    BY <2>1, <2>2 DEF BatchesAreReported
<1>5. SessionsLag
  <2>1. \A t \in Tasks : Row(t) = Nothing
    BY <1>2, RowValues DEF RowByTable, Inserted, Dispatcher!Init
  <2>2. QED
    BY <2>1, StageValues DEF SessionsLag, NoEntities
<1>6. QED
  BY <1>1, <1>2, <1>3, <1>4, <1>5 DEF IInv

LEMMA StepInv == IInv /\ [Next]_vars => IInv'
<1> SUFFICES ASSUME IInv, [Next]_vars PROVE IInv'
  OBVIOUS
<1>1. Rows' /\ Inserted \subseteq Inserted'
  BY StepsOfTable, RowsAdvance DEF IInv
<1>2. TypeOK'
  BY StepTypes DEF IInv
<1>3. Requests'
  BY StepRequests DEF IInv
<1>4. BatchesAreReported'
  <2>1. reported' \cup Listed' \subseteq Inserted'
    BY <1>1, ReportsHaveRows
  <2>2. Cardinality(Unreported') <= faults' * (MaxBatch - 1)
    BY <1>1, <1>2, FailedBatch, StepUnreported, NoMoreUnreported
  <2>3. \A h \in Threads : active'[h] => uuids'[h] = {}
    BY StepActive
  <2>4. QED
    BY <2>1, <2>2, <2>3 DEF BatchesAreReported
<1>5. SessionsLag'
  BY StepSessionsLag DEF IInv
<1>6. QED
  BY <1>1, <1>2, <1>3, <1>4, <1>5 DEF IInv

\* The invariant above holds of every state, whatever requests the threads serve and
\* whatever fails in between (DAO.java:34-96, Broker.java:172-192).
THEOREM Invariance == Spec => []IInv
<1>1. Init => IInv
  BY InitInv
<1>2. IInv /\ [Next]_vars => IInv'
  BY StepInv
<1>3. QED
  BY <1>1, <1>2, PTL DEF Spec

-------------------------------------------------------------------------------
(* The properties. *)

\* The state of the sessions and of the requests has its types (DAO.java:34-96).
THEOREM TypeCorrect == Spec => []TypeOK
<1>1. IInv => TypeOK
  BY DEF IInv
<1>2. QED
  BY <1>1, Invariance, PTL

\* A UUID that is named, or is about to be, has its row, and each failure of the
\* database costs less than a batch of them (Broker.java:172-192).
THEOREM BatchesAreReportedHolds == Spec => []BatchesAreReported
<1>1. IInv => BatchesAreReported
  BY DEF IInv
<1>2. QED
  BY <1>1, Invariance, PTL

\* No session is ahead of the table (TaskDAO.java:44-47, 143-151).
THEOREM SessionsLagHolds == Spec => []SessionsLag
<1>1. IInv => SessionsLag
  BY DEF IInv
<1>2. QED
  BY <1>1, Invariance, PTL

\* What a step may answer.
SoundAnswers ==
  \A t \in Tasks : seen'[t] # seen[t] =>
    /\ seen'[t] = "200" => Row(t) = "COMPLETE"
    /\ seen'[t] = "0" => t \notin reported

LEMMA StepAnswers == IInv /\ [Next]_vars => [SoundAnswers]_vars
<1> SUFFICES ASSUME IInv, [Next]_vars, NEW t \in Tasks, seen'[t] # seen[t]
             PROVE  /\ seen'[t] = "200" => Row(t) = "COMPLETE"
                    /\ seen'[t] = "0" => t \notin reported
  BY DEF SoundAnswers
<1> USE SessionsAssumption DEF IInv, TypeOK
<1>1. \/ \E h \in Threads : getJsonByID(h, t)
      \/ seen'[t] = "500"
  BY DEF Next, Post, Poll, doPost, InsertFails, writeResponse, ListAfterPost, insertTask,
         getJsonByID,
         GetByIDFails, getFile, getAll, Dispatch, vars
<1>2. ASSUME NEW h \in Threads, getJsonByID(h, t)
      PROVE  /\ seen'[t] = "200" => Row(t) = "COMPLETE"
             /\ seen'[t] = "0" => t \notin reported
  <2>1. /\ Row(t) \in States /\ (Row(t) = Nothing <=> t \notin Inserted)
        /\ loaded[h][t] \in States /\ Stage(loaded[h][t]) <= Stage(Row(t))
    BY RowValues DEF RowByTable, States, SessionsLag
  <2>2. seen'[t] = CASE Entity(h, t) = Nothing -> "0"
                     [] Entity(h, t) = "COMPLETE" -> "200"
                     [] OTHER -> "500"
    BY <1>2 DEF getJsonByID
  <2>3. seen'[t] = "200" => Entity(h, t) = "COMPLETE"
    BY <2>2
  <2>4. seen'[t] = "0" => Entity(h, t) = Nothing
    BY <2>2
  <2>5. Entity(h, t) = "COMPLETE" => Row(t) = "COMPLETE"
    BY <2>1, StageValues DEF Entity
  <2>6. Entity(h, t) = Nothing => t \notin Inserted
    BY <2>1 DEF Entity
  <2>7. QED
    BY <2>3, <2>4, <2>5, <2>6 DEF BatchesAreReported
<1>3. QED
  BY <1>1, <1>2

\* An answer with a result is given of a complete task only, and "0" of none that a
\* response has named, whichever thread answers (Results.java:139-173).
THEOREM AnswersAreSoundHolds == Spec => AnswersAreSound
<1>1. IInv /\ [Next]_vars => [SoundAnswers]_vars
  BY StepAnswers
<1>2. QED
  BY <1>1, Invariance, PTL DEF Spec, AnswersAreSound, SoundAnswers
===============================================================================
