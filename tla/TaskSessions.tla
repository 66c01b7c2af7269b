----------------------------- MODULE TaskSessions -----------------------------
(***************************************************************************)
(* The web side of the broker: the servlets that insert tasks (Broker.java)*)
(* and report on them (Results.java), run by a pool of container threads,  *)
(* each with a Hibernate session of its own that is kept between requests  *)
(* (DAO.java).  A session returns the entity it has already loaded for a   *)
(* row, whatever the row has become since; a read that fails leaves its    *)
(* transaction active, which makes the next begin() of that thread fail;   *)
(* only a failing write replaces the session.                              *)
(*                                                                         *)
(* What becomes of a row once it is inserted is TaskContract's business,   *)
(* which TaskDispatch implements.                                          *)
(***************************************************************************)
EXTENDS Naturals, Sequences, FiniteSets

CONSTANTS Tasks, Workers, Nothing,   \* as in TaskContract
          Threads,    \* the threads of the servlet container
          MaxBatch,   \* bound: the numtasks of a request
          MaxFaults   \* bound: how many database operations fail

\* A UUID is a string of a fixed length, so that there are only so many tasks.
ASSUME SessionsAssumption == /\ IsFiniteSet(Tasks)
                             /\ MaxBatch \in Nat \ {0}
                             /\ MaxFaults \in Nat
                             /\ Nothing \notin {"PENDING", "SENT", "COMPLETE"}

VARIABLES
  pool, taken, runs, stored,   \* of TaskContract: the table of tasks and the dispatcher
  loaded,     \* loaded[h][t]: State of the entity for t in h's session, or Nothing
  active,     \* active[h]: a transaction of h's session was left active
  threadPc,   \* what h is doing
  left,       \* left[h]: the tasks its request has still to insert
  uuids,      \* uuids[h]: UUIDList, the tasks its request has inserted
  reported,   \* the tasks whose UUID a response has named
  seen,       \* seen[t]: the last answer to a poll for t
  faults      \* faults so far

table == <<pool, taken, runs, stored>>
session == <<loaded, active>>
request == <<threadPc, left, uuids>>
vars == <<table, session, request, reported, seen, faults>>

Dispatcher == INSTANCE TaskContract

\* The row of t, or Nothing.
Row(t) == CASE t \in pool -> "PENDING"
            [] t \in taken /\ stored[t] = Nothing -> "SENT"
            [] t \in taken /\ stored[t] # Nothing -> "COMPLETE"
            [] OTHER -> Nothing

TypeOK ==
  /\ loaded \in [Threads -> [Tasks -> {Nothing, "PENDING", "SENT", "COMPLETE"}]]
  /\ active \in [Threads -> BOOLEAN]
  /\ threadPc \in [Threads -> {"free", "inserting", "listing"}]
  /\ left \in [Threads -> SUBSET Tasks]
  /\ uuids \in [Threads -> SUBSET Tasks]
  /\ reported \subseteq Tasks
  /\ seen \in [Tasks -> {"none", "0", "200", "500"}]
  /\ faults \in 0 .. MaxFaults

NoEntities == [t \in Tasks |-> Nothing]

Init ==
  /\ Dispatcher!Init
  /\ loaded = [h \in Threads |-> NoEntities]
  /\ active = [h \in Threads |-> FALSE]
  /\ threadPc = [h \in Threads |-> "free"]
  /\ left = [h \in Threads |-> {}]
  /\ uuids = [h \in Threads |-> {}]
  /\ reported = {}
  /\ seen = [t \in Tasks |-> "none"]
  /\ faults = 0

DatabaseFault == /\ faults < MaxFaults
                 /\ faults' = faults + 1

-------------------------------------------------------------------------------
(* The sessions. *)

\* Variant: the threads share one session.
SharedEntity(h, t) ==
  LET having == {k \in Threads : loaded[k][t] # Nothing} IN
    IF having # {} THEN loaded[CHOOSE k \in having : TRUE][t] ELSE Row(t)

\* What a query that selects t gives h: the entity it has, or else the row.
Entity(h, t) == IF loaded[h][t] # Nothing THEN loaded[h][t] ELSE Row(t)

\* The entities h's session holds after a query that selects the rows of ts.
Loads(h, ts) == loaded' = [loaded EXCEPT ![h] = [t \in Tasks |->
                              IF t \in ts THEN Entity(h, t) ELSE @[t]]]

\* begin() throws: "nested transactions not supported".
BeginFails(h) == active[h] /\ UNCHANGED <<session, faults>>

\* A read fails, and get(), getByUUID() and list() do not roll back.
ReadFails(h) == \/ BeginFails(h)
                \/ /\ ~active[h]
                   /\ DatabaseFault
                   /\ active' = [active EXCEPT ![h] = TRUE]
                   /\ UNCHANGED loaded

\* Variant: the session goes on with the entities it could not insert.
WriteFailsKeepingSession(h) ==
  /\ DatabaseFault
  /\ loaded' = [loaded EXCEPT ![h] = [t \in Tasks |-> IF t \in left[h] THEN "PENDING" ELSE @[t]]]
  /\ UNCHANGED active

\* A write fails: rollback() closes the session and forgets it.
WriteFails(h) == /\ \/ active[h] /\ UNCHANGED faults
                    \/ ~active[h] /\ DatabaseFault
                 /\ loaded' = [loaded EXCEPT ![h] = NoEntities]
                 /\ active' = [active EXCEPT ![h] = FALSE]

-------------------------------------------------------------------------------
(* Broker.doPost. *)

\* Tasks no UUID of a row or of a request in progress stands for.
Fresh == Tasks \ (pool \cup taken \cup UNION {left[h] : h \in Threads})

\* The request parses; those that do not change nothing.  Which random UUIDs its
\* numtasks tasks will get is settled here.
doPost(h) ==
  /\ threadPc[h] = "free"
  /\ \E batch \in SUBSET Fresh : /\ Cardinality(batch) <= MaxBatch
                                 /\ left' = [left EXCEPT ![h] = batch]
  /\ threadPc' = [threadPc EXCEPT ![h] = "inserting"]
  /\ UNCHANGED <<table, session, uuids, reported, seen, faults>>

\* Variant: the UUIDs are listed before the inserts.
InsertTaskListingAll(h, t) ==
  /\ threadPc[h] = "inserting"
  /\ t \in left[h]
  /\ ~active[h]
  /\ Dispatcher!Submit(t)
  /\ loaded' = [loaded EXCEPT ![h][t] = "PENDING"]
  /\ left' = [left EXCEPT ![h] = @ \ {t}]
  /\ uuids' = [uuids EXCEPT ![h] = @ \cup left[h]]
  /\ UNCHANGED <<active, threadPc, reported, seen, faults>>

\* Variant: the UUID is not listed.
InsertTaskUnlisted(h, t) ==
  /\ threadPc[h] = "inserting"
  /\ t \in left[h]
  /\ ~active[h]
  /\ Dispatcher!Submit(t)
  /\ loaded' = [loaded EXCEPT ![h][t] = "PENDING"]
  /\ left' = [left EXCEPT ![h] = @ \ {t}]
  /\ UNCHANGED <<active, threadPc, uuids, reported, seen, faults>>

\* One turn of the loop, one transaction: create() leaves the entity in the session.
insertTask(h, t) ==
  /\ threadPc[h] = "inserting"
  /\ t \in left[h]
  /\ ~active[h]
  /\ Dispatcher!Submit(t)
  /\ loaded' = [loaded EXCEPT ![h][t] = "PENDING"]
  /\ left' = [left EXCEPT ![h] = @ \ {t}]
  /\ uuids' = [uuids EXCEPT ![h] = @ \cup {t}]
  /\ UNCHANGED <<active, threadPc, reported, seen, faults>>

\* Variant: UUIDList outlives the request.
InsertFailsKeepingList(h) ==
  /\ threadPc[h] = "inserting"
  /\ left[h] # {}
  /\ WriteFails(h)
  /\ threadPc' = [threadPc EXCEPT ![h] = "free"]
  /\ left' = [left EXCEPT ![h] = {}]
  /\ UNCHANGED <<table, uuids, reported, seen>>

\* The answer is an error page; UUIDList is gone, the rows it names are not.
InsertFails(h) ==
  /\ threadPc[h] = "inserting"
  /\ left[h] # {}
  /\ WriteFails(h)
  /\ threadPc' = [threadPc EXCEPT ![h] = "free"]
  /\ left' = [left EXCEPT ![h] = {}]
  /\ uuids' = [uuids EXCEPT ![h] = {}]
  /\ UNCHANGED <<table, reported, seen>>

writeResponse(h) ==
  /\ threadPc[h] = "inserting"
  /\ left[h] = {}
  /\ reported' = reported \cup uuids[h]
  /\ uuids' = [uuids EXCEPT ![h] = {}]
  /\ threadPc' = [threadPc EXCEPT ![h] = "listing"]
  /\ UNCHANGED <<table, session, left, seen, faults>>

\* td.list() after the response, its result unused: the session now holds every row.
ListAfterPost(h) ==
  /\ threadPc[h] = "listing"
  /\ \/ ~active[h] /\ Loads(h, Tasks) /\ UNCHANGED <<active, faults>>
     \/ ReadFails(h)
  /\ threadPc' = [threadPc EXCEPT ![h] = "free"]
  /\ UNCHANGED <<table, left, uuids, reported, seen>>

-------------------------------------------------------------------------------
(* Results.doGet. *)

\* Variant: an unfinished entity is reported like a finished one.
GetJsonOfAnyState(h, t) ==
  /\ threadPc[h] = "free"
  /\ ~active[h]
  /\ Loads(h, {t})
  /\ seen' = [seen EXCEPT ![t] = IF Entity(h, t) = Nothing THEN "0" ELSE "200"]
  /\ UNCHANGED <<table, active, request, reported, faults>>

\* Variant: the State column is the answer.
GetJsonOfState(h, t) ==
  /\ threadPc[h] = "free"
  /\ ~active[h]
  /\ Loads(h, {t})
  /\ seen' = [seen EXCEPT ![t] = Entity(h, t)]
  /\ UNCHANGED <<table, active, request, reported, faults>>

\* action=byid: "0" without a row, and an error page as long as the entity has no
\* ReturnDataType.
getJsonByID(h, t) ==
  /\ threadPc[h] = "free"
  /\ ~active[h]
  /\ Loads(h, {t})
  /\ seen' = [seen EXCEPT ![t] = CASE Entity(h, t) = Nothing -> "0"
                                   [] Entity(h, t) = "COMPLETE" -> "200"
                                   [] OTHER -> "500"]
  /\ UNCHANGED <<table, active, request, reported, faults>>

GetByIDFails(h, t) ==
  /\ threadPc[h] = "free"
  /\ ReadFails(h)
  /\ seen' = [seen EXCEPT ![t] = "500"]
  /\ UNCHANGED <<table, request, reported>>

\* action=file: another read of one row; what it answers is a download.
getFile(h, t) ==
  /\ threadPc[h] = "free"
  /\ \/ ~active[h] /\ Loads(h, {t}) /\ UNCHANGED <<active, faults>>
     \/ ReadFails(h)
  /\ UNCHANGED <<table, request, reported, seen>>

\* action=json and action=results: one query for all the rows.
getAll(h) ==
  /\ threadPc[h] = "free"
  /\ \/ ~active[h] /\ Loads(h, Tasks) /\ UNCHANGED <<active, faults>>
     \/ ReadFails(h)
  /\ UNCHANGED <<table, request, reported, seen>>

-------------------------------------------------------------------------------

\* The dispatcher, as TaskContract describes it.
Dispatch(t) == /\ \/ Dispatcher!HandOut(t)
                  \/ \E w \in Workers : Dispatcher!Run(t, w)
                  \/ Dispatcher!Store(t)
               /\ UNCHANGED <<session, request, reported, seen, faults>>

Post(h) == \/ doPost(h) \/ InsertFails(h) \/ writeResponse(h) \/ ListAfterPost(h)
           \/ \E t \in Tasks : insertTask(h, t)
Poll(h, t) == getJsonByID(h, t) \/ GetByIDFails(h, t)

Next == \/ \E h \in Threads : \/ Post(h) \/ getAll(h)
                              \/ \E t \in Tasks : Poll(h, t) \/ getFile(h, t)
        \/ \E t \in Tasks : Dispatch(t)

Spec == Init /\ [][Next]_vars

\* Requests end, the dispatcher does its work, and the clients of a task poll for it
\* again and again: every thread of the container gets to answer them.
FairSpec == /\ Spec
            /\ \A h \in Threads : WF_vars(Post(h) /\ ~doPost(h))
            /\ \A t \in Tasks : /\ WF_vars(Dispatch(t))
                                /\ \A h \in Threads : SF_vars(Poll(h, t))
===============================================================================
