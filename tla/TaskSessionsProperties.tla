------------------------ MODULE TaskSessionsProperties ------------------------
(***************************************************************************)
(* What the responses of the broker tell its clients, and what failures of *)
(* the database do to the sessions of the container's threads.             *)
(***************************************************************************)
EXTENDS TaskSessions

Inserted == pool \cup taken
Listed == UNION {uuids[h] : h \in Threads}

\* What is reported and what is inserted, each insert being a transaction of its own
\* that may fail (Broker.java:172-192): a UUID that is named in a response, or is about
\* to be, is that of a row.  Tasks that will be executed without a client knowing their
\* UUID come from batches that failed part of the way, and each failure of the
\* database leaves at most one batch less one task of them: for a transaction that
\* a failed read left active costs a whole request, never part of one.
Unreported == Inserted \ (reported \cup Listed)
BatchesAreReported ==
  /\ reported \cup Listed \subseteq Inserted
  /\ Cardinality(Unreported) <= faults * (MaxBatch - 1)
  /\ \A h \in Threads : active[h] => uuids[h] = {}

\* A session may lag behind the table, but holds no entity without a row and none
\* ahead of its row: a failed create() leaves nothing behind (TaskDAO.java:44-47).
Stage(s) == CASE s = Nothing -> 0 [] s = "PENDING" -> 1 [] s = "SENT" -> 2 [] s = "COMPLETE" -> 3
SessionsLag == \A h \in Threads, t \in Tasks : Stage(loaded[h][t]) <= Stage(Row(t))

\* An answer with a result is given only of a complete task, and "0" never of a task
\* that a response has named before, whichever thread answers.
AnswersAreSound ==
  [][\A t \in Tasks : seen'[t] # seen[t] => /\ seen'[t] = "200" => Row(t) = "COMPLETE"
                                            /\ seen'[t] = "0" => t \notin reported]_vars

\* As long as the database answers, whoever polls learns that a task has completed if
\* some thread has not had it in its session before.
FreshSessionShowsCompletion ==
  \A t \in Tasks : (stored[t] # Nothing /\ \E h \in Threads : loaded[h][t] = Nothing)
                     ~> seen[t] = "200"

\* "Execution status can be polled and monitored via HTTP requests" (README.md:15):
\* who polls for a task that has completed learns it in the end.
PollingShowsCompletion == \A t \in Tasks : stored[t] # Nothing ~> seen[t] = "200"
===============================================================================
