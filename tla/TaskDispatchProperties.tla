------------------------ MODULE TaskDispatchProperties ------------------------
(***************************************************************************)
(* What TaskDispatch is meant to guarantee: that a task is in one pair of  *)
(* hands at a time, what its stored result is, how many tasks a fault can  *)
(* lose, that calls are answered by their own replies, and what poisons    *)
(* the request queue.                                                      *)
(***************************************************************************)
EXTENDS TaskDispatch

-------------------------------------------------------------------------------
(* Custody. *)

\* Where t is on its way: in the reply being prepared, in a reply queue, with a
\* worker, or in a returned result.
AtServer(t) == {<<"server">> : x \in {reply} \cap {t}}
InReplies(t) == UNION {{<<"reply", w, i>> : i \in {j \in DOMAIN replyQueue[w] :
                                                   replyQueue[w][j].body = t}} : w \in Workers}
AtWorkers(t) == {<<"worker", w>> : w \in {v \in Workers : inHand[v] = t}}
InReturns(t) == {<<"return", i>> : i \in {j \in DOMAIN rpcQueue : rpcQueue[j].content = t}}
Custody(t) == AtServer(t) \cup InReplies(t) \cup AtWorkers(t) \cup InReturns(t)

\* A task is in one place at a time, and nowhere before it is handed out, although
\* requests are delivered again after a stop (RPCServer.run acknowledges after it
\* has published) and replies to old calls stay in the reply queues.
SingleCustody ==
  \A t \in Tasks :
    /\ \A p, q \in Custody(t) : p = q
    /\ state[t] \in {"ABSENT", "PENDING"} => Custody(t) = {}

\* No task begins to execute twice, whatever stops, crashes or is redelivered:
\* getNextPending marks it SENT for good.  One whose row is still PENDING was not
\* executed at all: no execution goes ahead of the commit that marks its row.
AtMostOnceExecution ==
  \A t \in Tasks :
    /\ Len(executions[t]) <= 1
    /\ state[t] \in {"ABSENT", "PENDING"} => executions[t] = <<>>

\* The stored result of a complete task is the one its only execution produced,
\* even when the return is delivered and saved again; no other row holds a result.
ResultAttribution ==
  \A t \in Tasks :
    /\ state[t] = "COMPLETE" => \E w \in Workers : /\ executions[t] = <<w>>
                                                   /\ returnData[t] = Output(t, w)
    /\ state[t] # "COMPLETE" => returnData[t] = Nothing

\* A SENT task that is nowhere will never be handed out again.
Lost == {t \in Tasks : state[t] = "SENT" /\ Custody(t) = {}}

\* Each fault strands at most one task in SENT: a crash takes the one in the
\* worker's hands, a stop the one whose reply was not published or is published
\* to a call that was answered before (RPCServer.java:134-141).
LossBudget == Cardinality(Lost) <= faults

\* A complete task stays complete with the result it has, and no row goes back to
\* an earlier state: CompleteTask overwrites the row without looking at it.
Rank == [s \in {"ABSENT", "PENDING", "SENT", "COMPLETE"} |->
          CASE s = "ABSENT" -> 0 [] s = "PENDING" -> 1 [] s = "SENT" -> 2 [] OTHER -> 3]
ResultsStand ==
  [][\A t \in Tasks : /\ Rank[state'[t]] >= Rank[state[t]]
                      /\ state[t] = "COMPLETE" => returnData'[t] = returnData[t]]_vars

-------------------------------------------------------------------------------
(* Calls. *)

Asks(w, c) == \E i \in DOMAIN rpcQueue : rpcQueue[i].from = w /\ rpcQueue[i].corrId = c
Answered(w, c) == \E i \in DOMAIN replyQueue[w] : replyQueue[w][i].corrId = c

\* The reply that a waiting worker would take for its own answers the kind of call
\* it made.
OwnReplyMatches(w) ==
  \A i \in DOMAIN replyQueue[w] :
    replyQueue[w][i].corrId = corrId[w] =>
      /\ workerPc[w] = "awaitTask" => replyQueue[w][i].body \in Tasks \cup {NOTASK}
      /\ workerPc[w] = "awaitReturn" => replyQueue[w][i].body = Accepted

\* A worker that waits has its request in the queue or its reply in its own queue,
\* for the server acknowledges a request only after it has published the reply; and
\* what it takes for its reply is one, although replies to redelivered requests are
\* queued with it.  Of a live worker's earlier calls at most one still has messages
\* about, so a second id is all a new call needs (the bound on CorrIds hides nothing).
CallsAreAnswered ==
  \A w \in Workers :
    /\ Awaiting(w) => Asks(w, corrId[w]) \/ Answered(w, corrId[w])
    /\ OwnReplyMatches(w)
    /\ workerPc[w] # "dead" => Cardinality(IdsInUse(w) \ {corrId[w]}) <= 1

-------------------------------------------------------------------------------
(* The poison message. *)

Poisoned == rpcQueue # <<>> /\ Head(rpcQueue).content = Undecodable

\* A returned payload that does not decode ends the service: it stays first in the
\* queue through every restart of the broker, no task is handed out and no result
\* is stored any more (RPCServer.java:169-174).
PoisonBlocks ==
  [][Poisoned => /\ Poisoned'
                 /\ returnData' = returnData
                 /\ \A t \in Tasks : state'[t] # state[t] => state[t] = "ABSENT"]_vars

-------------------------------------------------------------------------------
(* Progress. *)

\* As long as nothing fails, every task that is inserted is executed and its result
\* stored: again and again no row is on its way (no row goes back, and there are
\* finitely many).
EveryTaskCompletes ==
  [](faults = 0) => []<>(\A t \in Tasks : state[t] \in {"ABSENT", "COMPLETE"})

\* Whatever stops or crashes, the calls of a live worker return, although call() has
\* no timeout (RPCClient.java:87-93), and as long as it lives no task stays PENDING.
\* Only the call that RabbitMQ drops never returns (CallBeforeQueueExists); it takes
\* no task along, so the other worker goes on.
ServiceGoesOn ==
  \A w \in Workers :
    []<>(/\ ~Awaiting(w)
         /\ workerPc[w] \notin {"dead", "hung"} => \A t \in Tasks : state[t] # "PENDING")

-------------------------------------------------------------------------------
(* The contract: messages, correlation ids and the server's thread are hidden. *)

Contract == INSTANCE TaskContract WITH
              pool <- {t \in Tasks : state[t] = "PENDING"},
              taken <- {t \in Tasks : state[t] \in {"SENT", "COMPLETE"}},
              runs <- executions,
              stored <- returnData

\* The dispatcher implements the contract in spite of every fault modelled.
Implements == Contract!Spec
===============================================================================
