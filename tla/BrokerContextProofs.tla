-------------------------- MODULE BrokerContextProofs --------------------------
(***************************************************************************)
(* Proofs about BrokerContext, for any number of deployments, rows and     *)
(* failures.                                                               *)
(***************************************************************************)
EXTENDS BrokerContextProperties, TLAPS

Server == "rpcServer"

\* Nothing exists of the deployments to come, and the listener is at work for a real one.
Ahead == /\ pc # "undeployed" => current > 0
         /\ \A d \in Deployments, p \in Parts :
              d > current => channel[p][d] = "none" /\ thread[p][d] = "none"

\* The threads start in order, after both calls of init().
Starting ==
  /\ pc = "startServer" => thread["receiver"][current] # "none"
  /\ pc \in {"initReceiver", "initServer", "startReceiver", "startServer"} =>
       thread[Server][current] = "none"

\* A Receiver that has not been stopped has its channel, or has failed.
ReceiverUp ==
  pc \in {"initServer", "startReceiver", "startServer", "deployed", "stopReceiver"} =>
    channel["receiver"][current] = "open" \/ Lost("receiver", current)

\* Part p of d is behind its call of stopRunning(), made or not.
Behind(p, d) ==
  Over(d) \/ (/\ d = current
              /\ pc \in {"joinReceiver", "joinServer"} \cup
                        (IF p = "receiver" THEN {"stopServer"} ELSE {}))

ReceiverStopped ==
  \A d \in Deployments : Behind("receiver", d) => <<"receiver", d>> \notin keepRunning

ServerStopped ==
  \A d \in Deployments : Behind(Server, d) =>
    \/ channel[Server][d] # "open" /\ <<Server, d>> \notin keepRunning
    \/ Lost("receiver", d)

\* Some earlier deployment may have left its server behind.
Cut == \E d \in Deployments : d < current /\ Lost("receiver", d)

Holds(d) == thread[Server][d] \in {"found", "saved"} /\ inHand[d] \in Tasks

Untouched == \A t \in Tasks : row[t] = "PENDING" => handed[t] = 0
SavedFirst == \A d \in Deployments :
                thread[Server][d] = "saved" /\ inHand[d] \in Tasks => row[inHand[d]] = "SENT"
InHandNotHanded ==
  Cut \/ \A d \in Deployments :
           channel[Server][d] = "open" /\ Holds(d) => handed[inHand[d]] = 0
HandedOnce == Cut \/ \A t \in Tasks : handed[t] <= 1

\* The same of a server that has not been stopped.
ServerUp ==
  pc \in {"startReceiver", "startServer", "deployed", "stopReceiver", "stopServer"} =>
    channel[Server][current] = "open" \/ Lost(Server, current)

\* The server's thread is joined after the Receiver's.
ReceiverJoined == pc = "joinServer" => thread["receiver"][current] = "ended"

Context == TypeOK /\ Ahead /\ Starting /\ ReceiverUp /\ ReceiverStopped /\ ServerStopped
Rows == Untouched /\ SavedFirst /\ InHandNotHanded /\ HandedOnce
Joins == ServerUp /\ ReceiverJoined /\ StoppedAndJoined
IInv == Context /\ Rows

-------------------------------------------------------------------------------
(* Start and stop. *)

\* The listener is at work for a deployment, and current is a number.
LEMMA CurrentType ==
  ASSUME TypeOK, Ahead
  PROVE  /\ current \in Nat
         /\ pc # "undeployed" => current \in Deployments
         /\ \A d \in Deployments : d \in Nat /\ d > 0
  BY ContextAssumption DEF TypeOK, Ahead, Deployments

LEMMA InitContext == Init => Context
<1> SUFFICES ASSUME Init PROVE Context
  OBVIOUS
<1>1. current = 0 /\ pc = "undeployed"
  BY DEF Init
<1>2. \A d \in Deployments : d \in Nat /\ d > 0
  BY ContextAssumption DEF Deployments
<1>3. TypeOK
  BY ContextAssumption DEF Init, TypeOK, Everywhere, Parts, Deployments
<1>4. Ahead
  BY <1>1 DEF Init, Ahead, Everywhere
<1>5. Starting /\ ReceiverUp
  BY <1>1 DEF Starting, ReceiverUp
<1>6. ReceiverStopped /\ ServerStopped
  BY <1>1, <1>2 DEF ReceiverStopped, ServerStopped, Behind, Over
<1> QED
  BY <1>3, <1>4, <1>5, <1>6 DEF Context

\* A deployment begins.
LEMMA DeployContext ==
  ASSUME Context, contextInitialized
  PROVE  Context'
<1> USE DEF Context
<1>0. /\ current \in Nat
      /\ pc # "undeployed" => current \in Deployments
      /\ \A d \in Deployments : d \in Nat /\ d > 0
  BY CurrentType
<1>1. "receiver" \in Parts /\ Server \in Parts
  BY DEF Parts, Server
<1>2. current + 1 \in Deployments /\ current' = current + 1
  BY <1>0, ContextAssumption DEF contextInitialized, Deployments
<1>3. current' \in 0 .. MaxDeployments
  BY <1>0, <1>2, ContextAssumption DEF Deployments
<1>4. TypeOK'
  BY <1>0, <1>1, <1>2, <1>3 DEF TypeOK, contextInitialized, threads
<1>5. Ahead'
  BY <1>0, <1>1, <1>2, <1>3 DEF Ahead, contextInitialized, threads
<1>6. Starting'
  BY <1>0, <1>1, <1>2, <1>3 DEF Starting, contextInitialized, threads, Server, Ahead
<1>7. ReceiverUp'
  BY <1>0, <1>1, <1>2, <1>3 DEF ReceiverUp, contextInitialized, threads, Lost
<1>8. ReceiverStopped'
  BY <1>0, <1>1, <1>2, <1>3 DEF ReceiverStopped, contextInitialized, threads, Behind, Over
<1>9. ServerStopped'
  BY <1>0, <1>1, <1>2, <1>3
  DEF ServerStopped, contextInitialized, threads, Behind, Over, Lost, Server
<1> QED
  BY <1>4, <1>5, <1>6, <1>7, <1>8, <1>9

\* Its end begins.
LEMMA DestroyContext ==
  ASSUME Context, contextDestroyed
  PROVE  Context'
<1> USE DEF Context
<1>0. /\ current \in Nat
      /\ pc # "undeployed" => current \in Deployments
      /\ \A d \in Deployments : d \in Nat /\ d > 0
  BY CurrentType
<1>1. "receiver" \in Parts /\ Server \in Parts
  BY DEF Parts, Server
<1>2. TypeOK'
  BY <1>0, <1>1 DEF TypeOK, contextDestroyed, threads
<1>3. Ahead'
  BY <1>0, <1>1 DEF Ahead, contextDestroyed, threads
<1>4. Starting'
  BY <1>0, <1>1 DEF Starting, contextDestroyed, threads, Server
<1>5. ReceiverUp'
  BY <1>0, <1>1 DEF ReceiverUp, contextDestroyed, threads, Lost
<1>6. ReceiverStopped'
  BY <1>0, <1>1 DEF ReceiverStopped, contextDestroyed, threads, Behind, Over
<1>7. ServerStopped'
  BY <1>0, <1>1 DEF ServerStopped, contextDestroyed, threads, Behind, Over, Lost, Server
<1> QED
  BY <1>2, <1>3, <1>4, <1>5, <1>6, <1>7

\* init() of a part.
LEMMA InitPartContext ==
  ASSUME Context, NEW p \in Parts, init(p)
  PROVE  Context'
<1> USE DEF Context
<1>0. /\ current \in Nat
      /\ pc # "undeployed" => current \in Deployments
      /\ \A d \in Deployments : d \in Nat /\ d > 0
  BY CurrentType
<1>1. "receiver" \in Parts /\ Server \in Parts
  BY DEF Parts, Server
<1>2. current \in Deployments
  BY <1>0 DEF init, InitPc, Parts
<1>3. /\ channel' \in [Parts -> [Deployments -> {"none", "open", "closed"}]]
      /\ \A q \in Parts, e \in Deployments :
           channel'[q][e] = IF q = p /\ e = current THEN "open" ELSE channel[q][e]
  BY <1>2 DEF With, init, TypeOK
<1>4. /\ consumer' \in [Parts -> [Deployments -> {"none", "deaf", "subscribed"}]]
      /\ \A q \in Parts, e \in Deployments :
           consumer'[q][e] = IF q = p /\ e = current THEN "subscribed" ELSE consumer[q][e]
  BY <1>2 DEF With, init, TypeOK
<1>5. UNCHANGED <<current, thread, delivered, inHand, row, handed, failed, faults>>
  BY DEF init, threads
<1>6. pc = InitPc(p) /\ pc' = AfterInit(p) /\ keepRunning' = keepRunning \cup {<<p, current>>}
  BY DEF init
<1>7. TypeOK'
  BY <1>0, <1>1, <1>2, <1>3, <1>4, <1>5, <1>6 DEF TypeOK, InitPc, AfterInit, Parts
<1>8. Ahead'
  <2>1. current' = current /\ current > 0
    BY <1>0, <1>2, <1>5
  <2>2. ASSUME NEW d \in Deployments, NEW q \in Parts, d > current'
        PROVE  channel'[q][d] = "none" /\ thread'[q][d] = "none"
    <3>1. d > current /\ d # current
      BY <1>0, <2>1, <2>2
    <3>2. channel[q][d] = "none" /\ thread[q][d] = "none"
      BY <3>1 DEF Ahead
    <3> QED
      BY <3>1, <3>2, <1>3, <1>5
  <2> QED
    BY <2>1, <2>2 DEF Ahead
<1>9. Starting'
  BY <1>0, <1>1, <1>2, <1>3, <1>4, <1>5, <1>6 DEF Starting, InitPc, AfterInit, Parts, Server
<1>10. ReceiverUp'
  BY <1>0, <1>1, <1>2, <1>3, <1>4, <1>5, <1>6 DEF ReceiverUp, InitPc, AfterInit, Parts, Lost
<1>11. ReceiverStopped'
  BY <1>0, <1>1, <1>2, <1>3, <1>4, <1>5, <1>6
  DEF ReceiverStopped, InitPc, AfterInit, Parts, Behind, Over
<1>12. ServerStopped'
  BY <1>0, <1>1, <1>2, <1>3, <1>4, <1>5, <1>6
  DEF ServerStopped, InitPc, AfterInit, Parts, Behind, Over, Lost, Server
<1> QED
  BY <1>7, <1>8, <1>9, <1>10, <1>11, <1>12

\* init() of a part that fails.
LEMMA InitFailsContext ==
  ASSUME Context, NEW p \in Parts, InitFails(p)
  PROVE  Context'
<1> USE DEF Context
<1>0. /\ current \in Nat
      /\ pc # "undeployed" => current \in Deployments
      /\ \A d \in Deployments : d \in Nat /\ d > 0
  BY CurrentType
<1>1. "receiver" \in Parts /\ Server \in Parts
  BY DEF Parts, Server
<1>2. current \in Deployments
  BY <1>0 DEF InitFails, InitPc, Parts
<1>3. PICK ch \in {"none", "closed"}, co \in {"none", "deaf"} :
        channel' = With(channel, p, current, ch) /\ consumer' = With(consumer, p, current, co)
  BY DEF InitFails
<1>4. /\ channel' \in [Parts -> [Deployments -> {"none", "open", "closed"}]]
      /\ \A q \in Parts, e \in Deployments :
           channel'[q][e] = IF q = p /\ e = current THEN ch ELSE channel[q][e]
  BY <1>2, <1>3 DEF With, TypeOK
<1>5. /\ consumer' \in [Parts -> [Deployments -> {"none", "deaf", "subscribed"}]]
      /\ \A q \in Parts, e \in Deployments :
           consumer'[q][e] = IF q = p /\ e = current THEN co ELSE consumer[q][e]
  BY <1>2, <1>3 DEF With, TypeOK
<1>6. failed' = failed \cup {<<p, current>>} /\ faults' \in 0 .. MaxFaults
  BY ContextAssumption DEF InitFails, Fault, TypeOK
<1>7. UNCHANGED <<current, thread, delivered, inHand, row, handed>>
  BY DEF InitFails, threads
<1>8. pc = InitPc(p) /\ pc' = AfterInit(p) /\ keepRunning' = keepRunning \cup {<<p, current>>}
  BY DEF InitFails
<1>9. TypeOK'
  BY <1>0, <1>1, <1>2, <1>4, <1>5, <1>6, <1>7, <1>8 DEF TypeOK, InitPc, AfterInit, Parts
<1>10. Ahead'
  <2>1. current' = current /\ current > 0
    BY <1>0, <1>2, <1>7
  <2>2. ASSUME NEW d \in Deployments, NEW q \in Parts, d > current'
        PROVE  channel'[q][d] = "none" /\ thread'[q][d] = "none"
    <3>1. d > current /\ d # current
      BY <1>0, <2>1, <2>2
    <3>2. channel[q][d] = "none" /\ thread[q][d] = "none"
      BY <3>1 DEF Ahead
    <3> QED
      BY <3>1, <3>2, <1>4, <1>7
  <2> QED
    BY <2>1, <2>2 DEF Ahead
<1>11. Starting'
  BY <1>0, <1>1, <1>2, <1>4, <1>5, <1>6, <1>7, <1>8
  DEF Starting, InitPc, AfterInit, Parts, Server
<1>12. ReceiverUp'
  BY <1>0, <1>1, <1>2, <1>4, <1>5, <1>6, <1>7, <1>8
  DEF ReceiverUp, InitPc, AfterInit, Parts, Lost
<1>13. ReceiverStopped'
  BY <1>0, <1>1, <1>2, <1>4, <1>5, <1>6, <1>7, <1>8
  DEF ReceiverStopped, InitPc, AfterInit, Parts, Behind, Over
<1>14. ServerStopped'
  BY <1>0, <1>1, <1>2, <1>4, <1>5, <1>6, <1>7, <1>8
  DEF ServerStopped, InitPc, AfterInit, Parts, Behind, Over, Lost, Server
<1> QED
  BY <1>9, <1>10, <1>11, <1>12, <1>13, <1>14

\* A thread is started.
LEMMA StartContext ==
  ASSUME Context, NEW p \in Parts, start(p)
  PROVE  Context'
<1> USE DEF Context
<1>0. /\ current \in Nat
      /\ pc # "undeployed" => current \in Deployments
      /\ \A d \in Deployments : d \in Nat /\ d > 0
  BY CurrentType
<1>1. "receiver" \in Parts /\ Server \in Parts
  BY DEF Parts, Server
<1>2. current \in Deployments
  BY <1>0 DEF start, Parts
<1>3. /\ thread' \in [Parts -> [Deployments ->
                        {"none", "check", "waiting", "asked", "found", "saved", "ended"}]]
      /\ \A q \in Parts, e \in Deployments :
           thread'[q][e] = IF q = p /\ e = current THEN "check" ELSE thread[q][e]
  BY <1>2 DEF With, start, TypeOK
<1>4. TypeOK'
  BY <1>0, <1>1, <1>2, <1>3 DEF TypeOK, start, Parts, Starting, Server
<1>5. Ahead'
  BY <1>0, <1>1, <1>2, <1>3 DEF Ahead, start
<1>6. Starting'
  BY <1>0, <1>1, <1>2, <1>3 DEF Starting, start, Parts, Server
<1>7. ReceiverUp'
  BY <1>0, <1>1, <1>2, <1>3 DEF ReceiverUp, start, Parts, Lost
<1>8. ReceiverStopped'
  BY <1>0, <1>1, <1>2, <1>3 DEF ReceiverStopped, start, Parts, Behind, Over
<1>9. ServerStopped'
  BY <1>0, <1>1, <1>2, <1>3 DEF ServerStopped, start, Parts, Behind, Over, Lost, Server
<1> QED
  BY <1>4, <1>5, <1>6, <1>7, <1>8, <1>9

\* stopRunning(), which may cut the stop short.
LEMMA StopContext ==
  ASSUME Context, NEW p \in Parts, stopRunning(p)
  PROVE  Context'
<1> USE DEF Context
<1>0. /\ current \in Nat
      /\ pc # "undeployed" => current \in Deployments
      /\ \A d \in Deployments : d \in Nat /\ d > 0
  BY CurrentType
<1>1. "receiver" \in Parts /\ Server \in Parts
  BY DEF Parts, Server
<1>2. current \in Deployments
  BY <1>0 DEF stopRunning, StopPc, Parts
<1>3. /\ channel' \in [Parts -> [Deployments -> {"none", "open", "closed"}]]
      /\ channel'[p][current] # "open"
      /\ \A q \in Parts, e \in Deployments :
           q # p \/ e # current => channel'[q][e] = channel[q][e]
  <2>1. CASE channel[p][current] = "open"
    <3>1. channel' = With(channel, p, current, "closed")
      BY <2>1 DEF stopRunning
    <3> QED
      BY <1>2, <3>1 DEF With, TypeOK
  <2>2. CASE channel[p][current] # "open"
    BY <1>2, <2>2 DEF stopRunning, TypeOK
  <2> QED
    BY <2>1, <2>2
<1>4. \A e \in Deployments : e > current => channel'[p][e] = channel[p][e]
  BY <1>0, <1>2, <1>3
<1>5. TypeOK'
  BY <1>0, <1>1, <1>2, <1>3, <1>4 DEF TypeOK, stopRunning, StopPc, AfterStop, Parts, threads
<1>6. Ahead'
  BY <1>0, <1>1, <1>2, <1>3, <1>4 DEF Ahead, stopRunning, StopPc, AfterStop, Parts, threads
<1>7. Starting'
  BY <1>0, <1>1, <1>2, <1>3, <1>4
  DEF Starting, stopRunning, StopPc, AfterStop, Parts, threads, Server
<1>8. ReceiverUp'
  BY <1>0, <1>1, <1>2, <1>3, <1>4
  DEF ReceiverUp, stopRunning, StopPc, AfterStop, Parts, threads, Lost
<1>9. ReceiverStopped'
  BY <1>0, <1>1, <1>2, <1>3, <1>4
  DEF ReceiverStopped, stopRunning, StopPc, AfterStop, Parts, threads, Behind, Over
<1>10. ServerStopped'
  BY <1>0, <1>1, <1>2, <1>3, <1>4
  DEF ServerStopped, stopRunning, StopPc, AfterStop, Parts, threads, Behind, Over, Lost,
      Server, ReceiverUp
<1> QED
  BY <1>5, <1>6, <1>7, <1>8, <1>9, <1>10

\* A thread is joined.
LEMMA JoinContext ==
  ASSUME Context, NEW p \in Parts, join(p)
  PROVE  Context'
<1> USE DEF Context
<1>0. /\ current \in Nat
      /\ pc # "undeployed" => current \in Deployments
      /\ \A d \in Deployments : d \in Nat /\ d > 0
  BY CurrentType
<1>1. "receiver" \in Parts /\ Server \in Parts
  BY DEF Parts, Server
<1>2. TypeOK'
  BY <1>0, <1>1 DEF TypeOK, join, JoinPc, AfterJoin, Parts, threads
<1>3. Ahead'
  BY <1>0, <1>1 DEF Ahead, join, JoinPc, AfterJoin, Parts, threads
<1>4. Starting'
  BY <1>0, <1>1 DEF Starting, join, JoinPc, AfterJoin, Parts, threads, Server
<1>5. ReceiverUp'
  BY <1>0, <1>1 DEF ReceiverUp, join, JoinPc, AfterJoin, Parts, threads, Lost
<1>6. ReceiverStopped'
  BY <1>0, <1>1 DEF ReceiverStopped, join, JoinPc, AfterJoin, Parts, threads, Behind, Over
<1>7. ServerStopped'
  BY <1>0, <1>1
  DEF ServerStopped, join, JoinPc, AfterJoin, Parts, threads, Behind, Over, Lost, Server
<1> QED
  BY <1>2, <1>3, <1>4, <1>5, <1>6, <1>7

\* A channel is lost.
LEMMA ChannelFailsContext ==
  ASSUME Context, NEW p \in Parts, ChannelFails(p)
  PROVE  Context'
<1> USE DEF Context
<1>0. /\ current \in Nat
      /\ pc # "undeployed" => current \in Deployments
      /\ \A d \in Deployments : d \in Nat /\ d > 0
  BY CurrentType
<1>1. "receiver" \in Parts /\ Server \in Parts
  BY DEF Parts, Server
<1>2. current \in Deployments
  BY ContextAssumption DEF ChannelFails, Deployments, TypeOK
<1>3. /\ channel' \in [Parts -> [Deployments -> {"none", "open", "closed"}]]
      /\ \A q \in Parts, e \in Deployments :
           channel'[q][e] = IF q = p /\ e = current THEN "closed" ELSE channel[q][e]
  BY <1>2 DEF With, ChannelFails, TypeOK
<1>4. failed' = failed \cup {<<p, current>>} /\ faults' \in 0 .. MaxFaults
  BY ContextAssumption DEF ChannelFails, Fault, TypeOK
<1>5. TypeOK'
  BY <1>0, <1>1, <1>2, <1>3, <1>4 DEF TypeOK, ChannelFails, threads
<1>6. Ahead'
  BY <1>0, <1>1, <1>2, <1>3, <1>4 DEF Ahead, ChannelFails, threads
<1>7. Starting'
  BY <1>0, <1>1, <1>2, <1>3, <1>4 DEF Starting, ChannelFails, threads, Server
<1>8. ReceiverUp'
  BY <1>0, <1>1, <1>2, <1>3, <1>4 DEF ReceiverUp, ChannelFails, threads, Lost
<1>9. ReceiverStopped'
  BY <1>0, <1>1, <1>2, <1>3, <1>4 DEF ReceiverStopped, ChannelFails, threads, Behind, Over
<1>10. ServerStopped'
  BY <1>0, <1>1, <1>2, <1>3, <1>4
  DEF ServerStopped, ChannelFails, threads, Behind, Over, Lost, Server
<1> QED
  BY <1>5, <1>6, <1>7, <1>8, <1>9, <1>10

\* A thread that runs goes to another place of its loop.
LEMMA GotoContext ==
  ASSUME Context, NEW p \in Parts, NEW d \in Deployments, thread[p][d] # "none",
         NEW l \in {"check", "waiting", "asked", "found", "saved", "ended"}, Goto(p, d, l),
         UNCHANGED <<current, pc, channel, consumer, keepRunning, failed, faults>>,
         delivered' \subseteq Deployments,
         inHand' \in [Deployments -> Tasks \cup {NoTask}],
         row' \in [Tasks -> {"PENDING", "SENT"}],
         handed' \in [Tasks -> Nat]
  PROVE  Context'
<1> USE DEF Context
<1>1. /\ thread' \in [Parts -> [Deployments ->
                        {"none", "check", "waiting", "asked", "found", "saved", "ended"}]]
      /\ \A q \in Parts, e \in Deployments :
           thread'[q][e] = IF q = p /\ e = d THEN l ELSE thread[q][e]
  BY DEF Goto, With, TypeOK
<1>2. "receiver" \in Parts /\ Server \in Parts
  BY DEF Parts, Server
<1>3. /\ pc # "undeployed" => current \in Deployments
      /\ current \in Nat
  BY CurrentType
<1>4. TypeOK'
  <2>1. pc \in {"deployed", "stopReceiver", "stopServer", "joinReceiver", "joinServer"} =>
          \A q \in Parts : current > 0 /\ thread'[q][current] # "none"
    BY <1>1, <1>3 DEF TypeOK
  <2> QED
    BY <1>1, <2>1 DEF TypeOK
<1>5. Ahead'
  BY <1>1 DEF Ahead
<1>6. Starting'
  BY <1>1, <1>2, <1>3 DEF Starting
<1>7. ReceiverUp' /\ ReceiverStopped' /\ ServerStopped'
  BY DEF ReceiverUp, ReceiverStopped, ServerStopped, Behind, Over, Lost
<1> QED
  BY <1>4, <1>5, <1>6, <1>7

\* The steps of both threads, and what RabbitMQ delivers.
LEMMA ThreadContext ==
  ASSUME Context, NEW p \in Parts, NEW d \in Deployments,
         CheckLoop(p, d) \/ MissStop(p, d) \/ NoDelivery(p, d)
  PROVE  Context'
<1>1. TypeOK
  BY DEF Context
<1>2. CASE CheckLoop(p, d)
  BY <1>1, <1>2, GotoContext DEF CheckLoop, TypeOK
<1>3. CASE MissStop(p, d)
  BY <1>1, <1>3, GotoContext DEF MissStop, TypeOK
<1>4. CASE NoDelivery(p, d)
  BY <1>1, <1>4, GotoContext DEF NoDelivery, TypeOK
<1> QED
  BY <1>2, <1>3, <1>4

LEMMA ServerContext ==
  ASSUME Context, NEW d \in Deployments,
         nextDelivery(d) \/ SelectPending(d) \/ MarkSent(d) \/ basicPublish(d)
  PROVE  Context'
<1>1. TypeOK /\ Server \in Parts
  BY DEF Context, Parts, Server
<1> USE DEF Server
<1>2. CASE nextDelivery(d)
  BY <1>1, <1>2, GotoContext DEF nextDelivery, TypeOK
<1>3. CASE SelectPending(d)
  <2>1. inHand' \in [Deployments -> Tasks \cup {NoTask}]
    BY <1>1, <1>3 DEF SelectPending, TypeOK
  <2> QED
    BY <1>1, <1>3, <2>1, GotoContext DEF SelectPending, TypeOK
<1>4. CASE MarkSent(d)
  <2>1. row' \in [Tasks -> {"PENDING", "SENT"}]
    BY <1>1, <1>4 DEF MarkSent, TypeOK
  <2> QED
    BY <1>1, <1>4, <2>1, GotoContext DEF MarkSent, TypeOK
<1>5. CASE basicPublish(d)
  <2>1. handed' \in [Tasks -> Nat] /\ inHand' \in [Deployments -> Tasks \cup {NoTask}]
    BY <1>1, <1>5 DEF basicPublish, TypeOK
  <2> QED
    BY <1>1, <1>5, <2>1, GotoContext DEF basicPublish, TypeOK
<1> QED
  BY <1>2, <1>3, <1>4, <1>5

LEMMA DeliverContext ==
  ASSUME Context, NEW d \in Deployments, Deliver(d)
  PROVE  Context'
<1> USE DEF Context, Deliver
<1>1. TypeOK'
  BY DEF TypeOK
<1>2. Ahead' /\ Starting' /\ ReceiverUp'
  BY DEF Ahead, Starting, ReceiverUp, Lost
<1>3. ReceiverStopped' /\ ServerStopped'
  BY DEF ReceiverStopped, ServerStopped, Behind, Over, Lost
<1> QED
  BY <1>1, <1>2, <1>3

LEMMA StutterContext ==
  ASSUME Context, UNCHANGED vars
  PROVE  Context'
<1> USE DEF Context, vars, threads
<1>1. TypeOK'
  BY DEF TypeOK
<1>2. Ahead' /\ Starting' /\ ReceiverUp'
  BY DEF Ahead, Starting, ReceiverUp, Lost
<1>3. ReceiverStopped' /\ ServerStopped'
  BY DEF ReceiverStopped, ServerStopped, Behind, Over, Lost
<1> QED
  BY <1>1, <1>2, <1>3

LEMMA NextContext ==
  ASSUME Context, [Next]_vars
  PROVE  Context'
<1>1. CASE contextInitialized \/ contextDestroyed
  BY <1>1, DeployContext, DestroyContext
<1>2. CASE Listener
  BY <1>2, InitPartContext, StartContext, StopContext, JoinContext DEF Listener
<1>3. CASE \E p \in Parts : InitFails(p) \/ ChannelFails(p)
  BY <1>3, InitFailsContext, ChannelFailsContext
<1>4. CASE \E d \in Deployments : ReceiverStep(d) \/ ServerStep(d) \/ Deliver(d)
  <2>1. "receiver" \in Parts /\ "rpcServer" \in Parts
    BY DEF Parts
  <2>2. PICK d \in Deployments : ReceiverStep(d) \/ ServerStep(d) \/ Deliver(d)
    BY <1>4
  <2>3. CASE ReceiverStep(d)
    BY <2>1, <2>3, ThreadContext DEF ReceiverStep
  <2>4. CASE ServerStep(d)
    BY <2>1, <2>4, ThreadContext, ServerContext DEF ServerStep
  <2>5. CASE Deliver(d)
    BY <2>5, DeliverContext
  <2> QED
    BY <2>2, <2>3, <2>4, <2>5
<1>5. CASE \E d \in Deployments, p \in Parts : MissStop(p, d)
  BY <1>5, ThreadContext
<1>6. CASE UNCHANGED vars
  BY <1>6, StutterContext
<1> QED
  BY <1>1, <1>2, <1>3, <1>4, <1>5, <1>6 DEF Next

-------------------------------------------------------------------------------
(* Rows. *)

\* Two servers with open channels are those of a deployment that was cut short and of
\* a later one.
LEMMA OneOpen ==
  ASSUME Context, NEW d \in Deployments, NEW e \in Deployments, d # e,
         channel[Server][d] = "open", channel[Server][e] = "open"
  PROVE  Cut
<1> USE DEF Context
<1>1. /\ current \in Nat
      /\ \A c \in Deployments : c \in Nat
      /\ Server \in Parts
  BY CurrentType DEF Parts, Server
<1>2. \A c \in Deployments : channel[Server][c] = "open" => c <= current
  BY <1>1 DEF Ahead
<1>3. \A c \in Deployments : channel[Server][c] = "open" /\ c < current => Lost("receiver", c)
  BY <1>1 DEF ServerStopped, Behind, Over
<1>4. d < current \/ e < current
  BY <1>1, <1>2
<1> QED
  BY <1>3, <1>4 DEF Cut

LEMMA CutStays ==
  ASSUME Context, [Next]_vars, Cut
  PROVE  Cut'
<1>1. current \in Nat /\ \A c \in Deployments : c \in Nat
  BY CurrentType DEF Context
<1>2. (current' = current \/ current' = current + 1) /\ failed \subseteq failed'
  BY
  DEF Next, vars, contextInitialized, contextDestroyed, Listener, init, start, stopRunning,
         join, InitFails, ChannelFails, Fault, ReceiverStep, ServerStep, CheckLoop, MissStop,
         NoDelivery, nextDelivery, SelectPending, MarkSent, basicPublish, Deliver
<1>3. PICK d \in Deployments : d < current /\ Lost("receiver", d)
  BY DEF Cut
<1>4. d < current'
  BY <1>1, <1>2, <1>3
<1> QED
  BY <1>2, <1>3, <1>4 DEF Cut, Lost

LEMMA InitRows == Init => Rows
<1> SUFFICES ASSUME Init PROVE Rows
  OBVIOUS
<1>1. \A t \in Tasks : handed[t] = 0
  BY DEF Init
<1>2. \A d \in Deployments : thread[Server][d] = "none"
  BY DEF Init, Everywhere, Parts, Server
<1> QED
  BY <1>1, <1>2 DEF Rows, Untouched, SavedFirst, InHandNotHanded, HandedOnce, Holds

\* A step that puts no row in the hands of a server that can publish it.
LEMMA FewerInHand ==
  ASSUME Rows, Cut => Cut', UNCHANGED <<row, handed, inHand>>,
         \A d \in Deployments :
           /\ Holds(d)' => Holds(d)
           /\ Holds(d)' /\ channel'[Server][d] = "open" => channel[Server][d] = "open"
           /\ thread'[Server][d] = "saved" => thread[Server][d] = "saved"
  PROVE  Rows'
<1> USE DEF Rows
<1>1. Untouched' /\ SavedFirst'
  BY DEF Untouched, SavedFirst
<1>2. InHandNotHanded'
  BY DEF InHandNotHanded
<1>3. HandedOnce'
  BY DEF HandedOnce
<1> QED
  BY <1>1, <1>2, <1>3

\* A step that leaves the server's threads where they are or takes them elsewhere than
\* to a row found, and opens no channel of one that has found a row.
LEMMA OtherRows ==
  ASSUME IInv, [Next]_vars,
         ~ \E d \in Deployments : SelectPending(d) \/ MarkSent(d) \/ basicPublish(d)
  PROVE  Rows'
<1> USE DEF IInv, Context
<1>0. Cut => Cut'
  BY CutStays
<1>1. "receiver" \in Parts /\ Server \in Parts /\ Server # "receiver"
  BY DEF Parts, Server
<1>2. UNCHANGED <<row, handed, inHand>>
  BY DEF Next, vars, threads, contextInitialized, contextDestroyed, Listener, init, start,
         stopRunning, join, InitFails, ChannelFails, ReceiverStep, ServerStep, CheckLoop,
         MissStop, NoDelivery, nextDelivery, Deliver
<1>3. \A d \in Deployments : thread'[Server][d] \in {"found", "saved"} =>
                               thread'[Server][d] = thread[Server][d]
  <2>1. CASE thread' = thread
    BY <2>1
  <2>2. CASE \E p \in Parts, e \in Deployments, l \in {"check", "waiting", "asked", "ended"} :
               Goto(p, e, l)
    BY <1>1, <2>2 DEF Goto, With, TypeOK
  <2>3. CASE \E p \in Parts : start(p)
    BY <1>1, <2>3 DEF start, With, TypeOK
  <2>4. CASE \E p \in Parts, e \in Deployments :
               CheckLoop(p, e) \/ MissStop(p, e) \/ NoDelivery(p, e) \/ nextDelivery(e)
    BY <1>1, <2>4, <2>2 DEF CheckLoop, MissStop, NoDelivery, nextDelivery, Server
  <2>5. CASE \/ contextInitialized \/ contextDestroyed \/ UNCHANGED vars
             \/ \E p \in Parts : \/ init(p) \/ stopRunning(p) \/ join(p)
                                 \/ InitFails(p) \/ ChannelFails(p)
             \/ \E e \in Deployments : Deliver(e)
    BY <2>1, <2>5 DEF vars, threads, contextInitialized, contextDestroyed, init,
       stopRunning, join, InitFails, ChannelFails, Deliver
  <2> QED
    BY <2>3, <2>4, <2>5, <1>1 DEF Next, Listener, ReceiverStep, ServerStep, Server
<1>4. \A d \in Deployments : channel'[Server][d] = "open" /\ channel[Server][d] # "open" =>
                               thread[Server][d] = "none" /\ thread' = thread
  <2>1. CASE \E p \in Parts : init(p)
    <3>1. PICK p \in Parts : init(p)
      BY <2>1
    <3>2. current \in Deployments
      BY <3>1, CurrentType DEF init, InitPc
    <3>3. thread[Server][current] = "none"
      BY <3>1 DEF init, InitPc, Starting
    <3> QED
      BY <1>1, <3>1, <3>2, <3>3 DEF init, With, TypeOK, threads
  <2>2. CASE \A d \in Deployments : channel'[Server][d] = "open" => channel[Server][d] = "open"
    BY <2>2
  <2>3. CASE \E p \in Parts : InitFails(p) \/ stopRunning(p) \/ ChannelFails(p)
    <3>1. PICK p \in Parts : InitFails(p) \/ stopRunning(p) \/ ChannelFails(p)
      BY <2>3
    <3>2. \/ channel' = channel
          \/ \E x \in {"none", "closed"} : channel' = With(channel, p, current, x)
      BY <3>1 DEF InitFails, stopRunning, ChannelFails
    <3>3. \A d \in Deployments : channel'[Server][d] = "open" => channel[Server][d] = "open"
      <4>1. CASE channel' = channel
        BY <4>1
      <4>2. ASSUME NEW x \in {"none", "closed"}, channel' = With(channel, p, current, x),
                   NEW d \in Deployments, channel'[Server][d] = "open"
            PROVE  channel[Server][d] = "open"
        <5>1. CASE p # Server
          BY <1>1, <4>2, <5>1 DEF With, TypeOK
        <5>2. CASE p = Server
          BY <1>1, <4>2, <5>2 DEF With, TypeOK
        <5> QED
          BY <5>1, <5>2
      <4> QED
        BY <3>2, <4>1, <4>2
    <3> QED
      BY <3>3
  <2> QED
    BY <2>1, <2>2, <2>3
    DEF Next, vars, contextInitialized, contextDestroyed, Listener, start, join,
        ReceiverStep, ServerStep, CheckLoop, MissStop, NoDelivery, nextDelivery, Deliver
<1>5. ASSUME NEW d \in Deployments
      PROVE  /\ Holds(d)' => Holds(d)
             /\ Holds(d)' /\ channel'[Server][d] = "open" => channel[Server][d] = "open"
             /\ thread'[Server][d] = "saved" => thread[Server][d] = "saved"
  BY <1>2, <1>3, <1>4 DEF Holds
<1> QED
  BY <1>0, <1>2, <1>5, FewerInHand

LEMMA SelectRows ==
  ASSUME IInv, NEW d \in Deployments, SelectPending(d)
  PROVE  Rows'
<1> USE DEF IInv, Context, Rows
<1>1. /\ \A e \in Deployments :
           thread'[Server][e] = IF e = d THEN "found" ELSE thread[Server][e]
      /\ \A e \in Deployments : e # d => inHand'[e] = inHand[e]
      /\ inHand'[d] = NoTask \/ (inHand'[d] \in Tasks /\ row[inHand'[d]] = "PENDING")
      /\ UNCHANGED <<row, handed, channel, current, failed>>
  BY DEF SelectPending, Goto, With, TypeOK, Parts, Server
<1>2. Untouched' /\ HandedOnce'
  BY <1>1 DEF Untouched, HandedOnce, Cut, Lost
<1>3. SavedFirst'
  BY <1>1 DEF SavedFirst
<1>4. InHandNotHanded'
  BY <1>1, ContextAssumption DEF InHandNotHanded, Holds, Untouched, Cut, Lost
<1> QED
  BY <1>2, <1>3, <1>4

LEMMA MarkRows ==
  ASSUME IInv, NEW d \in Deployments, MarkSent(d)
  PROVE  Rows'
<1> USE DEF IInv, Context, Rows
<1>1. /\ \A e \in Deployments :
           thread'[Server][e] = IF e = d THEN "saved" ELSE thread[Server][e]
      /\ thread[Server][d] = "found"
      /\ \A t \in Tasks : row'[t] = IF t = inHand[d] THEN "SENT" ELSE row[t]
      /\ UNCHANGED <<inHand, handed, channel, current, failed>>
  BY DEF MarkSent, Goto, With, TypeOK, Parts, Server
<1>2. Untouched' /\ HandedOnce'
  BY <1>1 DEF Untouched, HandedOnce, Cut, Lost
<1>3. SavedFirst'
  BY <1>1 DEF SavedFirst
<1>4. InHandNotHanded'
  BY <1>1 DEF InHandNotHanded, Holds, Cut, Lost
<1> QED
  BY <1>2, <1>3, <1>4

LEMMA PublishRows ==
  ASSUME IInv, NEW d \in Deployments, basicPublish(d)
  PROVE  Rows'
<1> USE DEF IInv, Context, Rows
<1>1. /\ \A e \in Deployments :
           thread'[Server][e] = IF e = d THEN "check" ELSE thread[Server][e]
      /\ thread[Server][d] = "saved"
      /\ \A t \in Tasks : handed'[t] = IF t = inHand[d] /\ channel[Server][d] = "open"
                                       THEN handed[t] + 1 ELSE handed[t]
      /\ \A e \in Deployments : e # d => inHand'[e] = inHand[e]
      /\ UNCHANGED <<row, channel, current, failed>>
  BY DEF basicPublish, Goto, With, TypeOK, Parts, Server
<1>2. Cut' <=> Cut
  BY <1>1 DEF Cut, Lost
<1>3. handed \in [Tasks -> Nat]
  BY DEF TypeOK
<1>4. Untouched'
  BY <1>1 DEF Untouched, SavedFirst
<1>5. SavedFirst'
  BY <1>1 DEF SavedFirst
<1>6. InHandNotHanded'
  <2> SUFFICES ASSUME ~Cut, NEW e \in Deployments, channel[Server][e] = "open", Holds(e)'
               PROVE  handed'[inHand'[e]] = 0
    BY <1>1, <1>2 DEF InHandNotHanded
  <2>1. e # d /\ Holds(e) /\ inHand'[e] = inHand[e]
    BY <1>1 DEF Holds
  <2>2. channel[Server][d] # "open"
    BY <2>1, OneOpen
  <2> QED
    BY <1>1, <2>1, <2>2 DEF InHandNotHanded, Holds
<1>7. HandedOnce'
  <2> SUFFICES ASSUME ~Cut, NEW t \in Tasks
               PROVE  handed'[t] <= 1
    BY <1>2 DEF HandedOnce
  <2>1. CASE t = inHand[d] /\ channel[Server][d] = "open"
    <3>1. handed[t] = 0
      BY <1>1, <2>1 DEF InHandNotHanded, Holds
    <3> QED
      BY <1>1, <2>1, <3>1
  <2>2. CASE ~(t = inHand[d] /\ channel[Server][d] = "open")
    BY <1>1, <2>2 DEF HandedOnce
  <2> QED
    BY <2>1, <2>2
<1> QED
  BY <1>4, <1>5, <1>6, <1>7

-------------------------------------------------------------------------------
(* Joining. *)

\* A thread that has ended is not started again, for the next one is another
\* deployment's.
LEMMA EndedStays ==
  ASSUME Context, [Next]_vars, NEW p \in Parts, NEW d \in Deployments,
         thread[p][d] = "ended", d # current \/ pc \notin {"startReceiver", "startServer"}
  PROVE  thread'[p][d] = "ended"
<1>1. CASE \E q \in Parts : start(q)
  <2>1. PICK q \in Parts : start(q)
    BY <1>1
  <2>2. current \in Deployments
    BY <2>1, CurrentType DEF start, Context
  <2> QED
    BY <2>1, <2>2 DEF start, With, Context, TypeOK
<1>2. CASE \E q \in Parts, e \in Deployments :
             CheckLoop(q, e) \/ MissStop(q, e) \/ NoDelivery(q, e)
  <2>1. PICK q \in Parts, e \in Deployments :
               CheckLoop(q, e) \/ MissStop(q, e) \/ NoDelivery(q, e)
    BY <1>2
  <2>2. PICK l \in {"check", "waiting", "ended"} : thread' = With(thread, q, e, l)
    BY <2>1 DEF CheckLoop, MissStop, NoDelivery, Goto
  <2>3. thread[q][e] # "ended"
    BY <2>1 DEF CheckLoop, MissStop, NoDelivery
  <2> QED
    BY <2>2, <2>3 DEF With, Context, TypeOK
<1>3. CASE \E e \in Deployments :
             nextDelivery(e) \/ SelectPending(e) \/ MarkSent(e) \/ basicPublish(e)
  BY <1>3
  DEF nextDelivery, SelectPending, MarkSent, basicPublish, Goto, With, Context, TypeOK, Parts
<1>4. CASE \/ contextInitialized \/ contextDestroyed \/ UNCHANGED vars
           \/ \E q \in Parts : \/ init(q) \/ stopRunning(q) \/ join(q)
                               \/ InitFails(q) \/ ChannelFails(q)
           \/ \E e \in Deployments : Deliver(e)
  BY <1>4
  DEF vars, threads, contextInitialized, contextDestroyed, init, stopRunning, join, InitFails,
      ChannelFails, Deliver
<1>5. "receiver" \in Parts /\ "rpcServer" \in Parts
  BY DEF Parts
<1> QED
  BY <1>1, <1>2, <1>3, <1>4, <1>5 DEF Next, Listener, ReceiverStep, ServerStep

\* A step that leaves the listener where it is.
LEMMA SamePlaceJoins ==
  ASSUME Context, Joins, [Next]_vars, UNCHANGED <<current, pc>>, failed \subseteq failed',
         ServerUp'
  PROVE  Joins'
<1> USE DEF Joins
<1>1. pc = "joinServer" => current \in Deployments
  BY CurrentType DEF Context
<1>2. ReceiverJoined'
  BY <1>1, EndedStays DEF ReceiverJoined, Parts
<1>3. StoppedAndJoined'
  <2> SUFFICES ASSUME NEW d \in Deployments, Over(d), \A q \in Parts : ~Lost(q, d),
                      NEW p \in Parts
               PROVE  thread'[p][d] = "ended"
    BY DEF StoppedAndJoined, Over, Lost
  <2>1. thread[p][d] = "ended"
    BY DEF StoppedAndJoined
  <2>2. d # current \/ pc \notin {"startReceiver", "startServer"}
    BY CurrentType DEF Over, Context
  <2> QED
    BY <2>1, <2>2, EndedStays
<1> QED
  BY <1>2, <1>3

\* A deployment that ends has joined both threads, or was cut short.
LEMMA JoinsStep ==
  ASSUME Context, Joins, [Next]_vars
  PROVE  Joins'
<1> USE DEF Joins
<1>0. /\ current \in Nat
      /\ pc # "undeployed" => current \in Deployments
      /\ \A d \in Deployments : d \in Nat /\ d > 0
  BY CurrentType DEF Context
<1>1. "receiver" \in Parts /\ Server \in Parts /\ Parts = {"receiver", Server}
  BY DEF Parts, Server
<1>2. CASE contextInitialized
  <2>1. /\ current' = current + 1 /\ pc = "undeployed" /\ pc' = "initReceiver"
        /\ UNCHANGED <<thread, channel, failed>>
    BY <1>2 DEF contextInitialized, threads
  <2>2. \A d \in Deployments : Over(d)' => Over(d)
    BY <1>0, <2>1 DEF Over
  <2> QED
    BY <2>1, <2>2 DEF ServerUp, ReceiverJoined, StoppedAndJoined, Lost
<1>3. CASE contextDestroyed
  <2>1. /\ pc = "deployed" /\ pc' = "stopReceiver"
        /\ UNCHANGED <<current, thread, channel, failed>>
    BY <1>3 DEF contextDestroyed, threads
  <2> QED
    BY <2>1 DEF ServerUp, ReceiverJoined, StoppedAndJoined, Lost, Over
<1>4. ASSUME NEW p \in Parts, init(p) \/ InitFails(p)
      PROVE  Joins'
  <2>1. /\ pc = InitPc(p) /\ pc' = AfterInit(p) /\ UNCHANGED <<current, thread>>
        /\ failed \subseteq failed' /\ current \in Deployments
    BY <1>0, <1>4 DEF init, InitFails, Fault, threads, InitPc, Parts
  <2>2. p = Server => channel'[Server][current] = "open" \/ Lost(Server, current)'
    BY <1>4, <2>1 DEF init, InitFails, Fault, With, Context, TypeOK, Lost
  <2>3. ServerUp'
    BY <1>1, <2>1, <2>2 DEF ServerUp, AfterInit, Lost, Server
  <2> QED
    BY <1>1, <2>1, <2>3
    DEF ReceiverJoined, StoppedAndJoined, Lost, Over, InitPc, AfterInit, Server
<1>5. ASSUME NEW p \in Parts, start(p)
      PROVE  Joins'
  <2>1. /\ pc \in {"startReceiver", "startServer"} /\ pc' \in {"startServer", "deployed"}
        /\ UNCHANGED <<current, channel, failed>>
    BY <1>5 DEF start
  <2>2. \A d \in Deployments, q \in Parts : Over(d)' => Over(d) /\ d # current
    BY <1>0, <2>1 DEF Over
  <2>3. StoppedAndJoined'
    BY <2>1, <2>2, EndedStays DEF StoppedAndJoined, Lost
  <2> QED
    BY <2>1, <2>3 DEF ServerUp, ReceiverJoined, Lost
<1>6. ASSUME NEW p \in Parts, stopRunning(p)
      PROVE  Joins'
  <2>1. /\ pc = StopPc(p) /\ UNCHANGED <<current, thread, failed>> /\ current \in Deployments
    BY <1>0, <1>6 DEF stopRunning, StopPc, Parts, threads
  <2>2. CASE channel[p][current] = "open"
    <3>1. channel' = With(channel, p, current, "closed") /\ pc' = AfterStop(p)
      BY <1>6, <2>2 DEF stopRunning
    <3>2. p = "receiver" => channel'[Server] = channel[Server]
      BY <1>1, <3>1 DEF With, Context, TypeOK, Server
    <3> QED
      BY <1>1, <2>1, <3>1, <3>2
      DEF ServerUp, ReceiverJoined, StoppedAndJoined, Lost, Over, StopPc, AfterStop, Server
  <2>3. CASE channel[p][current] # "open"
    <3>1. pc' = "undeployed"
      BY <1>6, <2>3 DEF stopRunning
    <3>2. Lost(p, current)
      BY <1>1, <2>1, <2>3 DEF Context, ReceiverUp, ServerUp, StopPc, Server
    <3> QED
      BY <2>1, <3>1, <3>2 DEF ServerUp, ReceiverJoined, StoppedAndJoined, Lost, Over
  <2> QED
    BY <2>2, <2>3
<1>7. ASSUME NEW p \in Parts, join(p)
      PROVE  Joins'
  <2>1. /\ pc = JoinPc(p) /\ pc' = AfterJoin(p) /\ thread[p][current] = "ended"
        /\ UNCHANGED <<current, thread, channel, failed>>
    BY <1>7 DEF join, threads
  <2>2. p = Server => \A q \in Parts : thread[q][current] = "ended"
    BY <1>1, <2>1 DEF ReceiverJoined, JoinPc, Server
  <2> QED
    BY <1>1, <2>1, <2>2
    DEF ServerUp, ReceiverJoined, StoppedAndJoined, Lost, Over, JoinPc, AfterJoin, Server
<1>8. ASSUME NEW p \in Parts, ChannelFails(p)
      PROVE  Joins'
  <2>1. UNCHANGED <<current, pc>> /\ failed' = failed \cup {<<p, current>>}
    BY <1>8 DEF ChannelFails, Fault
  <2>2. ServerUp'
    <3>1. p # Server => channel'[Server] = channel[Server]
      BY <1>1, <1>8 DEF ChannelFails, With, Context, TypeOK
    <3> QED
      BY <2>1, <3>1 DEF ServerUp, Lost
  <2> QED
    BY <2>1, <2>2, SamePlaceJoins
<1>9. CASE \/ UNCHANGED vars
           \/ \E d \in Deployments : ReceiverStep(d) \/ ServerStep(d) \/ Deliver(d)
           \/ \E d \in Deployments, p \in Parts : MissStop(p, d)
  <2>1. UNCHANGED <<current, pc, channel, failed>>
    BY <1>9
    DEF vars, ReceiverStep, ServerStep, CheckLoop, NoDelivery, nextDelivery, SelectPending,
        MarkSent, basicPublish, Deliver, MissStop
  <2>2. ServerUp'
    BY <2>1 DEF ServerUp, Lost
  <2> QED
    BY <2>1, <2>2, SamePlaceJoins
<1> QED
  BY <1>2, <1>3, <1>4, <1>5, <1>6, <1>7, <1>8, <1>9 DEF Next, Listener

-------------------------------------------------------------------------------

\* The invariant of the listener and the rows is inductive: of init(), stopRunning() and
\* the joins, and of both threads (BrokerServletContextListener.java:45-96).
THEOREM ContextInvariant == Spec => []IInv
<1>1. Init => IInv
  BY InitContext, InitRows DEF IInv
<1>2. IInv /\ [Next]_vars => IInv'
  <2> SUFFICES ASSUME IInv, [Next]_vars PROVE IInv'
    OBVIOUS
  <2>1. Context'
    BY NextContext DEF IInv
  <2>2. Rows'
    BY OtherRows, SelectRows, MarkRows, PublishRows
  <2> QED
    BY <2>1, <2>2 DEF IInv
<1> QED
  BY <1>1, <1>2, PTL DEF Spec

\* Every variable of the start and stop of the broker keeps its type, and both threads
\* exist from contextInitialized's end on (BrokerServletContextListener.java:45-96).
THEOREM ContextTypeCorrect == Spec => []TypeOK
<1>1. IInv => TypeOK
  BY DEF IInv, Context
<1> QED
  BY <1>1, ContextInvariant, PTL

\* Two servers take requests at a time only if a Receiver has failed before
\* (BrokerServletContextListener.java:87-96).
THEOREM OneServerHolds == Spec => []OneServer
<1>1. IInv => OneServer
  <2> SUFFICES ASSUME IInv, NEW d \in Deployments, NEW e \in Deployments,
                      d < e, Serves(d), Serves(e)
               PROVE  Lost("receiver", d)
    BY DEF OneServer
  <2> USE DEF IInv, Context
  <2>1. /\ current \in Nat
        /\ \A c \in Deployments : c \in Nat
        /\ Server \in Parts
    BY CurrentType DEF Parts, Server
  <2>2. e <= current
    BY <2>1 DEF Ahead, Serves, Server
  <2>3. d < current
    BY <2>1, <2>2
  <2> QED
    BY <2>3 DEF ServerStopped, Behind, Over, Serves, Server
<1> QED
  BY <1>1, ContextInvariant, PTL

\* No row is handed out twice unless a Receiver has failed before (TaskDAO.java:115-134,
\* RPCServer.java:134-141).
THEOREM HandedOutOnceHolds == Spec => []HandedOutOnce
<1>1. IInv => HandedOutOnce
  BY DEF IInv, Context, TypeOK, Rows, HandedOnce, Cut, HandedOutOnce
<1> QED
  BY <1>1, ContextInvariant, PTL

\* Only a server whose Receiver has failed is left to run (RPCServer.java:101-108,
\* Receiver.java:96-103).
THEOREM LeftRunningHolds == Spec => []LeftRunning
<1>1. IInv => LeftRunning
  BY DEF IInv, Context, ReceiverStopped, ServerStopped, Behind, LeftRunning, Parts, Server
<1> QED
  BY <1>1, ContextInvariant, PTL

\* A deployment whose two parts had and kept their channels ends only after both threads
\* have ended (BrokerServletContextListener.java:87-96).
THEOREM StoppedAndJoinedHolds == Spec => []StoppedAndJoined
<1>1. Init => Joins
  <2> SUFFICES ASSUME Init PROVE Joins
    OBVIOUS
  <2>1. current = 0 /\ pc = "undeployed"
    BY DEF Init
  <2>2. \A d \in Deployments : ~Over(d)
    BY <2>1 DEF Over, Deployments
  <2> QED
    BY <2>1, <2>2 DEF Joins, ServerUp, ReceiverJoined, StoppedAndJoined
<1>2. IInv /\ Joins /\ [Next]_vars => Joins'
  BY JoinsStep DEF IInv
<1>3. Joins => StoppedAndJoined
  BY DEF Joins
<1> QED
  BY <1>1, <1>2, <1>3, ContextInvariant, PTL DEF Spec
===============================================================================
