------------------------ MODULE BrokerContextProperties ------------------------
(***************************************************************************)
(* What start and stop of the broker promise, and what they need for it.   *)
(***************************************************************************)
EXTENDS BrokerContext

Lost(p, d) == <<p, d>> \in failed

\* The deployment is over: its contextDestroyed has ended.
Over(d) == d < current \/ (d = current /\ pc = "undeployed")

\* The server of d takes requests and can answer them.
Serves(d) == /\ channel["rpcServer"][d] = "open"
             /\ thread["rpcServer"][d] \notin {"none", "ended"}

\* contextDestroyed that is not cut short returns when both threads have ended
\* (BrokerServletContextListener.java:87-96).
StoppedAndJoined ==
  \A d \in Deployments :
    Over(d) /\ (\A p \in Parts : ~Lost(p, d)) => \A p \in Parts : thread[p][d] = "ended"

\* A server serves after the end of its deployment only if that deployment's
\* Receiver had failed or lost its channel: the exception from closing it is what keeps
\* the server from being stopped.  Whatever happens to the server's own channel
\* has no such effect.  So TaskDispatch, which has one server, stands as long
\* as no Receiver fails.
OneServer ==
  \A d, e \in Deployments : d < e /\ Serves(d) /\ Serves(e) => Lost("receiver", d)

\* No row is given to two workers, unless an earlier deployment's Receiver had failed:
\* only then can two threads be in getNextPending() that both can publish what they
\* found (TaskDAO.java:115-134).
HandedOutOnce ==
  \A t \in Tasks :
    handed[t] > 1 => \E d \in Deployments : d < current /\ Lost("receiver", d)

\* A thread that is still to run after the end of its deployment is a server's, and
\* its Receiver had failed.
LeftRunning ==
  \A d \in Deployments, p \in Parts :
    Over(d) /\ <<p, d>> \in keepRunning => p = "rpcServer" /\ Lost("receiver", d)

\* Again and again nobody is being stopped: contextDestroyed has come to its end,
\* after any failure, and so has every thread that was told to end, unless its
\* consumer was never subscribed (BrokerServletContextListener.java:87-96).
StopsEnd ==
  []<>(/\ pc \notin {"stopReceiver", "stopServer", "joinReceiver", "joinServer"}
       /\ \A d \in Deployments, p \in Parts :
            \/ thread[p][d] \in {"none", "ended"}
            \/ <<p, d>> \in keepRunning
            \/ consumer[p][d] = "deaf")
===============================================================================
