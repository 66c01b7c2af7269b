----------------------------- MODULE TaskContract -----------------------------
(***************************************************************************)
(* What TrianaCloud promises to whoever submits a task, with no broker     *)
(* thread, queue or worker protocol in sight: a submitted task waits in a  *)
(* pool, leaves it once, is run at most once, and the result stored for it *)
(* is the one that its own run produced, for ever.                         *)
(***************************************************************************)
EXTENDS Sequences

CONSTANTS Tasks,     \* the tasks clients may submit
          Workers,   \* the machines that may run one
          Nothing    \* no result yet

Output(t, w) == [task |-> t, by |-> w]

VARIABLES pool,      \* submitted, not handed out
          taken,     \* handed out
          runs,      \* runs[t]: the workers that began to run t, in order
          stored     \* stored[t]: the result kept for t
vars == <<pool, taken, runs, stored>>

Init == /\ pool = {}
        /\ taken = {}
        /\ runs = [t \in Tasks |-> <<>>]
        /\ stored = [t \in Tasks |-> Nothing]

Submit(t) == /\ t \notin pool \cup taken
             /\ pool' = pool \cup {t}
             /\ UNCHANGED <<taken, runs, stored>>

HandOut(t) == /\ t \in pool
              /\ pool' = pool \ {t}
              /\ taken' = taken \cup {t}
              /\ UNCHANGED <<runs, stored>>

Run(t, w) == /\ t \in taken
             /\ runs[t] = <<>>
             /\ runs' = [runs EXCEPT ![t] = <<w>>]
             /\ UNCHANGED <<pool, taken, stored>>

Store(t) == /\ t \in taken
            /\ stored[t] = Nothing
            /\ \E w \in Workers : /\ runs[t] = <<w>>
                                  /\ stored' = [stored EXCEPT ![t] = Output(t, w)]
            /\ UNCHANGED <<pool, taken, runs>>

Next == \E t \in Tasks : \/ Submit(t)
                         \/ HandOut(t)
                         \/ \E w \in Workers : Run(t, w)
                         \/ Store(t)

Spec == Init /\ [][Next]_vars
===============================================================================
