------------------------------ MODULE Futures ------------------------------
(***************************************************************************)
(* What lython::ThreadPool promises the code that queues work on it, with  *)
(* no queue, no worker and no lock: a task executes at most once for each  *)
(* time it is submitted, its future becomes ready only after the task has  *)
(* executed, and when the pool goes away every future that is left is      *)
(* broken (the promise died unfulfilled), never pending.  A name whose     *)
(* future is ready may be given to a new task.                             *)
(***************************************************************************)
CONSTANT Task

VARIABLES
  future,   \* what the holder of each task's std::future observes
  busy,     \* tasks whose function is executing
  executed, \* tasks whose function has returned
  open      \* the pool exists

vars == <<future, busy, executed, open>>

Init ==
  /\ future = [t \in Task |-> "none"]
  /\ busy = {}
  /\ executed = {}
  /\ open = TRUE

Submit(t) ==
  /\ open
  /\ future[t] \in {"none", "ready"}
  /\ future' = [future EXCEPT ![t] = "pending"]
  /\ executed' = executed \ {t}
  /\ UNCHANGED <<busy, open>>

Start(t) ==
  /\ open
  /\ future[t] = "pending"
  /\ t \notin busy \cup executed
  /\ busy' = busy \cup {t}
  /\ UNCHANGED <<future, executed, open>>

Finish(t) ==
  /\ open
  /\ t \in busy
  /\ busy' = busy \ {t}
  /\ executed' = executed \cup {t}
  /\ UNCHANGED <<future, open>>

Resolve(t) ==
  /\ open
  /\ t \in executed
  /\ future[t] = "pending"
  /\ future' = [future EXCEPT ![t] = "ready"]
  /\ UNCHANGED <<busy, executed, open>>

(* The pool goes away: no task is half done, and what never ran is broken. *)
Close ==
  /\ open
  /\ open' = FALSE
  /\ busy = {}
  /\ \A t \in executed : future[t] = "ready"
  /\ future' = [t \in Task |-> IF future[t] = "pending" THEN "broken" ELSE future[t]]
  /\ UNCHANGED <<busy, executed>>

Next == (\E t \in Task : Submit(t) \/ Start(t) \/ Finish(t) \/ Resolve(t)) \/ Close

Spec == Init /\ [][Next]_vars
=============================================================================
