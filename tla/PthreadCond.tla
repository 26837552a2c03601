------------------------------ MODULE PthreadCond ------------------------------
(* POSIX condition variables as the programs of src/basic/sync use them.  A    *)
(* condition variable is the set of threads blocked in pthread_cond_wait; a    *)
(* thread outside every wait set is running or waiting for a mutex.  Waking a  *)
(* thread does not give it the mutex: it takes it again later, in a step of    *)
(* its own, and evaluates its predicate again.                                 *)

(* pthread_cond_signal: the wait sets it may leave.  It wakes one waiter, any  *)
(* of them, and is lost when nobody waits.  (POSIX lets it wake more than one; *)
(* the spurious wakeups of the modules below cover that.)                      *)
Signal(waiting) == IF waiting = {} THEN {{}} ELSE {waiting \ {t} : t \in waiting}

(* pthread_cond_broadcast: nobody waits any more.                              *)
Broadcast(waiting) == {}

================================================================================
