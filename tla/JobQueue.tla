------------------------------ MODULE JobQueue ------------------------------
(***************************************************************************)
(* What the thread pool of core/src/server/thread_pool.cc promises to the  *)
(* rest of the server, without threads, locks or condition variables: jobs *)
(* start in the order in which they were submitted, each at most once;     *)
(* closing the pool drops the jobs that have not started; and the pool     *)
(* stops only when no job is running.                                      *)
(***************************************************************************)
EXTENDS Naturals, Sequences

CONSTANT Jobs      \* the calls of thread_pool_add, one value per call

VARIABLES
  pending,         \* accepted jobs that have not started, oldest first
  running,         \* jobs a thread is executing
  finished,        \* jobs that returned
  dropped,         \* jobs that will never start
  phase            \* "open", "closed" (shutdown) or "stopped" (pool freed)

vars == <<pending, running, finished, dropped, phase>>

InPending == {pending[i] : i \in 1..Len(pending)}

Unsubmitted == Jobs \ (InPending \cup running \cup finished \cup dropped)

Init == /\ pending = <<>>
        /\ running = {}
        /\ finished = {}
        /\ dropped = {}
        /\ phase = "open"

Submit(j) == /\ j \in Unsubmitted
             /\ phase = "open"
             /\ pending' = Append(pending, j)
             /\ UNCHANGED <<running, finished, dropped, phase>>

\* A job handed to a pool that is closed or gone is lost.
SubmitTooLate(j) == /\ j \in Unsubmitted
                    /\ phase # "open"
                    /\ dropped' = dropped \cup {j}
                    /\ UNCHANGED <<pending, running, finished, phase>>

Start == /\ phase = "open"
         /\ pending # <<>>
         /\ pending' = Tail(pending)
         /\ running' = running \cup {Head(pending)}
         /\ UNCHANGED <<finished, dropped, phase>>

Finish(j) == /\ j \in running
             /\ running' = running \ {j}
             /\ finished' = finished \cup {j}
             /\ UNCHANGED <<pending, dropped, phase>>

Close == /\ phase = "open"
         /\ phase' = "closed"
         /\ dropped' = dropped \cup InPending
         /\ pending' = <<>>
         /\ UNCHANGED <<running, finished>>

Stop == /\ phase = "closed"
        /\ running = {}
        /\ phase' = "stopped"
        /\ UNCHANGED <<pending, running, finished, dropped>>

Next == \/ \E j \in Jobs : Submit(j) \/ SubmitTooLate(j) \/ Finish(j)
        \/ Start
        \/ Close
        \/ Stop

Spec == Init /\ [][Next]_vars
=============================================================================
