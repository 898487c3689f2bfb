----------------------------- MODULE ThreadPool -----------------------------
(***************************************************************************)
(* The thread pool of core/src/server/thread_pool.cc, the threads that     *)
(* submit to it and the shutdown thread of core/src/main.cc.               *)
(*                                                                         *)
(* Every access to the pool is made under worker_mutex, so one critical    *)
(* section is one action.  Waiting on a condition variable ends a section: *)
(* a waiting thread is a value of its program counter, a broadcast or a    *)
(* signal moves waiting threads back to the head of their while loop, and  *)
(* they may also wake up without one, as POSIX allows.                     *)
(***************************************************************************)
EXTENDS Naturals, Sequences, FiniteSets

CONSTANTS
  Workers,      \* the threads created by thread_pool_create
  Jobs,         \* the calls of thread_pool_add, one value per call
  NoJob         \* the job of a thread that executes none

ASSUME PoolAssumption ==
  /\ IsFiniteSet(Workers)
  /\ Workers # {}             \* thread_pool_create turns 0 into 2
  /\ NoJob \notin Jobs

VARIABLES
  queue,          \* the list from head to tail
  job,            \* what became of the Worker record of each job
  wpc,            \* where each thread of the pool is in work()
  task,           \* the job each thread took
  working_count,
  thread_count,
  shutdown,
  dpc,            \* where the shutdown thread is in server_destroy()
  fault           \* memory errors: writes to a freed record or a freed pool

vars == <<queue, job, wpc, task, working_count, thread_count, shutdown, dpc, fault>>

JobStates == {"new", "queued", "running", "done", "freed"}

\* "loop": about to lock at the top of while (1).  "waiting": in
\* pthread_cond_wait(worker_cond).  "running": in worker->fn(worker->arg).
\* "returned": about to lock for the bookkeeping after the job.
WorkerStates == {"loop", "waiting", "running", "returned", "gone"}

\* "sigwait": no SIGINT yet.  "wait", "wait_cond": in the first
\* thread_pool_wait.  "destroy": entering thread_pool_destroy.  "join",
\* "join_cond": in the thread_pool_wait of thread_pool_destroy.  "free": about
\* to destroy the mutex and free the pool.  "freed": dropping the clients.
ShutdownStates == {"sigwait", "wait", "wait_cond", "destroy", "join",
                   "join_cond", "free", "freed", "exited"}

Busy == {w \in Workers : wpc[w] \in {"running", "returned"}}
Live == {w \in Workers : wpc[w] # "gone"}

Init ==
  /\ queue = <<>>
  /\ job = [j \in Jobs |-> "new"]
  /\ wpc = [w \in Workers |-> "loop"]
  /\ task = [w \in Workers |-> NoJob]
  /\ working_count = 0
  /\ thread_count = Cardinality(Workers)
  /\ shutdown = FALSE
  /\ dpc = "sigwait"
  /\ fault = {}

-----------------------------------------------------------------------------
(***************************************************************************)
(* Condition variables.                                                    *)
(***************************************************************************)

WakeNobody == UNCHANGED wpc

\* pthread_cond_broadcast(worker_cond)
Broadcast == wpc' = [w \in Workers |-> IF wpc[w] = "waiting" THEN "loop" ELSE wpc[w]]

SignalNobody == UNCHANGED dpc

\* pthread_cond_signal(working_cond): the shutdown thread is the only waiter.
SignalIdle == dpc' = CASE dpc = "wait_cond" -> "wait"
                       [] dpc = "join_cond" -> "join"
                       [] OTHER -> dpc

-----------------------------------------------------------------------------
(***************************************************************************)
(* thread_pool_add: once the process has exited nobody calls it any more.  *)
(* It never looks at the shutdown flag.                                    *)
(***************************************************************************)

\* After thread_pool_destroy the list still holds the records it freed.
TailFreed == queue # <<>> /\ job[queue[Len(queue)]] = "freed"

AddedFirst(j) == <<j>> \o queue

\* The list after tail->next = worker
Added(j) == Append(queue, j)

Add(j) ==
  /\ job[j] = "new"
  /\ dpc \notin {"freed", "exited"}
  /\ queue' = Added(j)
  /\ job' = [job EXCEPT ![j] = "queued"]
  /\ fault' = IF TailFreed THEN fault \cup {"record"} ELSE fault
  /\ Broadcast
  /\ UNCHANGED <<task, working_count, thread_count, shutdown, dpc>>

\* The pool itself is gone: nothing reads what this call writes.
AddToFreedPool(j) ==
  /\ job[j] = "new"
  /\ dpc = "freed"
  /\ job' = [job EXCEPT ![j] = "queued"]
  /\ fault' = fault \cup {"pool"}
  /\ UNCHANGED <<queue, wpc, task, working_count, thread_count, shutdown, dpc>>

-----------------------------------------------------------------------------
(***************************************************************************)
(* work(): the threads of the pool.                                        *)
(***************************************************************************)

Sleep(w) ==
  /\ wpc[w] = "loop"
  /\ queue = <<>>
  /\ ~shutdown
  /\ wpc' = [wpc EXCEPT ![w] = "waiting"]
  /\ UNCHANGED <<queue, job, task, working_count, thread_count, shutdown, dpc, fault>>

WakeUp(w) ==
  /\ wpc[w] = "waiting"
  /\ wpc' = [wpc EXCEPT ![w] = "loop"]
  /\ UNCHANGED <<queue, job, task, working_count, thread_count, shutdown, dpc, fault>>

TakenNone == queue
TakenAll == <<>>

\* The list after get_worker
Taken == Tail(queue)

UncountedStart == working_count

\* working_count++
CountedStart == working_count + 1

\* What lets a thread through to get_worker
Takeable == queue # <<>> /\ ~shutdown

\* get_worker and working_count++ in one critical section
Take(w) ==
  /\ wpc[w] = "loop"
  /\ Takeable
  /\ queue' = Taken
  /\ job' = [job EXCEPT ![Head(queue)] = "running"]
  /\ task' = [task EXCEPT ![w] = Head(queue)]
  /\ wpc' = [wpc EXCEPT ![w] = "running"]
  /\ working_count' = CountedStart
  /\ UNCHANGED <<thread_count, shutdown, dpc, fault>>

\* worker->fn returns and worker_destroy frees the record
Return(w) ==
  /\ wpc[w] = "running"
  /\ job' = [job EXCEPT ![task[w]] = "done"]
  /\ task' = [task EXCEPT ![w] = NoJob]
  /\ wpc' = [wpc EXCEPT ![w] = "returned"]
  /\ UNCHANGED <<queue, working_count, thread_count, shutdown, dpc, fault>>

Release(w) ==
  /\ wpc[w] = "returned"
  /\ wpc' = [wpc EXCEPT ![w] = "loop"]
  /\ working_count' = working_count - 1
  /\ IF ~shutdown /\ working_count' = 0 /\ queue = <<>>
       THEN SignalIdle
       ELSE UNCHANGED dpc
  /\ UNCHANGED <<queue, job, task, thread_count, shutdown, fault>>

Leave(w) ==
  /\ wpc[w] = "loop"
  /\ shutdown
  /\ wpc' = [wpc EXCEPT ![w] = "gone"]
  /\ thread_count' = thread_count - 1
  /\ SignalIdle
  /\ UNCHANGED <<queue, job, task, working_count, shutdown, fault>>

-----------------------------------------------------------------------------
(***************************************************************************)
(* server_destroy(): thread_pool_wait, thread_pool_destroy (which waits    *)
(* again) and exit.                                                        *)
(***************************************************************************)

Advance(from, to) == dpc = from /\ dpc' = to

WaitsForJobsOnly == working_count # 0

\* The condition on which thread_pool_wait waits
MustWait == (~shutdown /\ working_count # 0) \/ (shutdown /\ thread_count # 0)

SigInt ==
  /\ Advance("sigwait", "wait")
  /\ UNCHANGED <<queue, job, wpc, task, working_count, thread_count, shutdown, fault>>

WaitIdle ==
  /\ dpc = "wait"
  /\ dpc' = IF MustWait THEN "wait_cond" ELSE "destroy"
  /\ UNCHANGED <<queue, job, wpc, task, working_count, thread_count, shutdown, fault>>

\* Frees every record of the list and leaves head and tail pointing at them.
Destroy ==
  /\ Advance("destroy", "join")
  /\ job' = [j \in Jobs |-> IF job[j] = "queued" THEN "freed" ELSE job[j]]
  /\ shutdown' = TRUE
  /\ Broadcast
  /\ UNCHANGED <<queue, task, working_count, thread_count, fault>>

Join ==
  /\ dpc = "join"
  /\ dpc' = IF MustWait THEN "join_cond" ELSE "free"
  /\ UNCHANGED <<queue, job, wpc, task, working_count, thread_count, shutdown, fault>>

ShutdownWakeUp ==
  /\ \/ Advance("wait_cond", "wait")
     \/ Advance("join_cond", "join")
  /\ UNCHANGED <<queue, job, wpc, task, working_count, thread_count, shutdown, fault>>

FreePool ==
  /\ Advance("free", "freed")
  /\ UNCHANGED <<queue, job, wpc, task, working_count, thread_count, shutdown, fault>>

Exit ==
  /\ Advance("freed", "exited")
  /\ UNCHANGED <<queue, job, wpc, task, working_count, thread_count, shutdown, fault>>

-----------------------------------------------------------------------------
Submit == \E j \in Jobs : Add(j) \/ AddToFreedPool(j)

Work(w) == Sleep(w) \/ Take(w) \/ Return(w) \/ Release(w) \/ Leave(w)

Shutdown == WaitIdle \/ Destroy \/ Join \/ FreePool \/ Exit

Next ==
  \/ Submit
  \/ \E w \in Workers : Work(w) \/ WakeUp(w)
  \/ SigInt
  \/ Shutdown
  \/ ShutdownWakeUp

Spec == Init /\ [][Next]_vars

(***************************************************************************)
(* The scheduler runs every thread that is not blocked, and every job      *)
(* returns.  Nothing forces a submission, a SIGINT or a spurious wake-up.  *)
(***************************************************************************)
Fairness ==
  /\ \A w \in Workers : WF_vars(Work(w))
  /\ WF_vars(Shutdown)

FairSpec == Spec /\ Fairness

-----------------------------------------------------------------------------
(***************************************************************************)
(* Properties.                                                             *)
(***************************************************************************)

\* The type of every variable.
TypeOK ==
  /\ queue \in Seq(Jobs)
  /\ job \in [Jobs -> JobStates]
  /\ wpc \in [Workers -> WorkerStates]
  /\ task \in [Workers -> Jobs \cup {NoJob}]
  /\ working_count \in Nat
  /\ thread_count \in Nat
  /\ shutdown \in BOOLEAN
  /\ dpc \in ShutdownStates
  /\ fault \subseteq {"record", "pool"}

\* working_count counts the threads between the two critical sections of a
\* job and thread_count the threads that have not left work(): the shutdown
\* thread takes both numbers for the state of the threads.
CountsExact ==
  /\ working_count = Cardinality(Busy)
  /\ thread_count = Cardinality(Live)

\* The record a thread executes is its own: no other thread executes it and
\* nobody has freed it.
TaskExclusive ==
  \A w \in Workers : wpc[w] = "running" =>
    /\ task[w] \in Jobs
    /\ job[task[w]] = "running"
    /\ \A v \in Workers : wpc[v] = "running" /\ task[v] = task[w] => v = w

\* Until thread_pool_destroy runs, the list is made of live records, each once,
\* and no accepted job has fallen out of it.
QueueSound ==
  ~shutdown =>
    /\ \A i \in 1..Len(queue) : job[queue[i]] = "queued"
    /\ \A i, k \in 1..Len(queue) : queue[i] = queue[k] => i = k
    /\ \A j \in Jobs : job[j] = "queued" => \E i \in 1..Len(queue) : queue[i] = j

\* thread_pool_destroy frees the pool only when no thread of the pool can touch
\* it again.
PoolOutlivesThreads ==
  dpc \in {"free", "freed", "exited"} => \A w \in Workers : wpc[w] = "gone"

\* Once SIGINT has arrived, the process exits, whatever the threads were doing.
ShutdownCompletes == dpc # "sigwait" ~> dpc = "exited"

\* While nobody shuts the pool down, an accepted job is eventually started: no
\* wake-up is lost.
AcceptedJobStarts ==
  \A j \in Jobs : job[j] = "queued" ~> (job[j] # "queued" \/ shutdown)

\* The pool is a JobQueue.
Dropped == {j \in Jobs : job[j] = "freed" \/ (shutdown /\ job[j] = "queued")}

Phase == CASE dpc \in {"freed", "exited"} -> "stopped"
           [] shutdown /\ dpc \notin {"freed", "exited"} -> "closed"
           [] OTHER -> "open"

Abstract == INSTANCE JobQueue WITH
  pending  <- IF shutdown THEN <<>> ELSE queue,
  running  <- {j \in Jobs : job[j] = "running"},
  finished <- {j \in Jobs : job[j] = "done"},
  dropped  <- Dropped,
  phase    <- Phase

\* The pool implements the queue of jobs it stands for: in order, at most once,
\* nothing after shutdown, no thread left when the memory is freed.
ImplementsJobQueue == Abstract!Spec

-----------------------------------------------------------------------------
\* core/src/main.cc:238 "Wait for in-progress requests threads to finish": the
\* shutdown thread lets every accepted job run before it takes the pool down.
AcceptedJobsAreKept == \A j \in Jobs : job[j] # "freed"
=============================================================================
