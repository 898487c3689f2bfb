-------------------------- MODULE ThreadPoolProofs --------------------------
(***************************************************************************)
(* For any number of threads and any set of jobs: the counters of the pool *)
(* are exact, the pool is freed only when its threads are gone, and no     *)
(* record is run twice or after it was freed.                              *)
(***************************************************************************)
EXTENDS ThreadPool, FiniteSetTheorems, TLAPS

-----------------------------------------------------------------------------
(***************************************************************************)
(* The counters.                                                           *)
(***************************************************************************)

CountInv == TypeOK /\ CountsExact

\* Adding a thread to a set of threads, or taking one away, moves its
\* cardinality by one: working_count and thread_count follow Busy and Live.
LEMMA Counting ==
  ASSUME NEW S \in SUBSET Workers, NEW w \in Workers
  PROVE  /\ Cardinality(S) \in Nat
         /\ w \notin S => Cardinality(S \cup {w}) = Cardinality(S) + 1
         /\ w \in S => Cardinality(S \ {w}) = Cardinality(S) - 1
         /\ w \in S => Cardinality(S) # 0
<1>1. IsFiniteSet(S)
  BY PoolAssumption, FS_Subset
<1>2. IsFiniteSet(S \ {w}) /\ Cardinality(S \ {w}) \in Nat
  BY <1>1, FS_RemoveElement, FS_CardinalityType
<1> QED
  BY <1>1, <1>2, FS_CardinalityType, FS_AddElement, FS_RemoveElement

LEMMA CountInit == Init => CountInv
<1> SUFFICES ASSUME Init PROVE CountInv
  OBVIOUS
<1>1. TypeOK
  <2>1. Cardinality(Workers) \in Nat
    BY PoolAssumption, FS_CardinalityType
  <2>2. /\ job \in [Jobs -> JobStates]
        /\ wpc \in [Workers -> WorkerStates]
        /\ task \in [Workers -> Jobs \cup {NoJob}]
    BY DEF Init, JobStates, WorkerStates
  <2>3. queue \in Seq(Jobs) /\ dpc \in ShutdownStates /\ fault = {}
    BY DEF Init, ShutdownStates
  <2>4. working_count \in Nat /\ thread_count \in Nat /\ shutdown \in BOOLEAN
    BY <2>1 DEF Init
  <2> QED
    BY <2>2, <2>3, <2>4 DEF TypeOK
<1>2. Busy = {} /\ Live = Workers
  BY DEF Init, Busy, Live
<1>3. Cardinality({}) = 0
  BY FS_EmptySet
<1> QED
  BY <1>1, <1>2, <1>3 DEF CountInv, CountsExact, Init

\* Threads that change place without crossing the border of Busy or Live
\* leave the counters alone.
LEMMA CountStep == CountInv /\ [Next]_vars => CountInv'
<1> SUFFICES ASSUME CountInv, [Next]_vars PROVE CountInv'
  OBVIOUS
<1> USE DEF CountInv, TypeOK, CountsExact
<1>1. ASSUME NEW j \in Jobs, Add(j) PROVE CountInv'
  <2>1. Busy' = Busy /\ Live' = Live
    BY <1>1 DEF Add, Broadcast, Busy, Live
  <2> QED
    BY <1>1, <2>1 DEF Add, Added, Broadcast, JobStates, WorkerStates
<1>2. ASSUME NEW j \in Jobs, AddToFreedPool(j) PROVE CountInv'
  <2>1. Busy' = Busy /\ Live' = Live
    BY <1>2 DEF AddToFreedPool, Busy, Live
  <2> QED
    BY <1>2, <2>1 DEF AddToFreedPool, JobStates
<1>3. ASSUME NEW w \in Workers, Sleep(w) \/ WakeUp(w) PROVE CountInv'
  <2>1. Busy' = Busy /\ Live' = Live
    BY <1>3 DEF Sleep, WakeUp, Busy, Live
  <2> QED
    BY <1>3, <2>1 DEF Sleep, WakeUp, WorkerStates
<1>4. ASSUME NEW w \in Workers, Take(w) PROVE CountInv'
  <2>1. w \notin Busy /\ Busy' = Busy \cup {w} /\ Live' = Live
    BY <1>4 DEF Take, Busy, Live
  <2>2. Cardinality(Busy') = Cardinality(Busy) + 1
    BY <2>1, Counting DEF Busy
  <2>3. Head(queue) \in Jobs /\ Tail(queue) \in Seq(Jobs)
    BY <1>4 DEF Take, Takeable
  <2> QED
    BY <1>4, <2>1, <2>2, <2>3 DEF Take, Taken, CountedStart, JobStates, WorkerStates
<1>5. ASSUME NEW w \in Workers, Return(w) PROVE CountInv'
  <2>1. Busy' = Busy /\ Live' = Live
    BY <1>5 DEF Return, Busy, Live
  <2> QED
    BY <1>5, <2>1 DEF Return, JobStates, WorkerStates
<1>6. ASSUME NEW w \in Workers, Release(w) PROVE CountInv'
  <2>1. w \in Busy /\ Busy' = Busy \ {w} /\ Live' = Live
    BY <1>6 DEF Release, Busy, Live
  <2>2. /\ Cardinality(Busy') = Cardinality(Busy) - 1
        /\ Cardinality(Busy) # 0
    BY <2>1, Counting DEF Busy
  <2>3. dpc' \in ShutdownStates
    BY <1>6 DEF Release, SignalIdle, ShutdownStates
  <2> QED
    BY <1>6, <2>1, <2>2, <2>3 DEF Release, WorkerStates
<1>7. ASSUME NEW w \in Workers, Leave(w) PROVE CountInv'
  <2>1. w \in Live /\ Live' = Live \ {w} /\ Busy' = Busy
    BY <1>7 DEF Leave, Busy, Live
  <2>2. /\ Cardinality(Live') = Cardinality(Live) - 1
        /\ Cardinality(Live) # 0
    BY <2>1, Counting DEF Live
  <2>3. dpc' \in ShutdownStates
    BY <1>7 DEF Leave, SignalIdle, ShutdownStates
  <2> QED
    BY <1>7, <2>1, <2>2, <2>3 DEF Leave, WorkerStates
<1>8. ASSUME SigInt \/ WaitIdle \/ Join \/ FreePool \/ Exit \/ ShutdownWakeUp
      PROVE  CountInv'
  <2>1. Busy' = Busy /\ Live' = Live
    BY <1>8 DEF SigInt, WaitIdle, Join, FreePool, Exit, ShutdownWakeUp, Busy, Live
  <2>2. dpc' \in ShutdownStates
    BY <1>8 DEF SigInt, WaitIdle, Join, FreePool, Exit, ShutdownWakeUp, Advance, ShutdownStates
  <2> QED
    BY <1>8, <2>1, <2>2 DEF SigInt, WaitIdle, Join, FreePool, Exit, ShutdownWakeUp
<1>9. CASE Destroy
  <2>1. Busy' = Busy /\ Live' = Live
    BY <1>9 DEF Destroy, Broadcast, Busy, Live
  <2> QED
    BY <1>9, <2>1 DEF Destroy, Broadcast, Advance, JobStates, WorkerStates, ShutdownStates
<1>10. CASE UNCHANGED vars
  <2>1. Busy' = Busy /\ Live' = Live
    BY <1>10 DEF vars, Busy, Live
  <2> QED
    BY <1>10, <2>1 DEF vars
<1> QED
  BY <1>1, <1>2, <1>3, <1>4, <1>5, <1>6, <1>7, <1>8, <1>9, <1>10
     DEF Next, Submit, Work, Shutdown

\* The type invariant: working_count never goes below zero and every thread
\* and every job is in a state work() and thread_pool_add can leave it in.
THEOREM TypeCorrect == Spec => []TypeOK
<1>1. CountInv => TypeOK
  BY DEF CountInv
<1> QED
  BY CountInit, CountStep, <1>1, PTL DEF Spec

\* The counters that thread_pool_wait reads are the numbers of threads they
\* stand for, in every reachable state.
THEOREM CountsCorrect == Spec => []CountsExact
<1>1. CountInv => CountsExact
  BY DEF CountInv
<1> QED
  BY CountInit, CountStep, <1>1, PTL DEF Spec

-----------------------------------------------------------------------------
(***************************************************************************)
(* The life of the pool.                                                   *)
(***************************************************************************)

ClosedStates == {"join", "join_cond", "free", "freed", "exited"}

\* What lets the shutdown thread conclude from thread_count = 0 that the pool
\* is unused: the flag is set from Destroy on, so a thread that has left stays
\* away and thread_pool_wait looks at thread_count.
PoolInv ==
  /\ CountInv
  /\ shutdown <=> dpc \in ClosedStates
  /\ PoolOutlivesThreads

LEMMA PoolInit == Init => PoolInv
  BY CountInit DEF Init, PoolInv, ClosedStates, PoolOutlivesThreads

LEMMA PoolStep == PoolInv /\ [Next]_vars => PoolInv'
<1> SUFFICES ASSUME PoolInv, [Next]_vars PROVE PoolInv'
  OBVIOUS
<1>0. CountInv' /\ TypeOK /\ CountsExact
  BY CountStep DEF PoolInv, CountInv
<1> USE DEF PoolInv, ClosedStates, PoolOutlivesThreads
<1>1. ASSUME NEW j \in Jobs, Add(j) \/ AddToFreedPool(j) PROVE PoolInv'
  BY <1>0, <1>1 DEF Add, AddToFreedPool, Broadcast, TypeOK
<1>2. ASSUME NEW w \in Workers, Sleep(w) \/ WakeUp(w) \/ Take(w) \/ Return(w)
      PROVE  PoolInv'
  BY <1>0, <1>2 DEF Sleep, WakeUp, Take, Return, TypeOK
<1>3. ASSUME NEW w \in Workers, Release(w) \/ Leave(w) PROVE PoolInv'
  BY <1>0, <1>3 DEF Release, Leave, SignalIdle, TypeOK
<1>4. CASE SigInt \/ WaitIdle \/ ShutdownWakeUp \/ Destroy
  BY <1>0, <1>4 DEF SigInt, WaitIdle, ShutdownWakeUp, Destroy, Advance
<1>5. CASE Join
  <2>1. thread_count = 0 => \A w \in Workers : wpc[w] = "gone"
    <3>1. ASSUME NEW w \in Workers, wpc[w] # "gone" PROVE thread_count # 0
      <4>1. w \in Live /\ Live \in SUBSET Workers
        BY <3>1 DEF Live
      <4> QED
        BY <1>0, <4>1, Counting DEF CountsExact
    <3> QED
      BY <3>1
  <2> QED
    BY <1>0, <1>5, <2>1 DEF Join, MustWait
<1>6. CASE FreePool \/ Exit \/ UNCHANGED vars
  BY <1>0, <1>6 DEF FreePool, Exit, Advance, vars
<1> QED
  BY <1>1, <1>2, <1>3, <1>4, <1>5, <1>6 DEF Next, Submit, Work, Shutdown

\* thread_pool_destroy frees the mutex and the pool only when no thread is
\* left that could lock the mutex again.
THEOREM PoolOutlivesThreadsAlways == Spec => []PoolOutlivesThreads
<1>1. PoolInv => PoolOutlivesThreads
  BY DEF PoolInv
<1> QED
  BY PoolInit, PoolStep, <1>1, PTL DEF Spec

-----------------------------------------------------------------------------
(***************************************************************************)
(* The records.                                                            *)
(***************************************************************************)

\* A record marked as running is in the hands of a thread.
RunningHeld ==
  \A j \in Jobs : job[j] = "running" =>
    \E w \in Workers : wpc[w] = "running" /\ task[w] = j

\* TaskExclusive alone is not inductive: a thread takes the head of the list,
\* so the list must hold only records that no thread executes.
JobInv ==
  /\ TypeOK
  /\ TaskExclusive
  /\ RunningHeld
  /\ QueueSound

LEMMA JobInit == Init => JobInv
<1> SUFFICES ASSUME Init PROVE JobInv
  OBVIOUS
<1>1. TypeOK
  BY CountInit DEF CountInv
<1>2. TaskExclusive /\ RunningHeld
  BY DEF Init, TaskExclusive, RunningHeld
<1>3. QueueSound
  BY DEF Init, QueueSound
<1> QED
  BY <1>1, <1>2, <1>3 DEF JobInv

\* Take is the only action that hands a record to a thread.
LEMMA TakeKeepsJobInv ==
  ASSUME JobInv, NEW w \in Workers, Take(w)
  PROVE  TaskExclusive' /\ RunningHeld' /\ QueueSound'
<1> DEFINE h == Head(queue)
<1> USE DEF JobInv, TypeOK, Take, Takeable, Taken
<1>1. h \in Jobs /\ h = queue[1] /\ Len(queue) \in Nat \ {0}
  OBVIOUS
<1>2. job[h] = "queued"
  BY <1>1 DEF QueueSound
<1>3. /\ job' = [job EXCEPT ![h] = "running"]
      /\ task' = [task EXCEPT ![w] = h]
      /\ wpc' = [wpc EXCEPT ![w] = "running"]
      /\ wpc[w] = "loop"
  OBVIOUS
<1> HIDE DEF h
<1>4. TaskExclusive'
  BY <1>1, <1>2, <1>3 DEF TaskExclusive
<1>5. RunningHeld'
  BY <1>1, <1>2, <1>3 DEF RunningHeld
<1>6. QueueSound'
  <2>1. /\ Len(queue') = Len(queue) - 1
        /\ \A i \in 1..Len(queue') : queue'[i] = queue[i + 1] /\ i + 1 \in 1..Len(queue)
    BY <1>1
  <2>2. \A i \in 1..Len(queue') : queue'[i] # h /\ queue'[i] \in Jobs
    BY <1>1, <2>1 DEF QueueSound
  <2>3. \A i \in 1..Len(queue') : job'[queue'[i]] = "queued"
    BY <1>3, <2>1, <2>2 DEF QueueSound
  <2>4. \A i, k \in 1..Len(queue') : queue'[i] = queue'[k] => i = k
    BY <2>1 DEF QueueSound
  <2>5. ASSUME NEW j \in Jobs, job'[j] = "queued"
        PROVE  \E i \in 1..Len(queue') : queue'[i] = j
    <3>1. j # h /\ job[j] = "queued"
      BY <1>1, <1>3, <2>5
    <3>2. PICK i \in 1..Len(queue) : queue[i] = j
      BY <3>1 DEF QueueSound
    <3>3. i # 1 /\ i - 1 \in 1..Len(queue')
      BY <1>1, <2>1, <3>1, <3>2
    <3>4. queue'[i - 1] = j
      BY <2>1, <3>2, <3>3
    <3> QED
      BY <3>3, <3>4
  <2> QED
    BY <2>3, <2>4, <2>5 DEF QueueSound
<1> QED
  BY <1>4, <1>5, <1>6

LEMMA AddKeepsJobInv ==
  ASSUME JobInv, NEW j \in Jobs, Add(j)
  PROVE  TaskExclusive' /\ RunningHeld' /\ QueueSound'
<1> USE DEF JobInv, TypeOK, Add, Added, Broadcast
<1>1. \A w \in Workers : wpc'[w] = "running" <=> wpc[w] = "running"
  OBVIOUS
<1>2. TaskExclusive' /\ RunningHeld'
  BY <1>1 DEF TaskExclusive, RunningHeld
<1>3. QueueSound'
  <2>1. /\ Len(queue) \in Nat
        /\ Len(queue') = Len(queue) + 1
        /\ \A i \in 1..Len(queue) : queue'[i] = queue[i] /\ queue[i] \in Jobs
        /\ queue'[Len(queue) + 1] = j
    OBVIOUS
  <2>2. job' = [job EXCEPT ![j] = "queued"] /\ job[j] = "new" /\ shutdown' = shutdown
    OBVIOUS
  <2> QED
    BY <2>1, <2>2 DEF QueueSound
<1> QED
  BY <1>2, <1>3

LEMMA JobStep == PoolInv /\ JobInv /\ [Next]_vars => JobInv'
<1> SUFFICES ASSUME PoolInv, JobInv, [Next]_vars
             PROVE  TaskExclusive' /\ RunningHeld' /\ QueueSound'
  BY PoolStep DEF JobInv, PoolInv, CountInv
<1> USE DEF JobInv, TypeOK
<1>1. ASSUME NEW j \in Jobs, AddToFreedPool(j)
      PROVE  TaskExclusive' /\ RunningHeld' /\ QueueSound'
  <2>1. shutdown'
    BY <1>1 DEF AddToFreedPool, PoolInv, ClosedStates
  <2> QED
    BY <1>1, <2>1 DEF AddToFreedPool, TaskExclusive, RunningHeld, QueueSound
<1>2. ASSUME NEW w \in Workers, Sleep(w) \/ WakeUp(w) \/ Release(w) \/ Leave(w)
      PROVE  TaskExclusive' /\ RunningHeld' /\ QueueSound'
  <2>1. /\ \A v \in Workers : wpc'[v] = "running" <=> wpc[v] = "running"
        /\ UNCHANGED <<queue, job, task, shutdown>>
    BY <1>2 DEF Sleep, WakeUp, Release, Leave
  <2> QED
    BY <2>1 DEF TaskExclusive, RunningHeld, QueueSound
<1>3. ASSUME NEW w \in Workers, Return(w)
      PROVE  TaskExclusive' /\ RunningHeld' /\ QueueSound'
  <2>1. task[w] \in Jobs /\ job[task[w]] = "running"
    BY <1>3 DEF Return, TaskExclusive
  <2>2. TaskExclusive' /\ RunningHeld'
    BY <1>3, <2>1 DEF Return, TaskExclusive, RunningHeld
  <2>3. QueueSound'
    BY <1>3, <2>1 DEF Return, QueueSound
  <2> QED
    BY <2>2, <2>3
<1>4. CASE SigInt \/ WaitIdle \/ Join \/ FreePool \/ Exit \/ ShutdownWakeUp \/ UNCHANGED vars
  <2>1. UNCHANGED <<queue, job, wpc, task, shutdown>>
    BY <1>4 DEF SigInt, WaitIdle, Join, FreePool, Exit, ShutdownWakeUp, vars
  <2> QED
    BY <2>1 DEF TaskExclusive, RunningHeld, QueueSound
<1>5. CASE Destroy
  <2>1. /\ \A v \in Workers : wpc'[v] = "running" <=> wpc[v] = "running"
        /\ \A j \in Jobs : job'[j] = "running" <=> job[j] = "running"
        /\ UNCHANGED task
        /\ shutdown'
    BY <1>5 DEF Destroy, Broadcast
  <2> QED
    BY <2>1 DEF TaskExclusive, RunningHeld, QueueSound
<1> QED
  BY <1>1, <1>2, <1>3, <1>4, <1>5, TakeKeepsJobInv, AddKeepsJobInv
     DEF Next, Submit, Work, Shutdown

PoolJobInv == PoolInv /\ JobInv

LEMMA PoolJobInvariant == Spec => []PoolJobInv
<1>1. PoolInv /\ JobInv => PoolJobInv
  BY DEF PoolJobInv
<1> QED
  BY PoolInit, PoolStep, JobInit, JobStep, <1>1, PTL DEF Spec

\* No two threads of work() execute the same record, and none executes a
\* record after worker_destroy or thread_pool_destroy freed it.
THEOREM TaskExclusiveAlways == Spec => []TaskExclusive
<1>1. PoolJobInv => TaskExclusive
  BY DEF PoolJobInv, JobInv
<1> QED
  BY PoolJobInvariant, <1>1, PTL

\* Until shutdown the list of the pool holds every accepted job that has not
\* started, once: get_worker and thread_pool_add lose and duplicate nothing.
THEOREM QueueSoundAlways == Spec => []QueueSound
<1>1. PoolJobInv => QueueSound
  BY DEF PoolJobInv, JobInv
<1> QED
  BY PoolJobInvariant, <1>1, PTL

-----------------------------------------------------------------------------
(***************************************************************************)
(* Refinement.                                                             *)
(***************************************************************************)

\* The list, the threads and the flags together behave like JobQueue.
THEOREM PoolImplementsJobQueue == Spec => ImplementsJobQueue
<1> DEFINE pending == IF shutdown THEN <<>> ELSE queue
           running == {j \in Jobs : job[j] = "running"}
           finished == {j \in Jobs : job[j] = "done"}
<1>1. Init => Abstract!Init
  BY DEF Init, Abstract!Init, Dropped, Phase
<1>2. PoolJobInv /\ [Next]_vars => [Abstract!Next]_(Abstract!vars)
  <2> SUFFICES ASSUME PoolJobInv, [Next]_vars
               PROVE  Abstract!Next \/ UNCHANGED Abstract!vars
    OBVIOUS
  <2> USE DEF PoolJobInv, PoolInv, JobInv, TypeOK, ClosedStates
  <2>1. ASSUME NEW j \in Jobs, Add(j) PROVE Abstract!Next
    <3>1. j \notin running /\ j \notin finished /\ j \notin Dropped
      BY <2>1 DEF Add, Dropped
    <3>2. CASE ~shutdown
      <4>1. j \in Abstract!Unsubmitted
        BY <2>1, <3>1, <3>2 DEF Add, QueueSound, Abstract!Unsubmitted, Abstract!InPending
      <4>2. Abstract!Submit(j)
        BY <2>1, <3>2, <4>1 DEF Add, Added, Abstract!Submit, Phase, Dropped
      <4> QED
        BY <4>2 DEF Abstract!Next
    <3>3. CASE shutdown
      <4>1. j \in Abstract!Unsubmitted
        BY <2>1, <3>1, <3>3 DEF Add, Abstract!Unsubmitted, Abstract!InPending
      <4>2. Abstract!SubmitTooLate(j)
        BY <2>1, <3>3, <4>1 DEF Add, Abstract!SubmitTooLate, Phase, Dropped
      <4> QED
        BY <4>2 DEF Abstract!Next
    <3> QED
      BY <3>2, <3>3
  <2>2. ASSUME NEW j \in Jobs, AddToFreedPool(j) PROVE Abstract!Next
    <3>1. shutdown
      BY <2>2 DEF AddToFreedPool
    <3>2. j \in Abstract!Unsubmitted
      BY <2>2, <3>1 DEF AddToFreedPool, Abstract!Unsubmitted, Abstract!InPending, Dropped
    <3>3. Abstract!SubmitTooLate(j)
      BY <2>2, <3>1, <3>2 DEF AddToFreedPool, Abstract!SubmitTooLate, Phase, Dropped
    <3> QED
      BY <3>3 DEF Abstract!Next
  <2>3. ASSUME NEW w \in Workers, Sleep(w) \/ WakeUp(w) PROVE UNCHANGED Abstract!vars
    BY <2>3 DEF Sleep, WakeUp, Abstract!vars, Dropped, Phase
  <2>4. ASSUME NEW w \in Workers, Take(w) PROVE Abstract!Next
    <3>1. Head(queue) \in Jobs /\ job[Head(queue)] = "queued"
      BY <2>4 DEF Take, Takeable, QueueSound
    <3>2. Abstract!Start
      BY <2>4, <3>1 DEF Take, Takeable, Taken, Abstract!Start, Phase, Dropped
    <3> QED
      BY <3>2 DEF Abstract!Next
  <2>5. ASSUME NEW w \in Workers, Return(w) PROVE Abstract!Next
    <3>1. PICK j \in Jobs : j = task[w] /\ job[j] = "running"
      BY <2>5 DEF Return, TaskExclusive
    <3>2. Abstract!Finish(j)
      BY <2>5, <3>1 DEF Return, Abstract!Finish, Phase, Dropped
    <3> QED
      BY <3>2 DEF Abstract!Next
  <2>6. ASSUME NEW w \in Workers, Release(w) \/ Leave(w) PROVE UNCHANGED Abstract!vars
    <3>1. UNCHANGED <<queue, job, shutdown>>
      BY <2>6 DEF Release, Leave
    <3>2. Phase' = Phase
      BY <2>6 DEF Release, Leave, SignalIdle, Phase
    <3> QED
      BY <3>1, <3>2 DEF Abstract!vars, Dropped
  <2>7. CASE SigInt \/ WaitIdle \/ Join \/ Exit \/ ShutdownWakeUp \/ UNCHANGED vars
    <3>1. UNCHANGED <<queue, job, shutdown>>
      BY <2>7 DEF SigInt, WaitIdle, Join, Exit, ShutdownWakeUp, vars
    <3>2. Phase' = Phase
      BY <2>7 DEF SigInt, WaitIdle, Join, Exit, ShutdownWakeUp, Advance, vars, Phase
    <3> QED
      BY <3>1, <3>2 DEF Abstract!vars, Dropped
  <2>8. CASE Destroy
    <3>1. ~shutdown /\ Phase = "open" /\ Phase' = "closed"
      BY <2>8 DEF Destroy, Advance, Phase
    <3>2. Abstract!InPending = {j \in Jobs : job[j] = "queued"}
      BY <3>1 DEF Abstract!InPending, QueueSound
    <3>3. Dropped' = Dropped \cup {j \in Jobs : job[j] = "queued"}
      BY <2>8, <3>1 DEF Destroy, Dropped
    <3>4. UNCHANGED <<running, finished>> /\ shutdown'
      BY <2>8 DEF Destroy
    <3>5. Abstract!Close
      BY <3>1, <3>2, <3>3, <3>4 DEF Abstract!Close
    <3> QED
      BY <3>5 DEF Abstract!Next
  <2>9. CASE FreePool
    <3>1. running = {}
      BY <2>9 DEF FreePool, Advance, PoolOutlivesThreads, RunningHeld
    <3>2. Phase = "closed" /\ Phase' = "stopped"
      BY <2>9 DEF FreePool, Advance, Phase
    <3>3. Abstract!Stop
      BY <2>9, <3>1, <3>2 DEF FreePool, Abstract!Stop, Dropped
    <3> QED
      BY <3>3 DEF Abstract!Next
  <2> QED
    BY <2>1, <2>2, <2>3, <2>4, <2>5, <2>6, <2>7, <2>8, <2>9
       DEF Next, Submit, Work, Shutdown
<1> QED
  BY PoolJobInvariant, <1>1, <1>2, PTL DEF Spec, ImplementsJobQueue, Abstract!Spec
=============================================================================
