-------------------------- MODULE ThreadPoolProofs --------------------------
(***************************************************************************)
(* Proofs about ThreadPool for every number of threads, clients, tasks and *)
(* every queue size.                                                       *)
(***************************************************************************)
EXTENDS ThreadPool, FiniteSetTheorems, SequenceTheorems, TLAPS

USE NumThreadsAssumption, QueueSizeAssumption, OwnerAssumption,
    ClientsAssumption, NoTaskAssumption, MaxWaitsAssumption, SwitchAssumption

\* pool->active is the number of workers that run a task.
ActiveCounts == active = Cardinality(Running)

\* The inductive invariant: ActiveCounts bounds active for TypeOK.
IInv == TypeOK /\ ActiveCounts /\ NoLostWakeup

-----------------------------------------------------------------------------
\* The workers are a finite set of NumThreads threads, and so is any part.
LEMMA WorkersFinite ==
    /\ IsFiniteSet(Workers)
    /\ Cardinality(Workers) = NumThreads
    /\ \A S \in SUBSET Workers :
          IsFiniteSet(S) /\ Cardinality(S) \in 0 .. NumThreads
<1>1. IsFiniteSet(Workers) /\ Cardinality(Workers) = NumThreads
  BY FS_Interval, 1 \in Int, NumThreads \in Int, 1 <= NumThreads DEF Workers
<1>2. ASSUME NEW S \in SUBSET Workers
      PROVE  IsFiniteSet(S) /\ Cardinality(S) \in 0 .. NumThreads
  <2>1. IsFiniteSet(S) /\ Cardinality(S) <= NumThreads
    BY <1>1, FS_Subset
  <2>2. Cardinality(S) \in Nat
    BY <2>1, FS_CardinalityType
  <2> QED BY <2>1, <2>2
<1> QED BY <1>1, <1>2

\* Adding and removing one element of a finite set.
LEMMA Counting ==
    ASSUME NEW S, IsFiniteSet(S)
    PROVE  /\ Cardinality(S) \in Nat
           /\ \A x : x \notin S => Cardinality(S \cup {x}) = Cardinality(S) + 1
           /\ \A x : x \in S => Cardinality(S \ {x}) = Cardinality(S) - 1
<1>1. Cardinality(S) \in Nat
  BY FS_CardinalityType
<1>2. ASSUME NEW x, x \notin S PROVE Cardinality(S \cup {x}) = Cardinality(S) + 1
  BY <1>2, FS_AddElement
<1>3. ASSUME NEW x, x \in S PROVE Cardinality(S \ {x}) = Cardinality(S) - 1
  BY <1>3, FS_RemoveElement
<1> QED BY <1>1, <1>2, <1>3

\* The worker about to be started has no thread yet.
LEMMA SpawningNone == \A w \in Workers : Spawning(w) => wpc[w] = "none"
BY DEF Spawning, Workers

\* pool_create starts with an empty pool and no thread.
LEMMA InitIInv == Init => IInv
<1> SUFFICES ASSUME Init PROVE IInv
  OBVIOUS
<1>1. TypeOK
  <2>1. shutdown \in BOOLEAN
    BY Zenon DEF Init
  <2>2. cpc \in [Clients -> ClientStates]
    BY DEF Init, ClientStates
  <2>3. queue \in [0 .. QueueSize - 1 -> Tasks \cup {NoTask}]
    BY DEF Init
  <2>4. head \in 0 .. QueueSize - 1 /\ tail \in 0 .. QueueSize - 1 /\ count \in 0 .. QueueSize /\ active \in 0 .. NumThreads /\ waits \in 0 .. MaxWaits
    BY DEF Init
  <2>5. res \subseteq Resources /\ condNotEmpty = {} /\ condNotFull = {} /\ condFinished = {}
    BY DEF Init
  <2>6. wpc \in [Workers -> WorkerStates] /\ wtask \in [Workers -> Tasks \cup {NoTask}]
    BY DEF Init, WorkerStates
  <2>7. carg \in [Clients -> Tasks \cup {NoTask}] /\ status \in [Tasks -> TaskStates]
       /\ snap \in [Clients -> SUBSET Tasks]
    BY DEF Init, TaskStates
  <2> QED BY <2>1, <2>2, <2>3, <2>4, <2>5, <2>6, <2>7 DEF TypeOK
<1>2. Running = {}
  BY DEF Init, Running
<1>3. ActiveCounts
  BY <1>2, FS_EmptySet DEF Init, ActiveCounts
<1>4. NoLostWakeup
  BY DEF Init, NoLostWakeup, TaskWakeups, SlotWakeups, FinishWakeups, ShutdownWakeups
<1> QED BY <1>1, <1>3, <1>4 DEF IInv

-----------------------------------------------------------------------------
\* A signal leaves a part of the sleepers asleep, a broadcast none.
LEMMA WakeOneShrinks ==
    ASSUME NEW S, NEW T \in WakeOne(S)
    PROVE  /\ T \subseteq S
           /\ S = {} => T = {}
           /\ S # {} => \E x \in S : T = S \ {x}
BY DEF WakeOne

\* The ring indices stay inside pool->queue.
LEMMA NextSlotInRing ==
    ASSUME NEW i \in 0 .. QueueSize - 1
    PROVE  NextSlot(i) \in 0 .. QueueSize - 1
BY DEF NextSlot

\* A worker that runs a task is counted, one that does not leaves room.
LEMMA RunningBounds ==
    ASSUME TypeOK, NEW w \in Workers
    PROVE  /\ IsFiniteSet(Running)
           /\ wpc[w] = "run" => Cardinality(Running) \in 1 .. NumThreads
           /\ wpc[w] # "run" => Cardinality(Running) \in 0 .. NumThreads - 1
<1>1. Running \in SUBSET Workers
  BY DEF Running
<1>2. IsFiniteSet(Running) /\ Cardinality(Running) \in 0 .. NumThreads
  BY <1>1, WorkersFinite
<1>3. ASSUME wpc[w] = "run" PROVE Cardinality(Running) # 0
  BY <1>2, <1>3, FS_EmptySet DEF Running
<1>4. ASSUME wpc[w] # "run" PROVE Cardinality(Running) < NumThreads
  <2>1. w \notin Running
    BY <1>4 DEF Running
  <2>2. Cardinality(Running \cup {w}) = Cardinality(Running) + 1
    BY <1>2, <2>1, FS_AddElement
  <2>3. Running \cup {w} \in SUBSET Workers
    BY <1>1
  <2>4. Cardinality(Running \cup {w}) \in 0 .. NumThreads
    BY <2>3, WorkersFinite
  <2> QED BY <1>2, <2>2, <2>4
<1> QED BY <1>2, <1>3, <1>4

\* Storing a task keeps the types of the ring's fields.
LEMMA EnqueueTypes ==
    ASSUME TypeOK, NEW t \in Tasks \cup {NoTask}, count # QueueSize, Enqueue(t)
    PROVE  /\ queue' \in [0 .. QueueSize - 1 -> Tasks \cup {NoTask}]
           /\ tail' \in 0 .. QueueSize - 1
           /\ count' \in 0 .. QueueSize
           /\ condNotEmpty' \subseteq condNotEmpty
<1>1. tail' \in 0 .. QueueSize - 1
  BY NextSlotInRing DEF Enqueue, TypeOK
<1>2. condNotEmpty' \subseteq condNotEmpty
  BY WakeOneShrinks DEF Enqueue
<1> QED BY <1>1, <1>2 DEF Enqueue, TypeOK

\* Every action leaves the types alone; active needs ActiveCounts.
LEMMA TypeStep == TypeOK /\ ActiveCounts /\ [Next]_vars => TypeOK'
<1> SUFFICES ASSUME TypeOK, ActiveCounts, [Next]_vars PROVE TypeOK'
  OBVIOUS
<1> USE DEF TypeOK, ClientStates, WorkerStates, TaskStates,
            poolVars, condVars, workerVars, clientVars, history
<1>1. ASSUME NEW r \in Resources, Acquire(r) PROVE TypeOK'
  BY <1>1 DEF Acquire
<1>2. ASSUME NEW r \in Resources, AcquireFail(r) PROVE TypeOK'
  BY <1>2 DEF AcquireFail
<1>3. ASSUME NEW w \in Workers, SpawnOk(w) PROVE TypeOK'
  BY <1>3 DEF SpawnOk, Spawning
<1>4. ASSUME NEW w \in Workers, SpawnFail(w) PROVE TypeOK'
  BY <1>4 DEF SpawnFail, BeginShutdown, WakeAll
<1>5. CASE Release
  BY <1>5 DEF Release
<1>6. ASSUME NEW w \in Workers, WorkerSleep(w) PROVE TypeOK'
  BY <1>6 DEF WorkerSleep, InLoop
<1>7. ASSUME NEW w \in Workers, WorkerExit(w) PROVE TypeOK'
  BY <1>7 DEF WorkerExit, InLoop
<1>8. ASSUME NEW w \in Workers, WorkerTake(w) PROVE TypeOK'
  <2>1. head' \in 0 .. QueueSize - 1
    BY <1>8, NextSlotInRing DEF WorkerTake
  <2>2. condNotFull' \subseteq condNotFull
    BY <1>8, WakeOneShrinks DEF WorkerTake
  <2>3. active' \in 0 .. NumThreads
    <3>1. Cardinality(Running) \in 0 .. NumThreads - 1
      BY <1>8, RunningBounds DEF WorkerTake, InLoop
    <3> QED BY <1>8, <3>1 DEF WorkerTake, ActiveCounts
  <2>4. count' \in 0 .. QueueSize
    BY <1>8 DEF WorkerTake, WorkerBlocks, WorkerExits
  <2>5. queue[head] \in Tasks \cup {NoTask}
    OBVIOUS
  <2> QED BY <1>8, <2>1, <2>2, <2>3, <2>4, <2>5 DEF WorkerTake, InLoop
<1>9. ASSUME NEW w \in Workers, WorkerFinish(w) PROVE TypeOK'
  <2>1. active' \in 0 .. NumThreads
    <3>1. Cardinality(Running) \in 1 .. NumThreads
      BY <1>9, RunningBounds DEF WorkerFinish
    <3> QED BY <1>9, <3>1 DEF WorkerFinish, ActiveCounts
  <2>2. condFinished' \subseteq condFinished
    BY <1>9 DEF WorkerFinish, WakeAll
  <2> QED BY <1>9, <2>1, <2>2 DEF WorkerFinish
<1>10. ASSUME NEW c \in Clients, SubmitSleep(c) PROVE TypeOK'
  BY <1>10 DEF SubmitSleep, InSubmit
<1>11. ASSUME NEW c \in Clients, SubmitRefuse(c) PROVE TypeOK'
  BY <1>11 DEF SubmitRefuse, InSubmit
<1>12. ASSUME NEW c \in Clients, SubmitAccept(c) PROVE TypeOK'
  <2>1. count # QueueSize /\ Enqueue(carg[c]) /\ carg[c] \in Tasks \cup {NoTask}
    BY <1>12 DEF SubmitAccept, SubmitBlocks
  <2>2. UNCHANGED <<head, active, shutdown, condNotFull, condFinished>>
    BY <2>1 DEF Enqueue
  <2> QED BY <1>12, <2>1, <2>2, EnqueueTypes DEF SubmitAccept, InSubmit
<1>13. ASSUME NEW c \in Clients, WaitSleep(c) PROVE TypeOK'
  BY <1>13 DEF WaitSleep, InWait
<1>14. ASSUME NEW c \in Clients, WaitReturn(c) PROVE TypeOK'
  BY <1>14 DEF WaitReturn, InWait
<1>15. ASSUME NEW c \in Clients, NEW t \in Tasks, CallSubmit(c, t) PROVE TypeOK'
  BY <1>15 DEF CallSubmit, MayCall
<1>16. ASSUME NEW c \in Clients, NEW t \in Tasks, TrySubmitRefuse(c, t) PROVE TypeOK'
  BY <1>16 DEF TrySubmitRefuse, MayCall
<1>17. ASSUME NEW c \in Clients, NEW t \in Tasks, TrySubmitAccept(c, t) PROVE TypeOK'
  <2>1. count # QueueSize /\ Enqueue(t) /\ t \in Tasks \cup {NoTask}
    BY <1>17 DEF TrySubmitAccept
  <2>2. UNCHANGED <<head, active, shutdown, condNotFull, condFinished>>
    BY <2>1 DEF Enqueue
  <2> QED BY <1>17, <2>1, <2>2, EnqueueTypes DEF TrySubmitAccept, MayCall
<1>18. ASSUME NEW c \in Clients, CallWait(c) PROVE TypeOK'
  BY <1>18 DEF CallWait, MayCall
<1>19. CASE Destroy
  BY <1>19 DEF Destroy, BeginShutdown, WakeAll
<1>20. CASE SpuriousWake
  BY <1>20 DEF SpuriousWake
<1>21. CASE UNCHANGED vars
  BY <1>21 DEF vars
<1> QED
  BY <1>1, <1>2, <1>3, <1>4, <1>5, <1>6, <1>7, <1>8, <1>9, <1>10, <1>11, <1>12,
     <1>13, <1>14, <1>15, <1>16, <1>17, <1>18, <1>19, <1>20, <1>21
     DEF Next, OwnerStep, WorkerStep, CallStep, ClientCall, Terminated

-----------------------------------------------------------------------------
\* Only taking and finishing a task change active, and they change Running
\* by the same worker.
LEMMA ActiveStep == TypeOK /\ ActiveCounts /\ [Next]_vars => ActiveCounts'
<1> SUFFICES ASSUME TypeOK, ActiveCounts, [Next]_vars PROVE ActiveCounts'
  OBVIOUS
<1> USE DEF poolVars, workerVars
<1>1. CASE UNCHANGED <<wpc, active>>
  BY <1>1 DEF ActiveCounts, Running
<1>2. ASSUME NEW w \in Workers, SpawnOk(w) PROVE ActiveCounts'
  <2>1. Running' = Running /\ active' = active
    BY <1>2, SpawningNone DEF SpawnOk, Running, TypeOK
  <2> QED BY <2>1 DEF ActiveCounts
<1>3. ASSUME NEW w \in Workers, WorkerExit(w) PROVE ActiveCounts'
  <2>1. Running' = Running /\ active' = active
    BY <1>3 DEF WorkerExit, InLoop, Running, TypeOK
  <2> QED BY <2>1 DEF ActiveCounts
<1>4. ASSUME NEW w \in Workers, WorkerTake(w) PROVE ActiveCounts'
  <2>1. Running' = Running \cup {w} /\ w \notin Running
    BY <1>4 DEF WorkerTake, InLoop, Running, TypeOK
  <2>2. Cardinality(Running') = Cardinality(Running) + 1
    BY <2>1, RunningBounds, FS_AddElement
  <2> QED BY <1>4, <2>2 DEF ActiveCounts, WorkerTake
<1>5. ASSUME NEW w \in Workers, WorkerFinish(w) PROVE ActiveCounts'
  <2>1. Running' = Running \ {w} /\ w \in Running
    BY <1>5 DEF WorkerFinish, Running, TypeOK
  <2>2. Cardinality(Running') = Cardinality(Running) - 1
    BY <2>1, RunningBounds, FS_RemoveElement
  <2> QED BY <1>5, <2>2 DEF ActiveCounts, WorkerFinish
<1>6. CASE Destroy \/ SpuriousWake \/ Terminated \/ Release
  BY <1>1, <1>6 DEF Destroy, BeginShutdown, SpuriousWake, Terminated, Release, vars
<1>7. ASSUME NEW r \in Resources, Acquire(r) \/ AcquireFail(r) PROVE ActiveCounts'
  BY <1>1, <1>7 DEF Acquire, AcquireFail
<1>8. ASSUME NEW w \in Workers, SpawnFail(w) \/ WorkerSleep(w) PROVE ActiveCounts'
  BY <1>1, <1>8 DEF SpawnFail, BeginShutdown, WorkerSleep
<1>9. ASSUME NEW c \in Clients, CallStep(c) PROVE ActiveCounts'
  BY <1>1, <1>9 DEF CallStep, SubmitSleep, SubmitRefuse, SubmitAccept, Enqueue,
                    WaitSleep, WaitReturn
<1>10. ASSUME NEW c \in Clients, ClientCall(c) PROVE ActiveCounts'
  BY <1>1, <1>10 DEF ClientCall, CallSubmit, TrySubmitRefuse, TrySubmitAccept,
                     Enqueue, CallWait
<1> QED
  BY <1>1, <1>2, <1>3, <1>4, <1>5, <1>6, <1>7, <1>8, <1>9, <1>10
     DEF Next, OwnerStep, WorkerStep, vars

-----------------------------------------------------------------------------
\* The awake workers and the awake submitters are finitely many.
LEMMA AwakeFinite == IsFiniteSet(AwakeWorkers) /\ IsFiniteSet(AwakeSubmitters)
<1>1. AwakeWorkers \in SUBSET Workers /\ AwakeSubmitters \in SUBSET Clients
  BY DEF AwakeWorkers, AwakeSubmitters
<1> QED BY <1>1, WorkersFinite, FS_Subset

\* While a worker sleeps on cond_not_empty, every queued task has a worker
\* that is awake: a submission signals, and a worker sleeps only on an empty
\* queue.
LEMMA TaskWakeupsStep == IInv /\ [Next]_vars => TaskWakeups'
<1> SUFFICES ASSUME IInv, [Next]_vars PROVE TaskWakeups'
  OBVIOUS
<1> USE DEF poolVars, workerVars, condVars
<1>0. TypeOK /\ TaskWakeups /\ ShutdownWakeups /\ count \in Nat
  BY DEF IInv, NoLostWakeup, TypeOK
<1>a. TypeOK' /\ IsFiniteSet(AwakeWorkers) /\ IsFiniteSet(AwakeWorkers')
  <2>1. TypeOK'
    BY TypeStep DEF IInv
  <2>2. AwakeWorkers' \in SUBSET Workers
    BY DEF AwakeWorkers
  <2> QED BY <2>1, <2>2, AwakeFinite, WorkersFinite
<1>b. Cardinality(AwakeWorkers) \in Nat /\ Cardinality(AwakeWorkers') \in Nat
  BY <1>a, Counting
<1>1. CASE UNCHANGED <<wpc, condNotEmpty, count>>
  BY <1>0, <1>1 DEF TaskWakeups, AwakeWorkers
<1>2. CASE condNotEmpty' = {}
  BY <1>2 DEF TaskWakeups
<1>3. ASSUME NEW w \in Workers, w \notin AwakeWorkers,
             AwakeWorkers' = AwakeWorkers \cup {w},
             condNotEmpty # {}, count' \in {count, count + 1}
      PROVE  TaskWakeups'
  <2>1. Cardinality(AwakeWorkers') = Cardinality(AwakeWorkers) + 1
    BY <1>3, <1>a, Counting
  <2> QED BY <1>0, <1>b, <1>3, <2>1 DEF TaskWakeups
<1>4. ASSUME NEW w \in Workers, SpawnOk(w) PROVE TaskWakeups'
  <2>1. AwakeWorkers' = AwakeWorkers \cup {w} /\ w \notin AwakeWorkers
    BY <1>0, <1>4, SpawningNone DEF SpawnOk, AwakeWorkers, TypeOK
  <2>2. condNotEmpty' = condNotEmpty /\ count' = count
    BY <1>4 DEF SpawnOk
  <2> QED BY <1>2, <1>3, <2>1, <2>2
<1>5. ASSUME NEW w \in Workers, WorkerSleep(w) PROVE TaskWakeups'
  <2>1. count' = 0
    BY <1>5 DEF WorkerSleep, WorkerBlocks
  <2> QED BY <2>1, <1>b DEF TaskWakeups
<1>6. ASSUME NEW w \in Workers, WorkerExit(w) PROVE TaskWakeups'
  <2>1. condNotEmpty' = {}
    BY <1>0, <1>6 DEF WorkerExit, WorkerExits, ShutdownWakeups
  <2> QED BY <1>2, <2>1
<1>7. ASSUME NEW w \in Workers, WorkerTake(w) PROVE TaskWakeups'
  <2>1. AwakeWorkers' = AwakeWorkers \ {w} /\ w \in AwakeWorkers
    BY <1>0, <1>7 DEF WorkerTake, InLoop, AwakeWorkers, TypeOK
  <2>2. Cardinality(AwakeWorkers') = Cardinality(AwakeWorkers) - 1
    BY <1>a, <2>1, Counting
  <2>3. condNotEmpty' = condNotEmpty /\ count' = count - 1
    BY <1>7 DEF WorkerTake
  <2> QED BY <1>0, <1>b, <2>2, <2>3 DEF TaskWakeups
<1>8. ASSUME NEW w \in Workers, WorkerFinish(w) PROVE TaskWakeups'
  <2>1. AwakeWorkers' = AwakeWorkers \cup {w} /\ w \notin AwakeWorkers
    BY <1>0, <1>8 DEF WorkerFinish, AwakeWorkers, TypeOK
  <2>2. condNotEmpty' = condNotEmpty /\ count' = count
    BY <1>8 DEF WorkerFinish
  <2> QED BY <1>2, <1>3, <2>1, <2>2
<1>9. ASSUME NEW w \in condNotEmpty, condNotEmpty' = condNotEmpty \ {w},
             wpc' = wpc, count' \in {count, count + 1}
      PROVE  TaskWakeups'
  <2>1. w \in Workers /\ w \notin AwakeWorkers /\ AwakeWorkers' = AwakeWorkers \cup {w}
    BY <1>0, <1>9 DEF AwakeWorkers, TypeOK
  <2> QED BY <1>3, <1>9, <2>1
<1>10. ASSUME NEW t, Enqueue(t), wpc' = wpc PROVE TaskWakeups'
  <2>1. CASE condNotEmpty = {}
    BY <1>2, <1>10, <2>1, WakeOneShrinks DEF Enqueue
  <2>2. CASE condNotEmpty # {}
    <3>1. PICK w \in condNotEmpty : condNotEmpty' = condNotEmpty \ {w}
      BY <1>10, <2>2, WakeOneShrinks DEF Enqueue
    <3> QED BY <1>9, <1>10, <3>1 DEF Enqueue
  <2> QED BY <2>1, <2>2
<1>11. CASE SpuriousWake
  <2>1. wpc' = wpc /\ count' = count
    BY <1>11 DEF SpuriousWake
  <2>2. CASE condNotEmpty' = condNotEmpty
    BY <1>1, <2>1, <2>2
  <2>3. CASE \E w \in condNotEmpty : condNotEmpty' = condNotEmpty \ {w}
    BY <1>9, <2>1, <2>3
  <2> QED BY <1>11, <2>2, <2>3 DEF SpuriousWake
<1>12. CASE OwnerStep
  <2>1. ASSUME NEW r \in Resources, Acquire(r) \/ AcquireFail(r) PROVE TaskWakeups'
    BY <1>1, <2>1 DEF Acquire, AcquireFail
  <2>2. ASSUME NEW w \in Workers, SpawnFail(w) PROVE TaskWakeups'
    BY <1>2, <2>2 DEF SpawnFail, BeginShutdown, WakeAll
  <2>3. CASE Release
    BY <1>1, <2>3 DEF Release
  <2> QED BY <1>4, <1>12, <2>1, <2>2, <2>3 DEF OwnerStep
<1>13. CASE Destroy
  BY <1>2, <1>13 DEF Destroy, BeginShutdown, WakeAll
<1>14. ASSUME NEW c \in Clients, CallStep(c) PROVE TaskWakeups'
  <2>1. CASE SubmitAccept(c)
    BY <1>10, <2>1 DEF SubmitAccept
  <2>2. CASE SubmitSleep(c) \/ SubmitRefuse(c) \/ WaitSleep(c) \/ WaitReturn(c)
    BY <1>1, <2>2 DEF SubmitSleep, SubmitRefuse, WaitSleep, WaitReturn
  <2> QED BY <1>14, <2>1, <2>2 DEF CallStep
<1>15. ASSUME NEW c \in Clients, ClientCall(c) PROVE TaskWakeups'
  <2>1. ASSUME NEW t \in Tasks, TrySubmitAccept(c, t) PROVE TaskWakeups'
    BY <1>10, <2>1 DEF TrySubmitAccept
  <2>2. ASSUME NEW t \in Tasks, CallSubmit(c, t) \/ TrySubmitRefuse(c, t)
        PROVE  TaskWakeups'
    BY <1>1, <2>2 DEF CallSubmit, TrySubmitRefuse
  <2>3. CASE CallWait(c)
    BY <1>1, <2>3 DEF CallWait
  <2> QED BY <1>15, <2>1, <2>2, <2>3 DEF ClientCall
<1>16. CASE UNCHANGED vars
  BY <1>1, <1>16 DEF vars
<1> QED
  BY <1>5, <1>6, <1>7, <1>8, <1>11, <1>12, <1>13, <1>14, <1>15, <1>16
     DEF Next, WorkerStep, Terminated

-----------------------------------------------------------------------------
\* While a submitter sleeps on cond_not_full, every free slot has a submitter
\* that is awake: taking a task signals, and a submitter sleeps only on a
\* full queue.
LEMMA SlotWakeupsStep == IInv /\ [Next]_vars => SlotWakeups'
<1> SUFFICES ASSUME IInv, [Next]_vars PROVE SlotWakeups'
  OBVIOUS
<1> USE DEF poolVars, workerVars, condVars, clientVars
<1>0. TypeOK /\ SlotWakeups /\ ShutdownWakeups /\ count \in Nat
  BY DEF IInv, NoLostWakeup, TypeOK
<1>a. IsFiniteSet(AwakeSubmitters) /\ IsFiniteSet(AwakeSubmitters')
  <2>1. AwakeSubmitters' \in SUBSET Clients
    BY DEF AwakeSubmitters
  <2> QED BY <2>1, AwakeFinite, FS_Subset
<1>b. Cardinality(AwakeSubmitters) \in Nat /\ Cardinality(AwakeSubmitters') \in Nat
  BY <1>a, Counting
<1>1. CASE /\ UNCHANGED condNotFull
           /\ count' \in {count, count + 1}
           /\ AwakeSubmitters' = AwakeSubmitters
  BY <1>0, <1>b, <1>1 DEF SlotWakeups
<1>2. CASE condNotFull' = {}
  BY <1>2 DEF SlotWakeups
<1>3. CASE UNCHANGED <<cpc, condNotFull, count>>
  <2>1. AwakeSubmitters' = AwakeSubmitters
    BY <1>3 DEF AwakeSubmitters
  <2> QED BY <1>1, <1>3, <2>1
<1>4. ASSUME NEW c \in Clients, NEW p, cpc[c] # "submit", p # "submit",
             cpc' = [cpc EXCEPT ![c] = p], UNCHANGED <<condNotFull, count>>
      PROVE  SlotWakeups'
  <2>1. AwakeSubmitters' = AwakeSubmitters
    BY <1>0, <1>4 DEF AwakeSubmitters, TypeOK
  <2> QED BY <1>1, <1>4, <2>1
<1>5. ASSUME NEW c \in Clients, c \notin AwakeSubmitters,
             AwakeSubmitters' = AwakeSubmitters \cup {c},
             condNotFull # {}, count' \in {count, count - 1}
      PROVE  SlotWakeups'
  <2>1. Cardinality(AwakeSubmitters') = Cardinality(AwakeSubmitters) + 1
    BY <1>5, <1>a, Counting
  <2> QED BY <1>0, <1>b, <1>5, <2>1 DEF SlotWakeups
<1>6. ASSUME NEW c \in condNotFull, condNotFull' = condNotFull \ {c},
             cpc' = cpc, count' \in {count, count - 1}
      PROVE  SlotWakeups'
  <2>1. /\ c \in Clients /\ c \notin AwakeSubmitters
        /\ AwakeSubmitters' = AwakeSubmitters \cup {c}
    BY <1>0, <1>6 DEF AwakeSubmitters, TypeOK
  <2> QED BY <1>5, <1>6, <2>1
<1>7. ASSUME NEW w \in Workers, WorkerTake(w) PROVE SlotWakeups'
  <2>1. CASE condNotFull = {}
    BY <1>2, <1>7, <2>1, WakeOneShrinks DEF WorkerTake
  <2>2. CASE condNotFull # {}
    <3>1. PICK c \in condNotFull : condNotFull' = condNotFull \ {c}
      BY <1>7, <2>2, WakeOneShrinks DEF WorkerTake
    <3> QED BY <1>6, <1>7, <3>1 DEF WorkerTake
  <2> QED BY <2>1, <2>2
<1>8. ASSUME NEW w \in Workers, WorkerStep(w) PROVE SlotWakeups'
  <2>1. CASE WorkerSleep(w) \/ WorkerExit(w) \/ WorkerFinish(w)
    BY <1>3, <2>1 DEF WorkerSleep, WorkerExit, WorkerFinish
  <2> QED BY <1>7, <1>8, <2>1 DEF WorkerStep
<1>9. CASE OwnerStep
  <2>1. ASSUME NEW r \in Resources, Acquire(r) \/ AcquireFail(r) PROVE SlotWakeups'
    BY <1>4, <2>1 DEF Acquire, AcquireFail
  <2>2. ASSUME NEW w \in Workers, SpawnOk(w) PROVE SlotWakeups'
    BY <1>4, <2>2 DEF SpawnOk
  <2>3. ASSUME NEW w \in Workers, SpawnFail(w) PROVE SlotWakeups'
    BY <1>2, <2>3 DEF SpawnFail, BeginShutdown, WakeAll
  <2>4. CASE Release
    BY <1>4, <2>4 DEF Release
  <2> QED BY <1>9, <2>1, <2>2, <2>3, <2>4 DEF OwnerStep
<1>10. ASSUME NEW c \in Clients, CallStep(c) PROVE SlotWakeups'
  <2>1. CASE SubmitSleep(c)
    <3>1. count' = QueueSize
      BY <2>1 DEF SubmitSleep, SubmitBlocks
    <3> QED BY <1>b, <3>1 DEF SlotWakeups
  <2>2. CASE SubmitRefuse(c)
    BY <1>0, <1>2, <2>2 DEF SubmitRefuse, ShutdownWakeups
  <2>3. CASE SubmitAccept(c)
    <3>1. c \in AwakeSubmitters /\ AwakeSubmitters' = AwakeSubmitters \ {c}
      BY <1>0, <2>3 DEF SubmitAccept, InSubmit, Enqueue, AwakeSubmitters, TypeOK
    <3>2. Cardinality(AwakeSubmitters') = Cardinality(AwakeSubmitters) - 1
      BY <1>a, <3>1, Counting
    <3>3. condNotFull' = condNotFull /\ count' = count + 1
      BY <2>3 DEF SubmitAccept, Enqueue
    <3> QED BY <1>0, <1>b, <3>2, <3>3 DEF SlotWakeups
  <2>4. CASE WaitSleep(c)
    BY <1>3, <2>4 DEF WaitSleep
  <2>5. CASE WaitReturn(c)
    BY <1>4, <2>5 DEF WaitReturn, InWait
  <2> QED BY <1>10, <2>1, <2>2, <2>3, <2>4, <2>5 DEF CallStep
<1>11. ASSUME NEW c \in Clients, ClientCall(c) PROVE SlotWakeups'
  <2>1. ASSUME NEW t \in Tasks, CallSubmit(c, t) PROVE SlotWakeups'
    <3>1. c \notin AwakeSubmitters /\ AwakeSubmitters' = AwakeSubmitters \cup {c}
      BY <1>0, <2>1 DEF CallSubmit, MayCall, AwakeSubmitters, TypeOK
    <3>2. condNotFull' = condNotFull /\ count' = count
      BY <2>1 DEF CallSubmit
    <3> QED BY <1>2, <1>5, <3>1, <3>2
  <2>2. ASSUME NEW t \in Tasks, TrySubmitRefuse(c, t) PROVE SlotWakeups'
    BY <1>3, <2>2 DEF TrySubmitRefuse
  <2>3. ASSUME NEW t \in Tasks, TrySubmitAccept(c, t) PROVE SlotWakeups'
    <3>1. AwakeSubmitters' = AwakeSubmitters
      BY <2>3 DEF TrySubmitAccept, Enqueue, AwakeSubmitters
    <3> QED BY <1>1, <2>3, <3>1 DEF TrySubmitAccept, Enqueue
  <2>4. CASE CallWait(c)
    BY <1>4, <2>4 DEF CallWait, MayCall
  <2> QED BY <1>11, <2>1, <2>2, <2>3, <2>4 DEF ClientCall
<1>12. CASE Destroy
  BY <1>2, <1>12 DEF Destroy, BeginShutdown, WakeAll
<1>13. CASE SpuriousWake
  <2>1. cpc' = cpc /\ count' = count
    BY <1>13 DEF SpuriousWake
  <2>2. CASE condNotFull' = condNotFull
    BY <1>3, <2>1, <2>2
  <2>3. CASE \E c \in condNotFull : condNotFull' = condNotFull \ {c}
    BY <1>6, <2>1, <2>3
  <2> QED BY <1>13, <2>2, <2>3 DEF SpuriousWake
<1>14. CASE UNCHANGED vars
  BY <1>3, <1>14 DEF vars
<1> QED
  BY <1>8, <1>9, <1>10, <1>11, <1>12, <1>13, <1>14 DEF Next, Terminated

-----------------------------------------------------------------------------
\* The last worker to finish wakes pool_wait; after the shutdown nobody goes
\* to sleep on cond_not_empty or cond_not_full.
LEMMA FinishAndShutdownStep ==
    IInv /\ [Next]_vars => FinishWakeups' /\ ShutdownWakeups'
<1> SUFFICES ASSUME IInv, [Next]_vars PROVE FinishWakeups' /\ ShutdownWakeups'
  OBVIOUS
<1> USE DEF poolVars, condVars, FinishWakeups, ShutdownWakeups
<1>0. FinishWakeups /\ ShutdownWakeups /\ count \in Nat /\ active \in Nat
  BY DEF IInv, NoLostWakeup, TypeOK
<1>1. CASE UNCHANGED <<poolVars, condVars>>
  BY <1>0, <1>1
<1>2. CASE BeginShutdown
  BY <1>0, <1>2 DEF BeginShutdown, WakeAll
<1>3. ASSUME NEW t, Enqueue(t), ~shutdown PROVE FinishWakeups' /\ ShutdownWakeups'
  BY <1>0, <1>3 DEF Enqueue
<1>4. ASSUME NEW w \in Workers, WorkerStep(w)
      PROVE  FinishWakeups' /\ ShutdownWakeups'
  <2>1. CASE WorkerSleep(w)
    BY <1>0, <2>1 DEF WorkerSleep, WorkerBlocks
  <2>2. CASE WorkerExit(w)
    BY <1>1, <2>2 DEF WorkerExit
  <2>3. CASE WorkerTake(w)
    BY <1>0, <2>3, WakeOneShrinks DEF WorkerTake
  <2>4. CASE WorkerFinish(w)
    BY <1>0, <2>4 DEF WorkerFinish, WakeAll
  <2> QED BY <1>4, <2>1, <2>2, <2>3, <2>4 DEF WorkerStep
<1>5. CASE OwnerStep
  BY <1>1, <1>2, <1>5 DEF OwnerStep, Acquire, AcquireFail, SpawnOk, SpawnFail, Release
<1>6. ASSUME NEW c \in Clients, CallStep(c)
      PROVE  FinishWakeups' /\ ShutdownWakeups'
  <2>1. CASE SubmitSleep(c)
    BY <1>0, <2>1 DEF SubmitSleep, SubmitBlocks
  <2>2. CASE SubmitAccept(c)
    BY <1>3, <2>2 DEF SubmitAccept
  <2>3. CASE WaitSleep(c)
    BY <1>0, <2>3 DEF WaitSleep, WaitBlocks
  <2>4. CASE SubmitRefuse(c) \/ WaitReturn(c)
    BY <1>1, <2>4 DEF SubmitRefuse, WaitReturn
  <2> QED BY <1>6, <2>1, <2>2, <2>3, <2>4 DEF CallStep
<1>7. ASSUME NEW c \in Clients, ClientCall(c)
      PROVE  FinishWakeups' /\ ShutdownWakeups'
  BY <1>1, <1>3, <1>7 DEF ClientCall, CallSubmit, TrySubmitRefuse,
                          TrySubmitAccept, CallWait
<1>8. CASE SpuriousWake
  BY <1>0, <1>8 DEF SpuriousWake
<1>9. CASE Destroy
  BY <1>2, <1>9 DEF Destroy
<1>10. CASE UNCHANGED vars
  BY <1>1, <1>10 DEF vars
<1> QED
  BY <1>4, <1>5, <1>6, <1>7, <1>8, <1>9, <1>10 DEF Next, Terminated

-----------------------------------------------------------------------------
\* IInv is an invariant of the pool, spurious wakeups and overlapping calls
\* included.
THEOREM IInvHolds == Spec => []IInv
<1>1. Init => IInv
  BY InitIInv
<1>2. IInv /\ [Next]_vars => IInv'
  BY TypeStep, ActiveStep, TaskWakeupsStep, SlotWakeupsStep, FinishAndShutdownStep
     DEF IInv, NoLostWakeup
<1> QED BY <1>1, <1>2, PTL DEF Spec

\* The fields of pool_t keep their types and bounds: count never passes
\* queue_size and active never passes num_threads.
THEOREM TypeCorrect == Spec => []TypeOK
<1>1. IInv => TypeOK
  BY DEF IInv
<1> QED BY <1>1, IInvHolds, PTL

\* No wakeup of a worker, a submitter or a waiter is ever lost.
THEOREM WakeupsKept == Spec => []NoLostWakeup
<1>1. IInv => NoLostWakeup
  BY DEF IInv
<1> QED BY <1>1, IInvHolds, PTL

-----------------------------------------------------------------------------
(***************************************************************************)
(* The ring: head, tail and count describe a sequence of tasks.            *)
(***************************************************************************)

\* The slot of the ring's i-th task when the ring starts at slot h.
Slot(h, i) == IF h + i - 1 < QueueSize THEN h + i - 1 ELSE h + i - 1 - QueueSize

\* One turn round the ring needs no remainder.
LEMMA OneTurn ==
    /\ \A h \in 0 .. QueueSize - 1, i \in 1 .. QueueSize + 1 :
          (h + i - 1) % QueueSize = Slot(h, i)
    /\ \A h \in 0 .. QueueSize - 1, n \in 0 .. QueueSize :
          (h + n) % QueueSize = Slot(h, n + 1)
    /\ \A i \in 0 .. QueueSize - 1 :
          NextSlot(i) = IF i + 1 = QueueSize THEN 0 ELSE i + 1
<1>1. ASSUME NEW a \in 0 .. 2 * QueueSize - 1
      PROVE  a % QueueSize = IF a < QueueSize THEN a ELSE a - QueueSize
  <2>1. CASE a < QueueSize
    BY <2>1
  <2>2. CASE a >= QueueSize
    BY <2>2
  <2> QED BY <2>1, <2>2
<1>2. ASSUME NEW h \in 0 .. QueueSize - 1, NEW n \in 0 .. QueueSize
      PROVE  (h + n) % QueueSize = Slot(h, n + 1)
  <2>1. h + n \in 0 .. 2 * QueueSize - 1 /\ h + (n + 1) - 1 = h + n
    OBVIOUS
  <2> QED BY <1>1, <2>1 DEF Slot
<1>3. ASSUME NEW h \in 0 .. QueueSize - 1, NEW i \in 1 .. QueueSize + 1
      PROVE  (h + i - 1) % QueueSize = Slot(h, i)
  <2>1. h + i - 1 \in 0 .. 2 * QueueSize - 1
    OBVIOUS
  <2> QED BY <1>1, <2>1 DEF Slot
<1>4. ASSUME NEW i \in 0 .. QueueSize - 1
      PROVE  NextSlot(i) = IF i + 1 = QueueSize THEN 0 ELSE i + 1
  <2>1. i + 1 \in 0 .. 2 * QueueSize - 1
    OBVIOUS
  <2> QED BY <1>1, <2>1 DEF NextSlot
<1> QED BY <1>2, <1>3, <1>4

\* The ring's content, and its end.
LEMMA RingSlots ==
    ASSUME TypeOK
    PROVE  Ring = [i \in 1 .. count |-> queue[Slot(head, i)]]
<1>0. head \in 0 .. QueueSize - 1 /\ count \in 0 .. QueueSize
  BY DEF TypeOK
<1>1. ASSUME NEW i \in 1 .. count PROVE (head + i - 1) % QueueSize = Slot(head, i)
  BY <1>0, OneTurn
<1> QED BY <1>1 DEF Ring

\* tail is the slot behind the last task.
TailBehind == tail = Slot(head, count + 1)

\* Storing a task appends it to the ring's content.
LEMMA EnqueueRing ==
    ASSUME TypeOK, TypeOK', TailBehind, NEW t \in Tasks, count # QueueSize, Enqueue(t)
    PROVE  /\ TailBehind'
           /\ count' = count + 1
           /\ Ring' = [i \in 1 .. count + 1 |-> IF i = count + 1 THEN t ELSE Ring[i]]
<1>0. /\ head \in 0 .. QueueSize - 1 /\ tail \in 0 .. QueueSize - 1
      /\ count \in 0 .. QueueSize - 1
      /\ queue \in [0 .. QueueSize - 1 -> Tasks \cup {NoTask}]
  BY DEF TypeOK
<1>1. /\ head' = head /\ count' = count + 1 /\ tail' = NextSlot(tail)
      /\ queue' = [queue EXCEPT ![tail] = t]
  BY DEF Enqueue
<1>2. tail = Slot(head, count + 1)
  BY DEF TailBehind
<1>3. Ring' = [i \in 1 .. count' |-> queue'[Slot(head', i)]]
  <2>1. head' \in 0 .. QueueSize - 1 /\ count' \in 0 .. QueueSize
    BY DEF TypeOK
  <2>2. ASSUME NEW i \in 1 .. count' PROVE (head' + i - 1) % QueueSize = Slot(head', i)
    BY <2>1, OneTurn
  <2> QED BY <2>2 DEF Ring
<1>4. NextSlot(tail) = IF tail + 1 = QueueSize THEN 0 ELSE tail + 1
  BY <1>0, OneTurn
<1>5. TailBehind'
  BY <1>0, <1>1, <1>2, <1>4 DEF Slot, TailBehind
<1>6. ASSUME NEW i \in 1 .. count PROVE queue'[Slot(head, i)] = queue[Slot(head, i)]
  BY <1>0, <1>1, <1>2 DEF Slot
<1>7. queue'[Slot(head, count + 1)] = t
  BY <1>0, <1>1, <1>2
<1> QED BY <1>0, <1>1, <1>3, <1>5, <1>6, <1>7, RingSlots

\* Taking a task removes the first one.
LEMMA TakeRing ==
    ASSUME TypeOK, TypeOK', TailBehind, NEW w, WorkerTake(w)
    PROVE  /\ TailBehind'
           /\ count' = count - 1 /\ count \in 1 .. QueueSize
           /\ queue[head] = Ring[1]
           /\ Ring' = [i \in 1 .. count - 1 |-> Ring[i + 1]]
<1>0. /\ head \in 0 .. QueueSize - 1 /\ tail \in 0 .. QueueSize - 1
      /\ count \in 0 .. QueueSize
      /\ queue \in [0 .. QueueSize - 1 -> Tasks \cup {NoTask}]
  BY DEF TypeOK
<1>1. /\ head' = NextSlot(head) /\ count' = count - 1 /\ tail' = tail
      /\ queue' = queue /\ count # 0
  BY DEF WorkerTake, WorkerBlocks, WorkerExits
<1>3. Ring' = [i \in 1 .. count' |-> queue'[Slot(head', i)]]
  <2>1. head' \in 0 .. QueueSize - 1 /\ count' \in 0 .. QueueSize
    BY DEF TypeOK
  <2>2. ASSUME NEW i \in 1 .. count' PROVE (head' + i - 1) % QueueSize = Slot(head', i)
    BY <2>1, OneTurn
  <2> QED BY <2>2 DEF Ring
<1>4. NextSlot(head) = IF head + 1 = QueueSize THEN 0 ELSE head + 1
  BY <1>0, OneTurn
<1>5. TailBehind'
  BY <1>0, <1>1, <1>4 DEF Slot, TailBehind
<1>6. ASSUME NEW i \in 1 .. count - 1 PROVE Slot(head', i) = Slot(head, i + 1)
  BY <1>0, <1>1, <1>4 DEF Slot
<1>7. Slot(head, 1) = head
  BY <1>0 DEF Slot
<1> QED BY <1>0, <1>1, <1>3, <1>5, <1>6, <1>7, RingSlots

-----------------------------------------------------------------------------
\* The callers inside pool_submit.
Submitters == {c \in Clients : cpc[c] = "submit"}

\* The ring holds the queued tasks, each once.
RingHolds ==
    /\ \A i \in 1 .. count : Ring[i] \in Tasks /\ status[Ring[i]] = "queued"
    /\ \A i, j \in 1 .. count : Ring[i] = Ring[j] => i = j
    /\ \A t \in Tasks : status[t] = "queued" => \E i \in 1 .. count : Ring[i] = t

\* The workers that run hold the running tasks, each one its own.
WorkersHold ==
    /\ \A w \in Running : wtask[w] \in Tasks /\ status[wtask[w]] = "running"
    /\ \A v, w \in Running : wtask[v] = wtask[w] => v = w
    /\ \A t \in Tasks : status[t] = "running" => \E w \in Running : wtask[w] = t

\* The callers of pool_submit offer different tasks that nobody has yet.
SubmittersHold ==
    /\ \A c \in Submitters : carg[c] \in Tasks /\ status[carg[c]] = "offered"
    /\ \A c, d \in Submitters : carg[c] = carg[d] => c = d

\* Where every task is.
TaskInv == TailBehind /\ RingHolds /\ WorkersHold /\ SubmittersHold

\* A step that moves no task.
MovesNoTask ==
    /\ UNCHANGED <<queue, head, tail, count, status, wtask, carg>>
    /\ Running' = Running
    /\ Submitters' = Submitters

\* A step moves no task, or it is one of seven.
LEMMA StepKinds ==
    ASSUME TypeOK, [Next]_vars
    PROVE  \/ MovesNoTask
           \/ \E c \in Clients : SubmitAccept(c) \/ SubmitRefuse(c)
           \/ \E c \in Clients, t \in Tasks :
                CallSubmit(c, t) \/ TrySubmitAccept(c, t) \/ TrySubmitRefuse(c, t)
           \/ \E w \in Workers : WorkerTake(w) \/ WorkerFinish(w)
<1> USE DEF poolVars, condVars, workerVars, clientVars, history
<1>1. ASSUME UNCHANGED <<queue, head, tail, count, status, wtask, carg, wpc, cpc>>
      PROVE  MovesNoTask
  BY <1>1 DEF MovesNoTask, Running, Submitters
<1>2. ASSUME NEW c \in Clients, NEW p, cpc[c] # "submit", p # "submit",
             cpc' = [cpc EXCEPT ![c] = p],
             UNCHANGED <<queue, head, tail, count, status, wtask, carg>>,
             Running' = Running
      PROVE  MovesNoTask
  <2>1. Submitters' = Submitters
    BY <1>2 DEF Submitters, TypeOK
  <2> QED BY <1>2, <2>1 DEF MovesNoTask
<1>3. ASSUME NEW w \in Workers, NEW p, wpc[w] # "run", p # "run",
             wpc' = [wpc EXCEPT ![w] = p]
      PROVE  Running' = Running
  BY <1>3 DEF Running, TypeOK
<1>4. wpc' = wpc => Running' = Running
  BY DEF Running
<1>5. cpc' = cpc => Submitters' = Submitters
  BY DEF Submitters
<1>6. CASE OwnerStep
  <2>1. ASSUME NEW r \in Resources, Acquire(r) \/ AcquireFail(r) PROVE MovesNoTask
    <3>1. PICK p \in {"spawn", "create", "null"} : cpc' = [cpc EXCEPT ![Owner] = p]
      BY <2>1 DEF Acquire, AcquireFail
    <3> QED BY <1>2, <1>4, <2>1, <3>1 DEF Acquire, AcquireFail
  <2>2. ASSUME NEW w \in Workers, SpawnOk(w) PROVE MovesNoTask
    <3>1. wpc[w] = "none" /\ wpc' = [wpc EXCEPT ![w] = "loop"]
      BY <2>2, SpawningNone DEF SpawnOk
    <3>2. Running' = Running
      BY <1>3, <3>1
    <3> QED BY <1>2, <2>2, <3>2 DEF SpawnOk
  <2>3. ASSUME NEW w \in Workers, SpawnFail(w) PROVE MovesNoTask
    BY <1>2, <1>4, <2>3 DEF SpawnFail, BeginShutdown
  <2>4. CASE Release
    <3>1. PICK p \in {"done", "null"} : cpc' = [cpc EXCEPT ![Owner] = p]
      BY <2>4 DEF Release
    <3> QED BY <1>2, <1>4, <2>4, <3>1 DEF Release
  <2> QED BY <1>6, <2>1, <2>2, <2>3, <2>4 DEF OwnerStep
<1>7. ASSUME NEW w \in Workers, WorkerSleep(w) PROVE MovesNoTask
  BY <1>1, <1>7 DEF WorkerSleep
<1>8. ASSUME NEW w \in Workers, WorkerExit(w) PROVE MovesNoTask
  <2>1. Running' = Running
    BY <1>3, <1>8 DEF WorkerExit, InLoop
  <2> QED BY <1>5, <1>8, <2>1 DEF WorkerExit, MovesNoTask
<1>9. ASSUME NEW c \in Clients, SubmitSleep(c) \/ WaitSleep(c) PROVE MovesNoTask
  BY <1>1, <1>9 DEF SubmitSleep, WaitSleep
<1>10. ASSUME NEW c \in Clients, WaitReturn(c) PROVE MovesNoTask
  BY <1>2, <1>4, <1>10 DEF WaitReturn, InWait
<1>11. ASSUME NEW c \in Clients, CallWait(c) PROVE MovesNoTask
  BY <1>2, <1>4, <1>11 DEF CallWait, MayCall
<1>12. CASE Destroy
  BY <1>2, <1>4, <1>12 DEF Destroy, BeginShutdown
<1>13. CASE SpuriousWake
  BY <1>1, <1>13 DEF SpuriousWake
<1>14. CASE UNCHANGED vars
  BY <1>1, <1>14 DEF vars
<1> QED
  BY <1>6, <1>7, <1>8, <1>9, <1>10, <1>11, <1>12, <1>13, <1>14
     DEF Next, WorkerStep, CallStep, ClientCall, Terminated

\* An accepted task is appended to the ring.
LEMMA AcceptKeeps ==
    ASSUME TypeOK, TypeOK', TailBehind, RingHolds, NEW t \in Tasks, status[t] # "queued",
           count # QueueSize, Enqueue(t), status' = [status EXCEPT ![t] = "queued"]
    PROVE  TailBehind' /\ RingHolds'
<1>1. /\ TailBehind' /\ count' = count + 1
      /\ Ring' = [i \in 1 .. count + 1 |-> IF i = count + 1 THEN t ELSE Ring[i]]
  BY EnqueueRing
<1>2. count \in Nat /\ status \in [Tasks -> TaskStates]
  BY DEF TypeOK
<1>3. Ring'[count + 1] = t /\ \A i \in 1 .. count : Ring'[i] = Ring[i] /\ Ring[i] # t
  BY <1>1, <1>2 DEF RingHolds
<1>4. ASSUME NEW i \in 1 .. count'
      PROVE  Ring'[i] \in Tasks /\ status'[Ring'[i]] = "queued"
  BY <1>1, <1>2, <1>3 DEF RingHolds
<1>5. ASSUME NEW i \in 1 .. count', NEW j \in 1 .. count', Ring'[i] = Ring'[j]
      PROVE  i = j
  BY <1>1, <1>2, <1>3, <1>5 DEF RingHolds
<1>6. ASSUME NEW u \in Tasks, status'[u] = "queued"
      PROVE  \E i \in 1 .. count' : Ring'[i] = u
  BY <1>1, <1>2, <1>3, <1>6 DEF RingHolds
<1> QED BY <1>1, <1>4, <1>5, <1>6 DEF RingHolds

\* The tasks nobody accepts, takes or finishes keep their places.
LEMMA TaskStep == IInv /\ TaskInv /\ [Next]_vars => TaskInv'
<1> SUFFICES ASSUME IInv, TaskInv, [Next]_vars PROVE TaskInv'
  OBVIOUS
<1> USE DEF poolVars, condVars, workerVars, clientVars, history
<1>0. TypeOK /\ TypeOK'
  BY TypeStep DEF IInv
<1>a. /\ count \in Nat /\ status \in [Tasks -> TaskStates]
      /\ wpc \in [Workers -> WorkerStates] /\ cpc \in [Clients -> ClientStates]
      /\ wtask \in [Workers -> Tasks \cup {NoTask}]
      /\ carg \in [Clients -> Tasks \cup {NoTask}]
      /\ Running \subseteq Workers /\ Submitters \subseteq Clients
  BY <1>0 DEF TypeOK, Running, Submitters
<1>b. UNCHANGED <<queue, head, tail, count>> => Ring' = Ring /\ (TailBehind => TailBehind')
  BY DEF Ring, TailBehind
<1>1. CASE MovesNoTask
  <2>1. Ring' = Ring
    BY <1>1, <1>b DEF MovesNoTask
  <2>2. TailBehind' /\ RingHolds'
    BY <1>1, <1>b, <2>1 DEF MovesNoTask, TaskInv, RingHolds
  <2>3. WorkersHold' /\ SubmittersHold'
    BY <1>1 DEF MovesNoTask, TaskInv, WorkersHold, SubmittersHold
  <2> QED BY <2>2, <2>3 DEF TaskInv
<1>2. ASSUME NEW c \in Clients, SubmitAccept(c) PROVE TaskInv'
  <2>1. /\ c \in Submitters /\ carg[c] \in Tasks /\ status[carg[c]] = "offered"
        /\ count # QueueSize
    BY <1>2 DEF SubmitAccept, SubmitBlocks, InSubmit, Submitters, TaskInv, SubmittersHold
  <2>2. TailBehind' /\ RingHolds'
    BY <1>0, <1>2, <2>1, AcceptKeeps DEF SubmitAccept, TaskInv
  <2>3. Running' = Running /\ wtask' = wtask
    BY <1>2 DEF SubmitAccept, Running
  <2>4. Submitters' = Submitters \ {c}
    BY <1>2, <1>a DEF SubmitAccept, Submitters
  <2>5. WorkersHold'
    BY <1>2, <1>a, <2>1, <2>3 DEF SubmitAccept, TaskInv, WorkersHold
  <2>6. SubmittersHold'
    BY <1>2, <1>a, <2>1, <2>4 DEF SubmitAccept, TaskInv, SubmittersHold
  <2> QED BY <2>2, <2>5, <2>6 DEF TaskInv
<1>3. ASSUME NEW c \in Clients, SubmitRefuse(c) PROVE TaskInv'
  <2>1. c \in Submitters /\ carg[c] \in Tasks /\ status[carg[c]] = "offered"
    BY <1>3 DEF SubmitRefuse, InSubmit, Submitters, TaskInv, SubmittersHold
  <2>2. TailBehind' /\ Ring' = Ring /\ count' = count
    BY <1>3, <1>b DEF SubmitRefuse, TaskInv
  <2>3. Running' = Running /\ wtask' = wtask
    BY <1>3 DEF SubmitRefuse, Running
  <2>4. Submitters' = Submitters \ {c}
    BY <1>3, <1>a DEF SubmitRefuse, Submitters
  <2>5. RingHolds'
    BY <1>3, <1>a, <2>1, <2>2 DEF SubmitRefuse, TaskInv, RingHolds
  <2>6. WorkersHold'
    BY <1>3, <1>a, <2>1, <2>3 DEF SubmitRefuse, TaskInv, WorkersHold
  <2>7. SubmittersHold'
    BY <1>3, <1>a, <2>1, <2>4 DEF SubmitRefuse, TaskInv, SubmittersHold
  <2> QED BY <2>2, <2>5, <2>6, <2>7 DEF TaskInv
<1>4. ASSUME NEW c \in Clients, NEW t \in Tasks, CallSubmit(c, t) PROVE TaskInv'
  <2>1. c \notin Submitters /\ status[t] = "fresh"
    BY <1>4 DEF CallSubmit, MayCall, Submitters
  <2>2. TailBehind' /\ Ring' = Ring /\ count' = count
    BY <1>4, <1>b DEF CallSubmit, TaskInv
  <2>3. Running' = Running /\ wtask' = wtask
    BY <1>4 DEF CallSubmit, Running
  <2>4. Submitters' = Submitters \cup {c}
    BY <1>4, <1>a DEF CallSubmit, Submitters
  <2>5. RingHolds'
    BY <1>4, <1>a, <2>1, <2>2 DEF CallSubmit, TaskInv, RingHolds
  <2>6. WorkersHold'
    BY <1>4, <1>a, <2>1, <2>3 DEF CallSubmit, TaskInv, WorkersHold
  <2>7. SubmittersHold'
    BY <1>4, <1>a, <2>1, <2>4 DEF CallSubmit, TaskInv, SubmittersHold
  <2> QED BY <2>2, <2>5, <2>6, <2>7 DEF TaskInv
<1>5. ASSUME NEW c \in Clients, NEW t \in Tasks, TrySubmitAccept(c, t) PROVE TaskInv'
  <2>1. status[t] = "fresh" /\ count # QueueSize
    BY <1>5 DEF TrySubmitAccept
  <2>2. TailBehind' /\ RingHolds'
    BY <1>0, <1>5, <2>1, AcceptKeeps DEF TrySubmitAccept, TaskInv
  <2>3. Running' = Running /\ wtask' = wtask /\ Submitters' = Submitters /\ carg' = carg
    BY <1>5 DEF TrySubmitAccept, Running, Submitters
  <2>4. WorkersHold' /\ SubmittersHold'
    BY <1>5, <1>a, <2>1, <2>3 DEF TrySubmitAccept, TaskInv, WorkersHold, SubmittersHold
  <2> QED BY <2>2, <2>4 DEF TaskInv
<1>6. ASSUME NEW c \in Clients, NEW t \in Tasks, TrySubmitRefuse(c, t) PROVE TaskInv'
  <2>1. status[t] = "fresh"
    BY <1>6 DEF TrySubmitRefuse
  <2>2. TailBehind' /\ Ring' = Ring /\ count' = count
    BY <1>6, <1>b DEF TrySubmitRefuse, TaskInv
  <2>3. Running' = Running /\ wtask' = wtask /\ Submitters' = Submitters /\ carg' = carg
    BY <1>6 DEF TrySubmitRefuse, Running, Submitters
  <2>4. RingHolds'
    BY <1>6, <1>a, <2>1, <2>2 DEF TrySubmitRefuse, TaskInv, RingHolds
  <2>5. WorkersHold' /\ SubmittersHold'
    BY <1>6, <1>a, <2>1, <2>3 DEF TrySubmitRefuse, TaskInv, WorkersHold, SubmittersHold
  <2> QED BY <2>2, <2>4, <2>5 DEF TaskInv
<1>7. ASSUME NEW w \in Workers, WorkerTake(w) PROVE TaskInv'
  <2>1. /\ TailBehind' /\ count' = count - 1 /\ count \in 1 .. QueueSize
        /\ queue[head] = Ring[1]
        /\ Ring' = [i \in 1 .. count - 1 |-> Ring[i + 1]]
    BY <1>0, <1>7, TakeRing DEF TaskInv
  <2>2. Ring[1] \in Tasks /\ status[Ring[1]] = "queued"
    BY <2>1 DEF TaskInv, RingHolds
  <2>3. status' = [status EXCEPT ![Ring[1]] = "running"]
    BY <1>7, <2>1 DEF WorkerTake
  <2>4. /\ Running' = Running \cup {w} /\ w \notin Running
        /\ wtask' = [wtask EXCEPT ![w] = Ring[1]]
        /\ Submitters' = Submitters /\ carg' = carg
    BY <1>7, <1>a, <2>1 DEF WorkerTake, InLoop, Running, Submitters
  <2>5. RingHolds'
    <3>1. ASSUME NEW i \in 1 .. count'
          PROVE  /\ i + 1 \in 1 .. count /\ i + 1 # 1
                 /\ Ring'[i] = Ring[i + 1] /\ Ring[i + 1] # Ring[1]
      BY <2>1 DEF TaskInv, RingHolds
    <3>2. ASSUME NEW i \in 1 .. count'
          PROVE  Ring'[i] \in Tasks /\ status'[Ring'[i]] = "queued"
      BY <1>a, <2>2, <2>3, <3>1 DEF TaskInv, RingHolds
    <3>3. ASSUME NEW i \in 1 .. count', NEW j \in 1 .. count', Ring'[i] = Ring'[j]
          PROVE  i = j
      BY <3>1, <3>3 DEF TaskInv, RingHolds
    <3>4. ASSUME NEW t \in Tasks, status'[t] = "queued"
          PROVE  \E i \in 1 .. count' : Ring'[i] = t
      <4>1. status[t] = "queued" /\ t # Ring[1]
        BY <1>a, <2>2, <2>3, <3>4
      <4>2. PICK i \in 1 .. count : Ring[i] = t
        BY <4>1 DEF TaskInv, RingHolds
      <4>3. i - 1 \in 1 .. count' /\ (i - 1) + 1 = i
        BY <2>1, <4>1, <4>2
      <4> QED BY <3>1, <4>2, <4>3
    <3> QED BY <3>2, <3>3, <3>4 DEF RingHolds
  <2>6. WorkersHold'
    BY <1>a, <2>2, <2>3, <2>4 DEF TaskInv, WorkersHold
  <2>7. SubmittersHold'
    BY <1>a, <2>2, <2>3, <2>4 DEF TaskInv, SubmittersHold
  <2> QED BY <2>1, <2>5, <2>6, <2>7 DEF TaskInv
<1>8. ASSUME NEW w \in Workers, WorkerFinish(w) PROVE TaskInv'
  <2>1. w \in Running /\ wtask[w] \in Tasks /\ status[wtask[w]] = "running"
    BY <1>8 DEF WorkerFinish, Running, TaskInv, WorkersHold
  <2>2. TailBehind' /\ Ring' = Ring /\ count' = count
    BY <1>8, <1>b DEF WorkerFinish, TaskInv
  <2>3. /\ Running' = Running \ {w} /\ wtask' = [wtask EXCEPT ![w] = NoTask]
        /\ Submitters' = Submitters /\ carg' = carg
    BY <1>8, <1>a DEF WorkerFinish, Running, Submitters
  <2>4. RingHolds'
    BY <1>8, <1>a, <2>1, <2>2 DEF WorkerFinish, TaskInv, RingHolds
  <2>5. WorkersHold'
    BY <1>8, <1>a, <2>1, <2>3 DEF WorkerFinish, TaskInv, WorkersHold
  <2>6. SubmittersHold'
    BY <1>8, <1>a, <2>1, <2>3 DEF WorkerFinish, TaskInv, SubmittersHold
  <2> QED BY <2>2, <2>4, <2>5, <2>6 DEF TaskInv
<1> QED BY <1>0, <1>1, <1>2, <1>3, <1>4, <1>5, <1>6, <1>7, <1>8, StepKinds

-----------------------------------------------------------------------------
\* What pool_wait waits for was accepted: it is queued, running or done.
SnapHolds ==
    \A c \in Clients : cpc[c] = "wait" =>
        \A t \in snap[c] : status[t] \in {"queued", "running", "done"}

\* An accepted task stays accepted.
LEMMA AcceptedStays ==
    ASSUME IInv, TaskInv, [Next]_vars, NEW t \in Tasks,
           status[t] \in {"queued", "running", "done"}
    PROVE  status'[t] \in {"queued", "running", "done"}
<1>0. TypeOK /\ status \in [Tasks -> TaskStates]
  BY DEF IInv, TypeOK
<1>1. CASE MovesNoTask
  BY <1>1 DEF MovesNoTask
<1>2. ASSUME NEW c \in Clients, SubmitAccept(c) \/ SubmitRefuse(c)
      PROVE  status'[t] = status[t]
  <2>1. carg[c] # t
    BY <1>2 DEF SubmitAccept, SubmitRefuse, InSubmit, Submitters, TaskInv, SubmittersHold
  <2> QED BY <1>0, <1>2, <2>1 DEF SubmitAccept, SubmitRefuse
<1>3. ASSUME NEW c \in Clients, NEW u \in Tasks,
             CallSubmit(c, u) \/ TrySubmitAccept(c, u) \/ TrySubmitRefuse(c, u)
      PROVE  status'[t] = status[t]
  BY <1>0, <1>3 DEF CallSubmit, TrySubmitAccept, TrySubmitRefuse
<1>4. ASSUME NEW w \in Workers, WorkerTake(w) \/ WorkerFinish(w)
      PROVE  status'[t] \in {status[t], "running", "done"}
  BY <1>0, <1>4 DEF WorkerTake, WorkerFinish
<1> QED BY <1>0, <1>1, <1>2, <1>3, <1>4, StepKinds

\* Only pool_wait touches its snapshot, and takes accepted tasks into it.
LEMMA SnapStep == IInv /\ TaskInv /\ SnapHolds /\ [Next]_vars => SnapHolds'
<1> SUFFICES ASSUME IInv, TaskInv, SnapHolds, [Next]_vars,
                    NEW c \in Clients, cpc'[c] = "wait", NEW t \in snap'[c]
             PROVE  status'[t] \in {"queued", "running", "done"}
  BY DEF SnapHolds
<1> USE DEF poolVars, condVars, workerVars, clientVars, history
<1>0. TypeOK /\ TypeOK'
  BY TypeStep DEF IInv
<1>a. t \in Tasks
  BY <1>0 DEF TypeOK
<1>1. CASE cpc[c] = "wait" /\ snap'[c] = snap[c]
  BY <1>1, <1>a, AcceptedStays DEF SnapHolds
<1>2. ASSUME NEW d \in Clients, CallWait(d) PROVE status'[t] \in {"queued", "running", "done"}
  <2>1. CASE c = d
    BY <1>0, <1>2, <2>1 DEF CallWait, TypeOK
  <2>2. CASE c # d
    BY <1>0, <1>1, <1>2, <2>2 DEF CallWait, TypeOK
  <2> QED BY <2>1, <2>2
<1>3. ASSUME NEW d \in Clients, WaitReturn(d) PROVE status'[t] \in {"queued", "running", "done"}
  BY <1>0, <1>1, <1>3 DEF WaitReturn, TypeOK
<1>4. CASE snap' = snap /\ \E d \in Clients, p \in ClientStates \ {"wait"} : cpc' = [cpc EXCEPT ![d] = p]
  BY <1>0, <1>1, <1>4 DEF TypeOK
<1>5. CASE snap' = snap /\ cpc' = cpc
  BY <1>1, <1>5
<1>6. CASE OwnerStep
  BY <1>4, <1>6 DEF OwnerStep, Acquire, AcquireFail, SpawnOk, SpawnFail, BeginShutdown,
                    Release, ClientStates
<1>7. ASSUME NEW w \in Workers, WorkerStep(w) PROVE snap' = snap /\ cpc' = cpc
  BY <1>7 DEF WorkerStep, WorkerSleep, WorkerExit, WorkerTake, WorkerFinish
<1>8. ASSUME NEW d \in Clients, SubmitSleep(d) \/ WaitSleep(d) PROVE snap' = snap /\ cpc' = cpc
  BY <1>8 DEF SubmitSleep, WaitSleep
<1>9. ASSUME NEW d \in Clients, SubmitRefuse(d) \/ SubmitAccept(d)
      PROVE  snap' = snap /\ cpc' = [cpc EXCEPT ![d] = "idle"]
  BY <1>9 DEF SubmitRefuse, SubmitAccept
<1>10. ASSUME NEW d \in Clients, NEW u \in Tasks, CallSubmit(d, u)
      PROVE  snap' = snap /\ cpc' = [cpc EXCEPT ![d] = "submit"]
  BY <1>10 DEF CallSubmit
<1>11. ASSUME NEW d \in Clients, NEW u \in Tasks, TrySubmitRefuse(d, u) \/ TrySubmitAccept(d, u)
      PROVE  snap' = snap /\ cpc' = cpc
  BY <1>11 DEF TrySubmitRefuse, TrySubmitAccept
<1>12. ASSUME Destroy PROVE snap' = snap /\ cpc' = [cpc EXCEPT ![Owner] = "join"]
  BY <1>12 DEF Destroy, BeginShutdown
<1>13. ASSUME SpuriousWake \/ UNCHANGED vars PROVE snap' = snap /\ cpc' = cpc
  BY <1>13 DEF SpuriousWake, vars
<1> QED
  BY <1>2, <1>3, <1>4, <1>5, <1>6, <1>7, <1>8, <1>9, <1>10, <1>11, <1>12, <1>13
     DEF Next, CallStep, ClientCall, Terminated, ClientStates

-----------------------------------------------------------------------------
\* The life of the pool: workers exist from the last pthread_create to their
\* exit, they exit only from a drained pool that is shutting down, and a pool
\* that is gone has none and holds nothing.
LifeHolds ==
    /\ cpc[Owner] = "create" => \A w \in Workers : wpc[w] = "none"
    /\ cpc[Owner] \in {"idle", "submit", "wait", "join", "done"} =>
          \A w \in Workers : wpc[w] # "none"
    /\ cpc[Owner] \in {"null", "done"} => AllJoined /\ res = {}
    /\ \A w \in Workers : wpc[w] = "exited" => shutdown /\ count = 0

\* Undo(r) is exactly what pool_create holds when it cannot get r.
LEMMA UndoComplete ==
    ASSUME NEW r \in Resources, Acquiring(r)
    PROVE  res = Undo(r)
<1>1. PICK k \in 1 .. 7 : Acquisition[k] = r /\ res = {Acquisition[j] : j \in 1 .. k - 1}
  BY DEF Acquiring
<1>2. k \in {1, 2, 3, 4, 5, 6, 7}
  BY <1>1
<1>3. CASE k = 1
  BY <1>1, <1>3 DEF Acquisition, Undo
<1>4. CASE k = 2
  <2>1. 1 .. 1 = {1}
    OBVIOUS
  <2> QED BY <1>1, <1>4, <2>1 DEF Acquisition, Undo
<1>5. CASE k = 3
  <2>1. 1 .. 2 = {1, 2}
    OBVIOUS
  <2> QED BY <1>1, <1>5, <2>1 DEF Acquisition, Undo
<1>6. CASE k = 4
  <2>1. 1 .. 3 = {1, 2, 3}
    OBVIOUS
  <2> QED BY <1>1, <1>6, <2>1 DEF Acquisition, Undo
<1>7. CASE k = 5
  <2>1. 1 .. 4 = {1, 2, 3, 4}
    OBVIOUS
  <2> QED BY <1>1, <1>7, <2>1 DEF Acquisition, Undo
<1>8. CASE k = 6
  <2>1. 1 .. 5 = {1, 2, 3, 4, 5}
    OBVIOUS
  <2> QED BY <1>1, <1>8, <2>1 DEF Acquisition, Undo
<1>9. CASE k = 7
  <2>1. 1 .. 6 = {1, 2, 3, 4, 5, 6}
    OBVIOUS
  <2> QED BY <1>1, <1>9, <2>1 DEF Acquisition, Undo
<1> QED BY <1>2, <1>3, <1>4, <1>5, <1>6, <1>7, <1>8, <1>9

\* pool_create, pool_destroy and the workers keep to that life.
LEMMA LifeStep == IInv /\ LifeHolds /\ [Next]_vars => LifeHolds'
<1> SUFFICES ASSUME IInv, LifeHolds, [Next]_vars PROVE LifeHolds'
  OBVIOUS
<1> USE DEF poolVars, condVars, workerVars, clientVars, history, LifeHolds, AllJoined
<1>0. /\ wpc \in [Workers -> WorkerStates] /\ cpc \in [Clients -> ClientStates]
      /\ res \subseteq Resources /\ count \in Nat
  BY DEF IInv, TypeOK
<1>1. CASE UNCHANGED <<wpc, cpc, res, shutdown, count>>
  BY <1>1
\* A client, the owner perhaps, goes from one call to another.
<1>2. ASSUME NEW c \in Clients, cpc[c] \in {"idle", "submit", "wait"},
             NEW p \in {"idle", "submit", "wait"}, cpc' = [cpc EXCEPT ![c] = p],
             UNCHANGED <<wpc, res, shutdown>>, count' = count \/ ~shutdown
      PROVE  LifeHolds'
  BY <1>0, <1>2
<1>3. ASSUME NEW r \in Resources, Acquire(r) PROVE LifeHolds'
  BY <1>0, <1>3 DEF Acquire
<1>4. ASSUME NEW r \in Resources, AcquireFail(r) PROVE LifeHolds'
  <2>1. res' = {}
    BY <1>4, UndoComplete DEF AcquireFail
  <2> QED BY <1>0, <1>4, <2>1 DEF AcquireFail
<1>5. ASSUME NEW w \in Workers, SpawnOk(w) PROVE LifeHolds'
  <2>1. w = NumThreads => \A v \in Workers : wpc'[v] # "none"
    BY <1>0, <1>5 DEF SpawnOk, Spawning, Workers
  <2>2. cpc'[Owner] = IF w = NumThreads THEN "idle" ELSE "spawn"
    BY <1>0, <1>5 DEF SpawnOk
  <2>3. \A v \in Workers : wpc'[v] = "exited" => wpc[v] = "exited"
    BY <1>0, <1>5 DEF SpawnOk
  <2> QED BY <1>0, <1>5, <2>1, <2>2, <2>3 DEF SpawnOk
<1>6. ASSUME NEW w \in Workers, SpawnFail(w) PROVE LifeHolds'
  BY <1>0, <1>6 DEF SpawnFail, BeginShutdown
<1>7. CASE Release
  <2>1. res' = {}
    BY <1>0, <1>7 DEF Release, Resources
  <2> QED BY <1>0, <1>7, <2>1 DEF Release
<1>8. ASSUME NEW w \in Workers, WorkerSleep(w) PROVE LifeHolds'
  BY <1>1, <1>8 DEF WorkerSleep
<1>9. ASSUME NEW w \in Workers, WorkerExit(w) PROVE LifeHolds'
  BY <1>0, <1>9 DEF WorkerExit, InLoop, WorkerExits
<1>10. ASSUME NEW w \in Workers, WorkerTake(w) PROVE LifeHolds'
  <2>1. \A v \in Workers : wpc[v] # "exited"
    BY <1>10 DEF WorkerTake, WorkerExits
  <2> QED BY <1>0, <1>10, <2>1 DEF WorkerTake, InLoop
<1>11. ASSUME NEW w \in Workers, WorkerFinish(w) PROVE LifeHolds'
  BY <1>0, <1>11 DEF WorkerFinish
<1>12. ASSUME NEW c \in Clients, CallStep(c) PROVE LifeHolds'
  <2>1. CASE SubmitSleep(c) \/ WaitSleep(c)
    BY <1>1, <2>1 DEF SubmitSleep, WaitSleep
  <2>2. CASE SubmitRefuse(c) \/ SubmitAccept(c)
    BY <1>2, <2>2 DEF SubmitRefuse, SubmitAccept, InSubmit, Enqueue
  <2>3. CASE WaitReturn(c)
    BY <1>2, <2>3 DEF WaitReturn, InWait
  <2> QED BY <1>12, <2>1, <2>2, <2>3 DEF CallStep
<1>13. ASSUME NEW c \in Clients, ClientCall(c) PROVE LifeHolds'
  <2>1. ASSUME NEW t \in Tasks, CallSubmit(c, t) PROVE LifeHolds'
    BY <1>2, <2>1 DEF CallSubmit, MayCall
  <2>2. ASSUME NEW t \in Tasks, TrySubmitRefuse(c, t) PROVE LifeHolds'
    BY <1>1, <2>2 DEF TrySubmitRefuse
  <2>3. ASSUME NEW t \in Tasks, TrySubmitAccept(c, t) PROVE LifeHolds'
    BY <1>0, <2>3 DEF TrySubmitAccept, Enqueue
  <2>4. CASE CallWait(c)
    BY <1>2, <2>4 DEF CallWait, MayCall
  <2> QED BY <1>13, <2>1, <2>2, <2>3, <2>4 DEF ClientCall
<1>14. CASE Destroy
  BY <1>0, <1>14 DEF Destroy, BeginShutdown
<1>15. CASE SpuriousWake \/ UNCHANGED vars
  BY <1>1, <1>15 DEF SpuriousWake, vars
<1> QED
  BY <1>3, <1>4, <1>5, <1>6, <1>7, <1>8, <1>9, <1>10, <1>11, <1>12, <1>13, <1>14, <1>15
     DEF Next, OwnerStep, WorkerStep, Terminated

\* When pool_destroy is called at rest, nobody is inside a call before the pool
\* is there and once its destruction has begun.
QuietHolds ==
    cpc[Owner] \notin {"idle", "submit", "wait"} =>
        \A c \in Clients : cpc[c] \notin {"submit", "wait"}

\* Nobody enters a call when the owner may not be in one itself.
LEMMA QuietStep ==
    QuietDestroy /\ TypeOK /\ QuietHolds /\ [Next]_vars => QuietHolds'
<1> SUFFICES ASSUME QuietDestroy, TypeOK, QuietHolds, [Next]_vars PROVE QuietHolds'
  OBVIOUS
<1> USE DEF clientVars, QuietHolds
<1>0. cpc \in [Clients -> ClientStates]
  BY DEF TypeOK
<1>1. CASE cpc' = cpc
  BY <1>1
<1>2. ASSUME NEW c \in Clients, NEW p \in {"idle", "submit", "wait"},
             cpc[Owner] \in {"idle", "submit", "wait"}, cpc' = [cpc EXCEPT ![c] = p]
      PROVE  QuietHolds'
  BY <1>0, <1>2
<1>3. CASE OwnerStep
  <2>1. cpc[Owner] \notin {"idle", "submit", "wait"}
    BY <1>3 DEF OwnerStep, Acquire, AcquireFail, SpawnOk, SpawnFail, Release
  <2>2. PICK p \in ClientStates \ {"submit", "wait"} : cpc' = [cpc EXCEPT ![Owner] = p]
    BY <1>3 DEF OwnerStep, Acquire, AcquireFail, SpawnOk, SpawnFail, Release, ClientStates
  <2> QED BY <1>0, <2>1, <2>2
<1>4. ASSUME NEW w \in Workers, WorkerStep(w) PROVE QuietHolds'
  BY <1>1, <1>4 DEF WorkerStep, WorkerSleep, WorkerExit, WorkerTake, WorkerFinish
<1>5. ASSUME NEW c \in Clients, CallStep(c) PROVE QuietHolds'
  <2>1. CASE SubmitSleep(c) \/ WaitSleep(c)
    BY <1>1, <2>1 DEF SubmitSleep, WaitSleep
  <2>2. CASE SubmitRefuse(c) \/ SubmitAccept(c) \/ WaitReturn(c)
    <3>1. cpc[c] \in {"submit", "wait"} /\ cpc' = [cpc EXCEPT ![c] = "idle"]
      BY <2>2 DEF SubmitRefuse, SubmitAccept, WaitReturn, InSubmit, InWait
    <3> QED BY <1>2, <3>1
  <2> QED BY <1>5, <2>1, <2>2 DEF CallStep
<1>6. ASSUME NEW c \in Clients, ClientCall(c) PROVE QuietHolds'
  <2>1. MayCall(c)
    BY <1>6 DEF ClientCall, CallSubmit, TrySubmitRefuse, TrySubmitAccept, CallWait
  <2>2. cpc[Owner] \in {"idle", "submit", "wait"}
    BY <2>1 DEF MayCall
  <2>3. cpc' = cpc \/ \E p \in {"submit", "wait"} : cpc' = [cpc EXCEPT ![c] = p]
    BY <1>6 DEF ClientCall, CallSubmit, TrySubmitRefuse, TrySubmitAccept, CallWait
  <2> QED BY <1>1, <1>2, <2>2, <2>3
<1>7. CASE Destroy
  BY <1>0, <1>7 DEF Destroy
<1>8. CASE SpuriousWake \/ UNCHANGED vars
  BY <1>1, <1>8 DEF SpuriousWake, vars
<1> QED
  BY <1>3, <1>4, <1>5, <1>6, <1>7, <1>8 DEF Next, Terminated

-----------------------------------------------------------------------------
\* The invariant of the tasks and of the pool's life.
PoolInv == IInv /\ TaskInv /\ SnapHolds /\ LifeHolds

\* The ring, the workers, the callers and the history always agree about the
\* tasks, and the owner, the workers and the resources about the pool's life.
THEOREM PoolInvHolds == Spec => []PoolInv
<1>1. Init => TaskInv /\ SnapHolds /\ LifeHolds
  <2> SUFFICES ASSUME Init PROVE TaskInv /\ SnapHolds /\ LifeHolds
    OBVIOUS
  <2>1. Running = {} /\ Submitters = {}
    BY DEF Init, Running, Submitters
  <2>2. TaskInv
    BY <2>1 DEF Init, TaskInv, TailBehind, Slot, RingHolds, WorkersHold, SubmittersHold
  <2>3. SnapHolds /\ LifeHolds
    BY DEF Init, SnapHolds, LifeHolds
  <2> QED BY <2>2, <2>3
<1>2. IInv /\ TaskInv /\ SnapHolds /\ LifeHolds /\ [Next]_vars
      => TaskInv' /\ SnapHolds' /\ LifeHolds'
  BY TaskStep, SnapStep, LifeStep
<1> QED BY <1>1, <1>2, IInvHolds, PTL DEF Spec, PoolInv

\* head, tail and count describe the queued tasks, active the running ones.
THEOREM RingAlwaysConsistent == Spec => []RingConsistent
<1>1. PoolInv => RingConsistent
  <2> SUFFICES ASSUME PoolInv PROVE RingConsistent
    OBVIOUS
  <2>0. /\ TypeOK /\ ActiveCounts /\ TailBehind /\ RingHolds /\ WorkersHold
        /\ head \in 0 .. QueueSize - 1 /\ count \in 0 .. QueueSize
    BY DEF PoolInv, IInv, TaskInv, TypeOK
  <2>1. tail = (head + count) % QueueSize
    BY <2>0, OneTurn DEF TailBehind
  <2>2. ASSUME NEW t \in Tasks
        PROVE  Cardinality({i \in 1 .. count : Ring[i] = t})
                 = IF status[t] = "queued" THEN 1 ELSE 0
    <3>1. CASE status[t] = "queued"
      <4>1. PICK k \in 1 .. count : Ring[k] = t
        BY <2>0, <3>1 DEF RingHolds
      <4>2. {i \in 1 .. count : Ring[i] = t} = {k}
        BY <2>0, <4>1 DEF RingHolds
      <4> QED BY <3>1, <4>2, FS_Singleton
    <3>2. CASE status[t] # "queued"
      <4>1. {i \in 1 .. count : Ring[i] = t} = {}
        BY <2>0, <3>2 DEF RingHolds
      <4> QED BY <3>2, <4>1, FS_EmptySet
    <3> QED BY <3>1, <3>2
  <2>3. {wtask[w] : w \in Running} = {t \in Tasks : status[t] = "running"}
    BY <2>0 DEF WorkersHold
  <2> QED BY <2>0, <2>1, <2>2, <2>3 DEF RingConsistent, ActiveCounts
<1> QED BY <1>1, PoolInvHolds, PTL

\* pool_destroy releases a drained pool.
THEOREM ReleasedDrained == Spec => []DrainedBeforeRelease
<1>1. PoolInv => DrainedBeforeRelease
  <2> SUFFICES ASSUME PoolInv, cpc[Owner] = "done", NEW t \in Tasks,
                      status[t] \in {"queued", "running"}
               PROVE  FALSE
    BY DEF DrainedBeforeRelease
  <2>1. 1 \in Workers
    BY DEF Workers
  <2>2. wpc[1] = "exited" /\ Running = {}
    BY <2>1 DEF PoolInv, LifeHolds, AllJoined, Running
  <2>3. count = 0
    BY <2>1, <2>2 DEF PoolInv, LifeHolds
  <2> QED BY <2>2, <2>3 DEF PoolInv, TaskInv, RingHolds, WorkersHold
<1> QED BY <1>1, PoolInvHolds, PTL

\* Neither a failed pool_create nor pool_destroy leaves anything acquired.
THEOREM EverythingReleased == Spec => []NothingLeaked
<1>1. PoolInv => NothingLeaked
  BY DEF PoolInv, LifeHolds, NothingLeaked
<1> QED BY <1>1, PoolInvHolds, PTL

\* A pool_wait that returns has seen an empty queue and no active worker: the
\* tasks accepted before its call are done.
THEOREM WaitsCover == Spec => WaitCovers
<1>1. PoolInv /\ [Next]_vars =>
        [\A c \in Clients : (cpc[c] = "wait" /\ cpc'[c] # "wait") =>
            \A t \in snap[c] : status[t] = "done"]_vars
  <2> SUFFICES ASSUME PoolInv, Next, NEW c \in Clients, cpc[c] = "wait", cpc'[c] # "wait",
                      NEW t \in snap[c]
               PROVE  status[t] = "done"
    OBVIOUS
  <2> USE DEF clientVars
  <2>0. TypeOK /\ cpc \in [Clients -> ClientStates] /\ t \in Tasks
    BY DEF PoolInv, IInv, TypeOK
  <2>1. WaitReturn(c)
    <3>1. ASSUME NEW d \in Clients, NEW p, cpc[d] # "wait", cpc' = [cpc EXCEPT ![d] = p]
          PROVE  FALSE
      BY <2>0, <3>1
    <3>2. cpc' # cpc
      OBVIOUS
    <3>3. ~OwnerStep
      <4>1. ASSUME OwnerStep
            PROVE  cpc[Owner] # "wait" /\ \E p \in ClientStates : cpc' = [cpc EXCEPT ![Owner] = p]
        BY <4>1 DEF OwnerStep, Acquire, AcquireFail, SpawnOk, SpawnFail, Release, ClientStates
      <4> QED BY <3>1, <4>1
    <3>4. ASSUME NEW w \in Workers PROVE ~WorkerStep(w)
      BY <3>2 DEF WorkerStep, WorkerSleep, WorkerExit, WorkerTake, WorkerFinish
    <3>5. ~Destroy /\ ~SpuriousWake /\ ~Terminated
      BY <3>1, <3>2 DEF Destroy, SpuriousWake, Terminated, vars
    <3>6. ASSUME NEW d \in Clients PROVE ~ClientCall(d)
      BY <3>1, <3>2 DEF ClientCall, CallSubmit, TrySubmitRefuse, TrySubmitAccept, CallWait, MayCall
    <3>7. ASSUME NEW d \in Clients, CallStep(d) PROVE WaitReturn(c)
      <4>1. ~SubmitSleep(d) /\ ~WaitSleep(d)
        BY <3>2 DEF SubmitSleep, WaitSleep
      <4>2. ~SubmitRefuse(d) /\ ~SubmitAccept(d)
        BY <3>1 DEF SubmitRefuse, SubmitAccept, InSubmit
      <4>3. WaitReturn(d)
        BY <3>7, <4>1, <4>2 DEF CallStep
      <4>4. c = d
        BY <2>0, <4>3 DEF WaitReturn
      <4> QED BY <4>3, <4>4
    <3> QED BY <3>3, <3>4, <3>5, <3>6, <3>7 DEF Next
  <2>2. count = 0 /\ active = 0
    BY <2>1 DEF WaitReturn, WaitBlocks
  <2>3. Running = {}
    <3>1. Running \in SUBSET Workers
      BY DEF Running
    <3>2. IsFiniteSet(Running) /\ Cardinality(Running) = 0
      BY <2>2, <3>1, WorkersFinite DEF PoolInv, IInv, ActiveCounts
    <3> QED BY <3>2, FS_EmptySet
  <2>4. status[t] \notin {"queued", "running"}
    BY <2>0, <2>2, <2>3 DEF PoolInv, TaskInv, RingHolds, WorkersHold
  <2> QED BY <2>4 DEF PoolInv, SnapHolds
<1> QED BY <1>1, PoolInvHolds, PTL DEF Spec, WaitCovers

\* When pool_destroy is called at rest, no thread is inside the pool's code
\* when its memory goes.
THEOREM NobodyInsideReleased == QuietDestroy /\ Spec => []NoUseAfterRelease
<1>1. QuietDestroy /\ Init => QuietHolds
  BY DEF Init, QuietHolds
<1>2. PoolInv => TypeOK
  BY DEF PoolInv, IInv
<1>3. PoolInv /\ QuietHolds => NoUseAfterRelease
  BY DEF PoolInv, LifeHolds, AllJoined, QuietHolds, NoUseAfterRelease
<1>4. CASE QuietDestroy
  <2>1. TypeOK /\ QuietHolds /\ [Next]_vars => QuietHolds'
    BY <1>4, QuietStep
  <2>2. Init => QuietHolds
    BY <1>1, <1>4
  <2> QED BY <1>2, <1>3, <2>1, <2>2, PoolInvHolds, PTL DEF Spec
<1> QED BY <1>4

-----------------------------------------------------------------------------
(***************************************************************************)
(* The pool implements TaskPool, step by step.                             *)
(***************************************************************************)
\* What ThreadPool's refinement mapping puts for running, finished, refused.
RunningTasks == {wtask[w] : w \in Running}
FinishedTasks == {t \in Tasks : status[t] = "done"}
RefusedTasks == {t \in Tasks : status[t] = "refused"}

\* Storing one more element behind a sequence appends it.
LEMMA AppendIsFunction ==
    ASSUME NEW S, NEW s \in Seq(S), NEW e \in S, NEW r,
           r = [i \in 1 .. Len(s) + 1 |-> IF i = Len(s) + 1 THEN e ELSE s[i]]
    PROVE  r = Append(s, e)
<1>1. Len(s) \in Nat /\ \A i \in 1 .. Len(s) : s[i] \in S
  BY LenProperties, ElementOfSeq
<1>2. r \in [1 .. Len(s) + 1 -> S] /\ Len(s) + 1 \in Nat
  BY <1>1
<1>3. r \in Seq(S) /\ Len(r) = Len(s) + 1
  BY <1>2
<1>4. /\ Append(s, e) \in Seq(S) /\ Len(Append(s, e)) = Len(s) + 1
      /\ \A i \in 1 .. Len(s) : Append(s, e)[i] = s[i]
      /\ Append(s, e)[Len(s) + 1] = e
  BY AppendProperties
<1>5. \A i \in 1 .. Len(r) : r[i] = Append(s, e)[i]
  BY <1>1, <1>3, <1>4
<1> QED BY <1>3, <1>4, <1>5, SeqEqual

\* Skipping the first element of a sequence leaves its tail.
LEMMA TailIsFunction ==
    ASSUME NEW S, NEW s \in Seq(S), Len(s) # 0, NEW r,
           r = [i \in 1 .. Len(s) - 1 |-> s[i + 1]]
    PROVE  s # <<>> /\ Head(s) = s[1] /\ r = Tail(s)
<1>1. Len(s) \in Nat /\ \A i \in 1 .. Len(s) : s[i] \in S
  BY LenProperties, ElementOfSeq
<1>2. r \in [1 .. Len(s) - 1 -> S] /\ Len(s) - 1 \in Nat
  BY <1>1
<1>3. r \in Seq(S) /\ Len(r) = Len(s) - 1
  BY <1>2
<1>4. s # <<>>
  BY EmptySeq
<1>5. /\ Tail(s) \in Seq(S) /\ Len(Tail(s)) = Len(s) - 1
      /\ \A i \in 1 .. Len(Tail(s)) : Tail(s)[i] = s[i + 1]
  BY <1>4, HeadTailProperties
<1>6. \A i \in 1 .. Len(r) : r[i] = Tail(s)[i]
  BY <1>1, <1>3, <1>5
<1>7. Head(s) = s[1]
  BY <1>4
<1> QED BY <1>3, <1>4, <1>5, <1>6, <1>7, SeqEqual

\* The ring is a sequence of tasks.
LEMMA RingIsSeq ==
    ASSUME PoolInv
    PROVE  Ring \in Seq(Tasks) /\ Len(Ring) = count /\ count \in 0 .. QueueSize
<1>1. count \in 0 .. QueueSize /\ \A i \in 1 .. count : Ring[i] \in Tasks
  BY DEF PoolInv, IInv, TypeOK, TaskInv, RingHolds
<1>2. DOMAIN Ring = 1 .. count /\ Ring \in [1 .. count -> Tasks]
  BY <1>1 DEF Ring
<1> QED BY <1>1, <1>2

\* A task the pool does not know yet is unknown to the abstract pool.
LEMMA UnknownTask ==
    ASSUME PoolInv, NEW t \in Tasks, status[t] \in {"fresh", "offered"}
    PROVE  t \notin Pool!Known
BY RingIsSeq DEF Pool!Known, PoolInv, TaskInv, RingHolds, WorkersHold

\* A task that enters the ring is accepted.
LEMMA AcceptMapped ==
    ASSUME PoolInv, PoolInv', NEW t \in Tasks, status[t] \in {"fresh", "offered"},
           ~shutdown, count # QueueSize, Enqueue(t),
           status' = [status EXCEPT ![t] = "queued"], UNCHANGED <<wpc, wtask>>
    PROVE  Pool!Accept(t)
<1>0. /\ status \in [Tasks -> TaskStates] /\ TypeOK /\ TypeOK' /\ TailBehind
      /\ count \in 0 .. QueueSize
  BY DEF PoolInv, IInv, TypeOK, TaskInv
<1>1. /\ count' = count + 1
      /\ Ring' = [i \in 1 .. count + 1 |-> IF i = count + 1 THEN t ELSE Ring[i]]
  BY <1>0, EnqueueRing
<1>2. Ring \in Seq(Tasks) /\ Len(Ring) = count
  BY RingIsSeq
<1>3. Ring' = Append(Ring, t)
  BY <1>1, <1>2, AppendIsFunction, ZenonT(60)
<1>4. Running' = Running
  BY DEF Running
<1>5. FinishedTasks' = FinishedTasks /\ RefusedTasks' = RefusedTasks /\ shutdown' = shutdown
  BY <1>0 DEF FinishedTasks, RefusedTasks, Enqueue
<1> QED BY <1>0, <1>2, <1>3, <1>4, <1>5, UnknownTask
        DEF Pool!Accept, FinishedTasks, RefusedTasks

\* A task that is turned away is refused.
LEMMA RefuseMapped ==
    ASSUME PoolInv, NEW t \in Tasks, status[t] \in {"fresh", "offered"},
           shutdown \/ count = QueueSize,
           status' = [status EXCEPT ![t] = "refused"],
           UNCHANGED <<queue, head, count, shutdown, wpc, wtask>>
    PROVE  Pool!Refuse(t)
<1>0. status \in [Tasks -> TaskStates]
  BY DEF PoolInv, IInv, TypeOK
<1>1. Ring' = Ring /\ Running' = Running /\ shutdown' = shutdown /\ wtask' = wtask
  BY DEF Ring, Running
<1>2. FinishedTasks' = FinishedTasks /\ RefusedTasks' = RefusedTasks \cup {t}
  BY <1>0 DEF FinishedTasks, RefusedTasks
<1> QED BY <1>1, <1>2, RingIsSeq, UnknownTask
        DEF Pool!Refuse, FinishedTasks, RefusedTasks

\* The task a worker takes is the oldest, and one more may run.
LEMMA TakeMapped ==
    ASSUME PoolInv, PoolInv', NEW w \in Workers, WorkerTake(w)
    PROVE  Pool!Start
<1>0. /\ status \in [Tasks -> TaskStates] /\ wtask \in [Workers -> Tasks \cup {NoTask}]
      /\ wpc \in [Workers -> WorkerStates]
      /\ TypeOK /\ TypeOK' /\ TailBehind
  BY DEF PoolInv, IInv, TypeOK, TaskInv
<1>1. /\ count' = count - 1 /\ count \in 1 .. QueueSize /\ queue[head] = Ring[1]
      /\ Ring' = [i \in 1 .. count - 1 |-> Ring[i + 1]]
  BY <1>0, TakeRing
<1>2. Ring \in Seq(Tasks) /\ Len(Ring) = count
  BY RingIsSeq
<1>3. Ring # <<>> /\ Head(Ring) = Ring[1] /\ Ring' = Tail(Ring)
  <2>1. Len(Ring) # 0
    BY <1>1, <1>2
  <2> QED BY <1>1, <1>2, <2>1, TailIsFunction
<1>4. Running' = Running \cup {w} /\ w \notin Running /\ wtask' = [wtask EXCEPT ![w] = Ring[1]]
  BY <1>0, <1>1 DEF WorkerTake, InLoop, Running
<1>5. RunningTasks' = RunningTasks \cup {Ring[1]}
  BY <1>0, <1>4 DEF RunningTasks, Running
<1>6. /\ FinishedTasks' = FinishedTasks /\ RefusedTasks' = RefusedTasks
      /\ shutdown' = shutdown
  <2>1. status[Ring[1]] = "queued" /\ status' = [status EXCEPT ![Ring[1]] = "running"]
    BY <1>1 DEF WorkerTake, PoolInv, TaskInv, RingHolds
  <2> QED BY <1>0, <2>1 DEF FinishedTasks, RefusedTasks, WorkerTake
<1>7. Cardinality(RunningTasks) < NumThreads
  <2> DEFINE f == [v \in Running |-> wtask[v]]
  <2>1. IsFiniteSet(Running) /\ Cardinality(Running) \in 0 .. NumThreads - 1
    BY <1>0, RunningBounds DEF WorkerTake, InLoop
  <2>2. f \in Surjection(Running, RunningTasks)
    BY DEF Surjection, RunningTasks
  <2>3. IsFiniteSet(RunningTasks) /\ Cardinality(RunningTasks) <= Cardinality(Running)
    BY <2>1, <2>2, FS_Surjection
  <2>4. Cardinality(RunningTasks) \in Nat
    BY <2>3, FS_CardinalityType
  <2> QED BY <2>1, <2>3, <2>4
<1>8. RunningTasks' = RunningTasks \cup {Head(Ring)}
  BY <1>3, <1>5
<1>9. Pool!Cardinality(RunningTasks) = Cardinality(RunningTasks)
  BY DEF Pool!Cardinality, Cardinality
<1> QED BY <1>3, <1>6, <1>7, <1>8, <1>9 DEF Pool!Start, RunningTasks, FinishedTasks, RefusedTasks

\* A worker that comes back from its task finishes that one only.
LEMMA FinishMapped ==
    ASSUME PoolInv, NEW w \in Workers, WorkerFinish(w), NEW t, t = wtask[w]
    PROVE  t \in Tasks /\ Pool!Finish(t)
<1>0. /\ status \in [Tasks -> TaskStates] /\ wtask \in [Workers -> Tasks \cup {NoTask}]
      /\ wpc \in [Workers -> WorkerStates]
  BY DEF PoolInv, IInv, TypeOK
<1>1. w \in Running /\ wtask[w] \in Tasks /\ status[wtask[w]] = "running"
  BY DEF WorkerFinish, Running, PoolInv, TaskInv, WorkersHold
<1>2. Running' = Running \ {w} /\ wtask' = [wtask EXCEPT ![w] = NoTask]
  BY <1>0 DEF WorkerFinish, Running
<1>3. RunningTasks' = RunningTasks \ {wtask[w]}
  BY <1>0, <1>1, <1>2 DEF RunningTasks, Running, PoolInv, TaskInv, WorkersHold
<1>4. FinishedTasks' = FinishedTasks \cup {wtask[w]} /\ RefusedTasks' = RefusedTasks
  BY <1>0, <1>1 DEF FinishedTasks, RefusedTasks, WorkerFinish
<1>5. Ring' = Ring /\ shutdown' = shutdown
  BY DEF WorkerFinish, Ring
<1> QED BY <1>1, <1>3, <1>4, <1>5 DEF Pool!Finish, RunningTasks, FinishedTasks, RefusedTasks

\* Every step of the pool is a step of TaskPool or none.
THEOREM ImplementsTaskPoolSafety == Spec => Pool!Safety
<1> USE DEF poolVars, condVars, workerVars, clientVars, history
<1>1. Init => Pool!Init
  BY DEF Init, Pool!Init, Ring, Running
<1>2. PoolInv /\ PoolInv' /\ [Next]_vars => [Pool!Next]_(Pool!vars)
  <2> SUFFICES ASSUME PoolInv, PoolInv', [Next]_vars PROVE [Pool!Next]_(Pool!vars)
    OBVIOUS
  <2>0. TypeOK
    BY DEF PoolInv, IInv
  <2>1. CASE MovesNoTask
    <3>1. /\ Ring' = Ring /\ RunningTasks' = RunningTasks
          /\ FinishedTasks' = FinishedTasks /\ RefusedTasks' = RefusedTasks
      BY <2>1 DEF MovesNoTask, Ring, RunningTasks, FinishedTasks, RefusedTasks
    <3>2. shutdown' = shutdown \/ shutdown' = TRUE
      BY DEF Next, OwnerStep, Acquire, AcquireFail, SpawnOk, SpawnFail, Release, Destroy,
             BeginShutdown, WorkerStep, WorkerSleep, WorkerExit, WorkerTake, WorkerFinish,
             CallStep, SubmitSleep, SubmitRefuse, SubmitAccept, WaitSleep, WaitReturn,
             ClientCall, CallSubmit, TrySubmitRefuse, TrySubmitAccept, CallWait, Enqueue,
             SpuriousWake, Terminated, vars
    <3>3. CASE shutdown' = shutdown
      BY <3>1, <3>3 DEF Pool!vars, RunningTasks, FinishedTasks, RefusedTasks
    <3>4. CASE ~shutdown /\ shutdown' = TRUE
      BY <3>1, <3>4 DEF Pool!Next, Pool!Close, RunningTasks, FinishedTasks, RefusedTasks
    <3> QED BY <2>0, <3>2, <3>3, <3>4 DEF TypeOK
  <2>2. ASSUME NEW c \in Clients, SubmitAccept(c) \/ SubmitRefuse(c) PROVE Pool!Next
    <3>1. carg[c] \in Tasks /\ status[carg[c]] = "offered"
      BY <2>2 DEF SubmitAccept, SubmitRefuse, InSubmit, Submitters, PoolInv, TaskInv,
                  SubmittersHold
    <3>2. CASE SubmitAccept(c)
      BY <3>1, <3>2, AcceptMapped DEF SubmitAccept, SubmitBlocks, Pool!Next
    <3>3. CASE SubmitRefuse(c)
      BY <3>1, <3>3, RefuseMapped DEF SubmitRefuse, Pool!Next
    <3> QED BY <2>2, <3>2, <3>3
  <2>3. ASSUME NEW c \in Clients, NEW t \in Tasks, TrySubmitAccept(c, t) PROVE Pool!Next
    BY <2>3, AcceptMapped DEF TrySubmitAccept, Pool!Next
  <2>4. ASSUME NEW c \in Clients, NEW t \in Tasks, TrySubmitRefuse(c, t) PROVE Pool!Next
    BY <2>4, RefuseMapped DEF TrySubmitRefuse, Pool!Next
  <2>5. ASSUME NEW c \in Clients, NEW t \in Tasks, CallSubmit(c, t) PROVE UNCHANGED Pool!vars
    <3>1. status \in [Tasks -> TaskStates] /\ status[t] = "fresh" /\ wpc' = wpc /\ wtask' = wtask
      BY <2>0, <2>5 DEF TypeOK, CallSubmit
    <3>2. Ring' = Ring /\ Running' = Running /\ shutdown' = shutdown
      BY <2>5 DEF CallSubmit, Ring, Running
    <3>3. FinishedTasks' = FinishedTasks /\ RefusedTasks' = RefusedTasks
      BY <2>5, <3>1 DEF CallSubmit, FinishedTasks, RefusedTasks
    <3> QED BY <3>1, <3>2, <3>3 DEF Pool!vars, FinishedTasks, RefusedTasks
  <2>6. ASSUME NEW w \in Workers, WorkerTake(w) \/ WorkerFinish(w) PROVE Pool!Next
    <3>1. CASE WorkerTake(w)
      <4>1. Pool!Start
        BY <3>1, TakeMapped
      <4> QED BY <4>1 DEF Pool!Next
    <3>2. CASE WorkerFinish(w)
      <4>1. PICK t : t = wtask[w]
        OBVIOUS
      <4>2. t \in Tasks /\ Pool!Finish(t)
        BY <3>2, <4>1, FinishMapped
      <4> QED BY <4>2 DEF Pool!Next
    <3> QED BY <2>6, <3>1, <3>2
  <2> QED BY <2>0, <2>1, <2>2, <2>3, <2>4, <2>5, <2>6, StepKinds
<1> QED BY <1>1, <1>2, PoolInvHolds, PTL DEF Spec, Pool!Safety
=============================================================================
