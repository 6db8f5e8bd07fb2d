----------------------------- MODULE ThreadPool -----------------------------
(***************************************************************************)
(* stdlib/utils/thread_pool.h: a pthread pool over a bounded ring buffer.  *)
(*                                                                         *)
(* Every access to the shared fields of pool_t happens between a lock and  *)
(* an unlock (or a condition wait), so one action is one critical section. *)
(* A condition variable is the set of threads asleep on it: a signal wakes *)
(* one of them, any of them, a broadcast wakes all, and a woken thread     *)
(* evaluates its while condition again in a later critical section, after  *)
(* whatever other threads did in between.                                  *)
(***************************************************************************)
EXTENDS Naturals, Sequences, FiniteSets

CONSTANTS
    NumThreads,       \* num_threads of pool_create
    QueueSize,        \* queue_size of pool_create
    Clients,          \* the threads that call the API
    Owner,            \* the client that creates and destroys the pool
    Tasks,            \* submissions; each (fn, arg) pair is offered once
    NoTask,           \* a zeroed queue slot
    MaxWaits,         \* bound on the calls to pool_wait
    SpuriousWakeups,  \* pthread_cond_wait may return without a signal
    QuietDestroy      \* pool_destroy is called only when no other call runs

ASSUME NumThreadsAssumption == NumThreads \in Nat \ {0}
ASSUME QueueSizeAssumption == QueueSize \in Nat \ {0}
ASSUME OwnerAssumption == Owner \in Clients
ASSUME ClientsAssumption == IsFiniteSet(Clients)
ASSUME NoTaskAssumption == NoTask \notin Tasks
ASSUME MaxWaitsAssumption == MaxWaits \in Nat
ASSUME SwitchAssumption == SpuriousWakeups \in BOOLEAN /\ QuietDestroy \in BOOLEAN

Workers == 1 .. NumThreads

\* What pool_create acquires, in this order.
Acquisition == <<"pool", "threads", "queue", "mutex",
                 "cond_not_empty", "cond_not_full", "cond_finished">>

Resources == {"pool", "threads", "queue", "mutex",
              "cond_not_empty", "cond_not_full", "cond_finished"}

VARIABLES
    res,            \* resources acquired and not yet released
    queue,          \* pool->queue
    head,           \* pool->head
    tail,           \* pool->tail
    count,          \* pool->count
    active,         \* pool->active
    shutdown,       \* pool->shutdown
    condNotEmpty,   \* workers asleep on pool->cond_not_empty
    condNotFull,    \* clients asleep on pool->cond_not_full
    condFinished,   \* clients asleep on pool->cond_finished
    wpc,            \* where each worker is: "none" before pthread_create
    wtask,          \* the local variable task of a worker that runs it
    cpc,            \* where each client is
    carg,           \* the task a client inside pool_submit offers
    waits,          \* history: calls to pool_wait so far (bounds the model)
    status,         \* history: what became of each task
    snap            \* history: tasks pending when a client called pool_wait

poolVars == <<queue, head, tail, count, active, shutdown>>
condVars == <<condNotEmpty, condNotFull, condFinished>>
workerVars == <<wpc, wtask>>
clientVars == <<cpc, carg>>
history == <<waits, status, snap>>
vars == <<res, queue, head, tail, count, active, shutdown, condNotEmpty,
          condNotFull, condFinished, wpc, wtask, cpc, carg, waits, status, snap>>

-----------------------------------------------------------------------------
(***************************************************************************)
(* pthread primitives.                                                     *)
(***************************************************************************)

\* A critical section needs the mutex to exist: using it later is undefined.
MutexLive == "mutex" \in res

WakeNobody(S) == {S}
\* pthread_cond_signal: the possible sets of threads still asleep.
WakeOne(S) == IF S = {} THEN {{}} ELSE {S \ {x} : x \in S}

KeepAsleep(S) == S
\* pthread_cond_broadcast: nobody is still asleep.
WakeAll(S) == {}

-----------------------------------------------------------------------------
(***************************************************************************)
(* The conditions of the code.                                             *)
(***************************************************************************)

StayPut(i) == i % QueueSize
\* (i + 1) % pool->queue_size
NextSlot(i) == (i + 1) % QueueSize

\* The while condition of pool_worker.
WorkerBlocks == count = 0 /\ ~shutdown

ExitAtOnce == shutdown
\* The exit condition of pool_worker: an empty queue and a shutdown.
WorkerExits == count = 0 /\ shutdown

SubmitNeverBlocks == FALSE
\* The while condition of pool_submit.
SubmitBlocks == count = QueueSize /\ ~shutdown

WaitForQueueOnly == count # 0
\* The while condition of pool_wait.
WaitBlocks == count # 0 \/ active # 0

NobodyJoined == TRUE
\* Every pthread_join of the workers created so far has returned.
AllJoined == \A w \in Workers : wpc[w] \in {"none", "exited"}

-----------------------------------------------------------------------------
Init ==
    /\ res = {}
    /\ queue = [i \in 0 .. QueueSize - 1 |-> NoTask]
    /\ head = 0
    /\ tail = 0
    /\ count = 0
    /\ active = 0
    /\ shutdown = FALSE
    /\ condNotEmpty = {}
    /\ condNotFull = {}
    /\ condFinished = {}
    /\ wpc = [w \in Workers |-> "none"]
    /\ wtask = [w \in Workers |-> NoTask]
    /\ cpc = [c \in Clients |-> IF c = Owner THEN "create" ELSE "idle"]
    /\ carg = [c \in Clients |-> NoTask]
    /\ waits = 0
    /\ status = [t \in Tasks |-> "fresh"]
    /\ snap = [c \in Clients |-> {}]

-----------------------------------------------------------------------------
(***************************************************************************)
(* pool_create: seven acquisitions, each with its own undo branch, then    *)
(* one pthread_create per worker; a failure there shuts the pool down and  *)
(* joins the workers that already run.                                     *)
(***************************************************************************)

\* The first resource pool_create does not hold yet.
Acquiring(r) ==
    \E k \in 1 .. 7 :
        /\ Acquisition[k] = r
        /\ res = {Acquisition[j] : j \in 1 .. k - 1}

Acquire(r) ==
    /\ cpc[Owner] = "create"
    /\ Acquiring(r)
    /\ res' = res \cup {r}
    /\ cpc' = [cpc EXCEPT ![Owner] =
                  IF r = "cond_finished" THEN "spawn" ELSE "create"]
    /\ UNCHANGED <<poolVars, condVars, workerVars, carg, history>>

\* The undo branch that forgets pthread_mutex_destroy after the last init.
UndoForgettingMutex(r) ==
    CASE r = "pool"           -> {}
      [] r = "threads"        -> {"pool"}
      [] r = "queue"          -> {"threads", "pool"}
      [] r = "mutex"          -> {"queue", "threads", "pool"}
      [] r = "cond_not_empty" -> {"mutex", "queue", "threads", "pool"}
      [] r = "cond_not_full"  -> {"cond_not_empty", "mutex", "queue", "threads", "pool"}
      [] OTHER                -> {"cond_not_full", "cond_not_empty", "queue", "threads", "pool"}

\* What the branch taken when acquiring r fails releases.
Undo(r) ==
    CASE r = "pool"           -> {}
      [] r = "threads"        -> {"pool"}
      [] r = "queue"          -> {"threads", "pool"}
      [] r = "mutex"          -> {"queue", "threads", "pool"}
      [] r = "cond_not_empty" -> {"mutex", "queue", "threads", "pool"}
      [] r = "cond_not_full"  -> {"cond_not_empty", "mutex", "queue", "threads", "pool"}
      [] OTHER                -> {"cond_not_full", "cond_not_empty", "mutex",
                                  "queue", "threads", "pool"}

AcquireFail(r) ==
    /\ cpc[Owner] = "create"
    /\ Acquiring(r)
    /\ res' = res \ Undo(r)
    /\ cpc' = [cpc EXCEPT ![Owner] = "null"]
    /\ UNCHANGED <<poolVars, condVars, workerVars, carg, history>>

\* The worker pthread_create starts next.
Spawning(w) == \A v \in Workers : wpc[v] = "none" <=> v >= w

SpawnOk(w) ==
    /\ cpc[Owner] = "spawn"
    /\ Spawning(w)
    /\ wpc' = [wpc EXCEPT ![w] = "loop"]
    /\ cpc' = [cpc EXCEPT ![Owner] = IF w = NumThreads THEN "idle" ELSE "spawn"]
    /\ UNCHANGED <<res, poolVars, condVars, wtask, carg, history>>

\* The critical section that starts both teardowns.
BeginShutdown ==
    /\ MutexLive
    /\ shutdown' = TRUE
    /\ condNotEmpty' = WakeAll(condNotEmpty)
    /\ condNotFull' = WakeAll(condNotFull)
    /\ UNCHANGED <<res, queue, head, tail, count, active, condFinished,
                   workerVars, carg, history>>

SpawnFail(w) ==
    /\ cpc[Owner] = "spawn"
    /\ Spawning(w)
    /\ BeginShutdown
    /\ cpc' = [cpc EXCEPT ![Owner] = "fail_join"]

\* The destroys and frees after the joins, in pool_create and pool_destroy.
Release ==
    /\ cpc[Owner] \in {"fail_join", "join"}
    /\ AllJoined
    /\ res' = res \ {"cond_finished", "cond_not_full", "cond_not_empty",
                     "mutex", "queue", "threads", "pool"}
    /\ cpc' = [cpc EXCEPT ![Owner] = IF @ = "join" THEN "done" ELSE "null"]
    /\ UNCHANGED <<poolVars, condVars, workerVars, carg, history>>

-----------------------------------------------------------------------------
(***************************************************************************)
(* The API calls.  A call starts before it has the mutex; what it does     *)
(* under the mutex is a step of its own, repeated after every wakeup.      *)
(***************************************************************************)

\* The pool pointer is in c's hands and c may still use it.
MayCall(c) ==
    /\ cpc[c] = "idle"
    /\ \/ cpc[Owner] \in {"idle", "submit", "wait"}
       \/ cpc[Owner] = "join" /\ ~QuietDestroy

\* Both submit functions store the task and signal cond_not_empty.
Enqueue(t) ==
    /\ queue' = [queue EXCEPT ![tail] = t]
    /\ tail' = NextSlot(tail)
    /\ count' = count + 1
    /\ condNotEmpty' \in WakeOne(condNotEmpty)
    /\ UNCHANGED <<head, active, shutdown, condNotFull, condFinished>>

CallSubmit(c, t) ==
    /\ MayCall(c)
    /\ status[t] = "fresh"
    /\ status' = [status EXCEPT ![t] = "offered"]
    /\ carg' = [carg EXCEPT ![c] = t]
    /\ cpc' = [cpc EXCEPT ![c] = "submit"]
    /\ UNCHANGED <<res, poolVars, condVars, workerVars, waits, snap>>

\* c holds the mutex inside pool_submit.
InSubmit(c) == MutexLive /\ cpc[c] = "submit" /\ c \notin condNotFull

SubmitSleep(c) ==
    /\ InSubmit(c)
    /\ SubmitBlocks
    /\ condNotFull' = condNotFull \cup {c}
    /\ UNCHANGED <<res, poolVars, condNotEmpty, condFinished, workerVars,
                   clientVars, history>>

SubmitRefuse(c) ==
    /\ InSubmit(c)
    /\ ~SubmitBlocks
    /\ shutdown
    /\ status' = [status EXCEPT ![carg[c]] = "refused"]
    /\ carg' = [carg EXCEPT ![c] = NoTask]
    /\ cpc' = [cpc EXCEPT ![c] = "idle"]
    /\ UNCHANGED <<res, poolVars, condVars, workerVars, waits, snap>>

SubmitAccept(c) ==
    /\ InSubmit(c)
    /\ ~SubmitBlocks
    /\ ~shutdown
    /\ Enqueue(carg[c])
    /\ status' = [status EXCEPT ![carg[c]] = "queued"]
    /\ carg' = [carg EXCEPT ![c] = NoTask]
    /\ cpc' = [cpc EXCEPT ![c] = "idle"]
    /\ UNCHANGED <<res, workerVars, waits, snap>>

\* pool_try_submit never sleeps: one critical section decides.
TrySubmitRefuse(c, t) ==
    /\ MayCall(c)
    /\ MutexLive
    /\ status[t] = "fresh"
    /\ shutdown \/ count = QueueSize
    /\ status' = [status EXCEPT ![t] = "refused"]
    /\ UNCHANGED <<res, poolVars, condVars, workerVars, clientVars, waits, snap>>

TrySubmitAccept(c, t) ==
    /\ MayCall(c)
    /\ MutexLive
    /\ status[t] = "fresh"
    /\ ~(shutdown \/ count = QueueSize)
    /\ Enqueue(t)
    /\ status' = [status EXCEPT ![t] = "queued"]
    /\ UNCHANGED <<res, workerVars, clientVars, waits, snap>>

CallWait(c) ==
    /\ MayCall(c)
    /\ waits < MaxWaits
    /\ waits' = waits + 1
    /\ cpc' = [cpc EXCEPT ![c] = "wait"]
    /\ snap' = [snap EXCEPT ![c] = {t \in Tasks : status[t] \in {"queued", "running"}}]
    /\ UNCHANGED <<res, poolVars, condVars, workerVars, carg, status>>

\* c holds the mutex inside pool_wait.
InWait(c) == MutexLive /\ cpc[c] = "wait" /\ c \notin condFinished

WaitSleep(c) ==
    /\ InWait(c)
    /\ WaitBlocks
    /\ condFinished' = condFinished \cup {c}
    /\ UNCHANGED <<res, poolVars, condNotEmpty, condNotFull, workerVars,
                   clientVars, history>>

WaitReturn(c) ==
    /\ InWait(c)
    /\ ~WaitBlocks
    /\ cpc' = [cpc EXCEPT ![c] = "idle"]
    /\ snap' = [snap EXCEPT ![c] = {}]
    /\ UNCHANGED <<res, poolVars, condVars, workerVars, carg, waits, status>>

\* pool_destroy up to its joins; Release is the rest of it.
Destroy ==
    /\ cpc[Owner] = "idle"
    /\ QuietDestroy => \A c \in Clients : cpc[c] = "idle"
    /\ BeginShutdown
    /\ cpc' = [cpc EXCEPT ![Owner] = "join"]

-----------------------------------------------------------------------------
(***************************************************************************)
(* pool_worker.                                                            *)
(***************************************************************************)

\* w holds the mutex at its while condition.
InLoop(w) == MutexLive /\ wpc[w] = "loop" /\ w \notin condNotEmpty

WorkerSleep(w) ==
    /\ InLoop(w)
    /\ WorkerBlocks
    /\ condNotEmpty' = condNotEmpty \cup {w}
    /\ UNCHANGED <<res, poolVars, condNotFull, condFinished, workerVars,
                   clientVars, history>>

WorkerExitSpins(w) ==
    /\ InLoop(w)
    /\ WorkerExits
    /\ UNCHANGED vars

WorkerExit(w) ==
    /\ InLoop(w)
    /\ WorkerExits
    /\ wpc' = [wpc EXCEPT ![w] = "exited"]
    /\ UNCHANGED <<res, poolVars, condVars, wtask, clientVars, history>>

WorkerTake(w) ==
    /\ InLoop(w)
    /\ ~WorkerBlocks
    /\ ~WorkerExits
    /\ wtask' = [wtask EXCEPT ![w] = queue[head]]
    /\ wpc' = [wpc EXCEPT ![w] = "run"]
    /\ head' = NextSlot(head)
    /\ count' = count - 1
    /\ active' = active + 1
    /\ condNotFull' \in WakeOne(condNotFull)
    /\ status' = [status EXCEPT ![queue[head]] = "running"]
    /\ UNCHANGED <<res, queue, tail, shutdown, condNotEmpty, condFinished,
                   clientVars, waits, snap>>

\* The task returned: the critical section that accounts for it.
WorkerFinish(w) ==
    /\ MutexLive
    /\ wpc[w] = "run"
    /\ active' = active - 1
    /\ condFinished' = IF count = 0 /\ active' = 0
                         THEN WakeAll(condFinished) ELSE condFinished
    /\ wpc' = [wpc EXCEPT ![w] = "loop"]
    /\ wtask' = [wtask EXCEPT ![w] = NoTask]
    /\ status' = [status EXCEPT ![wtask[w]] = "done"]
    /\ UNCHANGED <<res, queue, head, tail, count, shutdown, condNotEmpty,
                   condNotFull, clientVars, waits, snap>>

-----------------------------------------------------------------------------
\* POSIX lets pthread_cond_wait return without a signal.
SpuriousWake ==
    /\ SpuriousWakeups
    /\ MutexLive
    /\ \/ \E w \in condNotEmpty :
             /\ condNotEmpty' = condNotEmpty \ {w}
             /\ UNCHANGED <<condNotFull, condFinished>>
       \/ \E c \in condNotFull :
             /\ condNotFull' = condNotFull \ {c}
             /\ UNCHANGED <<condNotEmpty, condFinished>>
       \/ \E c \in condFinished :
             /\ condFinished' = condFinished \ {c}
             /\ UNCHANGED <<condNotEmpty, condNotFull>>
    /\ UNCHANGED <<res, poolVars, workerVars, clientVars, history>>

\* The pool is gone: nothing more has to happen.
Terminated ==
    /\ cpc[Owner] \in {"null", "done"}
    /\ UNCHANGED vars

OwnerStep ==
    \/ \E r \in Resources : Acquire(r) \/ AcquireFail(r)
    \/ \E w \in Workers : SpawnOk(w) \/ SpawnFail(w)
    \/ Release

WorkerStep(w) == WorkerSleep(w) \/ WorkerExit(w) \/ WorkerTake(w) \/ WorkerFinish(w)

\* The steps of a call that has started.
CallStep(c) ==
    \/ SubmitSleep(c) \/ SubmitRefuse(c) \/ SubmitAccept(c)
    \/ WaitSleep(c) \/ WaitReturn(c)

\* The calls a client may or may not make.
ClientCall(c) ==
    \/ \E t \in Tasks : CallSubmit(c, t) \/ TrySubmitRefuse(c, t) \/ TrySubmitAccept(c, t)
    \/ CallWait(c)

Next ==
    \/ OwnerStep
    \/ \E w \in Workers : WorkerStep(w)
    \/ \E c \in Clients : CallStep(c) \/ ClientCall(c)
    \/ Destroy
    \/ SpuriousWake
    \/ Terminated

Spec == Init /\ [][Next]_vars

\* Threads that can run do run, and a task function returns; nobody has to
\* call the API, and nobody has to destroy the pool.
Fairness ==
    /\ WF_vars(OwnerStep)
    /\ \A w \in Workers : WF_vars(WorkerStep(w))
    /\ \A c \in Clients : WF_vars(CallStep(c))

FairSpec == Spec /\ Fairness

-----------------------------------------------------------------------------
(***************************************************************************)
(* Properties.                                                             *)
(***************************************************************************)

\* The ring's content, oldest task first.
Ring == [i \in 1 .. count |-> queue[(head + i - 1) % QueueSize]]

Running == {w \in Workers : wpc[w] = "run"}
AwakeWorkers == {w \in Workers : wpc[w] = "loop"} \ condNotEmpty
AwakeSubmitters == {c \in Clients : cpc[c] = "submit"} \ condNotFull

WorkerStates == {"none", "loop", "run", "exited"}
ClientStates == {"create", "spawn", "fail_join", "null", "idle", "submit",
                 "wait", "join", "done"}
TaskStates == {"fresh", "offered", "queued", "running", "done", "refused"}

\* Types of all fields of pool_t and of the threads' local state.  Only the
\* threads inside the matching call sleep on a condition variable.
TypeOK ==
    /\ res \subseteq Resources
    /\ queue \in [0 .. QueueSize - 1 -> Tasks \cup {NoTask}]
    /\ head \in 0 .. QueueSize - 1
    /\ tail \in 0 .. QueueSize - 1
    /\ count \in 0 .. QueueSize
    /\ active \in 0 .. NumThreads
    /\ shutdown \in BOOLEAN
    /\ wpc \in [Workers -> WorkerStates]
    /\ wtask \in [Workers -> Tasks \cup {NoTask}]
    /\ cpc \in [Clients -> ClientStates]
    /\ carg \in [Clients -> Tasks \cup {NoTask}]
    /\ waits \in 0 .. MaxWaits
    /\ status \in [Tasks -> TaskStates]
    /\ snap \in [Clients -> SUBSET Tasks]
    /\ condNotEmpty \subseteq {w \in Workers : wpc[w] = "loop"}
    /\ condNotFull \subseteq {c \in Clients : cpc[c] = "submit"}
    /\ condFinished \subseteq {c \in Clients : cpc[c] = "wait"}

\* The four parts of NoLostWakeup.
TaskWakeups == condNotEmpty # {} => count <= Cardinality(AwakeWorkers)
SlotWakeups == condNotFull # {} => QueueSize - count <= Cardinality(AwakeSubmitters)
FinishWakeups == condFinished # {} => count # 0 \/ active # 0
ShutdownWakeups == shutdown => condNotEmpty = {} /\ condNotFull = {}

\* No wakeup is lost: while a thread sleeps on a condition variable, for
\* every unit of what it waits for (a queued task, a free slot) some other
\* thread is already awake and will look at it; a waiter of pool_wait sleeps
\* only while work is left; after the shutdown nobody sleeps on the first two.
\* This is what the one-signal-per-task protocol of thread_pool.h rests on.
NoLostWakeup == TaskWakeups /\ SlotWakeups /\ FinishWakeups /\ ShutdownWakeups

\* head, tail and count describe one ring; it holds exactly the accepted
\* tasks that no worker took yet, none twice; active counts the workers that
\* run a task, and those tasks are the ones taken and not finished.
RingConsistent ==
    /\ tail = (head + count) % QueueSize
    /\ \A t \in Tasks :
          Cardinality({i \in 1 .. count : Ring[i] = t})
             = (IF status[t] = "queued" THEN 1 ELSE 0)
    /\ active = Cardinality(Running)
    /\ {wtask[w] : w \in Running} = {t \in Tasks : status[t] = "running"}

\* pool_destroy drains: once the resources are released, no accepted task is
\* left queued or running, however the calls of other clients overlapped it.
DrainedBeforeRelease ==
    cpc[Owner] = "done" =>
        \A t \in Tasks : status[t] \notin {"queued", "running"}

\* A failed pool_create gives back everything it acquired, whichever of its
\* seven acquisitions or thread starts failed; so does pool_destroy.
NothingLeaked == cpc[Owner] \in {"null", "done"} => res = {}

\* With no other call under way when pool_destroy starts, no thread is left
\* inside the pool's code when its memory is released.
NoUseAfterRelease ==
    cpc[Owner] \in {"null", "done"} =>
        /\ \A w \in Workers : wpc[w] \in {"none", "exited"}
        /\ \A c \in Clients : cpc[c] \notin {"submit", "wait"}

\* When pool_wait returns, every task accepted before it was called has
\* finished, although others may submit while it waits.
WaitCovers ==
    [][\A c \in Clients :
          (cpc[c] = "wait" /\ cpc'[c] # "wait") =>
              \A t \in snap[c] : status[t] = "done"]_vars

\* Every call returns: a blocked pool_submit gets a slot or a refusal,
\* pool_wait ends, and pool_create and pool_destroy come back from their joins.
CallsReturn ==
    /\ \A c \in Clients : cpc[c] = "submit" ~> cpc[c] # "submit"
    /\ \A c \in Clients : cpc[c] = "wait" ~> cpc[c] # "wait"
    /\ cpc[Owner] \in {"create", "spawn", "fail_join", "join"}
          ~> cpc[Owner] \in {"null", "idle", "done"}

\* The abstract pool: the ring as a sequence, the workers as a set of tasks.
Pool == INSTANCE TaskPool WITH
            Capacity <- QueueSize,
            Width <- NumThreads,
            todo <- Ring,
            running <- {wtask[w] : w \in Running},
            finished <- {t \in Tasks : status[t] = "done"},
            refused <- {t \in Tasks : status[t] = "refused"},
            closed <- shutdown

\* The pool implements TaskPool: FIFO starts, each accepted task exactly once,
\* refusal only when full or shut down, and every accepted task finishes.
ImplementsTaskPool == Pool!Spec
=============================================================================
