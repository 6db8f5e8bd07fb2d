--------------------------- MODULE CoSchedProofs ----------------------------
(***************************************************************************)
(* For any number of tasks and any initial capacity: co_run returns only   *)
(* when every task is done, and no task gets a second turn while another   *)
(* unfinished one waits.                                                   *)
(***************************************************************************)
EXTENDS CoSched, TLAPS

\* The loop of this pass has been at index k.
Visited(k) == k < i \/ (k = i /\ running # None)

\* Who has control, and when.
Control ==
    /\ ~incall => running = None
    /\ running # None =>
        i \in DOMAIN tasks /\ running = tasks[i] /\ pending

\* A pass that resumed nobody so far met only finished tasks.
PassInv == incall /\ ~pending => \A k \in DOMAIN tasks : k < i => done[tasks[k]]

\* Outside co_run nobody waits; inside, whom an unfinished task has seen
\* resumed since its own turn follows from where the loop is.
TurnInv ==
    \A j, k \in DOMAIN tasks :
        ~done[tasks[k]] /\ tasks[j] \in seen[tasks[k]] =>
            /\ incall
            /\ Visited(k) => k < j /\ Visited(j)
            /\ ~Visited(k) => Visited(j) \/ k < j

Flags == inited \in BOOLEAN /\ incall \in BOOLEAN /\ pending \in BOOLEAN

\* A task has seen only tasks of this scheduler's life.
SeenInv == \A k \in DOMAIN tasks : seen[tasks[k]] \subseteq Spawned

IInv == TypeOK /\ Control /\ PassInv /\ SeenInv /\ TurnInv

-----------------------------------------------------------------------------
\* Before co_sched_init every part of the invariant holds.
LEMMA InitIInv == Init => IInv
<1> SUFFICES ASSUME Init PROVE IInv
    OBVIOUS
<1>1. tasks \in Seq(Tasks) /\ Len(tasks) = 0 /\ DOMAIN tasks = {}
    BY DEF Init
<1>f. Flags
    BY DEF Init, Flags
<1>2. TypeOK
    BY <1>1, <1>f DEF Init, TypeOK, Flags
<1>3. Control /\ PassInv /\ SeenInv /\ TurnInv
    BY <1>1 DEF Init, Control, PassInv, SeenInv, TurnInv
<1> QED
    BY <1>2, <1>3 DEF IInv

\* co_spawn appends one task and moves no other, so the loop of co_run keeps
\* its place.
LEMMA SpawnIInv == ASSUME IInv, NEW t \in Tasks, Spawn(t) PROVE IInv'
<1> USE TaskAssumption
<1> DEFINE n == Len(tasks)
<1>1. /\ n \in Nat /\ DOMAIN tasks = 1 .. n
      /\ tasks' \in Seq(Tasks) /\ Len(tasks') = n + 1
      /\ DOMAIN tasks' = 1 .. n + 1
      /\ \A k \in 1 .. n : tasks'[k] = tasks[k]
      /\ tasks'[n + 1] = t
    BY DEF IInv, TypeOK, Spawn
<1>2. \A k \in 1 .. n : tasks[k] # t /\ tasks[k] \in Tasks
    BY <1>1 DEF Spawn, Spawned, IInv, TypeOK
<1>3. /\ done' \in [Tasks -> BOOLEAN] /\ ~done'[t]
      /\ seen' \in [Tasks -> SUBSET Tasks] /\ seen'[t] = {}
      /\ \A k \in 1 .. n : done'[tasks[k]] = done[tasks[k]] /\ seen'[tasks[k]] = seen[tasks[k]]
    BY <1>2 DEF Spawn, IInv, TypeOK
<1>4. incall => running # None
    BY DEF Spawn, MaySpawn
<1>5. incall' = incall /\ running' = running /\ i' = i /\ pending' = pending /\ inited' = inited
    BY DEF Spawn
<1>6. TypeOK'
  <2>1. cap' \in Nat /\ Len(tasks') <= cap'
    <3>1. cap \in Nat /\ n <= cap /\ (n = cap => cap' = GrownCap) /\ (n # cap => cap' = cap)
        BY DEF Spawn, Full, IInv, TypeOK
    <3>2. GrownCap \in Nat /\ GrownCap > cap
        BY <3>1 DEF GrownCap
    <3>3. CASE n = cap
        BY <1>1, <3>1, <3>2, <3>3, SMTT(30)
    <3>4. CASE n # cap
      <4>1. cap' = cap
          BY <3>1, <3>4
      <4>2. \A a, b \in Nat : a <= b /\ a # b => a + 1 <= b
          BY SMTT(30)
      <4>3. n + 1 <= cap
          BY <1>1, <3>1, <3>4, <4>2
      <4> QED
          BY <1>1, <3>1, <4>1, <4>3
    <3> QED
        BY <3>3, <3>4
  <2>2. running' \in Spawned'
            \/ running' = None
      BY <1>1, <1>5 DEF IInv, TypeOK, Spawned
  <2>3. \A j, k \in DOMAIN tasks' : tasks'[j] = tasks'[k] => j = k
      BY <1>1, <1>2 DEF IInv, TypeOK
  <2> QED
      BY <1>1, <1>3, <1>5, <2>1, <2>2, <2>3 DEF IInv, TypeOK
<1>7. Control'
    BY <1>1, <1>5 DEF IInv, Control
<1>8. PassInv'
    BY <1>1, <1>4, <1>5 DEF IInv, Control, PassInv
<1>9. TurnInv'
  <2> SUFFICES ASSUME NEW j \in DOMAIN tasks', NEW k \in DOMAIN tasks',
                      ~done'[tasks'[k]], tasks'[j] \in seen'[tasks'[k]]
               PROVE  /\ incall'
                      /\ Visited(k)' => k < j /\ Visited(j)'
                      /\ ~Visited(k)' => Visited(j)' \/ k < j
      BY DEF TurnInv
  <2>1. k \in 1 .. n
      BY <1>1, <1>3
  <2>2. CASE j \in 1 .. n
      BY <1>1, <1>3, <1>5, <2>1, <2>2 DEF IInv, TurnInv, Visited
  <2>3. CASE j = n + 1
    \* Nobody has seen the new task.
    <3>1. t \in Spawned
        BY <1>1, <1>3, <2>1, <2>3 DEF IInv, SeenInv
    <3> QED
        BY <3>1 DEF Spawn
  <2> QED
      BY <1>1, <2>2, <2>3
<1>10. SeenInv'
  <2>1. Spawned \subseteq Spawned'
      BY <1>1 DEF Spawned
  <2>2. \A k \in 1 .. n : seen[tasks[k]] \subseteq Spawned
      BY <1>1 DEF IInv, SeenInv
  <2> QED
      BY <1>1, <1>3, <2>1, <2>2 DEF SeenInv
<1> QED
    BY <1>6, <1>7, <1>8, <1>9, <1>10 DEF IInv

\* A step of the main program or of the loop, tasks unchanged.
LEMMA LoopIInv == ASSUME IInv, [RunStep \/ TaskStep]_vars PROVE IInv'
<1> USE TaskAssumption
<1> DEFINE n == Len(tasks)
<1>0. /\ n \in Nat /\ DOMAIN tasks = 1 .. n /\ i \in Nat \ {0}
      /\ \A k \in 1 .. n : tasks[k] \in Tasks
      /\ \A j, k \in 1 .. n : tasks[j] = tasks[k] => j = k
    BY DEF IInv, TypeOK
<1>1. CASE Skip
  <2>1. TypeOK'
      BY <1>1 DEF Skip, InLoop, IInv, TypeOK, Spawned
  <2>2. Control' /\ SeenInv'
      BY <1>1 DEF Skip, InLoop, IInv, Control, SeenInv, Spawned
  <2>3. PassInv'
      BY <1>0, <1>1 DEF Skip, InLoop, IInv, PassInv
  <2>4. TurnInv'
    <3> SUFFICES ASSUME NEW j \in 1 .. n, NEW k \in 1 .. n,
                        ~done[tasks[k]], tasks[j] \in seen[tasks[k]]
                 PROVE  /\ incall
                        /\ k < i + 1 => k < j /\ j < i + 1
                        /\ ~(k < i + 1) => j < i + 1 \/ k < j
        BY <1>0, <1>1 DEF TurnInv, Visited, Skip, InLoop
    <3>1. k # i
        BY <1>1 DEF Skip
    <3> QED
        BY <1>0, <1>1, <3>1 DEF IInv, TurnInv, Visited, Skip, InLoop
  <2> QED
      BY <2>1, <2>2, <2>3, <2>4 DEF IInv
<1>2. CASE Resume
  <2>0. i \in 1 .. n /\ running' = tasks[i] /\ running' # None /\ tasks' = tasks
      BY <1>0, <1>2 DEF Resume
  <2>1. TypeOK'
      BY <1>0, <1>2, <2>0 DEF Resume, InLoop, IInv, TypeOK, Spawned
  <2>2. Control' /\ PassInv'
      BY <1>0, <1>2, <2>0 DEF Resume, InLoop, Control, PassInv
  <2>3. SeenInv'
      BY <1>0, <1>2, <2>0 DEF Resume, IInv, SeenInv, Spawned
  <2>4. TurnInv'
    <3> SUFFICES ASSUME NEW j \in 1 .. n, NEW k \in 1 .. n,
                        ~done[tasks[k]], tasks[j] \in seen'[tasks[k]]
                 PROVE  /\ incall
                        /\ k < i + 1 => k < j /\ j < i + 1
                        /\ ~(k < i + 1) => j < i + 1 \/ k < j
        BY <1>0, <1>2, <2>0, SMTT(30) DEF TurnInv, Visited, Resume, InLoop
    <3>1. k # i /\ (j = i \/ tasks[j] \in seen[tasks[k]])
        BY <1>0, <1>2, <2>0 DEF Resume, IInv, TypeOK
    <3> QED
        BY <1>0, <1>2, <3>1 DEF IInv, TurnInv, Visited, Resume, InLoop
  <2> QED
      BY <2>1, <2>2, <2>3, <2>4 DEF IInv
<1>3. CASE TaskStep
  <2>0. /\ running = tasks[i] /\ i \in 1 .. n /\ running # None /\ incall /\ pending
        /\ running' = None /\ i' = i + 1 /\ pending' = pending /\ incall' = incall
        /\ tasks' = tasks /\ seen' = seen /\ cap' = cap /\ inited' = inited
      BY <1>0, <1>3 DEF TaskStep, Yield, Finish, IInv, Control
  <2>1. /\ done' \in [Tasks -> BOOLEAN]
        /\ \A k \in 1 .. n : done[tasks[k]] => done'[tasks[k]]
      BY <1>0, <1>3, <2>0, ZenonT(60) DEF TaskStep, Yield, Finish, IInv, TypeOK
  <2>2. TypeOK' /\ Control' /\ PassInv' /\ SeenInv'
      BY <1>0, <2>0, <2>1 DEF IInv, TypeOK, Control, PassInv, SeenInv, Spawned
  <2>3. TurnInv'
      BY <1>0, <2>0, <2>1 DEF IInv, TurnInv, Visited
  <2> QED
      BY <2>2, <2>3 DEF IInv
<1>4. CASE NextPass
  <2>f. Flags'
      BY <1>4 DEF NextPass, IInv, TypeOK, Flags
  <2>t. TypeOK'
      BY <1>4, <2>f DEF NextPass, IInv, TypeOK, Flags, Spawned
  <2>1. TypeOK' /\ Control' /\ SeenInv' /\ PassInv'
      BY <1>0, <1>4, <2>t DEF NextPass, InLoop, IInv, Control, SeenInv, PassInv, Spawned
  <2>2. TurnInv'
      BY <1>0, <1>4 DEF NextPass, InLoop, IInv, TurnInv, Visited
  <2> QED
      BY <2>1, <2>2 DEF IInv
<1>5. CASE RunReturn
  <2>1. \A k \in 1 .. n : done[tasks[k]]
      BY <1>0, <1>5 DEF RunReturn, InLoop, IInv, PassInv
  <2>f. Flags'
      BY <1>5 DEF RunReturn, IInv, TypeOK, Flags
  <2>t. TypeOK'
      BY <1>5, <2>f DEF RunReturn, IInv, TypeOK, Flags, Spawned
  <2>2. TypeOK' /\ Control' /\ SeenInv' /\ PassInv'
      BY <1>0, <1>5, <2>t DEF RunReturn, InLoop, IInv, Control, SeenInv, PassInv, Spawned
  <2>3. TurnInv'
      BY <1>0, <1>5, <2>1 DEF RunReturn, TurnInv
  <2> QED
      BY <2>2, <2>3 DEF IInv
<1>6. CASE UNCHANGED vars
    BY <1>6 DEF vars, IInv, TypeOK, Control, PassInv, SeenInv, TurnInv, Visited, Spawned
<1> QED
    BY <1>1, <1>2, <1>3, <1>4, <1>5, <1>6 DEF RunStep

\* The calls of the main program, and a co_spawn out of memory.
LEMMA CallIInv ==
    ASSUME IInv, SchedInit \/ CallRun \/ SchedFree \/ SpawnFail PROVE IInv'
<1> USE TaskAssumption
<1>0. Len(tasks) \in Nat /\ DOMAIN tasks = 1 .. Len(tasks)
    BY DEF IInv, TypeOK
<1>1. CASE SchedInit
    BY <1>1 DEF SchedInit, IInv, TypeOK, Control, PassInv, SeenInv, TurnInv, Visited, Spawned
<1>2. CASE SpawnFail
  <2>1. cap' \in Nat /\ cap <= cap'
      BY <1>2 DEF SpawnFail, GrownCap, IInv, TypeOK
  <2> QED
      BY <1>0, <1>2, <2>1
      DEF SpawnFail, IInv, TypeOK, Control, PassInv, SeenInv, TurnInv, Visited, Spawned
<1>3. CASE CallRun
  <2>f. Flags'
      BY <1>3 DEF CallRun, IInv, TypeOK, Flags
  <2>t. TypeOK'
      BY <1>3, <2>f DEF CallRun, IInv, TypeOK, Flags, Spawned
  <2>1. TypeOK' /\ Control' /\ SeenInv' /\ PassInv'
      BY <1>0, <1>3, <2>t DEF CallRun, IInv, Control, SeenInv, PassInv, Spawned
  <2>2. TurnInv'
      BY <1>0, <1>3 DEF CallRun, IInv, TurnInv
  <2> QED
      BY <2>1, <2>2 DEF IInv
<1>4. CASE SchedFree
  <2>1. tasks' \in Seq(Tasks) /\ Len(tasks') = 0 /\ DOMAIN tasks' = {}
      BY <1>4 DEF SchedFree
  <2>2. running' = None
      BY <1>4 DEF SchedFree, IInv, Control
  <2>f. Flags'
      BY <1>4 DEF SchedFree, IInv, TypeOK, Flags
  <2>t. TypeOK'
      BY <1>4, <2>1, <2>2, <2>f DEF SchedFree, IInv, TypeOK, Flags
  <2> QED
      BY <1>4, <2>1, <2>2, <2>t DEF SchedFree, IInv, Control, PassInv, SeenInv, TurnInv
<1> QED
    BY <1>1, <1>2, <1>3, <1>4

\* The inductive invariant holds in every reachable state of the scheduler.
THEOREM IInvHolds == Spec => []IInv
<1>1. IInv /\ [Next]_vars => IInv'
    BY SpawnIInv, LoopIInv, CallIInv DEF Next
<1> QED
    BY InitIInv, <1>1, PTL DEF Spec

\* aco.h's task array holds each task once and never past its capacity.
THEOREM TypeCorrect == Spec => []TypeOK
<1>1. IInv => TypeOK
    BY DEF IInv
<1> QED
    BY IInvHolds, <1>1, PTL

\* co_run returns only when every task is done, tasks that were spawned by
\* other tasks while it walked the array included.
THEOREM AllDoneOnReturn == Spec => ReturnsWhenAllDone
<1>1. IInv /\ [Next]_vars => [incall /\ ~incall' => \A t \in Spawned : done[t]]_vars
  <2> SUFFICES ASSUME IInv, Next, incall, ~incall' PROVE \A t \in Spawned : done[t]
      OBVIOUS
  <2>1. RunReturn
      BY DEF Next, SchedInit, CallRun, SchedFree, SpawnFail, Spawn, RunStep, TaskStep,
             Skip, Resume, NextPass, Yield, Finish, IInv, TypeOK
  <2>2. Len(tasks) \in Nat /\ DOMAIN tasks = 1 .. Len(tasks) /\ i \in Nat
      BY DEF IInv, TypeOK
  <2> QED
      BY <2>1, <2>2 DEF RunReturn, InLoop, IInv, PassInv, Spawned
<1> QED
    BY IInvHolds, <1>1, PTL DEF Spec, ReturnsWhenAllDone

\* Round robin: no task is resumed twice while an unfinished one waits.
THEOREM TurnsAreFair == Spec => FairTurns
<1>1. IInv /\ [Next]_vars =>
        [running = None /\ running' # None =>
            \A t \in Spawned \ {running'} : ~done[t] => running' \notin seen[t]]_vars
  <2> SUFFICES ASSUME IInv, Next, running = None, running' # None,
                      NEW t \in Spawned \ {running'}, ~done[t], running' \in seen[t]
               PROVE  FALSE
      OBVIOUS
  <2>1. Resume
      BY DEF Next, SchedInit, CallRun, SchedFree, SpawnFail, Spawn, RunStep, TaskStep,
             Skip, RunReturn, NextPass, Yield, Finish
  <2>2. Len(tasks) \in Nat /\ DOMAIN tasks = 1 .. Len(tasks) /\ i \in Nat \ {0}
      BY DEF IInv, TypeOK
  <2>3. PICK k \in 1 .. Len(tasks) : t = tasks[k]
      BY <2>2 DEF Spawned
  <2>4. i \in 1 .. Len(tasks) /\ running' = tasks[i] /\ k # i
      BY <2>1, <2>2, <2>3 DEF Resume
  <2> QED
      BY <2>2, <2>3, <2>4 DEF IInv, TurnInv, Visited
<1> QED
    BY IInvHolds, <1>1, PTL DEF Spec, FairTurns
=============================================================================
