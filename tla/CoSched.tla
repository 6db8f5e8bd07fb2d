------------------------------ MODULE CoSched -------------------------------
(***************************************************************************)
(* stdlib/utils/aco.h: the round-robin scheduler of cooperative tasks.     *)
(*                                                                         *)
(* A resumed task runs until it yields or its function returns; on the way *)
(* it may spawn tasks, which can move the task array while co_run walks    *)
(* it.  Tasks never run co_run or co_sched_free themselves: libaco only    *)
(* resumes from the main coroutine.                                        *)
(*                                                                         *)
(* seen is a history variable: the tasks resumed since a task's last turn. *)
(***************************************************************************)
EXTENDS Naturals, Sequences

CONSTANTS
    Tasks,     \* the tasks co_spawn may allocate
    None,      \* the null task
    InitCap    \* the first capacity of the task array (8 in the code)

ASSUME TaskAssumption == None \notin Tasks /\ InitCap \in Nat \ {0}

VARIABLES
    inited,    \* s->main_co is set
    tasks,     \* s->tasks, s->count entries
    cap,       \* s->cap
    done,      \* t->done
    running,   \* the coroutine that has control, None for the main one
    incall,    \* co_run is under way
    i,         \* the loop index of co_run, counted from 1
    pending,   \* its flag: this pass resumed a task
    seen

vars == <<inited, tasks, cap, done, running, incall, i, pending, seen>>

Spawned == {tasks[k] : k \in DOMAIN tasks}

-----------------------------------------------------------------------------
Init ==
    /\ inited = FALSE
    /\ tasks = <<>>
    /\ cap = 0
    /\ done = [t \in Tasks |-> FALSE]
    /\ running = None
    /\ incall = FALSE
    /\ i = 1
    /\ pending = FALSE
    /\ seen = [t \in Tasks |-> {}]

\* co_sched_init, when aco_create succeeds (a failure leaves nothing to use).
SchedInit ==
    /\ ~inited
    /\ inited' = TRUE
    /\ UNCHANGED <<tasks, cap, done, running, incall, i, pending, seen>>

\* The main coroutine between calls, or a task in its turn.
MaySpawn == inited /\ (incall => running # None)

Full == Len(tasks) = cap

GrownCap == IF cap = 0 THEN InitCap ELSE cap * 2

\* co_spawn
Spawn(t) ==
    /\ MaySpawn
    /\ t \notin Spawned
    /\ cap' = IF Full THEN GrownCap ELSE cap
    /\ tasks' = Append(tasks, t)
    /\ done' = [done EXCEPT ![t] = FALSE]
    /\ seen' = [seen EXCEPT ![t] = {}]
    /\ UNCHANGED <<inited, running, incall, i, pending>>

\* co_spawn out of memory: the array may have grown, nothing else stays.
SpawnFail ==
    /\ MaySpawn
    /\ cap' \in {cap, IF Full THEN GrownCap ELSE cap}
    /\ UNCHANGED <<inited, tasks, done, running, incall, i, pending, seen>>

\* co_run is called.
CallRun ==
    /\ inited /\ ~incall
    /\ incall' = TRUE
    /\ pending' = FALSE
    /\ i' = 1
    /\ UNCHANGED <<inited, tasks, cap, done, running, seen>>

InLoop == incall /\ running = None

\* The for loop meets a finished task.
Skip ==
    /\ InLoop
    /\ i <= Len(tasks)
    /\ done[tasks[i]]
    /\ i' = i + 1
    /\ UNCHANGED <<inited, tasks, cap, done, running, incall, pending, seen>>

ResumeUnmarked ==
    /\ InLoop
    /\ i <= Len(tasks)
    /\ ~done[tasks[i]]
    /\ running' = tasks[i]
    /\ seen' = [t \in Tasks |-> IF t = tasks[i] THEN {} ELSE seen[t] \cup {tasks[i]}]
    /\ UNCHANGED <<inited, tasks, cap, done, incall, i, pending>>

\* The for loop resumes an unfinished one.
Resume ==
    /\ InLoop
    /\ i <= Len(tasks)
    /\ ~done[tasks[i]]
    /\ pending' = TRUE
    /\ running' = tasks[i]
    /\ seen' = [t \in Tasks |-> IF t = tasks[i] THEN {} ELSE seen[t] \cup {tasks[i]}]
    /\ UNCHANGED <<inited, tasks, cap, done, incall, i>>

YieldRestarts ==
    /\ running # None
    /\ running' = None
    /\ i' = 1
    /\ UNCHANGED <<inited, tasks, cap, done, incall, pending, seen>>

\* co_yield in the task; the loop goes on with the next index.
Yield ==
    /\ running # None
    /\ running' = None
    /\ i' = i + 1
    /\ UNCHANGED <<inited, tasks, cap, done, incall, pending, seen>>

FinishUnmarked ==
    /\ running # None
    /\ running' = None
    /\ i' = i + 1
    /\ UNCHANGED <<inited, tasks, cap, done, incall, pending, seen>>

\* The task's function returns: co_task_entry marks it and yields.
Finish ==
    /\ running # None
    /\ done' = [done EXCEPT ![running] = TRUE]
    /\ running' = None
    /\ i' = i + 1
    /\ UNCHANGED <<inited, tasks, cap, incall, pending, seen>>

\* The end of a pass: another one while this one resumed somebody.
NextPass ==
    /\ InLoop
    /\ i > Len(tasks)
    /\ pending
    /\ pending' = FALSE
    /\ i' = 1
    /\ UNCHANGED <<inited, tasks, cap, done, running, incall, seen>>

RunReturn ==
    /\ InLoop
    /\ i > Len(tasks)
    /\ ~pending
    /\ incall' = FALSE
    /\ UNCHANGED <<inited, tasks, cap, done, running, i, pending, seen>>

\* co_sched_free, with finished and unfinished tasks alike.
SchedFree ==
    /\ inited /\ ~incall
    /\ inited' = FALSE
    /\ tasks' = <<>>
    /\ cap' = 0
    /\ UNCHANGED <<done, running, incall, i, pending, seen>>

RunStep == Skip \/ Resume \/ NextPass \/ RunReturn
TaskStep == Yield \/ Finish

Next ==
    \/ SchedInit \/ CallRun \/ SchedFree \/ SpawnFail
    \/ \E t \in Tasks : Spawn(t)
    \/ RunStep
    \/ TaskStep

Spec == Init /\ [][Next]_vars

\* The loop runs, a task that has control gives it back, and no task yields
\* for ever instead of returning.
Fairness ==
    /\ WF_vars(RunStep)
    /\ WF_vars(TaskStep)
    /\ \A t \in Tasks : SF_vars(running = t /\ Finish)

FairSpec == Spec /\ Fairness

-----------------------------------------------------------------------------
\* Types, and the array holds each task once and within its capacity.
TypeOK ==
    /\ inited \in BOOLEAN /\ incall \in BOOLEAN /\ pending \in BOOLEAN
    /\ tasks \in Seq(Tasks)
    /\ cap \in Nat /\ Len(tasks) <= cap
    /\ \A j, k \in DOMAIN tasks : tasks[j] = tasks[k] => j = k
    /\ done \in [Tasks -> BOOLEAN]
    /\ running \in Spawned \cup {None}
    /\ i \in Nat \ {0}
    /\ seen \in [Tasks -> SUBSET Tasks]

\* co_run gives control back to its caller only when every task is done, the
\* ones spawned during its last pass included.
ReturnsWhenAllDone ==
    [][incall /\ ~incall' => \A t \in Spawned : done[t]]_vars

\* The turns are fair whatever the tasks spawn: no task gets a second turn
\* while another unfinished one waits for its first.
FairTurns ==
    [][running = None /\ running' # None =>
        \A t \in Spawned \ {running'} : ~done[t] => running' \notin seen[t]]_vars

\* co_run ends, and so every spawned task is run to its end, also with tasks
\* that spawn others.
RunReturns == incall ~> ~incall
=============================================================================
