------------------------------ MODULE TaskPool ------------------------------
(***************************************************************************)
(* What a bounded thread pool promises, with no ring buffer, no mutex, no  *)
(* condition variables and no threads: accepted tasks start in the order   *)
(* they were accepted, each exactly once, at most Width of them at a time; *)
(* at most Capacity wait; a task is turned away only when the pool is full *)
(* or closed; and every accepted task finishes, also after the close.      *)
(* ThreadPool.tla (stdlib/utils/thread_pool.h) is checked to implement it. *)
(***************************************************************************)
EXTENDS Naturals, Sequences, FiniteSets

CONSTANTS
    Tasks,      \* the tasks callers may offer
    Capacity,   \* how many accepted tasks may wait
    Width       \* how many tasks may run at once

VARIABLES
    todo,       \* accepted tasks that wait, oldest first
    running,    \* tasks being executed
    finished,   \* tasks that ran to the end
    refused,    \* tasks that were turned away
    closed      \* the pool accepts no more

vars == <<todo, running, finished, refused, closed>>

Known == {todo[i] : i \in 1 .. Len(todo)} \cup running \cup finished \cup refused

Init ==
    /\ todo = <<>>
    /\ running = {}
    /\ finished = {}
    /\ refused = {}
    /\ closed = FALSE

Accept(t) ==
    /\ ~closed
    /\ t \notin Known
    /\ Len(todo) < Capacity
    /\ todo' = Append(todo, t)
    /\ UNCHANGED <<running, finished, refused, closed>>

Refuse(t) ==
    /\ closed \/ Len(todo) = Capacity
    /\ t \notin Known
    /\ refused' = refused \cup {t}
    /\ UNCHANGED <<todo, running, finished, closed>>

Start ==
    /\ todo # <<>>
    /\ Cardinality(running) < Width
    /\ running' = running \cup {Head(todo)}
    /\ todo' = Tail(todo)
    /\ UNCHANGED <<finished, refused, closed>>

Finish(t) ==
    /\ t \in running
    /\ running' = running \ {t}
    /\ finished' = finished \cup {t}
    /\ UNCHANGED <<todo, refused, closed>>

Close ==
    /\ ~closed
    /\ closed' = TRUE
    /\ UNCHANGED <<todo, running, finished, refused>>

Next ==
    \/ \E t \in Tasks : Accept(t) \/ Refuse(t) \/ Finish(t)
    \/ Start
    \/ Close

\* What may happen, and below what must.
Safety == Init /\ [][Next]_vars

Spec ==
    /\ Safety
    /\ WF_vars(Start)
    /\ \A t \in Tasks : WF_vars(Finish(t))
=============================================================================
