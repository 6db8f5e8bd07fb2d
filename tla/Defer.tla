------------------------------- MODULE Defer -------------------------------
(***************************************************************************)
(* c-parser.cc: defer.  While the parser is inside a compound statement it *)
(* collects the bodies of its defer statements; at the closing brace they  *)
(* become the cleanup of a TRY_FINALLY around the whole block, and the     *)
(* statement defer; emits those collected so far where it stands.          *)
(*                                                                         *)
(* One pass over a function body does the parsing and the execution: the   *)
(* code is parsed in textual order, and executed along with it except      *)
(* where control has jumped ahead, until it arrives at the target, which   *)
(* may lie in a block that was opened meanwhile.  Jumps back are left out: *)
(* every block is executed at most once.  Bodies are numbered in textual   *)
(* order; of what a body does, only whether it leaves its block is kept.   *)
(***************************************************************************)
EXTENDS Naturals, Sequences, SequencesExt

CONSTANTS
    MaxDepth,   \* bound on the nesting of blocks
    MaxBodies,  \* bound on the defer statements with a body
    MaxBlocks   \* bound on the blocks opened

VARIABLES
    blocks,     \* open blocks, the outermost first: kind, id and defers (the
                \* vector the block keeps in its frame)
    running,    \* control is where the parser is
    target,     \* else: the number of blocks it is still inside (0 while running)
    visited,    \* the blocks control has been in
    log,        \* the bodies executed, in order
    opened,     \* number of blocks opened
    reg         \* for each body: the blocks around it, the kind of its own and how
                \* many of them it stays in; history: whether control reached its
                \* defer statement, and the fate of a defer; after it

vars == <<blocks, running, target, visited, log, opened, reg>>

Top == blocks[Len(blocks)]
InFunction == blocks # <<>>

Init ==
    /\ blocks = <<[kind |-> "block", id |-> 1, defers |-> <<>>]>>
    /\ running = TRUE
    /\ target = 0
    /\ visited = {1}
    /\ log = <<>>
    /\ opened = 1
    /\ reg = <<>>

-----------------------------------------------------------------------------
\* parser->defers is set to the new block's own vector.
Open(kind) ==
    /\ InFunction
    /\ Len(blocks) < MaxDepth
    /\ opened < MaxBlocks
    /\ opened' = opened + 1
    /\ blocks' = Append(blocks, [kind |-> kind, id |-> opened + 1, defers |-> <<>>])
    /\ visited' = IF running THEN visited \cup {opened + 1} ELSE visited
    /\ UNCHANGED <<running, target, log, reg>>

\* defer { ... };  The body stays in its block (to = Len(blocks)), or ends with a
\* jump that leaves the blocks beyond the first to.
DeferBody(to) ==
    /\ InFunction
    /\ Len(reg) < MaxBodies
    /\ to \in 0 .. Len(blocks)
    /\ blocks' = [blocks EXCEPT ![Len(blocks)].defers = Append(@, Len(reg) + 1)]
    /\ reg' = Append(reg, [around |-> [k \in 1 .. Len(blocks) |-> blocks[k].id],
                           kind |-> Top.kind, to |-> to,
                           reached |-> running, flushed |-> "no"])
    /\ UNCHANGED <<running, target, visited, log, opened>>

Leaves(i) == reg[i].to < Len(reg[i].around)

InOrder(bodies) == bodies
\* The order in which c_parser_flush_defers and c_parser_take_defers emit them.
Emitted(bodies) == Reverse(bodies)

\* Control runs through the bodies emitted, until one of them leaves the block:
\* those after it are cut off.
Execute(bodies) ==
    \E n \in 0 .. Len(bodies) :
        /\ \A k \in 1 .. n - 1 : ~Leaves(bodies[k])
        /\ log' = log \o SubSeq(bodies, 1, n)
        /\ \/ /\ n > 0 /\ Leaves(bodies[n])
              /\ running' = FALSE
              /\ target' = reg[bodies[n]].to
           \/ /\ n = Len(bodies) /\ (n > 0 => ~Leaves(bodies[n]))
              /\ UNCHANGED <<running, target>>

PassBy == UNCHANGED <<running, target, log>>

NoteFlush(executed) ==
    [i \in 1 .. Len(reg) |->
        IF i \in ToSet(Top.defers)
        THEN [reg[i] EXCEPT !.flushed = IF executed THEN "run" ELSE "skipped"]
        ELSE reg[i]]

\* defer; alone or under a condition: the bodies are emitted here and forgotten.
DeferNow(taken) ==
    /\ InFunction
    /\ Top.defers # <<>>
    /\ IF running /\ taken THEN Execute(Emitted(Top.defers)) ELSE PassBy
    /\ blocks' = [blocks EXCEPT ![Len(blocks)].defers = <<>>]
    /\ reg' = NoteFlush(running /\ taken)
    /\ UNCHANGED <<visited, opened>>

\* return, break, continue or goto, which leaves the blocks beyond the first d.
Jump(d) ==
    /\ InFunction
    /\ running
    /\ d \in 0 .. Len(blocks)
    /\ running' = FALSE
    /\ target' = d
    /\ UNCHANGED <<blocks, visited, log, opened, reg>>

\* The statement the jump went to: in the blocks it stays in, or in blocks among
\* them that opened since.  A jump into a statement expression is an error.
Arrive ==
    /\ InFunction
    /\ ~running
    /\ target <= Len(blocks)
    /\ \A k \in target + 1 .. Len(blocks) :
         blocks[k].id \notin visited /\ blocks[k].kind = "block"
    /\ running' = TRUE
    /\ target' = 0
    /\ visited' = visited \cup {blocks[k].id : k \in 1 .. Len(blocks)}
    /\ UNCHANGED <<blocks, log, opened, reg>>

RunsAtNormalEnd(block) == block.id \in visited /\ running
\* The cleanup runs on every exit from a block control has been in, however it
\* came there; a statement expression only has it at its end.
CleanupRuns(block) ==
    block.id \in visited /\ (block.kind = "block" \/ running)

\* A jump arrives before the last of the blocks it stays in closes.
Close ==
    /\ InFunction
    /\ running \/ target < Len(blocks)
    /\ IF CleanupRuns(Top) THEN Execute(Emitted(Top.defers)) ELSE PassBy
    /\ blocks' = Front(blocks)
    /\ UNCHANGED <<visited, opened, reg>>

Next ==
    \/ \E kind \in {"block", "expression"} : Open(kind)
    \/ \E to \in 0 .. MaxDepth : DeferBody(to)
    \/ \E taken \in BOOLEAN : DeferNow(taken)
    \/ \E d \in 0 .. MaxDepth : Jump(d)
    \/ Arrive
    \/ Close

Spec == Init /\ [][Next]_vars

-----------------------------------------------------------------------------
Ran(i) == i \in ToSet(log)
RunsBefore(i, j) == \E k, l \in 1 .. Len(log) : k < l /\ log[k] = i /\ log[l] = j
OwnBlock(i) == Last(reg[i].around)
Left(i) == \A k \in 1 .. Len(blocks) : blocks[k].id # OwnBlock(i)

\* A body registered later in the same block left it, before i's turn came.
CutOff(i) ==
    \E j \in 1 .. Len(reg) : j > i /\ OwnBlock(j) = OwnBlock(i) /\ Leaves(j) /\ Ran(j)

\* Every body of a block that control has been in, from its opening brace or by
\* a jump into it, has run once the block is left, on whichever way; except where
\* a defer; after it was jumped over, or a body registered later in the block left
\* it by a jump of its own (tests/defer.czet:38-44).  And no body runs twice,
\* whatever mixture of defer;, jumps and closing braces.
RunsOnEveryExit ==
    /\ \A i \in 1 .. Len(reg) :
         /\ OwnBlock(i) \in visited /\ reg[i].kind = "block"
         /\ reg[i].flushed # "skipped" /\ Left(i)
         => Ran(i) \/ CutOff(i)
    /\ \A k, l \in 1 .. Len(log) : log[k] = log[l] => k = l

\* Where no defer; interferes, a body runs before all those registered earlier
\* in its own block and in the blocks around it.
LastFirst ==
    \A i, j \in 1 .. Len(reg) :
        /\ i < j /\ Ran(i) /\ Ran(j)
        /\ OwnBlock(i) \in ToSet(reg[j].around)
        /\ reg[i].flushed = "no"
        => RunsBefore(j, i)

\* "executes the block on leaving the block (not only the function: also with
\* return/goto/break/continue)" (docs/README.md:31-32): a body whose defer
\* statement was reached has run once its block is left, or was cut off.
ReachedMeansRun ==
    \A i \in 1 .. Len(reg) :
        reg[i].reached /\ reg[i].kind = "block" /\ Left(i) => Ran(i) \/ CutOff(i)
=============================================================================
