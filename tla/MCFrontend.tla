----------------------------- MODULE MCFrontend -----------------------------
(***************************************************************************)
(* The three extensions of the C front end that keep state of their own:   *)
(* Generics, Defer and MacroStream.  They share no state, so one behaviour *)
(* exercises one of them, chosen at the start: the state space is the      *)
(* union of the three.                                                     *)
(***************************************************************************)
EXTENDS Generics, SequencesExt

CONSTANTS
    Parts,      \* which extensions the run exercises
    MaxBlockDepth, MaxBodies, MaxBlocks,
    MaxExpandDepth, MaxTries, Sources, Expansions

VARIABLES
    part,
    blocks, running, target, visited, log, opened, reg,
    buf, inject, stack, lexer, pc, place, inv, ang, par, nest, depth, tries,
    before, early

MCTypes ==
    {[code |-> "INTEGER", decl |-> "int", bits |-> 32, rest |-> "none"],
     [code |-> "INTEGER", decl |-> "int", bits |-> 32, rest |-> "volatile"],
     [code |-> "REAL", decl |-> "float", bits |-> 32, rest |-> "none"]}

MCTypesReal ==
    {[code |-> "INTEGER", decl |-> "int", bits |-> 32, rest |-> "none"],
     [code |-> "REAL", decl |-> "float", bits |-> 32, rest |-> "none"],
     [code |-> "REAL", decl |-> "double", bits |-> 64, rest |-> "none"]}

\* A name and what may follow it; angles, shifts and brackets in an argument
\* list; two invocations one after the other; and nothing.
MCSources ==
    {<<"N">> \o s : s \in BoundedSeq({"N", "<", ">", "x"}, 3)}
    \cup {<<"N", "<">> \o s : s \in BoundedSeq({"<", "<<", ">", ">>", "(", ")"}, 3)}
    \cup {<<"N", "<", "x", ">", "N", "<", ">">>, <<>>}

\* Nothing, and an invocation between other tokens.
MCExpansions == {<<>>, <<"x", "N", "<", ">", "x">>}

D == INSTANCE Defer WITH MaxDepth <- MaxBlockDepth
M == INSTANCE MacroStream WITH MaxDepth <- MaxExpandDepth

\* The kinds MacroStream tells apart, the end of the input aside.
TokenKinds == {"N", "<", "<<", ">", ">>", "(", ")", "x"}
ASSUME MacroAssumption ==
    /\ Sources \subseteq Seq(TokenKinds)
    /\ Expansions \subseteq Seq(TokenKinds)
    /\ MaxExpandDepth \in Nat

deferVars == <<blocks, running, target, visited, log, opened, reg>>
macroVars == <<buf, inject, stack, lexer, pc, place, inv, ang, par, nest, depth,
               tries, before, early>>
allVars == <<part, vars, deferVars, macroVars>>

MCInit ==
    /\ part \in Parts
    /\ Init
    /\ D!Init
    /\ M!Init
    /\ part # "macro" => lexer = <<>>

MCNext ==
    \/ part = "generics" /\ Next /\ UNCHANGED <<part, deferVars, macroVars>>
    \/ part = "defer" /\ D!Next /\ UNCHANGED <<part, vars, macroVars>>
    \/ part = "macro" /\ M!Next /\ UNCHANGED <<part, vars, deferVars>>

MCSpec ==
    /\ MCInit
    /\ [][MCNext]_allVars
    /\ WF_allVars(part = "generics" /\ Flushing /\ UNCHANGED <<part, deferVars, macroVars>>)
    /\ WF_allVars(part = "macro" /\ M!Invocation /\ UNCHANGED <<part, vars, deferVars>>)

\* Every body runs once on every way out of a block control has been in, unless a
\* defer; after it was jumped over or a body registered later left first (Defer).
RunsOnEveryExit == D!RunsOnEveryExit
\* Bodies run in the reverse order of their registration (Defer).
LastFirst == D!LastFirst
\* A body that was registered runs when its block is left, as docs/README.md:31-32
\* says (Defer).
ReachedMeansRun == D!ReachedMeansRun
\* A closed invocation is replaced in place (MacroStream).
ReplacedInPlace == M!ReplacedInPlace
\* The expansion counter bounds the parser's recursion (MacroStream).
DepthCoversNesting == M!DepthCoversNesting
\* The parser comes back from the flush of the instances (Generics) and from the
\* scan of an invocation (MacroStream).
ParserReturns == FlushEnds /\ M!InvocationReturns
=============================================================================
