---------------------------- MODULE MacroStream ----------------------------
(***************************************************************************)
(* c-parser.cc: how _Macro invocations are taken out of the token stream   *)
(* and expansions put into it.                                             *)
(*                                                                         *)
(* The parser reads tokens through a small look-ahead buffer.  The buffer  *)
(* is filled from the current expansion, then from the expansions that one *)
(* interrupted, then from the lexer.  c_czet_try_invoke consumes           *)
(* NAME < ... > and replaces it by an expansion, or puts the tokens back.  *)
(*                                                                         *)
(* A token is a record: its kind (N is the name of a macro, x any token    *)
(* without a role here) and the number of expansions it comes from.  The   *)
(* grammar is abstracted to the places where it tries an invocation; which *)
(* arm matches depends on the tokens and is left open.                     *)
(***************************************************************************)
EXTENDS Naturals, Sequences, SequencesExt

CONSTANTS
    Sources,    \* the token sequences (of kinds) the lexer may deliver
    Expansions, \* what an arm may expand to (sequences of kinds)
    MaxDepth,   \* CZET_MACRO_MAX_DEPTH
    MaxTries    \* bound on the invocations tried

VARIABLES
    buf,        \* parser->tokens and tokens_avail
    inject,     \* parser->czet_inject from czet_inject_pos on
    stack,      \* parser->czet_inject_stack, its top first
    lexer,      \* what the lexer has still to deliver
    pc,         \* "parse", or where c_czet_try_invoke is
    place,      \* where the invocation was tried
    inv,        \* the tokens consumed by c_czet_try_invoke
    ang, par,   \* its nesting of angles and of brackets
    nest,       \* the expansions whose statement or expression is being parsed
    depth,      \* czet_macro_expand_depth
    tries,      \* history: invocations tried
    before,     \* history: the stream when the invocation was tried
    early       \* history: "nested too deeply" reported without such nesting

feed == <<inject, stack, lexer>>
scan == <<inv, ang, par>>
vars == <<buf, feed, pc, place, scan, nest, depth, tries, before, early>>

Token(kind, level) == [kind |-> kind, level |-> level]
EOF == Token("EOF", 0)

\* The tokens of an expansion of the macro named by token.
Expanded(kinds, token) ==
    [i \in 1 .. Len(kinds) |->
        Token(kinds[i], IF token.level < MaxDepth THEN token.level + 1 ELSE MaxDepth)]

\* What the parser will see from here on.
Stream == buf \o inject \o FlattenSeq(stack) \o lexer

Init ==
    /\ buf = <<>>
    /\ inject = <<>>
    /\ stack = <<>>
    /\ \E s \in Sources : lexer = [i \in 1 .. Len(s) |-> Token(s[i], 0)]
    /\ pc = "parse"
    /\ place = "none"
    /\ inv = <<>>
    /\ ang = 0
    /\ par = 0
    /\ nest = 0
    /\ depth = 0
    /\ tries = 0
    /\ before = <<>>
    /\ early = FALSE

-----------------------------------------------------------------------------
\* c_lex_one_token into the buffer: c_czet_serve_inject, else the lexer.
Lex ==
    \/ /\ inject # <<>>
       /\ buf' = Append(buf, Head(inject))
       /\ inject' = Tail(inject)
       /\ UNCHANGED <<stack, lexer>>
    \/ /\ inject = <<>>
       /\ stack # <<>>
       /\ buf' = Append(buf, Head(Head(stack)))
       /\ inject' = Tail(Head(stack))
       /\ stack' = Tail(stack)
       /\ UNCHANGED lexer
    \/ /\ inject = <<>>
       /\ stack = <<>>
       /\ lexer # <<>>
       /\ buf' = Append(buf, Head(lexer))
       /\ lexer' = Tail(lexer)
       /\ UNCHANGED <<inject, stack>>
    \/ /\ inject = <<>>
       /\ stack = <<>>
       /\ lexer = <<>>
       /\ buf' = Append(buf, EOF)
       /\ UNCHANGED feed

\* c_parser_peek_token, and, in the grammar, c_parser_peek_2nd_token at a name.
Peek ==
    /\ \/ pc # "match" /\ buf = <<>>
       \/ pc = "parse" /\ Len(buf) = 1 /\ Head(buf).kind = "N"
    /\ Lex
    /\ UNCHANGED <<pc, place, scan, nest, depth, tries, before, early>>

AtToken(where) == pc = where /\ buf # <<>>

\* The grammar takes a token for itself.
Consume ==
    /\ AtToken("parse")
    /\ Head(buf) # EOF
    /\ buf' = Tail(buf)
    /\ UNCHANGED <<feed, pc, place, scan, nest, depth, tries, before, early>>

\* c_czet_try_invoke at a macro's name, in a block, where a declaration or a
\* statement begins, or where an expression does.
TryInvoke(where) ==
    /\ AtToken("parse")
    /\ Head(buf).kind = "N"
    /\ tries < MaxTries
    /\ tries' = tries + 1
    /\ before' = Stream
    /\ place' = where
    /\ inv' = <<Head(buf)>>
    /\ buf' = Tail(buf)
    /\ pc' = "name"
    /\ UNCHANGED <<feed, ang, par, nest, depth, early>>

NoAngle ==
    /\ AtToken("name")
    /\ Head(buf).kind # "<"
    /\ pc' = "match"
    /\ UNCHANGED <<buf, feed, place, scan, nest, depth, tries, before, early>>

TakeToken ==
    /\ inv' = Append(inv, Head(buf))
    /\ buf' = Tail(buf)

OpenAngle ==
    /\ AtToken("name")
    /\ Head(buf).kind = "<"
    /\ TakeToken
    /\ ang' = 1
    /\ par' = 0
    /\ pc' = "angle"
    /\ UNCHANGED <<feed, place, nest, depth, tries, before, early>>

ScanToken ==
    /\ AtToken("angle")
    /\ Head(buf) # EOF
    /\ TakeToken
    /\ LET kind == Head(buf).kind
       IN  /\ ang' = IF par > 0 THEN ang
                     ELSE CASE kind = "<" -> ang + 1
                            [] kind = "<<" -> ang + 2
                            [] kind = ">" -> ang - 1
                            [] kind = ">>" -> (IF ang > 2 THEN ang - 2 ELSE 0)
                            [] OTHER -> ang
           /\ par' = CASE kind = "(" -> par + 1
                       [] kind = ")" /\ par > 0 -> par - 1
                       [] OTHER -> par
    /\ pc' = IF ang' = 0 THEN "match" ELSE "angle"
    /\ UNCHANGED <<feed, place, nest, depth, tries, before, early>>

PushInjectDropping(tokens) ==
    /\ stack' = stack
    /\ inject' = tokens
    /\ UNCHANGED lexer
\* c_czet_push_inject: what is left of the current expansion waits on the stack.
PushInject(tokens) ==
    /\ stack' = IF inject # <<>> THEN <<inject>> \o stack ELSE stack
    /\ inject' = tokens
    /\ UNCHANGED lexer

Return ==
    /\ pc' = "parse"
    /\ inv' = <<>>
    /\ ang' = 0
    /\ par' = 0
    /\ before' = <<>>
    /\ place' = "none"
    /\ UNCHANGED <<buf, tries>>

\* Unclosed '<', or no arm matched: everything goes back.
RollBack ==
    /\ \/ AtToken("angle") /\ Head(buf) = EOF
       \/ pc = "match"
    /\ PushInject(inv)
    /\ Return
    /\ UNCHANGED <<nest, depth, early>>

TooDeep ==
    /\ early' = (early \/ Head(inv).level + nest < MaxDepth)
    /\ UNCHANGED <<nest, depth>>

EnterUncounted ==
    IF place = "block"
    THEN depth' = depth + 1 /\ UNCHANGED <<nest, early>>
    ELSE nest' = nest + 1 /\ UNCHANGED <<depth, early>>
\* A block goes on with the expansion in its own loop; a statement or an
\* expression is parsed by a nested call.
Enter ==
    /\ depth' = depth + 1
    /\ nest' = IF place = "block" THEN nest ELSE nest + 1
    /\ UNCHANGED early

\* An arm matched; only expressions are entered when nothing is injected.
Invoke(kinds) ==
    /\ pc = "match"
    /\ PushInject(Expanded(kinds, Head(inv)))
    /\ Return
    /\ IF place # "expression" /\ inject' = <<>> /\ stack' = <<>>
       THEN UNCHANGED <<nest, depth, early>>
       ELSE IF depth < MaxDepth THEN Enter ELSE TooDeep

\* The nested call returns.
Leave ==
    /\ pc = "parse"
    /\ nest > 0
    /\ nest' = nest - 1
    /\ depth' = depth - 1
    /\ UNCHANGED <<buf, feed, pc, place, scan, tries, before, early>>

Invocation ==
    \/ pc # "parse" /\ Peek
    \/ NoAngle
    \/ OpenAngle
    \/ ScanToken
    \/ RollBack
    \/ \E kinds \in Expansions : Invoke(kinds)

Next ==
    \/ Peek
    \/ Consume
    \/ \E where \in {"block", "statement", "expression"} : TryInvoke(where)
    \/ Invocation
    \/ Leave

Spec == Init /\ [][Next]_vars

\* c_czet_try_invoke runs until it returns.
FairSpec == Spec /\ WF_vars(Invocation)

-----------------------------------------------------------------------------
\* An invocation NAME<...> that is closed is replaced in place: the stream goes
\* on with the expansion, or with the invocation itself when no arm matched,
\* and then with exactly the tokens that followed it, through any number of
\* interrupted expansions.
ReplacedInPlace ==
    [][pc = "match" /\ Len(inv) > 1
       => LET rest == SubSeq(before, Len(inv) + 1, Len(before))
          IN  \/ Stream' = before
              \/ \E kinds \in Expansions :
                    Stream' = Expanded(kinds, Head(inv)) \o rest]_vars

\* The counter never falls behind the nested calls, so that the parser's
\* recursion is bounded, and as long as nothing was expanded in a block it
\* counts exactly them: the cap is then only for nested expansions.
DepthCoversNesting ==
    /\ nest <= depth
    /\ nest <= MaxDepth
    /\ early => nest < depth

\* The scan for the closing angle ends, at the latest at the end of the input.
InvocationReturns == pc # "parse" ~> pc = "parse"

\* "Recursive expansion is capped at 200 levels" (docs/CZET_MACRO_GUIDE.md):
\* the error is for expansions inside expansions.
CapIsForNesting == ~early

\* "on failure nothing observable has changed (consumed tokens are re-injected
\* verbatim, so the stream is identical)" (c-parser.cc, c_czet_try_invoke).
RollbackKeepsStream == [][RollBack => Stream' = before]_vars
=============================================================================
