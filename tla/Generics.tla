------------------------------ MODULE Generics ------------------------------
(***************************************************************************)
(* c-parser.cc and c-decl.cc: monomorphization of generic functions.       *)
(*                                                                         *)
(* A generic definition is parsed once with its parameter bound to an      *)
(* int-like placeholder, and its tokens are kept.  A call f<A>(...) asks   *)
(* czet_instantiate for an instance: a registry maps the template and a    *)
(* summary of A to a declaration, and the declaration is scheduled on a    *)
(* list.  After every top-level declaration czet_flush_instances empties   *)
(* the list, re-parsing each template with its types bound, which may ask  *)
(* for more instances.                                                     *)
(*                                                                         *)
(* A type is what the registry reads of it, its tree code, the name of its *)
(* TYPE_DECL ("?" when it has none) and its width, and in rest what it     *)
(* does not read: the qualifiers, or which of two typedefs of one name is  *)
(* meant.  Of a body only the calls of generic functions count; a call's   *)
(* argument is a type, or T for the parameter of the enclosing template.   *)
(* Templates have one parameter.                                           *)
(***************************************************************************)
EXTENDS Integers, Sequences

CONSTANTS
    Templates,  \* the generic functions of the translation unit
    Types,      \* the types used as arguments, records [code, decl, bits, rest]
    T,          \* the parameter, as an argument inside a template body
    MaxDecls,   \* bound on the top-level declarations
    MaxCalls,   \* bound on the generic calls of one declaration
    Recursion   \* may a template call itself?

ASSUME MaxAssumption == MaxDecls \in Nat /\ MaxCalls \in Nat
ASSUME RecursionAssumption == Recursion \in BOOLEAN
ASSUME ParameterAssumption == T \notin Types
ASSUME CodesAssumption ==
    Types \subseteq [code : {"INTEGER", "BITINT", "REAL", "POINTER", "RECORD"},
                     decl : STRING, bits : Nat, rest : STRING]

VARIABLES
    phase,      \* "top", "decl", "flush", "replay" or "end" of the unit
    cur,        \* the template being defined or replayed, "none" in a plain function
    bound,      \* what T stands for now
    body,       \* the tokens kept of each template
    todo,       \* the calls of the replayed body still to parse
    registry,   \* czet_instance_registry: keys with an instance declaration
    pending,    \* czet_pending_insts, the first entry first
    defined,    \* instances whose definition was emitted: key and types bound
    redefined,  \* instances defined again
    asked,      \* history: every call, its type and the instance it got
    late,       \* history: instances asked for after they were defined
    decls,      \* history: number of top-level declarations
    calls       \* history: number of generic calls in this one

instances == <<registry, pending, asked, late>>
vars == <<phase, cur, bound, body, todo, registry, pending, defined, redefined,
          asked, late, decls, calls>>

\* czet_make_type_parm: a copy of int whose name is no TYPE_DECL.
Placeholder == [code |-> "INTEGER", decl |-> "?", bits |-> 32, rest |-> "none"]

Integral(type) == type.code \in {"INTEGER", "BITINT"}

SummaryByWidth(type) == <<"?", type.bits>>
\* What the key holds of a type: name and width of integers only.
Summary(type) ==
    IF Integral(type) THEN <<type.decl, type.bits>> ELSE <<"?", -1>>

Key(templ, type) == <<templ, Summary(type)>>

\* The templates whose definition has been parsed.
Known == DOMAIN body

Init ==
    /\ phase = "top"
    /\ cur = "none"
    /\ bound = Placeholder
    /\ body = << >>
    /\ todo = <<>>
    /\ registry = {}
    /\ pending = <<>>
    /\ defined = {}
    /\ redefined = {}
    /\ asked = {}
    /\ late = {}
    /\ decls = 0
    /\ calls = 0

-----------------------------------------------------------------------------
PendingFirst(key) == pending # <<>> /\ Head(pending).key = key
ListBusy(key) == pending # <<>>
\* Is the instance on the list?
Scheduled(key) == \E i \in 1 .. Len(pending) : pending[i].key = key
Defined(key) == \E d \in defined : d.key = key

\* A call of templ with the type written as arg: czet_build_instance_decl finds
\* or makes the declaration, czet_instantiate schedules it unless it is pending.
Instantiate(templ, arg) ==
    LET type == IF arg = T THEN bound ELSE arg
        key == Key(templ, type)
    IN  /\ registry' = registry \cup {key}
        /\ pending' = IF Scheduled(key)
                      THEN pending
                      ELSE <<[key |-> key, templ |-> templ, type |-> type]>> \o pending
        /\ asked' = asked \cup {[templ |-> templ, type |-> type, key |-> key]}
        /\ late' = IF Defined(key) THEN late \cup {key} ELSE late

StartDecl ==
    /\ phase = "top"
    /\ decls < MaxDecls
    /\ phase' = "decl"
    /\ decls' = decls + 1
    /\ calls' = 0
    /\ UNCHANGED <<bound, todo, instances, defined, redefined>>

StartTemplate(templ) ==
    /\ templ \notin Known
    /\ StartDecl
    /\ cur' = templ
    /\ body' = [t \in Known \cup {templ} |-> IF t = templ THEN <<>> ELSE body[t]]

StartFunction ==
    /\ StartDecl
    /\ cur' = "none"
    /\ UNCHANGED body

\* f<arg>(...) in the declaration being parsed; the probe keeps the tokens.
Call(templ, arg) ==
    /\ phase = "decl"
    /\ calls < MaxCalls
    /\ templ \in Known
    /\ arg = T => cur # "none"
    /\ templ = cur => Recursion
    /\ Instantiate(templ, arg)
    /\ body' = IF cur = "none" THEN body
               ELSE [body EXCEPT ![cur] = Append(@, [templ |-> templ, arg |-> arg])]
    /\ calls' = calls + 1
    /\ UNCHANGED <<phase, cur, bound, todo, defined, redefined, decls>>

EndDecl ==
    /\ phase = "decl"
    /\ phase' = "flush"
    /\ cur' = "none"
    /\ UNCHANGED <<bound, body, todo, instances, defined, redefined, decls, calls>>

ReplayKeeping ==
    /\ phase = "flush"
    /\ pending # <<>>
    /\ cur' = Head(pending).templ
    /\ bound' = Head(pending).type
    /\ todo' = body[Head(pending).templ]
    /\ phase' = "replay"
    /\ UNCHANGED <<body, instances, defined, redefined, decls, calls>>

\* The definition gets the name of the declaration: a second one is an error.
Replay ==
    /\ phase = "flush"
    /\ pending # <<>>
    /\ LET p == Head(pending)
       IN  /\ cur' = p.templ
           /\ bound' = p.type
           /\ todo' = body[p.templ]
           /\ defined' = defined \cup {[key |-> p.key, type |-> p.type]}
           /\ redefined' = IF Defined(p.key)
                           THEN redefined \cup {p.key} ELSE redefined
    /\ pending' = Tail(pending)
    /\ phase' = "replay"
    /\ UNCHANGED <<body, registry, asked, late, decls, calls>>

ReplayCall ==
    /\ phase = "replay"
    /\ todo # <<>>
    /\ Instantiate(Head(todo).templ, Head(todo).arg)
    /\ todo' = Tail(todo)
    /\ UNCHANGED <<phase, cur, bound, body, defined, redefined, decls, calls>>

ReplayEnd ==
    /\ phase = "replay"
    /\ todo = <<>>
    /\ phase' = "flush"
    /\ cur' = "none"
    /\ bound' = Placeholder
    /\ UNCHANGED <<body, todo, instances, defined, redefined, decls, calls>>

FlushEnd ==
    /\ phase = "flush"
    /\ pending = <<>>
    /\ phase' = "top"
    /\ UNCHANGED <<cur, bound, body, todo, instances, defined, redefined, decls, calls>>

EndOfUnit ==
    /\ phase = "top"
    /\ phase' = "end"
    /\ UNCHANGED <<cur, bound, body, todo, instances, defined, redefined, decls, calls>>

Flushing == Replay \/ ReplayCall \/ ReplayEnd \/ FlushEnd

Next ==
    \/ \E templ \in Templates : StartTemplate(templ)
    \/ StartFunction
    \/ \E templ \in Templates, arg \in Types \cup {T} : Call(templ, arg)
    \/ EndDecl
    \/ Flushing
    \/ EndOfUnit

Spec == Init /\ [][Next]_vars

\* The parser does not stop while it has instances to replay.
FairSpec == Spec /\ WF_vars(Flushing)

-----------------------------------------------------------------------------
AnyType == Types \cup {Placeholder}
AnyCall == [templ : Templates, arg : Types \cup {T}]
AnyName == {type.decl : type \in Types} \cup {"?"}
AnyKey == Templates \X (AnyName \X Int)

\* Types; outside declarations and replays the parameter is the placeholder.
TypeOK ==
    /\ phase \in {"top", "decl", "flush", "replay", "end"}
    /\ cur \in Templates \cup {"none"}
    /\ bound \in AnyType
    /\ phase # "replay" => bound = Placeholder
    /\ Known \subseteq Templates
    /\ body \in [Known -> Seq(AnyCall)]
    /\ todo \in Seq(AnyCall)
    /\ registry \subseteq AnyKey
    /\ pending \in Seq([key : AnyKey, templ : Templates, type : AnyType])
    /\ \A t \in Known : \A i \in 1 .. Len(body[t]) : body[t][i].templ \in Known
    /\ \A i \in 1 .. Len(todo) : todo[i].templ \in Known
    /\ \A i \in 1 .. Len(pending) : pending[i].templ \in Known
    /\ defined \subseteq [key : AnyKey, type : AnyType]
    /\ redefined \subseteq AnyKey
    /\ asked \subseteq [templ : Templates, type : AnyType, key : AnyKey]
    /\ late \subseteq AnyKey
    /\ decls \in 0 .. MaxDecls
    /\ calls \in 0 .. MaxCalls

\* When a top-level declaration is finished, every instance any call was
\* resolved to has a definition, those asked for by bodies that were themselves
\* replayed included: no call is left to a symbol nobody defines.
EveryCallDefined ==
    phase \in {"top", "end"} => \A a \in asked : Defined(a.key)

\* A call with a named integer type gets code compiled for that very template
\* and for an integer type of the same name and width, however the requests of
\* declarations and replays mix.  Not for the very type: int and volatile int
\* share one instance, compiled for whichever was asked for first.
IntegersGetOwnCode ==
    \A a \in asked, d \in defined :
        Integral(a.type) /\ a.type.decl # "?" /\ d.key = a.key
        => /\ d.key[1] = a.templ
           /\ Integral(d.type)
           /\ d.type.decl = a.type.decl
           /\ d.type.bits = a.type.bits

\* The list keeps an instance from being defined twice as long as all calls for
\* it come before its definition is emitted, and only so long: as soon as a later
\* declaration or replay calls it again, it is scheduled again and defined a
\* second time by the end of that declaration.  The comments promise otherwise:
\* "a given <template,types> is only instantiated once" (c-decl.cc:446-447),
\* "scheduling its definition body on first use" (c-parser.cc:5693).
LateCallsRedefine ==
    /\ redefined \subseteq late
    /\ phase \in {"top", "end"} => redefined = late

\* Without templates that call themselves czet_flush_instances ends, although
\* every replay may schedule more.
FlushEnds == phase = "flush" ~> phase = "top"

\* "Each instantiation emits dedicated concrete code (monomorphization)"
\* (tests/generics.czet:11): the code a call runs was compiled for its type.
DedicatedCode ==
    phase = "top" => \A a \in asked, d \in defined : d.key = a.key => d.type = a.type
=============================================================================
