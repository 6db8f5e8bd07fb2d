--------------------------- MODULE FrontendProofs ---------------------------
(***************************************************************************)
(* The extensions of the C front end, each for its own specification.      *)
(*                                                                         *)
(* Generics, for any templates, types and sizes of the translation unit,   *)
(* recursive templates included: every call gets a definition, integers    *)
(* get code of their own by name and width, and an instance is defined     *)
(* again exactly when a call comes late.                                   *)
(*                                                                         *)
(* MacroStream, for any source text and expansions over its token kinds    *)
(* and any cap: the expansion counter covers the parser's recursion, and a *)
(* closed invocation is replaced in place.                                 *)
(*                                                                         *)
(* Defer, for any bounds on a function body: every body runs once on every *)
(* way out of a block control has been in, unless a later one left first,  *)
(* and the latest runs first.                                              *)
(***************************************************************************)
EXTENDS MCFrontend, SequenceTheorems, WellFoundedInduction, TLAPS

Entry == [key : AnyKey, templ : Templates, type : AnyType]

\* Entries and definitions carry the key of their template and type.
KeysRight ==
    /\ \A i \in 1 .. Len(pending) :
         pending[i].key = Key(pending[i].templ, pending[i].type)
    /\ \A d \in defined : \E templ \in Templates : d.key = Key(templ, d.type)
    /\ \A a \in asked : a.key = Key(a.templ, a.type)

\* The list holds a key once, and one that is defined only if it was asked for
\* again since.
ListSound ==
    /\ \A i, j \in 1 .. Len(pending) : pending[i].key = pending[j].key => i = j
    /\ \A i \in 1 .. Len(pending) : Defined(pending[i].key) => pending[i].key \in late
    /\ redefined \subseteq late

\* What was asked for late has been defined twice, or will be.
LateAgain == \A k \in late : Defined(k) /\ (k \in redefined \/ Scheduled(k))

\* Nothing that was asked for is forgotten.
NothingForgotten ==
    /\ \A a \in asked : Defined(a.key) \/ Scheduled(a.key)
    /\ LateAgain
    /\ phase \in {"top", "end"} => pending = <<>>

IInv == TypeOK /\ KeysRight /\ ListSound /\ NothingForgotten

\* Type of a key.
LEMMA KeyType ==
    ASSUME NEW templ \in Templates, NEW type \in AnyType
    PROVE  Key(templ, type) \in AnyKey
<1>a. type \in Types => type.decl \in AnyName /\ type.bits \in Int
    BY CodesAssumption DEF AnyName
<1>b. type = Placeholder => type.decl = "?" /\ type.bits = 32
    BY DEF Placeholder
<1>c. 32 \in Int
    OBVIOUS
<1>d. "?" \in AnyName
    BY DEF AnyName
<1>1. type.decl \in AnyName /\ type.bits \in Int
    BY <1>a, <1>b, <1>c, <1>d, Zenon DEF AnyType
<1>2. Summary(type) \in AnyName \X Int
  <2>1. CASE Integral(type)
    <3>1. Summary(type) = <<type.decl, type.bits>>
        BY <2>1 DEF Summary
    <3> QED BY <3>1, <1>1
  <2>2. CASE ~Integral(type)
    <3>1. Summary(type) = <<"?", -1>>
        BY <2>2 DEF Summary
    <3>2. -1 \in Int
        OBVIOUS
    <3> QED BY <3>1, <3>2, <1>d
  <2> QED BY <2>1, <2>2
<1> QED BY <1>2 DEF Key, AnyKey

\* Putting an entry in front of a list moves the others by one.
LEMMA Prepend ==
    ASSUME NEW S, NEW s \in Seq(S), NEW e \in S
    PROVE  /\ <<e>> \o s \in Seq(S)
           /\ Len(<<e>> \o s) = Len(s) + 1
           /\ (<<e>> \o s)[1] = e
           /\ \A i \in 2 .. Len(s) + 1 : (<<e>> \o s)[i] = s[i - 1]
  OBVIOUS

\* What is left of a list after its first entry.
LEMMA Behead ==
    ASSUME NEW S, NEW s \in Seq(S), s # <<>>
    PROVE  /\ Head(s) \in S /\ Head(s) = s[1]
           /\ Tail(s) \in Seq(S)
           /\ Len(s) \in Nat \ {0}
           /\ Len(Tail(s)) = Len(s) - 1
           /\ \A i \in 1 .. Len(s) - 1 : Tail(s)[i] = s[i + 1]
  OBVIOUS

\* A call, in a declaration or in a replay, keeps what is said about the list.
LEMMA InstantiateKeeps ==
    ASSUME IInv,
           NEW templ \in Known, NEW arg \in Types \cup {T},
           Instantiate(templ, arg),
           defined' = defined, redefined' = redefined, Known' = Known
    PROVE  /\ registry' \subseteq AnyKey
           /\ pending' \in Seq(Entry)
           /\ \A i \in 1 .. Len(pending') : pending'[i].templ \in Known'
           /\ asked' \subseteq [templ : Templates, type : AnyType, key : AnyKey]
           /\ late' \subseteq AnyKey
           /\ KeysRight'
           /\ ListSound'
           /\ \A a \in asked' : Defined(a.key)' \/ Scheduled(a.key)'
           /\ LateAgain'
<1> DEFINE type == IF arg = T THEN bound ELSE arg
           key == Key(templ, type)
           entry == [key |-> key, templ |-> templ, type |-> type]
<1>1. type \in AnyType
    BY DEF IInv, TypeOK, AnyType
<1>2. templ \in Templates
    BY DEF IInv, TypeOK
<1>3. key \in AnyKey
    BY <1>1, <1>2, KeyType
<1>4. entry \in Entry
    BY <1>1, <1>2, <1>3 DEF Entry
<1>5. pending \in Seq(Entry)
    BY DEF IInv, TypeOK, Entry
<1>6. /\ registry' = registry \cup {key}
      /\ pending' = IF Scheduled(key) THEN pending ELSE <<entry>> \o pending
      /\ asked' = asked \cup {[templ |-> templ, type |-> type, key |-> key]}
      /\ late' = IF Defined(key) THEN late \cup {key} ELSE late
    BY DEF Instantiate
<1>d. \A k : Defined(k)' <=> Defined(k)
    BY DEF Defined
<1> HIDE DEF type
<1>a. /\ asked' \subseteq [templ : Templates, type : AnyType, key : AnyKey]
      /\ \A a \in asked' : a.key = Key(a.templ, a.type)
    BY <1>1, <1>2, <1>3, <1>6 DEF IInv, TypeOK, KeysRight
<1>r. registry' \subseteq AnyKey /\ late' \subseteq AnyKey /\ late \subseteq late'
    BY <1>3, <1>6 DEF IInv, TypeOK
<1>k. \A d \in defined' : \E t \in Templates : d.key = Key(t, d.type)
    BY DEF IInv, KeysRight
<1>l. redefined' \subseteq late'
    BY <1>r DEF IInv, ListSound
<1>7. CASE Scheduled(key)
  <2>1. pending' = pending
      BY <1>6, <1>7
  <2>2. \A a \in asked' : Defined(a.key)' \/ Scheduled(a.key)'
      BY <2>1, <1>6, <1>7, <1>d DEF IInv, NothingForgotten, Scheduled
  <2>3. \A i \in 1 .. Len(pending) : Defined(pending[i].key) => pending[i].key \in late'
      BY <1>r DEF IInv, ListSound
  <2>4. ListSound'
      BY <2>1, <2>3, <1>l DEF IInv, ListSound, Defined
  <2>5. KeysRight'
      BY <2>1, <1>a, <1>k DEF IInv, KeysRight
  <2>6. \A i \in 1 .. Len(pending') : pending'[i].templ \in Known'
      BY <2>1 DEF IInv, TypeOK
  <2>7. LateAgain'
      BY <2>1, <1>6, <1>7, <1>d DEF IInv, NothingForgotten, LateAgain, Scheduled
  <2> QED BY <2>1, <2>2, <2>4, <2>5, <2>6, <2>7, <1>5, <1>a, <1>r
<1>8. CASE ~Scheduled(key)
  <2>1. pending' = <<entry>> \o pending
      BY <1>6, <1>8
  <2>2. /\ pending' \in Seq(Entry)
        /\ Len(pending') = Len(pending) + 1
        /\ pending'[1] = entry
        /\ \A i \in 2 .. Len(pending) + 1 : pending'[i] = pending[i - 1]
      BY <2>1, <1>4, <1>5, Prepend
  <2>n. Len(pending) \in Nat
      BY <1>5
  <2> HIDE DEF entry
  <2>e. entry.key = key /\ entry.templ = templ /\ entry.type = type
      BY DEF entry
  <2> HIDE DEF key
  <2>o. \A i \in 1 .. Len(pending') :
            i = 1 \/ (i - 1 \in 1 .. Len(pending) /\ pending'[i] = pending[i - 1])
      BY <2>2, <2>n
  <2>3. \A i \in 1 .. Len(pending) : pending[i].key # key
      BY <1>8 DEF Scheduled
  <2>4. \A i, j \in 1 .. Len(pending') : pending'[i].key = pending'[j].key => i = j
    <3> SUFFICES ASSUME NEW i \in 1 .. Len(pending'), NEW j \in 1 .. Len(pending'),
                        pending'[i].key = pending'[j].key
                 PROVE  i = j
        OBVIOUS
    <3>1. CASE i = 1 \/ j = 1
        BY <3>1, <2>o, <2>2, <2>e, <2>3
    <3>2. CASE i # 1 /\ j # 1
      <4>1. pending[i - 1].key = pending[j - 1].key
            /\ i - 1 \in 1 .. Len(pending) /\ j - 1 \in 1 .. Len(pending)
          BY <3>2, <2>o
      <4>2. i - 1 = j - 1
          BY <4>1 DEF IInv, ListSound
      <4> QED BY <4>2, <2>2, <2>n
    <3> QED BY <3>1, <3>2
  <2>5. \A i \in 1 .. Len(pending') : Defined(pending'[i].key) => pending'[i].key \in late'
    <3> SUFFICES ASSUME NEW i \in 1 .. Len(pending'), Defined(pending'[i].key)
                 PROVE  pending'[i].key \in late'
        OBVIOUS
    <3>1. CASE i = 1
        BY <3>1, <2>2, <2>e, <1>6
    <3>2. CASE i # 1
        BY <3>2, <2>o, <1>r DEF IInv, ListSound
    <3> QED BY <3>1, <3>2
  <2>6. \A i \in 1 .. Len(pending') :
            /\ pending'[i].templ \in Known'
            /\ pending'[i].key = Key(pending'[i].templ, pending'[i].type)
    <3> SUFFICES ASSUME NEW i \in 1 .. Len(pending')
                 PROVE  /\ pending'[i].templ \in Known
                        /\ pending'[i].key = Key(pending'[i].templ, pending'[i].type)
        OBVIOUS
    <3>1. CASE i = 1
        BY <3>1, <2>2, <2>e DEF key
    <3>2. CASE i # 1
        BY <3>2, <2>o DEF IInv, KeysRight, TypeOK
    <3> QED BY <3>1, <3>2
  <2>7. \A k : Scheduled(k) => Scheduled(k)'
    <3> SUFFICES ASSUME NEW k, Scheduled(k) PROVE Scheduled(k)'
        OBVIOUS
    <3>1. PICK i \in 1 .. Len(pending) : pending[i].key = k
        BY DEF Scheduled
    <3>2. i + 1 \in 2 .. Len(pending) + 1 /\ i + 1 \in 1 .. Len(pending') /\ (i + 1) - 1 = i
        BY <2>2, <2>n
    <3>3. pending'[i + 1].key = k
        BY <3>1, <3>2, <2>2
    <3> QED BY <3>2, <3>3 DEF Scheduled
  <2>8. \A k : k = key => Scheduled(k)'
    <3>1. 1 \in 1 .. Len(pending')
        BY <2>2, <2>n
    <3>2. \E i \in 1 .. Len(pending') : pending'[i].key = key
        BY <3>1, <2>2, <2>e
    <3> QED BY <3>2 DEF Scheduled
  <2>9. \A a \in asked' : Defined(a.key)' \/ Scheduled(a.key)'
    <3> SUFFICES ASSUME NEW a \in asked' PROVE Defined(a.key)' \/ Scheduled(a.key)'
        OBVIOUS
    <3>1. CASE a \in asked
        BY <3>1, <2>7, <1>d DEF IInv, NothingForgotten
    <3>2. CASE a.key = key
        BY <3>2, <2>8
    <3> QED BY <3>1, <3>2, <1>6
  <2>10. KeysRight'
      BY <2>6, <1>a, <1>k DEF KeysRight
  <2>11. ListSound'
      BY <2>4, <2>5, <1>l DEF ListSound, Defined
  <2>12. LateAgain'
    <3> SUFFICES ASSUME NEW k \in late'
                 PROVE  Defined(k)' /\ (k \in redefined' \/ Scheduled(k)')
        BY DEF LateAgain
    <3>1. CASE k \in late
        BY <3>1, <2>7, <1>d DEF IInv, NothingForgotten, LateAgain
    <3>2. CASE k = key /\ Defined(key)
        BY <3>2, <2>8, <1>d
    <3> QED BY <3>1, <3>2, <1>6
  <2> QED BY <2>2, <2>6, <2>9, <2>10, <2>11, <2>12, <1>a, <1>r
<1> QED BY <1>7, <1>8

-----------------------------------------------------------------------------
\* The start of the translation unit.
LEMMA InitHolds == Init => IInv
<1> SUFFICES ASSUME Init PROVE IInv
    OBVIOUS
<1> USE DEF Init
<1>1. TypeOK
  <2>1. Known = {} /\ body \in [Known -> Seq(AnyCall)]
      BY DEF Known
  <2>2. decls \in 0 .. MaxDecls /\ calls \in 0 .. MaxCalls
      BY MaxAssumption
  <2>3. pending \in Seq([key : AnyKey, templ : Templates, type : AnyType])
        /\ todo \in Seq(AnyCall)
      OBVIOUS
  <2>4. bound \in AnyType
      BY DEF AnyType
  <2> QED BY <2>1, <2>2, <2>3, <2>4 DEF TypeOK
<1>2. KeysRight
    BY DEF KeysRight
<1>3. ListSound
    BY DEF ListSound
<1>4. NothingForgotten
    BY DEF NothingForgotten, LateAgain
<1> QED BY <1>1, <1>2, <1>3, <1>4 DEF IInv

\* Steps that leave the list, the registry and the definitions alone.
LEMMA ListUnchanged ==
    ASSUME IInv, UNCHANGED <<pending, defined, redefined, asked, late>>,
           phase' \in {"top", "end"} => phase \in {"top", "end"} \/ pending = <<>>
    PROVE  KeysRight' /\ ListSound' /\ NothingForgotten'
<1>1. KeysRight'
    BY DEF IInv, KeysRight
<1>2. ListSound'
    BY DEF IInv, ListSound, Defined
<1>3. NothingForgotten'
    BY DEF IInv, NothingForgotten, LateAgain, Defined, Scheduled
<1> QED BY <1>1, <1>2, <1>3

\* A generic definition begins: its tokens are kept from here on.
LEMMA StartTemplateKeeps ==
    ASSUME IInv, NEW templ \in Templates, StartTemplate(templ)
    PROVE  IInv'
<1> USE DEF StartTemplate, StartDecl, instances
<1>1. KeysRight' /\ ListSound' /\ NothingForgotten'
    BY ListUnchanged
<1>2. Known' = Known \cup {templ}
    BY DEF Known
<1>3. /\ body'[templ] = <<>>
      /\ \A t \in Known : body'[t] = body[t]
    BY DEF Known
<1>4. body' \in [Known' -> Seq(AnyCall)]
    BY <1>2 DEF IInv, TypeOK, Known
<1>5. \A t \in Known' : \A i \in 1 .. Len(body'[t]) : body'[t][i].templ \in Known'
    BY <1>2, <1>3 DEF IInv, TypeOK
<1>6. decls' \in 0 .. MaxDecls /\ calls' \in 0 .. MaxCalls
    BY MaxAssumption DEF IInv, TypeOK
<1>7. TypeOK'
    BY <1>2, <1>4, <1>5, <1>6 DEF IInv, TypeOK
<1> QED BY <1>1, <1>7 DEF IInv

\* A generic call in the declaration being parsed.
LEMMA CallKeeps ==
    ASSUME IInv, NEW templ \in Templates, NEW arg \in Types \cup {T}, Call(templ, arg)
    PROVE  IInv'
<1> USE DEF Call
<1>1. Known' = Known /\ templ \in Known
    BY DEF IInv, TypeOK, Known
<1>2. /\ registry' \subseteq AnyKey
      /\ pending' \in Seq(Entry)
      /\ \A i \in 1 .. Len(pending') : pending'[i].templ \in Known'
      /\ asked' \subseteq [templ : Templates, type : AnyType, key : AnyKey]
      /\ late' \subseteq AnyKey
      /\ KeysRight'
      /\ ListSound'
      /\ \A a \in asked' : Defined(a.key)' \/ Scheduled(a.key)'
      /\ LateAgain'
    BY <1>1, InstantiateKeeps
<1>3. NothingForgotten'
    BY <1>2 DEF NothingForgotten
<1>4. body' \in [Known' -> Seq(AnyCall)]
      /\ \A t \in Known' : \A i \in 1 .. Len(body'[t]) : body'[t][i].templ \in Known'
  <2>1. CASE cur = "none" \/ cur \notin Known
      BY <2>1, <1>1 DEF IInv, TypeOK
  <2>2. CASE cur # "none" /\ cur \in Known
    <3> DEFINE c == [templ |-> templ, arg |-> arg]
    <3>1. c \in AnyCall /\ c.templ \in Known
        BY <1>1 DEF AnyCall
    <3> HIDE DEF c
    <3>2. body[cur] \in Seq(AnyCall)
        BY <2>2 DEF IInv, TypeOK
    <3>3. /\ Append(body[cur], c) \in Seq(AnyCall)
          /\ \A i \in 1 .. Len(Append(body[cur], c)) :
                Append(body[cur], c)[i] = c
                \/ (i \in 1 .. Len(body[cur]) /\ Append(body[cur], c)[i] = body[cur][i])
        BY <3>1, <3>2
    <3>4. body' = [body EXCEPT ![cur] = Append(body[cur], c)]
        BY <2>2 DEF c
    <3>5. body' \in [Known' -> Seq(AnyCall)]
        BY <3>3, <3>4, <1>1, ZenonT(60) DEF IInv, TypeOK
    <3>6. ASSUME NEW t \in Known, NEW i \in 1 .. Len(body'[t])
          PROVE  body'[t][i].templ \in Known
      <4>1. CASE t = cur
        <5>1. body'[t] = Append(body[cur], c)
            BY <4>1, <3>4, <2>2 DEF IInv, TypeOK
        <5> QED BY <5>1, <2>2, <3>1, <3>3 DEF IInv, TypeOK
      <4>2. CASE t # cur
        <5>1. body'[t] = body[t]
            BY <4>2, <3>4 DEF IInv, TypeOK
        <5> QED BY <5>1 DEF IInv, TypeOK
      <4> QED BY <4>1, <4>2
    <3> QED BY <3>5, <3>6, <1>1
  <2> QED BY <2>1, <2>2
<1>5. calls' \in 0 .. MaxCalls
    BY MaxAssumption DEF IInv, TypeOK
<1>6. TypeOK'
    BY <1>1, <1>2, <1>4, <1>5 DEF IInv, TypeOK, Entry
<1> QED BY <1>2, <1>3, <1>6 DEF IInv

\* A generic call in a body that is being replayed.
LEMMA ReplayCallKeeps ==
    ASSUME IInv, ReplayCall
    PROVE  IInv'
<1> USE DEF ReplayCall
<1> DEFINE c == Head(todo)
<1>1. /\ c \in AnyCall /\ c.templ \in Known
      /\ todo' \in Seq(AnyCall)
      /\ \A i \in 1 .. Len(todo') : todo'[i].templ \in Known
  <2>1. todo \in Seq(AnyCall) /\ \A i \in 1 .. Len(todo) : todo[i].templ \in Known
      BY DEF IInv, TypeOK
  <2>2. /\ Head(todo) \in AnyCall /\ Head(todo) = todo[1]
        /\ Tail(todo) \in Seq(AnyCall)
        /\ Len(todo) \in Nat \ {0}
        /\ Len(Tail(todo)) = Len(todo) - 1
        /\ \A i \in 1 .. Len(todo) - 1 : Tail(todo)[i] = todo[i + 1]
      BY <2>1, Behead
  <2>3. ASSUME NEW i \in 1 .. Len(Tail(todo)) PROVE Tail(todo)[i].templ \in Known
    <3>1. i + 1 \in 1 .. Len(todo) /\ Tail(todo)[i] = todo[i + 1]
        BY <2>2
    <3> QED BY <3>1, <2>1
  <2>4. todo[1].templ \in Known
      BY <2>1, <2>2
  <2> QED BY <2>2, <2>3, <2>4
<1>2. Known' = Known
    BY DEF Known
<1>3. /\ registry' \subseteq AnyKey
      /\ pending' \in Seq(Entry)
      /\ \A i \in 1 .. Len(pending') : pending'[i].templ \in Known'
      /\ asked' \subseteq [templ : Templates, type : AnyType, key : AnyKey]
      /\ late' \subseteq AnyKey
      /\ KeysRight'
      /\ ListSound'
      /\ \A a \in asked' : Defined(a.key)' \/ Scheduled(a.key)'
      /\ LateAgain'
  <2>1. c.arg \in Types \cup {T}
      BY <1>1 DEF AnyCall
  <2> HIDE DEF c
  <2>2. Instantiate(c.templ, c.arg)
      BY DEF c
  <2> QED BY <2>1, <2>2, <1>1, <1>2, InstantiateKeeps
<1>4. NothingForgotten'
    BY <1>3 DEF NothingForgotten
<1>5. TypeOK'
    BY <1>1, <1>2, <1>3 DEF IInv, TypeOK, Entry
<1> QED BY <1>3, <1>4, <1>5 DEF IInv

\* The first entry of the list is taken off and defined.
LEMMA ReplayKeeps ==
    ASSUME IInv, Replay
    PROVE  IInv'
<1> USE DEF Replay
<1> DEFINE p == Head(pending)
           new == [key |-> p.key, type |-> p.type]
<1>1. /\ p \in Entry /\ p = pending[1]
      /\ pending' \in Seq(Entry)
      /\ Len(pending) \in Nat \ {0}
      /\ Len(pending') = Len(pending) - 1
      /\ \A i \in 1 .. Len(pending) - 1 : pending'[i] = pending[i + 1]
  <2>1. pending \in Seq(Entry) /\ pending # <<>> /\ pending' = Tail(pending)
      BY DEF IInv, TypeOK, Entry
  <2> QED BY <2>1, Behead
<1>2. \A i \in 1 .. Len(pending') :
          i + 1 \in 1 .. Len(pending) /\ i + 1 # 1 /\ pending'[i] = pending[i + 1]
    BY <1>1
<1>3. 1 \in 1 .. Len(pending)
    BY <1>1
<1>4. /\ p.templ \in Known /\ p.templ \in Templates
      /\ p.type \in AnyType
      /\ p.key \in AnyKey
      /\ p.key = Key(p.templ, p.type)
    BY <1>1, <1>3 DEF IInv, TypeOK, KeysRight, Entry
<1>5. /\ cur' = p.templ /\ bound' = p.type /\ todo' = body[p.templ]
      /\ defined' = defined \cup {new}
      /\ redefined' = IF Defined(p.key) THEN redefined \cup {p.key} ELSE redefined
      /\ phase' = "replay"
      /\ UNCHANGED <<body, registry, asked, late, decls, calls>>
    OBVIOUS
<1>6. new.key = p.key /\ new.type = p.type /\ new \in [key : AnyKey, type : AnyType]
    BY <1>4
<1> HIDE DEF p, new
<1>7. TypeOK'
  <2>1. Known' = Known
      BY DEF Known
  <2>2. todo' \in Seq(AnyCall) /\ \A i \in 1 .. Len(todo') : todo'[i].templ \in Known
      BY <1>4, <1>5 DEF IInv, TypeOK
  <2>3. \A i \in 1 .. Len(pending') : pending'[i].templ \in Known
      BY <1>2 DEF IInv, TypeOK
  <2>4. redefined' \subseteq AnyKey
      BY <1>4, <1>5 DEF IInv, TypeOK
  <2>5. defined' \subseteq [key : AnyKey, type : AnyType]
      BY <1>5, <1>6 DEF IInv, TypeOK
  <2> QED BY <2>1, <2>2, <2>3, <2>4, <2>5, <1>1, <1>4, <1>5 DEF IInv, TypeOK, Entry
<1>8. KeysRight'
  <2>1. \A i \in 1 .. Len(pending') :
            pending'[i].key = Key(pending'[i].templ, pending'[i].type)
      BY <1>2 DEF IInv, KeysRight
  <2>2. \A d \in defined' : \E templ \in Templates : d.key = Key(templ, d.type)
      BY <1>4, <1>5, <1>6 DEF IInv, KeysRight
  <2> QED BY <2>1, <2>2, <1>5 DEF IInv, KeysRight
<1>9. ListSound'
  <2>1. \A i, j \in 1 .. Len(pending') : pending'[i].key = pending'[j].key => i = j
    <3> SUFFICES ASSUME NEW i \in 1 .. Len(pending'), NEW j \in 1 .. Len(pending'),
                        pending'[i].key = pending'[j].key
                 PROVE  i = j
        OBVIOUS
    <3>1. i + 1 = j + 1
        BY <1>2 DEF IInv, ListSound
    <3> QED BY <3>1, <1>1
  <2>2. ASSUME NEW i \in 1 .. Len(pending'),
               NEW d \in defined', d.key = pending'[i].key
        PROVE  pending'[i].key \in late'
    <3>1. pending'[i].key # p.key
        BY <1>1, <1>2, <1>3 DEF IInv, ListSound
    <3>2. d \in defined
        BY <3>1, <2>2, <1>5, <1>6
    <3>3. Defined(pending[i + 1].key)
        BY <3>2, <2>2, <1>2 DEF Defined
    <3> QED BY <3>3, <1>2, <1>5 DEF IInv, ListSound
  <2>3. redefined' \subseteq late'
      BY <1>1, <1>3, <1>5 DEF IInv, ListSound
  <2> QED BY <2>1, <2>2, <2>3 DEF ListSound, Defined
<1>s. \A k : Scheduled(k) /\ k # p.key => Scheduled(k)'
  <2> SUFFICES ASSUME NEW k, Scheduled(k), k # p.key PROVE Scheduled(k)'
      OBVIOUS
  <2>1. PICK i \in 1 .. Len(pending) : pending[i].key = k
      BY DEF Scheduled
  <2>2. i # 1
      BY <2>1, <1>1
  <2>3. i - 1 \in 1 .. Len(pending') /\ pending'[i - 1] = pending[i]
      BY <2>2, <1>1
  <2> QED BY <2>1, <2>3 DEF Scheduled
<1>a. LateAgain'
  <2> SUFFICES ASSUME NEW k \in late'
               PROVE  Defined(k)' /\ (k \in redefined' \/ Scheduled(k)')
      BY DEF LateAgain
  <2>1. k \in late /\ Defined(k) /\ (k \in redefined \/ Scheduled(k))
      BY <1>5 DEF IInv, NothingForgotten, LateAgain
  <2>2. Defined(k)'
      BY <2>1, <1>5 DEF Defined
  <2>3. CASE k = p.key
      BY <2>1, <2>2, <2>3, <1>5
  <2>4. CASE k # p.key
      BY <2>1, <2>2, <2>4, <1>5, <1>s
  <2> QED BY <2>3, <2>4
<1>10. NothingForgotten'
  <2> SUFFICES ASSUME NEW a \in asked'
               PROVE  Defined(a.key)' \/ Scheduled(a.key)'
      BY <1>5, <1>a DEF NothingForgotten
  <2>1. a \in asked
      BY <1>5
  <2>2. CASE Defined(a.key)
      BY <2>2, <1>5 DEF Defined
  <2>3. CASE Scheduled(a.key)
    <3>1. CASE a.key = p.key
        BY <3>1, <1>5, <1>6 DEF Defined
    <3>2. CASE a.key # p.key
        BY <2>3, <3>2, <1>s
    <3> QED BY <3>1, <3>2
  <2> QED BY <2>1, <2>2, <2>3 DEF IInv, NothingForgotten
<1> QED BY <1>7, <1>8, <1>9, <1>10 DEF IInv

\* Every step of the parser.
LEMMA NextKeeps == IInv /\ [Next]_vars => IInv'
<1> SUFFICES ASSUME IInv, [Next]_vars PROVE IInv'
    OBVIOUS
<1>1. ASSUME NEW templ \in Templates, StartTemplate(templ) PROVE IInv'
    BY <1>1, StartTemplateKeeps
<1>2. CASE StartFunction
  <2>1. KeysRight' /\ ListSound' /\ NothingForgotten'
      BY <1>2, ListUnchanged DEF StartFunction, StartDecl, instances
  <2>2. decls' \in 0 .. MaxDecls /\ calls' \in 0 .. MaxCalls
      BY <1>2, MaxAssumption DEF IInv, TypeOK, StartFunction, StartDecl
  <2>3. TypeOK'
      BY <1>2, <2>2 DEF IInv, TypeOK, StartFunction, StartDecl, instances, Known
  <2> QED BY <2>1, <2>3 DEF IInv
<1>3. ASSUME NEW templ \in Templates, NEW arg \in Types \cup {T}, Call(templ, arg)
      PROVE  IInv'
    BY <1>3, CallKeeps
<1>4. CASE EndDecl
  <2>1. KeysRight' /\ ListSound' /\ NothingForgotten'
      BY <1>4, ListUnchanged DEF EndDecl, instances
  <2>2. TypeOK'
      BY <1>4 DEF IInv, TypeOK, EndDecl, instances, Known
  <2> QED BY <2>1, <2>2 DEF IInv
<1>5. CASE Replay
    BY <1>5, ReplayKeeps
<1>6. CASE ReplayCall
    BY <1>6, ReplayCallKeeps
<1>7. CASE ReplayEnd
  <2>1. KeysRight' /\ ListSound' /\ NothingForgotten'
      BY <1>7, ListUnchanged DEF ReplayEnd, instances
  <2>2. TypeOK'
      BY <1>7 DEF IInv, TypeOK, ReplayEnd, instances, Known, AnyType
  <2> QED BY <2>1, <2>2 DEF IInv
<1>8. CASE FlushEnd
  <2>1. KeysRight' /\ ListSound' /\ NothingForgotten'
      BY <1>8, ListUnchanged DEF FlushEnd, instances
  <2>2. TypeOK'
      BY <1>8 DEF IInv, TypeOK, FlushEnd, instances, Known
  <2> QED BY <2>1, <2>2 DEF IInv
<1>9. CASE EndOfUnit
  <2>1. KeysRight' /\ ListSound' /\ NothingForgotten'
      BY <1>9, ListUnchanged DEF EndOfUnit, instances
  <2>2. TypeOK'
      BY <1>9 DEF IInv, TypeOK, EndOfUnit, instances, Known
  <2> QED BY <2>1, <2>2 DEF IInv
<1>10. CASE UNCHANGED vars
  <2>1. KeysRight' /\ ListSound' /\ NothingForgotten'
      BY <1>10, ListUnchanged DEF vars
  <2>2. TypeOK'
      BY <1>10 DEF IInv, TypeOK, vars, Known
  <2> QED BY <2>1, <2>2 DEF IInv
<1> QED BY <1>1, <1>2, <1>3, <1>4, <1>5, <1>6, <1>7, <1>8, <1>9, <1>10
        DEF Next, Flushing

\* The invariant holds throughout the translation unit.
LEMMA Invariance == Spec => []IInv
<1> QED BY InitHolds, NextKeeps, PTL DEF Spec

-----------------------------------------------------------------------------
\* The parser's tables keep their types.
THEOREM TypeCorrect == Spec => []TypeOK
<1>1. IInv => TypeOK
    BY DEF IInv
<1> QED BY <1>1, Invariance, PTL

\* After every top-level declaration all instances any call was resolved to are
\* defined: czet_instantiate puts every request on the list that is not there
\* already, and only a replay takes one off, which defines it.
THEOREM CallsAreDefined == Spec => []EveryCallDefined
<1>1. IInv => EveryCallDefined
  <2> SUFFICES ASSUME IInv, phase \in {"top", "end"}, NEW a \in asked
               PROVE  Defined(a.key)
      BY DEF EveryCallDefined
  <2>1. pending = <<>>
      BY DEF IInv, NothingForgotten
  <2>2. ~Scheduled(a.key)
      BY <2>1 DEF Scheduled
  <2> QED BY <2>2 DEF IInv, NothingForgotten
<1> QED BY <1>1, Invariance, PTL

\* The key of a named integer type holds its template, name and width, so a call
\* with one runs code compiled for a type that agrees in them.
THEOREM IntegersOwnTheirCode == Spec => []IntegersGetOwnCode
<1>1. IInv => IntegersGetOwnCode
  <2> SUFFICES ASSUME IInv, NEW a \in asked, NEW d \in defined,
                      Integral(a.type), a.type.decl # "?", d.key = a.key
               PROVE  /\ d.key[1] = a.templ
                      /\ Integral(d.type)
                      /\ d.type.decl = a.type.decl
                      /\ d.type.bits = a.type.bits
      BY DEF IntegersGetOwnCode
  <2>1. a.type \in AnyType /\ d.type \in AnyType
      BY DEF IInv, TypeOK
  <2>2. PICK templ \in Templates : d.key = Key(templ, d.type)
      BY DEF IInv, KeysRight
  <2>3. a.key = Key(a.templ, a.type)
      BY DEF IInv, KeysRight
  <2>4. templ = a.templ /\ Summary(d.type) = Summary(a.type)
    <3>1. d.key[1] = templ /\ d.key[2] = Summary(d.type)
        BY <2>2 DEF Key
    <3>2. a.key[1] = a.templ /\ a.key[2] = Summary(a.type)
        BY <2>3 DEF Key
    <3> QED BY <3>1, <3>2
  <2>5. Summary(a.type) = <<a.type.decl, a.type.bits>>
      BY DEF Summary
  <2>6. Integral(d.type) /\ d.type.decl = a.type.decl /\ d.type.bits = a.type.bits
    <3>1. CASE Integral(d.type)
      <4>1. Summary(d.type) = <<d.type.decl, d.type.bits>>
          BY <3>1 DEF Summary
      <4> QED BY <3>1, <4>1, <2>4, <2>5
    <3>2. CASE ~Integral(d.type)
      <4>1. Summary(d.type) = <<"?", -1>>
          BY <3>2 DEF Summary
      <4>2. a.type.decl = "?"
          BY <4>1, <2>4, <2>5
      <4> QED BY <4>2
    <3> QED BY <3>1, <3>2
  <2> QED BY <2>2, <2>4, <2>6 DEF Key
<1> QED BY <1>1, Invariance, PTL

\* An instance is defined a second time exactly if some call asked for it after
\* its definition was emitted: such a request is scheduled, and only a replay
\* takes it off the list.
THEOREM RedefinedExactlyWhenLate == Spec => []LateCallsRedefine
<1>1. IInv => LateCallsRedefine
  <2> SUFFICES ASSUME IInv, phase \in {"top", "end"} PROVE late \subseteq redefined
      BY DEF IInv, ListSound, LateCallsRedefine
  <2>1. \A k : ~Scheduled(k)
      BY DEF IInv, NothingForgotten, Scheduled
  <2> QED BY <2>1 DEF IInv, NothingForgotten, LateAgain
<1> QED BY <1>1, Invariance, PTL

-----------------------------------------------------------------------------
\* Tokens, and the expansions that wait: none of them is used up.
Tokens == [kind : TokenKinds \cup {"EOF"}, level : Nat]
Waiting == Seq(Tokens) \ {<<>>}

\* What the variables hold; the scan of an invocation has at least its name.
MacroTypes ==
    /\ buf \in Seq(Tokens) /\ inject \in Seq(Tokens) /\ lexer \in Seq(Tokens)
    /\ stack \in Seq(Waiting)
    /\ inv \in Seq(Tokens)
    /\ pc # "parse" => inv # <<>>

\* The counter is at most the cap and covers the nested calls.
DepthInv ==
    /\ nest \in Nat /\ depth \in Nat
    /\ depth <= MaxExpandDepth
    /\ nest <= depth
    /\ early => nest < depth

MacroInv == MacroTypes /\ DepthInv

\* The tokens of a text.
LEMMA TokensOfText ==
    ASSUME NEW s \in Seq(TokenKinds), NEW lv \in Nat, NEW r,
           r = [k \in 1 .. Len(s) |-> [kind |-> s[k], level |-> lv]]
    PROVE  r \in Seq(Tokens)
<1>1. Len(s) \in Nat /\ \A k \in 1 .. Len(s) : s[k] \in TokenKinds
  BY LenProperties, ElementOfSeq
<1>2. r \in [1 .. Len(s) -> Tokens]
  BY <1>1 DEF Tokens
<1>3. \A A, n : n \in Nat /\ r \in [1 .. n -> A] => r \in Seq(A)
  BY SeqDef
<1> QED BY <1>1, <1>2, <1>3

\* The invariant at the start of a translation unit.
LEMMA MacroStart == M!Init => MacroInv
<1> SUFFICES ASSUME M!Init PROVE MacroInv
  OBVIOUS
<1>1. PICK s \in Sources : lexer = [k \in 1 .. Len(s) |-> M!Token(s[k], 0)]
  BY DEF M!Init
<1>2. lexer \in Seq(Tokens)
  BY <1>1, TokensOfText, MacroAssumption DEF M!Token
<1>3. \A A : <<>> \in Seq(A)
  BY EmptySeq
<1> QED BY <1>2, <1>3, MacroAssumption DEF M!Init, MacroInv, MacroTypes, DepthInv

\* What the first token and the rest of a non-empty sequence are.
LEMMA FirstAndRest ==
    ASSUME NEW A, NEW s \in Seq(A), s # <<>>
    PROVE  Head(s) \in A /\ Tail(s) \in Seq(A)
BY HeadTailProperties

\* The lexer feeds the parser's buffer: from the text being injected, from those
\* that wait, from the source, or the end of the input.
LEMMA LexKeeps ==
    ASSUME MacroTypes, M!Lex, UNCHANGED <<pc, inv>>
    PROVE  MacroTypes'
<1>0. \A x \in Tokens : Append(buf, x) \in Seq(Tokens)
  BY AppendProperties DEF MacroTypes
<1>1. CASE /\ inject # <<>> /\ buf' = Append(buf, Head(inject)) /\ inject' = Tail(inject)
           /\ UNCHANGED <<stack, lexer>>
  BY <1>0, <1>1, FirstAndRest DEF MacroTypes
<1>2. CASE /\ stack # <<>> /\ buf' = Append(buf, Head(Head(stack)))
           /\ inject' = Tail(Head(stack)) /\ stack' = Tail(stack) /\ UNCHANGED lexer
  <2>1. Head(stack) \in Seq(Tokens) /\ Head(stack) # <<>> /\ Tail(stack) \in Seq(Waiting)
    BY <1>2, FirstAndRest DEF MacroTypes, Waiting
  <2>2. Head(Head(stack)) \in Tokens /\ Tail(Head(stack)) \in Seq(Tokens)
    BY <2>1, FirstAndRest
  <2> QED BY <1>0, <1>2, <2>1, <2>2 DEF MacroTypes
<1>3. CASE /\ lexer # <<>> /\ buf' = Append(buf, Head(lexer)) /\ lexer' = Tail(lexer)
           /\ UNCHANGED <<inject, stack>>
  BY <1>0, <1>3, FirstAndRest DEF MacroTypes
<1>4. CASE buf' = Append(buf, M!EOF) /\ UNCHANGED <<inject, stack, lexer>>
  <2>1. M!EOF \in Tokens
    BY DEF M!EOF, M!Token, Tokens
  <2> QED BY <1>0, <1>4, <2>1 DEF MacroTypes
<1> QED BY <1>1, <1>2, <1>3, <1>4 DEF M!Lex, M!feed

\* An expansion is injected, over what is left of the one before.
LEMMA PushKeeps ==
    ASSUME MacroTypes, NEW ts \in Seq(Tokens), M!PushInject(ts), M!Return
    PROVE  MacroTypes'
<1>1. CASE inject # <<>>
  <2>1. inject \in Waiting /\ <<inject>> \in Seq(Waiting)
    BY <1>1 DEF MacroTypes, Waiting
  <2>2. <<inject>> \o stack \in Seq(Waiting)
    BY <2>1, ConcatProperties DEF MacroTypes
  <2>3. <<>> \in Seq(Tokens)
    BY EmptySeq
  <2> QED BY <1>1, <2>2, <2>3 DEF M!PushInject, M!Return, MacroTypes
<1>2. CASE inject = <<>>
  <2>1. <<>> \in Seq(Tokens)
    BY EmptySeq
  <2> QED BY <1>2, <2>1 DEF M!PushInject, M!Return, MacroTypes
<1> QED BY <1>1, <1>2

\* The tokens of an expansion.
LEMMA ExpansionTokens ==
    ASSUME MacroInv, NEW kinds \in Expansions, M!Invoke(kinds)
    PROVE  Head(inv).level \in Nat /\ M!Expanded(kinds, Head(inv)) \in Seq(Tokens)
<1> USE MacroAssumption
<1>1. inv # <<>> /\ Head(inv) \in Tokens
  BY FirstAndRest DEF MacroInv, MacroTypes, M!Invoke
<1>2. Head(inv).level \in Nat
  BY <1>1 DEF Tokens
<1>3. M!Expanded(kinds, Head(inv)) \in Seq(Tokens)
  <2> DEFINE lv == IF Head(inv).level < MaxExpandDepth THEN Head(inv).level + 1 ELSE MaxExpandDepth
  <2>1. lv \in Nat
    BY <1>2
  <2>2. M!Expanded(kinds, Head(inv)) = [k \in 1 .. Len(kinds) |-> [kind |-> kinds[k], level |-> lv]]
    BY DEF M!Expanded, M!Token
  <2> HIDE DEF lv
  <2> QED BY <2>1, <2>2, TokensOfText
<1> QED BY <1>2, <1>3

\* An invocation is expanded, in place or one call deeper, or refused as too
\* deep: only below the cap does the counter grow.
LEMMA InvokeKeeps ==
    ASSUME MacroInv, NEW kinds \in Expansions, M!Invoke(kinds)
    PROVE  MacroInv'
<1> USE MacroAssumption
<1>2. Head(inv).level \in Nat
  BY ExpansionTokens
<1>3. M!Expanded(kinds, Head(inv)) \in Seq(Tokens)
  BY ExpansionTokens
<1>4. MacroTypes'
  BY <1>3, PushKeeps DEF MacroInv, M!Invoke
<1>5. CASE UNCHANGED <<nest, depth, early>>
  BY <1>4, <1>5 DEF MacroInv, DepthInv
<1>6. CASE depth < MaxExpandDepth /\ M!Enter
  BY <1>4, <1>6 DEF MacroInv, DepthInv, M!Enter
<1>7. CASE ~(depth < MaxExpandDepth) /\ M!TooDeep
  <2>1. depth = MaxExpandDepth /\ nest \in Nat /\ depth \in Nat
    BY <1>7 DEF MacroInv, DepthInv
  <2>2. Head(inv).level + nest < MaxExpandDepth => nest < depth
    BY <1>2, <2>1
  <2> QED BY <1>4, <1>7, <2>2 DEF MacroInv, DepthInv, M!TooDeep
<1> QED BY <1>5, <1>6, <1>7 DEF M!Invoke

\* Every step of the front end keeps the invariant.
LEMMA MacroStep == MacroInv /\ [M!Next]_(M!vars) => MacroInv'
<1> SUFFICES ASSUME MacroInv, [M!Next]_(M!vars) PROVE MacroInv'
  OBVIOUS
<1> USE DEF MacroInv, M!feed, M!scan
<1>1. CASE M!Peek
  BY <1>1, LexKeeps DEF M!Peek, DepthInv
<1>2. CASE M!Consume
  BY <1>2, FirstAndRest DEF M!Consume, M!AtToken, MacroTypes, DepthInv
<1>3. ASSUME NEW where, M!TryInvoke(where) PROVE MacroInv'
  <2>1. Head(buf) \in Tokens /\ Tail(buf) \in Seq(Tokens)
    BY <1>3, FirstAndRest DEF M!TryInvoke, M!AtToken, MacroTypes
  <2>2. <<Head(buf)>> \in Seq(Tokens) /\ <<Head(buf)>> # <<>>
    BY <2>1
  <2> QED BY <1>3, <2>1, <2>2 DEF M!TryInvoke, MacroTypes, DepthInv
<1>4. CASE M!NoAngle
  BY <1>4 DEF M!NoAngle, M!AtToken, MacroTypes, DepthInv
<1>5. CASE M!OpenAngle \/ M!ScanToken
  <2>1. Head(buf) \in Tokens /\ Tail(buf) \in Seq(Tokens)
    BY <1>5, FirstAndRest DEF M!OpenAngle, M!ScanToken, M!AtToken, MacroTypes
  <2>2. Append(inv, Head(buf)) \in Seq(Tokens) /\ Append(inv, Head(buf)) # <<>>
    BY <2>1, AppendProperties DEF MacroTypes
  <2>3. MacroTypes'
    BY <1>5, <2>1, <2>2 DEF M!OpenAngle, M!ScanToken, M!TakeToken, MacroTypes
  <2>4. UNCHANGED <<nest, depth, early>>
    BY <1>5 DEF M!OpenAngle, M!ScanToken
  <2> QED BY <2>3, <2>4 DEF DepthInv
<1>6. CASE M!RollBack
  BY <1>6, PushKeeps DEF M!RollBack, DepthInv, MacroTypes
<1>7. CASE M!Leave
  <2>1. MacroTypes'
    BY <1>7 DEF M!Leave, MacroTypes
  <2>2. nest > 0 /\ nest' = nest - 1 /\ depth' = depth - 1 /\ early' = early
    BY <1>7 DEF M!Leave
  <2> QED BY <2>1, <2>2, MacroAssumption DEF DepthInv
<1>8. CASE UNCHANGED M!vars
  BY <1>8 DEF M!vars, MacroTypes, DepthInv
<1> QED BY <1>1, <1>2, <1>3, <1>4, <1>5, <1>6, <1>7, <1>8, InvokeKeeps DEF M!Next, M!Invocation

\* Whatever the text and the expansions, the counter that limits the nesting of
\* expansions is at least the number of calls the parser is inside.
THEOREM DepthAlwaysCovers == M!Spec => []DepthCoversNesting
<1>1. MacroInv => DepthCoversNesting
  BY MacroAssumption DEF MacroInv, DepthInv, DepthCoversNesting, M!DepthCoversNesting
<1> QED BY <1>1, MacroStart, MacroStep, PTL DEF M!Spec

-----------------------------------------------------------------------------
\* Every non-empty set of numbers has a least element: the induction used below.
LEMMA LeastNumber ==
    ASSUME NEW Ns, Ns \subseteq Nat, Ns # {}
    PROVE  \E x \in Ns : \A y \in Ns : x <= y
<1> DEFINE R == OpToRel(<, Nat)
<1>1. IsWellFoundedOn(R, Nat)
  BY NatLessThanWellFounded, Zenon
<1> HIDE DEF R
<1>2. \E x \in Ns : \A y \in Ns : ~(<<y, x>> \in R)
  BY <1>1, WFMin
<1>3. \A x, y \in Nat : <<y, x>> \in R <=> y < x
  BY DEF R, OpToRel
<1>4. \A x, y \in Nat : ~(y < x) => x <= y
  OBVIOUS
<1> QED BY <1>2, <1>3, <1>4

\* Three sequences joined, the first two or the last two first.
LeftFirst(a, b, c) == (a \o b) \o c
RightFirst(a, b, c) == a \o (b \o c)

\* Where the streams of tokens are joined first does not matter.
LEMMA JoinsAssociate ==
    ASSUME NEW A, NEW a \in Seq(A), NEW b \in Seq(A), NEW c \in Seq(A)
    PROVE  LeftFirst(a, b, c) = RightFirst(a, b, c)
BY SMT DEF LeftFirst, RightFirst

\* Four of them: the stream as it is read, and as the buffer and the rest.
FromFront(b, t, f, l) == ((b \o t) \o f) \o l
FromBack(b, t, f, l) == b \o (t \o (f \o l))

LEMMA FourJoined ==
    ASSUME NEW A, NEW b \in Seq(A), NEW t \in Seq(A), NEW f \in Seq(A), NEW l \in Seq(A)
    PROVE  /\ FromFront(b, t, f, l) = FromBack(b, t, f, l)
           /\ t \o (f \o l) \in Seq(A)
<1>1. PICK u, v : u = b \o t /\ v = f \o l
  OBVIOUS
<1>2. u \in Seq(A) /\ v \in Seq(A)
  BY <1>1, ConcatProperties
<1>3. t \o v \in Seq(A)
  BY <1>2, ConcatProperties
<1>4. LeftFirst(u, f, l) = RightFirst(u, f, l)
  BY <1>2, JoinsAssociate
<1>5. LeftFirst(b, t, v) = RightFirst(b, t, v)
  BY <1>2, JoinsAssociate
<1>6. (u \o f) \o l = u \o v
  BY <1>1, <1>4, Zenon DEF LeftFirst, RightFirst
<1>7. u \o v = b \o (t \o v)
  BY <1>1, <1>5, Zenon DEF LeftFirst, RightFirst
<1>8. FromFront(b, t, f, l) = FromBack(b, t, f, l)
  BY <1>1, <1>6, <1>7, Zenon DEF FromFront, FromBack
<1> QED BY <1>1, <1>3, <1>8, Zenon

\* g gives the concatenations of the first sequences of ss, up to b of them.
Joins(g, ss, b) ==
    g = [k \in 1 .. b |-> IF k = 1 THEN ss[k] ELSE g[k - 1] \o ss[k]]

LEMMA JoinsExist ==
    ASSUME NEW ss, NEW b \in Nat
    PROVE  \E g : Joins(g, ss, b)
<1> DEFINE Bad == {x \in Nat : ~\E g : Joins(g, ss, x)}
<1> SUFFICES ASSUME Bad # {} PROVE FALSE
  OBVIOUS
<1>1. PICK x \in Bad : \A y \in Bad : x <= y
  BY LeastNumber
<1>2. CASE x = 0
  <2>1. PICK g : g = [k \in 1 .. 0 |-> <<>>]
    OBVIOUS
  <2>2. Joins(g, ss, 0)
    BY <2>1 DEF Joins
  <2> QED BY <1>1, <1>2, <2>2
<1>3. CASE x # 0
  <2>1. x - 1 \in Nat /\ ~(x <= x - 1)
    BY <1>1, <1>3
  <2>2. PICK g : Joins(g, ss, x - 1)
    BY <1>1, <2>1
  <2>3. PICK h : h = [k \in 1 .. x |-> IF k < x THEN g[k] ELSE
                                       IF k = 1 THEN ss[k] ELSE g[k - 1] \o ss[k]]
    OBVIOUS
  <2>4. \A k \in 1 .. x - 1 : g[k] = IF k = 1 THEN ss[k] ELSE g[k - 1] \o ss[k]
    BY <2>2 DEF Joins
  <2>5. \A k \in 1 .. x - 1 : h[k] = g[k]
    BY <1>1, <2>3
  <2>6. \A k \in 1 .. x : h[k] = IF k = 1 THEN ss[k] ELSE h[k - 1] \o ss[k]
    <3> SUFFICES ASSUME NEW k \in 1 .. x
                 PROVE  h[k] = IF k = 1 THEN ss[k] ELSE h[k - 1] \o ss[k]
      OBVIOUS
    <3>1. k # 1 => k - 1 \in 1 .. x - 1
      BY <1>1
    <3>2. CASE k < x
      <4>1. k \in 1 .. x - 1
        BY <1>1, <3>2
      <4> QED BY <2>4, <2>5, <3>1, <4>1
    <3>3. CASE ~(k < x)
      <4>1. h[k] = IF k = 1 THEN ss[k] ELSE g[k - 1] \o ss[k]
        BY <2>3, <3>3
      <4> QED BY <2>5, <3>1, <4>1
    <3> QED BY <3>2, <3>3
  <2>7. h = [k \in 1 .. x |-> h[k]]
    BY <2>3
  <2>8. Joins(h, ss, x)
    BY <2>6, <2>7 DEF Joins
  <2> QED BY <1>1, <2>8
<1> QED BY <1>2, <1>3

\* FlattenSeq is the last of them.
LEMMA FlattenJoins ==
    ASSUME NEW A, NEW ss \in Seq(Seq(A)), ss # <<>>
    PROVE  \E g : /\ M!FlattenSeq(ss) = g[Len(ss)]
                  /\ \A k \in 1 .. Len(ss) :
                       /\ g[k] = IF k = 1 THEN ss[k] ELSE g[k - 1] \o ss[k]
                       /\ g[k] \in Seq(A)
<1>1. Len(ss) \in Nat /\ Len(ss) # 0
  BY LenProperties, EmptySeq
<1>2. PICK g : g = CHOOSE h : Joins(h, ss, Len(ss))
  OBVIOUS
<1>3. Joins(g, ss, Len(ss))
  BY <1>1, <1>2, JoinsExist
<1>4. M!FlattenSeq(ss) = g[Len(ss)]
  BY <1>1, <1>2 DEF M!FlattenSeq, Joins
<1>5. \A k \in 1 .. Len(ss) : g[k] = IF k = 1 THEN ss[k] ELSE g[k - 1] \o ss[k]
  BY <1>3 DEF Joins
<1>6. \A k \in 1 .. Len(ss) : ss[k] \in Seq(A)
  BY ElementOfSeq
<1> DEFINE Bad == {k \in 1 .. Len(ss) : g[k] \notin Seq(A)}
<1>7. Bad = {}
  <2> SUFFICES ASSUME Bad # {} PROVE FALSE
    OBVIOUS
  <2>1. PICK x \in Bad : \A y \in Bad : x <= y
    <3>1. Bad \subseteq Nat
      BY <1>1
    <3> HIDE DEF Bad
    <3> QED BY <3>1, LeastNumber
  <2>2. x \in 1 .. Len(ss) /\ g[x] \notin Seq(A)
    BY <2>1
  <2>3. x # 1
    BY <1>5, <1>6, <2>2
  <2>4. x - 1 \in 1 .. Len(ss) /\ ~(x <= x - 1)
    BY <1>1, <2>2, <2>3
  <2>5. g[x - 1] \in Seq(A)
    BY <2>1, <2>4
  <2>6. g[x] = g[x - 1] \o ss[x]
    BY <1>5, <2>2, <2>3
  <2> QED BY <1>6, <2>2, <2>5, <2>6, ConcatProperties
<1>8. \A k \in 1 .. Len(ss) : g[k] \in Seq(A)
  BY <1>7
<1> QED BY <1>4, <1>5, <1>8

\* It puts the first sequence before the rest.
LEMMA FlattenFirst ==
    ASSUME NEW A, NEW ss \in Seq(Seq(A)), ss # <<>>
    PROVE  /\ M!FlattenSeq(ss) = Head(ss) \o M!FlattenSeq(Tail(ss))
           /\ M!FlattenSeq(Tail(ss)) \in Seq(A)
<1>1. PICK n : n = Len(ss)
  OBVIOUS
<1>2. n \in Nat \ {0}
  BY <1>1, LenProperties, EmptySeq
<1>3. PICK t : t = Tail(ss)
  OBVIOUS
<1>4. /\ t \in Seq(Seq(A)) /\ Len(t) = n - 1 /\ Head(ss) = ss[1]
      /\ \A k \in 1 .. n - 1 : t[k] = ss[k + 1]
  BY <1>1, <1>3, HeadTailProperties
<1>5. PICK g : /\ M!FlattenSeq(ss) = g[n]
               /\ \A k \in 1 .. n : /\ g[k] = IF k = 1 THEN ss[k] ELSE g[k - 1] \o ss[k]
                                    /\ g[k] \in Seq(A)
  BY <1>1, FlattenJoins
<1>6. \A k \in 1 .. n : ss[k] \in Seq(A)
  BY <1>1, ElementOfSeq
<1>7. CASE n = 1
  <2>1. t = <<>>
    BY <1>4, <1>7, EmptySeq
  <2>2. M!FlattenSeq(t) = <<>>
    BY <2>1, EmptySeq DEF M!FlattenSeq
  <2>3. g[1] = ss[1] /\ ss[1] \in Seq(A)
    BY <1>2, <1>5, <1>6
  <2>4. ss[1] \o <<>> = ss[1]
    BY <2>3, ConcatEmptySeq
  <2> QED BY <1>3, <1>4, <1>5, <1>7, <2>2, <2>3, <2>4, EmptySeq
<1>8. CASE n # 1
  <2>1. t # <<>> /\ n - 1 \in Nat \ {0}
    BY <1>2, <1>4, <1>8, EmptySeq
  <2>2. PICK h : /\ M!FlattenSeq(t) = h[n - 1]
                 /\ \A k \in 1 .. n - 1 : /\ h[k] = IF k = 1 THEN t[k] ELSE h[k - 1] \o t[k]
                                          /\ h[k] \in Seq(A)
    <3>1. PICK h : /\ M!FlattenSeq(t) = h[Len(t)]
                   /\ \A k \in 1 .. Len(t) : /\ h[k] = IF k = 1 THEN t[k] ELSE h[k - 1] \o t[k]
                                             /\ h[k] \in Seq(A)
      BY <1>4, <2>1, FlattenJoins
    <3> QED BY <1>4, <3>1
  <2> DEFINE Bad == {k \in 1 .. n - 1 : g[k + 1] # ss[1] \o h[k]}
  <2>3. Bad = {}
    <3> SUFFICES ASSUME Bad # {} PROVE FALSE
      OBVIOUS
    <3>1. PICK x \in Bad : \A y \in Bad : x <= y
      <4>1. Bad \subseteq 1 .. n - 1
        BY Zenon
      <4> HIDE DEF Bad
      <4>2. Bad \subseteq Nat
        BY <1>2, <4>1
      <4> QED BY <4>2, LeastNumber
    <3>2. x \in 1 .. n - 1 /\ x + 1 \in 1 .. n /\ x + 1 # 1 /\ (x + 1) - 1 = x
      BY <1>2, <3>1
    <3>3. g[x + 1] = g[x] \o ss[x + 1] /\ ss[x + 1] = t[x]
      BY <1>4, <1>5, <3>2
    <3>4. CASE x = 1
      <4>1. g[1] = ss[1] /\ h[1] = t[1]
        BY <1>2, <1>5, <2>2, <3>2, <3>4
      <4> QED BY <3>1, <3>3, <3>4, <4>1
    <3>5. CASE x # 1
      <4>1. x - 1 \in 1 .. n - 1 /\ ~(x <= x - 1) /\ (x - 1) + 1 = x
        BY <1>2, <3>2, <3>5
      <4>2. g[x] = ss[1] \o h[x - 1]
        BY <3>1, <4>1
      <4>3. h[x] = h[x - 1] \o t[x] /\ h[x - 1] \in Seq(A)
        BY <2>2, <3>2, <3>5, <4>1
      <4>4. ss[1] \in Seq(A) /\ t[x] \in Seq(A)
        BY <1>2, <1>6, <3>2, <3>3
      <4>5. (ss[1] \o h[x - 1]) \o t[x] = ss[1] \o (h[x - 1] \o t[x])
        <5>1. LeftFirst(ss[1], h[x - 1], t[x]) = RightFirst(ss[1], h[x - 1], t[x])
          BY <4>3, <4>4, JoinsAssociate
        <5> QED BY <5>1, Zenon DEF LeftFirst, RightFirst
      <4> QED BY <3>1, <3>3, <4>2, <4>3, <4>5
    <3> QED BY <3>4, <3>5
  <2>4. n - 1 \in 1 .. n - 1 /\ (n - 1) + 1 = n
    BY <1>2, <2>1
  <2>5. g[n] = ss[1] \o h[n - 1]
    BY <2>3, <2>4
  <2> QED BY <1>3, <1>4, <1>5, <2>2, <2>4, <2>5
<1> QED BY <1>7, <1>8

-----------------------------------------------------------------------------
\* What comes after the look-ahead buffer.
Behind == inject \o (M!FlattenSeq(stack) \o lexer)

\* What waits, put together.
LEMMA WaitingTokens ==
    ASSUME NEW ss \in Seq(Waiting)
    PROVE  /\ M!FlattenSeq(ss) \in Seq(Tokens)
           /\ ss # <<>> => M!FlattenSeq(ss) = Head(ss) \o M!FlattenSeq(Tail(ss))
<1>1. ss \in Seq(Seq(Tokens))
  BY SeqMonotonic DEF Waiting
<1>2. ss # <<>> => /\ M!FlattenSeq(ss) = Head(ss) \o M!FlattenSeq(Tail(ss))
                   /\ M!FlattenSeq(Tail(ss)) \in Seq(Tokens)
  BY <1>1, FlattenFirst
<1>3. ss # <<>> => Head(ss) \in Seq(Tokens)
  BY <1>1, FirstAndRest
<1>4. ss = <<>> => M!FlattenSeq(ss) = <<>>
  BY EmptySeq DEF M!FlattenSeq
<1>5. PICK f : f = M!FlattenSeq(ss)
  OBVIOUS
<1>6. f \in Seq(Tokens)
  BY <1>2, <1>3, <1>4, <1>5, EmptySeq, ConcatProperties, ZenonT(60)
<1> QED BY <1>2, <1>5, <1>6

\* The stream is the buffer and what comes after it.
LEMMA StreamNow ==
    ASSUME MacroTypes
    PROVE  M!Stream = buf \o Behind /\ Behind \in Seq(Tokens)
<1>1. /\ buf \in Seq(Tokens) /\ inject \in Seq(Tokens) /\ lexer \in Seq(Tokens)
      /\ stack \in Seq(Waiting)
  BY DEF MacroTypes
<1>2. PICK b, t, f, l : /\ b = buf /\ t = inject /\ f = M!FlattenSeq(stack)
                        /\ l = lexer
  OBVIOUS
<1>3. b \in Seq(Tokens) /\ t \in Seq(Tokens) /\ f \in Seq(Tokens) /\ l \in Seq(Tokens)
  BY <1>1, <1>2, WaitingTokens
<1>4. FromFront(b, t, f, l) = FromBack(b, t, f, l) /\ t \o (f \o l) \in Seq(Tokens)
  BY <1>3, FourJoined
<1> QED BY <1>2, <1>4 DEF M!Stream, Behind, FromFront, FromBack

LEMMA StreamNext ==
    ASSUME MacroTypes'
    PROVE  (M!Stream)' = buf' \o Behind' /\ Behind' \in Seq(Tokens)
<1>1. /\ buf' \in Seq(Tokens) /\ inject' \in Seq(Tokens) /\ lexer' \in Seq(Tokens)
      /\ stack' \in Seq(Waiting)
  BY DEF MacroTypes
<1>2. PICK b, t, f, l : /\ b = buf' /\ t = inject' /\ f = M!FlattenSeq(stack')
                        /\ l = lexer'
  OBVIOUS
<1>3. b \in Seq(Tokens) /\ t \in Seq(Tokens) /\ f \in Seq(Tokens) /\ l \in Seq(Tokens)
  BY <1>1, <1>2, WaitingTokens
<1>4. FromFront(b, t, f, l) = FromBack(b, t, f, l) /\ t \o (f \o l) \in Seq(Tokens)
  BY <1>3, FourJoined
<1> QED BY <1>2, <1>4 DEF M!Stream, Behind, FromFront, FromBack

\* A token that moves from the front of what follows, s and then r, to the end
\* of what is before it.
Kept(b, s, r) == b \o (s \o r)
Moved(b, s, r) == Append(b, Head(s)) \o (Tail(s) \o r)

LEMMA MoveFirst ==
    ASSUME NEW A, NEW b \in Seq(A), NEW s \in Seq(A), NEW r \in Seq(A), s # <<>>
    PROVE  Moved(b, s, r) = Kept(b, s, r)
<1>1. Head(s) \in A /\ Tail(s) \in Seq(A) /\ s = <<Head(s)>> \o Tail(s)
  OBVIOUS
<1>2. PICK h, t : h = Head(s) /\ t = Tail(s)
  OBVIOUS
<1>3. h \in A /\ t \in Seq(A) /\ s = <<h>> \o t
  BY <1>1, <1>2
<1>4. PICK e : e = <<h>>
  OBVIOUS
<1>5. e \in Seq(A) /\ Append(b, h) = b \o e
  BY <1>3, <1>4, AppendIsConcat
<1>6. PICK u : u = t \o r
  OBVIOUS
<1>7. u \in Seq(A)
  BY <1>3, <1>6, ConcatProperties
<1>8. LeftFirst(b, e, u) = RightFirst(b, e, u) /\ LeftFirst(e, t, r) = RightFirst(e, t, r)
  BY <1>3, <1>5, <1>7, JoinsAssociate
<1>9. Append(b, h) \o (t \o r) = b \o ((e \o t) \o r)
  BY <1>5, <1>6, <1>8, Zenon DEF LeftFirst, RightFirst
<1> QED BY <1>2, <1>3, <1>4, <1>9, Zenon DEF Moved, Kept

\* Filling the buffer moves the stream on, until its end.
LEMMA LexStream ==
    ASSUME MacroTypes, MacroTypes', M!Lex
    PROVE  /\ Len(buf') = Len(buf) + 1
           /\ \/ buf' \o Behind' = buf \o Behind
              \/ buf' = Append(buf, M!EOF)
<1> DEFINE f == M!FlattenSeq(stack)
           g == M!FlattenSeq(stack')
<1>1. /\ buf \in Seq(Tokens) /\ inject \in Seq(Tokens) /\ lexer \in Seq(Tokens)
      /\ stack \in Seq(Waiting)
  BY DEF MacroTypes
<1>2. /\ buf' \in Seq(Tokens) /\ inject' \in Seq(Tokens) /\ lexer' \in Seq(Tokens)
      /\ stack' \in Seq(Waiting)
  BY DEF MacroTypes
<1>3. /\ f \in Seq(Tokens) /\ g \in Seq(Tokens)
      /\ stack # <<>> => f = Head(stack) \o M!FlattenSeq(Tail(stack))
  BY <1>1, <1>2, WaitingTokens
<1>4. Behind = inject \o (f \o lexer) /\ Behind' = inject' \o (g \o lexer')
  BY DEF Behind
<1>5. \A x : Len(Append(buf, x)) = Len(buf) + 1
  BY <1>1
<1> HIDE DEF f, g
<1>6. f \o lexer \in Seq(Tokens) /\ g \o lexer' \in Seq(Tokens)
  BY <1>1, <1>2, <1>3, ConcatProperties
<1>7. CASE /\ inject # <<>> /\ buf' = Append(buf, Head(inject)) /\ inject' = Tail(inject)
           /\ UNCHANGED <<stack, lexer>>
  <2>1. g = f
    BY <1>7 DEF f, g
  <2>2. Append(buf, Head(inject)) \o (Tail(inject) \o (f \o lexer)) = buf \o (inject \o (f \o lexer))
    <3>1. PICK r : r = f \o lexer
      OBVIOUS
    <3>2. r \in Seq(Tokens)
      BY <1>6, <3>1
    <3>3. Moved(buf, inject, r) = Kept(buf, inject, r)
      BY <1>1, <1>7, <3>2, MoveFirst
    <3> QED BY <3>1, <3>3 DEF Moved, Kept
  <2> QED BY <1>4, <1>5, <1>7, <2>1, <2>2
<1>8. CASE /\ inject = <<>> /\ stack # <<>> /\ buf' = Append(buf, Head(Head(stack)))
           /\ inject' = Tail(Head(stack)) /\ stack' = Tail(stack) /\ UNCHANGED lexer
  <2>1. PICK h : h = Head(stack)
    OBVIOUS
  <2>2. h \in Seq(Tokens) /\ h # <<>>
    BY <1>1, <1>8, <2>1, FirstAndRest DEF Waiting
  <2>3. f = h \o g
    BY <1>3, <1>8, <2>1 DEF g
  <2>4. Append(buf, Head(h)) \o (Tail(h) \o (g \o lexer)) = buf \o (h \o (g \o lexer))
    <3>1. PICK r : r = g \o lexer
      OBVIOUS
    <3>2. r \in Seq(Tokens)
      BY <1>6, <1>8, <3>1
    <3>3. Moved(buf, h, r) = Kept(buf, h, r)
      BY <1>1, <2>2, <3>2, MoveFirst
    <3> QED BY <3>1, <3>3 DEF Moved, Kept
  <2>5. <<>> \o ((h \o g) \o lexer) = h \o (g \o lexer)
    <3>1. LeftFirst(h, g, lexer) = RightFirst(h, g, lexer)
      BY <1>1, <1>3, <2>2, JoinsAssociate
    <3>2. PICK v : v = h \o (g \o lexer)
      OBVIOUS
    <3>3. v \in Seq(Tokens)
      BY <1>6, <1>8, <2>2, <3>2, ConcatProperties
    <3>4. <<>> \o v = v
      BY <3>3, ConcatEmptySeq
    <3> QED BY <3>1, <3>2, <3>4, Zenon DEF LeftFirst, RightFirst
  <2> QED BY <1>4, <1>5, <1>8, <2>1, <2>3, <2>4, <2>5
<1>9. CASE /\ inject = <<>> /\ stack = <<>> /\ lexer # <<>>
           /\ buf' = Append(buf, Head(lexer)) /\ lexer' = Tail(lexer)
           /\ UNCHANGED <<inject, stack>>
  <2>1. f = <<>> /\ g = <<>>
    BY <1>9, EmptySeq DEF f, g, M!FlattenSeq
  <2>2. Moved(buf, lexer, <<>>) = Kept(buf, lexer, <<>>)
    BY <1>1, <1>9, EmptySeq, MoveFirst
  <2>3. Tail(lexer) \in Seq(Tokens)
    BY <1>2, <1>9
  <2>4. /\ <<>> \o (<<>> \o lexer) = lexer \o <<>>
        /\ <<>> \o (<<>> \o Tail(lexer)) = Tail(lexer) \o <<>>
    BY <1>1, <2>3, ConcatEmptySeq
  <2> QED BY <1>4, <1>5, <1>9, <2>1, <2>2, <2>4 DEF Moved, Kept
<1>10. CASE buf' = Append(buf, M!EOF)
  BY <1>5, <1>10
<1> QED BY <1>7, <1>8, <1>9, <1>10 DEF M!Lex

\* The tokens taken by c_czet_try_invoke and what is left make up the stream
\* the invocation was tried on, unless its end was reached; the buffer is used
\* up when the closing angle is found.
StreamInv ==
    /\ Len(buf) <= 2
    /\ pc \in {"parse", "name", "angle", "match"}
    /\ pc # "parse" =>
         \/ before = inv \o (buf \o Behind)
         \/ buf # <<>> /\ Head(buf) = M!EOF /\ (pc = "match" => Len(inv) = 1)
    /\ pc = "name" => Len(inv) = 1 /\ Len(buf) <= 1
    /\ pc = "angle" => Len(buf) <= 1
    /\ pc = "match" /\ Len(inv) > 1 => buf = <<>>

LEMMA StreamStart == M!Init => StreamInv
BY EmptySeq DEF M!Init, StreamInv

\* What is taken from a buffer that was not used up.
LEMMA TakeFirst ==
    ASSUME MacroTypes, buf # <<>>, buf' = Tail(buf), UNCHANGED M!feed
    PROVE  /\ Len(buf') = Len(buf) - 1
           /\ Behind' = Behind
           /\ Len(buf) <= 1 => buf' = <<>>
           /\ Append(inv, Head(buf)) \o (buf' \o Behind') = inv \o (buf \o Behind)
           /\ <<Head(buf)>> \o (buf' \o Behind') = buf \o Behind
<1>1. buf \in Seq(Tokens) /\ inv \in Seq(Tokens) /\ Behind \in Seq(Tokens)
  BY StreamNow DEF MacroTypes
<1>2. Behind' = Behind
  BY DEF M!feed, Behind
<1>3. Len(buf') = Len(buf) - 1 /\ buf' \in Seq(Tokens) /\ Len(buf) \in Nat \ {0}
  BY <1>1, HeadTailProperties, EmptySeq
<1>4. Len(buf) <= 1 => buf' = <<>>
  BY <1>3, EmptySeq
<1>5. \A b \in Seq(Tokens) : Moved(b, buf, Behind) = Kept(b, buf, Behind)
  BY <1>1, MoveFirst
<1>6. Append(inv, Head(buf)) \o (buf' \o Behind') = inv \o (buf \o Behind)
  <2>1. Moved(inv, buf, Behind) = Kept(inv, buf, Behind)
    BY <1>1, <1>5
  <2> QED BY <1>2, <2>1 DEF Moved, Kept
<1>7. <<Head(buf)>> \o (buf' \o Behind') = buf \o Behind
  <2>1. Moved(<<>>, buf, Behind) = Kept(<<>>, buf, Behind)
    BY <1>5, EmptySeq
  <2>2. Append(<<>>, Head(buf)) = <<Head(buf)>>
    OBVIOUS
  <2>3. buf \o Behind \in Seq(Tokens)
    BY <1>1, ConcatProperties
  <2>4. Kept(<<>>, buf, Behind) = buf \o Behind
    BY <2>3, ConcatEmptySeq DEF Kept
  <2> QED BY <1>2, <2>1, <2>2, <2>4 DEF Moved
<1> QED BY <1>2, <1>3, <1>4, <1>6, <1>7

LEMMA StreamStep ==
    MacroInv /\ MacroInv' /\ StreamInv /\ [M!Next]_(M!vars) => StreamInv'
<1> SUFFICES ASSUME MacroTypes, MacroTypes', StreamInv, [M!Next]_(M!vars)
             PROVE  StreamInv'
  BY DEF MacroInv
<1>0. buf \in Seq(Tokens) /\ Len(buf) \in Nat /\ inv \in Seq(Tokens)
  BY LenProperties DEF MacroTypes
<1>1. CASE M!Peek
  <2>1. /\ \/ pc # "match" /\ buf = <<>>
           \/ pc = "parse" /\ Len(buf) = 1
        /\ M!Lex /\ pc' = pc /\ inv' = inv /\ before' = before
    BY <1>1 DEF M!Peek, M!scan
  <2>2. /\ Len(buf') = Len(buf) + 1
        /\ \/ buf' \o Behind' = buf \o Behind
           \/ buf' = Append(buf, M!EOF)
    BY <2>1, LexStream
  <2>3. CASE pc = "parse"
    <3>0. Len(buf) = 0 \/ Len(buf) = 1
      BY <2>1, EmptySeq
    <3>1. Len(buf') <= 2
      <4>1. PICK n, m : n = Len(buf) /\ m = Len(buf')
        OBVIOUS
      <4>2. m = n + 1 /\ (n = 0 \/ n = 1)
        BY <2>2, <3>0, <4>1
      <4> QED BY <4>1, <4>2
    <3> QED BY <2>1, <2>3, <3>1 DEF StreamInv
  <2>4. CASE pc # "parse" /\ pc # "match" /\ buf = <<>>
    <3>1. Len(buf') = 1
      BY <2>2, <2>4, EmptySeq
    <3>2. buf' = Append(buf, M!EOF) => buf' # <<>> /\ Head(buf') = M!EOF
      BY <2>4
    <3>3. before = inv \o (buf \o Behind)
      BY <2>4 DEF StreamInv
    <3>4. \/ before' = inv' \o (buf' \o Behind')
          \/ buf' # <<>> /\ Head(buf') = M!EOF
      BY <2>1, <2>2, <3>2, <3>3
    <3> QED BY <2>1, <2>4, <3>1, <3>4 DEF StreamInv
  <2> QED BY <2>1, <2>3, <2>4
<1>2. CASE M!Consume
  <2>1. pc = "parse" /\ pc' = pc /\ Len(buf') = Len(buf) - 1
    BY <1>2, TakeFirst DEF M!Consume, M!AtToken
  <2> QED BY <1>0, <2>1 DEF StreamInv
<1>3. ASSUME NEW where, M!TryInvoke(where) PROVE StreamInv'
  <2>1. /\ buf # <<>> /\ buf' = Tail(buf) /\ UNCHANGED M!feed
        /\ inv' = <<Head(buf)>> /\ pc' = "name" /\ before' = M!Stream
    BY <1>3 DEF M!TryInvoke, M!AtToken
  <2>2. /\ Len(buf') = Len(buf) - 1
        /\ <<Head(buf)>> \o (buf' \o Behind') = buf \o Behind
    BY <2>1, TakeFirst
  <2>3. before' = inv' \o (buf' \o Behind')
    BY <2>1, <2>2, StreamNow
  <2>4. Len(inv') = 1
    BY <2>1
  <2>5. Len(buf') <= 1 /\ Len(buf') <= 2
    BY <1>0, <2>2 DEF StreamInv
  <2> QED BY <2>1, <2>3, <2>4, <2>5 DEF StreamInv
<1>4. CASE M!NoAngle
  <2>1. /\ pc = "name" /\ pc' = "match" /\ buf' = buf /\ inv' = inv /\ before' = before
        /\ Behind' = Behind
    BY <1>4 DEF M!NoAngle, M!AtToken, M!scan, M!feed, Behind
  <2> QED BY <2>1, SMTT(30) DEF StreamInv
<1>5. CASE M!OpenAngle \/ M!ScanToken
  <2>1. /\ buf # <<>> /\ buf' = Tail(buf) /\ UNCHANGED M!feed
        /\ inv' = Append(inv, Head(buf)) /\ before' = before
        /\ pc \in {"name", "angle"} /\ pc' \in {"angle", "match"}
    BY <1>5 DEF M!OpenAngle, M!ScanToken, M!AtToken, M!TakeToken
  <2>2. Head(buf) # M!EOF
    BY <1>5 DEF M!OpenAngle, M!ScanToken, M!EOF, M!Token
  <2>3. Len(buf) <= 1 /\ before = inv \o (buf \o Behind)
    BY <2>1, <2>2 DEF StreamInv
  <2>4. buf' = <<>> /\ inv' \o (buf' \o Behind') = inv \o (buf \o Behind)
    BY <2>1, <2>3, TakeFirst
  <2>5. Len(buf') = 0
    BY <2>4, EmptySeq
  <2>6. before' = inv' \o (buf' \o Behind')
    BY <2>1, <2>3, <2>4
  <2> QED BY <2>1, <2>4, <2>5, <2>6, SMTT(30) DEF StreamInv
<1>6. ASSUME M!Return PROVE StreamInv'
  BY <1>6 DEF M!Return, StreamInv
<1>7. CASE M!Leave
  BY <1>7 DEF M!Leave, StreamInv
<1>8. CASE UNCHANGED M!vars
  <2>1. buf' = buf /\ pc' = pc /\ inv' = inv /\ before' = before /\ Behind' = Behind
    BY <1>8 DEF M!vars, M!feed, M!scan, Behind
  <2> QED BY <2>1 DEF StreamInv
<1> QED BY <1>1, <1>2, <1>3, <1>4, <1>5, <1>6, <1>7, <1>8
        DEF M!Next, M!Invocation, M!RollBack, M!Invoke

\* What follows the invocation in the stream.
LEMMA RestOfStream ==
    ASSUME NEW A, NEW s \in Seq(A), NEW t \in Seq(A)
    PROVE  SubSeq(s \o t, Len(s) + 1, Len(s \o t)) = t
<1>1. /\ Len(s) \in Nat /\ Len(t) \in Nat /\ s \o t \in Seq(A)
      /\ Len(s \o t) = Len(s) + Len(t)
  BY LenProperties, ConcatProperties
<1>2. CASE t = <<>>
  <2>1. Len(s \o t) < Len(s) + 1
    BY <1>1, <1>2, EmptySeq
  <2> QED BY <1>1, <1>2, <2>1, SubSeqEmpty
<1>3. CASE t # <<>>
  <2>1. PICK n, m : n = Len(s) /\ m = Len(t)
    OBVIOUS
  <2>2. n \in Nat /\ m \in Nat \ {0}
    BY <1>1, <1>3, <2>1, EmptySeq
  <2>3. n + 1 \in n + 1 .. n + m /\ n + m \in n + 1 .. n + m /\ (n + 1) - n = 1 /\ (n + m) - n = m
    BY <2>2
  <2>4. SubSeq(s \o t, n + 1, n + m) = SubSeq(t, 1, m)
    BY <2>1, <2>3, SubSeqOfConcat2
  <2>5. SubSeq(t, 1, m) = t
    BY <2>1, SubSeqFull
  <2> QED BY <1>1, <2>1, <2>4, <2>5
<1> QED BY <1>2, <1>3

\* An injection puts its tokens before everything that was still to come.
LEMMA InjectStream ==
    ASSUME MacroTypes, MacroTypes', NEW ts \in Seq(Tokens), M!PushInject(ts)
    PROVE  Behind' = ts \o Behind
<1>1. PICK j, f, l, g : /\ j = inject /\ f = M!FlattenSeq(stack) /\ l = lexer
                        /\ g = M!FlattenSeq(stack')
  OBVIOUS
<1>2. /\ j \in Seq(Tokens) /\ f \in Seq(Tokens) /\ l \in Seq(Tokens)
      /\ inject' = ts /\ lexer' = lexer
  BY <1>1, WaitingTokens DEF MacroTypes, M!PushInject
<1>3. g = j \o f
  <2>1. CASE inject # <<>>
    <3>1. PICK ss : ss = <<inject>> \o stack
      OBVIOUS
    <3>2. stack' = ss /\ stack \in Seq(Waiting) /\ inject \in Waiting /\ ss \in Seq(Waiting)
      BY <2>1, <3>1 DEF M!PushInject, MacroTypes, Waiting
    <3>3. ss # <<>> /\ Head(ss) = inject /\ Tail(ss) = stack
      BY <3>1, <3>2
    <3>4. M!FlattenSeq(ss) = inject \o M!FlattenSeq(stack)
      BY <3>2, <3>3, WaitingTokens
    <3> QED BY <1>1, <3>2, <3>4
  <2>2. CASE inject = <<>>
    <3>1. stack' = stack
      BY <2>2 DEF M!PushInject
    <3>2. <<>> \o f = f
      BY <1>2, ConcatEmptySeq
    <3> QED BY <1>1, <2>2, <3>1, <3>2
  <2> QED BY <2>1, <2>2
<1>4. (j \o f) \o l = j \o (f \o l)
  <2>1. LeftFirst(j, f, l) = RightFirst(j, f, l)
    BY <1>2, JoinsAssociate
  <2> QED BY <2>1, Zenon DEF LeftFirst, RightFirst
<1> QED BY <1>1, <1>2, <1>3, <1>4 DEF Behind

\* A closed invocation is replaced in place, whatever the text, the expansions
\* and the expansions they interrupt (c_czet_try_invoke, c_czet_push_inject).
THEOREM InvocationsReplacedInPlace == M!Spec => ReplacedInPlace
<1> DEFINE Replaced ==
             pc = "match" /\ Len(inv) > 1
             => LET rest == SubSeq(before, Len(inv) + 1, Len(before))
                IN  \/ (M!Stream)' = before
                    \/ \E kinds \in Expansions :
                          (M!Stream)' = M!Expanded(kinds, Head(inv)) \o rest
<1>1. MacroInv /\ MacroInv' /\ StreamInv /\ [M!Next]_(M!vars) => [Replaced]_(M!vars)
  <2> SUFFICES ASSUME MacroInv, MacroTypes', StreamInv, M!Next, pc = "match", Len(inv) > 1
               PROVE  \/ (M!Stream)' = before
                      \/ \E kinds \in Expansions :
                            (M!Stream)' = M!Expanded(kinds, Head(inv))
                                          \o SubSeq(before, Len(inv) + 1, Len(before))
    BY DEF MacroInv
  <2>0. MacroTypes
    BY DEF MacroInv
  <2>1. /\ buf = <<>> /\ before = inv \o (buf \o Behind)
        /\ inv \in Seq(Tokens) /\ Behind \in Seq(Tokens)
    BY <2>0, StreamNow DEF StreamInv, MacroTypes
  <2>2. before = inv \o Behind
    BY <2>1, ConcatEmptySeq
  <2>3. SubSeq(before, Len(inv) + 1, Len(before)) = Behind
    BY <2>1, <2>2, RestOfStream
  <2>4. (M!Stream)' = buf' \o Behind' /\ Behind' \in Seq(Tokens)
    BY StreamNext
  <2>5. ASSUME M!Return PROVE (M!Stream)' = Behind'
    <3>1. buf' = <<>>
      BY <2>1, <2>5 DEF M!Return
    <3> QED BY <2>4, <3>1, ConcatEmptySeq
  <2>6. CASE M!RollBack
    <3>1. Behind' = inv \o Behind
      BY <2>0, <2>1, <2>6, InjectStream DEF M!RollBack
    <3> QED BY <2>2, <2>5, <2>6, <3>1 DEF M!RollBack
  <2>7. ASSUME NEW kinds \in Expansions, M!Invoke(kinds)
        PROVE  (M!Stream)' = M!Expanded(kinds, Head(inv)) \o Behind
    <3>1. PICK ts : ts = M!Expanded(kinds, Head(inv))
      OBVIOUS
    <3>2. ts \in Seq(Tokens)
      BY <3>1, <2>7, ExpansionTokens
    <3>3. Behind' = ts \o Behind
      BY <2>0, <2>7, <3>1, <3>2, InjectStream DEF M!Invoke
    <3> QED BY <2>5, <2>7, <3>1, <3>3 DEF M!Invoke
  <2> QED BY <2>3, <2>6, <2>7 DEF M!Next, M!Invocation, M!Peek, M!Consume, M!TryInvoke,
             M!NoAngle, M!OpenAngle, M!ScanToken, M!Leave, M!AtToken
<1>2. M!Spec => M!Init /\ [][M!Next]_(M!vars)
  BY DEF M!Spec
<1>3. M!Spec => [](MacroInv /\ StreamInv)
  BY <1>2, MacroStart, MacroStep, StreamStart, StreamStep, PTL
<1> QED BY <1>1, <1>2, <1>3, PTL DEF ReplacedInPlace, M!ReplacedInPlace

-----------------------------------------------------------------------------
\* The elements of a sequence, and how they lie in it.
Elems(s) == {s[p] : p \in 1 .. Len(s)}
Comes(s, j, i) == \E k, l \in 1 .. Len(s) : k < l /\ s[k] = j /\ s[l] = i
Distinct(s) == \A k, l \in 1 .. Len(s) : s[k] = s[l] => k = l
Ascending(s) == \A k, l \in 1 .. Len(s) : k < l => s[k] < s[l]

\* ToSet, for a sequence.
LEMMA ToSetElems ==
    ASSUME NEW A, NEW s \in Seq(A)
    PROVE  D!ToSet(s) = Elems(s)
<1>1. DOMAIN s = 1 .. Len(s)
  BY LenProperties
<1> QED BY <1>1 DEF D!ToSet, Elems

\* A function on 1 .. n is a sequence.
LEMMA FunctionIsSeq ==
    ASSUME NEW A, NEW n \in Nat, NEW f \in [1 .. n -> A]
    PROVE  f \in Seq(A) /\ Len(f) = n
<1>1. f \in Seq(A)
  BY SeqDef
<1>2. Len(f) \in Nat /\ DOMAIN f = 1 .. Len(f) /\ DOMAIN f = 1 .. n
  BY <1>1, LenProperties
<1> QED BY <1>1, <1>2

\* Emitting ascending bodies after the log: the latest first.
LEMMA EmittedAfter ==
    ASSUME NEW g \in Seq(Nat), NEW s \in Seq(Nat), NEW r, r = g \o D!Emitted(s),
           Distinct(g), Ascending(s), \A x \in Elems(s) : x \notin Elems(g)
    PROVE  /\ r \in Seq(Nat)
           /\ Elems(r) = Elems(g) \cup Elems(s)
           /\ Distinct(r)
           /\ \A x, y : Comes(g, x, y) => Comes(r, x, y)
           /\ \A x \in Elems(g), y \in Elems(s) : Comes(r, x, y)
           /\ \A x, y \in Elems(s) : y < x => Comes(r, x, y)
<1> DEFINE m == Len(g)
           n == Len(s)
           e == D!Emitted(s)
<1>0. /\ m \in Nat /\ n \in Nat
      /\ \A p \in 1 .. m : g[p] \in Nat
      /\ \A p \in 1 .. n : s[p] \in Nat
  BY LenProperties, ElementOfSeq
<1>1. e = [p \in 1 .. n |-> s[(n - p) + 1]]
  BY DEF D!Emitted, D!Reverse
<1>2. e \in [1 .. n -> Nat]
  <2>1. \A p \in 1 .. n : (n - p) + 1 \in 1 .. n
    BY <1>0
  <2> QED BY <1>0, <1>1, <2>1
<1>3. e \in Seq(Nat) /\ Len(e) = n
  BY <1>0, <1>2, FunctionIsSeq
<1>4. /\ r \in Seq(Nat) /\ Len(r) = m + n
      /\ \A p \in 1 .. m + n : r[p] = IF p <= m THEN g[p] ELSE e[p - m]
  BY <1>3, ConcatProperties, ZenonT(60)
<1>5. /\ \A p \in 1 .. m : p \in 1 .. m + n /\ r[p] = g[p]
      /\ \A p \in 1 .. n : m + (n - p) + 1 \in 1 .. m + n /\ r[m + (n - p) + 1] = s[p]
  <2>1. \A p \in 1 .. m : p \in 1 .. m + n /\ r[p] = g[p]
    BY <1>0, <1>4
  <2>2. ASSUME NEW p \in 1 .. n
        PROVE  m + (n - p) + 1 \in 1 .. m + n /\ r[m + (n - p) + 1] = s[p]
    <3> DEFINE q == m + (n - p) + 1
    <3>1. q \in 1 .. m + n /\ ~(q <= m) /\ q - m \in 1 .. n /\ (n - (q - m)) + 1 = p
      BY <1>0
    <3>2. r[q] = e[q - m]
      BY <1>4, <3>1
    <3>3. e[q - m] = s[(n - (q - m)) + 1]
      BY <1>1, <3>1
    <3> QED BY <3>1, <3>2, <3>3
  <2> QED BY <2>1, <2>2
<1>6. \A q \in 1 .. m + n :
          (q \in 1 .. m /\ r[q] = g[q])
          \/ \E p \in 1 .. n : q = m + (n - p) + 1 /\ r[q] = s[p]
  <2> SUFFICES ASSUME NEW q \in 1 .. m + n, q \notin 1 .. m
               PROVE  \E p \in 1 .. n : q = m + (n - p) + 1 /\ r[q] = s[p]
    BY <1>5
  <2> DEFINE p == m + n + 1 - q
  <2>1. p \in 1 .. n /\ q = m + (n - p) + 1
    BY <1>0
  <2> QED BY <1>5, <2>1
<1> HIDE DEF m, n, e
<1>7. Elems(r) = Elems(g) \cup Elems(s)
  <2>1. Elems(g) = {g[p] : p \in 1 .. m} /\ Elems(s) = {s[p] : p \in 1 .. n}
        /\ Elems(r) = {r[p] : p \in 1 .. m + n}
    BY <1>4 DEF Elems, m, n
  <2>2. ASSUME NEW x \in Elems(r) PROVE x \in Elems(g) \cup Elems(s)
    <3>1. PICK q \in 1 .. m + n : x = r[q]
      BY <2>1
    <3>2. (q \in 1 .. m /\ x = g[q]) \/ \E p \in 1 .. n : x = s[p]
      BY <1>6, <3>1
    <3> QED BY <2>1, <3>2
  <2>3. ASSUME NEW x \in Elems(g) PROVE x \in Elems(r)
    BY <1>5, <2>1
  <2>4. ASSUME NEW x \in Elems(s) PROVE x \in Elems(r)
    BY <1>5, <2>1
  <2> QED BY <2>2, <2>3, <2>4
<1>8. ASSUME NEW k \in 1 .. n, NEW l \in 1 .. n
      PROVE  (s[k] = s[l] => k = l) /\ (s[l] < s[k] => l < k)
  <2>1. (k < l => s[k] < s[l]) /\ (l < k => s[l] < s[k]) /\ s[k] \in Nat /\ s[l] \in Nat
    BY <1>0 DEF Ascending, n
  <2> QED BY <1>0, <2>1
<1>9. /\ \A k, l \in 1 .. m : g[k] = g[l] => k = l
      /\ \A k \in 1 .. m, l \in 1 .. n : g[k] # s[l]
  BY DEF Distinct, Elems, m, n
<1>10. Distinct(r)
  <2> SUFFICES ASSUME NEW k \in 1 .. m + n, NEW l \in 1 .. m + n, r[k] = r[l] PROVE k = l
    BY <1>4 DEF Distinct
  <2>1. CASE k \in 1 .. m /\ l \in 1 .. m
    BY <1>5, <1>9, <2>1
  <2>2. CASE k \notin 1 .. m /\ l \notin 1 .. m
    <3>1. PICK p \in 1 .. n : k = m + (n - p) + 1 /\ r[k] = s[p]
      BY <1>6, <2>2
    <3>2. PICK q \in 1 .. n : l = m + (n - q) + 1 /\ r[l] = s[q]
      BY <1>6, <2>2
    <3>3. p = q
      <4>1. s[p] = s[q]
        BY <3>1, <3>2
      <4> QED BY <1>8, <4>1
    <3> QED BY <3>1, <3>2, <3>3, Zenon
  <2>3. CASE k \in 1 .. m /\ l \notin 1 .. m
    <3>1. PICK q \in 1 .. n : l = m + (n - q) + 1 /\ r[l] = s[q]
      BY <1>6, <2>3
    <3>2. r[k] = g[k] /\ g[k] # s[q]
      BY <1>5, <1>9, <2>3
    <3> QED BY <3>1, <3>2
  <2>4. CASE k \notin 1 .. m /\ l \in 1 .. m
    <3>1. PICK p \in 1 .. n : k = m + (n - p) + 1 /\ r[k] = s[p]
      BY <1>6, <2>4
    <3>2. r[l] = g[l] /\ g[l] # s[p]
      BY <1>5, <1>9, <2>4
    <3> QED BY <3>1, <3>2
  <2> QED BY <2>1, <2>2, <2>3, <2>4
<1>11. \A x, y : Comes(g, x, y) => Comes(r, x, y)
  BY <1>4, <1>5 DEF Comes, m
<1>12. \A x \in Elems(g), y \in Elems(s) : Comes(r, x, y)
  <2> SUFFICES ASSUME NEW k \in 1 .. m, NEW l \in 1 .. n PROVE Comes(r, g[k], s[l])
    BY DEF Elems, m, n
  <2>1. k < m + (n - l) + 1
    BY <1>0
  <2> QED BY <1>4, <1>5, <2>1 DEF Comes
<1>13. \A x, y \in Elems(s) : y < x => Comes(r, x, y)
  <2> SUFFICES ASSUME NEW k \in 1 .. n, NEW l \in 1 .. n, s[l] < s[k] PROVE Comes(r, s[k], s[l])
    BY DEF Elems, n
  <2>1. l < k
    BY <1>8
  <2>2. m + (n - k) + 1 < m + (n - l) + 1
    BY <1>0, <2>1
  <2> QED BY <1>4, <1>5, <2>2, ZenonT(60) DEF Comes
<1> QED BY <1>4, <1>7, <1>10, <1>11, <1>12, <1>13

\* The first n bodies emitted are the n latest of the vector, and the last of
\* them is earlier than none but those cut off.
LEMMA PrefixEmitted ==
    ASSUME NEW t \in Seq(Nat), Ascending(t), NEW n \in 0 .. Len(t)
    PROVE  \E s \in Seq(Nat) :
             /\ SubSeq(D!Emitted(t), 1, n) = D!Emitted(s)
             /\ Ascending(s)
             /\ \A x \in Elems(s) : x \in Elems(t)
             /\ n = Len(t) => \A x \in Elems(t) : x \in Elems(s)
             /\ n > 0 => /\ D!Emitted(t)[n] \in Elems(s)
                         /\ \A x \in Elems(t) : x \in Elems(s) \/ x < D!Emitted(t)[n]
<1> DEFINE m == Len(t)
           e == D!Emitted(t)
           s == [p \in 1 .. n |-> t[(m - n) + p]]
<1>0. m \in Nat /\ n \in Nat /\ n <= m /\ \A p \in 1 .. m : t[p] \in Nat
  BY LenProperties, ElementOfSeq
<1>1. e = [p \in 1 .. m |-> t[(m - p) + 1]]
  BY DEF D!Emitted, D!Reverse
<1>2. \A p \in 1 .. n : (m - n) + p \in 1 .. m /\ s[p] = t[(m - n) + p]
  BY <1>0
<1>3. s \in Seq(Nat) /\ Len(s) = n
  <2>1. s \in [1 .. n -> Nat]
    BY <1>0, <1>2
  <2> HIDE DEF s
  <2> QED BY <1>0, <2>1, FunctionIsSeq
<1>4. SubSeq(e, 1, n) = D!Emitted(s)
  <2>1. SubSeq(e, 1, n) = [p \in 1 .. n |-> e[p]]
    <3>1. e \in Seq(Nat) /\ Len(e) = m
      <4>1. \A p \in 1 .. m : (m - p) + 1 \in 1 .. m
        BY <1>0
      <4>2. e \in [1 .. m -> Nat]
        BY <1>0, <1>1, <4>1
      <4> QED BY <1>0, <4>2, FunctionIsSeq
    <3> HIDE DEF e, s, m
    <3>2. SubSeq(e, 1, n) = [p \in 1 .. (1 + n) - 1 |-> e[(p + 1) - 1]]
      BY <3>1 DEF SubSeq
    <3>3. (1 + n) - 1 = n /\ \A p \in 1 .. n : (p + 1) - 1 = p
      BY <1>0
    <3> QED BY <3>2, <3>3
  <2>2. D!Emitted(s) = [p \in 1 .. n |-> s[(n - p) + 1]]
    BY <1>3 DEF D!Emitted, D!Reverse
  <2>3. ASSUME NEW p \in 1 .. n PROVE e[p] = s[(n - p) + 1]
    <3>1. p \in 1 .. m /\ (n - p) + 1 \in 1 .. n /\ (m - n) + ((n - p) + 1) = (m - p) + 1
      BY <1>0
    <3>2. e[p] = t[(m - p) + 1]
      BY <1>1, <3>1
    <3>3. s[(n - p) + 1] = t[(m - n) + ((n - p) + 1)]
      BY <1>2, <3>1
    <3> QED BY <3>1, <3>2, <3>3
  <2> HIDE DEF e, s
  <2> QED BY <2>1, <2>2, <2>3
<1>5. n > 0 => e[n] = s[1] /\ 1 \in 1 .. n
  <2> SUFFICES ASSUME n > 0 PROVE e[n] = s[1] /\ 1 \in 1 .. n
    OBVIOUS
  <2>1. n \in 1 .. m /\ 1 \in 1 .. n
    BY <1>0
  <2>2. e[n] = t[(m - n) + 1] /\ s[1] = t[(m - n) + 1]
    BY <1>1, <1>2, <2>1
  <2> QED BY <2>1, <2>2
<1> HIDE DEF e, s
<1>6. Elems(s) = {s[p] : p \in 1 .. n} /\ Elems(t) = {t[p] : p \in 1 .. m}
  BY <1>3 DEF Elems
<1>7. Ascending(s)
  <2> SUFFICES ASSUME NEW k \in 1 .. n, NEW l \in 1 .. n, k < l PROVE s[k] < s[l]
    BY <1>3 DEF Ascending
  <2>1. (m - n) + k \in 1 .. m /\ (m - n) + l \in 1 .. m /\ (m - n) + k < (m - n) + l
    BY <1>0
  <2>2. t[(m - n) + k] < t[(m - n) + l]
    BY <2>1 DEF Ascending
  <2> QED BY <1>2, <2>2
<1>8. \A x \in Elems(s) : x \in Elems(t)
  BY <1>2, <1>6
<1>9. ASSUME NEW p \in 1 .. m
      PROVE  t[p] \in Elems(s) \/ (p <= m - n /\ (n > 0 => t[p] < e[n]))
  <2>1. CASE p > m - n
    <3>1. p - (m - n) \in 1 .. n /\ (m - n) + (p - (m - n)) = p
      BY <1>0, <2>1
    <3>2. s[p - (m - n)] = t[p]
      BY <1>2, <3>1
    <3> QED BY <1>6, <3>1, <3>2
  <2>2. CASE p <= m - n
    <3> SUFFICES ASSUME n > 0 PROVE t[p] < e[n]
      BY <2>2
    <3>1. p < (m - n) + 1 /\ (m - n) + 1 \in 1 .. m
      BY <1>0, <2>2
    <3>2. t[p] < t[(m - n) + 1]
      BY <3>1 DEF Ascending, m
    <3> QED BY <1>2, <1>5, <3>2
  <2> QED BY <1>0, <2>1, <2>2
<1>10. n = m => \A x \in Elems(t) : x \in Elems(s)
  <2> SUFFICES ASSUME n = m, NEW p \in 1 .. m PROVE t[p] \in Elems(s)
    BY <1>6
  <2>1. ~(p <= m - n)
    BY <1>0
  <2> QED BY <1>9, <2>1
<1>11. n > 0 => e[n] \in Elems(s) /\ \A x \in Elems(t) : x \in Elems(s) \/ x < e[n]
  BY <1>5, <1>6, <1>9
<1> QED BY <1>3, <1>4, <1>7, <1>8, <1>10, <1>11 DEF e

-----------------------------------------------------------------------------
Kinds == {"block", "expression"}
Block == [kind : Kinds, id : Nat, defers : Seq(Nat)]
Body == [around : Seq(Nat), kind : Kinds, to : Nat, reached : BOOLEAN,
         flushed : {"no", "run", "skipped"}]

\* What the variables hold.
DeferTypes ==
    /\ blocks \in Seq(Block) /\ reg \in Seq(Body) /\ log \in Seq(Nat)
    /\ opened \in Nat /\ running \in BOOLEAN

\* Blocks are numbered as they open.
IdsGrow ==
    /\ \A k \in 1 .. Len(blocks) : blocks[k].id <= opened
    /\ \A k, l \in 1 .. Len(blocks) : k < l => blocks[k].id < blocks[l].id

\* Body i, collected by block k: its history is that of the block, and it has
\* not run.
Collected(i, k) ==
    /\ i \in 1 .. Len(reg)
    /\ D!OwnBlock(i) = blocks[k].id
    /\ \A x \in Elems(reg[i].around) : \E l \in 1 .. k : blocks[l].id = x
    /\ reg[i].kind = blocks[k].kind
    /\ reg[i].flushed = "no"
    /\ i \notin Elems(log)

\* Every vector holds bodies of its block, in textual order.
VectorsRight ==
    \A k \in 1 .. Len(blocks) :
        /\ Ascending(blocks[k].defers)
        /\ \A i \in Elems(blocks[k].defers) : Collected(i, k)

\* Some open block has collected the body.
Waits(i) == \E k \in 1 .. Len(blocks) : i \in Elems(blocks[k].defers)

\* The body ran, or one registered later in its block left before its turn.
HadItsTurn(i) ==
    \/ i \in Elems(log)
    \/ \E j \in 1 .. Len(reg) :
         i < j /\ D!OwnBlock(j) = D!OwnBlock(i) /\ D!Leaves(j) /\ j \in Elems(log)

\* The block is left, and if the cleanup had to run the body had its turn.
Settled(i) ==
    /\ D!Left(i)
    /\ D!OwnBlock(i) \in visited /\ reg[i].kind = "block" => HadItsTurn(i)

\* A body that no defer; took waits in its block, or is settled.
Accounted ==
    \A i \in 1 .. Len(reg) :
        /\ D!OwnBlock(i) \in Nat /\ D!OwnBlock(i) <= opened
        /\ reg[i].flushed = "run" => HadItsTurn(i)
        /\ reg[i].flushed = "no" => Waits(i) \/ Settled(i)

\* What has run was registered, and ran once.
LogRight ==
    /\ \A i \in Elems(log) : i \in 1 .. Len(reg)
    /\ Distinct(log)

\* LastFirst, in terms of the elements of the sequences.
OrderRight ==
    \A i, j \in 1 .. Len(reg) :
        /\ i < j /\ i \in Elems(log) /\ j \in Elems(log)
        /\ D!OwnBlock(i) \in Elems(reg[j].around)
        /\ reg[i].flushed = "no"
        => Comes(log, j, i)

DeferInv ==
    DeferTypes /\ IdsGrow /\ VectorsRight /\ Accounted /\ LogRight /\ OrderRight

\* What the sequences of a state hold, position by position.
LEMMA DeferElements ==
    ASSUME DeferTypes
    PROVE  /\ Len(blocks) \in Nat /\ Len(reg) \in Nat
           /\ \A k \in 1 .. Len(blocks) : blocks[k] \in Block
           /\ \A i \in 1 .. Len(reg) : reg[i] \in Body
BY LenProperties, ElementOfSeq DEF DeferTypes

\* The innermost block, once there is one.
LEMMA TopBlock ==
    ASSUME DeferTypes, D!InFunction
    PROVE  Len(blocks) \in 1 .. Len(blocks) /\ D!Top = blocks[Len(blocks)] /\ D!Top \in Block
<1>1. Len(blocks) # 0
  BY EmptySeq DEF D!InFunction, DeferTypes
<1> QED BY <1>1, DeferElements DEF D!Top

\* A body that no defer; took, whose own block is open, has not run.
LEMMA OpenMeansNotRun ==
    ASSUME DeferInv, NEW i \in 1 .. Len(reg), reg[i].flushed = "no",
           NEW k \in 1 .. Len(blocks), D!OwnBlock(i) = blocks[k].id
    PROVE  i \notin Elems(log)
<1>1. ~D!Left(i)
  BY DEF D!Left
<1>2. Waits(i)
  BY <1>1 DEF DeferInv, Accounted, Settled
<1> QED BY <1>2 DEF DeferInv, Waits, VectorsRight, Collected

\* Having had its turn is for good: the log and the list of bodies only grow.
LEMMA TurnStays ==
    ASSUME NEW i \in 1 .. Len(reg), HadItsTurn(i),
           \A j \in 1 .. Len(reg) :
               j \in 1 .. Len(reg') /\ reg'[j].around = reg[j].around /\ reg'[j].to = reg[j].to,
           \A j \in Elems(log) : j \in Elems(log')
    PROVE  HadItsTurn(i)'
<1>1. \A j \in 1 .. Len(reg) :
        D!OwnBlock(j)' = D!OwnBlock(j) /\ (D!Leaves(j) => D!Leaves(j)')
  BY DEF D!OwnBlock, D!Last, D!Leaves
<1> QED BY <1>1 DEF HadItsTurn

\* Of the blocks that are left, the same ones have been visited.
LEMMA SettledStays ==
    ASSUME NEW i \in 1 .. Len(reg), Settled(i), D!Left(i)',
           \A j \in 1 .. Len(reg) :
               j \in 1 .. Len(reg') /\ reg'[j].around = reg[j].around /\ reg'[j].to = reg[j].to,
           reg'[i].kind = reg[i].kind,
           \A j \in Elems(log) : j \in Elems(log'),
           D!OwnBlock(i) \in visited' => D!OwnBlock(i) \in visited
    PROVE  Settled(i)'
<1>1. D!OwnBlock(i)' = D!OwnBlock(i)
  BY DEF D!OwnBlock, D!Last
<1>2. HadItsTurn(i) => HadItsTurn(i)'
  BY TurnStays
<1> QED BY <1>1, <1>2 DEF Settled

\* The invariant at the start of a function body.
LEMMA DeferStart == D!Init => DeferInv
<1> SUFFICES ASSUME D!Init PROVE DeferInv
  OBVIOUS
<1> DEFINE b == [kind |-> "block", id |-> 1, defers |-> <<>>]
<1>1. b \in Block /\ blocks = <<b>> /\ b.id = 1 /\ b.defers = <<>>
  BY EmptySeq DEF Block, Kinds, D!Init
<1> HIDE DEF b
<1>2. blocks \in Seq(Block) /\ Len(blocks) = 1 /\ blocks[1] = b
  BY <1>1
<1>3. reg = <<>> /\ log = <<>> /\ Len(reg) = 0 /\ Len(log) = 0 /\ opened = 1 /\ running = TRUE
  BY DEF D!Init
<1>4. Elems(<<>>) = {} /\ Ascending(<<>>) /\ Distinct(<<>>)
  BY DEF Elems, Ascending, Distinct
<1>5. DeferTypes
  BY <1>2, <1>3, EmptySeq DEF DeferTypes
<1>6. IdsGrow
  BY <1>1, <1>2, <1>3 DEF IdsGrow
<1>7. VectorsRight
  BY <1>1, <1>2, <1>4 DEF VectorsRight
<1>8. Accounted /\ LogRight /\ OrderRight
  BY <1>3, <1>4 DEF Accounted, LogRight, OrderRight
<1> QED BY <1>5, <1>6, <1>7, <1>8 DEF DeferInv

\* Parsing or executing on without touching the bodies, and no more than arriving
\* in open blocks.
LEMMA MoveKeeps ==
    ASSUME DeferInv, UNCHANGED <<blocks, log, opened, reg>>, running' \in BOOLEAN,
           \A x \in visited' : x \in visited \/ \E k \in 1 .. Len(blocks) : x = blocks[k].id
    PROVE  DeferInv'
<1>1. DeferTypes' /\ IdsGrow'
  BY DEF DeferInv, DeferTypes, IdsGrow
<1>2. \A i : D!OwnBlock(i)' = D!OwnBlock(i) /\ D!Left(i)' = D!Left(i)
  BY DEF D!OwnBlock, D!Left, D!Last
<1>3. ASSUME NEW i, NEW k, Collected(i, k) PROVE Collected(i, k)'
  BY <1>2, <1>3 DEF Collected
<1>4. \A i : Waits(i) => Waits(i)'
  BY DEF Waits
<1>5. VectorsRight'
  BY <1>3 DEF DeferInv, VectorsRight
<1>a. ASSUME NEW i \in 1 .. Len(reg), Settled(i) PROVE Settled(i)'
  <2>1. D!Left(i)'
    BY <1>2, <1>a DEF Settled
  <2>2. D!OwnBlock(i) \in visited' => D!OwnBlock(i) \in visited
    BY <1>a DEF Settled, D!Left
  <2> QED BY <1>a, <2>1, <2>2, SettledStays
<1>b. ASSUME NEW i \in 1 .. Len(reg), HadItsTurn(i) PROVE HadItsTurn(i)'
  BY <1>b, TurnStays
<1>6. Accounted'
  BY <1>2, <1>4, <1>a, <1>b DEF DeferInv, Accounted
<1>7. LogRight' /\ OrderRight'
  BY <1>2 DEF DeferInv, LogRight, OrderRight
<1> QED BY <1>1, <1>5, <1>6, <1>7 DEF DeferInv

\* A block opens with an empty vector and a number that is new.
LEMMA OpenKeeps ==
    ASSUME DeferInv, NEW kind \in Kinds, D!Open(kind)
    PROVE  DeferInv'
<1> DEFINE n == Len(blocks)
           b == [kind |-> kind, id |-> opened + 1, defers |-> <<>>]
<1>0. n \in Nat /\ opened \in Nat /\ DeferTypes /\ \A k \in 1 .. n : blocks[k] \in Block
  BY DeferElements DEF DeferInv, DeferTypes
<1>1. b \in Block /\ b.id = opened + 1 /\ b.defers = <<>>
  BY <1>0, EmptySeq DEF Block, DeferTypes
<1>2. /\ UNCHANGED <<running, log, reg>> /\ opened' = opened + 1 /\ blocks' = Append(blocks, b)
      /\ \A x \in visited' : x \in visited \/ x = opened + 1
  BY DEF D!Open
<1> HIDE DEF b
<1>3. /\ blocks' \in Seq(Block) /\ Len(blocks') = n + 1
      /\ \A k \in 1 .. n : blocks'[k] = blocks[k]
      /\ blocks'[n + 1] = b
  BY <1>0, <1>1, <1>2, AppendProperties DEF DeferTypes
<1> HIDE DEF n
<1>4. Elems(<<>>) = {} /\ Ascending(<<>>)
  BY DEF Elems, Ascending
<1>5. \A k \in 1 .. n + 1 : k \in 1 .. n \/ k = n + 1
  BY <1>0
<1>6. \A i : D!OwnBlock(i)' = D!OwnBlock(i)
  BY <1>2 DEF D!OwnBlock, D!Last
<1>7. DeferTypes'
  BY <1>0, <1>2, <1>3 DEF DeferTypes
<1>8. IdsGrow'
  <2>0. \A k \in 1 .. n : blocks[k].id <= opened /\ blocks[k].id \in Nat
    BY <1>0 DEF DeferInv, IdsGrow, n, Block
  <2>1. \A k \in 1 .. n + 1 : blocks'[k].id <= opened'
    BY <2>0, <1>0, <1>1, <1>2, <1>3, <1>5
  <2>2. ASSUME NEW k \in 1 .. n + 1, NEW l \in 1 .. n + 1, k < l
        PROVE  blocks'[k].id < blocks'[l].id
    <3>1. CASE l \in 1 .. n
      <4>1. k \in 1 .. n
        BY <1>0, <2>2, <3>1
      <4> QED BY <1>3, <2>2, <3>1, <4>1 DEF DeferInv, IdsGrow, n
    <3>2. CASE l = n + 1
      <4>1. k \in 1 .. n
        BY <1>0, <2>2, <3>2
      <4> QED BY <1>0, <1>1, <1>3, <2>0, <3>2, <4>1
    <3> QED BY <1>5, <3>1, <3>2
  <2> QED BY <1>3, <2>1, <2>2 DEF IdsGrow
<1>9. VectorsRight'
  <2> SUFFICES ASSUME NEW k \in 1 .. n + 1
               PROVE  /\ Ascending(blocks'[k].defers)
                      /\ \A i \in Elems(blocks'[k].defers) : Collected(i, k)'
    BY <1>3 DEF VectorsRight, Ascending, Elems
  <2>1. CASE k = n + 1
    BY <1>1, <1>3, <1>4, <2>1
  <2>2. CASE k \in 1 .. n
    <3>1. Ascending(blocks'[k].defers)
      BY <1>3, <2>2 DEF DeferInv, VectorsRight, n
    <3>2. ASSUME NEW i \in Elems(blocks'[k].defers) PROVE Collected(i, k)'
      <4>1. Collected(i, k)
        BY <1>3, <2>2, <3>2 DEF DeferInv, VectorsRight, n
      <4>2. \A l \in 1 .. k : blocks'[l] = blocks[l]
        BY <1>0, <1>3, <2>2
      <4> QED BY <1>2, <1>3, <1>6, <2>2, <4>1, <4>2 DEF Collected
    <3> QED BY <3>1, <3>2
  <2> QED BY <1>5, <2>1, <2>2
<1>10. Accounted'
  <2> SUFFICES ASSUME NEW i \in 1 .. Len(reg)
               PROVE  /\ D!OwnBlock(i)' \in Nat /\ D!OwnBlock(i)' <= opened'
                      /\ reg[i].flushed = "run" => HadItsTurn(i)'
                      /\ reg[i].flushed = "no" => Waits(i)' \/ Settled(i)'
    BY <1>2 DEF Accounted
  <2>1. D!OwnBlock(i) \in Nat /\ D!OwnBlock(i) <= opened
    BY DEF DeferInv, Accounted
  <2>2. D!OwnBlock(i)' \in Nat /\ D!OwnBlock(i)' <= opened'
    BY <1>0, <1>2, <1>6, <2>1
  <2>3. Waits(i) => Waits(i)'
    <3>1. \A k \in 1 .. n : k \in 1 .. n + 1
      BY <1>0
    <3> QED BY <1>3, <3>1 DEF Waits, Elems, n
  <2>4. D!Left(i) => D!Left(i)'
    <3> SUFFICES ASSUME D!Left(i), NEW k \in 1 .. n + 1 PROVE blocks'[k].id # D!OwnBlock(i)
      BY <1>3, <1>6 DEF D!Left
    <3>1. CASE k \in 1 .. n
      BY <1>3, <3>1 DEF D!Left, n
    <3>2. CASE k = n + 1
      BY <1>0, <1>1, <1>3, <2>1, <3>2
    <3> QED BY <1>5, <3>1, <3>2
  <2>5. Settled(i) => Settled(i)'
    <3> SUFFICES ASSUME Settled(i) PROVE Settled(i)'
      OBVIOUS
    <3>1. D!Left(i)'
      BY <2>4 DEF Settled
    <3>2. D!OwnBlock(i) # opened + 1
      BY <1>0, <2>1
    <3>3. D!OwnBlock(i) \in visited' => D!OwnBlock(i) \in visited
      BY <1>2, <3>2
    <3> QED BY <1>2, <3>1, <3>3, SettledStays
  <2>6. HadItsTurn(i) => HadItsTurn(i)'
    BY <1>2, TurnStays
  <2> QED BY <2>2, <2>3, <2>5, <2>6 DEF DeferInv, Accounted
<1>11. LogRight' /\ OrderRight'
  BY <1>2, <1>6 DEF DeferInv, LogRight, OrderRight
<1> QED BY <1>7, <1>8, <1>9, <1>10, <1>11 DEF DeferInv

\* The vector of the innermost block holds numbers in ascending order, none of
\* them in the log.
LEMMA TopVector ==
    ASSUME DeferInv, D!InFunction
    PROVE  /\ D!Top.defers \in Seq(Nat) /\ Ascending(D!Top.defers)
           /\ \A i \in Elems(D!Top.defers) : Collected(i, Len(blocks)) /\ i \in 1 .. Len(reg)
           /\ \A i \in Elems(D!Top.defers) : i \notin Elems(log)
<1>1. DeferTypes
  BY DEF DeferInv
<1>2. Len(blocks) \in 1 .. Len(blocks) /\ D!Top = blocks[Len(blocks)] /\ D!Top \in Block
  BY <1>1, TopBlock
<1>3. D!Top.defers \in Seq(Nat)
  BY <1>2 DEF Block
<1>4. Ascending(D!Top.defers) /\ \A i \in Elems(D!Top.defers) : Collected(i, Len(blocks))
  BY <1>2 DEF DeferInv, VectorsRight
<1> QED BY <1>3, <1>4 DEF Collected

\* The log and its order, when bodies of the innermost block run and the history
\* changes only the fate of bodies that are taken.
LEMMA EmitKeeps ==
    ASSUME DeferInv, D!InFunction, NEW t \in Seq(Nat), Ascending(t),
           \A i \in Elems(t) : i \in Elems(D!Top.defers),
           log' = log \o D!Emitted(t),
           Len(reg') = Len(reg),
           \A i \in 1 .. Len(reg) :
               /\ reg'[i].around = reg[i].around
               /\ reg'[i].flushed = "no" => reg[i].flushed = "no"
    PROVE  /\ log' \in Seq(Nat)
           /\ Elems(log') = Elems(log) \cup Elems(t)
           /\ LogRight' /\ OrderRight'
<1>1. /\ \A i \in Elems(t) : Collected(i, Len(blocks)) /\ i \in 1 .. Len(reg)
      /\ \A i \in Elems(t) : i \notin Elems(log)
  BY TopVector
<1>2. log \in Seq(Nat) /\ Distinct(log)
  BY DEF DeferInv, DeferTypes, LogRight
<1>4. /\ log' \in Seq(Nat)
      /\ Elems(log') = Elems(log) \cup Elems(t)
      /\ Distinct(log')
      /\ \A x, y : Comes(log, x, y) => Comes(log', x, y)
      /\ \A x \in Elems(log), y \in Elems(t) : Comes(log', x, y)
      /\ \A x, y \in Elems(t) : y < x => Comes(log', x, y)
  <2>1. PICK r : r = log'
    OBVIOUS
  <2>2. r = log \o D!Emitted(t)
    BY <2>1
  <2>3. /\ r \in Seq(Nat)
        /\ Elems(r) = Elems(log) \cup Elems(t)
        /\ Distinct(r)
        /\ \A x, y : Comes(log, x, y) => Comes(r, x, y)
        /\ \A x \in Elems(log), y \in Elems(t) : Comes(r, x, y)
        /\ \A x, y \in Elems(t) : y < x => Comes(r, x, y)
    BY <1>1, <1>2, <2>2, EmittedAfter
  <2> QED BY <2>1, <2>3
<1>5. \A i \in 1 .. Len(reg) : D!OwnBlock(i)' = D!OwnBlock(i)
  BY DEF D!OwnBlock, D!Last
<1>6. LogRight'
  <2>1. \A i \in Elems(log') : i \in 1 .. Len(reg')
    BY <1>1, <1>4 DEF DeferInv, LogRight
  <2> QED BY <1>4, <2>1 DEF LogRight
<1>7. OrderRight'
  <2> SUFFICES ASSUME NEW i \in 1 .. Len(reg), NEW j \in 1 .. Len(reg),
                      i < j, i \in Elems(log'), j \in Elems(log'),
                      D!OwnBlock(i) \in Elems(reg[j].around), reg[i].flushed = "no"
               PROVE  Comes(log', j, i)
    BY <1>5 DEF OrderRight
  <2>1. CASE i \in Elems(t) /\ j \in Elems(t)
    BY <1>4, <2>1
  <2>2. CASE i \in Elems(t) /\ j \in Elems(log)
    BY <1>4, <2>2
  <2>3. CASE i \in Elems(log) /\ j \in Elems(log)
    BY <1>4, <2>3 DEF DeferInv, OrderRight
  <2>4. CASE i \in Elems(log) /\ j \in Elems(t)
    <3>1. PICK l \in 1 .. Len(blocks) : blocks[l].id = D!OwnBlock(i)
      BY <1>1, <2>4 DEF Collected
    <3>2. i \notin Elems(log)
      BY <3>1, OpenMeansNotRun
    <3> QED BY <2>4, <3>2
  <2> QED BY <1>4, <2>1, <2>2, <2>3, <2>4
<1> QED BY <1>4, <1>6, <1>7

\* Control runs through the vector of the innermost block: every body of it has
\* had its turn then.
LEMMA ExecuteKeeps ==
    ASSUME DeferInv, D!InFunction, D!Execute(D!Emitted(D!Top.defers)),
           Len(reg') = Len(reg),
           \A i \in 1 .. Len(reg) :
               /\ reg'[i].around = reg[i].around /\ reg'[i].to = reg[i].to
               /\ reg'[i].flushed = "no" => reg[i].flushed = "no"
    PROVE  /\ log' \in Seq(Nat) /\ LogRight' /\ OrderRight'
           /\ running' \in BOOLEAN
           /\ \A i \in Elems(log) : i \in Elems(log')
           /\ \A i \in Elems(log') : i \in Elems(log) \/ i \in Elems(D!Top.defers)
           /\ \A i \in Elems(D!Top.defers) : HadItsTurn(i)'
<1> DEFINE t == D!Top.defers
           e == D!Emitted(t)
<1>1. /\ t \in Seq(Nat) /\ Ascending(t)
      /\ \A i \in Elems(t) : Collected(i, Len(blocks)) /\ i \in 1 .. Len(reg)
  BY TopVector
<1>2. Len(e) = Len(t)
  <2>1. Len(t) \in Nat
    BY <1>1, LenProperties
  <2>2. e = [p \in 1 .. Len(t) |-> t[(Len(t) - p) + 1]]
    BY DEF D!Emitted, D!Reverse
  <2> HIDE DEF t, e
  <2>3. \A p \in 1 .. Len(t) : (Len(t) - p) + 1 \in 1 .. Len(t)
    BY <2>1
  <2>4. e \in [1 .. Len(t) -> Nat]
    <3>1. \A p \in 1 .. Len(t) : t[p] \in Nat
      BY <1>1, ElementOfSeq
    <3> QED BY <2>2, <2>3, <3>1
  <2> QED BY <2>1, <2>4, FunctionIsSeq
<1>3. running' \in BOOLEAN
  BY DEF D!Execute, DeferInv, DeferTypes
<1> HIDE DEF t, e
<1>4. PICK n \in 0 .. Len(e) :
        /\ log' = log \o SubSeq(e, 1, n)
        /\ (n > 0 /\ D!Leaves(e[n])) \/ n = Len(e)
  BY Zenon DEF D!Execute, e, t
<1>5. PICK s \in Seq(Nat) :
        /\ SubSeq(e, 1, n) = D!Emitted(s)
        /\ Ascending(s)
        /\ \A x \in Elems(s) : x \in Elems(t)
        /\ n = Len(t) => \A x \in Elems(t) : x \in Elems(s)
        /\ n > 0 => e[n] \in Elems(s) /\ \A x \in Elems(t) : x \in Elems(s) \/ x < e[n]
  BY <1>1, <1>2, PrefixEmitted, Zenon DEF e
<1>6. /\ log' \in Seq(Nat)
      /\ Elems(log') = Elems(log) \cup Elems(s)
      /\ LogRight' /\ OrderRight'
  <2>1. log' = log \o D!Emitted(s)
    BY <1>4, <1>5
  <2>2. \A x \in Elems(s) : x \in Elems(D!Top.defers)
    BY <1>5 DEF t
  <2> QED BY <1>5, <2>1, <2>2, EmitKeeps
<1>7. ASSUME NEW i \in Elems(t) PROVE HadItsTurn(i)'
  <2>1. CASE i \in Elems(s)
    BY <1>6, <2>1 DEF HadItsTurn
  <2>2. CASE i \notin Elems(s)
    <3>1. n > 0 /\ D!Leaves(e[n]) /\ e[n] \in Elems(s) /\ i < e[n]
      BY <1>2, <1>4, <1>5, <2>2
    <3>2. PICK j : j = e[n]
      OBVIOUS
    <3>3. /\ j \in 1 .. Len(reg) /\ i \in 1 .. Len(reg)
          /\ D!OwnBlock(i) = blocks[Len(blocks)].id /\ D!OwnBlock(j) = blocks[Len(blocks)].id
      BY <1>1, <1>5, <3>1, <3>2 DEF Collected
    <3>4. D!OwnBlock(i)' = D!OwnBlock(i) /\ D!OwnBlock(j)' = D!OwnBlock(j)
      BY <3>3 DEF D!OwnBlock, D!Last
    <3>5. D!Leaves(j)'
      BY <3>1, <3>2, <3>3 DEF D!Leaves
    <3>6. j \in Elems(log)' /\ i < j
      BY <1>6, <3>1, <3>2
    <3> QED BY <3>3, <3>4, <3>5, <3>6, Zenon DEF HadItsTurn
  <2> QED BY <2>1, <2>2
<1> QED BY <1>3, <1>5, <1>6, <1>7 DEF t

\* The same when nothing runs.
LEMMA SilentKeeps ==
    ASSUME DeferInv, log' = log, Len(reg') = Len(reg),
           \A i \in 1 .. Len(reg) :
               /\ reg'[i].around = reg[i].around
               /\ reg'[i].flushed = "no" => reg[i].flushed = "no"
    PROVE  LogRight' /\ OrderRight'
<1>1. \A i \in 1 .. Len(reg) : D!OwnBlock(i)' = D!OwnBlock(i)
  BY DEF D!OwnBlock, D!Last
<1> QED BY <1>1 DEF DeferInv, LogRight, OrderRight

\* The closing brace.
LEMMA CloseKeeps ==
    ASSUME DeferInv, D!Close
    PROVE  DeferInv'
<1> DEFINE n == Len(blocks)
           t == D!Top.defers
<1>0. DeferTypes /\ D!InFunction /\ UNCHANGED <<opened, reg>> /\ visited' = visited
  BY DEF DeferInv, D!Close
<1>1. n \in 1 .. n /\ n \in Nat /\ D!Top = blocks[n] /\ D!Top \in Block
  BY <1>0, TopBlock, DeferElements
<1>2. /\ blocks' \in Seq(Block) /\ Len(blocks') = n - 1
      /\ \A k \in 1 .. n - 1 : k \in 1 .. n /\ blocks'[k] = blocks[k]
  <2>1. blocks' = [k \in 1 .. n - 1 |-> blocks[k]]
    BY DEF D!Close, D!Front
  <2>2. n - 1 \in Nat /\ \A k \in 1 .. n - 1 : k \in 1 .. n /\ blocks[k] \in Block
    BY <1>0, <1>1, DeferElements
  <2> HIDE DEF n
  <2>3. blocks' \in [1 .. n - 1 -> Block]
    BY <2>1, <2>2
  <2>4. PICK f : f = blocks'
    OBVIOUS
  <2>5. f \in Seq(Block) /\ Len(f) = n - 1
    BY <2>2, <2>3, <2>4, FunctionIsSeq
  <2> QED BY <2>1, <2>2, <2>4, <2>5
<1>3. /\ \A i \in Elems(t) : Collected(i, n)
      /\ \A i \in Elems(log) : i \in Elems(log')
      /\ D!CleanupRuns(D!Top) => \A i \in Elems(t) : HadItsTurn(i)'
      /\ \A i \in Elems(log') : i \in Elems(log) \/ i \in Elems(t)
      /\ log' \in Seq(Nat) /\ LogRight' /\ OrderRight' /\ running' \in BOOLEAN
  <2>1. CASE D!CleanupRuns(D!Top)
    <3>1. D!Execute(D!Emitted(D!Top.defers))
      BY <2>1 DEF D!Close
    <3>2. /\ log' \in Seq(Nat) /\ LogRight' /\ OrderRight' /\ running' \in BOOLEAN
          /\ \A i \in Elems(log) : i \in Elems(log')
          /\ \A i \in Elems(log') : i \in Elems(log) \/ i \in Elems(t)
          /\ \A i \in Elems(t) : HadItsTurn(i)'
      BY <1>0, <3>1, ExecuteKeeps
    <3>3. \A i \in Elems(t) : Collected(i, n)
      BY <1>0, TopVector
    <3> QED BY <3>2, <3>3
  <2>2. CASE ~D!CleanupRuns(D!Top)
    <3>1. log' = log /\ running' = running
      BY <2>2 DEF D!Close, D!PassBy
    <3>2. LogRight' /\ OrderRight'
      BY <1>0, <3>1, SilentKeeps
    <3> QED BY <1>0, <2>2, <3>1, <3>2, TopVector DEF DeferTypes
  <2> QED BY <2>1, <2>2
<1>4. \A i : D!OwnBlock(i)' = D!OwnBlock(i)
  BY <1>0 DEF D!OwnBlock, D!Last
<1> HIDE DEF n
<1>5. DeferTypes'
  BY <1>0, <1>2, <1>3 DEF DeferTypes
<1>6. IdsGrow'
  BY <1>0, <1>2 DEF DeferInv, IdsGrow, n
<1>7. ASSUME NEW k \in 1 .. n - 1, NEW i \in Elems(blocks[k].defers)
      PROVE  i \notin Elems(t)
  <2>1. Collected(i, k) /\ k \in 1 .. n /\ k < n
    BY <1>1, <1>2, <1>7 DEF DeferInv, VectorsRight, n
  <2>2. blocks[k].id < blocks[n].id /\ blocks[k].id \in Nat /\ blocks[n].id \in Nat
    BY <1>0, <1>1, <2>1, DeferElements DEF DeferInv, IdsGrow, n, Block
  <2>3. i \in Elems(t) => D!OwnBlock(i) = blocks[n].id
    BY <1>3 DEF Collected
  <2>4. D!OwnBlock(i) = blocks[k].id
    BY <2>1 DEF Collected
  <2> QED BY <2>2, <2>3, <2>4
<1>8. VectorsRight'
  <2> SUFFICES ASSUME NEW k \in 1 .. n - 1
               PROVE  /\ Ascending(blocks'[k].defers)
                      /\ \A i \in Elems(blocks'[k].defers) : Collected(i, k)'
    BY <1>2 DEF VectorsRight
  <2>1. k \in 1 .. n /\ blocks'[k] = blocks[k]
    BY <1>2
  <2>2. Ascending(blocks'[k].defers)
    BY <2>1 DEF DeferInv, VectorsRight, n
  <2>3. ASSUME NEW i \in Elems(blocks'[k].defers) PROVE Collected(i, k)'
    <3>1. Collected(i, k)
      BY <2>1, <2>3 DEF DeferInv, VectorsRight, n
    <3>2. \A l \in 1 .. k : blocks'[l] = blocks[l]
      BY <1>1, <1>2
    <3>3. i \notin Elems(log')
      BY <1>3, <1>7, <2>1, <2>3, <3>1 DEF Collected
    <3> QED BY <1>0, <1>4, <2>1, <3>1, <3>2, <3>3 DEF Collected
  <2> QED BY <2>2, <2>3
<1>9. Accounted'
  <2> SUFFICES ASSUME NEW i \in 1 .. Len(reg)
               PROVE  /\ D!OwnBlock(i)' \in Nat /\ D!OwnBlock(i)' <= opened'
                      /\ reg[i].flushed = "run" => HadItsTurn(i)'
                      /\ reg[i].flushed = "no" => Waits(i)' \/ Settled(i)'
    BY <1>0 DEF Accounted
  <2>1. D!OwnBlock(i)' \in Nat /\ D!OwnBlock(i)' <= opened'
    BY <1>0, <1>4 DEF DeferInv, Accounted
  <2>2. reg[i].flushed = "run" => HadItsTurn(i)'
    <3>1. HadItsTurn(i) => HadItsTurn(i)'
      BY <1>0, <1>3, TurnStays
    <3> QED BY <3>1 DEF DeferInv, Accounted
  <2>3. ASSUME reg[i].flushed = "no", i \in Elems(t)
        PROVE  Settled(i)'
    <3>1. Collected(i, n)
      BY <1>3, <2>3
    <3>2. \A k \in 1 .. n - 1 : blocks[k].id # blocks[n].id
      <4> SUFFICES ASSUME NEW k \in 1 .. n - 1 PROVE blocks[k].id # blocks[n].id
        OBVIOUS
      <4>1. k \in 1 .. n /\ k < n
        BY <1>1
      <4>2. blocks[k].id < blocks[n].id /\ blocks[k].id \in Nat /\ blocks[n].id \in Nat
        BY <1>0, <1>1, <4>1, DeferElements DEF DeferInv, IdsGrow, n, Block
      <4> QED BY <4>2
    <3>3. D!Left(i)'
      BY <1>2, <1>4, <3>1, <3>2 DEF D!Left, Collected
    <3>4. D!OwnBlock(i) \in visited /\ reg[i].kind = "block" => D!CleanupRuns(D!Top)
      BY <1>1, <3>1 DEF Collected, D!CleanupRuns
    <3> QED BY <1>0, <1>3, <1>4, <2>3, <3>3, <3>4 DEF Settled
  <2>4. ASSUME reg[i].flushed = "no", i \notin Elems(t), Waits(i) PROVE Waits(i)'
    <3>1. PICK k \in 1 .. n : i \in Elems(blocks[k].defers)
      BY <2>4 DEF Waits, n
    <3>2. k \in 1 .. n - 1
      <4>1. k # n
        BY <1>1, <2>4, <3>1
      <4> QED BY <1>1, <4>1
    <3> QED BY <1>2, <3>1, <3>2 DEF Waits
  <2>5. D!Left(i) => D!Left(i)'
    BY <1>2, <1>4 DEF D!Left, n
  <2> HIDE DEF t
  <2>6. reg[i].flushed = "no" => Waits(i) \/ Settled(i)
    BY DEF DeferInv, Accounted
  <2>7. Settled(i) => Settled(i)'
    <3> SUFFICES ASSUME Settled(i) PROVE Settled(i)'
      OBVIOUS
    <3>1. D!Left(i)'
      BY <2>5 DEF Settled
    <3> QED BY <1>0, <1>3, <3>1, SettledStays
  <2> QED BY <2>1, <2>2, <2>3, <2>4, <2>6, <2>7
<1> QED BY <1>3, <1>5, <1>6, <1>8, <1>9 DEF DeferInv

\* The blocks, when a statement changes the vector of the innermost one.
LEMMA VectorChanged ==
    ASSUME DeferTypes, D!InFunction, NEW v \in Seq(Nat),
           blocks' = [blocks EXCEPT ![Len(blocks)].defers = v]
    PROVE  /\ blocks' \in Seq(Block) /\ Len(blocks') = Len(blocks)
           /\ \A k \in 1 .. Len(blocks) :
                /\ blocks'[k].id = blocks[k].id /\ blocks'[k].kind = blocks[k].kind
                /\ k # Len(blocks) => blocks'[k].defers = blocks[k].defers
           /\ blocks'[Len(blocks)].defers = v
<1> DEFINE n == Len(blocks)
<1>1. n \in Nat /\ n \in 1 .. n /\ \A k \in 1 .. n : blocks[k] \in Block
  BY TopBlock, DeferElements
<1>2. DOMAIN blocks = 1 .. n
  BY LenProperties DEF DeferTypes
<1>3. blocks' = [k \in 1 .. n |-> IF k = n THEN [blocks[n] EXCEPT !.defers = v] ELSE blocks[k]]
  BY <1>2
<1> HIDE DEF n
<1>4. [blocks[n] EXCEPT !.defers = v] \in Block
  BY <1>1 DEF Block
<1>5. blocks' \in [1 .. n -> Block]
  BY <1>1, <1>3, <1>4
<1>6. blocks' \in Seq(Block) /\ Len(blocks') = n
  <2>1. PICK f : f = blocks'
    OBVIOUS
  <2>2. f \in Seq(Block) /\ Len(f) = n
    BY <1>1, <1>5, <2>1, FunctionIsSeq
  <2> QED BY <2>1, <2>2
<1>7. \A k \in 1 .. n :
        /\ blocks'[k].id = blocks[k].id /\ blocks'[k].kind = blocks[k].kind
        /\ k # n => blocks'[k].defers = blocks[k].defers
  BY <1>1, <1>3 DEF Block
<1>8. blocks'[n].defers = v
  BY <1>1, <1>3 DEF Block
<1> QED BY <1>6, <1>7, <1>8 DEF n

\* defer { ... };
LEMMA DeferBodyKeeps ==
    ASSUME DeferInv, NEW to \in Nat, D!DeferBody(to)
    PROVE  DeferInv'
<1> DEFINE n == Len(blocks)
           m == Len(reg)
           a == [k \in 1 .. n |-> blocks[k].id]
           b == [around |-> a, kind |-> D!Top.kind, to |-> to,
                 reached |-> running, flushed |-> "no"]
           v == Append(D!Top.defers, m + 1)
<1>0. DeferTypes /\ D!InFunction /\ UNCHANGED <<running, opened, log>> /\ visited' = visited
  BY DEF DeferInv, D!DeferBody
<1>1. /\ n \in Nat /\ m \in Nat /\ n \in 1 .. n /\ D!Top = blocks[n] /\ D!Top \in Block
      /\ \A k \in 1 .. n : blocks[k] \in Block /\ blocks[k].id \in Nat
  BY <1>0, TopBlock, DeferElements DEF Block
<1>2. /\ D!Top.defers \in Seq(Nat) /\ Ascending(D!Top.defers)
      /\ \A i \in Elems(D!Top.defers) : i \in 1 .. m
  BY <1>0, TopVector
<1>3. reg' = Append(reg, b) /\ blocks' = [blocks EXCEPT ![n].defers = v]
  BY DEF D!DeferBody, D!Top
<1>4. a \in Seq(Nat) /\ Len(a) = n /\ \A k \in 1 .. n : a[k] = blocks[k].id
  <2>1. a \in [1 .. n -> Nat]
    BY <1>1
  <2> QED BY <1>1, <2>1, FunctionIsSeq
<1> HIDE DEF a
<1>5. b \in Body
  BY <1>0, <1>1, <1>4 DEF Body, Block, DeferTypes
<1>6. b.around = a /\ b.kind = blocks[n].kind /\ b.to = to /\ b.flushed = "no"
  BY <1>1
<1> HIDE DEF b, n, m
<1>7. /\ reg' \in Seq(Body) /\ Len(reg') = m + 1
      /\ \A i \in 1 .. m : i \in 1 .. m + 1 /\ reg'[i] = reg[i]
      /\ reg'[m + 1] = b
  BY <1>0, <1>1, <1>3, <1>5, AppendProperties DEF DeferTypes, m
<1>8. /\ v \in Seq(Nat) /\ Ascending(v)
      /\ \A i \in Elems(v) : i \in Elems(D!Top.defers) \/ i = m + 1
      /\ \A i \in Elems(D!Top.defers) : i \in Elems(v)
      /\ m + 1 \in Elems(v)
  <2> DEFINE d == D!Top.defers
             q == Len(d)
  <2>1. /\ q \in Nat /\ v \in Seq(Nat) /\ Len(v) = q + 1
        /\ \A k \in 1 .. q : v[k] = d[k] /\ k \in 1 .. q + 1
        /\ v[q + 1] = m + 1 /\ q + 1 \in 1 .. q + 1
    BY <1>1, <1>2, AppendProperties, LenProperties
  <2>2. /\ \A k \in 1 .. q : d[k] \in 1 .. m
        /\ \A k, l \in 1 .. q : k < l => d[k] < d[l]
    BY <1>2 DEF Elems, Ascending
  <2>3. Elems(d) = {d[k] : k \in 1 .. q} /\ Elems(v) = {v[k] : k \in 1 .. q + 1}
    BY <2>1 DEF Elems
  <2> HIDE DEF v, d, q
  <2>4. \A k \in 1 .. q + 1 : k \in 1 .. q \/ k = q + 1
    BY <2>1
  <2>5. ASSUME NEW k \in 1 .. q + 1, NEW l \in 1 .. q + 1, k < l PROVE v[k] < v[l]
    <3>1. k \in 1 .. q
      BY <2>1, <2>5
    <3>2. CASE l \in 1 .. q
      BY <2>1, <2>2, <2>5, <3>1, <3>2
    <3>3. CASE l = q + 1
      <4>1. v[k] = d[k] /\ v[l] = m + 1 /\ d[k] \in 1 .. m
        BY <2>1, <2>2, <3>1, <3>3
      <4> QED BY <1>1, <4>1
    <3> QED BY <2>4, <3>2, <3>3
  <2>6. Ascending(v)
    BY <2>1, <2>5 DEF Ascending
  <2>7. \A i \in Elems(v) : i \in Elems(d) \/ i = m + 1
    BY <2>1, <2>3, <2>4
  <2>8. (\A i \in Elems(d) : i \in Elems(v)) /\ m + 1 \in Elems(v)
    BY <2>1, <2>3
  <2> QED BY <2>1, <2>6, <2>7, <2>8 DEF d
<1> HIDE DEF v
<1>9. /\ blocks' \in Seq(Block) /\ Len(blocks') = n
      /\ \A k \in 1 .. n :
           /\ blocks'[k].id = blocks[k].id /\ blocks'[k].kind = blocks[k].kind
           /\ k # n => blocks'[k].defers = blocks[k].defers
      /\ blocks'[n].defers = v
  BY <1>0, <1>3, <1>8, VectorChanged DEF n
<1>10. DeferTypes'
  BY <1>0, <1>7, <1>9 DEF DeferTypes
<1>11. IdsGrow'
  BY <1>0, <1>9 DEF DeferInv, IdsGrow, n
<1>a. PICK e, w : e = m + 1 /\ w = n
  OBVIOUS
<1>12. \A i \in 1 .. m : D!OwnBlock(i)' = D!OwnBlock(i)
  BY <1>7 DEF D!OwnBlock, D!Last
<1>b. D!OwnBlock(e)' = blocks[w].id
  <2>1. reg'[e].around = a
    BY <1>6, <1>7, <1>a
  <2>2. a[Len(a)] = blocks[w].id
    BY <1>1, <1>4, <1>a
  <2> QED BY <2>1, <2>2 DEF D!OwnBlock, D!Last
<1>13. m + 1 \notin Elems(log) /\ \A i \in Elems(log) : i \in 1 .. m
  BY <1>1 DEF DeferInv, LogRight, m
<1>14. Collected(e, w)'
  <2>1. \A x \in Elems(a) : \E l \in 1 .. n : blocks'[l].id = x
    BY <1>4, <1>9 DEF Elems
  <2>2. m + 1 \in 1 .. m + 1
    BY <1>1
  <2> QED BY <1>0, <1>1, <1>6, <1>7, <1>9, <1>a, <1>b, <1>13, <2>1, <2>2 DEF Collected
<1>15. ASSUME NEW k \in 1 .. n, NEW i, Collected(i, k) PROVE Collected(i, k)'
  <2>1. i \in 1 .. m
    BY <1>15 DEF Collected, m
  <2>2. \A l \in 1 .. k : blocks'[l].id = blocks[l].id
    BY <1>1, <1>9
  <2>3. i \in 1 .. m + 1 /\ reg'[i] = reg[i] /\ D!OwnBlock(i)' = D!OwnBlock(i)
    BY <1>7, <1>12, <2>1
  <2>4. blocks'[k].id = blocks[k].id /\ blocks'[k].kind = blocks[k].kind
    BY <1>9
  <2> QED BY <1>0, <1>7, <1>15, <2>2, <2>3, <2>4 DEF Collected
<1>16. VectorsRight'
  <2> SUFFICES ASSUME NEW k \in 1 .. n
               PROVE  /\ Ascending(blocks'[k].defers)
                      /\ \A i \in Elems(blocks'[k].defers) : Collected(i, k)'
    BY <1>9 DEF VectorsRight
  <2>1. Ascending(blocks[k].defers) /\ \A i \in Elems(blocks[k].defers) : Collected(i, k)
    BY DEF DeferInv, VectorsRight, n
  <2>2. CASE k = n
    BY <1>1, <1>8, <1>9, <1>a, <1>14, <1>15, <2>1, <2>2
  <2>3. CASE k # n
    BY <1>9, <1>15, <2>1, <2>3
  <2> QED BY <2>2, <2>3
<1>17. ASSUME NEW i, Waits(i) PROVE Waits(i)'
  <2>1. PICK k \in 1 .. n : i \in Elems(blocks[k].defers)
    BY <1>17 DEF Waits, n
  <2>2. i \in Elems(blocks'[k].defers)
    BY <1>1, <1>8, <1>9, <2>1
  <2> QED BY <1>9, <2>2 DEF Waits
<1>18. Accounted'
  <2> SUFFICES ASSUME NEW i \in 1 .. m + 1
               PROVE  /\ D!OwnBlock(i)' \in Nat /\ D!OwnBlock(i)' <= opened
                      /\ reg'[i].flushed = "run" => HadItsTurn(i)'
                      /\ reg'[i].flushed = "no" => Waits(i)' \/ Settled(i)'
    BY <1>0, <1>7 DEF Accounted
  <2>1. CASE i = m + 1
    <3>1. Waits(i)'
      BY <1>1, <1>8, <1>9, <2>1 DEF Waits
    <3>2. blocks[n].id <= opened
      BY <1>1 DEF DeferInv, IdsGrow, n
    <3>3. D!OwnBlock(i)' = blocks[n].id
      BY <1>a, <1>b, <2>1
    <3> QED BY <1>1, <1>6, <1>7, <2>1, <3>1, <3>2, <3>3
  <2>2. CASE i \in 1 .. m
    <3>1. D!Left(i) => D!Left(i)'
      BY <1>9, <1>12, <2>2 DEF D!Left, n
    <3>2. /\ D!OwnBlock(i) \in Nat /\ D!OwnBlock(i) <= opened
          /\ reg[i].flushed = "run" => HadItsTurn(i)
          /\ reg[i].flushed = "no" => Waits(i) \/ Settled(i)
      BY <2>2 DEF DeferInv, Accounted, m
    <3>3. i \in 1 .. Len(reg) /\ \A j \in 1 .. Len(reg) :
            j \in 1 .. Len(reg') /\ reg'[j].around = reg[j].around /\ reg'[j].to = reg[j].to
      BY <1>7, <2>2 DEF m
    <3>4. HadItsTurn(i) => HadItsTurn(i)'
      BY <1>0, <3>3, TurnStays
    <3>5. Settled(i) => Settled(i)'
      BY <1>0, <1>7, <2>2, <3>1, <3>3, SettledStays DEF Settled
    <3> QED BY <1>7, <1>12, <1>17, <2>2, <3>2, <3>4, <3>5
  <2>3. i \in 1 .. m \/ i = m + 1
    BY <1>1
  <2> QED BY <2>1, <2>2, <2>3
<1>19. LogRight'
  <2>1. \A i \in Elems(log) : i \in 1 .. m + 1
    BY <1>7, <1>13
  <2> QED BY <1>0, <1>7, <2>1 DEF DeferInv, LogRight
<1>20. OrderRight'
  <2> SUFFICES ASSUME NEW i \in 1 .. m + 1, NEW j \in 1 .. m + 1,
                      i < j, i \in Elems(log), j \in Elems(log),
                      D!OwnBlock(i)' \in Elems(reg'[j].around), reg'[i].flushed = "no"
               PROVE  Comes(log, j, i)
    BY <1>0, <1>7 DEF OrderRight
  <2>1. i \in 1 .. m /\ j \in 1 .. m
    BY <1>13
  <2> QED BY <1>7, <1>12, <2>1 DEF DeferInv, OrderRight, m
<1> QED BY <1>10, <1>11, <1>16, <1>18, <1>19, <1>20 DEF DeferInv

\* defer;
LEMMA DeferNowKeeps ==
    ASSUME DeferInv, NEW taken \in BOOLEAN, D!DeferNow(taken)
    PROVE  DeferInv'
<1> DEFINE n == Len(blocks)
           m == Len(reg)
           t == D!Top.defers
           fate == IF running /\ taken THEN "run" ELSE "skipped"
<1>0. DeferTypes /\ D!InFunction /\ opened' = opened /\ visited' = visited
  BY DEF DeferInv, D!DeferNow
<1>1. /\ n \in Nat /\ m \in Nat /\ n \in 1 .. n /\ D!Top = blocks[n]
      /\ \A k \in 1 .. n : blocks[k] \in Block
      /\ \A i \in 1 .. m : reg[i] \in Body
  BY <1>0, TopBlock, DeferElements
<1>2. /\ t \in Seq(Nat)
      /\ \A i \in Elems(t) : Collected(i, n) /\ i \in 1 .. m
  BY <1>0, TopVector
<1>3. /\ blocks' \in Seq(Block) /\ Len(blocks') = n
      /\ \A k \in 1 .. n :
           /\ blocks'[k].id = blocks[k].id /\ blocks'[k].kind = blocks[k].kind
           /\ k # n => blocks'[k].defers = blocks[k].defers
      /\ blocks'[n].defers = <<>>
  <2>1. <<>> \in Seq(Nat)
    BY EmptySeq
  <2>2. blocks' = [blocks EXCEPT ![n].defers = <<>>]
    BY DEF D!DeferNow
  <2> QED BY <1>0, <2>1, <2>2, VectorChanged
<1>4. /\ reg' = [i \in 1 .. m |-> IF i \in Elems(t) THEN [reg[i] EXCEPT !.flushed = fate] ELSE reg[i]]
      /\ fate \in {"run", "skipped"}
  <2>1. D!ToSet(t) = Elems(t)
    BY <1>2, ToSetElems
  <2> QED BY <2>1 DEF D!DeferNow, D!NoteFlush
<1>5. fate = "run" <=> running /\ taken
  OBVIOUS
<1>6. IF running /\ taken THEN D!Execute(D!Emitted(t)) ELSE D!PassBy
  BY DEF D!DeferNow
<1> HIDE DEF n, m, t, fate
<1>7. \A i \in 1 .. m :
        /\ reg'[i] \in Body
        /\ reg'[i].around = reg[i].around
        /\ reg'[i].kind = reg[i].kind /\ reg'[i].to = reg[i].to
        /\ i \in Elems(t) => reg'[i].flushed = fate
        /\ i \notin Elems(t) => reg'[i].flushed = reg[i].flushed
        /\ reg'[i].flushed = "no" => reg[i].flushed = "no" /\ i \notin Elems(t)
  BY <1>1, <1>4 DEF Body
<1>8. reg' \in Seq(Body) /\ Len(reg') = m
  <2>1. PICK f : f = reg'
    OBVIOUS
  <2>2. f \in [1 .. m -> Body]
    BY <1>4, <1>7, <2>1
  <2>3. f \in Seq(Body) /\ Len(f) = m
    BY <1>1, <2>2, FunctionIsSeq
  <2> QED BY <2>1, <2>3
<1>9. /\ log' \in Seq(Nat) /\ LogRight' /\ OrderRight' /\ running' \in BOOLEAN
      /\ \A i \in Elems(log) : i \in Elems(log')
      /\ \A i \in Elems(log') : i \in Elems(log) \/ i \in Elems(t)
      /\ fate = "run" => \A i \in Elems(t) : HadItsTurn(i)'
  <2>1. CASE fate = "run"
    <3>1. D!Execute(D!Emitted(D!Top.defers))
      BY <1>5, <1>6, <2>1 DEF t
    <3>2. /\ log' \in Seq(Nat) /\ LogRight' /\ OrderRight' /\ running' \in BOOLEAN
          /\ \A i \in Elems(log) : i \in Elems(log')
          /\ \A i \in Elems(log') : i \in Elems(log) \/ i \in Elems(t)
          /\ \A i \in Elems(t) : HadItsTurn(i)'
      BY <1>0, <1>7, <1>8, <3>1, ExecuteKeeps DEF m, t
    <3> QED BY <3>2
  <2>2. CASE fate # "run"
    <3>1. log' = log /\ running' = running
      BY <1>5, <1>6, <2>2 DEF D!PassBy
    <3>2. LogRight' /\ OrderRight'
      BY <1>7, <1>8, <3>1, SilentKeeps DEF m
    <3> QED BY <1>0, <2>2, <3>1, <3>2 DEF DeferTypes
  <2> QED BY <2>1, <2>2
<1>10. \A i \in 1 .. m : D!OwnBlock(i)' = D!OwnBlock(i)
  BY <1>7 DEF D!OwnBlock, D!Last
<1>11. DeferTypes'
  BY <1>0, <1>3, <1>8, <1>9 DEF DeferTypes
<1>12. IdsGrow'
  BY <1>0, <1>3 DEF DeferInv, IdsGrow, n
<1>13. ASSUME NEW k \in 1 .. n, k # n, NEW i \in Elems(blocks[k].defers)
       PROVE  i \notin Elems(t) /\ Collected(i, k)
  <2>1. Collected(i, k) /\ k < n
    BY <1>1, <1>13 DEF DeferInv, VectorsRight, n
  <2>2. blocks[k].id < blocks[n].id /\ blocks[k].id \in Nat /\ blocks[n].id \in Nat
    BY <1>1, <2>1 DEF DeferInv, IdsGrow, n, Block
  <2>3. i \in Elems(t) => D!OwnBlock(i) = blocks[n].id
    BY <1>2 DEF Collected
  <2>4. D!OwnBlock(i) = blocks[k].id
    BY <2>1 DEF Collected
  <2>5. i \notin Elems(t)
    BY <2>2, <2>3, <2>4
  <2> QED BY <2>1, <2>5
<1>14. VectorsRight'
  <2> SUFFICES ASSUME NEW k \in 1 .. n
               PROVE  /\ Ascending(blocks'[k].defers)
                      /\ \A i \in Elems(blocks'[k].defers) : Collected(i, k)'
    BY <1>3 DEF VectorsRight
  <2>1. CASE k = n
    <3>1. Elems(<<>>) = {} /\ Ascending(<<>>)
      BY DEF Elems, Ascending
    <3> QED BY <1>3, <2>1, <3>1
  <2>2. CASE k # n
    <3>1. Ascending(blocks'[k].defers)
      BY <1>3, <2>2 DEF DeferInv, VectorsRight, n
    <3>2. ASSUME NEW i \in Elems(blocks'[k].defers) PROVE Collected(i, k)'
      <4>1. i \notin Elems(t) /\ Collected(i, k)
        BY <1>3, <1>13, <2>2, <3>2
      <4>2. i \in 1 .. m
        BY <4>1 DEF Collected, m
      <4>3. i \notin Elems(log')
        BY <1>9, <4>1 DEF Collected
      <4>4. \A l \in 1 .. k : blocks'[l].id = blocks[l].id
        BY <1>1, <1>3
      <4>5. /\ i \in 1 .. Len(reg') /\ reg'[i].around = reg[i].around
            /\ reg'[i].kind = reg[i].kind /\ reg'[i].flushed = "no"
            /\ D!OwnBlock(i)' = D!OwnBlock(i)
        BY <1>7, <1>8, <1>10, <4>1, <4>2 DEF Collected
      <4>6. blocks'[k].id = blocks[k].id /\ blocks'[k].kind = blocks[k].kind
        BY <1>3
      <4>7. \A x \in Elems(reg[i].around) : \E l \in 1 .. k : blocks'[l].id = x
        BY <4>1, <4>4 DEF Collected
      <4> QED BY <4>1, <4>3, <4>5, <4>6, <4>7 DEF Collected
    <3> QED BY <3>1, <3>2
  <2> QED BY <2>1, <2>2
<1>15. Accounted'
  <2> SUFFICES ASSUME NEW i \in 1 .. m
               PROVE  /\ D!OwnBlock(i)' \in Nat /\ D!OwnBlock(i)' <= opened
                      /\ reg'[i].flushed = "run" => HadItsTurn(i)'
                      /\ reg'[i].flushed = "no" => Waits(i)' \/ Settled(i)'
    BY <1>0, <1>8 DEF Accounted
  <2>1. /\ D!OwnBlock(i) \in Nat /\ D!OwnBlock(i) <= opened
        /\ reg[i].flushed = "run" => HadItsTurn(i)
        /\ reg[i].flushed = "no" => Waits(i) \/ Settled(i)
    BY DEF DeferInv, Accounted, m
  <2>a. i \in 1 .. Len(reg) /\ \A j \in 1 .. Len(reg) :
          j \in 1 .. Len(reg') /\ reg'[j].around = reg[j].around /\ reg'[j].to = reg[j].to
    BY <1>7, <1>8 DEF m
  <2>b. HadItsTurn(i) => HadItsTurn(i)'
    BY <1>9, <2>a, TurnStays
  <2>2. reg'[i].flushed = "run" => HadItsTurn(i)'
    BY <1>7, <1>9, <2>1, <2>b
  <2>3. ASSUME i \notin Elems(t), Waits(i) PROVE Waits(i)'
    <3>1. PICK k \in 1 .. n : i \in Elems(blocks[k].defers)
      BY <2>3 DEF Waits, n
    <3>2. k # n
      BY <1>1, <2>3, <3>1 DEF t
    <3> QED BY <1>3, <3>1, <3>2 DEF Waits
  <2>4. D!Left(i) => D!Left(i)'
    BY <1>3, <1>10 DEF D!Left, n
  <2>5. Settled(i) => Settled(i)'
    BY <1>0, <1>7, <1>9, <2>4, <2>a, SettledStays DEF Settled
  <2> QED BY <1>7, <1>10, <2>1, <2>2, <2>3, <2>5
<1> QED BY <1>9, <1>11, <1>12, <1>14, <1>15 DEF DeferInv

\* Every step keeps the invariant.
LEMMA DeferStep == DeferInv /\ [D!Next]_(D!vars) => DeferInv'
<1> SUFFICES ASSUME DeferInv, [D!Next]_(D!vars) PROVE DeferInv'
  OBVIOUS
<1>1. ASSUME NEW kind \in {"block", "expression"}, D!Open(kind) PROVE DeferInv'
  BY <1>1, OpenKeeps DEF Kinds
<1>2. ASSUME NEW to \in 0 .. MaxBlockDepth, D!DeferBody(to) PROVE DeferInv'
  BY <1>2, DeferBodyKeeps
<1>3. ASSUME NEW taken \in BOOLEAN, D!DeferNow(taken) PROVE DeferInv'
  BY <1>3, DeferNowKeeps
<1>4. ASSUME NEW d \in 0 .. MaxBlockDepth, D!Jump(d) PROVE DeferInv'
  BY <1>4, MoveKeeps DEF D!Jump
<1>5. CASE D!Arrive
  BY <1>5, MoveKeeps DEF D!Arrive
<1>6. CASE D!Close
  BY <1>6, CloseKeeps
<1>7. CASE UNCHANGED D!vars
  BY <1>7, MoveKeeps DEF D!vars, DeferInv, DeferTypes
<1> QED BY <1>1, <1>2, <1>3, <1>4, <1>5, <1>6, <1>7 DEF D!Next

\* The inductive invariant of Defer holds in every behaviour.
THEOREM DeferInvHolds == D!Spec => []DeferInv
BY DeferStart, DeferStep, PTL DEF D!Spec

\* Whatever mixture of defer;, jumps and closing braces, a body of a block control
\* has been in, from its opening brace or by a jump into it, has run once the block
\* is left, unless a defer; was jumped over or a body registered later left the
\* block before its turn; and no body runs twice.
THEOREM BodiesRunOnEveryExit == D!Spec => []RunsOnEveryExit
<1>1. DeferInv => RunsOnEveryExit
  <2> SUFFICES ASSUME DeferInv PROVE RunsOnEveryExit
    OBVIOUS
  <2>1. D!ToSet(log) = Elems(log)
    BY ToSetElems DEF DeferInv, DeferTypes
  <2>2. ASSUME NEW i \in 1 .. Len(reg), D!OwnBlock(i) \in visited, reg[i].kind = "block",
               reg[i].flushed # "skipped", D!Left(i)
        PROVE  D!Ran(i) \/ D!CutOff(i)
    <3>1. ~Waits(i)
      BY <2>2 DEF DeferInv, VectorsRight, Waits, Collected, D!Left
    <3>2. reg[i].flushed \in {"no", "run"}
      BY <2>2, DeferElements DEF DeferInv, Body
    <3>3. HadItsTurn(i)
      BY <2>2, <3>1, <3>2 DEF DeferInv, Accounted, Settled
    <3>4. \A j \in 1 .. Len(reg) : i < j <=> j > i
      OBVIOUS
    <3> QED BY <2>1, <3>3, <3>4 DEF HadItsTurn, D!Ran, D!CutOff
  <2>3. \A k, l \in 1 .. Len(log) : log[k] = log[l] => k = l
    BY DEF DeferInv, LogRight, Distinct
  <2> QED BY <2>2, <2>3 DEF RunsOnEveryExit, D!RunsOnEveryExit
<1> QED BY <1>1, DeferInvHolds, PTL

\* Where no defer; interferes, bodies run in the reverse order of registration,
\* across nested blocks.
THEOREM BodiesRunLastFirst == D!Spec => []LastFirst
<1>1. DeferInv => LastFirst
  <2> SUFFICES ASSUME DeferInv PROVE LastFirst
    OBVIOUS
  <2>1. D!ToSet(log) = Elems(log)
    BY ToSetElems DEF DeferInv, DeferTypes
  <2>2. \A j \in 1 .. Len(reg) : D!ToSet(reg[j].around) = Elems(reg[j].around)
    <3>1. \A j \in 1 .. Len(reg) : reg[j].around \in Seq(Nat)
      BY DeferElements DEF DeferInv, Body
    <3> QED BY <3>1, ToSetElems
  <2> QED BY <2>1, <2>2 DEF DeferInv, OrderRight, Comes, LastFirst, D!LastFirst, D!Ran, D!RunsBefore
<1> QED BY <1>1, DeferInvHolds, PTL
=============================================================================
