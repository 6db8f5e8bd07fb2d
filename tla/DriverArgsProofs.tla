-------------------------- MODULE DriverArgsProofs --------------------------
(***************************************************************************)
(* DriverArgs for every set of command lines: the array allocated after    *)
(* the first pass over argv holds everything the second pass stores, the   *)
(* last -libc option decides everything that depends on the libc, and the  *)
(* user's arguments keep their places, neighbours and languages.           *)
(***************************************************************************)
EXTENDS DriverArgs, SequenceTheorems, WellFoundedInduction, TLAPS

State == [n : Nat, skip : BOOLEAN]

\* What an argument does to the counters, in either pass.
After(s, arg) ==
    IF arg \in LibcArgs THEN s
    ELSE [n |-> s.n + 1 + Extra(arg, s.skip), skip |-> SkipAfter(arg, s.skip)]

StdArgs == IF needstd THEN 1 ELSE 0

\* The history of the first pass: every entry follows from the one before, and
\* the counts never go down.
History ==
    /\ need \in Seq(State)
    /\ \A k \in 1 .. Len(need) - 1 : k <= Len(argv) /\ need[k + 1] = After(need[k], argv[k])
    /\ \A j, k \in 1 .. Len(need) : j <= k => need[j].n <= need[k].n
    /\ need # <<>> => need[1].skip = FALSE

\* Nothing is counted before the first pass.
Choosing == at = "libc" => nuser = 0 /\ wrap_extra = 0 /\ skip_next = FALSE

\* Where the first pass stands in that history,
Counting ==
    at = "count" =>
        /\ Len(need) = a
        /\ need[a].n = nuser + wrap_extra
        /\ need[a].skip = skip_next

\* and where the second one does.
Filling ==
    at = "fill" =>
        /\ Len(need) = Len(argv) + 1
        /\ need[Len(need)].n = nuser + wrap_extra
        /\ need[a].skip = skip_next
        /\ size = 17 + StdArgs + nuser + wrap_extra
        /\ Len(args) <= 12 + StdArgs + need[a].n

IInv ==
    /\ ArgsTypeOK /\ History
    /\ Choosing /\ Counting /\ Filling
    /\ (at = "exec" => ArgsFit)

\* Items main makes itself, and those of the user.
LEMMA ItemTypes ==
    ASSUME ArgsTypeOK
    PROVE  /\ Own(Sysroot) \in Items
           /\ \A x \in {"xgcc", "tool", "-static", "-static-libgcc", "ld-musl", "ld-linux",
                        "-std=czet", "-x", "c", "none", "utils"} : Own(x) \in Items
           /\ \A k \in 1 .. Len(argv) : User(k) \in Items
<1>1. Sysroot \in {"musl", "glibc", "/dir"}
    BY DEF ArgsTypeOK, Sysroot
<1>2. \A k \in 1 .. Len(argv) : argv[k] \in Kinds
    BY DEF ArgsTypeOK
<1>3. 0 \in Nat /\ \A k \in 1 .. Len(argv) : k \in Nat
    BY DEF ArgsTypeOK
<1> QED BY <1>1, <1>2, <1>3 DEF Own, User, Items

\* The start of main.
LEMMA InitHolds == ArgsInit => IInv
<1> SUFFICES ASSUME ArgsInit PROVE IInv
    OBVIOUS
<1>1. ArgsTypeOK
  <2>1. argv \in Seq(Kinds)
      BY ArgvsAssumption DEF ArgsInit
  <2>2. Len(argv) \in Nat
      BY <2>1
  <2>3. a \in 1 .. Len(argv) + 1
      BY <2>2 DEF ArgsInit
  <2>4. args \in Seq(Items)
      BY DEF ArgsInit
  <2> QED BY <2>1, <2>3, <2>4 DEF ArgsInit, ArgsTypeOK
<1>2. History
    BY DEF ArgsInit, History
<1> QED BY <1>1, <1>2 DEF ArgsInit, IInv, Choosing, Counting, Filling

\* One argument of the first pass.
LEMMA CountKeeps ==
    ASSUME IInv, Count
    PROVE  IInv'
<1> DEFINE new == [n |-> nuser' + wrap_extra', skip |-> skip_next']
<1>1. /\ at = "count" /\ a \in 1 .. Len(argv) /\ Arg \notin LibcArgs
      /\ Len(need) = a /\ need \in Seq(State) /\ need[a] \in State
      /\ need[a].n = nuser + wrap_extra /\ need[a].skip = skip_next
    BY DEF IInv, ArgsTypeOK, Counting, History, Count, More
<1>2. Extra(Arg, skip_next) \in Nat
    BY DEF Extra
<1>3. /\ nuser' = nuser + 1 /\ wrap_extra' = wrap_extra + Extra(Arg, skip_next)
      /\ skip_next' = SkipAfter(Arg, skip_next)
      /\ need' = Append(need, new)
    BY DEF Count
<1>4. new \in State /\ new.n = need[a].n + 1 + Extra(Arg, skip_next)
    BY <1>1, <1>2, <1>3, SMTT(30) DEF IInv, ArgsTypeOK, State, SkipAfter
<1>5. new = After(need[a], argv[a])
    BY <1>1, <1>2, <1>3 DEF After, Arg, IInv, ArgsTypeOK
<1> HIDE DEF new
<1>6. /\ need' \in Seq(State) /\ Len(need') = a + 1
      /\ need'[a + 1] = new
      /\ \A k \in 1 .. a : need'[k] = need[k]
    BY <1>1, <1>3, <1>4
<1>7. History'
  <2>1. argv' = argv
      BY DEF Count
  <2>2. \A k \in 1 .. a : k <= Len(argv) /\ need'[k + 1] = After(need'[k], argv[k])
    <3> SUFFICES ASSUME NEW k \in 1 .. a
                 PROVE  k <= Len(argv) /\ need'[k + 1] = After(need'[k], argv[k])
        OBVIOUS
    <3>1. CASE k = a
        BY <3>1, <1>1, <1>5, <1>6
    <3>2. CASE k # a
      <4>1. k \in 1 .. a - 1 /\ k + 1 \in 1 .. a
          BY <3>2, <1>1
      <4>2. k <= Len(argv) /\ need[k + 1] = After(need[k], argv[k])
          BY <4>1, <1>1 DEF IInv, History
      <4> QED BY <4>1, <4>2, <1>6
    <3> QED BY <3>1, <3>2
  <2>3. ASSUME NEW j \in 1 .. a + 1, NEW k \in 1 .. a + 1, j <= k
        PROVE  need'[j].n <= need'[k].n
    <3>1. CASE k = a + 1 /\ j = a + 1
        BY <3>1, <1>4, <1>6 DEF State
    <3>2. CASE k = a + 1 /\ j # a + 1
      <4>1. j \in 1 .. a /\ a \in 1 .. a /\ j <= a
          BY <3>2, <1>1
      <4>2. need[j].n <= need[a].n /\ need[j] \in State
          BY <4>1, <1>1 DEF IInv, History
      <4> QED BY <3>2, <4>1, <4>2, <1>1, <1>2, <1>4, <1>6 DEF State
    <3>3. CASE k # a + 1
      <4>1. j \in 1 .. a /\ k \in 1 .. a
          BY <3>3, <2>3, <1>1
      <4>2. need[j].n <= need[k].n
          BY <4>1, <2>3, <1>1 DEF IInv, History
      <4> QED BY <4>1, <4>2, <1>6
    <3> QED BY <3>1, <3>2, <3>3
  <2>4. (a + 1) - 1 = a
      BY <1>1
  <2>5. need'[1].skip = FALSE
      BY <1>1, <1>6 DEF IInv, History
  <2> QED BY <2>1, <2>2, <2>3, <2>4, <2>5, <1>6 DEF History
<1>8. Counting'
    BY <1>6 DEF Counting, Count, new
<1>9. ArgsTypeOK'
    BY <1>1, <1>2 DEF IInv, ArgsTypeOK, Count, SkipAfter, choice
<1> QED BY <1>1, <1>7, <1>8, <1>9 DEF IInv, Choosing, Filling, Count

\* The first loop, and the arguments both passes skip.
LEMMA ChooseKeeps ==
    ASSUME IInv, Choose \/ Chosen
    PROVE  IInv'
<1>1. CASE Choose
  <2>1. libc' \in {"musl", "glibc", "/dir"} /\ (libc' = "/dir" => lcroot')
      BY <1>1 DEF IInv, ArgsTypeOK, Choose, Named, LibcArgs
  <2>3. lcroot' \in BOOLEAN
      BY <1>1 DEF Choose
  <2>4. ArgsTypeOK'
      BY <1>1, <2>1, <2>3 DEF IInv, ArgsTypeOK, Choose, More, counted
  <2>2. History'
      BY <1>1 DEF IInv, Choose, History
  <2> QED BY <1>1, <2>4, <2>2 DEF IInv, Choose, Choosing, Counting, Filling, counted
<1>2. CASE Chosen
  <2>1. ArgsTypeOK'
      BY <1>2 DEF IInv, ArgsTypeOK, Chosen, More, counted
  <2> DEFINE first == [n |-> 0, skip |-> FALSE]
  <2>2. first \in State /\ first.n = 0 /\ first.skip = FALSE
      BY DEF State
  <2>3. need' = <<first>>
      BY <1>2 DEF Chosen
  <2> HIDE DEF first
  <2>4. History'
      BY <2>2, <2>3 DEF History, State
  <2>5. Counting'
    <3>1. Len(need') = 1 /\ need'[1].n = 0 /\ need'[1].skip = FALSE
        BY <2>2, <2>3
    <3>2. a' = 1 /\ nuser' = 0 /\ wrap_extra' = 0 /\ skip_next' = FALSE
        BY <1>2 DEF IInv, Choosing, Chosen, counted
    <3>3. nuser' + wrap_extra' = 0
        BY <3>2
    <3> QED BY <3>1, <3>2, <3>3, Zenon DEF Counting
  <2> QED BY <1>2, <2>1, <2>4, <2>5 DEF IInv, Chosen, Choosing, Filling
<1> QED BY <1>1, <1>2

\* A -libc option leaves both passes where they are.
LEMMA SkippedKeeps ==
    ASSUME IInv, CountSkipped \/ FillSkipped
    PROVE  IInv'
<1>1. CASE CountSkipped
  <2>1. /\ at = "count" /\ a \in 1 .. Len(argv) /\ argv[a] \in LibcArgs
        /\ Len(need) = a /\ need \in Seq(State) /\ need[a] \in State
        /\ need[a].n = nuser + wrap_extra /\ need[a].skip = skip_next
      BY <1>1 DEF IInv, ArgsTypeOK, Counting, History, CountSkipped, More, Arg
  <2>2. /\ need' \in Seq(State) /\ Len(need') = a + 1 /\ need'[a + 1] = need[a]
        /\ \A k \in 1 .. a : need'[k] = need[k]
      BY <1>1, <2>1 DEF CountSkipped
  <2>3. ArgsTypeOK'
      BY <1>1, <2>1 DEF IInv, ArgsTypeOK, CountSkipped, choice, counted
  <2>4. History'
    <3>1. argv' = argv /\ (a + 1) - 1 = a
        BY <1>1, <2>1 DEF CountSkipped
    <3>2. ASSUME NEW k \in 1 .. a
          PROVE  k <= Len(argv) /\ need'[k + 1] = After(need'[k], argv[k])
      <4>1. CASE k = a
          BY <4>1, <2>1, <2>2 DEF After
      <4>2. CASE k # a
        <5>1. k \in 1 .. a - 1 /\ k + 1 \in 1 .. a
            BY <4>2, <2>1
        <5>2. k <= Len(argv) /\ need[k + 1] = After(need[k], argv[k])
            BY <5>1, <2>1 DEF IInv, History
        <5> QED BY <5>1, <5>2, <2>2
      <4> QED BY <4>1, <4>2
    <3>3. ASSUME NEW j \in 1 .. a + 1, NEW k \in 1 .. a + 1, j <= k
          PROVE  need'[j].n <= need'[k].n
      <4> DEFINE old(i) == IF i = a + 1 THEN a ELSE i
      <4>1. old(j) \in 1 .. a /\ old(k) \in 1 .. a /\ old(j) <= old(k)
          BY <3>3, <2>1
      <4>2. need'[j] = need[old(j)] /\ need'[k] = need[old(k)]
          BY <2>1, <2>2
      <4> HIDE DEF old
      <4>3. need[old(j)].n <= need[old(k)].n
          BY <4>1, <2>1 DEF IInv, History
      <4> QED BY <4>2, <4>3
    <3>4. need'[1].skip = FALSE
        BY <2>1, <2>2 DEF IInv, History
    <3> QED BY <3>1, <3>2, <3>3, <3>4, <2>2 DEF History
  <2>5. Counting'
      BY <1>1, <2>1, <2>2 DEF Counting, CountSkipped, counted
  <2> QED BY <1>1, <2>3, <2>4, <2>5 DEF IInv, CountSkipped, Choosing, Filling
<1>2. CASE FillSkipped
  <2>1. /\ at = "fill" /\ a \in 1 .. Len(argv) /\ argv[a] \in LibcArgs
        /\ Len(need) = Len(argv) + 1
      BY <1>2 DEF IInv, ArgsTypeOK, Filling, FillSkipped, More, Arg
  <2>2. need[a + 1] = need[a]
    <3>1. a \in 1 .. Len(need) - 1
        BY <2>1 DEF IInv, ArgsTypeOK
    <3>2. need[a + 1] = After(need[a], argv[a])
        BY <3>1 DEF IInv, History
    <3> QED BY <2>1, <3>2 DEF After
  <2>3. ArgsTypeOK'
      BY <1>2, <2>1 DEF IInv, ArgsTypeOK, FillSkipped, choice, counted
  <2>4. History'
      BY <1>2 DEF IInv, FillSkipped, History
  <2>5. Filling'
      BY <1>2, <2>1, <2>2 DEF IInv, Filling, FillSkipped, StdArgs, counted
  <2> QED BY <1>2, <2>3, <2>4, <2>5 DEF IInv, FillSkipped, Choosing, Counting
<1> QED BY <1>1, <1>2

\* The array is allocated and its first part written.
LEMMA AllocKeeps ==
    ASSUME IInv, Alloc
    PROVE  IInv'
<1>1. /\ Toolchain \in Seq(Items) /\ Len(Toolchain) = 10
      /\ Linking \in Seq(Items) /\ Len(Linking) <= 2
      /\ Dialect \in Seq(Items) /\ Len(Dialect) = StdArgs
  <2>1. ArgsTypeOK
      BY DEF IInv
  <2>2. /\ Own(Sysroot) \in Items /\ Own("xgcc") \in Items /\ Own("tool") \in Items
        /\ Own("-static") \in Items /\ Own("-static-libgcc") \in Items
        /\ Own("ld-musl") \in Items /\ Own("ld-linux") \in Items /\ Own("-std=czet") \in Items
      BY <2>1, ItemTypes, Zenon
  <2>3. Toolchain \in Seq(Items) /\ Len(Toolchain) = 10
      BY <2>2 DEF Toolchain
  <2>4. Dialect \in Seq(Items) /\ Len(Dialect) = StdArgs
      BY <2>2 DEF Dialect, StdArgs
  <2>5. Own(Loader(libc)) \in Items
      BY <2>2 DEF Loader
  <2>6. Linking \in Seq(Items) /\ Len(Linking) <= 2
      BY <2>2, <2>5 DEF Linking
  <2> QED BY <2>3, <2>4, <2>6
<1>2. /\ at = "count" /\ a = Len(argv) + 1 /\ Len(argv) \in Nat
      /\ Len(need) = a /\ need \in Seq(State)
      /\ need[a].n = nuser + wrap_extra /\ need[1].skip = FALSE /\ need[1] \in State
  <2>1. Len(argv) \in Nat /\ a \in 1 .. Len(argv) + 1
      BY DEF IInv, ArgsTypeOK
  <2>2. at = "count" /\ a = Len(argv) + 1
      BY <2>1 DEF Alloc, More
  <2>3. Len(need) = a /\ need \in Seq(State) /\ need[a].n = nuser + wrap_extra
      BY <2>2 DEF IInv, History, Counting
  <2>4. need # <<>> /\ need[1] \in State
      BY <2>1, <2>3
  <2> QED BY <2>1, <2>2, <2>3, <2>4 DEF IInv, History
<1>3. size' = 17 + StdArgs + nuser + wrap_extra
    BY DEF Alloc, Size, StdArgs, IInv, ArgsTypeOK
<1>4. args' \in Seq(Items) /\ Len(args') <= 12 + StdArgs
  <2>1. args' = (Toolchain \o Linking) \o Dialect
      BY DEF Alloc
  <2>2. /\ Toolchain \o Linking \in Seq(Items)
        /\ Len(Toolchain \o Linking) = 10 + Len(Linking)
    <3>1. Len(Toolchain \o Linking) = Len(Toolchain) + Len(Linking)
        BY <1>1, ConcatProperties
    <3>2. Toolchain \o Linking \in Seq(Items)
        BY <1>1, ConcatProperties
    <3> QED BY <1>1, <3>1, <3>2
  <2>3. /\ (Toolchain \o Linking) \o Dialect \in Seq(Items)
        /\ Len((Toolchain \o Linking) \o Dialect) = 10 + Len(Linking) + StdArgs
      BY <1>1, <2>2, ConcatProperties
  <2>4. Len(Linking) \in Nat /\ StdArgs \in Nat
      BY <1>1 DEF StdArgs
  <2> QED BY <1>1, <2>1, <2>3, <2>4
<1>5. ArgsTypeOK'
  <2>1. size' \in Nat
      BY <1>3 DEF IInv, ArgsTypeOK, StdArgs
  <2>2. a' \in 1 .. Len(argv) + 1
      BY <1>2 DEF Alloc
  <2>3. skip_next' \in BOOLEAN
      BY Zenon DEF Alloc
  <2> QED BY <1>4, <2>1, <2>2, <2>3 DEF IInv, ArgsTypeOK, Alloc, choice, counted
<1>6. History'
    BY DEF IInv, Alloc, History
<1>7. Filling'
  <2>1. /\ UNCHANGED <<argv, need, nuser, wrap_extra, needstd>>
        /\ a' = 1 /\ skip_next' = FALSE
      BY DEF Alloc, counted
  <2>2. StdArgs' = StdArgs /\ StdArgs \in Nat
      BY <2>1 DEF StdArgs
  <2>3. Len(args') <= 12 + StdArgs + need[1].n
      BY <1>2, <1>4, <2>2 DEF State
  <2> QED BY <1>2, <1>3, <2>1, <2>2, <2>3 DEF Filling
<1> QED BY <1>5, <1>6, <1>7 DEF IInv, Alloc, Choosing, Counting

\* One argument of the second pass takes what the first one counted for it.
LEMMA FillKeeps ==
    ASSUME IInv, Fill
    PROVE  IInv'
<1>1. /\ at = "fill" /\ a \in 1 .. Len(argv) /\ Arg \notin LibcArgs
      /\ Len(need) = Len(argv) + 1 /\ need[a] \in State
      /\ need[a].skip = skip_next
      /\ Len(args) <= 12 + StdArgs + need[a].n
    BY DEF IInv, ArgsTypeOK, Filling, History, Fill, More
<1>2. need[a + 1] = After(need[a], argv[a])
    BY <1>1 DEF IInv, ArgsTypeOK, History
<1>3. /\ need[a + 1].n = need[a].n + 1 + Extra(Arg, skip_next)
      /\ need[a + 1].skip = SkipAfter(Arg, skip_next)
    BY <1>1, <1>2 DEF After, Arg
<1>4. Stored \in Seq(Items) /\ Len(Stored) = 1 + Extra(Arg, skip_next)
  <2>1. ArgsTypeOK
      BY DEF IInv
  <2>2. /\ Own("-x") \in Items /\ Own("c") \in Items /\ Own("none") \in Items
        /\ User(a) \in Items
      BY <1>1, <2>1, ItemTypes, Zenon
  <2> QED BY <2>2 DEF Stored, Extra
<1>5. args' \in Seq(Items) /\ Len(args') = Len(args) + Len(Stored)
  <2>1. args' = args \o Stored
      BY DEF Fill
  <2>2. args \in Seq(Items)
      BY DEF IInv, ArgsTypeOK
  <2> QED BY <1>4, <2>1, <2>2, ConcatProperties
<1>6. ArgsTypeOK'
    BY <1>1, <1>5 DEF IInv, ArgsTypeOK, Fill, choice, counted, SkipAfter
<1>7. History'
    BY DEF IInv, Fill, History
<1>8. StdArgs \in Nat /\ StdArgs' = StdArgs /\ Extra(Arg, skip_next) \in Nat /\ Len(args) \in Nat
    BY DEF StdArgs, Fill, counted, Extra, IInv, ArgsTypeOK
<1>9. Len(args') <= 12 + StdArgs' + need[a + 1].n
  <2>1. PICK x, e, l, c : /\ x = need[a].n /\ e = Extra(Arg, skip_next) /\ l = Len(args)
                          /\ c = StdArgs
      OBVIOUS
  <2>2. x \in Nat /\ e \in Nat /\ l \in Nat /\ c \in Nat /\ l <= 12 + c + x
      BY <1>1, <1>8, <2>1 DEF State
  <2>3. Len(args') = l + (1 + e) /\ need[a + 1].n = x + 1 + e /\ StdArgs' = c
      BY <1>3, <1>4, <1>5, <1>8, <2>1, Zenon
  <2>4. l + (1 + e) <= 12 + c + (x + 1 + e)
      BY <2>2
  <2> QED BY <2>3, <2>4
<1>10. Filling'
    BY <1>1, <1>3, <1>8, <1>9 DEF IInv, Filling, Fill, counted
<1> QED BY <1>6, <1>7, <1>10 DEF IInv, Fill, Choosing, Counting

\* Before and after the last two stores there is room.
LEMMA FilledFits == IInv => ArgsFit /\ (at = "fill" => Len(args) + 3 <= size)
<1> SUFFICES ASSUME IInv, at = "fill" PROVE Len(args) + 3 <= size
    BY DEF IInv, ArgsFit, ArgsTypeOK
<1>1. a \in 1 .. Len(need) /\ Len(need) \in 1 .. Len(need) /\ a <= Len(need)
    BY DEF IInv, ArgsTypeOK, Filling
<1>2. need[a].n <= need[Len(need)].n
    BY <1>1 DEF IInv, History
<1>3. need[a] \in State /\ StdArgs \in Nat /\ Len(args) \in Nat
    BY <1>1 DEF IInv, ArgsTypeOK, History, StdArgs
<1> QED BY <1>2, <1>3 DEF IInv, ArgsTypeOK, Filling, State

\* The last stores.
LEMMA ExecKeeps ==
    ASSUME IInv, Exec
    PROVE  IInv'
<1>1. at = "fill" /\ ArgsTypeOK /\ Len(args) \in Nat /\ args \in Seq(Items)
    BY DEF IInv, ArgsTypeOK, Exec
<1>2. Len(args) + 3 <= size
    BY <1>1, FilledFits
<1>3. Own("utils") \in Items
    BY <1>1, ItemTypes, Zenon
<1>4. args' \in Seq(Items) /\ Len(args') <= Len(args) + 1
    BY <1>1, <1>3 DEF Exec
<1>5. ArgsTypeOK'
    BY <1>1, <1>4 DEF ArgsTypeOK, Exec, choice, counted
<1>6. History'
    BY DEF IInv, Exec, History
<1>7. ArgsFit'
    BY <1>1, <1>2, <1>4 DEF ArgsFit, Exec, ArgsTypeOK
<1> QED BY <1>5, <1>6, <1>7 DEF IInv, Exec, Choosing, Counting, Filling

\* Every step of main, and the end of it.
LEMMA NextKeeps == IInv /\ [ArgsNext]_argVars => IInv'
<1> SUFFICES ASSUME IInv, [ArgsNext]_argVars PROVE IInv'
    OBVIOUS
<1>1. CASE Choose \/ Chosen
    BY <1>1, ChooseKeeps
<1>2. CASE CountSkipped \/ FillSkipped
    BY <1>2, SkippedKeeps
<1>3. CASE Count
    BY <1>3, CountKeeps
<1>4. CASE Alloc
    BY <1>4, AllocKeeps
<1>5. CASE Fill
    BY <1>5, FillKeeps
<1>6. CASE Exec
    BY <1>6, ExecKeeps
<1>7. CASE UNCHANGED argVars
  <2>1. UNCHANGED <<argv, at, a, libc, lcroot, nuser, needstd, is_static, wrap_extra,
                    skip_next, size, args, need>>
      BY <1>7 DEF argVars, choice, counted
  <2>2. ArgsTypeOK'
      BY <2>1 DEF IInv, ArgsTypeOK
  <2>3. History'
      BY <2>1 DEF IInv, History
  <2>4. Choosing' /\ Counting' /\ Filling'
      BY <2>1 DEF IInv, Choosing, Counting, Filling, StdArgs
  <2> QED BY <2>1, <2>2, <2>3, <2>4 DEF IInv, ArgsFit
<1> QED BY <1>1, <1>2, <1>3, <1>4, <1>5, <1>6, <1>7 DEF ArgsNext

\* The invariant holds in every state main reaches.
LEMMA Invariance == ArgsSpec => []IInv
BY InitHolds, NextKeeps, PTL DEF ArgsSpec

\* main keeps the types of its variables; in particular libc is a path only
\* after an option that also set lcroot.
THEOREM TypeCorrect == ArgsSpec => []ArgsTypeOK
<1>1. IInv => ArgsTypeOK
    BY DEF IInv
<1> QED BY <1>1, Invariance, PTL

\* For every command line, of any length, the array main asks of calloc after
\* its first pass holds what the second pass stores, the final NULL included:
\* the two passes agree on every argument skipped, wrapped or following an -o.
THEOREM ArgsAlwaysFit == ArgsSpec => []ArgsFit
BY FilledFits, Invariance, PTL

-----------------------------------------------------------------------------
\* The arguments the first loop has looked at.
Seen == IF at = "libc" THEN a - 1 ELSE Len(argv)

\* libc is what the last option among them says, and lcroot whether one of them
\* was a path.
ChoiceRight ==
    /\ \/ libc = "musl" /\ \A k \in 1 .. Seen : argv[k] \notin LibcArgs
       \/ \E k \in 1 .. Seen :
            /\ argv[k] \in LibcArgs /\ libc = Named(argv[k])
            /\ \A j \in 1 .. Seen : argv[j] \in LibcArgs => j <= k
    /\ lcroot <=> \E k \in 1 .. Seen : argv[k] = "-libc=/dir"

ScriptRight == at # "libc" => script = IF libc = "glibc" THEN Sysroot ELSE "none"

\* main itself stored the argument x in s.
Has(s, x) == \E p \in 1 .. Len(s) : s[p] = Own(x)

\* The arguments of main that depend on the libc.
Marks == {"-static", "ld-musl", "ld-linux", "utils"}
MarksRight ==
    at \in {"fill", "exec"} =>
        /\ Has(args, "-static") <=> is_static
        /\ Has(args, "ld-musl") <=> ~is_static /\ libc = "musl"
        /\ Has(args, "ld-linux") <=> ~is_static /\ libc = "glibc"
        /\ Has(args, "utils") <=> at = "exec" /\ ~lcroot

LibcInv == ChoiceRight /\ ScriptRight /\ MarksRight

\* What main stored in two parts, one after the other.
LEMMA HasConcat ==
    ASSUME NEW s \in Seq(Items), NEW t \in Seq(Items), NEW x
    PROVE  s \o t \in Seq(Items) /\ (Has(s \o t, x) <=> Has(s, x) \/ Has(t, x))
<1> DEFINE r == s \o t
           m == Len(s)
           n == Len(t)
<1>1. /\ m \in Nat /\ n \in Nat /\ r \in Seq(Items) /\ Len(r) = m + n
      /\ \A p \in 1 .. m + n : r[p] = IF p <= m THEN s[p] ELSE t[p - m]
    BY ConcatProperties, LenProperties
<1> HIDE DEF r, m, n
<1>2. ASSUME NEW p \in 1 .. m + n, r[p] = Own(x) PROVE Has(s, x) \/ Has(t, x)
  <2>1. CASE p <= m
    <3>1. p \in 1 .. m /\ s[p] = Own(x)
        BY <1>1, <1>2, <2>1
    <3> QED BY <3>1 DEF Has, m
  <2>2. CASE ~(p <= m)
    <3>1. p - m \in 1 .. n /\ t[p - m] = Own(x)
        BY <1>1, <1>2, <2>2
    <3> QED BY <3>1 DEF Has, n
  <2> QED BY <2>1, <2>2
<1>3. ASSUME NEW p \in 1 .. m, s[p] = Own(x) PROVE Has(r, x)
  <2>1. p \in 1 .. m + n /\ r[p] = Own(x)
      BY <1>1, <1>3
  <2> QED BY <1>1, <2>1 DEF Has
<1>4. ASSUME NEW p \in 1 .. n, t[p] = Own(x) PROVE Has(r, x)
  <2>1. m + p \in 1 .. m + n /\ ~(m + p <= m) /\ (m + p) - m = p
      BY <1>1
  <2>2. r[m + p] = t[p]
      BY <1>1, <2>1
  <2> QED BY <1>1, <1>4, <2>1, <2>2 DEF Has
<1>5. Has(r, x) => Has(s, x) \/ Has(t, x)
    BY <1>1, <1>2 DEF Has
<1>6. Has(s, x) \/ Has(t, x) => Has(r, x)
    BY <1>3, <1>4 DEF Has, m, n
<1> QED BY <1>1, <1>5, <1>6 DEF r

\* An empty part, and one of a single argument.
LEMMA HasFew ==
    ASSUME NEW x, NEW y
    PROVE  ~Has(<<>>, x) /\ (Has(<<Own(y)>>, x) <=> y = x)
<1>1. Own(y) = Own(x) <=> y = x
    BY DEF Own
<1> QED BY <1>1 DEF Has

\* The loop over the -libc options, and its end.
LEMMA ChoosingLibc ==
    ASSUME IInv, LibcInv, Choose \/ Chosen
    PROVE  LibcInv'
<1>0. Len(argv) \in Nat /\ a \in 1 .. Len(argv) + 1 /\ at = "libc" /\ Seen = a - 1
    BY DEF IInv, ArgsTypeOK, Choose, Chosen, Seen
<1>1. CASE Choose
  <2>1. a \in 1 .. Len(argv) /\ a' = a + 1 /\ argv' = argv /\ at' = "libc" /\ Seen' = a
      BY <1>0, <1>1 DEF Choose, More, Seen
  <2>2. \A k : k \in 1 .. a <=> k \in 1 .. a - 1 \/ k = a
      BY <2>1
  <2>3. lcroot' <=> \E k \in 1 .. a : argv[k] = "-libc=/dir"
      BY <1>0, <1>1, <2>2 DEF LibcInv, ChoiceRight, Choose, Arg
  <2>4. \/ libc' = "musl" /\ \A k \in 1 .. a : argv[k] \notin LibcArgs
        \/ \E k \in 1 .. a :
             /\ argv[k] \in LibcArgs /\ libc' = Named(argv[k])
             /\ \A j \in 1 .. a : argv[j] \in LibcArgs => j <= k
    <3>1. CASE argv[a] \in LibcArgs
      <4>1. libc' = Named(argv[a]) /\ a \in 1 .. a /\ \A j \in 1 .. a : j <= a
          BY <1>1, <2>1, <3>1 DEF Choose, Arg
      <4> QED BY <3>1, <4>1
    <3>2. CASE argv[a] \notin LibcArgs
      <4>1. libc' = libc
          BY <1>1, <3>2 DEF Choose, Arg
      <4> QED BY <1>0, <2>2, <3>2, <4>1 DEF LibcInv, ChoiceRight
    <3> QED BY <3>1, <3>2
  <2>5. ChoiceRight'
      BY <2>1, <2>3, <2>4 DEF ChoiceRight
  <2> QED BY <2>1, <2>5 DEF LibcInv, ScriptRight, MarksRight
<1>2. CASE Chosen
  <2>1. Seen' = Seen /\ UNCHANGED <<argv, libc, lcroot>> /\ at' = "count"
      BY <1>0, <1>2 DEF Chosen, More, Seen
  <2>2. ChoiceRight'
      BY <2>1 DEF LibcInv, ChoiceRight
  <2>3. ScriptRight'
      BY <1>2, <2>1 DEF ScriptRight, Chosen, Sysroot
  <2> QED BY <2>1, <2>2, <2>3 DEF LibcInv, MarksRight
<1> QED BY <1>1, <1>2

\* Nothing after that loop changes the choice.
LEMMA ChoiceStays ==
    ASSUME LibcInv, UNCHANGED <<argv, choice>>, at # "libc", at' # "libc"
    PROVE  ChoiceRight' /\ ScriptRight'
<1>1. Seen' = Seen /\ Sysroot' = Sysroot /\ UNCHANGED <<argv, libc, lcroot, script>>
    BY DEF Seen, Sysroot, choice
<1> QED BY <1>1 DEF LibcInv, ChoiceRight, ScriptRight

\* What the first part of the array holds.
LEMMA AllocMarks ==
    ASSUME IInv, LibcInv, Alloc
    PROVE  LibcInv'
<1>0. ArgsTypeOK /\ UNCHANGED <<argv, choice, is_static>> /\ at = "count" /\ at' = "fill"
    BY DEF IInv, Alloc, counted
<1>1. ChoiceRight' /\ ScriptRight'
    BY <1>0, ChoiceStays
<1>2. /\ Own(Sysroot) \in Items /\ Own("xgcc") \in Items /\ Own("tool") \in Items
      /\ Own("-static") \in Items /\ Own("-static-libgcc") \in Items
      /\ Own("ld-musl") \in Items /\ Own("ld-linux") \in Items /\ Own("-std=czet") \in Items
    BY <1>0, ItemTypes, Zenon
<1>3. /\ Toolchain \in Seq(Items)
      /\ \A x \in Marks : ~Has(Toolchain, x)
  <2>1. Toolchain \in Seq(Items) /\ Len(Toolchain) = 10
      BY <1>2 DEF Toolchain
  <2>2. \A p \in 1 .. 10 : Toolchain[p] \in {Own("xgcc"), Own("tool"), Own(Sysroot)}
      BY DEF Toolchain
  <2>3. Sysroot \in {"musl", "glibc", "/dir"}
      BY <1>0 DEF ArgsTypeOK, Sysroot
  <2>4. \A p \in 1 .. 10 : Toolchain[p].arg \in {"xgcc", "tool", "musl", "glibc", "/dir"}
      BY <2>2, <2>3 DEF Own
  <2>5. \A x \in Marks : Own(x).arg = x /\ x \notin {"xgcc", "tool", "musl", "glibc", "/dir"}
      BY DEF Own, Marks
  <2> QED BY <2>1, <2>4, <2>5 DEF Has
<1>4. /\ Dialect \in Seq(Items)
      /\ \A x \in Marks : ~Has(Dialect, x)
  <2>1. Dialect = <<Own("-std=czet")>> \/ Dialect = <<>>
      BY DEF Dialect
  <2>2. \A x \in Marks : x # "-std=czet"
      BY DEF Marks
  <2>3. <<Own("-std=czet")>> \in Seq(Items) /\ <<>> \in Seq(Items)
      BY <1>2, EmptySeq
  <2>4. \A x : ~Has(<<>>, x) /\ (Has(<<Own("-std=czet")>>, x) <=> "-std=czet" = x)
      BY HasFew
  <2> QED BY <2>1, <2>2, <2>3, <2>4
<1>5. /\ Linking \in Seq(Items)
      /\ Has(Linking, "-static") <=> is_static
      /\ Has(Linking, "ld-musl") <=> ~is_static /\ libc = "musl"
      /\ Has(Linking, "ld-linux") <=> ~is_static /\ libc = "glibc"
      /\ ~Has(Linking, "utils")
  <2>1. CASE is_static
    <3>1. Linking = <<Own("-static")>>
        BY <2>1 DEF Linking
    <3>2. <<Own("-static")>> \in Seq(Items)
        BY <1>2
    <3>3. \A x : Has(<<Own("-static")>>, x) <=> "-static" = x
        BY HasFew
    <3> QED BY <2>1, <3>1, <3>2, <3>3
  <2>2. CASE ~is_static
    <3> DEFINE one == <<Own("-static-libgcc")>>
               two == IF libc \in {"musl", "glibc"} THEN <<Own(Loader(libc))>> ELSE <<>>
    <3>1. Linking = one \o two
        BY <2>2 DEF Linking
    <3>2. one \in Seq(Items) /\ \A x : Has(one, x) <=> "-static-libgcc" = x
        BY <1>2, HasFew
    <3>3. /\ two \in Seq(Items)
          /\ \A x : Has(two, x) <=> \/ libc = "musl" /\ x = "ld-musl"
                                    \/ libc = "glibc" /\ x = "ld-linux"
      <4>1. CASE libc = "musl"
        <5>1. two = <<Own("ld-musl")>>
            BY <4>1 DEF Loader
        <5> HIDE DEF two
        <5>2. <<Own("ld-musl")>> \in Seq(Items) /\ \A x : Has(<<Own("ld-musl")>>, x) <=> "ld-musl" = x
            BY <1>2, HasFew
        <5> QED BY <4>1, <5>1, <5>2
      <4>2. CASE libc = "glibc"
        <5>1. two = <<Own("ld-linux")>>
            BY <4>2 DEF Loader
        <5> HIDE DEF two
        <5>2. <<Own("ld-linux")>> \in Seq(Items) /\ \A x : Has(<<Own("ld-linux")>>, x) <=> "ld-linux" = x
            BY <1>2, HasFew
        <5> QED BY <4>2, <5>1, <5>2
      <4>3. CASE libc \notin {"musl", "glibc"}
        <5>1. two = <<>>
            BY <4>3
        <5> HIDE DEF two
        <5>2. <<>> \in Seq(Items) /\ \A x : ~Has(<<>>, x)
            BY HasFew, EmptySeq
        <5> QED BY <4>3, <5>1, <5>2
      <4> QED BY <4>1, <4>2, <4>3
    <3> HIDE DEF one, two
    <3>4. \A x : one \o two \in Seq(Items) /\ (Has(one \o two, x) <=> Has(one, x) \/ Has(two, x))
        BY <3>2, <3>3, HasConcat
    <3>5. Linking \in Seq(Items) /\ \A x : Has(Linking, x) <=> Has(one, x) \/ Has(two, x)
        BY <3>1, <3>4
    <3>6. /\ ~Has(Linking, "-static") /\ ~Has(Linking, "utils")
          /\ Has(Linking, "ld-musl") <=> libc = "musl"
          /\ Has(Linking, "ld-linux") <=> libc = "glibc"
        BY <3>2, <3>3, <3>5
    <3> QED BY <2>2, <3>5, <3>6
  <2> QED BY <2>1, <2>2
<1>6. \A x \in Marks : Has(args', x) <=> Has(Linking, x)
  <2>1. args' = (Toolchain \o Linking) \o Dialect
      BY DEF Alloc
  <2>2. \A x : /\ Toolchain \o Linking \in Seq(Items)
               /\ Has(Toolchain \o Linking, x) <=> Has(Toolchain, x) \/ Has(Linking, x)
      BY <1>3, <1>5, HasConcat
  <2>3. \A x : Has((Toolchain \o Linking) \o Dialect, x)
               <=> Has(Toolchain \o Linking, x) \/ Has(Dialect, x)
      BY <1>4, <2>2, HasConcat
  <2> QED BY <1>3, <1>4, <2>1, <2>2, <2>3
<1>7. MarksRight'
  <2>1. /\ "-static" \in Marks /\ "ld-musl" \in Marks /\ "ld-linux" \in Marks /\ "utils" \in Marks
        /\ UNCHANGED <<libc, lcroot>>
      BY <1>0 DEF Marks, choice
  <2> QED BY <1>0, <1>5, <1>6, <2>1 DEF MarksRight
<1> QED BY <1>1, <1>7 DEF LibcInv

\* What the second pass stores for an argument of the user is none of them.
LEMMA FillMarks ==
    ASSUME IInv, LibcInv, Fill
    PROVE  LibcInv'
<1>0. /\ ArgsTypeOK /\ args \in Seq(Items) /\ UNCHANGED <<argv, choice, is_static>>
      /\ at = "fill" /\ at' = "fill" /\ a \in 1 .. Len(argv)
    BY DEF IInv, ArgsTypeOK, Fill, More, counted
<1>1. ChoiceRight' /\ ScriptRight'
    BY <1>0, ChoiceStays
<1>2. /\ Own("-x") \in Items /\ Own("c") \in Items /\ Own("none") \in Items /\ User(a) \in Items
    BY <1>0, ItemTypes, Zenon
<1>3. Stored \in Seq(Items) /\ \A x \in Marks : ~Has(Stored, x)
  <2>0. \A x \in Marks : Own(x) \notin {Own("-x"), Own("c"), Own("none"), User(a)}
      BY <1>0 DEF Own, User, Marks, ArgsTypeOK
  <2>1. CASE Stored = <<Own("-x"), Own("c"), User(a), Own("-x"), Own("none")>>
    <3>1. Stored \in Seq(Items) /\ Len(Stored) = 5
        BY <1>2, <2>1
    <3>2. \A p \in 1 .. 5 : Stored[p] \in {Own("-x"), Own("c"), Own("none"), User(a)}
        BY <2>1
    <3> QED BY <2>0, <3>1, <3>2 DEF Has
  <2>2. CASE Stored = <<User(a)>>
    <3>1. Stored \in Seq(Items) /\ Len(Stored) = 1
        BY <1>2, <2>2
    <3>2. \A p \in 1 .. 1 : Stored[p] = User(a)
        BY <2>2
    <3> QED BY <2>0, <3>1, <3>2 DEF Has
  <2> QED BY <2>1, <2>2 DEF Stored
<1>4. \A x \in Marks : Has(args', x) <=> Has(args, x)
  <2>1. args' = args \o Stored
      BY DEF Fill
  <2>2. \A x : Has(args \o Stored, x) <=> Has(args, x) \/ Has(Stored, x)
      BY <1>0, <1>3, HasConcat
  <2> QED BY <1>3, <2>1, <2>2
<1>5. MarksRight'
  <2>1. /\ "-static" \in Marks /\ "ld-musl" \in Marks /\ "ld-linux" \in Marks /\ "utils" \in Marks
        /\ UNCHANGED <<libc, lcroot>>
      BY <1>0 DEF Marks, choice
  <2> QED BY <1>0, <1>4, <2>1 DEF LibcInv, MarksRight
<1> QED BY <1>1, <1>5 DEF LibcInv

\* The runtime of an embedded sysroot comes last.
LEMMA ExecMarks ==
    ASSUME IInv, LibcInv, Exec
    PROVE  LibcInv'
<1>0. /\ ArgsTypeOK /\ args \in Seq(Items) /\ UNCHANGED <<argv, choice, is_static>>
      /\ at = "fill" /\ at' = "exec" /\ UNCHANGED <<libc, lcroot>>
    BY DEF IInv, ArgsTypeOK, Exec, counted, choice
<1>1. ChoiceRight' /\ ScriptRight'
    BY <1>0, ChoiceStays
<1>2. \A x : Has(args', x) <=> Has(args, x) \/ (~lcroot /\ x = "utils")
  <2>1. CASE lcroot
      BY <2>1 DEF Exec
  <2>2. CASE ~lcroot
    <3>1. <<Own("utils")>> \in Seq(Items)
      <4>1. Own("utils") \in Items
          BY <1>0, ItemTypes, Zenon
      <4> QED BY <4>1
    <3>2. args' = args \o <<Own("utils")>>
        BY <1>0, <2>2, AppendIsConcat DEF Exec
    <3>3. \A x : Has(args \o <<Own("utils")>>, x) <=> Has(args, x) \/ Has(<<Own("utils")>>, x)
        BY <1>0, <3>1, HasConcat
    <3>4. \A x : Has(<<Own("utils")>>, x) <=> "utils" = x
        BY HasFew
    <3> QED BY <2>2, <3>2, <3>3, <3>4
  <2> QED BY <2>1, <2>2
<1>3. MarksRight'
    BY <1>0, <1>2 DEF LibcInv, MarksRight
<1> QED BY <1>1, <1>3 DEF LibcInv

\* Every step of main keeps the choice and what depends on it.
LEMMA LibcStep == IInv /\ LibcInv /\ [ArgsNext]_argVars => LibcInv'
<1> SUFFICES ASSUME IInv, LibcInv, [ArgsNext]_argVars PROVE LibcInv'
    OBVIOUS
<1>1. CASE Choose \/ Chosen
    BY <1>1, ChoosingLibc
<1>2. CASE CountSkipped \/ Count
  <2>1. UNCHANGED <<argv, choice>> /\ at = "count" /\ at' = "count"
      BY <1>2 DEF CountSkipped, Count
  <2>2. ChoiceRight' /\ ScriptRight'
      BY <2>1, ChoiceStays
  <2> QED BY <2>1, <2>2 DEF LibcInv, MarksRight
<1>3. CASE Alloc
    BY <1>3, AllocMarks
<1>4. CASE FillSkipped
  <2>1. UNCHANGED <<argv, choice, libc, lcroot, is_static, args>> /\ at = "fill" /\ at' = "fill"
      BY <1>4 DEF FillSkipped, counted, choice
  <2>2. ChoiceRight' /\ ScriptRight'
      BY <2>1, ChoiceStays
  <2> QED BY <2>1, <2>2 DEF LibcInv, MarksRight
<1>5. CASE Fill
    BY <1>5, FillMarks
<1>6. CASE Exec
    BY <1>6, ExecMarks
<1>7. CASE UNCHANGED argVars
  <2>1. UNCHANGED <<argv, at, a, libc, lcroot, script, is_static, args>>
      BY <1>7 DEF argVars, choice, counted
  <2>2. Seen' = Seen /\ Sysroot' = Sysroot
      BY <2>1 DEF Seen, Sysroot
  <2> QED BY <2>1, <2>2 DEF LibcInv, ChoiceRight, ScriptRight, MarksRight
<1> QED BY <1>1, <1>2, <1>3, <1>4, <1>5, <1>6, <1>7 DEF ArgsNext

\* At execv the choice decides everything.
LEMMA ChoiceDecides == IInv /\ LibcInv => OneLibc
<1> SUFFICES ASSUME IInv, LibcInv, at = "exec" PROVE OneLibc
    BY DEF OneLibc
<1> DEFINE opts == {k \in 1 .. Len(argv) : argv[k] \in LibcArgs}
           last == CHOOSE k \in opts : \A j \in opts : j <= k
           want == IF opts = {} THEN "musl" ELSE Named(argv[last])
           mixed == want # "/dir" /\ \E k \in opts : argv[k] = "-libc=/dir"
<1>1. Seen = Len(argv) /\ Len(argv) \in Nat
    BY DEF Seen, IInv, ArgsTypeOK
<1>2. libc = want
  <2>1. CASE libc = "musl" /\ \A k \in 1 .. Len(argv) : argv[k] \notin LibcArgs
      BY <2>1
  <2>2. ASSUME NEW k \in 1 .. Len(argv), argv[k] \in LibcArgs, libc = Named(argv[k]),
               \A j \in 1 .. Len(argv) : argv[j] \in LibcArgs => j <= k
        PROVE  libc = want
    <3>1. k \in opts /\ \A j \in opts : j <= k
        BY <2>2
    <3>2. last \in opts /\ \A j \in opts : j <= last
        BY <3>1
    <3>3. last = k
      <4>1. k <= last /\ last <= k /\ k \in Nat /\ last \in Nat
          BY <1>1, <3>1, <3>2
      <4> HIDE DEF last
      <4> QED BY <4>1
    <3> QED BY <2>2, <3>1, <3>3, SMTT(30)
  <2> QED BY <1>1, <2>1, <2>2 DEF LibcInv, ChoiceRight
<1>3. lcroot <=> \E k \in opts : argv[k] = "-libc=/dir"
    BY <1>1 DEF LibcInv, ChoiceRight, LibcArgs
<1>4. libc \in {"musl", "glibc", "/dir"} /\ (libc = "/dir" => lcroot) /\ lcroot \in BOOLEAN
    BY DEF IInv, ArgsTypeOK
<1> HIDE DEF opts, last, want
<1>5. ASSUME ~mixed
      PROVE  /\ Sysroot = want
             /\ script = (IF want = "glibc" THEN "glibc" ELSE "none")
             /\ Has(args, "ld-musl") = (want = "musl" /\ ~Has(args, "-static"))
             /\ Has(args, "ld-linux") = (want = "glibc" /\ ~Has(args, "-static"))
             /\ Has(args, "utils") = (want # "/dir")
  <2>1. lcroot <=> want = "/dir"
      BY <1>2, <1>3, <1>4, <1>5
  <2>2. Sysroot = want
      BY <1>2, <2>1 DEF Sysroot
  <2>3. script = (IF want = "glibc" THEN "glibc" ELSE "none")
      BY <1>2, <2>2 DEF LibcInv, ScriptRight
  <2>4. /\ Has(args, "ld-musl") <=> want = "musl" /\ ~Has(args, "-static")
        /\ Has(args, "ld-linux") <=> want = "glibc" /\ ~Has(args, "-static")
        /\ Has(args, "utils") <=> want # "/dir"
      BY <1>2, <2>1 DEF LibcInv, MarksRight
  <2>5. \A x : Has(args, x) \in BOOLEAN
      BY DEF Has
  <2> QED BY <2>2, <2>3, <2>4, <2>5
<1>6. Loader("musl") = "ld-musl" /\ Loader("glibc") = "ld-linux"
    BY DEF Loader
<1> QED BY <1>5, <1>6 DEF OneLibc, Has, opts, last, want

\* For every command line: whatever -libc options it has and in whichever
\* order, unless a name follows a path, sysroot, loader, linker script and
\* runtime are all those of the last option.
THEOREM AlwaysOneLibc == ArgsSpec => []OneLibc
<1>1. ArgsInit => LibcInv
  <2> SUFFICES ASSUME ArgsInit PROVE LibcInv
      OBVIOUS
  <2>1. Seen = 0
      BY DEF ArgsInit, Seen
  <2>2. \A k \in 1 .. 0 : FALSE
      OBVIOUS
  <2>3. ChoiceRight
      BY <2>1, <2>2 DEF ArgsInit, ChoiceRight
  <2> QED BY <2>3 DEF ArgsInit, LibcInv, ScriptRight, MarksRight
<1> QED BY <1>1, LibcStep, ChoiceDecides, Invariance, PTL DEF ArgsSpec

-----------------------------------------------------------------------------
\* Every non-empty set of numbers has a least element: the induction used below.
LEMMA LeastNumber ==
    ASSUME NEW Ns, Ns \subseteq Nat, Ns # {}
    PROVE  \E x \in Ns : \A y \in Ns : x <= y
<1> DEFINE R == OpToRel(<, Nat)
<1>1. IsWellFoundedOn(R, Nat)
  BY NatLessThanWellFounded, Zenon
<1> HIDE DEF R
<1>2. \E x \in Ns : \A y \in Ns : ~(<<y, x>> \in R)
  BY <1>1, WFMin
<1>3. \A x, y \in Nat : <<y, x>> \in R <=> y < x
  BY DEF R, OpToRel
<1>4. \A x, y \in Nat : ~(y < x) => x <= y
  OBVIOUS
<1> QED BY <1>2, <1>3, <1>4

\* A bounded one has a greatest.
LEMMA GreatestNumber ==
    ASSUME NEW k \in Nat, NEW Ns, Ns \subseteq 1 .. k - 1, Ns # {}
    PROVE  \E h \in Ns : \A y \in Ns : y <= h
<1>1. {k - y : y \in Ns} \subseteq Nat /\ {k - y : y \in Ns} # {}
    OBVIOUS
<1>2. PICK n \in {k - y : y \in Ns} : \A m \in {k - y : y \in Ns} : n <= m
    BY <1>1, LeastNumber
<1>3. PICK h \in Ns : n = k - h
    BY <1>2
<1>4. ASSUME NEW y \in Ns PROVE y <= h
  <2>1. n <= k - y
      BY <1>2
  <2> QED BY <1>3, <2>1
<1> QED BY <1>4

\* Argument b is the one before argument k as xgcc counts them.
IsPrev(v, k, b) ==
    /\ b \in 0 .. k - 1
    /\ b > 0 => v[b] \notin LibcArgs
    /\ \A j \in b + 1 .. k - 1 : v[j] \in LibcArgs

XArgs == {"-x", "-xc++"}

\* The language in force at position p is w.
Speaks(s, p, w) ==
    \/ w = "none" /\ \A q \in 1 .. p - 1 : s[q].arg \notin XArgs
    \/ \E q \in 1 .. p - 1 :
         /\ s[q].arg \in XArgs
         /\ \A r \in q + 1 .. p - 1 : s[r].arg \notin XArgs
         /\ s[q].arg = "-x" => q + 1 <= p - 1 /\ s[q + 1].arg = w
         /\ s[q].arg = "-xc++" => w = "c++"

\* The user's -x c++ still holds at argument k.
Cpp(v, k) == \E i \in 1 .. k - 1 : v[i] = "-xc++" /\ \A j \in i + 1 .. k - 1 : ~Wrapped(v[j])

\* The language argument k asks for, at position p.
Proper(s, v, p, k) ==
    IF Wrapped(v[k]) THEN Speaks(s, p, "c")
    ELSE \E w \in {"none", "c++"} : Speaks(s, p, w) /\ (Cpp(v, k) => w = "c++")

\* Argument k is the operand of argument b.
Operand(v, d, k, b) ==
    \/ v[b] = "-o" /\ d[k].skip
    \/ v[b] = "-include" /\ ~Wrapped(v[k])

\* What was stored for the arguments before m.
Placed(s, v, m) ==
    \A p \in 1 .. Len(s) :
        s[p].from # 0 => /\ s[p].from \in 1 .. m - 1
                         /\ v[s[p].from] \notin LibcArgs
                         /\ s[p].arg = v[s[p].from]
Present(s, v, m) ==
    \A k \in 1 .. m - 1 : v[k] \notin LibcArgs => \E p \in 1 .. Len(s) : s[p].from = k
Ordered(s) ==
    \A p, q \in 1 .. Len(s) : p < q /\ s[q].from # 0 => s[p].from < s[q].from
Adjacent(s, v, d) ==
    \A p \in 1 .. Len(s) : s[p].from # 0 =>
        \A b \in 1 .. s[p].from - 1 :
            IsPrev(v, s[p].from, b) /\ Operand(v, d, s[p].from, b)
            => p - 1 \in 1 .. Len(s) /\ s[p - 1].from = b
Spoken(s, v, d) ==
    \A p \in 1 .. Len(s) :
        s[p].from # 0 /\ ~d[s[p].from].skip => Proper(s, v, p, s[p].from)

Good(s, v, d, m) ==
    Placed(s, v, m) /\ Present(s, v, m) /\ Ordered(s) /\ Adjacent(s, v, d) /\ Spoken(s, v, d)

\* What the next argument finds: the option it may be an operand of, last, and
\* a language that is not that of a CZet source.
Waiting(s, v, m) ==
    \A b \in 1 .. m - 1 :
        IsPrev(v, m, b) /\ v[b] \in {"-o", "-include"} => Len(s) > 0 /\ s[Len(s)].from = b
Closed(s, v, m) ==
    \E w \in {"none", "c++"} : Speaks(s, Len(s) + 1, w) /\ (Cpp(v, m) => w = "c++")

MeaningInv ==
    /\ at = "fill" => Good(args, argv, need, a) /\ Waiting(args, argv, a) /\ Closed(args, argv, a)
    /\ at = "exec" => Good(args, argv, need, Len(argv) + 1) /\ Len(need) = Len(argv) + 1

-----------------------------------------------------------------------------
\* What was said of a position holds in a longer vector.
LEMMA SpeaksOn ==
    ASSUME NEW s \in Seq(Items), NEW t \in Seq(Items), Len(s) <= Len(t),
           \A p \in 1 .. Len(s) : t[p] = s[p],
           NEW p \in 1 .. Len(s) + 1, NEW w, Speaks(s, p, w)
    PROVE  Speaks(t, p, w)
<1>1. Len(s) \in Nat /\ \A q \in 1 .. p - 1 : q \in 1 .. Len(s) /\ t[q] = s[q]
    OBVIOUS
<1>2. CASE w = "none" /\ \A q \in 1 .. p - 1 : s[q].arg \notin XArgs
    BY <1>1, <1>2 DEF Speaks
<1>3. ASSUME NEW q \in 1 .. p - 1, s[q].arg \in XArgs,
             \A r \in q + 1 .. p - 1 : s[r].arg \notin XArgs,
             s[q].arg = "-x" => q + 1 <= p - 1 /\ s[q + 1].arg = w,
             s[q].arg = "-xc++" => w = "c++"
      PROVE  Speaks(t, p, w)
  <2>1. \A r \in q + 1 .. p - 1 : r \in 1 .. p - 1
      BY <1>1, <1>3
  <2>2. \A r \in q + 1 .. p - 1 : t[r].arg \notin XArgs
      BY <1>1, <1>3, <2>1
  <2>3. t[q].arg = "-x" => q + 1 <= p - 1 /\ t[q + 1].arg = w
    <3>1. q + 1 <= p - 1 => q + 1 \in 1 .. p - 1
        BY <1>1, <1>3
    <3> QED BY <1>1, <1>3, <3>1
  <2> QED BY <1>1, <1>3, <2>2, <2>3 DEF Speaks
<1> QED BY <1>2, <1>3 DEF Speaks

\* One language in force.
LEMMA LanguageIs ==
    ASSUME ArgsTypeOK, NEW p \in 1 .. Len(args), NEW w, Speaks(args, p, w)
    PROVE  Language(p) = w
<1> DEFINE xs == {q \in 1 .. p - 1 : args[q].arg \in {"-x", "-xc++"}}
           l == CHOOSE x \in xs : \A y \in xs : y <= x
<1>0. Len(args) \in Nat
    BY DEF ArgsTypeOK
<1>1. CASE w = "none" /\ \A q \in 1 .. p - 1 : args[q].arg \notin XArgs
    BY <1>1 DEF Language, XArgs
<1>2. ASSUME NEW q \in 1 .. p - 1, args[q].arg \in XArgs,
             \A r \in q + 1 .. p - 1 : args[r].arg \notin XArgs,
             args[q].arg = "-x" => q + 1 <= p - 1 /\ args[q + 1].arg = w,
             args[q].arg = "-xc++" => w = "c++"
      PROVE  Language(p) = w
  <2>1. q \in xs
      BY <1>2 DEF XArgs
  <2>2. \A y \in xs : y <= q
    <3> SUFFICES ASSUME NEW y \in 1 .. p - 1, args[y].arg \in XArgs, ~(y <= q) PROVE FALSE
        BY DEF XArgs
    <3>1. y \in q + 1 .. p - 1
        BY <1>0, <1>2
    <3> QED BY <1>2, <3>1
  <2>3. l \in xs /\ \A y \in xs : y <= l
      BY <2>1, <2>2
  <2>4. l = q
    <3>1. l \in Int /\ q \in Int /\ l <= q /\ q <= l
        BY <1>0, <2>1, <2>2, <2>3
    <3> HIDE DEF l
    <3> QED BY <3>1
  <2>5. Language(p) = IF args[l].arg = "-x" THEN args[l + 1].arg ELSE "c++"
      BY <2>1 DEF Language
  <2> HIDE DEF l, xs
  <2> QED BY <1>2, <2>4, <2>5 DEF XArgs
<1> QED BY <1>1, <1>2 DEF Speaks

\* The argument before is one argument, and Before finds it.
LEMMA PrevFound ==
    ASSUME ArgsTypeOK, NEW k \in 1 .. Len(argv)
    PROVE  IsPrev(argv, k, Before(k))
<1> DEFINE js == {j \in 1 .. k - 1 : argv[j] \notin LibcArgs}
           l == CHOOSE j \in js : \A i \in js : i <= j
<1>0. Len(argv) \in Nat /\ Before(k) = IF js = {} THEN 0 ELSE l
    BY DEF ArgsTypeOK, Before
<1>1. CASE js = {}
  <2>1. Before(k) = 0 /\ \A j \in 1 .. k - 1 : argv[j] \in LibcArgs
      BY <1>0, <1>1
  <2> QED BY <1>0, <2>1 DEF IsPrev
<1>2. CASE js # {}
  <2>1. k \in Nat /\ js \subseteq 1 .. k - 1
      BY <1>0
  <2>2. PICK h \in js : \A i \in js : i <= h
      BY <1>2, <2>1, GreatestNumber
  <2>4. l \in js /\ \A i \in js : i <= l
      BY <2>2
  <2>5. Before(k) = l
      BY <1>0, <1>2
  <2> HIDE DEF l
  <2>6. \A j \in l + 1 .. k - 1 : j \in 1 .. k - 1 /\ ~(j <= l)
      BY <1>0, <2>4
  <2>7. \A j \in l + 1 .. k - 1 : argv[j] \in LibcArgs
      BY <2>4, <2>6
  <2> QED BY <1>0, <2>4, <2>5, <2>7 DEF IsPrev
<1> QED BY <1>1, <1>2

\* What the history says of skip_next, from the argument before.
LEMMA SkipFrom ==
    ASSUME History, ArgsTypeOK, Len(need) = Len(argv) + 1
    PROVE  \A k \in 1 .. Len(argv) : \A b \in 0 .. k - 1 :
             IsPrev(argv, k, b) => (need[k].skip <=> b > 0 /\ argv[b] = "-o" /\ ~need[b].skip)
<1> DEFINE Right(k) == \A b \in 0 .. k - 1 :
             IsPrev(argv, k, b) => (need[k].skip <=> b > 0 /\ argv[b] = "-o" /\ ~need[b].skip)
           Bad == {k \in 1 .. Len(argv) : ~Right(k)}
<1> SUFFICES ASSUME Bad # {} PROVE FALSE
    OBVIOUS
<1>0. /\ Len(argv) \in Nat /\ need # <<>> /\ need[1].skip = FALSE
      /\ \A k \in 1 .. Len(argv) : need[k] \in State /\ need[k + 1] = After(need[k], argv[k])
    BY DEF History, ArgsTypeOK
<1>1. PICK k \in Bad : \A i \in Bad : k <= i
  <2>1. \A k \in 1 .. Len(argv) : k \in Nat
      BY <1>0
  <2>2. Bad \subseteq Nat
      BY <2>1, Zenon
  <2> HIDE DEF Bad
  <2> QED BY <2>2, LeastNumber
<1>2. PICK b \in 0 .. k - 1 :
        IsPrev(argv, k, b) /\ ~(need[k].skip <=> b > 0 /\ argv[b] = "-o" /\ ~need[b].skip)
    BY <1>1
<1>3. k # 1
    BY <1>0, <1>2 DEF IsPrev
<1>4. /\ k - 1 \in 1 .. Len(argv) /\ need[k] = After(need[k - 1], argv[k - 1])
      /\ need[k - 1] \in State /\ Right(k - 1)
  <2>1. k \in 1 .. Len(argv)
      BY <1>1
  <2>2. k - 1 \in 1 .. Len(argv) /\ (k - 1) + 1 = k /\ ~(k <= k - 1)
      BY <1>0, <1>3, <2>1
  <2>3. k - 1 \notin Bad
      BY <1>1, <2>2
  <2>4. Right(k - 1)
      BY <2>2, <2>3
  <2> HIDE DEF Right
  <2> QED BY <1>0, <2>2, <2>4
<1>5. CASE argv[k - 1] \in LibcArgs
  <2>1. need[k].skip = need[k - 1].skip
      BY <1>4, <1>5 DEF After
  <2>2. b # k - 1
      BY <1>1, <1>2, <1>3, <1>5 DEF IsPrev
  <2>3. b \in 0 .. (k - 1) - 1 /\ IsPrev(argv, k - 1, b)
    <3>1. b \in 0 .. (k - 1) - 1
        BY <1>2, <2>2
    <3>2. \A j \in b + 1 .. (k - 1) - 1 : j \in b + 1 .. k - 1
        BY <1>1, <3>1
    <3> QED BY <1>2, <3>1, <3>2 DEF IsPrev
  <2> QED BY <1>2, <1>4, <2>1, <2>3
<1>6. CASE argv[k - 1] \notin LibcArgs
  <2>1. need[k].skip <=> argv[k - 1] = "-o" /\ ~need[k - 1].skip
    <3>1. need[k].skip = SkipAfter(argv[k - 1], need[k - 1].skip)
        BY <1>4, <1>6 DEF After
    <3> QED BY <3>1 DEF SkipAfter
  <2>2. b = k - 1
    <3>1. k - 1 \notin b + 1 .. k - 1
        BY <1>2, <1>6 DEF IsPrev
    <3> QED BY <1>0, <1>1, <1>2, <3>1
  <2> QED BY <1>1, <1>2, <1>3, <2>1, <2>2
<1> QED BY <1>5, <1>6

\* An argument names the output exactly when the second pass skips it.
LEMMA OutputSkipped ==
    ASSUME History, ArgsTypeOK, Len(need) = Len(argv) + 1
    PROVE  \A k \in 1 .. Len(argv) : IsOutput(k) <=> need[k].skip
<1>0. Len(argv) \in Nat
    BY DEF ArgsTypeOK
<1> DEFINE dom == 0 .. Len(argv)
           Solves(g) == g = [i \in dom |->
               i > 0 /\ Before(i) > 0 /\ argv[Before(i)] = "-o" /\ ~g[Before(i)]]
           is == CHOOSE g : Solves(g)
           f == [i \in dom |-> i > 0 /\ need[i].skip]
<1>1. \A i \in 1 .. Len(argv) :
        Before(i) \in 0 .. i - 1 /\ Before(i) \in dom
        /\ (need[i].skip <=> Before(i) > 0 /\ argv[Before(i)] = "-o" /\ ~need[Before(i)].skip)
    BY <1>0, PrevFound, SkipFrom DEF IsPrev
<1>2. Solves(f)
  <2> SUFFICES ASSUME NEW i \in dom
               PROVE  (i > 0 /\ need[i].skip)
                      <=> (i > 0 /\ Before(i) > 0 /\ argv[Before(i)] = "-o" /\ ~f[Before(i)])
      OBVIOUS
  <2>1. CASE i = 0
      BY <2>1
  <2>2. CASE i # 0
    <3>1. i \in 1 .. Len(argv)
        BY <1>0, <2>2
    <3>2. f[Before(i)] = (Before(i) > 0 /\ need[Before(i)].skip)
        BY <1>1, <3>1
    <3> QED BY <1>0, <1>1, <3>1, <3>2
  <2> QED BY <2>1, <2>2
<1>3. Solves(is)
    BY <1>2
<1>4. \A k : IsOutput(k) = is[k]
    BY DEF IsOutput
<1> HIDE DEF f
<1>5. PICK g : g = is
    OBVIOUS
<1> HIDE DEF is
<1>6. \A i \in 1 .. Len(argv) :
        g[i] <=> Before(i) > 0 /\ argv[Before(i)] = "-o" /\ ~g[Before(i)]
  <2>1. g = [i \in dom |-> i > 0 /\ Before(i) > 0 /\ argv[Before(i)] = "-o" /\ ~g[Before(i)]]
      BY <1>3, <1>5
  <2>2. \A i \in 1 .. Len(argv) : i \in dom /\ i > 0
      BY <1>0
  <2> HIDE DEF dom
  <2> QED BY <2>1, <2>2, Zenon
<1> HIDE DEF Solves
<1> DEFINE Bad == {k \in 1 .. Len(argv) : ~(g[k] <=> need[k].skip)}
<1>7. Bad = {}
  <2> SUFFICES ASSUME Bad # {} PROVE FALSE
      OBVIOUS
  <2>1. PICK k \in Bad : \A i \in Bad : k <= i
    <3>1. \A k \in 1 .. Len(argv) : k \in Nat
        BY <1>0
    <3>2. Bad \subseteq Nat
        BY <3>1, Zenon
    <3> HIDE DEF Bad
    <3> QED BY <3>2, LeastNumber
  <2>2. CASE Before(k) = 0
      BY <1>1, <1>6, <2>1, <2>2
  <2>3. CASE Before(k) # 0
    <3>1. Before(k) \in 1 .. Len(argv) /\ Before(k) \notin Bad
        BY <1>0, <1>1, <2>1, <2>3
    <3>2. g[Before(k)] <=> need[Before(k)].skip
        BY <3>1
    <3> QED BY <1>1, <1>6, <2>1, <3>2
  <2> QED BY <2>2, <2>3
<1> QED BY <1>4, <1>5, <1>7

-----------------------------------------------------------------------------
\* t goes on where s ends.
Continues(s, t) ==
    /\ s \in Seq(Items) /\ t \in Seq(Items)
    /\ Len(s) <= Len(t)
    /\ \A p \in 1 .. Len(s) : t[p] = s[p]

\* So does the language an argument asks for.
LEMMA LongerSpeaks ==
    ASSUME NEW s, NEW t, NEW v, Continues(s, t), NEW p \in 1 .. Len(s), NEW k, Proper(s, v, p, k)
    PROVE  Proper(t, v, p, k)
<1>1. \A w : Speaks(s, p, w) => Speaks(t, p, w)
  <2>1. p \in 1 .. Len(s) + 1
      BY DEF Continues
  <2> QED BY <2>1, SpeaksOn DEF Continues
<1> QED BY <1>1 DEF Proper

\* main's own arguments at the end change nothing for the user's.
LEMMA OwnItems ==
    ASSUME NEW s, NEW t, Continues(s, t), NEW v, NEW d, NEW m \in Nat, Good(s, v, d, m),
           \A p \in Len(s) + 1 .. Len(t) : t[p].from = 0
    PROVE  Good(t, v, d, m)
<1>0. /\ Len(s) \in Nat /\ Len(t) \in Nat /\ Len(s) <= Len(t)
      /\ \A p \in 1 .. Len(t) : IF p <= Len(s) THEN p \in 1 .. Len(s) /\ t[p] = s[p]
                                               ELSE t[p].from = 0
      /\ \A p \in 1 .. Len(s) : p \in 1 .. Len(t) /\ t[p] = s[p]
    BY DEF Continues
<1>1. Placed(t, v, m)
    BY <1>0 DEF Good, Placed
<1>2. Present(t, v, m)
    BY <1>0 DEF Good, Present
<1>3. Ordered(t)
    BY <1>0 DEF Good, Ordered
<1>4. Adjacent(t, v, d)
  <2> SUFFICES ASSUME NEW p \in 1 .. Len(t), t[p].from # 0, NEW b \in 1 .. t[p].from - 1,
                      IsPrev(v, t[p].from, b), Operand(v, d, t[p].from, b)
               PROVE  p - 1 \in 1 .. Len(t) /\ t[p - 1].from = b
      BY DEF Adjacent
  <2>1. p \in 1 .. Len(s) /\ t[p] = s[p]
      BY <1>0
  <2>2. p - 1 \in 1 .. Len(s) /\ s[p - 1].from = b
      BY <2>1 DEF Good, Adjacent
  <2> QED BY <1>0, <2>2
<1>5. Spoken(t, v, d)
  <2> SUFFICES ASSUME NEW p \in 1 .. Len(t), t[p].from # 0, ~d[t[p].from].skip
               PROVE  Proper(t, v, p, t[p].from)
      BY DEF Spoken
  <2>1. p \in 1 .. Len(s) /\ t[p] = s[p]
      BY <1>0
  <2>2. Proper(s, v, p, s[p].from)
      BY <2>1 DEF Good, Spoken
  <2> QED BY <2>1, <2>2, LongerSpeaks
<1> QED BY <1>1, <1>2, <1>3, <1>4, <1>5 DEF Good

\* The user's next argument at position z, between arguments of main's own.
LEMMA NextItem ==
    ASSUME NEW s, NEW t, Continues(s, t), NEW v \in Seq(Kinds), NEW d,
           NEW m \in 1 .. Len(v), v[m] \notin LibcArgs, Good(s, v, d, m),
           NEW z \in Len(s) + 1 .. Len(t), t[z].from = m, t[z].arg = v[m],
           \A p \in Len(s) + 1 .. Len(t) : p # z => t[p].from = 0,
           \A b \in 1 .. m - 1 : IsPrev(v, m, b) /\ Operand(v, d, m, b)
                                 => z - 1 \in 1 .. Len(t) /\ t[z - 1].from = b,
           ~d[m].skip => Proper(t, v, z, m)
    PROVE  Good(t, v, d, m + 1)
<1>0. /\ Len(s) \in Nat /\ Len(t) \in Nat /\ Len(s) <= Len(t) /\ Len(v) \in Nat
      /\ \A p \in 1 .. Len(t) : IF p <= Len(s) THEN p \in 1 .. Len(s) /\ t[p] = s[p]
                                ELSE p = z \/ t[p].from = 0
      /\ \A p \in 1 .. Len(s) : p \in 1 .. Len(t) /\ t[p] = s[p] /\ p < z
      /\ z \in 1 .. Len(t) /\ ~(z <= Len(s))
      /\ \A p \in 1 .. Len(t) : t[p].from \in Nat
  <2>1. \A p \in 1 .. Len(t) : t[p] \in Items
      BY DEF Continues
  <2>2. \A p \in 1 .. Len(t) : t[p].from \in Nat
      BY <2>1 DEF Items
  <2> QED BY <2>2 DEF Continues
<1>1. Placed(t, v, m + 1)
  <2> SUFFICES ASSUME NEW p \in 1 .. Len(t), t[p].from # 0
               PROVE  /\ t[p].from \in 1 .. (m + 1) - 1
                      /\ v[t[p].from] \notin LibcArgs
                      /\ t[p].arg = v[t[p].from]
      BY DEF Placed
  <2>1. CASE p = z
      BY <1>0, <2>1
  <2>2. CASE p # z
    <3>1. p \in 1 .. Len(s) /\ t[p] = s[p]
        BY <1>0, <2>2
    <3>2. s[p].from \in 1 .. m - 1 /\ v[s[p].from] \notin LibcArgs /\ s[p].arg = v[s[p].from]
        BY <3>1 DEF Good, Placed
    <3> QED BY <1>0, <3>1, <3>2
  <2> QED BY <2>1, <2>2
<1>2. Present(t, v, m + 1)
  <2> SUFFICES ASSUME NEW k \in 1 .. (m + 1) - 1, v[k] \notin LibcArgs
               PROVE  \E p \in 1 .. Len(t) : t[p].from = k
      BY DEF Present
  <2>1. k = m \/ k \in 1 .. m - 1
      BY <1>0
  <2> QED BY <1>0, <2>1, SMTT(30) DEF Good, Present
<1>3. Ordered(t)
  <2> SUFFICES ASSUME NEW p \in 1 .. Len(t), NEW q \in 1 .. Len(t), p < q, t[q].from # 0
               PROVE  t[p].from < t[q].from
      BY DEF Ordered
  <2>1. CASE q = z
    <3>1. CASE p \in 1 .. Len(s)
      <4>1. t[p] = s[p] /\ (s[p].from # 0 => s[p].from \in 1 .. m - 1)
          BY <1>0, <3>1 DEF Good, Placed
      <4> QED BY <1>0, <2>1, <4>1
    <3>2. CASE p \notin 1 .. Len(s)
      <4>1. t[p].from = 0
          BY <1>0, <2>1, <3>2
      <4> QED BY <1>0, <2>1, <4>1
    <3> QED BY <3>1, <3>2
  <2>2. CASE q # z
    <3>1. q \in 1 .. Len(s) /\ t[q] = s[q]
        BY <1>0, <2>2
    <3>2. p \in 1 .. Len(s) /\ t[p] = s[p]
        BY <1>0, <3>1
    <3> QED BY <3>1, <3>2 DEF Good, Ordered
  <2> QED BY <2>1, <2>2
<1>4. Adjacent(t, v, d)
  <2> SUFFICES ASSUME NEW p \in 1 .. Len(t), t[p].from # 0, NEW b \in 1 .. t[p].from - 1,
                      IsPrev(v, t[p].from, b), Operand(v, d, t[p].from, b)
               PROVE  p - 1 \in 1 .. Len(t) /\ t[p - 1].from = b
      BY DEF Adjacent
  <2>1. CASE p = z
      BY <2>1
  <2>2. CASE p # z
    <3>1. p \in 1 .. Len(s) /\ t[p] = s[p]
        BY <1>0, <2>2
    <3>2. p - 1 \in 1 .. Len(s) /\ s[p - 1].from = b
        BY <3>1 DEF Good, Adjacent
    <3> QED BY <1>0, <3>2
  <2> QED BY <2>1, <2>2
<1>5. Spoken(t, v, d)
  <2> SUFFICES ASSUME NEW p \in 1 .. Len(t), t[p].from # 0, ~d[t[p].from].skip
               PROVE  Proper(t, v, p, t[p].from)
      BY DEF Spoken
  <2>1. CASE p = z
      BY <2>1
  <2>2. CASE p # z
    <3>1. p \in 1 .. Len(s) /\ t[p] = s[p]
        BY <1>0, <2>2
    <3>2. Proper(s, v, p, s[p].from)
        BY <3>1 DEF Good, Spoken
    <3> QED BY <3>1, <3>2, LongerSpeaks
  <2> QED BY <2>1, <2>2
<1> QED BY <1>1, <1>2, <1>3, <1>4, <1>5 DEF Good

\* An argument that sets no language leaves the one in force.
LEMMA SpeaksPast ==
    ASSUME NEW t, NEW p \in Nat \ {0}, NEW w, Speaks(t, p, w), t[p].arg \notin XArgs
    PROVE  Speaks(t, p + 1, w)
<1>0. \A q : q \in 1 .. (p + 1) - 1 <=> q \in 1 .. p - 1 \/ q = p
    OBVIOUS
<1>1. CASE w = "none" /\ \A q \in 1 .. p - 1 : t[q].arg \notin XArgs
    BY <1>0, <1>1 DEF Speaks
<1>2. ASSUME NEW q \in 1 .. p - 1, t[q].arg \in XArgs,
             \A r \in q + 1 .. p - 1 : t[r].arg \notin XArgs,
             t[q].arg = "-x" => q + 1 <= p - 1 /\ t[q + 1].arg = w,
             t[q].arg = "-xc++" => w = "c++"
      PROVE  Speaks(t, p + 1, w)
  <2>1. \A r \in q + 1 .. (p + 1) - 1 : r \in q + 1 .. p - 1 \/ r = p
      OBVIOUS
  <2>2. \A r \in q + 1 .. (p + 1) - 1 : t[r].arg \notin XArgs
      BY <1>2, <2>1
  <2>3. q + 1 <= p - 1 => q + 1 <= (p + 1) - 1
      BY <1>2
  <2> QED BY <1>0, <1>2, <2>2, <2>3 DEF Speaks
<1> QED BY <1>1, <1>2 DEF Speaks

\* What is before the argument after m, and whether a language reaches it.
LEMMA OneFurther ==
    ASSUME NEW v \in Seq(Kinds), NEW m \in 1 .. Len(v)
    PROVE  /\ v[m] \notin LibcArgs => \A b \in 1 .. m : IsPrev(v, m + 1, b) => b = m
           /\ v[m] \in LibcArgs => \A b \in 1 .. m : IsPrev(v, m + 1, b)
                                       => b \in 1 .. m - 1 /\ IsPrev(v, m, b)
           /\ v[m] # "-xc++" /\ Cpp(v, m + 1) => Cpp(v, m) /\ ~Wrapped(v[m])
<1>0. Len(v) \in Nat /\ m \in Nat /\ (m + 1) - 1 = m
    OBVIOUS
<1>1. ASSUME NEW b \in 1 .. m, IsPrev(v, m + 1, b), v[m] \notin LibcArgs
      PROVE  b = m
  <2>1. m \notin b + 1 .. m
      BY <1>0, <1>1 DEF IsPrev
  <2> QED BY <1>0, <2>1
<1>2. ASSUME NEW b \in 1 .. m, IsPrev(v, m + 1, b), v[m] \in LibcArgs
      PROVE  b \in 1 .. m - 1 /\ IsPrev(v, m, b)
  <2>1. b # m
      BY <1>2 DEF IsPrev
  <2>2. b \in 1 .. m - 1 /\ b \in 0 .. m - 1 /\ \A j \in b + 1 .. m - 1 : j \in b + 1 .. m
      BY <1>0, <2>1
  <2> QED BY <1>0, <1>2, <2>2 DEF IsPrev
<1>3. ASSUME v[m] # "-xc++", NEW i \in 1 .. m, v[i] = "-xc++",
             \A j \in i + 1 .. m : ~Wrapped(v[j])
      PROVE  Cpp(v, m) /\ ~Wrapped(v[m])
  <2>1. i # m
      BY <1>3
  <2>2. i \in 1 .. m - 1 /\ m \in i + 1 .. m /\ \A j \in i + 1 .. m - 1 : j \in i + 1 .. m
      BY <1>0, <2>1
  <2> QED BY <1>3, <2>2 DEF Cpp
<1>4. Cpp(v, m + 1) => \E i \in 1 .. m : v[i] = "-xc++" /\ \A j \in i + 1 .. m : ~Wrapped(v[j])
    BY <1>0 DEF Cpp
<1> QED BY <1>1, <1>2, <1>3, <1>4

\* An argument stored as it is.
LEMMA PlainKeeps ==
    ASSUME NEW s \in Seq(Items), NEW x \in Items, NEW v \in Seq(Kinds), NEW d,
           NEW m \in 1 .. Len(v), v[m] \notin LibcArgs, x.from = m, x.arg = v[m],
           Good(s, v, d, m), Waiting(s, v, m), Closed(s, v, m),
           d[m].skip \/ ~Wrapped(v[m])
    PROVE  LET t == s \o <<x>>
           IN  Good(t, v, d, m + 1) /\ Waiting(t, v, m + 1) /\ Closed(t, v, m + 1)
<1>1. PICK t : t = s \o <<x>>
    OBVIOUS
<1>2. /\ t \in Seq(Items) /\ Len(s) \in Nat /\ Len(t) = Len(s) + 1 /\ t[Len(s) + 1] = x
      /\ \A p \in 1 .. Len(s) : t[p] = s[p]
    BY <1>1
<1>3. Continues(s, t)
    BY <1>2 DEF Continues
<1>4. PICK z : z = Len(s) + 1
    OBVIOUS
<1>5. /\ z \in Len(s) + 1 .. Len(t) /\ t[z] = x /\ Len(t) = z /\ z \in Nat \ {0}
      /\ \A p \in Len(s) + 1 .. Len(t) : p = z
    BY <1>2, <1>4
<1>6. PICK w \in {"none", "c++"} : Speaks(t, z, w) /\ (Cpp(v, m) => w = "c++")
  <2>1. PICK w \in {"none", "c++"} : Speaks(s, z, w) /\ (Cpp(v, m) => w = "c++")
      BY <1>4 DEF Closed
  <2>2. z \in 1 .. Len(s) + 1
      BY <1>2, <1>4
  <2>3. Speaks(t, z, w)
      BY <1>2, <2>1, <2>2, SpeaksOn DEF Continues
  <2> QED BY <2>1, <2>3
<1>7. Good(t, v, d, m + 1)
  <2>1. ASSUME NEW b \in 1 .. m - 1, IsPrev(v, m, b), Operand(v, d, m, b)
        PROVE  z - 1 \in 1 .. Len(t) /\ t[z - 1].from = b
    <3>1. Len(s) > 0 /\ s[Len(s)].from = b
        BY <2>1 DEF Waiting, Operand
    <3> QED BY <1>2, <1>4, <3>1, SMTT(30)
  <2>2. ~d[m].skip => Proper(t, v, z, m)
      BY <1>6 DEF Proper
  <2> QED BY <1>3, <1>5, <2>1, <2>2, NextItem
<1>8. Waiting(t, v, m + 1)
  <2>1. (m + 1) - 1 = m
      OBVIOUS
  <2> QED BY <1>5, <2>1, OneFurther DEF Waiting
<1>9. Closed(t, v, m + 1)
  <2>1. CASE v[m] = "-xc++"
    <3>1. z \in 1 .. (z + 1) - 1 /\ \A r \in z + 1 .. (z + 1) - 1 : FALSE
        BY <1>5
    <3>2. Speaks(t, z + 1, "c++")
        BY <1>5, <2>1, <3>1 DEF Speaks, XArgs
    <3> QED BY <1>5, <3>2 DEF Closed
  <2>2. CASE v[m] # "-xc++"
    <3>1. t[z].arg \notin XArgs
        BY <1>5, <2>2 DEF XArgs, Kinds, LibcArgs
    <3>2. Speaks(t, z + 1, w)
        BY <1>5, <1>6, <3>1, SpeaksPast
    <3>3. Cpp(v, m + 1) => w = "c++"
        BY <1>6, <2>2, OneFurther
    <3> QED BY <1>5, <1>6, <3>2, <3>3 DEF Closed
  <2> QED BY <2>1, <2>2
<1> QED BY <1>1, <1>7, <1>8, <1>9

\* A CZet source between its two -x.
LEMMA WrappedKeeps ==
    ASSUME NEW s \in Seq(Items), NEW x \in Items, NEW v \in Seq(Kinds), NEW d,
           NEW m \in 1 .. Len(v), x.from = m, x.arg = v[m],
           Good(s, v, d, m), ~d[m].skip, Wrapped(v[m]),
           Own("-x") \in Items, Own("c") \in Items, Own("none") \in Items
    PROVE  LET t == s \o <<Own("-x"), Own("c"), x, Own("-x"), Own("none")>>
           IN  Good(t, v, d, m + 1) /\ Waiting(t, v, m + 1) /\ Closed(t, v, m + 1)
<1> DEFINE u == <<Own("-x"), Own("c"), x, Own("-x"), Own("none")>>
<1>1. /\ u \in Seq(Items) /\ Len(u) = 5
      /\ u[1] = Own("-x") /\ u[2] = Own("c") /\ u[3] = x /\ u[4] = Own("-x") /\ u[5] = Own("none")
    OBVIOUS
<1> HIDE DEF u
<1>2. PICK t, n : t = s \o u /\ n = Len(s)
    OBVIOUS
<1>3. /\ t \in Seq(Items) /\ n \in Nat /\ Len(t) = n + 5
      /\ \A p \in 1 .. n : t[p] = s[p]
      /\ \A p \in 1 .. 5 : t[n + p] = u[p]
  <2>1. /\ t \in Seq(Items) /\ n \in Nat /\ Len(t) = n + 5
        /\ \A p \in 1 .. n + 5 : t[p] = IF p <= n THEN s[p] ELSE u[p - n]
    <3>1. /\ s \o u \in Seq(Items) /\ Len(s \o u) = Len(s) + Len(u)
          /\ \A p \in 1 .. Len(s) + Len(u) :
               (s \o u)[p] = IF p <= Len(s) THEN s[p] ELSE u[p - Len(s)]
        BY <1>1, ConcatProperties
    <3>2. Len(s) \in Nat
        OBVIOUS
    <3> QED BY <1>1, <1>2, <3>1, <3>2
  <2>2. \A p \in 1 .. 5 : n + p \in 1 .. n + 5 /\ ~(n + p <= n) /\ (n + p) - n = p
      BY <2>1
  <2>3. \A p \in 1 .. 5 : t[n + p] = u[p]
      BY <2>1, <2>2
  <2>4. \A p \in 1 .. n : p \in 1 .. n + 5 /\ p <= n
      BY <2>1
  <2> QED BY <2>1, <2>3, <2>4
<1>4. /\ t[n + 1] = Own("-x") /\ t[n + 2] = Own("c") /\ t[n + 3] = x
      /\ t[n + 4] = Own("-x") /\ t[n + 5] = Own("none")
    BY <1>1, <1>3
<1>5. Continues(s, t)
    BY <1>2, <1>3 DEF Continues
<1>6. v[m] = "a.ct" /\ v[m] \notin LibcArgs
    BY DEF Wrapped, LibcArgs
<1>7. Good(t, v, d, m + 1)
  <2>1. n + 3 \in Len(s) + 1 .. Len(t)
      BY <1>2, <1>3
  <2>2. ASSUME NEW p \in Len(s) + 1 .. Len(t), p # n + 3
        PROVE  t[p].from = 0
    <3>0. n \in Int /\ p \in Int /\ n + 1 <= p /\ p <= n + 5
        BY <1>2, <1>3, <2>2
    <3>1. p = n + 1 \/ p = n + 2 \/ p = n + 4 \/ p = n + 5
        BY <2>2, <3>0
    <3> QED BY <1>4, <3>1, SMTT(30) DEF Own
  <2>3. Proper(t, v, n + 3, m)
    <3>1. n + 1 \in 1 .. (n + 3) - 1 /\ (n + 1) + 1 = n + 2 /\ (n + 1) + 1 <= (n + 3) - 1
          /\ \A r \in (n + 1) + 1 .. (n + 3) - 1 : r = n + 2
        BY <1>3
    <3>2. Speaks(t, n + 3, "c")
        BY <1>4, <3>1 DEF Speaks, XArgs, Own
    <3> QED BY <3>2 DEF Proper
  <2>4. ~\E b \in 1 .. m - 1 : Operand(v, d, m, b)
      BY DEF Operand
  <2> QED BY <1>4, <1>5, <1>6, <2>1, <2>2, <2>3, <2>4, NextItem
<1>8. Waiting(t, v, m + 1)
  <2>1. (m + 1) - 1 = m
      OBVIOUS
  <2> QED BY <1>6, <2>1, OneFurther DEF Waiting
<1>9. Closed(t, v, m + 1)
  <2>1. /\ n + 4 \in 1 .. (n + 6) - 1 /\ (n + 4) + 1 = n + 5 /\ (n + 4) + 1 <= (n + 6) - 1
        /\ \A r \in (n + 4) + 1 .. (n + 6) - 1 : r = n + 5
        /\ Len(t) + 1 = n + 6
      BY <1>3
  <2>2. Speaks(t, n + 6, "none")
    <3>1. /\ t[n + 4].arg = "-x" /\ t[(n + 4) + 1].arg = "none"
          /\ \A r \in (n + 4) + 1 .. (n + 6) - 1 : t[r].arg = "none"
        BY <1>4, <2>1, SMTT(30) DEF Own
    <3>2. PICK q : q = n + 4
        OBVIOUS
    <3>3. /\ q \in 1 .. (n + 6) - 1 /\ t[q].arg \in XArgs
          /\ \A r \in q + 1 .. (n + 6) - 1 : t[r].arg \notin XArgs
          /\ t[q].arg = "-x" => q + 1 <= (n + 6) - 1 /\ t[q + 1].arg = "none"
          /\ t[q].arg = "-xc++" => "none" = "c++"
        BY <2>1, <3>1, <3>2 DEF XArgs
    <3> QED BY <3>3 DEF Speaks
  <2>3. ~Cpp(v, m + 1)
      BY <1>6, OneFurther
  <2> QED BY <2>1, <2>2, <2>3 DEF Closed
<1> QED BY <1>2, <1>7, <1>8, <1>9 DEF u

-----------------------------------------------------------------------------
\* Arguments of main's own that set no language.
OwnOnly(s) ==
    s \in Seq(Items) /\ \A p \in 1 .. Len(s) : s[p].from = 0 /\ s[p].arg \notin XArgs

\* They can be joined.
LEMMA OwnConcat ==
    ASSUME NEW s, NEW u, OwnOnly(s), OwnOnly(u)
    PROVE  OwnOnly(s \o u)
<1>1. PICK t, m, n : t = s \o u /\ m = Len(s) /\ n = Len(u)
    OBVIOUS
<1>2. /\ m \in Nat /\ n \in Nat /\ t \in Seq(Items) /\ Len(t) = m + n
      /\ \A p \in 1 .. m + n : t[p] = IF p <= m THEN s[p] ELSE u[p - m]
    BY <1>1, ConcatProperties, LenProperties DEF OwnOnly
<1>3. \A p \in 1 .. m + n : p \in 1 .. m \/ (~(p <= m) /\ p - m \in 1 .. n)
    BY <1>2
<1>4. \A p \in 1 .. m + n : t[p].from = 0 /\ t[p].arg \notin XArgs
    BY <1>1, <1>2, <1>3 DEF OwnOnly
<1> QED BY <1>1, <1>2, <1>4 DEF OwnOnly

\* One of them alone.
LEMMA OwnOne ==
    ASSUME NEW y, Own(y) \in Items, y \notin XArgs
    PROVE  OwnOnly(<<Own(y)>>)
BY DEF OwnOnly, Own

\* The start of the second pass.
LEMMA AllocMeaning ==
    ASSUME IInv, Alloc
    PROVE  MeaningInv'
<1>0. /\ ArgsTypeOK /\ argv' = argv /\ need' = need /\ at' = "fill" /\ a' = 1
      /\ args' = (Toolchain \o Linking) \o Dialect
    BY DEF IInv, Alloc
<1>1. /\ Own(Sysroot) \in Items /\ Own("xgcc") \in Items /\ Own("tool") \in Items
      /\ Own("-static") \in Items /\ Own("-static-libgcc") \in Items
      /\ Own("ld-musl") \in Items /\ Own("ld-linux") \in Items /\ Own("-std=czet") \in Items
    BY <1>0, ItemTypes, Zenon
<1>2. OwnOnly(<<>>)
    BY EmptySeq DEF OwnOnly
<1>3. OwnOnly(Toolchain)
  <2>1. Toolchain \in Seq(Items) /\ Len(Toolchain) = 10
      BY <1>1 DEF Toolchain
  <2>2. \A p \in 1 .. 10 : Toolchain[p] \in {Own("xgcc"), Own("tool"), Own(Sysroot)}
      BY DEF Toolchain
  <2>3. Sysroot \notin XArgs
      BY <1>0 DEF ArgsTypeOK, Sysroot, XArgs
  <2>4. \A p \in 1 .. 10 : Toolchain[p].from = 0 /\ Toolchain[p].arg \notin XArgs
      BY <2>2, <2>3 DEF Own, XArgs
  <2> QED BY <2>1, <2>4 DEF OwnOnly
<1>4. OwnOnly(Linking)
  <2>1. /\ OwnOnly(<<Own("-static")>>) /\ OwnOnly(<<Own("-static-libgcc")>>)
        /\ OwnOnly(<<Own("ld-musl")>>) /\ OwnOnly(<<Own("ld-linux")>>)
      BY <1>1, OwnOne DEF XArgs
  <2>2. PICK l : l = IF libc \in {"musl", "glibc"} THEN <<Own(Loader(libc))>> ELSE <<>>
      OBVIOUS
  <2>3. OwnOnly(l)
      BY <1>2, <2>1, <2>2 DEF Loader
  <2>4. OwnOnly(<<Own("-static-libgcc")>> \o l)
      BY <2>1, <2>3, OwnConcat
  <2>5. Linking = IF is_static THEN <<Own("-static")>> ELSE <<Own("-static-libgcc")>> \o l
      BY <2>2 DEF Linking
  <2> QED BY <2>1, <2>4, <2>5
<1>5. OwnOnly(Dialect)
  <2>1. OwnOnly(<<Own("-std=czet")>>)
      BY <1>1, OwnOne DEF XArgs
  <2> QED BY <1>2, <2>1 DEF Dialect
<1>6. OwnOnly(args')
    BY <1>0, <1>3, <1>4, <1>5, OwnConcat
<1>7. \A k \in 1 .. 1 - 1 : FALSE
    OBVIOUS
<1>8. Good(args', argv, need, 1)
    BY <1>6, <1>7 DEF Good, Placed, Present, Ordered, Adjacent, Spoken, OwnOnly
<1>9. Waiting(args', argv, 1)
    BY <1>7 DEF Waiting
<1>10. Closed(args', argv, 1)
  <2>1. Len(args') \in Nat /\ (Len(args') + 1) - 1 = Len(args')
      BY <1>6 DEF OwnOnly
  <2>2. Speaks(args', Len(args') + 1, "none")
      BY <1>6, <2>1 DEF OwnOnly, Speaks
  <2>3. ~Cpp(argv, 1)
      BY <1>7 DEF Cpp
  <2> QED BY <2>2, <2>3 DEF Closed
<1> QED BY <1>0, <1>8, <1>9, <1>10 DEF MeaningInv

\* An argument of the second pass.
LEMMA FillMeaning ==
    ASSUME IInv, MeaningInv, Fill \/ FillSkipped
    PROVE  MeaningInv'
<1>0. /\ ArgsTypeOK /\ args \in Seq(Items) /\ argv \in Seq(Kinds) /\ a \in 1 .. Len(argv)
      /\ at = "fill" /\ at' = "fill" /\ argv' = argv /\ need' = need /\ a' = a + 1
      /\ need[a].skip = skip_next
      /\ Good(args, argv, need, a) /\ Waiting(args, argv, a) /\ Closed(args, argv, a)
    BY DEF IInv, ArgsTypeOK, Filling, MeaningInv, Fill, FillSkipped, More
<1>1. SUFFICES /\ Good(args', argv, need, a + 1)
               /\ Waiting(args', argv, a + 1) /\ Closed(args', argv, a + 1)
    BY <1>0 DEF MeaningInv
<1>2. CASE FillSkipped
  <2>1. args' = args /\ argv[a] \in LibcArgs /\ argv[a] # "-xc++" /\ (a + 1) - 1 = a
      BY <1>0, <1>2 DEF FillSkipped, Arg, LibcArgs
  <2>2. \A k \in 1 .. a : k = a \/ k \in 1 .. a - 1
      BY <1>0
  <2>3. \A k \in 1 .. a - 1 : k \in 1 .. a
      BY <1>0
  <2>4. Good(args, argv, need, a + 1)
    <3>1. Placed(args, argv, a + 1)
        BY <1>0, <2>1, <2>3 DEF Good, Placed
    <3>2. Present(args, argv, a + 1)
        BY <1>0, <2>1, <2>2 DEF Good, Present
    <3> QED BY <1>0, <3>1, <3>2 DEF Good
  <2>5. Waiting(args, argv, a + 1)
      BY <1>0, <2>1, OneFurther DEF Waiting
  <2>6. Closed(args, argv, a + 1)
      BY <1>0, <2>1, OneFurther DEF Closed
  <2> QED BY <2>1, <2>4, <2>5, <2>6
<1>3. CASE Fill
  <2>1. args' = args \o Stored /\ argv[a] \notin LibcArgs
      BY <1>3 DEF Fill, Arg
  <2>2. /\ Own("-x") \in Items /\ Own("c") \in Items /\ Own("none") \in Items /\ User(a) \in Items
        /\ User(a).from = a /\ User(a).arg = argv[a]
    <3>1. /\ Own("-x") \in Items /\ Own("c") \in Items /\ Own("none") \in Items
          /\ User(a) \in Items
        BY <1>0, ItemTypes, Zenon
    <3> QED BY <3>1 DEF User
  <2>3. PICK x : x = User(a)
      OBVIOUS
  <2>4. CASE ~skip_next /\ Wrapped(Arg)
    <3>1. args' = args \o <<Own("-x"), Own("c"), x, Own("-x"), Own("none")>>
        BY <2>1, <2>3, <2>4 DEF Stored
    <3>2. ~need[a].skip /\ Wrapped(argv[a])
        BY <1>0, <2>4 DEF Arg
    <3> QED BY <1>0, <2>2, <2>3, <3>1, <3>2, WrappedKeeps
  <2>5. CASE skip_next \/ ~Wrapped(Arg)
    <3>1. args' = args \o <<x>>
        BY <2>1, <2>3, <2>5 DEF Stored
    <3>2. need[a].skip \/ ~Wrapped(argv[a])
        BY <1>0, <2>5 DEF Arg
    <3> QED BY <1>0, <2>1, <2>2, <2>3, <3>1, <3>2, PlainKeeps
  <2> QED BY <2>4, <2>5
<1> QED BY <1>2, <1>3

\* The end of main.
LEMMA ExecMeaning ==
    ASSUME IInv, MeaningInv, Exec
    PROVE  MeaningInv'
<1>0. /\ ArgsTypeOK /\ args \in Seq(Items) /\ Len(argv) \in Nat /\ a = Len(argv) + 1
      /\ at = "fill" /\ at' = "exec" /\ argv' = argv /\ need' = need
      /\ Len(need) = Len(argv) + 1 /\ Good(args, argv, need, a)
    BY DEF IInv, ArgsTypeOK, Filling, MeaningInv, Exec, More
<1>1. Own("utils") \in Items
    BY <1>0, ItemTypes, Zenon
<1>2. PICK s, t : s = args /\ t = Append(args, Own("utils"))
    OBVIOUS
<1>3. /\ t \in Seq(Items) /\ Len(t) = Len(s) + 1 /\ t[Len(s) + 1] = Own("utils")
      /\ \A p \in 1 .. Len(s) : t[p] = s[p]
    BY <1>0, <1>1, <1>2
<1>4. Continues(s, t) /\ \A p \in Len(s) + 1 .. Len(t) : t[p].from = 0
  <2>1. Len(s) \in Nat
      BY <1>0, <1>2
  <2>2. \A p \in Len(s) + 1 .. Len(t) : p = Len(s) + 1
      BY <1>3, <2>1
  <2> QED BY <1>0, <1>2, <1>3, <2>1, <2>2 DEF Continues, Own
<1>5. a \in Nat
    BY <1>0
<1>6. Good(t, argv, need, a)
    BY <1>0, <1>2, <1>4, <1>5, OwnItems
<1>7. args' = args \/ args' = t
    BY <1>2 DEF Exec
<1> QED BY <1>0, <1>6, <1>7 DEF MeaningInv

\* Every step of main keeps the meaning of what was stored.
LEMMA MeaningStep == IInv /\ MeaningInv /\ [ArgsNext]_argVars => MeaningInv'
<1> SUFFICES ASSUME IInv, MeaningInv, [ArgsNext]_argVars PROVE MeaningInv'
    OBVIOUS
<1>1. CASE Choose \/ Chosen \/ CountSkipped \/ Count
  <2>1. at' \in {"libc", "count"}
      BY <1>1 DEF Choose, Chosen, CountSkipped, Count
  <2> QED BY <2>1 DEF MeaningInv
<1>2. CASE Alloc
    BY <1>2, AllocMeaning
<1>3. CASE Fill \/ FillSkipped
    BY <1>3, FillMeaning
<1>4. CASE Exec
    BY <1>4, ExecMeaning
<1>5. CASE UNCHANGED argVars
    BY <1>5 DEF argVars, MeaningInv
<1> QED BY <1>1, <1>2, <1>3, <1>4, <1>5 DEF ArgsNext

\* Where an argument is in the vector: at one place.
LEMMA AtIs ==
    ASSUME ArgsTypeOK, Ordered(args), NEW p \in 1 .. Len(args), args[p].from # 0
    PROVE  At(args[p].from) = p
<1> DEFINE k == args[p].from
           q == CHOOSE y \in 1 .. Len(args) : args[y].from = k
<1>0. Len(args) \in Nat /\ \A y \in 1 .. Len(args) : args[y].from \in Nat
  <2>1. \A y \in 1 .. Len(args) : args[y] \in Items
      BY DEF ArgsTypeOK
  <2> QED BY <2>1 DEF Items, ArgsTypeOK
<1>1. q \in 1 .. Len(args) /\ args[q].from = k
    OBVIOUS
<1>2. At(k) = q
    BY DEF At
<1> HIDE DEF q
<1>3. ~(p < q) /\ ~(q < p)
    BY <1>0, <1>1 DEF Ordered
<1> QED BY <1>0, <1>1, <1>2, <1>3

\* At execv every argument has the place, the neighbour and the language it
\* should have.
LEMMA MeaningKept == IInv /\ MeaningInv => ArgumentsKeepMeaning
<1> SUFFICES ASSUME IInv, MeaningInv, at = "exec" PROVE ArgumentsKeepMeaning
    BY DEF ArgumentsKeepMeaning, UserArgsForwarded, LanguageOfInputs
<1>0. /\ ArgsTypeOK /\ History /\ args \in Seq(Items) /\ argv \in Seq(Kinds)
      /\ Len(argv) \in Nat /\ Len(args) \in Nat /\ (Len(argv) + 1) - 1 = Len(argv)
      /\ Good(args, argv, need, Len(argv) + 1) /\ Len(need) = Len(argv) + 1
    BY DEF IInv, ArgsTypeOK, MeaningInv
<1>1. \A p \in 1 .. Len(args) : args[p] \in Items
    BY <1>0
<1>2. \A p \in 1 .. Len(args) :
        args[p].from # 0 => /\ args[p].from \in 1 .. Len(argv)
                            /\ argv[args[p].from] \notin LibcArgs
                            /\ args[p].arg = argv[args[p].from]
    BY <1>0 DEF Good, Placed
<1>3. \A k \in 1 .. Len(argv) :
        argv[k] \notin LibcArgs => \E p \in 1 .. Len(args) : args[p].from = k
    BY <1>0 DEF Good, Present
<1>4. \A k \in 1 .. Len(argv) : IsOutput(k) <=> need[k].skip
    BY <1>0, OutputSkipped
<1>5. UserArgsForwarded
  <2>1. ASSUME NEW k \in 1 .. Len(argv), argv[k] \notin LibcArgs
        PROVE  \E p \in 1 .. Len(args) : args[p] = User(k)
    <3>1. PICK p \in 1 .. Len(args) : args[p].from = k
        BY <1>3, <2>1
    <3>2. args[p].arg = argv[k] /\ args[p] \in Items
        BY <1>0, <1>1, <1>2, <3>1
    <3>3. args[p] = User(k)
        BY <3>1, <3>2 DEF Items, User
    <3> QED BY <3>3
  <2>2. \A p, q \in 1 .. Len(args) :
          p < q /\ args[q].from # 0 => args[p].from < args[q].from
      BY <1>0 DEF Good, Ordered
  <2>3. ASSUME NEW k \in 1 .. Len(argv), argv[k] \notin LibcArgs,
               \/ IsOutput(k)
               \/ Before(k) > 0 /\ argv[Before(k)] = "-include" /\ ~Wrapped(argv[k])
        PROVE  At(k) = At(Before(k)) + 1
    <3>1. PICK b : b = Before(k)
        OBVIOUS
    <3>2. IsPrev(argv, k, b) /\ b \in 0 .. k - 1
        BY <1>0, <3>1, PrevFound DEF IsPrev
    <3>3. b > 0 /\ Operand(argv, need, k, b)
      <4>1. CASE IsOutput(k)
        <5>1. need[k].skip
            BY <1>4, <4>1
        <5>2. b > 0 /\ argv[b] = "-o"
            BY <1>0, <3>2, <5>1, SkipFrom
        <5> QED BY <5>1, <5>2 DEF Operand
      <4>2. CASE ~IsOutput(k)
          BY <2>3, <3>1, <4>2 DEF Operand
      <4> QED BY <4>1, <4>2
    <3>4. PICK p \in 1 .. Len(args) : args[p].from = k
        BY <1>3, <2>3
    <3>5. k # 0 /\ b \in 1 .. k - 1 /\ b # 0
        BY <1>0, <3>2, <3>3
    <3>6. p - 1 \in 1 .. Len(args) /\ args[p - 1].from = b
        BY <1>0, <3>2, <3>3, <3>4, <3>5 DEF Good, Adjacent
    <3>7. At(k) = p /\ At(b) = p - 1
        BY <1>0, <3>4, <3>5, <3>6, AtIs DEF Good
    <3> QED BY <1>0, <3>1, <3>4, <3>7
  <2> QED BY <1>2, <2>1, <2>2, <2>3 DEF UserArgsForwarded
<1>6. ASSUME NEW k \in 1 .. Len(argv), argv[k] \notin LibcArgs, ~IsOutput(k)
      PROVE  IF Wrapped(argv[k]) THEN Language(At(k)) = "c"
             ELSE Language(At(k)) \in {"none", "c++"} /\ (Cpp(argv, k) => Language(At(k)) = "c++")
  <2>1. PICK p \in 1 .. Len(args) : args[p].from = k
      BY <1>3, <1>6
  <2>2. k # 0 /\ ~need[k].skip
      BY <1>0, <1>4, <1>6
  <2>3. At(k) = p
      BY <1>0, <2>1, <2>2, AtIs DEF Good
  <2>4. Proper(args, argv, p, k)
      BY <1>0, <2>1, <2>2 DEF Good, Spoken
  <2>5. \A w : Speaks(args, p, w) => Language(p) = w
      BY <1>0, LanguageIs
  <2> QED BY <2>3, <2>4, <2>5 DEF Proper
<1>7. LanguageOfInputs
  <2> SUFFICES ASSUME NEW k \in 1 .. Len(argv), argv[k] \notin LibcArgs, ~IsOutput(k)
               PROVE  LET own == {i \in 1 .. k - 1 : argv[i] = "-xc++"}
                          last == CHOOSE i \in own : \A y \in own : y <= i
                      IN  IF Wrapped(argv[k]) THEN Language(At(k)) = "c"
                          ELSE /\ Language(At(k)) \in {"none", "c++"}
                               /\ own # {} /\ (\A i \in last + 1 .. k - 1 : ~Wrapped(argv[i]))
                                  => Language(At(k)) = "c++"
      BY DEF LanguageOfInputs
  <2> DEFINE own == {i \in 1 .. k - 1 : argv[i] = "-xc++"}
             last == CHOOSE i \in own : \A y \in own : y <= i
  <2>1. ASSUME own # {}, \A i \in last + 1 .. k - 1 : ~Wrapped(argv[i])
        PROVE  Cpp(argv, k)
    <3>1. PICK h \in own : \A y \in own : y <= h
      <4>1. k \in Nat /\ own \subseteq 1 .. k - 1
          BY <1>0
      <4> HIDE DEF own
      <4> QED BY <2>1, <4>1, GreatestNumber
    <3>2. last \in own
        BY <3>1
    <3>3. last \in 1 .. k - 1 /\ argv[last] = "-xc++"
        BY <3>2
    <3> HIDE DEF last
    <3> QED BY <2>1, <3>3 DEF Cpp
  <2> HIDE DEF own, last
  <2>2. own # {} /\ (\A i \in last + 1 .. k - 1 : ~Wrapped(argv[i])) => Cpp(argv, k)
      BY <2>1
  <2>3. IF Wrapped(argv[k]) THEN Language(At(k)) = "c"
        ELSE /\ Language(At(k)) \in {"none", "c++"}
             /\ own # {} /\ (\A i \in last + 1 .. k - 1 : ~Wrapped(argv[i]))
                => Language(At(k)) = "c++"
      BY <1>6, <2>2
  <2> QED BY <2>3 DEF own, last
<1> QED BY <1>5, <1>7 DEF ArgumentsKeepMeaning

\* For every command line: each argument that is no -libc option reaches xgcc
\* once, in order and next to its operand; every CZet source is compiled as C,
\* and nothing else because of it (czet.c, the second pass of main).
THEOREM MeaningAlwaysKept == ArgsSpec => []ArgumentsKeepMeaning
<1>1. ArgsInit => MeaningInv
    BY DEF ArgsInit, MeaningInv
<1> QED BY <1>1, MeaningStep, MeaningKept, Invariance, PTL DEF ArgsSpec
=============================================================================
