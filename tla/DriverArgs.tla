----------------------------- MODULE DriverArgs -----------------------------
(***************************************************************************)
(* main of src/czet.c after ensure_cache: the choice of the libc, and the  *)
(* argument vector for xgcc, sized by one pass over argv and filled by a   *)
(* second one.                                                             *)
(***************************************************************************)
EXTENDS Arguments

VARIABLES
    argv,
    at,         \* "libc", "count" or "fill", the three loops, or "exec"
    a,          \* the loop index
    libc,       \* the name or path in the last -libc option
    lcroot,     \* some -libc option gave a path
    script,     \* the sysroot in which libc.so was rewritten, or "none"
    nuser, needstd, is_static, wrap_extra, skip_next,
    size,       \* the length of args asked of calloc
    args,       \* the arguments stored: from is their index in argv, 0 for main's
    need        \* history: nuser + wrap_extra and skip_next before each argument

choice == <<libc, lcroot, script>>
counted == <<nuser, needstd, is_static, wrap_extra>>
argVars == <<argv, at, a, choice, counted, skip_next, size, args, need>>

ArgsInit ==
    /\ argv \in Argvs
    /\ at = "libc"
    /\ a = 1
    /\ libc = "musl"
    /\ lcroot = FALSE
    /\ script = "none"
    /\ nuser = 0
    /\ needstd = TRUE
    /\ is_static = FALSE
    /\ wrap_extra = 0
    /\ skip_next = FALSE
    /\ size = 0
    /\ args = <<>>
    /\ need = <<>>

-----------------------------------------------------------------------------
More == a <= Len(argv)
Arg == argv[a]

Named(arg) == CASE arg = "-libc=musl" -> "musl"
                [] arg = "-libc=glibc" -> "glibc"
                [] OTHER -> "/dir"

ChooseForgettingPath ==
    /\ at = "libc" /\ More
    /\ libc' = IF Arg \in LibcArgs THEN Named(Arg) ELSE libc
    /\ lcroot' = (Arg = "-libc=/dir")
    /\ a' = a + 1
    /\ UNCHANGED <<argv, at, script, counted, skip_next, size, args, need>>

\* The libc selection loop.
Choose ==
    /\ at = "libc" /\ More
    /\ libc' = IF Arg \in LibcArgs THEN Named(Arg) ELSE libc
    /\ lcroot' = (lcroot \/ Arg = "-libc=/dir")
    /\ a' = a + 1
    /\ UNCHANGED <<argv, at, script, counted, skip_next, size, args, need>>

Sysroot == IF lcroot THEN "/dir" ELSE libc

\* glibc: the linker script of the sysroot is written again.
Chosen ==
    /\ at = "libc" /\ ~More
    /\ script' = IF libc = "glibc" THEN Sysroot ELSE "none"
    /\ at' = "count"
    /\ a' = 1
    /\ need' = <<[n |-> 0, skip |-> FALSE]>>
    /\ UNCHANGED <<argv, libc, lcroot, counted, skip_next, size, args>>

Wrapped(arg) == arg = "a.ct"

\* What the count pass adds, and skip_next after an argument.
Extra(arg, skip) == IF ~skip /\ Wrapped(arg) THEN 4 ELSE 0
SkipAfter(arg, skip) == ~skip /\ arg = "-o"

CountSkipped ==
    /\ at = "count" /\ More /\ Arg \in LibcArgs
    /\ a' = a + 1
    /\ need' = Append(need, need[a])
    /\ UNCHANGED <<argv, at, choice, counted, skip_next, size, args>>

Count ==
    /\ at = "count" /\ More /\ Arg \notin LibcArgs
    /\ needstd' = (needstd /\ Arg # "-std")
    /\ is_static' = (is_static \/ Arg = "-static")
    /\ wrap_extra' = wrap_extra + Extra(Arg, skip_next)
    /\ skip_next' = SkipAfter(Arg, skip_next)
    /\ nuser' = nuser + 1
    /\ a' = a + 1
    /\ need' = Append(need, [n |-> nuser' + wrap_extra', skip |-> skip_next'])
    /\ UNCHANGED <<argv, at, choice, size, args>>

Own(arg) == [from |-> 0, arg |-> arg]
User(k) == [from |-> k, arg |-> argv[k]]

\* The arguments before the user's: programs, headers and libraries of the
\* toolchain and of the sysroot, then the mode of linking and the dialect.
Toolchain ==
    <<Own("xgcc"), Own("tool"), Own("tool"), Own("tool"), Own("tool"),
      Own("tool"), Own("tool"), Own(Sysroot), Own(Sysroot), Own(Sysroot)>>
Loader(name) == IF name = "musl" THEN "ld-musl" ELSE "ld-linux"
Linking ==
    IF is_static THEN <<Own("-static")>>
    ELSE <<Own("-static-libgcc")>>
         \o (IF libc \in {"musl", "glibc"} THEN <<Own(Loader(libc))>> ELSE <<>>)
Dialect == IF needstd THEN <<Own("-std=czet")>> ELSE <<>>

Size == 14 + (IF needstd THEN 1 ELSE 0) + nuser + 3 + wrap_extra

\* calloc (without memory main ends here), and everything up to the second pass.
Alloc ==
    /\ at = "count" /\ ~More
    /\ size' = Size
    /\ args' = Toolchain \o Linking \o Dialect
    /\ at' = "fill"
    /\ a' = 1
    /\ skip_next' = FALSE
    /\ UNCHANGED <<argv, choice, counted, need>>

FillSkipped ==
    /\ at = "fill" /\ More /\ Arg \in LibcArgs
    /\ a' = a + 1
    /\ UNCHANGED <<argv, at, choice, counted, skip_next, size, args, need>>

StoredForgettingOutput ==
    IF Wrapped(Arg)
    THEN <<Own("-x"), Own("c"), User(a), Own("-x"), Own("none")>>
    ELSE <<User(a)>>
StoredUnclosed ==
    IF ~skip_next /\ Wrapped(Arg)
    THEN <<Own("-x"), Own("c"), User(a)>>
    ELSE <<User(a)>>
\* What the second pass stores for an argument.
Stored ==
    IF ~skip_next /\ Wrapped(Arg)
    THEN <<Own("-x"), Own("c"), User(a), Own("-x"), Own("none")>>
    ELSE <<User(a)>>

Fill ==
    /\ at = "fill" /\ More /\ Arg \notin LibcArgs
    /\ args' = args \o Stored
    /\ skip_next' = SkipAfter(Arg, skip_next)
    /\ a' = a + 1
    /\ UNCHANGED <<argv, at, choice, counted, size, need>>

\* libczet_utils.a of an embedded sysroot, the final NULL, execv.
Exec ==
    /\ at = "fill" /\ ~More
    /\ args' = IF lcroot THEN args ELSE Append(args, Own("utils"))
    /\ at' = "exec"
    /\ UNCHANGED <<argv, a, choice, counted, skip_next, size, need>>

ArgsNext ==
    \/ Choose \/ Chosen
    \/ CountSkipped \/ Count \/ Alloc
    \/ FillSkipped \/ Fill \/ Exec

ArgsSpec == ArgsInit /\ [][ArgsNext]_argVars

-----------------------------------------------------------------------------
Items ==
    [from : Nat,
     arg : Kinds \cup {"xgcc", "tool", "musl", "glibc", "/dir", "-static", "-static-libgcc",
                       "ld-musl", "ld-linux", "-std=czet", "-x", "c", "none", "utils"}]

\* Types; the libc is a path only when lcroot says so.
ArgsTypeOK ==
    /\ argv \in Seq(Kinds)
    /\ at \in {"libc", "count", "fill", "exec"}
    /\ a \in 1 .. Len(argv) + 1
    /\ libc \in {"musl", "glibc", "/dir"}
    /\ lcroot \in BOOLEAN
    /\ libc = "/dir" => lcroot
    /\ nuser \in Nat /\ wrap_extra \in Nat /\ size \in Nat
    /\ needstd \in BOOLEAN /\ is_static \in BOOLEAN /\ skip_next \in BOOLEAN
    /\ args \in Seq(Items)

\* The array of the first pass has room for everything the second one stores
\* and for the final NULL.
ArgsFit == at \in {"fill", "exec"} => Len(args) + 1 <= size

\* The argument before argument k as xgcc counts them, 0 if there is none.
Before(k) ==
    LET js == {j \in 1 .. k - 1 : argv[j] \notin LibcArgs}
    IN  IF js = {} THEN 0 ELSE CHOOSE j \in js : \A i \in js : i <= j

\* Argument k names the output: the one before is an -o that does not.
IsOutput(k) ==
    LET is[i \in 0 .. Len(argv)] ==
            i > 0 /\ Before(i) > 0 /\ argv[Before(i)] = "-o" /\ ~is[Before(i)]
    IN  is[k]

At(k) == CHOOSE p \in 1 .. Len(args) : args[p].from = k

\* The language in force at position p: the last -x before it.
Language(p) ==
    LET xs == {q \in 1 .. p - 1 : args[q].arg \in {"-x", "-xc++"}}
        q == CHOOSE x \in xs : \A y \in xs : y <= x
    IN  IF xs = {} THEN "none"
        ELSE IF args[q].arg = "-x" THEN args[q + 1].arg ELSE "c++"

\* Every argument that is no -libc option is passed on, once and in order, and
\* an option stays next to its operand, unless that is named like a CZet source
\* and the option is not -o.
UserArgsForwarded ==
    at = "exec" =>
        /\ \A k \in 1 .. Len(argv) :
             argv[k] \notin LibcArgs => \E p \in 1 .. Len(args) : args[p] = User(k)
        /\ \A p \in 1 .. Len(args) :
             args[p].from # 0 => args[p].from \in 1 .. Len(argv)
                                 /\ argv[args[p].from] \notin LibcArgs
        /\ \A p, q \in 1 .. Len(args) :
             p < q /\ args[q].from # 0 => args[p].from < args[q].from
        /\ \A k \in 1 .. Len(argv) :
             LET j == Before(k) IN
             /\ argv[k] \notin LibcArgs
             /\ IsOutput(k) \/ (j > 0 /\ argv[j] = "-include" /\ ~Wrapped(argv[k]))
             => At(k) = At(j) + 1

\* Every CZet source is compiled as C, nothing else is because of it, and the
\* user's own -x holds for the arguments up to the next CZet source.
LanguageOfInputs ==
    at = "exec" => \A k \in 1 .. Len(argv) :
        LET j == Before(k)
            own == {i \in 1 .. k - 1 : argv[i] = "-xc++"}
            last == CHOOSE i \in own : \A y \in own : y <= i
        IN  /\ argv[k] \notin LibcArgs
            /\ ~IsOutput(k)
            => IF Wrapped(argv[k]) THEN Language(At(k)) = "c"
               ELSE /\ Language(At(k)) \in {"none", "c++"}
                    /\ own # {} /\ (\A i \in last + 1 .. k - 1 : ~Wrapped(argv[i]))
                       => Language(At(k)) = "c++"

\* The user's arguments reach xgcc with their meaning.
ArgumentsKeepMeaning == UserArgsForwarded /\ LanguageOfInputs

\* The last -libc option decides sysroot, loader, linker script and runtime
\* together, unless it is a name and an earlier one was a path.
OneLibc ==
    at = "exec" =>
        LET opts == {k \in 1 .. Len(argv) : argv[k] \in LibcArgs}
            last == CHOOSE k \in opts : \A j \in opts : j <= k
            want == IF opts = {} THEN "musl" ELSE Named(argv[last])
            has(x) == \E p \in 1 .. Len(args) : args[p] = Own(x)
            mixed == want # "/dir" /\ \E k \in opts : argv[k] = "-libc=/dir"
        IN  ~mixed => /\ Sysroot = want
                      /\ script = (IF want = "glibc" THEN "glibc" ELSE "none")
                      /\ \A n \in {"musl", "glibc"} :
                           has(Loader(n)) = (want = n /\ ~has("-static"))
                      /\ has("utils") = (want # "/dir")
=============================================================================
