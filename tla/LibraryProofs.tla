--------------------------- MODULE LibraryProofs ----------------------------
(***************************************************************************)
(* Proofs about three sequential parts of the library, each with its own   *)
(* specification: the arena for every width, capacity and request, and,    *)
(* as MCLibrary instantiates them, the slices V and the string builder S.  *)
(***************************************************************************)
EXTENDS MCLibrary, SequenceTheorems, TLAPS

-----------------------------------------------------------------------------
(***************************************************************************)
(* arena.h: the blocks of an arena that ends on every alignment asked of it *)
(***************************************************************************)
\* Multiplication by a natural number keeps the order.
LEMMA TimesMono == \A a, x, y \in Nat : x <= y => a * x <= a * y
OBVIOUS

\* A number below the modulus is its own remainder.
LEMMA SmallMod == \A x, w \in Nat : x < w => x % w = x
OBVIOUS

\* Rounding up to a multiple of a, below a multiple of a, stays below it.
LEMMA RoundUp ==
    ASSUME NEW a \in Nat \ {0}, NEW p \in Nat, NEW e \in Nat,
           p <= e, e % a = 0, e + a <= Word, Word \in Nat
    PROVE  AlignUp(p, a) \in Nat /\ p <= AlignUp(p, a) /\ AlignUp(p, a) <= e
<1> DEFINE q == p + a - 1
<1>1. q \in Nat /\ q < Word /\ q % Word = q
    OBVIOUS
<1>2. q % a \in 0 .. a - 1 /\ q \div a \in Nat /\ q = a * (q \div a) + (q % a)
    BY <1>1
<1>3. e \div a \in Nat /\ e = a * (e \div a)
    OBVIOUS
<1>4. AlignUp(p, a) = a * (q \div a)
  <2>1. AlignUp(p, a) = q - (q % a)
      BY <1>1, Zenon DEF AlignUp
  <2> QED
      BY <1>2, <2>1
<1>5. q \div a <= e \div a
  <2>1. ASSUME (e \div a) + 1 <= q \div a PROVE FALSE
    <3>1. a * ((e \div a) + 1) <= a * (q \div a)
        BY <1>2, <1>3, <2>1, TimesMono
    <3>2. a * ((e \div a) + 1) = a * (e \div a) + a
        BY <1>3
    <3> QED
        BY <1>2, <1>3, <3>1, <3>2
  <2> QED
      BY <1>2, <1>3, <2>1
<1>6. a * (q \div a) <= a * (e \div a)
    BY <1>2, <1>3, <1>5, TimesMono
<1> QED
    BY <1>2, <1>3, <1>4, <1>6

-----------------------------------------------------------------------------
\* The arena is one malloc returned, with a capacity asked for; its blocks
\* end where the bump pointer is.
Shape ==
    /\ base = Base => \E c \in Caps : end = Base + c
    /\ base = Null => ptr = Null
    /\ base <= ptr /\ ptr <= end

Blocks ==
    /\ \A b \in blocks : b.at \in Nat /\ b.size \in Nat /\ base <= b.at /\ b.at + b.size <= ptr
    /\ \A b, c \in blocks : b # c => Apart(b, c)

IInv == TypeOK /\ (Rounded => Shape /\ Blocks)

\* An arena that was not initialised holds nothing.
LEMMA InitIInv == Init => IInv
BY MallocAssumption DEF Init, IInv, TypeOK, Shape, Blocks, Null, Ulong

\* Where a block goes: after every earlier one and before the end.
LEMMA AllocIInv ==
    ASSUME IInv, NEW size \in Ulong, NEW align \in Aligns, AllocAs(size, align, size)
    PROVE  IInv'
<1> USE MallocAssumption, ArgsAssumption DEF Ulong
<1> DEFINE al == Align(align)
           at == AlignUp(ptr, al)
<1>0. al \in Nat \ {0} /\ ptr \in Nat /\ end \in Nat /\ size \in Nat /\ size < Word
    BY DEF Align, IInv, TypeOK
<1>1. CASE Fail
    BY <1>1 DEF Fail, IInv, TypeOK, Shape, Blocks, Null
<1>2. CASE /\ base # Null /\ PowerOfTwo(al) /\ Fits(size, at)
           /\ ptr' = (at + size) % Word /\ ret' = at
           /\ blocks' = blocks \cup {[at |-> at, size |-> size]}
           /\ base' = base /\ end' = end
  <2>1. at \in 0 .. Word - 1
    <3>1. (ptr + al - 1) % Word \in 0 .. Word - 1
        BY <1>0
    <3>2. \A q \in 0 .. Word - 1 : q % al \in 0 .. al - 1 /\ q - (q % al) \in 0 .. Word - 1
        BY <1>0
    <3> QED
        BY <3>1, <3>2 DEF AlignUp
  <2>2. TypeOK' /\ (Rounded => Shape' /\ Blocks')
    <3>1. ptr' \in Nat
        BY <1>0, <1>2, <2>1
    <3>2. ASSUME Rounded PROVE Shape' /\ Blocks'
      <4>1. base = Base /\ base <= ptr /\ ptr <= end /\ Base \in Nat /\ Blocks
          BY <1>2, <3>2 DEF IInv, TypeOK, Shape
      <4>2. end % al = 0 /\ end + al <= Word
          BY <1>2, <3>2, <4>1 DEF IInv, Shape, Rounded
      <4>3. ptr <= at /\ at <= end /\ at \in Nat
          BY <1>0, <4>1, <4>2, RoundUp
      <4>4. (end - at) % Word = end - at
        <5> HIDE DEF al, at
        <5>1. end - at \in Nat /\ end - at < Word /\ Word \in Nat
            BY <1>0, <4>2, <4>3
        <5> QED
            BY <5>1, SmallMod
      <4>5. at + size <= end /\ ptr' = at + size
          BY <1>0, <1>2, <4>2, <4>3, <4>4 DEF Fits
      <4>6. Shape'
          BY <1>0, <1>2, <3>2, <4>1, <4>3, <4>5 DEF IInv, Shape, Null
      <4>7. Blocks'
        <5> DEFINE new == [at |-> at, size |-> size]
        <5>1. new.at = at /\ new.size = size /\ blocks' = blocks \cup {new}
            BY <1>2
        <5>2. \A b \in blocks : b.at \in Nat /\ b.size \in Nat /\ base <= b.at
                                /\ b.at + b.size <= at /\ b.at + b.size <= ptr'
            BY <1>0, <4>1, <4>3, <4>5 DEF Blocks
        <5> HIDE DEF new
        <5>3. \A b \in blocks : Apart(b, new) /\ Apart(new, b)
            BY <5>1, <5>2 DEF Apart
        <5>4. \A b, c \in blocks' : b # c => Apart(b, c)
            BY <4>1, <5>1, <5>3 DEF Blocks
        <5>5. base <= at /\ at + size <= ptr'
            BY <1>0, <4>1, <4>3, <4>5
        <5> QED
            BY <1>0, <1>2, <4>3, <5>1, <5>2, <5>4, <5>5 DEF Blocks
      <4> QED
          BY <4>6, <4>7
    <3>3. TypeOK'
      <4>1. Rounded => base' <= ptr' /\ ptr' <= end'
          BY <3>2 DEF Shape
      <4> QED
          BY <1>2, <2>1, <3>1, <4>1 DEF IInv, TypeOK
    <3> QED
        BY <3>2, <3>3
  <2> QED
      BY <2>2 DEF IInv
<1> QED
    BY <1>1, <1>2 DEF AllocAs

\* arena_calloc asks for the product only when it does not wrap.
LEMMA CallocIInv ==
    ASSUME IInv, NEW n \in Counts, NEW size \in Sizes, NEW align \in Aligns,
           Calloc(n, size, align)
    PROVE  IInv'
<1> USE MallocAssumption, ArgsAssumption DEF Ulong
<1>1. CASE Fail
    BY <1>1 DEF Fail, IInv, TypeOK, Shape, Blocks, Null
<1>2. CASE ~(size # 0 /\ n > (Word - 1) \div size)
           /\ AllocAs((n * size) % Word, align, n * size)
  <2>1. n \in Nat /\ size \in Nat /\ n * size \in Nat
      OBVIOUS
  <2>2. n * size <= Word - 1
    <3>1. CASE size = 0
        BY <2>1, <3>1
    <3>2. CASE size # 0
      <4> DEFINE d == (Word - 1) \div size
      <4>1. d \in Nat /\ size * d <= Word - 1
          BY <2>1, <3>2
      <4>2. n <= d
          BY <1>2, <2>1, <3>2, <4>1
      <4>3. size * n <= size * d
          BY <2>1, <4>1, <4>2, TimesMono
      <4> QED
          BY <2>1, <4>1, <4>3
    <3> QED
        BY <3>1, <3>2
  <2>3. (n * size) % Word = n * size /\ n * size \in Ulong
      BY <2>1, <2>2
  <2> QED
      BY <1>2, <2>3, AllocIInv
<1> QED
    BY <1>1, <1>2 DEF Calloc

\* The invariant holds in every reachable state.
THEOREM IInvHolds == Spec => []IInv
<1> USE MallocAssumption, ArgsAssumption
<1>1. IInv /\ [Next]_vars => IInv'
  <2> SUFFICES ASSUME IInv, [Next]_vars PROVE IInv'
      OBVIOUS
  <2>1. ASSUME NEW c \in Caps, NEW ok \in BOOLEAN, InitArena(c, ok) PROVE IInv'
      BY <2>1 DEF InitArena, IInv, TypeOK, Shape, Blocks, Null, Ulong
  <2>2. ASSUME NEW size \in Sizes, NEW align \in Aligns, Alloc(size, align) PROVE IInv'
      BY <2>2, AllocIInv DEF Alloc
  <2>3. CASE Reset
      BY <2>3 DEF Reset, IInv, TypeOK, Shape, Blocks, Null, Ulong
  <2>4. CASE Free
      BY <2>4 DEF Free, IInv, TypeOK, Shape, Blocks, Null, Ulong
  <2>5. CASE UNCHANGED vars
      BY <2>5 DEF vars, IInv, TypeOK, Shape, Blocks
  <2> QED
      BY <2>1, <2>2, <2>3, <2>4, <2>5, CallocIInv DEF Next
<1> QED
    BY InitIInv, <1>1, PTL DEF Spec

\* The fields of struct arena keep their types and, in a rounded arena, their
\* order base <= ptr <= end.
THEOREM TypeCorrect == Spec => []TypeOK
<1>1. IInv => TypeOK
    BY DEF IInv
<1> QED
    BY IInvHolds, <1>1, PTL

\* Blocks of arena_alloc and arena_calloc lie inside a rounded arena and
\* never overlap, for any sequence of calls.
THEOREM BlocksStayInside == Spec => []BlocksInside
<1>1. IInv => BlocksInside
  <2> SUFFICES ASSUME IInv, Rounded
               PROVE  /\ \A b \in blocks : base <= b.at /\ b.at + b.size <= end
                      /\ \A b, c \in blocks : b # c => Apart(b, c)
      BY DEF BlocksInside
  <2> QED
      BY DEF IInv, TypeOK, Shape, Blocks
<1> QED
    BY IInvHolds, <1>1, PTL

\* arena_alloc of a rounded arena refuses only what no aligned address left in
\* it has room for: rounding up lands on the first of them.
THEOREM NeverRefusesWhatFits ==
    ASSUME Rounded
    PROVE  Spec => RefusedOnlyWhenFull
<1> DEFINE Served ==
             \A size \in Sizes, align \in Aligns :
                /\ base # Null
                /\ PowerOfTwo(Align(align))
                /\ \E p \in ptr .. end : p % Align(align) = 0 /\ p + size <= end
                => (Alloc(size, align) => ret' # Null)
<1>1. IInv => Served
  <2> SUFFICES ASSUME IInv, NEW size \in Sizes, NEW align \in Aligns,
                      base # Null, PowerOfTwo(Align(align)),
                      NEW p \in ptr .. end, p % Align(align) = 0, p + size <= end,
                      Alloc(size, align)
               PROVE  ret' # Null
      OBVIOUS
  <2>1. PICK al, at : al = Align(align) /\ at = AlignUp(ptr, al)
      OBVIOUS
  <2>2. /\ al \in Nat \ {0} /\ ptr \in Nat /\ end \in Nat /\ size \in Nat
        /\ Word \in Nat /\ Base \in Nat \ {0}
    <3>1. Aligns \subseteq Nat /\ Sizes \subseteq Nat
        BY MallocAssumption, ArgsAssumption DEF Ulong
    <3> QED
        BY <2>1, <3>1, MallocAssumption DEF Align, IInv, TypeOK, Ulong
  <2>3. base = Base /\ Base <= ptr /\ \E c \in Caps : end = Base + c
      BY DEF IInv, TypeOK, Shape
  <2>4. end + al <= Word
      BY <2>1, <2>3 DEF Rounded
  <2>5. p \in Nat /\ ptr <= p /\ p <= end /\ p % al = 0 /\ p + al <= Word
      BY <2>1, <2>2, <2>4
  <2>6. at \in Nat /\ ptr <= at /\ at <= p
      BY <2>1, <2>2, <2>5, RoundUp
  <2>7. (end - at) % Word = end - at
    <3>1. end - at \in Nat /\ end - at < Word
        BY <2>2, <2>4, <2>5, <2>6
    <3> QED
        BY <2>2, <3>1, SmallMod
  <2>8. Fits(size, at)
      BY <2>2, <2>5, <2>6, <2>7 DEF Fits
  <2>9. ret' = at
      BY <2>1, <2>8 DEF Alloc, AllocAs
  <2> QED
      BY <2>2, <2>3, <2>6, <2>9 DEF Null
<1> QED
    BY IInvHolds, <1>1, PTL DEF RefusedOnlyWhenFull

-----------------------------------------------------------------------------
(***************************************************************************)
(* slice.h.                                                                *)
(***************************************************************************)
\* The elements a view of l elements from s shows.
LEMMA ShownElements ==
    \A s, l \in Nat : {s + k : k \in 0 .. l - 1} = s .. s + l - 1
<1> TAKE s, l \in Nat
<1>1. ASSUME NEW x \in s .. s + l - 1 PROVE x \in {s + k : k \in 0 .. l - 1}
  <2>1. x - s \in 0 .. l - 1 /\ x = s + (x - s)
    OBVIOUS
  <2> QED BY <2>1
<1> QED BY <1>1

\* The inductive invariant of slice.h: the view is an interval of the lender's
\* array and what was asked for is that interval, unless it was narrowed in place.
ViewInv ==
    /\ view \in [set : BOOLEAN, start : Nat, len : Nat]
    /\ ~view.set => view.len = 0
    /\ view.start + view.len <= Lent
    /\ inplace => view.len = 0
    /\ ~inplace => wanted = view.start .. view.start + view.len - 1
    /\ elem # SliceWord => elem \in view.start .. view.start + view.len - 1

\* No view shows nothing.
LEMMA ViewStart == V!Init => ViewInv
BY SliceAssumption DEF V!Init, ViewInv, V!Nothing, V!None

\* slice_make, slice_sub and slice_at keep it, whatever the offset and length.
LEMMA ViewStep == ViewInv /\ [V!Next]_(V!vars) => ViewInv'
<1> SUFFICES ASSUME ViewInv, [V!Next]_(V!vars) PROVE ViewInv'
  OBVIOUS
<1> USE SliceAssumption DEF V!Nothing, V!None, V!Ulong
<1>1. ASSUME NEW n \in {0, Lent}, V!Make(n) PROVE ViewInv'
  BY <1>1 DEF V!Make, ViewInv
<1>2. ASSUME NEW n \in V!Ulong, V!At(n) PROVE ViewInv'
  <2>1. CASE ~view.set \/ n >= view.len
    BY <1>2, <2>1 DEF V!At, ViewInv
  <2>2. CASE view.set /\ n < view.len
    <3>1. view.start + n \in 0 .. SliceWord - 1
      BY <2>2 DEF ViewInv
    <3>2. (view.start + n) % SliceWord = view.start + n
      BY <3>1
    <3>3. elem' = view.start + n /\ view' = view /\ wanted' = wanted /\ inplace' = inplace
      BY <1>2, <2>2, <3>2 DEF V!At, ViewInv
    <3> QED BY <2>2, <3>3 DEF ViewInv
  <2> QED BY <2>1, <2>2 DEF ViewInv
<1>3. ASSUME NEW off \in V!Ulong, NEW n \in V!Ulong, V!Sub(off, n) PROVE ViewInv'
  <2> DEFINE s == view.start
             l == view.len
  <2>0. s \in Nat /\ l \in Nat /\ off \in Nat /\ n \in Nat /\ s + off \in Nat
    BY DEF ViewInv
  <2>1. wanted' = (s + off .. s + off + n - 1) \cap (s .. s + l - 1)
    <3>1. {s + off + k : k \in 0 .. n - 1} = s + off .. s + off + n - 1
      BY <2>0, ShownElements
    <3>2. {s + k : k \in 0 .. l - 1} = s .. s + l - 1
      BY <2>0, ShownElements
    <3> QED BY <1>3, <3>1, <3>2 DEF V!Sub, V!Asked, V!Shown
  <2>i. inplace' = FALSE
    BY <1>3 DEF V!Sub
  <2>2. CASE ~view.set \/ off >= l
    <3>1. wanted' = {}
      BY <2>0, <2>1, <2>2 DEF ViewInv
    <3>2. view' = [set |-> FALSE, start |-> 0, len |-> 0] /\ elem' = SliceWord
      BY <1>3, <2>2 DEF V!Sub
    <3> QED BY <2>i, <3>1, <3>2 DEF ViewInv
  <2>3. CASE view.set /\ off < l
    <3> DEFINE m == V!Clamped(off, n)
    <3>1. m \in Nat /\ m <= n /\ m <= l - off /\ (m = n \/ m = l - off)
      BY <2>0, <2>3 DEF V!Clamped
    <3>2. view' = [set |-> TRUE, start |-> s + off, len |-> m] /\ elem' = SliceWord
      BY <1>3, <2>0, <2>3 DEF V!Sub
    <3> HIDE DEF m
    <3>3. wanted' = s + off .. s + off + m - 1
      BY <2>0, <2>1, <2>3, <3>1
    <3>4. s + off + m <= Lent
      BY <2>0, <2>3, <3>1 DEF ViewInv
    <3> QED BY <2>0, <2>i, <3>1, <3>2, <3>3, <3>4 DEF ViewInv
  <2> QED BY <2>2, <2>3 DEF ViewInv
<1>4. ASSUME NEW off \in V!Ulong, NEW n \in V!Ulong, V!SubInPlace(off, n) PROVE ViewInv'
  BY <1>4 DEF V!SubInPlace, ViewInv
<1>5. CASE UNCHANGED V!vars
  BY <1>5 DEF V!vars, ViewInv
<1> QED BY <1>1, <1>2, <1>3, <1>4, <1>5 DEF V!Next

\* Views of views stay inside the lender's array and show what was asked for,
\* nothing after a slice_sub in place, for every width of unsigned long and every
\* array.
THEOREM ViewsStayInside == V!Spec => []ViewInside
<1>1. ViewInv => ViewInside
  <2> SUFFICES ASSUME ViewInv PROVE ViewInside
    OBVIOUS
  <2>1. view.start \in Nat /\ view.len \in Nat
    BY DEF ViewInv
  <2>2. {view.start + k : k \in 0 .. view.len - 1} = view.start .. view.start + view.len - 1
    BY <2>1, ShownElements
  <2>3. V!Shown = view.start .. view.start + view.len - 1
    BY <2>2 DEF V!Shown
  <2>4. V!Shown \subseteq 0 .. Lent - 1
    BY <2>1, <2>3, SliceAssumption DEF ViewInv
  <2>5. elem # SliceWord => elem \in view.start .. view.start + view.len - 1
    BY DEF ViewInv
  <2>6. CASE inplace
    <3>1. view.start .. view.start + view.len - 1 = {}
      BY <2>1, <2>6 DEF ViewInv
    <3> QED BY <2>3, <2>4, <2>5, <2>6, <3>1, Zenon DEF ViewInside, V!ViewInside, V!None
  <2>7. CASE ~inplace
    <3>1. wanted = view.start .. view.start + view.len - 1
      BY <2>7 DEF ViewInv
    <3> QED BY <2>3, <2>4, <2>5, <2>7, <3>1, Zenon DEF ViewInside, V!ViewInside, V!None
  <2> QED BY <2>6, <2>7
<1> QED BY <1>1, ViewStart, ViewStep, PTL DEF V!Spec

-----------------------------------------------------------------------------
(***************************************************************************)
(* str.h.                                                                  *)
(***************************************************************************)
\* What a cell of the buffer may hold.
Cells == Chars \cup {Nul, Junk}

\* Types, and the room realloc may have given.
StrTypes ==
    /\ data \in Seq(Cells) /\ Len(data) <= MaxMem
    /\ len \in Nat /\ need \in Nat /\ ncap \in Nat /\ extra \in Nat
    /\ text \in Seq(Chars)
    /\ arg \in Seq(Chars) /\ MaxMem + Len(arg) + 1 < StrWord
    /\ op \in {"none", "push", "fmt", "reserve"}
    /\ fresh \in BOOLEAN /\ kept \in BOOLEAN

\* The cells of the text, and the Nul behind them.
Written ==
    /\ len = Len(text)
    /\ fresh => len = 0
    /\ ~fresh =>
          /\ len < Len(data)
          /\ data[len + 1] = Nul
          /\ \A k \in 1 .. len : data[k] = text[k]

\* The locals of a call under way.
Locals ==
    op # "none" =>
        /\ need = (len + extra + 1) % StrWord
        /\ op # "reserve" => extra = Len(arg)
        /\ need <= StrWord \div 2 => ncap >= 1

\* The inductive invariant of str.h.
StrInv == StrTypes /\ Written /\ Locals /\ kept

\* str_init.
LEMMA StrStart == S!Init => StrInv
<1> SUFFICES ASSUME S!Init PROVE StrInv
  OBVIOUS
<1>1. <<>> \in Seq(Cells) /\ <<>> \in Seq(Chars) /\ Len(<<>>) = 0
  BY EmptySeq
<1> QED BY <1>1, StrAssumption DEF S!Init, StrInv, StrTypes, Written, Locals

\* A call of str_reserve, on behalf of itself or of a push.
LEMMA EnterKeeps ==
    ASSUME StrInv, NEW o \in {"push", "fmt", "reserve"},
           NEW t \in Seq(Chars), MaxMem + Len(t) + 1 < StrWord, NEW e \in Nat,
           o # "reserve" => e = Len(t), S!Enter(o, t, e)
    PROVE  StrInv'
<1> USE StrAssumption
<1>1. need' \in Nat /\ need' = (len' + extra' + 1) % StrWord /\ len' = len /\ extra' = e
  BY DEF S!Enter, S!Need, StrInv, StrTypes
<1>2. ncap' \in Nat /\ ncap' >= 1
  <2>1. data # <<>> => Len(data) \in Nat \ {0}
    BY EmptySeq DEF StrInv, StrTypes
  <2> QED BY <2>1 DEF S!Enter, S!cap
<1>3. StrTypes'
  BY <1>1, <1>2 DEF S!Enter, StrInv, StrTypes
<1>4. Written' /\ kept'
  BY DEF S!Enter, StrInv, Written
<1>5. Locals'
  BY <1>1, <1>2 DEF S!Enter, Locals
<1> QED BY <1>3, <1>4, <1>5 DEF StrInv

\* Doubling a capacity below a need of at most half the width does not wrap.
LEMMA DoubleKeeps == ASSUME StrInv, S!Double PROVE StrInv'
<1> USE StrAssumption
<1>1. ncap' = (ncap * 2) % StrWord /\ ncap < need /\ op # "none"
  BY DEF S!Double, S!Growing
<1>2. ncap' \in Nat
  BY <1>1 DEF StrInv, StrTypes
<1>3. ASSUME need <= StrWord \div 2 PROVE ncap' >= 1
  <2>1. ncap >= 1 /\ ncap \in Nat /\ need \in Nat
    BY <1>1, <1>3 DEF StrInv, StrTypes, Locals
  <2>2. ncap * 2 < StrWord /\ ncap * 2 >= 1
    BY <1>1, <1>3, <2>1
  <2>3. (ncap * 2) % StrWord = ncap * 2
    BY <2>1, <2>2
  <2> QED BY <1>1, <2>2, <2>3
<1> QED BY <1>2, <1>3 DEF S!Double, StrInv, StrTypes, Written, Locals

\* realloc keeps the cells there were.
LEMMA ReallocKeeps == ASSUME StrInv, S!Realloc PROVE StrInv'
<1> USE StrAssumption
<1>1. data' = [k \in 1 .. ncap |-> IF k <= Len(data) THEN data[k] ELSE Junk]
  BY DEF S!Realloc, S!cap
<1>2. Len(data) \in Nat /\ ncap \in Nat /\ Len(data) < ncap /\ ncap <= MaxMem
  BY LenProperties DEF StrInv, StrTypes, S!Realloc, S!Growing, S!cap
<1>3. \A k \in 1 .. Len(data) : data[k] \in Cells
  BY ElementOfSeq DEF StrInv, StrTypes
<1>4. data' \in [1 .. ncap -> Cells]
  BY <1>1, <1>2, <1>3 DEF Cells
<1>5. data' \in Seq(Cells) /\ Len(data') = ncap
  BY <1>2, <1>4
<1>6. \A k \in 1 .. Len(data) : data'[k] = data[k]
  BY <1>1, <1>2
<1>7. StrTypes'
  BY <1>2, <1>5 DEF S!Realloc, StrInv, StrTypes
<1>8. Written'
  <2>1. len' = len /\ text' = text /\ fresh' = fresh
    BY DEF S!Realloc
  <2>2. ASSUME ~fresh
        PROVE  /\ len < ncap /\ data'[len + 1] = Nul
               /\ \A k \in 1 .. len : data'[k] = text[k]
    <3>1. len \in Nat /\ len < Len(data) /\ data[len + 1] = Nul
      BY <2>2 DEF StrInv, StrTypes, Written
    <3>2. len + 1 \in 1 .. Len(data) /\ 1 .. len \subseteq 1 .. Len(data)
      BY <1>2, <3>1
    <3> QED BY <1>2, <1>6, <2>2, <3>1, <3>2 DEF StrInv, Written
  <2> QED BY <1>5, <2>1, <2>2 DEF StrInv, Written
<1> QED BY <1>7, <1>8 DEF S!Realloc, StrInv, Locals

\* A push has the room it asked for, because its sum does not wrap.
LEMMA FinishKeeps == ASSUME StrInv, S!Finish PROVE StrInv'
<1> USE StrAssumption
<1>0. /\ Len(data) \in Nat /\ len \in Nat /\ extra \in Nat /\ need \in Nat
      /\ op # "none" /\ need <= Len(data) /\ need = (len + extra + 1) % StrWord
  BY LenProperties DEF StrInv, StrTypes, Locals, S!Finish, S!Growing, S!cap
<1>1. len + extra + 1 < StrWord => Len(data) > len + extra
  BY <1>0
<1>2. kept' = TRUE
  <2>1. kept' = (kept /\ (Len(data) > len + extra \/ len + extra + 1 >= StrWord))
    BY DEF S!Finish, S!cap
  <2>2. Len(data) > len + extra \/ len + extra + 1 >= StrWord
    BY <1>0, <1>1
  <2> QED BY <2>1, <2>2 DEF StrInv
<1>3. CASE op = "reserve"
  BY <1>2, <1>3 DEF S!Finish, StrInv, StrTypes, Written, Locals
<1>4. CASE op # "reserve"
  <2> DEFINE n == Len(arg)
  <2>1. /\ n \in Nat /\ extra = n /\ text \in Seq(Chars) /\ arg \in Seq(Chars)
        /\ len = Len(text) /\ Len(data) <= MaxMem /\ MaxMem + n + 1 < StrWord
    BY <1>0, <1>4, LenProperties DEF StrInv, StrTypes, Written, Locals
  <2>2. len <= MaxMem
    BY <1>0, <2>1 DEF StrInv, Written, StrTypes
  <2>3. len + n < Len(data)
    BY <1>0, <1>1, <2>1, <2>2
  <2>4. /\ data' = [k \in 1 .. Len(data) |->
                       IF k \in len + 1 .. len + n THEN arg[k - len]
                       ELSE IF k = len + n + 1 THEN Nul ELSE data[k]]
        /\ len' = len + n /\ text' = text \o arg /\ fresh' = FALSE /\ op' = "none"
        /\ UNCHANGED <<arg, need, ncap, extra>>
    BY <1>4 DEF S!Finish, S!Store, S!cap
  <2>5. /\ text' \in Seq(Chars) /\ Len(text') = len + n
        /\ \A k \in 1 .. len + n : text'[k] = IF k <= len THEN text[k] ELSE arg[k - len]
    BY <2>1, <2>4, ConcatProperties
  <2>6. /\ \A k \in 1 .. Len(data) : data[k] \in Cells
        /\ \A k \in 1 .. n : arg[k] \in Cells
    BY <2>1, ElementOfSeq DEF StrInv, StrTypes, Cells
  <2>7. data' \in [1 .. Len(data) -> Cells]
    <3>1. ASSUME NEW k \in 1 .. Len(data) PROVE data'[k] \in Cells
      <4>1. CASE k \in len + 1 .. len + n
        <5>1. k - len \in 1 .. n
          BY <1>0, <2>1, <4>1
        <5> QED BY <2>4, <2>6, <4>1, <5>1
      <4>2. CASE k \notin len + 1 .. len + n
        BY <2>4, <2>6, <4>2 DEF Cells
      <4> QED BY <4>1, <4>2
    <3> QED BY <2>4, <3>1
  <2>8. data' \in Seq(Cells) /\ Len(data') = Len(data)
    BY <1>0, <2>7
  <2>9. ASSUME NEW k \in 1 .. len + n PROVE data'[k] = text'[k]
    <3>1. CASE k <= len
      <4>1. ~fresh /\ k \in 1 .. len
        BY <1>0, <2>1, <2>9, <3>1 DEF StrInv, Written, StrTypes
      <4>2. data[k] = text[k]
        BY <4>1 DEF StrInv, Written
      <4>3. data'[k] = data[k]
        <5>0. len < Len(data) /\ n \in Nat
          BY <1>0, <2>1, <2>3
        <5> HIDE DEF n
        <5>1. k \in 1 .. Len(data) /\ k \notin len + 1 .. len + n /\ k # len + n + 1
          BY <1>0, <4>1, <5>0
        <5> QED BY <2>4, <5>1
      <4> QED BY <2>5, <2>9, <3>1, <4>2, <4>3
    <3>2. CASE k > len
      <4>1. k \in 1 .. Len(data) /\ k \in len + 1 .. len + n
        BY <1>0, <2>1, <2>3, <2>9, <3>2
      <4> QED BY <1>0, <2>1, <2>4, <2>5, <2>9, <3>2, <4>1
    <3> QED BY <1>0, <2>1, <3>1, <3>2
  <2>10. data'[len + n + 1] = Nul
    <3>1. len + n + 1 \in 1 .. Len(data) /\ len + n + 1 \notin len + 1 .. len + n
      BY <1>0, <2>1, <2>3, SMTT(30)
    <3> QED BY <2>4, <3>1
  <2>11. Written'
    BY <1>0, <2>1, <2>3, <2>4, <2>5, <2>8, <2>9, <2>10 DEF Written
  <2>12. StrTypes'
    <3>1. data' \in Seq(Cells) /\ Len(data') <= MaxMem /\ len' \in Nat
      BY <1>0, <2>1, <2>4, <2>8
    <3> QED BY <1>2, <2>4, <2>5, <3>1 DEF StrInv, StrTypes
  <2> QED BY <1>2, <2>4, <2>11, <2>12 DEF StrInv, Locals
<1> QED BY <1>3, <1>4

\* str_clear puts the Nul into the first cell, if there is one.
LEMMA ClearKeeps == ASSUME StrInv, S!Clear PROVE StrInv'
<1>0. Len(data) \in Nat /\ \A k \in 1 .. Len(data) : data[k] \in Cells
  BY LenProperties, ElementOfSeq DEF StrInv, StrTypes
<1>1. data' = [k \in 1 .. Len(data) |-> IF k = 1 THEN Nul ELSE data[k]]
  BY DEF S!Clear, S!cap
<1>2. data' \in [1 .. Len(data) -> Cells]
  BY <1>0, <1>1 DEF Cells
<1>3. data' \in Seq(Cells) /\ Len(data') = Len(data)
  BY <1>0, <1>2
<1>4. <<>> \in Seq(Chars) /\ Len(<<>>) = 0
  BY EmptySeq
<1>5. ~fresh' => Len(data) # 0
  <2>1. fresh' = (fresh /\ data = <<>>)
    BY DEF S!Clear
  <2>2. data # <<>> => Len(data) # 0
    BY EmptySeq DEF StrInv, StrTypes
  <2>3. ~fresh => Len(data) # 0
    BY <1>0 DEF StrInv, StrTypes, Written
  <2> QED BY <2>1, <2>2, <2>3
<1>6. Written'
  <2>1. len' = 0 /\ text' = <<>>
    BY DEF S!Clear
  <2>2. ASSUME ~fresh' PROVE 0 < Len(data) /\ data'[1] = Nul
    <3>1. 1 \in 1 .. Len(data)
      BY <1>0, <1>5, <2>2
    <3> QED BY <1>0, <1>1, <3>1
  <2> QED BY <1>3, <1>4, <2>1, <2>2 DEF Written
<1>7. StrTypes'
  BY <1>3, <1>4 DEF S!Clear, StrInv, StrTypes
<1> QED BY <1>6, <1>7 DEF S!Clear, StrInv, Locals

\* Every step keeps the invariant.
LEMMA StrStep == StrInv /\ [S!Next]_(S!vars) => StrInv'
<1> SUFFICES ASSUME StrInv, [S!Next]_(S!vars) PROVE StrInv'
  OBVIOUS
<1>1. ASSUME NEW t \in Texts, S!Push(t) \/ S!PushFmt(t) PROVE StrInv'
  <2>1. t \in Seq(Chars) /\ MaxMem + Len(t) + 1 < StrWord /\ Len(t) \in Nat
    BY StrAssumption, LenProperties
  <2> QED BY <1>1, <2>1, EnterKeeps DEF S!Push, S!PushFmt
<1>2. ASSUME NEW e \in Extras, S!ReserveOnly(e) PROVE StrInv'
  <2>1. <<>> \in Seq(Chars) /\ Len(<<>>) = 0 /\ e \in Nat
    BY StrAssumption, EmptySeq
  <2>2. MaxMem + 0 + 1 < StrWord
    BY StrAssumption DEF StrInv, StrTypes
  <2> QED BY <1>2, <2>1, <2>2, EnterKeeps DEF S!ReserveOnly
<1>3. CASE S!ReallocFail
  BY <1>3 DEF S!ReallocFail, StrInv, StrTypes, Written, Locals
<1>4. CASE S!Free
  <2>1. <<>> \in Seq(Chars) /\ <<>> \in Seq(Cells) /\ Len(<<>>) = 0
    BY EmptySeq
  <2> QED BY <1>4, <2>1, StrAssumption DEF S!Free, StrInv, StrTypes, Written, Locals
<1>5. CASE UNCHANGED S!vars
  BY <1>5 DEF S!vars, StrInv, StrTypes, Written, Locals
<1> QED BY <1>1, <1>2, <1>3, <1>4, <1>5, DoubleKeeps, ReallocKeeps, FinishKeeps, ClearKeeps
        DEF S!Next

\* str_cstr shows exactly the text pushed, except in a string that was only ever
\* reserved, str_reserve makes the room it reports and the doubling ends, for
\* every first capacity, width and memory.
THEOREM TextAndRoomKept == S!Spec => []TextAndRoom
<1>1. StrInv => TextAndRoom
  <2> SUFFICES ASSUME StrInv PROVE TextAndRoom
    OBVIOUS
  <2>0. /\ Len(data) \in Nat /\ len \in Nat /\ text \in Seq(Chars) /\ len = Len(text)
        /\ data \in Seq(Cells) /\ ncap \in Nat /\ need \in Nat
    BY LenProperties DEF StrInv, StrTypes, Written
  <2>1. ASSUME fresh PROVE text = <<>>
    BY <2>0, <2>1, EmptySeq DEF StrInv, Written
  <2>2. ASSUME ~fresh PROVE S!Shown = text /\ len < Len(data)
    <3> DEFINE nuls == {k \in 1 .. Len(data) : data[k] = Nul}
               first == CHOOSE k \in nuls : \A j \in nuls : k <= j
    <3>1. /\ len < Len(data) /\ data[len + 1] = Nul
          /\ \A k \in 1 .. len : data[k] = text[k]
      BY <2>2 DEF StrInv, Written
    <3>2. \A k \in 1 .. len : text[k] \in Chars /\ data[k] # Nul
      BY <2>0, <3>1, ElementOfSeq, StrAssumption
    <3>3. len + 1 \in nuls /\ \A k \in nuls : len + 1 <= k
      BY <2>0, <3>1, <3>2
    <3>4. first = len + 1
      <4>1. first \in nuls /\ \A j \in nuls : first <= j
        BY <3>3
      <4> QED BY <2>0, <3>3, <4>1
    <3>5. S!Shown = SubSeq(data, 1, first - 1)
      BY <3>3 DEF S!Shown, S!cap
    <3>6. S!Shown = SubSeq(data, 1, len)
      <4> HIDE DEF first
      <4>1. first - 1 = len
        BY <2>0, <3>4
      <4> QED BY <3>5, <4>1
    <3>7. /\ SubSeq(data, 1, len) \in Seq(Chars) /\ Len(SubSeq(data, 1, len)) = len
          /\ \A k \in 1 .. len : SubSeq(data, 1, len)[k] = data[k]
      <4>1. \A k \in 1 .. len : data[k] \in Chars
        BY <3>1, <3>2
      <4>2. /\ SubSeq(data, 1, len) \in Seq(Chars)
            /\ Len(SubSeq(data, 1, len)) = IF 1 <= len THEN len - 1 + 1 ELSE 0
            /\ \A k \in 1 .. len - 1 + 1 : SubSeq(data, 1, len)[k] = data[1 + k - 1]
        BY <2>0, <4>1, SubSeqProperties
      <4> QED BY <2>0, <4>2
    <3> QED BY <2>0, <3>1, <3>6, <3>7, SeqEqual
  <2>3. ASSUME S!Growing, ncap = 0 PROVE need > StrWord \div 2
    BY <2>0, <2>3, StrAssumption DEF StrInv, Locals, S!Growing
  <2>4. ASSUME fresh, data = <<>> PROVE S!Shown = text
    <3>1. {k \in 1 .. Len(data) : data[k] = Nul} = {}
      BY <2>0, <2>4, EmptySeq
    <3> QED BY <2>1, <2>4, <3>1 DEF S!Shown, S!cap
  <2> QED BY <2>2, <2>3, <2>4 DEF TextAndRoom, S!TextAndRoom, S!ReservedOnly, S!cap, StrInv
<1> QED BY <1>1, StrStart, StrStep, PTL DEF S!Spec
=============================================================================
