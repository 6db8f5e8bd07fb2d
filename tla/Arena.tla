------------------------------- MODULE Arena --------------------------------
(***************************************************************************)
(* stdlib/utils/arena.h: the bump allocator, with pointers as numbers of   *)
(* 2^Width values, so that the unsigned arithmetic of arena_alloc and      *)
(* arena_calloc wraps where the machine's does.                            *)
(*                                                                         *)
(* blocks is a history variable: what was handed out since the last        *)
(* arena_reset, arena_free or arena_init, as the caller asked for it.      *)
(***************************************************************************)
EXTENDS Integers, FiniteSets

CONSTANTS
    Width,      \* bits of uintptr_t and of unsigned long (64 in the code)
    Base,       \* what malloc returns
    MaxAlign,   \* _Alignof(max_align_t)
    Caps,       \* the capacities asked of arena_init
    Sizes, Counts, Aligns,   \* the arguments of arena_alloc and arena_calloc
    MaxBlocks   \* bound: blocks handed out before a reset

Word == 2 ^ Width
Ulong == 0 .. Word - 1
PowerOfTwo(n) == \E e \in 0 .. Width - 1 : n = 2 ^ e

\* malloc's block is aligned for any type, not at NULL, and does not wrap.
ASSUME MallocAssumption ==
    /\ Width \in Nat \ {0} /\ Word \in Nat
    /\ MaxAlign \in Nat \ {0} /\ PowerOfTwo(MaxAlign)
    /\ Base \in Ulong \ {0} /\ Base % MaxAlign = 0
    /\ \A c \in Caps : c \in Nat /\ Base + c < Word
ASSUME ArgsAssumption ==
    Sizes \subseteq Ulong /\ Counts \subseteq Ulong /\ Aligns \subseteq Ulong

Null == 0

VARIABLES
    base, ptr, end,   \* struct arena
    blocks,           \* [at, size] of the blocks handed out
    ret               \* the pointer the last call returned

vars == <<base, ptr, end, blocks, ret>>

-----------------------------------------------------------------------------
\* Before arena_init, or after arena_free.
Init == base = Null /\ ptr = Null /\ end = Null /\ blocks = {} /\ ret = Null

\* arena_init: capacity 0 and a failing malloc both leave no block.
InitArena(cap, ok) ==
    /\ base = Null
    /\ IF cap # 0 /\ ok
         THEN base' = Base /\ ptr' = Base /\ end' = Base + cap
         ELSE base' = Null /\ ptr' = Null /\ end' = Null
    /\ blocks' = {}
    /\ ret' = Null

Fail == ret' = Null /\ UNCHANGED <<base, ptr, end, blocks>>

Align(align) == IF align = 0 THEN MaxAlign ELSE align

\* (cur + (align - 1)) & ~(align - 1), for a power of two.
AlignUp(p, align) ==
    LET q == (p + align - 1) % Word IN q - (q % align)

\* The room is a pointer difference cast to unsigned long.
Fits(size, at) == size <= (end - at) % Word

\* The body of arena_alloc, for a caller that wants `wanted' bytes.
AllocAs(size, align, wanted) ==
    LET al == Align(align)
        at == AlignUp(ptr, al)
    IN  IF base # Null /\ PowerOfTwo(al) /\ Fits(size, at)
          THEN /\ ptr' = (at + size) % Word
               /\ ret' = at
               /\ blocks' = blocks \cup {[at |-> at, size |-> wanted]}
               /\ UNCHANGED <<base, end>>
          ELSE Fail

Bounded == Cardinality(blocks) < MaxBlocks

Alloc(size, align) == Bounded /\ AllocAs(size, align, size)

CallocUnchecked(count, size, align) ==
    Bounded /\ AllocAs((count * size) % Word, align, count * size)

\* arena_calloc refuses a product that would wrap.
Calloc(count, size, align) ==
    /\ Bounded
    /\ IF size # 0 /\ count > (Word - 1) \div size
         THEN Fail
         ELSE AllocAs((count * size) % Word, align, count * size)

Reset == ptr' = base /\ blocks' = {} /\ ret' = Null /\ UNCHANGED <<base, end>>

Free == base' = Null /\ ptr' = Null /\ end' = Null /\ blocks' = {} /\ ret' = Null

Next ==
    \/ \E cap \in Caps, ok \in BOOLEAN : InitArena(cap, ok)
    \/ \E size \in Sizes, align \in Aligns : Alloc(size, align)
    \/ \E count \in Counts, size \in Sizes, align \in Aligns : Calloc(count, size, align)
    \/ Reset
    \/ Free

Spec == Init /\ [][Next]_vars

-----------------------------------------------------------------------------
\* The arenas that end on every alignment asked of them: rounding up never
\* passes their end (NullWhenItDoesNotFit is about the others).
Rounded ==
    \A c \in Caps, align \in Aligns : PowerOfTwo(Align(align)) =>
        (Base + c) % Align(align) = 0 /\ Base + c + Align(align) <= Word

Apart(b, c) == b.at + b.size <= c.at \/ c.at + c.size <= b.at

\* Types, with the bump pointer inside a rounded arena: what arena_used and
\* arena_capacity subtract never goes below zero.
TypeOK ==
    /\ base \in {Null, Base}
    /\ ptr \in Nat /\ end \in Nat
    /\ Rounded => base <= ptr /\ ptr <= end
    /\ base = Null => end = Null
    /\ ret \in Ulong

\* Every block handed out by a rounded arena, as long as the caller asked for
\* it, lies inside the memory of arena_init and apart from every other one,
\* also when the product of its sizes passes the width of unsigned long.
BlocksInside ==
    Rounded =>
        /\ \A b \in blocks : base <= b.at /\ b.at + b.size <= end
        /\ \A b, c \in blocks : b # c => Apart(b, c)

\* A refused request really does not fit: arena_alloc never fails while the
\* next aligned address still has the room.  Said of the step, for a request
\* with a valid alignment.
RefusedOnlyWhenFull ==
    [][\A size \in Sizes, align \in Aligns :
        /\ base # Null
        /\ PowerOfTwo(Align(align))
        /\ \E p \in ptr .. end : p % Align(align) = 0 /\ p + size <= end
        => (Alloc(size, align) => ret' # Null)]_vars

\* arena.h:42 "Return the pointer, or NULL when it does not fit": what is
\* returned ends inside the arena, whatever its capacity and alignment.
NullWhenItDoesNotFit == \A b \in blocks : b.at + b.size <= end
=============================================================================
