------------------------------- MODULE Slice -------------------------------
(***************************************************************************)
(* stdlib/utils/slice.h: a borrowed view, made over a lender's array and   *)
(* narrowed by slice_sub any number of times.  Lengths and offsets are     *)
(* unsigned long and wrap at Word; an address is an index into the array.  *)
(***************************************************************************)
EXTENDS Naturals

CONSTANTS
    Word,       \* 2^64 in the code
    Lent        \* the number of elements of the lender's array

VARIABLES
    view,       \* the slice: set (data is not NULL), start, len
    elem,       \* the element slice_at put into *out, or None for NULL
    wanted,     \* history: the elements the last slice_sub asked for
    inplace     \* history: its out was the slice itself

vars == <<view, elem, wanted, inplace>>

Ulong == 0 .. Word - 1
None == Word
Nothing == [set |-> FALSE, start |-> 0, len |-> 0]

Init == view = Nothing /\ elem = None /\ wanted = {} /\ inplace = FALSE

\* The elements the slice shows.
Shown == {view.start + k : k \in 0 .. view.len - 1}

\* Those of them that [off, off + n) asks for.
Asked(off, n) == {view.start + off + k : k \in 0 .. n - 1} \cap Shown

Make(n) ==
    /\ view' = IF n = 0 THEN Nothing ELSE [set |-> TRUE, start |-> 0, len |-> n]
    /\ wanted' = 0 .. n - 1
    /\ inplace' = FALSE
    /\ elem' = None

At(i) ==
    /\ elem' = IF ~view.set \/ i >= view.len THEN None ELSE (view.start + i) % Word
    /\ UNCHANGED <<view, wanted, inplace>>

ClampedBySum(off, n) ==
    IF (off + n) % Word > view.len THEN view.len - off ELSE n
\* len > s->len - off
Clamped(off, n) == IF n > view.len - off THEN view.len - off ELSE n

Sub(off, n) ==
    /\ IF ~view.set \/ off >= view.len
       THEN view' = Nothing
       ELSE view' = [set |-> TRUE, start |-> view.start + off, len |-> Clamped(off, n)]
    /\ wanted' = Asked(off, n)
    /\ inplace' = FALSE
    /\ elem' = None

\* slice_sub with out and s the same: out is cleared before s is read, so the
\* code goes no further, whatever was asked for.
SubInPlace(off, n) ==
    /\ view' = Nothing
    /\ wanted' = Asked(off, n)
    /\ inplace' = TRUE
    /\ elem' = None

Next ==
    \/ \E n \in {0, Lent} : Make(n)
    \/ \E i \in Ulong : At(i)
    \/ \E off, n \in Ulong : Sub(off, n) \/ SubInPlace(off, n)

Spec == Init /\ [][Next]_vars

-----------------------------------------------------------------------------
\* A view of a view of a view stays inside the lender's array and shows exactly
\* the elements asked for that its parent has, whatever offsets and lengths, up
\* to the largest unsigned long; slice_at never leaves it.  A slice narrowed in
\* place shows nothing, although slice.h:58 promises "[off, off+len) into *out,
\* clamped to fit" whatever out is.
ViewInside ==
    /\ Shown \subseteq 0 .. Lent - 1
    /\ Shown = IF inplace THEN {} ELSE wanted
    /\ elem # None => elem \in view.start .. view.start + view.len - 1
=============================================================================
