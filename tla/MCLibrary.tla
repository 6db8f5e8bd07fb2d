----------------------------- MODULE MCLibrary -----------------------------
(***************************************************************************)
(* The sequential parts of the library for TLC: Arena, HashMap, StrBuilder *)
(* and Slice.  They share no state, so one behaviour exercises one of      *)
(* them, chosen at the start, and the others stay in their initial state.  *)
(***************************************************************************)
EXTENDS Arena, Sequences, TLC

CONSTANTS
    Parts,      \* which of them the run exercises
    Keys, Vals, NoVal, NoKey, InitCap, MaxCap, HashValues,
    StrWord, StrCap, MaxMem, Texts, Extras, Nul, Junk,
    SliceWord, Lent

VARIABLES
    part,
    hash, live, tab, cap, count, tombs, call, answer,
    data, len, op, arg, need, ncap, extra, text, fresh, kept,
    view, elem, wanted, inplace

H == INSTANCE HashMap WITH ret <- answer
S == INSTANCE StrBuilder WITH Word <- StrWord, InitCap <- StrCap
V == INSTANCE Slice WITH Word <- SliceWord

\* hashmap.h masks with cap - 1, which is % cap for powers of two only; a hash
\* is an unsigned long.
ASSUME CapAssumption ==
    /\ InitCap \in Nat \ {0} /\ \E n \in 0 .. 63 : InitCap = 2 ^ n
    /\ MaxCap \in Nat /\ HashValues \subseteq Nat
ASSUME NoneAssumption == NoVal \notin Vals /\ NoKey \notin Keys
\* str.h starts at 32, a power of two below the width; a text has no Nul, and
\* fits into the address space together with the largest buffer.
Chars == UNION {{t[k] : k \in 1 .. Len(t)} : t \in Texts}
ASSUME StrAssumption ==
    /\ StrWord \in Nat /\ StrCap \in 1 .. StrWord - 1
    /\ MaxMem \in Nat /\ MaxMem + 1 < StrWord
    /\ Texts \subseteq Seq(Chars) /\ Nul \notin Chars
    /\ \A t \in Texts : MaxMem + Len(t) + 1 < StrWord
    /\ Extras \subseteq 0 .. StrWord - 1
\* A length is an unsigned long.
ASSUME SliceAssumption == SliceWord \in Nat /\ Lent \in 0 .. SliceWord - 1

arenaVars == <<base, ptr, end, blocks, ret>>
hashVars == <<hash, live, tab, cap, count, tombs, call, answer>>
strVars == <<data, len, op, arg, need, ncap, extra, text, fresh, kept>>
sliceVars == <<view, elem, wanted, inplace>>
allVars == <<part, arenaVars, hashVars, strVars, sliceVars>>

RoundCaps == {0, 8, 16}
OddCaps == {10}
FewSizes == {0, 1, 3, 4, 8, 16, 128}
FewCounts == {0, 1, 2, 3, 64, 255}
PlainSizes == {1, 3, 4, 8}
PlainAligns == {0, 1}
FewAligns == {0, 1, 2, 3, 8}
SomeHashes == 0 .. 7
SomeTexts == {<<>>, <<"a">>, <<"b", "a">>, <<"a", "b", "b">>}
AllExtras == 0 .. StrWord - 1

Symmetry == Permutations(Keys) \cup Permutations(Vals)

MCInit ==
    /\ part \in Parts
    /\ Init
    /\ H!Init
    /\ S!Init
    /\ V!Init
    /\ part # "hashmap" => \A k \in Keys : hash[k] = 0

MCNext ==
    \/ part = "arena" /\ Next /\ UNCHANGED <<part, hashVars, strVars, sliceVars>>
    \/ part = "hashmap" /\ H!Next /\ UNCHANGED <<part, arenaVars, strVars, sliceVars>>
    \/ part = "str" /\ S!Next /\ UNCHANGED <<part, arenaVars, hashVars, sliceVars>>
    \/ part = "slice" /\ V!Next /\ UNCHANGED <<part, arenaVars, hashVars, strVars>>

MCSpec == MCInit /\ [][MCNext]_allVars

\* What can be served is: probing ends, finds every entry and never rehashes
\* inside a rehash (HashMap), and arena_alloc refuses only what does not fit
\* (Arena).
RequestsServed ==
    /\ [](H!ProbeTerminates /\ H!RehashNeverNests /\ H!EveryEntryReachable)
    /\ RefusedOnlyWhenFull
\* The hash map behaves and answers like a dictionary (HashMap).
ImplementsDictionary == H!ImplementsDictionary
\* The string builder shows what was pushed and makes the room it promised
\* (StrBuilder).
TextAndRoom == S!TextAndRoom
\* A view of a view stays inside the lender's array and shows what was asked
\* for, nothing if it was narrowed in place (Slice).
ViewInside == V!ViewInside
=============================================================================
