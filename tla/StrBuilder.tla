----------------------------- MODULE StrBuilder -----------------------------
(***************************************************************************)
(* stdlib/utils/str.h: the growing string.  Lengths are unsigned long and  *)
(* wrap at Word; the doubling loop of str_reserve is one step per turn,    *)
(* because it may not end.                                                 *)
(*                                                                         *)
(* A cell of the buffer holds a character, Nul or Junk, what realloc left  *)
(* there.  text is a history variable, what the pushes that succeeded      *)
(* said; fresh, that nothing has stored a Nul since str_init or str_free.  *)
(***************************************************************************)
EXTENDS Naturals, Sequences, SequencesExt

CONSTANTS
    Word,       \* 2^64 in the code
    InitCap,    \* the first capacity (32 in the code)
    MaxMem,     \* realloc of more than this fails
    Texts,      \* the strings pushed (sequences of characters)
    Extras,     \* the arguments of str_reserve
    Nul, Junk

VARIABLES
    data,       \* s->data, <<>> for NULL; its length is s->cap
    len,        \* s->len
    op,         \* the call under way, "none" between calls
    arg,        \* the string it pushes
    need, ncap, \* the locals of str_reserve
    extra,      \* its argument
    text, fresh,
    kept        \* history: str_reserve made the room it reported

vars == <<data, len, op, arg, need, ncap, extra, text, fresh, kept>>

cap == Len(data)

Init ==
    /\ data = <<>>
    /\ len = 0
    /\ op = "none"
    /\ arg = <<>>
    /\ need = 0
    /\ ncap = 0
    /\ extra = 0
    /\ text = <<>>
    /\ fresh = TRUE
    /\ kept = TRUE

-----------------------------------------------------------------------------
NeedWithoutNul(l, e) == (l + e) % Word
Need(l, e) == (l + e + 1) % Word

\* str_reserve up to its loop, on behalf of a call.
Enter(call, t, e) ==
    /\ op = "none"
    /\ op' = call
    /\ arg' = t
    /\ extra' = e
    /\ need' = Need(len, e)
    /\ ncap' = IF data = <<>> THEN InitCap ELSE cap
    /\ UNCHANGED <<data, len, text, fresh, kept>>

\* str_push_n, str_push_cstr and str_push_char return at once for no characters.
Push(t) == t # <<>> /\ Enter("push", t, Len(t))

\* str_push_fmt does not.
PushFmt(t) == Enter("fmt", t, Len(t))

ReserveOnly(e) == Enter("reserve", <<>>, e)

Growing == op # "none" /\ need > cap

\* ncap *= 2
Double ==
    /\ Growing
    /\ ncap < need
    /\ ncap' = (ncap * 2) % Word
    /\ UNCHANGED <<data, len, op, arg, need, extra, text, fresh, kept>>

Realloc ==
    /\ Growing
    /\ ncap >= need
    /\ ncap <= MaxMem
    /\ data' = [i \in 1 .. ncap |-> IF i <= cap THEN data[i] ELSE Junk]
    /\ UNCHANGED <<len, op, arg, need, ncap, extra, text, fresh, kept>>

\* Without memory the call returns -1 and the string stays.
ReallocFail ==
    /\ Growing
    /\ ncap >= need
    /\ op' = "none"
    /\ UNCHANGED <<data, len, arg, need, ncap, extra, text, fresh, kept>>

\* memcpy or vsnprintf at s->len, with the Nul after it.
Store(t) ==
    data' = [i \in 1 .. cap |->
                IF i \in len + 1 .. len + Len(t) THEN t[i - len]
                ELSE IF i = len + Len(t) + 1 THEN Nul ELSE data[i]]

\* str_reserve returns 0 and the call goes on.
Finish ==
    /\ op # "none"
    /\ ~Growing
    /\ op' = "none"
    /\ kept' = (kept /\ (cap > len + extra \/ len + extra + 1 >= Word))
    /\ IF op = "reserve" THEN UNCHANGED <<data, len, text, fresh>>
       ELSE /\ Store(arg)
            /\ len' = len + Len(arg)
            /\ text' = text \o arg
            /\ fresh' = FALSE
    /\ UNCHANGED <<arg, need, ncap, extra>>

\* str_clear
Clear ==
    /\ op = "none"
    /\ len' = 0
    /\ text' = <<>>
    /\ data' = [i \in 1 .. cap |-> IF i = 1 THEN Nul ELSE data[i]]
    /\ fresh' = (fresh /\ data = <<>>)
    /\ UNCHANGED <<op, arg, need, ncap, extra, kept>>

\* str_free
Free ==
    /\ op = "none"
    /\ data' = <<>>
    /\ len' = 0
    /\ text' = <<>>
    /\ fresh' = TRUE
    /\ UNCHANGED <<op, arg, need, ncap, extra, kept>>

Next ==
    \/ \E t \in Texts : Push(t) \/ PushFmt(t)
    \/ \E e \in Extras : ReserveOnly(e)
    \/ Double \/ Realloc \/ ReallocFail \/ Finish
    \/ Clear \/ Free

Spec == Init /\ [][Next]_vars

-----------------------------------------------------------------------------
\* What str_cstr shows: the cells up to the first Nul.
Shown ==
    LET nuls == {i \in 1 .. cap : data[i] = Nul}
    IN  IF nuls = {} THEN data
        ELSE SubSeq(data, 1, (CHOOSE i \in nuls : \A j \in nuls : i <= j) - 1)

\* A buffer that only str_reserve has touched holds no Nul that anybody wrote.
ReservedOnly == fresh /\ data # <<>>

\* Through growth, clearing and reuse str_cstr shows exactly the text pushed and
\* finds its Nul inside the buffer; a str_reserve that returns 0 made the room it
\* was asked for, unless length and request together pass the width of unsigned
\* long; and the doubling never wraps to 0, where it would stay, for requests up
\* to half of it.  In two cases the code is not what str.h:115 says of str_cstr,
\* "NUL-terminated pointer ("" when empty or after a past OOM)": after a push
\* that ran out of memory it shows the text of the earlier pushes, not "" (text
\* is unchanged by ReallocFail); and a string that was only ever reserved, though
\* empty, is not terminated (ReservedOnly).
TextAndRoom ==
    /\ ReservedOnly \/ (Shown = text /\ (data # <<>> => len < cap))
    /\ kept
    /\ Growing /\ ncap = 0 => need > Word \div 2
=============================================================================
