---------------------------- MODULE TripleBuffer ----------------------------
(***************************************************************************)
(* stdlib/utils/triple_buffering.h: one producer and one consumer exchange *)
(* frames through three slots and one atomic byte that packs the slot the  *)
(* reader took last (front), the slot published last (shared) and a dirty  *)
(* bit.  The producer stores the whole byte from the front it loaded       *)
(* before its memcpy; the consumer uses a compare-exchange.                *)
(*                                                                         *)
(* As in DoubleBuffer, memcpy moves one word per step, and a word is the   *)
(* number of the tbuf_write call that produced it.                         *)
(***************************************************************************)
EXTENDS Frames

VARIABLES
    slots,      \* b->slots
    state,      \* b->state
    wpc,        \* the producer: "idle" or copying into a slot
    wfront,     \* its local front, loaded before the copy
    wback,      \* its local back
    wleft,      \* the words its memcpy has still to copy
    rpc,        \* the consumer: "idle", "load", "cas" or "copy"
    rs,         \* its local s
    rfront,     \* its local front
    rleft,      \* the words its memcpy has still to copy
    rout,       \* *out
    latest,     \* history: number of the last published frame
    rbegin,     \* history: latest when tbuf_read was called
    rver,       \* history: latest when the read picked its slot
    rpubs,      \* history: publications since then, until the read returned
    rquiet      \* history: no tbuf_write was under way at that moment

writer == <<slots, wpc, wfront, wback, wleft, latest>>
picked == <<rver, rquiet>>
tripleVars == <<slots, state, wpc, wfront, wback, wleft, rpc, rs, rfront, rleft, rout,
          latest, rbegin, rver, rpubs, rquiet>>

\* The fields of the byte.
Front(s) == s % 4
Shared(s) == (s \div 4) % 4
Dirty(s) == (s \div 16) % 2

BackIgnoringFront(front, shared) == (shared + 1) % 3
BackIgnoringShared(front, shared) == (front + 1) % 3
\* The slot tbuf_write fills.
Back(front, shared) ==
    IF front = shared THEN (front + 1) % 3 ELSE 3 - front - shared

PublishedClean(front, back) == front + 4 * back
\* front | (back << 2) | (1 << 4)
Published(front, back) == front + 4 * back + 16

\* ((s >> 2) & 3) | (s & ~0x13)
Taken(s) == Shared(s) + (s - Front(s) - 16 * Dirty(s))

\* tbuf_init: frame 0 in the three slots, front = shared = dirty = 0.
TripleInit ==
    /\ slots = [i \in 0 .. 2 |-> [x \in Words |-> 0]]
    /\ state = 0
    /\ wpc = "idle"
    /\ wfront = 0
    /\ wback = 0
    /\ wleft = {}
    /\ rpc = "idle"
    /\ rs = 0
    /\ rfront = 0
    /\ rleft = {}
    /\ rout = [x \in Words |-> 0]
    /\ latest = 0
    /\ rbegin = 0
    /\ rver = 0
    /\ rpubs = 0
    /\ rquiet = TRUE

-----------------------------------------------------------------------------
WriteLoad ==
    /\ wpc = "idle"
    /\ latest < MaxFrames
    /\ wfront' = Front(state)
    /\ wback' = Back(Front(state), Shared(state))
    /\ wleft' = Words
    /\ wpc' = "copy"
    /\ UNCHANGED <<slots, state, rpc, rs, rfront, rleft, rout, latest, rbegin,
                   picked, rpubs>>

WriteCopy(x) ==
    /\ wpc = "copy"
    /\ x \in wleft
    /\ slots' = [slots EXCEPT ![wback][x] = latest + 1]
    /\ wleft' = wleft \ {x}
    /\ UNCHANGED <<state, wpc, wfront, wback, rpc, rs, rfront, rleft, rout,
                   latest, rbegin, picked, rpubs>>

WritePublish ==
    /\ wpc = "copy"
    /\ wleft = {}
    /\ state' = Published(wfront, wback)
    /\ wpc' = "idle"
    /\ latest' = latest + 1
    /\ rpubs' = IF rpc = "copy" THEN rpubs + 1 ELSE rpubs
    /\ UNCHANGED <<slots, wfront, wback, wleft, rpc, rs, rfront, rleft, rout,
                   rbegin, picked>>

-----------------------------------------------------------------------------
ReadCall ==
    /\ rpc = "idle"
    /\ rpc' = "load"
    /\ rbegin' = latest
    /\ UNCHANGED <<writer, state, rs, rfront, rleft, rout, picked, rpubs>>

\* The read has its slot: the memcpy starts.
Pick(f) ==
    /\ rfront' = f
    /\ rleft' = Words
    /\ rpc' = "copy"
    /\ rver' = latest
    /\ rquiet' = (wpc = "idle")
    /\ rpubs' = 0
    /\ UNCHANGED <<writer, rout, rbegin>>

\* Nothing new: read the front slot again.
ReadLoadClean ==
    /\ rpc = "load"
    /\ Dirty(state) = 0
    /\ Pick(Front(state))
    /\ rs' = state
    /\ UNCHANGED state

ReadLoadDirty ==
    /\ rpc = "load"
    /\ Dirty(state) = 1
    /\ rs' = state
    /\ rpc' = "cas"
    /\ UNCHANGED <<writer, state, rfront, rleft, rout, rbegin, picked, rpubs>>

CasOk ==
    /\ rpc = "cas"
    /\ state = rs
    /\ state' = Taken(rs)
    /\ Pick(Front(Taken(rs)))
    /\ UNCHANGED rs

CasFailNoReload ==
    /\ rpc = "cas"
    /\ UNCHANGED tripleVars

\* The byte changed since the load, or the weak exchange failed by itself.
CasFail ==
    /\ rpc = "cas"
    /\ rpc' = "load"
    /\ UNCHANGED <<writer, state, rs, rfront, rleft, rout, rbegin, picked, rpubs>>

ReadCopy(x) ==
    /\ rpc = "copy"
    /\ x \in rleft
    /\ rout' = [rout EXCEPT ![x] = slots[rfront][x]]
    /\ rleft' = rleft \ {x}
    /\ UNCHANGED <<writer, state, rpc, rs, rfront, rbegin, picked, rpubs>>

ReadReturn ==
    /\ rpc = "copy"
    /\ rleft = {}
    /\ rpc' = "idle"
    /\ UNCHANGED <<writer, state, rs, rfront, rleft, rout, rbegin, picked, rpubs>>

ReadStep ==
    \/ ReadLoadClean
    \/ ReadLoadDirty
    \/ CasOk
    \/ CasFail
    \/ \E x \in Words : ReadCopy(x)
    \/ ReadReturn

TripleNext ==
    \/ WriteLoad
    \/ \E x \in Words : WriteCopy(x)
    \/ WritePublish
    \/ ReadCall
    \/ ReadStep

TripleSpec == TripleInit /\ [][TripleNext]_tripleVars

\* A read that was called keeps running, and the weak compare-exchange does
\* not fail for ever when it could succeed again and again.
TripleFairSpec == TripleSpec /\ WF_tripleVars(ReadStep) /\ SF_tripleVars(CasOk)

-----------------------------------------------------------------------------
\* The byte is one of the 18 packings of two slots and a bit.
TripleTypeOK ==
    /\ slots \in [0 .. 2 -> [Words -> Nat]]
    /\ state \in 0 .. 31
    /\ Front(state) \in 0 .. 2
    /\ Shared(state) \in 0 .. 2
    /\ wpc \in {"idle", "copy"}
    /\ wfront \in 0 .. 2
    /\ wback \in 0 .. 2
    /\ wleft \in SUBSET Words
    /\ rpc \in {"idle", "load", "cas", "copy"}
    /\ rs \in 0 .. 31
    /\ rfront \in 0 .. 2
    /\ rleft \in SUBSET Words
    /\ rout \in [Words -> Nat]
    /\ latest \in 0 .. MaxFrames
    /\ rbegin \in Nat
    /\ rver \in Nat
    /\ rpubs \in Nat
    /\ rquiet \in BOOLEAN

\* The producer never drops the newest datum: the shared slot holds the whole
\* frame published last, while the producer fills another slot and however
\* long the reader lags; and a clean byte shows that frame to the reader.
NewestKept ==
    /\ \A x \in Words : slots[Shared(state)][x] = latest
    /\ Dirty(state) = 0 => Front(state) = Shared(state)

\* A read that picks its slot while no tbuf_write is under way returns one
\* whole frame, the latest one at that moment, however many frames are
\* published while it copies.
QuietPickComplete ==
    rpc = "idle" /\ rquiet => \A x \in Words : rout[x] = rver

\* So does any read during whose copy nothing is published.
UnlappedReadComplete ==
    rpc = "idle" /\ rpubs = 0 => \A x \in Words : rout[x] = rver

\* No word tbuf_read returns is older than the frame that was the latest when
\* it was called, lost compare-exchanges included.
NeverOlder == rpc = "idle" => \A x \in Words : rout[x] >= rbegin

\* The compare-exchange loop of tbuf_read ends.
ReadReturns == rpc # "idle" ~> rpc = "idle"

\* The header's promise (triple_buffering.h:4-5), "the producer never steps on
\* the slot being read".
NeverStepsOnReadSlot ==
    ~(/\ wpc = "copy" /\ wleft # {}
      /\ rpc = "copy" /\ rleft # {}
      /\ wback = rfront)
=============================================================================
