---------------------------- MODULE DoubleBuffer ----------------------------
(***************************************************************************)
(* stdlib/utils/double_buffering.h: one producer and one consumer exchange *)
(* frames through two slots and one atomic byte.                           *)
(*                                                                         *)
(* A frame is more than one machine word, so the two memcpy calls copy one *)
(* word per step, in any order, and may interleave: a word of a frame is   *)
(* the number of the dbuf_write call that produced it.                     *)
(***************************************************************************)
EXTENDS Frames

VARIABLES
    slots,      \* b->slots
    front,      \* b->front
    wpc,        \* the producer: "idle" or copying into a slot
    wf,         \* its local f
    wleft,      \* the words its memcpy has still to copy
    rpc,        \* the consumer: "idle" or copying out of a slot
    rf,         \* its local f
    rleft,      \* the words its memcpy has still to copy
    rout,       \* *out
    latest,     \* history: number of the last published frame
    rver,       \* history: latest when the read loaded front
    rpubs       \* history: publications since then, until the read returned

writer == <<slots, front, wpc, wf, wleft, latest>>
reader == <<rpc, rf, rleft, rout, rver>>
vars == <<slots, front, wpc, wf, wleft, rpc, rf, rleft, rout, latest, rver, rpubs>>

SameSlot(f) == f
\* f ^ 1
Other(f) == 1 - f

\* dbuf_init: frame 0 in both slots.
Init ==
    /\ slots = [s \in 0 .. 1 |-> [x \in Words |-> 0]]
    /\ front = 0
    /\ wpc = "idle"
    /\ wf = 0
    /\ wleft = {}
    /\ rpc = "idle"
    /\ rf = 0
    /\ rleft = {}
    /\ rout = [x \in Words |-> 0]
    /\ latest = 0
    /\ rver = 0
    /\ rpubs = 0

-----------------------------------------------------------------------------
WriteLoad ==
    /\ wpc = "idle"
    /\ latest < MaxFrames
    /\ wf' = front
    /\ wleft' = Words
    /\ wpc' = "copy"
    /\ UNCHANGED <<slots, front, latest, reader, rpubs>>

WriteCopy(x) ==
    /\ wpc = "copy"
    /\ x \in wleft
    /\ slots' = [slots EXCEPT ![Other(wf)][x] = latest + 1]
    /\ wleft' = wleft \ {x}
    /\ UNCHANGED <<front, wpc, wf, latest, reader, rpubs>>

WritePublish ==
    /\ wpc = "copy"
    /\ wleft = {}
    /\ front' = Other(wf)
    /\ wpc' = "idle"
    /\ latest' = latest + 1
    /\ rpubs' = IF rpc = "copy" THEN rpubs + 1 ELSE rpubs
    /\ UNCHANGED <<slots, wf, wleft, reader>>

-----------------------------------------------------------------------------
ReadLoad ==
    /\ rpc = "idle"
    /\ rf' = front
    /\ rleft' = Words
    /\ rpc' = "copy"
    /\ rver' = latest
    /\ rpubs' = 0
    /\ UNCHANGED <<writer, rout>>

ReadCopy(x) ==
    /\ rpc = "copy"
    /\ x \in rleft
    /\ rout' = [rout EXCEPT ![x] = slots[rf][x]]
    /\ rleft' = rleft \ {x}
    /\ UNCHANGED <<writer, rpc, rf, rver, rpubs>>

ReadReturn ==
    /\ rpc = "copy"
    /\ rleft = {}
    /\ rpc' = "idle"
    /\ UNCHANGED <<writer, rf, rleft, rout, rver, rpubs>>

Next ==
    \/ WriteLoad
    \/ \E x \in Words : WriteCopy(x) \/ ReadCopy(x)
    \/ WritePublish
    \/ ReadLoad
    \/ ReadReturn

Spec == Init /\ [][Next]_vars

-----------------------------------------------------------------------------
\* The byte names a slot, every word holds the number of a frame.
TypeOK ==
    /\ slots \in [0 .. 1 -> [Words -> Nat]]
    /\ front \in 0 .. 1
    /\ wpc \in {"idle", "copy"}
    /\ wf \in 0 .. 1
    /\ wleft \in SUBSET Words
    /\ rpc \in {"idle", "copy"}
    /\ rf \in 0 .. 1
    /\ rleft \in SUBSET Words
    /\ rout \in [Words -> Nat]
    /\ latest \in 0 .. MaxFrames
    /\ rver \in Nat
    /\ rpubs \in Nat

\* The frame dbuf_read returns when no dbuf_write published while it copied
\* is whole, and the latest one at the moment it loaded front: the producer's
\* memcpy into the other slot may be under way all the time.
UnlappedReadComplete ==
    rpc = "idle" /\ rpubs = 0 => \A x \in Words : rout[x] = rver

\* No word dbuf_read returns is older than the frame that was the latest when
\* it loaded front, however far the producer ran ahead meanwhile.
NeverOlder == rpc = "idle" => \A x \in Words : rout[x] >= rver

\* The header's promise (double_buffering.h:4-5), "one consumer always reads
\* the latest complete one": what dbuf_read returns is one frame.
ReadsCompleteFrame == rpc = "idle" => \A x, y \in Words : rout[x] = rout[y]
=============================================================================
