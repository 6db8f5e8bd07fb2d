---------------------------- MODULE ByteStream -----------------------------
(***************************************************************************)
(* stdlib/utils/ipc.h and server.h: send_all and recv_all over a stream    *)
(* socket.  Two peers follow their plans, sequences of calls; the kernel   *)
(* takes and gives as many bytes as it likes, at least one, signals        *)
(* interrupt the calls, and a peer may go away.                            *)
(*                                                                         *)
(* The bytes a peer sends are numbered.  Only positive lengths are planned *)
(* (a call for no bytes returns at once).                                  *)
(***************************************************************************)
EXTENDS Naturals, Sequences, FiniteSetsExt

CONSTANTS
    Peers,      \* the two ends
    Plans,      \* for each peer its calls, [call, len]
    Room,       \* the bytes one direction of the connection holds
    MaxSignals  \* bound on the interruptions

VARIABLES
    plan,       \* the calls of each peer still to finish, the first under way
    len,        \* the bytes left of that one
    sent,       \* the bytes sent by each peer so far
    wire,       \* the bytes on the way to each peer
    got,        \* the bytes each peer received
    gone,       \* peers whose end is closed: they failed, or went away
    signals,
    goal        \* history: the bytes each peer is to receive

vars == <<plan, len, sent, wire, got, gone, signals, goal>>

Other(p) == CHOOSE q \in Peers : q # p
Total(calls, call) ==
    LET sum[k \in 0 .. Len(calls)] ==
            IF k = 0 THEN 0
            ELSE sum[k - 1] + (IF calls[k].call = call THEN calls[k].len ELSE 0)
    IN  sum[Len(calls)]
FirstLen(calls) == IF calls = <<>> THEN 0 ELSE Head(calls).len

Init ==
    /\ plan \in Plans
    /\ len = [p \in Peers |-> FirstLen(plan[p])]
    /\ sent = [p \in Peers |-> 0]
    /\ wire = [p \in Peers |-> <<>>]
    /\ got = [p \in Peers |-> <<>>]
    /\ gone = {}
    /\ signals = 0
    /\ goal = [p \in Peers |-> Total(plan[p], "recv")]

-----------------------------------------------------------------------------
In(p, call) == p \notin gone /\ plan[p] # <<>> /\ Head(plan[p]).call = call

\* p moved n bytes; the loop ends when none are left, and the next call begins.
Advance(p, n) ==
    IF len[p] > n
    THEN len' = [len EXCEPT ![p] = @ - n] /\ UNCHANGED plan
    ELSE /\ plan' = [plan EXCEPT ![p] = Tail(@)]
         /\ len' = [len EXCEPT ![p] = FirstLen(Tail(plan[p]))]

\* The call returns -1 and its caller closes the connection, or SIGPIPE, which
\* send does not suppress, ends the process.
Fail(p) ==
    /\ gone' = gone \cup {p}
    /\ UNCHANGED <<plan, len, sent, wire, got, signals, goal>>

Send(p, n) ==
    /\ In(p, "send")
    /\ Other(p) \notin gone
    /\ n \in 1 .. Min({len[p], Room - Len(wire[Other(p)])})
    /\ wire' = [wire EXCEPT ![Other(p)] = @ \o [k \in 1 .. n |-> sent[p] + k]]
    /\ sent' = [sent EXCEPT ![p] = @ + n]
    /\ Advance(p, n)
    /\ UNCHANGED <<got, gone, signals, goal>>

SendFail(p) == In(p, "send") /\ Other(p) \in gone /\ Fail(p)

RecvOnce(p, n) ==
    /\ In(p, "recv")
    /\ n \in 1 .. Min({len[p], Len(wire[p])})
    /\ got' = [got EXCEPT ![p] = @ \o SubSeq(wire[p], 1, n)]
    /\ wire' = [wire EXCEPT ![p] = SubSeq(@, n + 1, Len(@))]
    /\ Advance(p, len[p])
    /\ UNCHANGED <<sent, gone, signals, goal>>

Recv(p, n) ==
    /\ In(p, "recv")
    /\ n \in 1 .. Min({len[p], Len(wire[p])})
    /\ got' = [got EXCEPT ![p] = @ \o SubSeq(wire[p], 1, n)]
    /\ wire' = [wire EXCEPT ![p] = SubSeq(@, n + 1, Len(@))]
    /\ Advance(p, n)
    /\ UNCHANGED <<sent, gone, signals, goal>>

\* recv returns 0 once the bytes that were on the way are read.
RecvEof(p) == In(p, "recv") /\ wire[p] = <<>> /\ Other(p) \in gone /\ Fail(p)

\* EINTR: the loop repeats the call as it was.
Signal(p) ==
    /\ In(p, "send") \/ In(p, "recv")
    /\ signals < MaxSignals
    /\ signals' = signals + 1
    /\ UNCHANGED <<plan, len, sent, wire, got, gone, goal>>

\* The peer closes the connection: at its end, or because its process dies.
GoAway(p) == p \notin gone /\ Fail(p)

Step(p) ==
    \/ \E n \in 1 .. Room : Send(p, n) \/ Recv(p, n)
    \/ SendFail(p)
    \/ RecvEof(p)

Finished(p) == p \in gone \/ plan[p] = <<>>

Next == \E p \in Peers : Step(p) \/ Signal(p) \/ GoAway(p)

Spec == Init /\ [][Next]_vars

\* A loop under way goes on; signals do not come for ever.
FairSpec == Spec /\ \A p \in Peers : WF_vars(Step(p))

-----------------------------------------------------------------------------
Bytes(n) == [k \in 1 .. n |-> k]

\* What peer p has received is what the other one sent, in order and once, and
\* all it was to receive when its calls have returned.
InOrder(p) ==
    /\ got[p] = Bytes(Len(got[p]))
    /\ plan[p] = <<>> => Len(got[p]) = goal[p]

\* For plans that fit together: every call returns; each peer then has the bytes
\* of the other in order and once, all it was to receive unless one of them went
\* away before, however the kernel cuts the transfers and signals interrupt them.
BytesArrive == TRUE ~> \A p \in Peers : Finished(p) /\ InOrder(p)
=============================================================================
