--------------------------- MODULE MCConcurrent ----------------------------
(***************************************************************************)
(* The parts of the library whose users run side by side, for TLC: the two *)
(* buffers, the coroutine scheduler, the ownership of sockets and the byte *)
(* stream.  They share no state, so one behaviour exercises one of them,   *)
(* chosen at the start, and the others stay in their initial state.        *)
(***************************************************************************)
EXTENDS TripleBuffer, CoSched

CONSTANTS
    Parts,      \* which of them the run exercises
    Threads, Fds, Free, OtherCode, Addresses,
    Peers, PeerA, PeerB, Plans, Room, MaxSignals

VARIABLES
    part,
    dslots, front, dwpc, wf, dwleft, drpc, rf, drleft, drout, dlatest, drver, drpubs,
    kind, pc, table, fd, cfd, tried, path, foreign,
    plan, len, sent, wire, got, gone, signals, goal

D == INSTANCE DoubleBuffer WITH
        slots <- dslots, wpc <- dwpc, wleft <- dwleft, rpc <- drpc, rleft <- drleft,
        rout <- drout, latest <- dlatest, rver <- drver, rpubs <- drpubs

S == INSTANCE Sockets WITH Other <- OtherCode

\* The special values of Sockets are none of its threads and numbers.
ASSUME SocketsAssumption ==
    /\ Free \notin Threads /\ OtherCode \notin Threads /\ None \notin Threads
    /\ Free # OtherCode /\ None \notin Fds

\* There are two peers, and they plan calls for at least one byte.
PlannedCalls == [call : {"send", "recv"}, len : Nat \ {0}]
ASSUME BytesAssumption ==
    /\ PeerA # PeerB /\ Peers = {PeerA, PeerB} /\ Room \in Nat
    /\ Plans \subseteq [Peers -> Seq(PlannedCalls)]

\* Calls of the two peers: in turns; one long transfer received in pieces; and
\* both sending first, which the connection has room for.
Calls(call, n) == [call |-> call, len |-> n]
Plan(a, b) == [p \in Peers |-> IF p = PeerA THEN a ELSE b]
MCPlans ==
    {Plan(<<Calls("send", 3), Calls("recv", 2)>>, <<Calls("recv", 3), Calls("send", 2)>>),
     Plan(<<Calls("send", 5)>>, <<Calls("recv", 1), Calls("recv", 4)>>),
     Plan(<<Calls("send", 2), Calls("recv", 2)>>, <<Calls("send", 2), Calls("recv", 2)>>)}

B == INSTANCE ByteStream

doubleVars == <<dslots, front, dwpc, wf, dwleft, drpc, rf, drleft, drout, dlatest,
                drver, drpubs>>
coVars == <<inited, tasks, cap, done, running, incall, i, pending, seen>>
sockVars == <<kind, pc, table, fd, cfd, tried, path, foreign>>
byteVars == <<plan, len, sent, wire, got, gone, signals, goal>>
allVars == <<part, tripleVars, doubleVars, coVars, sockVars, byteVars>>

MCInit ==
    /\ part \in Parts
    /\ TripleInit
    /\ D!Init
    /\ Init
    /\ S!Init
    /\ part # "sockets" => \A t \in Threads : kind[t] = "tcp_client"
    /\ B!Init
    /\ part # "bytes" => plan[PeerB] = <<Calls("recv", 1), Calls("recv", 4)>>

\* The connection is closed at both ends.
Ended ==
    /\ part = "bytes"
    /\ gone = Peers
    /\ UNCHANGED allVars

MCNext ==
    \/ part = "triple" /\ TripleNext
       /\ UNCHANGED <<part, doubleVars, coVars, sockVars, byteVars>>
    \/ part = "double" /\ D!Next
       /\ UNCHANGED <<part, tripleVars, coVars, sockVars, byteVars>>
    \/ part = "cosched" /\ Next
       /\ UNCHANGED <<part, tripleVars, doubleVars, sockVars, byteVars>>
    \/ part = "sockets" /\ S!Next
       /\ UNCHANGED <<part, tripleVars, doubleVars, coVars, byteVars>>
    \/ part = "bytes" /\ B!Next
       /\ UNCHANGED <<part, tripleVars, doubleVars, coVars, sockVars>>
    \/ Ended

\* The fairness of TripleBuffer, CoSched and ByteStream; the others need none.
MCSpec ==
    /\ MCInit
    /\ [][MCNext]_allVars
    /\ WF_allVars(part = "triple" /\ ReadStep
                  /\ UNCHANGED <<part, doubleVars, coVars, sockVars, byteVars>>)
    /\ SF_allVars(part = "triple" /\ CasOk
                  /\ UNCHANGED <<part, doubleVars, coVars, sockVars, byteVars>>)
    /\ WF_allVars(part = "cosched" /\ RunStep
                  /\ UNCHANGED <<part, tripleVars, doubleVars, sockVars, byteVars>>)
    /\ WF_allVars(part = "cosched" /\ TaskStep
                  /\ UNCHANGED <<part, tripleVars, doubleVars, sockVars, byteVars>>)
    /\ \A t \in Tasks :
         SF_allVars(part = "cosched" /\ running = t /\ Finish
                    /\ UNCHANGED <<part, tripleVars, doubleVars, sockVars, byteVars>>)
    /\ \A p \in Peers :
         WF_allVars(part = "bytes" /\ B!Step(p)
                    /\ UNCHANGED <<part, tripleVars, doubleVars, coVars, sockVars>>)

\* A read during which nothing is published is whole (both buffers), and no
\* word of a dbuf_read is older than the frame current at its load.
BufferReads ==
    UnlappedReadComplete /\ D!UnlappedReadComplete /\ D!NeverOlder
\* The promise of double_buffering.h:4-5 (DoubleBuffer).
ReadsCompleteFrame == D!ReadsCompleteFrame
\* Descriptors are closed by their owners, all of them (Sockets).
DescriptorsBalanced == S!DescriptorsBalanced
\* Every planned transfer ends with the bytes in order (ByteStream).
BytesArrive ==
    part = "bytes" ~> \A p \in Peers : B!Finished(p) /\ B!InOrder(p)
=============================================================================
