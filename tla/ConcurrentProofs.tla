-------------------------- MODULE ConcurrentProofs --------------------------
(***************************************************************************)
(* Proofs about four parts of the library that MCConcurrent joins: the     *)
(* triple buffer and the double buffer, D, for frames of any size and any  *)
(* number of writes, the descriptors of ipc.h and server.h, S, for any     *)
(* number of threads, descriptors and addresses, and their transfers, B,   *)
(* for any plans of the two peers.                                         *)
(***************************************************************************)
EXTENDS MCConcurrent, SequenceTheorems, WellFoundedInduction, TLAPS

-----------------------------------------------------------------------------
(***************************************************************************)
(* tbuf_write and tbuf_read.                                               *)
(***************************************************************************)
USE MaxFramesAssumption

\* The producer fills neither the slot it saw as front nor the shared slot,
\* and only the producer moves shared; no word is ahead of the frame being
\* written.
WriterInv ==
    /\ wpc = "copy" =>
          /\ wback # wfront
          /\ wback # Shared(state)
          /\ latest < MaxFrames
          /\ \A x \in Words \ wleft : slots[wback][x] = latest + 1
    /\ \A s \in 0 .. 2 : \A x \in Words : slots[s][x] <= latest + 1

\* A read that nobody lapped is on the shared slot; one that picked while no
\* write was under way keeps its slot in the front field, so every later
\* write avoids it; any read finds nothing older than rbegin.
ReaderInv ==
    /\ rpc \in {"load", "cas", "copy"} => rbegin <= latest
    /\ rpc = "copy" =>
          /\ rbegin <= rver
          /\ rver <= latest
          /\ \A x \in Words : slots[rfront][x] >= rver
          /\ \A x \in Words \ rleft : rout[x] >= rver
    /\ rpc = "copy" /\ rpubs = 0 =>
          /\ rfront = Shared(state)
          /\ rver = latest
          /\ \A x \in Words \ rleft : rout[x] = rver
    /\ rpc = "copy" /\ rquiet =>
          /\ Front(state) = rfront
          /\ wpc = "copy" => wfront = rfront
          /\ \A x \in Words : slots[rfront][x] = rver
          /\ \A x \in Words \ rleft : rout[x] = rver

\* What a read has returned.
ReturnInv == UnlappedReadComplete /\ QuietPickComplete /\ NeverOlder

\* The inductive invariant.
IInv == TripleTypeOK /\ NewestKept /\ WriterInv /\ ReaderInv /\ ReturnInv

\* The byte as the code packs and unpacks it.
LEMMA PublishedFields ==
    \A f, b \in 0 .. 2 :
        /\ Published(f, b) \in 0 .. 31
        /\ Front(Published(f, b)) = f
        /\ Shared(Published(f, b)) = b
        /\ Dirty(Published(f, b)) = 1
BY DEF Published, Front, Shared, Dirty

\* The reader's exchange moves shared into front and clears the dirty bit.
LEMMA TakenFields ==
    \A s \in 0 .. 31 :
        Shared(s) \in 0 .. 2 =>
            /\ Taken(s) \in 0 .. 31
            /\ Front(Taken(s)) = Shared(s)
            /\ Shared(Taken(s)) = Shared(s)
            /\ Dirty(Taken(s)) = 0
BY DEF Taken, Front, Shared, Dirty

\* The slot the producer picks is the third one.
LEMMA BackIsFree ==
    \A f, h \in 0 .. 2 :
        Back(f, h) \in 0 .. 2 /\ Back(f, h) # f /\ Back(f, h) # h
BY DEF Back

\* A byte is dirty or clean.
LEMMA DirtyIsBit == \A s \in 0 .. 31 : Dirty(s) \in {0, 1}
BY DEF Dirty

\* tbuf_init puts frame 0 in the three slots.
LEMMA InitIInv == TripleInit => IInv
<1>1. Front(0) = 0 /\ Shared(0) = 0 /\ Dirty(0) = 0
  BY DEF Front, Shared, Dirty
<1>2. ASSUME TripleInit PROVE rquiet \in BOOLEAN
  BY <1>2, Zenon DEF TripleInit
<1> QED
  BY <1>1, <1>2 DEF TripleInit, IInv, TripleTypeOK, NewestKept, WriterInv, ReaderInv, ReturnInv,
     UnlappedReadComplete, QuietPickComplete, NeverOlder

\* A read that takes the shared slot starts with everything ReaderInv asks.
LEMMA PickStep ==
    ASSUME IInv, rpc \in {"load", "cas"}, Pick(Shared(state)),
           state' \in 0 .. 31, Front(state') = Shared(state),
           Shared(state') = Shared(state), rs' \in 0 .. 31
    PROVE  IInv'
<1> USE DEF IInv, Pick, writer
<1>0. rquiet' \in BOOLEAN
  BY Zenon
<1>1. TripleTypeOK'
  BY <1>0 DEF TripleTypeOK
<1>2. NewestKept'
  BY DEF NewestKept
<1>3. WriterInv'
  BY DEF WriterInv
<1>4. ReaderInv'
  <2>1. rquiet' => wpc' # "copy"
    BY Zenon
  <2>2. \A x \in Words : slots'[rfront'][x] = latest /\ x \in rleft'
    BY DEF NewestKept
  <2>3. rver' = latest /\ rbegin' <= latest /\ latest' = latest /\ latest \in Nat
    BY DEF TripleTypeOK, ReaderInv
  <2>4. rfront' = Shared(state') /\ rfront' = Front(state')
    OBVIOUS
  <2> HIDE DEF IInv, Pick
  <2> QED BY <2>1, <2>2, <2>3, <2>4 DEF ReaderInv
<1>5. ReturnInv'
  BY DEF ReturnInv, UnlappedReadComplete, QuietPickComplete, NeverOlder
<1> QED BY <1>1, <1>2, <1>3, <1>4, <1>5

\* Each step of the producer or the consumer keeps the invariant.
LEMMA IInvStep == IInv /\ [TripleNext]_tripleVars => IInv'
<1> SUFFICES ASSUME IInv, [TripleNext]_tripleVars PROVE IInv'
  OBVIOUS
<1> USE DEF IInv, writer, picked
<1>1. CASE WriteLoad
  <2>1. /\ wback' \in 0 .. 2 /\ wback' # wfront' /\ wback' # Shared(state)
        /\ wfront' \in 0 .. 2
    BY <1>1, BackIsFree DEF WriteLoad, TripleTypeOK
  <2>2. TripleTypeOK'
    BY <1>1, <2>1 DEF WriteLoad, TripleTypeOK
  <2>3. NewestKept' /\ ReturnInv'
    BY <1>1 DEF WriteLoad, NewestKept, ReturnInv, UnlappedReadComplete,
                QuietPickComplete, NeverOlder
  <2>4. WriterInv'
    BY <1>1, <2>1 DEF WriteLoad, WriterInv
  <2>5. ReaderInv'
    BY <1>1 DEF WriteLoad, ReaderInv
  <2> QED BY <2>2, <2>3, <2>4, <2>5
<1>2. ASSUME NEW x \in Words, WriteCopy(x) PROVE IInv'
  <2>1. \A s \in 0 .. 2 : \A y \in Words :
           slots'[s][y] = IF s = wback /\ y = x THEN latest + 1 ELSE slots[s][y]
    BY <1>2 DEF WriteCopy, TripleTypeOK
  <2>2. TripleTypeOK'
    BY <1>2 DEF WriteCopy, TripleTypeOK
  <2>3. NewestKept' /\ ReturnInv'
    BY <1>2, <2>1 DEF WriteCopy, WriterInv, TripleTypeOK, NewestKept, ReturnInv,
                      UnlappedReadComplete, QuietPickComplete, NeverOlder
  <2>4. WriterInv'
    BY <1>2, <2>1 DEF WriteCopy, WriterInv, TripleTypeOK
  <2>5. ReaderInv'
    BY <1>2, <2>1 DEF WriteCopy, WriterInv, ReaderInv, TripleTypeOK
  <2> QED BY <2>2, <2>3, <2>4, <2>5
<1>3. CASE WritePublish
  <2>1. /\ state' \in 0 .. 31 /\ Front(state') = wfront /\ Shared(state') = wback
        /\ Dirty(state') = 1
    BY <1>3, PublishedFields DEF WritePublish, TripleTypeOK
  <2>2. TripleTypeOK'
    BY <1>3, <2>1 DEF WritePublish, TripleTypeOK, WriterInv
  <2>3. NewestKept'
    BY <1>3, <2>1 DEF WritePublish, NewestKept, WriterInv
  <2>4. WriterInv'
    BY <1>3 DEF WritePublish, WriterInv, TripleTypeOK
  <2>5. ReaderInv'
    BY <1>3, <2>1 DEF WritePublish, ReaderInv, TripleTypeOK
  <2>6. ReturnInv'
    BY <1>3 DEF WritePublish, ReturnInv, UnlappedReadComplete, QuietPickComplete,
                NeverOlder
  <2> QED BY <2>2, <2>3, <2>4, <2>5, <2>6
<1>4. CASE ReadCall
  BY <1>4 DEF ReadCall, TripleTypeOK, NewestKept, WriterInv, ReaderInv, ReturnInv,
              UnlappedReadComplete, QuietPickComplete, NeverOlder
<1>5. CASE ReadLoadClean
  <2>1. Front(state) = Shared(state) /\ state' = state /\ rs' = state
    BY <1>5 DEF ReadLoadClean, NewestKept
  <2> QED BY <1>5, <2>1, PickStep DEF ReadLoadClean, TripleTypeOK
<1>6. CASE ReadLoadDirty
  BY <1>6 DEF ReadLoadDirty, TripleTypeOK, NewestKept, WriterInv, ReaderInv, ReturnInv,
              UnlappedReadComplete, QuietPickComplete, NeverOlder
<1>7. CASE CasOk
  <2>1. /\ state' \in 0 .. 31 /\ Front(state') = Shared(state)
        /\ Shared(state') = Shared(state) /\ rs' = rs
        /\ Front(Taken(rs)) = Shared(state)
    BY <1>7, TakenFields DEF CasOk, TripleTypeOK
  <2> QED BY <1>7, <2>1, PickStep DEF CasOk, TripleTypeOK
<1>8. CASE CasFail
  BY <1>8 DEF CasFail, TripleTypeOK, NewestKept, WriterInv, ReaderInv, ReturnInv,
              UnlappedReadComplete, QuietPickComplete, NeverOlder
<1>9. ASSUME NEW x \in Words, ReadCopy(x) PROVE IInv'
  <2>1. \A y \in Words : rout'[y] = IF y = x THEN slots[rfront][x] ELSE rout[y]
    BY <1>9 DEF ReadCopy, TripleTypeOK
  <2>2. TripleTypeOK'
    BY <1>9 DEF ReadCopy, TripleTypeOK
  <2>3. NewestKept' /\ WriterInv'
    BY <1>9 DEF ReadCopy, NewestKept, WriterInv
  <2>4. ReaderInv'
    BY <1>9, <2>1 DEF ReadCopy, ReaderInv, NewestKept
  <2>5. ReturnInv'
    BY <1>9 DEF ReadCopy, ReturnInv, UnlappedReadComplete, QuietPickComplete, NeverOlder
  <2> QED BY <2>2, <2>3, <2>4, <2>5
<1>10. CASE ReadReturn
  <2>1. TripleTypeOK' /\ NewestKept' /\ WriterInv'
    BY <1>10 DEF ReadReturn, TripleTypeOK, NewestKept, WriterInv
  <2>2. ReaderInv'
    BY <1>10 DEF ReadReturn, ReaderInv
  <2>3. ReturnInv'
    BY <1>10 DEF ReadReturn, TripleTypeOK, ReaderInv, ReturnInv, UnlappedReadComplete,
                 QuietPickComplete, NeverOlder
  <2> QED BY <2>1, <2>2, <2>3
<1>11. CASE UNCHANGED tripleVars
  BY <1>11 DEF tripleVars, TripleTypeOK, NewestKept, WriterInv, ReaderInv, ReturnInv,
               UnlappedReadComplete, QuietPickComplete, NeverOlder
<1> QED
  BY <1>1, <1>2, <1>3, <1>4, <1>5, <1>6, <1>7, <1>8, <1>9, <1>10, <1>11
     DEF TripleNext, ReadStep

\* The inductive invariant holds in every state.
THEOREM IInvHolds == TripleSpec => []IInv
BY InitIInv, IInvStep, PTL DEF TripleSpec

\* The newest frame stays whole in the shared slot until a newer one is
\* published: the half of the header's promise the code keeps.
THEOREM NewestAlwaysKept == TripleSpec => []NewestKept
<1>1. IInv => NewestKept
  BY DEF IInv
<1> QED BY <1>1, IInvHolds, PTL

\* A read that picked its slot between two writes returns that whole frame,
\* whatever is published while it copies.
THEOREM QuietPicksComplete == TripleSpec => []QuietPickComplete
<1>1. IInv => QuietPickComplete
  BY DEF IInv, ReturnInv
<1> QED BY <1>1, IInvHolds, PTL

\* tbuf_read never returns a word older than the latest frame at its call.
THEOREM ReadsNeverOlder == TripleSpec => []NeverOlder
<1>1. IInv => NeverOlder
  BY DEF IInv, ReturnInv
<1> QED BY <1>1, IInvHolds, PTL

-----------------------------------------------------------------------------
(***************************************************************************)
(* dbuf_write and dbuf_read.                                               *)
(***************************************************************************)

\* The producer fills the slot the byte does not name; the slot it names is
\* the dlatest frame, whole; no word is ahead of the frame being written.
DoubleWriterInv ==
    /\ dwpc = "copy" => wf = front
    /\ dwpc = "copy" => \A x \in Words \ dwleft : dslots[D!Other(wf)][x] = dlatest + 1
    /\ \A x \in Words : dslots[front][x] = dlatest
    /\ \A s \in 0 .. 1 : \A x \in Words : dslots[s][x] <= dlatest + 1
    /\ dwpc = "copy" => dlatest < MaxFrames

\* A read that nobody lapped is still on the front slot; any read holds, and
\* will still find, nothing older than drver.
DoubleReaderInv ==
    /\ drpc = "copy" /\ drpubs = 0 =>
          /\ rf = front
          /\ drver = dlatest
          /\ \A x \in Words \ drleft : drout[x] = drver
    /\ drpc = "copy" =>
          /\ drver <= dlatest
          /\ \A x \in Words : dslots[rf][x] >= drver
          /\ \A x \in Words \ drleft : drout[x] >= drver
    /\ D!UnlappedReadComplete
    /\ D!NeverOlder

\* The inductive invariant.
DoubleInv == D!TypeOK /\ DoubleWriterInv /\ DoubleReaderInv

\* dbuf_init puts frame 0 in both dslots.
LEMMA DoubleInit == D!Init => DoubleInv
BY MaxFramesAssumption
   DEF D!Init, DoubleInv, D!TypeOK, DoubleWriterInv, DoubleReaderInv,
       D!UnlappedReadComplete, D!NeverOlder

\* Each step of the producer or the consumer keeps the invariant.
LEMMA DoubleStep == DoubleInv /\ [D!Next]_D!vars => DoubleInv'
<1> SUFFICES ASSUME DoubleInv, [D!Next]_D!vars PROVE DoubleInv'
  OBVIOUS
<1> USE MaxFramesAssumption DEF DoubleInv, D!TypeOK, D!writer, D!reader,
                                D!UnlappedReadComplete, D!NeverOlder
<1>1. CASE D!WriteLoad
  BY <1>1 DEF D!WriteLoad, DoubleWriterInv, DoubleReaderInv
<1>2. ASSUME NEW x \in Words, D!WriteCopy(x) PROVE DoubleInv'
  <2>0. D!Other(wf) \in 0 .. 1 /\ D!Other(wf) # front /\ wf = front
    BY <1>2 DEF D!WriteCopy, D!Other, DoubleWriterInv
  <2>1. \A s \in 0 .. 1 : \A y \in Words :
           dslots'[s][y] = IF s = D!Other(wf) /\ y = x THEN dlatest + 1 ELSE dslots[s][y]
    BY <1>2, <2>0 DEF D!WriteCopy
  <2>2. D!TypeOK'
    BY <1>2, <2>0 DEF D!WriteCopy
  <2>3. DoubleWriterInv'
    BY <1>2, <2>0, <2>1 DEF D!WriteCopy, DoubleWriterInv, D!Other
  <2>4. DoubleReaderInv'
    BY <1>2, <2>0, <2>1 DEF D!WriteCopy, DoubleWriterInv, DoubleReaderInv
  <2> QED BY <2>2, <2>3, <2>4
<1>3. CASE D!WritePublish
  <2>0. D!Other(wf) \in 0 .. 1 /\ wf = front
    BY <1>3 DEF D!WritePublish, D!Other, DoubleWriterInv
  <2>1. D!TypeOK'
    BY <1>3, <2>0 DEF D!WritePublish, DoubleWriterInv
  <2>2. DoubleWriterInv'
    BY <1>3, <2>0 DEF D!WritePublish, DoubleWriterInv
  <2>3. DoubleReaderInv'
    BY <1>3 DEF D!WritePublish, DoubleReaderInv
  <2> QED BY <2>1, <2>2, <2>3
<1>4. CASE D!ReadLoad
  BY <1>4 DEF D!ReadLoad, DoubleWriterInv, DoubleReaderInv
<1>5. ASSUME NEW x \in Words, D!ReadCopy(x) PROVE DoubleInv'
  <2>1. D!TypeOK' /\ DoubleWriterInv'
    BY <1>5 DEF D!ReadCopy, DoubleWriterInv
  <2>2. \A y \in Words : drout'[y] = IF y = x THEN dslots[rf][x] ELSE drout[y]
    BY <1>5 DEF D!ReadCopy
  <2>3. DoubleReaderInv'
    BY <1>5, <2>2 DEF D!ReadCopy, DoubleWriterInv, DoubleReaderInv
  <2> QED BY <2>1, <2>3
<1>6. CASE D!ReadReturn
  BY <1>6 DEF D!ReadReturn, DoubleWriterInv, DoubleReaderInv
<1>7. CASE UNCHANGED D!vars
  BY <1>7 DEF D!vars, DoubleWriterInv, DoubleReaderInv
<1> QED BY <1>1, <1>2, <1>3, <1>4, <1>5, <1>6, <1>7 DEF D!Next

\* The slot the byte names is whole and dlatest at every moment, and every
\* read in progress is accounted for.
THEOREM DoubleInvHolds == D!Spec => []DoubleInv
BY DoubleInit, DoubleStep, PTL DEF D!Spec

\* A read that no publication overtook returns one whole frame, the dlatest
\* when it loaded front, for every frame size and number of writes.
THEOREM DoubleReadsComplete == D!Spec => []D!UnlappedReadComplete
<1>1. DoubleInv => D!UnlappedReadComplete
  BY DEF DoubleInv, DoubleReaderInv
<1> QED BY <1>1, DoubleInvHolds, PTL

\* dbuf_read never returns a word older than the frame that was the dlatest
\* when it loaded front, torn reads included.
THEOREM DoubleReadsNeverOlder == D!Spec => []D!NeverOlder
<1>1. DoubleInv => D!NeverOlder
  BY DEF DoubleInv, DoubleReaderInv
<1> QED BY <1>1, DoubleInvHolds, PTL

\* Of both headers: a read that no publication overtook is whole, and no word
\* dbuf_read returns is older than the frame current when it loaded front.
THEOREM ReadsWhole == TripleSpec /\ D!Spec => []BufferReads
<1>1. IInv /\ DoubleInv => BufferReads
  BY DEF IInv, ReturnInv, DoubleInv, DoubleReaderInv, BufferReads
<1> QED BY <1>1, IInvHolds, DoubleInvHolds, PTL

-----------------------------------------------------------------------------
(***************************************************************************)
(* The descriptors of ipc.h and server.h.                                  *)
(***************************************************************************)
USE SocketsAssumption

\* Where a user of the library may be.
SockStates == {"idle", "unlink", "bind", "setup", "accept", "open", "failed",
               "closed", "misused"}

\* Types.
SockTypes ==
    /\ kind \in [Threads -> S!Kinds]
    /\ pc \in [Threads -> SockStates]
    /\ table \in [Fds -> Threads \cup {Free, OtherCode}]
    /\ fd \in [Threads -> Fds \cup {None}]
    /\ cfd \in [Threads -> Fds \cup {None}]
    /\ foreign \in SUBSET Threads

\* The numbers a thread is answerable for.
Holds(t) ==
    CASE pc[t] \in {"unlink", "bind", "setup", "accept"} -> {fd[t]}
      [] pc[t] = "open" -> {fd[t], cfd[t]} \ {None}
      [] OTHER -> {}

\* A thread owns no other number, and has it in its variable.
OwnsNoOther == \A t \in Threads : \A f \in Fds : table[f] = t => f \in Holds(t)

\* Until somebody closes what is not his it owns all of them.
OwnsAll == foreign = {} => \A t \in Threads : \A f \in Holds(t) : f \in Fds /\ table[f] = t

\* What the variables hold when the thread has nothing.
NumbersCleared ==
    \A t \in Threads :
        /\ pc[t] \in {"idle", "unlink", "bind", "setup", "accept", "failed"} => cfd[t] = None
        /\ S!Tcp(t) /\ pc[t] \in {"idle", "failed"} => fd[t] = None
        /\ pc[t] \in {"unlink", "bind"} => kind[t] = "ipc_server"

\* The path is there while the server that bound it runs.
PathHolds ==
    path # None =>
        /\ path \in Threads
        /\ kind[path] = "ipc_server"
        /\ pc[path] \in {"setup", "accept", "open"}

\* Only a caller that closes after a failed ipc open closes what is not his.
OnlyMisuse == foreign # {} => \E t \in foreign : ~S!Tcp(t) /\ pc[t] = "misused"

\* The inductive invariant.  Ownership is kept from both sides: OwnsNoOther alone
\* shows that nothing stays open, but that a close hits nobody else needs
\* OwnsAll, which one misuse ends for everybody.
SockInv == /\ SockTypes /\ OwnsNoOther /\ OwnsAll /\ NumbersCleared /\ PathHolds
           /\ OnlyMisuse

\* At the start nothing is open.
LEMMA SockStart == S!Init => SockInv
BY DEF S!Init, SockInv, SockTypes, OwnsNoOther, OwnsAll, NumbersCleared, PathHolds,
       OnlyMisuse, SockStates, Holds

\* Each step of an open, a close or of other code keeps the invariant.
LEMMA SockStep == SockInv /\ [S!Next]_(S!vars) => SockInv'
<1> SUFFICES ASSUME SockInv, [S!Next]_(S!vars) PROVE SockInv'
  OBVIOUS
<1> USE DEF SockInv, SockTypes, SockStates, OwnsNoOther, OwnsAll, NumbersCleared,
            PathHolds, OnlyMisuse, Holds,
            S!Tcp, S!Kinds, S!Keep, S!Set, S!GoTo, S!numbers
<1>1. ASSUME NEW t \in Threads, S!Socket(t) PROVE SockInv'
  BY <1>1 DEF S!Socket, S!FreeFds, S!Opened
<1>2. ASSUME NEW t \in Threads, S!SocketFail(t) PROVE SockInv'
  BY <1>2 DEF S!SocketFail, S!NextAddress
<1>3. ASSUME NEW t \in Threads, S!Unlink(t) PROVE SockInv'
  BY <1>3 DEF S!Unlink
<1>4. ASSUME NEW t \in Threads, S!Bind(t) PROVE SockInv'
  BY <1>4 DEF S!Bind
<1>5. ASSUME NEW t \in Threads, S!BindFail(t) PROVE SockInv'
  BY <1>5 DEF S!BindFail, S!Closing
<1>6. ASSUME NEW t \in Threads, S!SetupOk(t) PROVE SockInv'
  BY <1>6 DEF S!SetupOk, S!Server
<1>7. ASSUME NEW t \in Threads, S!SetupFail(t) PROVE SockInv'
  BY <1>7 DEF S!SetupFail, S!Closing, S!UnlinkOwn, S!NextAddress
<1>8. ASSUME NEW t \in Threads, S!Accept(t) PROVE SockInv'
  BY <1>8 DEF S!Accept, S!FreeFds, S!Opened
<1>9. ASSUME NEW t \in Threads, S!AcceptFail(t) PROVE SockInv'
  BY <1>9 DEF S!AcceptFail, S!Closing, S!UnlinkOwn
<1>10. ASSUME NEW t \in Threads, S!Close(t) PROVE SockInv'
  BY <1>10, SMTT(30) DEF S!Close, S!Closing, S!UnlinkOwn
<1>11. CASE S!OtherOpen \/ \E f \in Fds : S!OtherClose(f)
  BY <1>11 DEF S!OtherOpen, S!OtherClose, S!FreeFds, S!Opened
<1>12. CASE UNCHANGED S!vars
  BY <1>12 DEF S!vars
<1> QED
  BY <1>1, <1>2, <1>3, <1>4, <1>5, <1>6, <1>7, <1>8, <1>9, <1>10, <1>11, <1>12
     DEF S!Next

\* Whatever fails and whatever numbers are reused meanwhile, the library closes
\* what it opened, removes the socket path and closes nothing else, unless a
\* caller closes after a failed ipc open.
THEOREM DescriptorsStayBalanced == S!Spec => []DescriptorsBalanced
<1>1. SockInv => DescriptorsBalanced
  BY DEF SockInv, OwnsNoOther, PathHolds, OnlyMisuse, Holds,
         DescriptorsBalanced, S!DescriptorsBalanced, S!Outside
<1> QED BY <1>1, SockStart, SockStep, PTL DEF S!Spec

-----------------------------------------------------------------------------
(***************************************************************************)
(* send_all and recv_all of ipc.h and server.h, B.                         *)
(***************************************************************************)
USE BytesAssumption

\* Every non-empty set of numbers has a least element: the induction used below.
LEMMA LeastNumber ==
    ASSUME NEW Ns, Ns \subseteq Nat, Ns # {}
    PROVE  \E x \in Ns : \A y \in Ns : x <= y
<1> DEFINE R == OpToRel(<, Nat)
<1>1. IsWellFoundedOn(R, Nat)
  BY NatLessThanWellFounded, Zenon
<1> HIDE DEF R
<1>2. \E x \in Ns : \A y \in Ns : ~(<<y, x>> \in R)
  BY <1>1, WFMin
<1>3. \A x, y \in Nat : <<y, x>> \in R <=> y < x
  BY DEF R, OpToRel
<1>4. \A x, y \in Nat : ~(y < x) => x <= y
  OBVIOUS
<1> QED BY <1>2, <1>3, <1>4

\* What one call adds to a total.
Share(x, c) == IF x.call = c THEN x.len ELSE 0

\* g gives the totals of the first calls of xs, up to b of them.
Sums(g, xs, c, b) ==
    g = [k \in 0 .. b |-> IF k = 0 THEN 0 ELSE g[k - 1] + Share(xs[k], c)]

\* There is such a function,
LEMMA SumsExist ==
    ASSUME NEW xs, NEW c, NEW b \in Nat
    PROVE  \E g : Sums(g, xs, c, b)
<1> DEFINE Bad == {x \in Nat : ~\E g : Sums(g, xs, c, x)}
<1> SUFFICES ASSUME Bad # {} PROVE FALSE
    OBVIOUS
<1>1. PICK x \in Bad : \A y \in Bad : x <= y
    BY LeastNumber
<1>2. CASE x = 0
  <2>1. PICK g : g = [k \in 0 .. 0 |-> 0]
      OBVIOUS
  <2>2. Sums(g, xs, c, 0)
      BY <2>1 DEF Sums
  <2> QED BY <1>1, <1>2, <2>2
<1>3. CASE x # 0
  <2>1. x - 1 \in Nat /\ ~(x <= x - 1)
      BY <1>1, <1>3
  <2>2. PICK g : Sums(g, xs, c, x - 1)
      BY <1>1, <2>1
  <2>3. PICK h : h = [k \in 0 .. x |-> IF k < x THEN g[k] ELSE g[k - 1] + Share(xs[k], c)]
      OBVIOUS
  <2>4. \A k \in 0 .. x - 1 : g[k] = IF k = 0 THEN 0 ELSE g[k - 1] + Share(xs[k], c)
      BY <2>2 DEF Sums
  <2>5. \A k \in 0 .. x - 1 : h[k] = g[k]
      BY <1>1, <2>3
  <2>6. \A k \in 0 .. x : h[k] = IF k = 0 THEN 0 ELSE h[k - 1] + Share(xs[k], c)
    <3> SUFFICES ASSUME NEW k \in 0 .. x
                 PROVE  h[k] = IF k = 0 THEN 0 ELSE h[k - 1] + Share(xs[k], c)
        OBVIOUS
    <3>1. k # 0 => k - 1 \in 0 .. x - 1
        BY <1>1
    <3>2. CASE k < x
      <4>1. k \in 0 .. x - 1
          BY <1>1, <3>2
      <4> QED BY <2>4, <2>5, <3>1, <4>1
    <3>3. CASE ~(k < x)
      <4>1. k # 0 /\ h[k] = g[k - 1] + Share(xs[k], c)
          BY <1>1, <1>3, <2>3, <3>3
      <4> QED BY <2>5, <3>1, <4>1
    <3> QED BY <3>2, <3>3
  <2>7. Sums(h, xs, c, x)
      BY <2>3, <2>6 DEF Sums
  <2> QED BY <1>1, <2>7
<1> QED BY <1>2, <1>3

\* Total is its last value.
LEMMA TotalIs ==
    ASSUME NEW xs \in Seq(PlannedCalls), NEW c
    PROVE  \E g : Sums(g, xs, c, Len(xs)) /\ B!Total(xs, c) = g[Len(xs)]
<1>1. Len(xs) \in Nat
    OBVIOUS
<1> DEFINE f == CHOOSE g : Sums(g, xs, c, Len(xs))
<1>2. Sums(f, xs, c, Len(xs))
    BY <1>1, SumsExist
<1>3. B!Total(xs, c) = f[Len(xs)]
    BY DEF B!Total, Sums, Share
<1> QED BY <1>2, <1>3

\* The totals are numbers.
LEMMA SumsNat ==
    ASSUME NEW xs \in Seq(PlannedCalls), NEW c, NEW g, NEW b \in 0 .. Len(xs), Sums(g, xs, c, b)
    PROVE  \A k \in 0 .. b : g[k] \in Nat
<1> DEFINE Bad == {k \in 0 .. b : g[k] \notin Nat}
<1> SUFFICES ASSUME Bad # {} PROVE FALSE
    OBVIOUS
<1>0. b \in Nat /\ \A k \in 0 .. b : g[k] = IF k = 0 THEN 0 ELSE g[k - 1] + Share(xs[k], c)
    BY DEF Sums
<1>1. PICK k \in Bad : \A y \in Bad : k <= y
  <2>1. Bad \subseteq Nat
      BY <1>0
  <2> HIDE DEF Bad
  <2> QED BY <2>1, LeastNumber
<1>2. k \in 0 .. b /\ k # 0
    BY <1>0, <1>1
<1>3. k - 1 \in 0 .. b /\ ~(k <= k - 1)
    BY <1>0, <1>2
<1>4. g[k - 1] \in Nat
    BY <1>1, <1>3
<1>5. Share(xs[k], c) \in Nat
  <2>1. k \in 1 .. Len(xs)
      BY <1>0, <1>2
  <2>2. xs[k] \in PlannedCalls
      BY <2>1
  <2> QED BY <2>2 DEF PlannedCalls, Share
<1> QED BY <1>0, <1>1, <1>2, <1>4, <1>5

\* No calls, no bytes; and the first call counts once.
LEMMA TotalHead ==
    ASSUME NEW xs \in Seq(PlannedCalls), NEW c
    PROVE  /\ B!Total(xs, c) \in Nat
           /\ xs = <<>> => B!Total(xs, c) = 0
           /\ xs # <<>> => B!Total(xs, c) = Share(Head(xs), c) + B!Total(Tail(xs), c)
<1>1. PICK g : Sums(g, xs, c, Len(xs)) /\ B!Total(xs, c) = g[Len(xs)]
    BY TotalIs
<1>2. Len(xs) \in Nat /\ Len(xs) \in 0 .. Len(xs)
    OBVIOUS
<1>3. \A k \in 0 .. Len(xs) : g[k] \in Nat
    BY <1>1, <1>2, SumsNat
<1>4. \A k \in 0 .. Len(xs) : g[k] = IF k = 0 THEN 0 ELSE g[k - 1] + Share(xs[k], c)
    BY <1>1 DEF Sums
<1>5. ASSUME xs # <<>>
      PROVE  B!Total(xs, c) = Share(Head(xs), c) + B!Total(Tail(xs), c)
  <2>1. PICK ys, m : ys = Tail(xs) /\ m = Len(ys)
      OBVIOUS
  <2>2. /\ ys \in Seq(PlannedCalls) /\ m \in Nat /\ Len(xs) = m + 1
        /\ \A k \in 1 .. m : ys[k] = xs[k + 1]
        /\ Head(xs) = xs[1] /\ xs[1] \in PlannedCalls
      BY <1>5, <2>1
  <2>3. PICK h : Sums(h, ys, c, m) /\ B!Total(ys, c) = h[m]
      BY <2>1, <2>2, TotalIs
  <2>4. \A k \in 0 .. m : h[k] \in Nat
    <3>1. m \in 0 .. Len(ys)
        BY <2>1, <2>2
    <3> QED BY <2>2, <2>3, <3>1, SumsNat
  <2>5. \A k \in 0 .. m : h[k] = IF k = 0 THEN 0 ELSE h[k - 1] + Share(ys[k], c)
      BY <2>3 DEF Sums
  <2>6. PICK e : e = Share(xs[1], c)
      OBVIOUS
  <2>7. e \in Nat
      BY <2>2, <2>6 DEF Share, PlannedCalls
  <2> DEFINE Bad == {k \in 0 .. m : g[k + 1] # e + h[k]}
  <2>8. Bad = {}
    <3> SUFFICES ASSUME Bad # {} PROVE FALSE
        OBVIOUS
    <3>1. PICK k \in Bad : \A y \in Bad : k <= y
      <4>1. Bad \subseteq Nat
          BY <2>2
      <4> HIDE DEF Bad
      <4> QED BY <4>1, LeastNumber
    <3>2. k \in 0 .. m /\ k + 1 \in 0 .. Len(xs) /\ (k + 1) - 1 = k /\ k + 1 # 0
        BY <2>2, <3>1
    <3>3. g[k + 1] = g[k] + Share(xs[k + 1], c)
        BY <1>4, <3>2
    <3>4. CASE k = 0
      <4>1. g[0] = 0 /\ h[0] = 0
          BY <1>2, <1>4, <2>2, <2>5
      <4>2. g[1] = e + h[0]
          BY <2>6, <2>7, <3>3, <3>4, <4>1
      <4> QED BY <3>1, <3>4, <4>2
    <3>5. CASE k # 0
      <4>1. k - 1 \in 0 .. m /\ ~(k <= k - 1) /\ (k - 1) + 1 = k /\ k \in 1 .. m
          BY <2>2, <3>2, <3>5
      <4>2. g[k] = e + h[k - 1]
          BY <3>1, <4>1
      <4>3. h[k] = h[k - 1] + Share(ys[k], c) /\ ys[k] = xs[k + 1]
          BY <2>2, <2>5, <3>2, <3>5, <4>1
      <4>4. h[k - 1] \in Nat /\ h[k] \in Nat /\ g[k] \in Nat /\ g[k + 1] \in Nat
            /\ Share(xs[k + 1], c) \in Nat
        <5>1. k + 1 \in 1 .. Len(xs)
            BY <2>2, <4>1
        <5>2. xs[k + 1] \in PlannedCalls
            BY <5>1
        <5>3. Share(xs[k + 1], c) \in Nat
            BY <5>2 DEF Share, PlannedCalls
        <5>4. k \in 0 .. Len(xs)
            BY <2>2, <3>2
        <5> QED BY <1>3, <2>4, <3>2, <4>1, <5>3, <5>4
      <4>5. g[k + 1] = e + h[k]
          BY <2>7, <3>3, <4>2, <4>3, <4>4, SMTT(30)
      <4> QED BY <3>1, <4>5
    <3> QED BY <3>4, <3>5
  <2>9. g[m + 1] = e + h[m]
      BY <2>2, <2>8
  <2> QED BY <1>1, <2>1, <2>2, <2>3, <2>6, <2>9
<1> QED BY <1>1, <1>2, <1>3, <1>4, <1>5

-----------------------------------------------------------------------------
\* Types; a call under way has a byte left, and no more than it asked for.
ByteTypes ==
    /\ plan \in [Peers -> Seq(PlannedCalls)]
    /\ len \in [Peers -> Nat]
    /\ sent \in [Peers -> Nat]
    /\ wire \in [Peers -> Seq(Nat)]
    /\ got \in [Peers -> Seq(Nat)]
    /\ goal \in [Peers -> Nat]
    /\ \A p \in Peers : plan[p] = <<>> \/ len[p] >= 1

\* The bytes received and those on the way are, in order, the bytes sent.
Flow(r, w, n) ==
    /\ Len(r) + Len(w) = n
    /\ \A k \in 1 .. Len(r) : r[k] = k
    /\ \A k \in 1 .. Len(w) : w[k] = Len(r) + k

\* The bytes a peer with these calls and n bytes left of the first still expects.
Owed(xs, n) ==
    IF xs = <<>> THEN 0 ELSE (IF Head(xs).call = "recv" THEN n ELSE 0) + B!Total(Tail(xs), "recv")

ByteInv ==
    /\ ByteTypes
    /\ \A p \in Peers : Flow(got[p], wire[p], sent[B!Other(p)])
    /\ \A p \in Peers : Len(got[p]) + Owed(plan[p], len[p]) = goal[p]

\* Two peers.
LEMMA OtherPeer ==
    ASSUME NEW p \in Peers
    PROVE  /\ B!Other(p) \in Peers /\ B!Other(p) # p /\ B!Other(B!Other(p)) = p
           /\ \A q \in Peers : q = p \/ q = B!Other(p)
BY DEF B!Other

\* The smaller of two numbers is not above either.
LEMMA MinOfTwo ==
    ASSUME NEW x \in Int, NEW y \in Int, NEW n \in 1 .. B!Min({x, y})
    PROVE  n <= x /\ n <= y /\ n \in Nat /\ n >= 1
<1> DEFINE m == B!Min({x, y})
<1>1. m \in {x, y} /\ \A z \in {x, y} : m <= z
  <2>1. \E z \in {x, y} : \A u \in {x, y} : z <= u
      OBVIOUS
  <2> QED BY <2>1 DEF B!Min
<1>2. m \in Int /\ m <= x /\ m <= y
    BY <1>1
<1> HIDE DEF m
<1>3. n \in 1 .. m
    BY DEF m
<1> QED BY <1>2, <1>3

\* What is expected by a peer at the start of its calls,
LEMMA OwedAtStart ==
    ASSUME NEW xs \in Seq(PlannedCalls)
    PROVE  /\ Owed(xs, B!FirstLen(xs)) = B!Total(xs, "recv")
           /\ B!FirstLen(xs) \in Nat
           /\ xs = <<>> \/ B!FirstLen(xs) >= 1
<1>1. CASE xs = <<>>
    BY <1>1, TotalHead DEF Owed, B!FirstLen
<1>2. CASE xs # <<>>
  <2>1. Head(xs) \in PlannedCalls
      BY <1>2
  <2>2. B!FirstLen(xs) = Head(xs).len /\ Head(xs).len \in Nat \ {0}
      BY <1>2, <2>1 DEF B!FirstLen, PlannedCalls
  <2>3. B!Total(xs, "recv") = Share(Head(xs), "recv") + B!Total(Tail(xs), "recv")
      BY <1>2, TotalHead
  <2> QED BY <1>2, <2>2, <2>3 DEF Owed, Share
<1> QED BY <1>1, <1>2

\* and after n bytes of the call under way.
LEMMA Advanced ==
    ASSUME ByteTypes, NEW p \in Peers, plan[p] # <<>>, NEW n \in Nat, n >= 1, n <= len[p],
           B!Advance(p, n)
    PROVE  /\ plan' \in [Peers -> Seq(PlannedCalls)] /\ len' \in [Peers -> Nat]
           /\ \A q \in Peers : q # p => plan'[q] = plan[q] /\ len'[q] = len[q]
           /\ plan'[p] = <<>> \/ len'[p] >= 1
           /\ Owed(plan[p], len[p]) \in Nat /\ Owed(plan'[p], len'[p]) \in Nat
           /\ Owed(plan[p], len[p])
              = Owed(plan'[p], len'[p]) + (IF Head(plan[p]).call = "recv" THEN n ELSE 0)
<1>0. /\ plan \in [Peers -> Seq(PlannedCalls)] /\ len \in [Peers -> Nat]
      /\ plan[p] \in Seq(PlannedCalls) /\ len[p] \in Nat
    BY DEF ByteTypes
<1>1. PICK xs, ys : xs = plan[p] /\ ys = Tail(xs)
    OBVIOUS
<1>2. xs \in Seq(PlannedCalls) /\ xs # <<>> /\ ys \in Seq(PlannedCalls)
    BY <1>0, <1>1
<1>3. B!Total(ys, "recv") \in Nat
    BY <1>2, TotalHead
<1>4. Owed(xs, len[p]) = (IF Head(xs).call = "recv" THEN len[p] ELSE 0) + B!Total(ys, "recv")
    BY <1>1, <1>2 DEF Owed
<1>5. CASE len[p] > n
  <2>1. plan' = plan /\ len' = [len EXCEPT ![p] = @ - n]
      BY <1>5 DEF B!Advance
  <2>2. /\ len'[p] = len[p] - n /\ len[p] - n \in Nat /\ len[p] - n >= 1
        /\ \A q \in Peers : q # p => len'[q] = len[q]
        /\ len' \in [Peers -> Nat]
      BY <1>0, <1>5, <2>1
  <2>3. Owed(xs, len[p] - n)
        = (IF Head(xs).call = "recv" THEN len[p] - n ELSE 0) + B!Total(ys, "recv")
      BY <1>1, <1>2 DEF Owed
  <2>4. /\ Owed(xs, len[p]) \in Nat /\ Owed(xs, len[p] - n) \in Nat
        /\ Owed(xs, len[p]) = Owed(xs, len[p] - n) + (IF Head(xs).call = "recv" THEN n ELSE 0)
    <3>1. PICK e : e = B!Total(ys, "recv")
        OBVIOUS
    <3>2. CASE Head(xs).call = "recv"
      <4>1. Owed(xs, len[p]) = len[p] + e /\ Owed(xs, len[p] - n) = (len[p] - n) + e
          BY <1>4, <2>3, <3>1, <3>2
      <4> QED BY <1>0, <1>3, <2>2, <3>1, <3>2, <4>1, SMTT(30)
    <3>3. CASE Head(xs).call # "recv"
      <4>1. Owed(xs, len[p]) = 0 + e /\ Owed(xs, len[p] - n) = 0 + e
          BY <1>4, <2>3, <3>1, <3>3
      <4> QED BY <1>3, <3>1, <3>3, <4>1
    <3> QED BY <3>2, <3>3
  <2> QED BY <1>0, <1>1, <2>1, <2>2, <2>4
<1>6. CASE ~(len[p] > n)
  <2>1. plan' = [plan EXCEPT ![p] = Tail(@)] /\ len' = [len EXCEPT ![p] = B!FirstLen(Tail(plan[p]))]
      BY <1>6 DEF B!Advance
  <2>2. n = len[p]
      BY <1>0, <1>6
  <2>3. /\ Owed(ys, B!FirstLen(ys)) = B!Total(ys, "recv") /\ B!FirstLen(ys) \in Nat
        /\ ys = <<>> \/ B!FirstLen(ys) >= 1
      BY <1>2, OwedAtStart
  <2>4. /\ plan'[p] = ys /\ len'[p] = B!FirstLen(ys)
        /\ \A q \in Peers : q # p => plan'[q] = plan[q] /\ len'[q] = len[q]
        /\ plan' \in [Peers -> Seq(PlannedCalls)] /\ len' \in [Peers -> Nat]
      BY <1>0, <1>1, <1>2, <2>1, <2>3
  <2>5. /\ Owed(xs, len[p]) \in Nat
        /\ Owed(xs, len[p]) = B!Total(ys, "recv") + (IF Head(xs).call = "recv" THEN n ELSE 0)
      BY <1>0, <1>3, <1>4, <2>2
  <2> QED BY <1>1, <1>3, <2>3, <2>4, <2>5
<1> QED BY <1>5, <1>6

\* The sender's bytes join the ones on the way.
LEMMA FlowSend ==
    ASSUME NEW r \in Seq(Nat), NEW w \in Seq(Nat), NEW m \in Nat, NEW n \in Nat, Flow(r, w, m)
    PROVE  LET v == w \o [k \in 1 .. n |-> m + k]
           IN  v \in Seq(Nat) /\ Flow(r, v, m + n)
<1>1. PICK u : u = [k \in 1 .. n |-> m + k]
    OBVIOUS
<1>2. u \in Seq(Nat) /\ Len(u) = n /\ \A k \in 1 .. n : u[k] = m + k
    BY <1>1
<1>3. PICK v, x, y : v = w \o u /\ x = Len(r) /\ y = Len(w)
    OBVIOUS
<1>4. /\ x \in Nat /\ y \in Nat /\ v \in Seq(Nat) /\ Len(v) = y + n
      /\ \A k \in 1 .. y + n : v[k] = IF k <= y THEN w[k] ELSE u[k - y]
  <2>1. /\ w \o u \in Seq(Nat) /\ Len(w \o u) = Len(w) + Len(u)
        /\ \A k \in 1 .. Len(w) + Len(u) :
             (w \o u)[k] = IF k <= Len(w) THEN w[k] ELSE u[k - Len(w)]
      BY <1>2, ConcatProperties, ZenonT(60)
  <2>2. Len(r) \in Nat /\ Len(w) \in Nat
      OBVIOUS
  <2> QED BY <1>2, <1>3, <2>1, <2>2
<1>5. x + y = m /\ \A k \in 1 .. y : w[k] = x + k
    BY <1>3 DEF Flow
<1>6. ASSUME NEW k \in 1 .. y + n PROVE v[k] = x + k
  <2>1. CASE k <= y
    <3>1. k \in 1 .. y
        BY <1>4, <2>1
    <3> QED BY <1>4, <1>5, <2>1, <3>1
  <2>2. CASE ~(k <= y)
    <3>1. k - y \in 1 .. n
        BY <1>4, <2>2
    <3>2. v[k] = m + (k - y)
        BY <1>2, <1>4, <2>2, <3>1
    <3> QED BY <1>4, <1>5, <3>2
  <2> QED BY <2>1, <2>2
<1>7. Flow(r, v, m + n)
  <2>1. x + (y + n) = m + n
      BY <1>4, <1>5
  <2>2. \A k \in 1 .. x : r[k] = k
      BY <1>3 DEF Flow
  <2> QED BY <1>3, <1>4, <1>6, <2>1, <2>2 DEF Flow
<1> QED BY <1>1, <1>3, <1>4, <1>7

\* The receiver takes the first ones.
LEMMA FlowRecv ==
    ASSUME NEW r \in Seq(Nat), NEW w \in Seq(Nat), NEW m \in Nat, Flow(r, w, m),
           NEW n \in Nat, n <= Len(w)
    PROVE  LET v == r \o SubSeq(w, 1, n)
               z == SubSeq(w, n + 1, Len(w))
           IN  /\ v \in Seq(Nat) /\ z \in Seq(Nat) /\ Flow(v, z, m)
               /\ Len(v) = Len(r) + n
<1>1. PICK u, z : u = SubSeq(w, 1, n) /\ z = SubSeq(w, n + 1, Len(w))
    OBVIOUS
<1>2. PICK v, x, y : v = r \o u /\ x = Len(r) /\ y = Len(w)
    OBVIOUS
<1>3. x \in Nat /\ y \in Nat /\ x + y = m /\ n <= y
    BY <1>2 DEF Flow
<1>4. /\ u \in Seq(Nat) /\ Len(u) = n /\ \A k \in 1 .. n : u[k] = w[k]
      /\ z \in Seq(Nat) /\ Len(z) = y - n /\ \A k \in 1 .. y - n : z[k] = w[n + k]
  <2>1. /\ u \in Seq(Nat) /\ Len(u) = n /\ \A k \in 1 .. n : u[k] = w[1 + k - 1]
    <3>1. 1 \in 1 .. Len(w) + 1 /\ n \in 1 - 1 .. Len(w) /\ n - 1 + 1 = n
        BY <1>2, <1>3
    <3> QED BY <1>1, <3>1, SubSeqProperties
  <2>2. \A k \in 1 .. n : 1 + k - 1 = k
      OBVIOUS
  <2>3. /\ z \in Seq(Nat) /\ Len(z) = y - n /\ \A k \in 1 .. y - n : z[k] = w[n + 1 + k - 1]
    <3>0. PICK e : e = n + 1
        OBVIOUS
    <3>1. e \in Int /\ y \in Int /\ \A k \in e .. y : w[k] \in Nat
        BY <1>2, <1>3, <3>0
    <3>2. /\ SubSeq(w, e, y) \in Seq(Nat)
          /\ Len(SubSeq(w, e, y)) = IF e <= y THEN y - e + 1 ELSE 0
          /\ \A k \in 1 .. y - e + 1 : SubSeq(w, e, y)[k] = w[e + k - 1]
        BY <3>1, SubSeqProperties
    <3>5. z = SubSeq(w, e, y)
        BY <1>1, <1>2, <3>0
    <3>3. y - (n + 1) + 1 = y - n
        BY <1>3
    <3>4. (IF n + 1 <= y THEN y - (n + 1) + 1 ELSE 0) = y - n
        BY <1>3
    <3> QED BY <3>0, <3>2, <3>3, <3>4, <3>5
  <2>4. \A k \in 1 .. y - n : n + 1 + k - 1 = n + k
      BY <1>3
  <2> QED BY <2>1, <2>2, <2>3, <2>4
<1>5. /\ v \in Seq(Nat) /\ Len(v) = x + n
      /\ \A k \in 1 .. x + n : v[k] = IF k <= x THEN r[k] ELSE u[k - x]
  <2>1. /\ r \o u \in Seq(Nat) /\ Len(r \o u) = Len(r) + Len(u)
        /\ \A k \in 1 .. Len(r) + Len(u) :
             (r \o u)[k] = IF k <= Len(r) THEN r[k] ELSE u[k - Len(r)]
      BY <1>4, ConcatProperties
  <2> QED BY <1>2, <1>3, <1>4, <2>1
<1>6. ASSUME NEW k \in 1 .. x + n PROVE v[k] = k
  <2>1. CASE k <= x
    <3>1. k \in 1 .. x
        BY <1>3, <2>1
    <3> QED BY <1>2, <1>5, <2>1, <3>1 DEF Flow
  <2>2. CASE ~(k <= x)
    <3>1. k - x \in 1 .. n /\ k - x \in 1 .. y
        BY <1>3, <2>2
    <3>2. v[k] = w[k - x]
        BY <1>4, <1>5, <2>2, <3>1
    <3>3. w[k - x] = x + (k - x)
        BY <1>2, <3>1 DEF Flow
    <3> QED BY <1>3, <3>2, <3>3
  <2> QED BY <2>1, <2>2
<1>7. ASSUME NEW k \in 1 .. y - n PROVE z[k] = (x + n) + k
  <2>1. n + k \in 1 .. y
      BY <1>3
  <2>2. z[k] = w[n + k] /\ w[n + k] = x + (n + k)
      BY <1>2, <1>4, <2>1 DEF Flow
  <2> QED BY <1>3, <2>2
<1>8. (x + n) + (y - n) = m
    BY <1>3
<1>9. Flow(v, z, m)
    BY <1>4, <1>5, <1>6, <1>7, <1>8 DEF Flow
<1> QED BY <1>1, <1>2, <1>4, <1>5, <1>9

\* The start of the two peers.
LEMMA ByteStart == B!Init => ByteInv
<1> SUFFICES ASSUME B!Init PROVE ByteInv
    OBVIOUS
<1>1. /\ plan \in [Peers -> Seq(PlannedCalls)]
      /\ \A p \in Peers : plan[p] \in Seq(PlannedCalls)
    BY DEF B!Init
<1>2. /\ len = [p \in Peers |-> B!FirstLen(plan[p])]
      /\ sent = [p \in Peers |-> 0] /\ wire = [p \in Peers |-> <<>>]
      /\ got = [p \in Peers |-> <<>>] /\ goal = [p \in Peers |-> B!Total(plan[p], "recv")]
    BY DEF B!Init
<1>3. ASSUME NEW p \in Peers
      PROVE  /\ Owed(plan[p], len[p]) = goal[p] /\ len[p] \in Nat /\ goal[p] \in Nat
             /\ plan[p] = <<>> \/ len[p] >= 1
  <2>1. PICK xs : xs = plan[p]
      OBVIOUS
  <2>2. /\ Owed(xs, B!FirstLen(xs)) = B!Total(xs, "recv") /\ B!FirstLen(xs) \in Nat
        /\ xs = <<>> \/ B!FirstLen(xs) >= 1
      BY <1>1, <2>1, OwedAtStart
  <2>3. B!Total(xs, "recv") \in Nat
      BY <1>1, <2>1, TotalHead
  <2> QED BY <1>2, <2>1, <2>2, <2>3
<1>4. len \in [Peers -> Nat] /\ goal \in [Peers -> Nat]
    BY <1>2, <1>3
<1>5. <<>> \in Seq(Nat) /\ Len(<<>>) = 0
    OBVIOUS
<1>6. sent \in [Peers -> Nat] /\ wire \in [Peers -> Seq(Nat)] /\ got \in [Peers -> Seq(Nat)]
    BY <1>2, <1>5
<1>7. ASSUME NEW p \in Peers PROVE Flow(got[p], wire[p], sent[B!Other(p)])
  <2>1. got[p] = <<>> /\ wire[p] = <<>> /\ sent[B!Other(p)] = 0
      BY <1>2, OtherPeer
  <2> QED BY <1>5, <2>1 DEF Flow
<1>8. \A p \in Peers : Len(got[p]) + Owed(plan[p], len[p]) = goal[p]
    BY <1>2, <1>3, <1>5
<1> QED BY <1>1, <1>3, <1>4, <1>6, <1>7, <1>8 DEF ByteInv, ByteTypes

\* One send: the other peer's bytes, and what is left of this one's call.
LEMMA SendKeeps ==
    ASSUME ByteInv, NEW p \in Peers, NEW n, B!Send(p, n)
    PROVE  ByteInv'
<1> DEFINE o == B!Other(p)
<1>0. /\ o \in Peers /\ o # p /\ B!Other(o) = p /\ \A q \in Peers : q = p \/ q = o
    BY OtherPeer
<1> HIDE DEF o
<1>1. ByteTypes /\ plan[p] # <<>> /\ Head(plan[p]).call = "send" /\ B!Advance(p, n)
    BY DEF ByteInv, B!Send, B!In
<1>2. n \in Nat /\ n >= 1 /\ n <= len[p]
  <2>1. n \in 1 .. B!Min({len[p], Room - Len(wire[o])}) /\ len[p] \in Int
      BY DEF B!Send, ByteInv, ByteTypes, o
  <2>2. Room - Len(wire[o]) \in Int
      BY <1>0, BytesAssumption DEF ByteInv, ByteTypes
  <2> QED BY <2>1, <2>2, MinOfTwo
<1>3. /\ plan' \in [Peers -> Seq(PlannedCalls)] /\ len' \in [Peers -> Nat]
      /\ \A q \in Peers : q # p => plan'[q] = plan[q] /\ len'[q] = len[q]
      /\ plan'[p] = <<>> \/ len'[p] >= 1
      /\ Owed(plan[p], len[p]) \in Nat /\ Owed(plan'[p], len'[p]) \in Nat
      /\ Owed(plan[p], len[p]) = Owed(plan'[p], len'[p]) + 0
    BY <1>1, <1>2, Advanced
<1>4. /\ wire' = [wire EXCEPT ![o] = @ \o [k \in 1 .. n |-> sent[p] + k]]
      /\ sent' = [sent EXCEPT ![p] = @ + n] /\ got' = got /\ goal' = goal
    BY DEF B!Send, o
<1>5. PICK w, m : w = wire[o] /\ m = sent[p]
    OBVIOUS
<1>6. PICK v : v = w \o [k \in 1 .. n |-> m + k]
    OBVIOUS
<1>7. v \in Seq(Nat) /\ Flow(got[o], v, m + n)
  <2>1. w \in Seq(Nat) /\ got[o] \in Seq(Nat) /\ m \in Nat /\ Flow(got[o], w, m)
      BY <1>0, <1>1, <1>5 DEF ByteInv, ByteTypes
  <2> QED BY <1>2, <1>6, <2>1, FlowSend
<1>8. /\ wire'[o] = v /\ wire'[p] = wire[p] /\ wire' \in [Peers -> Seq(Nat)]
      /\ sent'[p] = m + n /\ sent'[o] = sent[o] /\ sent' \in [Peers -> Nat]
  <2>1. wire' = [wire EXCEPT ![o] = v] /\ wire \in [Peers -> Seq(Nat)]
      BY <1>1, <1>4, <1>5, <1>6 DEF ByteTypes
  <2>2. wire'[o] = v /\ wire'[p] = wire[p] /\ wire' \in [Peers -> Seq(Nat)]
      BY <1>0, <1>7, <2>1
  <2>3. sent' = [sent EXCEPT ![p] = m + n] /\ sent \in [Peers -> Nat] /\ m + n \in Nat
    <3>1. sent \in [Peers -> Nat] /\ m \in Nat
        BY <1>1, <1>5 DEF ByteTypes
    <3>2. sent' = [sent EXCEPT ![p] = m + n]
        BY <1>4, <1>5
    <3>3. m + n \in Nat
        BY <1>2, <3>1
    <3> QED BY <3>1, <3>2, <3>3
  <2>4. sent'[p] = m + n /\ sent'[o] = sent[o] /\ sent' \in [Peers -> Nat]
      BY <1>0, <2>3
  <2> QED BY <2>2, <2>4
<1>9. ByteTypes'
    BY <1>1, <1>3, <1>4, <1>8 DEF ByteTypes
<1>10. ASSUME NEW q \in Peers PROVE Flow(got'[q], wire'[q], sent'[B!Other(q)])
  <2>1. CASE q = p
      BY <1>0, <1>4, <1>8, <2>1 DEF ByteInv, o
  <2>2. CASE q = o
      BY <1>0, <1>4, <1>7, <1>8, <2>2
  <2> QED BY <1>0, <2>1, <2>2
<1>11. ASSUME NEW q \in Peers PROVE Len(got'[q]) + Owed(plan'[q], len'[q]) = goal'[q]
  <2>1. Len(got[q]) + Owed(plan[q], len[q]) = goal[q]
      BY DEF ByteInv
  <2>2. Owed(plan'[q], len'[q]) = Owed(plan[q], len[q])
      BY <1>3
  <2> QED BY <1>4, <2>1, <2>2
<1> QED BY <1>9, <1>10, <1>11 DEF ByteInv

\* One recv.
LEMMA RecvKeeps ==
    ASSUME ByteInv, NEW p \in Peers, NEW n, B!Recv(p, n)
    PROVE  ByteInv'
<1>1. ByteTypes /\ plan[p] # <<>> /\ Head(plan[p]).call = "recv" /\ B!Advance(p, n)
    BY DEF ByteInv, B!Recv, B!In
<1>2. n \in Nat /\ n >= 1 /\ n <= len[p] /\ n <= Len(wire[p])
  <2>1. /\ n \in 1 .. B!Min({len[p], Len(wire[p])}) /\ len[p] \in Int
        /\ Len(wire[p]) \in Int
      BY SMTT(30) DEF B!Recv, ByteInv, ByteTypes
  <2> QED BY <2>1, MinOfTwo
<1>3. /\ plan' \in [Peers -> Seq(PlannedCalls)] /\ len' \in [Peers -> Nat]
      /\ \A q \in Peers : q # p => plan'[q] = plan[q] /\ len'[q] = len[q]
      /\ plan'[p] = <<>> \/ len'[p] >= 1
      /\ Owed(plan[p], len[p]) \in Nat /\ Owed(plan'[p], len'[p]) \in Nat
      /\ Owed(plan[p], len[p]) = Owed(plan'[p], len'[p]) + n
    BY <1>1, <1>2, Advanced
<1>4. /\ got' = [got EXCEPT ![p] = @ \o SubSeq(wire[p], 1, n)]
      /\ wire' = [wire EXCEPT ![p] = SubSeq(@, n + 1, Len(@))]
      /\ sent' = sent /\ goal' = goal
    BY DEF B!Recv
<1>5. PICK r, w, m : r = got[p] /\ w = wire[p] /\ m = sent[B!Other(p)]
    OBVIOUS
<1>6. PICK v, z : v = r \o SubSeq(w, 1, n) /\ z = SubSeq(w, n + 1, Len(w))
    OBVIOUS
<1>7. v \in Seq(Nat) /\ z \in Seq(Nat) /\ Flow(v, z, m) /\ Len(v) = Len(r) + n
  <2>1. r \in Seq(Nat) /\ w \in Seq(Nat) /\ m \in Nat /\ Flow(r, w, m) /\ n <= Len(w)
      BY <1>1, <1>2, <1>5, OtherPeer, SMTT(30) DEF ByteInv, ByteTypes
  <2> QED BY <1>2, <1>6, <2>1, FlowRecv
<1>8. /\ got'[p] = v /\ wire'[p] = z
      /\ \A q \in Peers : q # p => got'[q] = got[q] /\ wire'[q] = wire[q]
      /\ got' \in [Peers -> Seq(Nat)] /\ wire' \in [Peers -> Seq(Nat)]
    BY <1>1, <1>4, <1>5, <1>6, <1>7 DEF ByteTypes
<1>9. ByteTypes'
    BY <1>1, <1>3, <1>4, <1>8 DEF ByteTypes
<1>10. ASSUME NEW q \in Peers PROVE Flow(got'[q], wire'[q], sent'[B!Other(q)])
  <2>1. CASE q = p
      BY <1>4, <1>5, <1>7, <1>8, <2>1
  <2>2. CASE q # p
      BY <1>4, <1>8, <2>2 DEF ByteInv
  <2> QED BY <2>1, <2>2
<1>11. ASSUME NEW q \in Peers PROVE Len(got'[q]) + Owed(plan'[q], len'[q]) = goal'[q]
  <2>1. Len(got[q]) + Owed(plan[q], len[q]) = goal[q]
      BY DEF ByteInv
  <2>2. CASE q = p
    <3>1. Len(r) \in Nat
        BY <1>1, <1>5 DEF ByteTypes
    <3>2. /\ Len(got'[p]) = Len(r) + n /\ Len(r) + Owed(plan[p], len[p]) = goal[p]
        BY <1>5, <1>7, <1>8, <2>1, <2>2
    <3>3. (Len(r) + n) + Owed(plan'[p], len'[p]) = goal[p]
        BY <1>2, <1>3, <3>1, <3>2
    <3> QED BY <1>4, <2>2, <3>2, <3>3
  <2>3. CASE q # p
      BY <1>3, <1>4, <1>8, <2>1, <2>3
  <2> QED BY <2>2, <2>3
<1> QED BY <1>9, <1>10, <1>11 DEF ByteInv

\* Every step of the peers, the kernel and the signals.
LEMMA ByteStep == ByteInv /\ [B!Next]_(B!vars) => ByteInv'
<1> SUFFICES ASSUME ByteInv, [B!Next]_(B!vars) PROVE ByteInv'
    OBVIOUS
<1>1. ASSUME NEW p \in Peers, NEW n, B!Send(p, n) PROVE ByteInv'
    BY <1>1, SendKeeps
<1>2. ASSUME NEW p \in Peers, NEW n, B!Recv(p, n) PROVE ByteInv'
    BY <1>2, RecvKeeps
<1>3. CASE UNCHANGED <<plan, len, sent, wire, got, goal>>
    BY <1>3 DEF ByteInv, ByteTypes
<1>4. ASSUME NEW p \in Peers, B!SendFail(p) \/ B!RecvEof(p) \/ B!GoAway(p) \/ B!Signal(p)
      PROVE  UNCHANGED <<plan, len, sent, wire, got, goal>>
    BY <1>4 DEF B!SendFail, B!RecvEof, B!GoAway, B!Fail, B!Signal
<1>5. CASE UNCHANGED B!vars
    BY <1>3, <1>5 DEF B!vars
<1>6. CASE B!Next
    BY <1>1, <1>2, <1>3, <1>4, <1>6 DEF B!Next, B!Step
<1> QED BY <1>5, <1>6

\* For any plans, cuts of the transfers, signals and failures: what a peer has
\* received are the bytes the other sent, in order and once, and when its calls
\* have returned it has all it asked for (send_all and recv_all).
THEOREM BytesInOrder == B!Spec => [](\A p \in Peers : B!InOrder(p))
<1>1. ByteInv => \A p \in Peers : B!InOrder(p)
  <2> SUFFICES ASSUME ByteInv, NEW p \in Peers PROVE B!InOrder(p)
      OBVIOUS
  <2>1. PICK r : r = got[p]
      OBVIOUS
  <2>2. r \in Seq(Nat) /\ Len(r) \in Nat /\ \A k \in 1 .. Len(r) : r[k] = k
    <3>1. r \in Seq(Nat) /\ Flow(r, wire[p], sent[B!Other(p)])
        BY <2>1 DEF ByteInv, ByteTypes
    <3> QED BY <3>1 DEF Flow
  <2>3. r = [k \in 1 .. Len(r) |-> k]
      BY <2>2
  <2>4. plan[p] = <<>> => Len(r) + 0 = goal[p]
      BY <2>1 DEF ByteInv, Owed
  <2> QED BY <2>1, <2>2, <2>3, <2>4 DEF B!InOrder, B!Bytes
<1> QED BY <1>1, ByteStart, ByteStep, PTL DEF B!Spec
=============================================================================
