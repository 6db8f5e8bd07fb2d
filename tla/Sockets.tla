------------------------------ MODULE Sockets ------------------------------
(***************************************************************************)
(* stdlib/utils/ipc.h and server.h: who owns which descriptor.  Threads of *)
(* one process open and close sockets with the library while other code of *)
(* the process opens and closes descriptors of its own: a number is reused *)
(* as soon as it is free.                                                  *)
(*                                                                         *)
(* An ipc call stores the number in the caller's variable and leaves it    *)
(* there when it fails; the tcp functions return the number or -1.         *)
(***************************************************************************)
EXTENDS Naturals, FiniteSets

CONSTANTS
    Threads,    \* users of the library, each for one connection
    Fds,        \* the descriptor table
    Free, Other,\* an unused descriptor, one of other code
    None,       \* -1; the socket path without a file
    Addresses   \* bound: the addresses getaddrinfo returns

VARIABLES
    kind,       \* which functions a thread uses
    pc,
    table,      \* the owner of each descriptor
    fd, cfd,    \* the caller's variables: the socket, the accepted client
    tried,      \* addresses tried by tcp_listen or tcp_connect
    path,       \* the thread whose socket the path of ipc names
    foreign     \* history: threads that closed a descriptor that was not theirs

numbers == <<fd, cfd>>
vars == <<kind, pc, table, fd, cfd, tried, path, foreign>>

Kinds == {"ipc_server", "ipc_client", "tcp_server", "tcp_client"}
Tcp(t) == kind[t] \in {"tcp_server", "tcp_client"}
Server(t) == kind[t] \in {"ipc_server", "tcp_server"}

Init ==
    /\ kind \in [Threads -> Kinds]
    /\ pc = [t \in Threads |-> "idle"]
    /\ table = [f \in Fds |-> Free]
    /\ fd = [t \in Threads |-> None]
    /\ cfd = [t \in Threads |-> None]
    /\ tried = [t \in Threads |-> 0]
    /\ path = None
    /\ foreign = {}

-----------------------------------------------------------------------------
GoTo(t, label) == pc' = [pc EXCEPT ![t] = label]
Set(var, t, f) == [var EXCEPT ![t] = f]

FreeFds == {f \in Fds : table[f] = Free}
Opened(f, t) == [table EXCEPT ![f] = t]

\* close of the numbers fs by t, those of other owners too.
Closing(t, fs) ==
    /\ table' = [f \in Fds |-> IF f \in fs THEN Free ELSE table[f]]
    /\ foreign' = IF \A f \in fs : table[f] = t THEN foreign ELSE foreign \cup {t}

Keep == UNCHANGED <<table, foreign>>

\* socket(), of an ipc function or for the next address of a tcp one.
Socket(t) ==
    /\ pc[t] = "idle"
    /\ \E f \in FreeFds :
         /\ table' = Opened(f, t)
         /\ fd' = Set(fd, t, f)
    /\ GoTo(t, IF kind[t] = "ipc_server" THEN "unlink" ELSE "setup")
    /\ UNCHANGED <<kind, cfd, tried, path, foreign>>

\* A tcp function goes on with the next address, if there is one.
NextAddress(t) ==
    IF Tcp(t) /\ tried[t] + 1 < Addresses
    THEN /\ tried' = [tried EXCEPT ![t] = @ + 1]
         /\ GoTo(t, "idle")
    ELSE /\ GoTo(t, "failed")
         /\ UNCHANGED tried

SocketFail(t) ==
    /\ pc[t] = "idle"
    /\ fd' = Set(fd, t, None)
    /\ NextAddress(t)
    /\ Keep
    /\ UNCHANGED <<kind, cfd, path>>

Unlink(t) ==
    /\ pc[t] = "unlink"
    /\ path' = None
    /\ GoTo(t, "bind")
    /\ Keep
    /\ UNCHANGED <<kind, numbers, tried>>

Bind(t) ==
    /\ pc[t] = "bind"
    /\ path = None
    /\ path' = t
    /\ GoTo(t, "setup")
    /\ Keep
    /\ UNCHANGED <<kind, numbers, tried>>

\* Another server has bound the path meanwhile, or bind fails otherwise.
BindFail(t) ==
    /\ pc[t] = "bind"
    /\ Closing(t, {fd[t]})
    /\ GoTo(t, "failed")
    /\ UNCHANGED <<kind, numbers, tried, path>>

\* listen, or connect, or the bind and listen of tcp_listen.
SetupOk(t) ==
    /\ pc[t] = "setup"
    /\ GoTo(t, IF Server(t) THEN "accept" ELSE "open")
    /\ Keep
    /\ UNCHANGED <<kind, numbers, tried, path>>

UnlinkOwn(t) == path' = IF kind[t] = "ipc_server" THEN None ELSE path

SetupFailKept(t) ==
    /\ pc[t] = "setup"
    /\ Keep
    /\ fd' = IF Tcp(t) THEN Set(fd, t, None) ELSE fd
    /\ UnlinkOwn(t)
    /\ NextAddress(t)
    /\ UNCHANGED <<kind, cfd>>

SetupFail(t) ==
    /\ pc[t] = "setup"
    /\ Closing(t, {fd[t]})
    /\ fd' = IF Tcp(t) THEN Set(fd, t, None) ELSE fd
    /\ UnlinkOwn(t)
    /\ NextAddress(t)
    /\ UNCHANGED <<kind, cfd>>

Accept(t) ==
    /\ pc[t] = "accept"
    /\ \E f \in FreeFds :
         /\ table' = Opened(f, t)
         /\ cfd' = Set(cfd, t, f)
    /\ GoTo(t, "open")
    /\ UNCHANGED <<kind, fd, tried, path, foreign>>

\* A signal or another error ends ipc_server_open; tcp_accept repeats the call
\* after a signal and leaves the listening socket to its caller.
AcceptFail(t) ==
    /\ pc[t] = "accept"
    /\ cfd' = Set(cfd, t, None)
    /\ IF Tcp(t)
       THEN GoTo(t, "open") /\ Keep
       ELSE GoTo(t, "failed") /\ Closing(t, {fd[t]})
    /\ UnlinkOwn(t)
    /\ UNCHANGED <<kind, fd, tried>>

\* ipc_server_close, ipc_client_close or tcp_close for each number that is not -1,
\* by a caller that has a connection or by one whose open has failed.
Close(t) ==
    /\ pc[t] \in {"open", "failed"}
    /\ Closing(t, {fd[t], cfd[t]} \ {None})
    /\ fd' = Set(fd, t, None)
    /\ cfd' = Set(cfd, t, None)
    /\ UnlinkOwn(t)
    /\ GoTo(t, IF pc[t] = "open" THEN "closed" ELSE "misused")
    /\ UNCHANGED <<kind, tried>>

\* Other code of the process.
OtherOpen ==
    /\ \E f \in FreeFds : table' = Opened(f, Other)
    /\ UNCHANGED <<kind, pc, numbers, tried, path, foreign>>
OtherClose(f) ==
    /\ table[f] = Other
    /\ table' = Opened(f, Free)
    /\ UNCHANGED <<kind, pc, numbers, tried, path, foreign>>

Next ==
    \/ \E t \in Threads :
         \/ Socket(t) \/ SocketFail(t)
         \/ Unlink(t) \/ Bind(t) \/ BindFail(t)
         \/ SetupOk(t) \/ SetupFail(t)
         \/ Accept(t) \/ AcceptFail(t)
         \/ Close(t)
    \/ OtherOpen
    \/ \E f \in Fds : OtherClose(f)

Spec == Init /\ [][Next]_vars

-----------------------------------------------------------------------------
Outside(t) == pc[t] \in {"failed", "closed", "misused"}

\* However the steps of an open fail and numbers are reused meanwhile: a thread
\* that is done owns no descriptor any more, and when all are, the socket path is
\* gone; and nobody closes a descriptor that is not his before some caller closes
\* after a failed ipc open, whose variable still holds a number.
DescriptorsBalanced ==
    /\ \A t \in Threads : Outside(t) => \A f \in Fds : table[f] # t
    /\ (\A t \in Threads : Outside(t)) => path = None
    /\ foreign # {} => \E t \in foreign : ~Tcp(t) /\ pc[t] = "misused"
=============================================================================
