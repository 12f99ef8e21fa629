------------------------- MODULE TcpSession_proofs -------------------------
(***************************************************************************)
(* For any number of clients, sockets and requests: no socket is lost or   *)
(* closed under anyone, and answers keep to their session.                 *)
(*                                                                         *)
(* A descriptor means something only together with the place at which      *)
(* tcp_server_task is: the handle holds the session's socket from accept   *)
(* to closesocket, a stale one or none after that, and 0, the listening    *)
(* socket's, while there is no session.                                    *)
(***************************************************************************)
EXTENDS TcpSession, SequenceTheorems, TLAPS

InSession == {"connected", "recv", "queue", "close"}
Closing == {"forget", "mark", "zero"}

InvTypes ==
    /\ conn \in [fd : {-1} \union Fds, stat : {"closed", "connected"}]
    /\ sock \in [Fds -> Clients \union {NoOne, Listener, Leftover}]
    /\ box \in Seq(Clients \union {Aborted})
    /\ cur \in Clients \union {NoOne}
    /\ spc \in {"clear", "accept"} \union InSession \union Closing

\* Only the session's client has a socket of its own, until it is closed.
InvSockets ==
    /\ sock[0] = Listener
    /\ \A s \in Fds \ {0} :
         \/ sock[s] \in {NoOne, Leftover}
         \/ sock[s] = cur /\ conn.fd = s /\ spc \in InSession

\* What the place of tcp_server_task says of the handle.
InvHandle ==
    /\ spc \in InSession => conn.fd \in Fds \ {0} /\ sock[conn.fd] = cur
    /\ spc \in InSession \union Closing => cur \in Clients /\ conn.fd # 0
    /\ spc \in {"clear", "accept"} => cur = NoOne
    /\ conn.stat = "connected" => cur # NoOne

\* What msg_proc_task has seen is the session that still lasts, and what it has
\* loaded since is not the listening socket.
InvSeen ==
    /\ seen # NoOne => seen = cur
    /\ ppc = "send" /\ seen # NoOne => pfd # 0

IInv == InvTypes /\ InvSockets /\ InvHandle /\ InvSeen

-----------------------------------------------------------------------------
\* The listening socket is one of the sockets.
LEMMA ListenerIsSocket == 0 \in Fds
  BY SizesAssumption DEF Fds

\* The invariant holds at the start.
LEMMA InitInv == Init => IInv
<1> SUFFICES ASSUME Init PROVE IInv
  OBVIOUS
<1> USE DEF Init
<1>1. InvTypes
  <2>1. box \in Seq(Clients \union {Aborted})
    OBVIOUS
  <2>2. sock \in [Fds -> Clients \union {NoOne, Listener, Leftover}]
    OBVIOUS
  <2> QED
    BY ListenerIsSocket, <2>1, <2>2 DEF InvTypes
<1>2. InvSockets
  BY ListenerIsSocket DEF InvSockets
<1>3. InvHandle /\ InvSeen
  BY DEF InvHandle, InvSeen, InSession, Closing
<1> QED
  BY <1>1, <1>2, <1>3 DEF IInv

\* What is announced stays a sequence of clients and errors.
LEMMA BoxTypes ==
  ASSUME IInv
  PROVE  /\ \A x \in Clients \union {Aborted} :
              Append(box, x) \in Seq(Clients \union {Aborted})
         /\ box # <<>> => /\ Head(box) \in Clients \union {Aborted}
                         /\ Tail(box) \in Seq(Clients \union {Aborted})
<1>1. box \in Seq(Clients \union {Aborted})
  BY DEF IInv, InvTypes
<1> QED
  BY <1>1, AppendProperties, HeadTailProperties

\* What the clients do changes none of it, but for who waits.
LEMMA ClientKeeps ==
  ASSUME IInv, NEW c \in Clients, Connect(c) \/ Ask(c) \/ Leave(c) \/ Reset(c)
  PROVE  IInv'
<1>1. box' \in Seq(Clients \union {Aborted})
  BY SMTT(30), BoxTypes DEF IInv, InvTypes, Connect, Ask, Leave, Reset, server
<1>2. UNCHANGED <<conn, sock, spc, cur, seen, pfd>> /\ (ppc' = "send" => ppc = "send")
  BY DEF Connect, Ask, Leave, Reset, server, proc, NextMessage
<1> QED
  BY <1>1, <1>2 DEF IInv, InvTypes, InvSockets, InvHandle, InvSeen

\* An accepted connection gets a socket that was free, so not the listener's.
LEMMA AcceptKeeps == IInv /\ Accept => IInv'
<1> SUFFICES ASSUME IInv, Accept PROVE IInv'
  OBVIOUS
<1> USE DEF NoOne, Listener, Leftover, Aborted
<1>1. PICK s \in Free : /\ sock' = [sock EXCEPT ![s] = Head(box)]
                        /\ conn' = [conn EXCEPT !.fd = s]
  BY DEF Accept
<1>2. s \in Fds \ {0} /\ sock[s] = NoOne
  BY <1>1 DEF Free, IInv, InvSockets
<1>3. Head(box) \in Clients /\ Tail(box) \in Seq(Clients \union {Aborted})
  BY BoxTypes DEF Accept, Refused
<1>4. InvTypes'
  BY <1>1, <1>2, <1>3 DEF Accept, IInv, InvTypes, InSession
<1>5. cur = NoOne /\ cur' = Head(box) /\ spc' = "connected" /\ spc = "accept"
  BY DEF Accept, IInv, InvHandle
<1>6. InvSockets'
  <2>1. \A t \in Fds : sock'[t] = IF t = s THEN cur' ELSE sock[t]
    BY <1>1, <1>2, <1>5 DEF IInv, InvTypes
  <2>2. conn'.fd = s
    BY <1>1 DEF IInv, InvTypes
  <2>3. \A t \in Fds \ {0} : sock[t] \in {NoOne, Leftover}
    BY <1>5 DEF IInv, InvSockets, InSession
  <2> QED
    BY <1>2, <1>5, <2>1, <2>2, <2>3, ListenerIsSocket
       DEF IInv, InvSockets, InSession
<1>7. InvHandle'
  BY <1>1, <1>2, <1>3, <1>5, ClientsAssumption
     DEF IInv, InvTypes, InvHandle, InSession, Closing, Fds
<1>8. InvSeen'
  BY <1>5 DEF Accept, IInv, InvSeen, proc
<1> QED
  BY <1>4, <1>6, <1>7, <1>8 DEF IInv

\* The socket that is closed is the session's; if LwIP refuses, it is left over.
LEMMA CloseKeeps == IInv /\ CloseSocket => IInv'
<1> SUFFICES ASSUME IInv, CloseSocket PROVE IInv'
  OBVIOUS
<1> USE DEF NoOne, Listener, Leftover, Aborted
<1>1. conn.fd \in Fds \ {0} /\ sock[conn.fd] = cur /\ cur \in Clients
  BY DEF CloseSocket, IInv, InvHandle, InSession
<1>2. PICK v \in {NoOne, Leftover} : sock' = [sock EXCEPT ![conn.fd] = v]
  <2> SUFFICES \E v \in {NoOne, Leftover} : sock' = [sock EXCEPT ![conn.fd] = v]
    OBVIOUS
  <2>1. ~(conn.fd < 0)
    BY <1>1, SizesAssumption DEF Fds
  <2>2. sock' = [sock EXCEPT ![conn.fd] = IF Writing(cur) THEN Leftover ELSE NoOne]
    BY <2>1 DEF CloseSocket
  <2> QED
    BY <2>2
<1>3. spc' = "forget" /\ UNCHANGED <<conn, box, cur, ppc, pfd, seen>>
  BY DEF CloseSocket, proc
<1>4. InvTypes'
  BY <1>1, <1>2, <1>3 DEF IInv, InvTypes, Closing
<1>5. InvSockets'
  <2>1. \A t \in Fds : sock'[t] = IF t = conn.fd THEN v ELSE sock[t]
    BY <1>1, <1>2 DEF IInv, InvTypes
  <2>2. \A t \in Fds \ {0} : t # conn.fd => sock[t] \in {NoOne, Leftover}
    BY DEF IInv, InvSockets
  <2> QED
    BY <1>1, <2>1, <2>2, ListenerIsSocket DEF IInv, InvSockets
<1>6. InvHandle' /\ InvSeen'
  BY <1>1, <1>3 DEF IInv, InvHandle, InvSeen, InSession, Closing
<1> QED
  BY <1>4, <1>5, <1>6 DEF IInv

\* A place that leaves sockets, session and what the handle holds alone, and
\* goes on within the same part of the session.
LEMMA HandleKeeps ==
  ASSUME IInv, UNCHANGED <<sock, cur, ppc, pfd, seen>>,
         conn'.fd = conn.fd,
         conn' \in [fd : {-1} \union Fds, stat : {"closed", "connected"}],
         box' \in Seq(Clients \union {Aborted}),
         conn'.stat = "connected" => cur # NoOne,
         spc' \in {"clear", "accept"} \union InSession \union Closing,
         spc \in InSession <=> spc' \in InSession,
         spc \in Closing <=> spc' \in Closing
  PROVE  IInv'
<1>1. InvTypes' /\ InvSockets'
  BY DEF IInv, InvTypes, InvSockets
<1>2. spc \in {"clear", "accept"} <=> spc' \in {"clear", "accept"}
  BY DEF IInv, InvTypes, InSession, Closing
<1>3. InvHandle' /\ InvSeen'
  BY <1>2 DEF IInv, InvHandle, InvSeen
<1> QED
  BY <1>1, <1>3 DEF IInv

\* Clearing or losing a handle nobody holds a socket by.
LEMMA IdleKeeps == IInv /\ (ClearHandle \/ AcceptFails) => IInv'
<1> SUFFICES ASSUME IInv, ClearHandle \/ AcceptFails PROVE IInv'
  OBVIOUS
<1>1. /\ spc \in {"clear", "accept"} /\ spc' \in {"clear", "accept"}
      /\ UNCHANGED <<sock, cur, ppc, pfd, seen>>
  BY DEF ClearHandle, AcceptFails, proc
<1>2. conn' \in [fd : {-1} \union Fds, stat : {"closed", "connected"}]
  BY ListenerIsSocket DEF ClearHandle, AcceptFails, IInv, InvTypes
<1>3. box' \in Seq(Clients \union {Aborted})
  BY BoxTypes DEF ClearHandle, AcceptFails, IInv, InvTypes
<1>4. InvTypes'
  BY <1>1, <1>2, <1>3 DEF IInv, InvTypes
<1>5. InvSockets'
  BY <1>1 DEF IInv, InvSockets, InSession
<1>6. conn.stat # "connected" /\ cur = NoOne
  BY <1>1 DEF IInv, InvHandle
<1>7. conn'.stat # "connected"
  BY <1>6 DEF ClearHandle, AcceptFails, IInv, InvTypes
<1>8. InvHandle' /\ InvSeen'
  BY <1>1, <1>6, <1>7 DEF IInv, InvHandle, InvSeen, InSession, Closing
<1> QED
  BY <1>4, <1>5, <1>8 DEF IInv

\* While the session lasts tcp_server_task touches no more than the status.
LEMMA SessionKeeps ==
  IInv /\ (MarkConnected \/ Receive \/ ReceiveFails \/ QueueMessage) => IInv'
<1> SUFFICES ASSUME IInv, MarkConnected \/ Receive \/ ReceiveFails \/ QueueMessage
             PROVE  IInv'
  OBVIOUS
<1>1. /\ spc \in InSession /\ spc' \in InSession
      /\ UNCHANGED <<sock, cur, ppc, pfd, seen, box>>
  BY DEF MarkConnected, Receive, ReceiveFails, QueueMessage, InSession, proc
<1>2. /\ conn'.fd = conn.fd
      /\ conn' \in [fd : {-1} \union Fds, stat : {"closed", "connected"}]
  BY DEF MarkConnected, Receive, ReceiveFails, QueueMessage, IInv, InvTypes
<1>3. cur # NoOne
  BY <1>1, ClientsAssumption DEF IInv, InvHandle
<1>4. box' \in Seq(Clients \union {Aborted})
  BY <1>1 DEF IInv, InvTypes
<1>5. spc \notin Closing /\ spc' \notin Closing
  BY <1>1 DEF InSession, Closing
<1> QED
  BY <1>1, <1>2, <1>3, <1>4, <1>5, HandleKeeps

\* After closesocket the handle has no socket to lose any more.
LEMMA ClosingKeeps == IInv /\ (ForgetSocket \/ MarkClosed) => IInv'
<1> SUFFICES ASSUME IInv, ForgetSocket \/ MarkClosed PROVE IInv'
  OBVIOUS
<1>1. /\ spc \in Closing /\ spc' \in Closing
      /\ UNCHANGED <<sock, cur, ppc, pfd, seen, box>>
  BY DEF ForgetSocket, MarkClosed, Closing, proc
<1>2. spc \notin InSession /\ spc' \notin InSession
  BY <1>1 DEF InSession, Closing
<1>3. /\ conn' \in [fd : {-1} \union Fds, stat : {"closed", "connected"}]
      /\ conn'.fd \in {-1, conn.fd}
  BY DEF ForgetSocket, MarkClosed, IInv, InvTypes
<1>4. InvTypes'
  BY <1>1, <1>3 DEF IInv, InvTypes
<1>5. InvSockets'
  BY <1>1, <1>2 DEF IInv, InvSockets
<1>6. cur \in Clients /\ cur # NoOne /\ conn.fd # 0
  BY <1>1, ClientsAssumption DEF IInv, InvHandle
<1>7. spc' \notin {"clear", "accept"}
  BY <1>1 DEF Closing
<1>8. InvHandle' /\ InvSeen'
  BY <1>1, <1>2, <1>3, <1>6, <1>7 DEF IInv, InvHandle, InvSeen
<1> QED
  BY <1>4, <1>5, <1>8 DEF IInv

\* The session ends, and what msg_proc_task has seen of it with it.
LEMMA ZeroKeeps == IInv /\ ZeroHandle => IInv'
<1> SUFFICES ASSUME IInv, ZeroHandle PROVE IInv'
  OBVIOUS
<1>1. /\ spc = "zero" /\ spc' = "clear" /\ cur' = NoOne /\ seen' = NoOne
      /\ conn' = [fd |-> 0, stat |-> "closed"]
      /\ UNCHANGED <<sock, box>>
  BY DEF ZeroHandle
<1>2. InvTypes'
  BY ListenerIsSocket, <1>1 DEF IInv, InvTypes
<1>3. InvSockets'
  BY <1>1 DEF IInv, InvSockets, InSession
<1>4. InvHandle' /\ InvSeen'
  BY <1>1 DEF InvHandle, InvSeen, InSession, Closing
<1> QED
  BY <1>2, <1>3, <1>4 DEF IInv

\* msg_proc_task changes nothing of the session; it loads the handle's
\* descriptor after it has seen the session.
LEMMA ProcKeeps == IInv /\ ProcStep => IInv'
<1> SUFFICES ASSUME IInv, ProcStep PROVE IInv'
  OBVIOUS
<1>1. UNCHANGED <<conn, sock, box, spc, cur>>
  BY DEF ProcStep, TakeRequest, CheckStatus, CheckDescriptor, CheckStatusAgain,
         LoadDescriptor, Send, WriteDone, server
<1>2. InvTypes' /\ InvSockets' /\ InvHandle'
  BY <1>1 DEF IInv, InvTypes, InvSockets, InvHandle
<1>3. InvSeen'
  <2>1. CASE LoadDescriptor
    <3>1. pfd' = conn.fd /\ seen' = seen
      BY <2>1 DEF LoadDescriptor
    <3>2. seen # NoOne => seen = cur /\ cur # NoOne
      BY DEF IInv, InvSeen
    <3>3. cur # NoOne => spc \in InSession \union Closing
      BY DEF IInv, InvTypes, InvHandle
    <3> QED
      BY <1>1, <3>1, <3>2, <3>3 DEF IInv, InvHandle, InvSeen
  <2>2. CASE CheckStatusAgain
    BY <1>1, <2>2 DEF CheckStatusAgain, NextMessage, InvSeen
  <2>3. CASE TakeRequest \/ CheckStatus \/ CheckDescriptor \/ Send \/ WriteDone
    BY <1>1, <2>3 DEF TakeRequest, CheckStatus, CheckDescriptor, Send, WriteDone,
       NextMessage, IInv, InvSeen
  <2> QED
    BY <2>1, <2>2, <2>3 DEF ProcStep
<1> QED
  BY <1>2, <1>3 DEF IInv

\* Every step keeps the invariant.
LEMMA NextKeeps == IInv /\ [Next]_vars => IInv'
<1> SUFFICES ASSUME IInv, [Next]_vars PROVE IInv'
  OBVIOUS
<1>1. CASE \E c \in Clients : Connect(c) \/ Ask(c) \/ Leave(c) \/ Reset(c)
  BY <1>1, ClientKeeps
<1>2. CASE ServerStep
  BY <1>2, IdleKeeps, AcceptKeeps, SessionKeeps, CloseKeeps, ClosingKeeps, ZeroKeeps
     DEF ServerStep
<1>3. CASE ProcStep
  BY <1>3, ProcKeeps
<1>4. CASE UNCHANGED vars
  BY <1>4 DEF vars, IInv, InvTypes, InvSockets, InvHandle, InvSeen
<1> QED
  BY <1>1, <1>2, <1>3, <1>4 DEF Next

-----------------------------------------------------------------------------
\* The invariant holds always.
LEMMA Inductive == Spec => []IInv
  BY InitInv, NextKeeps, PTL DEF Spec

\* No socket is lost, and none is closed but the session's own, whatever the
\* order of the steps of tcp_server_task, msg_proc_task and the clients.
THEOREM SocketsNeverLost == Spec => []SocketsAccounted
<1>1. IInv => SocketsAccounted
  BY DEF IInv, InvSockets, SocketsAccounted
<1> QED
  BY <1>1, Inductive, PTL

\* What msg_proc_task sends after it has seen a session goes to no other
\* connection while that session lasts.
THEOREM AnswersKept == Spec => AnswersKeepToSession
<1> DEFINE Keeps == /\ ppc = "again" /\ ppc' = "load" => cur # NoOne
                    /\ ppc = "send" /\ seen # NoOne
                         => Owner(pfd) \in {seen, NoOne, Leftover}
<1>1. IInv /\ [Next]_vars => [Keeps]_vars
  <2> SUFFICES ASSUME IInv, Next PROVE Keeps
    OBVIOUS
  <2>1. ASSUME ppc = "again", ppc' = "load" PROVE cur # NoOne
    <3>1. CheckStatusAgain
      BY <2>1 DEF Next, Connect, Ask, Leave, Reset, ServerStep, ClearHandle,
         AcceptFails, Accept, MarkConnected, Receive, ReceiveFails, QueueMessage,
         CloseSocket, ForgetSocket, MarkClosed, ZeroHandle, ProcStep, TakeRequest,
         CheckStatus, CheckDescriptor, LoadDescriptor, Send, WriteDone, NextMessage,
         proc
    <3> QED
      BY <2>1, <3>1 DEF CheckStatusAgain, NextMessage, IInv, InvHandle
  <2>2. ASSUME ppc = "send", seen # NoOne
        PROVE  Owner(pfd) \in {seen, NoOne, Leftover}
    BY <2>2 DEF Owner, IInv, InvSeen, InvSockets
  <2> QED
    BY <2>1, <2>2
<1> QED
  BY <1>1, Inductive, PTL DEF Spec, AnswersKeepToSession

-----------------------------------------------------------------------------
(* The types of what the clients and msg_proc_task do. *)

Peers == {"off", "open", "fin", "dead", "reset"}
Places == {"take", "stat", "fd", "again", "load", "send", "write"}

InvQueues ==
    /\ peer \in [Clients -> Peers]
    /\ unread \in [Clients -> 0 .. Requests]
    /\ queue \in 0 .. QueueLen

InvProc ==
    /\ ppc \in Places
    /\ pfd \in {-1} \union Fds
    /\ seen \in Clients \union {NoOne}

\* A client asks no more than it may have unread, and tcp_server_task takes no
\* more than there is.
LEMMA QueuesKept == IInv /\ InvQueues /\ [Next]_vars => InvQueues'
<1> SUFFICES ASSUME IInv, InvQueues, [Next]_vars PROVE InvQueues'
  OBVIOUS
<1> USE DEF InvQueues
<1>1. Requests \in Nat \ {0} /\ QueueLen \in Nat \ {0}
  BY SizesAssumption
<1>2. CASE \E c \in Clients : Connect(c) \/ Leave(c) \/ Reset(c)
  BY <1>2 DEF Connect, Leave, Reset, Peers
<1>3. CASE \E c \in Clients : Ask(c)
  <2>1. PICK c \in Clients : Ask(c)
    BY <1>3
  <2>2. unread[c] + 1 \in 0 .. Requests
    BY <1>1, <2>1 DEF Ask
  <2> QED
    BY <2>1, <2>2 DEF Ask
<1>4. CASE AcceptFails
  <2>1. \A c \in Clients : peer'[c] \in {"off", peer[c]} /\ unread'[c] \in {0, unread[c]}
    BY <1>4 DEF AcceptFails
  <2>2. /\ peer' = [c \in Clients |-> peer'[c]] /\ unread' = [c \in Clients |-> unread'[c]]
        /\ queue' = queue
    BY <1>4 DEF AcceptFails
  <2>3. 0 \in 0 .. Requests /\ "off" \in Peers
    BY <1>1 DEF Peers
  <2> QED
    BY <2>1, <2>2, <2>3
<1>5. CASE Receive
  <2>1. PICK n \in 1 .. unread[cur] : unread' = [unread EXCEPT ![cur] = @ - n]
    BY <1>5 DEF Receive
  <2>2. cur \in Clients
    BY <1>5 DEF Receive, IInv, InvHandle, InSession
  <2>3. unread[cur] - n \in 0 .. Requests
    BY <1>1, <2>1, <2>2
  <2> QED
    BY <1>5, <2>1, <2>2, <2>3 DEF Receive
<1>6. CASE QueueMessage \/ TakeRequest
  <2>1. queue' \in 0 .. QueueLen
    BY <1>1, <1>6 DEF QueueMessage, TakeRequest
  <2> QED
    BY <1>6, <2>1 DEF QueueMessage, TakeRequest
<1>7. CASE CloseSocket
  <2>1. 0 \in 0 .. Requests /\ "off" \in Peers
    BY <1>1 DEF Peers
  <2> QED
    BY <1>7, <2>1 DEF CloseSocket
<1>8. CASE \/ ClearHandle \/ Accept \/ MarkConnected \/ ReceiveFails
           \/ ForgetSocket \/ MarkClosed \/ ZeroHandle
  BY <1>8 DEF ClearHandle, Accept, MarkConnected, ReceiveFails, ForgetSocket, MarkClosed,
     ZeroHandle
<1>9. CASE \/ CheckStatus \/ CheckDescriptor \/ CheckStatusAgain \/ LoadDescriptor
           \/ Send \/ WriteDone
  BY <1>9 DEF CheckStatus, CheckDescriptor, CheckStatusAgain, LoadDescriptor, Send, WriteDone
<1>10. CASE UNCHANGED vars
  BY <1>10 DEF vars
<1> QED
  BY <1>2, <1>3, <1>4, <1>5, <1>6, <1>7, <1>8, <1>9, <1>10 DEF Next, ServerStep, ProcStep

\* Msg_proc_task loads what the handle holds and remembers whom it has seen.
LEMMA ProcKept == IInv /\ InvProc /\ [Next]_vars => InvProc'
<1> SUFFICES ASSUME IInv, InvProc, [Next]_vars PROVE InvProc'
  OBVIOUS
<1>1. CASE \E c \in Clients : Connect(c) \/ Ask(c) \/ Leave(c) \/ Reset(c)
  <2>1. ppc' \in {ppc, "stat", "take"} /\ UNCHANGED <<pfd, seen>>
    BY <1>1 DEF Connect, Ask, Leave, Reset, NextMessage, proc
  <2> QED
    BY <2>1 DEF InvProc, Places
<1>2. CASE ServerStep
  <2>1. UNCHANGED <<ppc, pfd>> /\ seen' \in {seen, NoOne}
    BY <1>2 DEF ServerStep, ClearHandle, AcceptFails, Accept, MarkConnected, Receive,
       ReceiveFails, QueueMessage, CloseSocket, ForgetSocket, MarkClosed, ZeroHandle, proc
  <2> QED
    BY <2>1 DEF InvProc
<1>3. CASE ProcStep
  <2>1. ppc' \in Places
    BY <1>3 DEF ProcStep, TakeRequest, CheckStatus, CheckDescriptor, CheckStatusAgain,
       LoadDescriptor, Send, WriteDone, NextMessage, Places
  <2>2. pfd' \in {pfd, conn.fd} /\ seen' \in {seen, cur}
    BY <1>3 DEF ProcStep, TakeRequest, CheckStatus, CheckDescriptor, CheckStatusAgain,
       LoadDescriptor, Send, WriteDone
  <2> QED
    BY <2>1, <2>2 DEF InvProc, IInv, InvTypes
<1>4. CASE UNCHANGED vars
  BY <1>4 DEF vars, InvProc
<1> QED
  BY <1>1, <1>2, <1>3, <1>4 DEF Next

\* Descriptors are sockets or none, and no queue holds more than its places, for
\* any number of clients and requests.
THEOREM TypesKept == Spec => []TypeOK
<1>1. Init => InvQueues /\ InvProc
  BY SizesAssumption DEF Init, InvQueues, InvProc, Peers, Places
<1>2. IInv /\ InvQueues /\ InvProc => TypeOK
  BY DEF IInv, InvTypes, InvQueues, InvProc, Peers, Places, InSession, Closing, TypeOK
<1> QED
  BY <1>1, <1>2, QueuesKept, ProcKept, Inductive, PTL DEF Spec
=============================================================================
