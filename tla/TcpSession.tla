----------------------------- MODULE TcpSession -----------------------------
(***************************************************************************)
(* The one TCP session of the instrument: tcp_server_task accepts a        *)
(* client, receives its requests into the message queue until the client   *)
(* leaves and closes the socket, while msg_proc_task answers through the   *)
(* same handle conn_handle without any lock.  The two tasks have the same  *)
(* priority and are time sliced, so each step below may be followed by a   *)
(* step of the other task.                                                 *)
(*                                                                         *)
(* Under the handle lie the sockets and connections of LwIP: a fixed       *)
(* number of connections, taken when a client connects and given back      *)
(* when its socket is closed; lwip_close refuses while a blocking send is  *)
(* in progress on the connection.  No receive time-out is in force:        *)
(* socket_set_timeout passes two bytes where LwIP wants a struct timeval,  *)
(* and LwIP refuses the option.                                            *)
(***************************************************************************)
EXTENDS Integers, Sequences, FiniteSets

CONSTANTS
    Clients,        \* what may connect to port 8080
    NumNetconn,     \* MEMP_NUM_NETCONN, the listening connection included
    Requests,       \* bound: requests of one client that are not yet received
    QueueLen        \* places in the message queue

ASSUME SizesAssumption ==
    /\ NumNetconn \in Nat \ {0, 1}
    /\ {Requests, QueueLen} \subseteq Nat \ {0}

NoOne == "no one"
Listener == "listening socket"
Leftover == "left over"    \* a connection LwIP refused to close
Aborted == "ERR_ABRT"

ASSUME ClientsAssumption == Clients \cap {NoOne, Listener, Leftover, Aborted} = {}

VARIABLES
    conn,       \* conn_handle: its descriptor and its status
    sock,       \* LwIP's sockets: whose connection each one is
    box,        \* the listening connection's acceptmbox
    peer,       \* what each client does, as far as it has shown
    unread,     \* requests in the connection's recvmbox
    queue,      \* requests in the message queue
    spc,        \* where tcp_server_task is
    ppc,        \* where msg_proc_task is
    pfd,        \* the descriptor msg_proc_task has loaded
    cur,        \* history: the client of the session, until its handle is zeroed
    seen        \* history: cur at the last check of the status, until it ends

vars == <<conn, sock, box, peer, unread, queue, spc, ppc, pfd, cur, seen>>
server == <<conn, sock, box, spc, cur>>
proc == <<ppc, pfd>>

Fds == 0 .. NumNetconn - 1
Netconns == Cardinality({s \in Fds : sock[s] # NoOne})
              + Cardinality({i \in DOMAIN box : box[i] # Aborted})

Init ==
    /\ conn = [fd |-> 0, stat |-> "closed"]
    /\ sock = [s \in Fds |-> IF s = 0 THEN Listener ELSE NoOne]
    /\ box = <<>>
    /\ peer = [c \in Clients |-> "off"]
    /\ unread = [c \in Clients |-> 0]
    /\ queue = 0
    /\ spc = "clear" /\ ppc = "take"
    /\ pfd = -1
    /\ cur = NoOne /\ seen = NoOne

-----------------------------------------------------------------------------
(* The clients and the network. *)

\* accept_function: a connection is taken from the pool and announced; when
\* there is none the client is turned away and an error is announced (an
\* error that is already the last entry is not repeated: a bound).
Connect(c) ==
    /\ peer[c] = "off"
    /\ IF Netconns < NumNetconn
       THEN /\ box' = Append(box, c)
            /\ peer' = [peer EXCEPT ![c] = "open"]
       ELSE /\ box # <<>> => box[Len(box)] # Aborted
            /\ box' = Append(box, Aborted)
            /\ UNCHANGED peer
    /\ UNCHANGED <<conn, sock, spc, cur, unread, queue, proc, seen>>

Ask(c) ==
    /\ peer[c] = "open" /\ unread[c] < Requests
    /\ unread' = [unread EXCEPT ![c] = @ + 1]
    /\ UNCHANGED <<server, peer, queue, proc, seen>>

\* The client ends its side in order, or is cut off without a word.
Leave(c) ==
    /\ peer[c] = "open"
    /\ \E how \in {"fin", "dead"} : peer' = [peer EXCEPT ![c] = how]
    /\ UNCHANGED <<server, unread, queue, proc, seen>>

\* msg_proc_task goes on to the next message of the answer, if there is one,
\* whatever has become of the last.
NextMessage == ppc' \in {"stat", "take"}

\* err_tcp: the client resets the connection, or keep-alive probes or
\* retransmissions give up on one that is dead.  A blocked send fails.
Writing(c) == ppc = "write" /\ sock[pfd] = c

Reset(c) ==
    /\ peer[c] \in {"open", "fin", "dead"}
    /\ peer' = [peer EXCEPT ![c] = "reset"]
    /\ IF Writing(c) THEN NextMessage ELSE UNCHANGED ppc
    /\ UNCHANGED <<server, unread, queue, pfd, seen>>

-----------------------------------------------------------------------------
(* tcp_server_task. *)

Free == {s \in Fds : sock[s] = NoOne}

\* Mutant: the status is set before the client is there.
Mut_ClearHandle ==
    /\ spc = "clear"
    /\ conn' = [fd |-> 0, stat |-> "connected"]
    /\ spc' = "accept"
    /\ UNCHANGED <<sock, box, cur, peer, unread, queue, proc, seen>>

\* socket_tcp_accept first clears the handle: the descriptor becomes 0.
ClearHandle ==
    /\ spc = "clear"
    /\ conn' = [fd |-> 0, stat |-> "closed"]
    /\ spc' = "accept"
    /\ UNCHANGED <<sock, box, cur, peer, unread, queue, proc, seen>>

\* accept fails: no connection or no socket was to be had, or the client has
\* already reset it, so that lwip_accept frees socket and connection again.
Refused(c) == c = Aborted \/ Free = {} \/ (c \in Clients /\ peer[c] = "reset")

AcceptFails ==
    /\ spc = "accept" /\ box # <<>> /\ Refused(Head(box))
    /\ conn' = [conn EXCEPT !.fd = -1]
    /\ box' = Tail(box)
    /\ peer' = [c \in Clients |-> IF c = Head(box) THEN "off" ELSE peer[c]]
    /\ unread' = [c \in Clients |-> IF c = Head(box) THEN 0 ELSE unread[c]]
    /\ spc' = "clear"
    /\ UNCHANGED <<sock, cur, queue, proc, seen>>

\* The new connection gets the lowest socket that is free.
Accept ==
    /\ spc = "accept" /\ box # <<>> /\ ~Refused(Head(box))
    /\ \E s \in Free :
         /\ \A t \in Free : s <= t
         /\ sock' = [sock EXCEPT ![s] = Head(box)]
         /\ conn' = [conn EXCEPT !.fd = s]
    /\ cur' = Head(box)
    /\ box' = Tail(box)
    /\ spc' = "connected"
    /\ UNCHANGED <<peer, unread, queue, proc, seen>>

MarkConnected ==
    /\ spc = "connected"
    /\ conn' = [conn EXCEPT !.stat = "connected"]
    /\ spc' = "recv"
    /\ UNCHANGED <<sock, box, cur, peer, unread, queue, proc, seen>>

\* Whatever has arrived is received at once, and only its first message is
\* looked at later.  128 bytes, a full buffer, are returned as the int8_t
\* -128, which tcp_server_task takes for the end of the connection although
\* socket_recv has not marked it closed.
Receive ==
    /\ spc = "recv" /\ unread[cur] > 0
    /\ \E n \in 1 .. unread[cur], full \in BOOLEAN :
         /\ full => n > 1
         /\ unread' = [unread EXCEPT ![cur] = @ - n]
         /\ spc' = IF full THEN "close" ELSE "queue"
    /\ UNCHANGED <<conn, sock, box, cur, peer, queue, proc, seen>>

\* Mutant: the end of the connection is taken for a time-out.
Mut_ReceiveFails ==
    /\ spc = "recv" /\ unread[cur] = 0 /\ peer[cur] \in {"fin", "reset"}
    /\ UNCHANGED vars

\* Nothing more will come: socket_recv marks the connection closed.
ReceiveFails ==
    /\ spc = "recv" /\ unread[cur] = 0 /\ peer[cur] \in {"fin", "reset"}
    /\ conn' = [conn EXCEPT !.stat = "closed"]
    /\ spc' = "close"
    /\ UNCHANGED <<sock, box, cur, peer, unread, queue, proc, seen>>

\* Mutant: the result of xQueueSend is not looked at and the place not counted.
Mut_QueueMessage ==
    /\ spc = "queue"
    /\ queue' = queue + 1
    /\ spc' = IF conn.stat = "connected" THEN "recv" ELSE "close"
    /\ UNCHANGED <<conn, sock, box, cur, peer, unread, proc, seen>>

\* The message is queued, or dropped when no place is free for 20 ms.
QueueMessage ==
    /\ spc = "queue"
    /\ queue' = IF queue < QueueLen THEN queue + 1 ELSE queue
    /\ spc' = IF conn.stat = "connected" THEN "recv" ELSE "close"
    /\ UNCHANGED <<conn, sock, box, cur, peer, unread, proc, seen>>

\* Mutant: a handle that is marked closed already is not closed again.
Mut_CloseSocket ==
    /\ spc = "close"
    /\ sock' = IF conn.stat = "closed" THEN sock
               ELSE [sock EXCEPT ![conn.fd] = NoOne]
    /\ peer' = [peer EXCEPT ![cur] = "off"]
    /\ unread' = [unread EXCEPT ![cur] = 0]
    /\ spc' = "forget"
    /\ UNCHANGED <<conn, box, cur, queue, proc, seen>>

\* closesocket: lwip_netconn_do_delconn refuses while a blocking send is in
\* progress, and then socket and connection stay taken.  Either way the
\* client's next connection is a new one.
CloseSocket ==
    /\ spc = "close"
    /\ sock' = IF conn.fd < 0 THEN sock
               ELSE [sock EXCEPT ![conn.fd] = IF Writing(cur) THEN Leftover
                                              ELSE NoOne]
    /\ peer' = [peer EXCEPT ![cur] = "off"]
    /\ unread' = [unread EXCEPT ![cur] = 0]
    /\ spc' = "forget"
    /\ UNCHANGED <<conn, box, cur, queue, proc, seen>>

ForgetSocket ==
    /\ spc = "forget"
    /\ conn' = [conn EXCEPT !.fd = -1]
    /\ spc' = "mark"
    /\ UNCHANGED <<sock, box, cur, peer, unread, queue, proc, seen>>

MarkClosed ==
    /\ spc = "mark"
    /\ conn' = [conn EXCEPT !.stat = "closed"]
    /\ spc' = "zero"
    /\ UNCHANGED <<sock, box, cur, peer, unread, queue, proc, seen>>

ZeroHandle ==
    /\ spc = "zero"
    /\ conn' = [fd |-> 0, stat |-> "closed"]
    /\ cur' = NoOne /\ seen' = NoOne
    /\ spc' = "clear"
    /\ UNCHANGED <<sock, box, peer, unread, queue, proc>>

ServerStep ==
    \/ ClearHandle \/ AcceptFails \/ Accept \/ MarkConnected
    \/ Receive \/ ReceiveFails \/ QueueMessage
    \/ CloseSocket \/ ForgetSocket \/ MarkClosed \/ ZeroHandle

-----------------------------------------------------------------------------
(* msg_proc_task: each message of an answer goes through                   *)
(* tcp_server_send_data and socket_send, whose results nobody looks at.    *)

TakeRequest ==
    /\ ppc = "take" /\ queue > 0
    /\ queue' = queue - 1
    /\ ppc' = "stat"
    /\ UNCHANGED <<server, peer, unread, pfd, seen>>

CheckStatus ==
    /\ ppc = "stat"
    /\ IF conn.stat = "connected" THEN ppc' = "fd" ELSE NextMessage
    /\ UNCHANGED <<server, peer, unread, queue, pfd, seen>>

CheckDescriptor ==
    /\ ppc = "fd"
    /\ IF conn.fd >= 0 THEN ppc' = "again" ELSE NextMessage
    /\ UNCHANGED <<server, peer, unread, queue, pfd, seen>>

CheckStatusAgain ==
    /\ ppc = "again"
    /\ IF conn.stat = "connected" THEN ppc' = "load" ELSE NextMessage
    /\ seen' = cur
    /\ UNCHANGED <<server, peer, unread, queue, pfd>>

LoadDescriptor ==
    /\ ppc = "load"
    /\ pfd' = conn.fd
    /\ ppc' = "send"
    /\ UNCHANGED <<server, peer, unread, queue, seen>>

\* The connection a descriptor stands for, if any.
Owner(fd) == IF fd \in Fds THEN sock[fd] ELSE NoOne

\* send fails on a descriptor without connection, on the listening socket and
\* on a connection that was reset; else it takes the message, at once or when
\* the send buffer has room for it.
Send ==
    /\ ppc = "send"
    /\ \/ NextMessage
       \/ /\ Owner(pfd) \in {c \in Clients : peer[c] # "reset"} \union {Leftover}
          /\ ppc' = "write"
    /\ UNCHANGED <<server, peer, unread, queue, pfd, seen>>

WriteDone ==
    /\ ppc = "write"
    /\ sock[pfd] \in {c \in Clients : peer[c] \in {"open", "fin"}} \union {Leftover}
    /\ NextMessage
    /\ UNCHANGED <<server, peer, unread, queue, pfd, seen>>

ProcStep ==
    \/ TakeRequest \/ CheckStatus \/ CheckDescriptor
    \/ CheckStatusAgain \/ LoadDescriptor \/ Send \/ WriteDone

-----------------------------------------------------------------------------
Next ==
    \/ \E c \in Clients : Connect(c) \/ Ask(c) \/ Leave(c) \/ Reset(c)
    \/ ServerStep
    \/ ProcStep

\* tcp_server_task is scheduled for ever, and a dead connection is given up.
Fairness ==
    /\ WF_vars(ServerStep)
    /\ \A c \in Clients : WF_vars(peer[c] = "dead" /\ Reset(c))

Spec == Init /\ [][Next]_vars /\ Fairness

-----------------------------------------------------------------------------
(* Properties. *)

\* Types of the handle, LwIP's sockets and the two tasks' places.
TypeOK ==
    /\ conn \in [fd : {-1} \union Fds, stat : {"closed", "connected"}]
    /\ sock \in [Fds -> Clients \union {NoOne, Listener, Leftover}]
    /\ box \in Seq(Clients \union {Aborted})
    /\ peer \in [Clients -> {"off", "open", "fin", "dead", "reset"}]
    /\ unread \in [Clients -> 0 .. Requests]
    /\ queue \in 0 .. QueueLen
    /\ spc \in {"clear", "accept", "connected", "recv", "queue", "close",
                "forget", "mark", "zero"}
    /\ ppc \in {"take", "stat", "fd", "again", "load", "send", "write"}
    /\ pfd \in {-1} \union Fds
    /\ {cur, seen} \subseteq Clients \union {NoOne}

\* Sockets are neither lost nor closed under anyone: the listening socket
\* stays, although a cleared handle holds its descriptor 0; and every other
\* socket is the session's, in the handle from which it will be closed, or is
\* one LwIP refused to close.
SocketsAccounted ==
    /\ sock[0] = Listener
    /\ \A s \in Fds \ {0} :
         sock[s] # NoOne => \/ sock[s] = cur /\ conn.fd = s
                            \/ sock[s] = Leftover

\* A message of an answer passes the check of the status only while there is
\* a session, and goes to no other connection than that session's as long as
\* the session lasts.  (When it ends between the check and the send, the
\* message may go to the listening socket or to the next client.)
AnswersKeepToSession ==
    [][/\ ppc = "again" /\ ppc' = "load" => cur # NoOne
       /\ ppc = "send" /\ seen # NoOne => Owner(pfd) \in {seen, NoOne, Leftover}]_vars

\* A client that waits to be accepted is accepted in the end, or given up if
\* it is gone, provided that no client stays connected for ever.
WaitingServed ==
    (\A c \in Clients : []<>(peer[c] # "open"))
      => \A c \in Clients : (\E i \in DOMAIN box : box[i] = c)
                              ~> ~\E i \in DOMAIN box : box[i] = c

\* socket_close closes the socket and releases its resources: when it forgets
\* the descriptor the socket is free.
CloseReleases == spc = "forget" => sock[conn.fd] = NoOne
=============================================================================
