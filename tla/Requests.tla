------------------------------ MODULE Requests ------------------------------
(***************************************************************************)
(* How a request of the host for stored seconds is answered                *)
(* (src/app/msg_parse.c, src/NET/BSP/tcp_server.c).  Tcp_server_task puts  *)
(* what it receives into the message queue; msg_proc_task takes it out and *)
(* puts one internal request for each second into the ring of CirQue;      *)
(* msg_send_task moves one of them a second back into the message queue,   *)
(* where msg_proc_task finds it and sends the second to the host.          *)
(*                                                                         *)
(* A second is the number of its internal request: the second i of request *)
(* r is r * MaxSecs + i.  A message is a record of its kind, the number of *)
(* a request or second, and for a request how many seconds it asks for.    *)
(***************************************************************************)
EXTENDS CirQue, SequencesExt

CONSTANTS
  MaxSecs,  \* seconds a request is cut to, 60
  QueueLen, \* length of the message queue, 62
  Tries,    \* attempts of msg_send_task, 4
  MaxReq    \* bound: requests of the host

ASSUME RequestsAssumption ==
  /\ MaxSecs \in Nat \ {0} /\ QueueLen \in Nat \ {0} /\ Tries \in Nat \ {0} /\ MaxReq \in Nat
  /\ Msgs = 0 .. (MaxReq + 1) * MaxSecs

VARIABLES
  queue,   \* handle->queue
  todo,    \* msg_proc_task in kt_SampleData: the seconds of the request left
  now,     \* msg_proc_task in kt_SampleDataIn: the second it answers
  other,   \* msg_proc_task in the handler of another request
  held,    \* msg_send_task: the internal request it holds
  tries,   \* its attempts so far
  reqs,    \* requests of the host so far
  given,   \* history: the second answered last
  refused, \* history: the ring was full for a second of the last request
  crowded  \* history: the ring had little room when that request came

server == <<queue, reqs>>
sender == <<held, tries>>
history == <<given, refused, crowded>>
vars == <<ring, queue, todo, now, other, sender, reqs, history>>

Message(k, n, secs) == [kind |-> k, no |-> n, secs |-> secs]
First(k) == queue # <<>> /\ Head(queue).kind = k
Room == Len(queue) < QueueLen
----------------------------------------------------------------------------
(* Tcp_server_task waits 20 ms for room in the queue, then drops what it   *)
(* has received.                                                           *)

Receive(m) ==
  /\ IF Room THEN queue' = Append(queue, m) ELSE UNCHANGED queue
  /\ UNCHANGED <<ring, todo, now, other, sender, history>>

SampleReq ==
  /\ reqs < MaxReq /\ reqs' = reqs + 1
  /\ \E n \in 0 .. MaxSecs + 1 : Receive(Message("sample", reqs', n))

OtherReq == Receive(Message("other", 0, 0)) /\ UNCHANGED reqs
----------------------------------------------------------------------------
(* Msg_proc_task.                                                          *)

Idle == todo = <<>> /\ now = <<>> /\ ~other

\* A request of no second is ignored, a long one cut.
Mut_Cut(n) == n
Cut(n) == IF n > MaxSecs THEN MaxSecs ELSE n

kt_SampleData ==
  /\ Idle /\ First("sample")
  /\ queue' = Tail(queue)
  /\ todo' = [i \in 1 .. Cut(Head(queue).secs) |-> Head(queue).no * MaxSecs + i - 1]
  /\ refused' = FALSE /\ crowded' = (Held + MaxSecs > MAX_QUEUE_SIZE - 1)
  /\ UNCHANGED <<ring, now, other, sender, reqs, given>>

\* The result of enQueue is ignored: the second is not heard of any more if the
\* ring is full or its mutex is not obtained in 10 ms.
PutSecond ==
  /\ todo # <<>> /\ todo' = Tail(todo)
  /\ \/ enQueue(Head(todo)) /\ UNCHANGED refused
     \/ isQueueFull /\ refused' = TRUE /\ UNCHANGED ring
     \/ UNCHANGED <<ring, refused>>
  /\ UNCHANGED <<queue, now, other, sender, reqs, given, crowded>>

OtherMsg ==
  /\ Idle /\ First("other")
  /\ queue' = Tail(queue) /\ other' = TRUE
  /\ UNCHANGED <<ring, todo, now, sender, reqs, history>>

\* Its answer is sent: send returns.
OtherAnswered ==
  /\ other /\ other' = FALSE
  /\ UNCHANGED <<ring, queue, todo, now, sender, reqs, history>>

kt_SampleDataIn ==
  /\ Idle /\ First("second")
  /\ queue' = Tail(queue) /\ now' = <<Head(queue).no>>
  /\ UNCHANGED <<ring, todo, other, sender, reqs, history>>

\* Its packets are sent, with the data found or without: the last send returns.
Answered ==
  /\ now # <<>> /\ now' = <<>> /\ given' = Head(now)
  /\ UNCHANGED <<ring, queue, todo, other, sender, reqs, refused, crowded>>
----------------------------------------------------------------------------
(* Msg_send_task, once a second.                                           *)

TakeSecond ==
  /\ held = <<>>
  /\ deQueue /\ held' = <<Oldest>> /\ tries' = 0
  /\ UNCHANGED <<queue, todo, now, other, reqs, history>>

\* While the queue is full, xQueueSend waits 5 ms at each attempt.
Onward == Append(queue, Message("second", Head(held), 0))
Mut_Transfer == queue' = Onward /\ UNCHANGED held
Transfer == queue' = Onward /\ held' = <<>>

PassOn ==
  /\ held # <<>> /\ Room
  /\ Transfer
  /\ UNCHANGED <<ring, todo, now, other, tries, reqs, history>>

Mut_GiveUp == UNCHANGED held
GiveUp == held' = IF tries + 1 = Tries THEN <<>> ELSE held

Retry ==
  /\ held # <<>> /\ ~Room
  /\ GiveUp /\ tries' = IF tries + 1 = Tries THEN 0 ELSE tries + 1
  /\ UNCHANGED <<ring, queue, todo, now, other, reqs, history>>
----------------------------------------------------------------------------
Init ==
  /\ initCirQueue
  /\ queue = <<>> /\ todo = <<>> /\ now = <<>> /\ held = <<>> /\ tries = 0 /\ reqs = 0
  /\ other = FALSE
  /\ given = 0 /\ refused = FALSE /\ crowded = FALSE

tcp_server_task == SampleReq \/ OtherReq
Runs == kt_SampleData \/ PutSecond \/ OtherMsg \/ kt_SampleDataIn
SendReturns == Answered \/ OtherAnswered
msg_proc_task == Runs \/ SendReturns
msg_send_task == TakeSecond \/ PassOn \/ Retry

Next == tcp_server_task \/ msg_proc_task \/ msg_send_task

\* Both tasks of the application come to run again and again.  That a send of
\* msg_proc_task ever returns is not assumed: the time-outs of the socket are
\* refused, and a host that is connected need not read.
Spec == Init /\ [][Next]_vars /\ WF_vars(Runs) /\ WF_vars(msg_send_task)
----------------------------------------------------------------------------
\* The seconds on their way to the host, by the place they have reached.
Sent == ToSet(now)
Passed == {queue[i].no : i \in {k \in DOMAIN queue : queue[k].kind = "second"}}
Taken == ToSet(held)
Stored == ToSet(contents)
waiting == Sent \cup Passed \cup Taken \cup Stored

Promise == INSTANCE Delivery

\* Whatever else the host sends and however full the queues are, the seconds it
\* asks for are answered in their order and none of them twice.
ImplementsDelivery == Promise!Spec

\* The ring refuses a second only of a request that came while seconds of
\* earlier ones were waiting: what a request is cut to fits the empty ring.
RoomForOne == refused => crowded

\* A second that was put into the ring does not wait for ever, also if the host
\* floods the queue: it is answered, or dropped after the last attempt.  This
\* takes a host that does not stop reading for good: in a send that does not
\* return msg_proc_task waits in the middle of an answer and serves nobody.
Drains ==
  WF_vars(SendReturns) => \A s \in Msgs \ {0} : (s \in waiting) ~> (s \notin waiting)
=============================================================================
