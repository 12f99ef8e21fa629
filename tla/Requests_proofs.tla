--------------------------- MODULE Requests_proofs ---------------------------
(***************************************************************************)
(* The ring of internal requests is a queue for every number of slots, a   *)
(* request alone never finds it full, and the three tasks deliver what the *)
(* host asks for in order and at most once, whatever the lengths of ring   *)
(* and queue and the requests of the host.                                 *)
(*                                                                         *)
(* A second goes through five places, from the request that is split to    *)
(* the answer: todo, the ring, held, the message queue, now.  Delivery is  *)
(* in order because what has come further is always less (Line), and at    *)
(* most once because the places share nothing, which follows.              *)
(*                                                                         *)
(* The host names a second by its date.  The last part is about those      *)
(* dates: the loops of the conversions are a sum over the years and the    *)
(* months before (YearsBefore, MonthsBefore) and the search for the year   *)
(* and the month a day falls in (YearFound, MonthFound), because a least   *)
(* counterexample is none; the clock's calendar keeps its days and its     *)
(* weekday (CalendarInv); and so the conversions and the weekday formula   *)
(* are right on every day of the clock's century, at every second.         *)
(***************************************************************************)
EXTENDS Requests, DateTime, SequenceTheorems, WellFoundedInduction, TLAPS

Top == (MaxReq + 1) * MaxSecs
Message3 == [kind : {"sample", "other", "second"}, no : 0..Top, secs : Nat]

\* What the ring relies on: only seconds are put into it.
TypeInv ==
  /\ RingOK
  /\ queue \in Seq(Message3) /\ todo \in Seq(Msgs) /\ held \in Seq(Msgs)
  /\ reqs \in 0..MaxReq
  /\ \A i \in DOMAIN queue : queue[i].kind = "sample" => queue[i].no \in 1..MaxReq

\* The seconds still to be put fit the ring, unless it was crowded before.
FitInv == crowded \/ (~refused /\ Held + Len(todo) <= MAX_QUEUE_SIZE - 1)
----------------------------------------------------------------------------
\* Where the slot n places behind slot i is.
LEMMA Place ==
  ASSUME NEW i \in Slots, NEW n \in Slots
  PROVE  /\ (i + n) % MAX_QUEUE_SIZE = IF i + n < MAX_QUEUE_SIZE THEN i + n
                                       ELSE i + n - MAX_QUEUE_SIZE
         /\ (i + n) % MAX_QUEUE_SIZE \in Slots
BY CirQueAssumption DEF Slots

\* The slot that follows.
LEMMA FollowingDef ==
  ASSUME NEW i \in Slots
  PROVE  /\ Following(i) = IF i + 1 = MAX_QUEUE_SIZE THEN 0 ELSE i + 1
         /\ Following(i) \in Slots
BY CirQueAssumption DEF Following, Slots

\* How many messages the ring holds, and where they are.
LEMMA HeldType ==
  ASSUME RingOK
  PROVE  /\ Held \in Slots
         /\ contents \in Seq(Msgs) /\ Len(contents) = Held
         /\ \A k \in 1..Held : (ucFront + k - 1) % MAX_QUEUE_SIZE \in Slots
<1>1. Held \in Slots
  BY CirQueAssumption DEF RingOK, Slots, Held
<1>2. ASSUME NEW k \in 1..Held PROVE (ucFront + k - 1) % MAX_QUEUE_SIZE \in Slots
  <2>1. k - 1 \in Slots /\ ucFront + k - 1 = ucFront + (k - 1)
    BY <1>1, CirQueAssumption DEF RingOK, Slots
  <2> QED
    BY <2>1, Place DEF RingOK
<1>3. Held \in Nat /\ contents \in [1..Held -> Msgs]
  BY <1>1, <1>2, CirQueAssumption DEF contents, RingOK, Slots
<1>4. Len(contents) = Held /\ contents \in Seq(Msgs)
  BY <1>3
<1> QED
  BY <1>1, <1>2, <1>4

\* A message that is put into the ring is the newest one held.
LEMMA EnQueueAppends ==
  ASSUME RingOK, NEW m \in Msgs, enQueue(m)
  PROVE  RingOK' /\ Held' = Held + 1 /\ Held < MAX_QUEUE_SIZE - 1
         /\ contents' = Append(contents, m)
<1> USE CirQueAssumption
<1>1. Following(ucRear) = (IF ucRear + 1 = MAX_QUEUE_SIZE THEN 0 ELSE ucRear + 1)
      /\ Following(ucRear) \in Slots
  BY FollowingDef DEF RingOK
<1>2. RingOK'
  BY <1>1 DEF RingOK, enQueue, Behind
<1>3. Held' = Held + 1 /\ Held < MAX_QUEUE_SIZE - 1
  BY <1>1 DEF RingOK, enQueue, Behind, isQueueFull, Held, Slots
<1>4. Held \in Slots /\ contents \in Seq(Msgs) /\ Len(contents) = Held
  BY HeldType
<1>5. ASSUME NEW k \in 1 .. Held + 1
      PROVE  (ucFront + k - 1) % MAX_QUEUE_SIZE = ucRear <=> k = Held + 1
  <2>1. k - 1 \in Slots /\ ucFront + k - 1 = ucFront + (k - 1)
    BY <1>3, <1>4 DEF RingOK, Slots
  <2>2. (ucFront + k - 1) % MAX_QUEUE_SIZE
          = IF ucFront + k - 1 < MAX_QUEUE_SIZE THEN ucFront + k - 1
            ELSE ucFront + k - 1 - MAX_QUEUE_SIZE
    BY <2>1, Place DEF RingOK
  <2> QED
    BY SMTT(30), <2>2, <1>3, <1>4 DEF RingOK, Held, Slots
<1>6. contents' = [k \in 1 .. Held + 1 |-> ucBuf'[(ucFront + k - 1) % MAX_QUEUE_SIZE]]
  BY <1>3 DEF contents, enQueue
<1>7. /\ Append(contents, m) \in Seq(Msgs) /\ Len(Append(contents, m)) = Held + 1
      /\ \A k \in 1 .. Held + 1 :
           Append(contents, m)[k] = IF k = Held + 1 THEN m ELSE contents[k]
  <2>1. Held \in Nat
    BY <1>4 DEF Slots
  <2> QED
    BY <1>4, <2>1, AppendProperties
<1>8. ASSUME NEW k \in 1 .. Held + 1
      PROVE  ucBuf'[(ucFront + k - 1) % MAX_QUEUE_SIZE]
               = IF k = Held + 1 THEN m ELSE contents[k]
  <2>1. CASE k = Held + 1
    BY <2>1, <1>5 DEF enQueue, RingOK
  <2>2. CASE k # Held + 1
    <3>1. k \in 1..Held
      BY <2>2, <1>4 DEF Slots
    <3>2. (ucFront + k - 1) % MAX_QUEUE_SIZE \in Slots
      BY <3>1, HeldType
    <3>3. (ucFront + k - 1) % MAX_QUEUE_SIZE # ucRear
      BY <2>2, <1>5
    <3>4. contents[k] = ucBuf[(ucFront + k - 1) % MAX_QUEUE_SIZE]
      BY <3>1 DEF contents
    <3> QED
      BY <2>2, <3>2, <3>3, <3>4 DEF enQueue, RingOK
  <2> QED
    BY <2>1, <2>2
<1>9. contents' \in Seq(Msgs) /\ Len(contents') = Held + 1
  <2>1. ASSUME NEW k \in 1 .. Held + 1 PROVE contents'[k] \in Msgs
    BY <1>6, <1>7, <1>8, <2>1, ElementOfSeq DEF Slots
  <2>2. Held + 1 \in Nat
    BY <1>4 DEF Slots
  <2>3. contents' \in [1 .. Held + 1 -> Msgs]
    BY <1>6, <2>1
  <2> QED
    BY <2>2, <2>3
<1>10. contents' = Append(contents, m)
  BY <1>6, <1>7, <1>8, <1>9, SeqEqual
<1> QED
  BY <1>2, <1>3, <1>10

\* A message that is taken out is the oldest one.
LEMMA DeQueueTakes ==
  ASSUME RingOK, deQueue
  PROVE  RingOK' /\ Held' = Held - 1 /\ contents # <<>> /\ contents' = Tail(contents)
         /\ Oldest \in Msgs
<1> USE CirQueAssumption
<1>1. Following(ucFront) = (IF ucFront + 1 = MAX_QUEUE_SIZE THEN 0 ELSE ucFront + 1)
      /\ Following(ucFront) \in Slots
  BY FollowingDef DEF RingOK
<1>2. RingOK' /\ Oldest \in Msgs
  BY <1>1 DEF RingOK, deQueue, Oldest
<1>3. Held' = Held - 1 /\ Held > 0
  BY <1>1 DEF RingOK, deQueue, isQueueEmpty, Held, Slots
<1>4. Held \in Slots /\ contents \in Seq(Msgs) /\ Len(contents) = Held
  BY HeldType
<1>5. contents # <<>>
  BY <1>3, <1>4
<1>6. /\ Tail(contents) \in Seq(Msgs) /\ Len(Tail(contents)) = Held - 1
      /\ \A k \in 1 .. Held - 1 : Tail(contents)[k] = contents[k + 1]
  BY <1>4, <1>5, HeadTailProperties
<1>7. contents' = [k \in 1 .. Held - 1 |-> ucBuf'[(ucFront' + k - 1) % MAX_QUEUE_SIZE]]
  BY <1>3 DEF contents
<1>8. ASSUME NEW k \in 1 .. Held - 1
      PROVE  ucBuf'[(ucFront' + k - 1) % MAX_QUEUE_SIZE] = contents[k + 1]
  <2>1. k \in Slots /\ k - 1 \in Slots /\ ucFront + (k + 1) - 1 = ucFront + k
        /\ k + 1 \in 1..Held
    BY <1>4 DEF RingOK, Slots
  <2>2. (ucFront + k) % MAX_QUEUE_SIZE
          = (IF ucFront + k < MAX_QUEUE_SIZE THEN ucFront + k ELSE ucFront + k - MAX_QUEUE_SIZE)
        /\ (ucFront + k) % MAX_QUEUE_SIZE \in Slots
    BY <2>1, Place DEF RingOK
  <2>3. ucFront' \in Slots /\ ucFront' = Following(ucFront)
    BY <1>1 DEF deQueue
  <2>4. (ucFront' + (k - 1)) % MAX_QUEUE_SIZE
          = IF ucFront' + (k - 1) < MAX_QUEUE_SIZE THEN ucFront' + (k - 1)
            ELSE ucFront' + (k - 1) - MAX_QUEUE_SIZE
    BY <2>1, <2>3, Place
  <2>5. ucFront' + k - 1 = ucFront' + (k - 1)
    BY <2>1, <2>3 DEF Slots
  <2>6. (ucFront' + k - 1) % MAX_QUEUE_SIZE = (ucFront + k) % MAX_QUEUE_SIZE
    BY <1>1, <2>1, <2>2, <2>3, <2>4, <2>5 DEF RingOK, Slots
  <2>7. (ucFront + k) % MAX_QUEUE_SIZE # ucFront
    BY <2>1, <2>2 DEF RingOK, Slots
  <2>8. contents[k + 1] = ucBuf[(ucFront + k) % MAX_QUEUE_SIZE]
    BY <2>1 DEF contents
  <2> QED
    BY <2>2, <2>6, <2>7, <2>8 DEF deQueue, RingOK
<1>9. contents' \in Seq(Msgs) /\ Len(contents') = Held - 1
  <2>1. ASSUME NEW k \in 1 .. Held - 1 PROVE contents'[k] \in Msgs
    BY <1>6, <1>7, <1>8, <2>1, ElementOfSeq DEF Slots
  <2>2. Held - 1 \in Nat
    BY <1>3, <1>4 DEF Slots
  <2>3. contents' \in [1 .. Held - 1 -> Msgs]
    BY <1>7, <2>1
  <2> QED
    BY <2>2, <2>3
<1>10. contents' = Tail(contents)
  BY <1>6, <1>7, <1>8, <1>9, SeqEqual
<1> QED
  BY <1>2, <1>3, <1>5, <1>10
----------------------------------------------------------------------------
\* The numbers of a request's seconds are messages.
LEMMA SecondsAreMsgs ==
  ASSUME NEW r \in 1..MaxReq, NEW i \in 1..MaxSecs
  PROVE  r * MaxSecs + i - 1 \in Msgs
<1> USE RequestsAssumption
<1>1. ASSUME NEW a \in Nat, NEW b \in Nat, NEW c \in Nat, a <= b PROVE a * c <= b * c
  BY <1>1
<1>2. r * MaxSecs <= MaxReq * MaxSecs /\ r * MaxSecs \in Nat
  BY <1>1
<1>3. (MaxReq + 1) * MaxSecs = MaxReq * MaxSecs + MaxSecs
  OBVIOUS
<1>4. r * MaxSecs + i - 1 \in 0 .. (MaxReq + 1) * MaxSecs
  BY <1>2, <1>3
<1> QED
  BY <1>4

\* Msgs are the numbers of messages.
LEMMA MsgsDef == Msgs = 0..Top /\ Top \in Nat
BY RequestsAssumption DEF Top

\* What is sent to the message queue keeps its kind and number.
LEMMA SendType ==
  ASSUME TypeInv, NEW m \in Message3, m.kind = "sample" => m.no \in 1..MaxReq
  PROVE  /\ Append(queue, m) \in Seq(Message3)
         /\ \A i \in DOMAIN Append(queue, m) :
              Append(queue, m)[i].kind = "sample" => Append(queue, m)[i].no \in 1..MaxReq
<1>1. queue \in Seq(Message3) /\ \A i \in 1 .. Len(queue) :
         queue[i].kind = "sample" => queue[i].no \in 1..MaxReq
  BY DEF TypeInv
<1>2. Append(queue, m) \in Seq(Message3) /\ Len(Append(queue, m)) = Len(queue) + 1
      /\ (\A i \in 1 .. Len(queue) : Append(queue, m)[i] = queue[i])
      /\ Append(queue, m)[Len(queue) + 1] = m
  BY <1>1, AppendProperties
<1>3. ASSUME NEW i \in 1 .. Len(queue) + 1
      PROVE  Append(queue, m)[i].kind = "sample" => Append(queue, m)[i].no \in 1..MaxReq
  <2>1. CASE i \in 1 .. Len(queue)
    BY <1>1, <1>2, <2>1
  <2>2. CASE i = Len(queue) + 1
    BY <1>2, <2>2
  <2> QED
    BY <1>1, <2>1, <2>2
<1> QED
  BY <1>2, <1>3

\* What is taken off the message queue.
LEMMA ReceiveType ==
  ASSUME TypeInv, queue # <<>>
  PROVE  /\ Head(queue) \in Message3
         /\ Head(queue).kind = "sample" => Head(queue).no \in 1..MaxReq
         /\ Tail(queue) \in Seq(Message3)
         /\ \A i \in DOMAIN Tail(queue) :
              Tail(queue)[i].kind = "sample" => Tail(queue)[i].no \in 1..MaxReq
<1>1. queue \in Seq(Message3) /\ \A i \in 1 .. Len(queue) :
         queue[i].kind = "sample" => queue[i].no \in 1..MaxReq
  BY DEF TypeInv
<1>2. Len(queue) \in Nat /\ Len(queue) > 0 /\ Head(queue) = queue[1]
  BY <1>1
<1>3. /\ Head(queue) \in Message3 /\ Tail(queue) \in Seq(Message3)
      /\ Len(Tail(queue)) = Len(queue) - 1
      /\ \A i \in 1 .. Len(queue) - 1 : Tail(queue)[i] = queue[i + 1]
  BY <1>1, HeadTailProperties
<1>4. ASSUME NEW i \in 1 .. Len(queue) - 1
      PROVE  Tail(queue)[i].kind = "sample" => Tail(queue)[i].no \in 1..MaxReq
  BY <1>1, <1>2, <1>3
<1> QED
  BY <1>1, <1>2, <1>3, <1>4

\* The types hold at the start.
LEMMA TypeInit == Init => TypeInv /\ FitInv
<1> SUFFICES ASSUME Init PROVE TypeInv /\ FitInv
  OBVIOUS
<1> USE CirQueAssumption, RequestsAssumption
<1>1. RingOK
  BY DEF Init, initCirQueue, RingOK, Slots
<1>2. Held = 0
  BY DEF Init, initCirQueue, Held
<1> QED
  BY <1>1, <1>2 DEF Init, TypeInv, FitInv

\* Every step keeps the types, and what it does to the ring.
LEMMA TypeStep == TypeInv /\ [Next]_vars => TypeInv'
<1> SUFFICES ASSUME TypeInv, [Next]_vars PROVE TypeInv'
  OBVIOUS
<1> USE RequestsAssumption
<1>1. ASSUME SampleReq PROVE TypeInv'
  <2>1. PICK n \in 0 .. MaxSecs + 1 : Receive(Message("sample", reqs', n))
    BY <1>1 DEF SampleReq
  <2>2. reqs' = reqs + 1 /\ reqs' \in 1..MaxReq
    BY <1>1 DEF SampleReq, TypeInv
  <2>3. Message("sample", reqs', n) \in Message3
    <3>1. reqs' \in 0..Top
      BY <2>2, SecondsAreMsgs DEF Top
    <3> QED
      BY <3>1 DEF Message, Message3
  <2>4. Message("sample", reqs', n).no \in 1..MaxReq
    BY <2>2 DEF Message
  <2>5. /\ Append(queue, Message("sample", reqs', n)) \in Seq(Message3)
        /\ \A i \in DOMAIN Append(queue, Message("sample", reqs', n)) :
             Append(queue, Message("sample", reqs', n))[i].kind = "sample" =>
               Append(queue, Message("sample", reqs', n))[i].no \in 1..MaxReq
    BY <2>3, <2>4, SendType
  <2>6. queue' = Append(queue, Message("sample", reqs', n)) \/ queue' = queue
    BY <2>1 DEF Receive
  <2>7. queue' \in Seq(Message3)
        /\ \A i \in DOMAIN queue' : queue'[i].kind = "sample" => queue'[i].no \in 1..MaxReq
    BY <2>5, <2>6 DEF TypeInv
  <2> QED
    BY <2>1, <2>2, <2>7 DEF Receive, TypeInv, RingOK, ring, sender
<1>2. ASSUME OtherReq PROVE TypeInv'
  <2>1. Message("other", 0, 0) \in Message3 /\ Message("other", 0, 0).kind # "sample"
    BY MsgsDef DEF Message, Message3
  <2> QED
    BY <1>2, <2>1, SendType DEF OtherReq, Receive, TypeInv, RingOK, ring, sender
<1>3. ASSUME kt_SampleData PROVE TypeInv'
  <2>1. Head(queue).no \in 1..MaxReq /\ Head(queue).secs \in Nat
    BY <1>3, ReceiveType DEF kt_SampleData, First, Message3
  <2>2. Cut(Head(queue).secs) \in 0..MaxSecs
    BY <2>1 DEF Cut
  <2>3. todo' \in [1 .. Cut(Head(queue).secs) -> Msgs]
    BY SMTT(30), <1>3, <2>1, <2>2, SecondsAreMsgs DEF kt_SampleData
  <2>4. todo' \in Seq(Msgs)
    BY <2>2, <2>3
  <2> QED
    BY <1>3, <2>4, ReceiveType DEF kt_SampleData, First, TypeInv, RingOK, ring, sender
<1>4. ASSUME PutSecond PROVE TypeInv'
  <2>1. Head(todo) \in Msgs /\ Tail(todo) \in Seq(Msgs)
    BY <1>4, HeadTailProperties DEF PutSecond, TypeInv
  <2>2. RingOK'
    BY <1>4, <2>1, EnQueueAppends DEF PutSecond, TypeInv, RingOK, ring
  <2> QED
    BY <1>4, <2>1, <2>2 DEF PutSecond, TypeInv, sender
<1>5. ASSUME OtherMsg PROVE TypeInv'
  BY <1>5, ReceiveType DEF OtherMsg, First, TypeInv, RingOK, ring, sender
<1>6. ASSUME kt_SampleDataIn PROVE TypeInv'
  BY <1>6, ReceiveType DEF kt_SampleDataIn, First, TypeInv, RingOK, ring, sender
<1>7. ASSUME Answered PROVE TypeInv'
  BY <1>7 DEF Answered, TypeInv, RingOK, ring, sender
<1>8. ASSUME TakeSecond PROVE TypeInv'
  BY <1>8, DeQueueTakes DEF TakeSecond, TypeInv
<1>9. ASSUME PassOn PROVE TypeInv'
  <2>1. Head(held) \in 0..Top /\ held' = <<>>
    BY <1>9, HeadTailProperties, MsgsDef DEF PassOn, Transfer, TypeInv
  <2>2. Message("second", Head(held), 0) \in Message3
        /\ Message("second", Head(held), 0).kind # "sample"
    BY <2>1 DEF Message, Message3
  <2> QED
    BY SMTT(30), <1>9, <2>1, <2>2, SendType DEF PassOn, Transfer, Onward, TypeInv, RingOK, ring
<1>10. ASSUME Retry PROVE TypeInv'
  <2>1. held' \in Seq(Msgs)
    <3>1. held \in Seq(Msgs) /\ <<>> \in Seq(Msgs)
      BY DEF TypeInv
    <3>2. held' = <<>> \/ held' = held
      BY <1>10 DEF Retry, GiveUp
    <3> QED
      BY <3>1, <3>2
  <2> QED
    BY <1>10, <2>1 DEF Retry, TypeInv, RingOK, ring
<1>11. ASSUME OtherAnswered PROVE TypeInv'
  BY <1>11 DEF OtherAnswered, TypeInv, RingOK, ring, sender
<1>12. ASSUME UNCHANGED vars PROVE TypeInv'
  BY <1>12 DEF vars, TypeInv, RingOK, ring, sender
<1> QED
  BY <1>1, <1>2, <1>3, <1>4, <1>5, <1>6, <1>7, <1>8, <1>9, <1>10, <1>11, <1>12
     DEF Next, tcp_server_task, msg_proc_task, Runs, SendReturns, msg_send_task

\* Nothing but PutSecond and TakeSecond touches the ring, and those append to
\* the messages held or take one off.
LEMMA RingStep == TypeInv /\ [Next]_vars => UNCHANGED ring \/ Appended \/ TakenOff
<1> SUFFICES ASSUME TypeInv, [Next]_vars PROVE UNCHANGED ring \/ Appended \/ TakenOff
  OBVIOUS
<1>1. ASSUME PutSecond PROVE UNCHANGED ring \/ Appended
  <2>1. Head(todo) \in Msgs
    BY <1>1, HeadTailProperties DEF PutSecond, TypeInv
  <2>2. CASE enQueue(Head(todo))
    BY <2>1, <2>2, EnQueueAppends, HeldType DEF Appended, TypeInv
  <2> QED
    BY <1>1, <2>2 DEF PutSecond
<1>2. ASSUME TakeSecond PROVE TakenOff
  BY <1>2, DeQueueTakes DEF TakeSecond, TakenOff, TypeInv
<1> QED
  BY <1>1, <1>2 DEF Next, tcp_server_task, msg_proc_task, Runs, SendReturns, msg_send_task,
     vars, SampleReq, OtherReq, Receive, kt_SampleData, OtherMsg, kt_SampleDataIn, Answered,
     OtherAnswered, PassOn, Retry

\* Every step keeps the seconds still to be put within the room of the ring.
LEMMA FitStep == TypeInv /\ FitInv /\ [Next]_vars => FitInv'
<1> SUFFICES ASSUME TypeInv, FitInv, [Next]_vars PROVE FitInv'
  OBVIOUS
<1> USE RequestsAssumption, CirQueAssumption
<1>0. Held \in Nat /\ Len(todo) \in Nat
  BY HeldType DEF TypeInv, Slots
<1>1. ASSUME kt_SampleData PROVE FitInv'
  <2>1. Head(queue).secs \in Nat
    BY <1>1, ReceiveType DEF kt_SampleData, First, Message3
  <2>2. Cut(Head(queue).secs) \in 0..MaxSecs
    BY <2>1 DEF Cut
  <2>3. Len(todo') = Cut(Head(queue).secs)
    BY <1>1, <2>2 DEF kt_SampleData
  <2>4. Held' = Held
    BY <1>1 DEF kt_SampleData, ring, Held
  <2>5. refused' = FALSE /\ (crowded' \/ ~(Held + MaxSecs > MAX_QUEUE_SIZE - 1))
    BY <1>1 DEF kt_SampleData
  <2> QED
    BY <1>0, <2>2, <2>3, <2>4, <2>5 DEF FitInv
<1>2. ASSUME PutSecond PROVE FitInv'
  <2>1. Head(todo) \in Msgs /\ Len(todo') = Len(todo) - 1 /\ Len(todo) > 0
    BY <1>0, <1>2, HeadTailProperties DEF PutSecond, TypeInv
  <2>2. CASE enQueue(Head(todo)) /\ UNCHANGED refused
    BY <1>0, <1>2, <2>1, <2>2, EnQueueAppends DEF PutSecond, FitInv, TypeInv
  <2>3. CASE isQueueFull /\ refused' = TRUE /\ UNCHANGED ring
    <3>1. Held = MAX_QUEUE_SIZE - 1
      <4>1. ucRear \in Slots /\ ucFront \in Slots
        BY DEF TypeInv, RingOK
      <4>2. ucFront = IF ucRear + 1 = MAX_QUEUE_SIZE THEN 0 ELSE ucRear + 1
        BY <2>3, <4>1, FollowingDef DEF isQueueFull
      <4> QED
        BY <4>1, <4>2 DEF Held, Slots
    <3>2. crowded
      BY <1>0, <2>1, <3>1 DEF FitInv
    <3> QED
      BY <1>2, <3>2 DEF PutSecond, FitInv
  <2>4. CASE UNCHANGED <<ring, refused>>
    <3>1. Held' = Held
      BY <2>4 DEF ring, Held
    <3> QED
      BY <1>0, <1>2, <2>1, <2>4, <3>1 DEF PutSecond, FitInv
  <2> QED
    BY <1>2, <2>2, <2>3, <2>4 DEF PutSecond
<1>3. ASSUME TakeSecond PROVE FitInv'
  <2>1. Held' = Held - 1
    BY <1>3, DeQueueTakes DEF TakeSecond, TypeInv
  <2> QED
    BY <1>0, <1>3, <2>1 DEF TakeSecond, FitInv, history
<1>4. ASSUME UNCHANGED <<ring, todo, refused, crowded>> PROVE FitInv'
  BY <1>4 DEF FitInv, ring, Held
<1> QED
  BY <1>1, <1>2, <1>3, <1>4 DEF Next, tcp_server_task, msg_proc_task, Runs, SendReturns,
     msg_send_task, vars, SampleReq, OtherReq, Receive, OtherMsg, kt_SampleDataIn, Answered,
     OtherAnswered, PassOn, Retry, history
----------------------------------------------------------------------------
\* The types hold in every state.
LEMMA TypeCorrect == Spec => []TypeInv
BY TypeInit, TypeStep, PTL DEF Spec

\* The indices of the ring of internal requests stay inside its array, and it
\* holds nothing but internal requests.
THEOREM RingCorrect == Spec => []RingOK
<1>1. TypeInv => RingOK
  BY DEF TypeInv
<1> QED
  BY <1>1, TypeCorrect, PTL

\* The ring is a queue: enQueue appends a message, deQueue takes the oldest one,
\* and nothing else changes what it holds, for every number of slots.
THEOREM RingKeepsOrder == Spec => RingIsQueue
<1>1. TypeInv /\ [Next]_vars => [Appended \/ TakenOff]_contents
  <2>1. ASSUME UNCHANGED ring PROVE UNCHANGED contents
    BY <2>1 DEF ring, contents, Held
  <2> QED
    BY <2>1, RingStep
<1> QED
  BY <1>1, TypeCorrect, PTL DEF Spec, RingIsQueue

\* The ring refuses no second of a request that comes when its predecessors
\* have left room for as many seconds as a request is cut to: the bound of
\* kt_SampleData fits the ring, whatever the other tasks do meanwhile.
THEOREM RequestsFit == Spec => []RoomForOne
<1>1. Spec => []FitInv
  BY TypeInit, FitStep, TypeCorrect, PTL DEF Spec
<1>2. FitInv => RoomForOne
  BY DEF FitInv, RoomForOne
<1> QED
  BY <1>1, <1>2, PTL
----------------------------------------------------------------------------
(* The order of the seconds, from the host's request to its answer.        *)

Below(S, T) == \A s \in S : \A t \in T : s < t
Rising(q) == \A i, j \in DOMAIN q : i < j => q[i] < q[j]

\* The numbers of the messages of a kind, and that they rise along the queue.
Numbers(q, k) == {q[i].no : i \in {j \in DOMAIN q : q[j].kind = k}}
RisingIn(q, k) ==
  \A i, j \in DOMAIN q : i < j /\ q[i].kind = k /\ q[j].kind = k => q[i].no < q[j].no

\* The seconds kt_SampleData has yet to put into the ring, the requests it has
\* yet to take, and all seconds that were asked for.
Left == ToSet(todo)
Requested == Numbers(queue, "sample")
Seconds == {given} \cup waiting \cup Left

\* A second that has come further is a smaller one.
Line(g, a, b, c, d, e) ==
  /\ Below({g}, a \cup b \cup c \cup d \cup e) /\ Below(a, b \cup c \cup d \cup e)
  /\ Below(b, c \cup d \cup e) /\ Below(c, d \cup e) /\ Below(d, e)

InvLine ==
  /\ given \in Msgs /\ now \in Seq(Msgs) /\ Len(now) <= 1 /\ Len(held) <= 1
  /\ Rising(contents) /\ Rising(todo)
  /\ RisingIn(queue, "second") /\ RisingIn(queue, "sample")
  /\ Line(given, Sent, Passed, Taken, Stored, Left)

\* The seconds of a request that is still queued come after all others.
InvAsked ==
  /\ \A r \in Requested : r <= reqs /\ \A s \in Seconds : s < r * MaxSecs
  /\ \A s \in Seconds : s < (reqs + 1) * MaxSecs

LineInv == TypeInv /\ InvLine /\ InvAsked
----------------------------------------------------------------------------
\* The members of a sequence without its first one, and with one more.
LEMMA SetOfTail ==
  ASSUME NEW S, NEW s \in Seq(S), s # <<>>
  PROVE  /\ Head(s) \in S /\ Tail(s) \in Seq(S)
         /\ ToSet(s) = {Head(s)} \cup ToSet(Tail(s))
<1>1. /\ Head(s) = s[1] /\ Head(s) \in S /\ Tail(s) \in Seq(S) /\ Len(Tail(s)) = Len(s) - 1
      /\ \A i \in 1 .. Len(s) - 1 : Tail(s)[i] = s[i + 1]
  BY HeadTailProperties
<1>2. Len(s) \in Nat /\ Len(s) > 0 /\ DOMAIN s = 1 .. Len(s)
  OBVIOUS
<1>3. DOMAIN Tail(s) = 1 .. Len(s) - 1
  BY <1>1
<1>4. ASSUME NEW x \in ToSet(s) PROVE x \in {Head(s)} \cup ToSet(Tail(s))
  <2>1. PICK i \in 1 .. Len(s) : x = s[i]
    BY <1>2, <1>4 DEF ToSet
  <2>2. CASE i # 1
    <3>1. i - 1 \in 1 .. Len(s) - 1 /\ s[i] = Tail(s)[i - 1]
      BY <1>1, <1>2, <2>2
    <3> QED
      BY <1>3, <2>1, <3>1 DEF ToSet
  <2> QED
    BY <1>1, <2>1, <2>2
<1>5. ASSUME NEW x \in {Head(s)} \cup ToSet(Tail(s)) PROVE x \in ToSet(s)
  <2>1. CASE x = Head(s)
    BY <1>1, <1>2, <2>1 DEF ToSet
  <2>2. CASE x \in ToSet(Tail(s))
    <3>1. PICK i \in 1 .. Len(s) - 1 : x = Tail(s)[i]
      BY <1>3, <2>2 DEF ToSet
    <3>2. i + 1 \in 1 .. Len(s) /\ x = s[i + 1]
      BY <1>1, <1>2, <3>1
    <3> QED
      BY <1>2, <3>2 DEF ToSet
  <2> QED
    BY <1>5, <2>1, <2>2
<1> QED
  BY <1>1, <1>4, <1>5

LEMMA SetOfAppend ==
  ASSUME NEW S, NEW s \in Seq(S), NEW x \in S
  PROVE  ToSet(Append(s, x)) = ToSet(s) \cup {x}
<1>1. /\ Append(s, x) \in Seq(S) /\ Len(Append(s, x)) = Len(s) + 1
      /\ \A i \in 1 .. Len(s) : Append(s, x)[i] = s[i]
      /\ Append(s, x)[Len(s) + 1] = x
  BY AppendProperties
<1>2. Len(s) \in Nat /\ DOMAIN s = 1 .. Len(s) /\ DOMAIN Append(s, x) = 1 .. Len(s) + 1
  BY <1>1
<1> QED
  BY <1>1, <1>2 DEF ToSet

\* A sequence of at most one member.
LEMMA SetOfOne ==
  /\ ToSet(<<>>) = {}
  /\ \A x : ToSet(<<x>>) = {x}
  /\ \A S : \A s \in Seq(S) : Len(s) <= 1 /\ s # <<>> => ToSet(s) = {Head(s)}
<1>1. ToSet(<<>>) = {} /\ \A x : ToSet(<<x>>) = {x}
  BY DEF ToSet
<1>2. ASSUME NEW S, NEW s \in Seq(S), Len(s) <= 1, s # <<>> PROVE ToSet(s) = {Head(s)}
  <2> DEFINE l == Len(s)
  <2>1. l \in Nat /\ l # 0 /\ l <= 1
    BY <1>2, EmptySeq, LenProperties
  <2> HIDE DEF l
  <2>2. l = 1
    BY <2>1
  <2>3. DOMAIN s = {1}
    BY <2>2 DEF l
  <2>4. Head(s) = s[1]
    BY <1>2, HeadTailProperties
  <2> QED
    BY <2>3, <2>4 DEF ToSet
<1> QED
  BY <1>1, <1>2

\* A rising sequence goes on rising without its first member, which is the least,
\* and with a greater one at the end.
LEMMA RisingTail ==
  ASSUME NEW s \in Seq(Nat), s # <<>>, Rising(s)
  PROVE  Rising(Tail(s)) /\ Below({Head(s)}, ToSet(Tail(s)))
<1>1. /\ Head(s) = s[1] /\ Tail(s) \in Seq(Nat) /\ Len(Tail(s)) = Len(s) - 1
      /\ \A i \in 1 .. Len(s) - 1 : Tail(s)[i] = s[i + 1]
  BY HeadTailProperties
<1>2. Len(s) \in Nat /\ Len(s) > 0 /\ DOMAIN s = 1 .. Len(s)
      /\ DOMAIN Tail(s) = 1 .. Len(s) - 1
  BY <1>1
<1>3. Rising(Tail(s))
  BY SMTT(30), <1>1, <1>2 DEF Rising
<1>4. \A i \in 1 .. Len(s) - 1 : s[1] < Tail(s)[i]
  BY <1>1, <1>2 DEF Rising
<1> QED
  BY <1>1, <1>2, <1>3, <1>4 DEF Below, ToSet

LEMMA RisingAppend ==
  ASSUME NEW s \in Seq(Nat), NEW x \in Nat, Rising(s), Below(ToSet(s), {x})
  PROVE  Rising(Append(s, x))
<1>1. /\ Append(s, x) \in Seq(Nat) /\ Len(Append(s, x)) = Len(s) + 1
      /\ \A i \in 1 .. Len(s) : Append(s, x)[i] = s[i]
      /\ Append(s, x)[Len(s) + 1] = x
  BY AppendProperties
<1>2. Len(s) \in Nat /\ DOMAIN s = 1 .. Len(s) /\ DOMAIN Append(s, x) = 1 .. Len(s) + 1
  BY <1>1
<1>3. \A i \in 1 .. Len(s) : s[i] < x
  BY <1>2 DEF Below, ToSet
<1> QED
  BY <1>1, <1>2, <1>3 DEF Rising

\* The same of the messages of a kind in the queue.
LEMMA NumbersTail ==
  ASSUME NEW q \in Seq(Message3), q # <<>>, NEW k, RisingIn(q, k)
  PROVE  /\ RisingIn(Tail(q), k)
         /\ Head(q).kind # k => Numbers(q, k) = Numbers(Tail(q), k)
         /\ Head(q).kind = k => /\ Numbers(q, k) = {Head(q).no} \cup Numbers(Tail(q), k)
                                /\ Below({Head(q).no}, Numbers(Tail(q), k))
<1> DEFINE t == Tail(q)
<1>1. /\ Head(q) = q[1] /\ t \in Seq(Message3) /\ Len(t) = Len(q) - 1
      /\ \A i \in 1 .. Len(q) - 1 : t[i] = q[i + 1]
  BY HeadTailProperties
<1>2. Len(q) \in Nat /\ Len(q) > 0 /\ DOMAIN q = 1 .. Len(q) /\ DOMAIN t = 1 .. Len(q) - 1
  BY <1>1
<1> HIDE DEF t
<1>3. RisingIn(t, k)
  <2>1. \A i \in DOMAIN t : i + 1 \in DOMAIN q /\ t[i] = q[i + 1]
    BY <1>1, <1>2
  <2>2. \A i, j \in DOMAIN t : i < j => i + 1 < j + 1
    BY <1>2
  <2> QED
    BY <2>1, <2>2 DEF RisingIn
<1>4. ASSUME NEW x \in Numbers(t, k) PROVE x \in Numbers(q, k) /\ (Head(q).kind = k => Head(q).no < x)
  <2>1. PICK i \in 1 .. Len(q) - 1 : t[i].kind = k /\ x = t[i].no
    BY <1>2, <1>4 DEF Numbers
  <2>2. i + 1 \in 1 .. Len(q) /\ q[i + 1].kind = k /\ x = q[i + 1].no
    BY <1>1, <1>2, <2>1
  <2>3. 1 \in 1 .. Len(q) /\ 1 < i + 1
    BY <1>2, <2>1
  <2> QED
    BY <1>1, <1>2, <2>2, <2>3 DEF Numbers, RisingIn
<1>5. ASSUME NEW x \in Numbers(q, k) PROVE x \in Numbers(t, k) \/ (Head(q).kind = k /\ x = Head(q).no)
  <2>1. PICK i \in 1 .. Len(q) : q[i].kind = k /\ x = q[i].no
    BY <1>2, <1>5 DEF Numbers
  <2>2. CASE i # 1
    <3>1. i - 1 \in 1 .. Len(q) - 1 /\ t[i - 1] = q[i]
      BY <1>1, <1>2, <2>2
    <3> QED
      BY <1>2, <2>1, <3>1 DEF Numbers
  <2> QED
    BY <1>1, <2>1, <2>2
<1>6. Head(q).kind = k => Head(q).no \in Numbers(q, k)
  BY <1>1, <1>2 DEF Numbers
<1>7. Head(q).kind # k => Numbers(q, k) = Numbers(t, k)
  BY <1>4, <1>5
<1>8. Head(q).kind = k => /\ Numbers(q, k) = {Head(q).no} \cup Numbers(t, k)
                          /\ Below({Head(q).no}, Numbers(t, k))
  BY <1>4, <1>5, <1>6 DEF Below
<1> QED
  BY <1>3, <1>7, <1>8 DEF t

LEMMA NumbersAppend ==
  ASSUME NEW q \in Seq(Message3), NEW m \in Message3, NEW k, RisingIn(q, k)
  PROVE  /\ m.kind # k => Numbers(Append(q, m), k) = Numbers(q, k) /\ RisingIn(Append(q, m), k)
         /\ m.kind = k => Numbers(Append(q, m), k) = Numbers(q, k) \cup {m.no}
         /\ m.kind = k /\ Below(Numbers(q, k), {m.no}) => RisingIn(Append(q, m), k)
<1> DEFINE t == Append(q, m)
<1>1. /\ t \in Seq(Message3) /\ Len(t) = Len(q) + 1
      /\ \A i \in 1 .. Len(q) : t[i] = q[i]
      /\ t[Len(q) + 1] = m
  BY AppendProperties
<1>2. Len(q) \in Nat /\ DOMAIN q = 1 .. Len(q) /\ DOMAIN t = 1 .. Len(q) + 1
  BY <1>1
<1> HIDE DEF t
<1>3. \A i \in DOMAIN t : i \in DOMAIN q \/ i = Len(q) + 1
  BY <1>2
<1>4. m.kind # k => Numbers(t, k) = Numbers(q, k)
  BY <1>1, <1>2, <1>3 DEF Numbers
<1>5. m.kind = k => Numbers(t, k) = Numbers(q, k) \cup {m.no}
  <2>1. Len(q) + 1 \in DOMAIN t
    BY <1>2
  <2> QED
    BY <1>1, <1>2, <1>3, <2>1 DEF Numbers
<1>6. ASSUME m.kind = k => Below(Numbers(q, k), {m.no}) PROVE RisingIn(t, k)
  <2>1. ASSUME NEW i \in DOMAIN t, NEW j \in DOMAIN t, i < j, t[i].kind = k, t[j].kind = k
        PROVE  t[i].no < t[j].no
    <3>1. i \in DOMAIN q /\ t[i] = q[i]
      BY <1>1, <1>2, <1>3, <2>1
    <3>2. CASE j \in DOMAIN q
      BY <1>1, <1>2, <2>1, <3>1, <3>2 DEF RisingIn
    <3>3. CASE j = Len(q) + 1
      <4>1. q[i].no \in Numbers(q, k) /\ m.kind = k
        BY <1>1, <2>1, <3>1, <3>3 DEF Numbers
      <4> QED
        BY <1>1, <1>6, <3>1, <3>3, <4>1 DEF Below
    <3> QED
      BY <1>3, <3>2, <3>3
  <2> QED
    BY <2>1 DEF RisingIn
<1> QED
  BY <1>4, <1>5, <1>6 DEF t
----------------------------------------------------------------------------
\* The types of the places.
LEMMA LineTypes ==
  ASSUME LineInv
  PROVE  /\ Msgs \subseteq Nat /\ given \in Msgs
         /\ queue \in Seq(Message3) /\ todo \in Seq(Msgs) /\ held \in Seq(Msgs)
         /\ now \in Seq(Msgs) /\ contents \in Seq(Msgs)
         /\ Sent \subseteq Msgs /\ Passed \subseteq Msgs /\ Taken \subseteq Msgs
         /\ Stored \subseteq Msgs /\ Left \subseteq Msgs /\ Requested \subseteq Nat
<1>1. Msgs \subseteq Nat /\ Msgs = 0..Top
  BY MsgsDef
<1>2. contents \in Seq(Msgs)
  BY HeldType DEF LineInv, TypeInv
<1>3. ASSUME NEW q \in Seq(Msgs) PROVE ToSet(q) \subseteq Msgs
  BY DEF ToSet
<1>4. \A i \in DOMAIN queue : queue[i].no \in Msgs
  <2>1. queue \in Seq(Message3)
    BY DEF LineInv, TypeInv
  <2>2. \A i \in DOMAIN queue : queue[i] \in Message3
    BY <2>1
  <2> QED
    BY <1>1, <2>2 DEF Message3
<1> QED
  BY <1>1, <1>2, <1>3, <1>4
     DEF LineInv, TypeInv, InvLine, Sent, Passed, Taken, Stored, Left, Requested, Numbers

\* What a message leaves of the queue when it is taken out, and that it is less
\* than those of its kind behind it.
LEMMA FirstOut ==
  ASSUME LineInv, queue # <<>>, queue' = Tail(queue)
  PROVE  /\ Head(queue) \in Message3
         /\ RisingIn(queue, "second")' /\ RisingIn(queue, "sample")'
         /\ IF Head(queue).kind = "second"
            THEN Passed = {Head(queue).no} \cup Passed' /\ Below({Head(queue).no}, Passed')
            ELSE Passed' = Passed
         /\ IF Head(queue).kind = "sample"
            THEN Requested = {Head(queue).no} \cup Requested' /\ Below({Head(queue).no}, Requested')
            ELSE Requested' = Requested
<1>1. Passed = Numbers(queue, "second") /\ Passed' = Numbers(Tail(queue), "second")
  BY DEF Passed, Numbers
<1>2. Requested = Numbers(queue, "sample") /\ Requested' = Numbers(Tail(queue), "sample")
  BY DEF Requested, Numbers
<1> QED
  BY <1>1, <1>2, NumbersTail, LineTypes, ReceiveType DEF LineInv, InvLine

\* What one more message in the queue adds.
LEMMA LastIn ==
  ASSUME LineInv, NEW m \in Message3, queue' = Append(queue, m),
         m.kind = "second" => Below(Passed, {m.no}),
         m.kind = "sample" => Below(Requested, {m.no})
  PROVE  /\ RisingIn(queue, "second")' /\ RisingIn(queue, "sample")'
         /\ Passed' = IF m.kind = "second" THEN Passed \cup {m.no} ELSE Passed
         /\ Requested' = IF m.kind = "sample" THEN Requested \cup {m.no} ELSE Requested
<1>1. Passed = Numbers(queue, "second") /\ Passed' = Numbers(Append(queue, m), "second")
  BY DEF Passed, Numbers
<1>2. Requested = Numbers(queue, "sample") /\ Requested' = Numbers(Append(queue, m), "sample")
  BY DEF Requested, Numbers
<1> QED
  BY <1>1, <1>2, NumbersAppend, LineTypes DEF LineInv, InvLine

\* A step in which no second moves.
LEMMA NoneMoves ==
  ASSUME LineInv, UNCHANGED <<given, now, held, todo, ring, reqs>>,
         RisingIn(queue, "second")', RisingIn(queue, "sample")',
         Passed' = Passed, Requested' \subseteq Requested
  PROVE  InvLine' /\ InvAsked' /\ waiting' = waiting
<1>1. contents' = contents
  BY DEF ring, contents, Held
<1>2. Sent' = Sent /\ Taken' = Taken /\ Stored' = Stored /\ Left' = Left
  BY <1>1 DEF Sent, Taken, Stored, Left
<1>3. waiting' = waiting /\ Seconds' = Seconds
  BY <1>2 DEF waiting, Seconds
<1> QED
  BY <1>1, <1>2, <1>3 DEF LineInv, InvLine, InvAsked, Line

\* Tcp_server_task: a request that gets into the queue comes after all others.
LEMMA AskKeeps ==
  LineInv /\ (SampleReq \/ OtherReq) => InvLine' /\ InvAsked' /\ waiting' = waiting /\ given' = given
<1> SUFFICES ASSUME LineInv, SampleReq \/ OtherReq
             PROVE  InvLine' /\ InvAsked' /\ waiting' = waiting /\ given' = given
  OBVIOUS
<1>1. UNCHANGED <<given, now, held, todo, ring>>
  BY DEF SampleReq, OtherReq, Receive, sender, history
<1>2. CASE OtherReq
  <2> DEFINE m == Message("other", 0, 0)
  <2>1. m \in Message3 /\ m.kind = "other"
    BY MsgsDef DEF Message, Message3
  <2>2. queue' = queue \/ queue' = Append(queue, m)
    BY <1>2 DEF OtherReq, Receive
  <2> HIDE DEF m
  <2>3. CASE queue' = queue
    BY <1>1, <1>2, <2>3, NoneMoves DEF OtherReq, LineInv, InvLine, RisingIn, Passed, Requested, Numbers
  <2>4. CASE queue' = Append(queue, m)
    BY <1>1, <1>2, <2>1, <2>4, LastIn, NoneMoves DEF OtherReq
  <2> QED
    BY <1>1, <2>2, <2>3, <2>4
<1>3. CASE SampleReq
  <2>1. PICK n \in 0 .. MaxSecs + 1 : Receive(Message("sample", reqs', n))
    BY <1>3 DEF SampleReq
  <2>2. reqs' = reqs + 1 /\ reqs' \in 1..MaxReq /\ reqs \in Nat
    BY SMTT(30), <1>3, RequestsAssumption DEF SampleReq, LineInv, TypeInv
  <2> DEFINE r == reqs + 1
             m == Message("sample", r, n)
  <2>3. m \in Message3 /\ m.kind = "sample" /\ m.no = r /\ r \in Nat
    <3>1. r \in 0..Top
      BY <2>2, SecondsAreMsgs, RequestsAssumption DEF Top
    <3>2. n \in Nat
      BY RequestsAssumption
    <3> QED
      BY <3>1, <3>2 DEF Message, Message3
  <2>4. queue' = queue \/ queue' = Append(queue, m)
    BY <2>1, <2>2 DEF Receive
  <2>5. \A q \in Requested : q <= reqs /\ q < r
    BY <2>2, LineTypes DEF LineInv, InvAsked
  <2> HIDE DEF m
  <2>6. /\ RisingIn(queue, "second")' /\ RisingIn(queue, "sample")' /\ Passed' = Passed
        /\ Requested' \in {Requested, Requested \cup {r}}
    <3>1. CASE queue' = queue
      BY <3>1 DEF LineInv, InvLine, RisingIn, Passed, Requested, Numbers
    <3>2. CASE queue' = Append(queue, m)
      BY <2>3, <2>5, <3>2, LastIn DEF Below
    <3> QED
      BY <2>4, <3>1, <3>2
  <2>7. contents' = contents
    BY <1>1 DEF ring, contents, Held
  <2>8. /\ Sent' = Sent /\ Taken' = Taken /\ Stored' = Stored /\ Left' = Left
        /\ waiting' = waiting /\ Seconds' = Seconds
    BY <1>1, <2>6, <2>7 DEF Sent, Taken, Stored, Left, waiting, Seconds
  <2>9. InvLine'
    BY <1>1, <2>6, <2>7, <2>8 DEF LineInv, InvLine
  <2>10. InvAsked'
    <3>1. \A s \in Seconds : s < r * MaxSecs /\ s \in Nat
      BY LineTypes DEF LineInv, InvAsked, Seconds, waiting
    <3>2. r * MaxSecs \in Nat /\ (r + 1) * MaxSecs = r * MaxSecs + MaxSecs /\ MaxSecs \in Nat
      BY <2>3, RequestsAssumption
    <3>3. \A s \in Seconds : s < (r + 1) * MaxSecs
      BY <3>1, <3>2
    <3>4. \A q \in Requested' : q <= r /\ \A s \in Seconds : s < q * MaxSecs
      <4> SUFFICES ASSUME NEW q \in Requested'
                   PROVE  q <= r /\ \A s \in Seconds : s < q * MaxSecs
        OBVIOUS
      <4>1. q \in Requested \/ q = r
        BY <2>6
      <4>2. CASE q \in Requested
        BY <2>2, <2>5, <4>2, LineTypes DEF LineInv, InvAsked
      <4>3. CASE q = r
        BY <2>3, <3>1, <4>3
      <4> QED
        BY <4>1, <4>2, <4>3
    <3>5. reqs' = r
      BY <2>2
    <3> QED
      BY <2>8, <3>3, <3>4, <3>5 DEF InvAsked
  <2> QED
    BY <1>1, <2>8, <2>9, <2>10
<1> QED
  BY <1>2, <1>3

\* Msg_proc_task takes a request: its seconds come after all that are under way
\* and before those of the requests behind it.
LEMMA SplitKeeps ==
  LineInv /\ kt_SampleData => InvLine' /\ InvAsked' /\ waiting' = waiting /\ given' = given
<1> SUFFICES ASSUME LineInv, kt_SampleData
             PROVE  InvLine' /\ InvAsked' /\ waiting' = waiting /\ given' = given
  OBVIOUS
<1> DEFINE r == Head(queue).no
           n == Cut(Head(queue).secs)
           base == r * MaxSecs
<1>1. /\ queue # <<>> /\ Head(queue).kind = "sample" /\ queue' = Tail(queue) /\ todo = <<>>
      /\ todo' = [i \in 1 .. n |-> base + i - 1]
      /\ UNCHANGED <<given, now, held, ring, reqs>>
  BY DEF kt_SampleData, First, Idle, sender
<1>2. /\ RisingIn(queue, "second")' /\ RisingIn(queue, "sample")'
      /\ Passed' = Passed /\ Requested = {r} \cup Requested' /\ Below({r}, Requested')
      /\ Head(queue) \in Message3
  BY <1>1, FirstOut
<1>3. n \in 0 .. MaxSecs /\ r \in Nat /\ base \in Nat /\ MaxSecs \in Nat
  BY <1>2, RequestsAssumption, LineTypes DEF Cut, Message3
<1> HIDE DEF n, base, r
<1>4. todo' \in Seq(Nat) /\ Rising(todo)' /\ \A s \in Left' : s \in base .. base + MaxSecs - 1
  <2>1. \A i \in 1 .. n : base + i - 1 \in Nat /\ base + i - 1 \in base .. base + MaxSecs - 1
    BY <1>3
  <2>2. todo' \in [1 .. n -> Nat]
    BY <1>1, <2>1
  <2>3. DOMAIN todo' = 1 .. n /\ \A i \in 1 .. n : todo'[i] = base + i - 1
    BY <1>1
  <2>4. \A i, j \in 1 .. n : i < j => base + i - 1 < base + j - 1
    BY <1>3
  <2> QED
    BY <1>3, <2>1, <2>2, <2>3, <2>4 DEF Rising, Left, ToSet
<1>5. contents' = contents
  BY <1>1 DEF ring, contents, Held
<1>6. Sent' = Sent /\ Taken' = Taken /\ Stored' = Stored /\ waiting' = waiting /\ Left = {}
  BY <1>1, <1>2, <1>5, SetOfOne DEF Sent, Taken, Stored, waiting, Left
<1>7. \A s \in {given} \cup waiting : s < base /\ s \in Nat
  <2>1. r \in Requested
    BY <1>2
  <2> QED
    BY <2>1, LineTypes DEF LineInv, InvAsked, Seconds, waiting, base
<1>8. Below({given} \cup waiting, Left')
  BY <1>3, <1>4, <1>7 DEF Below
<1>9. InvLine'
  <2>1. Line(given, Sent, Passed, Taken, Stored, Left)'
    BY <1>1, <1>2, <1>6, <1>8 DEF LineInv, InvLine, Line, Below, waiting
  <2> QED
    BY <1>1, <1>2, <1>4, <1>5, <2>1 DEF LineInv, InvLine
<1>10. InvAsked'
  <2>1. \A s \in Seconds' : s \in Nat /\ s < base + MaxSecs
    BY <1>1, <1>3, <1>4, <1>6, <1>7 DEF Seconds
  <2>2. ASSUME NEW q \in Nat, r < q PROVE base + MaxSecs <= q * MaxSecs
    <3>1. (r + 1) * MaxSecs = base + MaxSecs
      BY <1>3 DEF base
    <3>2. \A a, b, c \in Nat : a <= b => a * c <= b * c
      OBVIOUS
    <3>3. r + 1 <= q /\ r + 1 \in Nat
      BY <1>3, <2>2
    <3> QED
      BY <1>3, <3>1, <3>2, <3>3
  <2>3. \A q \in Requested' : q \in Nat /\ r < q /\ q <= reqs
    BY <1>2, LineTypes DEF LineInv, InvAsked, Below
  <2>4. reqs \in Nat /\ r <= reqs
    BY <1>2, RequestsAssumption DEF LineInv, InvAsked, TypeInv
  <2>5. ASSUME NEW q \in Nat, r < q, NEW s \in Seconds' PROVE s < q * MaxSecs
    <3>1. base + MaxSecs \in Nat /\ q * MaxSecs \in Nat
      BY <1>3
    <3> QED
      BY <2>1, <2>2, <2>5, <3>1
  <2>6. reqs + 1 \in Nat /\ r < reqs + 1
    BY <1>3, <2>4
  <2> QED
    BY <1>1, <2>3, <2>5, <2>6 DEF InvAsked
<1> QED
  BY <1>1, <1>6, <1>9, <1>10

\* Msg_proc_task puts the least second of the request into the ring, or loses it.
LEMMA PutKeeps ==
  LineInv /\ PutSecond =>
    InvLine' /\ InvAsked' /\ (waiting' = waiting \/ Promise!Ask) /\ given' = given
<1> SUFFICES ASSUME LineInv, PutSecond
             PROVE  InvLine' /\ InvAsked' /\ (waiting' = waiting \/ Promise!Ask) /\ given' = given
  OBVIOUS
<1> DEFINE s == Head(todo)
<1>1. /\ todo # <<>> /\ todo' = Tail(todo)
      /\ UNCHANGED <<given, queue, now, held, reqs>>
      /\ enQueue(s) \/ UNCHANGED ring
  BY DEF PutSecond, sender
<1>2. /\ todo \in Seq(Msgs) /\ todo \in Seq(Nat) /\ Rising(todo)
  BY MsgsDef DEF LineInv, InvLine, TypeInv
<1>3. /\ s \in Msgs /\ s \in Nat /\ Left = {s} \cup Left'
      /\ Rising(todo)' /\ Below({s}, Left')
  <2>1. Left = {s} \cup ToSet(Tail(todo)) /\ s \in Msgs
    BY <1>1, <1>2, SetOfTail DEF Left
  <2>2. Rising(Tail(todo)) /\ Below({s}, ToSet(Tail(todo)))
    BY <1>1, <1>2, RisingTail
  <2> QED
    BY <1>1, <2>1, <2>2, MsgsDef DEF Left
<1> HIDE DEF s
<1>4. /\ Sent' = Sent /\ Passed' = Passed /\ Taken' = Taken /\ Requested' = Requested
      /\ RisingIn(queue, "second")' /\ RisingIn(queue, "sample")'
  BY <1>1 DEF Sent, Passed, Taken, Requested, Numbers, RisingIn, LineInv, InvLine
<1>5. Rising(contents)' /\ Stored' \in {Stored, Stored \cup {s}}
  <2>1. CASE enQueue(s)
    <3>1. contents' = Append(contents, s)
      BY <1>3, <2>1, EnQueueAppends DEF LineInv, TypeInv
    <3>2. contents \in Seq(Msgs) /\ contents \in Seq(Nat)
      BY LineTypes
    <3>3. Below(Stored, {s})
      BY <1>3 DEF LineInv, InvLine, Line, Below
    <3> QED
      BY <1>3, <3>1, <3>2, <3>3, SetOfAppend, RisingAppend DEF Stored, LineInv, InvLine
  <2>2. CASE UNCHANGED ring
    <3>1. contents' = contents
      BY <2>2 DEF ring, contents, Held
    <3> QED
      BY <3>1 DEF Stored, LineInv, InvLine
  <2> QED
    BY <1>1, <2>1, <2>2
<1>6. Line(given, Sent, Passed, Taken, Stored, Left)'
  <2>1. Line(given, Sent, Passed, Taken, Stored, Left)
    BY DEF LineInv, InvLine
  <2> QED
    BY <1>1, <1>3, <1>4, <1>5, <2>1 DEF Line, Below
<1>7. InvLine'
  BY <1>1, <1>3, <1>4, <1>5, <1>6 DEF LineInv, InvLine
<1>8. Seconds' \subseteq Seconds
  BY <1>1, <1>3, <1>4, <1>5 DEF Seconds, waiting
<1>9. InvAsked'
  BY <1>1, <1>4, <1>8 DEF LineInv, InvAsked
<1>10. waiting' = waiting \/ Promise!Ask
  <2>1. CASE Stored' = Stored
    BY <1>4, <2>1 DEF waiting
  <2>2. CASE Stored' = Stored \cup {s}
    <3>1. waiting' = waiting \cup {s}
      BY <1>4, <2>2 DEF waiting
    <3>2. \A t \in waiting \cup {given} : t < s
      BY <1>3 DEF LineInv, InvLine, Line, Below, waiting
    <3> QED
      BY <1>1, <3>1, <3>2 DEF Promise!Ask
  <2> QED
    BY <1>5, <2>1, <2>2
<1> QED
  BY <1>1, <1>7, <1>9, <1>10

\* A place that passes its second on, or loses it, keeps the line.
LEMMA PlacesMove ==
  ASSUME LineInv, UNCHANGED <<todo, reqs>>, given' \in Msgs, now' \in Seq(Msgs),
         Len(now') <= 1, Len(held') <= 1, Rising(contents)',
         RisingIn(queue, "second")', RisingIn(queue, "sample")',
         Requested' \subseteq Requested, {given'} \cup waiting' \subseteq {given} \cup waiting,
         Line(given, Sent, Passed, Taken, Stored, Left)'
  PROVE  InvLine' /\ InvAsked'
<1>1. Left' = Left /\ Rising(todo)'
  BY DEF Left, LineInv, InvLine, Rising
<1>2. Seconds' \subseteq Seconds
  BY <1>1 DEF Seconds
<1> QED
  BY <1>1, <1>2 DEF LineInv, InvLine, InvAsked

\* Msg_proc_task takes out a second to answer it, or another message.
LEMMA TakeOutKeeps ==
  LineInv /\ (OtherMsg \/ kt_SampleDataIn) =>
    InvLine' /\ InvAsked' /\ waiting' = waiting /\ given' = given
<1> SUFFICES ASSUME LineInv, OtherMsg \/ kt_SampleDataIn
             PROVE  InvLine' /\ InvAsked' /\ waiting' = waiting /\ given' = given
  OBVIOUS
<1>1. /\ queue # <<>> /\ queue' = Tail(queue) /\ now = <<>>
      /\ UNCHANGED <<given, held, todo, ring, reqs>>
  BY DEF OtherMsg, kt_SampleDataIn, First, Idle, sender, history
<1>2. CASE OtherMsg
  <2>1. Head(queue).kind = "other" /\ now' = now
    BY <1>2 DEF OtherMsg, First
  <2>2. /\ Passed' = Passed /\ Requested' = Requested
        /\ RisingIn(queue, "second")' /\ RisingIn(queue, "sample")'
    BY <1>1, <2>1, FirstOut
  <2> QED
    BY <1>1, <2>1, <2>2, NoneMoves
<1>3. CASE kt_SampleDataIn
  <2> DEFINE n == Head(queue).no
  <2>1. Head(queue).kind = "second" /\ now' = <<n>>
    BY <1>3 DEF kt_SampleDataIn, First
  <2>2. /\ Passed = {n} \cup Passed' /\ Below({n}, Passed') /\ Requested' = Requested
        /\ RisingIn(queue, "second")' /\ RisingIn(queue, "sample")'
    BY <1>1, <2>1, FirstOut
  <2> HIDE DEF n
  <2>3. Sent = {} /\ Sent' = {n} /\ n \in Msgs
    BY <1>1, <2>1, <2>2, SetOfOne, LineTypes DEF Sent
  <2>4. contents' = contents
    BY <1>1 DEF ring, contents, Held
  <2>5. Taken' = Taken /\ Stored' = Stored /\ Left' = Left
    BY <1>1, <2>4 DEF Taken, Stored, Left
  <2>6. waiting' = waiting
    BY <2>2, <2>3, <2>5 DEF waiting
  <2>7. Line(given, Sent, Passed, Taken, Stored, Left)'
    BY <1>1, <2>2, <2>3, <2>5 DEF LineInv, InvLine, Line, Below
  <2>8. now' \in Seq(Msgs) /\ Len(now') <= 1 /\ Len(held') <= 1 /\ Rising(contents)'
        /\ given' \in Msgs
    BY <1>1, <2>1, <2>3, <2>4 DEF LineInv, InvLine
  <2> QED
    BY <1>1, <2>2, <2>6, <2>7, <2>8, PlacesMove
<1> QED
  BY <1>2, <1>3

\* The second that is answered is the least one asked for.
LEMMA AnswerKeeps == LineInv /\ Answered => InvLine' /\ InvAsked' /\ Promise!Answer
<1> SUFFICES ASSUME LineInv, Answered PROVE InvLine' /\ InvAsked' /\ Promise!Answer
  OBVIOUS
<1> DEFINE n == Head(now)
<1>1. /\ now # <<>> /\ now' = <<>> /\ given' = n
      /\ UNCHANGED <<queue, held, todo, ring, reqs>>
  BY DEF Answered, sender
<1>2. Sent = {n} /\ Sent' = {} /\ n \in Msgs
  BY <1>1, SetOfOne, HeadTailProperties DEF Sent, LineInv, InvLine
<1> HIDE DEF n
<1>3. contents' = contents
  BY <1>1 DEF ring, contents, Held
<1>4. /\ Passed' = Passed /\ Taken' = Taken /\ Stored' = Stored /\ Left' = Left
      /\ Requested' = Requested /\ RisingIn(queue, "second")' /\ RisingIn(queue, "sample")'
  BY <1>1, <1>3 DEF Passed, Taken, Stored, Left, Requested, Numbers, RisingIn, LineInv, InvLine
<1>5. Below({n}, Passed \cup Taken \cup Stored \cup Left)
  BY <1>2 DEF LineInv, InvLine, Line
<1>6. n \in waiting /\ \A t \in waiting : t \in Nat /\ n <= t
  BY <1>2, <1>5, LineTypes DEF Below, waiting
<1>7. waiting' = waiting \ {n}
  <2>1. \A t \in Passed \cup Taken \cup Stored : n < t /\ t \in Nat /\ n \in Nat
    BY <1>2, <1>5, LineTypes DEF Below
  <2>2. n \notin Passed \cup Taken \cup Stored
    BY <2>1
  <2> QED
    BY <1>2, <1>4, <2>2 DEF waiting
<1>8. Line(given, Sent, Passed, Taken, Stored, Left)'
  BY <1>1, <1>2, <1>4, <1>5 DEF LineInv, InvLine, Line, Below
<1>9. now' \in Seq(Msgs) /\ Len(now') <= 1 /\ Len(held') <= 1 /\ Rising(contents)'
  BY <1>1, <1>3 DEF LineInv, InvLine
<1>10. InvLine' /\ InvAsked'
  BY <1>1, <1>2, <1>4, <1>6, <1>7, <1>8, <1>9, PlacesMove
<1> QED
  BY <1>1, <1>6, <1>7, <1>10 DEF Promise!Answer

\* Msg_send_task takes the least second out of the ring.
LEMMA TakeKeeps ==
  LineInv /\ TakeSecond => InvLine' /\ InvAsked' /\ waiting' = waiting /\ given' = given
<1> SUFFICES ASSUME LineInv, TakeSecond
             PROVE  InvLine' /\ InvAsked' /\ waiting' = waiting /\ given' = given
  OBVIOUS
<1> DEFINE n == Head(contents)
<1>1. /\ held = <<>> /\ held' = <<Oldest>> /\ deQueue
      /\ UNCHANGED <<given, queue, now, todo, reqs>>
  BY DEF TakeSecond, history
<1>2. contents # <<>> /\ contents' = Tail(contents)
  BY <1>1, DeQueueTakes DEF LineInv, TypeInv
<1>3. Oldest = n
  <2>1. RingOK /\ Held \in Slots /\ Len(contents) = Held /\ contents \in Seq(Msgs)
    BY HeldType DEF LineInv, TypeInv
  <2>2. 1 \in 1 .. Held
    BY <1>2, <2>1, EmptySeq DEF Slots
  <2>3. contents[1] = ucBuf[(ucFront + 1 - 1) % MAX_QUEUE_SIZE]
    BY <2>2 DEF contents
  <2>4. ucFront + 1 - 1 = ucFront /\ ucFront % MAX_QUEUE_SIZE = ucFront
    BY <2>1, CirQueAssumption DEF RingOK, Slots
  <2> QED
    BY <2>1, <2>3, <2>4 DEF Oldest
<1>4. /\ contents \in Seq(Msgs) /\ contents \in Seq(Nat) /\ Rising(contents)
  BY LineTypes DEF LineInv, InvLine
<1>5. Stored = {n} \cup Stored' /\ n \in Msgs
  BY <1>2, <1>4, SetOfTail DEF Stored
<1>6. Rising(contents)' /\ Below({n}, Stored')
  BY <1>2, <1>4, RisingTail DEF Stored
<1>7. held' = <<n>>
  BY <1>1, <1>3
<1> HIDE DEF n
<1>8. Taken = {} /\ Taken' = {n} /\ Len(held') <= 1
  BY <1>1, <1>7, SetOfOne DEF Taken
<1>9. /\ Passed' = Passed /\ Sent' = Sent /\ Left' = Left
      /\ Requested' = Requested /\ RisingIn(queue, "second")' /\ RisingIn(queue, "sample")'
  BY <1>1 DEF Passed, Sent, Left, Requested, Numbers, RisingIn, LineInv, InvLine
<1>10. waiting' = waiting
  BY <1>5, <1>8, <1>9 DEF waiting
<1>11. Line(given, Sent, Passed, Taken, Stored, Left)'
  BY <1>1, <1>5, <1>6, <1>8, <1>9 DEF LineInv, InvLine, Line, Below
<1>12. now' \in Seq(Msgs) /\ Len(now') <= 1 /\ given' \in Msgs
  BY <1>1 DEF LineInv, InvLine
<1> QED
  BY <1>1, <1>6, <1>8, <1>9, <1>10, <1>11, <1>12, PlacesMove

\* Msg_send_task passes the second it holds on to the message queue.
LEMMA PassKeeps ==
  LineInv /\ PassOn => InvLine' /\ InvAsked' /\ waiting' = waiting /\ given' = given
<1> SUFFICES ASSUME LineInv, PassOn
             PROVE  InvLine' /\ InvAsked' /\ waiting' = waiting /\ given' = given
  OBVIOUS
<1> DEFINE n == Head(held)
           m == Message("second", n, 0)
<1>1. /\ held # <<>> /\ held' = <<>> /\ queue' = Append(queue, m)
      /\ UNCHANGED <<given, now, todo, ring, reqs>>
  BY DEF PassOn, Transfer, Onward, history
<1>2. Taken = {n} /\ Taken' = {} /\ n \in Msgs
  BY <1>1, SetOfOne, HeadTailProperties DEF Taken, LineInv, InvLine, TypeInv
<1>3. m \in Message3 /\ m.kind = "second" /\ m.no = n
  BY <1>2, MsgsDef DEF Message, Message3
<1> HIDE DEF n, m
<1>4. Below(Passed, {n})
  BY <1>2 DEF LineInv, InvLine, Line, Below
<1>5. /\ Passed' = Passed \cup {n} /\ Requested' = Requested
      /\ RisingIn(queue, "second")' /\ RisingIn(queue, "sample")'
  BY <1>1, <1>3, <1>4, LastIn
<1>6. contents' = contents
  BY <1>1 DEF ring, contents, Held
<1>7. Sent' = Sent /\ Stored' = Stored /\ Left' = Left
  BY <1>1, <1>6 DEF Sent, Stored, Left
<1>8. waiting' = waiting
  BY <1>2, <1>5, <1>7 DEF waiting
<1>9. Line(given, Sent, Passed, Taken, Stored, Left)'
  BY <1>1, <1>2, <1>5, <1>7 DEF LineInv, InvLine, Line, Below
<1>10. now' \in Seq(Msgs) /\ Len(now') <= 1 /\ Len(held') <= 1 /\ Rising(contents)'
       /\ given' \in Msgs
  BY <1>1, <1>6 DEF LineInv, InvLine
<1> QED
  BY <1>1, <1>5, <1>8, <1>9, <1>10, PlacesMove

\* Msg_send_task tries again or loses the second it holds.
LEMMA RetryKeeps ==
  LineInv /\ Retry =>
    InvLine' /\ InvAsked' /\ (waiting' = waiting \/ Promise!Lose) /\ given' = given
<1> SUFFICES ASSUME LineInv, Retry
             PROVE  InvLine' /\ InvAsked' /\ (waiting' = waiting \/ Promise!Lose) /\ given' = given
  OBVIOUS
<1>1. /\ held # <<>> /\ held' \in {held, <<>>}
      /\ UNCHANGED <<given, queue, now, todo, ring, reqs>>
  BY DEF Retry, GiveUp, history
<1>2. contents' = contents
  BY <1>1 DEF ring, contents, Held
<1>3. /\ Sent' = Sent /\ Passed' = Passed /\ Stored' = Stored /\ Left' = Left
      /\ Requested' = Requested /\ RisingIn(queue, "second")' /\ RisingIn(queue, "sample")'
  BY <1>1, <1>2 DEF Sent, Passed, Stored, Left, Requested, Numbers, RisingIn, LineInv, InvLine
<1>4. Taken' \in {Taken, {}} /\ Len(held') <= 1
  BY <1>1, SetOfOne DEF Taken, LineInv, InvLine
<1>5. Line(given, Sent, Passed, Taken, Stored, Left)'
  BY <1>1, <1>3, <1>4 DEF LineInv, InvLine, Line, Below
<1>6. waiting' \subseteq waiting
  BY <1>3, <1>4 DEF waiting
<1>7. now' \in Seq(Msgs) /\ Len(now') <= 1 /\ Rising(contents)' /\ given' \in Msgs
  BY <1>1, <1>2 DEF LineInv, InvLine
<1>8. InvLine' /\ InvAsked'
  BY <1>1, <1>3, <1>4, <1>5, <1>6, <1>7, PlacesMove
<1>9. waiting' = waiting \/ Promise!Lose
  <2>1. CASE Taken' = Taken
    BY <1>3, <2>1 DEF waiting
  <2>2. CASE Taken' = {}
    <3> DEFINE n == Head(held)
    <3>1. Taken = {n}
      BY <1>1, SetOfOne DEF Taken, LineInv, InvLine, TypeInv
    <3> HIDE DEF n
    <3>2. \A t \in Sent \cup Passed : t < n /\ t \in Nat
      BY <3>1, LineTypes DEF LineInv, InvLine, Line, Below
    <3>3. \A t \in Stored : n < t /\ t \in Nat
      BY <3>1, LineTypes DEF LineInv, InvLine, Line, Below
    <3>4. n \in Nat
      BY <3>1, LineTypes
    <3>5. n \notin Sent \cup Passed \cup Stored
      BY <3>2, <3>3, <3>4
    <3>6. n \in waiting /\ waiting' = waiting \ {n}
      BY <1>3, <2>2, <3>1, <3>5 DEF waiting
    <3> QED
      BY <1>1, <3>6 DEF Promise!Lose
  <2> QED
    BY <1>4, <2>1, <2>2
<1> QED
  BY <1>1, <1>8, <1>9

\* Every step keeps the line and is one of the promise, or none to it.
LEMMA LineStep ==
  LineInv /\ [Next]_vars => InvLine' /\ InvAsked' /\ [Promise!Next]_<<waiting, given>>
<1> SUFFICES ASSUME LineInv, [Next]_vars
             PROVE  InvLine' /\ InvAsked' /\ [Promise!Next]_<<waiting, given>>
  OBVIOUS
<1>1. CASE OtherAnswered \/ UNCHANGED vars
  <2>1. UNCHANGED <<given, now, held, todo, ring, reqs, queue>>
    BY <1>1 DEF OtherAnswered, vars, sender, history
  <2>2. /\ Passed' = Passed /\ Requested' = Requested
        /\ RisingIn(queue, "second")' /\ RisingIn(queue, "sample")'
    BY <2>1 DEF Passed, Requested, Numbers, RisingIn, LineInv, InvLine
  <2> QED
    BY <2>1, <2>2, NoneMoves
<1>2. CASE tcp_server_task
  BY <1>2, AskKeeps DEF tcp_server_task
<1>3. CASE Runs \/ Answered
  BY <1>3, SplitKeeps, PutKeeps, TakeOutKeeps, AnswerKeeps DEF Runs, Promise!Next
<1>4. CASE msg_send_task
  BY <1>4, TakeKeeps, PassKeeps, RetryKeeps DEF msg_send_task, Promise!Next
<1> QED
  BY <1>1, <1>2, <1>3, <1>4 DEF Next, msg_proc_task, SendReturns

\* At the start nothing was asked for.
LEMMA LineInit == Init => InvLine /\ InvAsked /\ Promise!Init
<1> SUFFICES ASSUME Init PROVE InvLine /\ InvAsked /\ Promise!Init
  OBVIOUS
<1>1. /\ queue = <<>> /\ todo = <<>> /\ now = <<>> /\ held = <<>> /\ given = 0 /\ reqs = 0
      /\ Held = 0
  BY CirQueAssumption DEF Init, initCirQueue, Held
<1>2. contents = <<>>
  BY <1>1 DEF contents
<1>3. Sent = {} /\ Taken = {} /\ Stored = {} /\ Left = {}
  BY <1>1, <1>2, SetOfOne DEF Sent, Taken, Stored, Left
<1>4. Passed = {} /\ Requested = {}
  BY <1>1 DEF Passed, Requested, Numbers
<1>5. 0 \in Msgs /\ 0 < (0 + 1) * MaxSecs
  BY MsgsDef, RequestsAssumption
<1>6. InvLine
  BY <1>1, <1>2, <1>3, <1>4, <1>5
     DEF InvLine, Line, Below, Rising, RisingIn, waiting
<1>7. InvAsked
  BY <1>1, <1>3, <1>4, <1>5 DEF InvAsked, Seconds, waiting
<1> QED
  BY <1>1, <1>3, <1>4, <1>6, <1>7 DEF Promise!Init, waiting

\* The seconds a host asks for are answered in the order it asked for them and
\* none of them twice, for every ring, queue and request length, whatever is
\* lost on the way: the three tasks and their two queues implement the promise.
THEOREM DeliveryImplemented == Spec => ImplementsDelivery
<1>1. TypeInv /\ InvLine /\ InvAsked /\ [Next]_vars
        => InvLine' /\ InvAsked' /\ [Promise!Next]_<<waiting, given>>
  BY LineStep DEF LineInv
<1> QED
  BY <1>1, LineInit, TypeCorrect, PTL DEF Spec, ImplementsDelivery, Promise!Spec
-----------------------------------------------------------------------------
(* Dates: the days of the years and the months before. *)
Less == {p \in Nat \X Nat : p[1] < p[2]}

\* Every set of numbers has a least one.
LEMMA Least ==
  ASSUME NEW S, S \subseteq Nat, S # {}
  PROVE  \E x \in S : \A y \in S : x <= y
<1>1. IsWellFoundedOn(Less, Nat)
  BY NatLessThanWellFounded DEF OpToRel, Less
<1>2. PICK x \in S : \A y \in S : ~ (<<y, x>> \in Less)
  BY <1>1, WFMin, Zenon
<1>3. ASSUME NEW y \in S PROVE x <= y
  <2>1. x \in Nat /\ y \in Nat
    OBVIOUS
  <2>2. ASSUME y < x PROVE <<y, x>> \in Less
    BY <2>1, <2>2 DEF Less
  <2> QED
    BY <1>2, <2>1, <2>2
<1> QED
  BY <1>3

\* Days of the years before y, by the leap years among them, and of those from 1970 on.
YearStart(y) == 365 * y + ((y + 3) \div 4) - ((y + 99) \div 100) + ((y + 399) \div 400)
DaysBefore(y) == IF y <= 1970 THEN 0 ELSE YearStart(y) - 719528

\* The next year starts when the days of this one have passed.
LEMMA YearStep ==
  ASSUME NEW y \in Nat
  PROVE  /\ YearStart(y + 1) = YearStart(y) + get_days_of_year(y)
         /\ YearStart(y) \in Int /\ get_days_of_year(y) \in {365, 366}
<1>1. ((y + 4) \div 4) - ((y + 3) \div 4) = IF y % 4 = 0 THEN 1 ELSE 0
  OBVIOUS
<1>2. ((y + 100) \div 100) - ((y + 99) \div 100) = IF y % 100 = 0 THEN 1 ELSE 0
  OBVIOUS
<1>3. ((y + 400) \div 400) - ((y + 399) \div 400) = IF y % 400 = 0 THEN 1 ELSE 0
  OBVIOUS
<1>4. (y % 400 = 0 => y % 100 = 0) /\ (y % 100 = 0 => y % 4 = 0)
  OBVIOUS
<1>5. (y + 1) + 3 = y + 4 /\ (y + 1) + 99 = y + 100 /\ (y + 1) + 399 = y + 400
  OBVIOUS
<1>6. YearStart(y) \in Int
  BY DEF YearStart
<1>7. YearStart(y + 1) = 365 * (y + 1) + ((y + 4) \div 4) - ((y + 100) \div 100) + ((y + 400) \div 400)
  BY <1>5 DEF YearStart
<1> QED
  BY <1>1, <1>2, <1>3, <1>4, <1>6, <1>7 DEF YearStart, get_days_of_year, is_leap_year

\* A year begins after every year before it has ended.
LEMMA YearGrows ==
  ASSUME NEW x \in Nat, NEW y \in Nat, x < y
  PROVE  YearStart(x) + get_days_of_year(x) <= YearStart(y)
<1>1. x + 1 \in Nat /\ x + 1 <= y
  OBVIOUS
<1>2. ASSUME NEW a \in Nat, NEW b \in Nat, a <= b
      PROVE  YearStart(a) <= YearStart(b)
  <2>1. ((a + 3) \div 4) <= ((b + 3) \div 4) /\ ((a + 3) \div 4) \in Int /\ ((b + 3) \div 4) \in Int
    BY <1>2
  <2>2. ((b + 99) \div 100) - ((a + 99) \div 100) <= b - a /\ ((a + 99) \div 100) \in Int /\ ((b + 99) \div 100) \in Int
    BY <1>2
  <2>3. ((a + 399) \div 400) <= ((b + 399) \div 400) /\ ((a + 399) \div 400) \in Int /\ ((b + 399) \div 400) \in Int
    BY <1>2
  <2> QED
    BY <1>2, <2>1, <2>2, <2>3 DEF YearStart
<1>3. YearStart(x + 1) <= YearStart(y)
  BY <1>1, <1>2
<1> QED
  BY <1>3, YearStep

\* The same of the days since 1970.
LEMMA DaysStep ==
  ASSUME NEW y \in Nat, y > 1970
  PROVE  DaysBefore(y) = DaysBefore(y - 1) + get_days_of_year(y - 1)
<1>1. y - 1 \in Nat /\ (y - 1) + 1 = y
  OBVIOUS
<1>2. YearStart(1970) = 719528
  BY DEF YearStart
<1>3. YearStart(y) = YearStart(y - 1) + get_days_of_year(y - 1)
  BY <1>1, YearStep
<1>4. DaysBefore(y - 1) = YearStart(y - 1) - 719528
  BY <1>2 DEF DaysBefore
<1> QED
  BY <1>1, <1>3, <1>4, YearStep DEF DaysBefore

\* days_of_years is the sum the code's first loop makes.
LEMMA YearsBefore == \A y \in Nat : days_of_years[y] = DaysBefore(y)
<1> DEFINE P(f) == f = [y \in Nat |-> IF y <= 1970 THEN 0 ELSE f[y - 1] + get_days_of_year(y - 1)]
           g == [y \in Nat |-> DaysBefore(y)]
<1>1. P(g)
  <2>1. ASSUME NEW y \in Nat PROVE g[y] = IF y <= 1970 THEN 0 ELSE g[y - 1] + get_days_of_year(y - 1)
    <3>1. CASE y <= 1970
      BY <3>1 DEF DaysBefore
    <3>2. CASE y > 1970
      <4>1. y - 1 \in Nat
        BY <3>2
      <4>2. g[y] = DaysBefore(y) /\ g[y - 1] = DaysBefore(y - 1)
        BY <4>1
      <4> QED
        BY <3>2, <4>2, DaysStep
    <3> QED
      BY <3>1, <3>2
  <2>2. [y \in Nat |-> IF y <= 1970 THEN 0 ELSE g[y - 1] + get_days_of_year(y - 1)] = [y \in Nat |-> DaysBefore(y)]
    <3>1. \A y \in Nat : DaysBefore(y) = IF y <= 1970 THEN 0 ELSE g[y - 1] + get_days_of_year(y - 1)
      BY <2>1
    <3> HIDE DEF g
    <3> QED
      BY <3>1
  <2> QED
    BY <2>2
<1>2. days_of_years = CHOOSE f : P(f)
  BY DEF days_of_years
<1>3. P(days_of_years)
  <2> HIDE DEF P
  <2> QED
    BY <1>1, <1>2, Zenon
<1>4. days_of_years = [y \in Nat |-> IF y <= 1970 THEN 0 ELSE days_of_years[y - 1] + get_days_of_year(y - 1)]
  BY <1>3
<1> DEFINE S == {y \in Nat : days_of_years[y] # DaysBefore(y)}
<1>5. SUFFICES ASSUME S # {} PROVE FALSE
  OBVIOUS
<1>6. PICK y \in S : \A z \in S : y <= z
  BY <1>5, Least
<1>7. CASE y <= 1970
  BY <1>4, <1>6, <1>7 DEF DaysBefore
<1>8. CASE y > 1970
  <2>1. y - 1 \in Nat /\ y \in Nat /\ ~(y <= 1970)
    BY <1>8
  <2>2. y - 1 \notin S
    BY <1>6, <2>1
  <2>3. days_of_years[y - 1] = DaysBefore(y - 1)
    BY <2>1, <2>2
  <2>4. days_of_years[y] = days_of_years[y - 1] + get_days_of_year(y - 1)
    BY <1>4, <2>1
  <2> QED
    BY <1>6, <1>8, <2>1, <2>3, <2>4, DaysStep
<1> QED
  BY <1>6, <1>7, <1>8

\* Days from the start of year y to the start of month m, 13 for its end.
FirstDays == <<0, 31, 59, 90, 120, 151, 181, 212, 243, 273, 304, 334, 365>>
MonthBefore(y, m) == FirstDays[m] + (IF m > 2 /\ is_leap_year(y) THEN 1 ELSE 0)

\* The next month starts when the days of this one have passed.
LEMMA MonthStep ==
  ASSUME NEW y \in Nat, NEW m \in 1 .. 12
  PROVE  /\ MonthBefore(y, m + 1) = MonthBefore(y, m) + get_days_of_month(y, m)
         /\ get_days_of_month(y, m) \in 28 .. 31
         /\ MonthBefore(y, m) \in 0 .. 335 /\ MonthBefore(y, 1) = 0
<1>1. /\ m \in {1, 2, 3, 4, 5, 6, 7, 8, 9, 10, 11, 12}
      /\ m + 1 \in {2, 3, 4, 5, 6, 7, 8, 9, 10, 11, 12, 13}
  OBVIOUS
<1>2. /\ FirstDays[m + 1] = FirstDays[m] + month_days[m]
      /\ month_days[m] \in 28 .. 31 /\ FirstDays[m] \in 0 .. 334 /\ FirstDays[1] = 0
      /\ m = 2 => month_days[m] = 28
  BY <1>1 DEF FirstDays, month_days
<1>3. (m + 1 > 2 <=> m > 2 \/ m = 2) /\ (m > 2 => m # 2)
  OBVIOUS
<1> QED
  BY SMTT(30), <1>2, <1>3 DEF MonthBefore, get_days_of_month

\* days_of_months is the sum the code's second loop makes.
LEMMA MonthsBefore ==
  ASSUME NEW y \in Nat, NEW m \in 1 .. 12
  PROVE  days_of_months(y, m) = MonthBefore(y, m)
<1> DEFINE P(f) == f = [k \in 1 .. 12 |-> IF k = 1 THEN 0 ELSE f[k - 1] + get_days_of_month(y, k - 1)]
           g == [k \in 1 .. 12 |-> MonthBefore(y, k)]
           before == CHOOSE f : P(f)
<1>1. ASSUME NEW k \in 1 .. 12
      PROVE  MonthBefore(y, k) = IF k = 1 THEN 0 ELSE MonthBefore(y, k - 1) + get_days_of_month(y, k - 1)
  <2>1. CASE k = 1
    BY <2>1, MonthStep
  <2>2. CASE k # 1
    <3>1. k - 1 \in 1 .. 12 /\ (k - 1) + 1 = k
      BY <2>2
    <3> QED
      BY <2>2, <3>1, MonthStep
  <2> QED
    BY <2>1, <2>2
<1>2. P(g)
  <2>1. \A k \in 1 .. 12 : k # 1 => k - 1 \in 1 .. 12
    OBVIOUS
  <2>2. \A k \in 1 .. 12 :
          MonthBefore(y, k) = IF k = 1 THEN 0 ELSE g[k - 1] + get_days_of_month(y, k - 1)
    BY <1>1, <2>1
  <2>3. [k \in 1 .. 12 |-> IF k = 1 THEN 0 ELSE g[k - 1] + get_days_of_month(y, k - 1)]
          = [k \in 1 .. 12 |-> MonthBefore(y, k)]
    <3> HIDE DEF g
    <3> QED
      BY <2>2
  <2> QED
    BY <2>3
<1>3. P(before)
  <2> HIDE DEF P
  <2> QED
    BY <1>2, Zenon
<1>4. days_of_months(y, m) = before[m]
  BY DEF days_of_months
<1> HIDE DEF before
<1>5. before = [k \in 1 .. 12 |-> IF k = 1 THEN 0 ELSE before[k - 1] + get_days_of_month(y, k - 1)]
  BY <1>3
<1> DEFINE S == {k \in 1 .. 12 : before[k] # MonthBefore(y, k)}
<1>6. SUFFICES ASSUME S # {} PROVE FALSE
  BY <1>4
<1>7. PICK k \in S : \A l \in S : k <= l
  <2>1. S \subseteq Nat
    OBVIOUS
  <2> QED
    BY <1>6, <2>1, Least
<1>8. CASE k = 1
  BY <1>1, <1>5, <1>7, <1>8
<1>9. CASE k # 1
  <2>1. k - 1 \in 1 .. 12 /\ k - 1 < k /\ k \in 1 .. 12
    BY <1>9
  <2>2. before[k - 1] = MonthBefore(y, k - 1)
    BY <1>7, <2>1
  <2> QED
    BY <1>1, <1>5, <1>7, <1>9, <2>1, <2>2
<1> QED
  BY <1>8, <1>9

-----------------------------------------------------------------------------
(* The year a day falls in. *)
\* A year from y on and a day in it, which is day n from the start of year y.
YearDays(y, n) ==
  {e \in [y : Nat, days : Nat] : /\ e.y >= y /\ e.days < get_days_of_year(e.y)
                                 /\ YearStart(e.y) + e.days = YearStart(y) + n}
YearDay(y, n) == CHOOSE e : e \in YearDays(y, n)

\* It is a day of y, or of the years after y with the days of y taken off.
LEMMA YearDayStep ==
  ASSUME NEW y \in Nat, NEW n \in Nat
  PROVE  YearDay(y, n) = IF n >= get_days_of_year(y) THEN YearDay(y + 1, n - get_days_of_year(y))
                         ELSE [y |-> y, days |-> n]
<1>1. /\ YearStart(y) \in Int /\ get_days_of_year(y) \in {365, 366}
      /\ YearStart(y + 1) = YearStart(y) + get_days_of_year(y)
  BY YearStep
<1>2. ASSUME ~(n >= get_days_of_year(y)) PROVE YearDay(y, n) = [y |-> y, days |-> n]
  <2>1. [y |-> y, days |-> n] \in YearDays(y, n)
    BY <1>1, <1>2 DEF YearDays
  <2>2. ASSUME NEW e \in YearDays(y, n) PROVE e = [y |-> y, days |-> n]
    <3>1. /\ e \in [y : Nat, days : Nat] /\ e.y >= y
          /\ YearStart(e.y) + e.days = YearStart(y) + n
      BY DEF YearDays
    <3>2. ASSUME e.y > y PROVE FALSE
      <4>1. YearStart(y) + get_days_of_year(y) <= YearStart(e.y) /\ YearStart(e.y) \in Int
        BY <3>1, <3>2, YearGrows, YearStep
      <4> QED
        BY <1>1, <1>2, <3>1, <4>1
    <3>3. e.y = y
      BY <3>1, <3>2
    <3>4. e.days = n
      BY <1>1, <3>1, <3>3
    <3> QED
      BY <3>1, <3>3, <3>4
  <2>3. YearDay(y, n) \in YearDays(y, n)
    BY <2>1, Zenon DEF YearDay
  <2> QED
    BY <2>2, <2>3
<1>3. ASSUME n >= get_days_of_year(y)
      PROVE  YearDay(y, n) = YearDay(y + 1, n - get_days_of_year(y))
  <2>1. ASSUME NEW e \in [y : Nat, days : Nat]
        PROVE  e \in YearDays(y, n) <=> e \in YearDays(y + 1, n - get_days_of_year(y))
    <3>1. YearStart(e.y) \in Int /\ get_days_of_year(e.y) \in {365, 366}
      BY YearStep
    <3>2. CASE e.y = y
      BY <1>1, <1>3, <3>1, <3>2 DEF YearDays
    <3>3. CASE e.y # y
      BY <1>1, <1>3, <3>1, <3>3 DEF YearDays
    <3> QED
      BY <3>2, <3>3
  <2>2. YearDays(y, n) = YearDays(y + 1, n - get_days_of_year(y))
    BY <2>1 DEF YearDays
  <2> QED
    BY <2>2 DEF YearDay
<1> QED
  BY <1>2, <1>3

\* The loop of timestamp_to_datetime takes off one year at a time.
LEMMA YearLoop ==
  ASSUME NEW y \in Nat, NEW n \in Nat
  PROVE  year_of[[y |-> y, days |-> n]] =
           IF n >= get_days_of_year(y) THEN year_of[[y |-> y + 1, days |-> n - get_days_of_year(y)]]
           ELSE [y |-> y, days |-> n]
<1> DEFINE P(f) == f = [e \in [y : Nat, days : Nat] |->
                          IF e.days >= get_days_of_year(e.y)
                          THEN f[[y |-> e.y + 1, days |-> e.days - get_days_of_year(e.y)]]
                          ELSE e]
           g == [e \in [y : Nat, days : Nat] |-> YearDay(e.y, e.days)]
<1>1. ASSUME NEW e \in [y : Nat, days : Nat]
      PROVE  YearDay(e.y, e.days) =
               IF e.days >= get_days_of_year(e.y)
               THEN g[[y |-> e.y + 1, days |-> e.days - get_days_of_year(e.y)]] ELSE e
  <2>1. e.y \in Nat /\ e.days \in Nat /\ e = [y |-> e.y, days |-> e.days]
    OBVIOUS
  <2>2. e.days >= get_days_of_year(e.y) =>
          g[[y |-> e.y + 1, days |-> e.days - get_days_of_year(e.y)]]
            = YearDay(e.y + 1, e.days - get_days_of_year(e.y))
    BY <2>1, YearStep
  <2> HIDE DEF g
  <2> QED
    BY <2>1, <2>2, YearDayStep
<1>2. P(g)
  <2>1. [e \in [y : Nat, days : Nat] |->
            IF e.days >= get_days_of_year(e.y)
            THEN g[[y |-> e.y + 1, days |-> e.days - get_days_of_year(e.y)]] ELSE e]
          = [e \in [y : Nat, days : Nat] |-> YearDay(e.y, e.days)]
    <3> HIDE DEF g
    <3> QED
      BY <1>1
  <2> QED
    BY <2>1
<1>3. P(year_of)
  <2>1. year_of = CHOOSE f : P(f)
    BY DEF year_of, YearRest
  <2> HIDE DEF P
  <2> QED
    BY <1>2, <2>1, Zenon
<1>4. [y |-> y, days |-> n] \in [y : Nat, days : Nat]
  OBVIOUS
<1> QED
  BY <1>3, <1>4

\* A day of the year in hand is found there.
LEMMA YearStays ==
  ASSUME NEW y \in Nat, NEW n \in Nat, n < get_days_of_year(y)
  PROVE  year_of[[y |-> y, days |-> n]] = [y |-> y, days |-> n]
<1>1. ~(n >= get_days_of_year(y))
  BY YearStep
<1>2. year_of[[y |-> y, days |-> n]] =
        IF n >= get_days_of_year(y) THEN year_of[[y |-> y + 1, days |-> n - get_days_of_year(y)]]
        ELSE [y |-> y, days |-> n]
  BY YearLoop, Zenon
<1> QED
  BY <1>1, <1>2

\* The loop comes from the start of year b to day n of year y.
LEMMA YearReached ==
  ASSUME NEW b \in Nat, NEW y \in Nat, NEW n \in Nat, b <= y, n < get_days_of_year(y)
  PROVE  year_of[[y |-> b, days |-> YearStart(y) - YearStart(b) + n]] = [y |-> y, days |-> n]
<1> DEFINE Start(d) == [y |-> y - d, days |-> YearStart(y) - YearStart(y - d) + n]
           S == {d \in 0 .. y - b : year_of[Start(d)] # [y |-> y, days |-> n]}
<1> HIDE DEF Start
<1>8. S # {} => \E d \in S : \A e \in S : d <= e
  <2>1. S \subseteq Nat
    OBVIOUS
  <2> HIDE DEF S
  <2> QED
    BY <2>1, Least
<1>1. ASSUME NEW d \in 0 .. y - b
      PROVE  /\ y - d \in Nat /\ y - d >= b
             /\ YearStart(y) - YearStart(y - d) + n \in Nat
  <2>1. y - d \in Nat /\ y - d >= b /\ YearStart(y) \in Int /\ YearStart(y - d) \in Int
    BY YearStep
  <2>2. CASE d = 0
    BY <2>1, <2>2
  <2>3. CASE d # 0
    <3>1. y - d < y
      BY <2>3
    <3>2. YearStart(y - d) + get_days_of_year(y - d) <= YearStart(y)
      BY <2>1, <3>1, YearGrows
    <3> QED
      BY <2>1, <3>2, YearStep
  <2> QED
    BY <2>2, <2>3
<1>2. S = {}
  <2>1. SUFFICES ASSUME S # {} PROVE FALSE
    OBVIOUS
  <2>2. PICK d \in S : \A e \in S : d <= e
    <3> HIDE DEF S
    <3> QED
      BY <1>8, <2>1
  <2>3. d \in 0 .. y - b /\ year_of[Start(d)] # [y |-> y, days |-> n]
    OBVIOUS
  <2>4. PICK x \in Nat, k \in Nat :
          /\ x = y - d /\ x >= b /\ k = YearStart(y) - YearStart(x) + n
    BY <1>1, <2>3
  <2>5. Start(d) = [y |-> x, days |-> k]
    BY <2>4 DEF Start
  <2>6. /\ YearStart(x) \in Int /\ YearStart(y) \in Int
        /\ get_days_of_year(x) \in {365, 366} /\ YearStart(x + 1) = YearStart(x) + get_days_of_year(x)
    BY YearStep
  <2>7. CASE d = 0
    <3>1. x = y /\ k = n
      BY <2>4, <2>6, <2>7
    <3>2. year_of[[y |-> x, days |-> k]] = [y |-> y, days |-> n]
      <4>1. year_of[[y |-> y, days |-> n]] = [y |-> y, days |-> n]
        BY YearStays
      <4> QED
        BY <3>1, <4>1
    <3> QED
      BY <2>3, <2>5, <3>2
  <2>8. CASE d # 0
    <3>1. d - 1 \in 0 .. y - b /\ y - (d - 1) = x + 1 /\ x < y /\ ~(d <= d - 1)
      BY <2>3, <2>4, <2>8
    <3>2. d - 1 \notin S
      BY <2>2, <3>1
    <3>3. year_of[Start(d - 1)] = [y |-> y, days |-> n]
      BY <3>1, <3>2
    <3>4. k >= get_days_of_year(x)
      <4>1. YearStart(x) + get_days_of_year(x) <= YearStart(y)
        BY <3>1, YearGrows
      <4> QED
        BY <2>4, <2>6, <4>1
    <3>5. Start(d - 1) = [y |-> x + 1, days |-> k - get_days_of_year(x)]
      <4>1. YearStart(y) - YearStart(x + 1) + n = k - get_days_of_year(x)
        BY <2>4, <2>6
      <4> QED
        BY <3>1, <4>1 DEF Start
    <3> HIDE DEF Start, S
    <3> QED
      BY <2>3, <2>5, <3>3, <3>4, <3>5, YearLoop
  <2> QED
    BY <2>7, <2>8
<1>3. y - b \in 0 .. y - b /\ y - (y - b) = b
  OBVIOUS
<1>4. year_of[Start(y - b)] = [y |-> y, days |-> n]
  <2>1. y - b \notin S
    BY <1>2
  <2> QED
    BY <1>3, <2>1
<1>5. Start(y - b) = [y |-> b, days |-> YearStart(y) - YearStart(b) + n]
  BY <1>3 DEF Start
<1> QED
  BY <1>4, <1>5

\* Day n of year y is found from its days since 1970.
LEMMA YearFound ==
  ASSUME NEW y \in Nat, y >= 1970, NEW n \in Nat, n < get_days_of_year(y)
  PROVE  year_of[[y |-> 1970, days |-> DaysBefore(y) + n]] = [y |-> y, days |-> n]
<1>1. YearStart(1970) = 719528
  BY SMT DEF YearStart
<1>2. YearStart(y) - YearStart(1970) + n = DaysBefore(y) + n
  BY <1>1, SMT DEF DaysBefore
<1>3. year_of[[y |-> 1970, days |-> YearStart(y) - YearStart(1970) + n]] = [y |-> y, days |-> n]
  BY YearReached, SMT
<1> QED
  BY <1>2, <1>3, SMT

-----------------------------------------------------------------------------
(* The month a day falls in. *)
\* A month begins after every month before it has ended.
LEMMA MonthGrows ==
  ASSUME NEW y \in Nat, NEW a \in 1 .. 12, NEW b \in 1 .. 13, a < b
  PROVE  /\ MonthBefore(y, a) + get_days_of_month(y, a) <= MonthBefore(y, b)
         /\ MonthBefore(y, b) \in 0 .. 366
<1>1. /\ a + 1 \in {2, 3, 4, 5, 6, 7, 8, 9, 10, 11, 12, 13} /\ a + 1 <= b
      /\ b \in {1, 2, 3, 4, 5, 6, 7, 8, 9, 10, 11, 12, 13}
  OBVIOUS
<1>2. FirstDays[a + 1] <= FirstDays[b] /\ FirstDays[b] \in 0 .. 365 /\ FirstDays[a + 1] \in 0 .. 365
  BY <1>1 DEF FirstDays
<1>3. MonthBefore(y, a + 1) <= MonthBefore(y, b)
  <2>1. (a + 1 > 2 => b > 2) /\ (b > 2 \/ ~(b > 2))
    BY <1>1
  <2>2. PICK p \in 0 .. 365, q \in 0 .. 365 :
          p = FirstDays[a + 1] /\ q = FirstDays[b] /\ p <= q
    BY <1>2
  <2>3. CASE a + 1 > 2 /\ is_leap_year(y)
    <3>1. MonthBefore(y, a + 1) = p + 1 /\ MonthBefore(y, b) = q + 1
      BY <2>1, <2>2, <2>3 DEF MonthBefore
    <3> QED
      BY <2>2, <3>1
  <2>4. CASE ~(a + 1 > 2 /\ is_leap_year(y))
    <3>1. MonthBefore(y, a + 1) = p + 0 /\ MonthBefore(y, b) \in {q + 0, q + 1}
      BY <2>2, <2>4 DEF MonthBefore
    <3> QED
      BY <2>2, <3>1
  <2> QED
    BY <2>3, <2>4
<1>4. MonthBefore(y, b) \in 0 .. 366
  BY <1>2 DEF MonthBefore
<1> QED
  BY <1>3, <1>4, MonthStep

\* A month of year y from m on and a day in it, which is day n from the start of m.
MonthDays(y, m, n) ==
  {e \in [m : 1 .. 13, days : Nat] :
     /\ e.m >= m /\ (e.m <= 12 => e.days < get_days_of_month(y, e.m))
     /\ MonthBefore(y, e.m) + e.days = MonthBefore(y, m) + n}
MonthDay(y, m, n) == CHOOSE e : e \in MonthDays(y, m, n)

\* It is a day of m, or of the months after m with the days of m taken off.
LEMMA MonthDayStep ==
  ASSUME NEW y \in Nat, NEW m \in 1 .. 13, NEW n \in Nat
  PROVE  MonthDay(y, m, n) =
           IF m <= 12 /\ n >= get_days_of_month(y, m)
           THEN MonthDay(y, m + 1, n - get_days_of_month(y, m)) ELSE [m |-> m, days |-> n]
<1>1. MonthBefore(y, m) \in 0 .. 366
  <2>1. CASE m = 1
    <3>1. 1 \in 1 .. 12 /\ MonthBefore(y, 1) = 0
      BY MonthStep
    <3> QED
      BY <2>1, <3>1
  <2>2. CASE m # 1
    <3>1. 1 < m /\ 1 \in 1 .. 12
      BY <2>2
    <3> QED
      BY <3>1, MonthGrows
  <2> QED
    BY <2>1, <2>2
<1>2. ASSUME ~(m <= 12 /\ n >= get_days_of_month(y, m))
      PROVE  MonthDay(y, m, n) = [m |-> m, days |-> n]
  <2>1. [m |-> m, days |-> n] \in MonthDays(y, m, n)
    <3>1. m <= 12 => get_days_of_month(y, m) \in 28 .. 31
      BY MonthStep
    <3> QED
      BY <1>2, <3>1 DEF MonthDays
  <2>2. ASSUME NEW e \in MonthDays(y, m, n) PROVE e = [m |-> m, days |-> n]
    <3>1. /\ e \in [m : 1 .. 13, days : Nat] /\ e.m >= m
          /\ MonthBefore(y, e.m) + e.days = MonthBefore(y, m) + n
      BY DEF MonthDays
    <3>2. ASSUME e.m > m PROVE FALSE
      <4>1. m \in 1 .. 12 /\ e.m \in 1 .. 13 /\ m < e.m
        BY <3>1, <3>2
      <4>2. /\ MonthBefore(y, m) + get_days_of_month(y, m) <= MonthBefore(y, e.m)
            /\ MonthBefore(y, e.m) \in 0 .. 366 /\ get_days_of_month(y, m) \in 28 .. 31
        <5>1. PICK b \in 1 .. 13 : b = e.m
          BY <4>1
        <5>2. m < b
          BY <4>1, <5>1
        <5>3. MonthBefore(y, m) + get_days_of_month(y, m) <= MonthBefore(y, b) /\ MonthBefore(y, b) \in 0 .. 366
          BY <4>1, <5>2, MonthGrows
        <5>4. get_days_of_month(y, m) \in 28 .. 31
          BY <4>1, MonthStep
        <5> QED
          BY <5>1, <5>3, <5>4
      <4>3. PICK p \in 0 .. 366, q \in 0 .. 366, g \in 28 .. 31, d \in Nat :
              /\ p = MonthBefore(y, m) /\ q = MonthBefore(y, e.m)
              /\ g = get_days_of_month(y, m) /\ d = e.days
        BY <1>1, <3>1, <4>2
      <4>4. n < g
        BY <1>2, <4>1, <4>3
      <4> QED
        BY <3>1, <4>2, <4>3, <4>4
    <3>3. e.m = m
      BY <3>1, <3>2
    <3>4. e.days = n
      BY <1>1, <3>1, <3>3
    <3> QED
      BY <3>1, <3>3, <3>4
  <2>3. MonthDay(y, m, n) \in MonthDays(y, m, n)
    BY <2>1, Zenon DEF MonthDay
  <2> QED
    BY <2>2, <2>3
<1>3. ASSUME m <= 12, n >= get_days_of_month(y, m)
      PROVE  MonthDay(y, m, n) = MonthDay(y, m + 1, n - get_days_of_month(y, m))
  <2>0. /\ m \in 1 .. 12 /\ get_days_of_month(y, m) \in 28 .. 31
        /\ MonthBefore(y, m + 1) = MonthBefore(y, m) + get_days_of_month(y, m)
    BY <1>3, MonthStep
  <2>1. ASSUME NEW e \in [m : 1 .. 13, days : Nat]
        PROVE  e \in MonthDays(y, m, n) <=> e \in MonthDays(y, m + 1, n - get_days_of_month(y, m))
    <3>2. CASE e.m = m
      BY <1>1, <1>3, <2>0, <3>2 DEF MonthDays
    <3>3. CASE e.m # m
      <4>1. e.m >= m <=> e.m >= m + 1
        BY <3>3
      <4> QED
        BY <1>1, <1>3, <2>0, <4>1 DEF MonthDays
    <3> QED
      BY <3>2, <3>3
  <2>2. MonthDays(y, m, n) = MonthDays(y, m + 1, n - get_days_of_month(y, m))
    BY <2>1 DEF MonthDays
  <2> QED
    BY <2>2 DEF MonthDay
<1> QED
  BY <1>2, <1>3

\* Day n of month m of year y is found from its days since the start of y.
LEMMA MonthFound ==
  ASSUME NEW y \in Nat, NEW m \in 1 .. 12, NEW n \in Nat, n < get_days_of_month(y, m)
  PROVE  month_of(y, MonthBefore(y, m) + n) = [m |-> m, days |-> n]
<1>0. \A k \in 1 .. 12 :
        /\ MonthBefore(y, k + 1) = MonthBefore(y, k) + get_days_of_month(y, k)
        /\ get_days_of_month(y, k) \in 28 .. 31
        /\ MonthBefore(y, k) \in 0 .. 335 /\ MonthBefore(y, 1) = 0
  BY MonthStep
<1> DEFINE P(f) == f = [e \in [m : 1 .. 13, days : Nat] |->
                          IF e.m <= 12 /\ e.days >= get_days_of_month(y, e.m)
                          THEN f[[m |-> e.m + 1, days |-> e.days - get_days_of_month(y, e.m)]]
                          ELSE e]
           g == [e \in [m : 1 .. 13, days : Nat] |-> MonthDay(y, e.m, e.days)]
           from == CHOOSE f : P(f)
<1>1. ASSUME NEW e \in [m : 1 .. 13, days : Nat]
      PROVE  MonthDay(y, e.m, e.days) =
               IF e.m <= 12 /\ e.days >= get_days_of_month(y, e.m)
               THEN g[[m |-> e.m + 1, days |-> e.days - get_days_of_month(y, e.m)]] ELSE e
  <2>1. e.m \in 1 .. 13 /\ e.days \in Nat /\ e = [m |-> e.m, days |-> e.days]
    OBVIOUS
  <2>2. e.m <= 12 /\ e.days >= get_days_of_month(y, e.m) =>
          g[[m |-> e.m + 1, days |-> e.days - get_days_of_month(y, e.m)]]
            = MonthDay(y, e.m + 1, e.days - get_days_of_month(y, e.m))
    <3>1. SUFFICES ASSUME e.m <= 12, e.days >= get_days_of_month(y, e.m)
                   PROVE  e.m + 1 \in 1 .. 13 /\ e.days - get_days_of_month(y, e.m) \in Nat
      OBVIOUS
    <3>2. e.m \in 1 .. 12
      BY <2>1, <3>1
    <3> QED
      BY <1>0, <2>1, <3>1, <3>2
  <2> HIDE DEF g
  <2> QED
    BY <2>1, <2>2, MonthDayStep
<1>2. P(g)
  <2>1. [e \in [m : 1 .. 13, days : Nat] |->
            IF e.m <= 12 /\ e.days >= get_days_of_month(y, e.m)
            THEN g[[m |-> e.m + 1, days |-> e.days - get_days_of_month(y, e.m)]] ELSE e]
          = [e \in [m : 1 .. 13, days : Nat] |-> MonthDay(y, e.m, e.days)]
    <3> HIDE DEF g
    <3> QED
      BY <1>1
  <2> QED
    BY <2>1
<1>3. P(from)
  <2> HIDE DEF P
  <2> QED
    BY <1>2, Zenon
<1>4. month_of(y, MonthBefore(y, m) + n) = from[[m |-> 1, days |-> MonthBefore(y, m) + n]]
  BY DEF month_of
<1> HIDE DEF from, g
<1>5. ASSUME NEW b \in 1 .. 12, NEW k \in Nat
      PROVE  from[[m |-> b, days |-> k]] =
               IF k >= get_days_of_month(y, b)
               THEN from[[m |-> b + 1, days |-> k - get_days_of_month(y, b)]]
               ELSE [m |-> b, days |-> k]
  <2>1. [m |-> b, days |-> k] \in [m : 1 .. 13, days : Nat] /\ b <= 12
    OBVIOUS
  <2> QED
    BY <1>3, <2>1
<1> HIDE DEF P
<1> DEFINE Start(d) == [m |-> m - d, days |-> MonthBefore(y, m) - MonthBefore(y, m - d) + n]
           S == {d \in 0 .. m - 1 : from[Start(d)] # [m |-> m, days |-> n]}
<1> HIDE DEF Start
<1>6. S # {} => \E d \in S : \A e \in S : d <= e
  <2>1. S \subseteq Nat
    OBVIOUS
  <2> HIDE DEF S
  <2> QED
    BY <2>1, Least
<1>7. S = {}
  <2>1. SUFFICES ASSUME S # {} PROVE FALSE
    OBVIOUS
  <2>2. PICK d \in S : \A e \in S : d <= e
    <3> HIDE DEF S
    <3> QED
      BY <1>6, <2>1
  <2>3. d \in 0 .. m - 1 /\ from[Start(d)] # [m |-> m, days |-> n]
    OBVIOUS
  <2>4. PICK b \in 1 .. 12 : b = m - d /\ b <= m
    <3>1. m - d \in 1 .. 12 /\ m - d <= m
      BY <2>3
    <3> QED
      BY <3>1
  <2>7. PICK q \in 0 .. 335, p \in 0 .. 335, g1 \in 28 .. 31 :
          q = MonthBefore(y, m) /\ p = MonthBefore(y, b) /\ g1 = get_days_of_month(y, b)
    BY <1>0
  <2>8. MonthBefore(y, b + 1) = p + g1
    BY <1>0, <2>7
  <2>5. CASE d = 0
    <3>1. b = m /\ q = p /\ q - p + n = n
      BY <2>3, <2>4, <2>5, <2>7
    <3>2. Start(d) = [m |-> m, days |-> n]
      BY <2>4, <2>7, <3>1 DEF Start
    <3>3. ~(n >= get_days_of_month(y, m))
      BY <1>0
    <3> QED
      BY <1>5, <2>3, <3>2, <3>3
  <2>6. CASE d # 0
    <3>1. d - 1 \in 0 .. m - 1 /\ m - (d - 1) = b + 1 /\ b < m /\ ~(d <= d - 1)
      BY <2>3, <2>4, <2>6
    <3>2. d - 1 \notin S
      BY <2>2, <3>1
    <3>3. from[Start(d - 1)] = [m |-> m, days |-> n]
      BY <3>1, <3>2
    <3>4. p + g1 <= q
      <4>1. MonthBefore(y, b) + get_days_of_month(y, b) <= MonthBefore(y, m)
        <5>1. m \in 1 .. 13 /\ b \in 1 .. 12 /\ b < m
          BY <3>1
        <5> QED
          BY <5>1, MonthGrows
      <4> QED
        BY <2>7, <4>1
    <3>5. q - p + n \in Nat /\ q - p + n >= g1
      <4>1. q \in Int /\ p \in Int /\ g1 \in Nat /\ n \in Nat
        OBVIOUS
      <4> QED
        BY <3>4, <4>1
    <3>6. Start(d) = [m |-> b, days |-> q - p + n]
      BY <2>4, <2>7 DEF Start
    <3>7. Start(d - 1) = [m |-> b + 1, days |-> (q - p + n) - g1]
      <4>1. q - (p + g1) + n = (q - p + n) - g1
        <5>1. q \in Int /\ p \in Int /\ g1 \in Int /\ n \in Int
          OBVIOUS
        <5> QED
          BY <5>1
      <4> QED
        BY <2>8, <3>1, <4>1, <2>7 DEF Start
    <3>8. from[[m |-> b, days |-> q - p + n]] = from[[m |-> b + 1, days |-> (q - p + n) - g1]]
      <4>1. PICK k \in Nat : k = q - p + n
        BY <3>5
      <4> QED
        BY <1>5, <2>7, <3>5, <4>1
    <3> HIDE DEF S
    <3> QED
      BY <2>3, <3>3, <3>6, <3>7, <3>8
  <2> QED
    BY <2>5, <2>6
<1>8. from[Start(m - 1)] = [m |-> m, days |-> n]
  <2>1. m - 1 \in 0 .. m - 1
    OBVIOUS
  <2>2. m - 1 \notin S
    BY <1>7
  <2> QED
    BY <2>1, <2>2
<1>9. Start(m - 1) = [m |-> 1, days |-> MonthBefore(y, m) + n]
  <2>1. m - (m - 1) = 1 /\ MonthBefore(y, 1) = 0 /\ MonthBefore(y, m) \in 0 .. 335
    BY <1>0
  <2>2. MonthBefore(y, m) - 0 + n = MonthBefore(y, m) + n
    BY <2>1
  <2> QED
    BY <2>1, <2>2 DEF Start
<1> QED
  BY <1>4, <1>8, <1>9

-----------------------------------------------------------------------------
(* Two decimal digits, the second of the day, the clock's century. *)
\* Two decimal digits come back from their BCD form.
LEMMA BcdBack ==
  ASSUME NEW d \in 0 .. 99
  PROVE  bcd_to_dec(dec_to_bcd(d)) = d
<1>1. PICK q \in 0 .. 9, r \in 0 .. 9 : q = d \div 10 /\ r = d % 10 /\ d = q * 10 + r
  <2>1. d \div 10 \in 0 .. 9 /\ d % 10 \in 0 .. 9 /\ d = (d \div 10) * 10 + (d % 10)
    OBVIOUS
  <2> QED
    BY <2>1
<1>2. dec_to_bcd(d) = q * 16 + r
  BY <1>1 DEF dec_to_bcd
<1>3. (q * 16 + r) \div 16 = q /\ (q * 16 + r) % 16 = r
  OBVIOUS
<1> QED
  BY <1>1, <1>2, <1>3 DEF bcd_to_dec

\* Quotient and remainder by 60.
LEMMA Sixty ==
  ASSUME NEW h \in Int, NEW m \in Int, 0 <= m, m < 60
  PROVE  (60 * h + m) \div 60 = h /\ (60 * h + m) % 60 = m
OBVIOUS

\* The hour, the minute and the second of a second of the day.
LEMMA SecondsOfDay ==
  ASSUME NEW t \in Int, 0 <= t, t <= 86399
  PROVE  \E h \in Int, m \in Int, s \in Int :
           /\ 0 <= h /\ h <= 23 /\ 0 <= m /\ m <= 59 /\ 0 <= s /\ s <= 59
           /\ h = t \div 3600 /\ m = (t \div 60) % 60 /\ m = (t % 3600) \div 60 /\ s = t % 60
           /\ h * 3600 + m * 60 + s = t
<1>1. PICK h \in Int, r \in Int :
        /\ h = t \div 3600 /\ r = t % 3600 /\ t = 3600 * h + r
        /\ 0 <= h /\ h <= 23 /\ 0 <= r /\ r < 3600
  OBVIOUS
<1>2. PICK m \in Int, s \in Int :
        m = r \div 60 /\ r = 60 * m + s /\ 0 <= m /\ m <= 59 /\ 0 <= s /\ s <= 59
  BY <1>1
<1>3. t = 60 * (60 * h + m) + s
  BY <1>1, <1>2
<1>4. 60 * h + m \in Int
  OBVIOUS
<1>5. t \div 60 = 60 * h + m /\ t % 60 = s
  BY <1>2, <1>3, <1>4, Sixty
<1>6. (t \div 60) % 60 = m
  BY <1>2, <1>5, Sixty
<1>7. h * 3600 + m * 60 + s = t
  BY <1>3
<1> QED
  BY <1>1, <1>2, <1>5, <1>6, <1>7

\* The clock's years are the leap years of its century.
LEMMA LeapYears ==
  ASSUME NEW y \in Int, 0 <= y, y <= 99
  PROVE  is_leap_year(2000 + y) <=> y % 4 = 0
<1>1. (2000 + y) % 4 = y % 4
  BY SMT
<1>2. (2000 + y) % 100 = y
  BY SMT
<1>3. (2000 + y) % 400 = y
  BY SMT
<1> QED
  BY <1>1, <1>2, <1>3, SMT DEF is_leap_year

\* The days before a year of the clock.
LEMMA CenturyDays ==
  ASSUME NEW y \in Int, 0 <= y, y <= 99
  PROVE  /\ DaysBefore(2000 + y) \in Nat
         /\ y = 0 => DaysBefore(2000 + y) = 10957
         /\ y > 0 => DaysBefore(2000 + y) = 10957 + 365 * y + ((y + 3) \div 4)
<1>1. DaysBefore(2000 + y) = YearStart(2000 + y) - 719528
  BY SMT DEF DaysBefore
<1>2. ((2000 + y) + 3) \div 4 = 500 + ((y + 3) \div 4)
  BY SMT
<1>3. ((2000 + y) + 99) \div 100 = IF y = 0 THEN 20 ELSE 21
  BY SMT
<1>4. ((2000 + y) + 399) \div 400 = IF y = 0 THEN 5 ELSE 6
  BY SMT
<1>5. PICK q \in Int : q = (y + 3) \div 4 /\ 0 <= q /\ (y = 0 => q = 0)
  BY SMT
<1>6. YearStart(2000 + y) = 365 * (2000 + y) + (500 + q) - (IF y = 0 THEN 20 ELSE 21)
                             + (IF y = 0 THEN 5 ELSE 6)
  BY <1>2, <1>3, <1>4, <1>5, SMT DEF YearStart
<1>7. DaysBefore(2000 + y) = IF y = 0 THEN 10957 ELSE 10957 + 365 * y + q
  BY <1>1, <1>5, <1>6, SMT
<1> QED
  BY <1>5, <1>7, SMT

-----------------------------------------------------------------------------
(* The calendar of the clock. *)
Year == 2000 + date.year

\* The clock shows a day of the calendar, and the days and the weekday are that day's.
CalendarInv ==
  /\ date \in [year : 0 .. 99, month : 1 .. 12, day : 1 .. 31] /\ date.day <= LastDay
  /\ elapsed = DaysBefore(Year) + MonthBefore(Year, date.month) + date.day - 1
  /\ week = (elapsed + 4) % 7

\* The calendar's last day of a month is the conversions'.
LEMMA LastDays ==
  date \in [year : 0 .. 99, month : 1 .. 12, day : 1 .. 31] =>
    LastDay = get_days_of_month(Year, date.month)
<1> SUFFICES ASSUME date \in [year : 0 .. 99, month : 1 .. 12, day : 1 .. 31]
             PROVE  LastDay = get_days_of_month(Year, date.month)
  OBVIOUS
<1>1. date.year \in Int /\ 0 <= date.year /\ date.year <= 99
  OBVIOUS
<1>2. is_leap_year(Year) <=> date.year % 4 = 0
  BY <1>1, LeapYears DEF Year
<1>3. date.month \in {1, 2, 3, 4, 5, 6, 7, 8, 9, 10, 11, 12}
  OBVIOUS
<1> QED
  BY <1>2, <1>3 DEF LastDay, LongMonths, get_days_of_month, month_days

\* The first day of the century is day 10957, a Saturday.
LEMMA CalendarStarts == CalendarInit => CalendarInv
<1>1. SUFFICES ASSUME CalendarInit PROVE CalendarInv
  OBVIOUS
<1>2. /\ date = [year |-> 0, month |-> 1, day |-> 1] /\ elapsed = 10957 /\ week = 6
  BY <1>1, SMT DEF CalendarInit
<1>3. Year = 2000 + 0 /\ DaysBefore(Year) = 10957
  BY <1>2, CenturyDays, SMT DEF Year
<1>4. MonthBefore(Year, date.month) = 0
  BY <1>2, <1>3, MonthStep, SMT
<1>5. LastDay = 31
  BY <1>2, SMT DEF LastDay, LongMonths
<1> QED
  BY <1>2, <1>3, <1>4, <1>5, SMT DEF CalendarInv

\* The last day of a year ends it.
LEMMA YearEnds ==
  ASSUME NEW y \in Nat
  PROVE  MonthBefore(y, 12) + 31 = get_days_of_year(y)
BY DEF MonthBefore, FirstDays, get_days_of_year

\* Each step of the calendar, the century's end included, keeps the count.
LEMMA CalendarGoesOn == CalendarInv /\ CalendarNext => CalendarInv'
<1> SUFFICES ASSUME CalendarInv, CalendarNext PROVE CalendarInv'
  OBVIOUS
<1>1. /\ date \in [year : 0 .. 99, month : 1 .. 12, day : 1 .. 31] /\ date.day <= LastDay
      /\ elapsed = DaysBefore(Year) + MonthBefore(Year, date.month) + date.day - 1
      /\ week = (elapsed + 4) % 7
  BY DEF CalendarInv
<1> DEFINE y == date.year
           m == date.month
           d == date.day
<1>5. /\ y \in Int /\ 0 <= y /\ y <= 99 /\ m \in 1 .. 12
      /\ d \in Int /\ 1 <= d /\ d <= 31 /\ date = [year |-> y, month |-> m, day |-> d]
  BY <1>1
<1>2. Year \in Nat /\ DaysBefore(Year) \in Nat
  <2>1. Year = 2000 + y
    BY <1>5 DEF Year
  <2> QED
    BY <1>5, <2>1, CenturyDays, SMT
<1>9. /\ MonthBefore(Year, m + 1) = MonthBefore(Year, m) + get_days_of_month(Year, m)
      /\ get_days_of_month(Year, m) \in 28 .. 31 /\ MonthBefore(Year, m) \in 0 .. 335
  <2>1. PICK Y \in Nat, k \in 1 .. 12 : Y = Year /\ k = m
    BY <1>2, <1>5
  <2> HIDE DEF m
  <2> QED
    BY <2>1, MonthStep
<1>3. LastDay = get_days_of_month(Year, m)
  BY <1>1, <1>5, LastDays
<1>4. MonthBefore(Year, date.month) \in Nat
  BY <1>5, <1>9
<1>6. elapsed \in Nat
  BY <1>1, <1>2, <1>4, <1>5
<1>7. ASSUME NextDay PROVE CalendarInv'
  <2>1. elapsed' = elapsed + 1 /\ week' = (week + 1) % 7
    BY <1>7 DEF NextDay
  <2>2. week' = (elapsed' + 4) % 7
    <3>1. PICK k \in Nat : k = elapsed
      BY <1>6
    <3>2. (((k + 4) % 7) + 1) % 7 = (k + 1 + 4) % 7
      OBVIOUS
    <3> QED
      BY <1>1, <2>1, <3>1, <3>2
  <2>3. CASE d < LastDay /\ date' = [year |-> y, month |-> m, day |-> d + 1]
    <3>1. Year' = Year /\ LastDay' = LastDay
      BY <1>5, <2>3 DEF Year, LastDay
    <3>2. date' \in [year : 0 .. 99, month : 1 .. 12, day : 1 .. 31]
      <4>1. LastDay \in 28 .. 31
        BY <1>3, <1>9
      <4> QED
        BY <1>5, <2>3, <4>1
    <3>3. elapsed + 1 = DaysBefore(Year) + MonthBefore(Year, m) + (d + 1) - 1
      BY <1>1, <1>2, <1>4, <1>5
    <3>4. LastDay \in Nat /\ d + 1 <= LastDay
      BY <1>3, <1>5, <1>9, <2>3
    <3> QED
      BY <1>5, <2>1, <2>2, <2>3, <3>1, <3>2, <3>3, <3>4 DEF CalendarInv
  <2>4. CASE d = LastDay /\ m < 12 /\ date' = [year |-> y, month |-> m + 1, day |-> 1]
    <3>1. Year' = Year
      BY <1>5, <2>4 DEF Year
    <3>2. date' \in [year : 0 .. 99, month : 1 .. 12, day : 1 .. 31]
      BY <1>5, <2>4
    <3>3. LastDay' = get_days_of_month(Year', date'.month) /\ LastDay' \in 28 .. 31
      <4>1. LastDay' = get_days_of_month(Year', date'.month)
        <5>1. (date \in [year : 0 .. 99, month : 1 .. 12, day : 1 .. 31] =>
                 LastDay = get_days_of_month(Year, date.month))'
          BY LastDays, PTL
        <5> QED
          BY <3>2, <5>1
      <4> QED
        BY <1>2, <3>1, <3>2, <4>1, MonthStep
    <3>4. MonthBefore(Year, m + 1) = MonthBefore(Year, m) + d
      BY <1>3, <1>9, <2>4
    <3>5. elapsed + 1 = DaysBefore(Year) + MonthBefore(Year, m + 1) + 1 - 1
      BY <1>1, <1>2, <1>4, <1>5, <3>4
    <3> QED
      BY <1>5, <2>1, <2>2, <2>4, <3>1, <3>2, <3>3, <3>5 DEF CalendarInv
  <2>5. CASE d = 31 /\ m = 12 /\ y < 99 /\ date' = [year |-> y + 1, month |-> 1, day |-> 1]
    <3>1. Year' = Year + 1
      BY <1>5, <2>5, SMT DEF Year
    <3>2. date' \in [year : 0 .. 99, month : 1 .. 12, day : 1 .. 31] /\ LastDay' = 31
      BY <1>5, <2>5 DEF LastDay, LongMonths
    <3>3. DaysBefore(Year + 1) = DaysBefore(Year) + get_days_of_year(Year)
      BY <1>5, DaysStep, SMT DEF Year
    <3>4. get_days_of_year(Year) = MonthBefore(Year, m) + 31
      BY <1>2, <2>5, YearEnds
    <3>5. MonthBefore(Year + 1, 1) = 0
      BY <1>2, MonthStep
    <3>6. elapsed + 1 = DaysBefore(Year + 1) + 0 + 1 - 1
      BY <1>1, <1>2, <1>4, <1>5, <2>5, <3>3, <3>4
    <3> QED
      BY <2>1, <2>2, <2>5, <3>1, <3>2, <3>5, <3>6 DEF CalendarInv
  <2>6. [date EXCEPT !.day = @ + 1] = [year |-> y, month |-> m, day |-> d + 1]
    BY <1>5
  <2> QED
    BY <1>7, <2>3, <2>4, <2>5, <2>6 DEF NextDay
<1>8. ASSUME Overrun PROVE CalendarInv'
  <2>1. CalendarInit'
    BY <1>8, SMT DEF Overrun, CalendarInit
  <2> QED
    BY <2>1, CalendarStarts, PTL
<1> QED
  BY <1>7, <1>8 DEF CalendarNext

\* The clock's calendar keeps the days since 1970 and the weekday.
THEOREM CalendarRuns == Calendar => []CalendarInv
<1>1. CalendarInv /\ UNCHANGED calendar => CalendarInv'
  BY SMT DEF CalendarInv, calendar, Year, LastDay
<1> QED
  BY <1>1, CalendarStarts, CalendarGoesOn, PTL DEF Calendar

-----------------------------------------------------------------------------
(* The weekday. *)
\* The months of the formula drift from the calendar's by whole weeks.
LEMMA MonthDrift ==
  ASSUME NEW m \in 1 .. 12
  PROVE  /\ FirstDays[m] \in Nat
         /\ m >= 3 => FirstDays[m] = ((13 * (m + 1)) \div 5) + 7 * (4 * m - 5)
         /\ m < 3 => FirstDays[m] + 36 = ((13 * (m + 13)) \div 5) + 7 * (4 * m - 4)
<1>1. m \in {1, 2, 3, 4, 5, 6, 7, 8, 9, 10, 11, 12}
  OBVIOUS
<1> QED
  BY <1>1 DEF FirstDays

\* Whole weeks leave the day of the week.
LEMMA WholeWeeks ==
  ASSUME NEW a \in Int, NEW j \in Int
  PROVE  (a + 7 * j) % 7 = a % 7
OBVIOUS

\* Zeller's sum and the days since 1970 differ by whole weeks.
LEMMA FormulaRight == CalendarInv => WeekdayRight
<1> SUFFICES ASSUME CalendarInv, date.year > 20 \/ (date.year = 20 /\ date.month > 2)
             PROVE  calculateDayOfWeek(date.year + 2000, date.month, date.day) = week
  BY DEF WeekdayRight
<1>1. /\ date \in [year : 0 .. 99, month : 1 .. 12, day : 1 .. 31]
      /\ elapsed = DaysBefore(Year) + MonthBefore(Year, date.month) + date.day - 1
      /\ week = (elapsed + 4) % 7
  BY DEF CalendarInv
<1> DEFINE y == date.year
           m == date.month
           d == date.day
           k == IF m < 3 THEN y - 1 ELSE y
           z == IF m < 3 THEN (13 * (m + 13)) \div 5 ELSE (13 * (m + 1)) \div 5
           a == d + z + k + (k \div 4) - 35
<1>2. /\ y \in Int /\ 20 <= y /\ y <= 99 /\ m \in 1 .. 12
      /\ d \in Int /\ 1 <= d /\ d <= 31
      /\ k \in Int /\ 20 <= k /\ k <= 99
  BY <1>1
<1>3. z \in Int /\ 10 <= z /\ a \in Int /\ a >= 1
  <2>1. m \in Int /\ 1 <= m /\ (m >= 3 \/ m < 3)
    BY <1>2
  <2>2. z \in Int /\ 10 <= z
    BY <2>1
  <2>3. k \div 4 \in Int /\ k \div 4 >= 5
    BY <1>2
  <2> HIDE DEF z, k
  <2> QED
    BY <1>2, <2>2, <2>3
<1>4. calculateDayOfWeek(y + 2000, m, d) = (a + 6) % 7
  <2>1. (IF m < 3 THEN (y + 2000) - 1 ELSE y + 2000) = 2000 + k
    BY <1>2, SMT
  <2>2. (2000 + k) % 100 = k /\ (2000 + k) \div 100 = 20
    BY <1>2, SMT
  <2>3. 20 \div 4 = 5
    OBVIOUS
  <2>4. (IF m < 3 THEN m + 12 ELSE m) + 1 = IF m < 3 THEN m + 13 ELSE m + 1
    BY <1>2
  <2>5. (13 * ((IF m < 3 THEN m + 12 ELSE m) + 1)) \div 5 = z
    BY <2>4
  <2>6. calculateDayOfWeek(y + 2000, m, d) =
          IF CMod(d + z + k + (k \div 4) + 5 - 2 * 20, 7) = 0 THEN 6
          ELSE CMod(d + z + k + (k \div 4) + 5 - 2 * 20, 7) - 1
    <3> HIDE DEF k, z, y, m, d
    <3> QED
      BY <2>1, <2>2, <2>3, <2>5, SMT DEF calculateDayOfWeek
  <2>7. d + z + k + (k \div 4) + 5 - 2 * 20 = a
    <3>1. k \div 4 \in Int
      BY <1>2
    <3> HIDE DEF k, z, y, m, d
    <3> QED
      BY <1>2, <1>3, <3>1
  <2>8. CMod(a, 7) = a % 7
    BY <1>3 DEF CMod
  <2> HIDE DEF a
  <2>9. (IF a % 7 = 0 THEN 6 ELSE (a % 7) - 1) = (a + 6) % 7
    BY <1>3
  <2> QED
    BY <2>6, <2>7, <2>8, <2>9
<1>5. \E j \in Int : elapsed + 4 = (a + 6) + 7 * j
  <2>1. /\ Year = 2000 + y /\ DaysBefore(Year) = 10957 + 365 * y + ((y + 3) \div 4)
    BY <1>2, CenturyDays, SMT DEF Year
  <2>2. is_leap_year(Year) <=> y % 4 = 0
    BY <1>2, <2>1, LeapYears, SMT
  <2>3. FirstDays[m] \in Nat
    BY <1>2, MonthDrift
  <2>4. CASE m >= 3
    <3>1. k = y /\ z = FirstDays[m] - 7 * (4 * m - 5)
      <4>1. k = y /\ z = (13 * (m + 1)) \div 5
        BY <1>2, <2>4
      <4>2. FirstDays[m] = z + 7 * (4 * m - 5)
        BY <1>2, <2>4, <4>1, MonthDrift
      <4> HIDE DEF z
      <4> QED
        BY <1>2, <1>3, <2>3, <4>1, <4>2
    <3>2. PICK q \in Int, p \in Int, l \in Int :
            /\ q = (y + 3) \div 4 /\ p = y \div 4 /\ l = (IF y % 4 = 0 THEN 1 ELSE 0)
            /\ q + l = p + 1
      BY <1>2
    <3>3. MonthBefore(Year, m) = FirstDays[m] + l
      BY <1>2, <2>2, <2>4, <3>2 DEF MonthBefore
    <3>4. elapsed = 10957 + 365 * y + q + FirstDays[m] + l + d - 1
      BY <1>1, <1>2, <2>1, <2>3, <3>2, <3>3, SMT
    <3>5. a = d + (FirstDays[m] - 7 * (4 * m - 5)) + y + p - 35
      BY <3>1, <3>2
    <3>6. elapsed + 4 = (a + 6) + 7 * (1570 + 52 * y + 4 * m - 5)
      <4> HIDE DEF a, z, k, y, m, d
      <4> QED
        BY <1>2, <2>3, <3>2, <3>4, <3>5, SMT
    <3>7. 1570 + 52 * y + 4 * m - 5 \in Int
      BY <1>2, SMT
    <3> HIDE DEF a
    <3> QED
      BY <3>6, <3>7, SMT
  <2>5. CASE m < 3
    <3>1. k = y - 1 /\ z = FirstDays[m] + 36 - 7 * (4 * m - 4)
      <4>1. k = y - 1 /\ z = (13 * (m + 13)) \div 5
        BY <1>2, <2>5
      <4>2. FirstDays[m] + 36 = z + 7 * (4 * m - 4)
        BY <1>2, <2>5, <4>1, MonthDrift
      <4> HIDE DEF z
      <4> QED
        BY <1>2, <1>3, <2>3, <4>1, <4>2
    <3>2. PICK q \in Int, p \in Int : q = (y + 3) \div 4 /\ p = (y - 1) \div 4 /\ q = p + 1
      BY <1>2
    <3>3. MonthBefore(Year, m) = FirstDays[m] + 0
      BY <1>2, <2>5 DEF MonthBefore
    <3>4. elapsed = 10957 + 365 * y + q + FirstDays[m] + d - 1
      BY <1>1, <1>2, <2>1, <2>3, <3>2, <3>3, SMT
    <3>5. a = d + (FirstDays[m] + 36 - 7 * (4 * m - 4)) + (y - 1) + p - 35
      BY <3>1, <3>2
    <3>6. elapsed + 4 = (a + 6) + 7 * (1565 + 52 * y + 4 * m - 4)
      <4> HIDE DEF a, z, k, y, m, d
      <4> QED
        BY <1>2, <2>3, <3>2, <3>4, <3>5, SMT
    <3>7. 1565 + 52 * y + 4 * m - 4 \in Int
      BY <1>2, SMT
    <3> HIDE DEF a
    <3> QED
      BY <3>6, <3>7, SMT
  <2> QED
    BY <1>2, <2>4, <2>5
<1> QED
  <2>1. PICK j \in Int : elapsed + 4 = (a + 6) + 7 * j
    BY <1>5
  <2>2. a + 6 \in Int
    BY <1>3
  <2> HIDE DEF a
  <2>3. (elapsed + 4) % 7 = (a + 6) % 7
    BY <2>1, <2>2, WholeWeeks
  <2> QED
    BY <1>1, <1>4, <2>3

-----------------------------------------------------------------------------
(* The conversions. *)
\* Each field comes back, because each loop stops at the year and the month
\* the clock shows.
LEMMA ConversionsRight == CalendarInv => TimesAgree
<1> SUFFICES ASSUME CalendarInv, NEW t \in TimesOfDay
             PROVE  LET bcd == Shown(t)
                        dec == [f \in DOMAIN bcd |-> bcd_to_dec(bcd[f])]
                        ts == datetime_to_timestamp(dec.year + 2000, dec.month, dec.day,
                                                    dec.hour, dec.min, dec.sec)
                        back == timestamp_to_datetime(ts)
                    IN /\ ts = [days |-> elapsed, secs |-> t]
                       /\ [f \in DOMAIN bcd |-> dec_to_bcd(back[f])] = bcd
  BY DEF TimesAgree
<1> DEFINE y == date.year
           mo == date.month
           d == date.day
           bcd == Shown(t)
           dec == [f \in DOMAIN bcd |-> bcd_to_dec(bcd[f])]
           ts == datetime_to_timestamp(dec.year + 2000, dec.month, dec.day,
                                       dec.hour, dec.min, dec.sec)
           back == timestamp_to_datetime(ts)
<1>1. /\ y \in 0 .. 99 /\ mo \in 1 .. 12 /\ d \in 1 .. 31 /\ d <= LastDay
      /\ elapsed = DaysBefore(Year) + MonthBefore(Year, mo) + d - 1
      /\ LastDay = get_days_of_month(Year, mo)
  BY LastDays DEF CalendarInv
<1>2. /\ y \in Int /\ 0 <= y /\ y <= 99 /\ d \in Int /\ 1 <= d /\ mo \in Int
      /\ y + 2000 = Year /\ Year = 2000 + y /\ Year \in Nat /\ Year >= 1970 /\ ~(Year < 1970)
  BY <1>1, SMT DEF Year
<1>3. PICK h \in Int, m \in Int, s \in Int :
        /\ 0 <= h /\ h <= 23 /\ 0 <= m /\ m <= 59 /\ 0 <= s /\ s <= 59
        /\ h = t \div 3600 /\ m = (t \div 60) % 60 /\ m = (t % 3600) \div 60 /\ s = t % 60
        /\ h * 3600 + m * 60 + s = t
  <2>1. t \in Int /\ 0 <= t /\ t <= 86399
    BY TimesAssumption, SMT
  <2> QED
    BY <2>1, SecondsOfDay, SMT
<1>4. bcd = [year |-> dec_to_bcd(y), month |-> dec_to_bcd(mo), day |-> dec_to_bcd(d),
             hour |-> dec_to_bcd(h), min |-> dec_to_bcd(m), sec |-> dec_to_bcd(s)]
  BY <1>3, SMT DEF Shown
<1>5. /\ DOMAIN bcd = {"year", "month", "day", "hour", "min", "sec"}
      /\ bcd.year = dec_to_bcd(y) /\ bcd.month = dec_to_bcd(mo) /\ bcd.day = dec_to_bcd(d)
      /\ bcd.hour = dec_to_bcd(h) /\ bcd.min = dec_to_bcd(m) /\ bcd.sec = dec_to_bcd(s)
  <2> HIDE DEF bcd, y, mo, d
  <2> QED
    BY <1>4, SMT
<1>6. /\ dec.year = y /\ dec.month = mo /\ dec.day = d
      /\ dec.hour = h /\ dec.min = m /\ dec.sec = s
  <2>1. /\ bcd_to_dec(dec_to_bcd(y)) = y /\ bcd_to_dec(dec_to_bcd(mo)) = mo
        /\ bcd_to_dec(dec_to_bcd(d)) = d /\ bcd_to_dec(dec_to_bcd(h)) = h
        /\ bcd_to_dec(dec_to_bcd(m)) = m /\ bcd_to_dec(dec_to_bcd(s)) = s
    <3>1. /\ y \in 0 .. 99 /\ mo \in 0 .. 99 /\ d \in 0 .. 99
          /\ h \in 0 .. 99 /\ m \in 0 .. 99 /\ s \in 0 .. 99
      <4>1. y \in 0 .. 99 /\ mo \in 0 .. 99 /\ d \in 0 .. 99
        BY <1>1
      <4>2. h \in 0 .. 99 /\ m \in 0 .. 99 /\ s \in 0 .. 99
        <5>1. \A i \in Int : 0 <= i /\ i <= 59 => i \in 0 .. 99
          OBVIOUS
        <5>2. 0 <= h /\ h <= 59 /\ 0 <= m /\ m <= 59 /\ 0 <= s /\ s <= 59
          BY <1>3, SMT
        <5> QED
          BY <5>1, <5>2
      <4> QED
        BY <4>1, <4>2
    <3> HIDE DEF y, mo, d
    <3> QED
      BY <3>1, BcdBack
  <2> HIDE DEF bcd, y, mo, d
  <2> QED
    BY <1>5, <2>1, SMT
<1>7. ts = [days |-> elapsed, secs |-> t]
  <2>1. ts = datetime_to_timestamp(y + 2000, mo, d, h, m, s)
    <3> HIDE DEF dec, y, mo, d
    <3> QED
      BY <1>6, SMT
  <2>2. datetime_to_timestamp(y + 2000, mo, d, h, m, s) =
          [days |-> days_of_years[Year] + days_of_months(Year, mo) + d - 1,
           secs |-> h * 3600 + m * 60 + s]
    <3>2. ~(h > 23) /\ ~(m > 59) /\ ~(s > 59)
      BY <1>3
    <3> HIDE DEF y, mo, d
    <3> QED
      BY <1>1, <1>2, <3>2, SMT DEF datetime_to_timestamp
  <2>3. days_of_years[Year] = DaysBefore(Year) /\ days_of_months(Year, mo) = MonthBefore(Year, mo)
    <3>1. PICK Y \in Nat, k \in 1 .. 12 : Y = Year /\ k = mo
      BY <1>1, <1>2
    <3> HIDE DEF mo
    <3> QED
      BY <3>1, YearsBefore, MonthsBefore
  <2> HIDE DEF ts, y, mo, d
  <2> QED
    BY <1>1, <1>3, <2>1, <2>2, <2>3, SMT
<1>12. PICK Y \in Nat, k \in 1 .. 12 : Y = Year /\ k = mo
  BY <1>1, <1>2
<1>13. PICK g \in 0 .. 335, l \in 28 .. 31, e \in 0 .. 366, n \in Nat :
         /\ g = MonthBefore(Y, k) /\ l = get_days_of_month(Y, k) /\ e = get_days_of_year(Y)
         /\ n = d - 1
  <2>1. MonthBefore(Y, k) \in 0 .. 335 /\ get_days_of_month(Y, k) \in 28 .. 31
    BY MonthStep
  <2>2. get_days_of_year(Y) \in 0 .. 366
    BY YearStep
  <2>3. d - 1 \in Nat
    BY <1>2
  <2> QED
    BY <2>1, <2>2, <2>3
<1>14. n < l
  BY <1>1, <1>2, <1>12, <1>13
<1>15. g + l <= e
  <2>1. k < 13 /\ 13 \in 1 .. 13
    OBVIOUS
  <2>2. MonthBefore(Y, k) + get_days_of_month(Y, k) <= MonthBefore(Y, 13)
    BY <2>1, MonthGrows
  <2>3. MonthBefore(Y, 13) = get_days_of_year(Y)
    BY DEF MonthBefore, FirstDays, get_days_of_year
  <2> QED
    BY <1>13, <2>2, <2>3
<1>16. elapsed = DaysBefore(Y) + (g + n)
  <2>1. DaysBefore(Y) \in Nat
    BY <1>2, <1>12, CenturyDays, SMT
  <2> QED
    BY <1>1, <1>2, <1>12, <1>13, <2>1, SMT
<1>8. /\ Y = Year /\ k = mo /\ n = d - 1 /\ g = MonthBefore(Y, k) /\ g \in Nat
      /\ n < get_days_of_month(Y, k) /\ g + n < get_days_of_year(Y)
      /\ elapsed = DaysBefore(Y) + (g + n)
  <2>1. g + n < e
    BY <1>14, <1>15
  <2> QED
    BY <1>12, <1>13, <1>14, <1>16, <2>1, SMT
<1>9. /\ year_of[[y |-> 1970, days |-> elapsed]] = [y |-> Y, days |-> g + n]
      /\ month_of(Y, g + n) = [m |-> k, days |-> n]
  <2>1. Y >= 1970 /\ g + n \in Nat
    BY <1>2, <1>8, SMT
  <2>2. year_of[[y |-> 1970, days |-> elapsed]] = [y |-> Y, days |-> g + n]
    BY <1>8, <2>1, YearFound, SMT
  <2>3. month_of(Y, g + n) = [m |-> k, days |-> n]
    BY <1>8, MonthFound
  <2> QED
    BY <2>2, <2>3
<1>10. back = [year |-> y, month |-> mo, day |-> d, hour |-> h, min |-> m, sec |-> s]
  <2>1. back = timestamp_to_datetime([days |-> elapsed, secs |-> t])
    BY <1>7
  <2>2. (Y - 2000) % 256 = y /\ n + 1 = d
    BY <1>2, <1>8, SMT
  <2> HIDE DEF back, y, mo, d, ts
  <2> QED
    BY <1>3, <1>8, <1>9, <2>1, <2>2, SMT DEF timestamp_to_datetime
<1>11. [f \in DOMAIN bcd |-> dec_to_bcd(back[f])] = bcd
  <2>1. \A f \in DOMAIN bcd : dec_to_bcd(back[f]) = bcd[f]
    <3>1. /\ back.year = y /\ back.month = mo /\ back.day = d
          /\ back.hour = h /\ back.min = m /\ back.sec = s
      BY <1>10
    <3> HIDE DEF bcd, y, mo, d, back
    <3> QED
      BY <1>5, <3>1
  <2>2. bcd = [f \in DOMAIN bcd |-> bcd[f]]
    <3> HIDE DEF back, y, mo, d
    <3> QED
      BY <1>4
  <2> HIDE DEF bcd, back
  <2> QED
    BY <2>1, <2>2
<1> QED
  BY <1>7, <1>11, Zenon

\* Every second of every day the clock can show becomes the seconds since 1970
\* and is reported back as the date it was, for any choice of seconds of the day.
THEOREM TimesAgreed == Calendar => []TimesAgree
BY CalendarRuns, ConversionsRight, PTL

\* From March 2020 on the weekday written into the clock is the date's.
THEOREM WeekdaysRight == Calendar => []WeekdayRight
BY CalendarRuns, FormulaRight, PTL
=============================================================================
