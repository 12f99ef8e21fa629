------------------------------- MODULE CirQue -------------------------------
(***************************************************************************)
(* The ring of internal requests, ThreadSafeCirQue of src/app/utils.c.     *)
(* Both operations run under its mutex and are one step each.  The slot at *)
(* the rear always stays free, which tells a full ring from an empty one.  *)
(* The modules that EXTEND this one say who calls the operations.          *)
(***************************************************************************)
EXTENDS Naturals, Sequences

CONSTANTS MAX_QUEUE_SIZE, \* slots, 62
          Msgs            \* messages, 0 the one of zeros only

ASSUME CirQueAssumption == MAX_QUEUE_SIZE \in Nat \ {0} /\ 0 \in Msgs

VARIABLES ucBuf, ucRear, ucFront

ring == <<ucBuf, ucRear, ucFront>>

Slots == 0 .. MAX_QUEUE_SIZE - 1
Following(i) == (i + 1) % MAX_QUEUE_SIZE

Mut_isQueueFull == ucRear + 1 = ucFront
isQueueFull == Following(ucRear) = ucFront
isQueueEmpty == ucFront = ucRear

Mut_Behind(i) == IF i + 1 > MAX_QUEUE_SIZE THEN 0 ELSE i + 1
Behind(i) == Following(i)

initCirQueue ==
  /\ ucRear = 0 /\ ucFront = 0
  /\ ucBuf = [i \in Slots |-> 0]

enQueue(m) ==
  /\ ~isQueueFull
  /\ ucBuf' = [ucBuf EXCEPT ![ucRear] = m]
  /\ ucRear' = Behind(ucRear)
  /\ UNCHANGED ucFront

deQueue ==
  /\ ~isQueueEmpty
  /\ ucFront' = Following(ucFront)
  /\ ucBuf' = [ucBuf EXCEPT ![ucFront] = 0]
  /\ UNCHANGED ucRear

Oldest == ucBuf[ucFront]
----------------------------------------------------------------------------
\* Messages held, and the messages themselves, oldest first.
Held == IF ucFront <= ucRear THEN ucRear - ucFront ELSE ucRear + MAX_QUEUE_SIZE - ucFront
contents == [i \in 1..Held |-> ucBuf[(ucFront + i - 1) % MAX_QUEUE_SIZE]]

\* Types; the indices stay inside the array.
RingOK == ucRear \in Slots /\ ucFront \in Slots /\ ucBuf \in [Slots -> Msgs]

\* The ring is a queue of MAX_QUEUE_SIZE - 1 messages: each step appends one
\* message to those held, if there is room, or takes the oldest one off, or
\* leaves all of them as they are, over the end of the array too.
Appended == Len(contents) < MAX_QUEUE_SIZE - 1 /\ \E m \in Msgs : contents' = Append(contents, m)
TakenOff == contents # <<>> /\ contents' = Tail(contents)
RingIsQueue == [][Appended \/ TakenOff]_contents
=============================================================================
