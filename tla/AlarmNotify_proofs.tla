------------------------- MODULE AlarmNotify_proofs -------------------------
(***************************************************************************)
(* The safety invariants of AlarmNotify, for every debounce count, record  *)
(* length, queue length, set of alarm types and behaviour of the clock.    *)
(*                                                                         *)
(* Argument.  Nothing protects the counter index but the order of the      *)
(* tasks' work: at most one second is on its way at a time.  InvQueue says *)
(* so of an undisturbed alarm, InvIndex ties that second to the counter,   *)
(* InvRecord ties the counter to what the flash holds, and InvFresh says   *)
(* that the path starts empty.  Only together are they inductive.          *)
(***************************************************************************)
EXTENDS AlarmNotify, SequenceTheorems, TLAPS

\* There was an alarm, and nothing disturbed the last one.
Undisturbed == calm /\ raised > 0

\* The alarm's own message, and a message for the first second not yet saved.

KindMsg(m) == m.type \in Kinds /\ m.ts = alarm_ts + 1
SaveMsg(m) == m.type = SAVE /\ m.ts = alarm_ts + index

\* The alarm's own message is the oldest, a second asked for the newest.
RaiseQueued == queue # <<>> /\ KindMsg(queue[1])
SaveQueued == queue # <<>> /\ SaveMsg(queue[Len(queue)])

\* Alarm_task before it counted a second, after it, and with the relay.
Asking == al_pc \in {"read", "load", "store"}
Storing == al_pc \in {"args", "info"}
Raising == al_pc \in {"relay", "msg"}

\* Time_sync_task is about to post a message.
Deciding == ts_pc \in {"save", "send"}

\* What became of a message handed to the queue: a full one drops it.
Sent(m) == queue' = IF Len(queue) < QueueLen THEN Append(queue, m) ELSE queue

\* Time_sync_task asks only while a record is open.
InvSync == ts_pc # "delay" => save_sta = "STR_SAVE"

\* Before the first alarm nothing is under way.
InvFresh == raised = 0 => /\ queue = <<>> /\ al_pc = "wait" /\ sem = FALSE
                          /\ save_sta = "END_SAVE" /\ alarm_sta = "CLEARED"

\* A type counted to the end is latched.
InvNum == num = Debounce /\ type \in Kinds => alarm_sta = "RAISED"

\* The alarm's message and one second at most are queued, in this order, and
\* time_sync_task never asks while a second is on its way.
InvQueue ==
  Undisturbed =>
    /\ Len(queue) <= 2
    /\ Len(queue) = 1 => RaiseQueued \/ SaveQueued
    /\ Len(queue) = 2 => RaiseQueued /\ SaveQueued
    /\ Raising => ~RaiseQueued /\ KindMsg(al_msg)
    /\ Asking \/ Storing => queue = <<>>
    /\ Deciding => ~SaveQueued /\ ~Asking /\ ~Storing

\* What each task holds in registers and messages agrees with index.
InvIndex ==
  Undisturbed =>
    /\ index <= SaveSeconds
    /\ RaiseQueued \/ Raising => index = 0
    /\ SaveQueued \/ Asking \/ ts_pc = "send" => index < SaveSeconds
    /\ ts_pc = "send" => ts_idx = index
    /\ Asking => SaveMsg(al_msg)
    /\ al_pc = "store" => al_idx = index
    /\ Storing => index > 0 /\ al_msg.ts = alarm_ts + (index - 1)
    /\ al_pc = "info" => al_idx = index /\ al_rec = alarm_ts + 1

\* The index entry of the last alarm is written; its first n seconds.
Recorded == \E r \in records : r.ts = alarm_ts + 1 /\ r.calm
Saved(n) == [k \in 1..n |-> alarm_ts + (k - 1)]

\* The flash holds the seconds index counts, and the entry once all are saved.
InvRecord ==
  Undisturbed =>
    /\ save_sta = "END_SAVE" => AlarmIdle /\ Recorded
    /\ save_sta = "STR_SAVE" /\ ~RaiseQueued /\ ~Raising =>
         /\ item_ts = alarm_ts + 1
         /\ info = Saved(IF Storing THEN index - 1 ELSE index)
         /\ index = SaveSeconds /\ ~Storing => Recorded

\* The contact follows the alarm state once alarm_task drove it.
InvRelay ==
  calm /\ alarm_sta # "CLEARED" /\ ~RaiseQueued /\ al_pc # "relay" => relay

\* The inductive invariant.
IInv == /\ TypeOK /\ NumBounded /\ NoLostWakeup /\ InvSync /\ InvFresh /\ InvNum
        /\ InvQueue /\ InvIndex /\ InvRecord /\ InvRelay /\ RecordsComplete
-----------------------------------------------------------------------------
\* A message posted to the queue is appended or, when the queue is full, dropped.
LEMMA PostType ==
  ASSUME TypeOK, NEW m \in Msgs, Sent(m)
  PROVE  queue' \in Seq(Msgs) /\ Len(queue') <= QueueLen
<1>1. CASE Len(queue) < QueueLen
  BY <1>1, AlarmAssumption DEF Sent, TypeOK
<1>2. CASE ~(Len(queue) < QueueLen)
  BY <1>2 DEF Sent, TypeOK
<1> QED
  BY <1>1, <1>2

\* Both tasks that post do so.
LEMMA BothSend ==
  /\ \A m \in Msgs : Post(m) => Sent(m) /\ sem' \in {sem, TRUE}
  /\ SaveSend => /\ \E i \in {ts_idx, index} : Sent([type |-> SAVE, ts |-> Asked(i)])
                 /\ ts_pc = "send" /\ ts_pc' \in {"give", "delay"}
                 /\ queue' # queue => ts_pc' = "give"
<1>1. \A m \in Msgs : Post(m) => Sent(m) /\ sem' \in {sem, TRUE}
  BY DEF Post, Sent
<1>2. CASE Len(queue) < QueueLen
  BY <1>1, <1>2 DEF SaveSend, Sent
<1>3. CASE ~(Len(queue) < QueueLen)
  BY <1>1, <1>3 DEF SaveSend, Sent
<1> QED
  BY <1>2, <1>3

\* The two messages that are posted.
LEMMA MsgTypes ==
  ASSUME TypeOK
  PROVE  /\ \A t \in Kinds : [type |-> t, ts |-> sec] \in Msgs
         /\ \A i \in 0..255 : [type |-> SAVE, ts |-> Asked(i)] \in Msgs
BY DEF TypeOK, Msgs, Asked

\* Two functions on 1..n that agree everywhere are the same.
LEMMA SameFunction ==
  ASSUME NEW n, NEW f \in [1..n -> Nat], NEW g \in [1..n -> Nat],
         \A i \in 1..n : f[i] = g[i]
  PROVE  f = g
<1>1. f = [i \in 1..n |-> f[i]]
  OBVIOUS
<1>2. g = [i \in 1..n |-> g[i]]
  OBVIOUS
<1>3. [i \in 1..n |-> f[i]] = [i \in 1..n |-> g[i]]
  OBVIOUS
<1> QED
  BY <1>1, <1>2, <1>3

\* The places of a queue of one or two messages.
LEMMA Ends ==
  ASSUME NEW l \in Nat, l <= 2, NEW i \in 1..l
  PROVE  /\ l = 1 \/ l = 2
         /\ i = 1 \/ i = l
OBVIOUS

\* The queue's length and ends.
LEMMA QueueEnds ==
  ASSUME TypeOK
  PROVE  /\ Len(queue) \in Nat /\ DOMAIN queue = 1..Len(queue)
         /\ queue = <<>> <=> Len(queue) = 0
         /\ queue # <<>> => Len(queue) \in DOMAIN queue /\ 1 \in DOMAIN queue
<1>1. Len(queue) \in Nat /\ DOMAIN queue = 1..Len(queue)
  BY LenProperties DEF TypeOK
<1>2. queue # <<>> => Len(queue) \in Nat \ {0}
  BY EmptySeq DEF TypeOK
<1> QED
  BY <1>1, <1>2

\* What a posted message leaves in place.
LEMMA PostShape ==
  ASSUME TypeOK, NEW m \in Msgs, Sent(m)
  PROVE  \/ queue' = queue
         \/ /\ Len(queue') = Len(queue) + 1 /\ queue' # <<>> /\ queue'[Len(queue')] = m
            /\ queue'[1] = IF queue = <<>> THEN m ELSE queue[1]
<1>1. CASE Len(queue) < QueueLen
  <2>1. queue' = Append(queue, m)
    BY <1>1 DEF Sent
  <2>2. /\ Len(queue') = Len(queue) + 1 /\ queue'[Len(queue) + 1] = m
        /\ \A i \in 1..Len(queue) : queue'[i] = queue[i]
    BY <2>1, AppendProperties DEF TypeOK
  <2>3. queue' # <<>>
    BY <2>2, QueueEnds, EmptySeq
  <2>4. CASE queue = <<>>
    BY <2>2, <2>3, <2>4, QueueEnds
  <2>5. CASE queue # <<>>
    BY <2>2, <2>3, <2>5, QueueEnds
  <2> QED
    BY <2>4, <2>5
<1>2. CASE ~(Len(queue) < QueueLen)
  BY <1>2 DEF Sent
<1> QED
  BY <1>1, <1>2

\* Every step keeps the types.
LEMMA TypeStep == TypeOK /\ [Next]_vars => TypeOK'
<1> SUFFICES ASSUME TypeOK, [Next]_vars PROVE TypeOK'
  OBVIOUS
<1> USE AlarmAssumption
<1> USE DEF TypeOK, notify, sampler, syncer, saver, flash
<1>1. CASE Rebase
  BY <1>1 DEF Rebase
<1>2. CASE Adc_Clear_Alarm
  <2>1. /\ relay' \in BOOLEAN /\ alarm_sta' = "CLEARED" /\ type' = NONE
        /\ UNCHANGED <<num, save_sta, index, alarm_ts, queue, sem, sampler, syncer,
                       saver, flash, raised, calm>>
    BY <1>2 DEF Adc_Clear_Alarm
  <2> QED
    BY <2>1
<1>3. CASE CheckNormal
  BY <1>3 DEF CheckNormal, Recovered
<1>4. ASSUME NEW t \in Kinds, CheckNewType(t) PROVE TypeOK'
  BY <1>4 DEF CheckNewType
<1>5. ASSUME NEW t \in Kinds, CheckSameType(t) PROVE TypeOK'
  BY <1>5 DEF CheckSameType
<1>6. ASSUME NEW t \in Kinds, CheckRaise(t) PROVE TypeOK'
  <2>1. queue' \in Seq(Msgs) /\ Len(queue') <= QueueLen /\ sem' \in BOOLEAN
    BY <1>6, MsgTypes, BothSend, PostType DEF CheckRaise
  <2>2. sec - 1 \in Nat
    BY <1>6 DEF CheckRaise, Ignored
  <2>3. calm' \in BOOLEAN
    BY <1>6 DEF CheckRaise, AlarmIdle
  <2> QED
    BY <1>6, <2>1, <2>2, <2>3 DEF CheckRaise
<1>7. CASE TimeSync
  BY <1>7 DEF TimeSync, Secs, SavePending
<1>8. CASE SaveTimeout
  BY <1>8 DEF SaveTimeout
<1>9. CASE SaveEnd
  BY <1>9 DEF SaveEnd
<1>10. CASE SaveAsk
  BY <1>10 DEF SaveAsk
<1>11. CASE SaveSend
  <2>1. queue' \in Seq(Msgs) /\ Len(queue') <= QueueLen
    BY <1>11, MsgTypes, BothSend, PostType
  <2>2. ts_pc' \in {"give", "delay"} /\ ts_idx' = 0
        /\ UNCHANGED <<notify, sem, relay, sampler, saver, flash, raised, calm>>
    BY <1>11, BothSend DEF SaveSend
  <2> QED
    BY <2>1, <2>2
<1>25. CASE SaveGive
  BY <1>25 DEF SaveGive
<1>12. CASE AlarmWake
  <2>1. /\ sem' \in BOOLEAN /\ al_pc' = "drain"
        /\ UNCHANGED <<notify, queue, relay, sampler, syncer, al_msg, al_idx, al_rec, flash,
                       raised, calm>>
    BY <1>12 DEF AlarmWake
  <2> QED
    BY <2>1
<1>13. CASE AlarmReceive
  <2>1. CASE queue = <<>>
    BY <1>13, <2>1 DEF AlarmReceive
  <2>2. CASE queue # <<>>
    <3>1. Head(queue) \in Msgs /\ Tail(queue) \in Seq(Msgs) /\ Len(Tail(queue)) <= QueueLen
      BY <2>2, HeadTailProperties
    <3>2. /\ al_msg' = Head(queue) /\ queue' = Tail(queue) /\ al_pc' \in {"read", "relay"}
          /\ UNCHANGED <<notify, sem, relay, sampler, syncer, al_idx, al_rec, flash,
                         raised, calm>>
      BY <1>13, <2>2 DEF AlarmReceive
    <3>3. al_msg' \in Msgs \cup {NoMsg} /\ queue' \in Seq(Msgs) /\ Len(queue') <= QueueLen
      BY <3>1, <3>2
    <3> QED
      BY <3>2, <3>3
  <2> QED
    BY <2>1, <2>2
<1>14. CASE AlarmRelay
  BY <1>14 DEF AlarmRelay
<1>15. CASE WriteAlarmMsg
  <2>1. al_msg.ts \in Nat /\ <<>> \in Seq(Nat)
    BY DEF NoMsg, Msgs
  <2>2. item_ts' \in Nat /\ info' \in Seq(Nat) /\ calm' \in BOOLEAN
    BY ZenonT(30), <1>15, <2>1 DEF WriteAlarmMsg
  <2>3. /\ al_pc' = "drain"
        /\ UNCHANGED <<notify, queue, sem, relay, sampler, syncer, al_msg, al_idx, al_rec,
                       records, raised>>
    BY <1>15 DEF WriteAlarmMsg
  <2> QED
    BY <2>2, <2>3
<1>16. CASE ReadFound
  BY <1>16 DEF ReadFound
<1>24. CASE ReadMissing
  BY <1>24 DEF ReadMissing
<1>17. CASE IndexLoad
  BY <1>17 DEF IndexLoad
<1>18. CASE IndexStore
  BY <1>18 DEF IndexStore
<1>19. CASE InfoArgs
  BY <1>19 DEF InfoArgs
<1>20. CASE WriteAlarmInfo
  <2>1. al_msg.ts \in Nat
    BY DEF NoMsg, Msgs
  <2>2. Append(info, al_msg.ts) \in Seq(Nat)
    BY <2>1
  <2>3. [ts |-> item_ts, secs |-> Append(info, al_msg.ts), calm |-> calm]
          \in [ts : Nat, secs : Seq(Nat), calm : BOOLEAN]
    BY <2>2
  <2>4. info' \in Seq(Nat) /\ calm' \in BOOLEAN
    BY <1>20, <2>2 DEF WriteAlarmInfo
  <2>5. \/ records' = records
        \/ records' = records \cup {[ts |-> item_ts, secs |-> Append(info, al_msg.ts), calm |-> calm]}
    BY <1>20 DEF WriteAlarmInfo
  <2>6. records' \subseteq [ts : Nat, secs : Seq(Nat), calm : BOOLEAN]
    BY ZenonT(30), <2>3, <2>5
  <2>7. /\ al_pc' = "drain" /\ al_idx' = 0 /\ al_rec' = 0
        /\ UNCHANGED <<notify, queue, sem, relay, sampler, syncer, al_msg, item_ts, raised>>
    BY <1>20 DEF WriteAlarmInfo
  <2> QED
    BY <2>4, <2>6, <2>7
<1>21. CASE kt_ClearData
  <2>1. <<>> \in Seq(Nat) /\ {} \subseteq [ts : Nat, secs : Seq(Nat), calm : BOOLEAN]
    OBVIOUS
  <2>2. /\ info' \in Seq(Nat) /\ calm' \in BOOLEAN
        /\ records' \subseteq [ts : Nat, secs : Seq(Nat), calm : BOOLEAN]
    BY <1>21, <2>1 DEF kt_ClearData
  <2>3. /\ armed' \in BOOLEAN
        /\ UNCHANGED <<notify, queue, sem, relay, rtc, sec, boot_ts, syncer, saver, item_ts, raised>>
    BY <1>21 DEF kt_ClearData
  <2> QED
    BY <2>2, <2>3
<1>22. CASE kt_ClearConfig
  <2>1. /\ armed' \in BOOLEAN
        /\ UNCHANGED <<notify, queue, sem, relay, rtc, sec, boot_ts, syncer, saver, flash, raised, calm>>
    BY <1>22 DEF kt_ClearConfig
  <2> QED
    BY <2>1
<1>23. CASE UNCHANGED vars
  BY <1>23 DEF vars
<1> QED
  BY <1>1, <1>2, <1>3, <1>4, <1>5, <1>6, <1>7, <1>8, <1>9, <1>10, <1>11, <1>12, <1>13,
     <1>14, <1>15, <1>16, <1>17, <1>18, <1>19, <1>20, <1>21, <1>22, <1>23, <1>24,
     <1>25
  DEF Next, sample_task, time_sync_task, alarm_task, msg_proc_task
-----------------------------------------------------------------------------
\* No raise resets the count, no raise leaves it above the debounce count: a
\* type that is counted to the end is latched.
LEMMA NumStep == TypeOK /\ NumBounded /\ InvNum /\ [Next]_vars => NumBounded' /\ InvNum'
<1> SUFFICES ASSUME TypeOK, NumBounded, InvNum, [Next]_vars PROVE NumBounded' /\ InvNum'
  OBVIOUS
<1> USE AlarmAssumption DEF NumBounded, InvNum
<1>1. CASE UNCHANGED <<num, type, alarm_sta>>
  BY <1>1
<1>2. CASE Adc_Clear_Alarm
  BY <1>2 DEF Adc_Clear_Alarm
<1>3. CASE CheckNormal
  BY <1>3 DEF CheckNormal
<1>4. ASSUME NEW t \in Kinds, CheckNewType(t) PROVE NumBounded' /\ InvNum'
  BY <1>4 DEF CheckNewType
<1>5. ASSUME NEW t \in Kinds, CheckSameType(t) PROVE NumBounded' /\ InvNum'
  BY <1>5 DEF CheckSameType, Debounced, TypeOK
<1>6. ASSUME NEW t \in Kinds, CheckRaise(t) PROVE NumBounded' /\ InvNum'
  BY <1>6 DEF CheckRaise, Latched, TypeOK
<1>7. Rebase \/ time_sync_task \/ alarm_task \/ msg_proc_task \/ UNCHANGED vars
        => UNCHANGED <<num, type, alarm_sta>>
  BY DEF time_sync_task, alarm_task, msg_proc_task, Rebase, TimeSync, SaveTimeout, SaveEnd,
         SaveAsk, SaveSend, SaveGive, AlarmWake, AlarmReceive, AlarmRelay, WriteAlarmMsg, ReadFound,
         ReadMissing, IndexLoad, IndexStore, InfoArgs, WriteAlarmInfo, kt_ClearData,
         kt_ClearConfig, notify, vars
<1> QED
  BY <1>1, <1>2, <1>3, <1>4, <1>5, <1>6, <1>7 DEF Next, sample_task

\* Whoever posts a message gives the semaphore, at once or next, and alarm_task goes back to
\* the semaphore only with the queue empty.
LEMMA WakeStep == TypeOK /\ NoLostWakeup /\ [Next]_vars => NoLostWakeup'
<1> SUFFICES ASSUME TypeOK, NoLostWakeup, [Next]_vars PROVE NoLostWakeup'
  OBVIOUS
<1> USE DEF NoLostWakeup
<1>1. CASE UNCHANGED <<al_pc, queue, sem>> /\ (ts_pc = "give" => ts_pc' = "give")
  BY <1>1
<1>2. CASE AlarmWake
  BY <1>2 DEF AlarmWake
<1>3. CASE AlarmReceive
  BY <1>3 DEF AlarmReceive
<1>4. CASE al_pc' # "wait"
  BY <1>4
<1>5. ASSUME NEW m \in Msgs, Post(m), al_pc' = al_pc, ts_pc' = ts_pc
      PROVE  NoLostWakeup'
  BY <1>5 DEF Post
<1>6. CASE SaveSend
  BY <1>6, BothSend DEF SaveSend, saver
<1>11. CASE SaveGive
  BY <1>11 DEF SaveGive
<1>7. ASSUME NEW t \in Kinds, CheckRaise(t) PROVE NoLostWakeup'
  BY <1>5, <1>7, MsgTypes DEF CheckRaise, saver, syncer
<1>8. AlarmRelay \/ WriteAlarmMsg \/ ReadFound \/ ReadMissing \/ IndexLoad \/ IndexStore
        \/ InfoArgs \/ WriteAlarmInfo => al_pc' # "wait"
  BY DEF AlarmRelay, WriteAlarmMsg, ReadFound, ReadMissing, IndexLoad, IndexStore, InfoArgs,
         WriteAlarmInfo
<1>9. Rebase \/ Adc_Clear_Alarm \/ CheckNormal \/ TimeSync \/ SaveTimeout \/ SaveEnd \/ SaveAsk
        \/ kt_ClearData \/ kt_ClearConfig \/ UNCHANGED vars
        => UNCHANGED <<al_pc, queue, sem>> /\ (ts_pc = "give" => ts_pc' = "give")
  BY DEF Rebase, Adc_Clear_Alarm, CheckNormal, TimeSync, SaveTimeout, SaveEnd, SaveAsk,
         kt_ClearData, kt_ClearConfig, saver, syncer, vars
<1>10. ASSUME NEW t \in Kinds, CheckNewType(t) \/ CheckSameType(t)
       PROVE UNCHANGED <<al_pc, queue, sem, ts_pc>>
  BY <1>10 DEF CheckNewType, CheckSameType, saver, syncer
<1> QED
  BY <1>1, <1>2, <1>3, <1>4, <1>6, <1>7, <1>8, <1>9, <1>10, <1>11
  DEF Next, sample_task, time_sync_task, alarm_task, msg_proc_task

\* Time_sync_task is inside Adc_Save_Alarm only while a record is open, and
\* nothing happens on the alarm path before the first alarm.
LEMMA SyncStep ==
  TypeOK /\ InvSync /\ InvFresh /\ [Next]_vars => InvSync' /\ InvFresh'
<1> SUFFICES ASSUME TypeOK, InvSync, InvFresh, [Next]_vars PROVE InvSync' /\ InvFresh'
  OBVIOUS
<1> USE DEF InvSync, InvFresh
<1> DEFINE seen == <<ts_pc, save_sta, raised, queue, al_pc, sem, alarm_sta>>
<1>1. CASE UNCHANGED seen
  BY <1>1
<1>2. CASE Adc_Clear_Alarm
  BY <1>2 DEF Adc_Clear_Alarm, Clearable, syncer, saver
<1>3. CASE CheckNormal
  BY <1>3 DEF CheckNormal, Recovered, syncer, saver
<1>4. ASSUME NEW t \in Kinds, CheckRaise(t) PROVE InvSync' /\ InvFresh'
  BY <1>4 DEF CheckRaise, TypeOK
<1>5. CASE TimeSync
  BY <1>5 DEF TimeSync, notify, saver
<1>6. CASE SaveTimeout
  BY <1>6 DEF SaveTimeout, notify, saver
<1>7. CASE SaveEnd
  BY <1>7 DEF SaveEnd, saver
<1>8. CASE SaveAsk
  BY <1>8 DEF SaveAsk, notify, saver
<1>9. CASE SaveSend \/ SaveGive
  BY <1>9, BothSend DEF SaveSend, SaveGive, notify, saver
<1>10. CASE alarm_task
  BY <1>10 DEF alarm_task, AlarmWake, AlarmReceive, AlarmRelay, WriteAlarmMsg, ReadFound, ReadMissing,
         IndexLoad, IndexStore, InfoArgs, WriteAlarmInfo, notify, syncer
<1>11. Rebase \/ kt_ClearData \/ kt_ClearConfig \/ UNCHANGED vars => UNCHANGED seen
  BY DEF Rebase, kt_ClearData, kt_ClearConfig, notify, saver, syncer, vars
<1>12. ASSUME NEW t \in Kinds, CheckNewType(t) \/ CheckSameType(t) PROVE UNCHANGED seen
  BY <1>12 DEF CheckNewType, CheckSameType, saver, syncer
<1> QED
  BY <1>1, <1>2, <1>3, <1>4, <1>5, <1>6, <1>7, <1>8, <1>9, <1>10, <1>11, <1>12
  DEF Next, sample_task, time_sync_task, msg_proc_task
-----------------------------------------------------------------------------
\* The part of it that is about undisturbed alarms.
CalmInv == InvQueue /\ InvIndex /\ InvRecord /\ InvRelay /\ RecordsComplete

\* What the record of an undisturbed alarm depends on.
record == <<queue, al_pc, al_msg, al_idx, al_rec, ts_pc, ts_idx, index, alarm_ts, save_sta,
            item_ts, info, records, raised, calm>>

\* A step that leaves all of this alone disturbs no record.
LEMMA RecordFrame ==
  ASSUME CalmInv, UNCHANGED record, InvRelay'
  PROVE  CalmInv'
BY DEF CalmInv, record, InvQueue, InvIndex, InvRecord, RecordsComplete, Undisturbed, KindMsg,
       SaveMsg, RaiseQueued, SaveQueued, Asking, Storing, Raising, Recorded, Saved, AlarmIdle, Deciding

\* Samples that raise nothing, and kt_ClearConfig, touch no record.
LEMMA CalmSampler ==
  ASSUME IInv, CalmInv, TypeOK',
         \/ Rebase \/ Adc_Clear_Alarm \/ CheckNormal \/ kt_ClearConfig \/ UNCHANGED vars
         \/ \E t \in Kinds : CheckNewType(t) \/ CheckSameType(t)
  PROVE  CalmInv'
<1>1. UNCHANGED record
  BY DEF record, Rebase, Adc_Clear_Alarm, CheckNormal, kt_ClearConfig, CheckNewType, CheckSameType,
         notify, syncer, saver, flash, vars
<1>2. InvRelay'
  BY <1>1 DEF CalmInv, record, InvRelay, RaiseQueued, KindMsg, Rebase, Adc_Clear_Alarm, CheckNormal,
       Recovered, kt_ClearConfig, CheckNewType, CheckSameType, notify, vars
<1> QED
  BY <1>1, <1>2, RecordFrame

\* Adc_Check_Alarm opens a record only when the last one is closed; with the
\* alarm path idle its message is alone in the queue.
LEMMA CalmRaise ==
  ASSUME IInv, CalmInv, TypeOK', NEW t \in Kinds, CheckRaise(t)
  PROVE  CalmInv'
<1> SUFFICES ASSUME calm' PROVE CalmInv'
  BY DEF CalmInv, InvQueue, InvIndex, InvRecord, InvRelay, RecordsComplete, CheckRaise, Undisturbed, flash
<1> DEFINE m == [type |-> t, ts |-> sec]
<1>1. queue = <<>> /\ al_pc \in {"wait", "drain"} /\ al_pc' = al_pc
  BY DEF CheckRaise, AlarmIdle, saver
<1>2. queue' = <<m>>
  BY <1>1, AlarmAssumption DEF CheckRaise, Post
<1>3. Len(queue') = 1 /\ queue'[1].type = t /\ queue'[1].ts = sec /\ queue' # <<>>
  BY <1>2
<1>4. ts_pc = "delay" /\ ts_pc' = "delay"
  BY DEF CheckRaise, Ignored, IInv, TypeOK, InvSync, syncer
<1>5. alarm_ts' + 1 = sec /\ index' = 0 /\ save_sta' = "STR_SAVE"
  BY DEF CheckRaise, Ignored, IInv, TypeOK
<1>6. RaiseQueued' /\ ~SaveQueued' /\ ~Raising' /\ ~Asking' /\ ~Storing'
  BY <1>1, <1>3, <1>5, AlarmAssumption DEF RaiseQueued, SaveQueued, KindMsg, SaveMsg, Raising, Asking, Storing
<1> QED
  BY <1>1, <1>3, <1>4, <1>5, <1>6, AlarmAssumption
  DEF Deciding, CalmInv, InvQueue, InvIndex, InvRecord, InvRelay, RecordsComplete, CheckRaise, flash

\* Time_sync_task before it posts: a record it closes is on the flash.
LEMMA CalmSync ==
  ASSUME IInv, CalmInv, TypeOK', TimeSync \/ SaveTimeout \/ SaveEnd \/ SaveAsk
  PROVE  CalmInv'
<1> USE DEF Undisturbed, KindMsg, SaveMsg, RaiseQueued, SaveQueued, Asking, Storing, Raising,
            Recorded, Saved, AlarmIdle, Deciding
<1>1. CASE TimeSync
  <2>1. calm' => ~SaveQueued /\ ~Asking /\ ~Storing
    <3>1. SaveQueued => \E i \in DOMAIN queue : queue[i].type = SAVE
      BY QueueEnds DEF IInv
    <3> QED
      BY <1>1, <3>1 DEF TimeSync, SavePending
  <2>2. UNCHANGED <<queue, al_pc, al_msg, al_idx, al_rec, ts_idx, index, alarm_ts, save_sta,
                    item_ts, info, records, raised, alarm_sta, relay>>
        /\ ts_pc' # "send" /\ (calm' => calm)
    BY <1>1 DEF TimeSync, notify, saver, flash
  <2>3. InvQueue' /\ InvIndex'
    BY <2>1, <2>2 DEF CalmInv, InvQueue, InvIndex
  <2> QED
    BY <2>2, <2>3 DEF CalmInv, InvRecord, InvRelay, RecordsComplete
<1>2. CASE SaveTimeout
  <2>1. UNCHANGED <<queue, al_pc, al_msg, al_idx, al_rec, ts_idx, index, alarm_ts, save_sta,
                    item_ts, info, records, raised, calm, alarm_sta, relay>> /\ ts_pc' = "delay"
    BY <1>2 DEF SaveTimeout, notify, saver, flash
  <2> QED
    BY <2>1 DEF CalmInv, InvQueue, InvIndex, InvRecord, InvRelay, RecordsComplete
<1>3. CASE SaveEnd
  <2>1. /\ UNCHANGED <<queue, al_pc, al_msg, al_idx, al_rec, ts_idx, alarm_ts,
                       item_ts, info, records, raised, calm, alarm_sta, relay>>
        /\ ts_pc = "save" /\ ts_pc' = "delay" /\ save_sta = "STR_SAVE" /\ save_sta' = "END_SAVE"
        /\ index >= SaveSeconds /\ index' = 0
    BY <1>3 DEF SaveEnd, Done, saver, flash
  <2>2. Undisturbed => ~RaiseQueued /\ ~Raising /\ ~SaveQueued /\ ~Asking /\ ~Storing
    BY <2>1, AlarmAssumption DEF CalmInv, InvQueue, InvIndex
  <2>3. Undisturbed => queue = <<>> /\ al_pc \in {"wait", "drain"}
    <3>1. Undisturbed => queue = <<>>
      BY <2>2, QueueEnds DEF CalmInv, InvQueue, IInv
    <3> QED
      BY <3>1, <2>2 DEF IInv, TypeOK
  <2>4. Undisturbed => Recorded
    BY <2>1, <2>2, AlarmAssumption DEF CalmInv, InvIndex, InvRecord, IInv, TypeOK
  <2> QED
    BY <2>1, <2>3, <2>4, AlarmAssumption DEF CalmInv, InvQueue, InvIndex, InvRecord, InvRelay, RecordsComplete
<1>4. CASE SaveAsk
  <2>1. /\ UNCHANGED <<queue, al_pc, al_msg, al_idx, al_rec, index, alarm_ts, save_sta,
                       item_ts, info, records, raised, calm, alarm_sta, relay>>
        /\ ts_pc = "save" /\ ts_pc' = "send" /\ ts_idx' = index
        /\ save_sta = "STR_SAVE" /\ index < SaveSeconds
    BY <1>4, AlarmAssumption DEF SaveAsk, Done, notify, saver, flash, IInv, InvSync, TypeOK
  <2> QED
    BY <2>1 DEF CalmInv, InvQueue, InvIndex, InvRecord, InvRelay, RecordsComplete
<1> QED
  BY <1>1, <1>2, <1>3, <1>4

\* The message asks for the first second that is not saved, behind the alarm's
\* own message if that is still queued.
LEMMA CalmSend ==
  ASSUME IInv, CalmInv, TypeOK', SaveSend
  PROVE  CalmInv'
<1> USE DEF KindMsg, SaveMsg, RaiseQueued, SaveQueued, Asking, Storing, Raising, Recorded, Saved, Deciding
<1> DEFINE m == [type |-> SAVE, ts |-> alarm_ts + index]
<1>1. /\ UNCHANGED <<al_pc, al_msg, al_idx, al_rec, index, alarm_ts, save_sta,
                     item_ts, info, records, raised, calm, alarm_sta, relay>>
      /\ ts_pc = "send" /\ ~Deciding' /\ save_sta = "STR_SAVE"
  BY BothSend DEF SaveSend, notify, saver, flash, IInv, InvSync
<1>2. PICK i \in 0..255 : Sent([type |-> SAVE, ts |-> Asked(i)])
  BY BothSend DEF IInv, TypeOK
<1> DEFINE n == [type |-> SAVE, ts |-> Asked(i)]
<1>3. n \in Msgs /\ n.type \notin Kinds
  BY MsgTypes, AlarmAssumption DEF IInv
<1>4. RaiseQueued' <=> RaiseQueued
  <2>1. \/ queue' = queue
        \/ queue' # <<>> /\ queue'[1] = IF queue = <<>> THEN n ELSE queue[1]
    BY <1>2, <1>3, PostShape DEF IInv
  <2> QED
    BY <1>1, <1>3, <2>1
<1>5. InvRelay' /\ RecordsComplete'
  BY <1>1, <1>4 DEF CalmInv, InvRelay, RecordsComplete
<1> SUFFICES ASSUME Undisturbed PROVE InvQueue' /\ InvIndex' /\ InvRecord'
  BY <1>1, <1>5 DEF CalmInv, InvQueue, InvIndex, InvRecord, Undisturbed
<1>6. Sent(m) /\ m \in Msgs
  <2>1. index \in 0..255 /\ alarm_ts + index = Asked(index)
    BY DEF Asked, IInv, TypeOK
  <2> QED
    BY <1>1, <2>1, MsgTypes, BothSend DEF CalmInv, InvIndex, Asked, IInv
<1>7. ~SaveQueued /\ ~Asking /\ ~Storing /\ index < SaveSeconds
      /\ (queue # <<>> => Len(queue) = 1 /\ RaiseQueued)
  BY <1>1, QueueEnds DEF CalmInv, InvQueue, InvIndex, IInv
<1>8. CASE queue' = queue
  BY <1>1, <1>7, <1>8 DEF CalmInv, InvQueue, InvIndex, InvRecord, AlarmIdle
<1>9. CASE /\ Len(queue') = Len(queue) + 1 /\ queue' # <<>> /\ queue'[Len(queue')] = m
           /\ queue'[1] = IF queue = <<>> THEN m ELSE queue[1]
  <2>1. SaveQueued'
    BY <1>1, <1>9
  <2>2. Len(queue') <= 2 /\ (Len(queue') = 2 => RaiseQueued')
    BY <1>4, <1>7, <1>9, QueueEnds DEF IInv
  <2>3. InvQueue'
    BY <1>1, <1>4, <1>7, <2>1, <2>2 DEF CalmInv, InvQueue
  <2>4. InvIndex'
    BY <1>1, <1>4, <1>7, <2>1 DEF CalmInv, InvIndex
  <2> QED
    BY <1>1, <1>4, <2>3, <2>4 DEF CalmInv, InvRecord
<1> QED
  BY <1>6, <1>8, <1>9, PostShape DEF IInv

\* Giving the semaphore touches no record.
LEMMA CalmGive ==
  ASSUME IInv, CalmInv, TypeOK', SaveGive
  PROVE  CalmInv'
<1>1. /\ UNCHANGED <<queue, al_pc, al_msg, al_idx, al_rec, ts_idx, index, alarm_ts, save_sta,
                     item_ts, info, records, raised, calm, alarm_sta, relay>>
      /\ ts_pc' = "delay"
  BY DEF SaveGive, notify, saver, flash
<1> QED
  BY <1>1 DEF CalmInv, InvQueue, InvIndex, InvRecord, InvRelay, RecordsComplete, Undisturbed,
     KindMsg, SaveMsg, RaiseQueued, SaveQueued, Asking, Storing, Raising, Recorded, Saved,
     AlarmIdle, Deciding

\* Alarm_task takes the oldest message: the alarm's own before the seconds.
LEMMA CalmReceive ==
  ASSUME IInv, CalmInv, TypeOK', AlarmReceive
  PROVE  CalmInv'
<1> USE DEF KindMsg, SaveMsg, RaiseQueued, SaveQueued, Asking, Storing, Raising, Recorded, Saved, Deciding
<1>1. /\ UNCHANGED <<al_idx, al_rec, ts_pc, ts_idx, index, alarm_ts, save_sta,
                     item_ts, info, records, raised, calm, alarm_sta, relay>>
      /\ al_pc = "drain"
  BY DEF AlarmReceive, notify, syncer, flash
<1>2. RecordsComplete'
  BY <1>1 DEF CalmInv, RecordsComplete
<1>3. CASE queue = <<>>
  <2>1. al_pc' = "wait" /\ UNCHANGED <<queue, al_msg>>
    BY <1>3 DEF AlarmReceive
  <2> QED
    BY <1>1, <1>2, <1>3, <2>1 DEF CalmInv, InvQueue, InvIndex, InvRecord, InvRelay, Undisturbed, AlarmIdle
<1>4. CASE queue # <<>>
  <2>1. /\ al_msg' = queue[1] /\ queue' = Tail(queue) /\ queue[1] \in Msgs
        /\ al_pc' = IF queue[1].type = SAVE THEN "read" ELSE "relay"
    <3>1. Head(queue) = queue[1] /\ queue[1] \in Msgs
      BY <1>4, QueueEnds, HeadTailProperties DEF IInv, TypeOK
    <3> QED
      BY <1>4, <3>1 DEF AlarmReceive
  <2>2. /\ Len(queue') = Len(queue) - 1 /\ Len(queue) \in Nat \ {0}
        /\ \A i \in 1..Len(queue') : queue'[i] = queue[i + 1]
        /\ queue' = <<>> <=> Len(queue) = 1
    <3>1. Len(Tail(queue)) = Len(queue) - 1 /\ \A i \in 1..Len(Tail(queue)) : Tail(queue)[i] = queue[i + 1]
      BY <1>4, HeadTailProperties DEF IInv, TypeOK
    <3>2. queue' = <<>> <=> Len(queue') = 0
      BY EmptySeq DEF TypeOK
    <3> QED
      BY <1>4, <2>1, <3>1, <3>2, QueueEnds DEF IInv
  <2>3. queue[1].type \in Kinds \cup {SAVE} /\ SAVE \notin Kinds
    BY <2>1, AlarmAssumption DEF Msgs
  <2>4. InvRelay'
    BY <1>1, <1>4, <2>1, <2>2, <2>3 DEF CalmInv, InvRelay
  <2> SUFFICES ASSUME Undisturbed PROVE InvQueue' /\ InvIndex' /\ InvRecord'
    BY <1>1, <1>2, <2>4 DEF CalmInv, InvQueue, InvIndex, InvRecord, Undisturbed
  <2>5. CASE Len(queue) = 1 /\ RaiseQueued
    <3>1. /\ queue' = <<>> /\ Len(queue') = 0 /\ al_pc' = "relay" /\ KindMsg(al_msg)'
          /\ Raising' /\ ~Asking' /\ ~Storing' /\ ~RaiseQueued' /\ ~SaveQueued'
      BY <1>1, <2>1, <2>2, <2>3, <2>5
    <3>2. ~SaveQueued /\ index = 0
      BY <2>3, <2>5 DEF CalmInv, InvIndex
    <3>3. InvQueue' /\ InvIndex'
      BY <1>1, <3>1, <3>2 DEF CalmInv, InvQueue, InvIndex
    <3> QED
      BY <1>1, <1>4, <3>1, <3>3 DEF CalmInv, InvRecord, AlarmIdle
  <2>6. CASE Len(queue) = 1 /\ SaveQueued
    <3>1. /\ queue' = <<>> /\ Len(queue') = 0 /\ al_pc' = "read" /\ SaveMsg(al_msg)'
          /\ Asking' /\ ~Raising' /\ ~Storing' /\ ~RaiseQueued' /\ ~SaveQueued' /\ ~RaiseQueued
      BY <1>1, <2>1, <2>2, <2>3, <2>6
    <3>2. ~Deciding /\ index < SaveSeconds /\ ~Raising /\ ~Storing
      BY <1>1, <2>6 DEF CalmInv, InvQueue, InvIndex, IInv, TypeOK
    <3>3. InvQueue' /\ InvIndex'
      BY <1>1, <3>1, <3>2 DEF CalmInv, InvQueue, InvIndex
    <3> QED
      BY <1>1, <1>4, <3>1, <3>2, <3>3 DEF CalmInv, InvRecord, AlarmIdle
  <2>7. CASE Len(queue) = 2
    <3>1. RaiseQueued /\ SaveQueued /\ queue'[1] = queue[2] /\ Len(queue') = 1 /\ queue' # <<>>
      BY <2>2, <2>7 DEF CalmInv, InvQueue
    <3>2. al_pc' = "relay" /\ SaveQueued' /\ ~RaiseQueued'
      BY <1>1, <2>1, <2>3, <2>7, <3>1
    <3>3. Raising' /\ ~Asking' /\ ~Storing' /\ KindMsg(al_msg)'
      BY <1>1, <2>1, <3>1, <3>2
    <3>4. ~Deciding /\ index = 0 /\ index < SaveSeconds
      BY <1>1, <3>1 DEF CalmInv, InvQueue, InvIndex, IInv, TypeOK
    <3>5. InvQueue' /\ InvIndex'
      BY <1>1, <3>1, <3>2, <3>3, <3>4 DEF CalmInv, InvQueue, InvIndex
    <3> QED
      BY <1>1, <1>4, <3>3, <3>5 DEF CalmInv, InvRecord, AlarmIdle
  <2> QED
    BY <2>2, <2>5, <2>6, <2>7 DEF CalmInv, InvQueue
<1> QED
  BY <1>3, <1>4

\* Alarm_task from the relay to the start of the record.
LEMMA CalmStart ==
  ASSUME IInv, CalmInv, TypeOK', AlarmWake \/ AlarmRelay \/ WriteAlarmMsg
  PROVE  CalmInv'
<1> USE DEF Undisturbed, KindMsg, SaveMsg, RaiseQueued, SaveQueued, Asking, Storing, Raising, Recorded, Saved, Deciding
<1>1. CASE AlarmWake
  <2>1. /\ UNCHANGED <<queue, al_msg, al_idx, al_rec, ts_pc, ts_idx, index, alarm_ts, save_sta,
                       item_ts, info, records, raised, calm, alarm_sta, relay>>
        /\ al_pc = "wait" /\ al_pc' = "drain"
    BY <1>1 DEF AlarmWake, notify, syncer, flash
  <2> QED
    BY <2>1 DEF CalmInv, InvQueue, InvIndex, InvRecord, InvRelay, RecordsComplete, AlarmIdle
<1>2. CASE AlarmRelay
  <2>1. /\ UNCHANGED <<queue, al_msg, al_idx, al_rec, ts_pc, ts_idx, index, alarm_ts, save_sta,
                       item_ts, info, records, raised, calm, alarm_sta>>
        /\ al_pc = "relay" /\ al_pc' = "msg" /\ relay'
    BY <1>2 DEF AlarmRelay, notify, syncer, flash
  <2> QED
    BY <2>1 DEF CalmInv, InvQueue, InvIndex, InvRecord, InvRelay, RecordsComplete, AlarmIdle
<1>3. CASE WriteAlarmMsg
  <2>1. /\ UNCHANGED <<queue, al_msg, al_idx, al_rec, ts_pc, ts_idx, index, alarm_ts, save_sta,
                       records, raised, alarm_sta, relay>>
        /\ al_pc = "msg" /\ al_pc' = "drain"
        /\ calm' => calm /\ item_ts' = al_msg.ts /\ info' = <<>>
    BY <1>3 DEF WriteAlarmMsg, notify, syncer
  <2>2. Undisturbed => index = 0 /\ al_msg.ts = alarm_ts + 1 /\ ~RaiseQueued
    BY <2>1 DEF CalmInv, InvQueue, InvIndex
  <2>3. [k \in 1..0 |-> alarm_ts + (k - 1)] = <<>>
    OBVIOUS
  <2>4. InvQueue' /\ InvIndex' /\ InvRelay' /\ RecordsComplete'
    BY <2>1 DEF CalmInv, InvQueue, InvIndex, InvRelay, RecordsComplete
  <2>5. Undisturbed => save_sta = "STR_SAVE"
    BY <2>1 DEF CalmInv, InvRecord, AlarmIdle, IInv, TypeOK
  <2>6. Undisturbed' => info' = Saved(0)' /\ item_ts' = alarm_ts' + 1 /\ index' # SaveSeconds
    BY <2>1, <2>2, <2>3, AlarmAssumption
  <2> QED
    BY <2>1, <2>2, <2>4, <2>5, <2>6 DEF CalmInv, InvRecord, AlarmIdle
<1> QED
  BY <1>1, <1>2, <1>3

\* Alarm_task from the eMMC to the counter.
LEMMA CalmSecond ==
  ASSUME IInv, CalmInv, TypeOK', ReadFound \/ ReadMissing \/ IndexLoad \/ IndexStore \/ InfoArgs
  PROVE  CalmInv'
<1> USE DEF Undisturbed, KindMsg, SaveMsg, RaiseQueued, SaveQueued, Asking, Storing, Raising, Recorded, Saved, Deciding
<1>1. CASE ReadFound \/ ReadMissing
  <2>1. /\ UNCHANGED <<queue, al_msg, al_idx, al_rec, ts_pc, ts_idx, index, alarm_ts, save_sta,
                       item_ts, info, records, raised, calm, alarm_sta, relay>>
        /\ al_pc = "read" /\ al_pc' \in {"load", "drain"}
    BY <1>1 DEF ReadFound, ReadMissing, notify, syncer, flash
  <2> QED
    BY <2>1 DEF CalmInv, InvQueue, InvIndex, InvRecord, InvRelay, RecordsComplete, AlarmIdle
<1>2. CASE IndexLoad
  <2>1. /\ UNCHANGED <<queue, al_msg, al_rec, ts_pc, ts_idx, index, alarm_ts, save_sta,
                       item_ts, info, records, raised, calm, alarm_sta, relay>>
        /\ al_pc = "load" /\ al_pc' = "store" /\ al_idx' = index
    BY <1>2 DEF IndexLoad, notify, syncer, flash
  <2> QED
    BY <2>1 DEF CalmInv, InvQueue, InvIndex, InvRecord, InvRelay, RecordsComplete, AlarmIdle
<1>3. CASE IndexStore
  <2>1. /\ UNCHANGED <<queue, al_msg, al_rec, ts_pc, ts_idx, alarm_ts, save_sta,
                       item_ts, info, records, raised, calm, alarm_sta, relay>>
        /\ al_pc = "store" /\ al_pc' = "args" /\ index' = (al_idx + 1) % 256
    BY <1>3 DEF IndexStore, syncer, flash
  <2>2. Undisturbed => /\ index' = index + 1 /\ queue = <<>> /\ ~Deciding
                       /\ index' \in 1..SaveSeconds /\ al_msg.ts = alarm_ts + (index' - 1)
    <3>1. Undisturbed => /\ al_idx = index /\ queue = <<>> /\ ~Deciding
                         /\ index < SaveSeconds /\ al_msg.ts = alarm_ts + index
      BY <2>1 DEF CalmInv, InvQueue, InvIndex, IInv, TypeOK
    <3>2. index \in Nat /\ SaveSeconds \in 1..200 /\ alarm_ts \in Nat
      BY AlarmAssumption DEF IInv, TypeOK
    <3>3. Undisturbed => index' = index + 1 /\ index' \in 1..SaveSeconds
      <4>1. Undisturbed => index + 1 \in 0..255
        BY <3>1, <3>2
      <4>2. \A n \in 0..255 : n % 256 = n
        OBVIOUS
      <4> QED
        BY <2>1, <3>1, <3>2, <4>1, <4>2
    <3> QED
      BY <3>1, <3>2, <3>3
  <2>3. InvQueue' /\ InvIndex' /\ InvRelay'
    BY <2>1, <2>2, AlarmAssumption DEF CalmInv, InvQueue, InvIndex, InvRelay
  <2>4. Undisturbed => index' - 1 = index
    BY <2>2 DEF IInv, TypeOK
  <2>5. Undisturbed => save_sta = "STR_SAVE" /\ ~RaiseQueued
    BY <2>1, <2>2 DEF CalmInv, InvRecord, AlarmIdle, IInv, TypeOK
  <2>6. Undisturbed => item_ts = alarm_ts + 1 /\ info = Saved(index)
    BY <2>1, <2>5 DEF CalmInv, InvRecord
  <2>7. RecordsComplete'
    BY <2>1 DEF CalmInv, RecordsComplete
  <2>8. Undisturbed' => info' = Saved(index - 1)' /\ item_ts' = alarm_ts' + 1 /\ save_sta' = "STR_SAVE"
    BY <2>1, <2>2, <2>4, <2>5, <2>6
  <2> QED
    BY <2>1, <2>3, <2>7, <2>8 DEF CalmInv, InvRecord
<1>4. CASE InfoArgs
  <2>1. /\ UNCHANGED <<queue, al_msg, ts_pc, ts_idx, index, alarm_ts, save_sta,
                       item_ts, info, records, raised, calm, alarm_sta, relay>>
        /\ al_pc = "args" /\ al_pc' = "info" /\ al_rec' = alarm_ts + 1 /\ al_idx' = index
    BY <1>4 DEF InfoArgs, notify, syncer, flash
  <2> QED
    BY <2>1 DEF CalmInv, InvQueue, InvIndex, InvRecord, InvRelay, RecordsComplete, AlarmIdle
<1> QED
  BY <1>1, <1>2, <1>3, <1>4

\* The last second of an undisturbed alarm completes its record.
LEMMA CalmInfo ==
  ASSUME IInv, CalmInv, TypeOK', WriteAlarmInfo
  PROVE  CalmInv'
<1> USE DEF Undisturbed, KindMsg, SaveMsg, RaiseQueued, SaveQueued, Asking, Storing, Raising, Recorded, Deciding
<1> DEFINE r == [ts |-> item_ts, secs |-> Append(info, al_msg.ts), calm |-> calm]
<1>1. /\ UNCHANGED <<queue, al_msg, ts_pc, ts_idx, index, alarm_ts, save_sta,
                     item_ts, raised, alarm_sta, relay>>
      /\ al_pc = "info" /\ al_pc' = "drain" /\ (calm' => calm)
  BY DEF WriteAlarmInfo, notify, syncer
<1>2. InvQueue' /\ InvIndex' /\ InvRelay'
  BY <1>1 DEF CalmInv, InvQueue, InvIndex, InvRelay
<1>3. Undisturbed => /\ index \in 1..SaveSeconds /\ al_idx = index /\ al_rec = item_ts
                     /\ queue = <<>> /\ save_sta = "STR_SAVE" /\ item_ts = alarm_ts + 1
                     /\ info = Saved(index - 1) /\ al_msg.ts = alarm_ts + (index - 1)
  BY <1>1, AlarmAssumption DEF CalmInv, InvQueue, InvIndex, InvRecord, AlarmIdle, IInv, TypeOK
<1>4. Undisturbed => Append(info, al_msg.ts) = Saved(index)
  <2> SUFFICES ASSUME Undisturbed PROVE Append(info, al_msg.ts) = Saved(index)
    OBVIOUS
  <2> DEFINE a == Append(info, al_msg.ts)
  <2>1. index - 1 \in Nat /\ index \in Nat /\ alarm_ts \in Nat /\ alarm_ts + (index - 1) \in Nat
    BY <1>3 DEF IInv, TypeOK
  <2>2. info \in Seq(Nat) /\ DOMAIN info = 1..index - 1
    BY <1>3 DEF IInv, TypeOK, Saved
  <2>3. Len(info) = index - 1
    BY <2>1, <2>2, LenProperties
  <2>4. /\ a \in Seq(Nat) /\ Len(a) = index /\ a[index] = alarm_ts + (index - 1)
        /\ \A i \in 1..index - 1 : a[i] = info[i]
    BY <1>3, <2>1, <2>2, <2>3, AppendProperties
  <2>5. Saved(index) \in [1..index -> Nat]
    BY <2>1 DEF Saved
  <2>6. a \in [1..index -> Nat]
    BY <2>4, LenProperties
  <2> HIDE DEF a
  <2>7. ASSUME NEW i \in 1..index PROVE a[i] = Saved(index)[i]
    <3>1. CASE i = index
      BY <2>4, <3>1 DEF Saved
    <3>2. CASE i # index
      <4>1. i \in 1..index - 1
        BY <2>1, <3>2
      <4> QED
        BY <1>3, <2>4, <4>1 DEF Saved
    <3> QED
      BY <3>1, <3>2
  <2>8. a = Saved(index)
    BY <2>5, <2>6, <2>7, SameFunction
  <2> QED
    BY <2>8 DEF a
<1>5. /\ records' = records \/ records' = records \cup {r}
      /\ calm' /\ Undisturbed => /\ info' = Append(info, al_msg.ts)
                                /\ records' = IF Last(al_idx) THEN records \cup {r} ELSE records
  BY <1>1, <1>3 DEF WriteAlarmInfo
<1>6. RecordsComplete'
  <2> SUFFICES ASSUME NEW q \in records', q.calm
               PROVE  q.secs = [k \in 1..SaveSeconds |-> (q.ts - 1) + (k - 1)]
    BY DEF RecordsComplete
  <2>1. CASE q \in records
    BY <2>1 DEF CalmInv, RecordsComplete
  <2>2. CASE q = r /\ records' = records \cup {r} /\ q \notin records
    <3>1. Undisturbed
      BY <1>1, <2>2 DEF IInv, InvFresh, TypeOK
    <3>2. Last(al_idx) \/ ~calm'
      BY <1>5, <2>2, <3>1
    <3>3. q.secs = Saved(index) /\ q.ts = alarm_ts + 1
      BY <1>3, <1>4, <2>2, <3>1
    <3>4. Last(al_idx) => index = SaveSeconds
      BY <1>3, <3>1, AlarmAssumption DEF Last, IInv, TypeOK
    <3>5. calm'
      BY <2>2, <3>1, <1>1 DEF WriteAlarmInfo
    <3> QED
      BY <3>2, <3>3, <3>4, <3>5 DEF Saved, IInv, TypeOK
  <2> QED
    BY <1>5, <2>1, <2>2
<1>7. InvRecord'
  <2> SUFFICES ASSUME calm', Undisturbed PROVE InvRecord'
    BY <1>1 DEF InvRecord
  <2>1. info' = Saved(index) /\ index' = index /\ alarm_ts' = alarm_ts
    BY <1>1, <1>4, <1>5
  <2>2. index = SaveSeconds => Recorded'
    <3> SUFFICES ASSUME index = SaveSeconds PROVE Recorded'
      OBVIOUS
    <3>1. r \in records' /\ r.ts = alarm_ts + 1 /\ r.calm
      BY <1>3, <1>5, AlarmAssumption DEF Last
    <3> QED
      BY <1>1, <3>1
  <2> QED
    BY <1>1, <1>3, <2>1, <2>2 DEF InvRecord, Saved
<1> QED
  BY <1>2, <1>6, <1>7 DEF CalmInv

\* An erase disturbs every record.
LEMMA CalmErase ==
  ASSUME IInv, CalmInv, TypeOK', kt_ClearData
  PROVE  CalmInv'
<1>1. CASE UNCHANGED <<info, records, calm>>
  BY <1>1, RecordFrame DEF kt_ClearData, record, notify, syncer, saver, CalmInv, InvRelay, RaiseQueued, KindMsg
<1>2. CASE records' = {} /\ ~calm'
  BY <1>2 DEF CalmInv, InvQueue, InvIndex, InvRecord, InvRelay, RecordsComplete, Undisturbed
<1> QED
  BY <1>1, <1>2 DEF kt_ClearData

\* The alarm path starts idle.
LEMMA InvInit == Init => IInv
<1> SUFFICES ASSUME Init PROVE IInv
  OBVIOUS
<1> USE AlarmAssumption DEF Init
<1>1. TypeOK
  <2>1. <<>> \in Seq(Msgs) /\ <<>> \in Seq(Nat) /\ Len(<<>>) = 0
    BY EmptySeq
  <2>2. sec \in Nat /\ rtc \in Nat /\ boot_ts \in Nat \ {0, 1}
    <3>1. sec \in {0, StartSec} /\ boot_ts = sec + 2
      OBVIOUS
    <3> QED
      BY <3>1
  <2>3. al_msg \in Msgs \cup {NoMsg}
    OBVIOUS
  <2>4. sem \in BOOLEAN /\ relay \in BOOLEAN /\ armed \in BOOLEAN /\ calm \in BOOLEAN
    OBVIOUS
  <2>5. queue \in Seq(Msgs) /\ Len(queue) <= QueueLen /\ info \in Seq(Nat)
    BY <2>1
  <2>6. /\ type \in Kinds \cup {NONE} /\ num \in Nat /\ index \in 0..255
        /\ alarm_sta = "CLEARED" /\ save_sta = "END_SAVE" /\ alarm_ts \in Nat
        /\ ts_pc = "delay" /\ ts_idx \in 0..255 /\ al_pc = "wait"
        /\ al_idx \in 0..255 /\ al_rec \in Nat /\ item_ts \in Nat /\ raised \in Nat
        /\ records = {}
    OBVIOUS
  <2> QED
    BY <2>2, <2>3, <2>4, <2>5, <2>6 DEF TypeOK
<1>2. NumBounded /\ NoLostWakeup /\ InvSync /\ InvFresh /\ InvNum
  BY DEF NumBounded, NoLostWakeup, InvSync, InvFresh, InvNum
<1>3. InvQueue /\ InvIndex /\ InvRecord /\ InvRelay /\ RecordsComplete
  BY DEF InvQueue, InvIndex, InvRecord, InvRelay, RecordsComplete, Undisturbed
<1> QED
  BY <1>1, <1>2, <1>3 DEF IInv

\* Every step of the three tasks and of the host's commands keeps the invariant.
LEMMA InvStep == IInv /\ [Next]_vars => IInv'
<1> SUFFICES ASSUME IInv, [Next]_vars PROVE IInv'
  OBVIOUS
<1>1. CalmInv
  BY DEF IInv, CalmInv
<1>2. TypeOK'
  BY TypeStep DEF IInv
<1>3. NumBounded' /\ InvNum'
  BY NumStep DEF IInv
<1>4. NoLostWakeup'
  BY WakeStep DEF IInv
<1>5. InvSync' /\ InvFresh'
  BY SyncStep DEF IInv
<1>6. CalmInv'
  <2>1. CASE \/ Rebase \/ Adc_Clear_Alarm \/ CheckNormal \/ kt_ClearConfig \/ UNCHANGED vars
             \/ \E t \in Kinds : CheckNewType(t) \/ CheckSameType(t)
    BY <1>1, <1>2, <2>1, CalmSampler
  <2>2. CASE \E t \in Kinds : CheckRaise(t)
    BY <1>1, <1>2, <2>2, CalmRaise
  <2>3. CASE time_sync_task
    BY <1>1, <1>2, <2>3, CalmSync, CalmSend, CalmGive DEF time_sync_task
  <2>4. CASE alarm_task
    BY <1>1, <1>2, <2>4, CalmReceive, CalmStart, CalmSecond, CalmInfo DEF alarm_task
  <2>5. CASE kt_ClearData
    BY <1>1, <1>2, <2>5, CalmErase
  <2> QED
    BY <2>1, <2>2, <2>3, <2>4, <2>5 DEF Next, sample_task, msg_proc_task
<1> QED
  BY <1>2, <1>3, <1>4, <1>5, <1>6 DEF IInv, CalmInv

\* So it holds in every reachable state.
LEMMA Invariance == Spec => []IInv
  BY InvInit, InvStep, PTL DEF Spec
\* A queued request of an undisturbed alarm is the newest message.
LEMMA OnItsWay ==
  ASSUME IInv, calm, NEW i \in DOMAIN queue, queue[i].type = SAVE
  PROVE  Undisturbed /\ SaveQueued /\ i = Len(queue)
<1>1. Undisturbed
  <2>1. queue # <<>>
    OBVIOUS
  <2> QED
    BY <2>1 DEF Undisturbed, IInv, InvFresh, TypeOK
<1>2. Len(queue) \in Nat /\ i \in 1..Len(queue) /\ queue # <<>>
  BY QueueEnds DEF IInv
<1>3. Len(queue) <= 2
  BY <1>1 DEF IInv, InvQueue
<1>4. (Len(queue) = 1 \/ Len(queue) = 2) /\ (i = 1 \/ i = Len(queue))
  BY <1>2, <1>3, Ends
<1>5. SAVE \notin Kinds
  BY AlarmAssumption
<1>6. CASE Len(queue) = 1
  BY <1>1, <1>4, <1>5, <1>6 DEF IInv, InvQueue, RaiseQueued, KindMsg
<1>7. CASE Len(queue) = 2
  <2>1. SaveQueued /\ queue[1].type # SAVE
    BY <1>1, <1>5, <1>7 DEF IInv, InvQueue, RaiseQueued, KindMsg
  <2> QED
    BY <1>1, <1>4, <2>1
<1> QED
  BY <1>4, <1>6, <1>7

-----------------------------------------------------------------------------
\* Every variable keeps its type: in particular a full alarm_queue never grows,
\* index stays a byte and alarm_ts never goes below 0.
THEOREM TypeCorrect == Spec => []TypeOK
<1>1. IInv => TypeOK
  BY DEF IInv
<1> QED
  BY <1>1, Invariance, PTL

\* The count of Adc_Check_Alarm never passes the debounce count, although no raise
\* resets it: its byte never overflows.
THEOREM DebounceBounded == Spec => []NumBounded
<1>1. IInv => NumBounded
  BY DEF IInv
<1> QED
  BY <1>1, Invariance, PTL

\* Alarm_task never waits for alarm_sem with a message in alarm_queue, but for
\* the time between the two calls of Adc_Save_Alarm that send and give.
THEOREM NeverAsleep == Spec => []NoLostWakeup
<1>1. IInv => NoLostWakeup
  BY DEF IInv
<1> QED
  BY <1>1, Invariance, PTL

\* The record of an undisturbed alarm, as Storage_Write_AlarmInfo closes it, holds
\* the seconds around the alarm, each once and in order.
THEOREM RecordsAreComplete == Spec => []RecordsComplete
<1>1. IInv => RecordsComplete
  BY DEF IInv
<1> QED
  BY <1>1, Invariance, PTL

\* Adc_Save_Alarm ends the saving of an undisturbed alarm only after
\* Storage_Write_AlarmInfo wrote its index entry.
THEOREM AlarmsAreRecorded == Spec => []NoAlarmLost
<1>1. IInv => NoAlarmLost
  BY DEF IInv, InvRecord, NoAlarmLost, Undisturbed, Recorded
<1> QED
  BY <1>1, Invariance, PTL

\* Adc_Save_Alarm asks for the first second not yet saved, although it reads index
\* while alarm_task may change it.
THEOREM SecondsInTurn == Spec => []AsksNextSecond
<1>1. IInv => AsksNextSecond
  BY OnItsWay DEF AsksNextSecond, SaveQueued, SaveMsg
<1> QED
  BY <1>1, Invariance, PTL

\* The contact of an undisturbed, uncleared alarm is short-circuited once alarm_task
\* took its message.
THEOREM RelayFollows == Spec => []RaisedMeansRelay
<1>1. IInv => RaisedMeansRelay
  <2>1. ASSUME IInv, RaiseQueued PROVE RaisePending
    BY <2>1, QueueEnds DEF IInv, RaiseQueued, KindMsg, RaisePending
  <2> QED
    BY <2>1 DEF IInv, InvRelay, RaisedMeansRelay, RaisePending
<1> QED
  BY <1>1, Invariance, PTL
-----------------------------------------------------------------------------
\* A second that is asked for is over: while one is being asked for, or its
\* message is queued, the clock has passed the first second not yet saved.
SaveOnWay == \E i \in DOMAIN queue : queue[i].type = SAVE

InvPast ==
  calm /\ ~ClockJumps /\ (Deciding \/ SaveOnWay) => alarm_ts + index < rtc

\* The clock does not go back, and neither the alarm's time nor the index moves
\* while a second is asked for or queued.
LEMMA PastStep == IInv /\ InvPast /\ [Next]_vars => InvPast'
<1> SUFFICES ASSUME IInv, InvPast, [Next]_vars, calm', ~ClockJumps,
                    Deciding' \/ SaveOnWay'
             PROVE  alarm_ts' + index' < rtc'
  BY DEF InvPast
<1> USE DEF Deciding
<1> DEFINE seen == <<queue, ts_pc, alarm_ts, index, rtc>>
<1>1. ASSUME UNCHANGED seen, calm' => calm PROVE alarm_ts' + index' < rtc'
  BY <1>1 DEF InvPast, SaveOnWay
<1>2. ASSUME Deciding, calm PROVE ~SaveOnWay /\ Undisturbed /\ ~Asking
  <2>1. Undisturbed
    BY <1>2 DEF IInv, TypeOK, InvSync, InvFresh, Undisturbed
  <2> QED
    BY <1>2, <2>1, OnItsWay DEF IInv, InvQueue, SaveOnWay
<1>3. ASSUME NEW t \in Kinds, CheckRaise(t) PROVE FALSE
  <2>1. queue = <<>> /\ Len(queue) = 0 /\ 0 < QueueLen
    BY <1>3, AlarmAssumption DEF CheckRaise, AlarmIdle
  <2>2. queue' = <<[type |-> t, ts |-> sec]>>
    BY <1>3, <2>1 DEF CheckRaise, Post
  <2>3. ~SaveOnWay'
    BY <2>2, AlarmAssumption DEF SaveOnWay
  <2>4. ~Deciding'
    BY <1>3 DEF CheckRaise, Ignored, IInv, InvSync, syncer
  <2> QED
    BY <2>3, <2>4
<1>4. CASE TimeSync
  <2>1. rtc' \in {rtc, rtc + 1} /\ UNCHANGED <<queue, alarm_ts, index>> /\ ts_pc = "delay"
    BY <1>4 DEF TimeSync, notify
  <2>2. CASE ts_pc' = "save"
    BY <1>4, <2>1, <2>2 DEF TimeSync
  <2>3. CASE ts_pc' # "save"
    <3>1. SaveOnWay /\ calm
      BY <1>4, <2>1, <2>3 DEF TimeSync, SaveOnWay
    <3>2. alarm_ts + index < rtc /\ alarm_ts + index \in Nat /\ rtc \in Nat
      BY <3>1 DEF InvPast, IInv, TypeOK
    <3>3. CASE rtc' = rtc
      BY <2>1, <3>2, <3>3
    <3>4. CASE rtc' = rtc + 1
      BY <2>1, <3>2, <3>4
    <3> QED
      BY <2>1, <3>3, <3>4
  <2> QED
    BY <2>2, <2>3
<1>5. CASE SaveTimeout \/ SaveAsk
  <2>1. Deciding /\ UNCHANGED <<alarm_ts, index, rtc, calm>>
    BY <1>5 DEF SaveTimeout, SaveAsk, notify, sampler
  <2> QED
    BY <2>1 DEF InvPast
<1>6. CASE SaveEnd
  <2>1. Deciding /\ ~Deciding' /\ UNCHANGED <<queue, calm>>
    BY <1>6 DEF SaveEnd
  <2> QED
    BY <1>2, <2>1 DEF SaveOnWay
<1>7. CASE SaveSend
  <2>1. Deciding /\ UNCHANGED <<alarm_ts, index, rtc, calm>>
    BY <1>7 DEF SaveSend, notify, sampler
  <2> QED
    BY <2>1 DEF InvPast
<1>12. CASE SaveGive
  <2>1. ~Deciding' /\ UNCHANGED <<queue, alarm_ts, index, rtc, calm>>
    BY <1>12 DEF SaveGive, notify, sampler
  <2> QED
    BY <2>1 DEF InvPast, SaveOnWay
<1>8. CASE AlarmReceive
  <2>1. UNCHANGED <<ts_pc, alarm_ts, index, rtc, calm>> /\ queue' \in {queue, Tail(queue)}
    BY <1>8 DEF AlarmReceive, notify, sampler, syncer
  <2>2. CASE queue' = queue
    BY <1>1, <2>1, <2>2
  <2>3. CASE queue' # queue
    <3>1. queue # <<>> /\ queue' = Tail(queue)
      BY <1>8, <2>3 DEF AlarmReceive
    <3>2. \A i \in DOMAIN queue' : i + 1 \in DOMAIN queue /\ queue'[i] = queue[i + 1]
      BY <3>1, HeadTailProperties, QueueEnds DEF IInv, TypeOK
    <3>3. SaveOnWay' => SaveOnWay
      BY <3>2 DEF SaveOnWay
    <3> QED
      BY <2>1, <3>3 DEF InvPast
  <2> QED
    BY <2>2, <2>3
<1>9. CASE IndexStore
  <2>1. Asking /\ UNCHANGED <<queue, ts_pc, calm>>
    BY <1>9 DEF IndexStore, Asking, syncer
  <2>2. ~Deciding
    BY <1>2, <2>1
  <2>3. SaveOnWay /\ calm
    BY <2>1, <2>2 DEF SaveOnWay
  <2>4. queue = <<>>
    BY <2>1, <2>3, OnItsWay DEF IInv, InvQueue, SaveOnWay
  <2> QED
    BY <2>3, <2>4 DEF SaveOnWay
<1>10. CASE \/ AlarmWake \/ AlarmRelay \/ WriteAlarmMsg \/ ReadFound \/ ReadMissing
            \/ IndexLoad \/ InfoArgs \/ WriteAlarmInfo
  <2>1. UNCHANGED seen /\ (calm' => calm)
    BY <1>10 DEF AlarmWake, AlarmRelay, WriteAlarmMsg, ReadFound, ReadMissing, IndexLoad,
       InfoArgs, WriteAlarmInfo, notify, sampler, syncer
  <2> QED
    BY <1>1, <2>1
<1>11. CASE \/ Rebase \/ Adc_Clear_Alarm \/ CheckNormal \/ msg_proc_task \/ UNCHANGED vars
            \/ \E t \in Kinds : CheckNewType(t) \/ CheckSameType(t)
  <2>1. UNCHANGED seen /\ (calm' => calm)
    BY <1>11 DEF Rebase, Adc_Clear_Alarm, CheckNormal, msg_proc_task, kt_ClearData,
       kt_ClearConfig, CheckNewType, CheckSameType, vars, notify, sampler, syncer
  <2> QED
    BY <1>1, <2>1
<1> QED
  BY <1>3, <1>4, <1>5, <1>6, <1>7, <1>8, <1>9, <1>10, <1>11, <1>12
     DEF Next, sample_task, time_sync_task, alarm_task

\* As long as nobody sets the clock, a second of an undisturbed alarm is asked for
\* only when its last sample has been taken.
THEOREM SecondsAreOver == Spec => []AsksPastSeconds
<1>1. Init => InvPast
  BY DEF Init, InvPast, SaveOnWay, Deciding
<1>2. IInv /\ InvPast => AsksPastSeconds
  <2> SUFFICES ASSUME IInv, InvPast, calm, ~ClockJumps,
                      NEW i \in DOMAIN queue, queue[i].type = SAVE
               PROVE  queue[i].ts < rtc
    BY DEF AsksPastSeconds
  <2>1. SaveOnWay
    BY DEF SaveOnWay
  <2>2. queue[i].ts = alarm_ts + index
    BY OnItsWay DEF SaveQueued, SaveMsg
  <2> QED
    BY <2>1, <2>2 DEF InvPast
<1> QED
  BY <1>1, <1>2, PastStep, Invariance, PTL DEF Spec
=============================================================================
