---------------------------- MODULE AlarmNotify ----------------------------
(***************************************************************************)
(* The alarm path of src/app/adc_sample.c and src/app/storage_manage.c:    *)
(* sample_task detects an alarm, time_sync_task asks once a second for one *)
(* more second of samples to be saved, alarm_task drives the relay and     *)
(* copies the seconds asked for from the eMMC into the NOR flash.  The     *)
(* three meet in g_AlarmNotify, its queue and its semaphore.               *)
(*                                                                         *)
(* Granularity.  sample_task has the highest priority and blocks on        *)
(* nothing but the mutex, so a call it makes is one step, disabled while   *)
(* time_sync_task is inside Adc_Save_Alarm.  time_sync_task and alarm_task *)
(* have the same priority and are time sliced: they are cut wherever they  *)
(* touch what the other one writes, and alarm_task touches index without   *)
(* the mutex.  What the alarm path reads from outside is nondeterministic: *)
(* the RTC, whether a second of samples is found in the eMMC, and whether  *)
(* the 50 ms wait for the alarm object's mutex is enough.                  *)
(***************************************************************************)
EXTENDS Naturals, Sequences

CONSTANTS
  Kinds,       \* the BUS_ALARM_* types a sample can show (FRONT, REAR, FRONT_REAR)
  NONE, SAVE,  \* BUS_ALARM_NONE and BUS_ALARM_SAVE
  Debounce,    \* the 5 of Adc_Check_Alarm
  SaveSeconds, \* the 3 seconds of an alarm record
  QueueLen,    \* the 5 slots of alarm_queue
  StartSec,    \* rtc_base_sec when sample_task starts
  MaxSec,      \* bound: the last second of the clock
  LastAlarmSec,\* bound: the last second in which a sample shows an alarm
  MaxAlarms,   \* bound: alarms raised in one behaviour
  ClockJumps   \* whether the RTC may be set, or read wrongly, to any second

ASSUME AlarmAssumption ==
  /\ NONE \notin Kinds /\ SAVE \notin Kinds /\ SAVE # NONE
  /\ Debounce \in Nat \ {0} /\ SaveSeconds \in 1..200 /\ QueueLen \in Nat \ {0}
  /\ StartSec \in Nat /\ MaxSec \in Nat /\ LastAlarmSec \in Nat /\ MaxAlarms \in Nat
  /\ ClockJumps \in BOOLEAN

VARIABLES
  type, num, alarm_sta, save_sta, index, alarm_ts, \* g_AlarmNotify
  queue, sem,      \* alarm_queue and the binary alarm_sem
  relay,           \* whether ALARM1 is short-circuited
  rtc,             \* g_TimeSync.rtc_base_sec
  sec, boot_ts,    \* sample_task: item.ts / 1000, and g_boot_ts
  armed,           \* cal_flag == DEV_CAL_END && flag == DEV_FLAG_NEXT_ON
  ts_pc, ts_idx,   \* time_sync_task: where it is, the index it tested (a register)
  al_pc, al_msg,   \* alarm_task: where it is, its message, and in registers,
  al_idx, al_rec,  \* index as loaded and the alarm passed to Storage_Write_AlarmInfo
  item_ts,         \* g_AlarmObject.index_item.timestamp
  info,            \* seconds written to the NOR since index_item, or a clear
  records,         \* alarm records whose index entry is written
  raised, calm     \* history: alarms raised; nothing disturbed the last one

notify == <<type, num, alarm_sta, save_sta, index, alarm_ts>>
sampler == <<rtc, sec, boot_ts, armed>>
syncer == <<ts_pc, ts_idx>>
saver == <<al_pc, al_msg, al_idx, al_rec>>
flash == <<item_ts, info, records>>
vars == <<notify, queue, sem, relay, sampler, syncer, saver, flash, raised, calm>>

Secs == 0..MaxSec
Msgs == [type : Kinds \cup {SAVE}, ts : Nat]
NoMsg == [type |-> NONE, ts |-> 0]

RaisePending == \/ \E i \in DOMAIN queue : queue[i].type \in Kinds
                \/ al_pc \in {"relay", "msg"}
SavePending == \/ \E i \in DOMAIN queue : queue[i].type = SAVE
               \/ al_pc \in {"read", "load", "store", "args", "info"}
AlarmIdle == queue = <<>> /\ al_pc \in {"wait", "drain"}

\* Time_sync_task does not hold the mutex of g_AlarmNotify.
Unlocked == ts_pc \notin {"send", "give"}
----------------------------------------------------------------------------
(* Sample_task, one millisecond after another.                             *)

\* The second of an alarm is the second of its fifth repetition.
Debounced(n) == n >= Debounce

\* g_sample_tick % 1000 == 0: the time stamp restarts from rtc_base_sec, or
\* from 0 when the TimeSync mutex is not obtained in 10 ms.
Rebase ==
  /\ sec' \in {rtc, 0}
  /\ UNCHANGED <<notify, queue, sem, relay, rtc, boot_ts, armed, syncer, saver,
                 flash, raised, calm>>

\* Adc_Clear_Alarm with the digital input inside its window (outside it the
\* call changes nothing).
Clearable == alarm_sta \in {"RAISED", "RECOVERY"}

Adc_Clear_Alarm ==
  /\ armed /\ Unlocked
  /\ Clearable
  /\ alarm_sta' = "CLEARED"
  /\ type' = NONE
  /\ relay' = FALSE
  /\ UNCHANGED <<num, save_sta, index, alarm_ts, queue, sem, sampler, syncer,
                 saver, flash, raised, calm>>

\* Adc_Check_Alarm, no threshold exceeded.
Mut_Recovered == "RECOVERY"
Recovered == IF alarm_sta = "RAISED" THEN "RECOVERY" ELSE alarm_sta

CheckNormal ==
  /\ armed /\ Unlocked
  /\ type' = NONE
  /\ alarm_sta' = Recovered
  /\ UNCHANGED <<num, save_sta, index, alarm_ts, queue, sem, relay, sampler,
                 syncer, saver, flash, raised, calm>>

\* The early return of Adc_Check_Alarm while a record is being saved or the
\* time stamp is before g_boot_ts.
Ignored == save_sta = "STR_SAVE" \/ boot_ts > sec

\* A type different from the last one restarts the count.
CheckNewType(t) ==
  /\ armed /\ Unlocked
  /\ ~Ignored /\ t # type
  /\ num' = 0 /\ type' = t
  /\ UNCHANGED <<alarm_sta, save_sta, index, alarm_ts, queue, sem, relay,
                 sampler, syncer, saver, flash, raised, calm>>

\* The same type is not counted while its alarm is raised.
Mut_Latched == alarm_sta = "RECOVERY"
Latched == alarm_sta = "RAISED"

\* The same type again, not often enough yet.
CheckSameType(t) ==
  /\ armed /\ Unlocked
  /\ ~Ignored /\ t = type /\ ~Latched
  /\ ~Debounced(num + 1)
  /\ num' = num + 1
  /\ UNCHANGED <<type, alarm_sta, save_sta, index, alarm_ts, queue, sem, relay,
                 sampler, syncer, saver, flash, raised, calm>>

\* The message is dropped when the queue is full: the state is set all the same.
Mut_PostFull(m) == queue' = Append(queue, m) /\ sem' = TRUE
Post(m) == IF Len(queue) < QueueLen
           THEN queue' = Append(queue, m) /\ sem' = TRUE
           ELSE UNCHANGED <<queue, sem>>

\* Raise: a record is opened one second before the alarm.
CheckRaise(t) ==
  /\ armed /\ Unlocked
  /\ ~Ignored /\ t = type /\ ~Latched
  /\ Debounced(num + 1)
  /\ sec <= LastAlarmSec /\ raised < MaxAlarms
  /\ num' = num + 1
  /\ alarm_sta' = "RAISED" /\ save_sta' = "STR_SAVE"
  /\ alarm_ts' = sec - 1
  /\ index' = 0
  /\ Post([type |-> t, ts |-> sec])
  /\ raised' = raised + 1
  /\ calm' = AlarmIdle
  /\ UNCHANGED <<type, relay, sampler, syncer, saver, flash>>
----------------------------------------------------------------------------
(* Time_sync_task, every 1000 ms.                                          *)

\* It reads the RTC and, without the mutex, looks whether the next second of
\* an open record is over.  A period that ends while alarm_task still works on
\* the second asked for before disturbs the record.
TimeSync ==
  /\ ts_pc = "delay"
  /\ rtc' \in IF ClockJumps THEN Secs ELSE {rtc, rtc + 1} \cap Secs
  /\ ts_pc' = IF save_sta = "STR_SAVE" /\ rtc' > alarm_ts + index
              THEN "save" ELSE "delay"
  /\ calm' = (calm /\ ~SavePending)
  /\ UNCHANGED <<notify, queue, sem, relay, sec, boot_ts, armed, ts_idx, saver,
                 flash, raised>>

\* Adc_Save_Alarm, the mutex not obtained.
SaveTimeout ==
  /\ ts_pc = "save" /\ ts_pc' = "delay"
  /\ UNCHANGED <<notify, queue, sem, relay, sampler, ts_idx, saver, flash,
                 raised, calm>>

\* All seconds are saved: the record is closed.
Mut_Done(i) == i = SaveSeconds
Done(i) == i >= SaveSeconds

SaveEnd ==
  /\ ts_pc = "save" /\ Done(index) /\ save_sta = "STR_SAVE"
  /\ save_sta' = "END_SAVE" /\ index' = 0
  /\ ts_pc' = "delay"
  /\ UNCHANGED <<type, num, alarm_sta, alarm_ts, queue, sem, relay, sampler,
                 ts_idx, saver, flash, raised, calm>>

SaveAsk ==
  /\ ts_pc = "save" /\ ~(Done(index) /\ save_sta = "STR_SAVE")
  /\ ts_idx' = index /\ ts_pc' = "send"
  /\ UNCHANGED <<notify, queue, sem, relay, sampler, saver, flash, raised, calm>>

\* The second of a message that asks for one more second.
Mut_Asked(i) == alarm_ts + i + 1
Asked(i) == alarm_ts + i

\* index is read for the message after it was tested; alarm_task may have run in
\* between, and the compiler may or may not load it again.  A message that finds
\* the queue full is dropped, without the semaphore.
SaveSend ==
  /\ ts_pc = "send" /\ ts_idx' = 0
  /\ IF Len(queue) < QueueLen
     THEN /\ \E i \in {ts_idx, index} :
               queue' = Append(queue, [type |-> SAVE, ts |-> Asked(i)])
          /\ ts_pc' = "give"
     ELSE ts_pc' = "delay" /\ UNCHANGED queue
  /\ UNCHANGED <<notify, sem, relay, sampler, saver, flash, raised, calm>>

\* alarm_task may have taken the message before the semaphore is given for it.
SaveGive ==
  /\ ts_pc = "give" /\ ts_pc' = "delay"
  /\ sem' = TRUE
  /\ UNCHANGED <<notify, queue, relay, sampler, ts_idx, saver, flash, raised, calm>>
----------------------------------------------------------------------------
(* Alarm_task.                                                             *)

AlarmWake ==
  /\ al_pc = "wait" /\ sem
  /\ sem' = FALSE /\ al_pc' = "drain"
  /\ UNCHANGED <<notify, queue, relay, sampler, syncer, al_msg, al_idx, al_rec, flash,
                 raised, calm>>

AlarmReceive ==
  /\ al_pc = "drain"
  /\ IF queue = <<>>
     THEN al_pc' = "wait" /\ UNCHANGED <<queue, al_msg>>
     ELSE /\ al_msg' = Head(queue) /\ queue' = Tail(queue)
          /\ al_pc' = IF Head(queue).type = SAVE THEN "read" ELSE "relay"
  /\ UNCHANGED <<notify, sem, relay, sampler, syncer, al_idx, al_rec, flash,
                 raised, calm>>

AlarmRelay ==
  /\ al_pc = "relay" /\ al_pc' = "msg"
  /\ relay' = TRUE
  /\ UNCHANGED <<notify, queue, sem, sampler, syncer, al_msg, al_idx, al_rec, flash,
                 raised, calm>>

\* Storage_Write_AlarmMsg starts the record of this alarm; when the mutex is
\* not obtained the message is lost and nobody looks at the result.
Mut_WriteAlarmMsg ==
  /\ al_pc = "msg" /\ al_pc' = "drain"
  /\ \/ item_ts' = al_msg.ts /\ UNCHANGED <<info, calm>>
     \/ calm' = FALSE /\ UNCHANGED <<item_ts, info>>
  /\ UNCHANGED <<notify, queue, sem, relay, sampler, syncer, al_msg, al_idx,
                 al_rec, records, raised>>

WriteAlarmMsg ==
  /\ al_pc = "msg" /\ al_pc' = "drain"
  /\ \/ item_ts' = al_msg.ts /\ info' = <<>> /\ UNCHANGED calm
     \/ calm' = FALSE /\ UNCHANGED <<item_ts, info>>
  /\ UNCHANGED <<notify, queue, sem, relay, sampler, syncer, al_msg, al_idx,
                 al_rec, records, raised>>

\* Storage_Read_AdcData: the second asked for is found or it is not.
ReadFound ==
  /\ al_pc = "read" /\ al_pc' = "load"
  /\ UNCHANGED <<notify, queue, sem, relay, sampler, syncer, al_msg, al_idx,
                 al_rec, flash, raised, calm>>

ReadMissing ==
  /\ al_pc = "read" /\ al_pc' = "drain"
  /\ UNCHANGED <<notify, queue, sem, relay, sampler, syncer, al_msg, al_idx,
                 al_rec, flash, raised, calm>>

\* g_AlarmNotify.index += 1 on a byte, outside the mutex: a load and a store.
IndexLoad ==
  /\ al_pc = "load" /\ al_pc' = "store"
  /\ al_idx' = index
  /\ UNCHANGED <<notify, queue, sem, relay, sampler, syncer, al_msg, al_rec, flash,
                 raised, calm>>

IndexStore ==
  /\ al_pc = "store" /\ al_pc' = "args"
  /\ index' = (al_idx + 1) % 256 /\ al_idx' = 0
  /\ UNCHANGED <<type, num, alarm_sta, save_sta, alarm_ts, queue, sem, relay,
                 sampler, syncer, al_msg, al_rec, flash, raised, calm>>

\* The arguments of Storage_Write_AlarmInfo: alarm_ts + 1 and index >= 3.
InfoArgs ==
  /\ al_pc = "args" /\ al_pc' = "info"
  /\ al_rec' = alarm_ts + 1 /\ al_idx' = index
  /\ UNCHANGED <<notify, queue, sem, relay, sampler, syncer, al_msg, flash,
                 raised, calm>>

\* The flag of the last second.
Mut_Last(i) == i > SaveSeconds
Last(i) == i >= SaveSeconds

\* Storage_Write_AlarmInfo: refused for another alarm than the one begun last;
\* the last second also writes the index entry.
WriteAlarmInfo ==
  /\ al_pc = "info" /\ al_pc' = "drain" /\ al_idx' = 0 /\ al_rec' = 0
  /\ \/ /\ item_ts = al_rec
        /\ info' = Append(info, al_msg.ts)
        /\ records' = IF Last(al_idx)
                      THEN records \cup {[ts |-> item_ts, secs |-> info', calm |-> calm]}
                      ELSE records
        /\ UNCHANGED calm
     \/ item_ts # al_rec /\ UNCHANGED <<info, records, calm>>
     \/ calm' = FALSE /\ UNCHANGED <<info, records>>
  /\ UNCHANGED <<notify, queue, sem, relay, sampler, syncer, al_msg,
                 item_ts, raised>>
----------------------------------------------------------------------------
(* Msg_proc_task.                                                          *)

\* kt_ClearData: the flag stops detection until the next start; the flash is
\* erased unless alarm_task holds the alarm object for more than 50 ms.
kt_ClearData ==
  /\ armed' = FALSE
  /\ \/ info' = <<>> /\ records' = {} /\ calm' = FALSE
     \/ UNCHANGED <<info, records, calm>>
  /\ UNCHANGED <<notify, queue, sem, relay, rtc, sec, boot_ts, syncer, saver,
                 item_ts, raised>>

\* kt_ClearConfig: the whole configuration becomes 0.
kt_ClearConfig ==
  /\ armed' = FALSE
  /\ UNCHANGED <<notify, queue, sem, relay, rtc, sec, boot_ts, syncer, saver,
                 flash, raised, calm>>
----------------------------------------------------------------------------
Init ==
  /\ type = NONE /\ num = 0 /\ alarm_sta = "CLEARED" /\ save_sta = "END_SAVE"
  /\ index = 0 /\ alarm_ts = 0
  /\ queue = <<>> /\ sem = FALSE /\ relay = FALSE
  /\ rtc = StartSec /\ sec \in {0, StartSec} /\ boot_ts = sec + 2 /\ armed = TRUE
  /\ ts_pc = "delay" /\ ts_idx = 0
  /\ al_pc = "wait" /\ al_msg = NoMsg /\ al_idx = 0 /\ al_rec = 0
  /\ item_ts = 0 /\ info = <<>> /\ records = {}
  /\ raised = 0 /\ calm = TRUE

sample_task ==
  \/ Rebase \/ Adc_Clear_Alarm \/ CheckNormal
  \/ \E t \in Kinds : CheckNewType(t) \/ CheckSameType(t) \/ CheckRaise(t)

\* The two calls at the end of Adc_Save_Alarm in the other order.
Mut_GiveFirst ==
  /\ ts_pc = "send" /\ ts_pc' = "give"
  /\ sem' = TRUE
  /\ UNCHANGED <<notify, queue, relay, sampler, ts_idx, saver, flash, raised, calm>>

Mut_SendLast ==
  /\ ts_pc = "give" /\ ts_pc' = "delay" /\ ts_idx' = 0
  /\ queue' = IF Len(queue) < QueueLen
              THEN Append(queue, [type |-> SAVE, ts |-> Asked(ts_idx)]) ELSE queue
  /\ UNCHANGED <<notify, sem, relay, sampler, saver, flash, raised, calm>>

Mut_time_sync_task ==
  TimeSync \/ SaveTimeout \/ SaveEnd \/ SaveAsk \/ Mut_GiveFirst \/ Mut_SendLast
time_sync_task ==
  TimeSync \/ SaveTimeout \/ SaveEnd \/ SaveAsk \/ SaveSend \/ SaveGive

alarm_task ==
  \/ AlarmWake \/ AlarmReceive \/ AlarmRelay \/ WriteAlarmMsg
  \/ ReadFound \/ ReadMissing \/ IndexLoad \/ IndexStore \/ InfoArgs
  \/ WriteAlarmInfo

msg_proc_task == kt_ClearData \/ kt_ClearConfig

Next == sample_task \/ time_sync_task \/ alarm_task \/ msg_proc_task

Spec == Init /\ [][Next]_vars

(* Fairness.  Every task is scheduled again and again: the tasks of a higher *)
(* priority all block.  The RTC runs.  That a mutex which is tried over and    *)
(* over is obtained in the end is assumed of the kernel.  Nothing is assumed   *)
(* of the storage: a second that is asked for may never be found.              *)
Fairness ==
  /\ WF_vars(alarm_task)
  /\ SF_vars(TimeSync /\ rtc' = rtc + 1)
  /\ WF_vars(time_sync_task) /\ SF_vars(SaveEnd \/ SaveAsk)

FairSpec == Spec /\ Fairness
----------------------------------------------------------------------------
\* Types: what g_AlarmNotify, its queue and the three tasks' locals can hold.
TypeOK ==
  /\ type \in Kinds \cup {NONE} /\ num \in Nat /\ index \in 0..255
  /\ alarm_sta \in {"CLEARED", "RAISED", "RECOVERY"}
  /\ save_sta \in {"STR_SAVE", "END_SAVE"} /\ alarm_ts \in Nat
  /\ queue \in Seq(Msgs) /\ Len(queue) <= QueueLen
  /\ sem \in BOOLEAN /\ relay \in BOOLEAN /\ armed \in BOOLEAN
  /\ rtc \in Nat /\ sec \in Nat /\ boot_ts \in Nat \ {0, 1}
  /\ ts_pc \in {"delay", "save", "send", "give"} /\ ts_idx \in 0..255
  /\ al_pc \in {"wait", "drain", "relay", "msg", "read", "load", "store", "args", "info"}
  /\ al_msg \in Msgs \cup {NoMsg} /\ al_idx \in 0..255 /\ al_rec \in Nat
  /\ item_ts \in Nat /\ info \in Seq(Nat)
  /\ records \subseteq [ts : Nat, secs : Seq(Nat), calm : BOOLEAN]
  /\ raised \in Nat /\ calm \in BOOLEAN

\* num is a byte that no raise resets, yet it never passes the debounce count:
\* a raise is latched until a sample or a clear forgets the type.
NumBounded == num <= Debounce

\* The record of an undisturbed alarm holds the second before the alarm, the
\* alarm's own second and the ones after it, each once and in this order.
RecordsComplete ==
  \A r \in records :
    r.calm => r.secs = [k \in 1..SaveSeconds |-> (r.ts - 1) + (k - 1)]

\* Alarm_task never sleeps on a message: while it waits with the queue filled,
\* the semaphore is given, or time_sync_task stands between the message and the
\* semaphore it is about to give.
NoLostWakeup == al_pc = "wait" /\ queue # <<>> => sem \/ ts_pc = "give"

\* When the saving of an undisturbed alarm is declared over, its index entry
\* has been written.
NoAlarmLost ==
  calm /\ raised > 0 /\ save_sta = "END_SAVE" =>
    \E r \in records : r.ts = alarm_ts + 1 /\ r.calm

\* The second asked for is the first one not yet saved: no second is saved
\* twice, and none is skipped.
AsksNextSecond ==
  calm => \A i \in DOMAIN queue :
            queue[i].type = SAVE => queue[i].ts = alarm_ts + index

\* The contact of an undisturbed alarm that is neither cleared nor still on
\* its way to alarm_task is short-circuited.
RaisedMeansRelay ==
  calm /\ alarm_sta # "CLEARED" /\ ~RaisePending => relay

\* Only seconds that are over are asked for (of a clock that is not set).
AsksPastSeconds ==
  calm /\ ~ClockJumps => \A i \in DOMAIN queue :
                            queue[i].type = SAVE => queue[i].ts < rtc

\* A record that was opened is closed, so that the next alarm can be raised, for
\* one reason only not: from some time on alarm_task looks for the second asked
\* for again and again, and in vain.
SaveEnds ==
  \/ save_sta = "STR_SAVE" ~> save_sta = "END_SAVE"
  \/ []<><<ReadMissing>>_vars /\ <>[][~ReadFound]_vars
=============================================================================
