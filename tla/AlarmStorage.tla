---------------------------- MODULE AlarmStorage ----------------------------
(***************************************************************************)
(* The alarm records in the NOR flash, AlarmObject_t of                    *)
(* src/app/storage_manage.c: a message, three seconds of samples and an    *)
(* index entry for each alarm, in three regions that are filled from their *)
(* start.  A flash cell can be programmed once; only a clear erases it.    *)
(* The position is a count in the configuration, which reaches the FM24C02 *)
(* later, and at a start the three addresses are computed from that count. *)
(*                                                                         *)
(* An alarm is a number, its time stamp: the second of the RTC in which it *)
(* was raised.  Records are looked up by it alone, and it comes again when *)
(* the host sets the clock back, so what is promised of the records is     *)
(* promised while stamps rise.  Addresses count messages, seconds and      *)
(* entries; nothing stops them at the end of a region, and a second that   *)
(* gets as far as the index covers all of it.                              *)
(*                                                                         *)
(* What alarm_task and time_sync_task do between the operations is         *)
(* AlarmNotify's business: here a request for a second may come late, and  *)
(* every wait for the mutex of the object may time out.                    *)
(***************************************************************************)
EXTENDS Integers, Sequences

CONSTANTS
  Slots,    \* ALARM_ITEM_TOATL_NUM, 640
  RecLen,   \* seconds of a record, 3
  Gap,      \* seconds that fit between the last one of a full flash and the one
            \* that covers the index: 111
  PerPage,  \* ALARM_INDEX_NUM_PRE_PAGE, 16
  MaxAlarm, \* bound: time stamps
  MaxLate   \* bound: requests for a second that come late

ASSUME AlarmStorageAssumption ==
  /\ Slots \in Nat \ {0} /\ RecLen \in Nat \ {0} /\ PerPage \in Nat \ {0}
  /\ Gap \in Nat /\ Slots % PerPage = 0 /\ MaxAlarm \in Nat /\ MaxLate \in Nat

VARIABLES
  addr, info_addr, index_addr, index_num, index_item, \* g_AlarmObject
  msg, info, idx,      \* the three regions of the flash
  config, status,      \* flag and alarm_num of g_ConfigInfo; g_config_status
  saved,               \* the configuration in the FM24C02
  alarm_ts, index, saving, \* g_AlarmNotify: the last alarm, its seconds, STR_SAVE
  pending,             \* its message is in the queue
  clearing,            \* kt_ClearData is inside the erase
  late,                \* late requests so far
  open, secs,          \* history: a record is begun, the seconds it has got
  done,                \* history: the alarms with a finished record, since the erase
  straight,            \* history: no record begun since the erase was left unfinished
                       \* or got more seconds than its own
  sound,               \* history: power was lost between saved records only, no
                       \* message was written behind its region and no second over
                       \* the index
  mark, torn,          \* history: see ClearedGone
  rising               \* history: each alarm has a later stamp than the one before

object == <<addr, info_addr, index_addr, index_num, index_item>>
flash == <<msg, info, idx>>
notify == <<alarm_ts, index, saving, pending>>
history == <<open, secs, done, straight, sound>>
clears == <<mark, torn, rising>>
vars == <<object, flash, config, status, saved, notify, clearing, late, history, clears>>

Erased == <<>>
Damaged == <<0>>
Blank(n) == [a \in 0 .. n |-> Erased]

\* The cells that are looked at: those of the regions, and behind them as many as
\* the alarms and requests of the bounds can reach.
MsgEnd == Slots + MaxAlarm
InfoEnd == (Slots + MaxAlarm) * RecLen + MaxLate

\* The second that lies over the index region.
IndexAt == Slots * RecLen + Gap

\* What a cell holds after it is programmed: bits only ever go from 1 to 0.
Program(cell, v) == IF cell \in {Erased, v} THEN v ELSE Damaged

Armed == config.flag = "NEXT_ON"
Full == index_num = Slots
----------------------------------------------------------------------------
\* Adc_Check_Alarm opens a record, Adc_Save_Alarm closes it.  A later alarm has the
\* next stamp; kt_SetSysTime may have set the clock back, to any earlier one.
Raise ==
  /\ Armed /\ ~saving /\ ~pending
  /\ alarm_ts' \in 0..MaxAlarm /\ alarm_ts' <= alarm_ts + 1
  /\ rising' = (rising /\ alarm_ts' > alarm_ts)
  /\ index' = 0 /\ saving' = TRUE /\ pending' = TRUE
  /\ UNCHANGED <<object, flash, config, status, saved, clearing, late, history, mark, torn>>

SaveEnd ==
  /\ saving /\ index >= RecLen
  /\ saving' = FALSE /\ index' = 0
  /\ UNCHANGED <<object, flash, config, status, saved, alarm_ts, pending, clearing, late,
                 history, clears>>

\* A call of alarm_task that waits 50 ms for the mutex in vain: nobody looks at
\* the result.
MsgTimeout ==
  /\ pending /\ pending' = FALSE
  /\ UNCHANGED <<object, flash, config, status, saved, alarm_ts, index, saving, clearing,
                 late, history, clears>>

\* The message behind the last one of the region is in the first second.
Storage_Write_AlarmMsg ==
  /\ pending /\ pending' = FALSE
  /\ IF addr < Slots
     THEN msg' = [msg EXCEPT ![addr] = Program(@, <<alarm_ts>>)] /\ UNCHANGED info
     ELSE info' = [info EXCEPT ![0] = Program(@, <<alarm_ts>>)] /\ UNCHANGED msg
  /\ index_item' = <<alarm_ts, info_addr>>
  /\ addr' = addr + 1
  /\ open' = TRUE /\ secs' = 0 /\ straight' = (straight /\ ~open)
  /\ sound' = (sound /\ (addr < Slots \/ Full))
  /\ torn' = (torn \/ alarm_ts <= mark)
  /\ UNCHANGED <<info_addr, index_addr, index_num, idx, config, status, saved, alarm_ts,
                 index, saving, clearing, late, done, mark, rising>>

\* A request is due for each second of an open record; a late one is one that
\* alarm_task finds when the record is closed or the next one raised.
Due == saving /\ ~pending /\ index < RecLen
Asked ==
  /\ (rising => alarm_ts > 0) /\ (Due \/ late < MaxLate)
  /\ index' = index + 1
  /\ late' = IF Due THEN late ELSE late + 1

InfoTimeout ==
  /\ Asked
  /\ UNCHANGED <<object, flash, config, status, saved, alarm_ts, saving, pending, clearing,
                 history, clears>>

\* A second of another alarm than the one whose message was written last.
InfoRefused ==
  /\ Asked /\ index_item[1] # alarm_ts
  /\ UNCHANGED <<object, flash, config, status, saved, alarm_ts, saving, pending, clearing,
                 history, clears>>

\* After the last second the record is indexed.  From the 640th record on every
\* further one starts the regions again, without an erase.
Mut_NextSlot == index_num + 1
NextSlot == IF index_num + 1 >= Slots THEN Slots ELSE index_num + 1

\* The entry says where the record began, kept since its message was written.
Mut_IndexEntry == <<index_item[1], info_addr>>
IndexEntry == index_item

WriteIndex(cells) ==
  /\ idx' = [cells EXCEPT ![index_addr] = Program(@, IndexEntry)]
  /\ index_num' = NextSlot
  /\ addr' = IF NextSlot = Slots THEN 0 ELSE addr
  /\ info_addr' = IF NextSlot = Slots THEN 0 ELSE info_addr + 1
  /\ index_addr' = IF NextSlot = Slots THEN 0 ELSE index_addr + 1
  /\ config' = [config EXCEPT !.num = index_num']
  /\ status' = TRUE

\* A second over the index leaves nothing of the entries: what is taken for an
\* entry there is none of an alarm.
Covered == IF info_addr = IndexAt THEN [e \in DOMAIN idx |-> Damaged] ELSE idx

Storage_Write_AlarmInfo ==
  /\ Asked /\ index_item[1] = alarm_ts
  /\ info' = [info EXCEPT ![info_addr] = Program(@, <<alarm_ts, secs + 1>>)]
  /\ secs' = secs + 1
  /\ IF index' >= RecLen
     THEN /\ WriteIndex(Covered)
          /\ open' = FALSE /\ straight' = (straight /\ open /\ secs' = RecLen)
          /\ done' = IF open /\ secs' = RecLen /\ ~Full THEN Append(done, alarm_ts) ELSE done
     ELSE /\ info_addr' = info_addr + 1 /\ idx' = Covered
          /\ straight' = (straight /\ open /\ secs' <= RecLen)
          /\ UNCHANGED <<addr, index_addr, index_num, config, status, open, done>>
  /\ sound' = (sound /\ info_addr # IndexAt)
  /\ torn' = (torn \/ alarm_ts <= mark)
  /\ UNCHANGED <<index_item, msg, saved, alarm_ts, saving, pending, clearing, mark, rising>>
----------------------------------------------------------------------------
(* Msg_send_task and msg_proc_task.                                        *)

SaveConfig ==
  /\ status /\ status' = FALSE /\ saved' = config
  /\ UNCHANGED <<object, flash, config, notify, clearing, late, history, clears>>

\* kt_ClearData up to the erase, and what the erase leaves: Storage_Clear_AlarmData
\* resets the addresses and erases the chip, or gives up on the mutex.
ClearConfigFirst ==
  /\ ~clearing /\ clearing' = TRUE
  /\ config' = [flag |-> "FIRST_ON", num |-> 0]
  /\ mark' = alarm_ts /\ torn' = open /\ done' = <<>>
  /\ UNCHANGED <<object, flash, status, saved, notify, late, open, secs, straight, sound,
                 rising>>

Mut_EraseAll == UNCHANGED flash
EraseAll == msg' = Blank(Slots - 1) /\ info' = Blank(InfoEnd) /\ idx' = Blank(MsgEnd)

Storage_Clear_AlarmData ==
  /\ addr' = 0 /\ info_addr' = 0 /\ index_addr' = 0 /\ index_num' = 0
  /\ EraseAll
  /\ UNCHANGED index_item

ClearThenErase ==
  /\ clearing /\ clearing' = FALSE
  /\ status' = TRUE
  /\ \/ /\ Storage_Clear_AlarmData
        /\ straight' = TRUE /\ sound' = TRUE /\ open' = FALSE /\ done' = <<>>
        /\ UNCHANGED torn
     \/ /\ straight' = FALSE /\ torn' = TRUE
        /\ UNCHANGED <<object, flash, sound, open, done>>
  /\ UNCHANGED <<config, saved, notify, late, secs, mark, rising>>

kt_ClearConfig ==
  /\ ~clearing
  /\ config' = [flag |-> "NONE", num |-> 0] /\ status' = TRUE
  /\ UNCHANGED <<object, flash, saved, notify, clearing, late, history, clears>>
----------------------------------------------------------------------------
(* Power fails; system_init and Alarm_Object_Init.                         *)

\* The addresses behind num records.
Mut_InfoAfter(num) == num * RecLen - num
InfoAfter(num) == num * RecLen
Mut_MsgAfter(num) == num + 1
MsgAfter(num) == num

\* A loss of power that no record and no clear notices.
Clean == ~open /\ straight /\ ~clearing /\ saved.num = index_num

Boot ==
  /\ saved' = IF saved.flag = "NONE" THEN [flag |-> "FIRST_ON", num |-> 0] ELSE saved
  /\ config' = IF saved.flag = "NONE" THEN saved' ELSE [saved EXCEPT !.flag = "NEXT_ON"]
  /\ index_num' = config'.num /\ index_addr' = config'.num
  /\ addr' = MsgAfter(config'.num) /\ info_addr' = InfoAfter(config'.num)
  /\ index_item' = <<0, 0>>
  /\ index' = 0 /\ saving' = FALSE /\ pending' = FALSE
  /\ status' = FALSE /\ clearing' = FALSE /\ open' = FALSE /\ secs' = 0
  /\ IF saved.flag = "NONE"
     THEN /\ EraseAll
          /\ straight' = TRUE /\ sound' = TRUE /\ done' = <<>> /\ torn' = FALSE
     ELSE /\ \/ UNCHANGED flash
             \/ clearing /\ EraseAll
          /\ sound' = (sound /\ (Clean \/ saved.num = Slots))
          /\ torn' = (torn \/ clearing)
          /\ UNCHANGED <<straight, done>>
  /\ UNCHANGED <<alarm_ts, late, mark, rising>>
----------------------------------------------------------------------------
Init ==
  /\ addr = 0 /\ info_addr = 0 /\ index_addr = 0 /\ index_num = 0 /\ index_item = <<0, 0>>
  /\ msg = Blank(Slots - 1) /\ info = Blank(InfoEnd) /\ idx = Blank(MsgEnd)
  /\ config = [flag |-> "NEXT_ON", num |-> 0] /\ saved = [flag |-> "FIRST_ON", num |-> 0]
  /\ status = FALSE
  /\ alarm_ts = 0 /\ index = 0 /\ saving = FALSE /\ pending = FALSE
  /\ clearing = FALSE /\ late = 0
  /\ open = FALSE /\ secs = 0 /\ done = <<>> /\ straight = TRUE /\ sound = TRUE
  /\ mark = 0 /\ torn = FALSE /\ rising = TRUE

alarm_task ==
  \/ MsgTimeout \/ Storage_Write_AlarmMsg
  \/ InfoTimeout \/ InfoRefused \/ Storage_Write_AlarmInfo

Next ==
  \/ Raise \/ SaveEnd \/ alarm_task
  \/ SaveConfig \/ ClearConfigFirst \/ ClearThenErase \/ kt_ClearConfig
  \/ Boot

Spec == Init /\ [][Next]_vars
----------------------------------------------------------------------------
(* What the host gets.                                                     *)

\* kt_AlarmInfo: as many messages as records are counted, from the first one on.
Listed == [i \in 1 .. config.num |-> msg[i - 1]]

\* Storage_Read_AlarmInfo, called by kt_AlarmData: the entries are searched page
\* by page, one page at least, and the first one with the time stamp counts.
Pages == IF index_num = 0 THEN 1 ELSE (index_num + PerPage - 1) \div PerPage
Entries(ts) == {e \in 0 .. Pages * PerPage - 1 : idx[e] # Erased /\ idx[e][1] = ts}
First(ts) == {e \in Entries(ts) : \A f \in Entries(ts) : e <= f}
From(a) == [k \in 1..RecLen |-> info[a + k - 1]]
Read(ts) ==
  IF First(ts) = {} THEN <<>> ELSE From(idx[CHOOSE e \in First(ts) : TRUE][2])

Whole(ts) == [k \in 1..RecLen |-> <<ts, k>>]
----------------------------------------------------------------------------
\* The count saturates at its limit, in the object and in both copies of the
\* configuration, and until then an entry goes where the count says.
TypeOK ==
  /\ index_num \in 0..Slots /\ index_addr \in 0..Slots
  /\ config.num \in 0..Slots /\ saved.num \in 0..Slots
  /\ ~Full => index_addr = index_num

\* While stamps rise, power is lost between records only and no second reaches the
\* index, every finished record reads back as it was written, over any number of
\* restarts and although other records were cut short by time-outs.  Once the flash
\* is full, each further record starts it again: it costs the first record, and never
\* another one.
RecordsIntact ==
  rising /\ sound /\ ~clearing /\ (~Full \/ straight) =>
    \A i \in DOMAIN done :
      i > 1 \/ ~Full => /\ Read(done[i]) = Whole(done[i])
                       /\ \E a \in DOMAIN msg : msg[a] = <<done[i]>>

\* The list of alarms the host is given consists of the finished records, in
\* their order, as long as no record is left unfinished and stamps rise.
AlarmsListed ==
  rising /\ sound /\ straight /\ ~Full /\ Armed =>
    Listed = [i \in DOMAIN done |-> <<done[i]>>]

\* While stamps rise: whatever happens to a record once it is finished, overwritten
\* after a loss of power or by a full flash, erased or taken by a clear that failed,
\* the host is never given seconds of another alarm for it: they are its own or
\* damaged, or it is not found.  (Of two alarms of one stamp, the host is given the
\* seconds of the first for both.)
OwnSeconds ==
  rising => \A i \in DOMAIN done :
    LET got == Read(done[i])
    IN \A k \in DOMAIN got : got[k] \in {<<done[i], k>>, Damaged}

\* What a clear took away does not come back at the next start, whether the
\* configuration was saved behind the clear or not, unless a record was under
\* way, the erase did not get the mutex or the power failed before it was done.
\* A clock that was set back may raise an alarm with a stamp of theirs.
ClearedGone ==
  rising /\ Armed /\ ~torn =>
    /\ \A ts \in 1..mark : Entries(ts) = {}
    /\ \A i \in DOMAIN Listed : Listed[i] \notin {<<ts>> : ts \in 1..mark}

\* A bound for TLC: behind it only TypeOK and, while stamps rise, OwnSeconds claim
\* anything.
Bounded == rising /\ (sound \/ ~torn)
=============================================================================
