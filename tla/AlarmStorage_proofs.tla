------------------------- MODULE AlarmStorage_proofs -------------------------
(***************************************************************************)
(* What the runs check of the alarm records, for every number and length   *)
(* of records, of alarms and of late requests.  Records are looked up by   *)
(* their time stamp, so all but the count is claimed while stamps rise:    *)
(* what is kept is `rising => Inv'.                                        *)
(*                                                                         *)
(* Argument.  A cell that holds a value keeps it or is damaged until the   *)
(* flash is erased.  So a finished record never reads back with a second   *)
(* of another alarm (IInv): its seconds are behind the address its entry   *)
(* names when it is finished, and no other entry has its time stamp, as an *)
(* entry is written from what was noted with the message of its alarm, and *)
(* there is one message for each.                                          *)
(*                                                                         *)
(* That its seconds are not damaged either (Inv) is about the addresses:   *)
(* until the flash is full everything behind them is erased, and a start   *)
(* computes them right if no record was cut short.  Then the records are   *)
(* in their slots, one behind the other, and a full flash writes to the    *)
(* first slot and behind the last one only.                                *)
(***************************************************************************)
EXTENDS AlarmStorage, WellFoundedInduction, TLAPS

Flags == {"NONE", "FIRST_ON", "NEXT_ON"}

InvTypes ==
  /\ addr \in Nat /\ info_addr \in Nat /\ index_addr \in Nat /\ index_num \in 0..Slots
  /\ index_item \in Nat \X Nat
  /\ config \in [flag : Flags, num : 0..Slots] /\ saved \in [flag : Flags, num : 0..Slots]
  /\ alarm_ts \in 0..MaxAlarm /\ late \in 0..MaxLate
  /\ index \in Nat /\ secs \in Nat
  /\ saving \in BOOLEAN /\ pending \in BOOLEAN /\ open \in BOOLEAN
  /\ done \in Seq(Nat \ {0})
  /\ DOMAIN info = 0..InfoEnd /\ DOMAIN idx = 0..MsgEnd

\* Where the entry of the next record goes.
InvIndex ==
  /\ index_num < Slots => index_addr = index_num
  /\ index_num = Slots => index_addr \in {0, Slots}

\* A message is still to come for the alarm raised last, and so are its seconds.
ToCome == IF pending THEN 1 ELSE 0
SecondsToCome == IF saving /\ index < RecLen THEN RecLen - index ELSE 0
Bytes(n) == (Slots + n) * RecLen

InvAddr ==
  /\ addr + ToCome <= Slots + alarm_ts
  /\ info_addr + SecondsToCome <= Bytes(alarm_ts) + late

\* A cell holds what was written into it, or the remains of it.
Holds(a, v) == info[a] \in {v, Damaged}

\* Both parts of an alarm's note are those of the record under way.
InvItem ==
  /\ index_item[1] <= alarm_ts
  /\ pending => index_item[1] < alarm_ts
  /\ open =>
       /\ info_addr = index_item[2] + secs
       /\ \A k \in 1..secs : Holds(index_item[2] + k - 1, <<index_item[1], k>>)

\* A cell of the index is erased, damaged or an entry, and no two entries are of
\* one alarm.
InvEntries ==
  \A e \in 0..MsgEnd :
    /\ idx[e] \in {Erased, Damaged} \cup (Nat \X Nat)
    /\ idx[e] \in Nat \X Nat =>
         /\ idx[e][1] \in Nat \ {0}
         /\ idx[e][1] <= alarm_ts
         /\ pending => idx[e][1] < alarm_ts
         /\ idx[e][1] = index_item[1] => idx[e] = index_item

\* The seconds of a record begin at an address.
Owns(a, ts) ==
  /\ a + RecLen <= InfoEnd + 1
  /\ \A k \in 1..RecLen : Holds(a + k - 1, <<ts, k>>)

InvDone ==
  \A i \in DOMAIN done :
    /\ done[i] <= alarm_ts
    /\ pending => done[i] < alarm_ts
    /\ done[i] = index_item[1] => Owns(index_item[2], done[i])
    /\ \A e \in 0..MsgEnd :
         idx[e] \in Nat \X Nat /\ idx[e][1] = done[i] => Owns(idx[e][2], done[i])

IInv == InvTypes /\ InvIndex /\ InvAddr /\ InvItem /\ InvEntries /\ InvDone
----------------------------------------------------------------------------
\* What the constants say.
LEMMA Sizes ==
  /\ Slots \in Nat /\ Slots > 0 /\ RecLen \in Nat /\ RecLen > 0
  /\ MaxAlarm \in Nat /\ MaxLate \in Nat
  /\ MsgEnd \in Nat /\ InfoEnd \in Nat
  /\ MsgEnd = Slots + MaxAlarm
<1>1. Slots \in Nat /\ Slots > 0 /\ RecLen \in Nat /\ RecLen > 0 /\ MaxAlarm \in Nat /\ MaxLate \in Nat
  BY AlarmStorageAssumption
<1>2. (Slots + MaxAlarm) * RecLen \in Nat
  BY <1>1
<1> QED
  BY <1>1, <1>2 DEF MsgEnd, InfoEnd

\* The room for the seconds of n alarms.
LEMMA Room ==
  ASSUME NEW n \in 0..MaxAlarm
  PROVE  /\ Bytes(n) \in Nat /\ Bytes(n + 1) = Bytes(n) + RecLen
         /\ Bytes(n) + MaxLate <= InfoEnd
         /\ \A m \in 0..Slots : m * RecLen \in Nat /\ m * RecLen <= Bytes(n)
<1>1. Bytes(n) \in Nat
  BY Sizes DEF Bytes
<1>2. Bytes(n + 1) = Bytes(n) + RecLen
  BY Sizes DEF Bytes
<1>3. Bytes(n) <= (Slots + MaxAlarm) * RecLen
  BY Sizes DEF Bytes
<1>4. \A m \in 0..Slots : m * RecLen \in Nat /\ m * RecLen <= Bytes(n)
  BY Sizes DEF Bytes
<1> QED
  BY <1>1, <1>2, <1>3, <1>4, Sizes DEF InfoEnd

\* Values of different kinds differ.
LEMMA Kinds ==
  ASSUME NEW p \in Nat \X Nat
  PROVE  p # Erased /\ p # Damaged /\ Erased # Damaged
<1>1. p = <<p[1], p[2]>> /\ Len(<<p[1], p[2]>>) = 2
  OBVIOUS
<1>2. Len(<<0>>) = 1
  OBVIOUS
<1>3. Len(<<>>) = 0
  OBVIOUS
<1>4. Len(Erased) = 0 /\ Len(Damaged) = 1 /\ Len(p) = 2
  BY <1>1, <1>2, <1>3, Zenon DEF Erased, Damaged
<1> QED
  BY <1>4

\* A cell that is programmed holds the value, or is damaged.
LEMMA Programmed ==
  ASSUME NEW c, NEW v
  PROVE  Program(c, v) \in {v, Damaged}
  BY DEF Program

\* A cell that held a second before goes on holding it.
LEMMA StillHolds ==
  ASSUME NEW p \in Nat \X Nat, NEW c \in {p, Damaged}, NEW v
  PROVE  Program(c, v) \in {p, Damaged}
  BY Kinds DEF Program

\* The invariant holds at the start, of an erased flash.
LEMMA InitInv == Init => IInv
<1> SUFFICES ASSUME Init PROVE IInv
  OBVIOUS
<1>1. InvTypes
  <2>1. config \in [flag : Flags, num : 0..Slots] /\ saved \in [flag : Flags, num : 0..Slots]
    BY Sizes DEF Init, Flags
  <2>2. done \in Seq(Nat \ {0}) /\ index_item \in Nat \X Nat
    BY DEF Init
  <2>3. DOMAIN info = 0..InfoEnd /\ DOMAIN idx = 0..MsgEnd
    BY DEF Init, Blank
  <2> QED
    BY <2>1, <2>2, <2>3, Sizes DEF Init, InvTypes
<1>2. InvIndex /\ InvAddr /\ InvItem
  BY Sizes, Room DEF Init, InvIndex, InvAddr, InvItem, ToCome, SecondsToCome
<1>3. InvEntries
  BY Sizes, Kinds DEF Init, InvEntries, Blank
<1>4. InvDone
  BY DEF Init, InvDone
<1> QED
  BY <1>1, <1>2, <1>3, <1>4 DEF IInv

\* Programming a cell of the samples leaves every second where it is, or damaged.
LEMMA CellsKept ==
  ASSUME InvTypes, NEW b, NEW v, info' = [info EXCEPT ![b] = Program(@, v)]
  PROVE  /\ DOMAIN info' = 0..InfoEnd
         /\ \A a \in 0..InfoEnd, p \in Nat \X Nat : Holds(a, p) => Holds(a, p)'
<1>1. DOMAIN info = 0..InfoEnd
  BY DEF InvTypes
<1>2. ASSUME NEW a \in 0..InfoEnd, NEW p \in Nat \X Nat, Holds(a, p)
      PROVE  Holds(a, p)'
  <2>1. info[a] \in {p, Damaged}
    BY <1>2 DEF Holds
  <2>2. Program(info[a], v) \in {p, Damaged}
    BY <2>1, StillHolds
  <2>3. info'[a] \in {info[a], Program(info[a], v)}
    BY <1>1
  <2>4. Damaged' = Damaged
    BY DEF Damaged
  <2> QED
    BY <2>1, <2>2, <2>3, <2>4 DEF Holds
<1> QED
  BY <1>1, <1>2

LEMMA OwnsKept ==
  ASSUME \A a \in 0..InfoEnd, p \in Nat \X Nat : Holds(a, p) => Holds(a, p)',
         NEW a \in Nat, NEW ts \in Nat, Owns(a, ts)
  PROVE  Owns(a, ts)'
<1>1. ASSUME NEW k \in 1..RecLen PROVE Holds(a + k - 1, <<ts, k>>)'
  <2>1. a + k - 1 \in 0..InfoEnd /\ <<ts, k>> \in Nat \X Nat
    BY Sizes DEF Owns
  <2>2. Holds(a + k - 1, <<ts, k>>)
    BY DEF Owns
  <2> QED
    BY <2>1, <2>2
<1> QED
  BY <1>1 DEF Owns, InfoEnd

\* What is still to come is a number.
LEMMA SecondsNat ==
  /\ InvTypes => SecondsToCome \in Nat
  /\ InvTypes' => SecondsToCome' \in Nat
<1>1. ASSUME NEW i \in Nat, i < RecLen PROVE RecLen - i \in Nat
  BY <1>1, Sizes
<1>2. ASSUME InvTypes PROVE SecondsToCome \in Nat
  BY <1>1, <1>2 DEF InvTypes, SecondsToCome
<1>3. ASSUME InvTypes' PROVE SecondsToCome' \in Nat
  BY <1>1, <1>3 DEF InvTypes, SecondsToCome
<1> QED
  BY <1>2, <1>3

\* While stamps rise, each alarm has the next one, and stamps rose before.
LEMMA NextStamp ==
  ASSUME InvTypes, Raise, rising'
  PROVE  alarm_ts' = alarm_ts + 1 /\ alarm_ts < MaxAlarm
<1>1. /\ alarm_ts' \in 0..MaxAlarm /\ alarm_ts' <= alarm_ts + 1 /\ alarm_ts \in Nat
      /\ rising' = (rising /\ alarm_ts' > alarm_ts)
  BY Sizes DEF Raise, InvTypes
<1>2. alarm_ts' > alarm_ts
  BY <1>1, Zenon
<1> QED
  BY <1>1, <1>2, Sizes

LEMMA RisingBefore == rising' /\ [Next]_vars => rising
<1> SUFFICES ASSUME rising', [Next]_vars PROVE rising
  OBVIOUS
<1>1. CASE Raise
  BY <1>1, Zenon DEF Raise
<1>2. CASE rising' = rising
  BY <1>2
<1>3. CASE UNCHANGED clears
  BY <1>3 DEF clears
<1> QED
  BY <1>1, <1>2, <1>3
     DEF Next, vars, alarm_task, SaveEnd, MsgTimeout, InfoTimeout, InfoRefused, SaveConfig,
         kt_ClearConfig, Storage_Write_AlarmMsg, Storage_Write_AlarmInfo, ClearConfigFirst,
         ClearThenErase, Boot

\* A record is opened for the next alarm: all there is belongs to earlier ones.
LEMMA RaiseKeeps == IInv /\ rising' /\ Raise => IInv'
<1> SUFFICES ASSUME IInv, rising', Raise PROVE IInv'
  OBVIOUS
<1> USE DEF IInv
<1>1. /\ alarm_ts' = alarm_ts + 1 /\ alarm_ts < MaxAlarm
  BY NextStamp
<1>11. /\ index' = 0 /\ saving' = TRUE /\ pending' = TRUE /\ ~pending
       /\ UNCHANGED <<object, flash, config, saved, late, history>>
  BY DEF Raise
<1> USE DEF object, flash, history
<1>2. InvTypes'
  BY <1>1, <1>11, Sizes DEF InvTypes, InfoEnd, MsgEnd
<1>3. InvIndex'
  BY <1>1, <1>11 DEF InvIndex
<1>4. InvAddr'
  <2>1. /\ Bytes(alarm_ts)' = Bytes(alarm_ts) + RecLen /\ Bytes(alarm_ts) \in Nat
    BY <1>1, <1>11, Room DEF InvTypes, Bytes
  <2>2. SecondsToCome' = RecLen /\ ToCome' = 1 /\ ToCome = 0
    <3>1. 0 < RecLen /\ RecLen - 0 = RecLen
      BY Sizes
    <3> QED
      BY <1>1, <1>11, <3>1 DEF SecondsToCome, ToCome
  <2>3. addr \in Nat /\ info_addr \in Nat /\ alarm_ts \in Nat /\ late \in Nat
    BY Sizes DEF InvTypes
  <2>4. addr' = addr /\ info_addr' = info_addr /\ late' = late
    BY <1>1, <1>11
  <2>5. addr + 1 <= Slots + (alarm_ts + 1)
    BY <2>2, <2>3, Sizes DEF InvAddr
  <2>6. info_addr + RecLen <= Bytes(alarm_ts) + RecLen + late
    <3>1. info_addr + SecondsToCome <= Bytes(alarm_ts) + late /\ SecondsToCome \in Nat
      BY SecondsNat DEF InvAddr
    <3> QED
      BY <2>1, <2>3, <3>1, Sizes
  <2> QED
    BY <1>1, <1>11, <2>1, <2>2, <2>4, <2>5, <2>6 DEF InvAddr
<1>5. InvItem'
  BY <1>1, <1>11 DEF InvItem, InvTypes, Holds, Damaged
<1>6. InvEntries'
  BY <1>1, <1>11 DEF InvEntries, InvTypes, Erased, Damaged, MsgEnd
<1>7. InvDone'
  BY SMTT(30), <1>1, <1>11 DEF InvDone, InvTypes, Owns, Holds, Damaged, InfoEnd, MsgEnd
<1> QED
  BY <1>2, <1>3, <1>4, <1>5, <1>6, <1>7

\* The seconds of one record are room enough for those to come.
LEMMA SecondsBound == InvTypes => SecondsToCome \in Nat /\ SecondsToCome <= Bytes(alarm_ts)
<1> SUFFICES ASSUME InvTypes PROVE SecondsToCome \in Nat /\ SecondsToCome <= Bytes(alarm_ts)
  OBVIOUS
<1>1. SecondsToCome \in Nat
  BY SecondsNat
<1>2. SecondsToCome <= RecLen
  BY Sizes DEF InvTypes, SecondsToCome
<1>3. 1 * RecLen <= Bytes(alarm_ts) /\ Bytes(alarm_ts) \in Nat /\ 1 * RecLen = RecLen
  <2>1. alarm_ts \in 0..MaxAlarm /\ 1 \in 0..Slots
    BY Sizes DEF InvTypes
  <2>2. 1 * RecLen = RecLen
    BY Sizes
  <2> QED
    BY <2>1, <2>2, Room
<1> QED
  BY <1>1, <1>2, <1>3, Sizes

\* A step that changes nothing of it.
LEMMA StillKeeps ==
  ASSUME IInv, UNCHANGED <<object, flash, config, saved, notify, late, open, secs, done>>
  PROVE  IInv'
<1> USE DEF IInv, object, flash, notify
<1>1. InvTypes'
  BY DEF InvTypes, InfoEnd, MsgEnd
<1>2. InvIndex' /\ InvAddr'
  BY DEF InvIndex, InvAddr, Bytes, ToCome, SecondsToCome
<1>3. InvItem'
  BY DEF InvItem, Holds, Damaged
<1>4. InvEntries'
  BY DEF InvEntries, Erased, Damaged, MsgEnd
<1>5. InvDone'
  BY DEF InvDone, Owns, Holds, Damaged, InfoEnd, MsgEnd
<1> QED
  BY <1>1, <1>2, <1>3, <1>4, <1>5

\* Time-outs, seconds that are refused and the end of a record only move the
\* request on.
LEMMA RequestKeeps ==
  ASSUME IInv, UNCHANGED <<object, flash, config, saved, alarm_ts, history>>,
         index' \in Nat, saving' \in BOOLEAN, pending' \in BOOLEAN, pending' => pending,
         late' \in late..MaxLate,
         SecondsToCome' + late <= SecondsToCome + late'
  PROVE  IInv'
<1> USE DEF IInv, object, flash, history
<1>1. InvTypes'
  BY Sizes DEF InvTypes, InfoEnd, MsgEnd
<1>2. InvIndex'
  BY DEF InvIndex
<1>3. InvAddr'
  <2>1. Bytes(alarm_ts)' = Bytes(alarm_ts) /\ Bytes(alarm_ts) \in Nat
    BY Room DEF InvTypes, Bytes
  <2>2. SecondsToCome \in Nat /\ SecondsToCome' \in Nat
    BY <1>1, SecondsNat
  <2>3. ToCome' <= ToCome /\ ToCome \in Nat /\ ToCome' \in Nat
    BY DEF InvTypes, ToCome
  <2>4. addr' = addr /\ info_addr' = info_addr /\ alarm_ts' = alarm_ts
    OBVIOUS
  <2>5. /\ addr + ToCome <= Slots + alarm_ts
        /\ info_addr + SecondsToCome <= Bytes(alarm_ts) + late
        /\ addr \in Nat /\ info_addr \in Nat /\ alarm_ts \in Nat
        /\ late \in Nat /\ late' \in Nat
    BY Sizes DEF InvAddr, InvTypes
  <2>6. addr' + ToCome' <= Slots + alarm_ts'
    <3> DEFINE p == ToCome'
    <3>1. p \in Nat /\ p <= ToCome
      BY <2>3
    <3> HIDE DEF p
    <3>2. addr + p <= Slots + alarm_ts
      BY <2>3, <2>5, <3>1, Sizes
    <3> QED
      BY <2>4, <3>2 DEF p
  <2>7. info_addr' + SecondsToCome' <= Bytes(alarm_ts)' + late'
    <3> DEFINE s == SecondsToCome'
               b == Bytes(alarm_ts)
               l == late'
    <3>1. s \in Nat /\ b \in Nat /\ l \in Nat /\ s + late <= SecondsToCome + l
      BY <2>1, <2>2, <2>5
    <3> HIDE DEF s, b, l
    <3>2. info_addr + s <= b + l
      BY <2>2, <2>5, <3>1 DEF b
    <3> QED
      BY <2>1, <2>4, <3>2 DEF s, b, l
  <2> QED
    BY <2>6, <2>7 DEF InvAddr
<1>4. InvItem'
  BY DEF InvItem, InvTypes, Holds, Damaged
<1>5. InvEntries'
  BY DEF InvEntries, InvTypes, Erased, Damaged, MsgEnd
<1>6. InvDone'
  BY DEF InvDone, InvTypes, Owns, Holds, Damaged, InfoEnd, MsgEnd
<1> QED
  BY <1>1, <1>2, <1>3, <1>4, <1>5, <1>6

\* The request that is counted is either one that was to come or a late one.
LEMMA AskedOnce ==
  ASSUME InvTypes, Asked, UNCHANGED saving
  PROVE  /\ index' \in Nat /\ late' \in late..MaxLate
         /\ SecondsToCome' + 1 + late <= SecondsToCome + late'
         /\ SecondsToCome' + late <= SecondsToCome + late'
  BY Sizes DEF InvTypes, Asked, Due, SecondsToCome

LEMMA EndKeeps == IInv /\ (SaveEnd \/ MsgTimeout \/ InfoTimeout \/ InfoRefused) => IInv'
<1>1. ASSUME IInv, SaveEnd PROVE IInv'
  <2>1. /\ UNCHANGED <<object, flash, config, saved, alarm_ts, history>>
        /\ index' \in Nat /\ saving' \in BOOLEAN /\ pending' = pending /\ pending \in BOOLEAN
    BY <1>1 DEF SaveEnd, IInv, InvTypes
  <2>2. late' = late /\ SecondsToCome' = 0 /\ SecondsToCome \in Nat /\ late \in 0..MaxLate
    BY <1>1, Sizes DEF SaveEnd, IInv, InvTypes, SecondsToCome
  <2> QED
    BY <1>1, <2>1, <2>2, Sizes, RequestKeeps
<1>2. ASSUME IInv, MsgTimeout PROVE IInv'
  <2>1. /\ UNCHANGED <<object, flash, config, saved, alarm_ts, history, index, saving, late>>
        /\ pending' = FALSE
    BY <1>2 DEF MsgTimeout
  <2>2. index' \in Nat /\ saving' \in BOOLEAN /\ late' \in late..MaxLate
    BY <2>1, <1>2, Sizes DEF IInv, InvTypes
  <2>3. SecondsToCome' = SecondsToCome /\ SecondsToCome \in Nat
    BY <1>2, <2>1, SecondsNat DEF IInv, SecondsToCome
  <2>4. SecondsToCome' + late <= SecondsToCome + late'
    BY <1>2, <2>1, <2>3, Sizes DEF IInv, InvTypes
  <2> QED
    BY <1>2, <2>1, <2>2, <2>4, RequestKeeps
<1>3. ASSUME IInv, InfoTimeout \/ InfoRefused PROVE IInv'
  <2>1. /\ UNCHANGED <<object, flash, config, saved, alarm_ts, history, saving, pending>>
        /\ Asked
    BY <1>3 DEF InfoTimeout, InfoRefused
  <2>2. saving' \in BOOLEAN /\ pending' \in BOOLEAN
    BY <1>3, <2>1 DEF IInv, InvTypes
  <2> QED
    BY <1>3, <2>1, <2>2, AskedOnce, RequestKeeps DEF IInv
<1> QED
  BY <1>1, <1>2, <1>3

\* A message notes where its seconds will begin.  None of the alarm's is there.
LEMMA MsgKeeps == IInv /\ Storage_Write_AlarmMsg => IInv'
<1> SUFFICES ASSUME IInv, Storage_Write_AlarmMsg PROVE IInv'
  OBVIOUS
<1> USE DEF IInv
<1>1. /\ pending /\ pending' = FALSE
      /\ index_item' = <<alarm_ts, info_addr>> /\ addr' = addr + 1
      /\ open' = TRUE /\ secs' = 0
      /\ UNCHANGED <<info_addr, index_addr, index_num, idx, config, saved, alarm_ts, index,
                     saving, late, done>>
  BY DEF Storage_Write_AlarmMsg
<1>2. info' = info \/ info' = [info EXCEPT ![0] = Program(@, <<alarm_ts>>)]
  BY DEF Storage_Write_AlarmMsg
<1>3. /\ DOMAIN info' = 0..InfoEnd
      /\ \A a \in 0..InfoEnd, p \in Nat \X Nat : Holds(a, p) => Holds(a, p)'
  <2>1. CASE info' = info
    BY <2>1 DEF InvTypes, Holds, Damaged
  <2>2. CASE info' = [info EXCEPT ![0] = Program(@, <<alarm_ts>>)]
    BY <2>2, CellsKept
  <2> QED
    BY <1>2, <2>1, <2>2
<1>4. InvTypes'
  <2>1. <<alarm_ts, info_addr>> \in Nat \X Nat /\ addr + 1 \in Nat
    BY Sizes DEF InvTypes
  <2>2. DOMAIN info' = (0..InfoEnd)' /\ DOMAIN idx' = (0..MsgEnd)'
    BY <1>1, <1>3 DEF InvTypes, InfoEnd, MsgEnd
  <2> QED
    BY <1>1, <2>1, <2>2, Sizes DEF InvTypes
<1>5. InvIndex'
  BY <1>1 DEF InvIndex
<1>6. InvAddr'
  <2>1. Bytes(alarm_ts)' = Bytes(alarm_ts) /\ SecondsToCome' = SecondsToCome
    BY <1>1 DEF Bytes, SecondsToCome
  <2>2. ToCome = 1 /\ ToCome' = 0
    BY <1>1 DEF ToCome
  <2> QED
    BY <1>1, <2>1, <2>2, Sizes DEF InvAddr, InvTypes
<1>7. InvItem'
  BY <1>1 DEF InvItem, InvTypes, Holds, Damaged
<1>8. InvEntries'
  BY <1>1 DEF InvEntries, InvTypes, Erased, Damaged, MsgEnd
<1>9. InvDone'
  <2> SUFFICES ASSUME NEW i \in DOMAIN done
               PROVE  /\ done[i] < alarm_ts
                      /\ \A e \in 0..MsgEnd :
                           idx[e] \in Nat \X Nat /\ idx[e][1] = done[i] => Owns(idx[e][2], done[i])'
    BY <1>1 DEF InvDone, InvTypes, MsgEnd
  <2>1. done[i] \in Nat /\ done[i] < alarm_ts
    BY <1>1 DEF InvDone, InvTypes
  <2>2. ASSUME NEW e \in 0..MsgEnd, idx[e] \in Nat \X Nat, idx[e][1] = done[i]
        PROVE  Owns(idx[e][2], done[i])'
    <3>1. Owns(idx[e][2], done[i]) /\ idx[e][2] \in Nat
      BY <2>2 DEF InvDone
    <3>2. idx' = idx /\ done' = done
      BY <1>1
    <3> QED
      BY <1>3, <2>1, <3>1, <3>2, OwnsKept
  <2> QED
    BY <2>1, <2>2
<1> QED
  BY <1>4, <1>5, <1>6, <1>7, <1>8, <1>9
\* There is room for a second that is asked for.
LEMMA RoomForSecond ==
  ASSUME InvTypes, InvAddr, Asked, UNCHANGED <<saving, alarm_ts>>
  PROVE  /\ info_addr + 1 + SecondsToCome' <= Bytes(alarm_ts)' + late'
         /\ info_addr + 1 <= InfoEnd
<1> DEFINE s == SecondsToCome'
           b == Bytes(alarm_ts)
           l == late'
<1>1. /\ l \in 0..MaxLate /\ late \in Nat /\ info_addr \in Nat
      /\ s + 1 + late <= SecondsToCome + l
  BY AskedOnce, Sizes DEF InvTypes
<1>2. b \in Nat /\ b + MaxLate <= InfoEnd /\ Bytes(alarm_ts)' = b
  BY Room DEF InvTypes, Bytes
<1>3. SecondsToCome \in Nat
  BY SecondsNat
<1>4. s \in Nat
  BY SMTT(30), AskedOnce, Sizes DEF InvTypes, SecondsToCome
<1>5. info_addr + SecondsToCome <= b + late
  BY DEF InvAddr
<1> HIDE DEF s, b, l
<1>6. info_addr + 1 + s <= b + l
  BY <1>1, <1>2, <1>3, <1>4, <1>5
<1>7. info_addr + 1 <= InfoEnd
  BY <1>1, <1>2, <1>4, <1>6, Sizes
<1> QED
  BY <1>2, <1>6, <1>7 DEF s, b, l

\* What a second leaves of the index, if it lies over it or not.
LEMMA Uncovered ==
  ASSUME InvTypes
  PROVE  /\ DOMAIN Covered = 0..MsgEnd
         /\ \A e \in 0..MsgEnd : Covered[e] \in {idx[e], Damaged}
         /\ info_addr # IndexAt => Covered = idx
<1>1. DOMAIN idx = 0..MsgEnd
  BY DEF InvTypes
<1>2. CASE info_addr = IndexAt
  BY <1>1, <1>2 DEF Covered
<1>3. CASE info_addr # IndexAt
  BY <1>1, <1>3 DEF Covered
<1> QED
  BY <1>2, <1>3

\* As long as none has lain over it, it is as it was.
LEMMA SoundSecond ==
  ASSUME InvTypes, Storage_Write_AlarmInfo, sound'
  PROVE  sound /\ Covered = idx
<1>1. sound' = (sound /\ info_addr # IndexAt)
  BY DEF Storage_Write_AlarmInfo
<1>2. sound /\ info_addr # IndexAt
  BY <1>1, Zenon
<1> QED
  BY <1>2, Uncovered

\* A second goes behind those its record has.
LEMMA SecondWritten ==
  ASSUME IInv, Storage_Write_AlarmInfo
  PROVE  /\ DOMAIN info' = 0..InfoEnd
         /\ \A a \in 0..InfoEnd, p \in Nat \X Nat : Holds(a, p) => Holds(a, p)'
         /\ open => /\ info_addr + 1 = index_item[2] + secs'
                    /\ \A k \in 1..secs' : Holds(index_item[2] + k - 1, <<index_item[1], k>>)'
<1> DEFINE new == <<alarm_ts, secs + 1>>
<1>1. /\ info' = [info EXCEPT ![info_addr] = Program(@, new)]
      /\ secs' = secs + 1 /\ index_item' = index_item
      /\ index_item[1] = alarm_ts
      /\ UNCHANGED <<saving, alarm_ts>> /\ Asked
  BY DEF Storage_Write_AlarmInfo
<1>2. /\ DOMAIN info' = 0..InfoEnd
      /\ \A a \in 0..InfoEnd, p \in Nat \X Nat : Holds(a, p) => Holds(a, p)'
  BY <1>1, CellsKept DEF IInv
<1>3. info_addr \in 0..InfoEnd
  BY <1>1, RoomForSecond, Sizes DEF IInv, InvTypes
<1>4. info'[info_addr] \in {new, Damaged}
  <2>1. info'[info_addr] = Program(info[info_addr], new)
    BY <1>1, <1>3 DEF IInv, InvTypes
  <2> QED
    BY <2>1, Programmed
<1>5. ASSUME open
      PROVE  /\ info_addr + 1 = index_item[2] + secs'
             /\ \A k \in 1..secs' : Holds(index_item[2] + k - 1, <<index_item[1], k>>)'
  <2>1. /\ info_addr = index_item[2] + secs /\ secs \in Nat
        /\ index_item[1] \in Nat /\ index_item[2] \in Nat /\ info_addr \in Nat
        /\ \A k \in 1..secs : Holds(index_item[2] + k - 1, <<index_item[1], k>>)
    BY <1>5 DEF IInv, InvItem, InvTypes
  <2> SUFFICES ASSUME NEW k \in 1..secs'
               PROVE  info'[index_item[2] + k - 1] \in {<<index_item[1], k>>, Damaged}
    BY <1>1, <2>1 DEF Holds, Damaged
  <2>2. CASE k = secs + 1
    <3>1. index_item[2] + k - 1 = info_addr /\ <<index_item[1], k>> = new
      BY <1>1, <2>1, <2>2
    <3> QED
      BY <1>4, <3>1
  <2>3. CASE k # secs + 1
    <3> DEFINE a == index_item[2] + k - 1
               p == <<index_item[1], k>>
    <3>1. k \in 1..secs
      BY <1>1, <2>1, <2>3
    <3>2. a \in 0..InfoEnd /\ p \in Nat \X Nat
      BY <1>3, <2>1, <3>1, Sizes
    <3>3. info[a] \in {p, Damaged}
      BY <2>1, <3>1 DEF Holds
    <3>4. \A b \in 0..InfoEnd, q \in Nat \X Nat :
            info[b] \in {q, Damaged} => info'[b] \in {q, Damaged}
      BY <1>2 DEF Holds, Damaged
    <3> QED
      BY <3>2, <3>3, <3>4
  <2> QED
    BY <2>2, <2>3
<1> QED
  BY <1>2, <1>5
\* What the second is written for: the alarm of the last message, which came.
LEMMA SecondOf ==
  ASSUME IInv, Storage_Write_AlarmInfo
  PROVE  /\ index_item[1] = alarm_ts /\ ~pending /\ index_item' = index_item
         /\ Asked /\ secs' = secs + 1
         /\ UNCHANGED <<config.flag, saved, alarm_ts, saving, pending>>
         /\ index' \in Nat /\ late' \in late..MaxLate
<1>1. /\ index_item[1] = alarm_ts /\ index_item' = index_item
      /\ Asked /\ secs' = secs + 1 /\ UNCHANGED <<saved, alarm_ts, saving, pending>>
  BY DEF Storage_Write_AlarmInfo
<1>2. config'.flag = config.flag
  BY DEF Storage_Write_AlarmInfo, WriteIndex, IInv, InvTypes
<1>3. ~pending
  BY <1>1 DEF IInv, InvItem, InvTypes
<1>4. index' \in Nat /\ late' \in late..MaxLate
  BY <1>1, AskedOnce DEF IInv
<1> QED
  BY <1>1, <1>2, <1>3, <1>4

\* A second that is not the last.
LEMMA SecondKeeps == IInv /\ Storage_Write_AlarmInfo /\ index' < RecLen => IInv'
<1> SUFFICES ASSUME IInv, Storage_Write_AlarmInfo, index' < RecLen PROVE IInv'
  OBVIOUS
<1> USE DEF IInv
<1>1. /\ info_addr' = info_addr + 1
      /\ idx' = Covered
      /\ UNCHANGED <<addr, index_addr, index_num, config, open, done>>
  <2>1. ~(index' >= RecLen)
    BY SecondOf, Sizes
  <2> QED
    BY <2>1 DEF Storage_Write_AlarmInfo
<1>2. /\ DOMAIN info' = 0..InfoEnd
      /\ \A a \in 0..InfoEnd, p \in Nat \X Nat : Holds(a, p) => Holds(a, p)'
  BY SecondWritten
<1>21. DOMAIN idx' = 0..MsgEnd /\ \A e \in 0..MsgEnd : idx'[e] \in {idx[e], Damaged}
  BY <1>1, Uncovered
<1>22. \A e \in 0..MsgEnd : idx'[e] \in Nat \X Nat => idx'[e] = idx[e]
  <2>1. \A p \in Nat \X Nat : p # Damaged
    BY Kinds
  <2> QED
    BY <1>21, <2>1
<1>3. InvTypes'
  <2>1. DOMAIN info' = (0..InfoEnd)' /\ DOMAIN idx' = (0..MsgEnd)'
    BY <1>2, <1>21 DEF InvTypes, InfoEnd, MsgEnd
  <2>2. info_addr' \in Nat /\ late' \in 0..MaxLate /\ secs' \in Nat
    BY SMTT(30), <1>1, SecondOf, Sizes DEF InvTypes
  <2> QED
    BY <1>1, <2>1, <2>2, SecondOf DEF InvTypes
<1>4. InvIndex'
  BY <1>1 DEF InvIndex
<1>5. InvAddr'
  <2>1. addr' + ToCome' <= Slots + alarm_ts'
    BY <1>1, SecondOf DEF InvAddr, ToCome
  <2>2. info_addr' + SecondsToCome' <= Bytes(alarm_ts)' + late'
    BY <1>1, SecondOf, RoomForSecond
  <2> QED
    BY <2>1, <2>2 DEF InvAddr
<1>6. InvItem'
  BY SMTT(30), <1>1, SecondOf, SecondWritten DEF InvItem, InvTypes
<1>7. InvEntries'
  <2> SUFFICES ASSUME NEW e \in 0..MsgEnd
               PROVE  /\ idx'[e] \in {Erased, Damaged} \cup (Nat \X Nat)
                      /\ idx'[e] \in Nat \X Nat =>
                           /\ idx'[e][1] \in Nat \ {0} /\ idx'[e][1] <= alarm_ts
                           /\ idx'[e][1] = index_item[1] => idx'[e] = index_item
    BY SecondOf DEF InvEntries, Erased, Damaged, MsgEnd
  <2>1. CASE idx'[e] = idx[e]
    BY <2>1 DEF InvEntries
  <2>2. CASE idx'[e] = Damaged
    BY <2>2, Kinds
  <2> QED
    BY <2>1, <2>2, <1>21
<1>8. InvDone'
  <2> SUFFICES ASSUME NEW i \in DOMAIN done
               PROVE  /\ done[i] = index_item[1] => Owns(index_item[2], done[i])'
                      /\ \A e \in 0..MsgEnd :
                           idx'[e] \in Nat \X Nat /\ idx'[e][1] = done[i] => Owns(idx[e][2], done[i])'
    BY <1>1, SecondOf DEF InvDone, InvTypes, MsgEnd
  <2>1. done[i] \in Nat /\ done' = done /\ index_item' = index_item
    BY <1>1, SecondOf DEF InvTypes
  <2>2. ASSUME done[i] = index_item[1] PROVE Owns(index_item[2], done[i])'
    <3>1. Owns(index_item[2], done[i]) /\ index_item[2] \in Nat
      BY <2>2 DEF InvDone, InvTypes
    <3> QED
      BY <1>2, <2>1, <3>1, OwnsKept
  <2>3. ASSUME NEW e \in 0..MsgEnd, idx'[e] \in Nat \X Nat, idx'[e][1] = done[i]
        PROVE  Owns(idx[e][2], done[i])'
    <3>1. PICK a \in Nat : a = idx[e][2] /\ idx'[e] = idx[e] /\ idx[e] \in Nat \X Nat
      BY <1>22, <2>3
    <3>2. Owns(a, done[i])
      BY <2>3, <3>1 DEF InvDone
    <3>3. Owns(a, done[i])'
      BY <1>2, <2>1, <3>2, OwnsKept
    <3> QED
      BY <3>1, <3>3, <2>1
  <2> QED
    BY <2>2, <2>3
<1> QED
  BY <1>3, <1>4, <1>5, <1>6, <1>7, <1>8
\* What is done about the index when the last second is written.
LEMMA Indexed ==
  ASSUME IInv, Storage_Write_AlarmInfo, index' >= RecLen
  PROVE  /\ \A e \in 0..MsgEnd : idx'[e] \in {idx[e], index_item, Damaged}
         /\ DOMAIN idx' = 0..MsgEnd
         /\ index_num' \in 0..Slots /\ config' \in [flag : Flags, num : 0..Slots]
         /\ addr' \in {0, addr} /\ info_addr' \in {0, info_addr + 1} /\ index_addr' \in Nat
         /\ open' = FALSE /\ InvIndex'
<1> USE DEF IInv
<1>1. WriteIndex(Covered) /\ open' = FALSE
  BY DEF Storage_Write_AlarmInfo
<1>2. /\ DOMAIN Covered = 0..MsgEnd /\ idx' = [Covered EXCEPT ![index_addr] = Program(@, index_item)]
      /\ \A e \in 0..MsgEnd : Covered[e] \in {idx[e], Damaged}
  BY <1>1, Uncovered DEF WriteIndex, IndexEntry
<1>3. Program(Covered[index_addr], index_item) \in {index_item, Damaged}
  BY Programmed
<1>4. \A e \in 0..MsgEnd : idx'[e] \in {idx[e], index_item, Damaged}
  <2>1. \A e \in 0..MsgEnd : idx'[e] \in {Covered[e], index_item, Damaged}
    BY <1>2, <1>3
  <2> QED
    BY <1>2, <2>1
<1>5. index_num \in 0..Slots /\ index_num' = NextSlot /\ NextSlot \in 0..Slots
  <2>1. index_num' = NextSlot
    BY <1>1, Zenon DEF WriteIndex
  <2>2. index_num \in 0..Slots /\ Slots \in Nat
    BY Sizes DEF InvTypes
  <2>3. NextSlot \in 0..Slots
    BY <2>2 DEF NextSlot
  <2> QED
    BY <2>1, <2>2, <2>3
<1>6. config' \in [flag : Flags, num : 0..Slots]
  BY <1>1, <1>5 DEF WriteIndex, InvTypes
<1>7. /\ addr' \in {0, addr} /\ info_addr' \in {0, info_addr + 1}
      /\ index_addr' \in Nat /\ index_addr' = IF NextSlot = Slots THEN 0 ELSE index_addr + 1
  BY SMTT(30), <1>1 DEF WriteIndex, InvTypes
<1>8. InvIndex'
  BY <1>5, <1>7, Sizes DEF InvIndex, NextSlot
<1> QED
  BY <1>1, <1>2, <1>4, <1>5, <1>6, <1>7, <1>8

\* The record that is finished is the one the entries of its alarm name.
LEMMA LastKeeps == IInv /\ rising /\ Storage_Write_AlarmInfo /\ index' >= RecLen => IInv'
<1> SUFFICES ASSUME IInv, rising, Storage_Write_AlarmInfo, index' >= RecLen PROVE IInv'
  OBVIOUS
<1> USE DEF IInv
<1>1. \/ done' = done
      \/ done' = Append(done, alarm_ts) /\ open /\ secs' = RecLen /\ alarm_ts > 0
  BY DEF Storage_Write_AlarmInfo, Asked
<1>11. /\ done' \in Seq(Nat \ {0})
       /\ \A i \in DOMAIN done' :
            \/ i \in DOMAIN done /\ done'[i] = done[i]
            \/ done'[i] = alarm_ts /\ open /\ secs' = RecLen /\ alarm_ts > 0
  <2>1. CASE done' = done
    BY <2>1 DEF InvTypes
  <2>2. CASE done' = Append(done, alarm_ts) /\ open /\ secs' = RecLen /\ alarm_ts > 0
    <3>1. done \in Seq(Nat \ {0}) /\ alarm_ts \in Nat \ {0}
      BY <2>2, Sizes DEF InvTypes
    <3>2. done' \in Seq(Nat \ {0})
      BY <2>2, <3>1
    <3>3. ASSUME NEW i \in DOMAIN done'
          PROVE  \/ i \in DOMAIN done /\ done'[i] = done[i]
                 \/ done'[i] = alarm_ts
      BY <2>2, <3>1
    <3> QED
      BY <2>2, <3>2, <3>3
  <2> QED
    BY <1>1, <2>1, <2>2
<1>2. /\ DOMAIN info' = 0..InfoEnd
      /\ \A a \in 0..InfoEnd, p \in Nat \X Nat : Holds(a, p) => Holds(a, p)'
  BY SecondWritten
<1>3. InvTypes'
  <2>1. DOMAIN info' = (0..InfoEnd)' /\ DOMAIN idx' = (0..MsgEnd)'
    BY Indexed, <1>2 DEF InvTypes, InfoEnd, MsgEnd
  <2>2. /\ info_addr' \in Nat /\ addr' \in Nat /\ index_addr' \in Nat
        /\ late' \in 0..MaxLate /\ secs' \in Nat
    <3>1. addr \in Nat /\ info_addr \in Nat /\ secs \in Nat /\ late \in 0..MaxLate
      BY DEF InvTypes
    <3>2. addr' \in Nat /\ info_addr' \in Nat /\ index_addr' \in Nat
      BY <3>1, Indexed
    <3>3. secs' \in Nat /\ late' \in 0..MaxLate
      BY <3>1, SecondOf, Sizes
    <3> QED
      BY <3>2, <3>3
  <2>3. done' \in Seq(Nat \ {0})
    BY <1>11
  <2>4. index_num' \in 0..Slots /\ config' \in [flag : Flags, num : 0..Slots] /\ open' = FALSE
    BY Indexed
  <2> QED
    BY <2>1, <2>2, <2>3, <2>4, SecondOf DEF InvTypes
<1>4. InvIndex'
  BY Indexed
<1>5. InvAddr'
  <2>1. addr' + ToCome' <= Slots + alarm_ts'
    <3>1. ToCome = 0 /\ ToCome' = 0
      BY SecondOf DEF ToCome
    <3>2. addr' \in {0, addr} /\ addr \in Nat /\ alarm_ts \in Nat /\ alarm_ts' = alarm_ts
      BY Indexed, SecondOf, Sizes DEF InvTypes
    <3>3. addr + 0 <= Slots + alarm_ts
      BY <3>1 DEF InvAddr
    <3>4. 0 + 0 <= Slots + alarm_ts
      BY <3>2, Sizes
    <3> QED
      BY <3>1, <3>2, <3>3, <3>4
  <2>2. info_addr' + SecondsToCome' <= Bytes(alarm_ts)' + late'
    <3>1. SecondsToCome' = 0
      BY SecondOf, Sizes DEF SecondsToCome
    <3>2. info_addr + 1 + SecondsToCome' <= Bytes(alarm_ts)' + late'
      BY SecondOf, RoomForSecond
    <3>3. info_addr + 1 <= Bytes(alarm_ts)' + late'
      BY <3>1, <3>2 DEF InvTypes
    <3>4. Bytes(alarm_ts)' \in Nat /\ late' \in Nat
      BY <1>3, Room, Sizes, SecondOf DEF InvTypes, Bytes
    <3>5. info_addr' \in {0, info_addr + 1} /\ info_addr \in Nat
      BY Indexed DEF InvTypes
    <3>6. info_addr' <= Bytes(alarm_ts)' + late' /\ info_addr' \in Nat
      BY <3>3, <3>4, <3>5
    <3> QED
      BY <3>1, <3>6
  <2> QED
    BY <2>1, <2>2 DEF InvAddr
<1>6. InvItem'
  <2>1. open' = FALSE /\ pending' = pending /\ index_item' = index_item /\ alarm_ts' = alarm_ts
    BY Indexed, SecondOf
  <2> QED
    BY <2>1 DEF InvItem
<1>7. InvEntries'
  <2> SUFFICES ASSUME NEW e \in 0..MsgEnd
               PROVE  /\ idx'[e] \in {Erased, Damaged} \cup (Nat \X Nat)
                      /\ idx'[e] \in Nat \X Nat =>
                           /\ idx'[e][1] \in Nat \ {0} /\ idx'[e][1] <= alarm_ts
                           /\ idx'[e][1] = index_item[1] => idx'[e] = index_item
    BY SecondOf DEF InvEntries, Erased, Damaged, MsgEnd
  <2>1. CASE idx'[e] = idx[e]
    BY <2>1 DEF InvEntries
  <2>2. CASE idx'[e] = index_item
    BY <2>2, SecondOf DEF InvTypes, Asked
  <2>3. CASE idx'[e] = Damaged
    BY <2>3, Kinds
  <2> QED
    BY <2>1, <2>2, <2>3, Indexed
<1>8. ASSUME NEW i \in DOMAIN done', NEW t, t = done'[i]
      PROVE  /\ t \in Nat /\ t <= alarm_ts
             /\ \A a \in Nat : <<t, a>> = index_item => Owns(a, t)'
             /\ \A a \in Nat, e \in 0..MsgEnd : <<t, a>> = idx'[e] => Owns(a, t)'
  <2>1. t \in Nat /\ t <= alarm_ts
    <3>1. alarm_ts \in Nat
      BY Sizes DEF InvTypes
    <3>2. \A j \in DOMAIN done : done[j] \in Nat /\ done[j] <= alarm_ts
      BY DEF InvTypes, InvDone
    <3>3. (i \in DOMAIN done /\ t = done[i]) \/ t = alarm_ts
      BY <1>11, <1>8
    <3> QED
      BY <3>1, <3>2, <3>3
  <2>2. ASSUME NEW a \in Nat, <<t, a>> = index_item PROVE Owns(a, t)'
    <3>1. ASSUME t = alarm_ts, open, secs' = RecLen PROVE Owns(a, t)'
      <4>1. a + RecLen <= InfoEnd + 1
        BY <2>2, <3>1, SecondWritten, SecondOf, RoomForSecond, Sizes DEF InvTypes
      <4>2. \A k \in 1..RecLen : Holds(index_item[2] + k - 1, <<index_item[1], k>>)'
        BY <3>1, SecondWritten
      <4>3. index_item' = index_item /\ a = index_item[2] /\ t = index_item[1]
        BY <2>2, SecondOf
      <4> QED
        BY <4>1, <4>2, <4>3 DEF Owns, Holds, InfoEnd, Damaged
    <3>2. ASSUME NEW j \in DOMAIN done, t = done[j] PROVE Owns(a, t)'
      <4>1. Owns(a, t)
        BY <2>2, <3>2 DEF InvDone
      <4> QED
        BY <1>2, <2>1, <4>1, OwnsKept
    <3> QED
      BY <1>11, <1>8, <3>1, <3>2
  <2>3. ASSUME NEW a \in Nat, NEW e \in 0..MsgEnd, <<t, a>> = idx'[e] PROVE Owns(a, t)'
    <3>1. idx'[e] \in {idx[e], index_item}
      <4>1. idx'[e] # Damaged
        BY <2>1, <2>3, Kinds
      <4>2. idx'[e] \in {idx[e], index_item, Damaged}
        BY Indexed
      <4> QED
        BY <4>1, <4>2
    <3>2. CASE idx'[e] = index_item
      BY <2>2, <2>3, <3>2
    <3>3. CASE idx'[e] = idx[e]
      <4>1. idx[e] = <<t, a>> /\ idx[e] \in Nat \X Nat
        BY <2>1, <2>3, <3>3
      <4>2. CASE t = alarm_ts
        <5>1. idx[e] = index_item
          BY <4>1, <4>2, SecondOf DEF InvEntries
        <5> QED
          BY <2>2, <4>1, <5>1
      <4>3. CASE t # alarm_ts
        <5>1. PICK j \in DOMAIN done : t = done[j]
          BY <1>11, <1>8, <4>3
        <5>2. Owns(a, t)
          BY <4>1, <5>1 DEF InvDone
        <5> QED
          BY <1>2, <2>1, <5>2, OwnsKept
      <4> QED
        BY <4>2, <4>3
    <3> QED
      BY <3>1, <3>2, <3>3
  <2> QED
    BY <2>1, <2>2, <2>3
<1>9. InvDone'
  <2> SUFFICES ASSUME NEW i \in DOMAIN done'
               PROVE  /\ done'[i] <= alarm_ts
                      /\ done'[i] = index_item[1] => Owns(index_item[2], done[i])'
                      /\ \A e \in 0..MsgEnd :
                           idx'[e] \in Nat \X Nat /\ idx'[e][1] = done'[i] => Owns(idx[e][2], done[i])'
    BY SecondOf DEF InvDone, MsgEnd
  <2>1. PICK t : t = done'[i]
    OBVIOUS
  <2>2. PICK b : b = index_item[2] /\ b \in Nat
    BY DEF InvTypes
  <2>3. ASSUME t = index_item[1] PROVE Owns(index_item[2], done[i])'
    <3>1. <<t, b>> = index_item
      BY <2>2, <2>3 DEF InvTypes
    <3>2. Owns(b, t)'
      BY <1>8, <2>1, <2>2, <3>1
    <3> QED
      BY <2>1, <2>2, <3>2, SecondOf
  <2>4. ASSUME NEW e \in 0..MsgEnd, idx'[e] \in Nat \X Nat, idx'[e][1] = t
        PROVE  Owns(idx[e][2], done[i])'
    <3>1. PICK a \in Nat : a = idx'[e][2]
      BY <2>4
    <3>2. <<t, a>> = idx'[e]
      BY <2>4, <3>1
    <3>3. Owns(a, t)'
      BY <1>8, <2>1, <3>2
    <3> QED
      BY <2>1, <3>1, <3>3
  <2> QED
    BY <1>8, <2>1, <2>3, <2>4
<1> QED
  BY <1>3, <1>4, <1>5, <1>6, <1>7, <1>9
\* Saving and clearing the configuration leaves the records alone.
LEMMA ConfigKeeps == IInv /\ (SaveConfig \/ kt_ClearConfig \/ ClearConfigFirst) => IInv'
<1> SUFFICES ASSUME IInv, SaveConfig \/ kt_ClearConfig \/ ClearConfigFirst PROVE IInv'
  OBVIOUS
<1> USE DEF IInv
<1>1. /\ UNCHANGED <<object, flash, notify, late, open, secs>>
      /\ done' \in {done, <<>>}
      /\ config' \in [flag : Flags, num : 0..Slots] /\ saved' \in [flag : Flags, num : 0..Slots]
  <2>1. CASE SaveConfig
    BY <2>1 DEF SaveConfig, InvTypes, history
  <2>2. CASE kt_ClearConfig
    BY <2>2, Sizes DEF kt_ClearConfig, InvTypes, Flags, history
  <2>3. CASE ClearConfigFirst
    BY <2>3, Sizes DEF ClearConfigFirst, InvTypes, Flags
  <2> QED
    BY <2>1, <2>2, <2>3
<1> USE DEF object, flash, notify
<1>2. done' \in Seq(Nat \ {0})
  <2>1. done \in Seq(Nat \ {0}) /\ <<>> \in Seq(Nat \ {0})
    BY DEF InvTypes
  <2> QED
    BY <1>1, <2>1
<1>3. InvTypes'
  BY <1>1, <1>2 DEF InvTypes, InfoEnd, MsgEnd
<1>4. InvIndex' /\ InvAddr'
  BY <1>1 DEF InvIndex, InvAddr, Bytes, ToCome, SecondsToCome
<1>5. InvItem'
  BY <1>1 DEF InvItem, Holds, Damaged
<1>6. InvEntries'
  BY <1>1 DEF InvEntries, Erased, Damaged, MsgEnd
<1>7. InvDone'
  <2>1. CASE done' = done
    BY <1>1, <2>1 DEF InvDone, Owns, Holds, Damaged, InfoEnd, MsgEnd
  <2>2. CASE done' = <<>>
    BY <2>2 DEF InvDone
  <2> QED
    BY <1>1, <2>1, <2>2
<1> QED
  BY <1>3, <1>4, <1>5, <1>6, <1>7

\* An erased flash has no entries.
LEMMA ErasedEntries ==
  ASSUME EraseAll
  PROVE  /\ DOMAIN info' = 0..InfoEnd /\ DOMAIN idx' = 0..MsgEnd
         /\ \A e \in 0..MsgEnd : idx'[e] = Erased /\ idx'[e] \notin Nat \X Nat
<1>1. ASSUME Erased \in Nat \X Nat PROVE FALSE
  BY <1>1, Kinds
<1> QED
  BY <1>1 DEF EraseAll, Blank

\* The erase of a clear, or none if it did not get the mutex.
LEMMA EraseKeeps == IInv /\ ClearThenErase => IInv'
<1>1. ASSUME IInv, ClearThenErase, Storage_Clear_AlarmData, open' = FALSE, done' = <<>>
      PROVE  IInv'
  <2> USE DEF IInv
  <2>1. /\ addr' = 0 /\ info_addr' = 0 /\ index_addr' = 0 /\ index_num' = 0
        /\ index_item' = index_item /\ EraseAll
        /\ UNCHANGED <<config, saved, alarm_ts, index, saving, pending, late, secs>>
    BY <1>1, Zenon DEF ClearThenErase, Storage_Clear_AlarmData, notify
  <2>2. InvTypes'
    <3>1. DOMAIN info' = (0..InfoEnd)' /\ DOMAIN idx' = (0..MsgEnd)'
      BY <2>1, ErasedEntries DEF InfoEnd, MsgEnd
    <3>2. done' \in Seq(Nat \ {0})
      BY <1>1
    <3>3. 0 \in Nat /\ 0 \in 0..Slots
      BY Sizes
    <3>4. addr' \in Nat /\ info_addr' \in Nat /\ index_addr' \in Nat /\ index_num' \in 0..Slots
      BY <2>1, <3>3
    <3> QED
      BY <1>1, <2>1, <3>1, <3>2, <3>4 DEF InvTypes
  <2>3. InvIndex'
    BY <2>1, Sizes DEF InvIndex
  <2>4. InvAddr'
    <3>1. addr' + ToCome' <= Slots + alarm_ts'
      <4>1. ToCome' = 0 \/ ToCome' = 1
        BY DEF ToCome
      <4>2. alarm_ts \in Nat
        BY <1>1, Sizes DEF InvTypes
      <4>3. 0 + 0 <= Slots + alarm_ts /\ 0 + 1 <= Slots + alarm_ts
        BY <4>2, Sizes
      <4> QED
        BY <2>1, <4>1, <4>3
    <3>2. info_addr' + SecondsToCome' <= Bytes(alarm_ts)' + late'
      <4> DEFINE s == SecondsToCome
                 b == Bytes(alarm_ts)
      <4>1. s \in Nat /\ b \in Nat /\ late \in Nat /\ s <= b
        <5>1. alarm_ts \in 0..MaxAlarm /\ late \in Nat
          BY <1>1, Sizes DEF InvTypes
        <5>2. b \in Nat
          BY <5>1, Room
        <5> QED
          BY <1>1, <5>1, <5>2, SecondsBound
      <4>2. SecondsToCome' = s /\ Bytes(alarm_ts)' = b /\ late' = late /\ info_addr' = 0
        BY <2>1 DEF SecondsToCome, Bytes
      <4> HIDE DEF s, b
      <4>3. 0 + s <= b + late
        BY <4>1
      <4> QED
        BY <4>2, <4>3
    <3> QED
      BY <3>1, <3>2 DEF InvAddr
  <2>5. InvItem'
    BY <1>1, <2>1 DEF InvItem
  <2>6. InvEntries'
    BY <2>1, ErasedEntries DEF InvEntries, Erased, MsgEnd
  <2>7. InvDone'
    BY <1>1 DEF InvDone
  <2> QED
    BY <2>2, <2>3, <2>4, <2>5, <2>6, <2>7
<1>2. ASSUME IInv, UNCHANGED <<object, flash, config, saved, notify, late, open, secs, done>>
      PROVE  IInv'
  BY <1>2, StillKeeps
<1> QED
  BY <1>1, <1>2 DEF ClearThenErase
\* A start computes addresses that are inside the regions, forgets the record
\* under way and its request, and finds the flash as it was or erased.
LEMMA BootKeeps == IInv /\ Boot => IInv'
<1> SUFFICES ASSUME IInv, Boot PROVE IInv'
  OBVIOUS
<1> USE DEF IInv
<1>1. /\ index_item' = <<0, 0>> /\ index' = 0 /\ saving' = FALSE /\ pending' = FALSE
      /\ open' = FALSE /\ secs' = 0 /\ alarm_ts' = alarm_ts /\ late' = late
      /\ index_num' = config'.num /\ index_addr' = config'.num
      /\ addr' = config'.num /\ info_addr' = config'.num * RecLen
  BY DEF Boot, MsgAfter, InfoAfter
<1>2. config' \in [flag : Flags, num : 0..Slots] /\ saved' \in [flag : Flags, num : 0..Slots]
  <2> DEFINE Config == [flag : Flags, num : 0..Slots]
  <2>1. saved \in Config /\ [flag |-> "FIRST_ON", num |-> 0] \in Config
    BY Sizes DEF InvTypes, Flags
  <2>2. [saved EXCEPT !.flag = "NEXT_ON"] \in Config
    BY <2>1 DEF Flags
  <2>3. /\ saved' = IF saved.flag = "NONE" THEN [flag |-> "FIRST_ON", num |-> 0] ELSE saved
        /\ config' = IF saved.flag = "NONE" THEN saved' ELSE [saved EXCEPT !.flag = "NEXT_ON"]
    BY DEF Boot
  <2> HIDE DEF Config
  <2>4. config' \in Config /\ saved' \in Config
    BY <2>1, <2>2, <2>3
  <2> QED
    BY <2>4 DEF Config
<1>3. \/ done' = <<>> /\ EraseAll
      \/ done' = done /\ info' = info /\ idx' = idx
      \/ done' = done /\ EraseAll
  BY DEF Boot, flash
<1>4. PICK n \in 0..Slots : n = config'.num
  BY <1>2
<1>5. n \in Nat /\ n * RecLen \in Nat /\ n * RecLen <= Bytes(alarm_ts) /\ Bytes(alarm_ts) \in Nat
  <2>1. alarm_ts \in 0..MaxAlarm
    BY DEF InvTypes
  <2> QED
    BY <2>1, Room, Sizes
<1>6. InvTypes'
  <2>1. DOMAIN info' = (0..InfoEnd)' /\ DOMAIN idx' = (0..MsgEnd)'
    BY <1>3, ErasedEntries DEF InvTypes, InfoEnd, MsgEnd
  <2>2. done' \in Seq(Nat \ {0})
    <3>1. done \in Seq(Nat \ {0}) /\ <<>> \in Seq(Nat \ {0})
      BY DEF InvTypes
    <3> QED
      BY <1>3, <3>1
  <2>3. addr' \in Nat /\ info_addr' \in Nat /\ index_addr' \in Nat /\ index_num' \in 0..Slots
    BY <1>1, <1>4, <1>5
  <2>4. <<0, 0>> \in Nat \X Nat
    OBVIOUS
  <2> QED
    BY <1>1, <1>2, <2>1, <2>2, <2>3, <2>4 DEF InvTypes
<1>7. InvIndex'
  BY <1>1 DEF InvIndex
<1>8. InvAddr'
  <2>1. ToCome' = 0 /\ SecondsToCome' = 0
    BY <1>1 DEF ToCome, SecondsToCome
  <2>2. alarm_ts \in Nat /\ late \in Nat
    BY Sizes DEF InvTypes
  <2>3. n + 0 <= Slots + alarm_ts
    BY <2>2, Sizes
  <2>4. n * RecLen + 0 <= Bytes(alarm_ts) + late
    BY <1>5, <2>2
  <2> QED
    BY <1>1, <1>4, <2>1, <2>3, <2>4 DEF InvAddr, Bytes
<1>9. InvItem'
  BY <1>1 DEF InvItem, InvTypes
<1>10. InvEntries'
  <2>1. CASE idx' = idx
    BY <1>1, <2>1 DEF InvEntries, Erased, Damaged, MsgEnd
  <2>2. CASE EraseAll
    BY <2>2, ErasedEntries DEF InvEntries, Erased, MsgEnd
  <2> QED
    BY <1>3, <2>1, <2>2
<1>11. InvDone'
  <2>1. CASE done' = <<>>
    BY <2>1 DEF InvDone
  <2>2. CASE done' = done
    <3>1. \A i \in DOMAIN done : done[i] <= alarm_ts /\ done[i] # 0
      BY DEF InvDone, InvTypes
    <3>2. \A i \in DOMAIN done, e \in 0..MsgEnd :
            idx'[e] \in Nat \X Nat /\ idx'[e][1] = done[i] => Owns(idx[e][2], done[i])'
      <4>1. CASE info' = info /\ idx' = idx
        BY <2>2, <4>1 DEF InvDone, Owns, Holds, Damaged, InfoEnd
      <4>2. CASE EraseAll
        BY <4>2, ErasedEntries
      <4> QED
        BY <1>3, <4>1, <4>2
    <3> QED
      BY <1>1, <2>2, <3>1, <3>2 DEF InvDone, MsgEnd
  <2> QED
    BY <1>3, <2>1, <2>2
<1> QED
  BY <1>6, <1>7, <1>8, <1>9, <1>10, <1>11

LEMMA NextInv == IInv /\ rising' /\ [Next]_vars => IInv'
<1> SUFFICES ASSUME IInv, rising', [Next]_vars PROVE IInv'
  OBVIOUS
<1>0. rising
  BY RisingBefore
<1>1. CASE Storage_Write_AlarmInfo
  <2>1. index' < RecLen \/ index' >= RecLen
    BY <1>1, SecondOf, Sizes
  <2> QED
    BY <1>0, <1>1, <2>1, SecondKeeps, LastKeeps
<1>2. CASE UNCHANGED vars
  BY <1>2, StillKeeps DEF vars, history
<1> QED
  BY <1>1, <1>2, RaiseKeeps, EndKeeps, MsgKeeps, ConfigKeeps, EraseKeeps, BootKeeps
     DEF Next, alarm_task

LEMMA Invariant == Spec => [](rising => IInv)
<1>1. Init => (rising => IInv)
  BY InitInv
<1>2. (rising => IInv) /\ [Next]_vars => (rising => IInv)'
  BY NextInv, RisingBefore
<1> QED
  BY <1>1, <1>2, PTL DEF Spec
----------------------------------------------------------------------------
\* The count, and where the next entry goes, for whatever stamps.
Config == [flag : Flags, num : 0..Slots]
InvCounts == index_num \in 0..Slots /\ InvIndex /\ config \in Config /\ saved \in Config

LEMMA CountsStep == InvCounts /\ [Next]_vars => InvCounts'
<1> SUFFICES ASSUME InvCounts, [Next]_vars PROVE InvCounts'
  OBVIOUS
<1>0. 0 \in 0..Slots /\ Slots \in Nat
  BY Sizes
<1>1. ASSUME UNCHANGED <<index_num, index_addr>>, config' \in Config, saved' \in Config
      PROVE  InvCounts'
  BY <1>1 DEF InvCounts, InvIndex, Config
<1>2. CASE Storage_Write_AlarmInfo
  <2>1. CASE WriteIndex(Covered)
    <3>1. /\ index_num' = NextSlot /\ config' = [config EXCEPT !.num = index_num'] /\ saved' = saved
          /\ index_addr' = IF NextSlot = Slots THEN 0 ELSE index_addr + 1
      BY <1>2, <2>1, Zenon DEF Storage_Write_AlarmInfo, WriteIndex
    <3>2. index_num' \in 0..Slots /\ InvIndex'
      BY <1>0, <3>1 DEF InvCounts, InvIndex, NextSlot
    <3> QED
      BY <3>1, <3>2 DEF InvCounts, Config
  <2>2. CASE UNCHANGED <<index_addr, index_num, config>>
    BY <1>1, <1>2, <2>2 DEF Storage_Write_AlarmInfo, InvCounts
  <2> QED
    BY <1>2, <2>1, <2>2 DEF Storage_Write_AlarmInfo
<1>3. CASE Storage_Write_AlarmMsg
  BY <1>1, <1>3 DEF Storage_Write_AlarmMsg, InvCounts
<1>4. CASE Raise \/ SaveEnd \/ MsgTimeout \/ InfoTimeout \/ InfoRefused \/ UNCHANGED vars
  BY <1>1, <1>4
     DEF Raise, SaveEnd, MsgTimeout, InfoTimeout, InfoRefused, vars, object, InvCounts
<1>5. CASE SaveConfig \/ ClearConfigFirst \/ kt_ClearConfig
  <2>1. UNCHANGED <<index_num, index_addr>>
    BY <1>5 DEF SaveConfig, ClearConfigFirst, kt_ClearConfig, object
  <2>2. config' \in Config /\ saved' \in Config
    BY <1>0, <1>5 DEF SaveConfig, ClearConfigFirst, kt_ClearConfig, InvCounts, Config, Flags
  <2> QED
    BY <1>1, <2>1, <2>2
<1>6. CASE ClearThenErase
  <2>1. CASE Storage_Clear_AlarmData
    <3>1. index_num' = 0 /\ index_addr' = 0 /\ config' = config /\ saved' = saved
      BY <1>6, <2>1 DEF ClearThenErase, Storage_Clear_AlarmData
    <3> QED
      BY <1>0, <3>1 DEF InvCounts, InvIndex, Config
  <2>2. CASE UNCHANGED object
    BY <1>1, <1>6, <2>2 DEF ClearThenErase, object, InvCounts
  <2> QED
    BY <1>6, <2>1, <2>2 DEF ClearThenErase
<1>7. CASE Boot
  <2>1. /\ index_num' = config'.num /\ index_addr' = config'.num
        /\ saved' = IF saved.flag = "NONE" THEN [flag |-> "FIRST_ON", num |-> 0] ELSE saved
        /\ config' = IF saved.flag = "NONE" THEN saved' ELSE [saved EXCEPT !.flag = "NEXT_ON"]
    BY <1>7 DEF Boot
  <2>2. config' \in Config /\ saved' \in Config
    BY <1>0, <2>1 DEF InvCounts, Config, Flags
  <2>3. index_num' \in 0..Slots /\ InvIndex'
    BY <2>1, <2>2 DEF Config, InvIndex
  <2> QED
    BY <2>2, <2>3 DEF InvCounts, Config
<1> QED
  BY <1>2, <1>3, <1>4, <1>5, <1>6, <1>7 DEF Next, alarm_task

\* The count saturates at its limit, in the object and in both copies of the
\* configuration, and until then an entry goes where the count says: over clears,
\* restarts and a full flash.
THEOREM CountSaturates == Spec => []TypeOK
<1>1. Init => InvCounts
  BY Sizes DEF Init, InvCounts, InvIndex, Config, Flags
<1>2. ASSUME InvCounts PROVE TypeOK
  <2>1. index_num \in 0..Slots /\ config.num \in 0..Slots /\ saved.num \in 0..Slots
    BY <1>2 DEF InvCounts, Config
  <2>2. index_addr \in 0..Slots /\ (~Full => index_addr = index_num)
    BY <1>2, Sizes DEF InvCounts, InvIndex, Full
  <2> QED
    BY <2>1, <2>2 DEF TypeOK
<1> QED
  BY <1>1, <1>2, CountsStep, PTL DEF Spec

\* The pages that are searched are pages of the index.
LEMMA PagesInside ==
  ASSUME index_num \in 0..Slots
  PROVE  Pages * PerPage - 1 <= MsgEnd /\ Pages * PerPage \in Int
<1> DEFINE q == (index_num + PerPage - 1) \div PerPage
           m == Slots \div PerPage
<1>1. PerPage \in Nat /\ PerPage > 0 /\ Slots \in Nat /\ Slots > 0 /\ Slots % PerPage = 0
  BY AlarmStorageAssumption
<1>2. m \in Int /\ Slots = PerPage * m
  BY <1>1, SMT
<1>3. q \in Int /\ PerPage * q <= index_num + PerPage - 1
  BY <1>1, SMT
<1> HIDE DEF q, m
<1>4. ASSUME q >= m + 1 PROVE FALSE
  <2>1. PerPage * q >= PerPage * (m + 1)
    BY <1>1, <1>2, <1>3, <1>4, SMT
  <2>2. PerPage * (m + 1) = Slots + PerPage
    BY <1>1, <1>2, SMT
  <2> QED
    BY <1>1, <1>2, <1>3, <2>1, <2>2, SMT
<1>5. PerPage * q <= PerPage * m
  BY <1>1, <1>2, <1>3, <1>4, SMT
<1>6. q * PerPage <= Slots /\ q * PerPage \in Int
  BY <1>1, <1>2, <1>3, <1>5, SMT
<1>7. ASSUME m <= 0 PROVE FALSE
  BY <1>1, <1>2, <1>7, SMT
<1>8. 1 * PerPage <= Slots /\ 1 * PerPage \in Int
  <2>1. PerPage * 1 <= PerPage * m
    BY <1>1, <1>2, <1>7, SMT
  <2> QED
    BY <1>1, <1>2, <2>1, SMT
<1>9. Pages = 1 \/ Pages = q
  BY DEF Pages, q
<1>10. Pages * PerPage <= Slots /\ Pages * PerPage \in Int
  BY <1>6, <1>8, <1>9
<1> QED
  BY <1>10, Sizes

\* While stamps rise: whatever happens to a record once it is finished, it is not
\* found any more or read with its own seconds, some of them damaged, and never
\* with another's.
THEOREM NoSecondsOfOthers == Spec => []OwnSeconds
<1>1. ASSUME IInv PROVE OwnSeconds
  <2> SUFFICES ASSUME NEW i \in DOMAIN done, NEW k \in DOMAIN Read(done[i])
               PROVE  Read(done[i])[k] \in {<<done[i], k>>, Damaged}
    BY DEF OwnSeconds
  <2> DEFINE ts == done[i]
             e == CHOOSE f \in First(ts) : TRUE
  <2>1. done[i] \in Nat \ {0} /\ index_num \in 0..Slots
    BY <1>1 DEF IInv, InvTypes
  <2>2. First(ts) # {} /\ Read(ts) = From(idx[e][2])
    <3>1. ASSUME First(ts) = {} PROVE FALSE
      BY <3>1 DEF Read
    <3> QED
      BY <3>1 DEF Read
  <2>3. e \in Entries(ts)
    BY <2>2 DEF First
  <2> HIDE DEF e
  <2>4. e \in 0..MsgEnd /\ idx[e] # Erased /\ idx[e][1] = ts
    BY <2>1, <2>3, PagesInside, Sizes DEF Entries
  <2>5. idx[e] \in Nat \X Nat
    <3>1. idx[e] \in {Erased, Damaged} \cup (Nat \X Nat)
      BY <1>1, <2>4 DEF IInv, InvEntries
    <3>2. Damaged[1] = 0
      BY DEF Damaged
    <3> QED
      BY <2>1, <2>4, <3>1, <3>2
  <2>6. Owns(idx[e][2], ts)
    BY <1>1, <2>4, <2>5 DEF IInv, InvDone
  <2>7. k \in 1..RecLen /\ Read(ts)[k] = info[idx[e][2] + k - 1]
    BY <2>2 DEF From
  <2> QED
    BY <2>6, <2>7 DEF Owns, Holds
<1>2. ~rising => OwnSeconds
  BY DEF OwnSeconds
<1> QED
  BY <1>1, <1>2, Invariant, PTL
----------------------------------------------------------------------------
\* What the configuration says of the count, and when: a clear takes the flag
\* back, and only a start sets it.
InvConfig ==
  /\ clearing \in BOOLEAN
  /\ clearing => config.flag = "FIRST_ON"
  /\ Armed => config.num = index_num
  /\ config.flag = "NONE" => config.num \in {0, index_num}

\* Until the start behind a clear no alarm is raised, so one record at most is
\* finished: the one that was under way.
ToFinish == IF open \/ pending THEN 1 ELSE 0
Unarmed == config.flag = "FIRST_ON" \/ (saved.num = Slots /\ ~Full)
InvOne == Unarmed => ~Armed /\ Len(done) + ToFinish <= 1

\* The record under way is of an alarm that has none yet.
InvOpen ==
  open => /\ \A i \in DOMAIN done : done[i] # index_item[1]
          /\ \A e \in 0..MsgEnd, a \in Nat : idx[e] # <<index_item[1], a>>

\* A clear leaves nothing behind of the alarms before it.
InvGone ==
  /\ mark \in 0..alarm_ts /\ torn \in BOOLEAN
  /\ ~torn /\ ~clearing =>
       /\ \A e \in 0..MsgEnd : idx[e] \in Nat \X Nat => idx[e][1] > mark
       /\ \A m \in 0 .. Slots - 1, ts \in 1..mark : msg[m] # <<ts>>

LEMMA ConfigStep == IInv /\ InvConfig /\ [Next]_vars => InvConfig'
<1> SUFFICES ASSUME IInv, InvConfig, [Next]_vars PROVE InvConfig'
  OBVIOUS
<1>0. config \in [flag : Flags, num : 0..Slots] /\ saved \in [flag : Flags, num : 0..Slots]
  BY DEF IInv, InvTypes
<1>1. ASSUME UNCHANGED <<clearing, config, index_num>> PROVE InvConfig'
  BY <1>1 DEF InvConfig, Armed
<1>2. CASE Storage_Write_AlarmInfo
  <2>1. CASE WriteIndex(Covered)
    <3>1. clearing' = clearing /\ config' = [config EXCEPT !.num = index_num']
      BY <1>2, <2>1 DEF Storage_Write_AlarmInfo, WriteIndex
    <3>2. config'.flag = config.flag /\ config'.num = index_num'
      BY <3>1, <1>0
    <3> QED
      BY <3>1, <3>2 DEF InvConfig, Armed
  <2>2. CASE UNCHANGED <<index_num, config>>
    BY <1>1, <1>2, <2>2 DEF Storage_Write_AlarmInfo
  <2> QED
    BY <1>2, <2>1, <2>2 DEF Storage_Write_AlarmInfo
<1>3. CASE ClearConfigFirst
  BY <1>3 DEF ClearConfigFirst, InvConfig, Armed
<1>4. CASE ClearThenErase
  <2>1. clearing' = FALSE /\ config' = config /\ config.flag = "FIRST_ON"
    BY <1>4 DEF ClearThenErase, InvConfig
  <2> QED
    BY <2>1 DEF InvConfig, Armed
<1>5. CASE kt_ClearConfig
  BY <1>5 DEF kt_ClearConfig, InvConfig, Armed, object
<1>6. CASE Boot
  <2>1. /\ clearing' = FALSE /\ index_num' = config'.num
        /\ saved' = IF saved.flag = "NONE" THEN [flag |-> "FIRST_ON", num |-> 0] ELSE saved
        /\ config' = IF saved.flag = "NONE" THEN saved' ELSE [saved EXCEPT !.flag = "NEXT_ON"]
    BY <1>6 DEF Boot
  <2> QED
    BY <2>1, <1>0 DEF InvConfig, Armed
<1>7. CASE SaveConfig
  BY <1>1, <1>7 DEF SaveConfig, object
<1>8. CASE Raise \/ SaveEnd \/ MsgTimeout \/ InfoTimeout \/ InfoRefused \/ UNCHANGED vars
  BY <1>1, <1>8 DEF Raise, SaveEnd, MsgTimeout, InfoTimeout, InfoRefused, vars, object
<1>9. CASE Storage_Write_AlarmMsg
  BY <1>1, <1>9 DEF Storage_Write_AlarmMsg
<1> QED
  BY <1>2, <1>3, <1>4, <1>5, <1>6, <1>7, <1>8, <1>9 DEF Next, alarm_task

\* The last second of a record leaves the count where it was or one further.
LEMMA Counted ==
  ASSUME InvTypes, Storage_Write_AlarmInfo
  PROVE  /\ config'.flag = config.flag
         /\ index_num' = Slots \/ index_num' = index_num \/ index_num' = index_num + 1
         /\ Full => Full'
<1>1. config \in [flag : Flags, num : 0..Slots] /\ index_num \in 0..Slots
  BY DEF InvTypes
<1>2. config'.flag = config.flag
  BY <1>1 DEF Storage_Write_AlarmInfo, WriteIndex
<1>3. index_num' = index_num \/ index_num' = NextSlot
  BY Zenon DEF Storage_Write_AlarmInfo, WriteIndex
<1> QED
  BY <1>1, <1>2, <1>3, Sizes DEF NextSlot, Full

\* Nothing is finished yet.
LEMMA NoneDone == ASSUME done' = <<>> PROVE Len(done') + ToFinish' <= 1
<1>1. Len(<<>>) + 0 <= 1 /\ Len(<<>>) + 1 <= 1
  OBVIOUS
<1>2. ToFinish' = 0 \/ ToFinish' = 1
  BY DEF ToFinish
<1> QED
  BY <1>1, <1>2

LEMMA OneStep == IInv /\ rising /\ InvConfig /\ InvOne /\ [Next]_vars => InvOne'
<1> SUFFICES ASSUME IInv, rising, InvConfig, InvOne, [Next]_vars PROVE InvOne'
  OBVIOUS
<1>0. /\ config \in [flag : Flags, num : 0..Slots] /\ saved \in [flag : Flags, num : 0..Slots]
      /\ done \in Seq(Nat \ {0}) /\ Len(done) \in Nat /\ Len(<<>>) = 0
      /\ open \in BOOLEAN /\ pending \in BOOLEAN
  BY DEF IInv, InvTypes
<1>1. ASSUME UNCHANGED <<config, saved, index_num>>, UNCHANGED <<done, open>>,
             pending' = pending \/ pending' = FALSE
      PROVE InvOne'
  <2>1. ToFinish' <= ToFinish /\ ToFinish \in Nat /\ ToFinish' \in Nat
    BY <1>1, <1>0 DEF ToFinish
  <2>2. Unarmed' => Unarmed /\ ~Armed'
    BY <1>1 DEF InvOne, Unarmed, Armed, Full
  <2> DEFINE f == ToFinish'
  <2>3. f \in Nat /\ f <= ToFinish
    BY <2>1
  <2> HIDE DEF f
  <2>4. Unarmed' => Len(done) + f <= 1
    BY <2>1, <2>2, <2>3, <1>0 DEF InvOne
  <2> QED
    BY <1>1, <2>2, <2>4 DEF InvOne, f
<1>2. CASE Raise
  <2>1. Armed /\ UNCHANGED <<config, saved, index_num>>
    BY <1>2 DEF Raise, object
  <2> QED
    BY <2>1 DEF InvOne, Unarmed, Armed, Full
<1>3. CASE SaveEnd \/ MsgTimeout \/ InfoTimeout \/ InfoRefused \/ UNCHANGED vars
  BY <1>1, <1>3 DEF SaveEnd, MsgTimeout, InfoTimeout, InfoRefused, vars, object, history, notify
<1>4. CASE Storage_Write_AlarmMsg
  <2>1. /\ pending /\ pending' = FALSE /\ open' = TRUE
        /\ UNCHANGED <<config, saved, index_num, done>>
    BY <1>4 DEF Storage_Write_AlarmMsg
  <2>2. ToFinish = 1 /\ ToFinish' = 1
    BY <2>1 DEF ToFinish
  <2> QED
    BY <2>1, <2>2 DEF InvOne, Unarmed, Armed, Full
<1>5. CASE Storage_Write_AlarmInfo
  <2>1. /\ config'.flag = config.flag /\ saved' = saved /\ (Full => Full')
        /\ pending' = FALSE /\ pending = FALSE
    <3>1. InvTypes
      BY DEF IInv
    <3> QED
      BY <1>0, <1>5, <3>1, SecondOf, Counted
  <2>2. Unarmed' => Unarmed /\ ~Armed'
    BY <2>1 DEF InvOne, Unarmed, Armed
  <2>3. \/ done' = done /\ (open' = open \/ open' = FALSE)
        \/ done' = Append(done, alarm_ts) /\ open = TRUE /\ open' = FALSE
    BY <1>0, <1>5 DEF Storage_Write_AlarmInfo
  <2>4. alarm_ts \in Nat \ {0}
    BY <1>5, SecondOf, Sizes DEF IInv, InvTypes, Asked
  <2>5. Len(done') + ToFinish' = Len(done) + ToFinish \/ (Len(done') = Len(done) /\ ToFinish' = 0)
    <3>1. CASE done' = done /\ open' = open
      BY <2>1, <3>1 DEF ToFinish
    <3>2. CASE done' = done /\ open' = FALSE
      BY <2>1, <3>2 DEF ToFinish
    <3>3. CASE done' = Append(done, alarm_ts) /\ open = TRUE /\ open' = FALSE
      <4>1. Len(done') = Len(done) + 1
        BY <3>3, <1>0, <2>4
      <4>2. ToFinish = 1 /\ ToFinish' = 0
        BY <2>1, <3>3 DEF ToFinish
      <4> QED
        BY <4>1, <4>2, <1>0
    <3> QED
      BY <2>3, <3>1, <3>2, <3>3
  <2>6. ToFinish \in Nat
    BY DEF ToFinish
  <2>7. Unarmed' => Len(done') + ToFinish' <= 1
    BY <1>0, <2>2, <2>5, <2>6 DEF InvOne
  <2> QED
    BY <2>2, <2>7 DEF InvOne
<1>6. CASE SaveConfig
  <2>1. saved' = config /\ UNCHANGED <<config, index_num, done, open, pending>>
    BY <1>6 DEF SaveConfig, object, history, notify
  <2>2. ASSUME config.num = Slots, ~Full PROVE Unarmed
    <3>1. config.flag \in Flags /\ Slots # 0
      BY <1>0, Sizes
    <3> QED
      BY <2>2, <3>1 DEF InvConfig, Armed, Full, Flags, Unarmed
  <2>3. Unarmed' => Unarmed
    BY <2>1, <2>2 DEF Unarmed, Full
  <2> QED
    BY <2>1, <2>3 DEF InvOne, Armed, ToFinish
<1>7. CASE ClearConfigFirst
  <2>1. done' = <<>> /\ config'.flag = "FIRST_ON"
    BY <1>7 DEF ClearConfigFirst
  <2> QED
    BY <2>1, NoneDone DEF InvOne, Armed
<1>8. CASE ClearThenErase
  <2>1. config' = config /\ config.flag = "FIRST_ON" /\ saved' = saved
    BY <1>8 DEF ClearThenErase, InvConfig
  <2>2. CASE done' = <<>>
    BY <2>1, <2>2, NoneDone DEF InvOne, Armed
  <2>3. CASE UNCHANGED <<object, open, done>>
    BY <1>1, <1>8, <2>1, <2>3 DEF ClearThenErase, object, notify
  <2> QED
    BY <1>8, <2>2, <2>3 DEF ClearThenErase
<1>9. CASE kt_ClearConfig
  <2>1. config'.flag = "NONE" /\ UNCHANGED <<saved, index_num, done, open, pending>>
    BY <1>9 DEF kt_ClearConfig, object, history, notify
  <2> QED
    BY <2>1 DEF InvOne, Unarmed, Armed, ToFinish, Full
<1>10. CASE Boot
  <2>1. /\ index_num' = config'.num /\ open' = FALSE /\ pending' = FALSE
        /\ saved' = IF saved.flag = "NONE" THEN [flag |-> "FIRST_ON", num |-> 0] ELSE saved
        /\ config' = IF saved.flag = "NONE" THEN saved' ELSE [saved EXCEPT !.flag = "NEXT_ON"]
        /\ saved.flag = "NONE" => done' = <<>>
    BY <1>10 DEF Boot
  <2>2. CASE saved.flag = "NONE"
    <3>1. ToFinish' = 0
      BY <2>1 DEF ToFinish
    <3> QED
      BY <1>0, <2>1, <2>2, <3>1 DEF InvOne, Armed
  <2>3. CASE saved.flag # "NONE"
    BY <1>0, <2>1, <2>3 DEF InvOne, Unarmed, Full
  <2> QED
    BY <2>2, <2>3
<1> QED
  BY <1>2, <1>3, <1>4, <1>5, <1>6, <1>7, <1>8, <1>9, <1>10 DEF Next, alarm_task

LEMMA OpenStep == IInv /\ InvOpen /\ [Next]_vars => InvOpen'
<1> SUFFICES ASSUME IInv, InvOpen, [Next]_vars PROVE InvOpen'
  OBVIOUS
<1>1. ASSUME UNCHANGED <<idx, index_item, open>>, done' = done \/ done' = <<>> PROVE InvOpen'
  BY <1>1 DEF InvOpen, MsgEnd
<1>2. ASSUME open' = FALSE PROVE InvOpen'
  BY <1>2 DEF InvOpen
<1>3. CASE Storage_Write_AlarmMsg
  <2>1. /\ pending /\ index_item' = <<alarm_ts, info_addr>> /\ UNCHANGED <<idx, done>>
    BY <1>3 DEF Storage_Write_AlarmMsg
  <2>2. alarm_ts \in Nat /\ info_addr \in Nat /\ done \in Seq(Nat \ {0})
    BY Sizes DEF IInv, InvTypes
  <2>3. \A i \in DOMAIN done : done[i] \in Nat /\ done[i] < alarm_ts
    BY <2>1, <2>2 DEF IInv, InvDone
  <2>4. ASSUME NEW e \in 0..MsgEnd, NEW a \in Nat, idx[e] = <<alarm_ts, a>> PROVE FALSE
    <3>1. idx[e] \in Nat \X Nat /\ idx[e][1] = alarm_ts
      BY <2>2, <2>4
    <3> QED
      BY <2>1, <2>2, <3>1 DEF IInv, InvEntries
  <2> QED
    BY <2>1, <2>2, <2>3, <2>4 DEF InvOpen, MsgEnd
<1>4. CASE Storage_Write_AlarmInfo
  <2>1. open' = FALSE \/ (idx' = Covered /\ UNCHANGED <<index_item, open, done>>)
    BY <1>4, Zenon DEF Storage_Write_AlarmInfo
  <2>2. ASSUME idx' = Covered, UNCHANGED <<index_item, open, done>> PROVE InvOpen'
    <3>1. \A e \in 0..MsgEnd : Covered[e] \in {idx[e], Damaged}
      BY Uncovered DEF IInv
    <3>2. \A a \in Nat : <<index_item[1], a>> # Damaged
      BY Kinds DEF IInv, InvTypes
    <3> QED
      BY <2>2, <3>1, <3>2 DEF InvOpen, MsgEnd
  <2> QED
    BY <1>2, <2>1, <2>2
<1>5. CASE Raise \/ SaveEnd \/ MsgTimeout \/ InfoTimeout \/ InfoRefused \/ UNCHANGED vars
  BY <1>1, <1>5 DEF Raise, SaveEnd, MsgTimeout, InfoTimeout, InfoRefused, vars, object, flash, history
<1>6. CASE SaveConfig \/ ClearConfigFirst \/ kt_ClearConfig
  BY <1>1, <1>6 DEF SaveConfig, ClearConfigFirst, kt_ClearConfig, object, flash, history
<1>7. CASE ClearThenErase
  <2>1. open' = FALSE \/ UNCHANGED <<idx, index_item, open, done>>
    BY <1>7 DEF ClearThenErase, object, flash
  <2> QED
    BY <1>1, <1>2, <2>1
<1>8. CASE Boot
  BY <1>2, <1>8 DEF Boot
<1> QED
  BY <1>3, <1>4, <1>5, <1>6, <1>7, <1>8 DEF Next, alarm_task

\* Messages are of one number each.
LEMMA Ones ==
  /\ \A m, n \in Nat : <<m>> = <<n>> => m = n
  /\ \A n \in Nat : <<n>> # Erased
  /\ \A n \in Nat \ {0} : <<n>> # Damaged
<1>1. ASSUME NEW m \in Nat, NEW n \in Nat, <<m>> = <<n>> PROVE m = n
  <2>1. <<m>>[1] = m /\ <<n>>[1] = n
    OBVIOUS
  <2> QED
    BY <1>1, <2>1
<1>2. ASSUME NEW n \in Nat, <<n>> = Erased PROVE FALSE
  <2>1. Len(<<n>>) = 1 /\ Len(<<>>) = 0
    OBVIOUS
  <2> QED
    BY <1>2, <2>1 DEF Erased
<1> QED
  BY <1>1, <1>2 DEF Damaged

\* There is a cell for each message.
InvMsg == DOMAIN msg = 0 .. Slots - 1

LEMMA MsgStep == InvMsg /\ [Next]_vars => InvMsg'
<1> SUFFICES ASSUME InvMsg, [Next]_vars PROVE InvMsg'
  OBVIOUS
<1>1. ASSUME msg' = msg PROVE InvMsg'
  BY <1>1 DEF InvMsg
<1>2. ASSUME EraseAll PROVE InvMsg'
  BY <1>2 DEF InvMsg, EraseAll, Blank
<1>3. CASE Storage_Write_AlarmMsg
  BY <1>3 DEF InvMsg, Storage_Write_AlarmMsg
<1>4. CASE Boot \/ ClearThenErase
  BY <1>1, <1>2, <1>4, Zenon DEF Boot, ClearThenErase, Storage_Clear_AlarmData, flash
<1>5. CASE Storage_Write_AlarmInfo
  BY <1>1, <1>5 DEF Storage_Write_AlarmInfo
<1> QED
  BY <1>1, <1>3, <1>4, <1>5
     DEF Next, alarm_task, Raise, SaveEnd, MsgTimeout, InfoTimeout, InfoRefused, SaveConfig,
         ClearConfigFirst, kt_ClearConfig, vars, flash

LEMMA GoneStep == IInv /\ rising' /\ InvMsg /\ InvConfig /\ InvGone /\ [Next]_vars => InvGone'
<1> SUFFICES ASSUME IInv, rising', InvMsg, InvConfig, InvGone, [Next]_vars PROVE InvGone'
  OBVIOUS
<1>0. alarm_ts \in Nat /\ mark \in Nat /\ mark <= alarm_ts /\ open \in BOOLEAN
  BY Sizes DEF IInv, InvTypes, InvGone
<1>1. ASSUME UNCHANGED <<idx, msg, clearing, mark, torn>>, alarm_ts' \in {alarm_ts, alarm_ts + 1}
      PROVE InvGone'
  BY <1>0, <1>1 DEF InvGone, MsgEnd
<1>2. ASSUME clearing' = TRUE \/ torn' = TRUE, mark' \in {mark, alarm_ts}, alarm_ts' = alarm_ts,
             torn' \in BOOLEAN, msg' = msg
      PROVE InvGone'
  BY <1>0, <1>2 DEF InvGone
<1>3. ASSUME EraseAll, mark' = mark, alarm_ts' = alarm_ts, torn' \in BOOLEAN PROVE InvGone'
  <2>1. \A e \in 0..MsgEnd : idx'[e] \notin Nat \X Nat
    BY <1>3, ErasedEntries
  <2>2. \A m \in 0 .. Slots - 1 : msg'[m] = Erased
    BY <1>3 DEF EraseAll, Blank
  <2>3. \A ts \in 1..mark : <<ts>> # Erased
    BY <1>0, Ones
  <2> QED
    BY <1>0, <1>3, <2>1, <2>2, <2>3 DEF InvGone, MsgEnd
<1>4. CASE Storage_Write_AlarmMsg
  <2>1. /\ UNCHANGED <<idx, clearing, mark, alarm_ts>>
        /\ torn' = (torn \/ alarm_ts <= mark)
        /\ msg' = msg \/ msg' = [msg EXCEPT ![addr] = Program(@, <<alarm_ts>>)]
    BY <1>4, Zenon DEF Storage_Write_AlarmMsg
  <2>2. \A m \in 0 .. Slots - 1 : msg'[m] \in {msg[m], <<alarm_ts>>, Damaged}
    <3>1. Program(msg[addr], <<alarm_ts>>) \in {<<alarm_ts>>, Damaged}
      BY Programmed
    <3> QED
      BY <2>1, <3>1 DEF InvMsg
  <2>4. ASSUME ~torn', ~clearing' PROVE \A m \in 0 .. Slots - 1, ts \in 1..mark : msg'[m] # <<ts>>
    <3>0. ~torn /\ ~(alarm_ts <= mark) /\ ~clearing
      BY <2>1, <2>4, Zenon
    <3>1. ~torn /\ alarm_ts > mark /\ ~clearing
      BY <1>0, <3>0
    <3>2. \A ts \in 1..mark : <<ts>> # <<alarm_ts>> /\ <<ts>> # Damaged
      BY <1>0, <3>1, Ones
    <3> QED
      BY <2>2, <3>1, <3>2 DEF InvGone
  <2>5. torn' \in BOOLEAN /\ mark' \in 0..alarm_ts'
    BY <1>0, <2>1 DEF InvGone
  <2> QED
    BY <2>1, <2>4, <2>5 DEF InvGone, MsgEnd
<1>5. CASE Storage_Write_AlarmInfo
  <2>1. /\ UNCHANGED <<msg, clearing, mark, alarm_ts>> /\ index_item[1] = alarm_ts
        /\ torn' = (torn \/ alarm_ts <= mark)
    BY <1>5, Zenon DEF Storage_Write_AlarmInfo
  <2>2. \A e \in 0..MsgEnd : idx'[e] \in {idx[e], index_item, Damaged}
    <3>1. CASE index' >= RecLen
      BY <1>5, <3>1, Indexed
    <3>2. CASE ~(index' >= RecLen)
      BY <1>5, <3>2, Uncovered DEF Storage_Write_AlarmInfo, IInv
    <3> QED
      BY <3>1, <3>2
  <2>3. ASSUME ~torn', ~clearing' PROVE \A e \in 0..MsgEnd : idx'[e] \in Nat \X Nat => idx'[e][1] > mark
    <3>0. ~torn /\ ~(alarm_ts <= mark) /\ ~clearing
      BY <2>1, <2>3, Zenon
    <3>1. ~torn /\ alarm_ts > mark /\ ~clearing
      BY <1>0, <3>0
    <3>2. \A p \in Nat \X Nat : p # Damaged
      BY Kinds
    <3> QED
      BY <2>1, <2>2, <3>1, <3>2 DEF InvGone
  <2>4. torn' \in BOOLEAN /\ mark' \in 0..alarm_ts'
    BY <1>0, <2>1 DEF InvGone
  <2> QED
    BY <2>1, <2>3, <2>4 DEF InvGone, MsgEnd
<1>6. CASE ClearConfigFirst
  BY <1>0, <1>2, <1>6 DEF ClearConfigFirst, flash, notify
<1>7. CASE ClearThenErase
  <2>1. mark' = mark /\ alarm_ts' = alarm_ts
    BY <1>7 DEF ClearThenErase, notify
  <2>2. CASE Storage_Clear_AlarmData /\ UNCHANGED torn
    BY <1>3, <2>1, <2>2 DEF Storage_Clear_AlarmData, InvGone
  <2>3. CASE torn' = TRUE /\ UNCHANGED flash
    BY <1>2, <2>1, <2>3 DEF flash
  <2> QED
    BY <1>7, <2>2, <2>3 DEF ClearThenErase
<1>8. CASE Boot
  <2>1. clearing' = FALSE /\ mark' = mark /\ alarm_ts' = alarm_ts
    BY <1>8 DEF Boot
  <2>2. CASE EraseAll /\ torn' = FALSE
    BY <1>3, <2>1, <2>2
  <2>3. CASE UNCHANGED flash /\ torn' = (torn \/ clearing)
    <3>1. torn \in BOOLEAN /\ clearing \in BOOLEAN
      BY DEF InvGone, InvConfig
    <3>2. CASE torn \/ clearing
      BY <1>2, <2>1, <2>3, <3>2 DEF flash
    <3>3. CASE ~(torn \/ clearing)
      BY <2>1, <2>3, <3>1, <3>3 DEF InvGone, flash, MsgEnd
    <3> QED
      BY <3>2, <3>3
  <2>4. CASE EraseAll /\ torn' = (torn \/ clearing)
    <3>1. torn' \in BOOLEAN
      BY <2>4 DEF InvGone, InvConfig
    <3> QED
      BY <1>3, <2>1, <2>4, <3>1
  <2> QED
    BY <1>8, <2>2, <2>3, <2>4 DEF Boot
<1>9. CASE Raise
  BY <1>1, <1>9, NextStamp DEF Raise, flash, IInv
<1>10. CASE SaveEnd \/ MsgTimeout \/ InfoTimeout \/ InfoRefused \/ UNCHANGED vars \/ SaveConfig
            \/ kt_ClearConfig
  BY <1>1, <1>10 DEF SaveEnd, MsgTimeout, InfoTimeout, InfoRefused, vars, flash, clears, notify,
                     SaveConfig, kt_ClearConfig
<1> QED
  BY <1>4, <1>5, <1>6, <1>7, <1>8, <1>9, <1>10 DEF Next, alarm_task

\* The first n seconds of a record are whole, from an address on.
Has(a, ts, n) == \A k \in 1..n : info[a + k - 1] = <<ts, k>>

\* A record is kept when what can still be written is behind it.
Kept(a, ts) == a + RecLen <= info_addr /\ Has(a, ts, RecLen)
Noted(ts) == \E m \in 0 .. Slots - 1 : m < addr /\ msg[m] = <<ts>>
Found(ts) == \E e \in 0 .. Slots - 1, a \in Nat : e < index_num /\ idx[e] = <<ts, a>>

\* Until the flash is full, and as long as power is lost between saved records
\* only, everything behind the addresses is erased.
InvFresh ==
  sound /\ ~Full =>
    /\ \A a \in 0 .. Slots - 1 : a >= addr => msg[a] = Erased
    /\ \A a \in 0..InfoEnd : a >= info_addr => info[a] = Erased
    /\ \A e \in 0..MsgEnd : e >= index_num => idx[e] = Erased

InvUnder ==
  sound /\ ~Full /\ open =>
    Noted(index_item[1]) /\ Has(index_item[2], index_item[1], secs)

KeptAll(ts) ==
  /\ \A e \in 0..MsgEnd, a \in Nat : idx[e] = <<ts, a>> => Kept(a, ts)
  /\ \A a \in Nat : index_item = <<ts, a>> => Kept(a, ts)
InvKept ==
  sound /\ ~Full =>
    \A i \in DOMAIN done : Noted(done[i]) /\ Found(done[i]) /\ KeptAll(done[i])

InvRecords == InvFresh /\ InvUnder /\ InvKept

LEMMA HasKept ==
  ASSUME NEW a \in Nat, NEW ts, NEW n \in Nat, Has(a, ts, n),
         NEW b, NEW v, info' = [info EXCEPT ![b] = v], \A k \in 1..n : b # a + k - 1
  PROVE  Has(a, ts, n)'
  BY DEF Has

LEMMA HasMore ==
  ASSUME NEW a \in Nat, NEW ts, NEW n \in Nat, Has(a, ts, n),
         NEW b \in DOMAIN info, b = a + n, info' = [info EXCEPT ![b] = <<ts, n + 1>>]
  PROVE  Has(a, ts, n + 1)'
<1>1. info'[b] = <<ts, n + 1>>
  OBVIOUS
<1>2. \A k \in 1..n : a + k - 1 # b
  OBVIOUS
<1>3. \A k \in 1..n : info'[a + k - 1] = <<ts, k>>
  BY <1>2 DEF Has
<1>4. \A k \in 1 .. n + 1 : k \in 1..n \/ (k = n + 1 /\ a + k - 1 = b)
  OBVIOUS
<1> QED
  BY <1>1, <1>3, <1>4 DEF Has

LEMMA RecordsStill ==
  ASSUME InvRecords, UNCHANGED <<object, flash, sound, open, secs>>, done' \in {done, <<>>}
  PROVE  InvRecords'
<1> USE DEF InvRecords, object, flash
<1>1. InvFresh'
  BY DEF InvFresh, Full, Erased, InfoEnd, MsgEnd
<1>2. InvUnder'
  BY DEF InvUnder, Noted, Has, Full
<1>3. InvKept'
  <2>1. CASE done' = done
    BY <2>1 DEF InvKept, Noted, Found, KeptAll, Kept, Has, Full, MsgEnd
  <2>2. CASE done' = <<>>
    BY <2>2 DEF InvKept
  <2> QED
    BY <2>1, <2>2
<1> QED
  BY <1>1, <1>2, <1>3

\* The message goes into the first cell that is erased.
LEMMA RecordsMsg == IInv /\ InvMsg /\ InvRecords /\ Storage_Write_AlarmMsg => InvRecords'
<1> SUFFICES ASSUME IInv, InvMsg, InvRecords, Storage_Write_AlarmMsg PROVE InvRecords'
  OBVIOUS
<1>1. /\ pending /\ index_item' = <<alarm_ts, info_addr>> /\ addr' = addr + 1 /\ secs' = 0
      /\ UNCHANGED <<info_addr, index_num, idx, done>>
      /\ sound' = (sound /\ (addr < Slots \/ Full))
  BY DEF Storage_Write_AlarmMsg
<1> SUFFICES ASSUME sound', ~Full' PROVE InvRecords'
  BY DEF InvRecords, InvFresh, InvUnder, InvKept
<1>2. sound /\ ~Full /\ addr < Slots
  BY <1>1, Zenon DEF Full
<1>3. addr \in 0 .. Slots - 1 /\ alarm_ts \in Nat /\ info_addr \in Nat /\ done \in Seq(Nat \ {0})
  BY <1>2, Sizes DEF IInv, InvTypes
<1>4. msg' = [msg EXCEPT ![addr] = <<alarm_ts>>] /\ info' = info
  <2>1. msg[addr] = Erased
    BY <1>2, <1>3 DEF InvRecords, InvFresh
  <2>2. msg' = [msg EXCEPT ![addr] = Program(@, <<alarm_ts>>)] /\ info' = info
    BY <1>2, Zenon DEF Storage_Write_AlarmMsg
  <2> QED
    BY <2>1, <2>2 DEF Program
<1>5. msg'[addr] = <<alarm_ts>> /\ \A m \in 0 .. Slots - 1 : m # addr => msg'[m] = msg[m]
  BY <1>3, <1>4 DEF InvMsg
<1>6. InvFresh'
  BY <1>1, <1>2, <1>3, <1>4, <1>5 DEF InvRecords, InvFresh, Erased, InfoEnd, MsgEnd
<1>7. ASSUME NEW ts, Noted(ts) PROVE Noted(ts)'
  <2>1. PICK m \in 0 .. Slots - 1 : m < addr /\ msg[m] = <<ts>>
    BY <1>7 DEF Noted
  <2>2. m < addr + 1 /\ msg'[m] = <<ts>>
    BY <1>3, <1>5, <2>1
  <2> QED
    BY <1>1, <2>2 DEF Noted
<1>8. InvUnder'
  <2>1. addr < addr + 1
    BY <1>3
  <2>2. index_item'[1] = alarm_ts
    BY <1>1
  <2>3. Noted(index_item[1])'
    BY <1>1, <1>3, <1>5, <2>1, <2>2 DEF Noted
  <2>4. \A k \in 1..secs' : FALSE
    BY <1>1
  <2> QED
    BY <2>3, <2>4 DEF InvUnder, Has
<1>9. InvKept'
  <2> SUFFICES ASSUME NEW i \in DOMAIN done
               PROVE  Noted(done[i])' /\ Found(done[i])' /\ KeptAll(done[i])'
    BY <1>1 DEF InvKept, Noted, Found, KeptAll, Kept, Has
  <2>1. PICK ts \in Nat : ts = done[i] /\ ts < alarm_ts
    BY <1>1, <1>3 DEF IInv, InvDone
  <2>2. Noted(ts) /\ Found(ts) /\ KeptAll(ts)
    BY <1>2, <2>1 DEF InvRecords, InvKept
  <2>3. Found(ts)'
    BY <1>1, <2>2 DEF Found
  <2>4. KeptAll(ts)'
    <3>1. \A a \in Nat : index_item' # <<ts, a>>
      BY <1>1, <1>3, <2>1
    <3> QED
      BY <1>1, <1>4, <2>2, <3>1 DEF KeptAll, Kept, Has, MsgEnd
  <2> QED
    BY SMTT(30), <1>1, <1>7, <2>1, <2>2, <2>3, <2>4 DEF Noted, Found, KeptAll, Kept, Has
<1> QED
  BY <1>6, <1>8, <1>9 DEF InvRecords

\* The second goes into the first cell that is erased.
LEMMA SecondAdded ==
  ASSUME IInv, InvRecords, Storage_Write_AlarmInfo, sound, ~Full
  PROVE  /\ info_addr \in Nat /\ info_addr + 1 \in Nat
         /\ \A a \in 0..InfoEnd : a >= info_addr + 1 => info'[a] = Erased
         /\ \A a \in Nat : \A ts : Kept(a, ts) => a + RecLen <= info_addr + 1 /\ Has(a, ts, RecLen)'
         /\ open => Has(index_item[2], index_item[1], secs)'
<1>1. /\ info' = [info EXCEPT ![info_addr] = Program(@, <<alarm_ts, secs + 1>>)]
      /\ index_item' = index_item /\ index_item[1] = alarm_ts
      /\ UNCHANGED <<saving, alarm_ts>> /\ Asked
  BY DEF Storage_Write_AlarmInfo
<1>2. info_addr \in Nat /\ info_addr <= InfoEnd /\ DOMAIN info = 0..InfoEnd
  BY <1>1, RoomForSecond, Sizes DEF IInv, InvTypes
<1>3. info[info_addr] = Erased /\ \A a \in 0..InfoEnd : a >= info_addr => info[a] = Erased
  BY <1>2, Sizes DEF InvRecords, InvFresh
<1>4. ASSUME NEW a \in 0..InfoEnd, a >= info_addr + 1 PROVE info'[a] = Erased
  <2>1. a # info_addr /\ info[a] = Erased
    BY <1>2, <1>3, <1>4, Sizes
  <2> QED
    BY <1>1, <1>2, <2>1
<1>5. ASSUME NEW a \in Nat, NEW ts, Kept(a, ts)
      PROVE  a + RecLen <= info_addr + 1 /\ Has(a, ts, RecLen)'
  <2>1. a + RecLen <= info_addr /\ Has(a, ts, RecLen)
    BY <1>5 DEF Kept
  <2>2. \A k \in 1..RecLen : info_addr # a + k - 1
    BY <1>2, <2>1, Sizes
  <2>3. Has(a, ts, RecLen)'
    BY <1>1, <2>1, <2>2, HasKept, Sizes
  <2> QED
    BY <1>2, <2>1, <2>3, Sizes
<1>6. ASSUME open PROVE Has(index_item[2], index_item[1], secs)'
  <2>1. PICK a \in Nat, t \in Nat, n \in Nat : a = index_item[2] /\ t = alarm_ts /\ n = secs
    BY Sizes DEF IInv, InvTypes
  <2>2. info_addr = a + n /\ n \in Nat
    BY <1>6, <2>1 DEF IInv, InvItem, InvTypes
  <2>3. Has(a, t, n)
    BY <1>1, <1>6, <2>1 DEF InvRecords, InvUnder
  <2>4. info_addr \in DOMAIN info /\ info' = [info EXCEPT ![info_addr] = <<t, n + 1>>]
    BY <1>1, <1>2, <1>3, <2>1 DEF Program
  <2>5. Has(a, t, n + 1)'
    BY <2>2, <2>3, <2>4, HasMore
  <2>6. secs' = n + 1 /\ index_item'[2] = a /\ index_item'[1] = t
    BY <1>1, <2>1, SecondOf
  <2> QED
    BY <2>5, <2>6 DEF Has
<1> QED
  BY <1>2, <1>4, <1>5, <1>6

LEMMA RecordsSecond ==
  IInv /\ InvRecords /\ Storage_Write_AlarmInfo /\ index' < RecLen => InvRecords'
<1> SUFFICES ASSUME IInv, InvRecords, Storage_Write_AlarmInfo, index' < RecLen PROVE InvRecords'
  OBVIOUS
<1>1. /\ info_addr' = info_addr + 1 /\ secs' = secs + 1
      /\ idx' = Covered
      /\ UNCHANGED <<addr, index_addr, index_num, msg, config, open, done, index_item>>
  <2>1. ~(index' >= RecLen)
    BY SecondOf, Sizes
  <2> QED
    BY <2>1 DEF Storage_Write_AlarmInfo
<1> SUFFICES ASSUME sound', ~Full' PROVE InvRecords'
  BY DEF InvRecords, InvFresh, InvUnder, InvKept
<1>2. sound /\ ~Full /\ idx' = idx
  BY <1>1, SoundSecond DEF Full, IInv
<1>3. InvFresh'
  BY <1>1, <1>2, SecondAdded DEF InvRecords, InvFresh, Erased, InfoEnd, MsgEnd
<1>4. InvUnder'
  <2> SUFFICES ASSUME open PROVE Noted(index_item[1])' /\ Has(index_item[2], index_item[1], secs)'
    BY <1>1 DEF InvUnder
  <2>1. Has(index_item[2], index_item[1], secs)'
    BY <1>2, SecondAdded
  <2>2. Noted(index_item[1])'
    BY <1>1, <1>2 DEF InvRecords, InvUnder, Noted
  <2> QED
    BY <2>1, <2>2
<1>5. InvKept'
  <2> SUFFICES ASSUME NEW i \in DOMAIN done
               PROVE  Noted(done[i])' /\ Found(done[i])' /\ KeptAll(done[i])'
    BY <1>1, <1>2 DEF InvKept, Noted, Found, KeptAll, Kept, Has
  <2>1. PICK ts : ts = done[i]
    OBVIOUS
  <2>2. Noted(ts) /\ Found(ts) /\ KeptAll(ts)
    BY <1>2, <2>1 DEF InvRecords, InvKept
  <2>3. Found(ts)' /\ Noted(ts)'
    BY <1>1, <1>2, <2>2 DEF Found, Noted
  <2>4. KeptAll(ts)'
    <3>1. ASSUME NEW a \in Nat, Kept(a, ts) PROVE Kept(a, ts)'
      <4>1. a + RecLen <= info_addr + 1 /\ Has(a, ts, RecLen)'
        BY <1>2, <3>1, SecondAdded
      <4> QED
        BY <1>1, <4>1 DEF Kept
    <3> QED
      BY <1>1, <1>2, <2>2, <3>1 DEF KeptAll, MsgEnd
  <2> QED
    BY <1>1, <1>2, <2>1, <2>3, <2>4 DEF Noted, Found, KeptAll, Kept, Has
<1> QED
  BY <1>3, <1>4, <1>5 DEF InvRecords

\* The entry goes into the first cell that is erased.
LEMMA EntryAdded ==
  ASSUME IInv, InvRecords, Storage_Write_AlarmInfo, index' >= RecLen, sound', ~Full
  PROVE  /\ index_num \in Nat /\ index_num < Slots
         /\ idx' = [idx EXCEPT ![index_num] = index_item] /\ DOMAIN idx = 0..MsgEnd
         /\ idx[index_num] = Erased
<1>1. index_num \in Nat /\ index_num < Slots /\ index_addr = index_num /\ DOMAIN idx = 0..MsgEnd
  BY Sizes DEF IInv, InvTypes, InvIndex, Full
<1>0. sound /\ Covered = idx
  BY SoundSecond DEF IInv
<1>2. idx[index_num] = Erased
  BY <1>0, <1>1, Sizes DEF InvRecords, InvFresh
<1>3. idx' = [idx EXCEPT ![index_addr] = Program(@, index_item)]
  BY <1>0, Zenon DEF Storage_Write_AlarmInfo, WriteIndex, IndexEntry
<1> QED
  BY <1>1, <1>2, <1>3 DEF Program

LEMMA RecordsLast ==
  IInv /\ InvOpen /\ InvRecords /\ Storage_Write_AlarmInfo /\ index' >= RecLen => InvRecords'
<1> SUFFICES ASSUME IInv, InvOpen, InvRecords, Storage_Write_AlarmInfo, index' >= RecLen
             PROVE  InvRecords'
  OBVIOUS
<1>1. /\ open' = FALSE /\ UNCHANGED <<msg, index_item>> /\ secs' = secs + 1
      /\ index_item[1] = alarm_ts /\ alarm_ts' = alarm_ts
      /\ done' = IF open /\ secs' = RecLen /\ ~Full THEN Append(done, alarm_ts) ELSE done
  BY DEF Storage_Write_AlarmInfo
<1> SUFFICES ASSUME sound', ~Full' PROVE InvRecords'
  BY DEF InvRecords, InvFresh, InvUnder, InvKept
<1>2. /\ sound /\ ~Full /\ index_num' = index_num + 1 /\ addr' = addr /\ info_addr' = info_addr + 1
  <2>1. index_num' = NextSlot /\ index_num' # Slots
    BY Zenon DEF Storage_Write_AlarmInfo, WriteIndex, Full
  <2>2. index_num \in 0..Slots
    BY DEF IInv, InvTypes
  <2>3. index_num' = index_num + 1 /\ index_num # Slots /\ NextSlot # Slots
    BY <2>1, <2>2, Sizes DEF NextSlot
  <2>4. addr' = addr /\ info_addr' = info_addr + 1
    BY <2>3, Zenon DEF Storage_Write_AlarmInfo, WriteIndex
  <2>5. sound
    BY SoundSecond DEF IInv
  <2> QED
    BY <2>3, <2>4, <2>5 DEF Full
<1>3. /\ index_num \in Nat /\ index_num < Slots /\ index_num \in 0..MsgEnd
      /\ idx' = [idx EXCEPT ![index_num] = index_item] /\ DOMAIN idx = 0..MsgEnd
      /\ idx'[index_num] = index_item /\ idx[index_num] = Erased
      /\ \A e \in 0..MsgEnd : e # index_num => idx'[e] = idx[e]
  BY <1>2, EntryAdded, Sizes
<1>4. InvFresh'
  <2>1. \A e \in 0..MsgEnd : e >= index_num + 1 => idx'[e] = Erased
    BY <1>2, <1>3 DEF InvRecords, InvFresh
  <2>2. \A a \in 0..InfoEnd : a >= info_addr + 1 => info'[a] = Erased
    BY <1>2, SecondAdded
  <2>3. \A a \in 0 .. Slots - 1 : a >= addr => msg[a] = Erased
    BY <1>2 DEF InvRecords, InvFresh
  <2> QED
    BY <1>1, <1>2, <2>1, <2>2, <2>3 DEF InvFresh, Erased, InfoEnd, MsgEnd
<1>5. InvUnder'
  BY <1>1 DEF InvUnder
<1>6. ASSUME NEW a \in Nat, NEW ts, Kept(a, ts) PROVE Kept(a, ts)'
  <2>1. a + RecLen <= info_addr + 1 /\ Has(a, ts, RecLen)'
    BY <1>2, <1>6, SecondAdded
  <2> QED
    BY <1>2, <2>1 DEF Kept
<1>7. ASSUME NEW i \in DOMAIN done, NEW ts, ts = done[i]
      PROVE  Noted(ts)' /\ Found(ts)' /\ KeptAll(ts)'
  <2>2. Noted(ts) /\ Found(ts) /\ KeptAll(ts)
    BY <1>2, <1>7 DEF InvRecords, InvKept
  <2>3. Noted(ts)'
    BY <1>1, <1>2, <2>2 DEF Noted
  <2>4. Found(ts)'
    <3>1. PICK e \in 0 .. Slots - 1, a \in Nat : e < index_num /\ idx[e] = <<ts, a>>
      BY <2>2 DEF Found
    <3>2. e < index_num + 1 /\ idx'[e] = <<ts, a>>
      BY <1>3, <3>1, Sizes
    <3> QED
      BY <1>2, <3>2 DEF Found
  <2>5. KeptAll(ts)'
    <3>1. ASSUME NEW e \in 0..MsgEnd, NEW a \in Nat, idx'[e] = <<ts, a>> PROVE Kept(a, ts)'
      <4>1. idx[e] = <<ts, a>> \/ index_item = <<ts, a>>
        BY <1>3, <3>1
      <4> QED
        BY <1>6, <2>2, <4>1 DEF KeptAll
    <3>2. ASSUME NEW a \in Nat, index_item' = <<ts, a>> PROVE Kept(a, ts)'
      BY <1>1, <1>6, <2>2, <3>2 DEF KeptAll
    <3> QED
      BY <3>1, <3>2 DEF KeptAll, MsgEnd
  <2> QED
    BY <2>3, <2>4, <2>5
<1>8. ASSUME open, secs + 1 = RecLen
      PROVE  Noted(alarm_ts)' /\ Found(alarm_ts)' /\ KeptAll(alarm_ts)'
  <2>1. PICK b \in Nat : index_item = <<alarm_ts, b>>
    BY <1>1 DEF IInv, InvTypes
  <2>2. Noted(alarm_ts)'
    BY <1>1, <1>2, <1>8 DEF InvRecords, InvUnder, Noted
  <2>3. Found(alarm_ts)'
    <3>1. index_num < index_num + 1 /\ index_num \in 0 .. Slots - 1
      BY <1>3, Sizes
    <3>2. idx'[index_num] = <<alarm_ts, b>> /\ index_num < index_num'
      BY <1>2, <1>3, <2>1, <3>1
    <3> QED
      BY <1>1, <3>1, <3>2 DEF Found
  <2>4. Kept(b, alarm_ts)'
    <3>1. info_addr = b + secs /\ secs \in Nat /\ info_addr \in Nat
      BY <1>8, <2>1 DEF IInv, InvItem, InvTypes
    <3>2. b + RecLen <= info_addr + 1
      BY <1>8, <3>1
    <3>3. Has(index_item[2], index_item[1], secs)'
      BY <1>2, <1>8, SecondAdded
    <3>4. Has(b, alarm_ts, RecLen)'
      <4>1. secs' = RecLen /\ index_item'[2] = b /\ index_item'[1] = alarm_ts /\ alarm_ts' = alarm_ts
        BY <1>1, <1>8, <2>1
      <4> QED
        BY <3>3, <4>1 DEF Has
    <3> QED
      BY <1>2, <3>2, <3>4 DEF Kept
  <2>5. ASSUME NEW e \in 0..MsgEnd, NEW a \in Nat, idx'[e] = <<alarm_ts, a>> PROVE a = b
    <3>1. idx[e] # <<index_item[1], a>>
      BY <1>8 DEF InvOpen
    <3>2. index_item = <<alarm_ts, a>>
      BY <1>1, <1>3, <2>5, <3>1
    <3> QED
      BY <2>1, <3>2
  <2>6. \A a \in Nat : index_item' = <<alarm_ts, a>> => a = b
    BY <1>1, <2>1
  <2>7. KeptAll(alarm_ts)'
    <3>1. alarm_ts' = alarm_ts
      BY SecondOf
    <3> QED
      BY <2>4, <2>5, <2>6, <3>1 DEF KeptAll, Kept, Has, MsgEnd
  <2> QED
    BY <2>2, <2>3, <2>7
<1>9. InvKept'
  <2> SUFFICES ASSUME NEW i \in DOMAIN done'
               PROVE  Noted(done[i])' /\ Found(done[i])' /\ KeptAll(done[i])'
    BY DEF InvKept
  <2>1. done \in Seq(Nat \ {0})
    BY DEF IInv, InvTypes
  <2>2. PICK ts : ts = done'[i]
    OBVIOUS
  <2>3. Noted(ts)' /\ Found(ts)' /\ KeptAll(ts)'
    <3>1. CASE i \in DOMAIN done /\ ts = done[i]
      BY <1>7, <3>1
    <3>2. CASE open /\ secs + 1 = RecLen /\ ts = alarm_ts
      BY <1>1, <1>8, <3>2 DEF Noted, Found, KeptAll
    <3>3. \/ i \in DOMAIN done /\ ts = done[i]
          \/ open /\ secs + 1 = RecLen /\ ts = alarm_ts
      BY <1>1, <2>1, <2>2
    <3> QED
      BY <3>1, <3>2, <3>3
  <2> QED
    BY <2>2, <2>3 DEF Noted, Found, KeptAll
<1> QED
  BY <1>4, <1>5, <1>9 DEF InvRecords

\* An erased flash, and the addresses at its start.
LEMMA RecordsErased ==
  ASSUME EraseAll, open' = FALSE, done' = <<>>
  PROVE  InvRecords'
<1>1. InvFresh'
  BY DEF EraseAll, Blank, InvFresh, Erased, InfoEnd, MsgEnd
<1>2. InvUnder' /\ InvKept'
  BY DEF InvUnder, InvKept
<1> QED
  BY <1>1, <1>2 DEF InvRecords

\* The addresses are those behind the records that are counted, until the flash
\* is full, as long as no record is cut short; then they are at one of the ends.
Slot(i) == (i - 1) * RecLen
UnderWay == IF open THEN 1 ELSE 0
InvPlace ==
  sound /\ straight /\ ~Full =>
    /\ addr = index_num + UnderWay
    /\ ~open => info_addr = Slot(index_num + 1)
    /\ open => index_item[2] = Slot(index_num + 1) /\ msg[index_num] = <<index_item[1]>>
    /\ ~clearing => Len(done) = index_num

InvFull ==
  sound /\ straight /\ Full =>
    /\ ~open => addr \in {0, Slots} /\ info_addr \in {0, Slot(Slots + 1)}
    /\ open => index_item[2] \in {0, Slot(Slots + 1)} /\ secs <= RecLen
    /\ ~clearing => Len(done) <= Slots

\* A record that is in its slot, and nowhere else.
At(i, ts) ==
  /\ msg[i - 1] = <<ts>> /\ idx[i - 1] = <<ts, Slot(i)>> /\ Has(Slot(i), ts, RecLen)
  /\ \A e \in 0..MsgEnd, a \in Nat : idx[e] = <<ts, a>> => e = i - 1
InvSlots ==
  sound /\ straight /\ ~clearing =>
    \A i \in DOMAIN done : i > 1 \/ ~Full => At(i, done[i])

InvPlaces == InvPlace /\ InvFull /\ InvSlots

\* The slots are one behind the other.
LEMMA SlotRoom ==
  /\ \A i \in 1 .. Slots + 1 : Slot(i) \in Nat
  /\ \A i \in 1..Slots : Slot(i + 1) = Slot(i) + RecLen
  /\ \A i, j \in 1 .. Slots + 1 : i < j => Slot(i) + RecLen <= Slot(j)
  /\ Slot(1) = 0
<1>1. \A i, j \in 1 .. Slots + 1 : i < j => Slot(i) + RecLen <= Slot(j)
  <2> SUFFICES ASSUME NEW i \in 1 .. Slots + 1, NEW j \in 1 .. Slots + 1, i < j
               PROVE  Slot(i) + RecLen <= Slot(j)
    OBVIOUS
  <2>1. i * RecLen <= (j - 1) * RecLen
    BY Sizes
  <2>2. (i - 1) * RecLen + RecLen = i * RecLen
    BY Sizes
  <2> QED
    BY <2>1, <2>2 DEF Slot
<1>2. \A i \in 1 .. Slots + 1 : Slot(i) \in Nat
  BY Sizes DEF Slot
<1>3. \A i \in 1..Slots : Slot(i + 1) = Slot(i) + RecLen
  BY Sizes DEF Slot
<1>4. Slot(1) = 0
  BY Sizes DEF Slot
<1> QED
  BY <1>1, <1>2, <1>3, <1>4

\* A start finds the addresses where they were, if no record is under way.
LEMMA RecordsBoot == IInv /\ InvRecords /\ InvPlaces /\ Boot => InvRecords'
<1> SUFFICES ASSUME IInv, InvRecords, InvPlaces, Boot PROVE InvRecords'
  OBVIOUS
<1>1. /\ index_item' = <<0, 0>> /\ open' = FALSE
      /\ index_num' = config'.num /\ addr' = config'.num /\ info_addr' = config'.num * RecLen
  BY DEF Boot, MsgAfter, InfoAfter
<1>2. CASE saved.flag = "NONE"
  BY <1>1, <1>2, RecordsErased DEF Boot
<1>3. CASE saved.flag # "NONE"
  <2>1. config'.num = saved.num /\ saved.num \in 0..Slots
    BY <1>3 DEF Boot, IInv, InvTypes
  <2>2. /\ sound' = (sound /\ (Clean \/ saved.num = Slots))
        /\ UNCHANGED flash \/ clearing
        /\ done' = done
    BY <1>3, Zenon DEF Boot
  <2> SUFFICES ASSUME sound', ~Full' PROVE InvRecords'
    BY DEF InvRecords, InvFresh, InvUnder, InvKept
  <2>3. /\ sound /\ Clean /\ index_num' = index_num /\ ~Full
    BY <1>1, <2>1, <2>2 DEF Full, Clean
  <2>4. /\ UNCHANGED <<info, idx, msg>> /\ addr' = addr /\ info_addr' = info_addr
    <3>1. info_addr = Slot(index_num + 1) /\ addr = index_num + 0
      BY <2>3 DEF InvPlaces, InvPlace, Clean, UnderWay
    <3>2. Slot(index_num + 1) = index_num * RecLen /\ index_num + 0 = index_num
      BY Sizes DEF Slot, IInv, InvTypes
    <3> QED
      BY <1>1, <2>1, <2>2, <2>3, <3>1, <3>2 DEF Clean, flash
  <2>5. InvFresh'
    BY <2>3, <2>4 DEF InvRecords, InvFresh, Erased, InfoEnd, MsgEnd
  <2>6. InvUnder'
    BY <1>1 DEF InvUnder
  <2>7. InvKept'
    <3> SUFFICES ASSUME NEW i \in DOMAIN done
                 PROVE  Noted(done[i])' /\ Found(done[i])' /\ KeptAll(done[i])'
      BY <2>2 DEF InvKept
    <3>1. PICK ts \in Nat \ {0} : ts = done[i]
      BY DEF IInv, InvTypes
    <3>2. Noted(ts) /\ Found(ts) /\ KeptAll(ts)
      BY <2>3, <3>1 DEF InvRecords, InvKept
    <3>3. Noted(ts)' /\ Found(ts)'
      BY <2>3, <2>4, <3>2 DEF Noted, Found
    <3>4. KeptAll(ts)'
      <4>1. \A a \in Nat : index_item' # <<ts, a>>
        BY <1>1, <3>1
      <4> QED
        BY <2>4, <3>2, <4>1 DEF KeptAll, Kept, Has, MsgEnd
    <3> QED
      BY <2>2, <3>1, <3>3, <3>4 DEF Noted, Found, KeptAll
  <2> QED
    BY <2>5, <2>6, <2>7 DEF InvRecords
<1> QED
  BY <1>2, <1>3

LEMMA RecordsStep ==
  IInv /\ InvMsg /\ InvOpen /\ InvRecords /\ InvPlaces /\ [Next]_vars => InvRecords'
<1> SUFFICES ASSUME IInv, InvMsg, InvOpen, InvRecords, InvPlaces, [Next]_vars PROVE InvRecords'
  OBVIOUS
<1>1. CASE Storage_Write_AlarmInfo
  <2>1. index' < RecLen \/ index' >= RecLen
    BY <1>1, SecondOf, Sizes
  <2> QED
    BY <1>1, <2>1, RecordsSecond, RecordsLast
<1>2. CASE ClearThenErase
  <2>1. CASE Storage_Clear_AlarmData /\ open' = FALSE /\ done' = <<>>
    BY <2>1, RecordsErased DEF Storage_Clear_AlarmData
  <2>2. CASE UNCHANGED <<object, flash, sound, open, done, secs>>
    BY <2>2, RecordsStill
  <2> QED
    BY <1>2, <2>1, <2>2 DEF ClearThenErase
<1>3. CASE Raise \/ SaveEnd \/ MsgTimeout \/ InfoTimeout \/ InfoRefused \/ UNCHANGED vars
  BY <1>3, RecordsStill DEF Raise, SaveEnd, MsgTimeout, InfoTimeout, InfoRefused, vars, history
<1>4. CASE SaveConfig \/ ClearConfigFirst \/ kt_ClearConfig
  BY <1>4, RecordsStill DEF SaveConfig, ClearConfigFirst, kt_ClearConfig, history
<1> QED
  BY <1>1, <1>2, <1>3, <1>4, RecordsMsg, RecordsBoot DEF Next, alarm_task

LEMMA PlacesStill ==
  ASSUME InvPlaces, UNCHANGED <<object, flash, sound, straight, open, secs>>,
         UNCHANGED <<clearing, done>> \/ clearing' = TRUE
  PROVE  InvPlaces'
<1> USE DEF InvPlaces, object, flash
<1>1. InvPlace' /\ InvFull'
  BY DEF InvPlace, InvFull, UnderWay, Full, Slot
<1>2. InvSlots'
  BY DEF InvSlots, At, Has, Full, Slot, MsgEnd
<1> QED
  BY <1>1, <1>2

LEMMA PlacesErased ==
  ASSUME EraseAll, open' = FALSE, done' = <<>>,
         addr' = 0, info_addr' = 0, index_num' = 0
  PROVE  InvPlaces'
<1>1. Len(<<>>) = 0 /\ Slot(0 + 1) = 0 /\ 0 + 0 = 0
  BY SlotRoom
<1>2. InvPlace'
  BY <1>1 DEF InvPlace, UnderWay, Slot
<1>3. InvFull'
  BY Sizes DEF InvFull, Full
<1>4. InvSlots'
  BY DEF InvSlots
<1> QED
  BY <1>2, <1>3, <1>4 DEF InvPlaces

\* Programming a cell that is not of the slot.
LEMMA AtKept ==
  ASSUME NEW i \in 1..Slots, NEW ts, At(i, ts), msg'[i - 1] = msg[i - 1],
         idx'[i - 1] = idx[i - 1],
         \A e \in 0..MsgEnd, a \in Nat : idx'[e] = <<ts, a>> => idx[e] = <<ts, a>>,
         Has(Slot(i), ts, RecLen)'
  PROVE  At(i, ts)'
  BY DEF At, Has, Slot, MsgEnd

\* A message opens the next slot, or one of the ends.
LEMMA PlacesMsg ==
  IInv /\ InvMsg /\ InvRecords /\ InvPlaces /\ Storage_Write_AlarmMsg => InvPlaces'
<1> SUFFICES ASSUME IInv, InvMsg, InvRecords, InvPlaces, Storage_Write_AlarmMsg PROVE InvPlaces'
  OBVIOUS
<1>1. /\ pending /\ index_item' = <<alarm_ts, info_addr>> /\ addr' = addr + 1 /\ secs' = 0
      /\ open' = TRUE /\ straight' = (straight /\ ~open)
      /\ UNCHANGED <<info_addr, index_num, idx, done, clearing>>
      /\ sound' = (sound /\ (addr < Slots \/ Full))
  BY DEF Storage_Write_AlarmMsg
<1> SUFFICES ASSUME sound', straight' PROVE InvPlaces'
  BY DEF InvPlaces, InvPlace, InvFull, InvSlots
<1>2. sound /\ (addr < Slots \/ Full) /\ straight /\ ~open
  BY <1>1, Zenon
<1>3. /\ addr \in Nat /\ index_num \in 0..Slots /\ info_addr \in Nat /\ alarm_ts \in Nat
      /\ done \in Seq(Nat \ {0})
  BY Sizes DEF IInv, InvTypes
<1>4. index_item'[1] = alarm_ts /\ index_item'[2] = info_addr
  BY <1>1
<1>5. CASE ~Full
  <2>1. /\ addr = index_num /\ info_addr = Slot(index_num + 1)
        /\ ~clearing => Len(done) = index_num
    BY <1>2, <1>3, <1>5 DEF InvPlaces, InvPlace, UnderWay
  <2>2. addr \in 0 .. Slots - 1 /\ info' = info
    BY <1>2, <1>3, <1>5, Sizes DEF Storage_Write_AlarmMsg
  <2>3. msg' = [msg EXCEPT ![addr] = <<alarm_ts>>]
    <3>1. msg[addr] = Erased
      BY <1>2, <1>3, <1>5, <2>2 DEF InvRecords, InvFresh
    <3>2. msg' = [msg EXCEPT ![addr] = Program(@, <<alarm_ts>>)]
      BY <1>2, <1>5, Zenon DEF Storage_Write_AlarmMsg
    <3> QED
      BY <3>1, <3>2 DEF Program
  <2>4. InvPlace'
    <3>1. UnderWay' = 1
      BY <1>1 DEF UnderWay
    <3>2. addr' = index_num + UnderWay'
      BY <1>1, <2>1, <3>1
    <3>3. msg'[index_num] = <<alarm_ts>>
      BY <2>1, <2>2, <2>3 DEF InvMsg
    <3> QED
      BY <1>1, <1>4, <2>1, <3>2, <3>3 DEF InvPlace, Slot
  <2>5. InvFull'
    BY <1>1, <1>5 DEF InvFull, Full
  <2>6. InvSlots'
    <3> SUFFICES ASSUME ~clearing, NEW i \in DOMAIN done PROVE At(i, done[i])'
      BY <1>1 DEF InvSlots
    <3>1. i \in 1..Slots /\ i - 1 # addr
      <4>1. DOMAIN done = 1 .. index_num
        BY <1>1, <1>3, <2>1
      <4> QED
        BY <1>3, <2>1, <4>1, Sizes
    <3>2. PICK ts : ts = done[i]
      OBVIOUS
    <3>3. At(i, ts)
      BY <1>2, <1>5, <3>2 DEF InvPlaces, InvSlots
    <3>4. msg'[i - 1] = msg[i - 1]
      BY <2>3, <3>1 DEF InvMsg
    <3>5. Has(Slot(i), ts, RecLen)'
      BY <2>2, <3>3 DEF At, Has, Slot
    <3>6. At(i, ts)'
      BY <1>1, <3>1, <3>3, <3>4, <3>5, AtKept
    <3> QED
      BY <1>1, <3>2, <3>6 DEF At, Has
  <2> QED
    BY <2>4, <2>5, <2>6 DEF InvPlaces
<1>6. CASE Full
  <2>1. /\ addr \in {0, Slots} /\ info_addr \in {0, Slot(Slots + 1)}
        /\ ~clearing => Len(done) <= Slots
    BY <1>2, <1>6 DEF InvPlaces, InvFull
  <2>2. InvPlace'
    BY <1>1, <1>6 DEF InvPlace, Full
  <2>3. InvFull'
    <3>1. secs' <= RecLen
      BY <1>1, Sizes
    <3> QED
      BY <1>1, <1>4, <2>1, <3>1 DEF InvFull, Slot
  <2>4. \/ msg' = [msg EXCEPT ![0] = Program(@, <<alarm_ts>>)] /\ info' = info
        \/ info' = [info EXCEPT ![0] = Program(@, <<alarm_ts>>)] /\ msg' = msg
    <3>1. IF addr < Slots
          THEN msg' = [msg EXCEPT ![addr] = Program(@, <<alarm_ts>>)] /\ UNCHANGED info
          ELSE info' = [info EXCEPT ![0] = Program(@, <<alarm_ts>>)] /\ UNCHANGED msg
      BY Zenon DEF Storage_Write_AlarmMsg
    <3>2. addr < Slots => addr = 0
      BY <2>1, Sizes
    <3> QED
      BY <3>1, <3>2
  <2>5. InvSlots'
    <3> SUFFICES ASSUME ~clearing, NEW i \in DOMAIN done, i > 1 PROVE At(i, done[i])'
      BY <1>1, <1>6 DEF InvSlots, Full
    <3>1. i \in 1..Slots /\ i - 1 # 0 /\ Slot(i) \in Nat /\ RecLen <= Slot(i)
      <4>1. i \in 1..Slots /\ i - 1 # 0
        BY <1>3, <2>1, Sizes
      <4>2. Slot(1) + RecLen <= Slot(i) /\ Slot(1) = 0 /\ Slot(i) \in Nat
        BY <4>1, SlotRoom, Sizes
      <4> QED
        BY <4>1, <4>2, Sizes
    <3>2. PICK ts : ts = done[i]
      OBVIOUS
    <3>3. At(i, ts)
      BY <1>2, <3>2 DEF InvPlaces, InvSlots
    <3>4. msg'[i - 1] = msg[i - 1]
      <4>1. PICK m \in 0 .. Slots - 1 : m = i - 1 /\ m # 0
        BY <3>1, Sizes
      <4>2. msg'[m] = msg[m]
        BY <2>4, <4>1 DEF InvMsg
      <4> QED
        BY <4>1, <4>2
    <3>5. Has(Slot(i), ts, RecLen)'
      <4>1. Has(Slot(i), ts, RecLen)
        BY <3>3 DEF At
      <4>2. CASE info' = info
        BY <4>1, <4>2 DEF Has, Slot
      <4>3. CASE info' = [info EXCEPT ![0] = Program(@, <<alarm_ts>>)]
        <5>1. PICK s \in Nat : s = Slot(i)
          BY <3>1
        <5>2. \A k \in 1..RecLen : 0 # s + k - 1
          BY <3>1, <5>1, Sizes
        <5>3. Has(s, ts, RecLen)'
          BY <4>1, <4>3, <5>1, <5>2, HasKept, Sizes
        <5> QED
          BY <5>1, <5>3 DEF Has, Slot
      <4> QED
        BY <2>4, <4>2, <4>3
    <3>6. At(i, ts)'
      BY <1>1, <3>1, <3>3, <3>4, <3>5, AtKept
    <3> QED
      BY <1>1, <3>2, <3>6 DEF At, Has
  <2> QED
    BY <2>2, <2>3, <2>5 DEF InvPlaces
<1> QED
  BY <1>5, <1>6

\* What the second of a straight record is about: the record is under way, and
\* gets no second more than it has room for.
LEMMA StraightSecond ==
  ASSUME IInv, Storage_Write_AlarmInfo, straight'
  PROVE  /\ straight /\ open /\ secs \in Nat /\ secs + 1 <= RecLen
         /\ info_addr = index_item[2] + secs
         /\ index' >= RecLen => secs + 1 = RecLen
         /\ UNCHANGED <<msg, index_item, clearing>>
<1>1. /\ IF index' >= RecLen THEN straight' = (straight /\ open /\ secs' = RecLen)
                             ELSE straight' = (straight /\ open /\ secs' <= RecLen)
      /\ secs' = secs + 1 /\ UNCHANGED <<msg, index_item, clearing>>
  BY DEF Storage_Write_AlarmInfo
<1>2. straight /\ open /\ (secs' = RecLen \/ (~(index' >= RecLen) /\ secs' <= RecLen))
  BY <1>1, Zenon
<1>3. secs \in Nat /\ info_addr = index_item[2] + secs
  BY <1>2 DEF IInv, InvTypes, InvItem
<1>4. secs + 1 = RecLen \/ (~(index' >= RecLen) /\ secs + 1 <= RecLen)
  BY <1>1, <1>2
<1> QED
  BY <1>1, <1>2, <1>3, <1>4, Sizes

\* The second is written beside the slots that are kept.
LEMMA SecondBeside ==
  ASSUME IInv, InvPlaces, Storage_Write_AlarmInfo, straight', sound,
         NEW i \in 1..Slots, IF Full THEN i > 1 ELSE i <= index_num,
         NEW ts, Has(Slot(i), ts, RecLen)
  PROVE  Has(Slot(i), ts, RecLen)'
<1>1. /\ straight /\ open /\ secs \in Nat /\ secs + 1 <= RecLen /\ info_addr = index_item[2] + secs
  BY StraightSecond
<1>2. PICK s \in Nat : s = Slot(i)
  BY SlotRoom, Sizes
<1>3. index_item[2] >= s + RecLen \/ (index_item[2] = 0 /\ s >= RecLen)
  <2>1. CASE Full
    <3>1. index_item[2] = 0 \/ index_item[2] = Slot(Slots + 1)
      BY <1>1, <2>1 DEF InvPlaces, InvFull
    <3>2. Slot(1) + RecLen <= Slot(i) /\ Slot(1) = 0 /\ Slot(i) + RecLen <= Slot(Slots + 1)
      BY <2>1, SlotRoom, Sizes
    <3> QED
      BY <1>2, <3>1, <3>2, Sizes
  <2>2. CASE ~Full
    <3>1. index_item[2] = Slot(index_num + 1)
      BY <1>1, <2>2 DEF InvPlaces, InvPlace
    <3>2. i \in 1 .. Slots + 1 /\ index_num + 1 \in 1 .. Slots + 1 /\ i < index_num + 1
      BY <2>2, Sizes DEF IInv, InvTypes, Full
    <3>3. Slot(i) + RecLen <= Slot(index_num + 1)
      BY <3>2, SlotRoom
    <3> QED
      BY <1>2, <3>1, <3>3
  <2> QED
    BY <2>1, <2>2
<1>4. \A k \in 1..RecLen : info_addr # s + k - 1
  <2>1. PICK b \in Nat : b = index_item[2]
    BY DEF IInv, InvTypes
  <2>2. info_addr = b + secs /\ (b >= s + RecLen \/ (b = 0 /\ s >= RecLen))
    BY <1>1, <1>3, <2>1
  <2> QED
    BY <1>1, <1>2, <2>2, Sizes
<1>5. info' = [info EXCEPT ![info_addr] = Program(@, <<alarm_ts, secs + 1>>)]
  BY DEF Storage_Write_AlarmInfo
<1>6. Has(s, ts, RecLen)'
  BY <1>2, <1>4, <1>5, HasKept, Sizes
<1> QED
  BY <1>2, <1>6 DEF Has, Slot

\* Which slots there are.
LEMMA SlotsKnown ==
  ASSUME IInv, InvPlaces, sound, straight, ~clearing, NEW i \in DOMAIN done
  PROVE  /\ i \in 1..Slots /\ (~Full => i <= index_num)
         /\ i > 1 \/ ~Full => At(i, done[i])
<1>1. done \in Seq(Nat \ {0}) /\ index_num \in 0..Slots
  BY DEF IInv, InvTypes
<1>2. i \in Nat /\ i >= 1 /\ i <= Len(done) /\ Len(done) \in Nat
  BY <1>1
<1>3. ~Full => Len(done) = index_num
  BY DEF InvPlaces, InvPlace
<1>4. Full => Len(done) <= Slots
  BY DEF InvPlaces, InvFull
<1>5. i \in 1..Slots /\ (~Full => i <= index_num)
  BY <1>1, <1>2, <1>3, <1>4, Sizes
<1>6. i > 1 \/ ~Full => At(i, done[i])
  BY DEF InvPlaces, InvSlots
<1> QED
  BY <1>5, <1>6

LEMMA PlacesSecond ==
  IInv /\ InvPlaces /\ Storage_Write_AlarmInfo /\ index' < RecLen => InvPlaces'
<1> SUFFICES ASSUME IInv, InvPlaces, Storage_Write_AlarmInfo, index' < RecLen PROVE InvPlaces'
  OBVIOUS
<1> SUFFICES ASSUME sound', straight' PROVE InvPlaces'
  BY DEF InvPlaces, InvPlace, InvFull, InvSlots
<1>1. /\ secs' = secs + 1
      /\ idx' = Covered
      /\ UNCHANGED <<addr, index_addr, index_num, msg, open, done, index_item, clearing>>
  <2>1. ~(index' >= RecLen)
    BY SecondOf, Sizes
  <2> QED
    BY <2>1 DEF Storage_Write_AlarmInfo
<1>2. sound /\ straight /\ open /\ secs + 1 <= RecLen /\ idx' = idx
  BY <1>1, StraightSecond, SoundSecond DEF IInv
<1>3. InvPlace'
  BY <1>1, <1>2 DEF InvPlaces, InvPlace, UnderWay, Full, Slot
<1>4. InvFull'
  BY <1>1, <1>2 DEF InvPlaces, InvFull, Full, Slot
<1>5. InvSlots'
  <2> SUFFICES ASSUME ~clearing, NEW i \in DOMAIN done, i > 1 \/ ~Full PROVE At(i, done[i])'
    BY <1>1 DEF InvSlots, Full
  <2>1. PICK ts : ts = done[i]
    OBVIOUS
  <2>2. i \in 1..Slots /\ (~Full => i <= index_num) /\ At(i, ts)
    BY <1>2, <2>1, SlotsKnown
  <2>3. Has(Slot(i), ts, RecLen)'
    BY <1>2, <2>2, SecondBeside DEF At
  <2>4. At(i, ts)'
    BY <1>1, <1>2, <2>2, <2>3, AtKept
  <2> QED
    BY <1>1, <2>1, <2>4 DEF At
<1> QED
  BY <1>3, <1>4, <1>5 DEF InvPlaces

LEMMA PlacesLast ==
  IInv /\ InvMsg /\ InvOpen /\ InvRecords /\ InvPlaces /\ Storage_Write_AlarmInfo
  /\ index' >= RecLen => InvPlaces'
<1> SUFFICES ASSUME IInv, InvMsg, InvOpen, InvRecords, InvPlaces, Storage_Write_AlarmInfo,
                    index' >= RecLen
             PROVE  InvPlaces'
  OBVIOUS
<1> SUFFICES ASSUME sound', straight' PROVE InvPlaces'
  BY DEF InvPlaces, InvPlace, InvFull, InvSlots
<1>1. /\ open' = FALSE /\ secs' = secs + 1 /\ index_item[1] = alarm_ts /\ alarm_ts' = alarm_ts
      /\ done' = IF open /\ secs' = RecLen /\ ~Full THEN Append(done, alarm_ts) ELSE done
      /\ idx' = [Covered EXCEPT ![index_addr] = Program(@, index_item)]
      /\ index_num' = NextSlot
      /\ addr' = IF NextSlot = Slots THEN 0 ELSE addr
      /\ info_addr' = IF NextSlot = Slots THEN 0 ELSE info_addr + 1
  BY Zenon DEF Storage_Write_AlarmInfo, WriteIndex, IndexEntry
<1>2. /\ sound /\ straight /\ open /\ secs \in Nat /\ secs + 1 = RecLen
      /\ info_addr = index_item[2] + secs
      /\ UNCHANGED <<msg, index_item, clearing>> /\ Covered = idx
  BY StraightSecond, SoundSecond DEF IInv
<1>3. /\ index_num \in 0..Slots /\ addr \in Nat /\ info_addr \in Nat /\ alarm_ts \in Nat
      /\ done \in Seq(Nat \ {0}) /\ Asked /\ index_item[2] \in Nat /\ index_item \in Nat \X Nat
  BY SecondOf, Sizes DEF IInv, InvTypes
<1>4. \A e \in 0..MsgEnd : idx'[e] = idx[e] \/ (e = index_addr /\ idx'[e] \in {index_item, Damaged})
  <2>1. DOMAIN idx = 0..MsgEnd /\ Program(idx[index_addr], index_item) \in {index_item, Damaged}
    BY Programmed DEF IInv, InvTypes
  <2> QED
    BY <1>1, <1>2, <2>1
\* An entry that is found was there, unless it is the new one.
<1>5. ASSUME NEW e \in 0..MsgEnd, NEW ts \in Nat, NEW a \in Nat, idx'[e] = <<ts, a>>
      PROVE  idx[e] = <<ts, a>> \/ (e = index_addr /\ index_item = <<ts, a>>)
  <2>1. <<ts, a>> # Damaged
    BY Kinds
  <2> QED
    BY <1>4, <1>5, <2>1
\* The slots that were taken are kept.
<1>6. ASSUME ~clearing, NEW i \in DOMAIN done, i > 1 \/ ~Full PROVE At(i, done[i])'
  <2>1. PICK ts \in Nat : ts = done[i]
    BY <1>3
  <2>2. i \in 1..Slots /\ (~Full => i <= index_num) /\ At(i, ts)
    BY <1>2, <1>6, <2>1, SlotsKnown
  <2>3. Has(Slot(i), ts, RecLen)'
    BY <1>2, <1>6, <2>2, SecondBeside DEF At
  <2>4. \A e \in 0..MsgEnd, a \in Nat : idx'[e] = <<ts, a>> => idx[e] = <<ts, a>>
    <3>1. ts # index_item[1]
      BY <1>2, <2>1 DEF InvOpen
    <3>2. \A a \in Nat : index_item # <<ts, a>>
      BY <3>1
    <3> QED
      BY <1>5, <3>2
  <2>5. idx'[i - 1] = idx[i - 1]
    <3>1. i - 1 # index_addr /\ i - 1 \in 0..MsgEnd
      BY SMTT(30), <1>3, <1>6, <2>2, Sizes DEF IInv, InvIndex, Full
    <3> QED
      BY <1>4, <3>1
  <2>6. At(i, ts)'
    BY <1>2, <2>2, <2>3, <2>4, <2>5, AtKept
  <2>7. DOMAIN done = 1 .. Len(done) /\ Len(done) \in Nat
    BY <1>3
  <2>8. done'[i] = ts
    BY <1>1, <1>3, <2>1, <2>7
  <2> QED
    BY <2>6, <2>8 DEF At, Has

<1>7. CASE Full
  <2>1. NextSlot = Slots /\ Full'
    BY <1>1, <1>3, <1>7, Sizes DEF NextSlot, Full
  <2>2. done' = done
    BY <1>1, <1>7
  <2>3. InvPlace'
    BY <2>1 DEF InvPlace
  <2>4. InvFull'
    BY <1>1, <1>2, <1>7, <2>1, <2>2 DEF InvPlaces, InvFull
  <2>5. InvSlots'
    BY <1>2, <1>6, <2>1, <2>2 DEF InvSlots
  <2> QED
    BY <2>3, <2>4, <2>5 DEF InvPlaces
<1>8. CASE ~Full
  <2>1. /\ index_num \in Nat /\ index_num < Slots /\ index_num' = index_num + 1
        /\ index_num + 1 < Slots => NextSlot # Slots
        /\ index_num \in 0..MsgEnd
    BY <1>1, <1>3, <1>8, Sizes DEF NextSlot, Full
  <2>2. /\ addr = index_num + 1 /\ index_item[2] = Slot(index_num + 1)
        /\ msg[index_num] = <<alarm_ts>>
        /\ ~clearing => Len(done) = index_num
    BY <1>1, <1>2, <1>8 DEF InvPlaces, InvPlace, UnderWay
  <2>3. done' = Append(done, alarm_ts) /\ Len(done') = Len(done) + 1 /\ Len(done) \in Nat
    BY <1>1, <1>2, <1>3, <1>8
  <2>4. idx'[index_num] = index_item /\ index_addr = index_num
    <3>1. idx' = [idx EXCEPT ![index_num] = index_item] /\ DOMAIN idx = 0..MsgEnd
      BY <1>2, <1>8, EntryAdded
    <3>2. index_addr = index_num
      BY <2>1, Sizes DEF IInv, InvIndex
    <3> QED
      BY <2>1, <3>1, <3>2
  <2>5. ~clearing => Len(done') = index_num + 1
    BY <2>1, <2>2, <2>3
  <2>6. InvPlace'
    <3> SUFFICES ASSUME ~Full' PROVE InvPlace'
      BY DEF InvPlace
    <3>1. NextSlot # Slots
      BY <1>1 DEF Full
    <3>2. UnderWay' = 0 /\ addr' = index_num' + 0
      BY <1>1, <2>1, <2>2, <3>1 DEF UnderWay
    <3>3. info_addr' = Slot(index_num' + 1)
      <4>1. info_addr' = Slot(index_num + 1) + RecLen
        <5>1. PICK b \in Nat : b = index_item[2]
          BY <1>3
        <5>2. info_addr = b + secs /\ b = Slot(index_num + 1) /\ info_addr' = info_addr + 1
          BY <1>1, <1>2, <2>2, <3>1, <5>1
        <5>3. (b + secs) + 1 = b + RecLen
          BY <1>2, <5>1, Sizes
        <5> QED
          BY <5>2, <5>3
      <4>2. index_num + 1 \in 1..Slots
        BY <2>1, Sizes
      <4> QED
        BY <2>1, <4>1, <4>2, SlotRoom
    <3> QED
      BY <1>1, <1>2, <2>1, <2>5, <3>2, <3>3 DEF InvPlace, Slot
  <2>7. InvFull'
    <3> SUFFICES ASSUME Full' PROVE InvFull'
      BY DEF InvFull
    <3>1. NextSlot = Slots
      BY <1>1 DEF Full
    <3>2. ~clearing => Len(done') <= Slots
      BY <2>1, <2>5, Sizes
    <3> QED
      BY <1>1, <1>2, <3>1, <3>2 DEF InvFull
  <2>8. InvSlots'
    <3> SUFFICES ASSUME ~clearing, NEW i \in DOMAIN done' PROVE At(i, done[i])'
      BY <1>2 DEF InvSlots
    <3>1. DOMAIN done' = 1 .. index_num + 1 /\ DOMAIN done = 1..index_num
      BY <1>3, <2>2, <2>3, <2>5
    <3>2. CASE i \in DOMAIN done
      BY <1>6, <1>8, <3>2
    <3>3. CASE i = index_num + 1
      <4>1. PICK ts \in Nat : ts = alarm_ts
        BY <1>3
      <4>2. done'[i] = ts /\ i - 1 = index_num /\ i \in 1..Slots
        <5>1. Len(done) = index_num /\ alarm_ts \in Nat
          BY <1>3, <2>2
        <5>2. done'[Len(done) + 1] = alarm_ts
          BY <1>3, <2>3, <5>1
        <5> QED
          BY <2>1, <3>3, <4>1, <5>1, <5>2, Sizes
      <4>3. index_item = <<ts, Slot(i)>>
        BY <1>1, <1>3, <2>2, <3>3, <4>1
      <4>4. msg'[index_num] = <<ts>> /\ idx'[index_num] = <<ts, Slot(i)>>
        BY <1>2, <2>2, <2>4, <4>1, <4>3
      <4>5. Has(Slot(i), ts, RecLen)'
        <5>1. Has(index_item[2], index_item[1], secs)'
          BY <1>2, <1>8, SecondAdded
        <5>2. secs' = RecLen /\ index_item'[2] = Slot(i) /\ index_item'[1] = ts
          BY <1>1, <1>2, <4>3
        <5> QED
          BY <5>1, <5>2 DEF Has, Slot
      <4>6. ASSUME NEW e \in 0..MsgEnd, NEW a \in Nat, idx'[e] = <<ts, a>> PROVE e = index_num
        <5>1. idx[e] # <<ts, a>>
          BY <1>1, <1>2, <4>1 DEF InvOpen
        <5> QED
          BY <1>5, <2>4, <4>6, <5>1
      <4> QED
        BY <4>2, <4>4, <4>5, <4>6 DEF At, Slot, Has, MsgEnd
    <3>4. i \in DOMAIN done \/ i = index_num + 1
      BY <2>1, <3>1
    <3> QED
      BY <3>2, <3>3, <3>4
  <2> QED
    BY <2>6, <2>7, <2>8 DEF InvPlaces
<1> QED
  BY <1>7, <1>8

\* A start leaves the slots as they are, or all of the flash is erased.
LEMMA PlacesBoot == IInv /\ InvConfig /\ InvOne /\ InvPlaces /\ Boot => InvPlaces'
<1> SUFFICES ASSUME IInv, InvConfig, InvOne, InvPlaces, Boot PROVE InvPlaces'
  OBVIOUS
<1>1. /\ index_item' = <<0, 0>> /\ open' = FALSE /\ clearing' = FALSE
      /\ index_num' = config'.num /\ addr' = config'.num /\ info_addr' = config'.num * RecLen
  BY DEF Boot, MsgAfter, InfoAfter
<1>2. CASE saved.flag = "NONE"
  <2>1. config'.num = 0 /\ EraseAll /\ done' = <<>>
    BY <1>2 DEF Boot
  <2>2. 0 * RecLen = 0
    BY Sizes
  <2> QED
    BY <1>1, <2>1, <2>2, PlacesErased
<1>3. CASE saved.flag # "NONE"
  <2>1. config'.num = saved.num /\ saved.num \in 0..Slots /\ index_num \in 0..Slots
    BY <1>3 DEF Boot, IInv, InvTypes
  <2>2. /\ sound' = (sound /\ (Clean \/ saved.num = Slots))
        /\ UNCHANGED flash \/ clearing
        /\ done' = done /\ straight' = straight
    BY <1>3, Zenon DEF Boot
  <2> SUFFICES ASSUME sound', straight' PROVE InvPlaces'
    BY DEF InvPlaces, InvPlace, InvFull, InvSlots
  <2>3. sound /\ (Clean \/ saved.num = Slots) /\ straight
    BY <2>2
  <2>4. PICK n \in 0..Slots : n = saved.num
    BY <2>1
  <2>5. n * RecLen = Slot(n + 1) /\ n \in Nat
    BY Sizes DEF Slot
  <2>6. index_num' = n /\ addr' = n /\ info_addr' = Slot(n + 1)
    BY <1>1, <2>1, <2>4, <2>5
  <2>7. CASE n = Slots
    <3>1. Full' /\ addr' = Slots /\ info_addr' = Slot(Slots + 1)
      BY <2>6, <2>7 DEF Full
    <3>2. done \in Seq(Nat \ {0}) /\ Len(done) \in Nat /\ ToFinish \in Nat
      BY DEF IInv, InvTypes, ToFinish
    <3>3. CASE Unarmed
      <4>1. Len(done) <= 1
        BY <3>2, <3>3 DEF InvOne
      <4>2. InvFull'
        BY <1>1, <2>2, <3>1, <3>2, <4>1, Sizes DEF InvFull, Slot
      <4>3. \A i \in DOMAIN done : ~(i > 1)
        BY <3>2, <4>1
      <4>4. InvSlots'
        BY <2>2, <3>1, <4>3 DEF InvSlots
      <4> QED
        BY <3>1, <4>2, <4>4 DEF InvPlaces, InvPlace
    <3>4. CASE ~Unarmed
      <4>1. Full /\ ~clearing
        BY <2>4, <2>7, <3>4 DEF Unarmed, InvConfig
      <4>2. Len(done) <= Slots /\ UNCHANGED <<msg, info, idx>>
        BY <2>2, <2>3, <4>1 DEF InvPlaces, InvFull, flash
      <4>3. InvFull'
        BY <1>1, <2>2, <3>1, <4>2 DEF InvFull, Slot
      <4>4. InvSlots'
        BY <2>2, <2>3, <3>1, <4>1, <4>2 DEF InvPlaces, InvSlots, At, Has, Slot, MsgEnd
      <4> QED
        BY <3>1, <4>3, <4>4 DEF InvPlaces, InvPlace
    <3> QED
      BY <3>3, <3>4
  <2>8. CASE n # Slots
    <3>1. Clean /\ n = index_num /\ ~Full' /\ ~Full
      BY <2>3, <2>4, <2>6, <2>8 DEF Clean, Full
    <3>2. UNCHANGED <<msg, info, idx>> /\ ~clearing /\ ~open
      BY <2>2, <3>1 DEF Clean, flash
    <3>3. Len(done) = index_num
      BY <2>3, <3>1, <3>2 DEF InvPlaces, InvPlace
    <3>4. InvPlace'
      <4>1. UnderWay' = 0 /\ n + 0 = n
        BY <1>1, <2>5 DEF UnderWay
      <4> QED
        BY <1>1, <2>2, <2>6, <3>1, <3>3, <4>1 DEF InvPlace, Slot
    <3>5. InvFull'
      BY <3>1 DEF InvFull
    <3>6. InvSlots'
      BY <2>2, <2>3, <3>1, <3>2 DEF InvPlaces, InvSlots, At, Has, Slot, MsgEnd
    <3> QED
      BY <3>4, <3>5, <3>6 DEF InvPlaces
  <2> QED
    BY <2>7, <2>8
<1> QED
  BY <1>2, <1>3

LEMMA PlacesStep ==
  IInv /\ InvMsg /\ InvConfig /\ InvOne /\ InvOpen /\ InvRecords /\ InvPlaces /\ [Next]_vars
    => InvPlaces'
<1> SUFFICES ASSUME IInv, InvMsg, InvConfig, InvOne, InvOpen, InvRecords, InvPlaces, [Next]_vars
             PROVE  InvPlaces'
  OBVIOUS
<1>1. CASE Storage_Write_AlarmInfo
  <2>1. index' < RecLen \/ index' >= RecLen
    BY <1>1, SecondOf, Sizes
  <2> QED
    BY <1>1, <2>1, PlacesSecond, PlacesLast
<1>2. CASE ClearThenErase
  <2>1. CASE Storage_Clear_AlarmData /\ open' = FALSE /\ done' = <<>>
    BY <2>1, PlacesErased DEF Storage_Clear_AlarmData
  <2>2. CASE straight' = FALSE
    BY <2>2 DEF InvPlaces, InvPlace, InvFull, InvSlots
  <2> QED
    BY <1>2, <2>1, <2>2 DEF ClearThenErase
<1>3. CASE Raise \/ SaveEnd \/ MsgTimeout \/ InfoTimeout \/ InfoRefused \/ UNCHANGED vars
  BY <1>3, PlacesStill DEF Raise, SaveEnd, MsgTimeout, InfoTimeout, InfoRefused, vars, history
<1>4. CASE SaveConfig \/ ClearConfigFirst \/ kt_ClearConfig
  BY <1>4, PlacesStill DEF SaveConfig, ClearConfigFirst, kt_ClearConfig, history
<1> QED
  BY <1>1, <1>2, <1>3, <1>4, PlacesMsg, PlacesBoot DEF Next, alarm_task

\* What holds of the records in their places, on top of IInv.
Inv ==
  /\ IInv
  /\ InvMsg /\ InvConfig /\ InvOne /\ InvOpen
  /\ InvRecords /\ InvPlaces /\ InvGone

LEMMA InitAll == Init => Inv
<1> SUFFICES ASSUME Init PROVE Inv
  OBVIOUS
<1>1. IInv
  BY InitInv
<1>2. InvMsg /\ InvConfig /\ InvOpen
  BY Sizes DEF Init, InvMsg, Blank, InvConfig, Armed, InvOpen
<1>3. InvOne
  BY Sizes DEF Init, InvOne, Unarmed, Armed, Full
<1>4. InvRecords
  <2>1. InvFresh
    BY Sizes DEF Init, InvFresh, Blank
  <2> QED
    BY <2>1 DEF Init, InvRecords, InvUnder, InvKept
<1>5. InvPlaces
  <2>1. Len(<<>>) = 0 /\ Slot(0 + 1) = 0
    BY SlotRoom
  <2>2. InvPlace
    BY <2>1 DEF Init, InvPlace, UnderWay
  <2>3. InvFull /\ InvSlots
    BY Sizes DEF Init, InvFull, InvSlots, Full
  <2> QED
    BY <2>2, <2>3 DEF InvPlaces
<1>6. InvGone
  <2>1. \A e \in 0..MsgEnd : idx[e] = Erased /\ idx[e] \notin Nat \X Nat
    <3>1. \A p \in Nat \X Nat : p # Erased
      BY Kinds
    <3> QED
      BY <3>1 DEF Init, Blank
  <2>2. /\ mark = 0 /\ alarm_ts = 0 /\ torn = FALSE
        /\ \A ts \in 1..0 : FALSE
    BY DEF Init
  <2>3. mark \in 0..alarm_ts /\ \A ts \in 1..mark : FALSE
    BY <2>2
  <2>4. \A m \in 0 .. Slots - 1, ts \in 1..mark : msg[m] # <<ts>>
    BY <2>3
  <2>5. \A e \in 0..MsgEnd : idx[e] \in Nat \X Nat => idx[e][1] > mark
    BY <2>1
  <2> QED
    BY <2>2, <2>3, <2>4, <2>5 DEF InvGone
<1> QED
  BY <1>1, <1>2, <1>3, <1>4, <1>5, <1>6 DEF Inv

LEMMA InvariantAll == Spec => [](rising => Inv)
<1>1. Init => (rising => Inv)
  BY InitAll
<1>2. (rising => Inv) /\ [Next]_vars => (rising => Inv)'
  BY NextInv, RisingBefore, MsgStep, ConfigStep, OneStep, OpenStep, RecordsStep, PlacesStep,
     GoneStep
     DEF Inv
<1> QED
  BY <1>1, <1>2, PTL DEF Spec

\* Every set of numbers has a least one.
Less == {p \in Nat \X Nat : p[1] < p[2]}
LEMMA Least ==
  ASSUME NEW S, S \subseteq Nat, S # {}
  PROVE  \E x \in S : \A y \in S : x <= y
<1>1. IsWellFoundedOn(Less, Nat)
  BY NatLessThanWellFounded DEF OpToRel, Less
<1>2. PICK x \in S : \A y \in S : ~ (<<y, x>> \in Less)
  BY <1>1, WFMin, Zenon
<1>3. ASSUME NEW y \in S PROVE x <= y
  <2>1. x \in Nat /\ y \in Nat
    OBVIOUS
  <2>2. ASSUME y < x PROVE <<y, x>> \in Less
    BY <2>1, <2>2 DEF Less
  <2> QED
    BY <1>2, <2>1, <2>2
<1> QED
  BY <1>3

\* The pages that are searched reach over all entries that are counted.
LEMMA PagesReach ==
  ASSUME index_num \in 0..Slots
  PROVE  index_num <= Pages * PerPage /\ Pages * PerPage \in Int
<1> DEFINE q == (index_num + PerPage - 1) \div PerPage
<1>1. PerPage \in Nat /\ PerPage > 0 /\ Slots \in Nat
  BY AlarmStorageAssumption
<1>2. q \in Int /\ index_num + PerPage - 1 < PerPage * q + PerPage
  BY <1>1, SMT
<1> HIDE DEF q
<1>3. q * PerPage = PerPage * q /\ q * PerPage \in Int /\ 1 * PerPage = PerPage
  BY <1>1, <1>2, SMT
<1>4. index_num <= q * PerPage
  BY <1>1, <1>2, <1>3, SMT
<1>5. Pages = IF index_num = 0 THEN 1 ELSE q
  BY DEF Pages, q
<1>6. CASE index_num = 0
  BY <1>1, <1>3, <1>5, <1>6
<1>7. CASE index_num # 0
  BY <1>3, <1>4, <1>5, <1>7
<1> QED
  BY <1>6, <1>7

\* What is read of an alarm whose entries all name the place of its seconds.
LEMMA ReadWhole ==
  ASSUME IInv, NEW ts \in Nat \ {0}, NEW e \in Nat, e < index_num, idx[e] \in Nat \X Nat,
         idx[e][1] = ts,
         \A f \in 0..MsgEnd, a \in Nat : idx[f] = <<ts, a>> => Has(a, ts, RecLen)
  PROVE  Read(ts) = Whole(ts)
<1>1. index_num \in 0..Slots
  BY DEF IInv, InvTypes
<1>2. e \in Entries(ts)
  <2>1. e \in 0 .. Pages * PerPage - 1
    BY <1>1, PagesReach, Sizes
  <2> QED
    BY <2>1, Kinds DEF Entries
<1>3. First(ts) # {}
  <2>1. Entries(ts) \subseteq Nat
    BY DEF Entries
  <2>2. PICK x \in Entries(ts) : \A y \in Entries(ts) : x <= y
    BY <1>2, <2>1, Least
  <2> QED
    BY <2>2 DEF First
<1> DEFINE f == CHOOSE g \in First(ts) : TRUE
<1>4. f \in Entries(ts)
  BY <1>3 DEF First
<1>5. Read(ts) = From(idx[f][2])
  BY <1>3 DEF Read
<1> HIDE DEF f
<1>6. f \in 0..MsgEnd /\ idx[f] # Erased /\ idx[f][1] = ts
  BY <1>1, <1>4, PagesInside, Sizes DEF Entries
<1>7. idx[f] \in Nat \X Nat
  <2>1. idx[f] \in {Erased, Damaged} \cup (Nat \X Nat)
    BY <1>6 DEF IInv, InvEntries
  <2>2. Damaged[1] = 0
    BY DEF Damaged
  <2> QED
    BY <1>6, <2>1, <2>2
<1>8. PICK a \in Nat : a = idx[f][2] /\ idx[f] = <<ts, a>>
  BY <1>6, <1>7
<1>9. \A k \in 1..RecLen : info[a + k - 1] = <<ts, k>>
  BY <1>6, <1>8 DEF Has
<1> QED
  BY <1>5, <1>8, <1>9 DEF From, Whole

\* Every finished record reads back as it was written, while stamps rise, power is
\* lost between saved records only and no second reaches the index; a full flash
\* costs the first one.
THEOREM RecordsStayIntact == Spec => []RecordsIntact
<1>1. ASSUME Inv PROVE RecordsIntact
  <2> SUFFICES ASSUME sound, ~clearing, ~Full \/ straight, NEW i \in DOMAIN done, i > 1 \/ ~Full
               PROVE  /\ Read(done[i]) = Whole(done[i])
                      /\ \E a \in DOMAIN msg : msg[a] = <<done[i]>>
    BY DEF RecordsIntact
  <2>1. IInv /\ InvMsg /\ InvRecords /\ InvPlaces
    BY <1>1 DEF Inv
  <2>2. PICK ts \in Nat \ {0} : ts = done[i]
    BY <2>1 DEF IInv, InvTypes
  <2>3. CASE ~Full
    <3>1. Noted(ts) /\ Found(ts) /\ KeptAll(ts)
      BY <2>1, <2>2, <2>3 DEF InvRecords, InvKept
    <3>2. PICK e \in 0 .. Slots - 1, a \in Nat : e < index_num /\ idx[e] = <<ts, a>>
      BY <3>1 DEF Found
    <3>3. Read(ts) = Whole(ts)
      <4>1. e \in Nat /\ idx[e] \in Nat \X Nat /\ idx[e][1] = ts
        BY <3>2
      <4>2. \A f \in 0..MsgEnd, b \in Nat : idx[f] = <<ts, b>> => Has(b, ts, RecLen)
        BY <3>1 DEF KeptAll, Kept
      <4> QED
        BY <2>1, <3>2, <4>1, <4>2, ReadWhole
    <3> QED
      BY <2>1, <2>2, <3>1, <3>3 DEF Noted, InvMsg
  <2>4. CASE Full
    <3>1. i \in 1..Slots /\ At(i, ts)
      BY <2>1, <2>2, <2>4, SlotsKnown
    <3>2. Slot(i) \in Nat /\ i - 1 \in 0 .. Slots - 1 /\ i - 1 < index_num
      BY <2>4, <3>1, SlotRoom, Sizes DEF Full
    <3>3. Read(ts) = Whole(ts)
      <4>1. PICK e \in Nat : e = i - 1 /\ e < index_num
        BY <3>2
      <4>2. idx[e] \in Nat \X Nat /\ idx[e][1] = ts
        BY <3>1, <3>2, <4>1 DEF At
      <4>3. \A f \in 0..MsgEnd, b \in Nat : idx[f] = <<ts, b>> => Has(b, ts, RecLen)
        <5> SUFFICES ASSUME NEW f \in 0..MsgEnd, NEW b \in Nat, idx[f] = <<ts, b>>
                     PROVE  Has(b, ts, RecLen)
          OBVIOUS
        <5>1. f = i - 1 /\ idx[i - 1] = <<ts, Slot(i)>>
          BY <3>1 DEF At
        <5>2. b = Slot(i)
          BY <5>1
        <5> QED
          BY <3>1, <5>2 DEF At
      <4> QED
        BY <2>1, <4>1, <4>2, <4>3, ReadWhole
    <3> QED
      BY <2>1, <2>2, <3>1, <3>2, <3>3 DEF At, InvMsg
  <2> QED
    BY <2>3, <2>4
<1>2. ~rising => RecordsIntact
  BY DEF RecordsIntact
<1> QED
  BY <1>1, <1>2, InvariantAll, PTL

\* The list of alarms the host is given is that of the finished records, while
\* stamps rise and none is left unfinished.
THEOREM AlarmsAreListed == Spec => []AlarmsListed
<1>1. ASSUME Inv PROVE AlarmsListed
  <2> SUFFICES ASSUME sound, straight, ~Full, Armed
               PROVE  Listed = [i \in DOMAIN done |-> <<done[i]>>]
    BY DEF AlarmsListed
  <2>1. ~clearing /\ config.num = index_num
    BY <1>1 DEF Inv, InvConfig, Armed
  <2>2. Len(done) = index_num /\ \A i \in DOMAIN done : msg[i - 1] = <<done[i]>>
    BY <1>1, <2>1 DEF Inv, InvPlaces, InvPlace, InvSlots, At
  <2>3. DOMAIN done = 1 .. config.num
    BY <1>1, <2>1, <2>2 DEF Inv, IInv, InvTypes
  <2> QED
    BY <2>2, <2>3 DEF Listed
<1>2. ~rising => AlarmsListed
  BY DEF AlarmsListed
<1> QED
  BY <1>1, <1>2, InvariantAll, PTL

\* What a clear took away does not come back, while stamps rise.
THEOREM ClearedIsGone == Spec => []ClearedGone
<1>1. ASSUME Inv PROVE ClearedGone
  <2> SUFFICES ASSUME Armed, ~torn
               PROVE  /\ \A ts \in 1..mark : Entries(ts) = {}
                      /\ \A i \in DOMAIN Listed : Listed[i] \notin {<<ts>> : ts \in 1..mark}
    BY DEF ClearedGone
  <2>1. /\ \A e \in 0..MsgEnd : idx[e] \in Nat \X Nat => idx[e][1] > mark
        /\ \A m \in 0 .. Slots - 1, ts \in 1..mark : msg[m] # <<ts>>
    BY <1>1 DEF Inv, InvConfig, InvGone, Armed
  <2>2. /\ index_num \in 0..Slots /\ config.num \in 0..Slots
        /\ \A e \in 0..MsgEnd : idx[e] \in {Erased, Damaged} \cup (Nat \X Nat)
        /\ mark \in Nat
    BY <1>1, Sizes DEF Inv, IInv, InvTypes, InvEntries, InvGone
  <2>3. ASSUME NEW ts \in 1..mark, NEW e \in Entries(ts) PROVE FALSE
    <3>1. e \in 0..MsgEnd /\ idx[e] # Erased /\ idx[e][1] = ts
      BY <2>2, PagesInside, Sizes DEF Entries
    <3>2. Damaged[1] = 0
      BY DEF Damaged
    <3> QED
      BY <2>1, <2>2, <3>1, <3>2
  <2>4. ASSUME NEW i \in DOMAIN Listed, NEW ts \in 1..mark, Listed[i] = <<ts>> PROVE FALSE
    <3>1. i \in 1 .. config.num /\ msg[i - 1] = <<ts>>
      BY <2>4 DEF Listed
    <3>2. i - 1 \in 0 .. Slots - 1
      BY <2>2, <3>1, Sizes
    <3> QED
      BY <2>1, <3>1, <3>2
  <2> QED
    BY <2>3, <2>4
<1>2. ~rising => ClearedGone
  BY DEF ClearedGone
<1> QED
  BY <1>1, <1>2, InvariantAll, PTL
=============================================================================
