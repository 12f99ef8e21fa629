----------------------------- MODULE AdcStorage -----------------------------
(***************************************************************************)
(* The seconds of samples on the eMMC, AdcObject_t of                      *)
(* src/app/storage_manage.c: a ring of seconds, an index of them in a ring *)
(* of blocks, the part of the index that is not yet full in RAM, and the   *)
(* position in the configuration, which msg_send_task saves by pages when  *)
(* g_config_status is set.  (ConfigStore has the status; as other changes  *)
(* set it too, a save may come here at any time.)                          *)
(*                                                                         *)
(* A second is its time stamp, and addresses count seconds (addr / 125).   *)
(* index_addr is left out: it is curr_block behind the start of the index  *)
(* after every operation.  Each operation runs under the object's mutex    *)
(* and is one step; power may fail between any two, and between two pages  *)
(* of the configuration.                                                   *)
(*                                                                         *)
(* The host may set the clock back, TimeSync may have no time, a start may *)
(* find a configuration half written: all this happens here, and regular   *)
(* tells when it has.  What is claimed then is nothing.                    *)
(***************************************************************************)
EXTENDS Naturals, Sequences, FiniteSets, FiniteSetsExt

CONSTANTS
  PerBlock,    \* ADC_INDEX_NUM_PRE_BLOCK, 64
  IndexBlocks, \* ADC_INDEX_BLOCK_NUM, 7500
  Chunk,       \* index blocks a search reads at once, 10
  Residue,     \* seconds still in the cache and in g_adc_items at most
  MaxGap,      \* bound: how far the time stamps of two seconds may be apart
  MaxSec       \* bound: the last time stamp

\* A block takes several seconds, and the seconds under way (1.7 of 64) do not
\* fill more than one.
ASSUME AdcStorageAssumption ==
  /\ PerBlock \in Nat \ {0, 1} /\ IndexBlocks \in Nat \ {0, 1} /\ Chunk \in Nat \ {0}
  /\ Residue \in 0 .. PerBlock /\ MaxGap \in Nat /\ MaxSec \in Nat

VARIABLES
  addr, block_num, curr_block, str_time, end_time, \* g_AdcObject
  item_index, item_tables,
  data,     \* the eMMC: a second at each address
  index,    \* the eMMC: a table in each index block
  config,   \* g_ConfigInfo, what is relevant here
  image,    \* the contents of the FM24C02
  page,     \* the page msg_send_task writes next
  saved,    \* the last configuration the FM24C02 had whole
  clearing, \* msg_proc_task is inside kt_ClearData
  left,     \* seconds that can still be stored once sampling has stopped
  now,      \* the second stored last
  known,    \* history: the seconds stored since the last clear,
  kept,     \* of them the ones that no loss of power took away,
  completed, durable, \* those in full index blocks, and in the saved configuration;
  mark, gone, \* the last second before a clear, and before one that was saved;
  torn,       \* the last clear was cut short: a block was completed before the next
              \* start, or the power failed before the configuration was saved
  late,       \* a block was completed while the one before was not yet saved
  regular     \* no second but with the last time stamp or a later one, no start from a
              \* configuration that was not whole or not read whole, and the end of the
              \* first lap was saved before the next block was completed

object == <<addr, block_num, curr_block, str_time, end_time, item_index, item_tables>>
emmc == <<data, index>>
history == <<known, kept, completed, durable>>
clears == <<mark, gone, torn>>
store == <<image, page>>
vars == <<object, emmc, config, saved, store, clearing, left, now, history, clears, late,
          regular>>

Capacity == PerBlock * IndexBlocks
Addrs == 0 .. Capacity - 1
Blank == [i \in 0 .. PerBlock - 1 |-> [ts |-> 0, addr |-> 0]]

\* The position in the configuration, and the flag: FIRST_ON, NEXT_ON or erased.
Erased == [block_num |-> 0, curr_block |-> 0, str_time |-> 0, end_time |-> 0, flag |-> "NONE"]
Cleared == [Erased EXCEPT !.flag = "FIRST_ON"]

Sampling == config.flag = "NEXT_ON"
FirstLap == block_num < IndexBlocks
----------------------------------------------------------------------------
(* Storage_task.                                                           *)

NextAddr(a) == IF a + 1 >= Capacity THEN 0 ELSE a + 1

\* The entry of a second: the address it was written to.
Mut_Entry(ts) == [ts |-> ts, addr |-> NextAddr(addr)]
Entry(ts) == [ts |-> ts, addr |-> addr]

\* Where the recording starts, read from table on the first block of a lap.
Mut_StartTime(table) == table[0].ts
StartTime(table) == IF curr_block = 0 THEN table[0].ts ELSE str_time

\* A full table goes to the index.  On the first block of a lap the start of
\* the recording is read, and from the second lap on the table with it from the
\* block that is overwritten next: the end of the recording is then taken from
\* that table as well.
FlushTable(table) ==
  LET next == IF curr_block = 0 /\ block_num = IndexBlocks THEN index[1] ELSE table
      lap == curr_block + 1 >= IndexBlocks
  IN /\ index' = [index EXCEPT ![curr_block] = table]
     /\ item_tables' = next /\ item_index' = 0
     /\ str_time' = StartTime(next)
     /\ end_time' = next[PerBlock - 1].ts
     /\ curr_block' = IF lap THEN 0 ELSE curr_block + 1
     /\ block_num' = IF lap THEN IndexBlocks ELSE block_num + 1
     /\ config' = [config EXCEPT !.block_num = block_num', !.curr_block = curr_block',
                                 !.str_time = str_time', !.end_time = end_time']

Storage_Write_AdcData(ts) ==
  LET table == [item_tables EXCEPT ![item_index] = Entry(ts)]
  IN /\ data' = [data EXCEPT ![addr] = ts]
     /\ addr' = NextAddr(addr)
     /\ known' = known \cup {ts} /\ kept' = kept \cup {ts}
     /\ IF item_index + 1 >= PerBlock
        THEN FlushTable(table) /\ completed' = kept'
        ELSE /\ item_tables' = table /\ item_index' = item_index + 1
             /\ UNCHANGED <<index, str_time, end_time, curr_block, block_num, config,
                            completed>>

\* The time stamp of a second is what the clock shows at its first sample.  When
\* the clock is read a little late, a second has the time stamp of the one before
\* (bound: once in the data that is held).
NoneRepeated == \A a, b \in Addrs : data[a] = data[b] => a = b \/ data[a] = 0

\* The next second has the next time stamp or, after an idle time or a write that
\* did not get the mutex, a later one.
Follows(ts) == ts > now \/ (ts = now /\ now \in kept /\ NoneRepeated)

\* The first block is full again, and a start would still take it for the old one.
Overtaken == ~FirstLap /\ saved.block_num < IndexBlocks /\ durable # {}

\* The time stamp is any, for the clock can be set; TimeSync without a time makes it 0.
\* An index block takes 64 s to fill, and the one before is saved by then unless the
\* transfer fails.
StoreSecond ==
  /\ Sampling \/ left > 0
  /\ now' \in 0 .. Min({now + MaxGap, MaxSec})
  /\ Storage_Write_AdcData(now')
  /\ left' = IF Sampling THEN left ELSE left - 1
  /\ torn' = (torn \/ (~Sampling /\ item_index + 1 >= PerBlock))
  /\ late' = (late \/ (completed # durable /\ item_index + 1 >= PerBlock))
  /\ regular' = (regular /\ Follows(now') /\ ~(Overtaken /\ item_index + 1 >= PerBlock))
  /\ UNCHANGED <<saved, store, clearing, durable, mark, gone>>
----------------------------------------------------------------------------
(* Storage_Read_AdcData, as what it finds: the addresses it would read.    *)

\* The table in RAM is searched when the second lies between its first and its
\* last entry.  (With no entry the last one is taken from in front of the table,
\* where item_index itself is found, a 0.)
InTable(ts) ==
  item_index > 0 /\ item_tables[0].ts <= ts /\ ts <= item_tables[item_index - 1].ts

\* The blocks a search reads together, from block n on, and their last second.
Mut_ChunkEnd(n) == Min({n + Chunk, block_num})
ChunkEnd(n) == Min({n + Chunk, block_num}) - 1
ChunkLast(n) == index[ChunkEnd(n)][PerBlock - 1].ts

\* The chunks are tried in the order of the blocks; the first one that does not
\* end before the second is searched, and no other one.
Chunks == {n \in 0 .. block_num : n % Chunk = 0 /\ n < block_num}
Mut_Searched(ts) ==
  {n \in Chunks : ChunkLast(n) > ts /\ \A m \in Chunks : ChunkLast(m) > ts => n <= m}
Searched(ts) ==
  {n \in Chunks : ChunkLast(n) >= ts /\ \A m \in Chunks : ChunkLast(m) >= ts => n <= m}

\* The code reads from the first entry that has the time stamp; that one is here.
Found(ts) ==
  IF InTable(ts)
  THEN {item_tables[i].addr : i \in {j \in 0 .. item_index - 1 : item_tables[j].ts = ts}}
  ELSE UNION {{index[b][i].addr : i \in {j \in 0 .. PerBlock - 1 : index[b][j].ts = ts}} :
                b \in UNION {n .. ChunkEnd(n) : n \in Searched(ts)}}
----------------------------------------------------------------------------
(* Msg_send_task and msg_proc_task.                                        *)

\* The fields by page, in their order.  (The first half of str_time is on the page
\* before; what a start makes of two halves is not told apart.)
Page == <<{"flag"}, {"block_num", "curr_block"}, {"str_time", "end_time"}>>

PageWritten == [f \in DOMAIN image |-> IF f \in Page[page] THEN config[f] ELSE image[f]]

\* The configuration is in the store as it is now.
Whole == saved' = config /\ durable' = completed /\ late' = FALSE
         /\ gone' = IF Sampling THEN gone ELSE mark

\* A page at a time, from g_ConfigInfo as it is by then.  A transfer that fails ends
\* the save, before the page or with it, and nobody hears of it.
fm24c_write ==
  /\ \/ image' = PageWritten /\ page' = (page % Len(Page)) + 1
     \/ image' \in {image, PageWritten} /\ page' = 1
  /\ IF image' = config THEN Whole ELSE UNCHANGED <<saved, durable, late, gone>>
  /\ UNCHANGED <<object, emmc, config, clearing, left, now, known, kept, completed, mark,
                 torn, regular>>

\* Nothing is promised of the seconds stored before a clear or during it.
Forget == known' = {} /\ kept' = {} /\ completed' = {} /\ durable' = {}

\* What kt_ClearData leaves of the configuration.
Mut_Reset == [config EXCEPT !.curr_block = 0, !.str_time = 0, !.end_time = 0,
                            !.flag = "FIRST_ON"]
Reset == Cleared

\* kt_ClearData up to the erase of the NOR flash, which takes long: sampling
\* stops, the position in the configuration is reset.
ClearConfigFirst ==
  /\ ~clearing /\ clearing' = TRUE
  /\ config' = Reset
  /\ left' = IF Sampling THEN Residue ELSE left
  /\ Forget /\ mark' = now /\ torn' = FALSE
  /\ UNCHANGED <<object, emmc, saved, store, now, gone, late, regular>>

\* Storage_Clear_AdcData; the entries in item_tables stay, and the whole object
\* does when the mutex is not obtained.
ClearObject ==
  \/ /\ addr' = 0 /\ block_num' = 0 /\ curr_block' = 0 /\ str_time' = 0 /\ end_time' = 0
     /\ UNCHANGED <<item_index, item_tables>>
  \/ UNCHANGED object

ClearThenObject ==
  /\ clearing /\ clearing' = FALSE
  /\ ClearObject
  /\ Forget
  /\ UNCHANGED <<emmc, config, saved, store, left, now, clears, late, regular>>

kt_ClearConfig ==
  /\ ~clearing
  /\ config' = Erased
  /\ left' = IF Sampling THEN Residue ELSE left
  /\ mark' = now
  /\ UNCHANGED <<object, emmc, saved, store, clearing, now, history, gone, torn, late,
                 regular>>
----------------------------------------------------------------------------
(* Power fails, system_init and Adc_Object_Init.  A device that never was  *)
(* calibrated stores nothing: at FIRST_ON it is calibrated.                *)

BootConfig(c) == IF c.flag = "NONE" THEN Cleared ELSE [c EXCEPT !.flag = "NEXT_ON"]

\* A start from the configuration c: of the seconds stored it has those of the last
\* whole one.
StartFrom(c) ==
  /\ config' = BootConfig(c)
  /\ saved' = IF c.flag = "NONE" THEN Cleared ELSE saved
  /\ block_num' = config'.block_num /\ curr_block' = config'.curr_block
  /\ str_time' = config'.str_time /\ end_time' = config'.end_time
  /\ addr' = config'.curr_block * PerBlock
  /\ item_index' = 0 /\ item_tables' = Blank
  /\ clearing' = FALSE /\ left' = 0
  /\ IF c.flag = "NONE"
     THEN known' = {} /\ durable' = {}
     ELSE UNCHANGED <<known, durable>>
  /\ kept' = durable' /\ completed' = durable'
  /\ torn' = (torn \/ mark > gone) /\ late' = FALSE
  /\ UNCHANGED <<emmc, now, mark, gone>>

\* A transfer that fails leaves what is read from there on zero.
ReadPages(n) ==
  [f \in DOMAIN image |-> IF \E p \in 1..n : f \in Page[p] THEN image[f] ELSE Erased[f]]

\* Without a flag in it a configuration is replaced, in the store too.  (A write that
\* is cut short there leaves one without a flag, or this one.)
Boot ==
  \E n \in 0 .. Len(Page) :
    /\ StartFrom(ReadPages(n))
    /\ image' = IF ReadPages(n).flag = "NONE" THEN Cleared ELSE image
    /\ page' = 1
    /\ regular' = (regular /\ ReadPages(n) = saved)
----------------------------------------------------------------------------
Init ==
  /\ config = [Cleared EXCEPT !.flag = "NEXT_ON"] /\ saved = Cleared /\ image = Cleared /\ page = 1
  /\ addr = 0 /\ block_num = 0 /\ curr_block = 0 /\ str_time = 0 /\ end_time = 0
  /\ item_index = 0 /\ item_tables = Blank
  /\ data = [a \in Addrs |-> 0] /\ index = [b \in 0 .. 2 * IndexBlocks |-> Blank]
  /\ clearing = FALSE /\ left = 0 /\ now = 0
  /\ known = {} /\ kept = {} /\ completed = {} /\ durable = {}
  /\ mark = 0 /\ gone = 0 /\ torn = FALSE /\ late = FALSE /\ regular = TRUE

Next ==
  \/ StoreSecond \/ fm24c_write
  \/ ClearConfigFirst \/ ClearThenObject \/ kt_ClearConfig
  \/ Boot

Spec == Init /\ [][Next]_vars
----------------------------------------------------------------------------
\* Until the ring is full every second stored is found: in RAM, on the index
\* and over a loss of power, as far as the configuration was saved.
KeptFound == regular /\ FirstLap => \A ts \in kept : Found(ts) # {}

\* What is found for a second is that second, but for the block of seconds that
\* is overwritten at the moment, and for what was overwritten by a second that a
\* loss of power took away.
ReadsOwnSecond ==
  regular => \A ts \in known : \A a \in Found(ts) :
               data[a] = ts \/ a \div PerBlock = curr_block \/ data[a] \notin kept

\* The times reported to the host are those of the first and the last second in
\* full index blocks, until the ring is full.
TimesReported ==
  regular /\ Sampling /\ FirstLap /\ ~torn /\ completed # {} =>
    config.str_time = Min(completed) /\ config.end_time = Max(completed)

\* What a clear that was saved took away does not come back at the next start.
ClearedGone == regular /\ Sampling /\ ~torn => \A ts \in 1..gone : Found(ts) = {}

\* What can be read, and what a start would find of it in the index, in the first
\* lap and but for a clear that was cut short (and of the latter nothing once a
\* clear was made, until it is saved).
Held ==
  IF regular /\ Sampling /\ FirstLap /\ ~torn THEN {ts \in 1..now : Found(ts) # {}} ELSE {}
Safe ==
  IF regular /\ saved.flag # "NONE" /\ saved.block_num < IndexBlocks /\ ~torn /\ mark = gone
  THEN {ts \in 1..now : \E b \in 0 .. saved.block_num - 1 :
                          \E i \in 0 .. PerBlock - 1 : index[b][i].ts = ts}
  ELSE {}
Promise == INSTANCE Recording WITH held <- Held, safe <- Safe, MaxLoss <- 2 * PerBlock - 1

\* Until the ring is full, the clock is set back or a start finds half a configuration,
\* the recording is the one a host may rely on: every second stored can be read and no
\* other one, each save makes a prefix of the recording safe, a loss of power takes
\* what was stored since, less than two blocks unless a save failed, and never a second
\* in front of one that is left, and a clear takes everything.
ImplementsRecording == Promise!Spec

\* The number of index blocks is at most the one the index has room for:
\* storage_manage.h:26, "索引需要总块数：480000 / 64 = 7500".
BlocksInIndex == block_num <= IndexBlocks

\* A bound for TLC: states of which nothing is claimed are not followed, and of a
\* second clear or a late one little is.
Bounded == regular /\ (gone > 0 => mark = gone) /\ mark + now <= MaxSec + 1
=============================================================================
