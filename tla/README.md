# Formal models of the LSC100 recorder

The LSC100 is a recorder of bus currents and voltages: a GD32F470 with FreeRTOS
and LwIP that samples four channels a thousand times a second, keeps the samples
of days on an eMMC, detects over-current alarms, drives a relay, keeps three
seconds of samples for each alarm in a NOR flash, and answers a host over TCP.
This directory holds TLA+ modules of its own logic (`src/app`, `src/NET/BSP`),
the configurations TLC checks them with, and proofs for TLAPS. The vendored parts
(FreeRTOS, LwIP, the GD32F4xx library, RTT) are not modelled; what the program
needs of them is in the modules that use them.

## 1. The system

### Tasks

| task | priority | source | what it does |
|---|---|---|---|
| `sample_task` | 4 | `adc_sample.c` | woken by TIMER0 every ms: reads the ADC, stamps the sample, clears and detects alarms, caches the sample; calibrates when not armed |
| `time_sync_task` | 3 | `adc_sample.c` | every second: reads the RTC, asks for one more second of an alarm's record |
| `alarm_task` | 3 | `storage_manage.c` | drains `alarm_queue`: relay, alarm message, copies of seconds |
| `storage_task` | 2 | `storage_manage.c` | every 30 ms: 100 samples from the cache, a second to the eMMC when it is whole |
| `msg_proc_task` | 1 | `msg_parse.c` | takes requests from the message queue and answers them |
| `msg_send_task` | 1 | `msg_parse.c` | every second: one internal request to the message queue, saves the configuration |
| `tcp_server_task` | 1 | `tcp_server.c` | accepts one client at a time, puts what it receives into the message queue |

### Components, their state and what makes them correct

**Alarm path** (`adc_sample.c`, `storage_manage.c`). State: `g_AlarmNotify`
(`type`, `num`, `alarm_sta`, `save_sta`, `index`, `alarm_ts`, a queue of five
messages, a binary semaphore, a mutex), the relay, the record being written
(`g_AlarmObject.index_item`). Operations: `Adc_Check_Alarm`, `Adc_Clear_Alarm`
(sample_task), `Adc_Save_Alarm` (time_sync_task), the message loop of `alarm_task`.
Three tasks meet here and not all accesses are under the mutex: `time_sync_task`
tests before it locks, `alarm_task` increments `index` and reads `alarm_ts`
without it. Correct means: a raised alarm is signalled, and its record consists of
the second before, the second itself and the next one, each once, in order and
indexed.

**Sample cache** (`adc_sample.c`). `g_AdcItemCache`: 600 samples, two indices, a
count, a mutex waited for 10 ms. Correct means: a bounded queue.

**storage_task** (`storage_manage.c`). `g_adc_items` (1100 samples) and a static
`index`. The end of a second is recognised by the time stamp 999 only. Correct
means: what is stored as a second is that second.

**eMMC ring** (`storage_manage.c`). `g_AdcObject`: next address, next index block,
number of blocks, times of the first and last second, the table of the 64 seconds
not yet indexed; 480000 seconds of data and 7500 blocks of index in a ring. A copy
of the position is in `g_ConfigInfo`, which reaches the FM24C02 up to a second
later. Correct means: a stored second is found again with its own data, over a
restart too, the reported times are true, a clear is a clear.

**Alarm slots** (`storage_manage.c`). `g_AlarmObject`: three addresses and the
number of records in the NOR flash, 640 at most, recomputed from the saved number
at a restart. Correct means: a complete record is never programmed over.

**Configuration and life cycle** (`msg_parse.c`, `fm24cxx.c`). `g_ConfigInfo` in
RAM, changed by the sampler (calibration), the storage and the message handlers;
`g_config_status` asks for a save. `flag` is erased, FIRST_ON or NEXT_ON, and
together with `cal_flag` it decides whether the device is armed. Correct means:
what is saved is what was set, and a restart continues from a state that was.

**Requests** (`msg_parse.c`, `utils.c`). A queue of 62 messages fed by
`tcp_server_task` and `msg_send_task`; a ring of 61 internal requests that
`kt_SampleData` fills with one per second asked for. Correct means: every second
asked for is answered once and in order, or nothing is.

**TCP session** (`tcp_server.c`, `socket_adapter.c`). `conn_handle`, shared by
`tcp_server_task` and by `msg_proc_task`, which sends. Correct means: an answer
goes to the client that asked.

**Conversions** (`utils.c`, `msg_parse.c`). Dates, BCD, check sum, day of the week.

### Interactions

    TIMER0 -> sample_task -> sample cache -> storage_task -> eMMC ring
                  |                                             |  ^
                  v                                             v  | position
            g_AlarmNotify <- time_sync_task             alarm_task |
                  |  queue, semaphore                      |       |
                  +------------> alarm_task -> relay, NOR  |  g_ConfigInfo
                                                                   |
    client -> tcp_server_task -> message queue -> msg_proc_task ---+
                                      ^               |            v
                                 msg_send_task <- request ring   FM24C02
                                       (saves g_ConfigInfo once a second)

### What is hard here

Tasks of different priority share `g_AlarmNotify` with and without its mutex;
every wait for a mutex can time out and nearly every result is ignored; a loss of
power can come between the data, the index, the position in RAM and its copy in
the FM24C02; rings wrap (cache, buffer, data, index, alarms, requests) each with a
rule of its own; a handle is shared by two tasks without any lock; the RTC can be
set. The 40 places are listed under `hazards` in
`PROJECT.json`, each with the properties that watch it or the reason why none does.

## 2. Modules

| module | models | composed with |
|---|---|---|
| `AlarmNotify` | alarm path | stands alone; eMMC and RTC are nondeterministic |
| `MCAlarmNotify` | bounds, view and symmetry for TLC | extends `AlarmNotify` |
| `AlarmNotify_proofs` | theorems | extends `AlarmNotify` |
| `SampleFifo` | what the cache promises (abstract) | |
| `AdcCache` | the cache | implements `SampleFifo` |
| `AdcCache_proofs` | theorems | extends `AdcCache` |
| `StorageTask` | sampler's idle rule, cache, storage_task | uses `SampleFifo` as the cache |
| `StorageTask_proofs` | theorems | extends `StorageTask` |
| `Recording` | what the ring of seconds promises a host (abstract) | |
| `AdcStorage` | eMMC ring, index, position in the configuration, clears, restarts | implements `Recording` |
| `AdcStorage_proofs` | theorems | extends `AdcStorage` |
| `AlarmStorage` | the alarm records in the NOR flash, clears, restarts | requests may come late, as `AlarmNotify` lets them |
| `ConfigStore` | configuration, its copy in the FM24C02, calibration, arming | |
| `ConfigStore_proofs` | theorems | extends `ConfigStore` |
| `CirQue` | the ring of internal requests | extended by `Requests` |
| `Delivery` | what the request pipeline promises (abstract) | |
| `Requests` | message queue, ring, the three tasks on them | composes `CirQue`, implements `Delivery` |
| `Requests_proofs` | theorems, also about the dates by which the host names seconds | extends `Requests` and `DateTime` |
| `TcpSession` | `conn_handle`, LwIP's sockets and connections, clients | message queue as a count |
| `TcpSession_proofs` | theorems | extends `TcpSession` |
| `AlarmStorage_proofs` | theorems | extends `AlarmStorage` |
| `DateTime` | the conversions, against the calendar of the clock | |

### AlarmNotify

The variables have the names of the fields of `AlarmNotify_t`; `sec` is the
second of the sample at hand (`item.ts / 1000`), `rtc` is `rtc_base_sec`, `armed`
the test of `cal_flag` and `flag` at the head of `sample_task`, and `ts_pc`, `al_pc`
are the places where `time_sync_task` and `alarm_task` can be interrupted.

A call `sample_task` makes is one step: it has the highest priority and waits only for the
mutex, so its actions are disabled while `time_sync_task` is inside `Adc_Save_Alarm`
(`ts_pc` "send" or "give", `Unlocked`). `time_sync_task` and `alarm_task` have equal
priority and are time sliced: the unlocked test (`TimeSync`), the locked test (`SaveEnd`,
`SaveAsk`), the message (`SaveSend`, with the index read once or twice, as the compiler
likes), the semaphore given for it (`SaveGive`), the load and the store of `index`
(`IndexLoad`, `IndexStore`), the arguments (`InfoArgs`) and the write (`WriteAlarmInfo`) are
steps of their own. The RTC is any second when `ClockJumps` (set by the host, or a failed
read), else it advances by one. A second is found in the eMMC or not, a mutex is obtained in
time or not. When the time stamp is rebased without the TimeSync mutex it becomes 0.

Several things the code does make a complete record impossible: an alarm raised
while the messages of the one before are not yet handled, a time sync that comes
while the second asked for last is still being copied, a mutex that is not obtained
in 50 ms, a clear of the flash. The history variable `calm` says that none of this
happened to the alarm raised last; properties about records claim the calm ones,
and everything else runs through all the disturbed ones too.

### SampleFifo, AdcCache

`AdcCache` has the fields of `AdcItemCache_t` and the seven operations; each is
one step under the mutex, a time-out does nothing. `contents` reads the ring from
the oldest sample on and is the refinement mapping to `SampleFifo`, whose `Put`
takes as much of a batch as fits. The program itself uses `Write_One`, `Read_Batch`
and the count; the other operations are modelled and proved with them.

### StorageTask

A sample is the number of its tick. `SkipSample` is the idle rule of `sample_task`
or a time-out of the cache, `CacheSample` is `SampleFifo`'s `Put`, refused when
full. `storage_task` is one round that finds enough samples: the copy behind `index`
(over the end of the array if it comes to that: `buf` is a batch longer than
`g_adc_items`, and what lies there may be changed by others), the search for a
sample with time stamp 999, the write, the move of the rest.
`AlmostWhole` speaks of seconds whose predecessor has its last sample behind the first batch
of the buffer. In the first batch that sample can lie only after `index` has wrapped, and
what is stored after that may be anything.

### Recording, AdcStorage

An address counts seconds (125 eMMC blocks), a second is its time stamp.
`index_addr` is left out, being `curr_block` behind the start of the index after
every operation. `Storage_Write_AdcData` and `FlushTable` are its body, `Found(ts)` is
what `Storage_Read_AdcData` would read. `kt_ClearData` is two steps, before and
after the erase of the NOR flash, which takes long; `Residue` seconds that sit in
the cache and the buffer may still be stored after sampling stopped. `fm24c_write` is
the save of `msg_send_task`, one page at a time and from the memory as it is by then: flag,
numbers of blocks and times are on three different pages. A transfer may fail at every page,
before or after it is written, and ends the save. `Boot` is a loss of power, between any two
of these steps, `system_init`, which may read a first part of the pages only, and
`Adc_Object_Init`. `ConfigStore` has the status that asks for a save; here a save may begin
at any time.

`StoreSecond` takes any second as the next one up to `now + MaxGap`: the next, a later
one (an idle time, a write that did not get the mutex), the same one again (the time stamp
is what the RTC shows at the first sample, and a late `sample_task` takes one sample for
several ticks, so that the two drift apart), an earlier one (the host has set the clock) or
0 (`TimeSync_Get_Absolute_Time` did not get its mutex).

History: `known` are the seconds stored since the last clear, `kept` those no loss of
power took, `completed` and `durable` those in full index blocks and in the last whole
configuration in the FM24C02 (`saved`), `gone` the last second before a saved clear, `torn` a
clear that a completed block or a loss of power cut short. `late` says that a block was
completed while the one before it was not yet saved, for which a save has to fail or to be a
minute late. `regular` says that none of three things has happened: a second that does not
follow the one before (`Follows`, which also bounds repetitions to one in the data held); a
start from a configuration that is not a whole one or was not read whole; a block completed
while a start would still take the full ring for one in its first lap (`Overtaken`). The code
cannot cope with the first two. Its searches go by ranges of time stamps, and a
clock that is set back hides seconds from them that are there; a save that is cut short
leaves new numbers of blocks with old times, and nothing detects it. So the properties of this
module, but for `AddrAgrees`, are claimed while `regular`, and everything else is in the
model.

`Recording` says what is left of all this for a host until the ring is full: a set of
seconds that grows in the order of the clock, of which a save makes a first part safe, a
loss of power takes the rest, `MaxLoss` at most unless the saving is `late`, and a clear takes
all. `Held` and `Safe` map the ring to it. A device that does not sample, a ring that has been
full, and one that is not `regular` any more, hold nothing in the eyes of the promise: what
the first two still give is the matter of `ReadsOwnSecond` and `ClearedGone`.

### AlarmStorage

Addresses count messages, seconds and index entries; a cell of the flash holds what was
programmed once, `Erased`, or `Damaged` after two different values. `Raise` and `SaveEnd`
are what `AlarmNotify` does to `index` and `STR_SAVE`; a request is due, or late by a bound.
The operations are those of `AlarmObject_t`, each with its mutex time-out. Several
behaviours of the code are in the model because nothing prevents them: a message behind the
last slot lands in the first second of the next region; from the 640th record on every
further one starts at the front, over cells that are not erased; at a restart the addresses
are computed from the saved number of complete records, whatever was begun; an alarm's time
stamp, by which alone it is looked up, is a second of the RTC and comes again when the clock
is set back (`Raise`); and `info_addr` has no end, so that seconds of retries and late
requests, 111 of them beyond a full flash, get to the index region and cover all of it
(`Gap`, `IndexAt`, `Covered`: a second has 64000 bytes, the index 10240). The model does not
follow the addresses further: the end of the flash is some 65 seconds behind the start of
the index, and messages get to the index behind four million of them.

History: `done` are the finished records; `sound` says that power was lost between saved
records only, no message was written behind its region and no second over the index;
`straight` that since the erase no record was left unfinished and none was
given more seconds than its own. The latter matters when the flash is full: the seconds a
record gets too many, from requests of one that timed out, run into the second record then.
`mark` is the last alarm before a clear, `torn` a clear that came while a record was under
way, whose erase did not get the mutex, or that a loss of power cut short. `rising` says that
every alarm so far had a later time stamp than the one before. Of two alarms with one stamp
`Storage_Read_AlarmInfo` always finds the first, so the properties about records are claimed
while `rising`; `TypeOK`, that the count saturates and places the entries, always.

### ConfigStore

A field stands for the fields of `ConfigInfo_t` that are set alike, with its page.
`SetLimit`, the clears and the calibration change the memory; `ProcMark` is the
`g_config_status = 1` at the end of a handler. `SaveBegin` clears the status and
`fm24c_write` writes one page at a time, with changes in between; a failed transfer ends
the save, and nobody looks. `system_init` reads any number of pages and takes the
rest as zero, or writes the defaults when the flag is unknown. The key interrupts latch
their key at any stage, as the code does; the operator changes the input with the key of the
stage only. A sample is the input it
was taken from, a mean is right when all its samples are of one input. History:
`failed`, `mixed` and `torn` say whether the store holds one configuration, `upset` that key 2
was pressed before the offset was measured, or that a clear fell into a calibration or found a
key latched.

### CirQue, Delivery, Requests

`CirQue` has the fields and the operations of `ThreadSafeCirQue`; `contents` reads the ring
from the front on. `Requests` has the three tasks: `tcp_server_task` receives requests for
seconds and others, `msg_proc_task` puts the seconds of a request into the ring one by one
and answers internal ones and others, `msg_send_task` takes one a second and tries four
times to pass it on. An answer has a step of its own (`Answered`, `OtherAnswered`): the
return of its last `send`, which may never come when the host does not read; meanwhile
`msg_proc_task` does nothing else. A second is the number of its internal request, so that
order and repetition can be told. `Delivery` is the promise about the set of seconds that
wait: the least is answered next, none twice, any of them possibly lost; the refinement maps
it to the second in work, those in the message queue, the one `msg_send_task` holds and
those in the ring. The seconds `kt_SampleData` has still to put there are not in the set
yet: they join it one by one, or never if the ring is full.

### TcpSession

The steps of `tcp_server_task` are the assignments to `conn_handle` and the calls of
LwIP in their order; those of `msg_proc_task` are the three tests of the handle, the load of
the descriptor, the send and its end. Below are LwIP's sockets (`sock`: whose
connection each is), the listening connection's mailbox (`box`) and its fixed number of
connections. LwIP is modelled as far as the program depends on it: `accept` fails without a
connection or socket or when the client has reset; `send` blocks; `closesocket` is refused
while a send blocks (`Leftover`). No receive time-out is in force: `socket_set_timeout`
passes two bytes where LwIP wants a `struct timeval`, and the option is refused. Clients
connect, ask, end in order, vanish and reset at any time. History: `cur` is the
client of the session until its handle is zeroed, `seen` what it was at the last test.

### DateTime

The conversions are functions on the fields; the calendar of the RTC is a state machine
that goes through every day from 2000 to 2099 by the rules of the calendar alone.
A timestamp is a pair of days and seconds, because TLC's integers have 32 bits with a
sign and the code's have none. The loops of `timestamp_to_datetime` are recursive functions
on what is left to divide, `[y, days]` and then `[m, days]`. The definitions of the calendar
have names of their own, so that `Requests_proofs` can extend both modules.

## 3. Runs

| run | configuration | properties | what it shows |
|---|---|---|---|
| `alarm_safety` | two alarm types, debounce 2, records of 2 seconds, queue of 2, 2 alarms, clock in 0..4 that jumps | `TypeOK`, `NumBounded`, `NoLostWakeup`, `RecordsComplete`, `NoAlarmLost`, `AsksNextSecond`, `RaisedMeansRelay` | the alarm path's safety |
| `alarm_live` | one type, debounce 1, records of 2 seconds, queue of 1, one alarm, clock in 0..6 that runs | `AsksPastSeconds`, `SaveEnds` | seconds are asked for when over; records are closed |
| `adc_cache` | ring of 4, three samples, batches of 2 and 3 | `RingOK`, `ImplementsFifo` | the cache is a queue |
| `storage_task` | seconds of 6 samples, batches of 3, slack of 3, cache of 4, 3 seconds | `SecondsWhole`, `InBuffer`, `AlmostWhole`, `InOrder` | seconds are whole, or damaged in a bounded way |
| `adc_storage` | tables of 2, 3 index blocks, searches of 2 blocks, time stamps to 7, one of them repeated | `KeptFound`, `ReadsOwnSecond`, `TimesReported`, `ClearedGone`, `ImplementsRecording` | the recording over wraps, clears, restarts and saves that fail or are cut short; what a loss of power costs |
| `adc_blocks` | the same, time stamps to 9 | `BlocksInIndex` | **violated**: see below |
| `alarm_storage` | 2 slots, records of 2 seconds, the index right behind them, time stamps to 4, one late request | `TypeOK`, `RecordsIntact`, `AlarmsListed`, `OwnSeconds`, `ClearedGone` | what a record is worth after restarts, clears and a full flash |
| `config_store` | calibrations of 2 samples, 2 starts, failed transfers and clears, keys at any time | `TypeOK`, `SavedAgrees`, `Calibrated`, `ChangeReachesStore` | what is set is saved; who samples is calibrated |
| `requests` | ring of 4, message queue of 3, requests cut to 2 seconds, 2 tries, 3 requests | `RingOK`, `RoomForOne`, `RingIsQueue`, `ImplementsDelivery`, `Drains` | seconds are answered in order and once, and none waits for ever if sends return |
| `tcp_session` | 2 clients, 3 connections, message queue of 1 | `TypeOK`, `SocketsAccounted`, `AnswersKeepToSession`, `WaitingServed` | sockets are not lost, answers keep to their session, clients are served |
| `tcp_close` | the same | `CloseReleases` | **violated**: see below |
| `date_time` | every day of a century, 5 times of day | `TimesAgree`, `WeekdayRight` | the conversions agree with the calendar and with each other |

**Bounds.** `alarm_safety`: two alarms are the fewest in which one overlaps the record of
the other; records of two seconds have a first and a last one; a queue of two is filled by a
raise and a request; the clock has two seconds before and two after the last alarm. States
in which the last alarm possible is disturbed are not explored further (`Bounded`): the
claims about records are void there. The view `Live` drops values nobody reads any more.
`alarm_live` needs a clock longer than two seconds per record and one retry. `adc_cache`: a
batch of 3 in a ring of 4 wraps at every place; the proofs cover every size. `storage_task`:
three seconds of two batches: one that goes wrong, one that takes over its rest, one after
it; `MaxTick` is the tick from which the signals stay idle, so the system never stops.
`adc_storage`: 7 seconds, of which one may be stored twice, fill the ring of 6 and overwrite
an index block; 3 blocks with searches of 2 give a full and a short group. Time stamps leave
no gap (`MaxGap = 1`): the code compares those stored with one another and with the one
asked for, and a gap changes no such comparison; the theorems have any gap. `Bounded` leaves
the states that are not `regular`, of which nothing is claimed (`AddrAgrees`, which is, is a
theorem), and of the clears those that come late or twice. `alarm_storage`: two slots are
filled and overrun by four alarms; `Gap = 0` puts the index as close as it gets, so that
records reach it within the bounds. `Bounded` leaves the states behind a stamp that does not
rise, and those in which both `sound` and the clears are void: only `TypeOK` and
`OwnSeconds` claim anything there, and they are theorems. `config_store`: five pages and a
change after each; two events are a failed save and a start from it. A calibration that was
upset is followed while nothing else is wrong (`Bounded`). `requests`: the ring of 4 holds
3, a request and a half, so that the second is refused in part; the message queue is filled
by one request of each kind. `tcp_session`: with three connections, the listening one
included, one left over still leaves the session one and the next client none. `date_time`
has no bound but the times of day, the ends of a minute and of a day among them.

**Fairness.** Every task of higher priority blocks for most of each millisecond, and tasks
of one priority are time sliced, so a task with something to do gets to it: weak
fairness of each task that a liveness property relies on.

- `alarm_live`: `alarm_task` and `time_sync_task`. The RTC advances again and again, and a
  mutex that is tried again and again is obtained again (`SaveEnd`, `SaveAsk`). Nothing is
  assumed of the storage: a second that was never stored (all signals idle, cache full, mutex
  time-out) is never found. Then the record stays open and no alarm is detected any more until
  a restart. `SaveEnds` says that this is the only way it can stay open: either every record
  that is opened is closed, or from some time on `alarm_task` looks for a second again and
  again (`ReadMissing`) and never finds one.
- `config_store`: `msg_send_task`, which wakes once a second, and the end of a handler.
- `requests`: `msg_proc_task` as far as it does not wait in `send` (`Runs`), and
  `msg_send_task`. The host may flood the queue for ever. That it reads is not assumed of the
  system but is the premise of `Drains` (`SendReturns`): no send time-out is in force, and a
  live host that stops reading keeps `msg_proc_task` in `send` for ever.
- `tcp_session`: `tcp_server_task`, and keep-alive and retransmissions, which give up a
  dead connection. That no client stays connected for ever is the premise of
  `WaitingServed`; the code serves one client at a time and has no time-out in force.

**Findings.** `BlocksInIndex`: `Storage_Write_AdcData` sets `block_num` to 7500 at the
end of a lap and increments it with every block of the next one
(`storage_manage.c:99`, `:104`), though `storage_manage.h:26` computes the index to
need 7500 blocks. From then on `Storage_Read_AdcData` searches behind the index.

`CloseReleases`: `socket_adapter.c:189` says that `socket_close` closes the socket and
releases its resources. When a client ends its side while `msg_proc_task` is blocked in
`send`, LwIP refuses to close (`api_msg.c:1140`), the result is not looked at, and the
descriptor is overwritten: a socket and one of four connections are gone until a restart.

**Met while modelling, and visible in the models as exemptions of a property:**

- *Alarm path*: an alarm cleared before `alarm_task` reads its message leaves the relay
  short-circuited; a second that was never stored keeps its record open, and detection off, until
  a restart.
- *eMMC ring*: a clock set back hides seconds that are stored from the search by ranges
  (`storage_manage.c:142`, `:162`); a save cut short leaves new numbers of blocks with old
  times (`msg_parse.c:844`), and nothing detects it; a block completed during `kt_ClearData`
  brings the cleared recording back after a restart (`torn`); from the second lap on the end
  time is wrong for a block.
- *storage_task*: after missed samples a batch may be copied over the end of `g_adc_items`, and
  a second may lose one sample to the move that starts one too early.
- *Alarm slots*: an unfinished record uses up a message slot, so that a later message runs
  into the seconds; a restart after an unfinished or unsaved record puts the next
  one over complete ones; a full flash is overwritten from the front without an erase; of two
  alarms with one time stamp the host gets the seconds of the first for both
  (`storage_manage.c:383`); enough seconds too many run over the index (`:319`); a
  clear whose erase did not get the mutex leaves everything in place with number 0.
- *Configuration*: a failed read at start counts as an erased device, and the defaults are
  written; `cal_bias_zero` sets no status and may fall between two pages; a clear during a
  calibration leaves its keys and sums; key 2 pressed before or during the first stage stays
  latched (`adc_sample.c:410`), and the gain is then taken right after the offset, without
  input.
- *Requests and session*: seconds of a client that has left are answered to the next one; a
  message on its way when the session ends may reach the listening socket or the next
  client; 128 bytes received at once end the session; of several requests received at once
  only the first is looked at; a host that stays connected and stops reading keeps
  `msg_proc_task` in `send` for ever.
- *Conversions*: day 31 is accepted for every month; the weekday of dates before March 2020
  can be one that does not exist.

## 4. Proofs

TLAPS proves for every value of the constants:

| theorem | statement |
|---|---|
| `AlarmNotify_proofs!TypeCorrect` ... `RelayFollows` | `Spec => []P` for the seven properties of `alarm_safety` |
| `AlarmNotify_proofs!SecondsAreOver` | `Spec => []AsksPastSeconds` |
| `AdcCache_proofs!RingCorrect` | `Spec => []RingOK` |
| `AdcCache_proofs!RingImplementsFifo` | `Spec => ImplementsFifo`, that is `Fifo!Spec` |
| `AdcStorage_proofs!SecondsOwn`, `KeptAreFound`, `TimesAreTrue`, `ClearedIsGone` | `Spec => []P` for `ReadsOwnSecond`, `KeptFound`, `TimesReported`, `ClearedGone` |
| `AdcStorage_proofs!AddressesAgree` | `Spec => []AddrAgrees`: the address is what number of blocks and table say, whatever the clock, the saves and the reads do; the other proofs rest on it |
| `AdcStorage_proofs!RecordingImplemented` | `Spec => ImplementsRecording`, that is `Promise!Spec` |
| `StorageTask_proofs!SecondsAreWhole`, `BatchesStayInside`, `SecondsInOrder`, `SecondsAlmostWhole` | `Spec => []P` for `SecondsWhole`, `InBuffer`, `InOrder`, `AlmostWhole` |
| `AlarmStorage_proofs!CountSaturates`, `NoSecondsOfOthers`, `RecordsStayIntact`, `AlarmsAreListed`, `ClearedIsGone` | `Spec => []P` for `TypeOK`, `OwnSeconds`, `RecordsIntact`, `AlarmsListed`, `ClearedGone` |
| `ConfigStore_proofs!TypesKept`, `SavedAgreesAlways`, `CalibratedAlways` | `Spec => []TypeOK`, `Spec => []SavedAgrees`, `Spec => []Calibrated` |
| `Requests_proofs!RingCorrect`, `RingKeepsOrder`, `RequestsFit` | `Spec => []RingOK`, `Spec => RingIsQueue`, `Spec => []RoomForOne` |
| `Requests_proofs!DeliveryImplemented` | `Spec => ImplementsDelivery`, that is `Promise!Spec` |
| `Requests_proofs!TimesAgreed`, `WeekdaysRight` | `Calendar => []TimesAgree`, `Calendar => []WeekdayRight` |
| `TcpSession_proofs!TypesKept`, `SocketsNeverLost`, `AnswersKept` | `Spec => []TypeOK`, `Spec => []SocketsAccounted`, `Spec => AnswersKeepToSession` |

*Assumptions*: the named `ASSUME`s of the modules and nothing else. `AlarmAssumption`
bounds the seconds of a record by 200, because `index` is a byte. `StorageAssumption` and
`RoomForBatch` are the shape of `g_adc_items`: a second is a number of whole batches, and a
batch fits behind it. `AdcStorageAssumption` asks for index blocks of two seconds at least
(64 in the code) and for no more seconds under way after a clear than fill one (fewer than
two in the code). Both are needed: TLC finds `KeptFound` violated with blocks of one second,
of which the clock repeats one, and `ReadsOwnSecond` violated with four seconds under
way and blocks of two, stored behind an address that a clear reset.

*AlarmNotify.* The properties about records are not inductive. `IInv` adds: where the
alarm last raised is (in the queue, at `alarm_task`, or written as `item_ts`; `InvFresh`,
`InvRecord`), that at most one request is under way while the record is calm and that it
asks for `alarm_ts + index` (`InvSync`, `InvQueue`), that `index` counts the seconds in
`info`, one more while `alarm_task` stands between the increment and the write
(`InvIndex`), what `num` is while an alarm is latched (`InvNum`), and where the relay is
while the alarm is not cleared (`InvRelay`). Each conjunct is preserved by every
action; the theorem follows by PTL. `IInv` was checked on the instance of
`alarm_safety` first. `NeverAsleep` is about the order of two calls: `time_sync_task` sends, then
gives, and in between (`ts_pc = "give"`) the message may lie there without the semaphore,
or be taken already; were the semaphore given first, `alarm_task` could find the queue
empty, go back to sleep, and leave the message until the next give.

*AdcCache.* `RingOK` is inductive: `wr_idx` is `rd_idx` moved on by `count`. The
refinement maps each operation to its abstract one; the lemmas say how `contents`
changes when the write index moves on and when the read index does, with the two
pieces of a batch put together by `Advance`.

*AdcStorage.* `AddrAgrees` alone says nothing about restarts. The invariant adds the ranges
of `item_index` and of the current block in the object, in the configuration and in the
saved copy, and that no clear is under way while the device samples, and that whatever is in
the FM24C02, half a save or a part of it read, has a current block of the ring; the step
that matters is the one that wraps address and index together. The other claims are of the
form `regular => P`. `Steady` is the step of a state that stays regular, in which a start
takes the last whole configuration (`state` leaves out the image and the page),
`RegularStep` shows that every step to a regular state is one, and `StaysIrregular` that a
state never gets regular again; so each invariant is shown over `Steady` and holds as
`regular => Inv`. The other four properties rest on `Base`: the ranges, and the chain
`durable`, `completed`, `kept`, `known` of ever more seconds. `InvMode` is about clears. One
may reset the address with a table begun, and then either nothing is in a full block, or the
seconds still under way are too few to fill another. `InvOwn` says that an entry of the
index lies in the block it is an entry of and has its second there, unless that block is
being written or a second stored later was lost with the power; it says so for the position
in RAM and for the one a start would take from the saved copy, and therefore needs how far
the second is behind the first (`InvUnsaved`) and where the copies of a repeated second are
(`InvRepeat`). `KeptFound` follows from `InvFound`: in the first lap a second is in the
table in RAM, with every block ending earlier, or in a block with those before it ending no
later and those behind it no earlier; so the least chunk that does not end before it holds
it (`SearchFinds`). `InvGone` says that what the index and the table hold is later than the
last saved clear, also in the blocks a start would take over, and `InvTimes` that the times
are the first and the last of the seconds in full blocks, in RAM and in the saved copy.

`RecordingImplemented` needs where a loss of power cuts (`InvPromise`): a second in a block that was
completed and not saved, or in the table, is later than every second the saved position
covers, so that what a save makes safe is a first part of the recording. The seconds in
the table, and those of the one block that can be complete and not yet saved, are the
difference; a table holds one less than a block when the sampler is between two
seconds, hence `2 * PerBlock - 1` (127 seconds on the device), a bound that is reached. It
holds while the saving is not `late`; after a save that failed more than one block may be
unsaved, and the promise then takes the bound up again with the next whole save or start.
A second stored twice is a stutter of the promise, a restart is `PowerFails`, whatever the
place of `kt_ClearData` it comes in. That each second held can be read is
`KeptFound` (`FoundWhenKept`), and that it is itself `ReadsOwnSecond`.

*StorageTask.* No variable shows the alignment that makes seconds whole. The invariant
says, while nothing was missed, that the cache holds consecutive samples up to the last
tick, that the buffer holds the beginning of a second, a number of whole batches long,
and that the cache goes on with its next sample. A second ends with a batch because its
length is a multiple of one (`NextBatch`); `DivMod` gives second and place of a sample.
Once samples were left out nothing is aligned, `index` wraps and the buffer holds pieces of
several seconds. What remains is order: the marks (samples with time stamp 999) up to
`index` rise, what is behind them is older than the cache (`InvQueue`), and a second
stored has been passed by everything that may still become a mark (`InvPassed`), so
that none is stored twice or out of order. `AlmostWhole` adds what lies between the mark of
a second and that of the next one: after a mark behind the first batch, the move leaves that
mark, or what follows it, and then every cached sample of the next second (`InvFollows`).

*ConfigStore.* During a save the memory and the pages in front of the current one agree
(`Agree`), unless the status or a handler's duty to set it is pending, but for the
first half of a calibration; each page that is written extends the agreement by one.
`Calibrated` needs three more parts: key 2 is latched behind the first stage only unless the
calibration is upset, and the samples summed up are of the input of the stage whose key is
latched (`InvKeys`, `Summing`), what a stage says of offset and gain
(`Good`), and that an undisturbed save copies them exactly (`InvSame`).

*Requests.* `RingOK` and the type of what is queued are inductive; appending and taking off
are shown over the wrap of the indices. `RequestsFit`: the seconds still to be put, together
with those held, fit the ring unless it was crowded when the request came.
A second goes through five places from the request to the answer; `DeliveryImplemented`
rests on `InvLine`: whatever has come further is less than whatever has not, and
`InvAsked`: a request still queued has later seconds than all of them. Every step then
either moves a second on (no step of `Delivery`), drops it, answers the least of them or adds
one greater than all.

*DateTime.* What the loops compute is said without them: the days before a year by the leap
years among those before it (`YearsBefore`), the days before a month by a table
(`MonthsBefore`), and the year a day falls in as the one whose first day is not later
and whose last not earlier (`YearDay`, `YearReached`; `MonthDay`, `MonthFound`). Each is a
function that satisfies the recursive definition, hence there is one, and the function
defined has these values because a least argument with another would not be the
least. `CalendarInv`: the calendar's days and weekday are those of its date, which each of its
steps keeps, by the rule of leap years on its own side (`LastDays`). Then each loop
of a conversion stops at the year and the month shown, BCD and the seconds of a day
come back, and Zeller's sum differs from the days since 1970 by whole weeks (`MonthDrift`).

*TcpSession.* A descriptor means something only together with the place at which
`tcp_server_task` is (`InvHandle`): the session's socket from accept to `closesocket`, a
stale one or none after it, 0 without a session. Every socket but the listening one is free, left
over or the session's (`InvSockets`), and what `msg_proc_task` has seen is the session
that still lasts, its descriptor never 0 (`InvSeen`).

*AlarmStorage.* `CountSaturates` needs the counts alone (`InvCounts`, `CountsStep`) and
holds for any time stamps. Everything else is `rising => Inv`: stamps that have failed to
rise once stay so (`RisingBefore`), and while they rise there is one message and one record
for each (`NextStamp`). A cell keeps its second or is damaged until an erase (`StillHolds`),
so it is enough that a finished record has its seconds behind the address its entry names,
and that no two entries of one alarm differ: an entry is written from the time stamp and
address noted with the message, and there is one message for each alarm (`InvEntries`,
`InvItem`). A second over the index damages every entry, and a damaged entry is none of an
alarm (`SoundSecond`, `Uncovered` for a state that is still `sound`). That no cell is
written behind those the model has (`MsgEnd`, `InfoEnd`: as far as the alarms and late
requests of the bounds reach) follows from counting the seconds still to come (`InvAddr`);
the theorems hold for any bounds. The run follows a state no further once both kinds of loss
have happened (`Bounded`), the theorems do. That the seconds are not damaged either is about
the addresses. While the flash is not full and `sound`, everything behind the three
addresses is erased (`InvFresh`), the record under way has the seconds counted for it
(`InvUnder`), and finished ones keep theirs (`InvKept`), which gives `RecordsIntact` without
`straight`. With `straight`, record `i` is in slot `i` (`InvPlace`, `InvSlots`), which is
where a start looks for it and what keeps a full flash, whose address is 0 again, away from
all but the first (`InvFull`). `AlarmsListed` follows from the places too, `ClearedGone`
from `InvGone`: after an erase no cell names an earlier alarm.

*Induction*. The library's induction theorems take an operator as a parameter and cannot be
used, but `WFMin`, which speaks of sets, can: `Least` (every set of numbers has a least
one) is derived from it, and stands where an argument needs the first chunk, place or sample
of a kind.

*Only model-checked*: `SaveEnds`, `ChangeReachesStore`, `Drains` and `WaitingServed`
(liveness under fairness is out of the prover's reach, and so is `ENABLED`). Every other
property of a passing run is stated by a theorem.

*What the proofs changed in the models.* `RecordsIntact` was false for records of three
seconds, the program's length, with two late requests: the run has records of two, where the
seconds a timed-out record leaves behind reach the next one only. `straight` says so now.
`AlmostWhole` was false for buffers of other proportions than the run's, and says now
which seconds it means. `ClearedGone` of the alarm slots holds without a save behind the
clear, and claims that. `Delivery` has a set, since a promise about order needs no sequence.

## 5. Plan

Done, in this order: the alarm path; the cache; `StorageTask`; `AdcStorage`; the alarm
slots; the configuration and the calibration; the requests; the session; the
conversions; seconds repeated and skipped by the clock; the theorems of section 4; the
promise of the recording.

What would come next: `AlarmNotify` with `AlarmStorage` in one module, so that late
requests come from the former; and a promise of the recording from the second lap on, for
which the code would have to keep `block_num` within the index (`BlocksInIndex`).

## 6. Not modelled

- Floating point: conversion, moving average and thresholds. The type of alarm a sample
  shows, and whether every signal is idle, are inputs.
- Register access of the drivers (ADC, timers, I2C, SPI, SDIO, pins) and the bus
  protocols of the sensors: straight sequences of I/O with delays. What the storage
  needs of them, cells that are programmed once or pages, is in the modules that use it.
- The layout of the messages, check sums, byte order; handlers that only format an answer;
  memory and stack sizes.
- The Ethernet MAC and the port of LwIP.
- `tcp_client.c`, `udp_comm.c` and `BSP_SD2505API.c`, which nothing calls.
- FreeRTOS, LwIP, RTT and the GD32F4xx library. They are vendored and make up some 95 % of
  the lines of the repository (about 9,700 of 200,000 are the program's own), so
  that the lines the models stand for, 2,400, are a small share of the whole and a
  quarter of the program. Queues, semaphores, mutexes and tasks are modelled as the
  program uses them; of LwIP, accept, send, close and the connections' life are.

`PROJECT.json` lists every component with its state.
