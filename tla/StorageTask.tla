---------------------------- MODULE StorageTask ----------------------------
(***************************************************************************)
(* From the sample cache to whole seconds: storage_task of                 *)
(* src/app/storage_manage.c collects what sample_task put into the cache   *)
(* in g_adc_items and writes a second to the eMMC when it meets the last   *)
(* sample of one.                                                          *)
(*                                                                         *)
(* The cache is the bounded queue SampleFifo, which AdcCache implements.   *)
(* A sample is the number of its tick, counted from the second 1: its      *)
(* second is tick \div PerSecond (what the RTC makes of it is AlarmNotify's*)
(* business), and memory that was never written reads as sample 0.         *)
(***************************************************************************)
EXTENDS Naturals, Sequences, FiniteSets, Functions

CONSTANTS
  PerSecond, \* ADC_ITEM_NUM_PER_SECOND, 1000
  Batch,     \* samples read at once, 100
  Slack,     \* samples g_adc_items holds beyond a second, 100
  CacheLen,  \* samples the cache holds, 600
  MaxTick    \* bound: the tick from which on the signals stay idle

ASSUME StorageAssumption ==
  /\ PerSecond \in Nat /\ Batch \in Nat \ {0} /\ PerSecond > 2
  /\ PerSecond % Batch = 0 /\ CacheLen >= Batch
  /\ Slack \in Nat /\ CacheLen \in Nat /\ MaxTick \in Nat

\* g_adc_items holds a second and a batch (ADC_ITEM_SIZE and what is added to it).
ASSUME RoomForBatch == Slack >= Batch

VARIABLES
  cache,   \* g_AdcItemCache
  out,     \* what the last call on the cache returned
  tick,    \* the sample that is taken next
  missed,  \* history: the samples that were not cached
  buf,     \* g_adc_items, and what lies behind it in memory
  index,   \* where the next batch goes, in samples
  stored   \* history: what was written to the eMMC, [sec, samples]

vars == <<cache, out, tick, missed, buf, index, stored>>

Size == PerSecond + Slack
Second(s) == s \div PerSecond
LastOfSecond(s) == s % PerSecond = PerSecond - 1

Cache == INSTANCE SampleFifo WITH fifo <- cache, Items <- Nat, Lens <- {Batch}
----------------------------------------------------------------------------
\* sample_task leaves a sample out when every signal is idle, or when the
\* mutex of the cache is not obtained.
SkipSample ==
  /\ tick' = IF tick < MaxTick THEN tick + 1 ELSE tick
  /\ missed' = missed \cup {tick}
  /\ Cache!Refuse
  /\ UNCHANGED <<buf, index, stored>>

\* A sample for which the cache has no room is lost as well.
CacheSample ==
  /\ tick < MaxTick /\ tick' = tick + 1
  /\ Cache!Put(<<tick>>)
  /\ missed' = IF Len(cache) < CacheLen THEN missed ELSE missed \cup {tick}
  /\ UNCHANGED <<buf, index, stored>>

\* The batch is copied behind the samples already there, over the end of the
\* array if there are too many.
Filled(data) ==
  [p \in DOMAIN buf |-> IF index <= p /\ p < index + Len(data)
                        THEN data[p - index + 1] ELSE buf[p]]

\* Where the scan looks for the i-th sample of the batch.
Place(i) == (index + i - 1) % Size

\* The sample that ends a second; two samples at least must precede it.
Mut_EndsSecond(b, p) == LastOfSecond(b[p])
EndsSecond(b, p) == LastOfSecond(b[p]) /\ p > 1
Hits(b, n) == {i \in 1..n : EndsSecond(b, Place(i))}

\* The samples behind the one that ended the second move to the front, counted
\* from that sample itself: it comes along and the last one is left behind.
\* (memcpy copies upwards where the regions overlap.)
Mut_Moved(b, p, n) == b
Moved(b, p, n) == [q \in DOMAIN b |-> IF q < n THEN b[p + q] ELSE b[q]]

\* Where the next batch goes.
Mut_Behind(n) == n + 1
Behind(n) == n

\* One round of storage_task that finds enough samples.  Storage_Write_AdcData
\* gives up when the mutex of the eMMC object is not obtained in 50 ms; nobody
\* looks at the result.  What lies behind the array may have changed by the
\* time it is read.
storage_task ==
  /\ Len(cache) >= Batch
  /\ Cache!Take(Batch)
  /\ LET b == Filled(out')
         n == Len(out')
     IN \/ \E i \in Hits(b, n) :
             /\ \A j \in Hits(b, n) : i <= j
             /\ \/ stored' = Append(stored, [sec |-> Second(b[Place(i)]),
                                             samples |-> [k \in 1..PerSecond |-> b[k - 1]]])
                \/ UNCHANGED stored
             /\ \E lost \in BOOLEAN :
                  buf' = Moved([p \in DOMAIN b |-> IF lost /\ p >= Size THEN 0 ELSE b[p]],
                               Place(i), n - i)
             /\ index' = Behind(n - i)
        \/ /\ Hits(b, n) = {}
           /\ buf' = b /\ index' = Place(n + 1)
           /\ UNCHANGED stored
  /\ UNCHANGED <<tick, missed>>
----------------------------------------------------------------------------
Init ==
  /\ Cache!Init
  /\ tick = PerSecond /\ missed = {}
  /\ buf = [p \in 0 .. Size + Batch - 1 |-> 0] /\ index = 0
  /\ stored = <<>>

sample_task == SkipSample \/ CacheSample

Next == sample_task \/ storage_task

Spec == Init /\ [][Next]_vars
----------------------------------------------------------------------------
Ticks(sec) == sec * PerSecond .. sec * PerSecond + PerSecond - 1

\* While no sample was left out, what is stored as a second is that second:
\* its samples, all of them and in their order.
SecondsWhole ==
  missed = {} =>
    \A j \in DOMAIN stored :
      stored[j].samples = [k \in 1..PerSecond |-> stored[j].sec * PerSecond + (k - 1)]

\* While no sample was left out, a batch never reaches beyond a second.
InBuffer == missed = {} => index + Batch <= PerSecond

\* After samples were left out, batches and seconds are no longer aligned.  A
\* second that was cached as a whole, right after one that was stored with its
\* last sample in it, loses one sample at most and gains at most the last of the
\* second before.  (Had that last sample been among the first of the buffer, its
\* index might have wrapped and the second be anything.)
AlmostWhole ==
  \A j \in DOMAIN stored \ {1} :
    LET sec == stored[j].sec
        before == stored[j - 1]
        samples == Range(stored[j].samples)
    IN /\ before.sec = sec - 1 /\ missed \cap Ticks(sec) = {}
       /\ \E k \in Batch .. PerSecond : before.samples[k] = sec * PerSecond - 1
       => /\ Cardinality(Ticks(sec) \ samples) <= 1
          /\ samples \subseteq Ticks(sec) \cup {sec * PerSecond - 1}

\* No second is stored twice or after a later one, whatever is left out.
InOrder ==
  \A i, j \in DOMAIN stored : i < j => stored[i].sec < stored[j].sec
=============================================================================
