------------------------- MODULE StorageTask_proofs -------------------------
(***************************************************************************)
(* Seconds on their way to the eMMC, for every length of a second that is  *)
(* a multiple of the batch, every buffer that holds a batch besides and    *)
(* every cache that holds a batch.                                         *)
(*                                                                         *)
(* While no sample is left out seconds are whole.  The reason is an        *)
(* alignment no variable shows: the samples in the cache are consecutive   *)
(* and end at the last tick, and what is in the buffer is the beginning of *)
(* a second, a number of whole batches, that goes on with the first sample *)
(* of the cache.                                                           *)
(*                                                                         *)
(* Whatever is left out, seconds are stored in their order, and one that   *)
(* follows another loses one sample at most.  These rest on the order of   *)
(* the samples in cache and buffer, index wrapped or not, and on what is   *)
(* in the buffer between the last sample of a second and that of the next. *)
(***************************************************************************)
EXTENDS StorageTask, SequenceTheorems, FiniteSetTheorems, TLAPS

Whole(sec) == [k \in 1..PerSecond |-> sec * PerSecond + (k - 1)]

\* The first n samples of the buffer are those of a second.
Begins(b, sec, n) == \A p \in 0 .. n - 1 : b[p] = sec * PerSecond + p

\* The samples in the cache follow each other up to the last one taken.
Consecutive(q, t) ==
  /\ q \in Seq(Nat) /\ t \in Nat /\ Len(q) <= t
  /\ \A j \in 1 .. Len(q) : q[j] = t - Len(q) + j - 1

Aligned ==
  \E sec, k \in Nat :
    /\ index = k * Batch /\ index + Batch <= PerSecond
    /\ tick - Len(cache) = sec * PerSecond + index
    /\ Begins(buf, sec, index)

InvStored ==
  /\ stored \in Seq([sec : Nat, samples : [1..PerSecond -> Nat]])
  /\ \A j \in DOMAIN stored : stored[j].samples = Whole(stored[j].sec)

InvWhole ==
  /\ Consecutive(cache, tick)
  /\ DOMAIN buf = 0 .. Size + Batch - 1
  /\ Aligned /\ InvStored

\* Nothing is claimed once a sample was left out.
IInv == missed = {} => InvWhole
----------------------------------------------------------------------------
\* A number is told apart into second and place in it.
LEMMA DivMod ==
  ASSUME NEW s \in Nat, NEW q \in 0 .. PerSecond - 1
  PROVE  /\ (s * PerSecond + q) \div PerSecond = s
         /\ (s * PerSecond + q) % PerSecond = q
<1> DEFINE t == s * PerSecond + q
           d == t \div PerSecond
           r == t % PerSecond
<1>1. PerSecond \in Nat /\ PerSecond > 0
  BY StorageAssumption
<1>2. t \in Nat
  BY <1>1
<1>3. d \in Int /\ r \in 0 .. PerSecond - 1 /\ t = PerSecond * d + r
  <2> HIDE DEF t
  <2> QED
    BY <1>1, <1>2, SMT
<1> HIDE DEF d, r
<1>4. ASSUME d >= s + 1 PROVE FALSE
  <2>1. PerSecond * d >= PerSecond * (s + 1)
    BY <1>1, <1>3, <1>4, SMT
  <2> QED
    BY <1>1, <1>3, <2>1, SMT
<1>5. ASSUME d <= s - 1 PROVE FALSE
  <2>1. PerSecond * d <= PerSecond * (s - 1)
    BY <1>1, <1>3, <1>5, SMT
  <2> QED
    BY <1>1, <1>3, <2>1, SMT
<1>6. d = s
  BY <1>3, <1>4, <1>5
<1>7. r = q
  BY <1>1, <1>3, <1>6, SMT
<1> QED
  BY <1>6, <1>7 DEF d, r

\* A second consists of whole batches: short of its end there is room for one.
LEMMA NextBatch ==
  ASSUME NEW k \in Nat, (k + 1) * Batch < PerSecond
  PROVE  (k + 2) * Batch <= PerSecond
<1> DEFINE m == PerSecond \div Batch
<1>1. PerSecond \in Nat /\ Batch \in Nat /\ Batch > 0 /\ PerSecond % Batch = 0
  BY StorageAssumption
<1>2. m \in Int /\ PerSecond = Batch * m
  BY <1>1, SMT
<1> HIDE DEF m
<1>3. ASSUME m <= k + 1 PROVE FALSE
  <2>1. Batch * m <= Batch * (k + 1)
    BY <1>1, <1>2, <1>3, SMT
  <2> QED
    BY <1>1, <1>2, <2>1, SMT
<1>4. Batch * m >= Batch * (k + 2)
  BY <1>1, <1>2, <1>3, SMT
<1> QED
  BY <1>1, <1>2, <1>4, SMT

\* What the constants say of the lengths.
LEMMA Lengths ==
  /\ PerSecond \in Nat /\ PerSecond > 2 /\ Batch \in Nat /\ Batch > 0
  /\ Size \in Nat /\ PerSecond <= Size
  /\ Batch <= PerSecond
<1>1. PerSecond \in Nat /\ PerSecond > 2 /\ Batch \in Nat /\ Batch > 0 /\ Slack \in Nat
  BY StorageAssumption
<1>2. Size \in Nat /\ PerSecond <= Size
  BY <1>1 DEF Size
<1>3. Batch <= PerSecond
  BY <1>1, StorageAssumption, SMT
<1> QED
  BY <1>1, <1>2, <1>3

\* The invariant holds at the start: an empty buffer at the start of second 1.
LEMMA InitInv == Init => IInv
<1> SUFFICES ASSUME Init PROVE InvWhole
  BY DEF IInv
<1>1. cache = <<>> /\ stored = <<>> /\ tick = PerSecond /\ index = 0
  BY DEF Init, Cache!Init
<1>2. Consecutive(cache, tick)
  BY <1>1, Lengths DEF Consecutive
<1>3. DOMAIN buf = 0 .. Size + Batch - 1
  BY DEF Init
<1>4. Aligned
  <2>1. index = 0 * Batch /\ index + Batch <= PerSecond
    BY <1>1, Lengths
  <2>2. tick - Len(cache) = 1 * PerSecond + index
    BY <1>1, Lengths
  <2>3. Begins(buf, 1, index)
    BY <1>1 DEF Begins
  <2> QED
    BY <2>1, <2>2, <2>3 DEF Aligned
<1>5. InvStored
  BY <1>1 DEF InvStored
<1> QED
  BY <1>2, <1>3, <1>4, <1>5 DEF InvWhole

\* A sample that is cached is the one that follows.
LEMMA CacheKeeps == IInv /\ CacheSample => IInv'
<1> SUFFICES ASSUME IInv, CacheSample, missed' = {} PROVE InvWhole'
  BY DEF IInv
<1>1. /\ missed = {} /\ Len(cache) < CacheLen
      /\ tick' = tick + 1 /\ UNCHANGED <<buf, index, stored>>
  BY DEF CacheSample
<1>2. InvWhole
  BY <1>1 DEF IInv
<1>3. cache \in Seq(Nat) /\ tick \in Nat /\ Len(cache) \in Nat
  BY <1>2 DEF InvWhole, Consecutive
<1>4. cache' = Append(cache, tick)
  <2>1. cache' = cache \o SubSeq(<<tick>>, 1, Cache!AtMost(Len(<<tick>>), CacheLen - Len(cache)))
    BY DEF CacheSample, Cache!Put
  <2>2. Cache!AtMost(Len(<<tick>>), CacheLen - Len(cache)) = 1
    BY <1>1, <1>3, StorageAssumption DEF Cache!AtMost
  <2>3. SubSeq(<<tick>>, 1, 1) = <<tick>>
    <3>1. <<tick>> \in Seq(Nat) /\ Len(<<tick>>) = 1
      BY <1>3
    <3> QED
      BY <3>1, SubSeqFull
  <2> QED
    BY <1>3, <2>1, <2>2, <2>3, AppendIsConcat
<1>5. /\ cache' \in Seq(Nat) /\ Len(cache') = Len(cache) + 1
      /\ \A j \in 1 .. Len(cache) : cache'[j] = cache[j]
      /\ cache'[Len(cache) + 1] = tick
  BY <1>3, <1>4, AppendProperties
<1>6. Consecutive(cache', tick')
  <2>1. \A j \in 1 .. Len(cache) : cache[j] = tick - Len(cache) + j - 1
    BY <1>2 DEF InvWhole, Consecutive
  <2>2. Len(cache) <= tick
    BY <1>2 DEF InvWhole, Consecutive
  <2>3. ASSUME NEW j \in 1 .. Len(cache') PROVE cache'[j] = tick' - Len(cache') + j - 1
    <3>1. tick' - Len(cache') = tick - Len(cache)
      BY <1>1, <1>3, <1>5
    <3>2. CASE j \in 1 .. Len(cache)
      BY <1>5, <2>1, <3>1, <3>2
    <3>3. CASE j = Len(cache) + 1
      BY <1>3, <1>5, <3>1, <3>3
    <3> QED
      BY <1>3, <1>5, <3>2, <3>3
  <2> QED
    BY <1>1, <1>3, <1>5, <2>2, <2>3 DEF Consecutive
<1>7. tick' - Len(cache') = tick - Len(cache)
  BY <1>1, <1>3, <1>5
<1>8. Aligned'
  BY <1>1, <1>2, <1>7 DEF InvWhole, Aligned, Begins
<1>9. InvStored' /\ DOMAIN buf' = 0 .. Size + Batch - 1
  BY <1>1, <1>2 DEF InvWhole, InvStored
<1> QED
  BY <1>6, <1>8, <1>9 DEF InvWhole

\* A batch that is taken is what the buffer goes on with, and a second is
\* stored when its last batch has come, whole.
LEMMA StorageKeeps == IInv /\ storage_task => IInv'
<1> SUFFICES ASSUME IInv, storage_task, missed' = {} PROVE InvWhole'
  BY DEF IInv
<1>1. missed = {} /\ tick' = tick /\ Len(cache) >= Batch
  BY DEF storage_task
<1>2. InvWhole
  BY <1>1 DEF IInv
<1>3. /\ cache \in Seq(Nat) /\ tick \in Nat /\ Len(cache) \in Nat /\ Len(cache) <= tick
      /\ \A j \in 1 .. Len(cache) : cache[j] = tick - Len(cache) + j - 1
  BY <1>2 DEF InvWhole, Consecutive
<1>4. PICK sec \in Nat, k \in Nat :
        /\ index = k * Batch /\ index + Batch <= PerSecond
        /\ tick - Len(cache) = sec * PerSecond + index
        /\ Begins(buf, sec, index)
  BY <1>2 DEF InvWhole, Aligned
<1> DEFINE base == sec * PerSecond
<1>5. index \in Nat /\ base \in Nat
  BY <1>4, Lengths
<1>6. /\ tick - Len(cache) = base + index
       /\ \A p \in 0 .. index - 1 : buf[p] = base + p
       /\ index + Batch <= PerSecond
  BY <1>4 DEF Begins
<1> HIDE DEF base
<1>7. out' = SubSeq(cache, 1, Batch) /\ cache' = SubSeq(cache, Batch + 1, Len(cache))
  <2>1. Cache!AtMost(Batch, Len(cache)) = Batch
    BY <1>1, <1>3, Lengths DEF Cache!AtMost
  <2> QED
    BY <2>1 DEF storage_task, Cache!Take
<1>8. Len(out') = Batch /\ \A i \in 1 .. Batch : out'[i] = base + index + i - 1
  <2>1. \A i \in 1 .. Batch : i \in 1 .. Len(cache) /\ cache[i] \in Nat
    BY <1>1, <1>3, Lengths
  <2>2. Len(out') = Batch /\ \A i \in 1 .. Batch : out'[i] = cache[1 + i - 1]
    BY <1>7, <2>1, Lengths, SubSeqProperties
  <2>3. ASSUME NEW i \in 1 .. Batch PROVE out'[i] = base + index + i - 1
    <3>1. out'[i] = tick - Len(cache) + i - 1
      BY <1>3, <2>1, <2>2, Lengths
    <3> QED
      BY <1>6, <3>1
  <2> QED
    BY <2>2, <2>3
<1>9. /\ cache' \in Seq(Nat) /\ Len(cache') = Len(cache) - Batch
      /\ \A j \in 1 .. Len(cache') : cache'[j] = cache[Batch + j]
  <2>1. /\ Batch + 1 \in Int /\ Len(cache) \in Int
        /\ \A i \in Batch + 1 .. Len(cache) : cache[i] \in Nat
    BY <1>1, <1>3, Lengths
  <2>2. /\ cache' \in Seq(Nat)
        /\ Len(cache') = IF Batch + 1 <= Len(cache) THEN Len(cache) - (Batch + 1) + 1 ELSE 0
        /\ \A j \in 1 .. Len(cache) - (Batch + 1) + 1 : cache'[j] = cache[Batch + 1 + j - 1]
    BY <1>7, <2>1, SubSeqProperties
  <2>3. Len(cache') = Len(cache) - Batch
    BY <1>1, <1>3, <2>2, Lengths
  <2>4. ASSUME NEW j \in 1 .. Len(cache') PROVE cache'[j] = cache[Batch + j]
    <3>1. j \in 1 .. Len(cache) - (Batch + 1) + 1 /\ Batch + 1 + j - 1 = Batch + j
      BY <1>1, <1>3, <2>3, Lengths
    <3> QED
      BY <2>2, <3>1
  <2> QED
    BY <2>2, <2>3, <2>4
<1>10. Consecutive(cache', tick')
  <2>1. Len(cache') <= tick
    BY <1>3, <1>9, Lengths
  <2>2. ASSUME NEW j \in 1 .. Len(cache') PROVE cache'[j] = tick - Len(cache') + j - 1
    <3>1. Batch + j \in 1 .. Len(cache) /\ cache'[j] = cache[Batch + j]
      BY <1>3, <1>9, Lengths
    <3>2. cache'[j] = tick - Len(cache) + (Batch + j) - 1
      BY <1>3, <3>1
    <3> QED
      BY <1>3, <1>9, <3>2, Lengths
  <2> QED
    BY <1>1, <1>3, <1>9, <2>1, <2>2 DEF Consecutive
<1> DEFINE b == Filled(out')
<1> HIDE DEF b
<1>11. /\ DOMAIN b = 0 .. Size + Batch - 1
       /\ Begins(b, sec, index + Batch)
  <2>1. DOMAIN b = 0 .. Size + Batch - 1
    BY <1>2 DEF InvWhole, Filled, b
  <2>2. ASSUME NEW p \in 0 .. (index + Batch) - 1 PROVE b[p] = base + p
    <3>1. p \in DOMAIN buf
      BY <1>2, <1>5, <1>6, Lengths DEF InvWhole
    <3>2. CASE p < index
      BY <1>5, <1>6, <1>8, <3>1, <3>2 DEF Filled, b
    <3>3. CASE p >= index
      <4>1. b[p] = out'[p - index + 1] /\ p - index + 1 \in 1 .. Batch
        BY <1>5, <1>8, <3>1, <3>3, Lengths DEF Filled, b
      <4> QED
        BY <1>5, <1>8, <4>1
    <3> QED
      BY <1>5, <3>2, <3>3
  <2>3. base = sec * PerSecond
    BY DEF base
  <2>4. Begins(b, sec, index + Batch)
    BY <2>2, <2>3 DEF Begins
  <2> QED
    BY <2>1, <2>4
<1>12. ASSUME NEW i \in 1 .. Batch
       PROVE  /\ Place(i) = index + i - 1 /\ Place(i) < PerSecond
              /\ Second(b[Place(i)]) = sec
              /\ i \in Hits(b, Batch) <=> i = Batch /\ index + Batch = PerSecond
  <2>1. index + i - 1 \in 0 .. PerSecond - 1
    BY <1>4, <1>5, Lengths
  <2>2. Place(i) = index + i - 1
    BY <2>1, Lengths DEF Place
  <2>3. b[Place(i)] = sec * PerSecond + (index + i - 1)
    <3>1. index + i - 1 \in 0 .. (index + Batch) - 1
      BY <1>5, Lengths
    <3> QED
      BY <1>11, <2>2, <3>1 DEF Begins
  <2>4. /\ Second(b[Place(i)]) = sec
        /\ LastOfSecond(b[Place(i)]) <=> index + i - 1 = PerSecond - 1
    BY <2>1, <2>3, DivMod DEF Second, LastOfSecond
  <2>5. i \in Hits(b, Batch) <=> index + i - 1 = PerSecond - 1
    BY <2>1, <2>2, <2>4, Lengths DEF Hits, EndsSecond
  <2> QED
    BY <1>4, <1>5, <2>1, <2>2, <2>4, <2>5, Lengths
<1>13. CASE Hits(b, Batch) = {}
  <2>1. buf' = b /\ index' = Place(Batch + 1) /\ stored' = stored
    BY <1>8, <1>13 DEF storage_task, b
  <2>2. index + Batch < PerSecond
    BY <1>4, <1>5, <1>12, <1>13, Lengths
  <2>3. index' = index + Batch
    BY <1>5, <2>1, <2>2, Lengths DEF Place
  <2>4. k + 1 \in Nat /\ index' = (k + 1) * Batch /\ index' + Batch <= PerSecond
    <3>1. (k + 1) * Batch = index + Batch
      BY <1>4, Lengths, SMT
    <3>2. (k + 2) * Batch = index + Batch + Batch
      BY <1>4, Lengths, SMT
    <3> QED
      BY <2>2, <2>3, <3>1, <3>2, NextBatch
  <2>5. tick' - Len(cache') = sec * PerSecond + index'
    <3>1. tick' - Len(cache') = base + index'
      BY <1>1, <1>3, <1>5, <1>6, <1>9, <2>3, Lengths
    <3> QED
      BY <3>1 DEF base
  <2>6. Begins(buf', sec, index')
    BY <1>11, <2>1, <2>3
  <2>7. Aligned'
    BY <2>4, <2>5, <2>6 DEF Aligned
  <2> QED
    BY <1>2, <1>10, <1>11, <2>1, <2>7 DEF InvWhole, InvStored
<1>14. CASE Hits(b, Batch) # {}
  <2>1. PICK i \in Hits(b, Batch) :
          /\ \/ stored' = Append(stored, [sec |-> Second(b[Place(i)]),
                                          samples |-> [q \in 1..PerSecond |-> b[q - 1]]])
             \/ UNCHANGED stored
          /\ \E lost \in BOOLEAN :
               buf' = Moved([p \in DOMAIN b |-> IF lost /\ p >= Size THEN 0 ELSE b[p]],
                            Place(i), Batch - i)
          /\ index' = Behind(Batch - i)
    BY <1>8, <1>14 DEF storage_task, b
  <2>2. i \in 1 .. Batch /\ i = Batch /\ index + Batch = PerSecond /\ Second(b[Place(i)]) = sec
    BY <1>12 DEF Hits
  <2>3. index' = 0 /\ DOMAIN buf' = 0 .. Size + Batch - 1
    BY <1>11, <2>1, <2>2, Lengths DEF Behind, Moved
  <2>4. Aligned'
    <3>1. index' = 0 * Batch /\ index' + Batch <= PerSecond
      BY <2>3, Lengths
    <3>2. tick' - Len(cache') = (sec + 1) * PerSecond + index'
      <4>1. (sec + 1) * PerSecond = base + PerSecond
        BY Lengths, SMT DEF base
      <4>2. tick' - Len(cache') = base + PerSecond
        <5>1. tick' = tick /\ Len(cache') = Len(cache) - Batch /\ index + Batch = PerSecond
          BY <1>1, <1>9, <2>2
        <5>2. tick \in Nat /\ Len(cache) \in Nat /\ tick - Len(cache) = base + index
          BY <1>3, <1>6
        <5> QED
          BY <1>5, <5>1, <5>2, Lengths
      <4>3. base + PerSecond \in Int
        BY <1>5, Lengths
      <4> QED
        BY <2>3, <4>1, <4>2, <4>3
    <3>3. Begins(buf', sec + 1, index')
      BY <2>3 DEF Begins
    <3> QED
      BY <3>1, <3>2, <3>3 DEF Aligned
  <2>5. InvStored'
    <3>1. CASE UNCHANGED stored
      BY <1>2, <3>1 DEF InvWhole, InvStored
    <3>2. CASE stored' = Append(stored, [sec |-> Second(b[Place(i)]),
                                         samples |-> [q \in 1..PerSecond |-> b[q - 1]]])
      <4> DEFINE r == [sec |-> sec, samples |-> Whole(sec)]
      <4>1. [q \in 1..PerSecond |-> b[q - 1]] = Whole(sec)
        <5>1. \A q \in 1 .. PerSecond : b[q - 1] = sec * PerSecond + (q - 1)
          BY <1>11, <2>2, Lengths DEF Begins
        <5> QED
          BY <5>1 DEF Whole
      <4>2. stored' = Append(stored, r)
        BY <2>2, <3>2, <4>1
      <4>3. r \in [sec : Nat, samples : [1..PerSecond -> Nat]]
        BY <1>5, Lengths DEF Whole
      <4>4. /\ stored \in Seq([sec : Nat, samples : [1..PerSecond -> Nat]])
            /\ \A j \in 1 .. Len(stored) : stored[j].samples = Whole(stored[j].sec)
        BY <1>2 DEF InvWhole, InvStored
      <4> HIDE DEF r
      <4>5. /\ stored' \in Seq([sec : Nat, samples : [1..PerSecond -> Nat]])
            /\ Len(stored') = Len(stored) + 1
            /\ \A j \in 1 .. Len(stored) : stored'[j] = stored[j]
            /\ stored'[Len(stored) + 1] = r
        BY <4>2, <4>3, <4>4, AppendProperties
      <4>6. r.samples = Whole(r.sec)
        BY DEF r
      <4>7. \A j \in 1 .. Len(stored') : stored'[j].samples = Whole(stored'[j].sec)
        <5>1. ASSUME NEW j \in 1 .. Len(stored') PROVE j \in 1 .. Len(stored) \/ j = Len(stored) + 1
          BY <4>4, <4>5
        <5> QED
          BY <4>4, <4>5, <4>6, <5>1
      <4> QED
        BY <4>5, <4>7 DEF InvStored
    <3> QED
      BY <2>1, <3>1, <3>2
  <2> QED
    BY <1>10, <2>3, <2>4, <2>5 DEF InvWhole
<1> QED
  BY <1>13, <1>14

\* Every step keeps the invariant.
LEMMA NextKeeps == IInv /\ [Next]_vars => IInv'
<1> SUFFICES ASSUME IInv, [Next]_vars PROVE IInv'
  OBVIOUS
<1>1. CASE SkipSample
  BY <1>1 DEF SkipSample, IInv
<1>2. CASE CacheSample
  BY <1>2, CacheKeeps
<1>3. CASE storage_task
  BY <1>3, StorageKeeps
<1>4. CASE UNCHANGED vars
  BY <1>4 DEF vars, IInv, InvWhole, Consecutive, Aligned, InvStored
<1> QED
  BY <1>1, <1>2, <1>3, <1>4 DEF Next, sample_task

\* The invariant holds always.
LEMMA Inductive == Spec => []IInv
  BY InitInv, NextKeeps, PTL DEF Spec

\* What storage_task stores as a second is that second, sample by sample, as
\* long as sample_task left none out and the cache had room.
THEOREM SecondsAreWhole == Spec => []SecondsWhole
<1>1. IInv => SecondsWhole
  BY DEF IInv, InvWhole, InvStored, SecondsWhole, Whole
<1> QED
  BY <1>1, Inductive, PTL

\* And no batch is then copied beyond the end of a second, let alone of the array.
THEOREM BatchesStayInside == Spec => []InBuffer
<1>1. IInv => InBuffer
  BY DEF IInv, InvWhole, Aligned, InBuffer
<1> QED
  BY <1>1, Inductive, PTL
----------------------------------------------------------------------------
(***************************************************************************)
(* Whatever is left out: the samples go through the cache and the buffer   *)
(* in their order.  What the buffer holds before index may be older than   *)
(* it seems and the index may have wrapped, but the samples that end a     *)
(* second stand there in their order, those from place 1 on later than all *)
(* that was stored, and the cache holds only later ones.                   *)
(***************************************************************************)
LastTick(sec) == sec * PerSecond + (PerSecond - 1)

Places == 0 .. Size + Batch - 1

\* The samples of a queue are in their order, and older than tick t.
Rising(q, t) ==
  /\ q \in Seq(Nat) /\ t \in Nat
  /\ \A j \in 1 .. Len(q) : q[j] < t
  /\ \A i, j \in 1 .. Len(q) : i < j => q[i] < q[j]

\* So are those among the first n of a buffer that end a second.
MarksRise(b, n) ==
  \A p, r \in 0 .. n - 1 :
    p < r /\ LastOfSecond(b[p]) /\ LastOfSecond(b[r]) => b[p] < b[r]

\* Everything in memory is older than the samples of a queue and than tick t.
Older(b, q, t) ==
  \A p \in Places : b[p] < t /\ \A j \in 1 .. Len(q) : b[p] < q[j]

\* The last sample of a second is older than a queue, than tick t and than
\* those that may end the next one in the first n of a buffer.
Passed(sec, b, n, q, t) ==
  /\ LastTick(sec) < t
  /\ \A j \in 1 .. Len(q) : LastTick(sec) < q[j]
  /\ \A p \in 1 .. n - 1 : LastOfSecond(b[p]) => LastTick(sec) < b[p]

InvStoredType == stored \in Seq([sec : Nat, samples : [1..PerSecond -> Nat]])

InvQueue ==
  /\ Rising(cache, tick)
  /\ buf \in [Places -> Nat] /\ index \in 0 .. Size - 1
  /\ MarksRise(buf, index) /\ Older(buf, cache, tick)

InvPassed ==
  \A j \in 1 .. Len(stored) : Passed(stored[j].sec, buf, index, cache, tick)

InvOrder == InvStoredType /\ InvQueue /\ InvPassed /\ InOrder
----------------------------------------------------------------------------
\* The sample that ends a second is its last, and a later one of a later second.
LEMMA EndOfSecond ==
  ASSUME NEW s \in Nat, LastOfSecond(s)
  PROVE  Second(s) \in Nat /\ LastTick(Second(s)) = s
<1> DEFINE d == Second(s)
           r == s % PerSecond
<1>1. PerSecond \in Nat /\ PerSecond > 0
  BY Lengths
<1>2. d \in Int /\ r \in 0 .. PerSecond - 1 /\ s = PerSecond * d + r
  BY <1>1, SMT DEF Second
<1>3. r = PerSecond - 1
  BY DEF LastOfSecond
<1> HIDE DEF d, r
<1>4. ASSUME d <= 0 - 1 PROVE FALSE
  <2>1. PerSecond * d <= PerSecond * (0 - 1)
    BY <1>1, <1>2, <1>4, SMT
  <2> QED
    BY <1>1, <1>2, <2>1, SMT
<1>5. d \in Nat
  BY <1>2, <1>4
<1>6. LastTick(d) = s
  BY <1>1, <1>2, <1>3, <1>5, SMT DEF LastTick
<1> QED
  BY <1>5, <1>6 DEF d

LEMMA LaterSecond ==
  ASSUME NEW s \in Nat, NEW t \in Nat, LastTick(s) < LastTick(t)
  PROVE  s < t
<1>1. PerSecond \in Nat /\ PerSecond > 0
  BY Lengths
<1>2. ASSUME t <= s PROVE FALSE
  <2>1. t * PerSecond <= s * PerSecond
    BY <1>1, <1>2, SMT
  <2>2. t * PerSecond \in Nat /\ s * PerSecond \in Nat
    BY <1>1
  <2> QED
    BY <1>1, <2>1, <2>2 DEF LastTick
<1> QED
  BY <1>2

\* Memory that was never written ends no second.
LEMMA NoMark == ~LastOfSecond(0)
<1>1. PerSecond \in Nat /\ PerSecond > 2
  BY Lengths
<1>2. 0 * PerSecond + 0 = 0
  BY <1>1
<1>3. 0 % PerSecond = 0
  BY <1>1, <1>2, DivMod
<1> QED
  BY <1>1, <1>3 DEF LastOfSecond

LEMMA InitOrder == Init => InvOrder
<1> SUFFICES ASSUME Init PROVE InvOrder
  OBVIOUS
<1>1. cache = <<>> /\ stored = <<>> /\ tick = PerSecond /\ index = 0
  BY DEF Init, Cache!Init
<1>2. buf = [p \in Places |-> 0]
  BY DEF Init, Places
<1>3. InvStoredType /\ InvPassed /\ InOrder
  BY <1>1 DEF InvStoredType, InvPassed, InOrder
<1>4. Rising(cache, tick)
  BY <1>1, Lengths DEF Rising
<1>5. buf \in [Places -> Nat] /\ index \in 0 .. Size - 1
  BY <1>1, <1>2, Lengths
<1>6. MarksRise(buf, index) /\ Older(buf, cache, tick)
  BY <1>1, <1>2, Lengths DEF MarksRise, Older
<1> QED
  BY <1>3, <1>4, <1>5, <1>6 DEF InvOrder, InvQueue

\* Time passes: what was older than the queue and the tick still is.
LEMMA TimePasses ==
  ASSUME NEW q, NEW t \in Nat, NEW u \in Nat, t <= u, Rising(q, t)
  PROVE  /\ Rising(q, u)
         /\ \A b \in [Places -> Nat] : Older(b, q, t) => Older(b, q, u)
         /\ \A s \in Nat, b \in [Places -> Nat], n \in Nat :
              Passed(s, b, n, q, t) => Passed(s, b, n, q, u)
<1>1. q \in Seq(Nat) /\ Len(q) \in Nat /\ \A j \in 1 .. Len(q) : q[j] \in Nat
  BY DEF Rising
<1>2. Rising(q, u)
  BY <1>1 DEF Rising
<1>3. ASSUME NEW b \in [Places -> Nat], Older(b, q, t) PROVE Older(b, q, u)
  BY <1>3 DEF Older
<1>4. ASSUME NEW s \in Nat, NEW b \in [Places -> Nat], NEW n \in Nat, Passed(s, b, n, q, t)
      PROVE  Passed(s, b, n, q, u)
  <2>1. LastTick(s) \in Nat
    BY Lengths DEF LastTick
  <2> QED
    BY <1>4, <2>1 DEF Passed
<1> QED
  BY <1>2, <1>3, <1>4

\* The tick that goes on, and the sample that is put into the queue with it.
LEMMA QueueGrows ==
  ASSUME NEW q, NEW t \in Nat, Rising(q, t)
  PROVE  /\ Rising(Append(q, t), t + 1)
         /\ \A b \in [Places -> Nat] : Older(b, q, t) => Older(b, Append(q, t), t + 1)
         /\ \A s \in Nat, b \in [Places -> Nat], n \in Nat :
              Passed(s, b, n, q, t) => Passed(s, b, n, Append(q, t), t + 1)
<1>1. q \in Seq(Nat) /\ Len(q) \in Nat /\ \A j \in 1 .. Len(q) : q[j] \in Nat
  BY DEF Rising
<1> DEFINE a == Append(q, t)
<1>2. /\ a \in Seq(Nat) /\ Len(a) = Len(q) + 1
      /\ \A j \in 1 .. Len(q) : a[j] = q[j]
      /\ a[Len(q) + 1] = t
  BY <1>1, AppendProperties
<1> HIDE DEF a
<1>3. \A j \in 1 .. Len(a) : (j \in 1 .. Len(q) /\ a[j] = q[j]) \/ (j = Len(q) + 1 /\ a[j] = t)
  BY <1>1, <1>2
<1>4. Rising(a, t + 1)
  <2>1. ASSUME NEW j \in 1 .. Len(a) PROVE a[j] < t + 1
    <3>1. a[j] = t \/ \E i \in 1 .. Len(q) : a[j] = q[i]
      BY <1>3
    <3> QED
      BY <1>1, <3>1 DEF Rising
  <2>2. ASSUME NEW i \in 1 .. Len(a), NEW j \in 1 .. Len(a), i < j PROVE a[i] < a[j]
    <3>1. i \in 1 .. Len(q)
      BY <1>1, <1>2, <2>2
    <3>2. CASE j \in 1 .. Len(q)
      BY <1>2, <2>2, <3>1, <3>2 DEF Rising
    <3>3. CASE j = Len(q) + 1
      BY <1>2, <3>1, <3>3 DEF Rising
    <3> QED
      BY <1>3, <3>2, <3>3
  <2> QED
    BY <1>2, <2>1, <2>2 DEF Rising
<1>5. ASSUME NEW b \in [Places -> Nat], Older(b, q, t) PROVE Older(b, a, t + 1)
  BY <1>3, <1>5 DEF Older
<1>6. ASSUME NEW s \in Nat, NEW b \in [Places -> Nat], NEW n \in Nat, Passed(s, b, n, q, t)
      PROVE  Passed(s, b, n, a, t + 1)
  <2>1. LastTick(s) \in Nat
    BY Lengths DEF LastTick
  <2> QED
    BY <1>3, <1>6, <2>1 DEF Passed
<1> QED
  BY <1>4, <1>5, <1>6 DEF a

\* A sample that is taken goes into the cache, or is one that was missed.
LEMMA SampleTaken ==
  ASSUME InvOrder, sample_task
  PROVE  /\ UNCHANGED <<buf, index, stored>> /\ missed \subseteq missed'
         /\ \/ cache' = cache /\ tick' = tick
            \/ cache' = cache /\ tick' = tick + 1 /\ tick \in missed'
            \/ cache' = Append(cache, tick) /\ tick' = tick + 1 /\ missed' = missed
<1>1. tick \in Nat /\ Len(cache) \in Nat /\ cache \in Seq(Nat)
  BY DEF InvOrder, InvQueue, Rising
<1>2. CASE SkipSample
  BY <1>2 DEF SkipSample, Cache!Refuse
<1>3. CASE CacheSample
  <2>1. /\ tick' = tick + 1
        /\ missed' = IF Len(cache) < CacheLen THEN missed ELSE missed \cup {tick}
        /\ cache' = cache \o SubSeq(<<tick>>, 1, Cache!AtMost(1, CacheLen - Len(cache)))
        /\ UNCHANGED <<buf, index, stored>>
    BY <1>3 DEF CacheSample, Cache!Put
  <2>2. CASE Len(cache) < CacheLen
    <3>1. Cache!AtMost(1, CacheLen - Len(cache)) = 1
      BY <1>1, <2>2, StorageAssumption DEF Cache!AtMost
    <3>2. SubSeq(<<tick>>, 1, 1) = <<tick>>
      <4>1. <<tick>> \in Seq(Nat) /\ Len(<<tick>>) = 1
        BY <1>1
      <4> QED
        BY <4>1, SubSeqFull
    <3>3. cache' = Append(cache, tick)
      BY <1>1, <2>1, <3>1, <3>2, AppendIsConcat
    <3> QED
      BY <2>1, <2>2, <3>3
  <2>3. CASE ~(Len(cache) < CacheLen)
    <3> DEFINE m == Cache!AtMost(1, CacheLen - Len(cache))
    <3>1. m \in Int /\ m < 1
      BY <1>1, <2>3, StorageAssumption DEF Cache!AtMost
    <3> HIDE DEF m
    <3>2. SubSeq(<<tick>>, 1, m) = <<>>
      BY <3>1, SubSeqEmpty
    <3>3. cache \o <<>> = cache
      BY <1>1, ConcatEmptySeq
    <3>4. cache' = cache
      BY <2>1, <3>2, <3>3 DEF m
    <3> QED
      BY <2>1, <2>3, <3>4
  <2> QED
    BY <2>2, <2>3
<1> QED
  BY <1>2, <1>3 DEF sample_task

LEMMA LastStored ==
  ASSUME InvOrder, stored # <<>>
  PROVE  /\ Len(stored) \in 1 .. Len(stored)
         /\ stored[Len(stored)].sec \in Nat
<1>1. stored \in Seq([sec : Nat, samples : [1..PerSecond -> Nat]])
  BY DEF InvOrder, InvStoredType
<1>2. Len(stored) \in Nat /\ Len(stored) # 0
  BY <1>1
<1>3. Len(stored) \in 1 .. Len(stored)
  BY <1>2
<1>4. stored[Len(stored)] \in [sec : Nat, samples : [1..PerSecond -> Nat]]
  BY <1>1, <1>3, ElementOfSeq
<1> QED
  BY <1>3, <1>4

\* A sample that is taken, cached or not.
LEMMA SampleOrder == InvOrder /\ sample_task => InvOrder'
<1> SUFFICES ASSUME InvOrder, sample_task PROVE InvOrder'
  OBVIOUS
<1>1. /\ Rising(cache, tick) /\ tick \in Nat /\ Len(cache) \in Nat /\ cache \in Seq(Nat)
      /\ buf \in [Places -> Nat] /\ index \in 0 .. Size - 1 /\ index \in Nat
      /\ MarksRise(buf, index) /\ Older(buf, cache, tick)
  BY Lengths DEF InvOrder, InvQueue, Rising
<1>2. \A j \in 1 .. Len(stored) :
        stored[j].sec \in Nat /\ Passed(stored[j].sec, buf, index, cache, tick)
  <2>1. stored \in Seq([sec : Nat, samples : [1..PerSecond -> Nat]])
    BY DEF InvOrder, InvStoredType
  <2>2. \A j \in 1 .. Len(stored) : stored[j] \in [sec : Nat, samples : [1..PerSecond -> Nat]]
    BY <2>1, ElementOfSeq
  <2> QED
    BY <2>2 DEF InvOrder, InvPassed
<1>3. UNCHANGED <<buf, index, stored>>
  BY SampleTaken
<1>4. \/ cache' = cache /\ tick' \in {tick, tick + 1}
      \/ cache' = Append(cache, tick) /\ tick' = tick + 1
  BY SampleTaken
<1>5. InvQueue' /\ InvPassed'
  <2>1. CASE cache' = cache /\ tick' \in {tick, tick + 1}
    <3>1. PICK u \in Nat : tick' = u /\ tick <= u
      BY <1>1, <2>1
    <3>2. Rising(cache, u) /\ Older(buf, cache, u)
      BY <1>1, <3>1, TimePasses
    <3>3. InvQueue'
      BY <1>1, <1>3, <2>1, <3>1, <3>2 DEF InvQueue
    <3>4. \A j \in 1 .. Len(stored) : Passed(stored[j].sec, buf, index, cache, u)
      BY <1>1, <1>2, <3>1, TimePasses
    <3> QED
      BY <1>3, <2>1, <3>1, <3>3, <3>4 DEF InvPassed
  <2>2. CASE cache' = Append(cache, tick) /\ tick' = tick + 1
    <3>1. Rising(Append(cache, tick), tick + 1) /\ Older(buf, Append(cache, tick), tick + 1)
      BY <1>1, QueueGrows
    <3>2. InvQueue'
      BY <1>1, <1>3, <2>2, <3>1 DEF InvQueue
    <3>3. \A j \in 1 .. Len(stored) :
            Passed(stored[j].sec, buf, index, Append(cache, tick), tick + 1)
      BY <1>1, <1>2, QueueGrows
    <3> QED
      BY <1>3, <2>2, <3>2, <3>3 DEF InvPassed
  <2> QED
    BY <1>4, <2>1, <2>2
<1>6. InvStoredType' /\ InOrder'
  BY <1>3 DEF InvOrder, InvStoredType, InOrder
<1> QED
  BY <1>5, <1>6 DEF InvOrder

\* Counting round the array never leads beyond where counting on would.
LEMMA Wraps ==
  ASSUME NEW x \in Nat
  PROVE  /\ x % Size \in 0 .. Size - 1 /\ x % Size <= x
         /\ x < Size => x % Size = x
         /\ x >= Size /\ x < 2 * Size => x % Size = x - Size
<1> DEFINE d == x \div Size
           r == x % Size
<1>1. Size \in Nat /\ Size > 0
  BY Lengths
<1>2. d \in Int /\ r \in 0 .. Size - 1 /\ x = Size * d + r
  BY <1>1, SMT
<1> HIDE DEF d, r
<1>3. ASSUME d <= 0 - 1 PROVE FALSE
  <2>1. Size * d <= Size * (0 - 1)
    BY <1>1, <1>2, <1>3, SMT
  <2> QED
    BY <1>1, <1>2, <2>1, SMT
<1>4. Size * d >= 0
  <2>1. d >= 0
    BY <1>2, <1>3
  <2> QED
    BY <1>1, <1>2, <2>1, SMT
<1>5. r <= x
  BY <1>1, <1>2, <1>4, SMT
<1>6. d <= 0 => r = x
  <2>1. d <= 0 => d = 0
    BY <1>2, <1>3
  <2> QED
    BY <1>1, <1>2, <2>1, SMT
<1>7. ASSUME d >= 2 PROVE x >= 2 * Size
  <2>1. Size * d >= Size * 2
    BY <1>1, <1>2, <1>7, SMT
  <2> QED
    BY <1>1, <1>2, <2>1, SMT
<1>8. d = 1 => r = x - Size
  BY <1>1, <1>2, SMT
<1>9. ASSUME d >= 1 PROVE x >= Size
  <2>1. Size * d >= Size * 1
    BY <1>1, <1>2, <1>9, SMT
  <2> QED
    BY <1>1, <1>2, <2>1, SMT
<1>10. x < Size => r = x
  BY <1>1, <1>2, <1>6, <1>9
<1>11. x >= Size /\ x < 2 * Size => r = x - Size
  BY <1>1, <1>2, <1>6, <1>7, <1>8
<1> QED
  BY <1>2, <1>5, <1>10, <1>11 DEF r

\* The batch that is taken from a queue, and what stays in it.
Front(q) == SubSeq(q, 1, Batch)
Rest(q) == SubSeq(q, Batch + 1, Len(q))

\* The samples taken from the front of a queue are in their order, and older
\* than those that stay.
LEMMA FrontAndRest ==
  ASSUME NEW q, NEW t \in Nat, Rising(q, t), Len(q) >= Batch,
         NEW o, o = Front(q), NEW r, r = Rest(q)
  PROVE  /\ Len(o) = Batch /\ Rising(o, t) /\ Rising(r, t)
         /\ \A j \in 1 .. Len(o) : o[j] = q[j]
         /\ Len(r) = Len(q) - Batch
         /\ \A j \in 1 .. Len(r) : Batch + j \in 1 .. Len(q) /\ r[j] = q[Batch + j]
         /\ \A i \in 1 .. Len(o), j \in 1 .. Len(r) : o[i] < r[j]
<1>1. q \in Seq(Nat) /\ Len(q) \in Nat /\ \A j \in 1 .. Len(q) : q[j] \in Nat
  BY DEF Rising
<1>2. /\ o \in Seq(Nat) /\ Len(o) = Batch
      /\ \A j \in 1 .. Batch : j \in 1 .. Len(q) /\ o[j] = q[j]
  <2>1. \A j \in 1 .. Batch : j \in 1 .. Len(q) /\ q[j] \in Nat
    BY <1>1, Lengths
  <2>2. o \in Seq(Nat) /\ Len(o) = Batch /\ \A j \in 1 .. Batch : o[j] = q[1 + j - 1]
    BY <1>1, <2>1, Lengths, SubSeqProperties DEF Front
  <2>3. \A j \in 1 .. Batch : 1 + j - 1 = j
    BY Lengths
  <2> QED
    BY <2>1, <2>2, <2>3
<1>3. /\ r \in Seq(Nat) /\ Len(r) = Len(q) - Batch
      /\ \A j \in 1 .. Len(r) : Batch + j \in 1 .. Len(q) /\ r[j] = q[Batch + j]
  <2>1. /\ Batch + 1 \in Int /\ Len(q) \in Int
        /\ \A i \in Batch + 1 .. Len(q) : q[i] \in Nat
    BY <1>1, Lengths
  <2>2. /\ r \in Seq(Nat)
        /\ Len(r) = IF Batch + 1 <= Len(q) THEN Len(q) - (Batch + 1) + 1 ELSE 0
        /\ \A j \in 1 .. Len(q) - (Batch + 1) + 1 : r[j] = q[Batch + 1 + j - 1]
    BY <2>1, SubSeqProperties DEF Rest
  <2>3. Len(r) = Len(q) - Batch
    BY <1>1, <2>2, Lengths
  <2>4. ASSUME NEW j \in 1 .. Len(r) PROVE Batch + j \in 1 .. Len(q) /\ r[j] = q[Batch + j]
    <3>1. j \in 1 .. Len(q) - (Batch + 1) + 1 /\ Batch + 1 + j - 1 = Batch + j
      BY <1>1, <2>3, Lengths
    <3> QED
      BY <1>1, <2>2, <2>3, <3>1, Lengths
  <2> QED
    BY <2>2, <2>3, <2>4
<1>4. Rising(o, t)
  <2>1. \A j \in 1 .. Len(o) : o[j] < t
    BY <1>2 DEF Rising
  <2>2. \A i, j \in 1 .. Len(o) : i < j => o[i] < o[j]
    BY <1>2 DEF Rising
  <2> QED
    BY <1>2, <2>1, <2>2 DEF Rising
<1>5. Rising(r, t)
  <2>1. \A j \in 1 .. Len(r) : r[j] < t
    BY <1>3 DEF Rising
  <2>2. ASSUME NEW i \in 1 .. Len(r), NEW j \in 1 .. Len(r), i < j PROVE r[i] < r[j]
    <3>1. Batch + i < Batch + j
      BY <1>1, <1>3, <2>2, Lengths
    <3> QED
      BY <1>3, <3>1 DEF Rising
  <2> QED
    BY <1>3, <2>1, <2>2 DEF Rising
<1>6. ASSUME NEW i \in 1 .. Len(o), NEW j \in 1 .. Len(r) PROVE o[i] < r[j]
  <2>1. i < Batch + j
    BY <1>1, <1>2, <1>3, Lengths
  <2> QED
    BY <1>2, <1>3, <2>1 DEF Rising
<1> QED
  BY <1>2, <1>3, <1>4, <1>5, <1>6

\* The buffer with a batch behind what is in it, place by place.
LEMMA FilledPlaces ==
  ASSUME InvOrder, NEW o, Len(o) = Batch, NEW b, b = Filled(o)
  PROVE  /\ \A p \in 0 .. index - 1 : b[p] = buf[p]
         /\ \A i \in 1 .. Batch : b[index + i - 1] = o[i]
         /\ \A p \in Places : b[p] = buf[p] \/ \E i \in 1 .. Batch : p = index + i - 1
<1>1. /\ buf \in [Places -> Nat] /\ index \in Nat /\ index < Size
      /\ Batch \in Nat /\ Batch > 0 /\ Size \in Nat
  BY Lengths DEF InvOrder, InvQueue
<1>2. b = [p \in Places |-> IF index <= p /\ p < index + Batch
                            THEN o[p - index + 1] ELSE buf[p]]
  BY <1>1 DEF Filled
<1>3. \A p \in Places : p \in Nat
  BY <1>1 DEF Places
<1>4. ASSUME NEW p \in 0 .. index - 1 PROVE b[p] = buf[p]
  <2>1. p \in Places /\ ~(index <= p)
    BY <1>1 DEF Places
  <2> QED
    BY <1>2, <2>1
<1>5. ASSUME NEW i \in 1 .. Batch PROVE b[index + i - 1] = o[i]
  <2>1. /\ index + i - 1 \in Places /\ index <= index + i - 1
        /\ index + i - 1 < index + Batch /\ (index + i - 1) - index + 1 = i
    BY <1>1 DEF Places
  <2> QED
    BY <1>2, <2>1
<1>6. ASSUME NEW p \in Places PROVE b[p] = buf[p] \/ \E i \in 1 .. Batch : p = index + i - 1
  <2>1. CASE index <= p /\ p < index + Batch
    <3>1. p - index + 1 \in 1 .. Batch /\ p = index + (p - index + 1) - 1
      BY <1>1, <1>3, <2>1
    <3> QED
      BY <3>1
  <2>2. CASE ~(index <= p /\ p < index + Batch)
    BY <1>2, <2>2
  <2> QED
    BY <2>1, <2>2
<1> QED
  BY <1>4, <1>5, <1>6

\* And its order.
LEMMA FilledOrder ==
  ASSUME InvOrder, NEW o, NEW r, Len(o) = Batch, Rising(o, tick), Rising(r, tick),
         \A i \in 1 .. Len(o) : \E k \in 1 .. Len(cache) : o[i] = cache[k],
         \A j \in 1 .. Len(r) : \E k \in 1 .. Len(cache) : r[j] = cache[k],
         \A i \in 1 .. Len(o), j \in 1 .. Len(r) : o[i] < r[j],
         NEW b, b = Filled(o)
  PROVE  /\ b \in [Places -> Nat] /\ MarksRise(b, index + Batch) /\ Older(b, r, tick)
         /\ \A s \in Nat : Passed(s, buf, index, cache, tick)
                             => Passed(s, b, index + Batch, r, tick)
<1>1. /\ cache \in Seq(Nat) /\ tick \in Nat /\ Len(cache) \in Nat
      /\ buf \in [Places -> Nat] /\ index \in Nat /\ index < Size
      /\ MarksRise(buf, index) /\ Older(buf, cache, tick)
  BY Lengths DEF InvOrder, InvQueue, Rising
<1>2. /\ o \in Seq(Nat) /\ \A i \in 1 .. Batch : o[i] \in Nat /\ o[i] < tick
      /\ \A i, j \in 1 .. Batch : i < j => o[i] < o[j]
  BY DEF Rising
<1>3. Batch \in Nat /\ Batch > 0 /\ Size \in Nat
  BY Lengths
<1>4. /\ b = [p \in Places |-> IF index <= p /\ p < index + Batch
                               THEN o[p - index + 1] ELSE buf[p]]
  BY <1>1 DEF Filled
<1>5. \A p \in Places : p \in Nat
  BY <1>3 DEF Places
<1>6. ASSUME NEW p \in Places
      PROVE  \/ b[p] = buf[p] /\ ~(index <= p /\ p < index + Batch)
             \/ /\ index <= p /\ p < index + Batch /\ p - index + 1 \in 1 .. Batch
                /\ b[p] = o[p - index + 1]
  <2>1. CASE index <= p /\ p < index + Batch
    <3>1. p - index + 1 \in 1 .. Batch
      BY SMTT(30), <1>1, <1>3, <1>5, <2>1
    <3> QED
      BY <1>4, <2>1, <3>1
  <2>2. CASE ~(index <= p /\ p < index + Batch)
    BY <1>4, <2>2
  <2> QED
    BY <2>1, <2>2
<1>7. b \in [Places -> Nat]
  <2>1. \A p \in Places : b[p] \in Nat
    BY <1>1, <1>2, <1>6
  <2> QED
    BY <1>4, <2>1
<1>8. \A k \in 0 .. (index + Batch) - 1 : k \in Places
  BY <1>1, <1>3 DEF Places
<1>9. \A p \in 0 .. index - 1 : b[p] = buf[p]
  BY FilledPlaces
<1>11. Older(b, r, tick)
  <2>1. ASSUME NEW p \in Places
        PROVE  b[p] < tick /\ \A j \in 1 .. Len(r) : b[p] < r[j]
    <3>1. CASE b[p] = buf[p]
      BY <1>1, <3>1 DEF Older
    <3>2. CASE p - index + 1 \in 1 .. Batch /\ b[p] = o[p - index + 1]
      BY <1>2, <3>2
    <3> QED
      BY <1>6, <3>1, <3>2
  <2> QED
    BY <2>1 DEF Older
<1>12. MarksRise(b, index + Batch)
  <2>1. SUFFICES ASSUME NEW p \in 0 .. (index + Batch) - 1, NEW q \in 0 .. (index + Batch) - 1,
                        p < q, LastOfSecond(b[p]), LastOfSecond(b[q])
                 PROVE  b[p] < b[q]
    BY DEF MarksRise
  <2>2. p \in Places /\ q \in Places /\ p \in Nat /\ q \in Nat
    BY <1>5, <1>8
  <2>3. CASE q < index
    <3>1. p \in 0 .. index - 1 /\ q \in 0 .. index - 1
      BY <1>1, <2>1, <2>2, <2>3
    <3> QED
      BY <1>1, <1>9, <2>1, <3>1 DEF MarksRise
  <2>4. CASE p < index /\ ~(q < index)
    <3>1. p \in 0 .. index - 1
      BY <1>1, <2>2, <2>4
    <3>2. q - index + 1 \in 1 .. Batch /\ b[q] = o[q - index + 1]
      BY <1>1, <1>6, <2>2, <2>4
    <3>3. PICK k \in 1 .. Len(cache) : b[q] = cache[k]
      BY <3>2
    <3> QED
      BY <1>1, <1>9, <2>2, <3>1, <3>3 DEF Older
  <2>5. CASE ~(p < index)
    <3>1. /\ p - index + 1 \in 1 .. Batch /\ b[p] = o[p - index + 1]
          /\ q - index + 1 \in 1 .. Batch /\ b[q] = o[q - index + 1]
      <4>1. index <= p /\ p < index + Batch /\ index <= q /\ q < index + Batch
        BY <1>1, <1>3, <2>1, <2>2, <2>5
      <4> QED
        BY <1>6, <2>2, <4>1
    <3>2. p - index + 1 < q - index + 1
      BY <1>1, <2>1, <2>2
    <3> QED
      BY <1>2, <3>1, <3>2
  <2> QED
    BY <2>3, <2>4, <2>5
<1>13. ASSUME NEW s \in Nat, Passed(s, buf, index, cache, tick)
       PROVE  Passed(s, b, index + Batch, r, tick)
  <2> DEFINE l == LastTick(s)
  <2>2. /\ l < tick
        /\ \A k \in 1 .. Len(cache) : l < cache[k]
        /\ \A p \in 1 .. index - 1 : LastOfSecond(buf[p]) => l < buf[p]
    BY <1>13 DEF Passed
  <2> HIDE DEF l
  <2>3. \A k \in 1 .. Len(r) : l < r[k]
    BY <2>2
  <2>4. ASSUME NEW p \in 1 .. (index + Batch) - 1, LastOfSecond(b[p]) PROVE l < b[p]
    <3>1. p \in Places /\ p \in Nat
      BY <1>1, <1>3, <1>5, <1>8
    <3>2. CASE p < index
      <4>1. p \in 1 .. index - 1 /\ p \in 0 .. index - 1
        BY <1>1, <3>1, <3>2
      <4> QED
        BY <1>9, <2>2, <2>4, <4>1
    <3>3. CASE ~(p < index)
      <4>1. p - index + 1 \in 1 .. Batch /\ b[p] = o[p - index + 1]
        BY <1>1, <1>3, <1>6, <3>1, <3>3
      <4>2. PICK k \in 1 .. Len(cache) : b[p] = cache[k]
        BY <4>1
      <4> QED
        BY <2>2, <4>2
    <3> QED
      BY <3>2, <3>3
  <2> QED
    BY <2>2, <2>3, <2>4 DEF Passed, l
<1> QED
  BY <1>7, <1>11, <1>12, <1>13

\* Memory as it was, but for what somebody else wrote behind the array.
Spoilt(c, b) ==
  /\ c \in [Places -> Nat]
  /\ \A k \in Places : c[k] = b[k] \/ (k >= Size /\ c[k] = 0)

\* Samples that move to the front stay in their order: they begin with the one
\* that ended the second, and what got lost behind the array ends none.
LEMMA MovedOrder ==
  ASSUME NEW b \in [Places -> Nat], NEW q, NEW t \in Nat, q \in Seq(Nat), NEW e \in Nat, e < Size + Batch,
         MarksRise(b, e), Older(b, q, t),
         NEW p \in Nat, NEW n \in Nat, p > 1, p + n <= e,
         NEW c, Spoilt(c, b), NEW m, m = Moved(c, p, n)
  PROVE  /\ m \in [Places -> Nat] /\ MarksRise(m, n) /\ Older(m, q, t)
         /\ \A s \in Nat : Passed(s, b, e, q, t) => Passed(s, m, n, q, t)
         /\ LastOfSecond(b[p]) /\ p < e => Passed(Second(b[p]), m, n, q, t)
<1>1. Batch \in Nat /\ Batch > 0 /\ Size \in Nat /\ Size > 0
  BY Lengths
<1>2. \A k \in Places : k \in Nat
  BY <1>1 DEF Places
<1>3. \A k \in 0 .. e - 1 : k \in Places
  BY <1>1 DEF Places
<1>4. \A k \in Places : c[k] \in Nat /\ (c[k] = b[k] \/ c[k] = 0)
  BY DEF Spoilt
<1>5. m = [k \in Places |-> IF k < n THEN c[p + k] ELSE c[k]]
  BY DEF Moved, Spoilt
<1>6. \A k \in Places : k < n => p + k \in 0 .. e - 1 /\ p + k \in Places
  BY <1>2, <1>3
<1>7. m \in [Places -> Nat]
  BY <1>4, <1>5, <1>6
<1>8. ASSUME NEW k \in Places PROVE m[k] = 0 \/ \E h \in Places : m[k] = b[h]
  BY <1>4, <1>5, <1>6
<1>9. Older(m, q, t)
  <2>1. 0 \in Places
    BY <1>1 DEF Places
  <2>2. /\ b[0] < t /\ b[0] \in Nat
        /\ \A j \in 1 .. Len(q) : q[j] \in Nat /\ b[0] < q[j]
    BY <2>1 DEF Older
  <2>3. 0 < t /\ \A j \in 1 .. Len(q) : 0 < q[j]
    BY <2>2
  <2>4. ASSUME NEW k \in Places PROVE m[k] < t /\ \A j \in 1 .. Len(q) : m[k] < q[j]
    BY <1>8, <2>3 DEF Older
  <2> QED
    BY <2>4 DEF Older
<1>10. ASSUME NEW k \in 0 .. n - 1, LastOfSecond(m[k])
       PROVE  k \in Nat /\ p + k \in 1 .. e - 1 /\ m[k] = b[p + k]
  <2>1. k \in Nat /\ k < n /\ k \in 0 .. e - 1
    OBVIOUS
  <2>2. k \in Places /\ p + k \in 1 .. e - 1 /\ p + k \in Places
    BY <1>3, <1>6, <2>1
  <2>3. m[k] = c[p + k]
    BY <1>5, <2>1, <2>2
  <2> QED
    BY <1>4, <1>10, <2>1, <2>2, <2>3, NoMark
<1>11. MarksRise(m, n)
  <2>1. SUFFICES ASSUME NEW k \in 0 .. n - 1, NEW h \in 0 .. n - 1,
                        k < h, LastOfSecond(m[k]), LastOfSecond(m[h])
                 PROVE  m[k] < m[h]
    BY DEF MarksRise
  <2>2. /\ p + k \in 0 .. e - 1 /\ m[k] = b[p + k]
        /\ p + h \in 0 .. e - 1 /\ m[h] = b[p + h]
        /\ p + k < p + h
    <3>1. k \in Nat /\ p + k \in 1 .. e - 1 /\ m[k] = b[p + k]
      BY <1>10, <2>1
    <3>2. h \in Nat /\ p + h \in 1 .. e - 1 /\ m[h] = b[p + h]
      BY <1>10, <2>1
    <3> QED
      BY <2>1, <3>1, <3>2
  <2> QED
    BY <2>1, <2>2 DEF MarksRise
<1>12. ASSUME NEW s \in Nat, Passed(s, b, e, q, t) PROVE Passed(s, m, n, q, t)
  <2>1. ASSUME NEW k \in 1 .. n - 1, LastOfSecond(m[k]) PROVE LastTick(s) < m[k]
    <3>1. p + k \in 1 .. e - 1 /\ m[k] = b[p + k]
      <4>1. k \in 0 .. n - 1
        OBVIOUS
      <4> QED
        BY <1>10, <2>1, <4>1
    <3> QED
      BY <1>12, <2>1, <3>1 DEF Passed
  <2> QED
    BY <1>12, <2>1 DEF Passed
<1>13. ASSUME LastOfSecond(b[p]), p < e PROVE Passed(Second(b[p]), m, n, q, t)
  <2>1. p \in 0 .. e - 1 /\ p \in Places /\ b[p] \in Nat
    BY <1>3, <1>13
  <2>2. LastTick(Second(b[p])) = b[p]
    BY <1>13, <2>1, EndOfSecond
  <2>3. ASSUME NEW k \in 1 .. n - 1, LastOfSecond(m[k]) PROVE b[p] < m[k]
    <3>1. p + k \in 0 .. e - 1 /\ m[k] = b[p + k] /\ p < p + k
      <4>1. k \in 0 .. n - 1 /\ 0 < k
        OBVIOUS
      <4>2. k \in Nat /\ p + k \in 1 .. e - 1 /\ m[k] = b[p + k]
        BY <1>10, <2>3, <4>1
      <4> QED
        BY <4>1, <4>2
    <3> QED
      BY <1>13, <2>1, <2>3, <3>1 DEF MarksRise
  <2>4. b[p] < t /\ \A j \in 1 .. Len(q) : b[p] < q[j]
    BY <2>1 DEF Older
  <2> QED
    BY <2>2, <2>3, <2>4 DEF Passed
<1> QED
  BY <1>7, <1>9, <1>11, <1>12, <1>13

\* The buffer as it was, with the batch from the front of the cache behind it.
BatchIn(b) ==
  /\ \A p \in 0 .. index - 1 : b[p] = buf[p]
  /\ \A i \in 1 .. Batch : i \in 1 .. Len(cache) /\ b[index + i - 1] = cache[i]
  /\ \A p \in Places : b[p] = buf[p] \/ \E i \in 1 .. Batch : p = index + i - 1

\* Where the scan of a batch finds the end of a second.
LEMMA HitPlace ==
  ASSUME InvOrder, NEW i \in 1 .. Batch, NEW p, p = Place(i)
  PROVE  /\ p \in Nat /\ p < Size /\ p \in Places
         /\ Batch - i \in Nat /\ Batch - i < Batch
         /\ p < index + Batch /\ p + (Batch - i) <= index + Batch
         /\ index + i <= Size => p = index + i - 1
         /\ ~(index + i <= Size) => p + 1 < Batch
<1>1. /\ index \in Nat /\ index < Size /\ i \in Nat /\ i >= 1
      /\ Batch \in Nat /\ Batch > 0 /\ Size \in Nat /\ Batch <= PerSecond /\ PerSecond <= Size
      /\ PerSecond \in Nat
  BY Lengths DEF InvOrder, InvQueue
<1>2. PICK x : x = index + i - 1
  OBVIOUS
<1>3. x \in Nat /\ p = x % Size
  BY <1>1, <1>2 DEF Place
<1>4. /\ p \in 0 .. Size - 1 /\ p <= x
      /\ x < Size => p = x
      /\ x >= Size /\ x < 2 * Size => p = x - Size
  BY <1>3, Wraps
<1>5. p \in Places
  BY <1>1, <1>4 DEF Places
<1>6. index + i <= Size => p = index + i - 1
  BY <1>1, <1>2, <1>4
<1>7. ~(index + i <= Size) => p + 1 < Batch
  <2>1. SUFFICES ASSUME ~(index + i <= Size) PROVE p + 1 < Batch
    OBVIOUS
  <2>2. x >= Size /\ x < 2 * Size
    BY <1>1, <1>2, <2>1
  <2>3. p = x - Size
    BY <1>4, <2>2
  <2> QED
    BY <1>1, <1>2, <2>3
<1> QED
  BY <1>1, <1>2, <1>4, <1>5, <1>6, <1>7

\* A round of storage_task that finds a batch: r stays in the cache, b is the
\* buffer with the batch in it.
LEMMA Round ==
  ASSUME InvOrder, storage_task
  PROVE  \E r, b :
    /\ tick' = tick /\ missed' = missed /\ Len(cache) >= Batch
    /\ r = Rest(cache) /\ cache' = r /\ r \in Seq(Nat) /\ Rising(r, tick)
    /\ b \in [Places -> Nat] /\ MarksRise(b, index + Batch) /\ Older(b, r, tick)
    /\ BatchIn(b)
    /\ \A s \in Nat : Passed(s, buf, index, cache, tick) => Passed(s, b, index + Batch, r, tick)
    /\ \/ /\ Hits(b, Batch) = {} /\ buf' = b /\ index' = Place(Batch + 1) /\ stored' = stored
       \/ \E i \in Hits(b, Batch) : \E c :
            /\ \A j \in Hits(b, Batch) : i <= j
            /\ Spoilt(c, b) /\ buf' = Moved(c, Place(i), Batch - i) /\ index' = Batch - i
            /\ \/ stored' = stored
               \/ stored' = Append(stored, [sec |-> Second(b[Place(i)]),
                                            samples |-> [k \in 1..PerSecond |-> b[k - 1]]])
<1>1. /\ Rising(cache, tick) /\ cache \in Seq(Nat) /\ tick \in Nat /\ Len(cache) \in Nat
      /\ Batch \in Nat /\ Batch > 0
  BY Lengths DEF InvOrder, InvQueue, Rising
<1>2. Len(cache) >= Batch /\ tick' = tick /\ missed' = missed
  BY DEF storage_task
<1>3. PICK o : out' = o
  OBVIOUS
<1>4. PICK r : cache' = r
  OBVIOUS
<1>5. o = Front(cache) /\ r = Rest(cache)
  <2>1. Cache!AtMost(Batch, Len(cache)) = Batch
    BY <1>1, <1>2 DEF Cache!AtMost
  <2> QED
    BY <1>3, <1>4, <2>1 DEF storage_task, Cache!Take, Front, Rest
<1>6. /\ Len(o) = Batch /\ Rising(o, tick) /\ Rising(r, tick) /\ r \in Seq(Nat)
      /\ \A i \in 1 .. Len(o) : i \in 1 .. Len(cache) /\ o[i] = cache[i]
      /\ \A j \in 1 .. Len(r) : \E k \in 1 .. Len(cache) : r[j] = cache[k]
      /\ \A i \in 1 .. Len(o), j \in 1 .. Len(r) : o[i] < r[j]
  <2>1. /\ Len(o) = Batch /\ Rising(o, tick) /\ Rising(r, tick)
        /\ \A j \in 1 .. Len(o) : o[j] = cache[j]
        /\ \A j \in 1 .. Len(r) : Batch + j \in 1 .. Len(cache) /\ r[j] = cache[Batch + j]
        /\ \A i \in 1 .. Len(o), j \in 1 .. Len(r) : o[i] < r[j]
    <3>1. tick \in Nat /\ Rising(cache, tick) /\ Len(cache) >= Batch
      BY <1>1, <1>2
    <3> QED
      BY <1>5, <3>1, FrontAndRest
  <2>2. \A j \in 1 .. Len(o) : j \in 1 .. Len(cache)
    BY <1>1, <1>2, <2>1
  <2>3. r \in Seq(Nat)
    BY <2>1 DEF Rising
  <2> QED
    BY <2>1, <2>2, <2>3
<1>7. PICK b : b = Filled(o)
  OBVIOUS
<1>8. /\ b \in [Places -> Nat] /\ MarksRise(b, index + Batch) /\ Older(b, r, tick)
      /\ \A p \in 0 .. index - 1 : b[p] = buf[p]
      /\ \A i \in 1 .. Batch : b[index + i - 1] = o[i]
      /\ \A p \in Places : b[p] = buf[p] \/ \E i \in 1 .. Batch : p = index + i - 1
      /\ \A s \in Nat : Passed(s, buf, index, cache, tick) => Passed(s, b, index + Batch, r, tick)
  <2>1. \A i \in 1 .. Len(o) : \E k \in 1 .. Len(cache) : o[i] = cache[k]
    BY <1>6
  <2>2. /\ Len(o) = Batch /\ Rising(o, tick) /\ Rising(r, tick)
        /\ \A j \in 1 .. Len(r) : \E k \in 1 .. Len(cache) : r[j] = cache[k]
        /\ \A i \in 1 .. Len(o), j \in 1 .. Len(r) : o[i] < r[j]
    BY <1>6
  <2>3. b \in [Places -> Nat] /\ MarksRise(b, index + Batch) /\ Older(b, r, tick)
    BY <1>7, <2>1, <2>2, FilledOrder
  <2>4. /\ \A p \in 0 .. index - 1 : b[p] = buf[p]
        /\ \A i \in 1 .. Batch : b[index + i - 1] = o[i]
        /\ \A p \in Places : b[p] = buf[p] \/ \E i \in 1 .. Batch : p = index + i - 1
    <3>1. Len(o) = Batch
      BY <1>6
    <3>2. \A p \in 0 .. index - 1 : b[p] = buf[p]
      BY <1>7, <3>1, FilledPlaces
    <3>3. \A i \in 1 .. Batch : b[index + i - 1] = o[i]
      BY <1>7, <3>1, FilledPlaces
    <3>4. \A p \in Places : b[p] = buf[p] \/ \E i \in 1 .. Batch : p = index + i - 1
      BY <1>7, <3>1, FilledPlaces
    <3> QED
      BY <3>2, <3>3, <3>4
  <2>7. \A s \in Nat : Passed(s, buf, index, cache, tick) => Passed(s, b, index + Batch, r, tick)
    BY <1>7, <2>1, <2>2, FilledOrder
  <2> QED
    BY <2>3, <2>4, <2>7
<1>9. BatchIn(b)
  BY <1>6, <1>8 DEF BatchIn
<1>10. \/ /\ Hits(b, Batch) = {} /\ buf' = b /\ index' = Place(Batch + 1) /\ stored' = stored
       \/ \E i \in Hits(b, Batch) : \E c :
            /\ \A j \in Hits(b, Batch) : i <= j
            /\ Spoilt(c, b) /\ buf' = Moved(c, Place(i), Batch - i) /\ index' = Batch - i
            /\ \/ stored' = stored
               \/ stored' = Append(stored, [sec |-> Second(b[Place(i)]),
                                            samples |-> [k \in 1..PerSecond |-> b[k - 1]]])
  <2>1. CASE Hits(b, Batch) = {}
    BY <1>3, <1>6, <1>7, <2>1 DEF storage_task
  <2>2. CASE Hits(b, Batch) # {}
    <3>1. PICK i \in Hits(b, Batch) :
            /\ \A j \in Hits(b, Batch) : i <= j
            /\ \/ stored' = Append(stored, [sec |-> Second(b[Place(i)]),
                                            samples |-> [k \in 1..PerSecond |-> b[k - 1]]])
               \/ UNCHANGED stored
            /\ \E lost \in BOOLEAN :
                 buf' = Moved([p \in DOMAIN b |-> IF lost /\ p >= Size THEN 0 ELSE b[p]],
                              Place(i), Batch - i)
            /\ index' = Behind(Batch - i)
      BY <1>3, <1>6, <1>7, <2>2 DEF storage_task
    <3>2. PICK lost \in BOOLEAN :
            buf' = Moved([p \in Places |-> IF lost /\ p >= Size THEN 0 ELSE b[p]],
                         Place(i), Batch - i)
      BY <1>8, <3>1
    <3> DEFINE c == [p \in Places |-> IF lost /\ p >= Size THEN 0 ELSE b[p]]
    <3>3. Spoilt(c, b)
      BY <1>8 DEF Spoilt
    <3>4. buf' = Moved(c, Place(i), Batch - i)
      BY <3>2
    <3> HIDE DEF c
    <3>5. index' = Batch - i
      BY <3>1 DEF Behind
    <3> QED
      BY <3>1, <3>3, <3>4, <3>5
  <2> QED
    BY <2>1, <2>2
<1> WITNESS r, b
<1> QED
  BY <1>2, <1>4, <1>5, <1>6, <1>8, <1>9, <1>10, Zenon

\* What a batch leaves behind when a second ends in it.
LEMMA MovedBatch ==
  ASSUME InvOrder, NEW r \in Seq(Nat), NEW b \in [Places -> Nat], MarksRise(b, index + Batch),
         Older(b, r, tick), NEW i \in Hits(b, Batch), NEW p, p = Place(i),
         NEW c, Spoilt(c, b), NEW m, m = Moved(c, p, Batch - i)
  PROVE  /\ m \in [Places -> Nat] /\ MarksRise(m, Batch - i) /\ Older(m, r, tick)
         /\ \A s \in Nat : Passed(s, b, index + Batch, r, tick) => Passed(s, m, Batch - i, r, tick)
         /\ Passed(Second(b[p]), m, Batch - i, r, tick)
<1>1. PICK e : e = index + Batch
  OBVIOUS
<1>2. PICK n : n = Batch - i
  OBVIOUS
<1>3. i \in 1 .. Batch /\ LastOfSecond(b[p]) /\ p > 1
  BY DEF Hits, EndsSecond
<1>4. e \in Nat /\ e < Size + Batch /\ tick \in Nat
  BY <1>1, Lengths DEF InvOrder, InvQueue, Rising
<1>5. p \in Nat /\ n \in Nat /\ p + n <= e /\ p < e
  BY <1>1, <1>2, <1>3, HitPlace
<1>6. MarksRise(b, e) /\ m = Moved(c, p, n)
  BY <1>1, <1>2
<1>7. /\ m \in [Places -> Nat] /\ MarksRise(m, n) /\ Older(m, r, tick)
      /\ \A s \in Nat : Passed(s, b, e, r, tick) => Passed(s, m, n, r, tick)
      /\ Passed(Second(b[p]), m, n, r, tick)
  BY ZenonT(30), <1>3, <1>4, <1>5, <1>6, MovedOrder
<1> QED
  BY <1>1, <1>2, <1>7

\* A second is stored later than all before it, or the samples run into the
\* next one; either way their order stays.
LEMMA StorageOrder == InvOrder /\ storage_task => InvOrder'
<1> SUFFICES ASSUME InvOrder, storage_task PROVE InvOrder'
  OBVIOUS
<1>1. /\ tick \in Nat /\ index \in Nat /\ index < Size
      /\ Batch \in Nat /\ Batch > 0 /\ Size \in Nat /\ PerSecond <= Size /\ Batch <= PerSecond
  BY Lengths DEF InvOrder, InvQueue, Rising
<1>2. PICK r, b :
        /\ tick' = tick /\ cache' = r /\ r \in Seq(Nat) /\ Rising(r, tick)
        /\ b \in [Places -> Nat] /\ MarksRise(b, index + Batch) /\ Older(b, r, tick)
        /\ \A s \in Nat : Passed(s, buf, index, cache, tick) => Passed(s, b, index + Batch, r, tick)
        /\ \/ /\ Hits(b, Batch) = {} /\ buf' = b /\ index' = Place(Batch + 1) /\ stored' = stored
           \/ \E i \in Hits(b, Batch) : \E c :
                /\ Spoilt(c, b) /\ buf' = Moved(c, Place(i), Batch - i) /\ index' = Batch - i
                /\ \/ stored' = stored
                   \/ stored' = Append(stored, [sec |-> Second(b[Place(i)]),
                                                samples |-> [k \in 1..PerSecond |-> b[k - 1]]])
  BY Round
<1>4. cache' = r
  BY <1>2
<1>6. Rising(r, tick) /\ r \in Seq(Nat)
  BY <1>2
<1>8. /\ b \in [Places -> Nat] /\ MarksRise(b, index + Batch) /\ Older(b, r, tick)
      /\ \A j \in 1 .. Len(stored) : Passed(stored[j].sec, b, index + Batch, r, tick)
  <2>1. stored \in Seq([sec : Nat, samples : [1..PerSecond -> Nat]])
    BY DEF InvOrder, InvStoredType
  <2>2. \A j \in 1 .. Len(stored) :
          stored[j].sec \in Nat /\ Passed(stored[j].sec, buf, index, cache, tick)
    <3>1. \A j \in 1 .. Len(stored) : stored[j] \in [sec : Nat, samples : [1..PerSecond -> Nat]]
      BY <2>1, ElementOfSeq
    <3> QED
      BY <3>1 DEF InvOrder, InvPassed
  <2> QED
    BY <1>2, <2>2
<1>9. index + Batch \in Nat /\ index + Batch < Size + Batch
  BY <1>1
<1>10. /\ stored \in Seq([sec : Nat, samples : [1..PerSecond -> Nat]])
       /\ \A j \in 1 .. Len(stored) : stored[j] \in [sec : Nat, samples : [1..PerSecond -> Nat]]
  <2>1. stored \in Seq([sec : Nat, samples : [1..PerSecond -> Nat]])
    BY DEF InvOrder, InvStoredType
  <2> QED
    BY <2>1, ElementOfSeq
<1>11. CASE buf' = b /\ index' = Place(Batch + 1) /\ stored' = stored
  <2>1. buf' = b /\ index' = Place(Batch + 1) /\ stored' = stored
    BY <1>11
  <2>2. PICK n : n = Place(Batch + 1)
    OBVIOUS
  <2>3. n \in 0 .. Size - 1 /\ n <= index + Batch
    <3>1. index + (Batch + 1) - 1 = index + Batch
      BY <1>1
    <3> QED
      BY <1>9, <2>2, <3>1, Wraps DEF Place
  <2>4. MarksRise(b, n)
    <3>1. \A p \in 0 .. n - 1 : p \in 0 .. (index + Batch) - 1
      BY <1>9, <2>3
    <3> QED
      BY <1>8, <3>1 DEF MarksRise
  <2>5. ASSUME NEW j \in 1 .. Len(stored) PROVE Passed(stored[j].sec, b, n, r, tick)
    <3>1. \A p \in 1 .. n - 1 : p \in 1 .. (index + Batch) - 1
      BY <1>9, <2>3
    <3> QED
      BY <1>8, <3>1 DEF Passed
  <2>6. InvQueue'
    BY <1>2, <1>4, <1>6, <1>8, <2>1, <2>2, <2>3, <2>4 DEF InvQueue
  <2>7. InvPassed'
    BY <1>2, <1>4, <2>1, <2>2, <2>5 DEF InvPassed
  <2>8. InvStoredType' /\ InOrder'
    BY <2>1 DEF InvOrder, InvStoredType, InOrder
  <2> QED
    BY <2>6, <2>7, <2>8 DEF InvOrder
<1>12. ASSUME NEW i \in Hits(b, Batch), NEW c, Spoilt(c, b),
              buf' = Moved(c, Place(i), Batch - i), index' = Batch - i,
              \/ stored' = stored
              \/ stored' = Append(stored, [sec |-> Second(b[Place(i)]),
                                           samples |-> [k \in 1..PerSecond |-> b[k - 1]]])
       PROVE  InvOrder'
  <2>2. PICK p : p = Place(i)
    OBVIOUS
  <2>3. i \in 1 .. Batch /\ LastOfSecond(b[p]) /\ p > 1
    BY <2>2 DEF Hits, EndsSecond
  <2>4. /\ p \in Nat /\ p < Size /\ p \in Places
        /\ Batch - i \in Nat /\ p + (Batch - i) <= index + Batch /\ p < index + Batch
        /\ Batch - i < Size
    <3>1. /\ p \in Nat /\ p < Size /\ p \in Places
          /\ Batch - i \in Nat /\ Batch - i < Batch
          /\ p + (Batch - i) <= index + Batch /\ p < index + Batch
      BY <2>2, <2>3, HitPlace
    <3> QED
      BY <1>1, <3>1, Lengths
  <2>6. PICK m : buf' = m
    OBVIOUS
  <2>7. /\ m \in [Places -> Nat] /\ MarksRise(m, Batch - i) /\ Older(m, r, tick)
        /\ \A s \in Nat : Passed(s, b, index + Batch, r, tick) => Passed(s, m, Batch - i, r, tick)
        /\ Passed(Second(b[p]), m, Batch - i, r, tick)
    <3>1. m = Moved(c, p, Batch - i)
      BY <1>12, <2>2, <2>6
    <3> QED
      BY <1>6, <1>8, <1>12, <2>2, <3>1, MovedBatch
  <2>8. index' = Batch - i
    BY <1>12
  <2>9. InvQueue'
    <3>1. Batch - i \in 0 .. Size - 1
      BY <1>1, <2>4
    <3> QED
      BY <1>2, <1>4, <1>6, <2>6, <2>7, <2>8, <3>1 DEF InvQueue
  <2>10. \A j \in 1 .. Len(stored) : Passed(stored[j].sec, m, Batch - i, r, tick)
    BY <1>8, <1>10, <2>7
  <2>11. CASE stored' = stored
    <3>1. InvPassed'
      BY <1>2, <1>4, <2>6, <2>8, <2>10, <2>11 DEF InvPassed
    <3>2. InvStoredType' /\ InOrder'
      BY <2>11 DEF InvOrder, InvStoredType, InOrder
    <3> QED
      BY <2>9, <3>1, <3>2 DEF InvOrder
  <2>12. CASE stored' = Append(stored, [sec |-> Second(b[Place(i)]),
                                        samples |-> [k \in 1..PerSecond |-> b[k - 1]]])
    <3> DEFINE z == [sec |-> Second(b[p]), samples |-> [k \in 1..PerSecond |-> b[k - 1]]]
    <3>1. /\ p \in Places /\ b[p] \in Nat
          /\ Second(b[p]) \in Nat /\ LastTick(Second(b[p])) = b[p]
      <4>1. p \in Places
        BY <2>4
      <4> QED
        BY <1>8, <2>3, <4>1, EndOfSecond
    <3>2. z \in [sec : Nat, samples : [1..PerSecond -> Nat]] /\ z.sec = Second(b[p])
      <4>1. \A k \in 1 .. PerSecond : k - 1 \in Places
        BY <1>1, Lengths DEF Places
      <4>2. \A k \in 1 .. PerSecond : b[k - 1] \in Nat
        BY <1>8, <4>1
      <4> QED
        BY <3>1, <4>2
    <3>3. stored' = Append(stored, z)
      BY <2>2, <2>12
    <3> HIDE DEF z
    <3>4. PICK st : st = Append(stored, z)
      OBVIOUS
    <3>5. /\ st \in Seq([sec : Nat, samples : [1..PerSecond -> Nat]])
          /\ Len(st) = Len(stored) + 1
          /\ \A j \in 1 .. Len(stored) : st[j] = stored[j]
          /\ st[Len(stored) + 1] = z
      BY <1>10, <3>2, <3>4, AppendProperties
    <3>6. Len(stored) \in Nat
      BY <1>10
    <3>7. \A j \in 1 .. Len(st) : j \in 1 .. Len(stored) \/ j = Len(stored) + 1
      BY <3>5, <3>6
    <3>8. \A j \in 1 .. Len(st) : Passed(st[j].sec, m, Batch - i, r, tick)
      BY <2>7, <2>10, <3>2, <3>5, <3>7
    <3>9. InvPassed'
      BY <1>2, <1>4, <2>6, <2>8, <3>3, <3>4, <3>8 DEF InvPassed
    <3>10. ASSUME NEW j \in 1 .. Len(stored) PROVE stored[j].sec < z.sec
      <4>1. Passed(stored[j].sec, b, index + Batch, r, tick)
        BY <1>8
      <4>2. p \in 1 .. (index + Batch) - 1
        BY <1>9, <2>3, <2>4
      <4>3. LastTick(stored[j].sec) < b[p]
        BY <2>3, <4>1, <4>2 DEF Passed
      <4>4. stored[j].sec \in Nat
        BY <1>10
      <4> QED
        BY <3>1, <3>2, <4>3, <4>4, LaterSecond
    <3>11. \A g, h \in 1 .. Len(st) : g < h => st[g].sec < st[h].sec
      <4>1. SUFFICES ASSUME NEW g \in 1 .. Len(st), NEW h \in 1 .. Len(st), g < h
                     PROVE  st[g].sec < st[h].sec
        OBVIOUS
      <4>2. g \in 1 .. Len(stored)
        BY <3>5, <3>6, <4>1
      <4>3. CASE h = Len(stored) + 1
        BY <3>5, <3>10, <4>2, <4>3
      <4>4. CASE h \in 1 .. Len(stored)
        <5>1. stored[g].sec < stored[h].sec
          BY <4>1, <4>2, <4>4 DEF InvOrder, InOrder
        <5> QED
          BY <3>5, <4>2, <4>4, <5>1
      <4> QED
        BY <3>7, <4>3, <4>4
    <3>12. InvStoredType' /\ InOrder'
      <4>1. DOMAIN st = 1 .. Len(st)
        BY <3>5
      <4> QED
        BY <3>3, <3>4, <3>5, <3>11, <4>1 DEF InvStoredType, InOrder
    <3> QED
      BY <2>9, <3>9, <3>12 DEF InvOrder
  <2> QED
    BY <1>12, <2>11, <2>12
<1> QED
  BY <1>2, <1>11, <1>12

LEMMA AlwaysInOrder == Spec => []InvOrder
<1>1. InvOrder /\ [Next]_vars => InvOrder'
  <2> SUFFICES ASSUME InvOrder, [Next]_vars PROVE InvOrder'
    OBVIOUS
  <2>1. CASE UNCHANGED vars
    BY <2>1 DEF vars, InvOrder, InvStoredType, InvQueue, InvPassed, InOrder
  <2> QED
    BY <2>1, SampleOrder, StorageOrder DEF Next
<1> QED
  BY <1>1, InitOrder, PTL DEF Spec

\* Whatever sample_task leaves out and however the index of storage_task wraps,
\* the seconds go to the eMMC in their order and none goes there twice.
THEOREM SecondsInOrder == Spec => []InOrder
<1>1. InvOrder => InOrder
  BY DEF InvOrder
<1> QED
  BY <1>1, AlwaysInOrder, PTL
----------------------------------------------------------------------------
(***************************************************************************)
(* A second that follows one that was stored: while no sample of it is     *)
(* left out its samples come one after the other, and the buffer holds the *)
(* first of them, but for the one that was left behind when the second     *)
(* before was stored (number c, and no sample is missing if c is 0).       *)
(***************************************************************************)
\* The samples of a queue are as far apart as their numbers at least, and are
\* followed by the next ones as far as these are in time and not left out.
Packed(q, t, left) ==
  /\ \A i, j \in 1 .. Len(q) : i < j => q[i] + (j - i) <= q[j]
  /\ \A j \in 1 .. Len(q), d \in Nat :
       q[j] + d < t /\ (\A x \in q[j] + 1 .. q[j] + d : x \notin left)
         => j + d <= Len(q) /\ q[j + d] = q[j] + d

\* The first n samples in the buffer are those from tick l on, one left behind.
Holding(l, b, n) ==
  \E c \in 0 .. n : /\ \A p \in 0 .. c - 1 : b[p] = l + p
                    /\ \A p \in c .. n - 1 : b[p] = l + p + 1

\* And the queue goes on from there, as far as time has come, to the end of the second.
GoesOn(l, n, q, t) ==
  /\ l + n < t
  /\ \A j \in 1 .. Len(q) : l + n < q[j]
  /\ \A d \in n + 1 .. PerSecond : l + d < t => d - n <= Len(q) /\ q[d - n] = l + d

Follows(l, b, n, q, t) == n < PerSecond /\ Holding(l, b, n) /\ GoesOn(l, n, q, t)

\* A second was stored with its last sample in it, and none of the next is left out.
Clean(s, left) ==
  /\ left \cap Ticks(s.sec + 1) = {}
  /\ \E k \in Batch .. PerSecond : s.samples[k] = LastTick(s.sec)

\* The second after the last one that was stored is on its way, or has passed
\* without being stored.
InvFollows ==
  stored # <<>> =>
    LET s == stored[Len(stored)]
    IN Clean(s, missed) => \/ Follows(LastTick(s.sec), buf, index, cache, tick)
                           \/ Passed(s.sec + 1, buf, index, cache, tick)

InvAlmost ==
  InvOrder /\ Packed(cache, tick, missed) /\ InvFollows /\ AlmostWhole
----------------------------------------------------------------------------
\* From the last sample of a second to the last of the next one.
LEMMA NextSecond ==
  ASSUME NEW z \in Nat, NEW l, l = LastTick(z)
  PROVE  /\ l \in Nat /\ LastOfSecond(l) /\ Second(l) = z
         /\ \A d \in 1 .. PerSecond - 1 : ~LastOfSecond(l + d)
         /\ LastOfSecond(l + PerSecond) /\ Second(l + PerSecond) = z + 1
         /\ LastTick(z + 1) = l + PerSecond
         /\ Ticks(z + 1) = l + 1 .. l + PerSecond
         /\ (z + 1) * PerSecond - 1 = l
<1>1. PerSecond \in Nat /\ PerSecond > 2
  BY Lengths
<1> DEFINE base == z * PerSecond
<1>2. base \in Nat /\ (z + 1) * PerSecond = base + PerSecond /\ l = base + (PerSecond - 1)
  BY <1>1, SMT DEF LastTick
<1>3. LastOfSecond(l) /\ Second(l) = z
  BY <1>1, DivMod DEF LastOfSecond, Second, LastTick
<1>4. ASSUME NEW d \in 1 .. PerSecond
      PROVE  /\ (l + d) \div PerSecond = z + 1 /\ (l + d) % PerSecond = d - 1
  <2>1. l + d = (z + 1) * PerSecond + (d - 1)
    <3> HIDE DEF base
    <3> QED
      BY <1>1, <1>2
  <2>2. d - 1 \in 0 .. PerSecond - 1
    BY <1>1
  <2> QED
    BY <2>1, <2>2, DivMod
<1> HIDE DEF base
<1>5. \A d \in 1 .. PerSecond - 1 : ~LastOfSecond(l + d)
  <2>1. ASSUME NEW d \in 1 .. PerSecond - 1 PROVE (l + d) % PerSecond # PerSecond - 1
    <3>1. d \in 1 .. PerSecond /\ d - 1 # PerSecond - 1
      BY <1>1
    <3> QED
      BY <1>4, <3>1
  <2> QED
    BY <2>1 DEF LastOfSecond
<1>6. LastOfSecond(l + PerSecond) /\ Second(l + PerSecond) = z + 1
  <2>1. PerSecond \in 1 .. PerSecond
    BY <1>1
  <2> QED
    BY <1>4, <2>1 DEF LastOfSecond, Second
<1>7. LastTick(z + 1) = l + PerSecond
  BY <1>1, <1>2 DEF LastTick
<1>8. Ticks(z + 1) = l + 1 .. l + PerSecond
  BY <1>1, <1>2 DEF Ticks
<1>9. (z + 1) * PerSecond - 1 = l /\ l \in Nat
  BY <1>1, <1>2
<1> QED
  BY <1>3, <1>5, <1>6, <1>7, <1>8, <1>9

\* A tick goes by: the sample is put into the queue, or left out.
LEMMA PackedGrows ==
  ASSUME NEW q, NEW t \in Nat, NEW left, Rising(q, t), Packed(q, t, left)
  PROVE  Packed(Append(q, t), t + 1, left)
<1>1. /\ q \in Seq(Nat) /\ Len(q) \in Nat /\ \A j \in 1 .. Len(q) : q[j] \in Nat /\ q[j] < t
      /\ \A i, j \in 1 .. Len(q) : i < j => q[i] < q[j]
  BY DEF Rising
<1>2. /\ \A i, j \in 1 .. Len(q) : i < j => q[i] + (j - i) <= q[j]
      /\ \A j \in 1 .. Len(q), d \in Nat :
           q[j] + d < t /\ (\A x \in q[j] + 1 .. q[j] + d : x \notin left)
             => j + d <= Len(q) /\ q[j + d] = q[j] + d
  BY DEF Packed
<1> DEFINE a == Append(q, t)
<1>3. /\ a \in Seq(Nat) /\ Len(a) = Len(q) + 1
      /\ \A j \in 1 .. Len(q) : a[j] = q[j]
      /\ a[Len(q) + 1] = t
  BY <1>1, AppendProperties
<1> HIDE DEF a
<1>4. \A j \in 1 .. Len(a) : (j \in 1 .. Len(q) /\ a[j] = q[j]) \/ (j = Len(q) + 1 /\ a[j] = t)
  BY <1>1, <1>3
<1>5. ASSUME NEW i \in 1 .. Len(a), NEW j \in 1 .. Len(a), i < j PROVE a[i] + (j - i) <= a[j]
  <2>1. i \in 1 .. Len(q) /\ a[i] = q[i] /\ q[i] \in Nat
    BY SMTT(30), <1>1, <1>3, <1>5
  <2>2. CASE j \in 1 .. Len(q)
    BY <1>2, <1>3, <1>5, <2>1, <2>2
  <2>3. CASE j = Len(q) + 1
    <3>1. CASE i = Len(q)
      BY <1>1, <1>3, <2>1, <2>3, <3>1
    <3>2. CASE i < Len(q)
      <4>1. Len(q) \in 1 .. Len(q)
        BY <1>1, <2>1
      <4>2. q[i] + (Len(q) - i) <= q[Len(q)] /\ q[Len(q)] < t /\ q[Len(q)] \in Nat
        BY <1>1, <1>2, <2>1, <3>2, <4>1
      <4> QED
        BY SMTT(30), <1>1, <1>3, <2>1, <2>3, <4>2
    <3> QED
      BY <1>1, <2>1, <3>1, <3>2
  <2> QED
    BY <1>4, <2>2, <2>3
<1>6. ASSUME NEW j \in 1 .. Len(a), NEW d \in Nat, a[j] + d < t + 1,
             \A x \in a[j] + 1 .. a[j] + d : x \notin left
      PROVE  j + d <= Len(a) /\ a[j + d] = a[j] + d
  <2>1. CASE j = Len(q) + 1
    <3>1. d = 0
      BY <1>3, <1>6, <2>1
    <3> QED
      BY <1>1, <1>3, <2>1, <3>1
  <2>2. CASE j \in 1 .. Len(q) /\ a[j] + d < t
    <3>1. a[j] = q[j]
      BY <1>3, <2>2
    <3>2. j + d <= Len(q) /\ q[j + d] = q[j] + d
      BY <1>2, <1>6, <2>2, <3>1
    <3>3. j + d \in 1 .. Len(q)
      BY <1>1, <2>2, <3>2
    <3> QED
      BY <1>1, <1>3, <3>1, <3>2, <3>3
  <2>3. CASE j \in 1 .. Len(q) /\ a[j] + d = t
    <3>1. a[j] = q[j] /\ q[j] \in Nat /\ q[j] < t
      BY <1>1, <1>3, <2>3
    <3>2. d - 1 \in Nat /\ q[j] + (d - 1) < t /\ q[j] + (d - 1) = t - 1
      BY <2>3, <3>1
    <3>3. \A x \in q[j] + 1 .. q[j] + (d - 1) : x \notin left
      <4>1. \A x \in q[j] + 1 .. q[j] + (d - 1) : x \in q[j] + 1 .. q[j] + d
        BY <3>1, <3>2
      <4> QED
        BY <1>6, <3>1, <4>1
    <3>4. j + (d - 1) <= Len(q) /\ q[j + (d - 1)] = t - 1
      BY <1>2, <2>3, <3>2, <3>3
    <3>5. ASSUME j + (d - 1) < Len(q) PROVE FALSE
      <4>1. j + (d - 1) \in 1 .. Len(q) /\ Len(q) \in 1 .. Len(q)
        BY <1>1, <2>3, <3>2, <3>4
      <4>2. q[j + (d - 1)] < q[Len(q)] /\ q[Len(q)] < t /\ q[Len(q)] \in Nat
        BY <1>1, <3>5, <4>1
      <4> QED
        BY <3>4, <4>2
    <3>6. j + d = Len(q) + 1
      <4>1. j \in Nat /\ Len(q) \in Nat
        BY <1>1, <2>3
      <4>2. j + (d - 1) <= Len(q) /\ ~(j + (d - 1) < Len(q))
        BY <3>4, <3>5
      <4> QED
        BY <4>1, <4>2
    <3> QED
      BY <1>3, <2>3, <3>6
  <2> QED
    <3>1. a[j] \in Nat
      BY <1>1, <1>4
    <3> QED
      BY <1>4, <1>6, <2>1, <2>2, <2>3, <3>1
<1> QED
  BY <1>5, <1>6 DEF Packed, a

LEMMA PackedWaits ==
  ASSUME NEW q, NEW t \in Nat, NEW left, NEW more, Rising(q, t), Packed(q, t, left),
         left \subseteq more
  PROVE  /\ Packed(q, t, more)
         /\ t \in more => Packed(q, t + 1, more)
<1>1. /\ q \in Seq(Nat) /\ Len(q) \in Nat /\ \A j \in 1 .. Len(q) : q[j] \in Nat /\ q[j] < t
  BY DEF Rising
<1>2. /\ \A i, j \in 1 .. Len(q) : i < j => q[i] + (j - i) <= q[j]
      /\ \A j \in 1 .. Len(q), d \in Nat :
           q[j] + d < t /\ (\A x \in q[j] + 1 .. q[j] + d : x \notin left)
             => j + d <= Len(q) /\ q[j + d] = q[j] + d
  BY DEF Packed
<1>3. ASSUME NEW j \in 1 .. Len(q), NEW d \in Nat, q[j] + d < t,
             \A x \in q[j] + 1 .. q[j] + d : x \notin more
      PROVE  j + d <= Len(q) /\ q[j + d] = q[j] + d
  BY <1>2, <1>3
<1>4. ASSUME t \in more, NEW j \in 1 .. Len(q), NEW d \in Nat, q[j] + d < t + 1,
             \A x \in q[j] + 1 .. q[j] + d : x \notin more
      PROVE  q[j] + d < t
  <2>1. q[j] \in Nat /\ q[j] < t
    BY <1>1
  <2>2. ASSUME q[j] + d = t PROVE FALSE
    <3>1. t \in q[j] + 1 .. q[j] + d
      BY <2>1, <2>2
    <3> QED
      BY <1>4, <3>1
  <2> QED
    BY <1>4, <2>1, <2>2
<1>5. Packed(q, t, more)
  BY <1>2, <1>3 DEF Packed
<1>6. ASSUME t \in more PROVE Packed(q, t + 1, more)
  BY <1>2, <1>3, <1>4, <1>6 DEF Packed
<1> QED
  BY <1>5, <1>6

\* What stays in the queue when a batch is taken.
LEMMA PackedRest ==
  ASSUME NEW q, NEW t \in Nat, NEW left, Rising(q, t), Packed(q, t, left), Len(q) >= Batch,
         NEW r, r = Rest(q)
  PROVE  Packed(r, t, left)
<1>1. q \in Seq(Nat) /\ Len(q) \in Nat /\ Batch \in Nat /\ \A j \in 1 .. Len(q) : q[j] \in Nat
  BY Lengths DEF Rising
<1>2. /\ Len(r) = Len(q) - Batch
      /\ \A j \in 1 .. Len(r) : Batch + j \in 1 .. Len(q) /\ r[j] = q[Batch + j]
  <2>1. PICK o : o = Front(q)
    OBVIOUS
  <2> QED
    BY <2>1, FrontAndRest
<1>3. ASSUME NEW i \in 1 .. Len(r), NEW j \in 1 .. Len(r), i < j PROVE r[i] + (j - i) <= r[j]
  <2>1. Batch + i < Batch + j /\ (Batch + j) - (Batch + i) = j - i
    BY <1>1, <1>2, <1>3
  <2> QED
    BY <1>2, <2>1 DEF Packed
<1>4. ASSUME NEW j \in 1 .. Len(r), NEW d \in Nat, r[j] + d < t,
             \A x \in r[j] + 1 .. r[j] + d : x \notin left
      PROVE  j + d <= Len(r) /\ r[j + d] = r[j] + d
  <2>1. Batch + j \in 1 .. Len(q) /\ r[j] = q[Batch + j]
    BY <1>2
  <2>2. (Batch + j) + d <= Len(q) /\ q[(Batch + j) + d] = r[j] + d
    BY <1>4, <2>1 DEF Packed
  <2>3. j + d \in 1 .. Len(r) /\ Batch + (j + d) = (Batch + j) + d
    BY <1>1, <1>2, <2>2
  <2> QED
    BY SMTT(30), <1>1, <1>2, <2>2, <2>3
<1> QED
  BY <1>3, <1>4 DEF Packed

\* What follows the last sample of a second goes on while none is left out.
LEMMA GoesOnGrows ==
  ASSUME NEW q, NEW t \in Nat, NEW l \in Nat, NEW n \in Nat, Rising(q, t), GoesOn(l, n, q, t)
  PROVE  GoesOn(l, n, Append(q, t), t + 1)
<1>1. /\ q \in Seq(Nat) /\ Len(q) \in Nat /\ PerSecond \in Nat
      /\ \A j \in 1 .. Len(q) : q[j] \in Nat /\ q[j] < t
      /\ \A i, j \in 1 .. Len(q) : i < j => q[i] < q[j]
  BY Lengths DEF Rising
<1>2. /\ l + n < t
      /\ \A j \in 1 .. Len(q) : l + n < q[j]
      /\ \A d \in n + 1 .. PerSecond : l + d < t => d - n <= Len(q) /\ q[d - n] = l + d
  BY DEF GoesOn
<1> DEFINE a == Append(q, t)
<1>3. /\ a \in Seq(Nat) /\ Len(a) = Len(q) + 1
      /\ \A j \in 1 .. Len(q) : a[j] = q[j]
      /\ a[Len(q) + 1] = t
  BY <1>1, AppendProperties
<1> HIDE DEF a
<1>4. \A j \in 1 .. Len(a) : (j \in 1 .. Len(q) /\ a[j] = q[j]) \/ (j = Len(q) + 1 /\ a[j] = t)
  BY <1>1, <1>3
<1>5. l + n < t + 1 /\ \A j \in 1 .. Len(a) : l + n < a[j]
  BY <1>2, <1>4
<1>6. ASSUME NEW d \in n + 1 .. PerSecond, l + d < t + 1
      PROVE  d - n <= Len(a) /\ a[d - n] = l + d
  <2>1. d \in Nat /\ d - n \in Nat /\ d - n >= 1
    BY <1>1
  <2>2. CASE l + d < t
    <3>1. PICK k : k = d - n
      OBVIOUS
    <3>2. k \in 1 .. Len(q) /\ q[k] = l + d
      BY <1>1, <1>2, <2>1, <2>2, <3>1
    <3>3. a[k] = l + d /\ k <= Len(a)
      BY <1>1, <1>3, <3>2
    <3> QED
      BY <3>1, <3>3
  <2>3. CASE l + d = t
    <3>1. d - n = Len(q) + 1
      <4>1. CASE d = n + 1
        <5>1. ASSUME Len(q) >= 1 PROVE FALSE
          <6>1. 1 \in 1 .. Len(q)
            BY <1>1, <5>1
          <6>2. l + n < q[1] /\ q[1] < t /\ q[1] \in Nat
            BY <1>1, <1>2, <6>1
          <6> QED
            BY <2>3, <4>1, <6>2
        <5> QED
          BY <1>1, <2>1, <4>1, <5>1
      <4>2. CASE d > n + 1
        <5>1. d - 1 \in n + 1 .. PerSecond /\ l + (d - 1) < t /\ (d - 1) - n \in Nat
          BY <1>1, <2>1, <2>3, <4>2
        <5>2. (d - 1) - n <= Len(q) /\ q[(d - 1) - n] = l + (d - 1)
          BY <1>2, <5>1
        <5>3. ASSUME (d - 1) - n < Len(q) PROVE FALSE
          <6>1. (d - 1) - n \in 1 .. Len(q) /\ Len(q) \in 1 .. Len(q)
            BY <1>1, <2>1, <4>2, <5>1, <5>3
          <6>2. q[(d - 1) - n] < q[Len(q)] /\ q[Len(q)] < t /\ q[Len(q)] \in Nat
            BY <1>1, <5>3, <6>1
          <6> QED
            BY <2>1, <2>3, <5>2, <6>2
        <5> QED
          BY <1>1, <2>1, <5>1, <5>2, <5>3
      <4> QED
        BY <2>1, <4>1, <4>2
    <3>2. d - n <= Len(a) /\ a[Len(q) + 1] = l + d
      BY <1>1, <1>3, <2>3, <3>1
    <3> QED
      BY <3>1, <3>2
  <2> QED
    BY <1>6, <2>1, <2>2, <2>3
<1> QED
  BY <1>5, <1>6 DEF GoesOn, a

LEMMA GoesOnWaits ==
  ASSUME NEW q, NEW t \in Nat, NEW l \in Nat, NEW n \in Nat, GoesOn(l, n, q, t),
         t \notin l + 1 .. l + PerSecond
  PROVE  GoesOn(l, n, q, t + 1)
<1>1. PerSecond \in Nat
  BY Lengths
<1>2. ASSUME NEW d \in n + 1 .. PerSecond, l + d < t + 1 PROVE l + d < t
  <2>1. d \in Nat /\ l + d \in l + 1 .. l + PerSecond
    BY <1>1
  <2> QED
    BY <1>2, <2>1
<1> QED
  BY <1>2 DEF GoesOn

\* The samples of the next batch, and what is left when it is taken.
LEMMA GoesOnBatch ==
  ASSUME NEW q, NEW t \in Nat, NEW left, NEW l \in Nat, NEW n \in Nat,
         Rising(q, t), Packed(q, t, left), GoesOn(l, n, q, t), Len(q) >= Batch
  PROVE  /\ \A i \in 1 .. Batch : n + i <= PerSecond => q[i] = l + n + i
         /\ \A r : n + Batch < PerSecond /\ r = Rest(q) => GoesOn(l, n + Batch, r, t)
<1>1. /\ q \in Seq(Nat) /\ Len(q) \in Nat /\ PerSecond \in Nat /\ Batch \in Nat /\ Batch > 0
      /\ \A j \in 1 .. Len(q) : q[j] \in Nat /\ q[j] < t
      /\ \A i, j \in 1 .. Len(q) : i < j => q[i] < q[j]
  BY Lengths DEF Rising
<1>2. /\ \A j \in 1 .. Len(q) : l + n < q[j]
      /\ \A d \in n + 1 .. PerSecond : l + d < t => d - n <= Len(q) /\ q[d - n] = l + d
  BY DEF GoesOn
<1>3. ASSUME NEW i \in 1 .. Batch, n + i <= PerSecond PROVE q[i] = l + n + i
  <2>1. i \in 1 .. Len(q) /\ 1 \in 1 .. Len(q) /\ i \in Nat
    BY <1>1
  <2>2. q[1] \in Nat /\ q[i] \in Nat /\ l + n < q[1] /\ q[i] < t
    BY <1>1, <1>2, <2>1
  <2>3. q[1] + (i - 1) <= q[i]
    <3>1. CASE i = 1
      BY <2>2, <3>1
    <3>2. CASE 1 < i
      BY <2>1, <3>2 DEF Packed
    <3> QED
      BY <2>1, <3>1, <3>2
  <2>4. l + (n + i) < t
    BY <2>1, <2>2, <2>3
  <2>5. n + i \in n + 1 .. PerSecond /\ (n + i) - n = i
    BY <1>1, <1>3, <2>1
  <2>6. q[i] = l + (n + i)
    BY <1>2, <2>4, <2>5
  <2> QED
    BY <2>1, <2>6
<1>4. ASSUME NEW r, n + Batch < PerSecond, r = Rest(q) PROVE GoesOn(l, n + Batch, r, t)
  <2>1. /\ Len(r) = Len(q) - Batch
        /\ \A j \in 1 .. Len(r) : Batch + j \in 1 .. Len(q) /\ r[j] = q[Batch + j]
    <3>1. PICK o : o = Front(q)
      OBVIOUS
    <3> QED
      BY <1>4, <3>1, FrontAndRest
  <2>2. Batch \in 1 .. Len(q) /\ q[Batch] = l + n + Batch
    <3>1. Batch \in 1 .. Batch /\ n + Batch <= PerSecond
      BY <1>1, <1>4
    <3> QED
      BY <1>1, <1>3, <3>1
  <2>3. l + (n + Batch) < t
    BY <1>1, <2>2
  <2>4. ASSUME NEW j \in 1 .. Len(r) PROVE l + (n + Batch) < r[j]
    <3>1. Batch < Batch + j
      BY <1>1, <2>1
    <3>2. q[Batch] < q[Batch + j]
      BY <1>1, <2>1, <2>2, <3>1
    <3> QED
      BY <1>1, <2>1, <2>2, <3>2
  <2>5. ASSUME NEW d \in (n + Batch) + 1 .. PerSecond, l + d < t
        PROVE  d - (n + Batch) <= Len(r) /\ r[d - (n + Batch)] = l + d
    <3>1. d \in n + 1 .. PerSecond /\ d \in Nat
      BY <1>1
    <3>2. d - n <= Len(q) /\ q[d - n] = l + d
      BY <1>2, <2>5, <3>1
    <3>3. PICK k : k = d - (n + Batch)
      OBVIOUS
    <3>4. k \in 1 .. Len(r) /\ Batch + k = d - n
      BY <1>1, <2>1, <3>1, <3>2, <3>3
    <3>5. r[k] = l + d
      BY <2>1, <3>2, <3>4
    <3> QED
      BY <1>1, <2>1, <3>3, <3>4, <3>5
  <2> QED
    BY <2>3, <2>4, <2>5 DEF GoesOn
<1> QED
  BY <1>3, <1>4

\* The buffer with the samples of the batch behind what it holds.
LEMMA HoldingMore ==
  ASSUME NEW l \in Nat, NEW b, NEW c, NEW n \in Nat, NEW m \in Nat, n <= m,
         Holding(l, b, n), \A p \in 0 .. n - 1 : c[p] = b[p],
         \A p \in n .. m - 1 : c[p] = l + p + 1
  PROVE  Holding(l, c, m)
<1>1. PICK h \in 0 .. n : /\ \A p \in 0 .. h - 1 : b[p] = l + p
                          /\ \A p \in h .. n - 1 : b[p] = l + p + 1
  BY DEF Holding
<1>2. h \in 0 .. m
  OBVIOUS
<1>3. ASSUME NEW p \in 0 .. h - 1 PROVE c[p] = l + p
  <2>1. p \in 0 .. n - 1
    OBVIOUS
  <2> QED
    BY <1>1, <2>1
<1>4. ASSUME NEW p \in h .. m - 1 PROVE c[p] = l + p + 1
  <2>1. p \in h .. n - 1 \/ p \in n .. m - 1
    OBVIOUS
  <2>2. CASE p \in h .. n - 1
    <3>1. p \in 0 .. n - 1
      BY <2>2
    <3> QED
      BY <1>1, <2>2, <3>1
  <2> QED
    BY <2>1, <2>2
<1> QED
  BY <1>2, <1>3, <1>4 DEF Holding

\* The samples that are stored of a buffer.
SamplesOf(b) == {b[k - 1] : k \in 1 .. PerSecond}

\* A buffer that holds the samples up to the last of the second is that second
\* but for one sample.
LEMMA OneLost ==
  ASSUME NEW z \in Nat, NEW l, l = LastTick(z), NEW b, Holding(l, b, PerSecond),
         NEW s, s = SamplesOf(b)
  PROVE  /\ Cardinality(Ticks(z + 1) \ s) <= 1
         /\ s \subseteq Ticks(z + 1) \cup {l}
<1>1. /\ l \in Nat /\ PerSecond \in Nat /\ PerSecond > 2
      /\ Ticks(z + 1) = l + 1 .. l + PerSecond
  BY NextSecond, Lengths
<1>2. PICK h \in 0 .. PerSecond : /\ \A p \in 0 .. h - 1 : b[p] = l + p
                                  /\ \A p \in h .. PerSecond - 1 : b[p] = l + p + 1
  BY DEF Holding
<1>3. Ticks(z + 1) \ s \subseteq {l + h}
  <2>1. SUFFICES ASSUME NEW x \in l + 1 .. l + PerSecond, x # l + h PROVE x \in s
    BY <1>1
  <2>2. PICK d \in 1 .. PerSecond : x = l + d
    <3>1. x - l \in 1 .. PerSecond /\ x = l + (x - l)
      BY <1>1
    <3> QED
      BY <3>1
  <2>3. CASE d < h
    <3>1. d \in 0 .. h - 1 /\ d + 1 \in 1 .. PerSecond /\ (d + 1) - 1 = d
      BY <1>1, <2>3
    <3> QED
      BY <1>2, <2>2, <3>1 DEF SamplesOf
  <2>4. CASE d > h
    <3>1. d - 1 \in h .. PerSecond - 1 /\ l + (d - 1) + 1 = l + d
      BY <1>1, <2>4
    <3>2. b[d - 1] = l + d
      BY <1>2, <3>1
    <3> QED
      BY <2>2, <3>2 DEF SamplesOf
  <2> QED
    BY <1>1, <2>1, <2>2, <2>3, <2>4
<1>4. Cardinality(Ticks(z + 1) \ s) <= 1
  <2>1. Ticks(z + 1) \ s = {} \/ Ticks(z + 1) \ s = {l + h}
    BY <1>3
  <2>2. Cardinality({}) = 0 /\ Cardinality({l + h}) = 1
    BY FS_EmptySet, FS_Singleton
  <2>3. Cardinality(Ticks(z + 1) \ s) = 0 \/ Cardinality(Ticks(z + 1) \ s) = 1
    BY <2>1, <2>2, Zenon
  <2> QED
    BY <2>3
<1>5. s \subseteq Ticks(z + 1) \cup {l}
  <2>1. SUFFICES ASSUME NEW k \in 1 .. PerSecond PROVE b[k - 1] \in (l + 1 .. l + PerSecond) \cup {l}
    BY <1>1 DEF SamplesOf
  <2>2. CASE k - 1 < h
    <3>1. k - 1 \in 0 .. h - 1 /\ l + (k - 1) \in (l + 1 .. l + PerSecond) \cup {l}
      BY <1>1, <2>2
    <3> QED
      BY <1>2, <3>1
  <2>3. CASE ~(k - 1 < h)
    <3>1. k - 1 \in h .. PerSecond - 1 /\ l + (k - 1) + 1 \in l + 1 .. l + PerSecond
      BY <1>1, <2>3
    <3> QED
      BY <1>2, <3>1
  <2> QED
    BY <2>2, <2>3
<1> QED
  BY <1>4, <1>5

\* Samples come and go: what follows the second that was stored still does.
LEMMA SampleAlmost == InvAlmost /\ sample_task => InvAlmost'
<1> SUFFICES ASSUME InvAlmost, sample_task PROVE InvAlmost'
  OBVIOUS
<1>1. InvOrder /\ InvOrder' /\ Packed(cache, tick, missed)
  BY SampleOrder DEF InvAlmost
<1>2. Rising(cache, tick) /\ tick \in Nat /\ index \in Nat /\ buf \in [Places -> Nat]
  BY <1>1, Lengths DEF InvOrder, InvQueue, Rising
<1>3. /\ UNCHANGED <<buf, index, stored>> /\ missed \subseteq missed'
      /\ \/ cache' = cache /\ tick' = tick
         \/ cache' = cache /\ tick' = tick + 1 /\ tick \in missed'
         \/ cache' = Append(cache, tick) /\ tick' = tick + 1 /\ missed' = missed
  BY <1>1, SampleTaken
<1>4. PICK left : left = missed'
  OBVIOUS
<1>5. Packed(cache', tick', missed')
  <2>1. CASE cache' = cache /\ tick' = tick
    <3>1. Packed(cache, tick, left)
      BY <1>1, <1>2, <1>3, <1>4, PackedWaits
    <3> QED
      BY <1>4, <2>1, <3>1
  <2>2. CASE cache' = cache /\ tick' = tick + 1 /\ tick \in missed'
    <3>1. Packed(cache, tick + 1, left)
      BY <1>1, <1>2, <1>3, <1>4, <2>2, PackedWaits
    <3> QED
      BY <1>4, <2>2, <3>1
  <2>3. CASE cache' = Append(cache, tick) /\ tick' = tick + 1 /\ missed' = missed
    <3>1. Packed(Append(cache, tick), tick + 1, missed)
      BY <1>1, <1>2, PackedGrows
    <3> QED
      BY <2>3, <3>1
  <2> QED
    BY <1>3, <2>1, <2>2, <2>3
<1>6. InvFollows'
  <2>1. SUFFICES ASSUME stored # <<>>, NEW s, s = stored[Len(stored)], Clean(s, left)
                 PROVE  (\/ Follows(LastTick(s.sec), buf, index, cache, tick)
                         \/ Passed(s.sec + 1, buf, index, cache, tick))'
    BY <1>3, <1>4 DEF InvFollows
  <2>2. s.sec \in Nat
    BY <1>1, <2>1, LastStored
  <2>3. Clean(s, missed)
    BY <1>3, <1>4, <2>1 DEF Clean
  <2>4. PICK l : l = LastTick(s.sec)
    OBVIOUS
  <2>5. l \in Nat /\ Ticks(s.sec + 1) = l + 1 .. l + PerSecond
    BY <2>2, <2>4, NextSecond
  <2>6. CASE Passed(s.sec + 1, buf, index, cache, tick)
    <3>1. Passed(s.sec + 1, buf, index, cache, tick + 1)
      BY <1>2, <2>2, <2>6, TimePasses
    <3>2. Passed(s.sec + 1, buf, index, Append(cache, tick), tick + 1)
      BY <1>2, <2>2, <2>6, QueueGrows
    <3> QED
      BY <1>3, <2>1, <2>6, <3>1, <3>2
  <2>7. CASE Follows(l, buf, index, cache, tick)
    <3>1. index < PerSecond /\ Holding(l, buf, index) /\ GoesOn(l, index, cache, tick)
      BY <2>7 DEF Follows
    <3>2. GoesOn(l, index, cache, tick)'
      <4>1. CASE cache' = cache /\ tick' = tick
        BY <1>3, <3>1, <4>1
      <4>2. CASE cache' = cache /\ tick' = tick + 1 /\ tick \in missed'
        <5>1. tick \notin l + 1 .. l + PerSecond
          BY <1>4, <2>1, <2>5, <4>2 DEF Clean
        <5>2. GoesOn(l, index, cache, tick + 1)
          BY <1>2, <2>5, <3>1, <5>1, GoesOnWaits
        <5> QED
          BY <1>3, <4>2, <5>2
      <4>3. CASE cache' = Append(cache, tick) /\ tick' = tick + 1 /\ missed' = missed
        <5>1. GoesOn(l, index, Append(cache, tick), tick + 1)
          BY <1>2, <2>5, <3>1, GoesOnGrows
        <5> QED
          BY <1>3, <4>3, <5>1
      <4> QED
        BY <1>3, <4>1, <4>2, <4>3
    <3>3. Follows(l, buf, index, cache, tick)'
      BY <1>3, <3>1, <3>2 DEF Follows
    <3> QED
      BY <2>1, <2>4, <3>3
  <2> QED
    BY <2>1, <2>3, <2>4, <2>6, <2>7 DEF InvAlmost, InvFollows
<1>7. AlmostWhole'
  <2>1. \A sec : left \cap Ticks(sec) = {} => missed \cap Ticks(sec) = {}
    BY <1>3, <1>4
  <2> QED
    BY <1>3, <1>4, <2>1 DEF InvAlmost, AlmostWhole
<1> QED
  BY <1>1, <1>5, <1>6, <1>7 DEF InvAlmost

\* A batch of a second that follows: nothing ends it before its last sample, and
\* that one stands at the last of its places.
LEMMA Arrives ==
  ASSUME InvOrder, Packed(cache, tick, missed), Len(cache) >= Batch,
         NEW z \in Nat, NEW l, l = LastTick(z), Follows(l, buf, index, cache, tick),
         NEW r, r = Rest(cache), NEW b, BatchIn(b)
  PROVE  /\ Hits(b, Batch) = {} =>
              Place(Batch + 1) = index + Batch /\ Follows(l, b, index + Batch, r, tick)
         /\ \A i \in Hits(b, Batch) : (\A j \in Hits(b, Batch) : i <= j) =>
              Place(i) = PerSecond - 1 /\ b[PerSecond - 1] = l + PerSecond
         /\ Hits(b, Batch) # {} => Holding(l, b, PerSecond)
<1>1. /\ Rising(cache, tick) /\ tick \in Nat /\ index \in Nat /\ index < PerSecond
      /\ Batch \in Nat /\ Batch > 0 /\ PerSecond \in Nat /\ PerSecond > 2
      /\ Size \in Nat /\ PerSecond <= Size
      /\ Holding(l, buf, index) /\ GoesOn(l, index, cache, tick)
  BY Lengths DEF InvOrder, InvQueue, Rising, Follows
<1>2. /\ l \in Nat /\ LastOfSecond(l + PerSecond)
      /\ \A d \in 1 .. PerSecond - 1 : ~LastOfSecond(l + d)
  BY NextSecond
<1>3. ASSUME NEW i \in 1 .. Batch, index + i <= PerSecond
      PROVE  /\ b[index + i - 1] = l + index + i
             /\ Place(i) = index + i - 1
  <2>1. cache[i] = l + index + i
    BY <1>1, <1>2, <1>3, GoesOnBatch
  <2>2. index + i <= Size
    BY <1>1, <1>3
  <2>3. Place(i) = index + i - 1
    <3>1. PICK p : p = Place(i)
      OBVIOUS
    <3> QED
      BY <2>2, <3>1, HitPlace
  <2> QED
    BY <2>1, <2>3 DEF BatchIn
<1>4. ASSUME NEW i \in 1 .. Batch, index + i < PerSecond PROVE i \notin Hits(b, Batch)
  <2>1. PICK d \in 1 .. PerSecond - 1 : d = index + i
    <3>1. index + i \in 1 .. PerSecond - 1
      BY <1>1, <1>4
    <3> QED
      BY <3>1
  <2>2. b[Place(i)] = l + d
    <3>1. index + i <= PerSecond
      BY <1>1, <1>4
    <3>2. b[Place(i)] = l + index + i
      BY <1>3, <3>1
    <3> QED
      BY <1>1, <1>2, <2>1, <3>2
  <2> QED
    BY <1>2, <2>2 DEF Hits, EndsSecond
<1>5. ASSUME NEW i \in 1 .. Batch, index + i = PerSecond
      PROVE  i \in Hits(b, Batch) /\ Place(i) = PerSecond - 1 /\ b[PerSecond - 1] = l + PerSecond
  <2>1. Place(i) = PerSecond - 1 /\ b[PerSecond - 1] = l + PerSecond
    <3>1. index + i <= PerSecond /\ index + i - 1 = PerSecond - 1 /\ l + index + i = l + PerSecond
      BY SMTT(30), <1>1, <1>2, <1>5
    <3> QED
      BY <1>3, <3>1
  <2>2. PerSecond - 1 > 1
    BY <1>1
  <2> QED
    BY <1>2, <2>1, <2>2 DEF Hits, EndsSecond
<1>6. ASSUME NEW m \in Nat, index <= m, m <= index + Batch, m <= PerSecond PROVE Holding(l, b, m)
  <2>1. ASSUME NEW p \in index .. m - 1 PROVE b[p] = l + p + 1
    <3>1. PICK i : i = p - index + 1
      OBVIOUS
    <3>2. i \in 1 .. Batch /\ index + i <= PerSecond /\ index + i - 1 = p /\ l + index + i = l + p + 1
      BY <1>1, <1>2, <1>6, <3>1
    <3> QED
      BY <1>3, <3>2
  <2>2. \A p \in 0 .. index - 1 : b[p] = buf[p]
    BY DEF BatchIn
  <2> QED
    BY <1>1, <1>2, <1>6, <2>1, <2>2, HoldingMore
<1>7. index + Batch >= PerSecond =>
        \E i \in Hits(b, Batch) : i \in 1 .. Batch /\ index + i = PerSecond
  <2>1. SUFFICES ASSUME index + Batch >= PerSecond PROVE \E i \in 1 .. Batch : index + i = PerSecond
    BY <1>5
  <2>2. PerSecond - index \in 1 .. Batch /\ index + (PerSecond - index) = PerSecond
    BY <1>1, <2>1
  <2> QED
    BY <2>2
<1>8. ASSUME Hits(b, Batch) = {}
      PROVE  Place(Batch + 1) = index + Batch /\ Follows(l, b, index + Batch, r, tick)
  <2>1. index + Batch \in Nat /\ index + Batch < PerSecond
    BY <1>1, <1>7, <1>8
  <2>2. Place(Batch + 1) = index + Batch
    <3>1. index + (Batch + 1) - 1 = index + Batch /\ index + Batch < Size
      BY <1>1, <2>1
    <3> QED
      BY <2>1, <3>1, Wraps DEF Place
  <2>3. Holding(l, b, index + Batch)
    <3>1. index <= index + Batch /\ index + Batch <= index + Batch /\ index + Batch <= PerSecond
      BY <1>1, <2>1
    <3> QED
      BY <1>6, <2>1, <3>1
  <2>4. GoesOn(l, index + Batch, r, tick)
    BY <1>1, <1>2, <2>1, GoesOnBatch
  <2> QED
    BY <2>1, <2>2, <2>3, <2>4 DEF Follows
<1>9. ASSUME NEW i \in Hits(b, Batch) PROVE i \in 1 .. Batch /\ index + i >= PerSecond
  <2>1. i \in 1 .. Batch
    BY DEF Hits
  <2> QED
    BY <1>1, <1>4, <2>1
<1>10. ASSUME NEW i \in Hits(b, Batch), \A j \in Hits(b, Batch) : i <= j
       PROVE  Place(i) = PerSecond - 1 /\ b[PerSecond - 1] = l + PerSecond
  <2>1. index + Batch >= PerSecond
    BY <1>1, <1>9
  <2>2. PICK j \in Hits(b, Batch) : j \in 1 .. Batch /\ index + j = PerSecond
    BY <1>7, <2>1
  <2>3. i <= j
    BY <1>10, <2>2
  <2>4. index + i = PerSecond
    BY <1>1, <1>9, <2>2, <2>3
  <2> QED
    BY <1>5, <1>9, <2>4
<1>11. ASSUME Hits(b, Batch) # {} PROVE Holding(l, b, PerSecond)
  <2>1. PICK i \in Hits(b, Batch) : TRUE
    BY <1>11
  <2>2. index <= PerSecond /\ PerSecond <= index + Batch /\ PerSecond <= PerSecond
    BY <1>1, <1>9, <2>1
  <2> QED
    BY <1>1, <1>6, <2>2
<1> QED
  BY <1>8, <1>10, <1>11

\* A second whose last sample is where it ought to be leaves the next one with
\* its first samples in the buffer and the others to come.
LEMMA Starts ==
  ASSUME InvOrder, Packed(cache, tick, missed), Len(cache) >= Batch,
         NEW r, r = Rest(cache), NEW b, BatchIn(b), b \in [Places -> Nat], MarksRise(b, index + Batch),
         NEW i \in Hits(b, Batch), NEW p, p = Place(i), NEW l, l = b[p],
         NEW c, Spoilt(c, b), NEW m, m = Moved(c, p, Batch - i),
         NEW k \in Batch .. PerSecond, b[k - 1] = l,
         missed \cap Ticks(Second(l) + 1) = {}
  PROVE  Follows(l, m, Batch - i, r, tick)
<1>1. /\ Rising(cache, tick) /\ tick \in Nat /\ cache \in Seq(Nat) /\ Len(cache) \in Nat
      /\ index \in Nat /\ index < Size /\ Older(buf, cache, tick) /\ buf \in [Places -> Nat]
      /\ Batch \in Nat /\ Batch > 0 /\ PerSecond \in Nat /\ PerSecond > 2 /\ Batch <= PerSecond
      /\ Size \in Nat /\ PerSecond <= Size /\ PerSecond + Batch <= Size
      /\ \A j \in 1 .. Len(cache) : cache[j] \in Nat /\ cache[j] < tick
      /\ \A g, h \in 1 .. Len(cache) : g < h => cache[g] < cache[h]
  <2>1. PerSecond + Batch <= Size
    BY StorageAssumption, RoomForBatch DEF Size
  <2>2. /\ Batch \in Nat /\ Batch > 0 /\ PerSecond \in Nat /\ PerSecond > 2 /\ Batch <= PerSecond
        /\ Size \in Nat /\ PerSecond <= Size
    BY Lengths
  <2>3. /\ Rising(cache, tick) /\ Older(buf, cache, tick) /\ buf \in [Places -> Nat]
        /\ index \in Nat /\ index < Size
    BY <2>2 DEF InvOrder, InvQueue
  <2>4. /\ tick \in Nat /\ cache \in Seq(Nat) /\ Len(cache) \in Nat
        /\ \A j \in 1 .. Len(cache) : cache[j] \in Nat /\ cache[j] < tick
        /\ \A g, h \in 1 .. Len(cache) : g < h => cache[g] < cache[h]
    BY SMTT(30), <2>3 DEF Rising
  <2> QED
    BY <2>1, <2>2, <2>3, <2>4
<1>2. i \in 1 .. Batch /\ i \in Nat /\ LastOfSecond(b[p]) /\ p > 1
  BY <1>1 DEF Hits, EndsSecond
<1>3. /\ p \in Nat /\ p < Size /\ p \in Places
      /\ Batch - i \in Nat /\ Batch - i < Batch
      /\ p < index + Batch /\ p + (Batch - i) <= index + Batch
      /\ index + i <= Size => p = index + i - 1
      /\ ~(index + i <= Size) => p + 1 < Batch
  BY <1>2, HitPlace
<1>4. /\ l \in Nat /\ LastOfSecond(l)
      /\ Ticks(Second(l) + 1) = l + 1 .. l + PerSecond
  <2>1. l \in Nat /\ LastOfSecond(l)
    BY <1>2, <1>3
  <2> QED
    BY <2>1, EndOfSecond, NextSecond
<1>5. k - 1 \in Places /\ k \in Nat /\ k >= Batch /\ k <= PerSecond
  BY <1>1 DEF Places
<1>6. p = index + i - 1 /\ k - 1 = p
  <2>1. CASE index + i <= Size
    <3>1. p = index + i - 1 /\ l = cache[i] /\ i \in 1 .. Len(cache)
      BY <1>2, <1>3, <2>1 DEF BatchIn
    <3>2. PICK h \in 1 .. Batch : k - 1 = index + h - 1
      <4>1. b[k - 1] # buf[k - 1]
        BY SMTT(30), <1>1, <1>5, <3>1 DEF Older
      <4> QED
        BY <1>5, <4>1 DEF BatchIn
    <3>3. h \in 1 .. Len(cache) /\ cache[h] = cache[i]
      BY <3>1, <3>2 DEF BatchIn
    <3>4. h = i
      <4>1. ~(cache[h] < cache[i]) /\ ~(cache[i] < cache[h])
        BY <1>4, <3>1, <3>3
      <4>2. ~(h < i) /\ ~(i < h)
        BY <1>1, <3>1, <3>3, <4>1
      <4> QED
        BY <1>2, <4>2
    <3> QED
      BY <3>1, <3>2, <3>4
  <2>2. CASE ~(index + i <= Size)
    <3>1. p + 1 < Batch
      BY <1>3, <2>2
    <3>2. p \in 0 .. (index + Batch) - 1 /\ k - 1 \in 0 .. (index + Batch) - 1 /\ p < k - 1
      <4>1. index + Batch > Size
        BY <1>1, <1>2, <2>2
      <4>2. k - 1 < index + Batch /\ k - 1 \in Nat
        BY <1>1, <1>5, <4>1
      <4>3. p < k - 1
        BY <1>1, <1>3, <1>5, <3>1
      <4> QED
        BY <1>1, <1>3, <4>2, <4>3
    <3>3. b[p] < b[k - 1]
      BY <1>2, <1>4, <3>2 DEF MarksRise
    <3> QED
      BY <1>4, <3>3
  <2> QED
    BY <2>1, <2>2
<1>7. i \in 1 .. Len(cache) /\ cache[i] = l
  BY <1>2, <1>6 DEF BatchIn
<1>8. ASSUME NEW d \in Nat, d <= PerSecond, l + d < tick
      PROVE  i + d <= Len(cache) /\ cache[i + d] = l + d
  <2>1. \A x \in l + 1 .. l + d : x \in l + 1 .. l + PerSecond
    BY SMTT(30), <1>1, <1>4, <1>8
  <2>2. \A x \in l + 1 .. l + d : x \notin missed
    BY <1>4, <2>1
  <2> QED
    BY <1>7, <1>8, <2>2 DEF Packed
<1>9. ASSUME NEW q \in 0 .. Batch - i PROVE i + q \in 1 .. Len(cache) /\ cache[i + q] = l + q
  <2>1. q \in Nat /\ q <= PerSecond /\ i + q \in 1 .. Len(cache)
    <3>1. q \in Nat /\ q <= Batch /\ i + q <= Batch
      BY <1>1, <1>2
    <3> QED
      BY <1>1, <1>2, <3>1
  <2>2. l + q <= cache[i + q]
    <3>1. CASE q = 0
      BY <1>2, <1>4, <1>7, <3>1
    <3>2. CASE q > 0
      <4>1. i < i + q /\ (i + q) - i = q
        BY <1>2, <2>1, <3>2
      <4> QED
        BY <1>7, <2>1, <4>1 DEF Packed
    <3> QED
      BY <2>1, <3>1, <3>2
  <2>3. l + q < tick
    <3>1. cache[i + q] \in Nat /\ cache[i + q] < tick
      BY <1>1, <2>1
    <3>2. l \in Nat /\ q \in Nat /\ tick \in Nat
      BY <1>1, <1>4, <2>1
    <3> QED
      BY <2>2, <3>1, <3>2
  <2> QED
    BY <1>8, <2>1, <2>3
<1>10. PICK n : n = Batch - i
  OBVIOUS
<1>11. ASSUME NEW q \in 0 .. n - 1 PROVE m[q] = l + q
  <2>1. q \in Nat /\ q < n /\ n \in Nat /\ n < Batch
    BY <1>3, <1>10
  <2>2. q \in Places /\ p + q \in Places /\ p + q < Size /\ p + q \in Nat
    <3>1. p < PerSecond
      BY <1>1, <1>3, <1>5, <1>6
    <3>2. p + q < PerSecond + Batch /\ p + q \in Nat
      <4>1. p \in Nat /\ PerSecond \in Nat /\ Batch \in Nat
        BY <1>1, <1>3
      <4> QED
        BY <2>1, <3>1, <4>1
    <3>3. p + q < Size
      BY <1>1, <3>2
    <3> QED
      BY <1>1, <2>1, <3>2, <3>3 DEF Places
  <2>3. m[q] = c[p + q]
    BY <1>10, <2>1, <2>2 DEF Moved, Spoilt
  <2>4. c[p + q] = b[p + q]
    <3>1. ~(p + q >= Size)
      BY <1>1, <2>2
    <3> QED
      BY <2>2, <3>1 DEF Spoilt
  <2>5. b[p + q] = cache[i + q]
    <3>1. p + q = index + (i + q) - 1 /\ i + q \in 1 .. Batch
      BY <1>1, <1>2, <1>3, <1>6, <1>10, <2>1
    <3> QED
      BY <3>1 DEF BatchIn
  <2>6. q \in 0 .. Batch - i
    BY <1>3, <1>10, <2>1
  <2> QED
    BY <1>9, <2>3, <2>4, <2>5, <2>6
<1>12. Holding(l, m, n)
  <2>1. n \in 0 .. n /\ \A q \in n .. n - 1 : m[q] = l + q + 1
    BY <1>3, <1>10
  <2> QED
    BY <1>11, <2>1 DEF Holding
<1>13. GoesOn(l, n, r, tick)
  <2>1. /\ Len(r) = Len(cache) - Batch
        /\ \A j \in 1 .. Len(r) : Batch + j \in 1 .. Len(cache) /\ r[j] = cache[Batch + j]
    <3>1. PICK o : o = Front(cache)
      OBVIOUS
    <3>2. tick \in Nat /\ Rising(cache, tick) /\ Len(cache) >= Batch
      BY <1>1
    <3> QED
      BY <3>1, <3>2, FrontAndRest
  <2>2. Batch \in 1 .. Len(cache) /\ cache[Batch] = l + n
    <3>1. n \in 0 .. Batch - i /\ i + n = Batch
      BY <1>1, <1>2, <1>3, <1>10
    <3> QED
      BY <1>9, <3>1
  <2>3. l + n < tick
    BY <1>1, <2>2
  <2>4. ASSUME NEW j \in 1 .. Len(r) PROVE l + n < r[j]
    <3>1. Batch < Batch + j /\ Batch + j \in 1 .. Len(cache)
      BY <1>1, <2>1
    <3>2. cache[Batch] < cache[Batch + j]
      BY <1>1, <2>2, <3>1
    <3> QED
      BY <2>1, <2>2, <3>2
  <2>5. ASSUME NEW d \in n + 1 .. PerSecond, l + d < tick PROVE d - n <= Len(r) /\ r[d - n] = l + d
    <3>1. d \in Nat /\ d <= PerSecond
      BY <1>1, <1>3, <1>10
    <3>2. i + d <= Len(cache) /\ cache[i + d] = l + d
      BY <1>8, <2>5, <3>1
    <3>3. PICK j : j = d - n
      OBVIOUS
    <3>4. j \in 1 .. Len(r) /\ Batch + j = i + d
      BY <1>1, <1>2, <1>3, <1>10, <2>1, <3>1, <3>2, <3>3
    <3>5. r[j] = l + d
      BY <2>1, <3>2, <3>4
    <3> QED
      BY <1>1, <2>1, <3>3, <3>4, <3>5
  <2> QED
    BY <2>3, <2>4, <2>5 DEF GoesOn
<1>14. n < PerSecond
  BY <1>1, <1>3, <1>10
<1> QED
  BY <1>10, <1>12, <1>13, <1>14 DEF Follows

\* A second that follows another goes to the eMMC whole but for one sample.
LEMMA StorageAlmost == InvAlmost /\ storage_task => InvAlmost'
<1> SUFFICES ASSUME InvAlmost, storage_task PROVE InvAlmost'
  OBVIOUS
<1>1. InvOrder /\ InvOrder' /\ Packed(cache, tick, missed) /\ InvFollows /\ AlmostWhole
  BY StorageOrder DEF InvAlmost
<1>2. PICK r, b :
        /\ tick' = tick /\ missed' = missed /\ Len(cache) >= Batch
        /\ r = Rest(cache) /\ cache' = r /\ r \in Seq(Nat) /\ Rising(r, tick)
        /\ b \in [Places -> Nat] /\ MarksRise(b, index + Batch) /\ Older(b, r, tick)
        /\ BatchIn(b)
        /\ \A s \in Nat : Passed(s, buf, index, cache, tick) => Passed(s, b, index + Batch, r, tick)
        /\ \/ /\ Hits(b, Batch) = {} /\ buf' = b /\ index' = Place(Batch + 1) /\ stored' = stored
           \/ \E i \in Hits(b, Batch) : \E c :
                /\ \A j \in Hits(b, Batch) : i <= j
                /\ Spoilt(c, b) /\ buf' = Moved(c, Place(i), Batch - i) /\ index' = Batch - i
                /\ \/ stored' = stored
                   \/ stored' = Append(stored, [sec |-> Second(b[Place(i)]),
                                                samples |-> [k \in 1..PerSecond |-> b[k - 1]]])
  BY <1>1, Round
<1>3. /\ Rising(cache, tick) /\ tick \in Nat /\ index \in Nat /\ index < Size
      /\ PerSecond \in Nat /\ PerSecond > 2 /\ Batch \in Nat /\ Size \in Nat
  BY <1>1, Lengths DEF InvOrder, InvQueue, Rising
<1>4. Packed(cache', tick', missed')
  <2>1. Packed(r, tick, missed)
    BY <1>1, <1>2, <1>3, PackedRest
  <2> QED
    BY <1>2, <2>1
\* What is known of the second after the last one that was stored.
<1>5. ASSUME stored # <<>>, NEW s, s = stored[Len(stored)], Clean(s, missed),
             NEW l, l = LastTick(s.sec)
      PROVE  /\ s.sec \in Nat /\ l \in Nat /\ LastTick(s.sec + 1) = l + PerSecond
             /\ Second(l + PerSecond) = s.sec + 1
             /\ \/ Follows(l, buf, index, cache, tick)
                \/ Passed(s.sec + 1, b, index + Batch, r, tick)
  <2>1. s.sec \in Nat
    BY <1>1, <1>5, LastStored
  <2>2. l \in Nat /\ LastTick(s.sec + 1) = l + PerSecond /\ Second(l + PerSecond) = s.sec + 1
    BY <1>5, <2>1, NextSecond
  <2>3. \/ Follows(l, buf, index, cache, tick)
        \/ Passed(s.sec + 1, buf, index, cache, tick)
    BY <1>1, <1>5 DEF InvFollows
  <2>4. s.sec + 1 \in Nat
    BY <2>1
  <2> QED
    BY <1>2, <2>1, <2>2, <2>3, <2>4
<1>6. CASE Hits(b, Batch) = {} /\ buf' = b /\ index' = Place(Batch + 1) /\ stored' = stored
  <2>1. InvFollows'
    <3>1. SUFFICES ASSUME stored # <<>>, NEW s, s = stored[Len(stored)], Clean(s, missed)
                   PROVE  (\/ Follows(LastTick(s.sec), buf, index, cache, tick)
                           \/ Passed(s.sec + 1, buf, index, cache, tick))'
      BY <1>2, <1>6 DEF InvFollows
    <3>2. PICK l : l = LastTick(s.sec)
      OBVIOUS
    <3>3. PICK n : n = Place(Batch + 1)
      OBVIOUS
    <3>4. s.sec \in Nat /\ l \in Nat
      BY <1>5, <3>1, <3>2
    <3>5. CASE Follows(l, buf, index, cache, tick)
      <4>1. Place(Batch + 1) = index + Batch /\ Follows(l, b, index + Batch, r, tick)
        <5>1. /\ Hits(b, Batch) = {} =>
                   Place(Batch + 1) = index + Batch /\ Follows(l, b, index + Batch, r, tick)
          BY <1>1, <1>2, <3>2, <3>4, <3>5, Arrives
        <5> QED
          BY <1>6, <5>1
      <4>2. n = index + Batch
        BY <3>3, <4>1
      <4>3. Follows(l, b, n, r, tick)
        BY <4>1, <4>2
      <4> QED
        BY <1>2, <1>6, <3>2, <3>3, <4>3
    <3>6. CASE Passed(s.sec + 1, b, index + Batch, r, tick)
      <4>1. n <= index + Batch /\ n \in Nat
        <5>1. index + (Batch + 1) - 1 = index + Batch /\ index + Batch \in Nat
          BY <1>3
        <5>2. n \in 0 .. Size - 1 /\ n <= index + Batch
          BY <3>3, <5>1, Wraps DEF Place
        <5> QED
          BY <1>3, <5>2
      <4>2. \A p \in 1 .. n - 1 : p \in 1 .. (index + Batch) - 1
        BY <1>3, <4>1
      <4>3. Passed(s.sec + 1, b, n, r, tick)
        BY <3>6, <4>2 DEF Passed
      <4> QED
        BY <1>2, <1>6, <3>3, <4>3
    <3> QED
      BY <1>5, <3>1, <3>2, <3>5, <3>6
  <2>2. AlmostWhole'
    BY <1>1, <1>2, <1>6 DEF AlmostWhole
  <2> QED
    BY <1>1, <1>4, <2>1, <2>2 DEF InvAlmost
<1>7. ASSUME NEW i \in Hits(b, Batch), NEW c, \A j \in Hits(b, Batch) : i <= j, Spoilt(c, b),
             buf' = Moved(c, Place(i), Batch - i), index' = Batch - i,
             \/ stored' = stored
             \/ stored' = Append(stored, [sec |-> Second(b[Place(i)]),
                                          samples |-> [k \in 1..PerSecond |-> b[k - 1]]])
      PROVE  InvAlmost'
  <2>1. PICK p : p = Place(i)
    OBVIOUS
  <2>2. PICK m : m = buf'
    OBVIOUS
  <2>3. PICK n : n = Batch - i
    OBVIOUS
  <2>4. m = Moved(c, p, Batch - i)
    BY <1>7, <2>1, <2>2
  <2>5. i \in 1 .. Batch /\ LastOfSecond(b[p]) /\ p > 1 /\ p \in Nat /\ p \in Places /\ p < index + Batch
    <3>1. i \in 1 .. Batch /\ LastOfSecond(b[p]) /\ p > 1
      BY <2>1 DEF Hits, EndsSecond
    <3> QED
      BY <1>1, <2>1, <3>1, HitPlace
  <2>6. /\ \A s \in Nat : Passed(s, b, index + Batch, r, tick) => Passed(s, m, n, r, tick)
        /\ Passed(Second(b[p]), m, n, r, tick)
    <3>1. /\ \A s \in Nat : Passed(s, b, index + Batch, r, tick) => Passed(s, m, Batch - i, r, tick)
          /\ Passed(Second(b[p]), m, Batch - i, r, tick)
      BY <1>1, <1>2, <1>7, <2>1, <2>4, MovedBatch
    <3> QED
      BY <2>3, <3>1
  <2>7. /\ b[p] \in Nat /\ Second(b[p]) \in Nat /\ LastTick(Second(b[p])) = b[p]
    <3>1. b[p] \in Nat
      BY <1>2, <2>5
    <3> QED
      BY <2>5, <3>1, EndOfSecond
  \* When the second that follows ends, it ends at the last of its places.
  <2>8. ASSUME stored # <<>>, NEW s, s = stored[Len(stored)], Clean(s, missed),
               NEW l, l = LastTick(s.sec)
        PROVE  \/ Second(b[p]) = s.sec + 1 /\ Holding(l, b, PerSecond)
               \/ Passed(s.sec + 1, b, index + Batch, r, tick)
    <3>1. CASE Passed(s.sec + 1, b, index + Batch, r, tick)
      BY <3>1
    <3>2. CASE Follows(l, buf, index, cache, tick)
      <4>1. s.sec \in Nat /\ Second(l + PerSecond) = s.sec + 1
        BY <1>5, <2>8
      <4>2. /\ \A j \in Hits(b, Batch) : (\A h \in Hits(b, Batch) : j <= h) =>
                 Place(j) = PerSecond - 1 /\ b[PerSecond - 1] = l + PerSecond
            /\ Hits(b, Batch) # {} => Holding(l, b, PerSecond)
        BY <1>1, <1>2, <2>8, <3>2, <4>1, Arrives
      <4>3. Place(i) = PerSecond - 1 /\ b[PerSecond - 1] = l + PerSecond /\ Holding(l, b, PerSecond)
        BY <1>7, <4>2
      <4> QED
        BY <2>1, <4>1, <4>3
    <3> QED
      BY <1>5, <2>8, <3>1, <3>2
  <2>9. CASE stored' = stored
    <3>1. InvFollows'
      <4>1. SUFFICES ASSUME stored # <<>>, NEW s, s = stored[Len(stored)], Clean(s, missed)
                     PROVE  (\/ Follows(LastTick(s.sec), buf, index, cache, tick)
                             \/ Passed(s.sec + 1, buf, index, cache, tick))'
        BY <1>2, <2>9 DEF InvFollows
      <4>2. PICK l : l = LastTick(s.sec)
        OBVIOUS
      <4>3. s.sec + 1 \in Nat
        <5>1. s.sec \in Nat
          BY <1>5, <4>1, <4>2
        <5> QED
          BY <5>1
      <4>4. Passed(s.sec + 1, m, n, r, tick)
        BY <2>6, <2>8, <4>1, <4>2, <4>3
      <4> QED
        BY <1>2, <1>7, <2>2, <2>3, <4>4
    <3>2. AlmostWhole'
      BY <1>1, <1>2, <2>9 DEF AlmostWhole
    <3> QED
      BY <1>1, <1>4, <3>1, <3>2 DEF InvAlmost
  <2>10. CASE stored' = Append(stored, [sec |-> Second(b[Place(i)]),
                                        samples |-> [k \in 1..PerSecond |-> b[k - 1]]])
    <3> DEFINE z == [sec |-> Second(b[p]), samples |-> [k \in 1..PerSecond |-> b[k - 1]]]
    <3>1. /\ z.sec = Second(b[p])
          /\ DOMAIN z.samples = 1 .. PerSecond
          /\ \A k \in 1 .. PerSecond : z.samples[k] = b[k - 1]
      OBVIOUS
    <3>2. z \in [sec : Nat, samples : [1..PerSecond -> Nat]]
      <4>1. \A k \in 1 .. PerSecond : k - 1 \in Places
        BY <1>3, Lengths DEF Places
      <4>2. \A k \in 1 .. PerSecond : b[k - 1] \in Nat
        BY <1>2, <4>1
      <4> QED
        BY <2>7, <4>2
    <3>3. stored' = Append(stored, z)
      BY <2>1, <2>10
    <3> HIDE DEF z
    <3>4. PICK st : st = Append(stored, z)
      OBVIOUS
    <3>5. stored \in Seq([sec : Nat, samples : [1..PerSecond -> Nat]]) /\ Len(stored) \in Nat
      BY <1>1 DEF InvOrder, InvStoredType
    <3>6. /\ st \in Seq([sec : Nat, samples : [1..PerSecond -> Nat]])
          /\ Len(st) = Len(stored) + 1
          /\ \A j \in 1 .. Len(stored) : st[j] = stored[j]
          /\ st[Len(stored) + 1] = z
      BY <3>2, <3>4, <3>5, AppendProperties
    <3>7. stored' = st /\ st[Len(st)] = z
      BY <3>3, <3>4, <3>6
    <3>8. InvFollows'
      <4>1. SUFFICES ASSUME Clean(z, missed) PROVE Follows(LastTick(z.sec), buf, index, cache, tick)'
        BY <1>2, <3>7 DEF InvFollows
      <4>2. PICK l : l = b[p]
        OBVIOUS
      <4>3. missed \cap Ticks(Second(l) + 1) = {}
        BY <3>1, <4>1, <4>2 DEF Clean
      <4>4. PICK k \in Batch .. PerSecond : b[k - 1] = l
        <5>1. PICK k \in Batch .. PerSecond : z.samples[k] = LastTick(z.sec)
          BY <4>1 DEF Clean
        <5>2. k \in 1 .. PerSecond
          BY Lengths
        <5>3. b[k - 1] = l
          BY <2>7, <3>1, <4>2, <5>1, <5>2
        <5> QED
          BY <5>3
      <4>5. Follows(l, m, Batch - i, r, tick)
        BY <1>1, <1>2, <1>7, <2>1, <2>4, <4>2, <4>3, <4>4, Starts
      <4>6. Follows(l, m, n, r, tick) /\ l = LastTick(z.sec)
        BY <2>3, <2>7, <3>1, <4>2, <4>5
      <4> QED
        BY <1>2, <1>7, <2>2, <2>3, <4>6
    <3>9. ASSUME NEW s, stored # <<>>, s = stored[Len(stored)], s.sec = z.sec - 1,
                 missed \cap Ticks(z.sec) = {},
                 \E k \in Batch .. PerSecond : s.samples[k] = z.sec * PerSecond - 1
          PROVE  /\ Cardinality(Ticks(z.sec) \ Range(z.samples)) <= 1
                 /\ Range(z.samples) \subseteq Ticks(z.sec) \cup {z.sec * PerSecond - 1}
      <4>1. s.sec \in Nat /\ z.sec = s.sec + 1
        <5>1. s.sec \in Nat
          BY <1>1, <3>9, LastStored
        <5>2. z.sec \in Nat
          BY <2>7, <3>1
        <5> QED
          BY <3>9, <5>1, <5>2
      <4>2. PICK l : l = LastTick(s.sec)
        OBVIOUS
      <4>3. z.sec * PerSecond - 1 = l /\ LastTick(z.sec) = l + PerSecond
        BY <4>1, <4>2, NextSecond
      <4>4. Clean(s, missed)
        BY <3>9, <4>1, <4>2, <4>3 DEF Clean
      <4>5. Holding(l, b, PerSecond)
        <5>1. ASSUME Passed(s.sec + 1, b, index + Batch, r, tick) PROVE FALSE
          <6>1. p \in 1 .. (index + Batch) - 1
            BY <1>3, <2>5
          <6>2. LastTick(z.sec) < b[p]
            BY <2>5, <4>1, <5>1, <6>1 DEF Passed
          <6> QED
            BY <2>7, <3>1, <6>2
        <5> QED
          BY <2>8, <3>9, <4>2, <4>4, <5>1
      <4>6. Range(z.samples) = SamplesOf(b)
        BY <3>1 DEF Range, SamplesOf
      <4>7. PICK x : x = Range(z.samples)
        OBVIOUS
      <4>8. Cardinality(Ticks(s.sec + 1) \ x) <= 1 /\ x \subseteq Ticks(s.sec + 1) \cup {l}
        <5>1. x = SamplesOf(b)
          BY <4>6, <4>7
        <5> QED
          BY <4>1, <4>2, <4>5, <5>1, OneLost
      <4> QED
        BY <4>1, <4>3, <4>7, <4>8
    <3>10. AlmostWhole'
      <4>1. DOMAIN st = 1 .. Len(stored) + 1 /\ DOMAIN stored = 1 .. Len(stored)
        BY <3>5, <3>6
      <4>2. SUFFICES ASSUME NEW j \in DOMAIN st \ {1}, st[j - 1].sec = st[j].sec - 1,
                            missed \cap Ticks(st[j].sec) = {},
                            \E k \in Batch .. PerSecond :
                              st[j - 1].samples[k] = st[j].sec * PerSecond - 1
                     PROVE  /\ Cardinality(Ticks(st[j].sec) \ Range(st[j].samples)) <= 1
                            /\ Range(st[j].samples) \subseteq
                                 Ticks(st[j].sec) \cup {st[j].sec * PerSecond - 1}
        BY <1>2, <3>7 DEF AlmostWhole
      <4>3. CASE j \in 1 .. Len(stored)
        <5>1. j - 1 \in 1 .. Len(stored)
          BY <3>5, <4>2, <4>3
        <5>2. st[j] = stored[j] /\ st[j - 1] = stored[j - 1] /\ j \in DOMAIN stored \ {1}
          BY <3>6, <4>1, <4>2, <4>3, <5>1
        <5> QED
          BY <1>1, <4>2, <5>2 DEF AlmostWhole
      <4>4. CASE j = Len(stored) + 1
        <5>1. j - 1 = Len(stored) /\ Len(stored) \in 1 .. Len(stored) /\ stored # <<>>
          BY <3>5, <4>1, <4>2, <4>4
        <5>2. PICK s : s = stored[Len(stored)]
          OBVIOUS
        <5>3. st[j] = z /\ st[j - 1] = s
          BY <3>6, <4>4, <5>1, <5>2
        <5> QED
          BY <3>9, <4>2, <5>1, <5>2, <5>3
      <4> QED
        BY <4>1, <4>2, <4>3, <4>4
    <3> QED
      BY <1>1, <1>4, <3>8, <3>10 DEF InvAlmost
  <2> QED
    BY <1>7, <2>9, <2>10
<1> QED
  BY <1>2, <1>6, <1>7

LEMMA AlwaysAlmost == Spec => []InvAlmost
<1>1. Init => InvAlmost
  <2> SUFFICES ASSUME Init PROVE InvAlmost
    OBVIOUS
  <2>1. cache = <<>> /\ stored = <<>>
    BY DEF Init, Cache!Init
  <2>2. Packed(cache, tick, missed) /\ InvFollows /\ AlmostWhole
    BY <2>1 DEF Packed, InvFollows, AlmostWhole
  <2> QED
    BY <2>2, InitOrder DEF InvAlmost
<1>2. InvAlmost /\ [Next]_vars => InvAlmost'
  <2> SUFFICES ASSUME InvAlmost, [Next]_vars PROVE InvAlmost'
    OBVIOUS
  <2>1. CASE UNCHANGED vars
    BY <2>1 DEF vars, InvAlmost, InvOrder, InvStoredType, InvQueue, InvPassed, InOrder,
                InvFollows, AlmostWhole
  <2> QED
    BY <2>1, SampleAlmost, StorageAlmost DEF Next
<1> QED
  BY <1>1, <1>2, PTL DEF Spec

\* A second that was cached as a whole loses one sample at most when it goes to
\* the eMMC after the one before it, whatever was left out of the seconds before.
THEOREM SecondsAlmostWhole == Spec => []AlmostWhole
<1>1. InvAlmost => AlmostWhole
  BY DEF InvAlmost
<1> QED
  BY <1>1, AlwaysAlmost, PTL
=============================================================================
