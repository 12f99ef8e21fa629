-------------------------- MODULE AdcCache_proofs --------------------------
(***************************************************************************)
(* The ring of AdcCache keeps its indices consistent and implements        *)
(* SampleFifo, for every capacity and every batch length.                  *)
(***************************************************************************)
EXTENDS AdcCache, SequenceTheorems, TLAPS

\* Moving an index on wraps at most once.
LEMMA AdvanceDef ==
  ASSUME NEW i \in Slots, NEW n \in 0..CacheLen
  PROVE  /\ Advance(i, n) = IF i + n < CacheLen THEN i + n ELSE i + n - CacheLen
         /\ Advance(i, n) \in Slots
BY CacheAssumption DEF Advance, Slots

\* Moving on twice is moving on by the sum.
LEMMA AdvanceAgain ==
  ASSUME NEW i \in Slots, NEW n \in 0..CacheLen, NEW m \in 0..CacheLen, n + m <= CacheLen
  PROVE  Advance(Advance(i, n), m) = Advance(i, n + m)
<1>1. n + m \in 0..CacheLen
  BY CacheAssumption
<1>2. Advance(i, n) = IF i + n < CacheLen THEN i + n ELSE i + n - CacheLen
  BY AdvanceDef
<1>3. Advance(i, n + m) = IF i + (n + m) < CacheLen THEN i + (n + m) ELSE i + (n + m) - CacheLen
  BY <1>1, AdvanceDef
<1>4. Advance(Advance(i, n), m) = IF Advance(i, n) + m < CacheLen
                                  THEN Advance(i, n) + m ELSE Advance(i, n) + m - CacheLen
  BY AdvanceDef
<1> QED
  BY <1>2, <1>3, <1>4, CacheAssumption DEF Slots

\* Every step keeps the indices in the array, count in its range and the write
\* index count slots behind the read index.
LEMMA RingStep == RingOK /\ [Next]_vars => RingOK'
<1> SUFFICES ASSUME RingOK, [Next]_vars PROVE RingOK'
  OBVIOUS
<1> USE CacheAssumption
<1>1. ASSUME NEW d \in Items, Adc_Cache_Write_One(d) PROVE RingOK'
  <2>1. CASE Full
    BY <1>1, <2>1 DEF RingOK, Adc_Cache_Write_One
  <2>2. CASE ~Full
    <3>1. count \in Nat /\ count + 1 \in 0..CacheLen
      BY <2>2 DEF RingOK, Full
    <3>2. Advance(wr_idx, 1) = Advance(rd_idx, count + 1) /\ Advance(wr_idx, 1) \in Slots
      BY <3>1, AdvanceDef, AdvanceAgain DEF RingOK
    <3> QED
      BY <1>1, <2>2, <3>1, <3>2 DEF RingOK, Adc_Cache_Write_One
  <2> QED
    BY <2>1, <2>2
<1>2. ASSUME NEW n \in Lens, NEW data \in [1..n -> Items], Adc_Cache_Write_Batch(data)
      PROVE RingOK'
  <2> DEFINE w == Smaller(Len(data), Free)
             len1 == BeforeEnd(wr_idx, w)
  <2>1. Len(data) = n /\ n \in Nat
    BY DEF RingOK
  <2>2. w \in 0..n /\ w <= CacheLen - count /\ w \in 0..CacheLen /\ count + w \in 0..CacheLen
    BY <2>1 DEF RingOK, Smaller, Free
  <2>3. len1 \in 0..w /\ wr_idx + len1 <= CacheLen
    BY <2>2 DEF RingOK, BeforeEnd, Smaller, Slots
  <2>4. item' \in [Slots -> Items]
    <3> SUFFICES ASSUME NEW k \in Slots
                 PROVE  (IF wr_idx <= k /\ k < wr_idx + len1 THEN data[k - wr_idx + 1]
                         ELSE IF k < w - len1 THEN data[len1 + k + 1] ELSE item[k]) \in Items
      BY <1>2 DEF Adc_Cache_Write_Batch
    <3>1. ASSUME wr_idx <= k, k < wr_idx + len1 PROVE k - wr_idx + 1 \in 1..n
      <4> HIDE DEF w, len1
      <4> QED
        BY <3>1, <2>1, <2>2, <2>3 DEF RingOK, Slots
    <3>2. ASSUME k < w - len1 PROVE len1 + k + 1 \in 1..n
      <4> HIDE DEF w, len1
      <4> QED
        BY <3>2, <2>1, <2>2, <2>3 DEF RingOK, Slots
    <3> HIDE DEF w, len1
    <3> QED
      BY <3>1, <3>2 DEF RingOK
  <2>5. Advance(wr_idx, w) = Advance(rd_idx, count + w) /\ Advance(wr_idx, w) \in Slots
    BY <2>2, AdvanceDef, AdvanceAgain DEF RingOK
  <2> QED
    BY <1>2, <2>2, <2>4, <2>5 DEF RingOK, Adc_Cache_Write_Batch
<1>3. ASSUME Adc_Cache_Read_One PROVE RingOK'
  <2>1. CASE count = 0
    BY <1>3, <2>1 DEF RingOK, Adc_Cache_Read_One
  <2>2. CASE count # 0
    <3>1. count - 1 \in 0..CacheLen /\ 1 \in 0..CacheLen /\ 1 + (count - 1) = count
      BY <2>2 DEF RingOK
    <3>2. Advance(Advance(rd_idx, 1), count - 1) = wr_idx /\ Advance(rd_idx, 1) \in Slots
      BY <3>1, AdvanceDef, AdvanceAgain DEF RingOK
    <3> QED
      BY <1>3, <2>2, <3>1, <3>2 DEF RingOK, Adc_Cache_Read_One
  <2> QED
    BY <2>1, <2>2
<1>4. ASSUME NEW n \in Lens, Adc_Cache_Read_Batch(n) PROVE RingOK'
  <2> DEFINE r == Smaller(count, n)
  <2>1. r \in 0..CacheLen /\ count - r \in 0..CacheLen /\ r + (count - r) = count
    BY DEF RingOK, Smaller
  <2>2. Advance(Advance(rd_idx, r), count - r) = wr_idx /\ Advance(rd_idx, r) \in Slots
    BY <2>1, AdvanceDef, AdvanceAgain DEF RingOK
  <2> QED
    BY <1>4, <2>1, <2>2 DEF RingOK, Adc_Cache_Read_Batch
<1>5. ASSUME Adc_Cache_Clear PROVE RingOK'
  <2>1. Advance(0, 0) = 0 /\ 0 \in Slots
    BY AdvanceDef DEF Slots
  <2> QED
    BY <1>5, <2>1 DEF RingOK, Adc_Cache_Clear
<1>6. ASSUME LockTimeout \/ UNCHANGED vars PROVE RingOK'
  BY <1>6 DEF RingOK, LockTimeout, vars
<1> QED
  BY <1>1, <1>2, <1>3, <1>4, <1>5, <1>6 DEF Next

\* The indices of the ring stay consistent, for every capacity.
THEOREM RingCorrect == Spec => []RingOK
<1>1. Init => RingOK
  <2>1. Advance(0, 0) = 0 /\ 0 \in Slots
    BY CacheAssumption, AdvanceDef DEF Slots
  <2> QED
    BY <2>1, CacheAssumption DEF Init, RingOK
<1> QED
  BY <1>1, RingStep, PTL DEF Spec
-----------------------------------------------------------------------------
\* n samples read off the ring from slot r on.
Unrolled(f, r, n) == [i \in 1..n |-> f[Advance(r, i - 1)]]

\* They are a sequence of n samples.
LEMMA UnrolledSeq ==
  ASSUME NEW f \in [Slots -> Items], NEW r \in Slots, NEW n \in 0..CacheLen
  PROVE  /\ Unrolled(f, r, n) \in Seq(Items) /\ Len(Unrolled(f, r, n)) = n
         /\ \A i \in 1..n : Unrolled(f, r, n)[i] = f[Advance(r, i - 1)]
<1>1. \A i \in 1..n : Advance(r, i - 1) \in Slots
  <2> TAKE i \in 1..n
  <2>1. i - 1 \in 0..CacheLen
    BY CacheAssumption
  <2> QED
    BY <2>1, AdvanceDef
<1>2. Unrolled(f, r, n) \in [1..n -> Items]
  BY <1>1 DEF Unrolled
<1> QED
  BY <1>2, SeqDef, CacheAssumption DEF Unrolled

\* Putting a batch that is already cut to w samples in at the write index appends it.
LEMMA UnrolledAppend ==
  ASSUME NEW f \in [Slots -> Items], NEW g \in [Slots -> Items], NEW r \in Slots,
         NEW n \in 0..CacheLen, NEW s \in Seq(Items), n + Len(s) <= CacheLen,
         \A i \in 1..n : g[Advance(r, i - 1)] = f[Advance(r, i - 1)],
         \A i \in 1..Len(s) : g[Advance(r, n + i - 1)] = s[i]
  PROVE  Unrolled(g, r, n + Len(s)) = Unrolled(f, r, n) \o s
<1> DEFINE a == Unrolled(f, r, n)
           b == Unrolled(g, r, n + Len(s))
           t == a \o s
<1>1. Len(s) \in Nat /\ n \in Nat /\ n + Len(s) \in 0..CacheLen
  BY CacheAssumption, LenProperties
<1>2. a \in Seq(Items) /\ Len(a) = n /\ \A i \in 1..n : a[i] = f[Advance(r, i - 1)]
  BY UnrolledSeq
<1>3. /\ b \in Seq(Items) /\ Len(b) = n + Len(s)
      /\ \A i \in 1..n + Len(s) : b[i] = g[Advance(r, i - 1)]
  BY <1>1, UnrolledSeq
<1> HIDE DEF a, b
<1>4. /\ t \in Seq(Items) /\ Len(t) = n + Len(s)
      /\ \A i \in 1..n + Len(s) : t[i] = IF i <= n THEN a[i] ELSE s[i - n]
  BY ZenonT(30), <1>2, ConcatProperties
<1> HIDE DEF t
<1>5. ASSUME NEW i \in 1..n + Len(s) PROVE b[i] = t[i]
  <2>1. CASE i <= n
    <3>1. i \in 1..n
      BY <2>1, <1>1
    <3> QED
      BY <2>1, <3>1, <1>2, <1>3, <1>4
  <2>2. CASE ~(i <= n)
    <3>1. i - n \in 1..Len(s) /\ n + (i - n) - 1 = i - 1
      BY <2>2, <1>1
    <3>2. b[i] = g[Advance(r, n + (i - n) - 1)]
      BY <3>1, <1>3
    <3> QED
      BY <2>2, <3>1, <3>2, <1>4
  <2> QED
    BY <2>1, <2>2
<1> QED
  BY <1>3, <1>4, <1>5, SeqEqual DEF a, b, t

\* The first m of n samples, and what is left of them.
LEMMA UnrolledSplit ==
  ASSUME NEW f \in [Slots -> Items], NEW r \in Slots, NEW n \in 0..CacheLen, NEW m \in 0..n
  PROVE  /\ SubSeq(Unrolled(f, r, n), 1, m) = Unrolled(f, r, m)
         /\ SubSeq(Unrolled(f, r, n), m + 1, n) = Unrolled(f, Advance(r, m), n - m)
<1> DEFINE u == Unrolled(f, r, n)
           head == SubSeq(u, 1, m)
           rest == SubSeq(u, m + 1, n)
<1>1. m \in 0..CacheLen /\ n - m \in 0..CacheLen /\ Advance(r, m) \in Slots
  BY CacheAssumption, AdvanceDef
<1>2. u \in Seq(Items) /\ Len(u) = n /\ \A i \in 1..n : u[i] = f[Advance(r, i - 1)]
  BY UnrolledSeq
<1>3. \A i \in 1..n : u[i] \in Items
  BY <1>2, ElementOfSeq
<1> HIDE DEF u
<1>4. head \in Seq(Items) /\ Len(head) = m /\ \A i \in 1..m : head[i] = u[i]
  <2>1. \A i \in 1..m : u[i] \in Items
    BY <1>3
  <2>2. /\ head \in Seq(Items) /\ Len(head) = IF 1 <= m THEN m - 1 + 1 ELSE 0
        /\ \A i \in 1..m - 1 + 1 : head[i] = u[1 + i - 1]
    BY <2>1, SubSeqProperties
  <2> QED
    BY <2>2
<1>5. rest \in Seq(Items) /\ Len(rest) = n - m /\ \A i \in 1..n - m : rest[i] = u[m + i]
  <2>1. \A i \in m + 1..n : u[i] \in Items
    BY <1>3
  <2>2. /\ rest \in Seq(Items) /\ Len(rest) = IF m + 1 <= n THEN n - (m + 1) + 1 ELSE 0
        /\ \A i \in 1..n - (m + 1) + 1 : rest[i] = u[(m + 1) + i - 1]
    BY <2>1, SubSeqProperties
  <2> QED
    BY <2>2
<1> HIDE DEF head, rest
<1>6. head = Unrolled(f, r, m)
  <2>1. /\ Unrolled(f, r, m) \in Seq(Items) /\ Len(Unrolled(f, r, m)) = m
        /\ \A i \in 1..m : Unrolled(f, r, m)[i] = f[Advance(r, i - 1)]
    BY <1>1, UnrolledSeq
  <2>2. \A i \in 1..m : head[i] = Unrolled(f, r, m)[i]
    BY <2>1, <1>2, <1>4
  <2> QED
    BY <2>1, <2>2, <1>4, SeqEqual
<1>7. rest = Unrolled(f, Advance(r, m), n - m)
  <2> DEFINE v == Unrolled(f, Advance(r, m), n - m)
  <2>1. /\ v \in Seq(Items) /\ Len(v) = n - m
        /\ \A i \in 1..n - m : v[i] = f[Advance(Advance(r, m), i - 1)]
    BY <1>1, UnrolledSeq
  <2> HIDE DEF v
  <2>2. ASSUME NEW i \in 1..n - m PROVE rest[i] = v[i]
    <3>1. i - 1 \in 0..CacheLen /\ m + (i - 1) <= CacheLen /\ m + i \in 1..n
          /\ (m + i) - 1 = m + (i - 1)
      BY CacheAssumption
    <3>2. Advance(Advance(r, m), i - 1) = Advance(r, m + (i - 1))
      BY <1>1, <3>1, AdvanceAgain
    <3>3. rest[i] = f[Advance(r, m + (i - 1))]
      BY <3>1, <1>2, <1>5
    <3> QED
      BY <2>1, <3>2, <3>3
  <2> QED
    BY <2>1, <2>2, <1>5, SeqEqual DEF v
<1> QED
  BY <1>6, <1>7 DEF head, rest, u
-----------------------------------------------------------------------------
\* One sample is a batch of one: it is appended, or refused when the ring is full.
LEMMA WriteOneIsPut ==
  ASSUME RingOK, RingOK', NEW d \in Items, Adc_Cache_Write_One(d)
  PROVE  Fifo!Put(<<d>>)
<1> DEFINE s == SubSeq(<<d>>, 1, Fifo!AtMost(Len(<<d>>), CacheLen - Len(contents)))
<1>1. contents = Unrolled(item, rd_idx, count) /\ contents' = Unrolled(item', rd_idx', count')
  BY DEF contents, Unrolled
<1>2. contents \in Seq(Items) /\ Len(contents) = count
  BY <1>1, UnrolledSeq DEF RingOK
<1>3. <<d>> \in Seq(Items) /\ Len(<<d>>) = 1 /\ <<d>>[1] = d
  OBVIOUS
<1>4. CASE Full
  <2>1. s = <<>>
    <3>1. Fifo!AtMost(Len(<<d>>), CacheLen - Len(contents)) = 0
      BY <1>2, <1>3, <1>4, CacheAssumption DEF Full, RingOK, Fifo!AtMost
    <3> QED
      BY <3>1, SubSeqEmpty
  <2>2. contents' = contents
    BY <1>1, <1>4 DEF Adc_Cache_Write_One
  <2> QED
    BY <1>2, <2>1, <2>2, ConcatEmptySeq DEF Fifo!Put, Adc_Cache_Write_One
<1>5. CASE ~Full
  <2>1. s = <<d>>
    <3>1. Fifo!AtMost(Len(<<d>>), CacheLen - Len(contents)) = 1
      BY <1>2, <1>3, <1>5, CacheAssumption DEF Full, RingOK, Fifo!AtMost
    <3> QED
      BY <1>3, <3>1, SubSeqFull
  <2>2. count + 1 <= CacheLen /\ count \in 0..CacheLen - 1
    BY <1>5, CacheAssumption DEF RingOK, Full
  <2>3. \A i \in 1..count : item'[Advance(rd_idx, i - 1)] = item[Advance(rd_idx, i - 1)]
    <3> TAKE i \in 1..count
    <3>1. i - 1 \in 0..CacheLen /\ count \in 0..CacheLen
      BY <2>2, CacheAssumption
    <3> DEFINE k == Advance(rd_idx, i - 1)
    <3>2. /\ k = IF rd_idx + (i - 1) < CacheLen THEN rd_idx + (i - 1) ELSE rd_idx + (i - 1) - CacheLen
          /\ k \in Slots
      BY <3>1, AdvanceDef DEF RingOK
    <3>3. wr_idx = IF rd_idx + count < CacheLen THEN rd_idx + count ELSE rd_idx + count - CacheLen
      BY <3>1, AdvanceDef DEF RingOK
    <3> HIDE DEF k
    <3>4. k # wr_idx
      BY <2>2, <3>1, <3>2, <3>3, CacheAssumption DEF RingOK, Slots
    <3> QED
      BY <1>5, <3>2, <3>4 DEF Adc_Cache_Write_One, RingOK, k
  <2>4. \A i \in 1..Len(<<d>>) : item'[Advance(rd_idx, count + i - 1)] = <<d>>[i]
    <3> SUFFICES item'[Advance(rd_idx, count + 1 - 1)] = d
      BY <1>3
    <3>1. count + 1 - 1 = count
      BY <2>2
    <3> QED
      BY <1>5, <3>1 DEF Adc_Cache_Write_One, RingOK
  <2>5. Unrolled(item', rd_idx, count + Len(<<d>>)) = Unrolled(item, rd_idx, count) \o <<d>>
    BY ZenonT(30), <1>3, <2>2, <2>3, <2>4, UnrolledAppend DEF RingOK
  <2>6. contents' = contents \o <<d>>
    BY <1>1, <1>3, <1>5, <2>5 DEF Adc_Cache_Write_One
  <2> QED
    BY <2>1, <2>6 DEF Fifo!Put, Adc_Cache_Write_One
<1> QED
  BY <1>4, <1>5

\* A batch is cut to what fits and appended, whether or not it runs over the
\* end of the array.
LEMMA WriteBatchIsPut ==
  ASSUME RingOK, RingOK', NEW n \in Lens, NEW data \in [1..n -> Items],
         Adc_Cache_Write_Batch(data)
  PROVE  Fifo!Put(data)
<1> DEFINE w == Smaller(Len(data), Free)
           len1 == BeforeEnd(wr_idx, w)
           s == SubSeq(data, 1, w)
<1>1. contents = Unrolled(item, rd_idx, count) /\ contents' = Unrolled(item', rd_idx', count')
  BY DEF contents, Unrolled
<1>2. contents \in Seq(Items) /\ Len(contents) = count
  BY <1>1, UnrolledSeq DEF RingOK
<1>3. data \in Seq(Items) /\ Len(data) = n /\ n \in Nat
  BY CacheAssumption, SeqDef
<1>4. /\ w \in 0..n /\ count + w <= CacheLen /\ w \in 0..CacheLen
      /\ w = Fifo!AtMost(Len(data), CacheLen - Len(contents))
  BY <1>2, <1>3, CacheAssumption DEF RingOK, Smaller, Free, Fifo!AtMost
<1>5. len1 \in 0..w /\ wr_idx + len1 <= CacheLen /\ (len1 < w => wr_idx + len1 = CacheLen)
  BY SMTT(30), <1>4, CacheAssumption DEF RingOK, BeforeEnd, Smaller, Slots
<1>6. /\ item' = [k \in Slots |->
                    IF wr_idx <= k /\ k < wr_idx + len1 THEN data[k - wr_idx + 1]
                    ELSE IF k < w - len1 THEN data[len1 + k + 1]
                    ELSE item[k]]
      /\ count' = count + w /\ rd_idx' = rd_idx /\ out' = <<>>
  BY DEF Adc_Cache_Write_Batch
<1> HIDE DEF w, len1
<1>7. s \in Seq(Items) /\ Len(s) = w /\ \A i \in 1..w : s[i] = data[i]
  <2>1. \A i \in 1..w : data[i] \in Items
    BY <1>3, <1>4
  <2>2. /\ s \in Seq(Items) /\ Len(s) = IF 1 <= w THEN w - 1 + 1 ELSE 0
        /\ \A i \in 1..w - 1 + 1 : s[i] = data[1 + i - 1]
    BY <1>4, <2>1, SubSeqProperties
  <2> QED
    BY <1>4, <2>2
<1> HIDE DEF s
<1>8. \A i \in 1..count : item'[Advance(rd_idx, i - 1)] = item[Advance(rd_idx, i - 1)]
  <2> TAKE i \in 1..count
  <2> DEFINE k == Advance(rd_idx, i - 1)
  <2>1. i - 1 \in 0..CacheLen /\ count \in 0..CacheLen
    BY CacheAssumption DEF RingOK
  <2>2. /\ k = IF rd_idx + (i - 1) < CacheLen THEN rd_idx + (i - 1) ELSE rd_idx + (i - 1) - CacheLen
        /\ k \in Slots
    BY <2>1, AdvanceDef DEF RingOK
  <2>3. wr_idx = IF rd_idx + count < CacheLen THEN rd_idx + count ELSE rd_idx + count - CacheLen
    BY <2>1, AdvanceDef DEF RingOK
  <2> HIDE DEF k
  <2>4. ~(wr_idx <= k /\ k < wr_idx + len1) /\ ~(k < w - len1)
    BY SMTT(30), <2>1, <2>2, <2>3, <1>4, <1>5, CacheAssumption DEF RingOK, Slots
  <2> QED
    BY <2>2, <2>4, <1>6 DEF k
<1>9. \A i \in 1..Len(s) : item'[Advance(rd_idx, count + i - 1)] = s[i]
  <2> SUFFICES ASSUME NEW i \in 1..w PROVE item'[Advance(rd_idx, count + i - 1)] = data[i]
    BY <1>7
  <2> DEFINE k == Advance(rd_idx, count + i - 1)
  <2>1. count + i - 1 \in 0..CacheLen /\ count \in 0..CacheLen
    BY <1>4, CacheAssumption DEF RingOK
  <2>2. /\ k = IF rd_idx + (count + i - 1) < CacheLen THEN rd_idx + (count + i - 1)
               ELSE rd_idx + (count + i - 1) - CacheLen
        /\ k \in Slots
    BY <2>1, AdvanceDef DEF RingOK
  <2>3. wr_idx = IF rd_idx + count < CacheLen THEN rd_idx + count ELSE rd_idx + count - CacheLen
    BY <2>1, AdvanceDef DEF RingOK
  <2> HIDE DEF k
  <2>4. CASE i <= len1
    <3>1. wr_idx <= k /\ k < wr_idx + len1 /\ k - wr_idx + 1 = i
      BY SMTT(30), <2>1, <2>2, <2>3, <2>4, <1>4, <1>5, CacheAssumption DEF RingOK, Slots
    <3> QED
      BY <2>2, <3>1, <1>6 DEF k
  <2>5. CASE len1 < i
    <3>1. ~(wr_idx <= k /\ k < wr_idx + len1) /\ k < w - len1 /\ len1 + k + 1 = i
      BY SMTT(30), <2>1, <2>2, <2>3, <2>5, <1>4, <1>5, CacheAssumption DEF RingOK, Slots
    <3> QED
      BY <2>2, <3>1, <1>6 DEF k
  <2> QED
    BY <2>4, <2>5, <1>4, <1>5
<1>10. Unrolled(item', rd_idx, count + Len(s)) = Unrolled(item, rd_idx, count) \o s
  BY ZenonT(30), <1>4, <1>7, <1>8, <1>9, UnrolledAppend DEF RingOK
<1> QED
  BY <1>1, <1>4, <1>6, <1>7, <1>10 DEF Fifo!Put, s
\* A read hands out the oldest samples, over the end of the array too, and
\* leaves the others.
LEMMA ReadBatchIsTake ==
  ASSUME RingOK, RingOK', NEW n \in Nat, Adc_Cache_Read_Batch(n)
  PROVE  Fifo!Take(n)
<1> DEFINE r == Smaller(count, n)
           len1 == BeforeEnd(rd_idx, r)
<1>1. contents = Unrolled(item, rd_idx, count) /\ contents' = Unrolled(item', rd_idx', count')
  BY DEF contents, Unrolled
<1>2. contents \in Seq(Items) /\ Len(contents) = count
  BY <1>1, UnrolledSeq DEF RingOK
<1>3. r \in 0..count /\ r \in 0..CacheLen /\ r = Fifo!AtMost(n, Len(contents))
  BY <1>2, CacheAssumption DEF RingOK, Smaller, Fifo!AtMost
<1>4. len1 \in 0..r /\ rd_idx + len1 <= CacheLen /\ (len1 < r => rd_idx + len1 = CacheLen)
  BY <1>3, CacheAssumption DEF RingOK, BeforeEnd, Smaller, Slots
<1>5. /\ out' = [i \in 1..r |-> IF i <= len1 THEN item[rd_idx + i - 1] ELSE item[i - len1 - 1]]
      /\ rd_idx' = Advance(rd_idx, r) /\ count' = count - r /\ item' = item
  BY DEF Adc_Cache_Read_Batch
<1> HIDE DEF r, len1
<1>6. out' = Unrolled(item, rd_idx, r)
  <2> SUFFICES ASSUME NEW i \in 1..r
               PROVE  (IF i <= len1 THEN item[rd_idx + i - 1] ELSE item[i - len1 - 1])
                        = item[Advance(rd_idx, i - 1)]
    BY <1>5 DEF Unrolled
  <2>1. i - 1 \in 0..CacheLen
    BY <1>3, CacheAssumption
  <2>2. Advance(rd_idx, i - 1) =
          IF rd_idx + (i - 1) < CacheLen THEN rd_idx + (i - 1) ELSE rd_idx + (i - 1) - CacheLen
    BY <2>1, AdvanceDef DEF RingOK
  <2>3. Advance(rd_idx, i - 1) = IF i <= len1 THEN rd_idx + i - 1 ELSE i - len1 - 1
    BY SMTT(30), <2>1, <2>2, <1>3, <1>4, CacheAssumption DEF RingOK, Slots
  <2> QED
    BY <2>3
<1>7. /\ SubSeq(Unrolled(item, rd_idx, count), 1, r) = Unrolled(item, rd_idx, r)
      /\ SubSeq(Unrolled(item, rd_idx, count), r + 1, count)
           = Unrolled(item, Advance(rd_idx, r), count - r)
  BY ZenonT(30), <1>3, UnrolledSplit DEF RingOK
<1> QED
  BY <1>1, <1>2, <1>3, <1>5, <1>6, <1>7 DEF Fifo!Take

\* Reading one is reading a batch of one.
LEMMA ReadOneIsTake ==
  ASSUME RingOK, RingOK', Adc_Cache_Read_One
  PROVE  Fifo!Take(1)
<1>1. Adc_Cache_Read_Batch(1)
  <2>1. CASE count = 0
    <3>1. Smaller(count, 1) = 0 /\ BeforeEnd(rd_idx, 0) = 0 /\ Advance(rd_idx, 0) = rd_idx
      <4>1. Advance(rd_idx, 0) = rd_idx
        BY AdvanceDef, CacheAssumption DEF RingOK, Slots
      <4> QED
        BY <2>1, <4>1, CacheAssumption DEF Smaller, BeforeEnd, RingOK, Slots
    <3>2. out' = <<>> /\ UNCHANGED <<rd_idx, count, item, wr_idx>>
      BY <2>1 DEF Adc_Cache_Read_One
    <3>3. [i \in 1..0 |-> IF i <= 0 THEN item[rd_idx + i - 1] ELSE item[i - 0 - 1]] = <<>>
      OBVIOUS
    <3> QED
      BY <2>1, <3>1, <3>2, <3>3 DEF Adc_Cache_Read_Batch
  <2>2. CASE count # 0
    <3>1. Smaller(count, 1) = 1 /\ BeforeEnd(rd_idx, 1) = 1
      BY <2>2, CacheAssumption DEF Smaller, BeforeEnd, RingOK, Slots
    <3>2. [i \in 1..1 |-> IF i <= 1 THEN item[rd_idx + i - 1] ELSE item[i - 1 - 1]] = <<item[rd_idx]>>
      <4>1. rd_idx + 1 - 1 = rd_idx
        BY CacheAssumption DEF RingOK, Slots
      <4> QED
        BY <4>1
    <3> QED
      BY <2>2, <3>1, <3>2 DEF Adc_Cache_Read_Batch, Adc_Cache_Read_One
  <2> QED
    BY <2>1, <2>2
<1> QED
  BY <1>1, ReadBatchIsTake

\* Every step of the ring is a step of the queue, or changes nothing of it.
LEMMA RingStepIsFifoStep ==
  ASSUME RingOK, RingOK', [Next]_vars
  PROVE  [Fifo!Next]_<<contents, out>>
<1>1. ASSUME NEW d \in Items, Adc_Cache_Write_One(d) PROVE Fifo!Next
  <2>1. <<d>> \in [1..1 -> Items]
    OBVIOUS
  <2> QED
    BY <1>1, <2>1, WriteOneIsPut DEF Fifo!Next
<1>2. ASSUME NEW n \in Lens, NEW data \in [1..n -> Items], Adc_Cache_Write_Batch(data)
      PROVE Fifo!Next
  BY <1>2, WriteBatchIsPut DEF Fifo!Next
<1>3. ASSUME Adc_Cache_Read_One PROVE Fifo!Next
  BY <1>3, ReadOneIsTake DEF Fifo!Next
<1>4. ASSUME NEW n \in Lens, Adc_Cache_Read_Batch(n) PROVE Fifo!Next
  BY <1>4, ReadBatchIsTake, CacheAssumption DEF Fifo!Next
<1>5. ASSUME Adc_Cache_Clear PROVE Fifo!Next
  <2>1. contents' = <<>>
    BY <1>5 DEF Adc_Cache_Clear, contents
  <2> QED
    BY <1>5, <2>1 DEF Adc_Cache_Clear, Fifo!Next, Fifo!Clear
<1>6. ASSUME LockTimeout PROVE Fifo!Next
  BY <1>6 DEF LockTimeout, contents, Fifo!Next, Fifo!Refuse
<1>7. ASSUME UNCHANGED vars PROVE UNCHANGED <<contents, out>>
  BY <1>7 DEF vars, contents
<1> QED
  BY <1>1, <1>2, <1>3, <1>4, <1>5, <1>6, <1>7 DEF Next

\* The ring buffer of adc_sample.c implements the bounded queue, for every
\* capacity and all batch lengths.
THEOREM RingImplementsFifo == Spec => ImplementsFifo
<1>1. Init => Fifo!Init
  BY DEF Init, Fifo!Init, contents
<1>2. RingOK /\ RingOK' /\ [Next]_vars => [Fifo!Next]_<<contents, out>>
  BY RingStepIsFifoStep
<1> QED
  BY <1>1, <1>2, RingCorrect, PTL DEF Spec, ImplementsFifo, Fifo!Spec
=============================================================================
