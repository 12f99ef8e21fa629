------------------------------ MODULE AdcCache ------------------------------
(***************************************************************************)
(* The ring of samples between sample_task and storage_task, AdcItemCache_t*)
(* of src/app/adc_sample.c.  Every operation runs under the cache's mutex  *)
(* and is one step; a call that waits 10 ms for the mutex in vain returns  *)
(* with nothing done (LockTimeout).                                        *)
(***************************************************************************)
EXTENDS Naturals, Sequences

CONSTANTS Items,    \* samples
          CacheLen, \* sizeof(cache->item) / sizeof(AdcItem_t), 600
          Lens      \* lengths of the batches a caller asks for

ASSUME CacheAssumption ==
  CacheLen \in Nat \ {0} /\ Lens \subseteq Nat \ {0} /\ Items # {}

VARIABLES item, wr_idx, rd_idx, count, \* AdcItemCache_t
          out                          \* what the last call gave its caller

vars == <<item, wr_idx, rd_idx, count, out>>

Slots == 0 .. CacheLen - 1
Smaller(n, m) == IF n < m THEN n ELSE m

\* An index that is moved on by n slots.
Mut_Advance(i, n) == IF i + n > CacheLen THEN i + n - CacheLen ELSE i + n
Advance(i, n) == (i + n) % CacheLen

Mut_Full == count > CacheLen
Full == count >= CacheLen
Free == CacheLen - count

\* How much of a batch of n lies before the end of the ring.
BeforeEnd(i, n) == Smaller(CacheLen - i, n)
----------------------------------------------------------------------------
\* Adc_Cache_Init.  The slots hold anything (the object is zeroed at reset).
Init ==
  /\ item \in [Slots -> Items]
  /\ wr_idx = 0 /\ rd_idx = 0 /\ count = 0
  /\ out = <<>>

LockTimeout == out' = <<>> /\ UNCHANGED <<item, wr_idx, rd_idx, count>>

Adc_Cache_Write_One(d) ==
  /\ IF Full
     THEN UNCHANGED <<item, wr_idx, count>>
     ELSE /\ item' = [item EXCEPT ![wr_idx] = d]
          /\ wr_idx' = Advance(wr_idx, 1)
          /\ count' = count + 1
  /\ out' = <<>> /\ UNCHANGED rd_idx

\* The part of the batch that fits goes in two pieces: up to the end of the
\* ring, and from its first slot.
Adc_Cache_Write_Batch(data) ==
  LET write_len == Smaller(Len(data), Free)
      len1 == BeforeEnd(wr_idx, write_len)
  IN /\ item' = [k \in Slots |->
                   IF wr_idx <= k /\ k < wr_idx + len1 THEN data[k - wr_idx + 1]
                   ELSE IF k < write_len - len1 THEN data[len1 + k + 1]
                   ELSE item[k]]
     /\ wr_idx' = Advance(wr_idx, write_len)
     /\ count' = count + write_len
     /\ out' = <<>> /\ UNCHANGED rd_idx

Adc_Cache_Read_One ==
  /\ IF count = 0
     THEN out' = <<>> /\ UNCHANGED <<rd_idx, count>>
     ELSE /\ out' = <<item[rd_idx]>>
          /\ rd_idx' = Advance(rd_idx, 1)
          /\ count' = count - 1
  /\ UNCHANGED <<item, wr_idx>>

Adc_Cache_Read_Batch(max_len) ==
  LET read_len == Smaller(count, max_len)
      len1 == BeforeEnd(rd_idx, read_len)
  IN /\ out' = [i \in 1..read_len |-> IF i <= len1 THEN item[rd_idx + i - 1]
                                      ELSE item[i - len1 - 1]]
     /\ rd_idx' = Advance(rd_idx, read_len)
     /\ count' = count - read_len
     /\ UNCHANGED <<item, wr_idx>>

Adc_Cache_Clear ==
  /\ wr_idx' = 0 /\ rd_idx' = 0 /\ count' = 0
  /\ out' = <<>> /\ UNCHANGED item

Next ==
  \/ \E d \in Items : Adc_Cache_Write_One(d)
  \/ \E n \in Lens : \E data \in [1..n -> Items] : Adc_Cache_Write_Batch(data)
  \/ Adc_Cache_Read_One
  \/ \E n \in Lens : Adc_Cache_Read_Batch(n)
  \/ Adc_Cache_Clear
  \/ LockTimeout

Spec == Init /\ [][Next]_vars
----------------------------------------------------------------------------
\* Types, and the relation of the two indices that the operations rely on.
RingOK ==
  /\ item \in [Slots -> Items]
  /\ wr_idx \in Slots /\ rd_idx \in Slots /\ count \in 0..CacheLen
  /\ wr_idx = Advance(rd_idx, count)

\* The samples held, oldest first.
contents == [i \in 1..count |-> item[Advance(rd_idx, i - 1)]]

Fifo == INSTANCE SampleFifo WITH fifo <- contents

\* The ring is the bounded queue SampleFifo: no sample is lost, repeated or
\* reordered between Adc_Cache_Write_* and Adc_Cache_Read_*, over the end of
\* the array too.
ImplementsFifo == Fifo!Spec
=============================================================================
