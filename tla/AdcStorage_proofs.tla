-------------------------- MODULE AdcStorage_proofs --------------------------
(***************************************************************************)
(* The properties of the ring of seconds on the eMMC, for every size of a  *)
(* table, of the ring and of a search, and for every residue and bound.    *)
(*                                                                         *)
(* Argument, in the order of the sections.                                 *)
(*  1. While the device samples, address and position move together and    *)
(*     wrap together; a clear parts them, but the device samples again only *)
(*     after a start, which computes the address from the position that it *)
(*     reads, whatever that is.                                            *)
(*  2. As long as everything is regular a start reads what was last whole in *)
(*     the store and the time stamps rise; all that follows is shown of such *)
(*     steps, and claimed only of states that they lead to.                *)
(*  3. What a second stored does to the state, whether it fills a table or *)
(*     not, and the ranges and the history that every operation keeps.     *)
(*  4. After a clear the address may be reset with a table begun.  Then the *)
(*     seconds still under way are too few to do it twice: nothing is in a *)
(*     full block before the table fills, and no other table fills after.  *)
(*  5. Every entry of the index lies in the block it is an entry of, and   *)
(*     its second is there unless the block is being overwritten.          *)
(*  6. Blocks are in the order of their seconds until the ring is full, so *)
(*     that the first chunk that ends late enough is the one to search.    *)
(*  7. What the index holds is later than the last clear that was saved.   *)
(*  8. The times of the recording are those of its first and last second.  *)
(*  9. What can be read is what was kept, and a start finds what was saved: *)
(*     every operation is one of Recording's, and what a loss of power takes *)
(*     is in the table in RAM and, unless the save is late, in one block that *)
(*     is not saved yet.                                                   *)
(***************************************************************************)
EXTENDS AdcStorage, FiniteSetTheorems, TLAPS

\* A place in a table, and an index block.
Entries == 0 .. PerBlock - 1
Blocks == 0 .. IndexBlocks - 1

\* The next free address and the position in the index agree while sampling:
\* Adc_Object_Init computes the one from the other.
AddrAgrees == Sampling => addr = curr_block * PerBlock + item_index

\* The ranges of the position and of both its copies.
InvRange ==
  /\ item_index \in Entries /\ curr_block \in Blocks
  /\ config.curr_block \in Blocks /\ saved.curr_block \in Blocks

\* Both copies of the configuration have the fields that are changed.
Fields == {"block_num", "curr_block", "str_time", "end_time", "flag"}
InvFields == DOMAIN config = Fields /\ DOMAIN saved = Fields

\* Nothing is sampled from the start of a clear to the next start of the device.
InvClear == clearing => ~Sampling

IInv == InvRange /\ InvFields /\ InvClear /\ AddrAgrees

\* The operations as long as everything is regular: the time stamps follow one another,
\* the first lap's end is saved in time,
StoreRight == StoreSecond /\ regular'

\* a page written changes nothing but the store, or it is the one that makes it whole,
Saves ==
  /\ Whole
  /\ UNCHANGED <<object, emmc, config, clearing, left, now, known, kept, completed, mark, torn>>

\* and a start finds the configuration that the store had whole.
state == <<object, emmc, config, saved, clearing, left, now, history, clears, late>>
Steady ==
  \/ StoreRight \/ Saves
  \/ ClearConfigFirst \/ ClearThenObject \/ kt_ClearConfig
  \/ StartFrom(saved)

\* A block begins at an address.
LEMMA StartOfBlock ==
  ASSUME NEW b \in Nat
  PROVE  b * PerBlock \in Nat /\ b * PerBlock + 0 = b * PerBlock
<1>1. PerBlock \in Nat
  BY AdcStorageAssumption
<1>2. b * PerBlock \in Nat
  BY <1>1
<1> QED
  BY <1>2

\* Moving on by one second inside a block stays inside the ring; moving on from
\* the last second of a block comes to the next block, or wraps with it.
LEMMA InsideBlock ==
  ASSUME NEW b \in Blocks, NEW i \in Entries, i + 1 < PerBlock
  PROVE  NextAddr(b * PerBlock + i) = b * PerBlock + (i + 1)
<1>1. PerBlock \in Nat \ {0} /\ IndexBlocks \in Nat \ {0, 1}
  BY AdcStorageAssumption
<1>2. b * PerBlock \in Nat
  BY <1>1 DEF Blocks
<1>3. (b + 1) * PerBlock = b * PerBlock + PerBlock
  BY <1>1 DEF Blocks
<1>4. (b + 1) * PerBlock <= PerBlock * IndexBlocks
  BY <1>1 DEF Blocks
<1>5. PerBlock * IndexBlocks \in Nat
  BY <1>1
<1> QED
  BY <1>1, <1>2, <1>3, <1>4, <1>5 DEF NextAddr, Capacity, Entries

\* The second behind the last of a block begins the next block, or the ring.
LEMMA EndOfBlock ==
  ASSUME NEW b \in Blocks, NEW i \in Entries, i + 1 >= PerBlock
  PROVE  NextAddr(b * PerBlock + i) =
           (IF b + 1 >= IndexBlocks THEN 0 ELSE b + 1) * PerBlock
<1>1. PerBlock \in Nat \ {0} /\ IndexBlocks \in Nat \ {0, 1}
  BY AdcStorageAssumption
<1>2. b * PerBlock \in Nat
  BY <1>1 DEF Blocks
<1>3. b * PerBlock + i + 1 = (b + 1) * PerBlock
  BY <1>1 DEF Blocks, Entries
<1>4. CASE b + 1 >= IndexBlocks
  <2>1. b + 1 = IndexBlocks
    BY <1>1, <1>4 DEF Blocks
  <2>2. b * PerBlock + i + 1 = PerBlock * IndexBlocks
    BY <1>1, <1>3, <2>1
  <2> QED
    BY <1>1, <1>4, <2>2 DEF NextAddr, Capacity
<1>5. CASE ~(b + 1 >= IndexBlocks)
  <2>1. b + 2 <= IndexBlocks
    BY <1>1, <1>5 DEF Blocks
  <2>2. (b + 2) * PerBlock <= PerBlock * IndexBlocks
    BY <1>1, <2>1 DEF Blocks
  <2>3. (b + 2) * PerBlock = (b + 1) * PerBlock + PerBlock
    BY <1>1 DEF Blocks
  <2>4. (b + 1) * PerBlock \in Nat /\ PerBlock * IndexBlocks \in Nat
    BY <1>1 DEF Blocks
  <2> QED
    BY <1>1, <1>3, <1>5, <2>2, <2>3, <2>4 DEF NextAddr, Capacity
<1> QED
  BY <1>4, <1>5

\* What the two kinds of reset leave of the configuration.
LEMMA Resets ==
  /\ DOMAIN Erased = Fields /\ DOMAIN Cleared = Fields
  /\ Erased.curr_block = 0 /\ Cleared.curr_block = 0
  /\ Erased.flag = "NONE" /\ Cleared.flag = "FIRST_ON"
  BY DEF Erased, Cleared, Fields

\* The initial states.
LEMMA InvInit == Init => IInv
<1> SUFFICES ASSUME Init PROVE IInv
  OBVIOUS
<1>1. 0 \in Entries /\ 0 \in Blocks
  BY AdcStorageAssumption DEF Entries, Blocks
<1>2. DOMAIN config = Fields /\ config.curr_block = 0 /\ saved = Cleared
  BY Resets DEF Init, Fields
<1>3. InvRange /\ InvFields
  BY <1>1, <1>2, Resets DEF Init, InvRange, InvFields
<1>4. InvClear
  BY DEF Init, InvClear
<1>5. AddrAgrees
  BY AdcStorageAssumption DEF Init, AddrAgrees
<1> QED
  BY <1>3, <1>4, <1>5 DEF IInv

\* One more second: address and position move on together.
LEMMA StoreKeeps == IInv /\ StoreSecond => IInv'
<1> SUFFICES ASSUME IInv, StoreSecond PROVE IInv'
  OBVIOUS
<1>1. /\ PerBlock \in Nat \ {0} /\ IndexBlocks \in Nat \ {0, 1}
      /\ item_index \in 0 .. PerBlock - 1 /\ curr_block \in 0 .. IndexBlocks - 1
  BY AdcStorageAssumption DEF IInv, InvRange, Entries, Blocks
<1>2. /\ addr' = NextAddr(addr) /\ UNCHANGED <<saved, clearing>>
      /\ Storage_Write_AdcData(now')
  BY DEF StoreSecond, Storage_Write_AdcData
<1>3. CASE item_index + 1 >= PerBlock
  <2>1. \E table : FlushTable(table)
    BY <1>2, <1>3 DEF Storage_Write_AdcData
  <2>2. PICK table : FlushTable(table)
    BY <2>1
  <2>3. /\ item_index' = 0
        /\ curr_block' = IF curr_block + 1 >= IndexBlocks THEN 0 ELSE curr_block + 1
        /\ config' = [config EXCEPT !.block_num = block_num', !.curr_block = curr_block',
                                    !.str_time = str_time', !.end_time = end_time']
    BY <2>2 DEF FlushTable
  <2>4. /\ DOMAIN config' = Fields /\ config'.curr_block = curr_block'
        /\ config'.flag = config.flag
    BY <2>3 DEF IInv, InvFields, Fields
  <2>5. InvRange' /\ InvFields'
    BY <1>1, <1>2, <2>3, <2>4 DEF IInv, InvRange, InvFields, Entries, Blocks
  <2>6. InvClear'
    BY <1>2, <2>4 DEF IInv, InvClear, Sampling
  <2>7. AddrAgrees'
    <3> SUFFICES ASSUME Sampling' PROVE addr' = curr_block' * PerBlock + item_index'
      BY DEF AddrAgrees
    <3>1. addr = curr_block * PerBlock + item_index
      BY <2>4 DEF IInv, AddrAgrees, Sampling
    <3>2. addr' = curr_block' * PerBlock
      BY <1>2, <1>3, <2>3, <3>1, EndOfBlock DEF IInv, InvRange
    <3>3. curr_block' \in Nat
      BY <1>1, <2>3
    <3>4. curr_block' * PerBlock + 0 = curr_block' * PerBlock
      BY <3>3, StartOfBlock
    <3> QED
      BY <2>3, <3>2, <3>4
  <2> QED
    BY <2>5, <2>6, <2>7 DEF IInv
<1>4. CASE ~(item_index + 1 >= PerBlock)
  <2>1. item_index' = item_index + 1 /\ UNCHANGED <<curr_block, config>>
    BY <1>2, <1>4 DEF Storage_Write_AdcData
  <2>2. InvRange' /\ InvFields' /\ InvClear'
    BY <1>1, <1>2, <1>4, <2>1
    DEF IInv, InvRange, InvFields, InvClear, Sampling, Entries, Blocks
  <2>3. AddrAgrees'
    <3> SUFFICES ASSUME Sampling' PROVE addr' = curr_block' * PerBlock + item_index'
      BY DEF AddrAgrees
    <3>1. addr = curr_block * PerBlock + item_index
      BY <2>1 DEF IInv, AddrAgrees, Sampling
    <3>2. item_index + 1 < PerBlock
      BY <1>1, <1>4
    <3>3. addr' = curr_block * PerBlock + (item_index + 1)
      BY <1>2, <3>1, <3>2, InsideBlock DEF IInv, InvRange
    <3> QED
      BY <2>1, <3>3
  <2> QED
    BY <2>2, <2>3 DEF IInv
<1> QED
  BY <1>3, <1>4

\* The start of the device: the address is computed from the position it finds.
LEMMA BootKeeps ==
  ASSUME IInv, NEW c, DOMAIN c = Fields, c.curr_block \in Blocks, StartFrom(c)
  PROVE  IInv'
<1>1. 0 \in Entries /\ 0 \in Blocks
  BY AdcStorageAssumption DEF Entries, Blocks
<1>2. /\ config' = BootConfig(c)
      /\ saved' = (IF c.flag = "NONE" THEN Cleared ELSE saved)
      /\ curr_block' = config'.curr_block /\ addr' = config'.curr_block * PerBlock
      /\ item_index' = 0 /\ clearing' = FALSE
  BY DEF StartFrom
<1>3. DOMAIN config' = Fields /\ config'.curr_block \in Blocks
  BY <1>1, <1>2, Resets DEF BootConfig, Fields
<1>4. DOMAIN saved' = Fields /\ saved'.curr_block \in Blocks
  BY <1>1, <1>2, Resets DEF IInv, InvRange, InvFields
<1>5. config'.curr_block * PerBlock \in Nat
  BY <1>3, AdcStorageAssumption DEF Blocks
<1> QED
  BY <1>1, <1>2, <1>3, <1>4, <1>5
  DEF IInv, InvRange, InvFields, InvClear, AddrAgrees

\* Saves and clears: nothing is sampled where address and position part.
LEMMA InvStep == IInv /\ [Steady]_state => IInv'
<1> SUFFICES ASSUME IInv, [Steady]_state PROVE IInv'
  OBVIOUS
<1>1. 0 \in Entries /\ 0 \in Blocks
  BY AdcStorageAssumption DEF Entries, Blocks
<1>2. CASE StoreRight
  BY <1>2, StoreKeeps DEF StoreRight
<1>3. CASE Saves
  BY <1>3 DEF Saves, Whole, object, IInv, InvRange, InvFields, InvClear, AddrAgrees, Sampling
<1>4. CASE ClearConfigFirst
  <2>1. config' = Cleared /\ UNCHANGED <<item_index, curr_block, saved>>
    BY <1>4 DEF ClearConfigFirst, Reset, object
  <2>2. ~Sampling'
    BY <2>1, Resets DEF Sampling
  <2> QED
    BY <1>1, <2>1, <2>2, Resets
    DEF IInv, InvRange, InvFields, InvClear, AddrAgrees
<1>5. CASE ClearThenObject
  <2>1. clearing /\ clearing' = FALSE /\ ClearObject /\ UNCHANGED <<config, saved>>
    BY <1>5 DEF ClearThenObject
  <2>2. ~Sampling'
    BY <2>1 DEF IInv, InvClear, Sampling
  <2>3. item_index' = item_index /\ curr_block' \in {0, curr_block}
    BY <2>1 DEF ClearObject, object
  <2> QED
    BY <1>1, <2>1, <2>2, <2>3
    DEF IInv, InvRange, InvFields, InvClear, AddrAgrees
<1>6. CASE kt_ClearConfig
  <2>1. config' = Erased /\ UNCHANGED <<item_index, curr_block, saved>>
    BY <1>6 DEF kt_ClearConfig, object
  <2>2. ~Sampling'
    BY <2>1, Resets DEF Sampling
  <2> QED
    BY <1>1, <2>1, <2>2, Resets
    DEF IInv, InvRange, InvFields, InvClear, AddrAgrees
<1>7. CASE StartFrom(saved)
  BY <1>7, BootKeeps DEF IInv, InvRange, InvFields
<1>8. CASE UNCHANGED state
  BY <1>8 DEF state, object, IInv, InvRange, InvFields, InvClear, AddrAgrees, Sampling
<1> QED
  BY <1>2, <1>3, <1>4, <1>5, <1>6, <1>7, <1>8 DEF Steady

\* What the store holds, whole or not, has a position in the index.
ImageInv == DOMAIN image = Fields /\ image.curr_block \in Blocks

\* What a start reads of it, however many pages, has one too.
LEMMA ReadsPosition ==
  ASSUME ImageInv, NEW n
  PROVE  DOMAIN ReadPages(n) = Fields /\ ReadPages(n).curr_block \in Blocks
<1>1. 0 \in Blocks /\ "curr_block" \in Fields
  BY AdcStorageAssumption DEF Blocks, Fields
<1>2. ReadPages(n).curr_block \in {image.curr_block, Erased.curr_block}
  BY <1>1 DEF ReadPages, ImageInv
<1> QED
  BY <1>1, <1>2, Resets DEF ReadPages, ImageInv

\* Every operation keeps the position, also one that is not regular.
LEMMA PositionStep == IInv /\ ImageInv /\ [Next]_vars => (IInv /\ ImageInv)'
<1> SUFFICES ASSUME IInv, ImageInv, [Next]_vars PROVE IInv' /\ ImageInv'
  OBVIOUS
<1>1. CASE StoreSecond
  BY <1>1, StoreKeeps DEF StoreSecond, store, ImageInv
<1>2. CASE fm24c_write
  <2>1. image' \in {image, PageWritten}
    BY <1>2 DEF fm24c_write
  <2>2. "curr_block" \in Fields /\ config.curr_block \in Blocks
    BY DEF Fields, IInv, InvRange
  <2>3. ImageInv'
    BY <2>1, <2>2 DEF ImageInv, PageWritten
  <2>4. saved' \in {saved, config}
    BY <1>2 DEF fm24c_write, Whole
  <2>5. IInv'
    BY <1>2, <2>4
    DEF fm24c_write, object, IInv, InvRange, InvFields, InvClear, AddrAgrees, Sampling
  <2> QED
    BY <2>3, <2>5
<1>3. CASE ClearConfigFirst \/ ClearThenObject \/ kt_ClearConfig
  BY <1>3, InvStep
  DEF Steady, ClearConfigFirst, ClearThenObject, kt_ClearConfig, store, ImageInv
<1>4. CASE Boot
  <2>1. PICK n \in 0 .. Len(Page) :
          /\ StartFrom(ReadPages(n))
          /\ image' = IF ReadPages(n).flag = "NONE" THEN Cleared ELSE image
    BY <1>4 DEF Boot
  <2>2. DOMAIN ReadPages(n) = Fields /\ ReadPages(n).curr_block \in Blocks
    BY ReadsPosition
  <2>3. IInv'
    BY <2>1, <2>2, BootKeeps
  <2>4. 0 \in Blocks
    BY AdcStorageAssumption DEF Blocks
  <2>5. ImageInv'
    BY <2>1, <2>4, Resets DEF ImageInv
  <2> QED
    BY <2>3, <2>5
<1>5. CASE UNCHANGED vars
  BY <1>5 DEF vars, object, store, IInv, InvRange, InvFields, InvClear, AddrAgrees, Sampling,
              ImageInv
<1> QED
  BY <1>1, <1>2, <1>3, <1>4, <1>5 DEF Next

\* The address of the next second and the position in the index agree while the
\* device samples: Adc_Object_Init may compute the one from the other, and
\* Storage_Write_AdcData wraps both at the same second.  (This needs no regular clock
\* and no save that succeeds.)
THEOREM AddressesAgree == Spec => []AddrAgrees
<1>1. Init => IInv /\ ImageInv
  <2>1. SUFFICES ASSUME Init PROVE ImageInv
    BY InvInit
  <2>2. 0 \in Blocks
    BY AdcStorageAssumption DEF Blocks
  <2>3. image = Cleared
    BY <2>1 DEF Init
  <2> QED
    BY <2>2, <2>3, Resets DEF ImageInv
<1>2. IInv /\ ImageInv /\ [Next]_vars => (IInv /\ ImageInv)'
  BY PositionStep
<1>3. IInv => AddrAgrees
  BY DEF IInv
<1> QED
  BY <1>1, <1>2, <1>3, PTL DEF Spec
----------------------------------------------------------------------------
(* 2. The regular operations.                                              *)

\* As long as everything is regular an operation is one of Steady, or nothing that
\* matters: the pages that do not complete a save.
LEMMA RegularStep == regular' /\ [Next]_vars => [Steady]_state
<1> SUFFICES ASSUME regular', [Next]_vars PROVE [Steady]_state
  OBVIOUS
<1>1. CASE StoreSecond
  BY <1>1 DEF Steady, StoreRight
<1>2. CASE fm24c_write
  <2>1. CASE image' = config
    BY <1>2, <2>1 DEF fm24c_write, Steady, Saves
  <2>2. CASE image' # config
    BY <1>2, <2>2 DEF fm24c_write, state, history, clears
  <2> QED
    BY <2>1, <2>2
<1>3. CASE ClearConfigFirst \/ ClearThenObject \/ kt_ClearConfig
  BY <1>3 DEF Steady
<1>4. CASE Boot
  BY <1>4 DEF Boot, Steady
<1>5. CASE UNCHANGED vars
  BY <1>5 DEF vars, state
<1> QED
  BY <1>1, <1>2, <1>3, <1>4, <1>5 DEF Next

\* What is over does not become regular again.
LEMMA StaysIrregular == [Next]_vars => (regular' => regular)
<1> SUFFICES ASSUME [Next]_vars, regular' PROVE regular
  OBVIOUS
<1>1. CASE StoreSecond
  BY <1>1 DEF StoreSecond
<1>2. CASE fm24c_write \/ ClearConfigFirst \/ ClearThenObject \/ kt_ClearConfig
  BY <1>2 DEF fm24c_write, ClearConfigFirst, ClearThenObject, kt_ClearConfig
<1>3. CASE Boot
  BY <1>3 DEF Boot
<1>4. CASE UNCHANGED vars
  BY <1>4 DEF vars
<1> QED
  BY <1>1, <1>2, <1>3, <1>4 DEF Next
----------------------------------------------------------------------------
(* 3. What a second stored does, ranges and history.                       *)

\* The places of the index that a search may come to, the entries of a table, and
\* the last second of an index block.
IndexRange == 0 .. 2 * IndexBlocks
Cells == [ts : Nat, addr : Addrs]
Tables == [Entries -> Cells]
LastOf(b) == index[b][PerBlock - 1].ts

\* What the variables hold,
InvData ==
  /\ item_tables \in Tables /\ index \in [IndexRange -> Tables] /\ data \in [Addrs -> Nat]
  /\ addr \in Addrs /\ now \in Nat

\* nothing of it later than the second stored last, and nothing behind the index.
InvPast ==
  /\ \A i \in Entries : item_tables[i].ts <= now
  /\ \A b \in IndexRange : \A i \in Entries : index[b][i].ts <= now
  /\ \A a \in Addrs : data[a] <= now
  /\ \A b \in IndexBlocks .. 2 * IndexBlocks : index[b] = Blank

\* The number of blocks is the current one in the first lap, and a lap more after it.
InvPos ==
  /\ block_num \in {curr_block, curr_block + IndexBlocks}
  /\ config.block_num \in {config.curr_block, config.curr_block + IndexBlocks}
  /\ saved.block_num \in {saved.curr_block, saved.curr_block + IndexBlocks}
  /\ config.flag \in {"NONE", "FIRST_ON", "NEXT_ON"}
  /\ saved.flag \in {"NONE", "FIRST_ON", "NEXT_ON"}

\* The seconds still under way after a clear are a table's worth at most, and a clear
\* is saved after it is made.
InvMarks == left \in 0..PerBlock /\ mark \in 0..now /\ gone \in 0..mark

\* What is in a saved block is in a full one, and that is of the seconds kept.
InvHistory ==
  /\ durable \subseteq completed /\ completed \subseteq kept
  /\ kept \subseteq known /\ known \subseteq 1..now

\* All this together, with section 1.
Base == IInv /\ InvData /\ InvPast /\ InvPos /\ InvMarks /\ InvHistory

\* What every second stored does.
Written == [item_tables EXCEPT ![item_index] = Entry(now')]
Stores ==
  /\ now' \in Nat /\ now' > 0
  /\ now < now' \/ (now' = now /\ now \in kept /\ NoneRepeated)
  /\ data' = [data EXCEPT ![addr] = now'] /\ addr' = NextAddr(addr)
  /\ known' = known \cup {now'} /\ kept' = kept \cup {now'}
  /\ left' = (IF Sampling THEN left ELSE left - 1)
  /\ Sampling \/ left > 0
  /\ late' = (late \/ (completed # durable /\ item_index + 1 >= PerBlock))
  /\ UNCHANGED <<saved, clearing, durable, mark, gone>>
\* A second in the middle of a table,
Appends ==
  /\ item_index + 1 < PerBlock
  /\ item_index' = item_index + 1 /\ item_tables' = Written
  /\ UNCHANGED <<index, str_time, end_time, curr_block, block_num, config, completed>>
  /\ ~torn' => ~torn
\* and the one that fills it.
Lap == curr_block = 0 /\ block_num = IndexBlocks
Fills ==
  /\ item_index + 1 = PerBlock
  /\ completed # durable => late'
  /\ durable # {} /\ saved.block_num < IndexBlocks => FirstLap
  /\ index' = [index EXCEPT ![curr_block] = Written]
  /\ item_tables' = (IF Lap THEN index[1] ELSE Written) /\ item_index' = 0
  /\ completed' = kept'
  /\ curr_block' = (IF curr_block + 1 >= IndexBlocks THEN 0 ELSE curr_block + 1)
  /\ block_num' = (IF curr_block + 1 >= IndexBlocks THEN IndexBlocks ELSE block_num + 1)
  /\ str_time' = StartTime(IF Lap THEN index[1] ELSE Written)
  /\ end_time' = (IF Lap THEN index[1] ELSE Written)[PerBlock - 1].ts
  /\ config' = [config EXCEPT !.block_num = block_num', !.curr_block = curr_block',
                              !.str_time = str_time', !.end_time = end_time']
  /\ ~torn' => ~torn /\ Sampling

\* The assumption on the constants, without its bound.
LEMMA Sizes ==
  /\ PerBlock \in Nat /\ PerBlock >= 2 /\ IndexBlocks \in Nat /\ IndexBlocks >= 2
  /\ Chunk \in Nat /\ Chunk >= 1 /\ Residue \in 0 .. PerBlock
  BY AdcStorageAssumption

\* StoreRight is one of the two.
LEMMA StoreCases ==
  ASSUME Base, StoreRight
  PROVE  Stores /\ (Appends \/ Fills)
<1>1. now \in Nat /\ item_index \in 0 .. PerBlock - 1 /\ PerBlock \in Nat /\ kept \subseteq 1..now
  BY Sizes DEF Base, InvData, IInv, InvRange, Entries, InvHistory
<1>2. /\ Storage_Write_AdcData(now')
      /\ UNCHANGED <<saved, clearing, durable, mark, gone>>
      /\ left' = (IF Sampling THEN left ELSE left - 1) /\ (Sampling \/ left > 0)
      /\ Follows(now') /\ ~(Overtaken /\ item_index + 1 >= PerBlock)
      /\ torn' = (torn \/ (~Sampling /\ item_index + 1 >= PerBlock))
      /\ late' = (late \/ (completed # durable /\ item_index + 1 >= PerBlock))
  BY DEF StoreRight, StoreSecond
<1>3. /\ now' \in Nat /\ now' > 0
      /\ now < now' \/ (now' = now /\ now \in kept /\ NoneRepeated)
  <2>1. now' \in Nat
    BY <1>1 DEF StoreRight, StoreSecond
  <2>2. CASE now < now'
    BY <1>1, <2>1, <2>2
  <2>3. CASE now' = now /\ now \in kept /\ NoneRepeated
    <3>1. now \in 1..now
      BY <1>1, <2>3
    <3> QED
      BY <1>1, <2>3, <3>1
  <2> QED
    BY <1>2, <2>2, <2>3 DEF Follows
<1>4. Stores
  BY <1>2, <1>3 DEF Storage_Write_AdcData, Stores
<1>5. CASE ~(item_index + 1 >= PerBlock)
  <2>1. item_index + 1 < PerBlock
    BY <1>1, <1>5
  <2>2. ~torn' => ~torn
    BY <1>2
  <2>3. Appends
    BY <1>2, <1>5, <2>1, <2>2 DEF Storage_Write_AdcData, Appends, Written
  <2> QED
    BY <1>4, <2>3
<1>6. CASE item_index + 1 >= PerBlock
  <2>1. item_index + 1 = PerBlock /\ ~(item_index + 1 < PerBlock)
    BY <1>1, <1>6
  <2>2. /\ completed # durable => late'
        /\ durable # {} /\ saved.block_num < IndexBlocks => FirstLap
    BY <1>2, <1>6 DEF Overtaken
  <2>3. ~torn' => ~torn /\ Sampling
    BY <1>2, <1>6
  <2>4. FlushTable(Written) /\ completed' = kept'
    BY <1>2, <1>6 DEF Storage_Write_AdcData, Written
  <2>5. Fills
    BY <2>1, <2>2, <2>3, <2>4 DEF FlushTable, Fills, Lap
  <2> QED
    BY <1>4, <2>5
<1> QED
  BY <1>5, <1>6

\* What Base says of the state, for citing.
LEMMA Ranges ==
  ASSUME Base
  PROVE  /\ addr \in Addrs /\ addr \in Nat /\ now \in Nat
         /\ item_index \in 0 .. PerBlock - 1 /\ item_index \in Nat
         /\ curr_block \in 0 .. IndexBlocks - 1 /\ curr_block \in Nat
         /\ curr_block \in IndexRange /\ block_num \in Nat
         /\ config.curr_block \in 0 .. IndexBlocks - 1 /\ saved.curr_block \in 0 .. IndexBlocks - 1
         /\ DOMAIN config = Fields /\ DOMAIN saved = Fields
         /\ item_tables \in Tables /\ index \in [IndexRange -> Tables] /\ data \in [Addrs -> Nat]
  BY Sizes DEF Base, IInv, InvRange, InvFields, InvData, InvPos, Entries, Blocks, Addrs, IndexRange

\* An entry of a table.
LEMMA CellOf ==
  ASSUME NEW t \in Tables, NEW i \in Entries
  PROVE  t[i] \in Cells /\ t[i].ts \in Nat /\ t[i].addr \in Addrs
  BY DEF Tables, Cells

\* A table without entries has no second.
LEMMA BlankTable ==
  /\ Blank \in Tables
  /\ \A i \in Entries : Blank[i].ts = 0
<1>1. 0 \in Addrs
  <2>1. PerBlock * IndexBlocks \in Nat /\ PerBlock * IndexBlocks >= 1
    BY Sizes
  <2> QED
    BY <2>1 DEF Addrs, Capacity
<1> QED
  BY <1>1 DEF Blank, Tables, Cells, Entries

\* The ring is a number of whole blocks, and a block begins inside it.
LEMMA Capacities ==
  /\ Capacity \in Nat /\ Capacity >= 2 * PerBlock
  /\ \A b \in Blocks : b * PerBlock \in Nat /\ b * PerBlock + PerBlock <= Capacity
<1>1. PerBlock * IndexBlocks \in Nat /\ PerBlock * IndexBlocks >= PerBlock * 2
  BY Sizes
<1>2. ASSUME NEW b \in Blocks
      PROVE  b * PerBlock \in Nat /\ b * PerBlock + PerBlock <= PerBlock * IndexBlocks
  <2>1. b * PerBlock \in Nat /\ (b + 1) * PerBlock = b * PerBlock + PerBlock
    BY Sizes DEF Blocks
  <2>2. (b + 1) * PerBlock <= IndexBlocks * PerBlock
    BY Sizes DEF Blocks
  <2> QED
    BY <2>1, <2>2, Sizes
<1> QED
  BY <1>1, <1>2, Sizes DEF Capacity

\* A place in a block of the ring is an address.
LEMMA PlaceInRing ==
  ASSUME NEW b \in Blocks, NEW i \in Entries
  PROVE  b * PerBlock + i \in Addrs
  BY Capacities, Sizes DEF Addrs, Entries

\* The next address is one, too.
LEMMA NextInRing ==
  ASSUME NEW a \in Addrs
  PROVE  NextAddr(a) \in Addrs /\ NextAddr(a) # a
  BY Capacities, Sizes DEF Addrs, NextAddr

\* The table with a second's entry: the entries before it, and its own.
LEMMA WrittenTable ==
  ASSUME Base, Stores
  PROVE  /\ Written \in Tables
         /\ Written[item_index] = [ts |-> now', addr |-> addr]
         /\ \A i \in Entries : i # item_index => Written[i] = item_tables[i]
<1>1. [ts |-> now', addr |-> addr] \in Cells
  BY Ranges DEF Stores, Cells
<1>2. item_index \in Entries /\ item_tables \in [Entries -> Cells]
  BY Ranges DEF Entries, Tables
<1> QED
  BY <1>1, <1>2 DEF Written, Entry, Tables

\* Base holds at first, and one conjunct after the other over every operation.
LEMMA DataInit == Init => InvData /\ InvPast /\ InvPos /\ InvMarks /\ InvHistory
<1> SUFFICES ASSUME Init PROVE InvData /\ InvPast /\ InvPos /\ InvMarks /\ InvHistory
  OBVIOUS
<1>1. 0 \in Addrs
  BY Capacities, Sizes DEF Addrs
<1>2. InvData
  BY <1>1, BlankTable DEF Init, InvData, IndexRange
<1>3. InvPast
  BY <1>1, BlankTable, Sizes DEF Init, InvPast, IndexRange
<1>4. InvPos
  BY Resets, Sizes DEF Init, InvPos, Cleared, Erased
<1>5. InvMarks
  BY Sizes DEF Init, InvMarks
<1>6. InvHistory
  BY DEF Init, InvHistory
<1> QED
  BY <1>2, <1>3, <1>4, <1>5, <1>6

LEMMA DataStep == Base /\ [Steady]_state => InvData'
<1> SUFFICES ASSUME Base, [Steady]_state PROVE InvData'
  OBVIOUS
<1> USE DEF InvData
<1>1. CASE StoreRight
  <2>1. Stores /\ (Appends \/ Fills)
    BY <1>1, StoreCases
  <2>2. addr' \in Addrs /\ now' \in Nat /\ data' \in [Addrs -> Nat]
    BY <2>1, Ranges, NextInRing DEF Stores
  <2>3. CASE Appends
    BY <2>1, <2>2, <2>3, Ranges, WrittenTable DEF Appends
  <2>4. CASE Fills
    <3>1. index[1] \in Tables
      BY Ranges, Sizes DEF IndexRange
    <3>2. item_tables' \in Tables
      BY <2>1, <2>4, <3>1, WrittenTable DEF Fills
    <3>3. index' \in [IndexRange -> Tables]
      BY <2>1, <2>4, Ranges, WrittenTable DEF Fills
    <3> QED
      BY <2>2, <3>2, <3>3
  <2> QED
    BY <2>1, <2>3, <2>4
<1>2. CASE Saves
  BY <1>2, Ranges DEF Saves, Whole, object, emmc
<1>3. CASE ClearConfigFirst
  BY <1>3, Ranges DEF ClearConfigFirst, object, emmc
<1>4. CASE ClearThenObject
  <2>1. 0 \in Addrs
    BY Capacities, Sizes DEF Addrs
  <2> QED
    BY <1>4, <2>1, Ranges DEF ClearThenObject, ClearObject, object, emmc
<1>5. CASE kt_ClearConfig
  BY <1>5, Ranges DEF kt_ClearConfig, object, emmc
<1>6. CASE StartFrom(saved)
  <2>1. config'.curr_block \in Blocks
    BY <1>6, BootKeeps DEF Base, IInv, InvRange, InvFields
  <2>2. config'.curr_block * PerBlock \in Addrs
    BY <2>1, Capacities, Sizes DEF Addrs
  <2> QED
    BY <1>6, <2>2, Ranges, BlankTable DEF StartFrom, emmc
<1>7. CASE UNCHANGED state
  BY <1>7, Ranges DEF state, object, emmc
<1> QED
  BY <1>1, <1>2, <1>3, <1>4, <1>5, <1>6, <1>7 DEF Steady

LEMMA PastStep == Base /\ [Steady]_state => InvPast'
<1> SUFFICES ASSUME Base, [Steady]_state PROVE InvPast'
  OBVIOUS
<1>0. InvPast
  BY DEF Base
<1>1. CASE StoreRight
  <2>1. Stores /\ (Appends \/ Fills)
    BY <1>1, StoreCases
  <2>2. now \in Nat /\ now' \in Nat /\ now <= now'
    BY <2>1, Ranges DEF Stores
  <2>3. \A i \in Entries : Written[i].ts <= now'
    <3> SUFFICES ASSUME NEW i \in Entries PROVE Written[i].ts <= now'
      OBVIOUS
    <3>1. CASE i = item_index
      BY <2>1, <2>2, <3>1, WrittenTable
    <3>2. CASE i # item_index
      <4>1. Written[i] = item_tables[i] /\ item_tables[i].ts <= now /\ item_tables[i].ts \in Nat
        BY <1>0, <2>1, <3>2, WrittenTable, CellOf, Ranges DEF InvPast
      <4> QED
        BY <2>2, <4>1
    <3> QED
      BY <3>1, <3>2
  <2>4. \A a \in Addrs : data'[a] <= now'
    <3> SUFFICES ASSUME NEW a \in Addrs PROVE data'[a] <= now'
      OBVIOUS
    <3>1. data[a] <= now /\ data[a] \in Nat
      BY <1>0, Ranges DEF InvPast
    <3>2. data'[a] = IF a = addr THEN now' ELSE data[a]
      BY <2>1, Ranges DEF Stores
    <3> QED
      BY <2>2, <3>1, <3>2
  <2>5. \A b \in IndexRange : \A i \in Entries : index[b][i].ts <= now'
    <3> SUFFICES ASSUME NEW b \in IndexRange, NEW i \in Entries PROVE index[b][i].ts <= now'
      OBVIOUS
    <3>1. index[b][i].ts <= now /\ index[b][i].ts \in Nat
      BY <1>0, Ranges, CellOf DEF InvPast
    <3> QED
      BY <2>2, <3>1
  <2>6. CASE Appends
    <3>1. item_tables' = Written /\ index' = index
      BY <2>6 DEF Appends
    <3> QED
      BY <1>0, <2>3, <2>4, <2>5, <3>1 DEF InvPast
  <2>7. CASE Fills
    <3>1. 1 \in IndexRange
      BY Sizes DEF IndexRange
    <3>2. \A i \in Entries : item_tables'[i].ts <= now'
      BY <2>3, <2>5, <2>7, <3>1 DEF Fills
    <3>3. \A b \in IndexRange : index'[b] = IF b = curr_block THEN Written ELSE index[b]
      BY <2>7, Ranges DEF Fills
    <3>4. \A b \in IndexRange : \A i \in Entries : index'[b][i].ts <= now'
      BY <2>3, <2>5, <3>3
    <3>5. \A b \in IndexBlocks .. 2 * IndexBlocks : index'[b] = Blank
      <4> SUFFICES ASSUME NEW b \in IndexBlocks .. 2 * IndexBlocks PROVE index'[b] = Blank
        OBVIOUS
      <4>1. b \in IndexRange /\ b # curr_block
        BY Sizes, Ranges DEF IndexRange
      <4> QED
        BY <1>0, <3>3, <4>1 DEF InvPast
    <3> QED
      BY <2>4, <3>2, <3>4, <3>5 DEF InvPast
  <2> QED
    BY <2>1, <2>6, <2>7
<1>2. ASSUME UNCHANGED <<index, data, now>>, item_tables' \in {item_tables, Blank} PROVE InvPast'
  <2>1. \A i \in Entries : item_tables'[i].ts <= now
    BY <1>0, <1>2, BlankTable, Ranges DEF InvPast
  <2> QED
    BY <1>0, <1>2, <2>1 DEF InvPast
<1>3. CASE Saves
  BY <1>2, <1>3 DEF Saves, Whole, object, emmc
<1>4. CASE ClearConfigFirst
  BY <1>2, <1>4 DEF ClearConfigFirst, object, emmc
<1>5. CASE ClearThenObject
  BY <1>2, <1>5 DEF ClearThenObject, ClearObject, object, emmc
<1>6. CASE kt_ClearConfig
  BY <1>2, <1>6 DEF kt_ClearConfig, object, emmc
<1>7. CASE StartFrom(saved)
  BY <1>2, <1>7 DEF StartFrom, emmc
<1>8. CASE UNCHANGED state
  BY <1>2, <1>8 DEF state, object, emmc
<1> QED
  BY <1>1, <1>3, <1>4, <1>5, <1>6, <1>7, <1>8 DEF Steady

LEMMA PosStep == Base /\ [Steady]_state => InvPos'
<1> SUFFICES ASSUME Base, [Steady]_state PROVE InvPos'
  OBVIOUS
<1>0. InvPos
  BY DEF Base
<1>a. /\ Cleared.flag = "FIRST_ON" /\ Erased.flag = "NONE"
      /\ Cleared.curr_block = 0 /\ Erased.curr_block = 0 /\ Cleared.block_num = 0 /\ Erased.block_num = 0
  BY DEF Cleared, Erased
<1>1. CASE StoreRight
  <2>1. Stores /\ (Appends \/ Fills)
    BY <1>1, StoreCases
  <2>2. CASE Appends
    BY <1>0, <2>1, <2>2 DEF InvPos, Stores, Appends
  <2>3. CASE Fills
    <3>1. block_num' \in {curr_block', curr_block' + IndexBlocks}
      BY <1>0, <2>3, Sizes, Ranges DEF InvPos, Fills
    <3>2. config'.block_num = block_num' /\ config'.curr_block = curr_block' /\ config'.flag = config.flag
      BY <2>3, Ranges DEF Fills, Fields
    <3> QED
      BY <1>0, <2>1, <3>1, <3>2 DEF InvPos, Stores
  <2> QED
    BY <2>1, <2>2, <2>3
<1>2. CASE Saves
  BY <1>0, <1>2 DEF Saves, Whole, object, InvPos
<1>3. CASE ClearConfigFirst
  BY <1>0, <1>a, <1>3 DEF ClearConfigFirst, Reset, object, InvPos
<1>4. CASE ClearThenObject
  BY <1>0, <1>4 DEF ClearThenObject, ClearObject, object, InvPos
<1>5. CASE kt_ClearConfig
  BY <1>0, <1>a, <1>5 DEF kt_ClearConfig, object, InvPos
<1>6. CASE StartFrom(saved)
  <2>1. config' = BootConfig(saved) /\ saved' = (IF saved.flag = "NONE" THEN Cleared ELSE saved)
        /\ block_num' = config'.block_num /\ curr_block' = config'.curr_block
    BY <1>6 DEF StartFrom
  <2>2. CASE saved.flag = "NONE"
    BY <1>a, <2>1, <2>2 DEF BootConfig, InvPos
  <2>3. CASE saved.flag # "NONE"
    <3>1. config' = [saved EXCEPT !.flag = "NEXT_ON"] /\ saved' = saved
      BY <2>1, <2>3 DEF BootConfig
    <3>2. config'.flag = "NEXT_ON" /\ config'.block_num = saved.block_num /\ config'.curr_block = saved.curr_block
      BY <3>1, Ranges DEF Fields
    <3> QED
      BY <1>0, <2>1, <3>1, <3>2 DEF InvPos
  <2> QED
    BY <2>2, <2>3
<1>7. CASE UNCHANGED state
  BY <1>0, <1>7 DEF state, object, InvPos
<1> QED
  BY <1>1, <1>2, <1>3, <1>4, <1>5, <1>6, <1>7 DEF Steady

LEMMA MarksStep == Base /\ [Steady]_state => InvMarks'
<1> SUFFICES ASSUME Base, [Steady]_state PROVE InvMarks'
  OBVIOUS
<1>0. InvMarks /\ now \in Nat
  BY DEF Base, InvData
<1>1. CASE StoreRight
  <2>1. Stores
    BY <1>1, StoreCases
  <2>2. now <= now' /\ now' \in Nat /\ left' \in 0..PerBlock /\ UNCHANGED <<mark, gone>>
    BY <1>0, <2>1, Sizes DEF Stores, InvMarks
  <2> QED
    BY <1>0, <2>2 DEF InvMarks
<1>2. CASE Saves
  BY <1>0, <1>2 DEF Saves, Whole, InvMarks
<1>3. CASE ClearConfigFirst
  BY <1>0, <1>3, Sizes DEF ClearConfigFirst, InvMarks
<1>4. CASE ClearThenObject
  BY <1>0, <1>4 DEF ClearThenObject, clears, InvMarks
<1>5. CASE kt_ClearConfig
  BY <1>0, <1>5, Sizes DEF kt_ClearConfig, InvMarks
<1>6. CASE StartFrom(saved)
  BY <1>0, <1>6, Sizes DEF StartFrom, InvMarks
<1>7. CASE UNCHANGED state
  BY <1>0, <1>7 DEF state, clears, InvMarks
<1> QED
  BY <1>1, <1>2, <1>3, <1>4, <1>5, <1>6, <1>7 DEF Steady

LEMMA HistoryStep == Base /\ [Steady]_state => InvHistory'
<1> SUFFICES ASSUME Base, [Steady]_state PROVE InvHistory'
  OBVIOUS
<1>0. InvHistory /\ now \in Nat
  BY DEF Base, InvData
<1>a. ASSUME Forget, UNCHANGED now PROVE InvHistory'
  BY <1>a DEF Forget, InvHistory
<1>1. CASE StoreRight
  <2>1. Stores /\ (Appends \/ Fills)
    BY <1>1, StoreCases
  <2>2. now <= now' /\ now' \in Nat /\ now' > 0
    BY <1>0, <2>1 DEF Stores
  <2>3. 1..now \subseteq 1..now' /\ now' \in 1..now'
    BY <1>0, <2>2
  <2>4. known' = known \cup {now'} /\ kept' = kept \cup {now'} /\ durable' = durable
    BY <2>1 DEF Stores
  <2>5. completed' = completed \/ completed' = kept'
    BY <2>1 DEF Appends, Fills
  <2>6. known' \subseteq 1..now'
    BY <1>0, <2>3, <2>4 DEF InvHistory
  <2>7. durable' \subseteq completed' /\ completed' \subseteq kept' /\ kept' \subseteq known'
    BY <1>0, <2>4, <2>5 DEF InvHistory
  <2> QED
    BY <2>6, <2>7 DEF InvHistory
<1>2. CASE Saves
  BY <1>0, <1>2 DEF Saves, Whole, InvHistory
<1>3. CASE ClearConfigFirst
  BY <1>a, <1>3 DEF ClearConfigFirst
<1>4. CASE ClearThenObject
  BY <1>a, <1>4 DEF ClearThenObject
<1>5. CASE kt_ClearConfig
  BY <1>0, <1>5 DEF kt_ClearConfig, history, InvHistory
<1>6. CASE StartFrom(saved)
  BY <1>0, <1>6 DEF StartFrom, InvHistory
<1>7. CASE UNCHANGED state
  BY <1>0, <1>7 DEF state, history, InvHistory
<1> QED
  BY <1>1, <1>2, <1>3, <1>4, <1>5, <1>6, <1>7 DEF Steady

LEMMA BaseStep == Base /\ [Steady]_state => Base'
<1> SUFFICES ASSUME Base, [Steady]_state PROVE Base'
  OBVIOUS
<1>1. IInv'
  BY InvStep DEF Base
<1> QED
  BY <1>1, DataStep, PastStep, PosStep, MarksStep, HistoryStep DEF Base

----------------------------------------------------------------------------
(* 4. Address and position.                                                *)

\* The address is where the position in the index says,
Aligned == addr = curr_block * PerBlock + item_index
\* or it was reset with a table begun, before the table filled up, or after.
Front == curr_block = 0 /\ completed = {} /\ durable = {}
Spent == item_index + left < PerBlock
\* The position of a device that samples is the address; one that was stopped by a
\* clear and whose address was reset alone is in one of the two cases.
InvMode ==
  /\ Aligned \/ (~Sampling /\ addr + left <= PerBlock /\ (Front \/ Spent))
  /\ ~Sampling => item_index + left < 2 * PerBlock

\* The configuration has the position of the object, until it is reset.
SamePos(c) ==
  /\ c.curr_block = curr_block /\ c.block_num = block_num
  /\ c.str_time = str_time /\ c.end_time = end_time
InvConfig == Sampling \/ (config.flag # "NONE" /\ completed # {}) => SamePos(config)

\* Base, with the place of the next second.
Mode == Base /\ InvMode /\ InvConfig

\* A second stored neither starts nor stops the sampling.
LEMMA Stays ==
  ASSUME Base, Stores, Appends \/ Fills
  PROVE  Sampling' <=> Sampling
<1>1. config'.flag = config.flag
  BY Ranges DEF Appends, Fills, Fields
<1> QED
  BY <1>1 DEF Sampling

\* The address moves on by one, but where it wraps with the position.
LEMMA Moves ==
  ASSUME Mode, Stores, Appends \/ Fills
  PROVE  /\ Aligned => Aligned'
         /\ Appends => addr' = addr + 1
         /\ ~Aligned => /\ addr' = addr + 1 /\ addr + left <= PerBlock /\ left > 0
                        /\ ~Sampling /\ left' = left - 1
<1>1. /\ item_index \in 0 .. PerBlock - 1 /\ curr_block \in 0 .. IndexBlocks - 1
      /\ item_index \in Entries /\ curr_block \in Blocks /\ addr \in Nat /\ left \in Nat
  BY Ranges DEF Mode, Base, InvMarks, Entries, Blocks
<1>2. ASSUME ~Aligned
      PROVE  addr' = addr + 1 /\ addr + left <= PerBlock /\ left > 0 /\ ~Sampling /\ left' = left - 1
  <2>1. ~Sampling /\ addr + left <= PerBlock
    BY <1>2 DEF Mode, InvMode
  <2>2. left > 0 /\ addr' = NextAddr(addr) /\ left' = left - 1
    BY <2>1 DEF Stores
  <2>3. addr + 1 <= PerBlock
    BY <1>1, <2>1, <2>2, Sizes
  <2>4. Capacity \in Nat /\ PerBlock < Capacity
    BY Capacities, Sizes
  <2>5. addr' = addr + 1
    BY <1>1, <2>2, <2>3, <2>4, Sizes DEF NextAddr
  <2> QED
    BY <2>1, <2>2, <2>5
<1>3. ASSUME Aligned, Appends
      PROVE  Aligned' /\ addr' = addr + 1
  <2>1. addr' = NextAddr(curr_block * PerBlock + item_index) /\ item_index + 1 < PerBlock
    BY <1>3 DEF Stores, Appends, Aligned
  <2>2. addr' = curr_block * PerBlock + (item_index + 1)
    BY <1>1, <2>1, InsideBlock
  <2>3. item_index' = item_index + 1 /\ curr_block' = curr_block
    BY <1>3 DEF Appends
  <2>4. curr_block * PerBlock \in Nat
    BY <1>1, Capacities
  <2> QED
    BY <1>1, <1>3, <2>2, <2>3, <2>4 DEF Aligned
<1>4. ASSUME Aligned, Fills
      PROVE  Aligned'
  <2>1. /\ addr' = NextAddr(curr_block * PerBlock + item_index) /\ item_index + 1 = PerBlock
        /\ item_index' = 0 /\ curr_block' = IF curr_block + 1 >= IndexBlocks THEN 0 ELSE curr_block + 1
    BY <1>4 DEF Stores, Fills, Aligned
  <2>2. item_index + 1 >= PerBlock
    BY <2>1, <1>1, Sizes
  <2>3. addr' = curr_block' * PerBlock
    BY <1>1, <2>1, <2>2, EndOfBlock
  <2>4. curr_block' \in Nat
    BY <1>1, <2>1
  <2>5. curr_block' * PerBlock + 0 = curr_block' * PerBlock
    BY <2>4, StartOfBlock
  <2> QED
    BY <2>1, <2>3, <2>5 DEF Aligned
<1> QED
  BY <1>2, <1>3, <1>4

\* Every operation keeps the two.
LEMMA ModeStep == Mode /\ [Steady]_state => InvMode'
<1> SUFFICES ASSUME Mode, [Steady]_state PROVE InvMode'
  OBVIOUS
<1>0. /\ InvMode /\ left \in 0 .. PerBlock /\ item_index \in 0 .. PerBlock - 1 /\ addr \in Nat
      /\ clearing => ~Sampling
  BY Ranges DEF Mode, Base, InvMarks, IInv, InvClear
<1>1. CASE StoreRight
  <2>1. Stores /\ (Appends \/ Fills)
    BY <1>1, StoreCases DEF Mode
  <2>2. Sampling' <=> Sampling
    BY <2>1, Stays DEF Mode
  <2>3. ~Sampling => left > 0 /\ left' = left - 1
    BY <2>1 DEF Stores
  <2>4. ~Sampling' => item_index' + left' < 2 * PerBlock
    <3>1. SUFFICES ASSUME ~Sampling PROVE item_index' + left' < 2 * PerBlock
      BY <2>2
    <3>2. item_index' = item_index + 1 \/ item_index' = 0
      BY <2>1 DEF Appends, Fills
    <3>3. item_index + left < 2 * PerBlock /\ left > 0 /\ left' = left - 1
      BY <1>0, <2>3, <3>1 DEF InvMode
    <3> QED
      BY <1>0, <3>2, <3>3, Sizes
  <2>5. CASE Aligned
    BY <2>1, <2>4, <2>5, Moves DEF InvMode
  <2>6. CASE ~Aligned
    <3>1. addr' = addr + 1 /\ addr + left <= PerBlock /\ left > 0 /\ ~Sampling /\ left' = left - 1
      BY <2>1, <2>6, Moves
    <3>2. addr' + left' <= PerBlock
      BY <1>0, <3>1
    <3>3. Front \/ Spent
      BY <1>0, <2>6 DEF InvMode
    <3>4. CASE Appends
      <4>1. Front => Front'
        BY <2>1, <3>4 DEF Front, Appends, Stores
      <4>2. Spent => Spent'
        <5>1. item_index' + left' = item_index + left
          BY <1>0, <3>1, <3>4 DEF Appends
        <5> QED
          BY <5>1 DEF Spent
      <4> QED
        BY <2>2, <2>4, <3>1, <3>2, <3>3, <4>1, <4>2 DEF InvMode
    <3>5. CASE Fills
      <4>1. item_index + left < 2 * PerBlock /\ item_index + 1 = PerBlock /\ item_index' = 0
        BY <1>0, <3>1, <3>5 DEF Fills, InvMode
      <4>2. item_index' + left' < PerBlock
        BY <1>0, <3>1, <4>1, Sizes
      <4> QED
        BY <2>2, <2>4, <3>1, <3>2, <4>2 DEF InvMode, Spent
    <3> QED
      BY <2>1, <3>4, <3>5
  <2> QED
    BY <2>5, <2>6
<1>2. CASE Saves
  BY <1>0, <1>2 DEF Saves, Whole, InvMode, Sampling, Front, Spent, Aligned, object
<1>3. CASE ClearConfigFirst
  <2>1. /\ UNCHANGED <<addr, item_index, curr_block>> /\ completed' = {} /\ durable' = {}
        /\ left' = (IF Sampling THEN Residue ELSE left) /\ config' = Cleared
    BY <1>3 DEF ClearConfigFirst, object, Forget, Reset
  <2>2. ~Sampling'
    BY <2>1, Resets DEF Sampling
  <2>3. item_index + left' < 2 * PerBlock
    BY <1>0, <2>1, Sizes DEF InvMode
  <2>4. Aligned => Aligned'
    BY <2>1 DEF Aligned
  <2>5. ~Aligned => left' = left
    BY <1>0, <2>1 DEF InvMode
  <2> QED
    BY <1>0, <2>1, <2>2, <2>3, <2>4, <2>5 DEF InvMode, Front, Spent
<1>4. CASE ClearThenObject
  <2>1. /\ UNCHANGED <<item_index, left, config>> /\ completed' = {} /\ durable' = {}
        /\ (addr' = 0 /\ curr_block' = 0) \/ UNCHANGED <<addr, curr_block>>
    BY <1>4 DEF ClearThenObject, ClearObject, object, Forget
  <2>2. ~Sampling /\ ~Sampling'
    BY <1>0, <1>4, <2>1 DEF ClearThenObject, Sampling
  <2>3. CASE addr' = 0 /\ curr_block' = 0
    <3>1. addr' + left' <= PerBlock
      BY <1>0, <2>1, <2>3, Sizes
    <3> QED
      BY <1>0, <2>1, <2>2, <2>3, <3>1 DEF InvMode, Front
  <2>4. CASE UNCHANGED <<addr, curr_block>>
    BY <1>0, <2>1, <2>2, <2>4 DEF InvMode, Front, Spent, Aligned
  <2> QED
    BY <2>1, <2>3, <2>4
<1>5. CASE kt_ClearConfig
  <2>1. /\ UNCHANGED <<addr, item_index, curr_block, completed, durable>>
        /\ left' = (IF Sampling THEN Residue ELSE left) /\ config' = Erased
    BY <1>5 DEF kt_ClearConfig, object, history
  <2>2. ~Sampling'
    BY <2>1, Resets DEF Sampling
  <2>3. item_index + left' < 2 * PerBlock
    BY <1>0, <2>1, Sizes DEF InvMode
  <2>4. Aligned => Aligned'
    BY <2>1 DEF Aligned
  <2>5. ~Aligned => left' = left
    BY <1>0, <2>1 DEF InvMode
  <2> QED
    BY <1>0, <2>1, <2>2, <2>3, <2>4, <2>5 DEF InvMode, Front, Spent
<1>6. CASE StartFrom(saved)
  <2>1. /\ addr' = config'.curr_block * PerBlock /\ curr_block' = config'.curr_block
        /\ item_index' = 0 /\ left' = 0
    BY <1>6 DEF StartFrom
  <2>2. config'.curr_block \in Nat
    BY <1>6, BootKeeps, Sizes DEF Mode, Base, IInv, InvRange, InvFields, Blocks
  <2>3. config'.curr_block * PerBlock + 0 = config'.curr_block * PerBlock
    BY <2>2, StartOfBlock
  <2>4. Aligned'
    BY <2>1, <2>3 DEF Aligned
  <2>5. item_index' + left' < 2 * PerBlock
    BY <2>1, Sizes
  <2> QED
    BY <2>4, <2>5 DEF InvMode
<1>7. CASE UNCHANGED state
  BY <1>0, <1>7 DEF state, object, history, InvMode, Sampling, Front, Spent, Aligned
<1> QED
  BY <1>1, <1>2, <1>3, <1>4, <1>5, <1>6, <1>7 DEF Steady

LEMMA ConfigStep == Mode /\ [Steady]_state => InvConfig'
<1> SUFFICES ASSUME Mode, [Steady]_state PROVE InvConfig'
  OBVIOUS
<1>0. InvConfig /\ (clearing => ~Sampling)
  BY DEF Mode, Base, IInv, InvClear
<1>1. CASE StoreRight
  <2>1. Stores /\ (Appends \/ Fills)
    BY <1>1, StoreCases DEF Mode
  <2>2. CASE Appends
    BY <1>0, <2>2 DEF Appends, InvConfig, Sampling, SamePos
  <2>3. CASE Fills
    <3>1. /\ config'.curr_block = curr_block' /\ config'.block_num = block_num'
          /\ config'.str_time = str_time' /\ config'.end_time = end_time'
      BY <2>3, Ranges DEF Fills, Fields, Mode
    <3> QED
      BY <3>1 DEF InvConfig, SamePos
  <2> QED
    BY <2>1, <2>2, <2>3
<1>2. CASE Saves
  BY <1>0, <1>2 DEF Saves, Whole, InvConfig, Sampling, SamePos, object
<1>3. CASE ClearConfigFirst
  BY <1>3, Resets DEF ClearConfigFirst, Forget, Reset, InvConfig, Sampling
<1>4. CASE ClearThenObject
  BY <1>0, <1>4 DEF ClearThenObject, Forget, InvConfig, Sampling
<1>5. CASE kt_ClearConfig
  BY <1>5, Resets DEF kt_ClearConfig, InvConfig, Sampling
<1>6. CASE StartFrom(saved)
  BY <1>6 DEF StartFrom, InvConfig, SamePos
<1>7. CASE UNCHANGED state
  BY <1>0, <1>7 DEF state, object, history, InvConfig, Sampling, SamePos
<1> QED
  BY <1>1, <1>2, <1>3, <1>4, <1>5, <1>6, <1>7 DEF Steady

LEMMA ModeInit == Init => Mode
<1> SUFFICES ASSUME Init PROVE Mode
  OBVIOUS
<1>1. Base
  BY InvInit, DataInit DEF Base
<1>2. InvMode
  BY Sizes DEF Init, InvMode, Aligned, Sampling, Cleared
<1>3. InvConfig
  BY DEF Init, InvConfig, SamePos, Cleared, Erased
<1> QED
  BY <1>1, <1>2, <1>3 DEF Mode

LEMMA ModeKept == Mode /\ [Steady]_state => Mode'
  BY BaseStep, ModeStep, ConfigStep DEF Mode

----------------------------------------------------------------------------
(* 5. Every entry has its own second.                                      *)

\* The table in RAM: each entry is as far behind the address as it is behind the
\* place of the next entry, its second is there, and entries are in order.
InvTable ==
  \A i \in 0 .. item_index - 1 :
    /\ item_tables[i].ts \in known => /\ item_tables[i].addr + (item_index - i) = addr
                                      /\ data[item_tables[i].addr] = item_tables[i].ts
    /\ \A k \in i .. item_index - 1 : item_tables[i].ts <= item_tables[k].ts

\* An address of block b; and the second ts is at a, unless block b is being written
\* (c is the current one) or what is there was stored and then taken by a loss of power.
InBlock(a, b) == b * PerBlock <= a /\ a < b * PerBlock + PerBlock
HasOwn(ts, a, b, c, held) == data[a] = ts \/ b = c \/ data[a] \notin held
\* Entry i of index block b, for the position in RAM and, because a start may come at
\* any time, for the position in the saved configuration too.
OwnEntry(b, i) ==
  index[b][i].ts \in known =>
    /\ InBlock(index[b][i].addr, b)
    /\ HasOwn(index[b][i].ts, index[b][i].addr, b, curr_block, kept)
    /\ saved.flag # "NONE" =>
         HasOwn(index[b][i].ts, index[b][i].addr, b, saved.curr_block, durable)
    /\ ~Aligned => index[b][i].addr < addr
InvOwn == \A b \in IndexRange : \A i \in Entries : OwnEntry(b, i)

\* The saved position is the current one, or a block was filled since the save; then the
\* last second is not in a saved block, and in the first lap the position is not behind
\* the saved one.
InvUnsaved ==
  durable # {} /\ saved.flag # "NONE" =>
    \/ durable = completed /\ saved.curr_block = curr_block /\ saved.block_num = block_num
    \/ durable # completed /\ now \notin durable /\ (FirstLap => saved.block_num <= block_num)

\* A last second that is in a full block has a copy elsewhere than at the beginning of the
\* current block, where the next second goes; with a table begun behind it there are two
\* copies, so that it is not stored once more (NoneRepeated).
Twice == \E a, b \in Addrs : a # b /\ data[a] = now /\ data[b] = now
Elsewhere(c) == \E a \in Addrs : data[a] = now /\ a # c * PerBlock
InvRepeat ==
  /\ now \in completed => Elsewhere(curr_block)
  /\ now \in durable /\ saved.flag # "NONE" => Elsewhere(saved.curr_block)
  /\ now \in completed /\ item_index > 0 /\ Aligned => Twice

\* Everything an entry needs.
Own == Mode /\ InvTable /\ InvOwn /\ InvUnsaved /\ InvRepeat

\* A second stored is later than everything there is, or the last one again.
LEMMA NewSecond ==
  ASSUME Base, Stores
  PROVE  /\ now <= now' /\ now \in Nat /\ now' \in Nat /\ now' > 0
         /\ \A t \in 0 .. now : /\ t \in known' => t \in known
                                /\ t \in kept' => t \in kept
         /\ now' \in completed => now' = now /\ NoneRepeated
         /\ now' \in durable => now' = now /\ NoneRepeated
<1>1. /\ now \in Nat /\ now' \in Nat /\ now' > 0
      /\ now < now' \/ (now' = now /\ now \in kept /\ NoneRepeated)
      /\ known' = known \cup {now'} /\ kept' = kept \cup {now'}
  BY Ranges DEF Stores
<1>2. durable \subseteq completed /\ completed \subseteq kept /\ kept \subseteq known /\ known \subseteq 1..now
  BY DEF Base, InvHistory
<1>3. now' \in known => now' = now
  BY <1>1, <1>2
<1>4. now' \in completed => now' = now /\ NoneRepeated
  BY <1>1, <1>2, <1>3
<1>5. \A t \in 0 .. now : /\ t \in known' => t \in known
                          /\ t \in kept' => t \in kept
  BY <1>1, <1>2
<1> QED
  BY <1>1, <1>2, <1>4, <1>5

\* The last second is stored again only where no table is begun behind the full blocks.
LEMMA Repeats ==
  ASSUME Own, NoneRepeated, now \in completed, Aligned
  PROVE  item_index = 0
<1>1. SUFFICES ASSUME item_index # 0 PROVE FALSE
  OBVIOUS
<1>2. item_index > 0
  BY <1>1, Ranges DEF Own, Mode
<1>3. PICK a \in Addrs, b \in Addrs : a # b /\ data[a] = now /\ data[b] = now
  BY <1>2 DEF Own, InvRepeat, Twice
<1>4. now = 0
  BY <1>3 DEF NoneRepeated
<1>5. now \in 1..now /\ now \in Nat
  BY Ranges DEF Own, Mode, Base, InvHistory
<1> QED
  BY <1>4, <1>5

\* In the first lap the current block is the one behind the last.
LEMMA FirstLapPos ==
  ASSUME Base
  PROVE  /\ FirstLap <=> block_num = curr_block
         /\ FirstLap => block_num \in 0 .. IndexBlocks - 1
         /\ saved.block_num < IndexBlocks <=> saved.block_num = saved.curr_block
         /\ saved.block_num \in Nat
  BY Ranges, Sizes DEF Base, InvPos, FirstLap

\* Every operation keeps how far the saved position is behind.
LEMMA UnsavedStep == Own /\ [Steady]_state => InvUnsaved'
<1> SUFFICES ASSUME Own, [Steady]_state PROVE InvUnsaved'
  OBVIOUS
<1>0. InvUnsaved /\ Base /\ Mode
  BY DEF Own, Mode
<1>1. CASE StoreRight
  <2>1. Stores /\ (Appends \/ Fills)
    BY <1>0, <1>1, StoreCases
  <2>2. durable' = durable /\ saved' = saved
    BY <2>1 DEF Stores
  <2>3. now' \in durable => now' = now /\ NoneRepeated
    BY <1>0, <2>1, NewSecond
  <2>4. CASE Appends
    BY <1>0, <2>2, <2>3, <2>4 DEF Appends, InvUnsaved, FirstLap
  <2>5. CASE Fills
    <3>1. SUFFICES ASSUME durable # {}, saved.flag # "NONE"
                   PROVE  /\ durable # completed' /\ now' \notin durable
                          /\ FirstLap' => saved.block_num <= block_num'
      BY <2>2 DEF InvUnsaved
    <3>2. now' \in completed' /\ item_index + 1 = PerBlock
      BY <2>1, <2>5 DEF Stores, Fills
    <3>a. FirstLap' => FirstLap /\ block_num' = block_num + 1
      BY <1>0, <2>5, Ranges, Sizes, FirstLapPos DEF Fills, FirstLap
    <3>b. block_num \in Nat /\ saved.block_num \in Nat
      BY <1>0, Ranges, FirstLapPos
    <3>c. FirstLap' => saved.block_num <= block_num'
      <4>1. FirstLap => saved.block_num <= block_num
        BY <1>0, <3>1, <3>b DEF InvUnsaved
      <4> QED
        BY <3>a, <3>b, <4>1
    <3>d. CASE durable # completed
      <4>1. now \notin durable
        BY <1>0, <3>1, <3>d DEF InvUnsaved
      <4>2. now' \notin durable
        BY <2>3, <4>1
      <4> QED
        BY <3>2, <3>c, <4>2
    <3>e. CASE durable = completed
      <4>1. Aligned
        <5>1. SUFFICES ASSUME ~Aligned PROVE FALSE
          OBVIOUS
        <5>2. ~Front
          BY <3>1, <3>e DEF Front
        <5>3. item_index + left < PerBlock
          BY <1>0, <5>1, <5>2 DEF Mode, InvMode, Spent
        <5>4. left > 0 /\ left \in Nat
          BY <1>0, <2>1, <5>1, Moves DEF Base, InvMarks
        <5> QED
          BY <1>0, <3>2, <5>3, <5>4, Ranges, Sizes
      <4>2. item_index # 0
        BY <1>0, <3>2, Ranges, Sizes
      <4>3. now' \notin durable
        BY <2>3, <3>e, <4>1, <4>2, Repeats
      <4> QED
        BY <3>2, <3>c, <4>3
    <3> QED
      BY <3>d, <3>e
  <2> QED
    BY <2>1, <2>4, <2>5
<1>2. CASE Saves
  <2>1. saved' = config /\ durable' = completed /\ completed' = completed
        /\ UNCHANGED <<curr_block, block_num>>
    BY <1>2 DEF Saves, Whole, object
  <2>2. completed # {} /\ config.flag # "NONE" =>
          config.curr_block = curr_block /\ config.block_num = block_num
    BY <1>0 DEF Mode, InvConfig, SamePos
  <2> QED
    BY <2>1, <2>2 DEF InvUnsaved
<1>3. CASE ClearConfigFirst
  BY <1>3 DEF ClearConfigFirst, Forget, InvUnsaved
<1>4. CASE ClearThenObject
  BY <1>4 DEF ClearThenObject, Forget, InvUnsaved
<1>5. CASE kt_ClearConfig
  BY <1>0, <1>5 DEF kt_ClearConfig, object, history, InvUnsaved, FirstLap
<1>6. CASE StartFrom(saved)
  <2>1. /\ completed' = durable' /\ curr_block' = config'.curr_block /\ block_num' = config'.block_num
        /\ config' = BootConfig(saved)
    BY <1>6 DEF StartFrom
  <2>2. CASE saved.flag = "NONE"
    BY <1>6, <2>2 DEF StartFrom, InvUnsaved
  <2>3. CASE saved.flag # "NONE"
    <3>1. saved' = saved /\ config' = [saved EXCEPT !.flag = "NEXT_ON"]
      BY <1>6, <2>1, <2>3 DEF StartFrom, BootConfig
    <3>2. config'.curr_block = saved.curr_block /\ config'.block_num = saved.block_num
      BY <1>0, <3>1, Ranges DEF Fields
    <3> QED
      BY <2>1, <3>1, <3>2 DEF InvUnsaved
  <2> QED
    BY <2>2, <2>3
<1>7. CASE UNCHANGED state
  BY <1>0, <1>7 DEF state, object, history, InvUnsaved, FirstLap
<1> QED
  BY <1>1, <1>2, <1>3, <1>4, <1>5, <1>6, <1>7 DEF Steady

\* A second stored changes one address.
LEMMA DataAfter ==
  ASSUME Base, Stores
  PROVE  \A a \in Addrs : data'[a] = IF a = addr THEN now' ELSE data[a]
  BY Ranges DEF Stores

\* Every operation keeps the copies of a last second.
LEMMA RepeatStep == Own /\ [Steady]_state => InvRepeat'
<1> SUFFICES ASSUME Own, [Steady]_state PROVE InvRepeat'
  OBVIOUS
<1>0. InvRepeat /\ Base /\ Mode
  BY DEF Own, Mode
<1>1. CASE StoreRight
  <2>1. Stores /\ (Appends \/ Fills)
    BY <1>0, <1>1, StoreCases
  <2>2. durable' = durable /\ saved' = saved
    BY <2>1 DEF Stores
  <2>3. /\ now' \in durable => now' = now /\ NoneRepeated
        /\ now' \in completed => now' = now /\ NoneRepeated
    BY <1>0, <2>1, NewSecond
  <2>4. \A a \in Addrs : data'[a] = IF a = addr THEN now' ELSE data[a]
    BY <1>0, <2>1, DataAfter
  <2>5. ASSUME NEW c, now' = now, Elsewhere(c) PROVE \E a \in Addrs : data'[a] = now' /\ a # c * PerBlock
    BY <2>4, <2>5 DEF Elsewhere
  <2>6. now' \in durable /\ saved.flag # "NONE" => Elsewhere(saved.curr_block)'
    <3>1. SUFFICES ASSUME now' \in durable, saved.flag # "NONE"
                   PROVE  \E a \in Addrs : data'[a] = now' /\ a # saved.curr_block * PerBlock
      BY <2>2 DEF Elsewhere
    <3> QED
      BY <1>0, <2>3, <2>5, <3>1 DEF InvRepeat
  <2>7. CASE Appends
    <3>1. completed' = completed /\ curr_block' = curr_block /\ item_index' = item_index + 1 /\ addr' = addr + 1
      BY <1>0, <2>1, <2>7, Moves DEF Appends
    <3>2. now' \in completed' => Elsewhere(curr_block)'
      <4>1. SUFFICES ASSUME now' \in completed
                     PROVE  \E a \in Addrs : data'[a] = now' /\ a # curr_block * PerBlock
        BY <3>1 DEF Elsewhere
      <4> QED
        BY <1>0, <2>3, <2>5, <4>1 DEF InvRepeat
    <3>3. now' \in completed' /\ item_index' > 0 /\ Aligned' => Twice'
      <4>1. SUFFICES ASSUME now' \in completed, Aligned'
                     PROVE  \E a, b \in Addrs : a # b /\ data'[a] = now' /\ data'[b] = now'
        BY <3>1 DEF Twice
      <4>2. now' = now /\ NoneRepeated /\ now \in completed
        BY <2>3, <4>1
      <4>3. addr \in Nat /\ item_index \in Nat /\ curr_block * PerBlock \in Nat
        BY <1>0, Ranges, Capacities DEF Blocks
      <4>4. addr + 1 = curr_block * PerBlock + (item_index + 1)
        BY <3>1, <4>1 DEF Aligned
      <4>5. addr = curr_block * PerBlock + item_index
        BY <4>3, <4>4
      <4>6. item_index = 0
        BY <4>2, <4>5, Repeats DEF Aligned
      <4>7. addr = curr_block * PerBlock
        BY <4>3, <4>5, <4>6
      <4>8. PICK a \in Addrs : data[a] = now /\ a # addr
        BY <1>0, <4>2, <4>7 DEF InvRepeat, Elsewhere
      <4>9. data'[a] = now' /\ data'[addr] = now' /\ addr \in Addrs
        BY <1>0, <2>4, <4>2, <4>8, Ranges
      <4> QED
        BY <4>8, <4>9
    <3> QED
      BY <2>2, <2>6, <3>2, <3>3 DEF InvRepeat
  <2>8. CASE Fills
    <3>1. addr # curr_block' * PerBlock
      <4>1. curr_block' \in 0 .. IndexBlocks - 1 /\ item_index' = 0
        BY <1>0, <2>8, Ranges, Sizes DEF Fills
      <4>2. CASE Aligned
        <5>1. addr' = curr_block' * PerBlock + 0
          BY <1>0, <2>1, <4>1, <4>2, Moves DEF Aligned
        <5>2. addr' # addr
          BY <1>0, <2>1, Ranges, NextInRing DEF Stores
        <5>3. curr_block' * PerBlock \in Nat
          BY <4>1, Capacities DEF Blocks
        <5> QED
          BY <5>1, <5>2, <5>3
      <4>3. CASE ~Aligned
        <5>1. addr + left <= PerBlock /\ left > 0 /\ ~Sampling
          BY <1>0, <2>1, <4>3, Moves
        <5>2. left \in Nat /\ addr \in Nat
          BY <1>0, Ranges DEF Base, InvMarks
        <5>3. ~Spent
          BY <5>1, <5>2, <2>8, <1>0, Ranges, Sizes DEF Spent, Fills
        <5>4. curr_block = 0
          BY <1>0, <4>3, <5>3 DEF Mode, InvMode, Front
        <5>5. curr_block' = 1
          BY <2>8, <5>4, Sizes DEF Fills
        <5>6. 1 * PerBlock = PerBlock
          BY Sizes
        <5> QED
          BY <5>1, <5>2, <5>5, <5>6, Sizes
      <4> QED
        BY <4>2, <4>3
    <3>2. data'[addr] = now' /\ addr \in Addrs
      BY <1>0, <2>4, Ranges
    <3>3. Elsewhere(curr_block)'
      BY <3>1, <3>2 DEF Elsewhere
    <3>4. ~(item_index' > 0)
      BY <2>8 DEF Fills
    <3> QED
      BY <2>2, <2>6, <3>3, <3>4 DEF InvRepeat
  <2> QED
    BY <2>1, <2>7, <2>8
<1>2. CASE Saves
  <2>1. /\ saved' = config /\ durable' = completed /\ completed' = completed
        /\ UNCHANGED <<curr_block, item_index, addr, data, now>>
    BY <1>2 DEF Saves, Whole, object, emmc
  <2>2. now \in completed /\ config.flag # "NONE" => config.curr_block = curr_block
    BY <1>0 DEF Mode, InvConfig, SamePos
  <2>3. now \in completed /\ config.flag # "NONE" => Elsewhere(config.curr_block)
    BY <1>0, <2>2 DEF InvRepeat
  <2> QED
    BY <1>0, <2>1, <2>3 DEF InvRepeat, Elsewhere, Twice, Aligned
<1>3. CASE ClearConfigFirst
  BY <1>3 DEF ClearConfigFirst, Forget, InvRepeat
<1>4. CASE ClearThenObject
  BY <1>4 DEF ClearThenObject, Forget, InvRepeat
<1>5. CASE kt_ClearConfig
  BY <1>0, <1>5 DEF kt_ClearConfig, object, history, emmc, InvRepeat, Elsewhere, Twice, Aligned
<1>6. CASE StartFrom(saved)
  <2>1. /\ completed' = durable' /\ curr_block' = config'.curr_block /\ item_index' = 0
        /\ config' = BootConfig(saved) /\ UNCHANGED <<data, now>>
    BY <1>6 DEF StartFrom, emmc
  <2>2. CASE saved.flag = "NONE"
    BY <1>6, <2>1, <2>2 DEF StartFrom, InvRepeat
  <2>3. CASE saved.flag # "NONE"
    <3>1. saved' = saved /\ config' = [saved EXCEPT !.flag = "NEXT_ON"] /\ durable' = durable
      BY <1>6, <2>1, <2>3 DEF StartFrom, BootConfig
    <3>2. config'.curr_block = saved.curr_block
      BY <1>0, <3>1, Ranges DEF Fields
    <3>3. now \in durable => Elsewhere(saved.curr_block)
      BY <1>0, <2>3 DEF InvRepeat
    <3>4. ~(item_index' > 0)
      BY <2>1
    <3> QED
      BY <2>1, <3>1, <3>2, <3>3, <3>4 DEF InvRepeat, Elsewhere
  <2> QED
    BY <2>2, <2>3
<1>7. CASE UNCHANGED state
  BY <1>0, <1>7 DEF state, object, emmc, history, InvRepeat, Elsewhere, Twice, Aligned
<1> QED
  BY <1>1, <1>2, <1>3, <1>4, <1>5, <1>6, <1>7 DEF Steady

\* The table in RAM stays right.
LEMMA TableStep == Own /\ [Steady]_state => InvTable'
<1> SUFFICES ASSUME Own, [Steady]_state PROVE InvTable'
  OBVIOUS
<1>0. InvTable /\ Base /\ Mode /\ InvPast
  BY DEF Own, Mode, Base
<1>1. CASE StoreRight
  <2>1. Stores /\ (Appends \/ Fills)
    BY <1>0, <1>1, StoreCases
  <2>2. CASE Appends
    <3>1. item_index' = item_index + 1 /\ item_tables' = Written /\ addr' = addr + 1
      BY <1>0, <2>1, <2>2, Moves DEF Appends
    <3>2. /\ Written[item_index] = [ts |-> now', addr |-> addr]
          /\ \A i \in Entries : i # item_index => Written[i] = item_tables[i]
      BY <1>0, <2>1, WrittenTable
    <3>3. \A i \in 0 .. item_index : i \in Entries
      BY <1>0, Ranges, Sizes DEF Entries
    <3>4. now <= now' /\ now \in Nat /\ now' \in Nat
      BY <1>0, <2>1, NewSecond
    <3>5. \A i \in 0 .. item_index : Written[i].ts \in Nat /\ Written[i].ts <= now'
      BY <1>0, <3>3, <3>4, <3>1, PastStep, <1>1, <2>1, WrittenTable, CellOf DEF InvPast
    <3>6. ASSUME NEW i \in 0 .. item_index
          PROVE  /\ Written[i].ts \in known' => /\ Written[i].addr + (item_index + 1 - i) = addr + 1
                                                /\ data'[Written[i].addr] = Written[i].ts
                 /\ \A k \in i .. item_index : Written[i].ts <= Written[k].ts
      <4>0. item_index \in Nat /\ addr \in Nat /\ addr \in Addrs
        BY <1>0, Ranges
      <4>1. CASE i = item_index
        <5>1. Written[i].ts = now' /\ Written[i].addr = addr
          BY <3>2, <4>1
        <5>2. data'[addr] = now'
          BY <1>0, <2>1, <4>0, DataAfter
        <5>3. \A k \in i .. item_index : k = i
          BY <4>0, <4>1
        <5> QED
          BY <3>5, <4>0, <4>1, <5>1, <5>2, <5>3
      <4>2. CASE i # item_index
        <5>1. i \in Entries /\ i \in 0 .. item_index - 1
          BY <3>3, <4>0, <4>2
        <5>2. Written[i] = item_tables[i] /\ item_tables[i].ts \in 0 .. now /\ item_tables[i].addr \in Addrs
          BY <1>0, <3>2, <4>2, <5>1, CellOf, Ranges, <3>4 DEF InvPast
        <5>3. ASSUME item_tables[i].ts \in known'
              PROVE  /\ item_tables[i].addr + (item_index + 1 - i) = addr + 1
                     /\ data'[item_tables[i].addr] = item_tables[i].ts
          <6>1. item_tables[i].ts \in known
            BY <1>0, <2>1, <5>2, <5>3, NewSecond
          <6>2. item_tables[i].addr + (item_index - i) = addr /\ data[item_tables[i].addr] = item_tables[i].ts
            BY <1>0, <5>1, <6>1 DEF InvTable
          <6>3. item_tables[i].addr # addr /\ item_tables[i].addr + (item_index + 1 - i) = addr + 1
            BY <4>0, <5>1, <5>2, <6>2, Capacities DEF Addrs
          <6> QED
            BY <1>0, <2>1, <5>2, <6>2, <6>3, DataAfter
        <5>4. ASSUME NEW k \in i .. item_index PROVE Written[i].ts <= Written[k].ts
          <6>1. CASE k = item_index
            BY <3>2, <3>4, <5>2, <6>1
          <6>2. CASE k # item_index
            <7>1. k \in i .. item_index - 1 /\ k \in Entries
              BY <3>3, <4>0, <5>1, <6>2
            <7> QED
              BY <1>0, <3>2, <5>1, <5>2, <6>2, <7>1 DEF InvTable
          <6> QED
            BY <6>1, <6>2
        <5> QED
          BY <5>2, <5>3, <5>4
      <4> QED
        BY <4>1, <4>2
    <3>7. item_index' - 1 = item_index
      BY <1>0, <3>1, Ranges
    <3>8. SUFFICES ASSUME NEW i \in 0 .. item_index
                   PROVE  /\ Written[i].ts \in known' =>
                               /\ Written[i].addr + (item_index' - i) = addr'
                               /\ data'[Written[i].addr] = Written[i].ts
                          /\ \A k \in i .. item_index : Written[i].ts <= Written[k].ts
      BY <3>1, <3>7 DEF InvTable
    <3>9. item_index' - i = item_index + 1 - i /\ addr' = addr + 1
      <4>1. item_index' = item_index + 1 /\ addr' = addr + 1
        BY <3>1
      <4>2. i \in Nat /\ item_index \in Nat
        BY <1>0, Ranges
      <4> QED
        BY <4>1, <4>2
    <3>10. Written[i].ts \in known' =>
             /\ Written[i].addr + (item_index' - i) = addr'
             /\ data'[Written[i].addr] = Written[i].ts
      BY <3>6, <3>9, Zenon
    <3>11. \A k \in i .. item_index : Written[i].ts <= Written[k].ts
      BY <3>6
    <3> QED
      BY <3>10, <3>11
  <2>3. CASE Fills
    BY <2>3 DEF Fills, InvTable
  <2> QED
    BY <2>1, <2>2, <2>3
<1>2. CASE Saves
  BY <1>0, <1>2 DEF Saves, Whole, object, emmc, InvTable
<1>3. CASE ClearConfigFirst
  BY <1>0, <1>3 DEF ClearConfigFirst, Forget, object, InvTable
<1>4. CASE ClearThenObject
  BY <1>0, <1>4 DEF ClearThenObject, ClearObject, Forget, object, InvTable
<1>5. CASE kt_ClearConfig
  BY <1>0, <1>5 DEF kt_ClearConfig, object, history, emmc, InvTable
<1>6. CASE StartFrom(saved)
  BY <1>6 DEF StartFrom, InvTable
<1>7. CASE UNCHANGED state
  BY <1>0, <1>7 DEF state, object, emmc, history, InvTable
<1> QED
  BY <1>1, <1>2, <1>3, <1>4, <1>5, <1>6, <1>7 DEF Steady

\* An address lies in one block.
LEMMA OneBlock ==
  ASSUME NEW b \in Nat, NEW c \in Nat, NEW a \in Nat, InBlock(a, b), InBlock(a, c)
  PROVE  b = c
<1>1. ASSUME NEW x \in Nat, NEW y \in Nat, x < y, a < x * PerBlock + PerBlock, y * PerBlock <= a
      PROVE  FALSE
  <2>1. (x + 1) * PerBlock <= y * PerBlock /\ (x + 1) * PerBlock = x * PerBlock + PerBlock
    BY <1>1, Sizes
  <2>2. x * PerBlock \in Nat /\ y * PerBlock \in Nat
    BY Sizes
  <2> QED
    BY <1>1, <2>1, <2>2, Sizes
<1>2. ~(b < c) /\ ~(c < b)
  BY <1>1 DEF InBlock
<1> QED
  BY <1>2

\* Where the next second goes: to the current block, or in front of the table.
LEMMA Here ==
  ASSUME Mode
  PROVE  /\ Aligned => InBlock(addr, curr_block)
         /\ curr_block * PerBlock \in Nat
<1>1. curr_block * PerBlock \in Nat /\ item_index \in 0 .. PerBlock - 1
  BY Ranges, Capacities DEF Mode, Blocks
<1> QED
  BY <1>1, Sizes DEF Aligned, InBlock

\* A table that fills behind an address reset by a clear is the first block.
LEMMA FrontFills ==
  ASSUME Mode, Stores, Fills, ~Aligned
  PROVE  Front /\ addr + 1 <= PerBlock
<1>1. addr + left <= PerBlock /\ left > 0 /\ ~Sampling /\ left \in Nat /\ addr \in Nat
  BY Moves, Ranges DEF Mode, Base, InvMarks
<1>2. ~Spent
  BY <1>1, Ranges, Sizes DEF Spent, Fills, Mode
<1> QED
  BY <1>1, <1>2, Sizes DEF Mode, InvMode

\* An entry of the index that is not replaced stays right.
LEMMA OwnStays ==
  ASSUME Own, Stores, Appends \/ Fills, NEW b \in IndexRange, NEW i \in Entries,
         index'[b][i] = index[b][i], b # curr_block \/ Appends
  PROVE  OwnEntry(b, i)'
<1>0. Base /\ Mode /\ InvPast /\ saved' = saved /\ durable' = durable
  BY DEF Own, Mode, Base, Stores
<1> DEFINE e == index[b][i]
<1>1. e.ts \in 0 .. now /\ e.addr \in Addrs /\ e.addr \in Nat
  BY SMTT(30), <1>0, Ranges, CellOf, Capacities DEF InvPast, Addrs
<1>2. SUFFICES ASSUME e.ts \in known'
               PROVE  /\ InBlock(e.addr, b)
                      /\ data'[e.addr] = e.ts \/ b = curr_block' \/ data'[e.addr] \notin kept'
                      /\ saved.flag # "NONE" =>
                           data'[e.addr] = e.ts \/ b = saved.curr_block \/ data'[e.addr] \notin durable
                      /\ ~Aligned' => e.addr < addr'
  BY <1>0 DEF OwnEntry, HasOwn, InBlock
<1>3. e.ts \in known
  BY <1>0, <1>1, <1>2, NewSecond
<1>4. /\ InBlock(e.addr, b)
      /\ data[e.addr] = e.ts \/ b = curr_block \/ data[e.addr] \notin kept
      /\ saved.flag # "NONE" =>
           data[e.addr] = e.ts \/ b = saved.curr_block \/ data[e.addr] \notin durable
      /\ ~Aligned => e.addr < addr
  BY <1>3 DEF Own, InvOwn, OwnEntry, HasOwn
<1> HIDE DEF e
<1>5. data[e.addr] \in 0 .. now
  BY <1>0, <1>1, Ranges DEF InvPast
<1>6. data'[e.addr] = IF e.addr = addr THEN now' ELSE data[e.addr]
  BY <1>0, <1>1, DataAfter
<1>7. ~Aligned' => e.addr < addr'
  BY <1>0, <1>1, <1>4, Moves, Ranges
<1>8. e.addr = addr => Aligned /\ b = curr_block
  <2>1. SUFFICES ASSUME e.addr = addr PROVE Aligned /\ b = curr_block
    OBVIOUS
  <2>2. Aligned
    BY <1>0, <1>1, <1>4, <2>1, Ranges
  <2>3. InBlock(addr, curr_block) /\ b \in Nat
    BY <1>0, <2>2, Here DEF IndexRange
  <2> QED
    BY <1>0, <1>1, <1>4, <2>1, <2>2, <2>3, OneBlock, Ranges
<1>9. data[e.addr] \notin kept => data[e.addr] \notin kept'
  BY <1>0, <1>5, NewSecond
<1>10. data'[e.addr] = e.ts \/ b = curr_block' \/ data'[e.addr] \notin kept'
  <2>1. CASE b # curr_block
    BY <1>4, <1>6, <1>8, <1>9, <2>1
  <2>2. CASE b = curr_block
    BY <2>2 DEF Appends
  <2> QED
    BY <2>1, <2>2
<1>11. ASSUME saved.flag # "NONE"
       PROVE  data'[e.addr] = e.ts \/ b = saved.curr_block \/ data'[e.addr] \notin durable
  <2>1. CASE e.addr # addr
    BY <1>4, <1>6, <1>11, <2>1
  <2>2. CASE e.addr = addr
    <3>1. b = curr_block /\ data'[e.addr] = now'
      BY <1>6, <1>8, <2>2
    <3>2. now' \in durable => now' = now
      BY <1>0, NewSecond
    <3>3. durable # {} => saved.curr_block = curr_block \/ now \notin durable
      BY <1>11 DEF Own, InvUnsaved
    <3> QED
      BY <3>1, <3>2, <3>3
  <2> QED
    BY <2>1, <2>2
<1> QED
  BY <1>4, <1>7, <1>10, <1>11

\* The table that goes to the index is right.
LEMMA OwnNew ==
  ASSUME Own, Stores, Fills, NEW c, c = curr_block,
         NEW i \in Entries, index'[c][i] = Written[i]
  PROVE  OwnEntry(c, i)'
<1>0. Base /\ Mode /\ InvPast /\ saved' = saved /\ durable' = durable
  BY DEF Own, Mode, Base, Stores
<1>a. item_index + 1 = PerBlock /\ item_index \in Nat /\ addr \in Nat /\ addr \in Addrs /\ curr_block \in IndexRange
  BY <1>0, Ranges DEF Fills
<1> DEFINE e == Written[i]
<1>1. SUFFICES ASSUME e.ts \in known'
               PROVE  /\ InBlock(e.addr, c) /\ data'[e.addr] = e.ts
                      /\ ~Aligned' => e.addr < addr'
  BY <1>0 DEF OwnEntry, HasOwn, InBlock
<1>2. e.addr \in Addrs /\ e.addr \in Nat /\ e.addr + (item_index - i) = addr /\ data'[e.addr] = e.ts
  <2>1. CASE i = item_index
    <3>1. e.ts = now' /\ e.addr = addr
      BY <1>0, <2>1, WrittenTable
    <3> QED
      BY <1>0, <1>a, <2>1, <3>1, DataAfter
  <2>2. CASE i # item_index
    <3>1. i \in 0 .. item_index - 1 /\ i \in Entries
      BY <1>a, <2>2, Sizes DEF Entries
    <3>2. e = item_tables[i] /\ item_tables[i].ts \in 0 .. now /\ item_tables[i].addr \in Addrs
      BY <1>0, <2>2, WrittenTable, CellOf, Ranges DEF InvPast
    <3>3. item_tables[i].ts \in known
      BY <1>0, <1>1, <3>2, NewSecond
    <3>4. item_tables[i].addr + (item_index - i) = addr /\ data[item_tables[i].addr] = item_tables[i].ts
      BY <3>1, <3>3 DEF Own, InvTable
    <3>5. item_tables[i].addr \in Nat /\ item_tables[i].addr # addr
      BY <1>a, <3>1, <3>2, <3>4, Capacities DEF Addrs
    <3> QED
      BY <1>0, <3>2, <3>4, <3>5, DataAfter
  <2> QED
    BY <2>1, <2>2
<1> HIDE DEF e
<1>3. i \in Nat /\ i <= item_index
  BY <1>a, Sizes DEF Entries
<1>4. InBlock(e.addr, curr_block)
  <2>0. curr_block * PerBlock \in Nat
    BY <1>0, Here
  <2>1. CASE Aligned
    <3>1. addr = curr_block * PerBlock + item_index
      BY <2>1 DEF Aligned
    <3>2. e.addr = curr_block * PerBlock + i
      BY <1>a, <1>2, <1>3, <2>0, <3>1
    <3> QED
      BY <1>a, <1>3, <2>0, <3>2, Sizes DEF InBlock
  <2>2. CASE ~Aligned
    <3>1. curr_block = 0 /\ addr + 1 <= PerBlock
      BY <1>0, <2>2, FrontFills DEF Front
    <3>2. curr_block * PerBlock = 0
      BY <3>1, Sizes
    <3>3. e.addr < PerBlock
      BY <1>a, <1>2, <1>3, <3>1, Sizes
    <3> QED
      BY <1>2, <3>2, <3>3, Sizes DEF InBlock
  <2> QED
    BY <2>1, <2>2
<1>5. ~Aligned' => e.addr < addr'
  <2>1. SUFFICES ASSUME ~Aligned' PROVE e.addr < addr'
    OBVIOUS
  <2>2. addr' = addr + 1
    BY <1>0, <2>1, Moves
  <2> QED
    BY <1>a, <1>2, <1>3, <2>2
<1>6. InBlock(e.addr, c)
  BY <1>4
<1> QED
  BY <1>2, <1>5, <1>6

\* All the entries, over every operation.
LEMMA OwnStep == Own /\ [Steady]_state => InvOwn'
<1> SUFFICES ASSUME Own, [Steady]_state PROVE InvOwn'
  OBVIOUS
<1>0. InvOwn /\ Base /\ Mode /\ InvHistory
  BY DEF Own, Mode, Base
<1>1. CASE StoreRight
  <2>1. Stores /\ (Appends \/ Fills)
    BY <1>0, <1>1, StoreCases
  <2>2. SUFFICES ASSUME NEW b \in IndexRange, NEW i \in Entries PROVE OwnEntry(b, i)'
    BY DEF InvOwn
  <2>3. CASE Appends
    <3>1. index'[b][i] = index[b][i]
      BY <2>3 DEF Appends
    <3> QED
      BY <2>1, <2>3, <3>1, OwnStays
  <2>4. CASE Fills
    <3>1. index'[b] = IF b = curr_block THEN Written ELSE index[b]
      BY <1>0, <2>4, Ranges DEF Fills
    <3>2. CASE b = curr_block
      <4>1. index'[b][i] = Written[i]
        BY <3>1, <3>2
      <4> QED
        BY <2>1, <2>4, <3>2, <4>1, OwnNew
    <3>3. CASE b # curr_block
      <4>1. index'[b][i] = index[b][i]
        BY <3>1, <3>3
      <4> QED
        BY <2>1, <2>4, <3>3, <4>1, OwnStays
    <3> QED
      BY <3>2, <3>3
  <2> QED
    BY <2>1, <2>3, <2>4
<1>2. CASE Saves
  <2>1. /\ saved' = config /\ durable' = completed /\ UNCHANGED <<index, data, known, kept, curr_block, item_index, addr>>
    BY <1>2 DEF Saves, Whole, object, emmc
  <2>2. completed # {} /\ config.flag # "NONE" => config.curr_block = curr_block
    BY <1>0 DEF Mode, InvConfig, SamePos
  <2>3. SUFFICES ASSUME NEW b \in IndexRange, NEW i \in Entries PROVE OwnEntry(b, i)'
    BY DEF InvOwn
  <2>4. OwnEntry(b, i) /\ completed \subseteq kept
    BY <1>0 DEF InvOwn, InvHistory
  <2>5. completed # {} \/ data[index[b][i].addr] \notin completed
    OBVIOUS
  <2> QED
    BY <2>1, <2>2, <2>4, <2>5 DEF OwnEntry, HasOwn, InBlock, Aligned
<1>a. ASSUME known' = {} PROVE InvOwn'
  BY <1>a DEF InvOwn, OwnEntry
<1>3. CASE ClearConfigFirst
  BY <1>a, <1>3 DEF ClearConfigFirst, Forget
<1>4. CASE ClearThenObject
  BY <1>a, <1>4 DEF ClearThenObject, Forget
<1>b. ASSUME UNCHANGED <<object, emmc, saved, history>> PROVE InvOwn'
  <2>1. SUFFICES ASSUME NEW b \in IndexRange, NEW i \in Entries PROVE OwnEntry(b, i)'
    BY DEF InvOwn
  <2>2. OwnEntry(b, i)
    BY <1>0 DEF InvOwn
  <2> QED
    BY <1>b, <2>2 DEF object, emmc, history, OwnEntry, HasOwn, InBlock, Aligned
<1>5. CASE kt_ClearConfig
  BY <1>b, <1>5 DEF kt_ClearConfig
<1>6. CASE StartFrom(saved)
  <2>1. CASE saved.flag = "NONE"
    BY <1>a, <1>6, <2>1 DEF StartFrom
  <2>2. CASE saved.flag # "NONE"
    <3>1. /\ saved' = saved /\ config' = [saved EXCEPT !.flag = "NEXT_ON"] /\ durable' = durable
          /\ kept' = durable' /\ known' = known /\ curr_block' = config'.curr_block
          /\ addr' = config'.curr_block * PerBlock /\ item_index' = 0 /\ UNCHANGED <<index, data>>
      BY <1>6, <2>2 DEF StartFrom, BootConfig, emmc
    <3>2. curr_block' = saved.curr_block
      BY <1>0, <3>1, Ranges DEF Fields
    <3>3. saved.curr_block \in Nat
      BY <1>0, Ranges
    <3>4. Aligned'
      <4>1. addr' = curr_block' * PerBlock /\ curr_block' * PerBlock + 0 = curr_block' * PerBlock
        BY <3>1, <3>2, <3>3, StartOfBlock
      <4> QED
        BY <3>1, <4>1 DEF Aligned
    <3>5. SUFFICES ASSUME NEW b \in IndexRange, NEW i \in Entries PROVE OwnEntry(b, i)'
      BY DEF InvOwn
    <3>6. OwnEntry(b, i)
      BY <1>0 DEF InvOwn
    <3> QED
      BY <2>2, <3>1, <3>2, <3>4, <3>6 DEF OwnEntry, HasOwn, InBlock
  <2> QED
    BY <2>1, <2>2
<1>7. CASE UNCHANGED state
  BY <1>b, <1>7 DEF state
<1> QED
  BY <1>1, <1>2, <1>3, <1>4, <1>5, <1>6, <1>7 DEF Steady

\* At the start no entry has a second, and every operation keeps the entries.
LEMMA OwnInit == Init => Own
<1> SUFFICES ASSUME Init PROVE Own
  OBVIOUS
<1>1. Mode
  BY ModeInit
<1>2. known = {} /\ completed = {} /\ durable = {} /\ item_index = 0
  BY DEF Init
<1> QED
  BY <1>1, <1>2 DEF Own, InvTable, InvOwn, OwnEntry, InvUnsaved, InvRepeat

LEMMA OwnKept == Own /\ [Steady]_state => Own'
<1> SUFFICES ASSUME Own, [Steady]_state PROVE Own'
  OBVIOUS
<1>1. Mode'
  BY ModeKept DEF Own
<1> QED
  BY <1>1, TableStep, OwnStep, UnsavedStep, RepeatStep DEF Own

\* The least of two numbers.
LEMMA TwoMin ==
  ASSUME NEW x \in Nat, NEW y \in Nat
  PROVE  Min({x, y}) \in {x, y} /\ Min({x, y}) <= x /\ Min({x, y}) <= y
<1>1. CASE x <= y
  BY <1>1 DEF Min
<1>2. CASE ~(x <= y)
  BY <1>2 DEF Min
<1> QED
  BY <1>1, <1>2

\* What is found is an entry of the table or of an index block that is in use.
LEMMA FoundEntries ==
  ASSUME Base, NEW ts, NEW a \in Found(ts)
  PROVE  \/ \E i \in 0 .. item_index - 1 : item_tables[i].ts = ts /\ item_tables[i].addr = a /\ InTable(ts)
         \/ \E b \in 0 .. block_num - 1 : \E i \in Entries : index[b][i].ts = ts /\ index[b][i].addr = a
<1>1. CASE InTable(ts)
  BY <1>1 DEF Found
<1>2. CASE ~InTable(ts)
  <2>1. PICK n \in Searched(ts) : \E b \in n .. ChunkEnd(n) : a \in {index[b][i].addr : i \in {j \in Entries : index[b][j].ts = ts}}
    BY <1>2 DEF Found, Entries
  <2>2. PICK b \in n .. ChunkEnd(n) : \E i \in Entries : index[b][i].ts = ts /\ index[b][i].addr = a
    BY <2>1
  <2>3. n \in Nat /\ block_num \in Nat
    BY <2>1, Ranges DEF Searched, Chunks
  <2>4. Min({n + Chunk, block_num}) <= block_num /\ Min({n + Chunk, block_num}) \in Nat
    BY <2>3, Sizes, TwoMin
  <2>5. b \in 0 .. block_num - 1
    BY <2>2, <2>3, <2>4 DEF ChunkEnd
  <2> QED
    BY <2>2, <2>5
<1> QED
  BY <1>1, <1>2

\* What Storage_Read_AdcData finds for a second is that second: FlushTable puts the
\* table of a block at the block's place, and Adc_Object_Init goes on at the block
\* behind the last saved one.  The exceptions are the block that is overwritten at the
\* moment, and what was overwritten by a second a loss of power took away.  It holds
\* until the clock goes back, a start finds half a configuration or the end of the
\* first lap is not saved in time, as the theorems below do.
THEOREM SecondsOwn == Spec => []ReadsOwnSecond
<1>1. Init => (regular => Own)
  BY OwnInit
<1>2. (regular => Own) /\ [Next]_vars => (regular => Own)'
  BY OwnKept, RegularStep, StaysIrregular
<1>3. (regular => Own) => ReadsOwnSecond
  <2> SUFFICES ASSUME Own, NEW ts \in known, NEW a \in Found(ts)
               PROVE  data[a] = ts \/ a \div PerBlock = curr_block \/ data[a] \notin kept
    BY DEF ReadsOwnSecond
  <2>0. Base /\ Mode /\ block_num \in 0 .. 2 * IndexBlocks
    BY Ranges, Sizes DEF Own, Mode, Base, InvPos
  <2>1. CASE \E i \in 0 .. item_index - 1 : item_tables[i].ts = ts /\ item_tables[i].addr = a
    BY <2>1 DEF Own, InvTable
  <2>2. CASE \E b \in 0 .. block_num - 1 : \E i \in Entries : index[b][i].ts = ts /\ index[b][i].addr = a
    <3>1. PICK b \in 0 .. block_num - 1 : \E i \in Entries : index[b][i].ts = ts /\ index[b][i].addr = a
      BY <2>2
    <3>2. PICK i \in Entries : index[b][i].ts = ts /\ index[b][i].addr = a
      BY <3>1
    <3>3. b \in IndexRange /\ b \in Nat
      BY <2>0, Sizes DEF IndexRange
    <3>4. OwnEntry(b, i)
      BY <3>3 DEF Own, InvOwn
    <3>5. InBlock(a, b) /\ HasOwn(ts, a, b, curr_block, kept)
      BY <3>2, <3>4 DEF OwnEntry
    <3>6. a \div PerBlock = b
      <4>1. a \in Nat
        BY SMTT(30), <2>0, <3>2, <3>3, Ranges, CellOf, Capacities DEF Addrs
      <4>2. a \div PerBlock \in Nat /\ a % PerBlock \in 0 .. PerBlock - 1 /\ a = PerBlock * (a \div PerBlock) + (a % PerBlock)
        BY <4>1, Sizes
      <4>3. InBlock(a, a \div PerBlock)
        BY <4>2, Sizes DEF InBlock
      <4> QED
        BY <3>3, <3>5, <4>1, <4>2, <4>3, OneBlock
    <3> QED
      BY <3>5, <3>6 DEF HasOwn
  <2> QED
    BY <2>0, <2>1, <2>2, FoundEntries
<1> QED
  BY <1>1, <1>2, <1>3, PTL DEF Spec

----------------------------------------------------------------------------
(* 6. Kept seconds are found.                                              *)

\* Second ts is in one of the first n index blocks, those before it end no later than it
\* and it and those behind it no earlier;
InIndex(ts, n) ==
  \E b \in 0 .. n - 1 :
    /\ \E i \in Entries : index[b][i].ts = ts
    /\ \A m \in 0 .. b - 1 : LastOf(m) <= ts
    /\ \A m \in b .. n - 1 : LastOf(m) >= ts
\* or it is in the table in RAM, and all the blocks end no later.
InRam(ts) ==
  /\ \E i \in 0 .. item_index - 1 : item_tables[i].ts = ts
  /\ \A m \in 0 .. block_num - 1 : LastOf(m) <= ts
\* A second in the index is not hidden by the table, which is searched first.
Ahead(ts) == item_index > 0 => ts <= item_tables[0].ts
\* In the first lap every second kept is in one of the two, and those in saved blocks
\* are where a start will look for them.
InvFound ==
  /\ FirstLap => /\ \A ts \in completed : InIndex(ts, block_num)
                 /\ \A ts \in kept : InRam(ts) \/ (InIndex(ts, block_num) /\ Ahead(ts))
  /\ saved.flag # "NONE" /\ saved.block_num < IndexBlocks =>
       \A ts \in durable : InIndex(ts, saved.block_num)

\* A block that changes behind the first n takes nothing from them,
LEMMA StaysFound ==
  ASSUME NEW ts, NEW n \in Nat, InIndex(ts, n), \A b \in 0 .. n - 1 : index'[b] = index[b]
  PROVE  InIndex(ts, n)'
<1>1. PICK b \in 0 .. n - 1 :
        /\ \E i \in Entries : index[b][i].ts = ts
        /\ \A m \in 0 .. b - 1 : LastOf(m) <= ts
        /\ \A m \in b .. n - 1 : LastOf(m) >= ts
  BY DEF InIndex
<1>2. \E i \in Entries : index'[b][i].ts = ts
  BY <1>1
<1>3. \A m \in 0 .. b - 1 : index'[m][PerBlock - 1].ts <= ts
  <2>1. ASSUME NEW m \in 0 .. b - 1 PROVE index'[m][PerBlock - 1].ts <= ts
    <3>1. m \in 0 .. n - 1
      OBVIOUS
    <3> QED
      BY <1>1, <3>1 DEF LastOf
  <2> QED
    BY <2>1
<1>4. \A m \in b .. n - 1 : index'[m][PerBlock - 1].ts >= ts
  BY <1>1 DEF LastOf
<1> QED
  BY <1>2, <1>3, <1>4 DEF InIndex, LastOf

\* and a block that is added and ends later keeps what is found in the ones before.
LEMMA GrowsFound ==
  ASSUME NEW ts, NEW n \in Nat, InIndex(ts, n), \A b \in 0 .. n - 1 : index'[b] = index[b],
         index'[n][PerBlock - 1].ts >= ts
  PROVE  InIndex(ts, n + 1)'
<1>1. PICK b \in 0 .. n - 1 :
        /\ \E i \in Entries : index[b][i].ts = ts
        /\ \A m \in 0 .. b - 1 : LastOf(m) <= ts
        /\ \A m \in b .. n - 1 : LastOf(m) >= ts
  BY DEF InIndex
<1>2. b \in 0 .. (n + 1) - 1 /\ \E i \in Entries : index'[b][i].ts = ts
  BY <1>1
<1>3. \A m \in 0 .. b - 1 : index'[m][PerBlock - 1].ts <= ts
  <2>1. ASSUME NEW m \in 0 .. b - 1 PROVE index'[m][PerBlock - 1].ts <= ts
    <3>1. m \in 0 .. n - 1
      OBVIOUS
    <3> QED
      BY <1>1, <3>1 DEF LastOf
  <2> QED
    BY <2>1
<1>4. \A m \in b .. (n + 1) - 1 : index'[m][PerBlock - 1].ts >= ts
  <2>1. ASSUME NEW m \in b .. (n + 1) - 1 PROVE index'[m][PerBlock - 1].ts >= ts
    <3>1. m = n \/ m \in b .. n - 1
      OBVIOUS
    <3> QED
      BY <1>1, <3>1 DEF LastOf
  <2> QED
    BY <2>1
<1> QED
  BY <1>2, <1>3, <1>4 DEF InIndex, LastOf

\* A table that becomes block n behind blocks that end no later.
LEMMA NewFound ==
  ASSUME NEW ts, NEW n \in Nat, \E i \in Entries : index'[n][i].ts = ts,
         \A m \in 0 .. n - 1 : index'[m][PerBlock - 1].ts <= ts,
         index'[n][PerBlock - 1].ts >= ts
  PROVE  InIndex(ts, n + 1)'
<1>1. n \in 0 .. (n + 1) - 1
  OBVIOUS
<1>2. \A m \in n .. (n + 1) - 1 : index'[m][PerBlock - 1].ts >= ts
  <2>1. ASSUME NEW m \in n .. (n + 1) - 1 PROVE m = n
    OBVIOUS
  <2> QED
    BY <2>1
<1> QED
  BY <1>1, <1>2 DEF InIndex, LastOf

\* Every operation keeps what can be found.
LEMMA FoundStep == Own /\ InvFound /\ [Steady]_state => InvFound'
<1> SUFFICES ASSUME Own, InvFound, [Steady]_state PROVE InvFound'
  OBVIOUS
<1>0. InvFound /\ Base /\ Mode /\ InvPast /\ InvHistory /\ now \in Nat /\ Base'
  BY BaseStep DEF Own, Mode, Base, InvData
<1>1. CASE StoreRight
  <2>1. Stores /\ (Appends \/ Fills)
    BY <1>0, <1>1, StoreCases
  <2>2. saved' = saved /\ durable' = durable /\ kept' = kept \cup {now'}
    BY <2>1 DEF Stores
  <2>3. now <= now' /\ now' \in Nat
    BY <1>0, <2>1, NewSecond
  <2>4. \A ts \in kept : ts \in Nat /\ ts <= now'
    BY <1>0, <2>3 DEF InvHistory
  <2>5. \A m \in IndexRange : LastOf(m) \in Nat /\ LastOf(m) <= now'
    <3>1. ASSUME NEW m \in IndexRange PROVE LastOf(m) \in Nat /\ LastOf(m) <= now'
      <4>1. PerBlock - 1 \in Entries
        BY Sizes DEF Entries
      <4>2. LastOf(m) \in Nat /\ LastOf(m) <= now
        BY <1>0, <4>1, Ranges, CellOf DEF InvPast, LastOf
      <4> QED
        BY <1>0, <2>3, <4>2
    <3> QED
      BY <3>1
  <2>6. /\ Written[item_index].ts = now'
        /\ \A i \in 0 .. item_index - 1 : Written[i] = item_tables[i]
        /\ item_index \in Nat
    <3>1. \A i \in 0 .. item_index - 1 : i \in Entries /\ i # item_index
      BY <1>0, Ranges, Sizes DEF Entries
    <3> QED
      BY <1>0, <2>1, <3>1, WrittenTable, Ranges
  <2>7. CASE Appends
    <3>1. /\ UNCHANGED <<index, block_num, completed>> /\ item_index' = item_index + 1
          /\ item_tables' = Written
      BY <2>7 DEF Appends
    <3>2. ASSUME NEW ts, NEW n, InIndex(ts, n) PROVE InIndex(ts, n)'
      BY <3>1, <3>2 DEF InIndex, LastOf
    <3>3. PICK n : n = block_num
      OBVIOUS
    <3>4. FirstLap' => FirstLap
      BY <3>1 DEF FirstLap
    <3>5. saved.flag # "NONE" /\ saved.block_num < IndexBlocks =>
            \A ts \in durable : InIndex(ts, saved.block_num)'
      <4>1. SUFFICES ASSUME saved.flag # "NONE", saved.block_num < IndexBlocks, NEW ts \in durable
                     PROVE  InIndex(ts, saved.block_num)'
        OBVIOUS
      <4>2. PICK s : s = saved.block_num
        OBVIOUS
      <4>3. InIndex(ts, s)'
        BY <1>0, <3>2, <4>1, <4>2 DEF InvFound
      <4> QED
        BY <2>2, <4>2, <4>3 DEF InIndex, LastOf
    <3>6. ASSUME FirstLap, NEW ts \in completed PROVE InIndex(ts, n)'
      BY <1>0, <3>2, <3>3, <3>6 DEF InvFound
    <3>7. ASSUME FirstLap, NEW ts \in kept' PROVE InRam(ts)' \/ (InIndex(ts, n)' /\ Ahead(ts)')
      <4>1. n \in Nat /\ \A m \in 0 .. n - 1 : m \in IndexRange
        BY <1>0, <3>3, <3>7, FirstLapPos, Sizes DEF IndexRange
      <4>2. CASE ts = now'
        <5>1. \A m \in 0 .. n - 1 : LastOf(m) <= now'
          BY <2>5, <4>1
        <5>2. item_index \in 0 .. item_index' - 1 /\ item_tables'[item_index].ts = now'
          BY <2>6, <3>1
        <5> QED
          BY <3>1, <3>3, <4>2, <5>1, <5>2 DEF InRam, LastOf
      <4>3. CASE ts # now'
        <5>1. ts \in kept
          BY <2>2, <3>7, <4>3
        <5>2. CASE InRam(ts)
          <6>1. PICK i \in 0 .. item_index - 1 : item_tables[i].ts = ts
            BY <5>2 DEF InRam
          <6>2. i \in 0 .. item_index' - 1 /\ item_tables'[i].ts = ts
            BY <2>6, <3>1, <6>1
          <6> QED
            BY <3>1, <5>2, <6>2 DEF InRam, LastOf
        <5>3. CASE InIndex(ts, block_num) /\ Ahead(ts)
          <6>1. InIndex(ts, n)'
            BY <3>2, <3>3, <5>3
          <6>2. ts <= item_tables'[0].ts
            <7>1. CASE item_index = 0
              BY <2>4, <2>6, <3>1, <5>1, <7>1
            <7>2. CASE item_index # 0
              <8>1. item_index > 0 /\ 0 \in 0 .. item_index - 1
                BY <2>6, <7>2
              <8> QED
                BY <2>6, <3>1, <5>3, <8>1 DEF Ahead
            <7> QED
              BY <7>1, <7>2
          <6> QED
            BY <6>1, <6>2 DEF Ahead
        <5> QED
          BY <1>0, <3>7, <5>1, <5>2, <5>3 DEF InvFound
      <4> QED
        BY <4>2, <4>3
    <3>8. block_num' = n
      BY <3>1, <3>3
    <3> QED
      BY <2>2, <3>1, <3>4, <3>5, <3>6, <3>7, <3>8 DEF InvFound, InIndex, LastOf
  <2>8. CASE Fills
    <3>1. /\ \A b \in IndexRange : index'[b] = IF b = curr_block THEN Written ELSE index[b]
          /\ item_index + 1 = PerBlock /\ item_index' = 0 /\ completed' = kept'
      BY <1>0, <2>8, Ranges DEF Fills
    <3>2. saved.flag # "NONE" /\ saved.block_num < IndexBlocks =>
            \A ts \in durable : InIndex(ts, saved.block_num)'
      <4>1. SUFFICES ASSUME saved.flag # "NONE", saved.block_num < IndexBlocks, NEW ts \in durable
                     PROVE  InIndex(ts, saved.block_num)'
        OBVIOUS
      <4>2. FirstLap /\ saved.block_num <= block_num
        <5>1. FirstLap /\ durable # {}
          BY <2>8, <4>1 DEF Fills
        <5> QED
          BY <1>0, <4>1, <5>1, FirstLapPos, Sizes DEF Own, InvUnsaved
      <4>3. PICK s : s = saved.block_num
        OBVIOUS
      <4>4. s \in Nat /\ s <= curr_block /\ curr_block \in Nat /\ s <= IndexBlocks
        BY <1>0, <4>1, <4>2, <4>3, FirstLapPos, Ranges, Sizes
      <4>5. \A b \in 0 .. s - 1 : index'[b] = index[b]
        BY <3>1, <4>4, Sizes DEF IndexRange
      <4>6. InIndex(ts, s)
        BY <1>0, <4>1, <4>3 DEF InvFound
      <4>7. InIndex(ts, s)'
        BY <4>4, <4>5, <4>6, StaysFound
      <4> QED
        BY <2>2, <4>3, <4>7 DEF InIndex, LastOf
    <3>3. ASSUME FirstLap' PROVE \A ts \in kept' : InIndex(ts, block_num)'
      <4>1. FirstLap /\ block_num' = block_num + 1 /\ block_num = curr_block
        BY <1>0, <2>8, <3>3, Ranges, Sizes DEF Base, InvPos, FirstLap, Fills
      <4>2. PICK n : n = block_num
        OBVIOUS
      <4>3. n \in Nat /\ n \in IndexRange /\ n < IndexBlocks
        BY <1>0, <4>1, <4>2, FirstLapPos, Sizes DEF IndexRange
      <4>4. index'[n] = Written /\ \A b \in 0 .. n - 1 : b \in IndexRange /\ index'[b] = index[b]
        BY <3>1, <4>1, <4>2, <4>3, Sizes DEF IndexRange
      <4>5. index'[n][PerBlock - 1].ts = now'
        <5>1. item_index = PerBlock - 1
          BY <2>6, <3>1, Sizes
        <5> QED
          BY <2>6, <4>4, <5>1
      <4>6. ASSUME NEW ts \in kept' PROVE InIndex(ts, n + 1)'
        <5>1. index'[n][PerBlock - 1].ts >= ts
          BY <2>2, <2>3, <2>4, <4>5
        <5>2. CASE ts = now'
          <6>1. \A m \in 0 .. n - 1 : index'[m][PerBlock - 1].ts <= ts
            BY <2>5, <4>4, <5>2 DEF LastOf
          <6>2. PerBlock - 1 \in Entries
            BY Sizes DEF Entries
          <6>3. \E i \in Entries : index'[n][i].ts = ts
            BY <4>5, <5>2, <6>2
          <6> QED
            BY <4>3, <5>1, <6>1, <6>3, NewFound
        <5>3. CASE ts # now'
          <6>1. ts \in kept
            BY <2>2, <5>3
          <6>2. CASE InRam(ts)
            <7>1. PICK i \in 0 .. item_index - 1 : item_tables[i].ts = ts
              BY <6>2 DEF InRam
            <7>2. i \in Entries /\ index'[n][i].ts = ts
              BY <1>0, <2>6, <4>4, <7>1, Ranges, Sizes DEF Entries
            <7>3. \A m \in 0 .. n - 1 : index'[m][PerBlock - 1].ts <= ts
              BY <4>2, <4>4, <6>2 DEF InRam, LastOf
            <7>4. \E k \in Entries : index'[n][k].ts = ts
              BY <7>2
            <7> QED
              BY <4>3, <5>1, <7>3, <7>4, NewFound
          <6>3. CASE InIndex(ts, n)
            <7>1. \A b \in 0 .. n - 1 : index'[b] = index[b]
              BY <4>4
            <7> QED
              BY <4>3, <5>1, <6>3, <7>1, GrowsFound
          <6> QED
            BY <1>0, <4>1, <4>2, <6>1, <6>2, <6>3 DEF InvFound
        <5> QED
          BY <5>2, <5>3
      <4>7. block_num' = n + 1
        BY <4>1, <4>2
      <4> QED
        BY <4>6, <4>7 DEF InIndex, LastOf
    <3>4. \A ts : Ahead(ts)'
      BY <3>1 DEF Ahead
    <3> QED
      BY <2>2, <3>1, <3>2, <3>3, <3>4 DEF InvFound
  <2> QED
    BY <2>1, <2>7, <2>8
<1>2. CASE Saves
  <2>1. /\ saved' = config /\ durable' = completed
        /\ UNCHANGED <<index, block_num, item_index, item_tables, kept, completed>>
    BY <1>2 DEF Saves, Whole, object, emmc
  <2>2. completed # {} /\ config.flag # "NONE" => config.block_num = block_num
    BY <1>0 DEF Mode, InvConfig, SamePos
  <2>3. FirstLap' = FirstLap
    BY <2>1 DEF FirstLap
  <2>4. ASSUME NEW ts, NEW n PROVE InIndex(ts, n)' = InIndex(ts, n)
    BY <2>1 DEF InIndex, LastOf
  <2>5. ASSUME NEW ts PROVE InRam(ts)' = InRam(ts) /\ Ahead(ts)' = Ahead(ts)
    BY <2>1 DEF InRam, Ahead, LastOf
  <2>6. PICK n : n = block_num
    OBVIOUS
  <2>7. /\ FirstLap => \A ts \in completed : InIndex(ts, n)'
        /\ FirstLap => \A ts \in kept : InRam(ts)' \/ (InIndex(ts, n)' /\ Ahead(ts)')
    BY <1>0, <2>4, <2>5, <2>6 DEF InvFound
  <2>8. ASSUME config.flag # "NONE", config.block_num < IndexBlocks, NEW ts \in completed
        PROVE  InIndex(ts, config.block_num)'
    <3>1. config.block_num = n /\ FirstLap
      BY <2>2, <2>6, <2>8 DEF FirstLap
    <3>2. InIndex(ts, n)'
      BY <2>7, <2>8, <3>1
    <3>3. config'.block_num = n
      BY <1>2, <3>1 DEF Saves, Whole
    <3> QED
      BY <3>2, <3>3 DEF InIndex, LastOf
  <2>9. block_num' = n /\ saved' = config /\ config' = config
    BY <1>2, <2>1, <2>6 DEF Saves, Whole
  <2> QED
    BY <2>1, <2>3, <2>7, <2>8, <2>9 DEF InvFound, InIndex, LastOf
<1>3. CASE ClearConfigFirst
  BY <1>3 DEF ClearConfigFirst, Forget, InvFound
<1>4. CASE ClearThenObject
  BY <1>4 DEF ClearThenObject, Forget, InvFound
<1>5. CASE kt_ClearConfig
  BY <1>0, <1>5 DEF kt_ClearConfig, object, history, emmc, InvFound, InIndex, InRam, Ahead, LastOf, FirstLap
<1>6. CASE StartFrom(saved)
  <2>1. CASE saved.flag = "NONE"
    BY <1>6, <2>1 DEF StartFrom, InvFound
  <2>2. CASE saved.flag # "NONE"
    <3>1. /\ saved' = saved /\ config' = [saved EXCEPT !.flag = "NEXT_ON"] /\ durable' = durable
          /\ kept' = durable' /\ completed' = durable' /\ block_num' = config'.block_num
          /\ item_index' = 0 /\ UNCHANGED <<index, data>>
      BY <1>6, <2>2 DEF StartFrom, BootConfig, emmc
    <3>2. block_num' = saved.block_num
      BY <1>0, <3>1, Ranges DEF Fields
    <3>3. PICK n : n = saved.block_num
      OBVIOUS
    <3>4. ASSUME n < IndexBlocks, NEW ts \in durable PROVE InIndex(ts, n)'
      BY <1>0, <2>2, <3>1, <3>3, <3>4 DEF InvFound, InIndex, LastOf
    <3>5. \A ts : Ahead(ts)'
      BY <3>1 DEF Ahead
    <3>6. FirstLap' = (n < IndexBlocks) /\ block_num' = n /\ saved'.block_num = n
      BY <3>1, <3>2, <3>3 DEF FirstLap
    <3> QED
      BY ZenonT(30), <3>1, <3>4, <3>5, <3>6 DEF InvFound, InIndex, LastOf
  <2> QED
    BY <2>1, <2>2
<1>7. CASE UNCHANGED state
  BY <1>0, <1>7 DEF state, object, history, emmc, InvFound, InIndex, InRam, Ahead, LastOf, FirstLap
<1> QED
  BY <1>1, <1>2, <1>3, <1>4, <1>5, <1>6, <1>7 DEF Steady

\* Every set of numbers has a least one.
Less == {p \in Nat \X Nat : p[1] < p[2]}
LEMMA Least ==
  ASSUME NEW S, S \subseteq Nat, S # {}
  PROVE  \E x \in S : \A y \in S : x <= y
<1>1. IsWellFoundedOn(Less, Nat)
  BY NatLessThanWellFounded DEF OpToRel, Less
<1>2. PICK x \in S : \A y \in S : ~ (<<y, x>> \in Less)
  BY <1>1, WFMin, Zenon
<1>3. ASSUME NEW y \in S PROVE x <= y
  <2>1. x \in Nat /\ y \in Nat
    OBVIOUS
  <2>2. ASSUME y < x PROVE <<y, x>> \in Less
    BY <2>1, <2>2 DEF Less
  <2> QED
    BY <1>2, <2>1, <2>2
<1> QED
  BY <1>3

\* The chunk a block is searched with.
LEMMA ChunkOf ==
  ASSUME NEW b \in Nat
  PROVE  \E n \in Nat : n % Chunk = 0 /\ n <= b /\ b < n + Chunk
<1> DEFINE q == b \div Chunk
           n == Chunk * q
           d == n \div Chunk
           r == n % Chunk
<1>0. Chunk \in Nat /\ Chunk >= 1
  BY Sizes
<1>1. q \in Nat /\ n \in Nat /\ n <= b /\ b < n + Chunk
  <2>1. q \in Nat /\ b % Chunk \in 0 .. Chunk - 1 /\ b = Chunk * q + (b % Chunk)
    BY <1>0, SMT
  <2> HIDE DEF q
  <2>2. Chunk * q \in Nat
    BY <1>0, <2>1
  <2> QED
    BY <1>0, <2>1, <2>2
<1> HIDE DEF q
<1>2. d \in Int /\ r \in 0 .. Chunk - 1 /\ n = Chunk * d + r
  <2> HIDE DEF n
  <2> QED
    BY <1>0, <1>1, SMT
<1> HIDE DEF d, r
<1>3. ASSUME d >= q + 1 PROVE FALSE
  <2>1. Chunk * d >= Chunk * (q + 1)
    BY <1>0, <1>1, <1>2, <1>3, SMT
  <2> QED
    BY <1>0, <1>1, <1>2, <2>1, SMT
<1>4. ASSUME d <= q - 1 PROVE FALSE
  <2>1. Chunk * d <= Chunk * (q - 1)
    BY <1>0, <1>1, <1>2, <1>4, SMT
  <2> QED
    BY <1>0, <1>1, <1>2, <2>1, SMT
<1>5. d = q
  BY <1>1, <1>2, <1>3, <1>4
<1>6. r = 0
  BY <1>0, <1>1, <1>2, <1>5, SMT
<1> QED
  BY <1>1, <1>6 DEF r

\* A second whose blocks are in order is found in the first chunk that does not
\* end before it.
LEMMA SearchFinds ==
  ASSUME Base, FirstLap, NEW ts \in Nat, InIndex(ts, block_num), ~InTable(ts)
  PROVE  Found(ts) # {}
<1>1. PICK b \in 0 .. block_num - 1 :
        /\ \E i \in Entries : index[b][i].ts = ts
        /\ \A m \in 0 .. b - 1 : LastOf(m) <= ts
        /\ \A m \in b .. block_num - 1 : LastOf(m) >= ts
  BY DEF InIndex
<1>2. block_num \in Nat /\ b \in Nat /\ block_num <= IndexBlocks
  BY <1>1, Ranges, Sizes DEF FirstLap
<1>3. ASSUME NEW n \in Nat, n < block_num
      PROVE  /\ ChunkEnd(n) \in n .. block_num - 1
             /\ ChunkEnd(n) < n + Chunk
             /\ n + Chunk > ChunkEnd(n) + 1 => ChunkEnd(n) = block_num - 1
  <2>1. Min({n + Chunk, block_num}) \in {n + Chunk, block_num} /\ Min({n + Chunk, block_num}) <= n + Chunk
        /\ Min({n + Chunk, block_num}) <= block_num
    BY <1>2, Sizes, TwoMin
  <2> QED
    BY <1>2, <1>3, <2>1, Sizes DEF ChunkEnd
<1>4. PICK m0 \in Nat : m0 % Chunk = 0 /\ m0 <= b /\ b < m0 + Chunk
  BY <1>2, ChunkOf
<1>5. m0 \in Chunks /\ m0 < block_num
  BY <1>1, <1>2, <1>4 DEF Chunks
<1>6. ChunkEnd(m0) \in b .. block_num - 1
  BY <1>1, <1>2, <1>3, <1>4, <1>5, Sizes
<1>7. ChunkLast(m0) >= ts
  BY <1>1, <1>6 DEF ChunkLast, LastOf
<1> DEFINE S == {n \in Chunks : ChunkLast(n) >= ts}
<1>8. S \subseteq Nat /\ m0 \in S
  BY <1>2, <1>5, <1>7 DEF Chunks
<1>9. PICK n \in S : \A m \in S : n <= m
  BY <1>8, Least
<1>10. n \in Searched(ts) /\ n \in Nat /\ n < block_num /\ ChunkLast(n) >= ts /\ n <= m0
  BY <1>2, <1>8, <1>9 DEF Searched, Chunks
<1> HIDE DEF S
<1>11. ASSUME NEW c \in n .. ChunkEnd(n), \E i \in Entries : index[c][i].ts = ts
       PROVE  Found(ts) # {}
  <2>1. PICK i \in Entries : index[c][i].ts = ts
    BY <1>11
  <2>2. c \in UNION {k .. ChunkEnd(k) : k \in Searched(ts)}
    BY <1>10, <1>11
  <2>3. index[c][i].addr \in {index[c][j].addr : j \in {k \in Entries : index[c][k].ts = ts}}
    BY <2>1
  <2>4. index[c][i].addr \in
          UNION {{index[b1][j].addr : j \in {k \in Entries : index[b1][k].ts = ts}} :
                   b1 \in UNION {k .. ChunkEnd(k) : k \in Searched(ts)}}
    BY <2>2, <2>3
  <2>5. Found(ts) = UNION {{index[b1][j].addr : j \in {k \in Entries : index[b1][k].ts = ts}} :
                             b1 \in UNION {k .. ChunkEnd(k) : k \in Searched(ts)}}
    BY DEF Found, Entries
  <2> QED
    BY <2>4, <2>5
<1>12. CASE b <= ChunkEnd(n)
  <2>1. b \in n .. ChunkEnd(n)
    BY <1>2, <1>3, <1>4, <1>10, <1>12
  <2> QED
    BY <1>1, <1>11, <2>1
<1>13. CASE ~(b <= ChunkEnd(n))
  <2>1. ChunkEnd(n) \in 0 .. b - 1 /\ ChunkEnd(n) \in n .. ChunkEnd(n) /\ ChunkEnd(n) \in IndexRange
    BY <1>2, <1>3, <1>10, <1>13, Sizes DEF IndexRange
  <2>2. LastOf(ChunkEnd(n)) <= ts /\ LastOf(ChunkEnd(n)) >= ts
    BY <1>1, <1>10, <2>1 DEF ChunkLast, LastOf
  <2>3. PerBlock - 1 \in Entries
    BY Sizes DEF Entries
  <2>4. index[ChunkEnd(n)][PerBlock - 1].ts \in Nat
    BY <2>1, <2>3, Ranges, CellOf
  <2>5. index[ChunkEnd(n)][PerBlock - 1].ts = ts
    BY <2>2, <2>4 DEF LastOf
  <2> QED
    BY <1>11, <2>1, <2>3, <2>5
<1> QED
  BY <1>12, <1>13

\* A second in the table in RAM is found when the table is searched.
LEMMA RamFinds ==
  ASSUME NEW ts, InTable(ts), \E i \in 0 .. item_index - 1 : item_tables[i].ts = ts
  PROVE  Found(ts) # {}
<1>1. PICK i \in 0 .. item_index - 1 : item_tables[i].ts = ts
  OBVIOUS
<1>2. item_tables[i].addr \in Found(ts)
  BY <1>1 DEF Found
<1> QED
  BY <1>2

\* So a second that is kept is found.
LEMMA FoundWhenKept ==
  ASSUME Own, InvFound, FirstLap, NEW ts \in kept
  PROVE  Found(ts) # {}
<1>0. Base /\ ts \in Nat /\ item_index \in Nat
  BY Ranges DEF Own, Mode, Base, InvHistory
<1>1. CASE InRam(ts)
  <2>1. PICK i \in 0 .. item_index - 1 : item_tables[i].ts = ts
    BY <1>1 DEF InRam
  <2>2. item_index > 0 /\ 0 \in 0 .. item_index - 1 /\ i \in 0 .. item_index - 1
        /\ item_index - 1 \in i .. item_index - 1 /\ i \in 0 .. item_index - 1
    BY <1>0, <2>1
  <2>3. item_tables[0].ts <= item_tables[i].ts /\ item_tables[i].ts <= item_tables[item_index - 1].ts
    BY <2>2 DEF Own, InvTable
  <2>4. InTable(ts)
    BY <2>1, <2>2, <2>3 DEF InTable
  <2> QED
    BY <2>1, <2>4, RamFinds
<1>2. CASE InIndex(ts, block_num) /\ Ahead(ts)
  <2>1. CASE InTable(ts)
    <3>1. item_index > 0 /\ item_tables[0].ts <= ts /\ ts <= item_tables[0].ts
      BY <1>2, <2>1 DEF InTable, Ahead
    <3>2. 0 \in 0 .. item_index - 1 /\ 0 \in Entries
      BY <1>0, <3>1, Sizes DEF Entries
    <3>3. item_tables[0].ts \in Nat
      BY <1>0, <3>2, Ranges, CellOf
    <3>4. item_tables[0].ts = ts
      BY <1>0, <3>1, <3>3
    <3> QED
      BY <2>1, <3>2, <3>4, RamFinds
  <2>2. CASE ~InTable(ts)
    BY <1>0, <1>2, <2>2, SearchFinds
  <2> QED
    BY <2>1, <2>2
<1> QED
  BY <1>1, <1>2 DEF InvFound

\* Until the ring is full, and as long as everything is regular, a second that no loss
\* of power took away is found by
\* Storage_Read_AdcData, in the table in RAM or in the first chunk of index blocks that
\* does not end before it, also after any number of starts and clears.
THEOREM KeptAreFound == Spec => []KeptFound
<1>1. Init => (regular => Own /\ InvFound)
  <2>1. Init => InvFound
    BY DEF Init, InvFound
  <2> QED
    BY <2>1, OwnInit
<1>2. (regular => Own /\ InvFound) /\ [Next]_vars => (regular => Own /\ InvFound)'
  BY OwnKept, FoundStep, RegularStep, StaysIrregular
<1>3. (regular => Own /\ InvFound) => KeptFound
  BY FoundWhenKept DEF KeptFound
<1> QED
  BY <1>1, <1>2, <1>3, PTL DEF Spec

----------------------------------------------------------------------------
(* 7. What was cleared is gone.                                            *)

\* The entries of the first n index blocks are later than second g.
LaterThan(n, g) == \A b \in 0 .. n - 1 : b < IndexBlocks => \A i \in Entries : index[b][i].ts > g
\* What a device that samples holds is later than the last clear that was saved;
GoneNow ==
  Sampling /\ ~torn =>
    /\ LaterThan(block_num, gone) /\ \A t \in kept : t > gone
    /\ \A i \in 0 .. item_index - 1 : item_tables[i].ts > gone
\* so is what it takes at the next start;
GoneSaved ==
  ~torn /\ mark = gone /\ saved.flag # "NONE" =>
    LaterThan(saved.block_num, gone) /\ \A t \in durable : t > gone
\* when nothing was stored since the clear, there are no blocks and the last second is
\* none of those kept;
NothingSince ==
  /\ gone = now /\ saved.flag # "NONE" => saved.block_num = 0 /\ now \notin durable
  /\ mark = now /\ ~Sampling /\ config.flag # "NONE" => config.block_num = 0 /\ now \notin kept
  /\ gone = now /\ Sampling => config.block_num = 0 /\ now \notin kept
\* and the position in a configuration that was cleared stays 0 until the next start,
\* unless a block is completed meanwhile (torn).
Emptied == ~Sampling /\ ~torn /\ config.flag # "NONE" => config.block_num = 0 /\ completed = {}
\* Together.
InvGone == GoneNow /\ GoneSaved /\ NothingSince /\ Emptied

\* The invariant of this section and the ones before.
All == Own /\ InvGone

\* The two configurations a clear leaves.
LEMMA Flags ==
  /\ Cleared.flag = "FIRST_ON" /\ Erased.flag = "NONE"
  /\ Cleared.block_num = 0 /\ Erased.block_num = 0
  BY DEF Cleared, Erased

\* What a start with a saved configuration takes from it.
LEMMA Starts ==
  ASSUME Base, StartFrom(saved)
  PROVE  /\ saved.flag # "NONE" =>
              /\ saved' = saved /\ durable' = durable /\ config'.flag = "NEXT_ON"
              /\ block_num' = saved.block_num /\ config'.block_num = saved.block_num
              /\ curr_block' = saved.curr_block
              /\ str_time' = saved.str_time /\ end_time' = saved.end_time
         /\ saved.flag = "NONE" =>
              saved' = Cleared /\ config' = Cleared /\ durable' = {}
         /\ kept' = durable' /\ completed' = durable' /\ item_index' = 0 /\ clearing' = FALSE
         /\ UNCHANGED <<index, data, now, mark, gone>>
         /\ ~torn' => ~torn /\ mark = gone
<1>1. ~torn' => ~torn /\ ~(mark > gone)
  BY DEF StartFrom
<1>2. ~(mark > gone) => mark = gone
  BY DEF Base, InvMarks, InvData
<1>3. CASE saved.flag = "NONE"
  BY <1>1, <1>2, <1>3 DEF StartFrom, BootConfig, emmc
<1>4. CASE saved.flag # "NONE"
  <2>1. config' = [saved EXCEPT !.flag = "NEXT_ON"] /\ saved' = saved
    BY <1>4 DEF StartFrom, BootConfig
  <2>2. /\ config'.flag = "NEXT_ON" /\ config'.block_num = saved.block_num
        /\ config'.curr_block = saved.curr_block /\ config'.str_time = saved.str_time
        /\ config'.end_time = saved.end_time
    BY <2>1, Ranges DEF Fields
  <2> QED
    BY <1>1, <1>2, <1>4, <2>1, <2>2 DEF StartFrom, emmc
<1> QED
  BY <1>3, <1>4

\* Every operation keeps each of the four.
LEMMA NothingSinceStep == All /\ [Steady]_state => NothingSince'
<1> SUFFICES ASSUME All, [Steady]_state PROVE NothingSince'
  OBVIOUS
<1>0. /\ NothingSince /\ Base /\ Mode /\ now \in Nat /\ mark \in 0..now /\ gone \in 0..mark
      /\ completed \subseteq kept /\ (clearing => ~Sampling)
  BY DEF All, InvGone, Own, Mode, Base, InvData, InvMarks, InvHistory, IInv, InvClear
<1>1. CASE StoreRight
  <2>1. Stores /\ (Appends \/ Fills)
    BY <1>0, <1>1, StoreCases
  <2>2. UNCHANGED <<saved, durable, mark, gone>> /\ now' \in Nat
    BY <2>1 DEF Stores
  <2>3. mark = now' \/ gone = now' => now' = now /\ now \in kept /\ (mark = now \/ gone = now)
    BY <1>0, <2>1 DEF Stores
  <2>4. Sampling' <=> Sampling
    BY <1>0, <2>1, Stays
  <2>5. config'.flag = config.flag
    BY <1>0, <2>1, Ranges DEF Appends, Fills, Fields
  <2>6. gone = now' /\ saved.flag # "NONE" => saved.block_num = 0 /\ now' \notin durable
    BY <1>0, <2>3 DEF NothingSince
  <2>7. ~(mark = now' /\ ~Sampling /\ config.flag # "NONE") /\ ~(gone = now' /\ Sampling)
    BY <1>0, <2>3 DEF NothingSince
  <2> QED
    BY <2>2, <2>4, <2>5, <2>6, <2>7 DEF NothingSince
<1>2. CASE Saves
  <2>1. /\ saved' = config /\ durable' = completed /\ UNCHANGED <<config, now, mark, kept>>
        /\ gone' = (IF Sampling THEN gone ELSE mark)
    BY <1>2 DEF Saves, Whole
  <2>2. Sampling' <=> Sampling
    BY <2>1 DEF Sampling
  <2> QED
    BY <1>0, <2>1, <2>2 DEF NothingSince
<1>3. CASE ClearConfigFirst
  <2>1. /\ config' = Cleared /\ kept' = {} /\ durable' = {} /\ UNCHANGED <<saved, now, gone>>
    BY <1>3 DEF ClearConfigFirst, Reset, Forget
  <2>2. ~Sampling'
    BY <2>1, Flags DEF Sampling
  <2> QED
    BY <1>0, <2>1, <2>2, Flags DEF NothingSince
<1>4. CASE ClearThenObject
  <2>1. /\ kept' = {} /\ durable' = {} /\ UNCHANGED <<config, saved, now, gone, mark>>
        /\ ~Sampling /\ ~Sampling'
    BY <1>0, <1>4 DEF ClearThenObject, Forget, clears, Sampling
  <2> QED
    BY <1>0, <2>1 DEF NothingSince
<1>5. CASE kt_ClearConfig
  <2>1. /\ config' = Erased /\ UNCHANGED <<saved, now, gone, durable>>
    BY <1>5 DEF kt_ClearConfig, history
  <2> QED
    BY <1>0, <2>1, Flags DEF NothingSince, Sampling
<1>6. CASE StartFrom(saved)
  BY <1>0, <1>6, Starts, Flags DEF NothingSince, Sampling
<1>7. CASE UNCHANGED state
  BY <1>0, <1>7 DEF state, history, clears, NothingSince, Sampling
<1> QED
  BY <1>1, <1>2, <1>3, <1>4, <1>5, <1>6, <1>7 DEF Steady

LEMMA EmptiedStep == All /\ [Steady]_state => Emptied'
<1> SUFFICES ASSUME All, [Steady]_state PROVE Emptied'
  OBVIOUS
<1>0. Emptied /\ Base
  BY DEF All, InvGone, Own, Mode
<1>1. CASE StoreRight
  <2>1. Stores /\ (Appends \/ Fills)
    BY <1>0, <1>1, StoreCases
  <2>2. Sampling' <=> Sampling
    BY <1>0, <2>1, Stays
  <2>3. CASE Appends
    BY <1>0, <2>2, <2>3 DEF Appends, Emptied
  <2>4. CASE Fills
    BY <2>2, <2>4 DEF Fills, Emptied
  <2> QED
    BY <2>1, <2>3, <2>4
<1>2. CASE Saves
  BY <1>0, <1>2 DEF Saves, Whole, Emptied, Sampling
<1>3. CASE ClearConfigFirst
  BY <1>3, Flags DEF ClearConfigFirst, Reset, Forget, Emptied
<1>4. CASE ClearThenObject
  BY <1>0, <1>4 DEF ClearThenObject, Forget, clears, Emptied, Sampling
<1>5. CASE kt_ClearConfig
  BY <1>5, Flags DEF kt_ClearConfig, Emptied
<1>6. CASE StartFrom(saved)
  BY <1>0, <1>6, Starts, Flags DEF Emptied, Sampling
<1>7. CASE UNCHANGED state
  BY <1>0, <1>7 DEF state, history, clears, Emptied, Sampling
<1> QED
  BY <1>1, <1>2, <1>3, <1>4, <1>5, <1>6, <1>7 DEF Steady

\* A second stored since the clear is later than it, and so are those in the table.
LEMMA WrittenLater ==
  ASSUME All, Stores, Sampling, ~torn
  PROVE  /\ now' > gone /\ \A t \in kept' : t > gone
         /\ \A i \in 0 .. item_index : Written[i].ts > gone
<1>0. Base /\ now \in Nat /\ gone \in Nat /\ gone <= now
  BY Ranges DEF All, Own, Mode, Base, InvMarks
<1>1. /\ \A t \in kept : t > gone
      /\ \A i \in 0 .. item_index - 1 : item_tables[i].ts > gone
  BY DEF All, InvGone, GoneNow
<1>2. now' > gone
  BY <1>0, <1>1 DEF Stores
<1>3. \A t \in kept' : t > gone
  BY <1>1, <1>2 DEF Stores
<1>4. ASSUME NEW i \in 0 .. item_index PROVE Written[i].ts > gone
  <2>1. item_index \in Nat /\ i \in Entries
    BY <1>0, Ranges, Sizes DEF Entries
  <2>2. CASE i = item_index
    BY <1>0, <1>2, <2>2, WrittenTable
  <2>3. CASE i # item_index
    <3>1. i \in 0 .. item_index - 1 /\ Written[i] = item_tables[i]
      BY <1>0, <2>1, <2>3, WrittenTable
    <3> QED
      BY <1>1, <3>1
  <2> QED
    BY <2>2, <2>3
<1> QED
  BY <1>2, <1>3, <1>4

\* Blocks stay later than a clear when a later table is added to them.
LEMMA LaterGrows ==
  ASSUME All, Stores, Fills, Sampling, ~torn, NEW n \in Nat, NEW m \in Nat, NEW g, g = gone,
         LaterThan(n, g), \A b \in 0 .. m - 1 : b < IndexBlocks => b < n \/ b = curr_block
  PROVE  LaterThan(m, g)'
<1>0. Base
  BY DEF All, Own, Mode
<1>1. SUFFICES ASSUME NEW b \in 0 .. m - 1, b < IndexBlocks, NEW i \in Entries
               PROVE  index'[b][i].ts > g
  BY DEF LaterThan
<1>2. b \in IndexRange
  BY <1>1, Sizes DEF IndexRange
<1>3. index'[b] = IF b = curr_block THEN Written ELSE index[b]
  BY <1>0, <1>2, Ranges DEF Fills
<1>4. CASE b = curr_block
  <2>1. i \in 0 .. item_index
    BY <1>0, Ranges, Sizes DEF Fills, Entries
  <2> QED
    BY <1>3, <1>4, <2>1, WrittenLater
<1>5. CASE b # curr_block
  <2>1. b \in 0 .. n - 1
    BY <1>1, <1>5
  <2> QED
    BY <1>1, <1>3, <1>5, <2>1 DEF LaterThan
<1> QED
  BY <1>4, <1>5

LEMMA GoneStep == All /\ [Steady]_state => GoneNow' /\ GoneSaved'
<1> SUFFICES ASSUME All, [Steady]_state PROVE GoneNow' /\ GoneSaved'
  OBVIOUS
<1>0. /\ GoneNow /\ GoneSaved /\ NothingSince /\ Emptied /\ Base /\ Mode
      /\ now \in Nat /\ mark \in 0..now /\ gone \in 0..mark
      /\ completed \subseteq kept /\ (clearing => ~Sampling)
  BY DEF All, InvGone, Own, Mode, Base, InvData, InvMarks, InvHistory, IInv, InvClear
<1>a. PICK g, n, s : g = gone /\ n = block_num /\ s = saved.block_num
  OBVIOUS
<1>1. CASE StoreRight
  <2>1. Stores /\ (Appends \/ Fills)
    BY <1>0, <1>1, StoreCases
  <2>2. UNCHANGED <<saved, durable, mark, gone>>
    BY <2>1 DEF Stores
  <2>3. Sampling' <=> Sampling
    BY <1>0, <2>1, Stays
  <2>4. CASE Appends
    <3>1. /\ UNCHANGED <<index, block_num>> /\ item_index' = item_index + 1 /\ item_tables' = Written
          /\ ~torn' => ~torn
      BY <2>4 DEF Appends
    <3>2. GoneSaved'
      BY <1>0, <2>2, <3>1 DEF GoneSaved, LaterThan
    <3>3. GoneNow'
      <4>1. SUFFICES ASSUME Sampling, ~torn
                     PROVE  /\ LaterThan(block_num, gone)
                            /\ \A t \in kept' : t > gone
                            /\ \A i \in 0 .. item_index' - 1 : Written[i].ts > gone
        BY <2>2, <2>3, <3>1 DEF GoneNow, LaterThan
      <4>2. item_index' - 1 = item_index
        BY <1>0, <3>1, Ranges
      <4> QED
        BY <1>0, <2>1, <4>1, <4>2, WrittenLater DEF GoneNow
    <3> QED
      BY <3>2, <3>3
  <2>5. CASE Fills
    <3>1. item_index' = 0 /\ (~torn' => ~torn /\ Sampling)
      BY <2>5 DEF Fills
    <3>2. CASE torn'
      BY <3>2 DEF GoneNow, GoneSaved
    <3>3. CASE ~torn'
      <4>1. ~torn /\ Sampling
        BY <3>1, <3>3
      <4>2. LaterThan(n, g) /\ n \in Nat
        BY <1>0, <1>a, <4>1, Ranges DEF GoneNow
      <4>3. PICK m : m = block_num'
        OBVIOUS
      <4>4. m \in Nat /\ \A b \in 0 .. m - 1 : b < IndexBlocks => b < n \/ b = curr_block
        BY <1>0, <1>a, <2>5, <4>3, Ranges, Sizes DEF Base, InvPos, Fills
      <4>5. LaterThan(m, g)'
        BY <1>a, <2>1, <2>5, <4>1, <4>2, <4>4, LaterGrows
      <4>6. GoneNow'
        BY <1>a, <2>1, <2>2, <3>1, <4>1, <4>3, <4>5, WrittenLater DEF GoneNow, LaterThan
      <4>7. GoneSaved'
        <5>1. SUFFICES ASSUME mark = gone, saved.flag # "NONE"
                       PROVE  LaterThan(s, g)' /\ \A t \in durable : t > gone
          BY <1>a, <2>2, <3>3 DEF GoneSaved, LaterThan
        <5>2. LaterThan(s, g) /\ \A t \in durable : t > gone
          BY <1>0, <1>a, <4>1, <5>1 DEF GoneSaved
        <5>3. s \in Nat
          BY <1>0, <1>a, FirstLapPos
        <5>4. \A b \in 0 .. s - 1 : b < IndexBlocks => b < s \/ b = curr_block
          BY <5>3
        <5> QED
          BY <1>a, <2>1, <2>5, <4>1, <5>2, <5>3, <5>4, LaterGrows
      <4> QED
        BY <4>6, <4>7
    <3> QED
      BY <3>2, <3>3
  <2> QED
    BY <2>1, <2>4, <2>5
<1>2. CASE Saves
  <2>1. /\ saved' = config /\ durable' = completed /\ config' = config
        /\ UNCHANGED <<index, block_num, item_index, item_tables, kept, now, mark, torn>>
        /\ gone' = (IF Sampling THEN gone ELSE mark)
    BY <1>2 DEF Saves, Whole, object, emmc
  <2>2. Sampling' <=> Sampling
    BY <2>1 DEF Sampling
  <2>3. CASE Sampling
    <3>1. gone' = gone /\ config.block_num = block_num
      BY <1>0, <2>1, <2>3 DEF Mode, InvConfig, SamePos
    <3>2. GoneNow'
      BY <1>0, <2>1, <2>2, <3>1 DEF GoneNow, LaterThan
    <3>3. ~torn => LaterThan(n, g) /\ \A t \in completed : t > gone
      BY <1>0, <1>a, <2>3 DEF GoneNow
    <3>4. saved'.block_num = n /\ gone' = g
      BY <1>a, <2>1, <3>1
    <3>5. ~torn => LaterThan(n, g)'
      BY <2>1, <3>3 DEF LaterThan
    <3>6. GoneSaved'
      BY <1>a, <2>1, <3>3, <3>4, <3>5 DEF GoneSaved, LaterThan
    <3> QED
      BY <3>2, <3>6
  <2>4. CASE ~Sampling
    <3>1. ~torn /\ config.flag # "NONE" => config.block_num = 0 /\ completed = {}
      BY <1>0, <2>4 DEF Emptied
    <3>2. \A b : b \notin 0 .. 0 - 1
      OBVIOUS
    <3>3. GoneSaved'
      BY <2>1, <3>1, <3>2 DEF GoneSaved, LaterThan
    <3> QED
      BY <2>2, <2>4, <3>3 DEF GoneNow
  <2> QED
    BY <2>3, <2>4
<1>3. CASE ClearConfigFirst
  <2>1. /\ config' = Cleared /\ durable' = {} /\ UNCHANGED <<saved, gone>> /\ mark' = now
    BY <1>3 DEF ClearConfigFirst, Reset, Forget
  <2>2. ~Sampling'
    BY <2>1, Flags DEF Sampling
  <2>3. mark' = gone /\ saved.flag # "NONE" => saved.block_num = 0
    BY <1>0, <2>1 DEF NothingSince
  <2>4. \A b : b \notin 0 .. 0 - 1
    OBVIOUS
  <2>5. GoneSaved'
    BY <2>1, <2>3, <2>4 DEF GoneSaved, LaterThan
  <2> QED
    BY <2>2, <2>5 DEF GoneNow
<1>4. CASE ClearThenObject
  <2>1. /\ durable' = {} /\ UNCHANGED <<config, saved, gone, mark, torn, index>>
        /\ ~Sampling /\ ~Sampling'
    BY <1>0, <1>4 DEF ClearThenObject, Forget, clears, Sampling, emmc
  <2>2. GoneSaved'
    BY <1>0, <2>1 DEF GoneSaved, LaterThan
  <2> QED
    BY <2>1, <2>2 DEF GoneNow
<1>5. CASE kt_ClearConfig
  <2>1. /\ config' = Erased /\ UNCHANGED <<saved, gone, durable, torn, index>> /\ mark' = now
    BY <1>5 DEF kt_ClearConfig, history, emmc
  <2>2. ~Sampling'
    BY <2>1, Flags DEF Sampling
  <2>3. mark' = gone => mark = gone
    BY <1>0, <2>1
  <2>4. GoneSaved'
    BY <1>0, <2>1, <2>3 DEF GoneSaved, LaterThan
  <2> QED
    BY <2>2, <2>4 DEF GoneNow
<1>6. CASE StartFrom(saved)
  <2>1. CASE saved.flag = "NONE"
    <3>1. saved' = Cleared /\ config' = Cleared /\ durable' = {}
      BY <1>0, <1>6, <2>1, Starts
    <3>2. ~Sampling' /\ saved'.block_num = 0
      BY <3>1, Flags DEF Sampling
    <3>3. \A b : b \notin 0 .. 0 - 1
      OBVIOUS
    <3>4. GoneSaved'
      BY <3>1, <3>2, <3>3 DEF GoneSaved, LaterThan
    <3> QED
      BY <3>2, <3>4 DEF GoneNow
  <2>2. CASE saved.flag # "NONE"
    <3>1. /\ saved' = saved /\ durable' = durable /\ kept' = durable /\ block_num' = s
          /\ item_index' = 0 /\ UNCHANGED <<index, mark, gone>> /\ (~torn' => ~torn /\ mark = gone)
      BY <1>0, <1>a, <1>6, <2>2, Starts
    <3>2. ~torn' => LaterThan(s, g) /\ \A t \in durable : t > gone
      BY <1>0, <1>a, <2>2, <3>1 DEF GoneSaved
    <3>3. ~torn' => LaterThan(s, g)'
      BY <3>1, <3>2 DEF LaterThan
    <3>4. GoneNow'
      BY <1>a, <3>1, <3>2, <3>3 DEF GoneNow, LaterThan
    <3>5. GoneSaved'
      BY <1>a, <3>1, <3>2, <3>3 DEF GoneSaved, LaterThan
    <3> QED
      BY <3>4, <3>5
  <2> QED
    BY <2>1, <2>2
<1>7. CASE UNCHANGED state
  BY <1>0, <1>7 DEF state, object, emmc, history, clears, GoneNow, GoneSaved, LaterThan, Sampling
<1> QED
  BY <1>1, <1>2, <1>3, <1>4, <1>5, <1>6, <1>7 DEF Steady

LEMMA GoneInit == Init => InvGone
<1> SUFFICES ASSUME Init PROVE InvGone
  OBVIOUS
<1>1. /\ saved = Cleared /\ config.flag = "NEXT_ON" /\ config.block_num = 0 /\ block_num = 0
      /\ item_index = 0 /\ kept = {} /\ durable = {} /\ completed = {}
  BY Flags DEF Init, Cleared, Erased
<1>2. \A b : b \notin 0 .. 0 - 1
  OBVIOUS
<1> QED
  BY <1>1, <1>2, Flags
  DEF InvGone, GoneNow, GoneSaved, NothingSince, Emptied, LaterThan, Sampling

LEMMA AllKept == All /\ [Steady]_state => All'
<1> SUFFICES ASSUME All, [Steady]_state PROVE All'
  OBVIOUS
<1>1. Own'
  BY OwnKept DEF All
<1> QED
  BY <1>1, NothingSinceStep, EmptiedStep, GoneStep DEF All, InvGone

\* After kt_ClearData and the save behind it nothing from before the clear is found, by
\* a device that samples again; but a clear cut short by a loss of power or by a table
\* that fills while it is under way does not count, nor does what is not regular.
THEOREM ClearedIsGone == Spec => []ClearedGone
<1>1. Init => (regular => All)
  BY OwnInit, GoneInit DEF All
<1>2. (regular => All) /\ [Next]_vars => (regular => All)'
  BY AllKept, RegularStep, StaysIrregular
<1>3. (regular => All) => ClearedGone
  <2> SUFFICES ASSUME All, Sampling, ~torn, NEW ts \in 1..gone, NEW a \in Found(ts)
               PROVE  FALSE
    BY DEF ClearedGone
  <2>0. /\ Base /\ InvPast /\ gone \in Nat /\ now \in Nat
        /\ LaterThan(block_num, gone) /\ \A i \in 0 .. item_index - 1 : item_tables[i].ts > gone
    BY Ranges DEF All, Own, Mode, Base, InvMarks, InvGone, GoneNow
  <2>1. CASE \E i \in 0 .. item_index - 1 : item_tables[i].ts = ts /\ item_tables[i].addr = a
    BY <2>0, <2>1
  <2>2. CASE \E b \in 0 .. block_num - 1 : \E i \in Entries : index[b][i].ts = ts /\ index[b][i].addr = a
    <3>1. PICK b \in 0 .. block_num - 1 : \E i \in Entries : index[b][i].ts = ts /\ index[b][i].addr = a
      BY <2>2
    <3>2. PICK i \in Entries : index[b][i].ts = ts
      BY <3>1
    <3>3. CASE b < IndexBlocks
      <4>1. index[b][i].ts > gone
        BY <2>0, <3>3 DEF LaterThan
      <4> QED
        BY <2>0, <3>2, <4>1
    <3>4. CASE ~(b < IndexBlocks)
      <4>1. b \in IndexBlocks .. 2 * IndexBlocks
        BY <2>0, <3>4, Ranges, Sizes DEF Base, InvPos
      <4>2. index[b][i].ts = 0
        BY <2>0, <4>1, BlankTable DEF InvPast
      <4> QED
        BY <3>2, <4>2
    <3> QED
      BY <3>3, <3>4
  <2> QED
    BY <2>0, <2>1, <2>2, FoundEntries
<1> QED
  BY <1>1, <1>2, <1>3, PTL DEF Spec

----------------------------------------------------------------------------
(* 8. The times of the recording.                                          *)

\* The least and the greatest second of a set.
FirstOf(t, S) == t \in S /\ \A s \in S : t <= s
LastIn(t, S) == t \in S /\ \A s \in S : s <= t
\* The table in RAM is not earlier than the full blocks.
InOrder == \A s \in completed : \A t \in kept \ completed : s <= t
\* In the first lap of a device that samples the table in RAM has the seconds kept that
\* are in no full block, and the times of the object are those of the full ones,
TimesNow ==
  Sampling /\ ~torn /\ FirstLap =>
    /\ \A i \in 0 .. item_index - 1 : item_tables[i].ts \in kept
    /\ \A t \in kept \ completed : \E i \in 0 .. item_index - 1 : item_tables[i].ts = t
    /\ IF block_num = 0 THEN completed = {}
       ELSE FirstOf(str_time, completed) /\ LastIn(end_time, completed)
\* and the times in the saved configuration those of the saved ones,
TimesSaved ==
  ~torn /\ mark = gone /\ saved.flag # "NONE" /\ saved.block_num < IndexBlocks =>
    IF saved.block_num = 0 THEN durable = {}
    ELSE FirstOf(saved.str_time, durable) /\ LastIn(saved.end_time, durable)
\* where a saved clear has none.
ClearUnsaved == clearing /\ ~torn /\ mark = gone /\ saved.flag # "NONE" => saved.block_num = 0
\* Together.
InvTimes == InOrder /\ TimesNow /\ TimesSaved /\ ClearUnsaved

\* The first second of a lap's first table is the first one that is kept.
LEMMA TimesFill ==
  ASSUME All, InvTimes, Stores, Fills, Sampling, ~torn, FirstLap'
  PROVE  /\ FirstLap /\ block_num' # 0
         /\ FirstOf(str_time', kept') /\ LastIn(end_time', kept')
<1>0. /\ Base /\ now \in Nat /\ now' \in Nat /\ now <= now' /\ kept' = kept \cup {now'}
      /\ completed \subseteq kept /\ kept \subseteq 1..now
  BY NewSecond, Ranges DEF All, Own, Mode, Base, InvHistory, Stores
<1>1. FirstLap /\ block_num' = block_num + 1 /\ block_num = curr_block /\ block_num \in Nat /\ ~Lap
  BY <1>0, Ranges, Sizes DEF Base, InvPos, FirstLap, Fills, Lap
<1>2. /\ str_time' = (IF curr_block = 0 THEN Written[0].ts ELSE str_time)
      /\ end_time' = Written[PerBlock - 1].ts
  BY <1>1 DEF Fills, StartTime
<1>3. item_index = PerBlock - 1 /\ item_index > 0 /\ item_index \in Nat
  BY <1>0, Ranges, Sizes DEF Fills
<1>4. Written[item_index].ts = now'
  BY <1>0, WrittenTable
<1>5. end_time' = now' /\ \A t \in kept' : t <= now'
  BY <1>0, <1>2, <1>3, <1>4
<1>6. /\ \A i \in 0 .. item_index - 1 : item_tables[i].ts \in kept
      /\ \A t \in kept \ completed : \E i \in 0 .. item_index - 1 : item_tables[i].ts = t
      /\ IF block_num = 0 THEN completed = {} ELSE FirstOf(str_time, completed)
  BY <1>1 DEF InvTimes, TimesNow
<1>7. FirstOf(str_time', kept')
  <2>1. CASE curr_block = 0
    <3>1. completed = {}
      BY <1>1, <1>6, <2>1
    <3>2. 0 \in 0 .. item_index - 1 /\ 0 \in Entries /\ 0 # item_index
      BY <1>3, Sizes DEF Entries
    <3>3. Written[0] = item_tables[0]
      BY <1>0, <3>2, WrittenTable
    <3>4. item_tables[0].ts \in kept
      BY <1>6, <3>2
    <3>5. ASSUME NEW t \in kept PROVE item_tables[0].ts <= t
      <4>1. PICK i \in 0 .. item_index - 1 : item_tables[i].ts = t
        BY <1>6, <3>1, <3>5
      <4> QED
        BY <3>2, <4>1 DEF All, Own, InvTable
    <3>6. item_tables[0].ts <= now'
      <4>1. PICK t \in 1..now : t = item_tables[0].ts
        BY <1>0, <3>4
      <4>2. t <= now'
        BY <1>0
      <4> QED
        BY <4>1, <4>2
    <3>7. str_time' = item_tables[0].ts
      BY <1>2, <2>1, <3>3
    <3> QED
      BY <1>0, <3>4, <3>5, <3>6, <3>7 DEF FirstOf
  <2>2. CASE curr_block # 0
    <3>1. str_time' = str_time /\ FirstOf(str_time, completed)
      BY <1>1, <1>2, <1>6, <2>2
    <3>2. \A t \in kept \ completed : str_time <= t
      BY <3>1 DEF InvTimes, InOrder, FirstOf
    <3>3. str_time \in kept /\ str_time <= now'
      BY <1>0, <3>1 DEF FirstOf
    <3> QED
      BY <1>0, <3>1, <3>2, <3>3 DEF FirstOf
  <2> QED
    BY <2>1, <2>2
<1>8. LastIn(end_time', kept')
  BY <1>0, <1>5 DEF LastIn
<1> QED
  BY <1>1, <1>7, <1>8

\* Every operation keeps the times.
LEMMA TimesStep == All /\ InvTimes /\ [Steady]_state => InvTimes'
<1> SUFFICES ASSUME All, InvTimes, [Steady]_state PROVE InvTimes'
  OBVIOUS
<1>0. /\ InOrder /\ TimesNow /\ TimesSaved /\ ClearUnsaved
      /\ NothingSince /\ Emptied /\ Base /\ Mode
      /\ now \in Nat /\ mark \in 0..now /\ gone \in 0..mark
      /\ completed \subseteq kept /\ kept \subseteq 1..now /\ (clearing => ~Sampling)
  BY DEF All, InvTimes, InvGone, Own, Mode, Base, InvData, InvMarks, InvHistory, IInv, InvClear
<1>1. CASE StoreRight
  <2>1. Stores /\ (Appends \/ Fills)
    BY <1>0, <1>1, StoreCases
  <2>2. UNCHANGED <<saved, durable, mark, gone, clearing>> /\ kept' = kept \cup {now'}
    BY <2>1 DEF Stores
  <2>3. Sampling' <=> Sampling
    BY <1>0, <2>1, Stays
  <2>4. ~torn' => ~torn
    BY <2>1 DEF Appends, Fills
  <2>5. TimesSaved' /\ ClearUnsaved'
    BY <1>0, <2>2, <2>4 DEF TimesSaved, ClearUnsaved, FirstOf, LastIn
  <2>6. CASE Appends
    <3>1. /\ UNCHANGED <<block_num, completed, str_time, end_time>>
          /\ item_index' = item_index + 1 /\ item_tables' = Written
      BY <2>6 DEF Appends
    <3>2. now' \in Nat /\ now <= now'
      BY <1>0, <2>1, NewSecond
    <3>3. InOrder'
      BY <1>0, <2>2, <3>1, <3>2 DEF InOrder
    <3>4. TimesNow'
      <4>1. SUFFICES ASSUME Sampling, ~torn, FirstLap
                     PROVE  /\ \A i \in 0 .. item_index' - 1 : Written[i].ts \in kept'
                            /\ \A t \in kept' \ completed :
                                 \E i \in 0 .. item_index' - 1 : Written[i].ts = t
                            /\ IF block_num = 0 THEN completed = {}
                               ELSE FirstOf(str_time, completed) /\ LastIn(end_time, completed)
        BY <2>3, <2>4, <3>1 DEF TimesNow, FirstLap, FirstOf, LastIn
      <4>2. item_index' - 1 = item_index /\ item_index \in Nat
        BY <1>0, <3>1, Ranges
      <4>3. /\ Written[item_index].ts = now'
            /\ \A i \in 0 .. item_index - 1 : Written[i] = item_tables[i]
        <5>1. \A i \in 0 .. item_index - 1 : i \in Entries /\ i # item_index
          BY <1>0, Ranges, Sizes DEF Entries
        <5> QED
          BY <1>0, <2>1, <5>1, WrittenTable
      <4>4. ASSUME NEW i \in 0 .. item_index PROVE Written[i].ts \in kept'
        <5>1. i = item_index \/ i \in 0 .. item_index - 1
          BY <4>2
        <5> QED
          BY <1>0, <2>2, <4>1, <4>3, <5>1 DEF TimesNow
      <4>5. ASSUME NEW t \in kept' \ completed PROVE \E i \in 0 .. item_index : Written[i].ts = t
        <5>1. CASE t = now'
          BY <4>2, <4>3, <5>1
        <5>2. CASE t # now'
          <6>1. t \in kept \ completed
            BY <2>2, <4>5, <5>2
          <6>2. PICK i \in 0 .. item_index - 1 : item_tables[i].ts = t
            BY <1>0, <4>1, <6>1 DEF TimesNow
          <6>3. i \in 0 .. item_index /\ Written[i].ts = t
            BY <4>2, <4>3, <6>2
          <6> QED
            BY <6>3
        <5> QED
          BY <5>1, <5>2
      <4>6. IF block_num = 0 THEN completed = {}
            ELSE FirstOf(str_time, completed) /\ LastIn(end_time, completed)
        BY <1>0, <4>1 DEF TimesNow
      <4> QED
        BY <4>2, <4>4, <4>5, <4>6
    <3> QED
      BY <2>5, <3>3, <3>4 DEF InvTimes
  <2>7. CASE Fills
    <3>1. completed' = kept' /\ item_index' = 0 /\ (~torn' => ~torn /\ Sampling)
      BY <2>7 DEF Fills
    <3>2. InOrder'
      BY <3>1 DEF InOrder
    <3>3. TimesNow'
      <4>1. SUFFICES ASSUME ~torn', FirstLap'
                     PROVE  block_num' # 0 /\ FirstOf(str_time', completed') /\ LastIn(end_time', completed')
        BY <3>1 DEF TimesNow, FirstOf, LastIn
      <4> QED
        BY <2>1, <2>7, <3>1, <4>1, TimesFill
    <3> QED
      BY <2>5, <3>2, <3>3 DEF InvTimes
  <2> QED
    BY <2>1, <2>6, <2>7
<1>2. CASE Saves
  <2>1. /\ saved' = config /\ durable' = completed /\ config' = config /\ completed' = completed
        /\ UNCHANGED <<block_num, item_index, item_tables, kept, now, mark, torn, str_time, end_time, clearing>>
        /\ gone' = (IF Sampling THEN gone ELSE mark)
    BY <1>2 DEF Saves, Whole, object
  <2>2. Sampling' <=> Sampling
    BY <2>1 DEF Sampling
  <2>3. InOrder' /\ TimesNow'
    BY <1>0, <2>1, <2>2 DEF InOrder, TimesNow, FirstLap, FirstOf, LastIn
  <2>4. CASE Sampling
    <3>1. /\ config.block_num = block_num /\ config.str_time = str_time /\ config.end_time = end_time
          /\ ~clearing
      BY <1>0, <2>4 DEF Mode, InvConfig, SamePos
    <3>2. ClearUnsaved'
      BY <2>1, <3>1 DEF ClearUnsaved
    <3>3. TimesSaved'
      BY <1>0, <2>1, <2>4, <3>1 DEF TimesNow, TimesSaved, FirstOf, LastIn, FirstLap
    <3> QED
      BY <2>3, <3>2, <3>3 DEF InvTimes
  <2>5. CASE ~Sampling
    <3>1. ~torn /\ config.flag # "NONE" => config.block_num = 0 /\ completed = {}
      BY <1>0, <2>5 DEF Emptied
    <3>2. ClearUnsaved' /\ TimesSaved'
      BY <2>1, <3>1 DEF ClearUnsaved, TimesSaved
    <3> QED
      BY <2>3, <3>2 DEF InvTimes
  <2> QED
    BY <2>4, <2>5
<1>3. CASE ClearConfigFirst
  <2>1. /\ config' = Cleared /\ kept' = {} /\ completed' = {} /\ durable' = {}
        /\ UNCHANGED <<saved, gone>> /\ mark' = now
    BY <1>3 DEF ClearConfigFirst, Reset, Forget
  <2>2. ~Sampling'
    BY <2>1, Flags DEF Sampling
  <2>3. mark' = gone /\ saved.flag # "NONE" => saved.block_num = 0
    BY <1>0, <2>1 DEF NothingSince
  <2> QED
    BY <2>1, <2>2, <2>3 DEF InvTimes, InOrder, TimesNow, TimesSaved, ClearUnsaved
<1>4. CASE ClearThenObject
  <2>1. /\ kept' = {} /\ completed' = {} /\ durable' = {} /\ UNCHANGED <<config, saved, gone, mark, torn>>
        /\ ~Sampling /\ ~Sampling' /\ clearing /\ ~clearing'
    BY <1>0, <1>4 DEF ClearThenObject, Forget, clears, Sampling
  <2>2. ~torn /\ mark = gone /\ saved.flag # "NONE" => saved.block_num = 0
    BY <1>0, <2>1 DEF ClearUnsaved
  <2> QED
    BY <2>1, <2>2 DEF InvTimes, InOrder, TimesNow, TimesSaved, ClearUnsaved
<1>5. CASE kt_ClearConfig
  <2>1. /\ config' = Erased /\ UNCHANGED <<saved, gone, durable, kept, completed, torn, clearing>>
        /\ mark' = now /\ ~clearing
    BY <1>5 DEF kt_ClearConfig, history
  <2>2. ~Sampling'
    BY <2>1, Flags DEF Sampling
  <2>3. mark' = gone => mark = gone
    BY <1>0, <2>1
  <2> QED
    BY <1>0, <2>1, <2>2, <2>3
    DEF InvTimes, InOrder, TimesNow, TimesSaved, ClearUnsaved, FirstOf, LastIn
<1>6. CASE StartFrom(saved)
  <2>1. /\ kept' = durable' /\ completed' = durable' /\ item_index' = 0 /\ clearing' = FALSE
        /\ UNCHANGED <<mark, gone>> /\ (~torn' => ~torn /\ mark = gone)
    BY <1>0, <1>6, Starts
  <2>2. InOrder' /\ ClearUnsaved'
    BY <2>1 DEF InOrder, ClearUnsaved
  <2>3. CASE saved.flag = "NONE"
    <3>1. saved' = Cleared /\ config' = Cleared /\ durable' = {}
      BY <1>0, <1>6, <2>3, Starts
    <3>2. ~Sampling' /\ saved'.block_num = 0
      BY <3>1, Flags DEF Sampling
    <3> QED
      BY <2>2, <3>1, <3>2 DEF InvTimes, TimesNow, TimesSaved
  <2>4. CASE saved.flag # "NONE"
    <3>1. /\ saved' = saved /\ durable' = durable /\ block_num' = saved.block_num
          /\ str_time' = saved.str_time /\ end_time' = saved.end_time
      BY <1>0, <1>6, <2>4, Starts
    <3>2. TimesSaved'
      BY <1>0, <2>1, <3>1 DEF TimesSaved, FirstOf, LastIn
    <3>3. TimesNow'
      BY <1>0, <2>1, <2>4, <3>1 DEF TimesSaved, TimesNow, FirstOf, LastIn, FirstLap
    <3> QED
      BY <2>2, <3>2, <3>3 DEF InvTimes
  <2> QED
    BY <2>3, <2>4
<1>7. CASE UNCHANGED state
  BY <1>0, <1>7 DEF state, object, history, clears, InvTimes, InOrder, TimesNow, TimesSaved,
    ClearUnsaved, FirstOf, LastIn, FirstLap, Sampling
<1> QED
  BY <1>1, <1>2, <1>3, <1>4, <1>5, <1>6, <1>7 DEF Steady

\* The times compared with those of the property.
LEMMA FirstLast ==
  ASSUME NEW S, S \subseteq Nat, NEW t
  PROVE  /\ FirstOf(t, S) => Min(S) = t
         /\ LastIn(t, S) => Max(S) = t
<1>1. ASSUME FirstOf(t, S) PROVE Min(S) = t
  <2>1. Min(S) \in S /\ \A s \in S : Min(S) <= s
    BY <1>1 DEF FirstOf, Min
  <2>2. Min(S) <= t /\ t <= Min(S) /\ t \in Nat /\ Min(S) \in Nat
    BY <1>1, <2>1 DEF FirstOf
  <2> QED
    BY <2>2
<1>2. ASSUME LastIn(t, S) PROVE Max(S) = t
  <2>1. Max(S) \in S /\ \A s \in S : Max(S) >= s
    BY <1>2 DEF LastIn, Max
  <2>2. Max(S) >= t /\ Max(S) <= t /\ t \in Nat /\ Max(S) \in Nat
    BY <1>2, <2>1 DEF LastIn
  <2> QED
    BY <2>2
<1> QED
  BY <1>1, <1>2

\* Until the ring is full, and as long as everything is regular, the times of the
\* recording in the configuration, which the host is given, are the first and the last
\* second in full index blocks.
THEOREM TimesAreTrue == Spec => []TimesReported
<1>1. Init => (regular => All /\ InvTimes)
  <2>1. Init => InvTimes
    BY Flags DEF Init, InvTimes, InOrder, TimesNow, TimesSaved, ClearUnsaved
  <2> QED
    BY <2>1, OwnInit, GoneInit DEF All
<1>2. (regular => All /\ InvTimes) /\ [Next]_vars => (regular => All /\ InvTimes)'
  BY AllKept, TimesStep, RegularStep, StaysIrregular
<1>3. (regular => All /\ InvTimes) => TimesReported
  <2> SUFFICES ASSUME All, InvTimes, Sampling, FirstLap, ~torn, completed # {}
               PROVE  config.str_time = Min(completed) /\ config.end_time = Max(completed)
    BY DEF TimesReported
  <2>1. FirstOf(str_time, completed) /\ LastIn(end_time, completed)
    BY DEF InvTimes, TimesNow
  <2>2. config.str_time = str_time /\ config.end_time = end_time
    BY DEF All, Own, Mode, InvConfig, SamePos
  <2>3. completed \subseteq Nat
    BY DEF All, Own, Mode, Base, InvHistory
  <2> QED
    BY <2>1, <2>2, <2>3, FirstLast
<1> QED
  BY <1>1, <1>2, <1>3, PTL DEF Spec
----------------------------------------------------------------------------
(* 9. The recording keeps its promise.                                     *)

\* A device that samples in the first lap, after no clear that was cut short; and a saved
\* configuration that a start in the first lap would go on with.
Up == Sampling /\ ~torn /\ FirstLap
SafeUp == saved.flag # "NONE" /\ saved.block_num < IndexBlocks /\ ~torn /\ mark = gone

\* A device that samples does so with what was saved, and is not behind it;
SavedBehind ==
  /\ Sampling /\ ~torn => mark = gone /\ saved.flag # "NONE"
  /\ Up => saved.block_num <= block_num
\* the full blocks in use have no seconds but the completed ones,
IndexCompleted == Up => \A b \in 0 .. block_num - 1 : \A i \in Entries : index[b][i].ts \in completed
\* those of the saved position none but the saved ones,
IndexDurable ==
  SafeUp => \A b \in 0 .. saved.block_num - 1 : \A i \in Entries : index[b][i].ts \in durable
\* and what is in full blocks but not saved is in the last one, unless the save is late.
OneUnsaved ==
  Up /\ ~late /\ completed # durable =>
    /\ block_num > 0
    /\ \A t \in completed \ durable : \E i \in Entries : index[block_num - 1][i].ts = t
\* The invariant of this section and the ones before.
InvPromise == SavedBehind /\ IndexCompleted /\ IndexDurable /\ OneUnsaved
Kept == All /\ InvFound /\ InvTimes

\* What a second stored does to a device that samples in the first lap.
LEMMA UpStores ==
  ASSUME Base, StoreRight
  PROVE  /\ Sampling' <=> Sampling
         /\ Sampling => (torn' <=> torn)
         /\ FirstLap' => FirstLap
         /\ Up' => Up
         /\ SafeUp' => SafeUp
         /\ Up' => block_num <= block_num'
<1>1. Stores /\ (Appends \/ Fills)
  BY StoreCases
<1>2. Sampling' <=> Sampling
  BY <1>1, Stays
<1>3. torn' = (torn \/ (~Sampling /\ item_index + 1 >= PerBlock))
  BY DEF StoreRight, StoreSecond
<1>4. Sampling => (torn' <=> torn)
  BY <1>3
<1>5. (FirstLap' => FirstLap) /\ (FirstLap' => block_num <= block_num')
  BY <1>1, Ranges, Sizes, FirstLapPos DEF Appends, Fills, FirstLap
<1>6. ~torn' => ~torn
  BY <1>3
<1>7. SafeUp' => SafeUp
  BY <1>1, <1>6 DEF Stores, SafeUp
<1> QED
  BY <1>2, <1>4, <1>5, <1>6, <1>7 DEF Up

\* Every operation keeps the four.
LEMMA BehindStep == Kept /\ SavedBehind /\ [Steady]_state => SavedBehind'
<1> SUFFICES ASSUME Kept, SavedBehind, [Steady]_state PROVE SavedBehind'
  OBVIOUS
<1>0. Base /\ Mode /\ block_num \in Nat
  BY Ranges DEF Kept, All, Own, Mode
<1>1. CASE StoreRight
  <2>1. UNCHANGED <<saved, mark, gone>>
    BY <1>1 DEF StoreRight, StoreSecond
  <2>2. /\ Sampling' <=> Sampling
        /\ Sampling => (torn' <=> torn)
        /\ Up' => Up /\ block_num <= block_num'
    BY <1>0, <1>1, UpStores
  <2>3. Up' => saved.block_num <= block_num'
    <3>1. SUFFICES ASSUME Up' PROVE saved.block_num <= block_num'
      OBVIOUS
    <3>2. Stores /\ (Appends \/ Fills)
      BY <1>0, <1>1, StoreCases
    <3>3. block_num' \in Nat
      BY <1>0, <3>2, Sizes DEF Appends, Fills
    <3> QED
      BY <1>0, <2>2, <3>1, <3>3, FirstLapPos DEF SavedBehind
  <2> QED
    BY <2>1, <2>2, <2>3 DEF SavedBehind
<1>2. CASE Saves
  <2>1. /\ saved' = config /\ UNCHANGED <<config, block_num, mark, torn>>
        /\ gone' = (IF Sampling THEN gone ELSE mark)
    BY <1>2 DEF Saves, Whole, object
  <2>2. (Sampling' <=> Sampling) /\ (Up' <=> Up)
    BY <2>1 DEF Sampling, Up, FirstLap
  <2>3. Sampling => config.block_num = block_num /\ config.flag # "NONE"
    BY <1>0 DEF Mode, InvConfig, SamePos, Sampling
  <2> QED
    BY <1>0, <2>1, <2>2, <2>3 DEF SavedBehind, Up
<1>3. CASE ClearConfigFirst
  BY <1>3, Flags DEF ClearConfigFirst, Reset, SavedBehind, Up, Sampling
<1>4. CASE ClearThenObject
  <2>1. ~Sampling /\ ~Sampling'
    BY <1>0, <1>4 DEF ClearThenObject, Base, IInv, InvClear, Sampling
  <2> QED
    BY <2>1 DEF SavedBehind, Up
<1>5. CASE kt_ClearConfig
  BY <1>5, Flags DEF kt_ClearConfig, SavedBehind, Up, Sampling
<1>6. CASE StartFrom(saved)
  <2>1. CASE saved.flag = "NONE"
    BY <1>0, <1>6, <2>1, Starts, Flags DEF SavedBehind, Up, Sampling
  <2>2. CASE saved.flag # "NONE"
    <3>1. /\ saved' = saved /\ block_num' = saved.block_num /\ UNCHANGED <<mark, gone>>
          /\ ~torn' => mark = gone
      BY <1>0, <1>6, <2>2, Starts
    <3> QED
      BY <1>0, <2>2, <3>1, FirstLapPos DEF SavedBehind
  <2> QED
    BY <2>1, <2>2
<1>7. CASE UNCHANGED state
  BY <1>7 DEF state, object, clears, SavedBehind, Up, FirstLap, Sampling
<1> QED
  BY <1>1, <1>2, <1>3, <1>4, <1>5, <1>6, <1>7 DEF Steady

\* A full table of a device that samples in the first lap is the block behind the last,
\* and it has the seconds that were in no block.
LEMMA UpFills ==
  ASSUME Kept, Stores, Fills, Up, Up'
  PROVE  /\ block_num' = block_num + 1 /\ block_num \in Nat /\ curr_block = block_num
         /\ block_num \in IndexRange
         /\ index' = [index EXCEPT ![block_num] = Written]
         /\ \A i \in Entries : Written[i].ts \in kept'
         /\ \A t \in kept' \ completed : \E i \in Entries : Written[i].ts = t
<1>0. /\ Base /\ item_index \in Entries /\ item_index + 1 = PerBlock
      /\ Entries = 0 .. item_index /\ item_index \in Nat
  BY Ranges, Sizes DEF Kept, All, Own, Mode, Fills, Entries
<1>1. block_num' = block_num + 1 /\ block_num \in Nat /\ curr_block = block_num
      /\ block_num \in IndexRange
  BY <1>0, Ranges, Sizes, FirstLapPos DEF Up, FirstLap, Fills
<1>2. index' = [index EXCEPT ![block_num] = Written]
  BY <1>1 DEF Fills
<1>3. /\ \A i \in 0 .. item_index - 1 : item_tables[i].ts \in kept
      /\ \A t \in kept \ completed : \E i \in 0 .. item_index - 1 : item_tables[i].ts = t
  BY DEF Kept, InvTimes, TimesNow, Up
<1>4. /\ Written[item_index].ts = now'
      /\ \A i \in 0 .. item_index - 1 : i \in Entries /\ Written[i] = item_tables[i]
  <2>1. \A i \in 0 .. item_index - 1 : i \in Entries /\ i # item_index
    BY <1>0
  <2> QED
    BY <1>0, <2>1, WrittenTable
<1>5. kept' = kept \cup {now'}
  BY DEF Stores
<1>6. ASSUME NEW i \in Entries PROVE Written[i].ts \in kept'
  <2>1. i = item_index \/ i \in 0 .. item_index - 1
    BY <1>0
  <2> QED
    BY <1>3, <1>4, <1>5, <2>1
<1>7. ASSUME NEW t \in kept' \ completed PROVE \E i \in Entries : Written[i].ts = t
  <2>1. CASE t = now'
    BY <1>0, <1>4, <2>1
  <2>2. CASE t # now'
    BY <1>3, <1>4, <1>5, <2>2
  <2> QED
    BY <2>1, <2>2
<1> QED
  BY <1>1, <1>2, <1>6, <1>7

\* What the index holds of the seconds kept and saved,
LEMMA IndexStep ==
  Kept /\ SavedBehind /\ IndexCompleted /\ IndexDurable /\ [Steady]_state => IndexCompleted' /\ IndexDurable'
<1> SUFFICES ASSUME Kept, SavedBehind, IndexCompleted, IndexDurable, [Steady]_state
             PROVE  IndexCompleted' /\ IndexDurable'
  OBVIOUS
<1>0. /\ Base /\ Mode /\ Own /\ Emptied /\ NothingSince /\ InvUnsaved
      /\ now \in Nat /\ mark \in 0..now /\ gone \in 0..mark
      /\ block_num \in Nat /\ saved.block_num \in Nat
  BY Ranges, FirstLapPos DEF Kept, All, InvGone, Own, Mode, Base, InvMarks
<1>a. PICK n, s : n = block_num /\ s = saved.block_num
  OBVIOUS
<1>b. \A b : b \notin 0 .. 0 - 1
  OBVIOUS
<1>1. CASE StoreRight
  <2>1. Stores /\ (Appends \/ Fills)
    BY <1>0, <1>1, StoreCases
  <2>2. UNCHANGED <<saved, durable, mark, gone>> /\ kept \subseteq kept' /\ completed \subseteq kept
    BY <1>0, <2>1 DEF Stores, Base, InvHistory
  <2>3. (Sampling' <=> Sampling) /\ (Up' => Up) /\ (SafeUp' => SafeUp)
    BY <1>0, <1>1, UpStores
  <2>4. CASE Appends
    <3>1. UNCHANGED <<index, block_num, completed>>
      BY <2>4 DEF Appends
    <3> QED
      BY <2>2, <2>3, <3>1 DEF IndexCompleted, IndexDurable
  <2>5. CASE Fills
    <3>1. IndexCompleted'
      <4>1. SUFFICES ASSUME Up', NEW b \in 0 .. block_num' - 1, NEW i \in Entries
                     PROVE  index'[b][i].ts \in completed'
        BY DEF IndexCompleted
      <4>a. completed' = kept'
        BY <2>5 DEF Fills
      <4>2. /\ block_num' = n + 1 /\ n \in Nat /\ n \in IndexRange
            /\ index' = [index EXCEPT ![n] = Written] /\ Written[i].ts \in kept'
        BY <1>a, <2>1, <2>3, <2>5, <4>1, UpFills
      <4>3. b \in IndexRange /\ index'[b] = IF b = n THEN Written ELSE index[b]
        BY SMTT(30), <1>0, <4>1, <4>2, Ranges, Sizes DEF IndexRange
      <4>4. CASE b = n
        BY <4>a, <4>2, <4>3, <4>4
      <4>5. CASE b # n
        <5>1. b \in 0 .. n - 1
          BY <4>1, <4>2, <4>5
        <5> QED
          BY <1>a, <2>2, <2>3, <4>a, <4>1, <4>3, <4>5, <5>1 DEF IndexCompleted
      <4> QED
        BY <4>4, <4>5
    <3>2. IndexDurable'
      <4>1. SUFFICES ASSUME SafeUp', NEW b \in 0 .. s - 1, NEW i \in Entries
                     PROVE  index'[b][i].ts \in durable
        BY <1>a, <2>2 DEF IndexDurable
      <4>2. index[b][i].ts \in durable
        BY <1>a, <2>3, <4>1 DEF IndexDurable
      <4>3. FirstLap /\ saved.block_num <= block_num
        <5>1. durable # {} /\ saved.flag # "NONE" /\ saved.block_num < IndexBlocks
          BY <2>3, <4>1, <4>2 DEF SafeUp
        <5>2. FirstLap
          BY <2>5, <5>1 DEF Fills
        <5> QED
          BY <1>0, <5>1, <5>2 DEF InvUnsaved
      <4>4. b < curr_block /\ curr_block < IndexBlocks
        BY <1>0, <1>a, <4>1, <4>3, FirstLapPos, Ranges, Sizes
      <4>5. b # curr_block /\ b \in IndexRange
        BY SMTT(30), <1>0, <1>a, <4>1, <4>4, Ranges, Sizes DEF IndexRange
      <4>6. index'[b] = index[b]
        BY <1>0, <2>5, <4>5, Ranges DEF Fills
      <4> QED
        BY <4>2, <4>6
    <3> QED
      BY <3>1, <3>2
  <2> QED
    BY <2>1, <2>4, <2>5
<1>2. CASE Saves
  <2>1. /\ saved' = config /\ durable' = completed
        /\ UNCHANGED <<config, completed, index, block_num, kept, mark, torn>>
        /\ gone' = (IF Sampling THEN gone ELSE mark)
    BY <1>2 DEF Saves, Whole, object, emmc
  <2>2. (Sampling' <=> Sampling) /\ (Up' <=> Up)
    BY <2>1 DEF Sampling, Up, FirstLap
  <2>3. IndexCompleted'
    BY <2>1, <2>2 DEF IndexCompleted
  <2>4. CASE Sampling
    <3>1. SUFFICES ASSUME SafeUp', NEW b \in 0 .. n - 1, NEW i \in Entries
                   PROVE  index[b][i].ts \in completed
      BY <1>0, <1>a, <2>1, <2>3, <2>4 DEF IndexDurable, Mode, InvConfig, SamePos
    <3>2. Up
      BY <1>0, <2>1, <2>4, <3>1 DEF Mode, InvConfig, SamePos, Up, SafeUp, FirstLap
    <3> QED
      BY <1>a, <3>1, <3>2 DEF IndexCompleted
  <2>5. CASE ~Sampling
    <3>1. SafeUp' => saved'.block_num = 0
      BY <1>0, <2>1, <2>5 DEF Emptied, SafeUp
    <3> QED
      BY <1>b, <2>3, <3>1 DEF IndexDurable
  <2> QED
    BY <2>4, <2>5
<1>3. CASE ClearConfigFirst
  <2>1. config' = Cleared /\ durable' = {} /\ UNCHANGED <<saved, gone>> /\ mark' = now
    BY <1>3 DEF ClearConfigFirst, Reset, Forget
  <2>2. ~Sampling'
    BY <2>1, Flags DEF Sampling
  <2>3. SafeUp' => saved'.block_num = 0
    BY <1>0, <2>1 DEF NothingSince, SafeUp
  <2> QED
    BY <1>b, <2>2, <2>3 DEF IndexCompleted, IndexDurable, Up
<1>4. CASE ClearThenObject
  <2>1. ~Sampling' /\ clearing /\ UNCHANGED <<saved, gone, mark, torn>>
    BY <1>0, <1>4 DEF ClearThenObject, clears, Base, IInv, InvClear, Sampling
  <2>2. SafeUp' => saved'.block_num = 0
    BY <2>1 DEF Kept, InvTimes, ClearUnsaved, SafeUp
  <2> QED
    BY <1>b, <2>1, <2>2 DEF IndexCompleted, IndexDurable, Up
<1>5. CASE kt_ClearConfig
  <2>1. config' = Erased /\ UNCHANGED <<saved, gone, durable, torn, index>> /\ mark' = now
    BY <1>5 DEF kt_ClearConfig, history, emmc
  <2>2. ~Sampling'
    BY <2>1, Flags DEF Sampling
  <2>3. SafeUp' => SafeUp
    BY <1>0, <2>1 DEF SafeUp
  <2> QED
    BY <2>1, <2>2, <2>3 DEF IndexCompleted, IndexDurable, Up
<1>6. CASE StartFrom(saved)
  <2>1. CASE saved.flag = "NONE"
    <3>1. ~Sampling' /\ saved'.block_num = 0
      BY <1>0, <1>6, <2>1, Starts, Flags DEF Sampling
    <3> QED
      BY <1>b, <3>1 DEF IndexCompleted, IndexDurable, Up
  <2>2. CASE saved.flag # "NONE"
    <3>1. /\ saved' = saved /\ durable' = durable /\ completed' = durable /\ block_num' = saved.block_num
          /\ UNCHANGED <<index, mark, gone>> /\ (~torn' => ~torn /\ mark = gone)
      BY <1>0, <1>6, <2>2, Starts
    <3>2. (SafeUp' => SafeUp) /\ (Up' => SafeUp)
      BY <2>2, <3>1 DEF SafeUp, Up, FirstLap
    <3> QED
      BY <3>1, <3>2 DEF IndexCompleted, IndexDurable
  <2> QED
    BY <2>1, <2>2
<1>7. CASE UNCHANGED state
  BY <1>7 DEF state, object, emmc, history, clears, IndexCompleted, IndexDurable, Up, SafeUp, FirstLap, Sampling
<1> QED
  BY <1>1, <1>2, <1>3, <1>4, <1>5, <1>6, <1>7 DEF Steady

\* and that only the last block is not saved.
LEMMA UnsavedBlockStep == Kept /\ OneUnsaved /\ [Steady]_state => OneUnsaved'
<1> SUFFICES ASSUME Kept, OneUnsaved, [Steady]_state PROVE OneUnsaved'
  OBVIOUS
<1>0. Base /\ block_num \in Nat
  BY Ranges DEF Kept, All, Own, Mode
<1>1. CASE StoreRight
  <2>1. Stores /\ (Appends \/ Fills)
    BY <1>0, <1>1, StoreCases
  <2>2. durable' = durable /\ (Up' => Up)
    BY <1>0, <1>1, <2>1, UpStores DEF Stores
  <2>a. late => late'
    BY <2>1 DEF Stores
  <2>3. CASE Appends
    <3>1. UNCHANGED <<index, block_num, completed>>
      BY <2>3 DEF Appends
    <3> QED
      BY <2>2, <2>a, <3>1 DEF OneUnsaved
  <2>4. CASE Fills
    <3>1. SUFFICES ASSUME Up', ~late'
                   PROVE  /\ block_num' > 0
                          /\ \A t \in completed' \ durable' :
                               \E i \in Entries : index'[block_num' - 1][i].ts = t
      BY DEF OneUnsaved
    <3>2. PICK n : n = block_num
      OBVIOUS
    <3>3. /\ block_num' = n + 1 /\ n \in Nat /\ n \in IndexRange
          /\ index' = [index EXCEPT ![n] = Written]
          /\ \A t \in kept' \ completed : \E i \in Entries : Written[i].ts = t
      BY <2>1, <2>2, <2>4, <3>1, <3>2, UpFills
    <3>4. completed' = kept' /\ durable = completed
      BY <2>4, <3>1 DEF Fills
    <3>5. block_num' - 1 = n /\ block_num' > 0
      BY <3>3
    <3>6. index'[n] = Written
      BY <1>0, <3>3, Ranges
    <3> QED
      BY <2>2, <3>3, <3>4, <3>5, <3>6
  <2> QED
    BY <2>1, <2>3, <2>4
<1>2. CASE Saves
  BY <1>2 DEF Saves, Whole, OneUnsaved
<1>3. CASE ClearConfigFirst
  BY <1>3 DEF ClearConfigFirst, Forget, OneUnsaved
<1>4. CASE ClearThenObject
  BY <1>4 DEF ClearThenObject, Forget, OneUnsaved
<1>5. CASE kt_ClearConfig
  BY <1>5, Flags DEF kt_ClearConfig, OneUnsaved, Up, Sampling
<1>6. CASE StartFrom(saved)
  BY <1>6 DEF StartFrom, OneUnsaved
<1>7. CASE UNCHANGED state
  BY <1>7 DEF state, object, emmc, history, clears, OneUnsaved, Up, FirstLap, Sampling
<1> QED
  BY <1>1, <1>2, <1>3, <1>4, <1>5, <1>6, <1>7 DEF Steady

\* A set that a function gives on the first n numbers has n elements at most.
LEMMA AtMostSo ==
  ASSUME NEW n \in Nat, NEW f, NEW S, \A t \in S : \E k \in 1..n : f[k] = t
  PROVE  Cardinality(S) <= n
<1>1. IsFiniteSet(1..n) /\ Cardinality(1..n) = n
  BY FS_Interval
<1> DEFINE D == {k \in 1..n : f[k] \in S}
           g == [k \in D |-> f[k]]
<1>2. IsFiniteSet(D) /\ Cardinality(D) <= Cardinality(1..n)
  <2>1. D \in SUBSET (1..n)
    OBVIOUS
  <2> HIDE DEF D
  <2> QED
    BY <1>1, <2>1, FS_Subset
<1>3. g \in Surjection(D, S)
  <2>1. g \in [D -> S]
    OBVIOUS
  <2>2. \A t \in S : \E k \in D : g[k] = t
    OBVIOUS
  <2> HIDE DEF g, D
  <2> QED
    BY <2>1, <2>2 DEF Surjection
<1> HIDE DEF g, D
<1>4. IsFiniteSet(S) /\ Cardinality(S) <= Cardinality(D)
  BY <1>2, <1>3, FS_Surjection
<1>5. Cardinality(S) \in Nat /\ Cardinality(D) \in Nat
  BY <1>2, <1>4, FS_CardinalityType
<1> QED
  BY <1>1, <1>2, <1>4, <1>5

\* The promise's state, in the terms of the history.
LEMMA HeldIs == regular /\ Kept /\ InvPromise => Held = IF Up THEN kept ELSE {}
<1> SUFFICES ASSUME regular, Kept, InvPromise PROVE Held = IF Up THEN kept ELSE {}
  OBVIOUS
<1>0. /\ Base /\ kept \subseteq 1..now /\ completed \subseteq kept
      /\ Own /\ InvFound
  BY DEF Kept, All, Own, Mode, Base, InvHistory
<1>1. SUFFICES ASSUME Up PROVE Held = kept
  BY DEF Held, Up
<1>2. Held = {ts \in 1..now : Found(ts) # {}}
  BY <1>1 DEF Held, Up
<1>3. ASSUME NEW ts \in kept PROVE Found(ts) # {}
  BY <1>0, <1>1, <1>3, FoundWhenKept DEF Up
<1>4. ASSUME NEW ts, Found(ts) # {} PROVE ts \in kept
  <2>1. PICK a : a \in Found(ts)
    BY <1>4
  <2>2. CASE \E i \in 0 .. item_index - 1 : item_tables[i].ts = ts
    BY <1>1, <2>2 DEF Kept, InvTimes, TimesNow, Up
  <2>3. CASE \E b \in 0 .. block_num - 1 : \E i \in Entries : index[b][i].ts = ts
    BY <1>0, <1>1, <2>3 DEF InvPromise, IndexCompleted
  <2> QED
    BY <1>0, <2>1, <2>2, <2>3, FoundEntries
<1> QED
  BY <1>0, <1>2, <1>3, <1>4

LEMMA SafeIs == regular /\ Kept /\ InvPromise => Safe = IF SafeUp THEN durable ELSE {}
<1> SUFFICES ASSUME regular, Kept, InvPromise PROVE Safe = IF SafeUp THEN durable ELSE {}
  OBVIOUS
<1>0. /\ durable \subseteq 1..now /\ InvFound
  BY DEF Kept, All, Own, Mode, Base, InvHistory
<1>1. SUFFICES ASSUME SafeUp PROVE Safe = durable
  BY DEF Safe, SafeUp
<1>2. Safe = {ts \in 1..now : \E b \in 0 .. saved.block_num - 1 :
                                \E i \in Entries : index[b][i].ts = ts}
  BY <1>1 DEF Safe, SafeUp, Entries
<1>3. ASSUME NEW ts \in durable
      PROVE  \E b \in 0 .. saved.block_num - 1 : \E i \in Entries : index[b][i].ts = ts
  BY <1>0, <1>1, <1>3 DEF InvFound, InIndex, SafeUp
<1>4. ASSUME NEW b \in 0 .. saved.block_num - 1, NEW i \in Entries PROVE index[b][i].ts \in durable
  BY <1>1 DEF InvPromise, IndexDurable
<1> QED
  BY <1>0, <1>2, <1>3, <1>4

\* What samples in the first lap started from a saved position that is in it.
LEMMA UpSafe == Kept /\ InvPromise => (Up => SafeUp)
<1> SUFFICES ASSUME Kept, InvPromise, Up PROVE SafeUp
  OBVIOUS
<1>1. Base /\ block_num \in 0 .. IndexBlocks - 1 /\ saved.block_num \in Nat /\ IndexBlocks \in Nat
  BY FirstLapPos, Sizes DEF Kept, All, Own, Mode, Up
<1>2. /\ mark = gone /\ saved.flag # "NONE" /\ ~torn
      /\ saved.block_num <= block_num
  BY DEF InvPromise, SavedBehind, Up
<1>3. saved.block_num < IndexBlocks
  BY <1>1, <1>2
<1> QED
  BY <1>2, <1>3 DEF SafeUp

\* All three, of this state and of the next.
LEMMA PromiseState ==
  regular /\ Kept /\ InvPromise =>
    /\ Held = IF Up THEN kept ELSE {}
    /\ Safe = IF SafeUp THEN durable ELSE {}
    /\ Up => SafeUp
  BY HeldIs, SafeIs, UpSafe

LEMMA PromiseStateNext ==
  (regular /\ Kept /\ InvPromise)' =>
    /\ Held' = IF Up' THEN kept' ELSE {}
    /\ Safe' = IF SafeUp' THEN durable' ELSE {}
    /\ Up' => SafeUp'
<1>1. (regular /\ Kept /\ InvPromise =>
         /\ Held = IF Up THEN kept ELSE {}
         /\ Safe = IF SafeUp THEN durable ELSE {}
         /\ Up => SafeUp)'
  BY PromiseState, PTL
<1> QED
  BY <1>1

\* A loss of power takes the seconds in the table in RAM, with the one stored now, and
\* those of a full block that is not in the saved configuration yet; then the table is
\* not full again, unless the save is late.
LEMMA LossBounded ==
  ASSUME Kept, InvPromise, StoreRight, Up, ~late'
  PROVE  Cardinality(kept' \ durable) <= 2 * PerBlock - 1
<1>0. /\ Base /\ Stores /\ (Appends \/ Fills) /\ kept' = kept \cup {now'}
      /\ item_index \in Nat /\ item_index + 1 <= PerBlock
  <2>1. Base
    BY DEF Kept, All, Own, Mode
  <2>2. Stores /\ (Appends \/ Fills)
    BY <2>1, StoreCases
  <2> QED
    BY <2>1, <2>2, Ranges, Sizes DEF Stores
<1>1. (completed # durable => item_index + 2 <= PerBlock) /\ ~late
  <2>1. ~(late \/ (completed # durable /\ item_index + 1 >= PerBlock))
    BY <1>0 DEF Stores
  <2>2. completed # durable => ~(item_index + 1 >= PerBlock)
    BY <2>1
  <2> QED
    BY <1>0, <2>1, <2>2, Sizes
<1> DEFINE more == IF completed = durable THEN 0 ELSE PerBlock
           m == item_index + 1 + more
           f == [k \in 1..m |-> IF k <= item_index + 1 THEN Written[k - 1].ts
                                ELSE index[block_num - 1][k - item_index - 2].ts]
<1>2. more \in Nat /\ m \in Nat /\ m <= 2 * PerBlock - 1 /\ item_index + 1 <= m
  BY <1>0, <1>1, Sizes
<1>3. ASSUME NEW t \in kept' \ durable PROVE \E k \in 1..m : f[k] = t
  <2>1. CASE t \notin completed
    <3>1. PICK i \in 0 .. item_index : Written[i].ts = t
      <4>1. /\ Written[item_index].ts = now'
            /\ \A i \in 0 .. item_index - 1 : Written[i] = item_tables[i]
        <5>1. \A i \in 0 .. item_index - 1 : i \in Entries /\ i # item_index
          BY <1>0, Sizes DEF Entries
        <5> QED
          BY <1>0, <5>1, WrittenTable
      <4>2. CASE t = now'
        BY <1>0, <4>1, <4>2
      <4>3. CASE t # now'
        <5>1. PICK i \in 0 .. item_index - 1 : item_tables[i].ts = t
          BY <1>0, <1>3, <2>1, <4>3 DEF Kept, InvTimes, TimesNow, Up
        <5>2. i \in 0 .. item_index
          BY <1>0, <5>1
        <5> QED
          BY <4>1, <5>1, <5>2
      <4> QED
        BY <4>2, <4>3
    <3>2. i + 1 \in 1..m /\ i + 1 <= item_index + 1 /\ (i + 1) - 1 = i
      <4> HIDE DEF m
      <4> QED
        BY <1>0, <1>2, <3>1
    <3>3. f[i + 1] = t
      BY <3>1, <3>2
    <3> QED
      BY <3>2, <3>3
  <2>2. CASE t \in completed
    <3>1. completed # durable
      BY <1>3, <2>2
    <3>2. PICK i \in Entries : index[block_num - 1][i].ts = t
      BY <1>1, <1>3, <2>2, <3>1 DEF InvPromise, OneUnsaved
    <3> DEFINE k == item_index + 2 + i
    <3>3. k \in 1..m /\ ~(k <= item_index + 1) /\ k - item_index - 2 = i
      BY <1>0, <3>1, Sizes DEF Entries
    <3> HIDE DEF k
    <3>4. f[k] = t
      BY <3>2, <3>3
    <3> QED
      BY <3>3, <3>4
  <2> QED
    BY <2>1, <2>2
<1> HIDE DEF f
<1>4. Cardinality(kept' \ durable) <= m
  <2> HIDE DEF m
  <2> QED
    BY <1>2, <1>3, AtMostSo
<1>5. Cardinality(kept' \ durable) \in Nat
  <2>1. now \in Int /\ 1 \in Int /\ kept \in SUBSET (1..now)
    BY <1>0, Ranges DEF Base, InvHistory
  <2>2. IsFiniteSet(kept)
    BY <2>1, FS_Interval, FS_Subset
  <2>3. IsFiniteSet(kept')
    BY <1>0, <2>2, FS_AddElement
  <2>4. IsFiniteSet(kept' \ durable)
    BY <2>3, FS_Subset
  <2> QED
    BY <2>4, FS_CardinalityType
<1> HIDE DEF m
<1> QED
  BY <1>2, <1>4, <1>5, Sizes

\* Every operation is one of the promise's or changes nothing of it.
LEMMA PromiseStep ==
  ASSUME regular, Kept, InvPromise, (regular /\ Kept /\ InvPromise)', [Steady]_state
  PROVE  [Promise!Next]_<<Held, Safe, late>>
<1>0. /\ Base /\ Mode /\ Own /\ Emptied /\ NothingSince
      /\ now \in Nat /\ mark \in 0..now /\ gone \in 0..mark
      /\ durable \subseteq completed /\ completed \subseteq kept /\ kept \subseteq 1..now
  BY DEF Kept, All, InvGone, Own, Mode, Base, InvData, InvMarks, InvHistory
<1>a. /\ Held = IF Up THEN kept ELSE {}
      /\ Safe = IF SafeUp THEN durable ELSE {}
      /\ Held' = IF Up' THEN kept' ELSE {}
      /\ Safe' = IF SafeUp' THEN durable' ELSE {}
      /\ (Up => SafeUp) /\ (Up' => SafeUp')
  BY PromiseState, PromiseStateNext
<1>b. Held' = {} /\ Safe' = {} => Promise!Next
  BY DEF Promise!Next, Promise!Clear
<1>1. CASE StoreRight
  <2>1. Stores /\ (Appends \/ Fills)
    BY <1>0, <1>1, StoreCases
  <2>2. UNCHANGED <<saved, durable, mark, gone>> /\ kept' = kept \cup {now'}
    BY <2>1 DEF Stores
  <2>3. /\ Sampling' <=> Sampling
        /\ Sampling => (torn' <=> torn)
        /\ Up' => Up
        /\ SafeUp' => SafeUp
    BY <1>0, <1>1, UpStores
  <2>4. CASE ~SafeUp'
    <3>1. Safe' = {}
      BY <1>a, <2>4
    <3> QED
      BY <1>a, <1>b, <2>4, <3>1
  <2>5. CASE SafeUp'
    <3>1. Safe' = Safe
      BY <1>a, <2>2, <2>3, <2>5
    <3>2. CASE ~Up'
      BY <1>a, <3>1, <3>2 DEF Promise!Next, Promise!Full
    <3>3. CASE Up'
      <4>1. Held = kept /\ Held' = kept \cup {now'} /\ Safe = durable
        BY <1>a, <2>2, <2>3, <2>5, <3>3
      <4>2. Held' = Held \/ (now' \in Held' /\ Held' = Held \cup {now'} /\ \A t \in Held : t < now')
        <5>1. CASE now' \in kept
          BY <4>1, <5>1
        <5>2. CASE now' \notin kept
          <6>1. now < now'
            BY <2>1, <5>2 DEF Stores
          <6>2. \A t \in Held : t < now'
            BY <1>0, <2>1, <4>1, <6>1 DEF Stores
          <6> QED
            BY <4>1, <6>2
        <5> QED
          BY <5>1, <5>2
      <4>3. late => late'
        BY <2>1 DEF Stores
      <4>4. ~late' => Cardinality(Held' \ Safe) <= 2 * PerBlock - 1
        BY <1>1, <2>2, <2>3, <3>3, <4>1, LossBounded
      <4>5. Promise!Cardinality(Held' \ Safe) = Cardinality(Held' \ Safe)
        BY DEF Promise!Cardinality, Cardinality
      <4>6. Promise!Record
        BY <3>1, <4>2, <4>3, <4>4, <4>5 DEF Promise!Record
      <4> QED
        BY <4>6 DEF Promise!Next
    <3> QED
      BY <3>2, <3>3
  <2> QED
    BY <2>4, <2>5
<1>2. CASE Saves
  <2>1. /\ saved' = config /\ durable' = completed /\ late' = FALSE
        /\ UNCHANGED <<config, block_num, kept, mark, torn>>
        /\ gone' = (IF Sampling THEN gone ELSE mark)
    BY <1>2 DEF Saves, Whole, object
  <2>2. (Sampling' <=> Sampling) /\ (Up' <=> Up)
    BY <2>1 DEF Sampling, Up, FirstLap
  <2>3. CASE Up
    <3>1. SafeUp'
      BY <1>0, <2>1, <2>3 DEF Mode, InvConfig, SamePos, InvPromise, SavedBehind, Up, SafeUp,
        Sampling, FirstLap
    <3>3. Held = kept /\ Held' = kept /\ Safe = durable /\ Safe' = completed
      BY <1>a, <2>1, <2>2, <2>3, <3>1
    <3>4. ASSUME NEW s \in completed, NEW t \in kept \ completed PROVE s < t
      <4>1. s <= t /\ s # t
        BY <3>4 DEF Kept, InvTimes, InOrder
      <4> QED
        BY <1>0, <4>1
    <3> QED
      BY <1>0, <2>1, <3>3, <3>4 DEF Promise!Next, Promise!Save
  <2>4. CASE ~Up
    <3>1. ASSUME SafeUp' PROVE durable' = {}
      <4>1. ~Sampling
        BY <1>0, <2>1, <2>4, <3>1 DEF Mode, InvConfig, SamePos, Up, SafeUp, FirstLap
      <4> QED
        BY <1>0, <2>1, <3>1, <4>1 DEF Emptied, SafeUp
    <3> QED
      BY <1>a, <1>b, <2>2, <2>4, <3>1
  <2> QED
    BY <2>3, <2>4
<1>3. CASE ClearConfigFirst
  BY <1>a, <1>b, <1>3 DEF ClearConfigFirst, Forget
<1>4. CASE ClearThenObject
  BY <1>a, <1>b, <1>4 DEF ClearThenObject, Forget
<1>5. CASE kt_ClearConfig
  <2>1. config' = Erased /\ UNCHANGED <<saved, gone, durable, torn>> /\ mark' = now
    BY <1>5 DEF kt_ClearConfig, history
  <2>2. ~Up'
    BY <2>1, Flags DEF Up, Sampling
  <2>3. ASSUME SafeUp' PROVE durable' = {}
    <3>1. SafeUp /\ gone = now
      BY <1>0, <2>1, <2>3 DEF SafeUp
    <3>2. saved.block_num = 0
      BY <1>0, <3>1 DEF NothingSince, SafeUp
    <3> QED
      BY <2>1, <3>1, <3>2 DEF Kept, InvTimes, TimesSaved, SafeUp
  <2> QED
    BY <1>a, <1>b, <2>2, <2>3
<1>6. CASE StartFrom(saved)
  <2>1. CASE saved.flag = "NONE"
    <3>1. ~Up' /\ durable' = {}
      BY <1>0, <1>6, <2>1, Starts, Flags DEF Up, Sampling
    <3> QED
      BY <1>a, <1>b, <3>1
  <2>2. CASE saved.flag # "NONE"
    <3>1. /\ saved' = saved /\ durable' = durable /\ kept' = durable /\ block_num' = saved.block_num
          /\ config'.flag = "NEXT_ON" /\ UNCHANGED <<mark, gone>>
          /\ (~torn' => ~torn /\ mark = gone)
      BY <1>0, <1>6, <2>2, Starts
    <3>2. CASE torn'
      BY <1>a, <1>b, <3>2 DEF Up, SafeUp
    <3>3. CASE ~torn'
      <4>1. (SafeUp' <=> SafeUp) /\ (Up' <=> SafeUp)
        BY <2>2, <3>1, <3>3 DEF SafeUp, Up, FirstLap, Sampling
      <4> QED
        BY <1>6, <1>a, <3>1, <4>1 DEF StartFrom, Promise!Next, Promise!PowerFails
    <3> QED
      BY <3>2, <3>3
  <2> QED
    BY <2>1, <2>2
<1>7. CASE UNCHANGED state
  <2>1. (Up' <=> Up) /\ (SafeUp' <=> SafeUp) /\ kept' = kept /\ durable' = durable /\ late' = late
    BY <1>7 DEF state, object, history, clears, Up, SafeUp, FirstLap, Sampling
  <2> QED
    BY <1>a, <2>1
<1> QED
  BY <1>1, <1>2, <1>3, <1>4, <1>5, <1>6, <1>7 DEF Steady

\* Until the ring is full, and as long as everything is regular, the recording of the
\* seconds on the eMMC implements Recording: the seconds stored and no others can be
\* read, each save of the configuration makes a first part of them safe, a loss of power
\* leaves exactly the safe ones and takes fewer than two index blocks of seconds unless
\* a save is late, and a clear takes everything.
THEOREM RecordingImplemented == Spec => ImplementsRecording
<1> DEFINE P == Kept /\ InvPromise
<1>1. Init => P
  <2>1. Init => InvFound /\ InvTimes /\ InvPromise
    BY Flags DEF Init, InvFound, InvTimes, InOrder, TimesNow, TimesSaved, ClearUnsaved,
      InvPromise, SavedBehind, IndexCompleted, IndexDurable, OneUnsaved
  <2> QED
    BY <2>1, OwnInit, GoneInit DEF Kept, All
<1>2. P /\ [Steady]_state => P'
  BY AllKept, FoundStep, TimesStep, BehindStep, IndexStep, UnsavedBlockStep
  DEF Kept, All, InvPromise
<1>3. Init => Promise!Init
  <2>1. Init => kept = {} /\ durable = {} /\ late = FALSE /\ regular
    BY DEF Init
  <2> QED
    BY <1>1, <2>1, HeldIs, SafeIs DEF Promise!Init
<1>4. (regular => P) /\ [Next]_vars => (regular => P)'
  BY <1>2, RegularStep, StaysIrregular
<1>5. (regular => P) /\ (regular => P)' /\ [Next]_vars => [Promise!Next]_<<Held, Safe, late>>
  <2> SUFFICES ASSUME regular => P, (regular => P)', [Next]_vars
               PROVE  [Promise!Next]_<<Held, Safe, late>>
    OBVIOUS
  <2>1. CASE regular'
    <3>1. regular /\ [Steady]_state
      BY <2>1, RegularStep, StaysIrregular
    <3> QED
      BY <2>1, <3>1, PromiseStep
  <2>2. CASE ~regular'
    <3>1. Held' = {} /\ Safe' = {}
      BY <2>2 DEF Held, Safe
    <3> QED
      BY <3>1 DEF Promise!Next, Promise!Clear
  <2> QED
    BY <2>1, <2>2
<1>6. Init => (regular => P)
  BY <1>1
<1> HIDE DEF P
<1> QED
  BY <1>3, <1>4, <1>5, <1>6, PTL DEF Spec, ImplementsRecording, Promise!Spec
=============================================================================
