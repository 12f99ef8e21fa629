------------------------ MODULE ConfigStore_proofs ------------------------
(***************************************************************************)
(* For a calibration of any length and any number of starts, failed        *)
(* transfers and clears: when nothing is pending, the store holds what the *)
(* tasks have in the memory.                                               *)
(*                                                                         *)
(* A save runs while the configuration goes on changing.  What makes it    *)
(* right is the order: the status is cleared before the first page, so a   *)
(* change of a page that is written already either sets it again or is the *)
(* one the calibration makes half-way, which a start takes back.           *)
(***************************************************************************)
EXTENDS ConfigStore, SequenceTheorems, TLAPS

Fields == {"flag", "limit", "bias", "gain", "cal_flag"}

InvTypes ==
  /\ config = [f \in Fields |-> config[f]] /\ saved = [f \in Fields |-> saved[f]]
  /\ {config.cal_flag, saved.cal_flag} \subseteq {"DEF", "STR", "END"}
  /\ page \in 1 .. 6

\* The pages in front of p hold what is in the memory, but for what the first
\* half of the calibration has changed and the step to NEXT_ON at a start.
Agree(p) ==
  /\ p > 1 => \/ saved.flag = config.flag
              \/ /\ p = 6 /\ saved.flag = "FIRST_ON" /\ config.flag = "NEXT_ON"
                 /\ config.cal_flag = "END"
  /\ p > 2 => saved.limit = config.limit
  /\ p > 3 => saved.bias = config.bias \/ config.cal_flag = "STR"
  /\ p > 4 => saved.gain = config.gain
  /\ p > 5 => \/ saved.cal_flag = config.cal_flag
              \/ config.cal_flag = "STR" /\ saved.cal_flag = "DEF"

IInv ==
  /\ InvTypes
  /\ ~status /\ ~proc /\ ~failed => Agree(page)
----------------------------------------------------------------------------
\* The five pages and the place behind them.
LEMMA Pages ==
  /\ Len(Page) = 5 /\ Idle = 6
  /\ Page[1] = {"flag"} /\ Page[2] = {"limit"} /\ Page[3] = {"bias"}
  /\ Page[4] = {"gain"} /\ Page[5] = {"cal_flag"}
  BY DEF Page, Idle

\* An empty store: the defaults are about to be written.
LEMMA InitInv == Init => IInv
<1> SUFFICES ASSUME Init PROVE IInv
  OBVIOUS
<1>1. InvTypes
  BY DEF Init, InvTypes, Default, Zeroed, Fields
<1>2. Agree(page)
  BY DEF Init, Agree
<1> QED
  BY <1>1, <1>2 DEF IInv

\* A handler that changes the configuration has the status to set.
LEMMA HandlerKeeps ==
  IInv /\ (kt_SetVolt \/ kt_ClearData \/ kt_ClearConfig \/ ProcMark) => IInv'
<1> SUFFICES ASSUME IInv, kt_SetVolt \/ kt_ClearData \/ kt_ClearConfig \/ ProcMark
             PROVE  IInv'
  OBVIOUS
<1>1. proc' \/ status'
  BY DEF kt_SetVolt, kt_ClearData, kt_ClearConfig, ProcMark, SetLimit
<1>2. saved' = saved /\ page' = page
  BY DEF kt_SetVolt, kt_ClearData, kt_ClearConfig, ProcMark, store
<1>3. /\ config' = [f \in Fields |-> config'[f]]
      /\ config'.cal_flag \in {"DEF", "STR", "END"}
  <2>1. CASE kt_SetVolt
    BY <2>1 DEF kt_SetVolt, SetLimit, Changed, IInv, InvTypes, Fields
  <2>2. CASE kt_ClearData
    BY <2>2 DEF kt_ClearData, Changed, IInv, InvTypes, Fields
  <2>3. CASE kt_ClearConfig
    BY <2>3 DEF kt_ClearConfig, Changed, Zeroed, Fields
  <2>4. CASE ProcMark
    BY <2>4 DEF ProcMark, IInv, InvTypes
  <2> QED
    BY <2>1, <2>2, <2>3, <2>4
<1> QED
  BY <1>1, <1>2, <1>3 DEF IInv, InvTypes

\* The first half of a calibration changes what the store need not hold yet, the
\* second one sets the status.
LEMMA CalibrationKeeps == IInv /\ (cal_bias_zero \/ cal_bias_full) => IInv'
<1> SUFFICES ASSUME IInv, cal_bias_zero \/ cal_bias_full PROVE IInv'
  OBVIOUS
<1>1. UNCHANGED <<saved, page, proc, failed>>
  BY DEF cal_bias_zero, cal_bias_full
<1>2. CASE config' = config
  <2>1. status => status'
    BY DEF cal_bias_zero, cal_bias_full, FullStatus
  <2> QED
    BY <1>1, <1>2, <2>1 DEF IInv, InvTypes, Agree
<1>3. CASE cal_bias_zero /\ config' # config
  <2>1. PICK v : config' = [config EXCEPT !.bias = v, !.cal_flag = "STR"]
    BY <1>3 DEF cal_bias_zero, Changed
  <2>2. config.cal_flag = "DEF" /\ status' = status
    BY <1>3 DEF cal_bias_zero
  <2>3. InvTypes'
    BY <1>1, <2>1 DEF IInv, InvTypes, Fields
  <2>4. /\ config'.flag = config.flag /\ config'.limit = config.limit
        /\ config'.gain = config.gain /\ config'.cal_flag = "STR"
    BY <2>1 DEF IInv, InvTypes, Fields
  <2>5. Agree(page) => Agree(page)'
    BY <1>1, <2>2, <2>4 DEF Agree
  <2> QED
    BY <1>1, <2>2, <2>3, <2>5 DEF IInv
<1>4. CASE cal_bias_full /\ config' # config
  <2>1. PICK v : config' = [config EXCEPT !.gain = v, !.cal_flag = "END"]
    BY <1>4 DEF cal_bias_full, Changed
  <2>2. status'
    BY <1>4 DEF cal_bias_full, FullStatus
  <2>3. InvTypes'
    BY <1>1, <2>1 DEF IInv, InvTypes, Fields
  <2> QED
    BY <2>2, <2>3 DEF IInv
<1> QED
  BY <1>2, <1>3, <1>4

\* Each page that is written makes one more agree.
LEMMA SaveKeeps == IInv /\ (SaveBegin \/ fm24c_write) => IInv'
<1> SUFFICES ASSUME IInv, SaveBegin \/ fm24c_write PROVE IInv'
  OBVIOUS
<1>1. CASE SaveBegin
  <2>1. page' = 1 /\ UNCHANGED <<config, saved>>
    BY <1>1 DEF SaveBegin
  <2> QED
    BY <2>1 DEF IInv, InvTypes, Agree
<1>2. CASE fm24c_write
  <2>1. page \in 1 .. 5 /\ UNCHANGED <<config, status, proc>>
    BY <1>2, Pages DEF fm24c_write, Writing, IInv, InvTypes, ram
  <2>2. /\ Written = [f \in Fields |-> Written[f]]
        /\ Written.cal_flag \in {"DEF", "STR", "END"}
        /\ \A f \in Fields : Written[f] = IF f \in Page[page] THEN config[f] ELSE saved[f]
    BY DEF Written, IInv, InvTypes, Fields
  <2>3. saved' \in {saved, Written} /\ page' \in 1 .. 6
    BY <1>2, <2>1, Pages DEF fm24c_write
  <2>4. InvTypes'
    BY <2>1, <2>2, <2>3 DEF IInv, InvTypes
  <2>5. CASE failed'
    BY <2>4, <2>5 DEF IInv
  <2>6. CASE ~failed'
    <3>1. saved' = Written /\ page' = page + 1 /\ failed' = failed
      BY <1>2, <2>6 DEF fm24c_write
    <3>2. ASSUME Agree(page) PROVE Agree(page)'
      <4>1. CASE page = 1
        BY <2>1, <2>2, <3>1, <3>2, <4>1, Pages DEF Agree, Fields
      <4>2. CASE page = 2
        BY <2>1, <2>2, <3>1, <3>2, <4>2, Pages DEF Agree, Fields
      <4>3. CASE page = 3
        BY <2>1, <2>2, <3>1, <3>2, <4>3, Pages DEF Agree, Fields
      <4>4. CASE page = 4
        BY <2>1, <2>2, <3>1, <3>2, <4>4, Pages DEF Agree, Fields
      <4>5. CASE page = 5
        BY <2>1, <2>2, <3>1, <3>2, <4>5, Pages DEF Agree, Fields
      <4> QED
        BY <2>1, <4>1, <4>2, <4>3, <4>4, <4>5
    <3> QED
      BY <2>1, <2>4, <3>1, <3>2 DEF IInv
  <2> QED
    BY <2>5, <2>6
<1> QED
  BY <1>1, <1>2

\* A start takes what it reads, or writes the defaults.
LEMMA StartKeeps == IInv /\ system_init => IInv'
<1> SUFFICES ASSUME IInv, system_init PROVE IInv'
  OBVIOUS
<1>1. PICK n \in 0 .. Len(Page) :
        /\ config' = Start(ReadPages(n))
        /\ IF Valid(ReadPages(n))
           THEN page' = Idle /\ (failed' <=> (failed \/ n < Len(Page)))
           ELSE page' = 1
        /\ UNCHANGED saved
  BY DEF system_init
<1> DEFINE c == ReadPages(n)
<1>2. /\ c = [f \in Fields |-> c[f]]
      /\ c.cal_flag \in {"DEF", "STR", "END"}
  BY DEF ReadPages, Zeroed, IInv, InvTypes, Fields
<1>3. n = 5 => c = saved
  <2> SUFFICES ASSUME n = 5 PROVE \A f \in Fields : c[f] = saved[f]
    BY <1>2 DEF IInv, InvTypes
  <2>1. \A f \in Fields : \E p \in 1 .. 5 : f \in Page[p]
    BY Pages DEF Fields
  <2> QED
    BY <2>1 DEF ReadPages, IInv, InvTypes
<1> HIDE DEF c
<1>4. /\ config' = [f \in Fields |-> config'[f]]
      /\ config'.cal_flag \in {"DEF", "STR", "END"}
  BY <1>1, <1>2 DEF Start, Default, Fields, c
<1>5. InvTypes'
  BY <1>1, <1>4, Pages DEF IInv, InvTypes
<1>6. CASE ~Valid(c)
  BY <1>1, <1>5, <1>6 DEF IInv, Agree, c
<1>7. CASE Valid(c) /\ n < 5
  BY <1>1, <1>5, <1>7, Pages DEF IInv, c
<1>8. CASE Valid(c) /\ n = 5
  <2>1. config' = [saved EXCEPT !.flag = IF Ended(saved) THEN "NEXT_ON" ELSE @]
    BY <1>1, <1>3, <1>8 DEF Start, c
  <2>2. /\ config'.limit = saved.limit /\ config'.bias = saved.bias
        /\ config'.gain = saved.gain /\ config'.cal_flag = saved.cal_flag
        /\ config'.flag = IF saved.cal_flag = "END" THEN "NEXT_ON" ELSE saved.flag
    BY <2>1 DEF IInv, InvTypes, Fields, Ended
  <2>3. saved.flag \in {"FIRST_ON", "NEXT_ON"}
    BY <1>3, <1>8 DEF Valid
  <2>4. Agree(page)'
    BY <1>1, <1>8, <2>2, <2>3, Pages DEF Agree, c
  <2> QED
    BY <1>5, <2>4 DEF IInv
<1> QED
  BY <1>6, <1>7, <1>8, Pages

\* Every step keeps the invariant.
LEMMA NextKeeps == IInv /\ [Next]_vars => IInv'
<1> SUFFICES ASSUME IInv, [Next]_vars PROVE IInv'
  OBVIOUS
<1>1. CASE keys_pressed
  <2>1. UNCHANGED <<config, saved, page, status, proc, failed>>
    BY <1>1 DEF keys_pressed, cal_Key1_irq_handler_cb, cal_Key2_irq_handler_cb, ram, store
  <2> QED
    BY <2>1 DEF IInv, InvTypes, Agree
<1>2. CASE UNCHANGED vars
  BY <1>2 DEF vars, ram, store, IInv, InvTypes, Agree
<1> QED
  BY <1>1, <1>2, HandlerKeeps, CalibrationKeeps, SaveKeeps, StartKeeps
     DEF Next, msg_proc_task, sample_task, msg_send_task

\* The invariant holds always.
LEMMA Inductive == Spec => []IInv
<1>1. Spec => Init /\ [][Next]_vars
  BY DEF Spec
<1> QED
  BY <1>1, InitInv, NextKeeps, PTL

\* When no change is pending and no save under way, a start finds in the store
\* what the tasks have in the memory, whatever changed between the pages.
THEOREM SavedAgreesAlways == Spec => []SavedAgrees
<1>1. IInv => SavedAgrees
  <2> SUFFICES ASSUME IInv, ~status, ~proc, ~Writing, ~failed
               PROVE  Settled(Start(saved)) = Settled(Start(config))
    BY DEF SavedAgrees
  <2>1. page = 6 /\ Agree(6)
    BY Pages DEF IInv, InvTypes, Writing
  <2>2. CASE ~Valid(config)
    <3>1. ~Valid(saved)
      BY <2>1, <2>2 DEF Agree, Valid
    <3>2. Start(saved) = Default /\ Start(config) = Default
      BY <2>2, <3>1 DEF Start
    <3> QED
      BY <3>2
  <2>3. CASE Valid(config)
    <3>1. Valid(saved) /\ (Ended(saved) <=> Ended(config))
      BY <2>1, <2>3 DEF Agree, Valid, Ended, IInv, InvTypes
    <3> DEFINE s == Start(saved)
               c == Start(config)
    <3>2. /\ s = [f \in Fields |-> s[f]] /\ c = [f \in Fields |-> c[f]]
          /\ s.flag = c.flag /\ s.limit = c.limit /\ s.gain = c.gain
          /\ s.bias = saved.bias /\ c.bias = config.bias
          /\ s.cal_flag = saved.cal_flag /\ c.cal_flag = config.cal_flag
      BY <2>1, <2>3, <3>1 DEF Agree, Start, Ended, IInv, InvTypes, Fields
    <3> HIDE DEF s, c
    <3>3. CASE config.cal_flag = "STR"
      BY <3>2, <3>3 DEF Settled, Fields, s, c
    <3>4. CASE config.cal_flag # "STR"
      <4>1. s.bias = c.bias /\ s.cal_flag = c.cal_flag
        BY <2>1, <3>2, <3>4 DEF Agree
      <4>2. \A f \in Fields : s[f] = c[f]
        BY <3>2, <4>1 DEF Fields
      <4> QED
        BY <3>2, <3>4, <4>2 DEF Settled, s, c
    <3> QED
      BY <3>3, <3>4
  <2> QED
    BY <2>2, <2>3
<1> QED
  BY <1>1, Inductive, PTL
----------------------------------------------------------------------------
(* The calibration.                                                        *)

Inputs == {"zero", "full"}

\* What the stages of a calibration say of offset and gain.
Good(c) ==
  /\ c.cal_flag \in {"STR", "END"} => c.bias = "zero"
  /\ c.cal_flag = "END" => c.gain = "full"

\* Samples are summed up in a stage whose key is latched.
Summing == \/ key1 /\ config.cal_flag = "DEF"
           \/ key2 /\ config.cal_flag = "STR"

\* Key 2 is latched in its stage or later, a key latched in its stage has its input
\* applied, and all samples summed up are of that input.
InvKeys ==
  /\ key1 /\ config.cal_flag = "DEF" => input = "zero"
  /\ key2 => config.cal_flag # "DEF"
  /\ key2 /\ config.cal_flag = "STR" => input = "full"
  /\ cal # <<>> => Summing
  /\ \A i \in 1 .. Len(cal) : cal[i] = input

\* While the configuration stays, the pages written are those in the memory.
InvSame ==
  Writing /\ ~mixed =>
    /\ page > 3 => saved.bias = config.bias
    /\ page > 4 => saved.gain = config.gain

InvCal ==
  /\ input \in Inputs /\ cal \in Seq(Inputs)
  /\ ~upset => InvKeys
  /\ ~upset /\ ~torn => Good(config)
  /\ ~upset /\ ~torn /\ Whole => Good(saved)
  /\ InvSame

\* The mean of samples that are all of one input is that input.
LEMMA MeanOfOne ==
  ASSUME NEW v \in Inputs, InvCal, ~upset, input = v
  PROVE  Mean(Append(cal, input)) = v
<1> DEFINE sums == Append(cal, input)
<1>1. cal \in Seq(Inputs) /\ input \in Inputs /\ \A i \in 1 .. Len(cal) : cal[i] = v
  BY DEF InvCal, InvKeys, Summing
<1>2. /\ sums \in Seq(Inputs) /\ Len(sums) = Len(cal) + 1
      /\ \A i \in 1 .. Len(cal) : sums[i] = cal[i]
      /\ sums[Len(cal) + 1] = input
  BY <1>1, AppendProperties
<1> HIDE DEF sums
<1>3. \A i \in DOMAIN sums : sums[i] = v
  BY <1>1, <1>2
<1>4. 1 \in DOMAIN sums /\ Head(sums) = v
  BY <1>1, <1>2, <1>3
<1>5. ToSet(sums) = {v}
  BY <1>3, <1>4 DEF ToSet
<1> QED
  BY <1>4, <1>5 DEF Mean, sums

\* At the start nothing is calibrated.
LEMMA CalInit == Init => InvCal
  BY Pages DEF Init, InvCal, InvKeys, Summing, InvSame, Inputs, Good, Whole, Writing, Default

\* A change during a save makes it a mixed one, and one outside leaves the store.
LEMMA ChangeMixes ==
  ASSUME InvSame, UNCHANGED <<saved, page, failed>>, NEW c, Changed(c)
  PROVE  InvSame' /\ (Whole' => Whole)
<1>1. Writing' <=> Writing
  BY DEF Writing
<1>2. mixed' <=> (mixed \/ Writing)
  BY DEF Changed
<1> QED
  BY <1>1, <1>2 DEF InvSame, Whole

\* The host's requests touch the calibration by a clear only.
LEMMA CalHandler ==
  IInv /\ InvCal /\ (kt_SetVolt \/ kt_ClearData \/ kt_ClearConfig \/ ProcMark) => InvCal'
<1> SUFFICES ASSUME IInv, InvCal, kt_SetVolt \/ kt_ClearData \/ kt_ClearConfig \/ ProcMark
             PROVE  InvCal'
  OBVIOUS
<1>1. UNCHANGED <<saved, page, failed, input, key1, key2, cal, torn>>
  BY DEF kt_SetVolt, kt_ClearData, kt_ClearConfig, ProcMark, keys, store
<1>2. CASE kt_SetVolt \/ kt_ClearData
  <2>1. /\ config'.cal_flag = config.cal_flag /\ config'.bias = config.bias
        /\ config'.gain = config.gain /\ upset' = upset
    BY <1>2 DEF kt_SetVolt, kt_ClearData, SetLimit, Changed, IInv, InvTypes, Fields
  <2>2. \E c : Changed(c)
    BY <1>2 DEF kt_SetVolt, kt_ClearData, SetLimit
  <2>3. InvSame' /\ (Whole' => Whole)
    BY <1>1, <2>2, ChangeMixes DEF InvCal
  <2> QED
    BY <1>1, <2>1, <2>3 DEF InvCal, InvKeys, Summing, Good
<1>3. CASE kt_ClearConfig
  <2>1. config' = Zeroed /\ (upset' <=> (upset \/ key1 \/ key2 \/ cal # <<>>))
    BY <1>3 DEF kt_ClearConfig, Changed
  <2>2. InvSame' /\ (Whole' => Whole)
    BY <1>1, <1>3, ChangeMixes DEF InvCal, kt_ClearConfig
  <2>3. Good(config)'
    BY <2>1 DEF Good, Zeroed
  <2> QED
    BY <1>1, <2>1, <2>2, <2>3 DEF InvCal, InvKeys, Summing, Good
<1>4. CASE ProcMark
  <2>1. UNCHANGED <<config, upset, mixed>>
    BY <1>4 DEF ProcMark, store
  <2> QED
    BY <1>1, <2>1 DEF InvCal, InvKeys, Summing, InvSame, Good, Whole, Writing
<1> QED
  BY <1>2, <1>3, <1>4

\* A key in its stage begins to sum up samples of its own input; at another stage
\* it disturbs no sample.
LEMMA CalKey == InvCal /\ keys_pressed => InvCal'
<1> SUFFICES ASSUME InvCal, keys_pressed PROVE InvCal'
  OBVIOUS
<1>1. UNCHANGED <<config, saved, page, failed, mixed, cal, torn>> /\ (upset => upset')
  <2>1. cal_Key1_irq_handler_cb => upset' = upset
    BY DEF cal_Key1_irq_handler_cb
  <2>2. cal_Key2_irq_handler_cb => (upset => upset')
    BY Zenon DEF cal_Key2_irq_handler_cb
  <2>3. UNCHANGED <<config, saved, page, failed, mixed, cal, torn>>
    BY DEF keys_pressed, cal_Key1_irq_handler_cb, cal_Key2_irq_handler_cb, ram, store
  <2> QED
    BY <2>1, <2>2, <2>3 DEF keys_pressed
<1>2. input' \in Inputs
  BY DEF keys_pressed, cal_Key1_irq_handler_cb, cal_Key2_irq_handler_cb, Inputs, InvCal
<1>3. ASSUME ~upset' PROVE InvKeys'
  <2>1. InvKeys
    BY <1>1, <1>3 DEF InvCal
  <2>2. CASE cal_Key1_irq_handler_cb
    <3>1. key1' /\ key2' = key2 /\ input' = IF config.cal_flag = "DEF" THEN "zero" ELSE input
      BY <2>2 DEF cal_Key1_irq_handler_cb
    <3>2. cal # <<>> => input' = input
      BY <2>1, <3>1 DEF InvKeys, Summing
    <3> QED
      BY <1>1, <2>1, <3>1, <3>2 DEF InvKeys, Summing
  <2>3. CASE cal_Key2_irq_handler_cb
    <3>1. /\ key2' /\ key1' = key1 /\ config.cal_flag # "DEF"
          /\ input' = IF config.cal_flag = "STR" THEN "full" ELSE input
      BY <1>3, <2>3 DEF cal_Key2_irq_handler_cb
    <3>2. cal # <<>> => input' = input
      BY <2>1, <3>1 DEF InvKeys, Summing
    <3> QED
      BY <1>1, <2>1, <3>1, <3>2 DEF InvKeys, Summing
  <2> QED
    BY <2>2, <2>3 DEF keys_pressed
<1> QED
  BY <1>1, <1>2, <1>3 DEF InvCal, InvSame, Good, Whole, Writing

\* A sample is summed up, or it ends a stage with the mean of one input.
LEMMA CalSample == IInv /\ InvCal /\ (cal_bias_zero \/ cal_bias_full) => InvCal'
<1> SUFFICES ASSUME IInv, InvCal, cal_bias_zero \/ cal_bias_full PROVE InvCal'
  OBVIOUS
<1> USE DEF Summing
<1> DEFINE sums == Append(cal, input)
<1>1. UNCHANGED <<saved, page, failed, input, torn, upset>> /\ Summing
  BY DEF cal_bias_zero, cal_bias_full
<1>2. /\ cal \in Seq(Inputs) /\ input \in Inputs
      /\ sums \in Seq(Inputs) /\ Len(sums) = Len(cal) + 1 /\ sums # <<>>
      /\ \A i \in 1 .. Len(cal) : sums[i] = cal[i]
      /\ sums[Len(cal) + 1] = input
  BY AppendProperties DEF InvCal
<1> HIDE DEF sums
<1>3. CASE cal' = sums /\ UNCHANGED <<config, mixed, key1, key2>>
  <2>1. ASSUME InvKeys PROVE InvKeys'
    <3>1. \A i \in 1 .. Len(sums) : sums[i] = input
      BY <1>2, <2>1 DEF InvKeys, Summing
    <3> QED
      BY <1>1, <1>3, <2>1, <3>1 DEF InvKeys, Summing
  <2> QED
    BY <1>1, <1>2, <1>3, <2>1 DEF InvCal, InvSame, Good, Whole, Writing
<1>4. CASE /\ cal_bias_zero /\ ~key1' /\ key2' = key2 /\ cal' = <<>>
           /\ Changed([config EXCEPT !.bias = Mean(sums), !.cal_flag = "STR"])
  <2>1. /\ config'.bias = Mean(sums) /\ config'.cal_flag = "STR"
        /\ key1 /\ config.cal_flag = "DEF"
    BY <1>4 DEF Changed, cal_bias_zero, IInv, InvTypes, Fields
  <2>2. InvSame' /\ (Whole' => Whole)
    BY <1>1, <1>4, ChangeMixes DEF InvCal
  <2>3. ASSUME ~upset PROVE InvKeys' /\ Mean(sums) = "zero"
    <3>1. input = "zero" /\ ~key2
      BY <2>1, <2>3 DEF InvCal, InvKeys, Summing
    <3>2. Mean(sums) = "zero"
      BY <2>1, <2>3, <3>1, MeanOfOne DEF sums, Inputs
    <3> QED
      BY <1>4, <3>1, <3>2 DEF InvKeys, Summing
  <2>4. cal' \in Seq(Inputs)
    BY <1>4
  <2> QED
    BY <1>1, <1>2, <2>1, <2>2, <2>3, <2>4 DEF InvCal, Good
<1>5. CASE /\ cal_bias_full /\ ~key2' /\ key1' = key1 /\ cal' = <<>>
           /\ Changed([config EXCEPT !.gain = Gain(sums), !.cal_flag = "END"])
  <2>1. /\ config'.bias = config.bias /\ config'.gain = Gain(sums)
        /\ config'.cal_flag = "END" /\ key2 /\ config.cal_flag = "STR"
    BY <1>5 DEF Changed, cal_bias_full, IInv, InvTypes, Fields
  <2>2. InvSame' /\ (Whole' => Whole)
    BY <1>1, <1>5, ChangeMixes DEF InvCal
  <2>3. ASSUME ~upset PROVE InvKeys' /\ Mean(sums) = "full"
    <3>1. input = "full"
      BY <2>1, <2>3 DEF InvCal, InvKeys, Summing
    <3>2. Mean(sums) = "full"
      BY <2>1, <2>3, <3>1, MeanOfOne DEF sums, Inputs
    <3> QED
      BY <1>5, <2>1, <3>1, <3>2 DEF InvKeys, Summing
  <2>4. cal' \in Seq(Inputs)
    BY <1>5
  <2>5. ASSUME ~upset, ~torn PROVE Good(config)'
    <3>1. config.bias = "zero"
      BY <2>1, <2>5 DEF InvCal, Good
    <3> QED
      BY <2>1, <2>3, <2>5, <3>1 DEF Good, Gain
  <2> QED
    BY <1>1, <1>2, <2>2, <2>3, <2>4, <2>5 DEF InvCal, Good
<1> QED
  BY <1>3, <1>4, <1>5 DEF cal_bias_zero, cal_bias_full, ClearSums, sums

\* A save that nothing disturbs copies a calibration as it is.
LEMMA CalSave == IInv /\ InvCal /\ (SaveBegin \/ fm24c_write) => InvCal'
<1> SUFFICES ASSUME IInv, InvCal, SaveBegin \/ fm24c_write PROVE InvCal'
  OBVIOUS
<1>1. UNCHANGED <<config, input, key1, key2, cal, torn, upset>>
  BY DEF SaveBegin, fm24c_write, keys, ram
<1>2. InvKeys => InvKeys'
  BY <1>1 DEF InvKeys, Summing
<1>3. Good(config) => Good(config)'
  BY <1>1 DEF Good
<1>4. CASE SaveBegin
  <2>1. page' = 1 /\ Writing'
    BY <1>4, Pages DEF SaveBegin, Writing
  <2> QED
    BY <1>1, <1>2, <1>3, <2>1 DEF InvCal, InvSame, Whole
<1>5. CASE fm24c_write /\ failed'
  <2>1. page' = page + 1 \/ page' = Idle
    BY <1>5 DEF fm24c_write
  <2>2. InvSame'
    <3>1. CASE page' = Idle
      BY <3>1, Pages DEF InvSame, Writing
    <3>2. CASE page' # Idle
      <4>1. saved' = Written /\ page' = page + 1 /\ mixed' = mixed
        BY <1>5, <3>2 DEF fm24c_write
      <4>2. page \in 1 .. 6 /\ Writing
        BY <1>5 DEF IInv, InvTypes, fm24c_write
      <4>3. \A f \in Fields : Written[f] = IF f \in Page[page] THEN config[f] ELSE saved[f]
        BY DEF Written, IInv, InvTypes
      <4> QED
        BY <1>1, <4>1, <4>2, <4>3, Pages DEF InvCal, InvSame, Fields, Writing
    <3> QED
      BY <3>1, <3>2
  <2> QED
    BY <1>1, <1>2, <1>3, <1>5, <2>2 DEF InvCal, Whole
<1>6. CASE fm24c_write /\ ~failed'
  <2>1. /\ saved' = Written /\ page' = page + 1 /\ failed' = failed /\ mixed' = mixed
        /\ Writing
    BY <1>6 DEF fm24c_write
  <2>2. page \in 1 .. 5
    BY <2>1, Pages DEF IInv, InvTypes, Writing
  <2>3. \A f \in Fields : Written[f] = IF f \in Page[page] THEN config[f] ELSE saved[f]
    BY DEF Written, IInv, InvTypes
  <2>4. InvSame'
    BY <1>1, <2>1, <2>2, <2>3, Pages DEF InvCal, InvSame, Fields, Writing
  <2>5. ASSUME Whole', Good(config) PROVE Good(saved)'
    <3>1. page = 5 /\ ~mixed
      BY <2>1, <2>2, <2>5, Pages DEF Whole, Writing
    <3>2. saved.bias = config.bias /\ saved.gain = config.gain
      BY <2>1, <3>1 DEF InvCal, InvSame
    <3>3. /\ Written.bias = config.bias /\ Written.gain = config.gain
          /\ Written.cal_flag = config.cal_flag
      BY <2>3, <3>1, <3>2, Pages DEF Fields
    <3> QED
      BY <2>1, <2>5, <3>3 DEF Good
  <2> QED
    BY <1>1, <1>2, <1>3, <2>4, <2>5 DEF InvCal
<1> QED
  BY <1>4, <1>5, <1>6

\* A start from one whole configuration goes on with its calibration; one from
\* the defaults begins anew.
LEMMA CalStart == IInv /\ InvCal /\ system_init => InvCal'
<1> SUFFICES ASSUME IInv, InvCal, system_init PROVE InvCal'
  OBVIOUS
<1>1. /\ saved' = saved /\ input' = input
      /\ ~key1' /\ ~key2' /\ cal' = <<>>
  BY DEF system_init
<1>2. cal' \in Seq(Inputs) /\ InvKeys'
  BY <1>1 DEF InvKeys, Summing
<1>3. PICK n \in 0 .. Len(Page) :
        /\ config' = Start(ReadPages(n))
        /\ IF Valid(ReadPages(n))
           THEN /\ page' = Idle
                /\ torn' <=> (torn \/ ~Whole \/ n < Len(Page))
                /\ UNCHANGED upset
           ELSE page' = 1
  BY DEF system_init
<1>4. CASE ~Valid(ReadPages(n))
  <2>1. config' = Default /\ page' = 1 /\ Writing'
    BY <1>3, <1>4, Pages DEF Start, Writing
  <2> QED
    BY <1>1, <1>2, <2>1 DEF InvCal, InvSame, Good, Default, Whole
<1>5. CASE Valid(ReadPages(n))
  <2>1. page' = Idle /\ InvSame'
    BY <1>3, <1>5, Pages DEF InvSame, Writing
  <2>2. ASSUME ~torn', ~upset' PROVE Good(saved) /\ Good(config)'
    <3>1. ~torn /\ ~upset /\ Whole /\ n = 5
      BY <1>3, <1>5, <2>2, Pages
    <3>2. \A f \in Fields : ReadPages(n)[f] = saved[f]
      <4>1. \A f \in Fields : \E p \in 1 .. 5 : f \in Page[p]
        BY Pages DEF Fields
      <4> QED
        BY <3>1, <4>1 DEF ReadPages, IInv, InvTypes
    <3>3. DOMAIN ReadPages(n) = Fields
      BY DEF ReadPages, IInv, InvTypes
    <3>4. /\ config'.cal_flag = saved.cal_flag /\ config'.bias = saved.bias
          /\ config'.gain = saved.gain
      BY <1>3, <1>5, <3>2, <3>3 DEF Start, Fields
    <3> QED
      BY <3>1, <3>4 DEF InvCal, Good
  <2>3. Good(saved) => Good(saved)'
    BY <1>1 DEF Good
  <2> QED
    BY <1>1, <1>2, <2>1, <2>2, <2>3 DEF InvCal
<1> QED
  BY <1>4, <1>5

\* A device that samples was calibrated in the order of its two stages and with
\* the right inputs, over any number of saves and starts that nothing disturbed.
THEOREM CalibratedAlways == Spec => []Calibrated
<1>1. IInv /\ InvCal /\ [Next]_vars => InvCal'
  <2> SUFFICES ASSUME IInv, InvCal, [Next]_vars PROVE InvCal'
    OBVIOUS
  <2>1. CASE UNCHANGED vars
    BY <2>1 DEF vars, ram, store, keys, InvCal, InvKeys, Summing, InvSame, Good, Whole, Writing
  <2> QED
    BY <2>1, CalHandler, CalKey, CalSample, CalSave, CalStart
       DEF Next, msg_proc_task, sample_task, msg_send_task
<1>2. InvCal => Calibrated
  BY DEF InvCal, Calibrated, Sampling, Ended, Good
<1>3. Spec => Init /\ [][Next]_vars
  BY DEF Spec
<1> QED
  BY <1>1, <1>2, <1>3, CalInit, Inductive, PTL
----------------------------------------------------------------------------
(* The types.                                                              *)

Flags == {"none", "FIRST_ON", "NEXT_ON"}

InvFlags ==
  /\ {config.flag, saved.flag} \subseteq Flags
  /\ cal \in Seq(Inputs) /\ input \in Inputs /\ Len(cal) < CalLen
  /\ ~up => ~status /\ ~proc

\* What system_init makes of pages of the store has a flag of its own.
LEMMA FlagsAtStart ==
  ASSUME IInv, InvFlags, NEW n \in 0 .. Len(Page)
  PROVE  Start(ReadPages(n)).flag \in Flags
<1> DEFINE r == ReadPages(n)
<1>1. r = [f \in Fields |-> r[f]] /\ r.flag \in {saved.flag, "none"}
  BY DEF ReadPages, IInv, InvTypes, Fields, Zeroed
<1> HIDE DEF r
<1>2. r.flag \in Flags
  BY <1>1 DEF InvFlags, Flags
<1>3. Start(r).flag \in Flags
  BY <1>1, <1>2 DEF Start, Default, Fields, Flags
<1> QED
  BY <1>3 DEF r

\* A sample is summed up only while there are fewer than a calibration takes.
LEMMA SumsBounded ==
  InvFlags /\ (cal_bias_zero \/ cal_bias_full)
    => cal' \in Seq(Inputs) /\ Len(cal') < CalLen
<1> SUFFICES ASSUME InvFlags, cal_bias_zero \/ cal_bias_full
             PROVE  cal' \in Seq(Inputs) /\ Len(cal') < CalLen
  OBVIOUS
<1> DEFINE sums == Append(cal, input)
<1>1. sums \in Seq(Inputs)
  BY AppendProperties DEF InvFlags
<1>2. (Collecting(sums) /\ cal' = sums) \/ cal' = <<>>
  BY DEF cal_bias_zero, cal_bias_full, ClearSums
<1> HIDE DEF sums
<1>3. CASE Collecting(sums) /\ cal' = sums
  BY <1>1, <1>3 DEF Collecting
<1>4. CASE cal' = <<>>
  <2>1. Len(cal') = 0 /\ cal' \in Seq(Inputs)
    BY <1>4
  <2> QED
    BY <2>1, ConfigStoreAssumption
<1> QED
  BY <1>2, <1>3, <1>4

\* Every step keeps the types.
LEMMA FlagsKept == IInv /\ InvFlags /\ [Next]_vars => InvFlags'
<1> SUFFICES ASSUME IInv, InvFlags, [Next]_vars PROVE InvFlags'
  OBVIOUS
<1>1. CASE kt_SetVolt \/ kt_ClearData \/ kt_ClearConfig \/ ProcMark
  <2>1. up /\ UNCHANGED <<saved, up, input, cal>>
    BY <1>1 DEF kt_SetVolt, kt_ClearData, kt_ClearConfig, ProcMark, keys, store
  <2>2. config'.flag \in {config.flag, "FIRST_ON", "none"}
    BY <1>1 DEF kt_SetVolt, kt_ClearData, kt_ClearConfig, ProcMark, SetLimit, Changed,
       Zeroed, IInv, InvTypes, Fields
  <2> QED
    BY <2>1, <2>2 DEF InvFlags, Flags
<1>2. CASE cal_bias_zero \/ cal_bias_full
  <2>1. up /\ UNCHANGED <<saved, up, input>>
    BY <1>2 DEF cal_bias_zero, cal_bias_full
  <2>2. config'.flag = config.flag
    BY <1>2 DEF cal_bias_zero, cal_bias_full, Changed, IInv, InvTypes, Fields
  <2> QED
    BY <1>2, <2>1, <2>2, SumsBounded DEF InvFlags
<1>3. CASE SaveBegin
  BY <1>3 DEF SaveBegin, InvFlags, keys
<1>4. CASE fm24c_write
  <2>1. saved' \in {saved, Written} /\ UNCHANGED <<config, input, cal, status, proc>>
    BY <1>4 DEF fm24c_write, ram, keys
  <2>2. up => up'
    BY <1>4, Zenon DEF fm24c_write
  <2>3. Written.flag \in {config.flag, saved.flag}
    BY DEF Written, IInv, InvTypes, Fields
  <2> QED
    BY <2>1, <2>2, <2>3 DEF InvFlags
<1>5. CASE system_init
  <2>1. config'.flag \in Flags
    BY <1>5, FlagsAtStart DEF system_init
  <2>2. ~status' /\ ~proc' /\ cal' = <<>> /\ UNCHANGED <<saved, input>>
    BY <1>5 DEF system_init
  <2>3. cal' \in Seq(Inputs) /\ Len(cal') < CalLen
    BY <2>2, ConfigStoreAssumption
  <2> QED
    BY <2>1, <2>2, <2>3 DEF InvFlags
<1>6. CASE keys_pressed
  <2>1. UNCHANGED <<config, saved, up, status, proc, cal>> /\ input' \in Inputs
    BY <1>6 DEF keys_pressed, cal_Key1_irq_handler_cb, cal_Key2_irq_handler_cb, ram,
       store, Inputs, InvFlags
  <2> QED
    BY <2>1 DEF InvFlags
<1>7. CASE UNCHANGED vars
  BY <1>7 DEF vars, ram, store, keys, InvFlags
<1> QED
  BY <1>1, <1>2, <1>3, <1>4, <1>5, <1>6, <1>7
     DEF Next, msg_proc_task, sample_task, msg_send_task

\* Flags stay flags, samples of a calibration are never more than it takes, and
\* before the tasks run no change is pending.
THEOREM TypesKept == Spec => []TypeOK
<1>1. Init => InvFlags
  <2> SUFFICES ASSUME Init PROVE InvFlags
    OBVIOUS
  <2>1. cal \in Seq(Inputs) /\ Len(cal) = 0
    BY DEF Init
  <2> QED
    BY <2>1, ConfigStoreAssumption DEF Init, InvFlags, Flags, Inputs, Default, Zeroed
<1>2. IInv /\ InvFlags => TypeOK
  BY Pages DEF IInv, InvTypes, InvFlags, Flags, TypeOK
<1>3. Spec => Init /\ [][Next]_vars
  BY DEF Spec
<1> QED
  BY <1>1, <1>2, <1>3, FlagsKept, Inductive, PTL
=============================================================================
