---------------------------- MODULE ConfigStore ----------------------------
(***************************************************************************)
(* The configuration g_ConfigInfo, its copy in the FM24C02 and the         *)
(* calibration that is part of it (src/app/msg_parse.c,                    *)
(* src/app/adc_sample.c, src/BSP/src/BSP_FM24C02.c).                       *)
(*                                                                         *)
(* Msg_proc_task changes the configuration and sets g_config_status        *)
(* afterwards; msg_send_task clears it and writes the structure in pages   *)
(* of 16 bytes; the other tasks change it meanwhile.                       *)
(* There is no lock, no check sum, and nobody looks at the result of a     *)
(* transfer.  A page keeps its old or gets its new contents.               *)
(*                                                                         *)
(* One value stands for the fields that are set alike: the limits, the     *)
(* offsets, the gains.  A limit is its default or set by the host.  What a *)
(* calibration yields is told apart by the input it measured.  The         *)
(* position in the storage, which is part of the structure too, is in      *)
(* AdcStorage and AlarmStorage.                                            *)
(***************************************************************************)
EXTENDS Integers, Sequences, SequencesExt

CONSTANTS
  CalLen,   \* samples of a calibration, 100
  MaxEvents \* bound: starts, failed transfers and clears of the configuration

ASSUME ConfigStoreAssumption == CalLen \in Nat \ {0} /\ MaxEvents \in Nat

VARIABLES
  config,     \* g_ConfigInfo
  status,     \* g_config_status
  saved,      \* the contents of the FM24C02
  page,       \* the page msg_send_task or system_init writes next
  up,         \* the tasks run
  proc,       \* msg_proc_task has yet to set the status
  input,      \* what is at the sensor inputs
  key1, key2, \* g_cal_key1_status, g_cal_key2_status
  cal,        \* g_cal: the samples summed up
  events,     \* starts, failed transfers and clears of the configuration so far
  failed,     \* history: the last transfer failed
  mixed,      \* history: the configuration changed during the last save
  torn,       \* history: started from what was not one configuration
  upset       \* history: key 2 was pressed before its stage, or the
              \* configuration cleared with a key latched or amid a calibration

ram == <<config, status, proc>>
store == <<saved, page, events, failed, mixed>>
keys == <<key1, key2, cal>>
vars == <<ram, store, up, input, keys, torn, upset>>

\* The fields by page, in the order of ConfigInfo_t.
Page == <<{"flag"}, {"limit"}, {"bias"}, {"gain"}, {"cal_flag"}>>
Idle == Len(Page) + 1
Writing == page < Idle

Zeroed == [flag |-> "none", limit |-> "none", bias |-> "none",
           gain |-> "none", cal_flag |-> "DEF"]
Default == [flag |-> "FIRST_ON", limit |-> "def", bias |-> "none",
            gain |-> "one", cal_flag |-> "DEF"]

Valid(c) == c.flag \in {"FIRST_ON", "NEXT_ON"}
Ended(c) == c.cal_flag = "END"
Sampling == config.flag = "NEXT_ON" /\ Ended(config)

\* What system_init makes of a configuration it has read.
Start(c) ==
  IF ~Valid(c) THEN Default
  ELSE [c EXCEPT !.flag = IF Ended(c) THEN "NEXT_ON" ELSE @]

Changed(c) == config' = c /\ mixed' = (mixed \/ Writing)
----------------------------------------------------------------------------
(* Changes: msg_proc_task.                                                 *)

Mut_SetLimit(c) == Changed(c) /\ UNCHANGED proc
SetLimit(c) == Changed(c) /\ proc' = TRUE

kt_SetVolt ==
  /\ up /\ ~proc
  /\ SetLimit([config EXCEPT !.limit = "set"])
  /\ UNCHANGED <<status, saved, page, events, failed, up, input, keys, torn, upset>>

kt_ClearData ==
  /\ up /\ ~proc
  /\ Changed([config EXCEPT !.flag = "FIRST_ON"]) /\ proc' = TRUE
  /\ UNCHANGED <<status, saved, page, events, failed, up, input, keys, torn, upset>>

kt_ClearConfig ==
  /\ up /\ ~proc /\ events < MaxEvents /\ events' = events + 1
  /\ Changed(Zeroed) /\ proc' = TRUE
  /\ upset' = (upset \/ key1 \/ key2 \/ cal # <<>>)
  /\ UNCHANGED <<status, saved, page, failed, up, input, keys, torn>>

\* The handler gets to g_config_status = 1, for a clear after the erase.
ProcMark ==
  /\ up /\ proc /\ proc' = FALSE /\ status' = TRUE
  /\ UNCHANGED <<config, store, up, input, keys, torn, upset>>
----------------------------------------------------------------------------
(* The calibration: the key interrupts and sample_task.                    *)

\* The key is latched whatever the stage.  The operator applies the input of a
\* stage with its key; pressed at another stage a key changes no input.
cal_Key1_irq_handler_cb ==
  /\ up /\ key1' = TRUE
  /\ input' = (IF config.cal_flag = "DEF" THEN "zero" ELSE input)
  /\ UNCHANGED <<ram, store, up, key2, cal, torn, upset>>

\* Key 2 before the offset is measured starts the second stage with the first.
cal_Key2_irq_handler_cb ==
  /\ up /\ key2' = TRUE
  /\ input' = (IF config.cal_flag = "STR" THEN "full" ELSE input)
  /\ upset' = (upset \/ config.cal_flag = "DEF")
  /\ UNCHANGED <<ram, store, up, key1, cal, torn>>

\* The mean of the samples summed up, if all are of one input.
Mean(s) == IF ToSet(s) = {Head(s)} THEN Head(s) ELSE "bad"

Mut_Collecting(sums) == Len(sums) <= CalLen
Collecting(sums) == Len(sums) < CalLen

Mut_ClearSums == UNCHANGED cal
ClearSums == cal' = <<>>

\* The offset alone does not set g_config_status.
cal_bias_zero ==
  /\ up /\ ~Sampling /\ key1 /\ config.cal_flag = "DEF"
  /\ LET sums == Append(cal, input)
     IN IF Collecting(sums)
        THEN cal' = sums /\ UNCHANGED <<config, mixed, key1>>
        ELSE /\ key1' = FALSE /\ ClearSums
             /\ Changed([config EXCEPT !.bias = Mean(sums), !.cal_flag = "STR"])
  /\ UNCHANGED <<status, proc, saved, page, events, failed, up, input, key2, torn, upset>>

Mut_FullStatus == UNCHANGED status
FullStatus == status' = TRUE

\* The gain is right if it was taken at full scale and from a right offset.
Gain(s) == IF Mean(s) = "full" /\ config.bias = "zero" THEN "full" ELSE "bad"

cal_bias_full ==
  /\ up /\ ~Sampling /\ key2 /\ config.cal_flag = "STR"
  /\ LET sums == Append(cal, input)
     IN IF Collecting(sums)
        THEN cal' = sums /\ UNCHANGED <<config, status, mixed, key2>>
        ELSE /\ key2' = FALSE /\ ClearSums /\ FullStatus
             /\ Changed([config EXCEPT !.gain = Gain(sums), !.cal_flag = "END"])
  /\ UNCHANGED <<proc, saved, page, events, failed, up, input, key1, torn, upset>>
----------------------------------------------------------------------------
(* The save: msg_send_task once a second, system_init the first time.      *)

\* The status is cleared first, so that a change during the save sets it again.
SaveBegin ==
  /\ up /\ status /\ ~Writing
  /\ status' = FALSE /\ page' = 1 /\ failed' = FALSE /\ mixed' = FALSE
  /\ UNCHANGED <<config, proc, saved, events, up, input, keys, torn, upset>>

Written == [f \in DOMAIN saved |-> IF f \in Page[page] THEN config[f] ELSE saved[f]]

fm24c_write ==
  /\ Writing
  /\ \/ /\ saved' = Written /\ page' = page + 1 /\ UNCHANGED <<events, failed>>
     \/ /\ events < MaxEvents /\ events' = events + 1
        /\ saved' \in {saved, Written} /\ page' = Idle /\ failed' = TRUE
  /\ up' = (up \/ page' = Idle)
  /\ UNCHANGED <<ram, mixed, input, keys, torn, upset>>
----------------------------------------------------------------------------
(* Power fails; system_init.  A transfer that fails leaves the rest of the *)
(* configuration zero, and a configuration without a flag is replaced.     *)

Whole == ~Writing /\ ~failed /\ ~mixed

ReadPages(n) ==
  [f \in DOMAIN saved |-> IF \E p \in 1..n : f \in Page[p] THEN saved[f] ELSE Zeroed[f]]

system_init ==
  /\ events < MaxEvents /\ events' = events + 1
  /\ \E n \in 0 .. Len(Page) :
       /\ config' = Start(ReadPages(n))
       /\ IF Valid(ReadPages(n))
          THEN /\ up' = TRUE /\ page' = Idle
               /\ torn' = (torn \/ ~Whole \/ n < Len(Page))
               /\ failed' = (failed \/ n < Len(Page))
               /\ UNCHANGED <<mixed, upset>>
          ELSE /\ up' = FALSE /\ page' = 1
               /\ failed' = FALSE /\ mixed' = FALSE /\ torn' = FALSE /\ upset' = FALSE
       /\ status' = FALSE /\ proc' = FALSE
       /\ key1' = FALSE /\ key2' = FALSE /\ cal' = <<>>
       /\ UNCHANGED <<saved, input>>
----------------------------------------------------------------------------
\* A device with an empty store.
Init ==
  /\ events = 0 /\ config = Default /\ saved = Zeroed /\ page = 1 /\ up = FALSE
  /\ status = FALSE /\ proc = FALSE
  /\ input = "zero" /\ key1 = FALSE /\ key2 = FALSE /\ cal = <<>>
  /\ failed = FALSE /\ mixed = FALSE /\ torn = FALSE /\ upset = FALSE

msg_proc_task == kt_SetVolt \/ kt_ClearData \/ kt_ClearConfig \/ ProcMark
sample_task == cal_bias_zero \/ cal_bias_full
msg_send_task == SaveBegin \/ fm24c_write
keys_pressed == cal_Key1_irq_handler_cb \/ cal_Key2_irq_handler_cb

Next ==
  \/ msg_proc_task \/ sample_task \/ msg_send_task
  \/ keys_pressed \/ system_init

\* Msg_send_task wakes once a second and a handler comes to its end.
Fairness == WF_vars(msg_send_task) /\ WF_vars(ProcMark)

Spec == Init /\ [][Next]_vars /\ Fairness
----------------------------------------------------------------------------
\* The types of the configuration, in the memory and in the store.
TypeOK ==
  /\ {config.flag, saved.flag} \subseteq {"none", "FIRST_ON", "NEXT_ON"}
  /\ {config.cal_flag, saved.cal_flag} \subseteq {"DEF", "STR", "END"}
  /\ page \in 1..Idle /\ Len(cal) < CalLen
  /\ ~up => ~status /\ ~proc

\* What a half-done calibration has not saved yet: its offset and its stage.
Settled(c) == IF config.cal_flag = "STR" THEN [c EXCEPT !.bias = "none", !.cal_flag = "DEF"] ELSE c

\* When no change is pending and no save under way, the next start finds in the
\* store what the tasks have in the memory, whatever fell between the pages of
\* the last save.
SavedAgrees ==
  up /\ ~status /\ ~proc /\ ~Writing /\ ~failed =>
    Settled(Start(saved)) = Settled(Start(config))

\* A device that samples was calibrated: its offset was measured without input
\* and its gain at full scale with that offset, unless it was started from a
\* store that a loss of power, a failed transfer or a change between two pages
\* left mixed, the configuration was cleared with a key latched or amid a
\* calibration, or key 2 was pressed before the offset was measured: that press is
\* kept, and the gain is then taken with whatever is at the inputs.
Calibrated ==
  Sampling /\ ~torn /\ ~upset => config.bias = "zero" /\ config.gain = "full"

\* A limit the host sets reaches the store, unless it is set again, power is
\* lost first or a transfer fails.
ChangeReachesStore ==
  (up /\ config.limit = "set") ~> (saved.limit = "set" \/ config.limit # "set" \/ failed)

\* A bound for TLC: a spoilt calibration is followed while it is the only thing wrong.
Bounded == upset => ~torn /\ events < 2
=============================================================================
