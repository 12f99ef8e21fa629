--------------------------- MODULE MCAlarmNotify ---------------------------
(* AlarmNotify for TLC.                                                    *)
EXTENDS AlarmNotify, TLC

\* The alarm types are interchangeable.
KindSymmetry == Permutations(Kinds)

\* Bounds: nothing is claimed any more once the last alarm is disturbed, and an
\* overrun saves at most one second too many.
Bounded ==
  /\ calm \/ raised < MaxAlarms
  /\ index <= SaveSeconds + 1 /\ Len(info) <= SaveSeconds + 1

\* A second in which no alarm can be raised any more counts as 0.
Alarmable(t) ==
  IF raised < MaxAlarms /\ boot_ts <= t /\ t <= LastAlarmSec THEN t ELSE 0

\* The view of safety runs with ClockJumps: a task's local variables count only
\* where the task still reads them, the clock as far as alarms depend on it.
Live ==
  <<notify, queue, sem, relay, armed, ts_pc, al_pc, flash, raised, calm,
    boot_ts, Alarmable(rtc), Alarmable(sec),
    ts_idx, al_idx, al_rec,
    IF al_pc \in {"wait", "drain"} THEN NoMsg ELSE al_msg>>

\* Bound of the liveness run: after the last alarm the sampler counts no more and nothing
\* is cleared by request.
Sampled == raised < MaxAlarms \/ UNCHANGED <<num, sec, armed>>
=============================================================================
