----------------------------- MODULE Recording -----------------------------
(***************************************************************************)
(* What the recording of src/app/storage_manage.c promises a host, until   *)
(* its ring is full: the seconds stored can be read and no others can, they*)
(* are recorded in the order of the clock, and a loss of power takes only  *)
(* the last ones, a bounded number of them unless the saving is late.      *)
(***************************************************************************)
EXTENDS Naturals, FiniteSets

CONSTANT MaxLoss \* seconds a loss of power takes at most

VARIABLES held, \* the seconds that can be read
          safe, \* those that a start will find
          late  \* a save did not come when it was due

Init == held = {} /\ safe = {} /\ late = FALSE

\* A second is recorded, or one with the time stamp of the last.
Record ==
  /\ UNCHANGED safe /\ (late => late')
  /\ held' = held \/ \E s \in held' : held' = held \cup {s} /\ \A t \in held : t < s
  /\ ~late' => Cardinality(held' \ safe) <= MaxLoss

Save ==
  /\ UNCHANGED held /\ late' = FALSE
  /\ safe \subseteq safe' /\ safe' \subseteq held
  /\ \A s \in safe' : \A t \in held \ safe' : s < t

PowerFails == held' = safe /\ UNCHANGED safe /\ late' = FALSE

Clear == held' = {} /\ safe' = {}

\* The ring is full: its first seconds are overwritten next, and no more is
\* promised until a clear, or a start from before it was full.
Full == held' = {} /\ UNCHANGED safe

Next == Record \/ Save \/ PowerFails \/ Clear \/ Full
Spec == Init /\ [][Next]_<<held, safe, late>>
=============================================================================
