----------------------------- MODULE SampleFifo -----------------------------
(***************************************************************************)
(* What the sample cache of src/app/adc_sample.c promises: a queue of at   *)
(* most CacheLen samples.  A sample that does not fit is refused, what is  *)
(* read comes out once and in the order it went in, and a call that does   *)
(* not obtain the mutex changes nothing.                                   *)
(***************************************************************************)
EXTENDS Naturals, Sequences

CONSTANTS Items,    \* samples
          CacheLen, \* capacity
          Lens      \* lengths of the batches a caller asks for

VARIABLES fifo, \* the samples held, oldest first
          out   \* what the last call returned to its caller

AtMost(n, m) == IF n < m THEN n ELSE m

Init == fifo = <<>> /\ out = <<>>

\* As many samples of a batch as fit are taken.
Put(data) ==
  /\ fifo' = fifo \o SubSeq(data, 1, AtMost(Len(data), CacheLen - Len(fifo)))
  /\ out' = <<>>

Take(n) ==
  /\ out' = SubSeq(fifo, 1, AtMost(n, Len(fifo)))
  /\ fifo' = SubSeq(fifo, AtMost(n, Len(fifo)) + 1, Len(fifo))

Clear == fifo' = <<>> /\ out' = <<>>

Refuse == out' = <<>> /\ UNCHANGED fifo

Next ==
  \/ \E n \in Lens \cup {1} : Take(n) \/ \E data \in [1..n -> Items] : Put(data)
  \/ Clear \/ Refuse

Spec == Init /\ [][Next]_<<fifo, out>>
=============================================================================
