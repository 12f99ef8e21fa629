------------------------------ MODULE Delivery ------------------------------
(***************************************************************************)
(* What the request pipeline of src/app/msg_parse.c promises a host that   *)
(* asks for stored seconds: they are answered in the order they were asked *)
(* for, none of them twice; some may be lost on the way.  A second is the  *)
(* number of its internal request, so the order is that of the numbers.    *)
(***************************************************************************)
EXTENDS Naturals

VARIABLES waiting, \* seconds asked for and not yet answered
          given    \* the last one answered

Init == waiting = {} /\ given = 0

Ask ==
  \E s \in waiting' :
    /\ \A t \in waiting \cup {given} : t < s
    /\ waiting' = waiting \cup {s} /\ UNCHANGED given

Lose == \E s \in waiting : waiting' = waiting \ {s} /\ UNCHANGED given

Answer ==
  /\ given' \in waiting /\ \A s \in waiting : given' <= s
  /\ waiting' = waiting \ {given'}

Next == Ask \/ Lose \/ Answer
Spec == Init /\ [][Next]_<<waiting, given>>
=============================================================================
