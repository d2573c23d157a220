---------------------------- MODULE BlockChannel ----------------------------
(***************************************************************************)
(* What the tunnels between two pools promise to the connections together: *)
(* a block that is handed over arrives at most once, in any order, or is   *)
(* gone for good.  Nothing arrives that was not handed over.               *)
(***************************************************************************)
CONSTANT Blocks

VARIABLES sent,     \* the blocks handed over
          arrived,  \* those that have come out at the other end
          gone      \* those that never will

vars == <<sent, arrived, gone>>

Init == sent = {} /\ arrived = {} /\ gone = {}

Send ==
  /\ \E blk \in Blocks \ sent : sent' = sent \cup {blk}
  /\ UNCHANGED <<arrived, gone>>

UnderWay == sent \ (arrived \cup gone)

Arrive ==
  /\ \E blk \in UnderWay : arrived' = arrived \cup {blk}
  /\ UNCHANGED <<sent, gone>>

Lose ==
  /\ \E blk \in UnderWay : gone' = gone \cup {blk}
  /\ UNCHANGED <<sent, arrived>>

Next == Send \/ Arrive \/ Lose

Spec == Init /\ [][Next]_vars
=============================================================================
