-------------------------- MODULE MCScheduleTicker --------------------------
(* Instances of ScheduleTicker for TLC. *)
EXTENDS ScheduleTicker, TLC

CONSTANTS s1, s2

\* A cycle on every day.
Daily == [d \in Days |-> d + 1]
\* One schedule runs on both days, the other on the first only.
Starts == (s1 :> 1 @@ s2 :> 1)
Ends == (s1 :> 0 @@ s2 :> 1)
=============================================================================
