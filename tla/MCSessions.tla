------------------------------ MODULE MCSessions ------------------------------
(***************************************************************************)
(* Two agents, one of which may be tried again, with one disturbance of    *)
(* any kind at any time.                                                   *)
(***************************************************************************)
EXTENDS PhaseSession

CONSTANTS first, second

Workers == {first, second}

Tries == [a \in Workers |-> IF a = first THEN 2 ELSE 1]

=============================================================================
