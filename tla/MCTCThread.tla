------------------------------ MODULE MCTCThread ------------------------------
(* TC_Thread with the application threads c1, c2 calling start().         *)
EXTENDS TCThread

CONSTANTS c1, c2

OneCaller == {c1}
TwoCallers == {c1, c2}
===============================================================================
