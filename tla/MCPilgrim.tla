------------------------------ MODULE MCPilgrim ------------------------------
(* Instances of Pilgrim for TLC.                                           *)
EXTENDS Pilgrim

Allow(a, w, k, i, c) ==
    [access |-> a, weak |-> w, kill |-> k, import |-> i, crash |-> c]

(* Each environment has its own mix of accesses, collections and failures. *)
MixedBudgets ==
    {Allow(4, 0, 0, 0, 0), Allow(2, 2, 0, 0, 0), Allow(2, 1, 0, 1, 0),
     Allow(1, 1, 1, 0, 0), Allow(2, 0, 0, 0, 1), Allow(1, 1, 0, 0, 1)}
=============================================================================
