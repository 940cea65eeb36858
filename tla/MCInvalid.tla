------------------------------ MODULE MCInvalid ------------------------------
(* Instances of Invalid for TLC.                                           *)
EXTENDS Invalid

(* A kill, a monitor or a proxy that leaves on the one hand, and a crash   *)
(* or a second write on the other, are not combined: the bounds of each    *)
(* are those of a run of its own.                                          *)
Killing ==
    \/ budget["kill"] < MaxKills \/ budget["leave"] < MaxLeaves
    \/ \E p \in Site : registered[p]

Crashing == budget["crash"] < MaxCrashes \/ budget["write"] < MaxWrites - 1

Separate == ~(Killing /\ Crashing)'
=============================================================================
