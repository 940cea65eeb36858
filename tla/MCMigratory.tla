----------------------------- MODULE MCMigratory -----------------------------
(* Instances of Migratory for TLC.                                         *)
EXTENDS Migratory

(* Behaviours with a kill, a crash or a monitor have one request at each   *)
(* proxy, and neither weak roots nor imports; the others have all of them. *)
(* Only operations and crashes are restricted, no step that is fair.       *)
Disturbed ==
    \/ budget["kill"] < MaxKills \/ budget["crash"] < MaxCrashes
    \/ \E p \in Site : registered[p]

Modest ==
    /\ budget["weak"] = MaxWeak /\ budget["import"] = MaxImports
    /\ \A p \in Site :
          request[p] = 0 \/ (request[p] = 1 /\ status[p] = "EMPTY")

Separate == (Disturbed => Modest)'
=============================================================================
