---------------------------- MODULE MCConnection ----------------------------
(* Instances of Connection for TLC.                                        *)
EXTENDS Connection

Budget(ms, mo, pings, collections, losses) ==
    [messages |-> [s \in Site |-> IF s = Small THEN ms ELSE mo],
     pings |-> pings, collections |-> collections, losses |-> losses]

(* Both sites send while a channel breaks; both send while the collector   *)
(* closes connections; pings keep an idle connection busy.                 *)
MixedBudgets ==
    {Budget(1, 1, 0, 0, 1), Budget(2, 0, 0, 0, 1),
     Budget(1, 1, 0, 2, 0), Budget(1, 0, 1, 2, 0)}
=============================================================================
