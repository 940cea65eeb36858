------------------------------- MODULE Decision -------------------------------
(***************************************************************************)
(* What the protocols for logic variables promise: a variable is bound     *)
(* once, or fails, and the sites that have a reference to it see the same. *)
(* Once it is broken, by a crash for instance, sites that do not know its  *)
(* value yet may see it fail; but no two sites ever see different values.  *)
(* All this holds until the protocol loses control of who may bind.        *)
(***************************************************************************)
CONSTANTS Site, Home, Unbound

VARIABLES
    outcome,    \* what each site has seen: Unbound, a value or "failed"
    down,       \* the sites that have crashed
    broken,     \* the sites may disagree on whether the variable has failed
    split       \* two sites may take themselves for the one that binds

Init ==
    /\ outcome = [p \in Site |-> Unbound]
    /\ down = {}
    /\ broken = FALSE
    /\ split = FALSE

Compatible(o) == {Unbound, o} \cup (IF broken' THEN {"failed"} ELSE {})

Settle(p, o) ==
    /\ p \notin down /\ outcome[p] = Unbound
    /\ \A q \in Site \ down : outcome[q] \in Compatible(o)
    /\ outcome' = [outcome EXCEPT ![p] = o]

GiveUp(p) ==
    /\ broken' /\ p \notin down /\ outcome[p] = Unbound
    /\ outcome' = [outcome EXCEPT ![p] = "failed"]

(* The site has no reference any more.                                     *)
Forget(p) ==
    /\ p # Home
    /\ outcome' = [outcome EXCEPT ![p] = Unbound]

(* Sites crash and the variable breaks at any time, and for ever.          *)
Next ==
    /\ down \subseteq down' /\ (broken => broken') /\ (split => split')
    /\ \/ split'
       \/ \E p \in Site, o \in Site \cup {"failed"} : Settle(p, o)
       \/ \E p \in Site : GiveUp(p) \/ Forget(p)
       \/ UNCHANGED outcome

Spec == Init /\ [][Next]_<<outcome, down, broken, split>>
=============================================================================
