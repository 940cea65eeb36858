----------------------------- MODULE MobileState -----------------------------
(***************************************************************************)
(* What the mobile state protocols promise: the state of an entity is in   *)
(* one place.  It is at a site whose proxy may operate on it, or moving to *)
(* a site, or lost, and what is lost never comes back.                     *)
(***************************************************************************)
CONSTANTS Site, Home

VARIABLES
    at,         \* the sites that can operate on the state
    moving      \* the sites the state is on its way to

Init == at = {Home} /\ moving = {}

Depart(p, q) == at = {p} /\ moving = {} /\ at' = {} /\ moving' = {q}

Arrive(q) == at = {} /\ moving = {q} /\ at' = {q} /\ moving' = {}

(* The state arrives at q, serves the operations waiting there, and leaves *)
(* for r within one handler.                                               *)
Pass(q, r) == at = {} /\ moving = {q} /\ at' = {} /\ moving' = {r}

(* A crash or a kill destroys the state.                                   *)
Lose == at \cup moving # {} /\ at' = {} /\ moving' = {}

Move == \/ \E p, q \in Site : Depart(p, q) \/ Pass(p, q)
        \/ \E q \in Site : Arrive(q)

Next == Move \/ Lose

Spec == Init /\ [][Next]_<<at, moving>>
=============================================================================
