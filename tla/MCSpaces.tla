------------------------------ MODULE MCSpaces ------------------------------
(* Instances of Spaces: programs with small budgets.                       *)
EXTENDS Spaces

None == [thread |-> 0, space |-> 0, tell |-> 0, wait |-> 0, ask |-> 0,
         inject |-> 0, fail |-> 0, merge |-> 0, down |-> 0, choose |-> 0]

(* Two spaces that tell, wait, are asked and merged; with choices; merged  *)
(* downward; and three spaces that fail.                                   *)
MixedBudgets ==
    {[None EXCEPT !.space = 2, !.tell = 2, !.wait = 1, !.ask = 1, !.merge = 1],
     [None EXCEPT !.space = 2, !.wait = 1, !.merge = 1, !.choose = 2],
     [None EXCEPT !.space = 2, !.tell = 1, !.wait = 1, !.down = 1, !.ask = 1],
     [None EXCEPT !.space = 1, !.tell = 2, !.thread = 1, !.wait = 1],
     [None EXCEPT !.space = 3, !.wait = 1, !.inject = 1, !.fail = 1]}

(* A space that is merged into its sibling.                                *)
DownBudgets == {[None EXCEPT !.space = 2, !.wait = 1, !.down = 1]}
=============================================================================
