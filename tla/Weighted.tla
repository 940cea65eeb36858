------------------------------ MODULE Weighted ------------------------------
(***************************************************************************)
(* Fractional weighted reference counting (RC_ALG_WRC): the arithmetic of  *)
(* FracHandler.  The home reference starts with the weight 1 and every     *)
(* reference that is passed on takes a part of the weight of its sender.   *)
(*                                                                         *)
(* A weight is a list of pairs (e, d) that stand for e / MaxEnum^d, with   *)
(* increasing d.  It is modelled as the function from d to e, with 0 where *)
(* the list has no pair.                                                   *)
(***************************************************************************)
EXTENDS Integers, FiniteSetsExt

CONSTANTS
    MaxEnum,        \* MAXENUMERATOR
    Alpha,          \* wrc_alpha
    MaxDepth        \* bound on d

(* With Alpha = 1 a reference would give its whole weight away.            *)
ASSUME WeightAssumption ==
    /\ Alpha \in Nat \ {0, 1}
    /\ MaxEnum \in Nat \ {0, 1}
    /\ MaxDepth \in Nat \ {0}

Depth == 1..MaxDepth

NoFrac == [d \in Depth |-> 0]

(* Frac_init                                                               *)
FracInit(e, d) == [NoFrac EXCEPT ![d] = e]

FracIsEmpty(f) == f = NoFrac

(* The first pair of the list has this denominator.                        *)
First(f) == Min({d \in Depth : f[d] > 0})

GiveSize(e) == IF e < Alpha THEN 1 ELSE e \div Alpha

(* insertPair.  An enumerator that reaches MaxEnum makes one unit of the   *)
(* next larger fraction, which may carry on in turn; a carry beyond the    *)
(* first is the weight 1, and is dropped.                                  *)
Carries(f, k) ==
    {j \in 0..(k - 1) : \A i \in (j + 1)..(k - 1) : f[i] = MaxEnum - 1}

(* A faulty insertPair that forgets to carry.                              *)
InsertPairNoCarry(f, e, k) ==
    [f EXCEPT ![k] = IF @ + e < MaxEnum \/ @ = 0 THEN @ + e
                     ELSE @ + e - MaxEnum]

InsertPair(f, e, k) ==
    IF f[k] + e < MaxEnum \/ f[k] = 0
    THEN [f EXCEPT ![k] = @ + e]
    ELSE LET top == Min(Carries(f, k)) IN
         [d \in Depth |->
            CASE d = k -> f[k] + e - MaxEnum
              [] d = top -> f[d] + 1
              [] d > top /\ d < k -> 0
              [] OTHER -> f[d]]

(* getNewRefWeightPair: the pair to give and what is left.                 *)
Given(f, e, d) == [st |-> f, info |-> [e |-> e, d |-> d]]

GiveFrom(f) ==
    LET k == First(f)
        e == GiveSize(f[k])
        split == GiveSize(MaxEnum)
        steal == GiveSize(f[k + 1])
    IN  CASE f[k] > 1 -> Given([f EXCEPT ![k] = @ - e], e, k)
          [] f[k] = 1 /\ f[k + 1] = 0 ->
               Given([f EXCEPT ![k] = 0, ![k + 1] = MaxEnum - split],
                     split, k + 1)
          [] OTHER -> Given([f EXCEPT ![k + 1] = @ - steal], steal, k + 1)

GetNewRefWeightPair(f) ==
    GiveFrom(IF FracIsEmpty(f) THEN FracInit(MaxEnum, 1) ELSE f)

(* The bound leaves room to give a part of the weight f away.              *)
CanGive(f) == FracIsEmpty(f) \/ \E d \in 1..(MaxDepth - 1) : f[d] > 0

(* m_getCtlMsg of the home reference: the weight g comes back, pair by     *)
(* pair.                                                                   *)
Returned(f, g) ==
    LET upTo[k \in 0..MaxDepth] ==
            IF k = 0 THEN f
            ELSE IF g[k] = 0 THEN upTo[k - 1]
            ELSE InsertPair(upTo[k - 1], g[k], k)
    IN  upTo[MaxDepth]

(* The weight of f and the weight 1, in units of the smallest fraction.    *)
Units(f) ==
    MapThenSumSet(LAMBDA d : f[d] * MaxEnum ^ (MaxDepth - d), Depth)

WholeWeight == MaxEnum ^ MaxDepth
=============================================================================
