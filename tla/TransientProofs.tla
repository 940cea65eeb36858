--------------------------- MODULE TransientProofs ---------------------------
(***************************************************************************)
(* What the proofs about the two protocols for logic variables share: the  *)
(* types, the effect of the common operations on them, and the steps of    *)
(* Decision in terms of the variables of Transient.                        *)
(***************************************************************************)
EXTENDS Transient, NetworkProofs

Value == Site \cup {Unbound}

ManagerTypes ==
    {"REGISTER", "DEREGISTER", "PERMFAIL", "BIND", "BOUND", "REDIRECT",
     "UPDATE", "UPDATE_REQUEST", "UPDATE_REPLY"}
ProxyTypes ==
    {"REDIRECT", "BOUND", "UPDATE", "PERMFAIL", "BIND", "UPDATE_REQUEST"}

Message ==
    [to : {"manager"}, type : ManagerTypes, val : Value]
        \cup [to : {"proxy"}, type : ProxyTypes, val : Value]
        \cup [to : {"site"}, type : {"REFERENCE"},
              val : {"AUTO", "MANUAL", "TOKEN"}]

EntityTypeOK ==
    /\ value \in [Site -> Value]
    /\ needed \in [Site -> BOOLEAN]
    /\ waiting \in [Site -> BOOLEAN]

ProxyTypeOK ==
    /\ present \in [Site -> BOOLEAN]
    /\ status \in [Site -> {"FREE", "WAITING", "BOUND"}]
    /\ pfail \in [Site -> BOOLEAN]

ManagerTypeOK ==
    /\ mstatus \in {"FREE", "WAITING", "BOUND"}
    /\ mfail \in BOOLEAN
    /\ proxies \subseteq Site

EnvTypeOK ==
    /\ budget \in Budget
    /\ history \subseteq {"kill", "leave", "crossed", "dropped"}

TransientTypeOK ==
    /\ NetTypeOK(Message)
    /\ EntityTypeOK /\ ProxyTypeOK /\ ManagerTypeOK /\ EnvTypeOK

(* Only sites that have crashed are known to have failed.                  *)
Detected == \A p, s \in Site : s \in perm[p] => ~alive[s]

(* A site without proxy knows nothing of the variable.                     *)
AbsentBlank ==
    /\ present[Home]
    /\ \A p \in Site : ~present[p] => value[p] = Unbound /\ ~pfail[p]

-----------------------------------------------------------------------------
(* Messages and what is sent.                                              *)

LEMMA ToManagerMessage ==
    ASSUME NEW t \in ManagerTypes, NEW v \in Value
    PROVE  ToManager(t, v) \in Message
  BY DEF ToManager, Message

LEMMA ToProxyMessage ==
    ASSUME NEW t \in ProxyTypes, NEW v \in Value
    PROVE  ToProxy(t, v) \in Message
  BY DEF ToProxy, Message

LEMMA ReferenceMessage ==
    ASSUME NEW r \in {"AUTO", "MANUAL", "TOKEN"}
    PROVE  Reference(r) \in Message
  BY DEF Reference, Message

LEMMA UnboundValue == Unbound \in Value
  BY DEF Value

LEMMA ToAllType ==
    ASSUME NEW S, NEW m \in Message
    PROVE  ToAll(S, m) \in [Site -> Seq(Message)]
  <1>1. <<>> \in Seq(Message) /\ <<m>> \in Seq(Message)
    OBVIOUS
  <1> QED
    BY <1>1 DEF ToAll

LEMMA ToAllWithout ==
    ASSUME NEW S, NEW m, NEW K, m \notin K
    PROVE  Without(ToAll(S, m), K)
  BY DEF ToAll, Without

LEMMA HeadMessage ==
    ASSUME NetTypeOK(Message), NEW s \in Site, NEW p \in Site, CanRecv(s, p)
    PROVE  /\ Head1(s, p) \in Message
           /\ 1 \in DOMAIN chan[<<s, p>>]
           /\ Head1(s, p) = chan[<<s, p>>][1]
  <1>1. chan[<<s, p>>] \in Seq(Message) /\ chan[<<s, p>>] # <<>>
    BY DEF NetTypeOK, CanRecv
  <1> QED
    BY <1>1 DEF Head1

LEMMA SpendType ==
    ASSUME EnvTypeOK, Spend("bind") \/ Spend("need") \/ Spend("kill")
                        \/ Spend("export") \/ Spend("leave") \/ Spend("crash")
    PROVE  /\ EnvTypeOK'
           /\ history \subseteq history'
           /\ "crossed" \in history' => "crossed" \in history
           /\ Spend("kill") => "kill" \in history'
  <1>1. PICK b \in DOMAIN budget : Spend(b)
    BY DEF EnvTypeOK, Budget
  <1>2. budget[b] \in Nat /\ budget[b] - 1 \in Nat
    BY <1>1 DEF Spend, EnvTypeOK, Budget
  <1>3. budget' \in Budget
    BY <1>1, <1>2 DEF Spend, EnvTypeOK, Budget
  <1>4. /\ history' \subseteq history \cup {"kill", "leave"}
        /\ history \subseteq history'
    BY <1>1 DEF Spend
  <1> QED
    BY <1>3, <1>4 DEF EnvTypeOK, Spend

-----------------------------------------------------------------------------
(* The steps of Decision.                                                  *)

(* Sites do not come back, and what has happened is not forgotten.         *)
Onward ==
    /\ \A s \in Site : alive'[s] => alive[s]
    /\ history \subseteq history'

LEMMA OutcomeStays ==
    ASSUME UNCHANGED <<value, pfail>>, Onward
    PROVE  Agree!Next
  <1>1. [p \in Site |-> Outcome(p)]' = [p \in Site |-> Outcome(p)]
    BY DEF Outcome
  <1> QED
    BY <1>1, HomeAssumption DEF Agree!Next, Onward

Broken == "kill" \in history \/ ~alive[Home]

(* Site p learns the value v, which no other site contradicts.             *)
LEMMA ValueSettles ==
    ASSUME Onward, NEW p \in Site, NEW v \in Site, alive[p],
           value \in [Site -> Value], value[p] = Unbound, ~pfail[p],
           value' = [value EXCEPT ![p] = v], UNCHANGED pfail,
           \A q \in Site : alive[q] => value[q] \in {Unbound, v},
           \A q \in Site : alive[q] /\ pfail[q] => Broken'
    PROVE  Agree!Next
  <1> DEFINE out == [q \in Site |-> Outcome(q)]
  <1>1. v # Unbound
    BY UnboundAssumption
  <1>2. out' = [out EXCEPT ![p] = v]
    BY <1>1 DEF Outcome
  <1>3. out[p] = Unbound
    BY DEF Outcome
  <1>4. ASSUME NEW q \in Site, alive[q]
        PROVE  out[q] \in {Unbound, v}
                    \cup (IF "kill" \in history' \/ ~alive'[Home]
                          THEN {"failed"} ELSE {})
    BY <1>4 DEF Outcome, Broken
  <1> HIDE DEF out
  <1>5. Agree!Settle(p, v)
    BY <1>2, <1>3, <1>4 DEF Agree!Settle, Agree!Compatible, out
  <1> QED
    BY <1>5, HomeAssumption DEF Agree!Next, Onward

(* Site p sees the variable fail: a live site that has the value already   *)
(* has to be excused.                                                      *)
LEMMA FailureSettles ==
    ASSUME Onward, NEW p \in Site, alive[p],
           pfail \in [Site -> BOOLEAN],
           pfail' = [pfail EXCEPT ![p] = TRUE], UNCHANGED value,
           \/ Broken'
           \/ \A q \in Site : alive[q] => value[q] = Unbound
    PROVE  Agree!Next
  <1> DEFINE out == [q \in Site |-> Outcome(q)]
  <1>1. CASE value[p] # Unbound \/ pfail[p]
    <2>1. out' = out
      BY <1>1 DEF Outcome
    <2> QED
      BY <2>1, HomeAssumption DEF Agree!Next, Onward
  <1>2. CASE value[p] = Unbound /\ ~pfail[p]
    <2>1. out' = [out EXCEPT ![p] = "failed"]
      BY <1>2 DEF Outcome
    <2>2. out[p] = Unbound
      BY <1>2 DEF Outcome
    <2>3. CASE Broken'
      <3> HIDE DEF out
      <3>1. Agree!GiveUp(p)
        BY <2>1, <2>2, <2>3 DEF Agree!GiveUp, out, Broken
      <3> QED
        BY <3>1, HomeAssumption DEF Agree!Next, Onward
    <2>4. CASE \A q \in Site : alive[q] => value[q] = Unbound
      <3>1. ASSUME NEW q \in Site, alive[q]
            PROVE  out[q] \in {Unbound, "failed"}
        BY <2>4, <3>1 DEF Outcome
      <3> HIDE DEF out
      <3>2. Agree!Settle(p, "failed")
        BY <2>1, <2>2, <3>1 DEF Agree!Settle, Agree!Compatible, out
      <3> QED
        BY <3>2, HomeAssumption DEF Agree!Next, Onward
    <2> QED
      BY <2>3, <2>4
  <1> QED
    BY <1>1, <1>2

LEMMA OutcomeForgotten ==
    ASSUME Onward, NEW p \in Site, p # Home,
           value \in [Site -> Value], pfail \in [Site -> BOOLEAN],
           value' = [value EXCEPT ![p] = Unbound],
           pfail' = [pfail EXCEPT ![p] = FALSE]
    PROVE  Agree!Next
  <1> DEFINE out == [q \in Site |-> Outcome(q)]
  <1>1. out' = [out EXCEPT ![p] = Unbound]
    BY DEF Outcome
  <1> HIDE DEF out
  <1>2. Agree!Forget(p)
    BY <1>1 DEF Agree!Forget, out
  <1> QED
    BY <1>2, HomeAssumption DEF Agree!Next, Onward
=============================================================================
