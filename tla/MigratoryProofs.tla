--------------------------- MODULE MigratoryProofs ---------------------------
(***************************************************************************)
(* Theorems about Migratory, for any set of sites and any bounds: type     *)
(* correctness, the uniqueness of the token, the refinement of MobileState *)
(* and, from the invariant ChainInv, what the manager's chain guarantees.  *)
(* Without crashes, the state is never lost and the chain is the path that *)
(* the token takes.                                                        *)
(***************************************************************************)
EXTENDS Migratory, NetworkProofs, WellFoundedInduction

-----------------------------------------------------------------------------
(* Messages and what the handlers send.                                    *)

(* The output contains messages, none of which is the token.               *)
Harmless(out) == out \in [Site -> Seq(Message)] /\ Without(out, {TokenMessage})

LEMMA SilentHarmless == Harmless(Silent)
  BY SilentType, SilentWithout DEF Harmless

LEMMA ToManagerHarmless ==
    ASSUME NEW t \in ToManagerTypes, NEW r \in Nat
    PROVE  Harmless(sendToManager(t, r))
  <1>1. ToManager(t, r) \in Message
    BY DEF ToManager, Message, ManagerMessage
  <1>2. ToManager(t, r) # TokenMessage
    <2>1. ToManager(t, r).to = "manager" /\ TokenMessage.to = "proxy"
      BY DEF ToManager, TokenMessage, ToProxy
    <2> QED
      BY <2>1
  <1> QED
    BY <1>1, <1>2, ToType, ToWithout DEF Harmless, sendToManager

LEMMA ToProxyHarmless ==
    ASSUME NEW d, NEW t \in ToProxyTypes, NEW s \in Site \cup {NoSite},
           NEW r \in Nat
    PROVE  Harmless(To(d, ToProxy(t, s, r)))
  <1>1. ToProxy(t, s, r) \in Message
    BY DEF ToProxy, Message, ProxyMessage
  <1>2. ToProxy(t, s, r) # TokenMessage
    <2>1. ToProxy(t, s, r).type = t /\ TokenMessage.type = "TOKEN"
      BY DEF TokenMessage, ToProxy
    <2>2. "TOKEN" \notin ToProxyTypes
      BY DEF ToProxyTypes
    <2> QED
      BY <2>1, <2>2
  <1> QED
    BY <1>1, <1>2, ToType, ToWithout DEF Harmless

LEMMA BothHarmless ==
    ASSUME NEW o1, NEW o2, Harmless(o1), Harmless(o2)
    PROVE  Harmless(Both(o1, o2))
  BY BothType, BothWithout DEF Harmless

LEMMA PermFailHarmless ==
    ASSUME NEW c
    PROVE  Harmless(PermFailOut(c))
  <1>1. "PERMFAIL" \in ToProxyTypes
    BY DEF ToProxyTypes
  <1>2. ToProxy("PERMFAIL", NoSite, 0) \in Message
    BY <1>1 DEF ToProxy, Message, ProxyMessage
  <1>3. ToProxy("PERMFAIL", NoSite, 0) # TokenMessage
    <2>1. ToProxy("PERMFAIL", NoSite, 0).type = "PERMFAIL"
      BY DEF ToProxy
    <2>2. TokenMessage.type = "TOKEN"
      BY DEF TokenMessage, ToProxy
    <2> QED
      BY <2>1, <2>2
  <1>4. PermFailOut(c) \in [Site -> Seq(Message)]
    BY <1>2 DEF PermFailOut
  <1>5. Without(PermFailOut(c), {TokenMessage})
    BY <1>3 DEF Without, PermFailOut
  <1> QED
    BY <1>4, <1>5 DEF Harmless

-----------------------------------------------------------------------------
(* The chain.                                                              *)

Entry == [site: Site, req: Nat]

LEMMA PositionInChain ==
    ASSUME NEW s, InChain(s), chain \in Seq(Entry)
    PROVE  Position(s) \in 1..Len(chain) /\ chain[Position(s)].site = s
  BY DEF InChain, Visits, Position

LEMMA PoppedType ==
    ASSUME NEW s, InChain(s), chain \in Seq(Entry)
    PROVE  PoppedThrough(s) \in Seq(Entry) /\ PoppedBefore(s) \in Seq(Entry)
  <1>1. Position(s) \in 1..Len(chain) /\ Len(chain) \in Nat
    BY PositionInChain, LenProperties
  <1>2. \A i \in 1..Len(chain) : chain[i] \in Entry
    BY ElementOfSeq
  <1>3. SubSeq(chain, Position(s) + 1, Len(chain)) \in Seq(Entry)
    <2>1. \A i \in (Position(s) + 1)..Len(chain) : chain[i] \in Entry
      BY <1>1, <1>2
    <2> QED
      BY <1>1, <2>1, SubSeqProperties
  <1>4. SubSeq(chain, Position(s), Len(chain)) \in Seq(Entry)
    <2>1. \A i \in Position(s)..Len(chain) : chain[i] \in Entry
      BY <1>1, <1>2
    <2> QED
      BY <1>1, <2>1, SubSeqProperties
  <1> QED
    BY <1>3, <1>4 DEF PoppedThrough, PoppedBefore

LEMMA WithoutSuccessorType ==
    ASSUME NEW s, HasSuccessor(s), chain \in Seq(Entry)
    PROVE  ChainWithoutSuccessor(s) \in Seq(Entry)
  <1>1. Position(s) \in 1..Len(chain) /\ Len(chain) \in Nat
    BY PositionInChain, LenProperties DEF HasSuccessor
  <1>2. \A i \in 1..Len(chain) : chain[i] \in Entry
    BY ElementOfSeq
  <1>3. SubSeq(chain, 1, Position(s)) \in Seq(Entry)
    <2>1. \A i \in 1..Position(s) : chain[i] \in Entry
      BY <1>1, <1>2
    <2> QED
      BY <1>1, <2>1, SubSeqProperties
  <1>4. SubSeq(chain, Position(s) + 2, Len(chain)) \in Seq(Entry)
    <2>1. \A i \in (Position(s) + 2)..Len(chain) : chain[i] \in Entry
      BY <1>1, <1>2
    <2> QED
      BY <1>1, <2>1, SubSeqProperties
  <1> QED
    BY <1>3, <1>4, ConcatProperties DEF ChainWithoutSuccessor

(* A bounded, nonempty set of positions has a largest element: the natural *)
(* numbers are well-founded.                                               *)
LEMMA ClosestInSet ==
    ASSUME NEW n \in Nat, NEW I, I \subseteq 1..n, I # {}
    PROVE  Closest(I) \in I /\ \A j \in I : j <= Closest(I)
  <1> DEFINE T == {n - i : i \in I}
             R == OpToRel(<, Nat)
  <1>1. T \subseteq Nat /\ T # {}
    <2>1. \A i \in I : n - i \in Nat
      OBVIOUS
    <2>2. PICK i \in I : TRUE
      OBVIOUS
    <2>3. n - i \in T
      BY <2>2
    <2>4. T \subseteq Nat
      BY <2>1
    <2> QED
      BY <2>3, <2>4
  <1>2. IsWellFoundedOn(R, Nat)
    BY NatLessThanWellFounded
  <1> HIDE DEF R
  <1>3. \E x \in T : \A y \in T : ~(<<y, x>> \in R)
    BY <1>1, <1>2, WFMin
  <1> USE DEF R
  <1>4. PICK x \in T : \A y \in T : ~(y < x)
    BY <1>1, <1>3 DEF OpToRel
  <1>5. PICK i \in I : x = n - i
    BY <1>4
  <1>6. \A j \in I : j <= i
    <2> SUFFICES ASSUME NEW j \in I
                 PROVE  j <= i
      OBVIOUS
    <2>1. ~(n - j < n - i)
      BY <1>4, <1>5
    <2> QED
      BY <2>1
  <1>7. \E k \in I : \A j \in I : j <= k
    BY <1>6
  <1> QED
    BY <1>7 DEF Closest

LEMMA InquiryHarmless ==
    ASSUME NEW c \in Seq(Entry), NEW k \in 1..Len(c), NEW failed,
           ~AllFailed(c, k, failed)
    PROVE  Harmless(InquiryOut(c, k, failed))
  <1>1. Len(c) \in Nat
    BY LenProperties
  <1>2. "CHECK_SUCC" \in ToProxyTypes /\ "CHECK_PRED" \in ToProxyTypes
    BY DEF ToProxyTypes
  <1>3. ASSUME NEW I, I \subseteq 1..Len(c), I # {}, NEW t \in ToProxyTypes
        PROVE  Harmless(To(c[Closest(I)].site,
                           ToProxy(t, NoSite, c[Closest(I)].req)))
    <2>1. c[Closest(I)] \in Entry
      BY <1>1, <1>3, ClosestInSet, ElementOfSeq
    <2>2. c[Closest(I)].req \in Nat
      BY <2>1 DEF Entry
    <2> QED
      BY <2>2, ToProxyHarmless
  <1>4. /\ Predecessors(c, k, failed) \subseteq 1..Len(c)
        /\ Successors(c, k, failed) \subseteq 1..Len(c)
    BY <1>1 DEF Predecessors, Successors, Live
  <1>5. CASE Predecessors(c, k, failed) # {}
    BY <1>2, <1>3, <1>4, <1>5 DEF InquiryOut
  <1>6. CASE Predecessors(c, k, failed) = {}
    <2>1. Successors(c, k, failed) # {}
      BY <1>6 DEF AllFailed
    <2> QED
      BY <1>2, <1>3, <1>4, <1>6, <2>1 DEF InquiryOut
  <1> QED
    BY <1>5, <1>6

-----------------------------------------------------------------------------
(* One lemma per action: it preserves the types and, unless it handles the *)
(* token, it is quiet: it creates neither a holder nor a token.            *)

NetStep == NetTypeOK(Message)' /\ Keeps({TokenMessage})

Quiet ==
    /\ Keeps({TokenMessage})
    /\ \A q \in Site : Holder(q)' => Holder(q)

LEMMA TypeOKNet == TypeOK => NetTypeOK(Message)
  BY DEF TypeOK, NetTypeOK

LEMMA EmitNetStep ==
    ASSUME TypeOK, NEW p \in Site, NEW out, Harmless(out), Emit(p, out)
    PROVE  NetStep
  BY TypeOKNet, EmitStep DEF Harmless, NetStep

LEMMA ConsumeNetStep ==
    ASSUME TypeOK, NEW s \in Site, NEW p \in Site, NEW out, Harmless(out),
           CanRecv(s, p), Consume(s, p, out)
    PROVE  NetStep
  BY TypeOKNet, ConsumeStep DEF Harmless, NetStep

LEMMA CrashNetStep ==
    ASSUME TypeOK, NEW s \in Site, Crash(s)
    PROVE  NetStep
  BY TypeOKNet, CrashStep DEF NetStep

LEMMA DetectNetStep ==
    ASSUME TypeOK, NEW p \in Site, NEW s \in Site, NEW out, Harmless(out),
           Detect(p, s, out)
    PROVE  NetStep
  BY TypeOKNet, DetectStep DEF Harmless, NetStep

LEMMA HeadIsMessage ==
    ASSUME TypeOK, NEW s \in Site, NEW p \in Site, CanRecv(s, p)
    PROVE  /\ Head1(s, p) \in Message
           /\ Head1(s, p).req \in Nat
           /\ Head1(s, p).site \in Site \cup {NoSite}
           /\ Head1(s, p).type = "TOKEN" => Head1(s, p) = TokenMessage
  <1>1. chan[<<s, p>>] \in Seq(Message) /\ chan[<<s, p>>] # <<>>
    BY DEF TypeOK, CanRecv
  <1>2. Head1(s, p) \in Message
    BY <1>1, HeadTailProperties DEF Head1
  <1>3. "TOKEN" \notin ToProxyTypes /\ "TOKEN" \notin ToManagerTypes
    BY DEF ToProxyTypes, ToManagerTypes
  <1>4. TokenMessage.req = 0 /\ TokenMessage.site = NoSite
    BY DEF TokenMessage, ToProxy
  <1> QED
    BY <1>2, <1>3, <1>4 DEF Message, ManagerMessage, ProxyMessage

LEMMA AccessRequestStep ==
    ASSUME TypeOK, NEW p \in Site, AccessRequest(p)
    PROVE  TypeOK' /\ Quiet
  <1>1. NetStep
    <2>1. "GET" \in ToManagerTypes /\ request[p] \in Nat
      BY DEF TypeOK, ToManagerTypes
    <2> QED
      BY <2>1, ToManagerHarmless, EmitNetStep DEF AccessRequest
  <1>2. TypeOK'
    <2>1. status' \in [Site -> Status]
      BY DEF TypeOK, AccessRequest, Status
    <2>2. susps' \in [Site -> Nat]
      BY DEF TypeOK, AccessRequest
    <2> QED
      BY <1>1, <2>1, <2>2
      DEF NetStep, NetTypeOK, TypeOK, AccessRequest, managerVars
  <1>3. alive' = alive
    BY DEF AccessRequest, Emit
  <1> QED
    BY <1>1, <1>2, <1>3 DEF NetStep, Quiet, Holder, AccessRequest, TypeOK

LEMMA AccessWaitStep ==
    ASSUME TypeOK, NEW p \in Site, AccessWait(p)
    PROVE  TypeOK' /\ Quiet
  <1>1. NetStep
    BY SilentHarmless, EmitNetStep DEF AccessWait
  <1>2. TypeOK'
    <2>1. susps' \in [Site -> Nat]
      BY DEF TypeOK, AccessWait
    <2> QED
      BY <1>1, <2>1 DEF NetStep, NetTypeOK, TypeOK, AccessWait, managerVars
  <1>3. alive' = alive
    BY DEF AccessWait, Emit
  <1> QED
    BY <1>1, <1>2, <1>3 DEF NetStep, Quiet, Holder, AccessWait, TypeOK

LEMMA MonitorStep ==
    ASSUME TypeOK, NEW p \in Site, Monitor(p)
    PROVE  TypeOK' /\ Quiet
  <1>1. NetStep
    <2>1. "REGISTER" \in ToManagerTypes
      BY DEF ToManagerTypes
    <2> QED
      BY <2>1, ToManagerHarmless, EmitNetStep DEF Monitor
  <1>2. TypeOK'
    BY <1>1 DEF NetStep, NetTypeOK, TypeOK, Monitor, managerVars
  <1>3. alive' = alive
    BY DEF Monitor, Emit
  <1> QED
    BY <1>1, <1>2, <1>3 DEF NetStep, Quiet, Holder, Monitor, TypeOK

LEMMA SpendType ==
    ASSUME TypeOK, NEW b \in {"weak", "kill", "import", "crash"}, Spend(b)
    PROVE  budget' \in [{"weak", "kill", "import", "crash"} -> Nat]
  BY DEF Spend, TypeOK

LEMMA KillStep ==
    ASSUME TypeOK, NEW p \in Site, Kill(p)
    PROVE  TypeOK' /\ Quiet
  <1>1. NetStep
    <2>1. "PERMFAIL" \in ToManagerTypes
      BY DEF ToManagerTypes
    <2> QED
      BY <2>1, ToManagerHarmless, EmitNetStep DEF Kill
  <1>2. budget' \in [{"weak", "kill", "import", "crash"} -> Nat]
    BY SpendType DEF Kill
  <1>3. TypeOK'
    BY <1>1, <1>2 DEF NetStep, NetTypeOK, TypeOK, Kill, managerVars, proxyVars
  <1>4. alive' = alive
    BY DEF Kill, Emit
  <1> QED
    BY <1>1, <1>3, <1>4 DEF NetStep, Quiet, Holder, Kill, proxyVars

LEMMA DeleteProxyStep ==
    ASSUME TypeOK, NEW p \in Site, DeleteProxy(p)
    PROVE  TypeOK' /\ Quiet
  <1>1. NetStep
    <2>1. "DEREGISTER" \in ToManagerTypes
      BY DEF ToManagerTypes
    <2>2. Harmless(IF registered[p] THEN sendToManager("DEREGISTER", 0)
                   ELSE Silent)
      BY <2>1, ToManagerHarmless, SilentHarmless
    <2> QED
      BY <2>2, EmitNetStep DEF DeleteProxy
  <1>2. TypeOK'
    BY <1>1 DEF NetStep, NetTypeOK, TypeOK, DeleteProxy, managerVars, Status
  <1>3. alive' = alive
    BY DEF DeleteProxy, Emit
  <1> QED
    BY <1>1, <1>2, <1>3 DEF NetStep, Quiet, Holder, DeleteProxy, IsWeakRoot, TypeOK

(* A proxy that is absent does not have the token, and the proxy of the    *)
(* home site is never absent: part of the invariant.                       *)
AbsentEmpty ==
    /\ present[Home]
    /\ \A p \in Site : ~present[p] => status[p] = "EMPTY"

LEMMA ImportProxyStep ==
    ASSUME TypeOK, AbsentEmpty, NEW p \in Site, ImportProxy(p)
    PROVE  TypeOK' /\ Quiet
  <1>1. NetStep
    BY SilentHarmless, EmitNetStep DEF ImportProxy
  <1>2. budget' \in [{"weak", "kill", "import", "crash"} -> Nat]
    BY SpendType DEF ImportProxy
  <1>3. TypeOK'
    <2>1. present' \in [Site -> BOOLEAN] /\ pfail' \in [Site -> BOOLEAN]
      BY DEF TypeOK, ImportProxy
    <2> QED
      BY <1>1, <1>2, <2>1
      DEF NetStep, NetTypeOK, TypeOK, ImportProxy, managerVars
  <1>4. alive' = alive
    BY DEF ImportProxy, Emit
  <1> QED
    BY <1>1, <1>3, <1>4
    DEF NetStep, Quiet, Holder, ImportProxy, TypeOK, AbsentEmpty

-----------------------------------------------------------------------------
(* Messages to a proxy.                                                    *)

LEMMA ProxyIgnoresStep ==
    ASSUME TypeOK, NEW s \in Site, NEW p \in Site, ProxyIgnores(s, p)
    PROVE  TypeOK' /\ Quiet
  <1>1. NetStep
    BY SilentHarmless, ConsumeNetStep DEF ProxyIgnores
  <1>2. TypeOK'
    BY <1>1 DEF NetStep, NetTypeOK, TypeOK, ProxyIgnores, proxyVars, managerVars
  <1>3. \A q \in Site : Holder(q)' => Holder(q)
    BY DEF Holder, TypeOK, ProxyIgnores, proxyVars, managerVars, Consume
  <1> QED
    BY <1>1, <1>2, <1>3 DEF NetStep, Quiet

LEMMA GetPermFailStep ==
    ASSUME TypeOK, NEW s \in Site, NEW p \in Site, GetPermFail(s, p)
    PROVE  TypeOK' /\ Quiet
  <1>1. NetStep
    BY SilentHarmless, ConsumeNetStep DEF GetPermFail, ProxyGets
  <1>2. TypeOK'
    <2>1. pfail' \in [Site -> BOOLEAN] /\ registered' \in [Site -> BOOLEAN]
      BY DEF TypeOK, GetPermFail, ProxyLostToken
    <2>2. susps' \in [Site -> Nat]
      BY DEF TypeOK, GetPermFail, ProxyLostToken
    <2>3. successor' \in [Site -> Site \cup {NoSite}]
      BY DEF TypeOK, GetPermFail, ProxyLostToken
    <2> QED
      BY <1>1, <2>1, <2>2, <2>3
      DEF NetStep, NetTypeOK, TypeOK, GetPermFail, managerVars
  <1>3. \A q \in Site : Holder(q)' => Holder(q)
    BY DEF Holder, TypeOK, GetPermFail, managerVars, Consume, ProxyLostToken
  <1> QED
    BY <1>1, <1>2, <1>3 DEF NetStep, Quiet

LEMMA GetCheckSuccStep ==
    ASSUME TypeOK, NEW s \in Site, NEW p \in Site, GetCheckSucc(s, p)
    PROVE  TypeOK' /\ Quiet
  <1>1. NetStep
    <2>1. /\ Head1(s, p).req \in Nat /\ CanRecv(s, p)
          /\ "OLD_SUCC" \in ToManagerTypes /\ "FAILED_SUCC" \in ToManagerTypes
      BY HeadIsMessage DEF GetCheckSucc, ProxyGets, ToManagerTypes
    <2>2. /\ Harmless(sendToManager("OLD_SUCC", Head1(s, p).req))
          /\ Harmless(sendToManager("FAILED_SUCC", 0))
          /\ Harmless(Silent)
      BY <2>1, ToManagerHarmless, SilentHarmless
    <2>3. \E out : Harmless(out) /\ Consume(s, p, out)
      BY <2>2 DEF GetCheckSucc
    <2> QED
      BY <2>1, <2>3, ConsumeNetStep
  <1>2. TypeOK'
    <2>1. successor' \in [Site -> Site \cup {NoSite}]
      BY ZenonT(40) DEF TypeOK, GetCheckSucc
    <2> QED
      BY <1>1, <2>1
      DEF NetStep, NetTypeOK, TypeOK, GetCheckSucc, managerVars
  <1>3. \A q \in Site : Holder(q)' => Holder(q)
    BY DEF Holder, TypeOK, GetCheckSucc, managerVars, Consume
  <1> QED
    BY <1>1, <1>2, <1>3 DEF NetStep, Quiet

LEMMA GetCheckPredStep ==
    ASSUME TypeOK, NEW s \in Site, NEW p \in Site, GetCheckPred(s, p)
    PROVE  TypeOK' /\ Quiet
  <1>1. NetStep
    <2>1. /\ Head1(s, p).req \in Nat /\ CanRecv(s, p)
          /\ "OLD_PRED" \in ToManagerTypes /\ "FAILED_PRED" \in ToManagerTypes
          /\ "TOKEN_HERE" \in ToManagerTypes
      BY HeadIsMessage DEF GetCheckPred, ProxyGets, ToManagerTypes
    <2>2. /\ Harmless(sendToManager("OLD_PRED", Head1(s, p).req))
          /\ Harmless(sendToManager("TOKEN_HERE", 0))
          /\ Harmless(sendToManager("FAILED_PRED", 0))
      BY <2>1, ToManagerHarmless
    <2>3. \E out : Harmless(out) /\ Consume(s, p, out)
      BY <2>2 DEF GetCheckPred
    <2> QED
      BY <2>1, <2>3, ConsumeNetStep
  <1>2. TypeOK'
    <2>1. pfail' \in [Site -> BOOLEAN] /\ registered' \in [Site -> BOOLEAN]
      BY DEF TypeOK, GetCheckPred, ProxyLostToken
    <2>2. susps' \in [Site -> Nat]
      <3>1. UNCHANGED <<pfail, registered, susps, successor>>
              \/ ProxyLostToken(p)
        BY DEF GetCheckPred
      <3>2. susps' = susps \/ susps' = [susps EXCEPT ![p] = 0]
        BY <3>1 DEF ProxyLostToken
      <3>3. susps \in [Site -> Nat] /\ [susps EXCEPT ![p] = 0] \in [Site -> Nat]
        BY DEF TypeOK
      <3> QED
        BY <3>2, <3>3
    <2>3. successor' \in [Site -> Site \cup {NoSite}]
      BY DEF TypeOK, GetCheckPred, ProxyLostToken
    <2> QED
      BY <1>1, <2>1, <2>2, <2>3
      DEF NetStep, NetTypeOK, TypeOK, GetCheckPred, managerVars
  <1>3. \A q \in Site : Holder(q)' => Holder(q)
    BY DEF Holder, TypeOK, GetCheckPred, managerVars, Consume, ProxyLostToken
  <1> QED
    BY <1>1, <1>2, <1>3 DEF NetStep, Quiet

-----------------------------------------------------------------------------
(* Messages to the manager.                                                *)

LEMMA ManagerHarmless ==
    ASSUME NEW d, NEW s \in Site \cup {NoSite}
    PROVE  /\ Harmless(To(d, ToProxy("PERMFAIL", NoSite, 0)))
           /\ Harmless(To(d, ToProxy("FORWARD", s, 0)))
  <1>1. "PERMFAIL" \in ToProxyTypes /\ "FORWARD" \in ToProxyTypes
    BY DEF ToProxyTypes
  <1> QED
    BY <1>1, ToProxyHarmless

LEMMA RegisterStep ==
    ASSUME TypeOK, NEW s \in Site, Register(s)
    PROVE  TypeOK' /\ Quiet
  <1>1. NetStep
    <2>1. CanRecv(s, Home)
      BY DEF Register, ManagerGets
    <2>2. \E out : Harmless(out) /\ Consume(s, Home, out)
      BY SilentHarmless, ManagerHarmless DEF Register
    <2> QED
      BY <2>1, <2>2, ConsumeNetStep, HomeAssumption
  <1>2. TypeOK'
    BY <1>1 DEF NetStep, NetTypeOK, TypeOK, Register, proxyVars, managerVars
  <1>3. \A q \in Site : Holder(q)' => Holder(q)
    BY DEF Holder, TypeOK, Register, proxyVars, managerVars, Consume
  <1> QED
    BY <1>1, <1>2, <1>3 DEF NetStep, Quiet

LEMMA DeregisterStep ==
    ASSUME TypeOK, NEW s \in Site, Deregister(s)
    PROVE  TypeOK' /\ Quiet
  <1>1. NetStep
    <2>1. CanRecv(s, Home)
      BY DEF Deregister, ManagerGets
    <2>2. \E out : Harmless(out) /\ Consume(s, Home, out)
      BY SilentHarmless DEF Deregister
    <2> QED
      BY <2>1, <2>2, ConsumeNetStep, HomeAssumption
  <1>2. TypeOK'
    BY <1>1 DEF NetStep, NetTypeOK, TypeOK, Deregister, proxyVars, managerVars
  <1>3. \A q \in Site : Holder(q)' => Holder(q)
    BY DEF Holder, TypeOK, Deregister, proxyVars, managerVars, Consume
  <1> QED
    BY <1>1, <1>2, <1>3 DEF NetStep, Quiet

LEMMA GetStep ==
    ASSUME TypeOK, NEW s \in Site, Get(s)
    PROVE  TypeOK' /\ Quiet
  <1>1. CanRecv(s, Home) /\ Head1(s, Home).req \in Nat
    BY HeadIsMessage, HomeAssumption DEF Get, ManagerGets
  <1>2. NetStep
    <2>1. \E out : Harmless(out) /\ Consume(s, Home, out)
      BY SilentHarmless, ManagerHarmless DEF Get
    <2> QED
      BY <1>1, <2>1, ConsumeNetStep, HomeAssumption
  <1>3. TypeOK'
    <2>1. chain' \in Seq(Entry)
      <3>1. chain \in Seq(Entry)
        BY DEF TypeOK, Entry
      <3>2. (IF InChain(s) THEN PoppedThrough(s) ELSE chain) \in Seq(Entry)
        BY <3>1, PoppedType
      <3>3. [site |-> s, req |-> Head1(s, Home).req] \in Entry
        BY <1>1 DEF Entry
      <3> QED
        <4> DEFINE c == IF InChain(s) THEN PoppedThrough(s) ELSE chain
                   e == [site |-> s, req |-> Head1(s, Home).req]
        <4>1. chain' = chain \/ chain' = Append(c, e)
          BY DEF Get
        <4>2. c \in Seq(Entry) /\ e \in Entry
          BY <3>2, <3>3
        <4> HIDE DEF c, e
        <4>3. Append(c, e) \in Seq(Entry)
          BY <4>2, AppendProperties
        <4> QED
          BY <3>1, <4>1, <4>3
    <2>2. last' \in Site \cup {NoSite}
      BY DEF TypeOK, Get
    <2> QED
      BY <1>2, <2>1, <2>2
      DEF NetStep, NetTypeOK, TypeOK, Entry, Get, proxyVars
  <1>4. \A q \in Site : Holder(q)' => Holder(q)
    BY DEF Holder, Get, Consume, proxyVars
  <1> QED
    BY <1>2, <1>3, <1>4 DEF NetStep, Quiet

LEMMA TokenHereStep ==
    ASSUME TypeOK, NEW s \in Site, TokenHere(s)
    PROVE  TypeOK' /\ Quiet
  <1>1. NetStep
    <2>1. CanRecv(s, Home)
      BY DEF TokenHere, ManagerGets
    <2>2. \E out : Harmless(out) /\ Consume(s, Home, out)
      BY SilentHarmless DEF TokenHere
    <2> QED
      BY <2>1, <2>2, ConsumeNetStep, HomeAssumption
  <1>2. TypeOK'
    <2>1. chain \in Seq(Entry)
      BY DEF TypeOK, Entry
    <2>2. chain' \in Seq(Entry)
      BY <2>1, PoppedType DEF TokenHere
    <2> QED
      BY <1>1, <2>1, <2>2
      DEF NetStep, NetTypeOK, TypeOK, TokenHere, proxyVars, managerVars, Entry
  <1>3. \A q \in Site : Holder(q)' => Holder(q)
    BY DEF Holder, TypeOK, TokenHere, proxyVars, managerVars, Entry, Consume
  <1> QED
    BY <1>1, <1>2, <1>3 DEF NetStep, Quiet

LEMMA OldPredStep ==
    ASSUME TypeOK, NEW s \in Site, OldPred(s)
    PROVE  TypeOK' /\ Quiet
  <1>1. NetStep
    <2>1. CanRecv(s, Home)
      BY DEF OldPred, ManagerGets
    <2>2. \E out : Harmless(out) /\ Consume(s, Home, out)
      BY SilentHarmless DEF OldPred
    <2> QED
      BY <2>1, <2>2, ConsumeNetStep, HomeAssumption
  <1>2. TypeOK'
    <2>1. chain \in Seq(Entry)
      BY DEF TypeOK, Entry
    <2>2. chain' \in Seq(Entry)
      BY <2>1, PoppedType DEF OldPred, IsOld
    <2> QED
      BY <1>1, <2>1, <2>2
      DEF NetStep, NetTypeOK, TypeOK, OldPred, proxyVars, managerVars, Entry
  <1>3. \A q \in Site : Holder(q)' => Holder(q)
    BY DEF Holder, TypeOK, OldPred, proxyVars, managerVars, Entry, Consume
  <1> QED
    BY <1>1, <1>2, <1>3 DEF NetStep, Quiet

LEMMA NeedNoMoreStep ==
    ASSUME TypeOK, NEW s \in Site, NeedNoMore(s)
    PROVE  TypeOK' /\ Quiet
  <1>1. NetStep
    <2>1. /\ CanRecv(s, Home) /\ request[Home] \in Nat
          /\ "GET" \in ToManagerTypes
      BY HomeAssumption DEF NeedNoMore, ManagerGets, TypeOK, ToManagerTypes
    <2>2. \E out : Harmless(out) /\ Consume(s, Home, out)
      BY <2>1, SilentHarmless, ToManagerHarmless DEF NeedNoMore
    <2> QED
      BY <2>1, <2>2, ConsumeNetStep, HomeAssumption
  <1>2. TypeOK'
    <2>1. status' \in [Site -> Status]
      BY DEF TypeOK, NeedNoMore, Status
    <2> QED
      BY <1>1, <2>1
      DEF NetStep, NetTypeOK, TypeOK, NeedNoMore, managerVars
  <1>3. \A q \in Site : Holder(q)' => Holder(q)
    BY DEF Holder, TypeOK, NeedNoMore, managerVars, Consume
  <1> QED
    BY <1>1, <1>2, <1>3 DEF NetStep, Quiet

LEMMA FailedStep ==
    ASSUME TypeOK, NEW s \in Site, Failed(s)
    PROVE  TypeOK' /\ Quiet
  <1>1. NetStep
    <2>1. CanRecv(s, Home)
      BY DEF Failed, ManagerGets
    <2>2. \E out : Harmless(out) /\ Consume(s, Home, out)
      BY SilentHarmless, PermFailHarmless DEF Failed
    <2> QED
      BY <2>1, <2>2, ConsumeNetStep, HomeAssumption
  <1>2. TypeOK'
    <2>1. chain' \in Seq(Entry)
      <3>1. chain' = chain \/ chain' = <<>>
        BY DEF Failed, ManagerLostToken, managerVars
      <3>2. chain \in Seq(Entry)
        BY DEF TypeOK, Entry
      <3> QED
        BY <3>1, <3>2, EmptySeq
    <2>2. /\ last' \in Site \cup {NoSite}
          /\ mfail' \in BOOLEAN /\ proxies' \subseteq Site
      BY DEF TypeOK, Failed, ManagerLostToken, managerVars
    <2> QED
      BY <1>1, <2>1, <2>2
      DEF NetStep, NetTypeOK, TypeOK, Entry, Failed, proxyVars, managerVars
  <1>3. \A q \in Site : Holder(q)' => Holder(q)
    BY DEF Holder, TypeOK, Failed, proxyVars, managerVars, Consume
  <1> QED
    BY <1>1, <1>2, <1>3 DEF NetStep, Quiet

LEMMA FailedSuccStep ==
    ASSUME TypeOK, NEW s \in Site, FailedSucc(s)
    PROVE  TypeOK' /\ Quiet
  <1>1. CanRecv(s, Home) /\ chain \in Seq(Entry) /\ Home \in Site
    BY HomeAssumption DEF FailedSucc, ManagerGets, TypeOK, Entry
  <1>2. /\ NetStep
        /\ \A q \in Site : alive'[q] => alive[q]
        /\ chain' \in Seq(Entry)
        /\ last' \in Site \cup {NoSite}
    <2>1. CASE mfail
      <3>1. Consume(s, Home, Silent) /\ UNCHANGED <<chain, last>>
        BY <2>1 DEF FailedSucc
      <3>2. NetStep
        BY <1>1, <3>1, SilentHarmless, ConsumeNetStep
      <3> QED
        BY <1>1, <3>1, <3>2 DEF TypeOK, Consume
    <2>2. CASE ~mfail /\ HasSuccessor(s)
      <3>1. ChainWithoutSuccessor(s) \in Seq(Entry)
        BY <1>1, <2>2, WithoutSuccessorType
      <3>2. Position(s) \in 1..Len(chain) /\ Len(chain) \in Nat
        BY <1>1, <2>2, PositionInChain, LenProperties DEF HasSuccessor
      <3>3. CASE Position(s) + 1 < Len(chain)
        <4>1. /\ chain' = ChainWithoutSuccessor(s)
              /\ last' = last
              /\ Consume(s, Home, To(s, ToProxy("FORWARD",
                                          chain[Position(s) + 2].site, 0)))
          BY <2>2, <3>3 DEF FailedSucc
        <4>2. chain[Position(s) + 2] \in Entry
          BY <1>1, <3>2, <3>3, ElementOfSeq
        <4>3. chain[Position(s) + 2].site \in Site \cup {NoSite}
          BY <4>2 DEF Entry
        <4>4. NetStep
          BY <1>1, <4>1, <4>3, ManagerHarmless, ConsumeNetStep
        <4> QED
          BY <3>1, <4>1, <4>4 DEF TypeOK, Consume
      <3>4. CASE ~(Position(s) + 1 < Len(chain))
        <4>1. /\ chain' = ChainWithoutSuccessor(s)
              /\ last' = s
              /\ Consume(s, Home, Silent)
          BY <2>2, <3>4 DEF FailedSucc
        <4>2. NetStep
          BY <1>1, <4>1, SilentHarmless, ConsumeNetStep
        <4> QED
          BY <3>1, <4>1, <4>2 DEF Consume
      <3> QED
        BY <3>3, <3>4
    <2>3. CASE ~mfail /\ ~HasSuccessor(s)
      <3>1. Crash(Home) /\ UNCHANGED <<chain, last>>
        BY <2>3 DEF FailedSucc
      <3>2. NetStep
        BY <1>1, <3>1, CrashNetStep
      <3>3. \A q \in Site : alive'[q] => alive[q]
        BY <3>1 DEF Crash, TypeOK
      <3> QED
        BY <1>1, <3>1, <3>2, <3>3 DEF TypeOK
    <2> QED
      BY <2>1, <2>2, <2>3
  <1>3. TypeOK'
    BY <1>2 DEF NetStep, NetTypeOK, TypeOK, Entry, FailedSucc, proxyVars
  <1>4. \A q \in Site : Holder(q)' => Holder(q)
    BY <1>2 DEF Holder, FailedSucc, proxyVars
  <1> QED
    BY <1>2, <1>3, <1>4 DEF NetStep, Quiet

LEMMA OldSuccStep ==
    ASSUME TypeOK, NEW s \in Site, OldSucc(s)
    PROVE  TypeOK' /\ Quiet
  <1>1. CanRecv(s, Home) /\ chain \in Seq(Entry) /\ Home \in Site
    BY HomeAssumption DEF OldSucc, ManagerGets, TypeOK, Entry
  <1> DEFINE ManagerType == /\ chain' \in Seq(Entry)
                            /\ last' \in Site \cup {NoSite}
                            /\ mfail' \in BOOLEAN
                            /\ proxies' \subseteq Site
             Survivors == \A q \in Site : alive'[q] => alive[q]
  <1>2. UNCHANGED managerVars => ManagerType
    BY <1>1 DEF managerVars, TypeOK
  <1>3. ManagerLostToken => ManagerType
    BY EmptySeq DEF ManagerLostToken
  <1>4. NetStep /\ Survivors /\ ManagerType
    <2>1. CASE ~IsOld(s)
      <3>1. Consume(s, Home, Silent) /\ UNCHANGED managerVars
        BY <2>1 DEF OldSucc
      <3>2. NetStep
        BY <1>1, <3>1, SilentHarmless, ConsumeNetStep
      <3> QED
        BY <1>2, <3>1, <3>2 DEF Consume
    <2>2. CASE IsOld(s) /\ PoppedThrough(s) = <<>>
      <3>1. Crash(Home) /\ UNCHANGED managerVars
        BY <2>2 DEF OldSucc
      <3>2. NetStep
        BY <1>1, <3>1, CrashNetStep
      <3>3. Survivors
        BY <3>1 DEF Crash, TypeOK
      <3> QED
        BY <1>2, <3>1, <3>2, <3>3
    <2>3. CASE IsOld(s) /\ PoppedThrough(s) # <<>>
      <3>1. PoppedThrough(s) \in Seq(Entry)
        BY <1>1, <2>3, PoppedType DEF IsOld
      <3>2. 1 \in 1..Len(PoppedThrough(s))
        BY <2>3, <3>1
      <3>3. CASE AllFailed(PoppedThrough(s), 1, perm[Home])
        <4>1. Consume(s, Home, PermFailOut(<<>>)) /\ ManagerLostToken
          BY <2>3, <3>3 DEF OldSucc
        <4>2. NetStep
          BY <1>1, <4>1, PermFailHarmless, ConsumeNetStep
        <4> QED
          BY <1>3, <4>1, <4>2 DEF Consume
      <3>4. CASE ~AllFailed(PoppedThrough(s), 1, perm[Home])
        <4>1. /\ Consume(s, Home, InquiryOut(PoppedThrough(s), 1, perm[Home]))
              /\ chain' = PoppedThrough(s)
              /\ UNCHANGED <<last, mfail, proxies>>
          BY <2>3, <3>4 DEF OldSucc
        <4>2. Harmless(InquiryOut(PoppedThrough(s), 1, perm[Home]))
          BY <3>1, <3>2, <3>4, InquiryHarmless
        <4>3. NetStep
          BY <1>1, <4>1, <4>2, ConsumeNetStep
        <4>4. ManagerType
          BY <3>1, <4>1 DEF TypeOK
        <4> QED
          BY <4>1, <4>3, <4>4 DEF Consume
      <3> QED
        BY <3>3, <3>4
    <2> QED
      BY <2>1, <2>2, <2>3
  <1>5. TypeOK'
    BY <1>4 DEF NetStep, NetTypeOK, TypeOK, Entry, OldSucc, proxyVars
  <1>6. \A q \in Site : Holder(q)' => Holder(q)
    BY <1>4 DEF Holder, OldSucc, proxyVars
  <1> QED
    BY <1>4, <1>5, <1>6 DEF NetStep, Quiet

-----------------------------------------------------------------------------
(* Failures.                                                               *)

LEMMA SiteCrashStep ==
    ASSUME TypeOK, NEW s \in Site, SiteCrash(s)
    PROVE  TypeOK' /\ Quiet
  <1>1. NetStep
    BY CrashNetStep DEF SiteCrash
  <1>2. budget' \in [{"weak", "kill", "import", "crash"} -> Nat]
    BY SpendType DEF SiteCrash
  <1>3. TypeOK'
    BY <1>1, <1>2
    DEF NetStep, NetTypeOK, TypeOK, SiteCrash, proxyVars, managerVars
  <1>4. \A q \in Site : alive'[q] => alive[q]
    BY DEF SiteCrash, Crash, TypeOK
  <1>5. \A q \in Site : Holder(q)' => Holder(q)
    BY <1>4 DEF Holder, SiteCrash, proxyVars
  <1> QED
    BY <1>1, <1>3, <1>5 DEF NetStep, Quiet

LEMMA ProxyDetectHarmless ==
    ASSUME NEW p, NEW s
    PROVE  Harmless(ProxyDetectOut(p, s))
  <1>1. "FAILED_SUCC" \in ToManagerTypes
    BY DEF ToManagerTypes
  <1> QED
    BY <1>1, ToManagerHarmless, SilentHarmless DEF ProxyDetectOut

LEMMA DetectRemoteStep ==
    ASSUME TypeOK, NEW p \in Site, NEW s \in Site, DetectRemote(p, s)
    PROVE  TypeOK' /\ Quiet
  <1>1. NetStep
    BY ProxyDetectHarmless, DetectNetStep DEF DetectRemote
  <1>2. \/ ProxyLostToken(p)
        \/ /\ successor' = [successor EXCEPT ![p] = NoSite]
           /\ UNCHANGED <<susps, pfail, registered>>
        \/ UNCHANGED <<successor, susps, pfail, registered>>
    BY DEF DetectRemote
  <1>3. TypeOK'
    <2>1. pfail' \in [Site -> BOOLEAN] /\ registered' \in [Site -> BOOLEAN]
      BY <1>2 DEF TypeOK, ProxyLostToken
    <2>2. susps' \in [Site -> Nat]
      <3>1. susps' = susps \/ susps' = [susps EXCEPT ![p] = 0]
        BY <1>2 DEF ProxyLostToken
      <3>2. susps \in [Site -> Nat] /\ [susps EXCEPT ![p] = 0] \in [Site -> Nat]
        BY DEF TypeOK
      <3> QED
        BY <3>1, <3>2
    <2>3. successor' \in [Site -> Site \cup {NoSite}]
      BY <1>2 DEF TypeOK, ProxyLostToken
    <2> QED
      BY <1>1, <2>1, <2>2, <2>3
      DEF NetStep, NetTypeOK, TypeOK, DetectRemote, managerVars
  <1>4. \A q \in Site : pfail'[q] = pfail[q] \/ pfail'[q] = TRUE
    BY <1>2 DEF ProxyLostToken, TypeOK
  <1>5. \A q \in Site : Holder(q)' => Holder(q)
    BY <1>4 DEF Holder, DetectRemote, Detect
  <1> QED
    BY <1>1, <1>3, <1>5 DEF NetStep, Quiet

LEMMA DetectHomeStep ==
    ASSUME TypeOK, NEW s \in Site, DetectHome(s)
    PROVE  TypeOK' /\ Quiet
  <1>1. chain \in Seq(Entry) /\ Home \in Site
    BY HomeAssumption DEF TypeOK, Entry
  <1> DEFINE ManagerType == /\ chain' \in Seq(Entry)
                            /\ last' \in Site \cup {NoSite}
                            /\ mfail' \in BOOLEAN
                            /\ proxies' \subseteq Site
             own == ProxyDetectOut(Home, s)
             failed == perm[Home] \cup {s}
  <1>2. Harmless(own)
    BY ProxyDetectHarmless
  <1>3. \E out : /\ Harmless(out)
                 /\ Detect(Home, s, out)
                 /\ ManagerType
    <2>1. CASE mfail \/ ~InChain(s)
      BY <1>1, <1>2, <2>1 DEF DetectHome, TypeOK
    <2>2. CASE ~(mfail \/ ~InChain(s)) /\ AllFailed(chain, Position(s), failed)
      <3>1. /\ Detect(Home, s, Both(own, PermFailOut(<<>>)))
            /\ ManagerLostToken
        BY <2>2 DEF DetectHome
      <3>2. ManagerType
        BY <3>1, EmptySeq DEF ManagerLostToken
      <3>3. Harmless(Both(own, PermFailOut(<<>>)))
        BY <1>2, PermFailHarmless, BothHarmless
      <3> QED
        BY <3>1, <3>2, <3>3
    <2>3. CASE ~(mfail \/ ~InChain(s)) /\ ~AllFailed(chain, Position(s), failed)
      <3>1. /\ Detect(Home, s, Both(own, InquiryOut(chain, Position(s), failed)))
            /\ proxies' = proxies \ {s}
            /\ UNCHANGED <<chain, last, mfail>>
        BY <2>3 DEF DetectHome
      <3>2. ManagerType
        BY <1>1, <3>1 DEF TypeOK
      <3>3. Position(s) \in 1..Len(chain)
        BY <1>1, <2>3, PositionInChain
      <3>4. Harmless(InquiryOut(chain, Position(s), failed))
        BY <1>1, <2>3, <3>3, InquiryHarmless
      <3>5. Harmless(Both(own, InquiryOut(chain, Position(s), failed)))
        BY <1>2, <3>4, BothHarmless
      <3> QED
        BY <3>1, <3>2, <3>5
    <2> QED
      BY <2>1, <2>2, <2>3
  <1>4. NetStep /\ ManagerType /\ alive' = alive
    BY <1>1, <1>3, DetectNetStep DEF Detect
  <1>5. TypeOK'
    <2>1. successor' \in [Site -> Site \cup {NoSite}]
      BY DEF TypeOK, DetectHome
    <2> QED
      BY <1>4, <2>1 DEF NetStep, NetTypeOK, TypeOK, Entry, DetectHome
  <1>6. \A q \in Site : Holder(q)' => Holder(q)
    BY <1>4 DEF Holder, DetectHome
  <1> QED
    BY <1>4, <1>5, <1>6 DEF NetStep, Quiet

-----------------------------------------------------------------------------
(* The steps that handle the token, in states where it is unique.          *)

(* Site p had the token and sends it to d.                                 *)
Departure(p) ==
    /\ Holder(p)
    /\ \A q \in Site : ~Holder(q)'
    /\ \E d \in Site \cup {NoSite} : OnlyAt(chan', {TokenMessage}, p, d)

(* Site p takes the token from the link from s and sends it on to d.       *)
Passage(s, p) ==
    /\ Carried(chan, <<s, p>>, {TokenMessage})
    /\ \A q \in Site : ~Holder(q)'
    /\ \E d \in Site \cup {NoSite} : OnlyAt(chan', {TokenMessage}, p, d)

(* Site p takes the token from the link from s and keeps it.               *)
Arrival(s, p) ==
    /\ Carried(chan, <<s, p>>, {TokenMessage})
    /\ \A q \in Site : Holder(q)' <=> q = p
    /\ NoneOf(chan', {TokenMessage})

LEMMA TokenIsMessage ==
    /\ TokenMessage \in Message
    /\ \A d : To(d, TokenMessage) \in [Site -> Seq(Message)]
  <1>1. TokenMessage \in Message
    BY DEF Message
  <1> QED
    BY <1>1, ToType

LEMMA ForwardedType ==
    ASSUME TypeOK, NEW p \in Site, ForwardedToken(p)
    PROVE  /\ status' \in [Site -> Status]
           /\ successor' \in [Site -> Site \cup {NoSite}]
           /\ request' \in [Site -> Nat]
           /\ \A q \in Site : status'[q] = IF q = p THEN "EMPTY" ELSE status[q]
  <1>1. request' \in [Site -> Nat]
    BY DEF TypeOK, ForwardedToken
  <1>2. /\ status' \in [Site -> Status]
        /\ successor' \in [Site -> Site \cup {NoSite}]
        /\ \A q \in Site : status'[q] = IF q = p THEN "EMPTY" ELSE status[q]
    BY DEF TypeOK, ForwardedToken, Status
  <1> QED
    BY <1>1, <1>2

LEMMA ClearWeakRootStep ==
    ASSUME TypeOK, TokenUnique, NEW p \in Site, ClearWeakRoot(p)
    PROVE  TypeOK' /\ (Quiet \/ Departure(p))
  <1>1. budget' \in [{"weak", "kill", "import", "crash"} -> Nat]
    BY SpendType DEF ClearWeakRoot
  <1>2. /\ alive[p] /\ alive' = alive /\ Holder(p)
        /\ UNCHANGED <<present, pfail>>
    BY DEF ClearWeakRoot, IsWeakRoot, Emit, Idle, Holder
  <1>3. CASE successor[p] # NoSite
    <2>1. /\ Emit(p, To(successor[p], TokenMessage))
          /\ ForwardedToken(p)
          /\ successor[p] \in Site \cup {NoSite}
      BY <1>3 DEF ClearWeakRoot, TokenTo, TypeOK
    <2>2. NetTypeOK(Message)'
      BY <2>1, TypeOKNet, EmitStep, TokenIsMessage
    <2>3. TypeOK'
      BY <1>1, <2>1, <2>2, ForwardedType
      DEF NetTypeOK, TypeOK, ClearWeakRoot, managerVars
    <2>4. NoneOf(chan, {TokenMessage}) /\ \A q \in Site : Holder(q) => q = p
      BY <1>2 DEF TokenUnique
    <2>5. OnlyAt(chan', {TokenMessage}, p, successor[p])
      BY <2>1, <2>4, TypeOKNet, EmitSendsToken, TokenIsMessage,
         ToOnlyFor
    <2>6. \A q \in Site : ~Holder(q)'
      BY <1>2, <2>1, <2>4, ForwardedType DEF Holder
    <2> QED
      BY <1>2, <2>1, <2>3, <2>5, <2>6 DEF Departure
  <1>4. CASE successor[p] = NoSite
    <2>1. /\ Emit(p, sendToManager("NEED_NO_MORE", 0))
          /\ UNCHANGED <<status, successor, request>>
          /\ "NEED_NO_MORE" \in ToManagerTypes
      BY <1>4 DEF ClearWeakRoot, ToManagerTypes
    <2>2. NetStep
      BY <2>1, ToManagerHarmless, EmitNetStep
    <2>3. TypeOK'
      BY <1>1, <2>1, <2>2
      DEF NetStep, NetTypeOK, TypeOK, ClearWeakRoot, managerVars
    <2>4. \A q \in Site : Holder(q)' => Holder(q)
      BY <1>2, <2>1 DEF Holder
    <2> QED
      BY <2>2, <2>3, <2>4 DEF NetStep, Quiet
  <1> QED
    BY <1>3, <1>4

LEMMA GetForwardStep ==
    ASSUME TypeOK, TokenUnique, NEW s \in Site, NEW p \in Site, GetForward(s, p)
    PROVE  TypeOK' /\ (Quiet \/ Departure(p))
  <1>1. CanRecv(s, p) /\ Head1(s, p).site \in Site \cup {NoSite}
    BY HeadIsMessage DEF GetForward, ProxyGets
  <1>2. CASE status[p] = "HERE"
    <2>1. /\ Consume(s, p, To(Head1(s, p).site, TokenMessage))
          /\ ForwardedToken(p)
          /\ alive' = alive /\ UNCHANGED <<present, pfail>>
      BY <1>2 DEF GetForward, TokenTo, Consume
    <2>2. NetTypeOK(Message)'
      BY <1>1, <2>1, TypeOKNet, ConsumeStep, TokenIsMessage
    <2>3. TypeOK'
      BY <2>1, <2>2, ForwardedType
      DEF NetTypeOK, TypeOK, GetForward, managerVars
    <2>4. Holder(p)
      BY <1>1, <1>2 DEF GetForward, ProxyGets, CanRecv, Holder
    <2>5. NoneOf(chan, {TokenMessage}) /\ \A q \in Site : Holder(q) => q = p
      BY <2>4 DEF TokenUnique
    <2>6. OnlyAt(chan', {TokenMessage}, p, Head1(s, p).site)
      BY <1>1, <2>1, <2>5, TypeOKNet, ConsumeSendsToken,
         TokenIsMessage, ToOnlyFor
    <2>7. \A q \in Site : ~Holder(q)'
      BY <2>1, <2>5, ForwardedType DEF Holder
    <2> QED
      BY <1>1, <2>3, <2>4, <2>6, <2>7 DEF Departure
  <1>3. CASE status[p] # "HERE"
    <2>1. /\ Consume(s, p, Silent)
          /\ successor' = [successor EXCEPT ![p] = Head1(s, p).site]
          /\ UNCHANGED <<status, request>>
          /\ alive' = alive /\ UNCHANGED <<present, pfail>>
      BY <1>3 DEF GetForward, Consume
    <2>2. NetStep
      BY <1>1, <2>1, SilentHarmless, ConsumeNetStep
    <2>3. TypeOK'
      <3>1. successor' \in [Site -> Site \cup {NoSite}]
        BY <1>1, <2>1 DEF TypeOK
      <3> QED
        BY <2>1, <2>2, <3>1
        DEF NetStep, NetTypeOK, TypeOK, GetForward, managerVars
    <2>4. \A q \in Site : Holder(q)' => Holder(q)
      BY <2>1 DEF Holder
    <2> QED
      BY <2>2, <2>3, <2>4 DEF NetStep, Quiet
  <1> QED
    BY <1>2, <1>3

LEMMA GetTokenStep ==
    ASSUME TypeOK, TokenUnique, NEW s \in Site, NEW p \in Site, GetToken(s, p)
    PROVE  TypeOK' /\ (Passage(s, p) \/ Arrival(s, p))
  <1>1. /\ CanRecv(s, p) /\ Head(chan[<<s, p>>]) = TokenMessage
        /\ alive[p] /\ present[p] /\ ~pfail[p]
        /\ alive' = alive /\ UNCHANGED <<present, pfail>>
    BY HeadIsMessage DEF GetToken, ProxyGets, Head1, CanRecv, Consume
  <1>2. Carried(chan, <<s, p>>, {TokenMessage})
    <2>1. chan[<<s, p>>] \in Seq(Message) /\ chan[<<s, p>>] # <<>>
      BY <1>1 DEF TypeOK, CanRecv
    <2>2. 1 \in DOMAIN chan[<<s, p>>] /\ chan[<<s, p>>][1] = TokenMessage
      BY <1>1, <2>1
    <2> QED
      BY <2>2 DEF Carried
  <1>3. OnlyOne(chan, {TokenMessage}) /\ \A q \in Site : ~Holder(q)
    BY <1>2 DEF TokenUnique, NoneOf, Carried
  <1>4. susps' \in [Site -> Nat]
    BY DEF GetToken, TypeOK
  <1>5. CASE successor[p] # NoSite
    <2>1. /\ Consume(s, p, To(successor[p], TokenMessage))
          /\ ForwardedToken(p)
          /\ successor[p] \in Site \cup {NoSite}
      BY <1>5 DEF GetToken, TokenTo, TypeOK
    <2>2. NetTypeOK(Message)'
      BY <1>1, <2>1, TypeOKNet, ConsumeStep, TokenIsMessage
    <2>3. TypeOK'
      BY <1>4, <2>1, <2>2, ForwardedType
      DEF NetTypeOK, TypeOK, GetToken, managerVars
    <2>4. OnlyAt(chan', {TokenMessage}, p, successor[p])
      BY <1>1, <1>3, <2>1, TypeOKNet, ConsumeSendsToken,
         TokenIsMessage, ToOnlyFor
    <2>5. \A q \in Site : ~Holder(q)'
      BY <1>1, <1>3, <2>1, ForwardedType DEF Holder
    <2> QED
      BY <1>2, <2>1, <2>3, <2>4, <2>5 DEF Passage
  <1>6. CASE successor[p] = NoSite
    <2>1. /\ Consume(s, p, sendToManager("TOKEN_HERE", 0))
          /\ status' = [status EXCEPT ![p] = "HERE"]
          /\ UNCHANGED <<successor, request>>
          /\ "TOKEN_HERE" \in ToManagerTypes
      BY <1>6 DEF GetToken, ToManagerTypes
    <2>2. Harmless(sendToManager("TOKEN_HERE", 0))
      BY <2>1, ToManagerHarmless
    <2>3. NetStep
      BY <1>1, <2>1, <2>2, ConsumeNetStep
    <2>4. TypeOK'
      <3>1. status' \in [Site -> Status]
        BY <2>1 DEF TypeOK, Status
      <3> QED
        BY <1>4, <2>1, <2>3, <3>1
        DEF NetStep, NetTypeOK, TypeOK, GetToken, managerVars
    <2>5. NoneOf(chan', {TokenMessage})
      BY <1>1, <1>3, <2>1, <2>2, TypeOKNet, ConsumeToken DEF Harmless
    <2>6. \A q \in Site : Holder(q)' <=> q = p
      BY <1>1, <1>3, <2>1 DEF Holder, TypeOK
    <2> QED
      BY <1>2, <2>4, <2>5, <2>6 DEF Arrival
  <1> QED
    BY <1>5, <1>6

-----------------------------------------------------------------------------
(* The inductive invariant.                                                *)

IInv == TypeOK /\ AbsentEmpty /\ TokenUnique

TokenStep ==
    \/ Quiet
    \/ \E p \in Site : Departure(p)
    \/ \E s, p \in Site : Passage(s, p) \/ Arrival(s, p)

LEMMA AbsentEmptyStep ==
    ASSUME TypeOK, AbsentEmpty, Next
    PROVE  AbsentEmpty'
  <1> USE HomeAssumption DEF AbsentEmpty, TypeOK
  <1>1. ASSUME NEW p \in Site, Operation(p)
        PROVE  AbsentEmpty'
    <2>1. CASE AccessRequest(p)
      BY <2>1 DEF AccessRequest
    <2>2. CASE AccessWait(p)
      BY <2>2 DEF AccessWait
    <2>3. CASE Monitor(p)
      BY <2>3 DEF Monitor
    <2>4. CASE Kill(p)
      BY <2>4 DEF Kill, proxyVars
    <2>5. CASE ClearWeakRoot(p)
      BY <2>5 DEF ClearWeakRoot, ForwardedToken
    <2>6. CASE DeleteProxy(p)
      BY <2>6 DEF DeleteProxy
    <2>7. CASE ImportProxy(p)
      BY <2>7 DEF ImportProxy
    <2> QED
      BY <1>1, <2>1, <2>2, <2>3, <2>4, <2>5, <2>6, <2>7 DEF Operation
  <1>2. ASSUME NEW s \in Site, NEW p \in Site, ProxyReceives(s, p)
        PROVE  AbsentEmpty'
    <2>1. CASE ProxyIgnores(s, p)
      BY <2>1 DEF ProxyIgnores, proxyVars
    <2>2. CASE GetForward(s, p)
      BY <2>2 DEF GetForward, ProxyGets, ForwardedToken
    <2>3. CASE GetToken(s, p)
      BY <2>3, SMTT(40) DEF GetToken, ProxyGets, ForwardedToken
    <2>4. CASE GetCheckSucc(s, p)
      BY <2>4 DEF GetCheckSucc
    <2>5. CASE GetCheckPred(s, p)
      BY <2>5 DEF GetCheckPred
    <2>6. CASE GetPermFail(s, p)
      BY <2>6 DEF GetPermFail
    <2> QED
      BY <1>2, <2>1, <2>2, <2>3, <2>4, <2>5, <2>6 DEF ProxyReceives
  <1>3. ASSUME NEW s \in Site, ManagerReceives(s)
        PROVE  AbsentEmpty'
    <2>1. CASE NeedNoMore(s)
      BY <2>1 DEF NeedNoMore
    <2>2. CASE ~NeedNoMore(s)
      <3>1. UNCHANGED <<present, status>>
        BY <1>3, <2>2 DEF ManagerReceives, Register, Deregister, Get, TokenHere,
             FailedSucc, Failed, OldPred, OldSucc, proxyVars
      <3> QED
        BY <3>1
    <2> QED
      BY <2>1, <2>2
  <1>4. ASSUME NEW s \in Site, SiteCrash(s) \/ DetectHome(s)
        PROVE  AbsentEmpty'
    BY <1>4 DEF SiteCrash, DetectHome, proxyVars
  <1>5. ASSUME NEW p \in Site, NEW s \in Site, DetectRemote(p, s)
        PROVE  AbsentEmpty'
    BY <1>5 DEF DetectRemote
  <1> QED
    BY <1>1, <1>2, <1>3, <1>4, <1>5 DEF Next

LEMMA NextStep ==
    ASSUME IInv, Next
    PROVE  TypeOK' /\ TokenStep
  <1> USE DEF IInv
  <1>1. ASSUME NEW p \in Site, Operation(p)
        PROVE  TypeOK' /\ TokenStep
    BY <1>1, AccessRequestStep, AccessWaitStep, MonitorStep, KillStep,
       ClearWeakRootStep, DeleteProxyStep, ImportProxyStep
    DEF Operation, TokenStep
  <1>2. ASSUME NEW s \in Site, NEW p \in Site, ProxyReceives(s, p)
        PROVE  TypeOK' /\ TokenStep
    BY <1>2, ProxyIgnoresStep, GetForwardStep, GetTokenStep, GetCheckSuccStep,
       GetCheckPredStep, GetPermFailStep
    DEF ProxyReceives, TokenStep
  <1>3. ASSUME NEW s \in Site, ManagerReceives(s)
        PROVE  TypeOK' /\ TokenStep
    BY <1>3, RegisterStep, DeregisterStep, GetStep, TokenHereStep,
       NeedNoMoreStep, FailedSuccStep, FailedStep, OldPredStep, OldSuccStep
    DEF ManagerReceives, TokenStep
  <1>4. ASSUME NEW s \in Site, SiteCrash(s) \/ DetectHome(s)
        PROVE  TypeOK' /\ TokenStep
    BY <1>4, SiteCrashStep, DetectHomeStep DEF TokenStep
  <1>5. ASSUME NEW p \in Site, NEW s \in Site, DetectRemote(p, s)
        PROVE  TypeOK' /\ TokenStep
    BY <1>5, DetectRemoteStep DEF TokenStep
  <1> QED
    BY <1>1, <1>2, <1>3, <1>4, <1>5 DEF Next

LEMMA TokenStepUnique ==
    ASSUME TokenUnique, TokenStep
    PROVE  TokenUnique'
  <1>1. CASE Quiet
    <2>1. (\E p \in Site : Holder(p)') => NoneOf(chan', {TokenMessage})
      BY <1>1 DEF Quiet, Keeps, TokenUnique
    <2> QED
      BY <1>1, <2>1 DEF Quiet, Keeps, TokenUnique
  <1>2. ASSUME \A q \in Site : ~Holder(q)', NEW p, NEW d,
               OnlyAt(chan', {TokenMessage}, p, d)
        PROVE  TokenUnique'
    BY <1>2 DEF OnlyAt, TokenUnique
  <1>3. ASSUME NEW s \in Site, NEW p \in Site, Arrival(s, p)
        PROVE  TokenUnique'
    <2>1. OnlyOne(chan', {TokenMessage})
      BY <1>3 DEF Arrival, NoneOf, OnlyOne
    <2> QED
      BY <1>3, <2>1 DEF Arrival, TokenUnique
  <1> QED
    BY <1>1, <1>2, <1>3 DEF TokenStep, Departure, Passage

LEMMA InitIInv == Init => IInv
  <1> SUFFICES ASSUME Init
               PROVE  IInv
    OBVIOUS
  <1> USE HomeAssumption, NoSiteAssumption
  <1>1. NoneOf(chan, {TokenMessage}) /\ OnlyOne(chan, {TokenMessage})
    BY DEF Init, NetInit, NoneOf, OnlyOne
  <1>2. TypeOK
    <2>1. chain \in Seq([site: Site, req: Nat])
      BY DEF Init
    <2>2. budget \in [{"weak", "kill", "import", "crash"} -> Nat]
      BY BoundsAssumption DEF Init
    <2>3. chan \in [Site \X Site -> Seq(Message)]
      BY EmptySeq DEF Init, NetInit
    <2>4. susps \in [Site -> Nat] /\ request \in [Site -> Nat]
      BY DEF Init
    <2> QED
      BY <2>1, <2>2, <2>3, <2>4 DEF Init, NetInit, TypeOK, Status
  <1>3. AbsentEmpty
    BY DEF Init, AbsentEmpty
  <1>4. \A p \in Site : Holder(p) => p = Home
    BY DEF Init, Holder
  <1> QED
    BY <1>1, <1>2, <1>3, <1>4 DEF IInv, TokenUnique

LEMMA StutterIInv ==
    ASSUME IInv, UNCHANGED vars
    PROVE  IInv'
  BY DEF IInv, TypeOK, AbsentEmpty, TokenUnique, Holder, NoneOf, OnlyOne, vars,
         proxyVars, managerVars, netVars

LEMMA NextIInv ==
    ASSUME IInv, [Next]_vars
    PROVE  IInv'
  <1>1. CASE Next
    BY <1>1, NextStep, AbsentEmptyStep, TokenStepUnique DEF IInv
  <1>2. CASE UNCHANGED vars
    BY <1>2, StutterIInv
  <1> QED
    BY <1>1, <1>2

(* The invariant: types, absent proxies have no token, the token is unique.*)
THEOREM Invariance == Spec => []IInv
  BY InitIInv, NextIInv, PTL DEF Spec

(* Every variable of the proxies, the manager and the network keeps its    *)
(* type, for every number of sites and all bounds.                         *)
THEOREM TypeCorrect == Spec => []TypeOK
  <1>1. IInv => TypeOK
    BY DEF IInv
  <1> QED
    BY <1>1, Invariance, PTL

(* The token of the migratory protocol is unique in spite of crashes,      *)
(* kills, garbage collection and inquiries, for every number of sites.     *)
THEOREM TokenIsUnique == Spec => []TokenUnique
  <1>1. IInv => TokenUnique
    BY DEF IInv
  <1> QED
    BY <1>1, Invariance, PTL

-----------------------------------------------------------------------------
(* The refinement of MobileState.                                          *)

at == {p \in Site : Holder(p)}
moving == {d \in Site : TokenUnderWay(d)}

LEMMA OnePlace ==
    ASSUME TypeOK, TokenUnique
    PROVE  /\ \A p \in at : at = {p} /\ moving = {}
           /\ \A d \in moving : at = {} /\ moving = {d}
  <1>1. ASSUME NEW p \in at
        PROVE  at = {p} /\ moving = {}
    BY <1>1 DEF at, moving, TokenUnique, TokenUnderWay, Carried, NoneOf
  <1>2. ASSUME NEW d \in moving
        PROVE  at = {} /\ moving = {d}
    <2>1. PICK s \in Site : Carried(chan, <<s, d>>, {TokenMessage})
      BY <1>2 DEF moving, TokenUnderWay
    <2>2. ASSUME NEW e \in moving
          PROVE  e = d
      <3>1. PICK r \in Site : Carried(chan, <<r, e>>, {TokenMessage})
        BY <2>2 DEF moving, TokenUnderWay
      <3>2. <<s, d>> = <<r, e>>
        BY <1>2, <2>1, <2>2, <3>1 DEF moving, TokenUnique, OnlyOne, Carried
      <3> QED
        BY <3>2
    <2>3. at = {}
      BY <1>1, <1>2
    <2> QED
      BY <1>2, <2>2, <2>3
  <1> QED
    BY <1>1, <1>2

LEMMA SentMoves ==
    ASSUME NEW p \in Site, NEW d, OnlyAt(chan', {TokenMessage}, p, d)
    PROVE  moving' = {} \/ (d \in Site /\ moving' = {d})
  <1>1. ASSUME NEW e \in moving'
        PROVE  e = d /\ d \in Site
    <2>1. PICK r \in Site : Carried(chan', <<r, e>>, {TokenMessage})
      BY <1>1 DEF moving, TokenUnderWay
    <2>2. <<r, e>> = <<p, d>> /\ e \in Site
      BY <1>1, <2>1 DEF OnlyAt, moving
    <2> QED
      BY <2>2
  <1> QED
    BY <1>1

LEMMA StepRefines ==
    ASSUME TypeOK, TokenUnique, TokenStep
    PROVE  [Mobile!Next]_<<at, moving>>
  <1> USE DEF Mobile!Next, Mobile!Move, Mobile!Lose, Mobile!Depart,
              Mobile!Pass, Mobile!Arrive
  <1>1. CASE Quiet
    <2>1. at' \subseteq at
      BY <1>1 DEF Quiet, at
    <2>2. moving' \subseteq moving
      BY <1>1 DEF Quiet, Keeps, moving, TokenUnderWay
    <2>3. CASE at = {} /\ moving = {}
      BY <2>1, <2>2, <2>3
    <2>4. ASSUME NEW p \in at
          PROVE  [Mobile!Next]_<<at, moving>>
      BY <2>1, <2>2, <2>4, OnePlace DEF at, moving
    <2>5. ASSUME NEW d \in moving
          PROVE  [Mobile!Next]_<<at, moving>>
      BY <2>1, <2>2, <2>5, OnePlace DEF at, moving
    <2> QED
      BY <2>3, <2>4, <2>5
  <1>2. ASSUME NEW p \in Site, Departure(p)
        PROVE  [Mobile!Next]_<<at, moving>>
    <2>1. at = {p} /\ moving = {}
      BY <1>2, OnePlace DEF Departure, at
    <2>2. at' = {}
      BY <1>2 DEF Departure, at
    <2>3. \E d : moving' = {} \/ (d \in Site /\ moving' = {d})
      BY <1>2, SentMoves DEF Departure
    <2> QED
      BY <2>1, <2>2, <2>3 DEF at, moving
  <1>3. ASSUME NEW s \in Site, NEW p \in Site, Passage(s, p)
        PROVE  [Mobile!Next]_<<at, moving>>
    <2>1. p \in moving
      BY <1>3 DEF Passage, moving, TokenUnderWay
    <2>2. at = {} /\ moving = {p}
      BY <2>1, OnePlace
    <2>3. at' = {}
      BY <1>3 DEF Passage, at
    <2>4. \E d : moving' = {} \/ (d \in Site /\ moving' = {d})
      BY <1>3, SentMoves DEF Passage
    <2> QED
      BY <2>2, <2>3, <2>4 DEF at, moving
  <1>4. ASSUME NEW s \in Site, NEW p \in Site, Arrival(s, p)
        PROVE  [Mobile!Next]_<<at, moving>>
    <2>1. p \in moving
      BY <1>4 DEF Arrival, moving, TokenUnderWay
    <2>2. at = {} /\ moving = {p}
      BY <2>1, OnePlace
    <2>3. at' = {p}
      BY <1>4 DEF Arrival, at
    <2>4. moving' = {}
      BY <1>4 DEF Arrival, moving, TokenUnderWay, NoneOf, Carried
    <2> QED
      BY <2>2, <2>3, <2>4 DEF at, moving
  <1> QED
    BY <1>1, <1>2, <1>3, <1>4 DEF TokenStep

LEMMA InitRefines ==
    ASSUME Init
    PROVE  at = {Home} /\ moving = {}
  <1>1. \A p \in Site : Holder(p) <=> p = Home
    BY DEF Init, NetInit, Holder
  <1>2. \A l \in Site \X Site : ~Carried(chan, l, {TokenMessage})
    BY DEF Init, NetInit, Carried
  <1> QED
    BY <1>1, <1>2, HomeAssumption DEF at, moving, TokenUnderWay

LEMMA StutterRefines ==
    ASSUME UNCHANGED vars
    PROVE  UNCHANGED <<at, moving>>
  BY DEF at, moving, Holder, TokenUnderWay, Carried, vars, proxyVars, netVars

(* The migratory protocol implements MobileState: the state of the entity  *)
(* is in one place or lost, moves only by MIGM_TOKEN, and never comes back *)
(* once lost, for every number of sites, crashes, kills and reimports.     *)
THEOREM MigratoryIsMobile == Spec => StateIsMobile
  <1>1. Init => Mobile!Init
    BY InitRefines DEF Mobile!Init, at, moving
  <1>2. ASSUME IInv, [Next]_vars
        PROVE  [Mobile!Next]_<<{p \in Site : Holder(p)},
                               {d \in Site : TokenUnderWay(d)}>>
    <2>1. CASE Next
      BY <1>2, <2>1, NextStep, StepRefines DEF IInv, at, moving
    <2>2. CASE UNCHANGED vars
      BY <2>2, StutterRefines DEF at, moving
    <2> QED
      BY <1>2, <2>1, <2>2
  <1> QED
    BY <1>1, <1>2, Invariance, PTL DEF Spec, StateIsMobile, Mobile!Spec

-----------------------------------------------------------------------------
(* The chain as relations between sites: s is in the chain c for request   *)
(* r, b comes right after a, a is ahead of the entry of b for request r,   *)
(* the last entry is that of a.                                            *)

Has(c, s, r) == \E i \in DOMAIN c : c[i].site = s /\ c[i].req = r

Adjacent(c, a, b) ==
    \E i \in DOMAIN c : i + 1 \in DOMAIN c /\ c[i].site = a /\ c[i + 1].site = b

Ahead(c, a, b, r) ==
    \E i, j \in DOMAIN c :
        i < j /\ c[i].site = a /\ c[j].site = b /\ c[j].req = r

Ends(c, a) == c # <<>> /\ c[Len(c)].site = a

Distinct(c) == \A i, j \in DOMAIN c : c[i].site = c[j].site => i = j

LEMMA ChainElements ==
    ASSUME NEW c \in Seq(Entry)
    PROVE  /\ Len(c) \in Nat /\ DOMAIN c = 1..Len(c)
           /\ \A i \in 1..Len(c) : c[i].site \in Site /\ c[i].req \in Nat
           /\ c = <<>> <=> Len(c) = 0
  <1>1. Len(c) \in Nat /\ DOMAIN c = 1..Len(c)
    BY LenProperties
  <1>2. \A i \in 1..Len(c) : c[i] \in Entry
    BY ElementOfSeq
  <1>3. c = <<>> <=> Len(c) = 0
    BY EmptySeq
  <1> QED
    BY <1>1, <1>2, <1>3 DEF Entry

LEMMA AdjacentFacts ==
    ASSUME NEW c \in Seq(Entry), Distinct(c), NEW a, NEW b, Adjacent(c, a, b)
    PROVE  /\ a # b /\ Visits(c, a) /\ Visits(c, b) /\ a \in Site /\ b \in Site
           /\ \A x : Adjacent(c, a, x) => x = b
           /\ \A x, r : Ahead(c, x, b, r) => x = a \/ \E t \in Nat : Ahead(c, x, a, t)
           /\ \E r \in Nat : Ahead(c, a, b, r) /\ Has(c, b, r)
           /\ \A r : Has(c, b, r) => Ahead(c, a, b, r)
           /\ \A x, r : Ahead(c, b, x, r) => Ahead(c, a, x, r) /\ x # a /\ x # b
           /\ ~Ends(c, a)
  <1> DEFINE n == Len(c)
  <1>1. /\ n \in Nat /\ DOMAIN c = 1..n
        /\ \A i \in 1..n : c[i].site \in Site /\ c[i].req \in Nat
    BY ChainElements
  <1> HIDE DEF n
  <1>2. PICK i \in 1..n : i + 1 \in 1..n /\ c[i].site = a /\ c[i + 1].site = b
    BY <1>1 DEF Adjacent
  <1>3. a # b
    BY <1>1, <1>2, SMTT(40) DEF Distinct
  <1>4. Visits(c, a) /\ Visits(c, b)
    BY <1>2 DEF Visits, n
  <1>5. ASSUME NEW x, Adjacent(c, a, x)
        PROVE  x = b
    BY <1>1, <1>2, <1>5 DEF Adjacent, Distinct
  <1>6. ASSUME NEW x, NEW r, Ahead(c, x, b, r)
        PROVE  x = a \/ \E t \in Nat : Ahead(c, x, a, t)
    <2>1. PICK k, j \in 1..n : k < j /\ c[k].site = x /\ c[j].site = b
      BY <1>1, <1>6 DEF Ahead
    <2>2. j = i + 1
      BY <1>1, <1>2, <2>1 DEF Distinct
    <2>3. CASE k = i
      BY <1>2, <2>1, <2>3
    <2>4. CASE k # i
      <3>1. k < i
        BY <2>1, <2>2, <2>4
      <3> QED
        BY <1>1, <1>2, <2>1, <3>1 DEF Ahead
    <2> QED
      BY <2>3, <2>4
  <1>7. \E r \in Nat : Ahead(c, a, b, r) /\ Has(c, b, r)
    <2>1. i < i + 1
      BY <1>1
    <2> QED
      BY <1>1, <1>2, <2>1 DEF Ahead, Has
  <1>8. ~Ends(c, a)
    BY <1>1, <1>2 DEF Ends, Distinct, n
  <1>9. ASSUME NEW r, Has(c, b, r)
        PROVE  Ahead(c, a, b, r)
    <2>1. PICK j \in 1..n : c[j].site = b /\ c[j].req = r
      BY <1>1, <1>9 DEF Has
    <2>2. j = i + 1
      BY <1>1, <1>2, <2>1 DEF Distinct
    <2>3. i < j
      BY <1>1, <2>2
    <2> QED
      BY <1>1, <1>2, <2>1, <2>3 DEF Ahead
  <1>10. ASSUME NEW x, NEW r, Ahead(c, b, x, r)
         PROVE  Ahead(c, a, x, r) /\ x # a /\ x # b
    <2>1. PICK k, j \in 1..n : k < j /\ c[k].site = b /\ c[j].site = x /\ c[j].req = r
      BY <1>1, <1>10 DEF Ahead
    <2>2. k = i + 1
      BY <1>1, <1>2, <2>1 DEF Distinct
    <2>3. i < j /\ i # j /\ k # j
      BY <1>1, <2>1, <2>2
    <2>4. x # a /\ x # b
      BY <1>1, <1>2, <2>1, <2>3 DEF Distinct
    <2> QED
      BY <1>1, <1>2, <2>1, <2>3, <2>4 DEF Ahead
  <1> QED
    BY <1>1, <1>2, <1>3, <1>4, <1>5, <1>6, <1>7, <1>8, <1>9, <1>10

LEMMA ChainFacts ==
    ASSUME NEW c \in Seq(Entry), Distinct(c)
    PROVE  /\ \A a : Ends(c, a) => Visits(c, a) /\ a \in Site
           /\ \A a, b : Ends(c, a) /\ Ends(c, b) => a = b
           /\ \A a, r : Has(c, a, r) => Visits(c, a) /\ a \in Site /\ r \in Nat
           /\ \A a : Visits(c, a) => \E r \in Nat : Has(c, a, r)
           /\ \A a, b, r : Ahead(c, a, b, r)
                 => Visits(c, a) /\ Has(c, b, r) /\ a # b /\ a \in Site /\ ~Ends(c, a)
           /\ \A a, b, r : Ends(c, b) /\ Visits(c, a) /\ a # b /\ Has(c, b, r)
                 => Ahead(c, a, b, r)
  <1> DEFINE n == Len(c)
  <1>1. /\ n \in Nat /\ DOMAIN c = 1..n
        /\ \A i \in 1..n : c[i].site \in Site /\ c[i].req \in Nat
        /\ c = <<>> <=> n = 0
    BY ChainElements
  <1>2. \A a : Visits(c, a) <=> \E i \in 1..n : c[i].site = a
    BY DEF Visits
  <1>3. \A a : Ends(c, a) <=> n \in 1..n /\ c[n].site = a
    BY <1>1 DEF Ends
  <1> HIDE DEF n
  <1>4. \A a : Ends(c, a) => Visits(c, a) /\ a \in Site
    BY <1>1, <1>2, <1>3
  <1>5. \A a, r : Has(c, a, r) => Visits(c, a) /\ a \in Site /\ r \in Nat
    BY <1>1, <1>2 DEF Has
  <1>6. \A a : Visits(c, a) => \E r \in Nat : Has(c, a, r)
    BY <1>1, <1>2 DEF Has
  <1>7. ASSUME NEW a, NEW b, NEW r, Ahead(c, a, b, r)
        PROVE  Visits(c, a) /\ Has(c, b, r) /\ a # b /\ a \in Site /\ ~Ends(c, a)
    <2>1. PICK i, j \in 1..n : i < j /\ c[i].site = a /\ c[j].site = b /\ c[j].req = r
      BY <1>1, <1>7 DEF Ahead
    <2>2. i # j /\ i # n
      BY <1>1, <2>1
    <2> QED
      BY <1>1, <1>2, <1>3, <2>1, <2>2 DEF Has, Distinct
  <1>8. ASSUME NEW a, NEW b, NEW r, Ends(c, b), Visits(c, a), a # b, Has(c, b, r)
        PROVE  Ahead(c, a, b, r)
    <2>1. PICK i \in 1..n : c[i].site = a
      BY <1>2, <1>8
    <2>2. PICK j \in 1..n : c[j].site = b /\ c[j].req = r
      BY <1>1, <1>8 DEF Has
    <2>3. j = n
      BY <1>1, <1>3, <1>8, <2>2 DEF Distinct
    <2>4. i < j
      BY <1>1, <1>8, <2>1, <2>2, <2>3
    <2> QED
      BY <1>1, <2>1, <2>2, <2>4 DEF Ahead
  <1> QED
    BY <1>3, <1>4, <1>5, <1>6, <1>7, <1>8

(* The chain n is the end of c: whatever is missing was ahead of it.       *)
EndOf(c, n) ==
    /\ n \in Seq(Entry) /\ Distinct(n)
    /\ \A a : Ends(c, a) => Ends(n, a)
    /\ \A a : Visits(n, a) => Visits(c, a)
    /\ \A a, r : Has(n, a, r) => Has(c, a, r)
    /\ \A a, b : Adjacent(n, a, b) => Adjacent(c, a, b)
    /\ \A a, b : Adjacent(c, a, b) /\ Visits(n, a) => Adjacent(n, a, b)
    /\ \A a, b, r : Ahead(n, a, b, r) => Ahead(c, a, b, r)

LEMMA WholeChain ==
    ASSUME NEW c \in Seq(Entry), Distinct(c)
    PROVE  EndOf(c, c)
  BY DEF EndOf

LEMMA SuffixEnds ==
    ASSUME NEW c \in Seq(Entry), Distinct(c), NEW k \in 1..Len(c)
    PROVE  /\ EndOf(c, SubSeq(c, k, Len(c)))
           /\ \A a : Visits(c, a) /\ ~Visits(SubSeq(c, k, Len(c)), a)
                => \E i \in 1..(k - 1) : c[i].site = a
           /\ \A i \in 1..(k - 1) : ~Visits(SubSeq(c, k, Len(c)), c[i].site)
           /\ SubSeq(c, k, Len(c)) # <<>>
  <1> DEFINE m == Len(c)
             n == SubSeq(c, k, m)
  <1>1. /\ m \in Nat /\ DOMAIN c = 1..m /\ k \in 1..m
        /\ \A i \in 1..m : c[i] \in Entry
    BY ChainElements, ElementOfSeq
  <1>2. n \in Seq(Entry) /\ Len(n) = m - k + 1
          /\ \A i \in 1..(m - k + 1) : n[i] = c[k + i - 1]
    <2>1. \A i \in k..m : c[i] \in Entry
      BY <1>1
    <2> QED
      BY <1>1, <2>1, SubSeqProperties
  <1>3. /\ DOMAIN n = 1..(m - k + 1)
        /\ \A a : Visits(n, a) <=> \E i \in 1..(m - k + 1) : n[i].site = a
        /\ \A a : Visits(c, a) <=> \E i \in 1..m : c[i].site = a
        /\ \A a : Ends(c, a) <=> c[m].site = a
        /\ \A a : Ends(n, a) <=> n[m - k + 1].site = a
        /\ n # <<>>
    <2>1. DOMAIN n = 1..Len(n) /\ (n = <<>> <=> Len(n) = 0)
      BY <1>2, ChainElements
    <2>2. c = <<>> <=> m = 0
      BY ChainElements
    <2> HIDE DEF m, n
    <2>3. m - k + 1 # 0 /\ m # 0
      BY <1>1
    <2>4. DOMAIN n = 1..(m - k + 1) /\ n # <<>> /\ c # <<>>
      BY <1>2, <2>1, <2>2, <2>3
    <2> QED
      BY <1>2, <2>4 DEF Visits, Ends, m
  <1> HIDE DEF m, n
  <1>4. /\ \A i \in 1..(m - k + 1) : k + i - 1 \in k..m /\ n[i] = c[k + i - 1]
        /\ \A j \in k..m : j - k + 1 \in 1..(m - k + 1) /\ n[j - k + 1] = c[j]
    <2>1. ASSUME NEW j \in k..m
          PROVE  j - k + 1 \in 1..(m - k + 1) /\ n[j - k + 1] = c[j]
      <3>1. j - k + 1 \in 1..(m - k + 1) /\ k + (j - k + 1) - 1 = j
        BY <1>1
      <3>2. n[j - k + 1] = c[k + (j - k + 1) - 1]
        BY <1>2, <3>1
      <3> QED
        BY <3>1, <3>2
    <2> QED
      BY <1>1, <1>2, <2>1
  <1>5. Distinct(n)
    <2> SUFFICES ASSUME NEW i \in 1..(m - k + 1), NEW j \in 1..(m - k + 1),
                        n[i].site = n[j].site
                 PROVE  i = j
      BY <1>3 DEF Distinct
    <2>1. k + i - 1 \in 1..m /\ k + j - 1 \in 1..m
      BY <1>1, <1>4
    <2>2. k + i - 1 = k + j - 1
      BY <1>1, <1>4, <2>1 DEF Distinct
    <2> QED
      BY <1>1, <2>2
  <1>6. \A a : Ends(c, a) => Ends(n, a)
    <2>1. n[m - k + 1] = c[m]
      BY <1>1, <1>4
    <2> QED
      BY <1>3, <2>1
  <1>7. /\ \A a : Visits(n, a) => Visits(c, a)
        /\ \A a, r : Has(n, a, r) => Has(c, a, r)
    <2>1. \A i \in 1..(m - k + 1) : \E j \in 1..m : n[i] = c[j]
      BY <1>1, <1>4
    <2> QED
      BY <1>1, <1>3, <2>1, SMTT(40) DEF Has
  <1>8. ASSUME NEW a, NEW b, Adjacent(n, a, b)
        PROVE  Adjacent(c, a, b)
    <2>1. PICK i \in 1..(m - k + 1) :
              i + 1 \in 1..(m - k + 1) /\ n[i].site = a /\ n[i + 1].site = b
      BY <1>3, <1>8 DEF Adjacent
    <2>2. /\ k + i - 1 \in 1..m /\ (k + i - 1) + 1 \in 1..m
          /\ n[i] = c[k + i - 1] /\ n[i + 1] = c[k + (i + 1) - 1]
          /\ k + (i + 1) - 1 = (k + i - 1) + 1
      BY <1>1, <1>4, <2>1
    <2> QED
      BY <1>1, <2>1, <2>2 DEF Adjacent
  <1>9. ASSUME NEW a, NEW b, Adjacent(c, a, b), Visits(n, a)
        PROVE  Adjacent(n, a, b)
    <2>1. PICK i \in 1..m : i + 1 \in 1..m /\ c[i].site = a /\ c[i + 1].site = b
      BY <1>1, <1>9 DEF Adjacent
    <2>2. PICK j \in 1..(m - k + 1) : n[j].site = a
      BY <1>3, <1>9
    <2>3. k + j - 1 \in 1..m /\ n[j] = c[k + j - 1]
      BY <1>1, <1>4
    <2>4. i = k + j - 1
      BY <1>1, <2>1, <2>2, <2>3 DEF Distinct
    <2>5. j + 1 \in 1..(m - k + 1) /\ n[j + 1] = c[k + (j + 1) - 1]
            /\ k + (j + 1) - 1 = i + 1
      BY <1>1, <1>4, <2>1, <2>4
    <2> QED
      BY <1>3, <2>1, <2>2, <2>5 DEF Adjacent
  <1>10. ASSUME NEW a, NEW b, NEW r, Ahead(n, a, b, r)
         PROVE  Ahead(c, a, b, r)
    <2>1. PICK i, j \in 1..(m - k + 1) :
              i < j /\ n[i].site = a /\ n[j].site = b /\ n[j].req = r
      BY <1>3, <1>10 DEF Ahead
    <2>2. /\ k + i - 1 \in 1..m /\ k + j - 1 \in 1..m /\ k + i - 1 < k + j - 1
          /\ n[i] = c[k + i - 1] /\ n[j] = c[k + j - 1]
      BY <1>1, <1>4, <2>1
    <2> QED
      BY <1>1, <2>1, <2>2 DEF Ahead
  <1>11. ASSUME NEW a, Visits(c, a), ~Visits(n, a)
         PROVE  \E i \in 1..(k - 1) : c[i].site = a
    <2>1. PICK i \in 1..m : c[i].site = a
      BY <1>3, <1>11
    <2>2. i \notin k..m
      BY <1>3, <1>4, <1>11, <2>1
    <2> QED
      BY <1>1, <2>1, <2>2
  <1>12. ASSUME NEW i \in 1..(k - 1), Visits(n, c[i].site)
         PROVE  FALSE
    <2>1. PICK j \in 1..(m - k + 1) : n[j].site = c[i].site
      BY <1>3, <1>12
    <2>2. k + j - 1 \in 1..m /\ n[j] = c[k + j - 1] /\ k + j - 1 # i /\ i \in 1..m
      BY <1>1, <1>4
    <2> QED
      BY <1>1, <2>1, <2>2 DEF Distinct
  <1> QED
    BY <1>2, <1>3, <1>5, <1>6, <1>7, <1>8, <1>9, <1>10, <1>11, <1>12
    DEF EndOf, n, m

LEMMA PoppedEnds ==
    ASSUME chain \in Seq(Entry), Distinct(chain), NEW s, InChain(s)
    PROVE  /\ EndOf(chain, PoppedBefore(s))
           /\ \A a, r : Visits(chain, a) /\ ~Visits(PoppedBefore(s), a)
                          /\ Has(chain, s, r) => Ahead(chain, a, s, r)
           /\ ~Ends(chain, s) => EndOf(chain, PoppedThrough(s))
           /\ ~Ends(chain, s) => ~Visits(PoppedThrough(s), s)
           /\ \A a, r : ~Ends(chain, s) /\ Visits(chain, a) /\ Has(chain, s, r)
                          /\ ~Visits(PoppedThrough(s), a)
                => a = s \/ Ahead(chain, a, s, r)
  <1> DEFINE k == Position(s)
             m == Len(chain)
             B == PoppedBefore(s)
             T == PoppedThrough(s)
  <1>1. /\ k \in 1..m /\ m \in Nat /\ DOMAIN chain = 1..m /\ chain[k].site = s
    BY PositionInChain, ChainElements
  <1>2. /\ EndOf(chain, B)
        /\ \A a : Visits(chain, a) /\ ~Visits(B, a)
                => \E i \in 1..(k - 1) : chain[i].site = a
    BY <1>1, SuffixEnds DEF PoppedBefore
  <1>3. ASSUME ~Ends(chain, s)
        PROVE  /\ EndOf(chain, T)
               /\ \A a : Visits(chain, a) /\ ~Visits(T, a)
                       => \E i \in 1..((k + 1) - 1) : chain[i].site = a
               /\ \A i \in 1..((k + 1) - 1) : ~Visits(T, chain[i].site)
    <2>1. k # m
      <3>1. chain # <<>>
        BY <1>1, ChainElements
      <3> QED
        BY <1>1, <1>3, <3>1 DEF Ends
    <2>2. k + 1 \in 1..m
      BY <1>1, <2>1
    <2> QED
      BY <2>2, SuffixEnds DEF PoppedThrough
  <1> HIDE DEF k, m, B, T
  <1>4. ASSUME NEW a, NEW r, Has(chain, s, r), NEW i \in 1..(k - 1), chain[i].site = a
        PROVE  Ahead(chain, a, s, r)
    <2>1. PICK j \in 1..m : chain[j].site = s /\ chain[j].req = r
      BY <1>1, <1>4 DEF Has
    <2>2. j = k
      BY <1>1, <2>1 DEF Distinct
    <2>3. i \in 1..m /\ i < k
      BY <1>1
    <2> QED
      BY <1>1, <1>4, <2>1, <2>2, <2>3 DEF Ahead
  <1>5. ASSUME ~Ends(chain, s)
        PROVE  ~Visits(T, s)
    <2>1. k \in 1..((k + 1) - 1)
      BY <1>1
    <2> QED
      BY <1>1, <1>3, <1>5, <2>1
  <1>6. ASSUME NEW a, NEW r, ~Ends(chain, s), Visits(chain, a), Has(chain, s, r),
               ~Visits(T, a)
        PROVE  a = s \/ Ahead(chain, a, s, r)
    <2>1. PICK i \in 1..((k + 1) - 1) : chain[i].site = a
      BY <1>3, <1>6
    <2>2. i = k \/ i \in 1..(k - 1)
      BY <1>1
    <2> QED
      BY <1>1, <1>4, <1>6, <2>1, <2>2
  <1> QED
    BY <1>2, <1>3, <1>4, <1>5, <1>6 DEF B, T

(* An entry for s is appended to a chain that does not visit s.            *)
Appended(c, n, s, r) ==
    /\ n \in Seq(Entry) /\ Distinct(n) /\ Ends(n, s)
    /\ \A a : Visits(n, a) <=> Visits(c, a) \/ a = s
    /\ \A a, t : Has(n, a, t) => Has(c, a, t) \/ (a = s /\ t = r)
    /\ \A a, b : Adjacent(c, a, b) => Adjacent(n, a, b)
    /\ \A a : Ends(c, a) => Adjacent(n, a, s)
    /\ \A a, b : Adjacent(n, a, b)
          => Adjacent(c, a, b) \/ (Ends(c, a) /\ b = s)
    /\ \A a, b, t : Ahead(n, a, b, t)
          => Ahead(c, a, b, t) \/ (b = s /\ t = r /\ a # s)

LEMMA AppendedEntry ==
    ASSUME NEW c \in Seq(Entry), Distinct(c), NEW s \in Site, NEW r \in Nat,
           ~Visits(c, s), NEW n, n = Append(c, [site |-> s, req |-> r])
    PROVE  Appended(c, n, s, r)
  <1> DEFINE m == Len(c)
             e == [site |-> s, req |-> r]
  <1>1. /\ m \in Nat /\ DOMAIN c = 1..m /\ (c = <<>> <=> m = 0)
    BY ChainElements
  <1>2. e \in Entry /\ e.site = s /\ e.req = r
    BY DEF Entry
  <1> HIDE DEF e
  <1>3. /\ n \in Seq(Entry) /\ Len(n) = m + 1
        /\ \A i \in 1..m : n[i] = c[i]
        /\ n[m + 1] = e
    BY <1>2, AppendProperties DEF e
  <1>4. DOMAIN n = 1..(m + 1) /\ n # <<>>
    BY <1>1, <1>3, ChainElements
  <1>5. /\ \A a : Visits(c, a) <=> \E i \in 1..m : c[i].site = a
        /\ \A a : Visits(n, a) <=> \E i \in 1..(m + 1) : n[i].site = a
        /\ \A a : Ends(c, a) <=> m # 0 /\ c[m].site = a
        /\ \A a : Ends(n, a) <=> n[m + 1].site = a
    BY <1>1, <1>3, <1>4 DEF Visits, Ends
  <1> HIDE DEF m
  <1>6. \A i \in 1..(m + 1) : i \in 1..m \/ i = m + 1
    BY <1>1
  <1>7. \A i \in 1..m : c[i].site # s /\ i \in 1..(m + 1)
    BY <1>1, <1>5
  <1>8. Distinct(n)
    <2> SUFFICES ASSUME NEW i \in 1..(m + 1), NEW j \in 1..(m + 1),
                        n[i].site = n[j].site
                 PROVE  i = j
      BY <1>4 DEF Distinct
    <2>1. CASE i \in 1..m /\ j \in 1..m
      BY <1>1, <1>3, <2>1 DEF Distinct
    <2> QED
      BY <1>2, <1>3, <1>6, <1>7, <2>1
  <1>9. m + 1 \in 1..(m + 1)
    BY <1>1
  <1>10. Ends(n, s) /\ \A a : Visits(n, a) <=> Visits(c, a) \/ a = s
    BY <1>2, <1>3, <1>5, <1>6, <1>7, <1>9
  <1>11. \A a, t : Has(n, a, t) => Has(c, a, t) \/ (a = s /\ t = r)
    BY <1>1, <1>2, <1>3, <1>4, <1>6 DEF Has
  <1>12. ASSUME NEW a, NEW b, Adjacent(c, a, b)
         PROVE  Adjacent(n, a, b)
    <2>1. PICK i \in 1..m : i + 1 \in 1..m /\ c[i].site = a /\ c[i + 1].site = b
      BY <1>1, <1>12 DEF Adjacent
    <2>2. i \in 1..(m + 1) /\ i + 1 \in 1..(m + 1) /\ n[i] = c[i] /\ n[i + 1] = c[i + 1]
      BY <1>3, <1>7, <2>1
    <2> QED
      BY <1>4, <2>1, <2>2 DEF Adjacent
  <1>13. ASSUME NEW a, Ends(c, a)
         PROVE  Adjacent(n, a, s)
    <2>1. m \in 1..m /\ m \in 1..(m + 1)
      BY <1>1, <1>5, <1>13
    <2> QED
      BY <1>2, <1>3, <1>4, <1>5, <1>9, <1>13, <2>1 DEF Adjacent
  <1>14. ASSUME NEW a, NEW b, Adjacent(n, a, b)
         PROVE  Adjacent(c, a, b) \/ (Ends(c, a) /\ b = s)
    <2>1. PICK i \in 1..(m + 1) :
              i + 1 \in 1..(m + 1) /\ n[i].site = a /\ n[i + 1].site = b
      BY <1>4, <1>14 DEF Adjacent
    <2>2. i \in 1..m /\ n[i] = c[i]
      BY <1>1, <1>3, <2>1
    <2>3. CASE i + 1 \in 1..m
      BY <1>1, <1>3, <2>1, <2>2, <2>3 DEF Adjacent
    <2>4. CASE i + 1 \notin 1..m
      <3>1. i = m /\ m # 0
        BY <1>1, <2>1, <2>2, <2>4
      <3> QED
        BY <1>2, <1>3, <1>5, <2>1, <2>2, <3>1
    <2> QED
      BY <2>3, <2>4
  <1>15. ASSUME NEW a, NEW b, NEW t, Ahead(n, a, b, t)
         PROVE  Ahead(c, a, b, t) \/ (b = s /\ t = r /\ a # s)
    <2>1. PICK i, j \in 1..(m + 1) :
              i < j /\ n[i].site = a /\ n[j].site = b /\ n[j].req = t
      BY <1>4, <1>15 DEF Ahead
    <2>2. i \in 1..m /\ n[i] = c[i]
      BY <1>1, <1>3, <2>1
    <2>3. CASE j \in 1..m
      BY <1>1, <1>3, <2>1, <2>2, <2>3 DEF Ahead
    <2>4. CASE j = m + 1
      BY <1>2, <1>3, <1>7, <2>1, <2>2, <2>4
    <2> QED
      BY <1>6, <2>1, <2>3, <2>4
  <1> QED
    BY <1>3, <1>8, <1>10, <1>11, <1>12, <1>13, <1>14, <1>15 DEF Appended

(* The successor y of s leaves the chain, which becomes n.                 *)
Removed(n, s, y) ==
    /\ Adjacent(chain, s, y)
    /\ n \in Seq(Entry) /\ Distinct(n)
    /\ \A a : Visits(n, a) <=> Visits(chain, a) /\ a # y
    /\ \A a, r : Has(n, a, r) => Has(chain, a, r)
    /\ \A a, b, r : Ahead(n, a, b, r) => Ahead(chain, a, b, r)
    /\ \A a, b : a # s => (Adjacent(n, a, b) => Adjacent(chain, a, b))
    /\ \A a, b : a # s /\ a # y /\ Adjacent(chain, a, b) => Adjacent(n, a, b)
    /\ IF Position(s) + 1 < Len(chain)
       THEN /\ \A b : Adjacent(n, s, b) <=> b = chain[Position(s) + 2].site
            /\ \A a : Ends(chain, a) => Ends(n, a)
            /\ chain[Position(s) + 2].site \in Site
       ELSE Ends(n, s) /\ Ends(chain, y)

LEMMA RemovedSuccessor ==
    ASSUME chain \in Seq(Entry), Distinct(chain), NEW s, HasSuccessor(s),
           NEW n, n = ChainWithoutSuccessor(s)
    PROVE  \E y \in Site : Removed(n, s, y)
  <1> DEFINE k == Position(s)
             m == Len(chain)
             u == SubSeq(chain, 1, k)
             v == SubSeq(chain, k + 2, m)
             y == chain[k + 1].site
  <1>1. /\ k \in 1..m /\ m \in Nat /\ DOMAIN chain = 1..m /\ chain[k].site = s
        /\ \A i \in 1..m : chain[i] \in Entry
        /\ \A i \in 1..m : chain[i].site \in Site
        /\ k < m
    BY PositionInChain, ChainElements, ElementOfSeq DEF HasSuccessor
  <1>2. /\ u \in Seq(Entry) /\ Len(u) = k
        /\ \A i \in 1..k : u[i] = chain[i]
    <2>1. \A i \in 1..k : chain[i] \in Entry
      BY <1>1
    <2> QED
      BY <1>1, <2>1, SubSeqProperties
  <1>3. /\ v \in Seq(Entry) /\ Len(v) = m - k - 1
        /\ \A i \in 1..(m - k - 1) : v[i] = chain[k + 1 + i]
    <2>1. \A i \in (k + 2)..m : chain[i] \in Entry
      BY <1>1
    <2>2. CASE k + 2 <= m
      <3>1. /\ v \in Seq(Entry)
            /\ Len(v) = m - (k + 2) + 1
            /\ \A i \in 1..(m - (k + 2) + 1) : v[i] = chain[(k + 2) + i - 1]
        BY <1>1, <2>1, <2>2, SubSeqProperties
      <3> QED
        BY <1>1, <3>1, SMTT(40)
    <2>3. CASE ~(k + 2 <= m)
      <3>1. v \in Seq(Entry) /\ Len(v) = 0
        BY <1>1, <2>1, <2>3, SubSeqProperties
      <3>2. m - k - 1 = 0
        BY <1>1, <2>3
      <3> QED
        BY <3>1, <3>2
    <2> QED
      BY <2>2, <2>3
  <1>4. n = u \o v
    BY DEF ChainWithoutSuccessor
  <1> HIDE DEF u, v
  <1>5. /\ n \in Seq(Entry) /\ Len(n) = m - 1
        /\ \A i \in 1..k : n[i] = chain[i]
        /\ \A i \in (k + 1)..(m - 1) : n[i] = chain[i + 1]
    <2>1. /\ n \in Seq(Entry) /\ Len(n) = k + (m - k - 1)
          /\ \A i \in 1..(k + (m - k - 1)) :
                n[i] = IF i <= k THEN u[i] ELSE v[i - k]
      BY <1>2, <1>3, <1>4, ConcatProperties, SMTT(40)
    <2>2. ASSUME NEW i \in (k + 1)..(m - 1)
          PROVE  n[i] = chain[i + 1]
      <3> HIDE DEF k, m
      <3>1. i - k \in 1..(m - k - 1) /\ k + 1 + (i - k) = i + 1
              /\ i \in 1..(k + (m - k - 1)) /\ ~(i <= k)
        BY <1>1
      <3> QED
        BY <1>3, <2>1, <3>1
    <2>3. \A i \in 1..k : i \in 1..(k + (m - k - 1)) /\ i <= k
      BY <1>1
    <2> QED
      BY <1>1, <1>2, <2>1, <2>2, <2>3
  <1>6. /\ DOMAIN n = 1..(m - 1) /\ n # <<>>
        /\ \A a : Visits(n, a) <=> \E i \in 1..(m - 1) : n[i].site = a
        /\ \A a : Visits(chain, a) <=> \E i \in 1..m : chain[i].site = a
        /\ \A a : Ends(chain, a) <=> chain[m].site = a
        /\ \A a : Ends(n, a) <=> n[m - 1].site = a
    <2>1. DOMAIN n = 1..Len(n) /\ (n = <<>> <=> Len(n) = 0) /\ (chain = <<>> <=> m = 0)
      BY <1>5, ChainElements
    <2> HIDE DEF m
    <2>2. m # 0 /\ m - 1 # 0
      BY <1>1
    <2>3. DOMAIN n = 1..(m - 1) /\ n # <<>> /\ chain # <<>>
      BY <1>5, <2>1, <2>2
    <2> QED
      BY <1>5, <2>3 DEF Visits, Ends, m
  <1> HIDE DEF k, m
  (* the place of n's i-th entry in the chain, and back *)
  <1> DEFINE up(i) == IF i <= k THEN i ELSE i + 1
             dn(i) == IF i <= k THEN i ELSE i - 1
  <1>7. ASSUME NEW i \in 1..(m - 1)
        PROVE  up(i) \in 1..m /\ up(i) # k + 1 /\ n[i] = chain[up(i)]
    <2>1. CASE i <= k
      <3>1. i \in 1..k /\ i \in 1..m /\ i # k + 1
        BY <1>1, <2>1
      <3> QED
        BY <1>5, <2>1, <3>1
    <2>2. CASE ~(i <= k)
      <3>1. i \in (k + 1)..(m - 1) /\ i + 1 \in 1..m /\ i + 1 # k + 1
        BY <1>1, <2>2
      <3> QED
        BY <1>5, <2>2, <3>1
    <2> QED
      BY <2>1, <2>2
  <1>8. ASSUME NEW j \in 1..m, j # k + 1
        PROVE  dn(j) \in 1..(m - 1) /\ n[dn(j)] = chain[j] /\ up(dn(j)) = j
    <2>1. CASE j <= k
      <3>1. j \in 1..k /\ j \in 1..(m - 1)
        BY <1>1, <2>1
      <3> QED
        BY <1>5, <2>1, <3>1
    <2>2. CASE ~(j <= k)
      <3>1. j - 1 \in (k + 1)..(m - 1) /\ j - 1 \in 1..(m - 1) /\ (j - 1) + 1 = j
              /\ ~(j - 1 <= k)
        BY <1>1, <1>8, <2>2
      <3> QED
        BY <1>5, <2>2, <3>1
    <2> QED
      BY <2>1, <2>2
  <1>9. \A i, j \in 1..(m - 1) : i < j => up(i) < up(j)
    BY <1>1
  <1>10. \A i \in 1..(m - 1) : i # k /\ i + 1 \in 1..(m - 1) => up(i + 1) = up(i) + 1
    BY <1>1
  <1>11. \A j \in 1..m : j # k /\ j # k + 1 /\ j + 1 \in 1..m
            => j + 1 # k + 1 /\ dn(j + 1) = dn(j) + 1
    BY <1>1
  <1>12. \A i, j \in 1..(m - 1) : up(i) = up(j) => i = j
    BY <1>1
  <1>13. k + 1 \in 1..m /\ k \in 1..(m - 1) /\ k # k + 1 /\ up(k) = k
    BY <1>1
  <1> HIDE DEF up, dn
  <1>14. y \in Site /\ Adjacent(chain, s, y)
    BY <1>1, <1>13 DEF Adjacent
  <1>15. Distinct(n)
    <2> SUFFICES ASSUME NEW i \in 1..(m - 1), NEW j \in 1..(m - 1),
                        n[i].site = n[j].site
                 PROVE  i = j
      BY <1>6 DEF Distinct
    <2>1. up(i) = up(j)
      BY <1>1, <1>7 DEF Distinct
    <2> QED
      BY <1>12, <2>1
  <1>16. ASSUME NEW a
         PROVE  Visits(n, a) <=> Visits(chain, a) /\ a # y
    <2>1. ASSUME Visits(n, a)
          PROVE  Visits(chain, a) /\ a # y
      <3>1. PICK i \in 1..(m - 1) : n[i].site = a
        BY <1>6, <2>1
      <3>2. chain[up(i)].site = a /\ up(i) \in 1..m /\ up(i) # k + 1
        BY <1>7, <3>1
      <3>3. a # y
        BY <1>1, <1>13, <3>2 DEF Distinct
      <3> QED
        BY <1>6, <3>2, <3>3
    <2>2. ASSUME Visits(chain, a), a # y
          PROVE  Visits(n, a)
      <3>1. PICK j \in 1..m : chain[j].site = a
        BY <1>6, <2>2
      <3> QED
        BY <1>6, <1>8, <2>2, <3>1
    <2> QED
      BY <2>1, <2>2
  <1>17. \A a, r : Has(n, a, r) => Has(chain, a, r)
    BY <1>1, <1>6, <1>7 DEF Has
  <1>18. \A a, b, r : Ahead(n, a, b, r) => Ahead(chain, a, b, r)
    BY <1>1, <1>6, <1>7, <1>9 DEF Ahead
  <1>19. ASSUME NEW a, NEW b, a # s, Adjacent(n, a, b)
         PROVE  Adjacent(chain, a, b)
    <2>1. PICK i \in 1..(m - 1) :
              i + 1 \in 1..(m - 1) /\ n[i].site = a /\ n[i + 1].site = b
      BY <1>6, <1>19 DEF Adjacent
    <2>2. i # k
      BY <1>1, <1>7, <1>13, <1>19, <2>1
    <2> QED
      BY <1>1, <1>7, <1>10, <2>1, <2>2 DEF Adjacent
  <1>20. ASSUME NEW a, NEW b, a # s, a # y, Adjacent(chain, a, b)
         PROVE  Adjacent(n, a, b)
    <2>1. PICK j \in 1..m :
              j + 1 \in 1..m /\ chain[j].site = a /\ chain[j + 1].site = b
      BY <1>1, <1>20 DEF Adjacent
    <2>2. j # k /\ j # k + 1
      BY <1>1, <1>20, <2>1
    <2>3. j + 1 # k + 1 /\ dn(j + 1) = dn(j) + 1
      BY <1>11, <2>1, <2>2
    <2>4. /\ dn(j) \in 1..(m - 1) /\ n[dn(j)] = chain[j]
          /\ dn(j) + 1 \in 1..(m - 1) /\ n[dn(j) + 1] = chain[j + 1]
      BY <1>8, <2>1, <2>2, <2>3
    <2> QED
      BY <1>6, <2>1, <2>4 DEF Adjacent
  <1>21. ASSUME k + 1 < m
         PROVE  /\ \A b : Adjacent(n, s, b) <=> b = chain[k + 2].site
                /\ \A a : Ends(chain, a) => Ends(n, a)
                /\ chain[k + 2].site \in Site
    <2>1. /\ k + 1 \in 1..(m - 1) /\ k + 1 \in (k + 1)..(m - 1) /\ (k + 1) + 1 = k + 2
          /\ m - 1 \in (k + 1)..(m - 1) /\ (m - 1) + 1 = m /\ k + 2 \in 1..m
      BY <1>1, <1>21
    <2>2. n[k + 1] = chain[k + 2] /\ n[m - 1] = chain[m] /\ n[k].site = s
      BY <1>1, <1>5, <1>7, <1>13, <2>1
    <2>3. ASSUME NEW b, Adjacent(n, s, b)
          PROVE  b = chain[k + 2].site
      <3>1. PICK i \in 1..(m - 1) :
                i + 1 \in 1..(m - 1) /\ n[i].site = s /\ n[i + 1].site = b
        BY <1>6, <2>3 DEF Adjacent
      <3>2. i = k
        BY <1>6, <1>13, <1>15, <2>2, <3>1 DEF Distinct
      <3> QED
        BY <2>2, <3>1, <3>2
    <2>4. Adjacent(n, s, chain[k + 2].site)
      BY <1>6, <1>13, <2>1, <2>2 DEF Adjacent
    <2> QED
      BY <1>1, <1>6, <2>1, <2>2, <2>3, <2>4
  <1>22. ASSUME ~(k + 1 < m)
         PROVE  Ends(n, s) /\ Ends(chain, y)
    <2>1. k + 1 = m /\ k = m - 1
      BY <1>1, <1>22
    <2>2. n[k] = chain[k]
      BY <1>1, <1>5, <1>7, <1>13
    <2> QED
      BY <1>1, <1>6, <2>1, <2>2
  <1>23. \A a, b : a # s => (Adjacent(n, a, b) => Adjacent(chain, a, b))
    BY <1>19
  <1>24. \A a, b : a # s /\ a # y /\ Adjacent(chain, a, b) => Adjacent(n, a, b)
    BY <1>20
  <1> HIDE DEF y
  <1> QED
    BY <1>5, <1>14, <1>15, <1>16, <1>17, <1>18, <1>21, <1>22, <1>23, <1>24
    DEF k, m, Removed

-----------------------------------------------------------------------------
(* What the queues between a proxy and the manager say about the proxy.    *)
(* The manager hears a message unless a FAILED_PRED is ahead of it: that   *)
(* one makes it give the entity up.                                        *)

Kind(T) == {m \in Message : m.type \in T}
Asked(r) == {m \in Message : m.type = "GET" /\ m.req = r}
Aged(r) == {m \in Message : m.type \in {"OLD_SUCC", "OLD_PRED"} /\ m.req = r}
Naming(x) == {m \in Message : m.type = "FORWARD" /\ m.site = x}

Loss == Kind({"FAILED_PRED"})
Seen == Kind({"TOKEN_HERE", "NEED_NO_MORE"})

Lost(c, p) == On(c, <<p, Home>>, Loss, {})
Broken(c, p) == On(c, <<p, Home>>, Kind({"FAILED_SUCC"}), {})
Asks(c, p) == On(c, <<p, Home>>, Kind({"GET"}), Loss)
AsksFor(c, p, r) == On(c, <<p, Home>>, Asked(r), Loss)
Saw(c, p) == On(c, <<p, Home>>, Seen, Loss)
Old(c, p, r) == On(c, <<p, Home>>, Aged(r), Loss)
Told(c, p) == On(c, <<Home, p>>, Kind({"FORWARD"}), {})
ToldOf(c, p, x) == On(c, <<Home, p>>, Naming(x), {})
Checked(c, p) == On(c, <<Home, p>>, Kind({"CHECK_SUCC"}), {})

BrokenTwice(c, p) ==
    Two(c, <<p, Home>>, Kind({"FAILED_SUCC"}), Kind({"FAILED_SUCC"}), {})
AsksTwice(c, p) == Two(c, <<p, Home>>, Kind({"GET"}), Kind({"GET"}), Loss)
AsksThenSaw(c, p) == Two(c, <<p, Home>>, Kind({"GET"}), Seen, Loss)
AsksThenOld(c, p, r) == Two(c, <<p, Home>>, Asked(r), Aged(r), Loss)
ToldTwice(c, p) ==
    Two(c, <<Home, p>>, Kind({"FORWARD"}), Kind({"FORWARD"}), {})
ToldThenChecked(c, p, x) ==
    Two(c, <<Home, p>>, Naming(x), Kind({"CHECK_SUCC"}), {})

LEMMA WeakerOn ==
    ASSUME NEW c, NEW l, NEW K, NEW L, NEW S, K \subseteq L, On(c, l, K, S)
    PROVE  On(c, l, L, S)
  BY DEF On, Hears

LEMMA NeverOn ==
    ASSUME NEW c, NEW l, NEW S
    PROVE  ~On(c, l, {}, S)
  BY DEF On, Hears

LEMMA SpecificObs ==
    ASSUME NEW c, NEW p
    PROVE  /\ \A r : AsksFor(c, p, r) => Asks(c, p)
           /\ \A x : ToldOf(c, p, x) => Told(c, p)
  <1>1. /\ \A r : Asked(r) \subseteq Kind({"GET"})
        /\ \A x : Naming(x) \subseteq Kind({"FORWARD"})
    BY DEF Asked, Naming, Kind
  <1> QED
    BY <1>1, WeakerOn DEF AsksFor, Asks, ToldOf, Told

(* A message that p sends to d, or that p reads from s, is one from q to   *)
(* the manager, or one from the manager to q.                              *)
Posted(p, d, q) == q = p /\ d = Home /\ Reaches(p, Home)
Handed(p, d, q) == p = Home /\ d = q /\ Reaches(Home, q)
Read(s, p, q) == q = s /\ p = Home
Served(s, p, q) == s = Home /\ q = p

LEMMA SentUp ==
    ASSUME NEW c \in Channels(Message), NEW p \in Site, NEW d,
           NEW m \in Message, NEW q \in Site, NEW n, n = Sent(c, p, To(d, m))
    PROVE  /\ Lost(n, q) <=> Lost(c, q) \/ (Posted(p, d, q) /\ m.type = "FAILED_PRED")
           /\ Broken(n, q) <=> Broken(c, q) \/ (Posted(p, d, q) /\ m.type = "FAILED_SUCC")
           /\ Asks(n, q)
                <=> Asks(c, q) \/ (Posted(p, d, q) /\ m.type = "GET" /\ ~Lost(c, q))
           /\ \A r : AsksFor(n, q, r)
                <=> \/ AsksFor(c, q, r)
                    \/ Posted(p, d, q) /\ m.type = "GET" /\ m.req = r /\ ~Lost(c, q)
           /\ Saw(n, q)
                <=> \/ Saw(c, q)
                    \/ /\ Posted(p, d, q) /\ m.type \in {"TOKEN_HERE", "NEED_NO_MORE"}
                       /\ ~Lost(c, q)
           /\ \A r : Old(n, q, r)
                <=> \/ Old(c, q, r)
                    \/ /\ Posted(p, d, q) /\ m.type \in {"OLD_SUCC", "OLD_PRED"}
                       /\ m.req = r /\ ~Lost(c, q)
           /\ BrokenTwice(n, q)
                => BrokenTwice(c, q) \/ (q = p /\ m.type = "FAILED_SUCC" /\ Broken(c, q))
           /\ AsksTwice(n, q)
                => \/ AsksTwice(c, q)
                   \/ q = p /\ m.type = "GET" /\ Asks(c, q) /\ ~Lost(c, q)
           /\ AsksThenSaw(n, q)
                => \/ AsksThenSaw(c, q)
                   \/ /\ q = p /\ m.type \in {"TOKEN_HERE", "NEED_NO_MORE"}
                      /\ Asks(c, q) /\ ~Lost(c, q)
           /\ \A r : AsksThenOld(n, q, r)
                => \/ AsksThenOld(c, q, r)
                   \/ /\ q = p /\ m.type \in {"OLD_SUCC", "OLD_PRED"}
                      /\ m.req = r /\ AsksFor(c, q, r) /\ ~Lost(c, q)
  <1> DEFINE l == <<q, Home>>
  <1>1. l \in Site \X Site /\ (l = <<p, d>> <=> q = p /\ d = Home)
    BY HomeAssumption
  <1> HIDE DEF l
  <1>2. \A K, S : On(n, l, K, S) <=> On(c, l, K, S) \/ (Posted(p, d, q) /\ m \in K /\ ~On(c, l, S, {}))
    <2>1. \A K, S : On(n, l, K, S)
             <=> \/ On(c, l, K, S)
                 \/ l = <<p, d>> /\ Reaches(p, d) /\ m \in K /\ ~On(c, l, S, {})
      BY <1>1, SentOn
    <2>2. Posted(p, d, q) <=> l = <<p, d>> /\ Reaches(p, d)
      BY <1>1 DEF Posted
    <2> QED
      BY <2>1, <2>2
  <1>3. \A K, L, S : Two(n, l, K, L, S)
            => \/ Two(c, l, K, L, S)
               \/ q = p /\ m \in L /\ On(c, l, K, S) /\ ~On(c, l, S, {})
    BY <1>1, SentTwo
  <1>4. /\ \A T : m \in Kind(T) <=> m.type \in T
        /\ \A r : m \in Asked(r) <=> m.type = "GET" /\ m.req = r
        /\ \A r : m \in Aged(r) <=> m.type \in {"OLD_SUCC", "OLD_PRED"} /\ m.req = r
    BY DEF Kind, Asked, Aged
  <1>5. ~On(c, l, {}, {})
    BY NeverOn
  <1>6. /\ m \in Loss <=> m.type = "FAILED_PRED"
        /\ m \in Kind({"FAILED_SUCC"}) <=> m.type = "FAILED_SUCC"
        /\ m \in Kind({"GET"}) <=> m.type = "GET"
        /\ m \in Seen <=> m.type \in {"TOKEN_HERE", "NEED_NO_MORE"}
    BY <1>4 DEF Loss, Seen
  <1>7. /\ Lost(n, q) <=> Lost(c, q) \/ (Posted(p, d, q) /\ m.type = "FAILED_PRED")
        /\ Broken(n, q) <=> Broken(c, q) \/ (Posted(p, d, q) /\ m.type = "FAILED_SUCC")
    BY <1>2, <1>5, <1>6 DEF Lost, Broken, l
  <1>8. Asks(n, q) <=> Asks(c, q) \/ (Posted(p, d, q) /\ m.type = "GET" /\ ~Lost(c, q))
    BY <1>2, <1>6 DEF Lost, Asks, l
  <1>9. Saw(n, q) <=> \/ Saw(c, q)
                      \/ /\ Posted(p, d, q) /\ m.type \in {"TOKEN_HERE", "NEED_NO_MORE"}
                         /\ ~Lost(c, q)
    BY <1>2, <1>6 DEF Lost, Saw, l
  <1>10. \A r : AsksFor(n, q, r)
            <=> AsksFor(c, q, r) \/ (Posted(p, d, q) /\ m.type = "GET" /\ m.req = r /\ ~Lost(c, q))
    BY <1>2, <1>4 DEF Lost, AsksFor, l
  <1>11. \A r : Old(n, q, r)
            <=> \/ Old(c, q, r)
                \/ /\ Posted(p, d, q) /\ m.type \in {"OLD_SUCC", "OLD_PRED"}
                   /\ m.req = r /\ ~Lost(c, q)
    BY <1>2, <1>4 DEF Lost, Old, l
  <1>12. BrokenTwice(n, q)
            => BrokenTwice(c, q) \/ (q = p /\ m.type = "FAILED_SUCC" /\ Broken(c, q))
    BY <1>3, <1>6 DEF BrokenTwice, Broken, l
  <1>13. /\ AsksTwice(n, q)
                => \/ AsksTwice(c, q)
                   \/ q = p /\ m.type = "GET" /\ Asks(c, q) /\ ~Lost(c, q)
         /\ AsksThenSaw(n, q)
                => \/ AsksThenSaw(c, q)
                   \/ /\ q = p /\ m.type \in {"TOKEN_HERE", "NEED_NO_MORE"}
                      /\ Asks(c, q) /\ ~Lost(c, q)
    BY <1>3, <1>6 DEF AsksTwice, AsksThenSaw, Asks, Lost, l
  <1>14. \A r : AsksThenOld(n, q, r)
                => \/ AsksThenOld(c, q, r)
                   \/ /\ q = p /\ m.type \in {"OLD_SUCC", "OLD_PRED"}
                      /\ m.req = r /\ AsksFor(c, q, r) /\ ~Lost(c, q)
    BY <1>3, <1>4 DEF AsksThenOld, AsksFor, Lost, l
  <1> QED
    BY <1>7, <1>8, <1>9, <1>10, <1>11, <1>12, <1>13, <1>14

LEMMA SentDown ==
    ASSUME NEW c \in Channels(Message), NEW p \in Site, NEW d,
           NEW m \in Message, NEW q \in Site, NEW n, n = Sent(c, p, To(d, m))
    PROVE  /\ Told(n, q) <=> Told(c, q) \/ (Handed(p, d, q) /\ m.type = "FORWARD")
           /\ \A x : ToldOf(n, q, x)
                <=> ToldOf(c, q, x) \/ (Handed(p, d, q) /\ m.type = "FORWARD" /\ m.site = x)
           /\ Checked(n, q) <=> Checked(c, q) \/ (Handed(p, d, q) /\ m.type = "CHECK_SUCC")
           /\ ToldTwice(n, q)
                => \/ ToldTwice(c, q)
                   \/ p = Home /\ d = q /\ m.type = "FORWARD" /\ Told(c, q)
           /\ \A x : ToldThenChecked(n, q, x)
                => \/ ToldThenChecked(c, q, x)
                   \/ /\ p = Home /\ d = q /\ m.type = "CHECK_SUCC"
                      /\ ToldOf(c, q, x)
  <1> DEFINE l == <<Home, q>>
  <1>1. l \in Site \X Site /\ (l = <<p, d>> <=> p = Home /\ d = q)
    BY HomeAssumption
  <1> HIDE DEF l
  <1>2. \A K, S : On(n, l, K, S) <=> On(c, l, K, S) \/ (Handed(p, d, q) /\ m \in K /\ ~On(c, l, S, {}))
    <2>1. \A K, S : On(n, l, K, S)
             <=> \/ On(c, l, K, S)
                 \/ l = <<p, d>> /\ Reaches(p, d) /\ m \in K /\ ~On(c, l, S, {})
      BY <1>1, SentOn
    <2>2. Handed(p, d, q) <=> l = <<p, d>> /\ Reaches(p, d)
      BY <1>1 DEF Handed
    <2> QED
      BY <2>1, <2>2
  <1>3. \A K, L, S : Two(n, l, K, L, S)
            => \/ Two(c, l, K, L, S)
               \/ p = Home /\ d = q /\ m \in L /\ On(c, l, K, S) /\ ~On(c, l, S, {})
    BY <1>1, SentTwo
  <1>4. /\ m \in Kind({"FORWARD"}) <=> m.type = "FORWARD"
        /\ m \in Kind({"CHECK_SUCC"}) <=> m.type = "CHECK_SUCC"
        /\ \A x : m \in Naming(x) <=> m.type = "FORWARD" /\ m.site = x
    BY DEF Kind, Naming
  <1>5. ~On(c, l, {}, {})
    BY NeverOn
  <1>6. /\ Told(n, q) <=> Told(c, q) \/ (Handed(p, d, q) /\ m.type = "FORWARD")
        /\ Checked(n, q) <=> Checked(c, q) \/ (Handed(p, d, q) /\ m.type = "CHECK_SUCC")
    BY <1>2, <1>4, <1>5 DEF Told, Checked, l
  <1>7. \A x : ToldOf(n, q, x)
                <=> ToldOf(c, q, x) \/ (Handed(p, d, q) /\ m.type = "FORWARD" /\ m.site = x)
    BY <1>2, <1>4, <1>5 DEF ToldOf, l
  <1>8. ToldTwice(n, q)
                => \/ ToldTwice(c, q)
                   \/ p = Home /\ d = q /\ m.type = "FORWARD" /\ Told(c, q)
    BY <1>3, <1>4 DEF ToldTwice, Told, l
  <1>9. \A x : ToldThenChecked(n, q, x)
                => \/ ToldThenChecked(c, q, x)
                   \/ /\ p = Home /\ d = q /\ m.type = "CHECK_SUCC"
                      /\ ToldOf(c, q, x)
    BY <1>3, <1>4 DEF ToldThenChecked, ToldOf, l
  <1> QED
    BY <1>6, <1>7, <1>8, <1>9

(* Site p takes the message h of site s.                                   *)
LEMMA TakenUp ==
    ASSUME NEW c \in Channels(Message), NEW s \in Site, NEW p \in Site,
           c[<<s, p>>] # <<>>, NEW h, h = Head(c[<<s, p>>]),
           h.type # "FAILED_PRED", NEW q \in Site, NEW n, n = Taken(c, s, p)
    PROVE  /\ Lost(n, q) <=> Lost(c, q)
           /\ Broken(n, q) => Broken(c, q)
           /\ Broken(c, q) => Broken(n, q) \/ (Read(s, p, q) /\ h.type = "FAILED_SUCC")
           /\ Read(s, p, q) /\ h.type = "FAILED_SUCC" => Broken(c, q)
           /\ Read(s, p, q) /\ h.type = "FAILED_SUCC" /\ Broken(n, q) => BrokenTwice(c, q)
           /\ Asks(n, q) => Asks(c, q)
           /\ Asks(c, q) => Asks(n, q) \/ (Read(s, p, q) /\ h.type = "GET")
           /\ Read(s, p, q) /\ h.type = "GET" => Asks(c, q) /\ AsksFor(c, q, h.req)
           /\ Read(s, p, q) /\ h.type = "GET" /\ Asks(n, q) => AsksTwice(c, q)
           /\ Read(s, p, q) /\ h.type = "GET" /\ Saw(n, q) => AsksThenSaw(c, q)
           /\ Read(s, p, q) /\ h.type = "GET" /\ Old(n, q, h.req) => AsksThenOld(c, q, h.req)
           /\ \A r : AsksFor(n, q, r) => AsksFor(c, q, r)
           /\ \A r : AsksFor(c, q, r) => AsksFor(n, q, r) \/ (Read(s, p, q) /\ h.type = "GET")
           /\ Saw(n, q) => Saw(c, q)
           /\ Saw(c, q) => \/ Saw(n, q)
                           \/ Read(s, p, q) /\ h.type \in {"TOKEN_HERE", "NEED_NO_MORE"}
           /\ Read(s, p, q) /\ h.type \in {"TOKEN_HERE", "NEED_NO_MORE"} => Saw(c, q)
           /\ \A r : Old(n, q, r) => Old(c, q, r)
           /\ \A r : Old(c, q, r)
                => Old(n, q, r) \/ (Read(s, p, q) /\ h.type \in {"OLD_SUCC", "OLD_PRED"})
           /\ Read(s, p, q) /\ h.type \in {"OLD_SUCC", "OLD_PRED"} => Old(c, q, h.req)
           /\ BrokenTwice(n, q) => BrokenTwice(c, q)
           /\ AsksTwice(n, q) => AsksTwice(c, q)
           /\ AsksThenSaw(n, q) => AsksThenSaw(c, q)
           /\ \A r : AsksThenOld(n, q, r) => AsksThenOld(c, q, r)
  <1> DEFINE l == <<q, Home>>
  <1>1. l \in Site \X Site /\ (l = <<s, p>> <=> Read(s, p, q))
    BY HomeAssumption DEF Read
  <1>2. h \in Message
    BY TakenType
  <1> HIDE DEF l
  <1>3. /\ \A T : h \in Kind(T) <=> h.type \in T
        /\ \A r : h \in Asked(r) <=> h.type = "GET" /\ h.req = r
        /\ \A r : h \in Aged(r) <=> h.type \in {"OLD_SUCC", "OLD_PRED"} /\ h.req = r
    BY <1>2 DEF Kind, Asked, Aged
  <1>4. h \notin Loss /\ h \notin {}
    BY <1>3 DEF Loss
  <1>5. /\ h \in Kind({"FAILED_SUCC"}) <=> h.type = "FAILED_SUCC"
        /\ h \in Kind({"GET"}) <=> h.type = "GET"
        /\ h \in Seen <=> h.type \in {"TOKEN_HERE", "NEED_NO_MORE"}
    BY <1>3 DEF Seen
  <1>6. \A K, S : h \notin S =>
            /\ On(n, l, K, S) => On(c, l, K, S)
            /\ On(c, l, K, S) => On(n, l, K, S) \/ (Read(s, p, q) /\ h \in K)
            /\ Read(s, p, q) /\ h \in K => On(c, l, K, S)
    BY <1>1, TakenOn
  <1>7. \A K, L, S : h \notin S =>
            /\ Two(n, l, K, L, S) => Two(c, l, K, L, S)
            /\ Read(s, p, q) /\ h \in K /\ On(n, l, L, S) => Two(c, l, K, L, S)
    BY <1>1, TakenTwo
  <1>8. /\ Lost(n, q) <=> Lost(c, q)
        /\ Broken(n, q) => Broken(c, q)
        /\ Broken(c, q) => Broken(n, q) \/ (Read(s, p, q) /\ h.type = "FAILED_SUCC")
        /\ Read(s, p, q) /\ h.type = "FAILED_SUCC" => Broken(c, q)
    BY <1>4, <1>5, <1>6 DEF Lost, Broken, l
  <1>9. /\ Read(s, p, q) /\ h.type = "FAILED_SUCC" /\ Broken(n, q) => BrokenTwice(c, q)
        /\ BrokenTwice(n, q) => BrokenTwice(c, q)
    BY <1>4, <1>5, <1>7 DEF Broken, BrokenTwice, l
  <1>10. /\ Asks(n, q) => Asks(c, q)
         /\ Asks(c, q) => Asks(n, q) \/ (Read(s, p, q) /\ h.type = "GET")
         /\ Read(s, p, q) /\ h.type = "GET" => Asks(c, q)
    BY <1>4, <1>5, <1>6 DEF Asks, l
  <1>11. /\ \A r : AsksFor(n, q, r) => AsksFor(c, q, r)
         /\ \A r : AsksFor(c, q, r) => AsksFor(n, q, r) \/ (Read(s, p, q) /\ h.type = "GET")
         /\ Read(s, p, q) /\ h.type = "GET" => AsksFor(c, q, h.req)
    BY <1>3, <1>4, <1>6 DEF AsksFor, l
  <1>12. /\ Saw(n, q) => Saw(c, q)
         /\ Saw(c, q) => \/ Saw(n, q)
                         \/ Read(s, p, q) /\ h.type \in {"TOKEN_HERE", "NEED_NO_MORE"}
         /\ Read(s, p, q) /\ h.type \in {"TOKEN_HERE", "NEED_NO_MORE"} => Saw(c, q)
    BY <1>4, <1>5, <1>6 DEF Saw, l
  <1>13. /\ \A r : Old(n, q, r) => Old(c, q, r)
         /\ \A r : Old(c, q, r)
                => Old(n, q, r) \/ (Read(s, p, q) /\ h.type \in {"OLD_SUCC", "OLD_PRED"})
         /\ Read(s, p, q) /\ h.type \in {"OLD_SUCC", "OLD_PRED"} => Old(c, q, h.req)
    BY <1>3, <1>4, <1>6 DEF Old, l
  <1>14. /\ Read(s, p, q) /\ h.type = "GET" /\ Asks(n, q) => AsksTwice(c, q)
         /\ Read(s, p, q) /\ h.type = "GET" /\ Saw(n, q) => AsksThenSaw(c, q)
         /\ AsksTwice(n, q) => AsksTwice(c, q)
         /\ AsksThenSaw(n, q) => AsksThenSaw(c, q)
    BY <1>4, <1>5, <1>7 DEF AsksTwice, AsksThenSaw, Asks, Saw, l
  <1>15. /\ Read(s, p, q) /\ h.type = "GET" /\ Old(n, q, h.req) => AsksThenOld(c, q, h.req)
         /\ \A r : AsksThenOld(n, q, r) => AsksThenOld(c, q, r)
    BY <1>3, <1>4, <1>7 DEF AsksThenOld, Old, l
  <1> QED
    BY <1>8, <1>9, <1>10, <1>11, <1>12, <1>13, <1>14, <1>15

LEMMA TakenDown ==
    ASSUME NEW c \in Channels(Message), NEW s \in Site, NEW p \in Site,
           c[<<s, p>>] # <<>>, NEW h, h = Head(c[<<s, p>>]),
           NEW q \in Site, NEW n, n = Taken(c, s, p)
    PROVE  /\ Told(n, q) => Told(c, q)
           /\ Told(c, q) => Told(n, q) \/ (Served(s, p, q) /\ h.type = "FORWARD")
           /\ Served(s, p, q) /\ h.type = "FORWARD" => Told(c, q) /\ ToldOf(c, q, h.site)
           /\ Served(s, p, q) /\ h.type = "FORWARD" /\ Told(n, q) => ToldTwice(c, q)
           /\ Served(s, p, q) /\ h.type = "FORWARD" /\ Checked(n, q)
                => ToldThenChecked(c, q, h.site)
           /\ \A x : ToldOf(n, q, x) => ToldOf(c, q, x)
           /\ \A x : ToldOf(c, q, x) => ToldOf(n, q, x) \/ (Served(s, p, q) /\ h.type = "FORWARD")
           /\ Checked(n, q) => Checked(c, q)
           /\ Checked(c, q) => Checked(n, q) \/ (Served(s, p, q) /\ h.type = "CHECK_SUCC")
           /\ Served(s, p, q) /\ h.type = "CHECK_SUCC" => Checked(c, q)
           /\ ToldTwice(n, q) => ToldTwice(c, q)
           /\ \A x : ToldThenChecked(n, q, x) => ToldThenChecked(c, q, x)
  <1> DEFINE l == <<Home, q>>
  <1>1. l \in Site \X Site /\ (l = <<s, p>> <=> Served(s, p, q))
    BY HomeAssumption DEF Served
  <1>2. h \in Message
    BY TakenType
  <1> HIDE DEF l
  <1>3. /\ h \in Kind({"FORWARD"}) <=> h.type = "FORWARD"
        /\ h \in Kind({"CHECK_SUCC"}) <=> h.type = "CHECK_SUCC"
        /\ \A x : h \in Naming(x) <=> h.type = "FORWARD" /\ h.site = x
    BY <1>2 DEF Kind, Naming
  <1>4. h \notin {}
    OBVIOUS
  <1>6. \A K : /\ On(n, l, K, {}) => On(c, l, K, {})
               /\ On(c, l, K, {}) => On(n, l, K, {}) \/ (Served(s, p, q) /\ h \in K)
               /\ Served(s, p, q) /\ h \in K => On(c, l, K, {})
    BY <1>1, <1>4, TakenOn
  <1>7. \A K, L : /\ Two(n, l, K, L, {}) => Two(c, l, K, L, {})
                  /\ Served(s, p, q) /\ h \in K /\ On(n, l, L, {}) => Two(c, l, K, L, {})
    BY <1>1, <1>4, TakenTwo
  <1>8. /\ Told(n, q) => Told(c, q)
        /\ Told(c, q) => Told(n, q) \/ (Served(s, p, q) /\ h.type = "FORWARD")
        /\ Served(s, p, q) /\ h.type = "FORWARD" => Told(c, q)
        /\ Checked(n, q) => Checked(c, q)
        /\ Checked(c, q) => Checked(n, q) \/ (Served(s, p, q) /\ h.type = "CHECK_SUCC")
        /\ Served(s, p, q) /\ h.type = "CHECK_SUCC" => Checked(c, q)
    BY <1>3, <1>6 DEF Told, Checked, l
  <1>9. /\ \A x : ToldOf(n, q, x) => ToldOf(c, q, x)
        /\ \A x : ToldOf(c, q, x) => ToldOf(n, q, x) \/ (Served(s, p, q) /\ h.type = "FORWARD")
        /\ Served(s, p, q) /\ h.type = "FORWARD" => ToldOf(c, q, h.site)
    BY <1>3, <1>6 DEF ToldOf, l
  <1>10. /\ Served(s, p, q) /\ h.type = "FORWARD" /\ Told(n, q) => ToldTwice(c, q)
         /\ ToldTwice(n, q) => ToldTwice(c, q)
    BY <1>3, <1>7 DEF Told, ToldTwice, l
  <1>11. /\ Served(s, p, q) /\ h.type = "FORWARD" /\ Checked(n, q)
                => ToldThenChecked(c, q, h.site)
         /\ \A x : ToldThenChecked(n, q, x) => ToldThenChecked(c, q, x)
    BY <1>3, <1>7 DEF Checked, ToldThenChecked, l
  <1> QED
    BY <1>8, <1>9, <1>10, <1>11

-----------------------------------------------------------------------------
(* The queues of site q say the same in the channels c and n.              *)

SameUp(c, n, q) ==
    /\ Lost(n, q) <=> Lost(c, q)
    /\ Broken(n, q) <=> Broken(c, q)
    /\ Asks(n, q) <=> Asks(c, q)
    /\ \A r : AsksFor(n, q, r) <=> AsksFor(c, q, r)
    /\ Saw(n, q) => Saw(c, q)
    /\ \A r : Old(n, q, r) => Old(c, q, r)
    /\ BrokenTwice(n, q) => BrokenTwice(c, q)
    /\ AsksTwice(n, q) => AsksTwice(c, q)
    /\ AsksThenSaw(n, q) => AsksThenSaw(c, q)
    /\ \A r : AsksThenOld(n, q, r) => AsksThenOld(c, q, r)

SameDown(c, n, q) ==
    /\ Told(n, q) <=> Told(c, q)
    /\ \A x : ToldOf(n, q, x) <=> ToldOf(c, q, x)
    /\ Checked(n, q) <=> Checked(c, q)
    /\ ToldTwice(n, q) => ToldTwice(c, q)
    /\ \A x : ToldThenChecked(n, q, x) => ToldThenChecked(c, q, x)

LEMMA SameLink ==
    ASSUME NEW c, NEW n, NEW q
    PROVE  /\ n[<<q, Home>>] = c[<<q, Home>>] => SameUp(c, n, q)
           /\ n[<<Home, q>>] = c[<<Home, q>>] => SameDown(c, n, q)
  <1>1. ASSUME n[<<q, Home>>] = c[<<q, Home>>]
        PROVE  SameUp(c, n, q)
    <2>1. \A K, S : On(n, <<q, Home>>, K, S) <=> On(c, <<q, Home>>, K, S)
      BY <1>1 DEF On
    <2>2. \A K, L, S : Two(n, <<q, Home>>, K, L, S) <=> Two(c, <<q, Home>>, K, L, S)
      BY <1>1 DEF Two
    <2> QED
      BY <2>1, <2>2 DEF SameUp, Lost, Broken, Asks, AsksFor, Saw, Old,
         BrokenTwice, AsksTwice, AsksThenSaw, AsksThenOld
  <1>2. ASSUME n[<<Home, q>>] = c[<<Home, q>>]
        PROVE  SameDown(c, n, q)
    <2>1. \A K, S : On(n, <<Home, q>>, K, S) <=> On(c, <<Home, q>>, K, S)
      BY <1>2 DEF On
    <2>2. \A K, L, S : Two(n, <<Home, q>>, K, L, S) <=> Two(c, <<Home, q>>, K, L, S)
      BY <1>2 DEF Two
    <2> QED
      BY <2>1, <2>2 DEF SameDown, Told, ToldOf, Checked, ToldTwice, ToldThenChecked
  <1> QED
    BY <1>1, <1>2

LEMMA SameTrans ==
    ASSUME NEW c, NEW n, NEW o, NEW q
    PROVE  /\ SameUp(c, n, q) /\ SameUp(n, o, q) => SameUp(c, o, q)
           /\ SameDown(c, n, q) /\ SameDown(n, o, q) => SameDown(c, o, q)
  BY DEF SameUp, SameDown

(* Which messages say something about their sender, or about their         *)
(* receiver.                                                               *)
UpTypes == {"GET", "TOKEN_HERE", "NEED_NO_MORE", "FAILED_SUCC", "FAILED_PRED",
            "OLD_SUCC", "OLD_PRED"}
DownTypes == {"FORWARD", "CHECK_SUCC"}

Reporting == {"TOKEN_HERE", "NEED_NO_MORE", "OLD_SUCC", "OLD_PRED"}

LEMMA SentSame ==
    ASSUME NEW c \in Channels(Message), NEW p \in Site, NEW d,
           NEW m \in Message, NEW q \in Site, NEW n, n = Sent(c, p, To(d, m))
    PROVE  /\ q # p \/ d # Home \/ m.type \notin UpTypes => SameUp(c, n, q)
           /\ q # d \/ p # Home \/ m.type \notin DownTypes => SameDown(c, n, q)
  <1>1. ASSUME q # p \/ d # Home
        PROVE  SameUp(c, n, q)
    <2>1. <<q, Home>> \in Site \X Site /\ <<q, Home>> # <<p, d>>
      BY <1>1, HomeAssumption
    <2>2. Sent(c, p, To(d, m))[<<q, Home>>]
            = IF <<q, Home>> = <<p, d>> /\ Reaches(p, d)
              THEN c[<<q, Home>>] \o <<m>> ELSE c[<<q, Home>>]
      BY <2>1, SentLink
    <2>3. n[<<q, Home>>] = c[<<q, Home>>]
      BY <2>1, <2>2
    <2> QED
      BY <2>3, SameLink
  <1>2. ASSUME m.type \notin UpTypes
        PROVE  SameUp(c, n, q)
    <2>1. /\ m.type # "FAILED_PRED" /\ m.type # "FAILED_SUCC" /\ m.type # "GET"
          /\ m.type \notin {"TOKEN_HERE", "NEED_NO_MORE"}
          /\ m.type \notin {"OLD_SUCC", "OLD_PRED"}
      BY <1>2 DEF UpTypes
    <2> QED
      BY <2>1, SentUp DEF SameUp
  <1>3. ASSUME q # d \/ p # Home
        PROVE  SameDown(c, n, q)
    <2>1. <<Home, q>> \in Site \X Site /\ <<Home, q>> # <<p, d>>
      BY <1>3, HomeAssumption
    <2>2. Sent(c, p, To(d, m))[<<Home, q>>]
            = IF <<Home, q>> = <<p, d>> /\ Reaches(p, d)
              THEN c[<<Home, q>>] \o <<m>> ELSE c[<<Home, q>>]
      BY <2>1, SentLink
    <2>3. n[<<Home, q>>] = c[<<Home, q>>]
      BY <2>1, <2>2
    <2> QED
      BY <2>3, SameLink
  <1>4. ASSUME m.type \notin DownTypes
        PROVE  SameDown(c, n, q)
    <2>1. m.type # "FORWARD" /\ m.type # "CHECK_SUCC"
      BY <1>4 DEF DownTypes
    <2> QED
      BY <2>1, SentDown DEF SameDown
  <1> QED
    BY <1>1, <1>2, <1>3, <1>4

LEMMA TakenSame ==
    ASSUME NEW c \in Channels(Message), NEW s \in Site, NEW p \in Site,
           c[<<s, p>>] # <<>>, NEW h, h = Head(c[<<s, p>>]),
           NEW q \in Site, NEW n, n = Taken(c, s, p)
    PROVE  /\ q # s \/ p # Home \/ h.type \notin UpTypes \/ h.type \in Reporting
                => SameUp(c, n, q)
           /\ q # p \/ s # Home \/ h.type \notin DownTypes => SameDown(c, n, q)
  <1>1. ASSUME NEW l \in Site \X Site, l # <<s, p>>
        PROVE  n[l] = c[l]
    BY <1>1 DEF Taken, Channels
  <1>2. ASSUME q # s \/ p # Home
        PROVE  SameUp(c, n, q)
    <2>1. <<q, Home>> \in Site \X Site /\ <<q, Home>> # <<s, p>>
      BY <1>2, HomeAssumption
    <2> QED
      BY <1>1, <2>1, SameLink
  <1>3. ASSUME h.type \notin UpTypes \/ h.type \in Reporting
        PROVE  SameUp(c, n, q)
    <2>1. h.type # "FAILED_PRED" /\ h.type # "FAILED_SUCC" /\ h.type # "GET"
      BY <1>3 DEF UpTypes, Reporting
    <2> QED
      BY <2>1, TakenUp DEF SameUp
  <1>4. ASSUME q # p \/ s # Home
        PROVE  SameDown(c, n, q)
    <2>1. <<Home, q>> \in Site \X Site /\ <<Home, q>> # <<s, p>>
      BY <1>4, HomeAssumption
    <2> QED
      BY <1>1, <2>1, SameLink
  <1>5. ASSUME h.type \notin DownTypes
        PROVE  SameDown(c, n, q)
    <2>1. h.type # "FORWARD" /\ h.type # "CHECK_SUCC"
      BY <1>5 DEF DownTypes
    <2> QED
      BY <2>1, TakenDown DEF SameDown
  <1> QED
    BY <1>2, <1>3, <1>4, <1>5

-----------------------------------------------------------------------------
(* The invariant that keeps the chain consistent.  A proxy is flagged when *)
(* the manager relies on it to pass the token on: it is a_last, it is told *)
(* its successor or knows it, or it reports that the successor has failed. *)

Dead(a, x) == x \in Site /\ ~a[x]

Sound(p) == p \notin perm[Home] /\ ~Lost(chan, p)

Token(p) == Holder(p) \/ TokenUnderWay(p)

Flagged(p) ==
    last = p \/ Told(chan, p) \/ successor[p] # NoSite \/ Broken(chan, p)

(* The token has come as far as the entry of p for the request r.          *)
Reached(p, r) ==
    \/ Token(p)
    \/ Saw(chan, p)
    \/ Asks(chan, p) /\ last # p
    \/ Old(chan, p, r)
    \/ Sound(p) /\ (status[p] = "EMPTY" \/ request[p] # r)

(* A proxy is flagged for one reason only.                                 *)
OneDuty(p) ==
    /\ last = p => ~Told(chan, p) /\ successor[p] = NoSite /\ ~Broken(chan, p)
    /\ Told(chan, p) \/ successor[p] # NoSite => ~Broken(chan, p)
    /\ ~BrokenTwice(chan, p)

(* A proxy that asks for the token has no duty (but the home site may ask  *)
(* more than once in one sweep) and nothing to say about the token.        *)
Waiting(p) ==
    Asks(chan, p) =>
        /\ ~Told(chan, p) /\ successor[p] = NoSite /\ ~Broken(chan, p)
        /\ last = p => p = Home /\ Home \in draining
        /\ last # p => /\ ~Token(p)
                       /\ ~AsksThenSaw(chan, p)
                       /\ \A r : ~AsksThenOld(chan, p, r)
                       /\ Sound(p) => status[p] = "REQUESTED"
        /\ p # Home => ~AsksTwice(chan, p)

Numbered(p) == \A r : Sound(p) /\ AsksFor(chan, p, r) => r = request[p]

Resting(p) ==
    Sound(p) /\ status[p] = "EMPTY" => ~Flagged(p) /\ ~Asks(chan, p)

TokenKept(p) ==
    /\ Token(p) /\ Sound(p) => Flagged(p)
    /\ TokenUnderWay(p) => alive[p]
    /\ Token(p) => InChain(p)
    /\ \A r : Old(chan, p, r) /\ Has(chain, p, r) => ~Token(p)

GivenUp(p) == pfail[p] => ~Sound(p)

Enlisted(p) == Flagged(p) /\ alive[p] => InChain(p)

OnDuty(p) ==
    InChain(p) /\ Sound(p) /\ alive[p] /\ ~Flagged(p)
        => status[p] = "EMPTY" \/ Asks(chan, p)

(* The entry of a flagged proxy is about its current request.              *)
Current(p) ==
    \A r : Flagged(p) /\ Has(chain, p, r)
        => ~Old(chan, p, r) /\ (Sound(p) => r = request[p])

(* What a proxy in the chain knows or hears of its successor is right.     *)
Guided(p) ==
    /\ \A x : InChain(p) /\ ToldOf(chan, p, x) => Adjacent(chain, p, x)
    /\ InChain(p) /\ successor[p] # NoSite => Adjacent(chain, p, successor[p])
    /\ \A x : Broken(chan, p) /\ Adjacent(chain, p, x) => Dead(alive, x)

(* A proxy is asked about its successor only if that has failed.           *)
Inquired(p) ==
    /\ Checked(chan, p) /\ successor[p] # NoSite => Dead(alive, successor[p])
    /\ \A x : ToldThenChecked(chan, p, x) => Dead(alive, x)

SiteOK(p) ==
    /\ OneDuty(p) /\ Waiting(p) /\ Numbered(p) /\ Resting(p) /\ TokenKept(p)
    /\ GivenUp(p) /\ Enlisted(p) /\ OnDuty(p) /\ Current(p) /\ Guided(p)
    /\ Inquired(p)

(* No proxy ahead of the token is flagged, or has the token.               *)
Ordered ==
    \A a, b, r : Ahead(chain, a, b, r) /\ Reached(b, r) => ~Flagged(a) /\ ~Token(a)

Shaped == chain \in Seq(Entry) /\ Distinct(chain) /\ Ends(chain, last)

-----------------------------------------------------------------------------
(* Nothing happens to site q but that it may get the token it expects.     *)

Expects(q) ==
    /\ alive[q] /\ InChain(q)
    /\ (Sound(q) => Flagged(q)) /\ (Asks(chan, q) => last = q)
    /\ \A r : Has(chain, q, r) => ~Old(chan, q, r)

Steady(q) ==
    /\ SameUp(chan, chan', q) /\ SameDown(chan, chan', q)
    /\ status'[q] = status[q] /\ successor'[q] = successor[q]
    /\ request'[q] = request[q] /\ (pfail'[q] => pfail[q])
    /\ alive'[q] = alive[q]
    /\ q \in perm'[Home] <=> q \in perm[Home]

Idles(q) == Steady(q) /\ (Token(q)' => Token(q) \/ Expects(q))

(* The dead stay dead and the sweep at home goes on.                       *)
Proceeds ==
    /\ \A x : Dead(alive, x) => Dead(alive', x)
    /\ Home \in draining /\ Asks(chan', Home) => Home \in draining'

(* The chain says of q what it said before, unless q has left it.          *)
Follows(q) ==
    /\ InChain(q)' => InChain(q)
    /\ InChain(q) /\ ~InChain(q)' => (~Flagged(q) /\ ~Token(q)') \/ ~alive[q]
    /\ \A r : Has(chain', q, r) => Has(chain, q, r)
    /\ \A x : Adjacent(chain', q, x) => Adjacent(chain, q, x)
    /\ \A x : Adjacent(chain, q, x) /\ InChain(q)' => Adjacent(chain', q, x)

LEMMA SettledSite ==
    ASSUME NEW q \in Site, SiteOK(q), Idles(q), Proceeds,
           last' = q <=> last = q, Follows(q)
    PROVE  /\ SiteOK(q)'
           /\ Flagged(q)' <=> Flagged(q)
           /\ \A r : Reached(q, r)' => Reached(q, r) \/ Token(q)'
  <1>1. Sound(q)' <=> Sound(q)
    BY DEF Idles, Steady, SameUp, Sound
  <1>2. Flagged(q)' <=> Flagged(q)
    BY DEF Idles, Steady, SameUp, SameDown, Flagged
  <1>3. \A r : Reached(q, r)' => Reached(q, r) \/ Token(q)'
    BY <1>1 DEF Idles, Steady, SameUp, SameDown, Reached
  <1>4. OneDuty(q)'
    BY DEF SiteOK, OneDuty, Idles, Steady, SameUp, SameDown
  <1>5. Waiting(q)'
    <2> SUFFICES ASSUME Asks(chan', q)
                 PROVE  /\ ~Told(chan', q) /\ successor'[q] = NoSite /\ ~Broken(chan', q)
                        /\ last' = q => q = Home /\ Home \in draining'
                        /\ last' # q => /\ ~Token(q)'
                                        /\ ~AsksThenSaw(chan', q)
                                        /\ \A r : ~AsksThenOld(chan', q, r)
                                        /\ Sound(q)' => status'[q] = "REQUESTED"
                        /\ q # Home => ~AsksTwice(chan', q)
      BY DEF Waiting
    <2>1. Asks(chan, q)
      BY DEF Idles, Steady, SameUp
    <2>2. last # q => ~Token(q)'
      BY <2>1 DEF SiteOK, Waiting, Idles, Steady, Expects
    <2>3. last = q => q = Home /\ Home \in draining'
      BY <2>1 DEF SiteOK, Waiting, Proceeds
    <2>4. ~Told(chan', q) /\ successor'[q] = NoSite /\ ~Broken(chan', q)
      BY <2>1 DEF SiteOK, Waiting, Idles, Steady, SameUp, SameDown
    <2>5. last # q => /\ ~AsksThenSaw(chan', q)
                      /\ \A r : ~AsksThenOld(chan', q, r)
                      /\ Sound(q)' => status'[q] = "REQUESTED"
      BY <1>1, <2>1 DEF SiteOK, Waiting, Idles, Steady, SameUp
    <2>6. q # Home => ~AsksTwice(chan', q)
      BY <2>1 DEF SiteOK, Waiting, Idles, Steady, SameUp
    <2> QED
      BY <2>2, <2>3, <2>4, <2>5, <2>6
  <1>6. Numbered(q)'
    BY <1>1 DEF SiteOK, Numbered, Idles, Steady, SameUp
  <1>7. Resting(q)'
    BY <1>1, <1>2 DEF SiteOK, Resting, Idles, Steady, SameUp
  <1>8. TokenKept(q)'
    <2>1. Token(q)' => (Sound(q) => Flagged(q))
      BY DEF SiteOK, TokenKept, Idles, Steady, Expects
    <2>2. TokenUnderWay(q)' => Token(q)'
      BY DEF Token
    <2>3. Token(q)' => alive[q]
      BY DEF SiteOK, TokenKept, Idles, Steady, Expects, Token, Holder
    <2>4. Token(q)' => InChain(q)
      BY DEF SiteOK, TokenKept, Idles, Expects
    <2>5. Token(q)' => InChain(q)'
      BY <2>3, <2>4 DEF Follows
    <2>6. \A r : Token(q)' /\ Has(chain, q, r) => ~Old(chan, q, r)
      BY DEF SiteOK, TokenKept, Idles, Expects
    <2>7. \A r : Token(q)' /\ Has(chain', q, r) => ~Old(chan', q, r)
      BY <2>6 DEF Follows, Idles, Steady, SameUp
    <2> QED
      BY <1>1, <1>2, <2>1, <2>2, <2>3, <2>5, <2>7 DEF TokenKept, Idles, Steady
  <1>9. GivenUp(q)'
    BY <1>1 DEF SiteOK, GivenUp, Idles, Steady
  <1>10. InChain(q)' => InChain(q)
    BY DEF Follows
  <1>11. Enlisted(q)'
    BY <1>2 DEF SiteOK, Enlisted, Idles, Steady, Follows
  <1>12. OnDuty(q)'
    BY <1>1, <1>2, <1>10 DEF SiteOK, OnDuty, Idles, Steady, SameUp
  <1>13. Current(q)'
    BY <1>1, <1>2 DEF SiteOK, Current, Idles, Steady, SameUp, Follows
  <1>14. Guided(q)'
    <2>1. \A x : InChain(q)' /\ ToldOf(chan', q, x) => Adjacent(chain', q, x)
      BY <1>10 DEF SiteOK, Guided, Idles, Steady, SameDown, Follows
    <2>2. InChain(q)' /\ successor'[q] # NoSite => Adjacent(chain', q, successor'[q])
      BY <1>10 DEF SiteOK, Guided, Idles, Steady, Follows
    <2>3. \A x : Broken(chan', q) /\ Adjacent(chain', q, x) => Dead(alive', x)
      BY DEF SiteOK, Guided, Idles, Steady, SameUp, Follows, Proceeds
    <2> QED
      BY <2>1, <2>2, <2>3 DEF Guided
  <1>15. Inquired(q)'
    BY DEF SiteOK, Inquired, Idles, Steady, SameDown, Proceeds
  <1> QED
    BY <1>2, <1>3, <1>4, <1>5, <1>6, <1>7, <1>8, <1>9, <1>11, <1>12, <1>13,
       <1>14, <1>15 DEF SiteOK

(* What is known of the token of p stays true as long as p stays in the    *)
(* chain and does not report that it has passed the token on.              *)
LEMMA TokenStays ==
    ASSUME NEW p \in Site, TokenKept(p), Token(p)' => Token(p),
           InChain(p) => InChain(p)', \A r : Has(chain', p, r) => Has(chain, p, r),
           alive'[p] = alive[p], Token(p)' /\ Sound(p)' => Flagged(p)',
           \A r : Token(p) /\ Has(chain, p, r) /\ Old(chan', p, r) => Old(chan, p, r)
    PROVE  TokenKept(p)'
  <1>1. TokenUnderWay(p)' => alive'[p]
    BY DEF TokenKept, Token, Holder
  <1>2. Token(p)' => InChain(p)'
    BY DEF TokenKept
  <1>3. \A r : Old(chan', p, r) /\ Has(chain', p, r) => ~Token(p)'
    BY DEF TokenKept
  <1> QED
    BY <1>1, <1>2, <1>3 DEF TokenKept

LEMMA IdleSite ==
    ASSUME NEW q \in Site, SiteOK(q), Idles(q), Proceeds, last' = last,
           EndOf(chain, chain'),
           InChain(q) /\ ~InChain(q)' => ~Flagged(q) /\ ~Token(q)'
    PROVE  /\ SiteOK(q)'
           /\ Flagged(q)' <=> Flagged(q)
           /\ \A r : Reached(q, r)' => Reached(q, r) \/ Token(q)'
  <1>1. Follows(q)
    BY DEF Follows, EndOf, InChain
  <1> QED
    BY <1>1, SettledSite

(* A step of the proxy of p that leaves the manager alone.                 *)
LEMMA ProxyFrame ==
    ASSUME Shaped, \A q \in Site : SiteOK(q), Ordered, Proceeds,
           UNCHANGED <<chain, last>>, NEW p \in Site,
           \A q \in Site : q # p => Idles(q),
           \A q \in Site : Token(q)' => Token(q),
           SiteOK(p)', Flagged(p)' => Flagged(p),
           \A r : Has(chain, p, r) /\ Reached(p, r)' => Reached(p, r)
    PROVE  Shaped' /\ (\A q \in Site : SiteOK(q)') /\ Ordered'
  <1>1. Shaped'
    BY DEF Shaped
  <1>2. EndOf(chain, chain')
    BY WholeChain DEF Shaped
  <1>3. ASSUME NEW q \in Site, q # p
        PROVE  /\ SiteOK(q)'
               /\ Flagged(q)' <=> Flagged(q)
               /\ \A r : Reached(q, r)' => Reached(q, r) \/ Token(q)'
    <2>1. InChain(q)' <=> InChain(q)
      BY DEF InChain
    <2> QED
      BY <1>2, <1>3, <2>1, IdleSite
  <1>4. ASSUME NEW q \in Site
        PROVE  /\ Flagged(q)' => Flagged(q)
               /\ \A r : Has(chain, q, r) /\ Reached(q, r)' => Reached(q, r)
    <2>1. CASE q = p
      BY <2>1
    <2>2. CASE q # p
      BY <1>3, <2>2 DEF Reached
    <2> QED
      BY <2>1, <2>2
  <1>5. Ordered'
    <2> SUFFICES ASSUME NEW a, NEW b, NEW r, Ahead(chain', a, b, r), Reached(b, r)'
                 PROVE  ~Flagged(a)' /\ ~Token(a)'
      BY DEF Ordered
    <2>1. Ahead(chain, a, b, r)
      OBVIOUS
    <2>2. a \in Site /\ b \in Site /\ Has(chain, b, r)
      BY <2>1, ChainFacts DEF Shaped
    <2> QED
      BY <1>4, <2>1, <2>2 DEF Ordered
  <1> QED
    BY <1>1, <1>3, <1>5

-----------------------------------------------------------------------------
(* Proxy p passes the token on to its successor d, or lets it go.          *)
LEMMA ForwardFrame ==
    ASSUME Shaped, \A q \in Site : SiteOK(q), Ordered, Proceeds,
           UNCHANGED <<chain, last>>, NEW p \in Site, NEW d,
           Adjacent(chain, p, d), Token(p), Flagged(p),
           \A q \in Site : q # p => Steady(q),
           \A q \in Site : Token(q)' => q = d /\ alive[d],
           SiteOK(p)', ~Flagged(p)'
    PROVE  Shaped' /\ (\A q \in Site : SiteOK(q)') /\ Ordered'
  <1>1. Shaped'
    BY DEF Shaped
  <1>2. EndOf(chain, chain')
    BY WholeChain DEF Shaped
  <1>3. chain \in Seq(Entry) /\ Distinct(chain)
    BY DEF Shaped
  <1>4. /\ p # d /\ d \in Site /\ Visits(chain, d)
        /\ \A x, r : Ahead(chain, x, d, r) => x = p \/ \E t \in Nat : Ahead(chain, x, p, t)
    BY <1>3, AdjacentFacts
  <1>5. PICK r \in Nat : Ahead(chain, p, d, r)
    BY <1>3, AdjacentFacts
  <1>6. ~Reached(d, r) /\ \A t : Has(chain, d, t) => ~Reached(d, t)
    BY <1>3, <1>5, AdjacentFacts DEF Ordered
  <1>7. alive[d] => Expects(d)
    <2> SUFFICES ASSUME alive[d]
                 PROVE  Expects(d)
      OBVIOUS
    <2>1. Asks(chan, d) => last = d
      BY <1>6 DEF Reached
    <2>2. Sound(d) => Flagged(d)
      <3> SUFFICES ASSUME Sound(d), ~Flagged(d)
                   PROVE  FALSE
        OBVIOUS
      <3>1. status[d] = "EMPTY" \/ Asks(chan, d)
        BY <1>4 DEF SiteOK, OnDuty, InChain
      <3>2. last # d
        BY DEF Flagged
      <3> QED
        BY <1>6, <3>1, <3>2 DEF Reached
    <2>3. InChain(d) /\ \A t : Has(chain, d, t) => ~Old(chan, d, t)
      BY <1>4, <1>6 DEF Reached, InChain
    <2> QED
      BY <2>1, <2>2, <2>3 DEF Expects
  <1>8. ASSUME NEW q \in Site, q # p
        PROVE  /\ SiteOK(q)'
               /\ Flagged(q)' <=> Flagged(q)
               /\ \A t : Reached(q, t)' => Reached(q, t) \/ Token(q)'
    <2>1. InChain(q)' <=> InChain(q)
      BY DEF InChain
    <2>2. Idles(q)
      BY <1>7, <1>8 DEF Idles
    <2> QED
      BY <1>2, <1>8, <2>1, <2>2, IdleSite
  <1>9. Ordered'
    <2> SUFFICES ASSUME NEW a, NEW b, NEW t, Ahead(chain', a, b, t), Reached(b, t)'
                 PROVE  ~Flagged(a)' /\ ~Token(a)'
      BY DEF Ordered
    <2>1. Ahead(chain, a, b, t)
      OBVIOUS
    <2>2. a \in Site /\ b \in Site
      BY <1>3, <2>1, ChainFacts
    <2>3. CASE a = p
      BY <1>4, <2>3
    <2>4. CASE a # p /\ a # d
      <3>1. (Flagged(a)' => Flagged(a)) /\ ~Token(a)'
        BY <1>8, <2>2, <2>4
      <3>2. Reached(b, t) => ~Flagged(a)
        BY <2>1 DEF Ordered
      <3>3. CASE b = p
        BY <3>1, <3>2, <3>3 DEF Reached
      <3>4. CASE b = d
        <4>1. PICK u \in Nat : Ahead(chain, a, p, u)
          BY <1>4, <2>1, <2>4, <3>4
        <4>2. Reached(p, u)
          BY DEF Reached
        <4> QED
          BY <3>1, <4>1, <4>2 DEF Ordered
      <3>5. CASE b # p /\ b # d
        <4>1. ~Token(b)'
          BY <2>2, <3>5
        <4> QED
          BY <1>8, <2>2, <3>1, <3>2, <3>5, <4>1
      <3> QED
        BY <3>3, <3>4, <3>5
    <2>5. CASE a = d
      <3>1. Ahead(chain, p, b, t) /\ b # p /\ b # d
        BY <1>3, <2>1, <2>5, AdjacentFacts
      <3>2. ~Reached(b, t)
        BY <3>1 DEF Ordered
      <3>3. ~Token(b)'
        BY <2>2, <3>1
      <3> QED
        BY <1>8, <2>2, <3>1, <3>2, <3>3
    <2> QED
      BY <2>3, <2>4, <2>5
  <1> QED
    BY <1>1, <1>8, <1>9

(* Then p has no duty left.                                                *)
LEMMA Unburdened ==
    ASSUME NEW p \in Site, SiteOK(p), Proceeds, UNCHANGED <<chain, last>>,
           status'[p] = "EMPTY", successor'[p] = NoSite, ~pfail'[p],
           alive'[p] = alive[p], last # p, ~Told(chan', p), ~Broken(chan', p),
           BrokenTwice(chan', p) => BrokenTwice(chan, p),
           \A x : ToldThenChecked(chan', p, x) => ToldThenChecked(chan, p, x),
           ~Asks(chan', p), ~Token(p)'
    PROVE  SiteOK(p)' /\ ~Flagged(p)'
  <1>1. /\ \A r : ~AsksFor(chan', p, r)
        /\ \A x : ~ToldOf(chan', p, x)
    BY SpecificObs
  <1>2. ~Flagged(p)'
    BY DEF Flagged
  <1>3. OneDuty(p)' /\ Waiting(p)' /\ Numbered(p)' /\ Resting(p)'
    BY <1>1, <1>2 DEF SiteOK, OneDuty, Waiting, Numbered, Resting
  <1>4. TokenKept(p)' /\ GivenUp(p)' /\ Enlisted(p)' /\ OnDuty(p)' /\ Current(p)'
    BY <1>2 DEF TokenKept, GivenUp, Enlisted, OnDuty, Current, Token
  <1>5. Guided(p)'
    BY <1>1 DEF Guided
  <1>6. Inquired(p)'
    BY DEF SiteOK, Inquired, Proceeds
  <1> QED
    BY <1>2, <1>3, <1>4, <1>5, <1>6 DEF SiteOK

-----------------------------------------------------------------------------
(* The part of the invariant that outlives the manager: it stays empty     *)
(* after a failure, a proxy is told of a successor once at a time, only    *)
(* crashed sites are known to have failed, and only the manager tells      *)
(* proxies of successors.                                                  *)

Once(p) == ~ToldTwice(chan, p) /\ (Told(chan, p) => successor[p] = NoSite)

FromHome(c) ==
    \A s, p \in Site : s # Home => ~On(c, <<s, p>>, Kind(DownTypes), {})

NoOwnNeed(c) == ~On(c, <<Home, Home>>, Kind({"NEED_NO_MORE"}), {})

PermFails == {m \in Message : m.to = "proxy" /\ m.type = "PERMFAIL"}

NoFail(c) == \A s, p \in Site : ~On(c, <<s, p>>, PermFails, {})

(* Nothing is under way to a crashed site.                                 *)
Clean == \A s, d \in Site : ~alive[d] => chan[<<s, d>>] = <<>>

Base ==
    /\ Clean
    /\ mfail => chain = <<>> /\ last = NoSite
    /\ \A p \in Site : Once(p)
    /\ \A p, s \in Site : s \in perm[p] => ~alive[s]
    /\ FromHome(chan) /\ NoOwnNeed(chan)

Able == alive[Home] /\ ~mfail

ChainOK ==
    Shaped /\ (\A p \in Site : SiteOK(p)) /\ Ordered /\ NoFail(chan)

ChainInv == Base /\ (Able => ChainOK)

LEMMA SentBase ==
    ASSUME NEW c \in Channels(Message), NEW p \in Site, NEW d, NEW m \in Message,
           NEW n, n = Sent(c, p, To(d, m))
    PROVE  /\ FromHome(c) /\ (m.type \in DownTypes => p = Home) => FromHome(n)
           /\ NoOwnNeed(c) /\ (m.type = "NEED_NO_MORE" => p # Home) => NoOwnNeed(n)
           /\ NoFail(c) /\ m \notin PermFails => NoFail(n)
  <1>1. ASSUME NEW l \in Site \X Site, NEW K
        PROVE  On(n, l, K, {}) => On(c, l, K, {}) \/ (l = <<p, d>> /\ m \in K)
    BY SentOn
  <1>2. /\ m \in Kind(DownTypes) <=> m.type \in DownTypes
        /\ m \in Kind({"NEED_NO_MORE"}) <=> m.type = "NEED_NO_MORE"
    BY DEF Kind
  <1>3. /\ <<Home, Home>> \in Site \X Site
        /\ \A s, q \in Site : <<s, q>> \in Site \X Site
        /\ \A s, q : <<s, q>> = <<p, d>> => s = p
    BY HomeAssumption
  <1>4. FromHome(c) /\ (m.type \in DownTypes => p = Home) => FromHome(n)
    BY <1>1, <1>2, <1>3 DEF FromHome
  <1>5. NoOwnNeed(c) /\ (m.type = "NEED_NO_MORE" => p # Home) => NoOwnNeed(n)
    BY <1>1, <1>2, <1>3 DEF NoOwnNeed
  <1>6. NoFail(c) /\ m \notin PermFails => NoFail(n)
    BY <1>1, <1>3 DEF NoFail
  <1> QED
    BY <1>4, <1>5, <1>6

LEMMA TakenBase ==
    ASSUME NEW c \in Channels(Message), NEW s \in Site, NEW p \in Site,
           c[<<s, p>>] # <<>>, NEW n, n = Taken(c, s, p)
    PROVE  /\ FromHome(c) => FromHome(n)
           /\ NoOwnNeed(c) => NoOwnNeed(n)
           /\ NoFail(c) => NoFail(n)
           /\ FromHome(c) /\ Head(c[<<s, p>>]).type \in DownTypes => s = Home
           /\ NoOwnNeed(c) /\ Head(c[<<s, p>>]).type = "NEED_NO_MORE" /\ p = Home
                => s # Home
           /\ NoFail(c) => Head(c[<<s, p>>]) \notin PermFails
  <1> DEFINE h == Head(c[<<s, p>>])
  <1>1. /\ <<Home, Home>> \in Site \X Site
        /\ \A r, q \in Site : <<r, q>> \in Site \X Site
        /\ <<s, p>> \in Site \X Site
    BY HomeAssumption
  <1>2. ASSUME NEW l \in Site \X Site, NEW K
        PROVE  /\ On(n, l, K, {}) => On(c, l, K, {})
               /\ l = <<s, p>> /\ h \in K => On(c, l, K, {})
    <2>1. h \notin {}
      OBVIOUS
    <2> QED
      BY <2>1, TakenOn
  <1>3. h \in Message
    BY TakenType
  <1> HIDE DEF h
  <1>4. /\ h \in Kind(DownTypes) <=> h.type \in DownTypes
        /\ h \in Kind({"NEED_NO_MORE"}) <=> h.type = "NEED_NO_MORE"
    BY <1>3 DEF Kind
  <1>5. (FromHome(c) => FromHome(n)) /\ (FromHome(c) /\ h.type \in DownTypes => s = Home)
    BY <1>1, <1>2, <1>4 DEF FromHome
  <1>6. /\ NoOwnNeed(c) => NoOwnNeed(n)
        /\ NoOwnNeed(c) /\ h.type = "NEED_NO_MORE" /\ p = Home => s # Home
    BY <1>1, <1>2, <1>4 DEF NoOwnNeed
  <1>7. (NoFail(c) => NoFail(n)) /\ (NoFail(c) => h \notin PermFails)
    BY <1>1, <1>2 DEF NoFail
  <1> QED
    BY <1>5, <1>6, <1>7 DEF h

LEMMA EmptiedBase ==
    ASSUME NEW c, NEW n, \A l \in Site \X Site : n[l] = c[l] \/ n[l] = <<>>
    PROVE  /\ FromHome(c) => FromHome(n)
           /\ NoOwnNeed(c) => NoOwnNeed(n)
           /\ NoFail(c) => NoFail(n)
  <1>1. /\ <<Home, Home>> \in Site \X Site
        /\ \A r, q \in Site : <<r, q>> \in Site \X Site
    BY HomeAssumption
  <1>2. ASSUME NEW l \in Site \X Site, NEW K
        PROVE  On(n, l, K, {}) => On(c, l, K, {})
    BY EmptiedOrder
  <1> QED
    BY <1>1, <1>2 DEF FromHome, NoOwnNeed, NoFail

(* No more is told in the channels n than in c.                            *)
ToldLess(c, n, q) ==
    /\ Told(n, q) => Told(c, q)
    /\ ToldTwice(n, q) => ToldTwice(c, q)

LEMMA SameToldLess ==
    ASSUME NEW c, NEW n, NEW q, SameDown(c, n, q)
    PROVE  ToldLess(c, n, q)
  BY DEF SameDown, ToldLess

LEMMA BaseFrame ==
    ASSUME Base, Clean', FromHome(chan'), NoOwnNeed(chan'),
           mfail' => chain' = <<>> /\ last' = NoSite,
           \A q \in Site : ToldLess(chan, chan', q),
           \A q \in Site : successor'[q] = successor[q] \/ successor'[q] = NoSite,
           \A p, s \in Site : s \in perm'[p] => ~alive'[s]
    PROVE  Base'
  <1>1. ASSUME NEW p \in Site
        PROVE  Once(p)'
    <2>1. Once(p) /\ ToldLess(chan, chan', p)
           /\ (successor'[p] = successor[p] \/ successor'[p] = NoSite)
      BY DEF Base
    <2> QED
      BY <2>1 DEF Once, ToldLess
  <1> QED
    BY <1>1 DEF Base

-----------------------------------------------------------------------------
(* The steps of the network.                                               *)

LEMMA SentClean ==
    ASSUME NEW M, NEW c \in Channels(M), NEW p, NEW out, NEW s \in Site,
           NEW d \in Site, ~alive[d]
    PROVE  Sent(c, p, out)[<<s, d>>] = c[<<s, d>>]
  <1>1. <<s, d>> \in Site \X Site /\ <<s, d>>[2] = d
    OBVIOUS
  <1> QED
    BY <1>1 DEF Sent

(* A site empties a queue that is not its own loopback queue only after    *)
(* the last message, so what is asked at home is asked within the sweep.   *)
LEMMA AsksNonempty ==
    ASSUME NEW c, Asks(c, Home)
    PROVE  c[<<Home, Home>>] # <<>>
  BY DEF Asks, On, Hears

LEMMA EmitNet ==
    ASSUME TypeOK, Base, NEW p \in Site, NEW out, Emit(p, out)
    PROVE  /\ chan \in Channels(Message) /\ chan' = Sent(chan, p, out)
           /\ alive' = alive /\ perm' = perm /\ draining' = draining
           /\ alive[p] /\ p \notin draining
           /\ Proceeds /\ Clean'
           /\ \A q, s \in Site : s \in perm'[q] => ~alive'[s]
  <1>1. /\ chan \in Channels(Message) /\ chan' = Sent(chan, p, out)
        /\ alive' = alive /\ perm' = perm /\ draining' = draining
        /\ alive[p] /\ p \notin draining
    BY DEF TypeOK, Channels, Emit, Idle
  <1>2. Clean'
    BY <1>1, SentClean DEF Base, Clean
  <1> QED
    BY <1>1, <1>2 DEF Proceeds, Base

LEMMA ConsumeNet ==
    ASSUME TypeOK, Base, NEW s \in Site, NEW p \in Site, NEW out,
           CanRecv(s, p), Consume(s, p, out)
    PROVE  /\ chan \in Channels(Message) /\ chan[<<s, p>>] # <<>>
           /\ Taken(chan, s, p) \in Channels(Message)
           /\ Head1(s, p) \in Message /\ Head1(s, p) = Head(chan[<<s, p>>])
           /\ chan' = Sent(Taken(chan, s, p), p, out)
           /\ alive' = alive /\ perm' = perm
           /\ alive[p] /\ (p \in draining => s = p)
           /\ Proceeds /\ Clean'
           /\ \A q, r \in Site : r \in perm'[q] => ~alive'[r]
           /\ s = p /\ chan'[<<p, p>>] # <<>> => p \in draining'
  <1>1. /\ chan \in Channels(Message) /\ chan[<<s, p>>] # <<>>
        /\ alive[p] /\ (p \in draining => s = p)
    BY DEF TypeOK, Channels, CanRecv
  <1>2. /\ Taken(chan, s, p) \in Channels(Message)
        /\ Head1(s, p) \in Message /\ Head1(s, p) = Head(chan[<<s, p>>])
    BY <1>1, TakenType DEF Head1
  <1>3. /\ chan' = Sent(Taken(chan, s, p), p, out)
        /\ alive' = alive /\ perm' = perm
        /\ draining' = IF s # p THEN draining
                       ELSE IF chan'[<<p, p>>] # <<>> THEN draining \cup {p}
                            ELSE draining \ {p}
    BY DEF Consume, Taken
  <1>4. Clean'
    <2> SUFFICES ASSUME NEW r \in Site, NEW d \in Site, ~alive[d]
                 PROVE  chan'[<<r, d>>] = <<>>
      BY <1>3 DEF Clean
    <2>1. chan'[<<r, d>>] = Taken(chan, s, p)[<<r, d>>]
      BY <1>2, <1>3, SentClean
    <2>2. <<r, d>> # <<s, p>> /\ <<r, d>> \in Site \X Site
      BY <1>1
    <2>3. Taken(chan, s, p)[<<r, d>>] = chan[<<r, d>>]
      BY <1>1, <2>2 DEF Taken, Channels
    <2> QED
      BY <2>1, <2>3 DEF Base, Clean
  <1>5. Home \in draining /\ Asks(chan', Home) => Home \in draining'
    BY <1>3, AsksNonempty
  <1> QED
    BY <1>1, <1>2, <1>3, <1>4, <1>5 DEF Proceeds, Base

(* Where the token may be after a quiet step, or after it has been sent.   *)
LEMMA QuietToken ==
    ASSUME Quiet, NEW q \in Site
    PROVE  Token(q)' => Token(q)
  BY DEF Quiet, Keeps, Token, TokenUnderWay

LEMMA SentTokenAt ==
    ASSUME TypeOK', Clean', NEW p \in Site, NEW d,
           \A q \in Site : ~Holder(q)', OnlyAt(chan', {TokenMessage}, p, d),
           NEW q \in Site, Token(q)'
    PROVE  q = d /\ alive'[d]
  <1>1. PICK s \in Site : Carried(chan', <<s, q>>, {TokenMessage})
    BY DEF Token, TokenUnderWay
  <1>2. <<s, q>> \in Site \X Site
    OBVIOUS
  <1>3. <<s, q>> = <<p, d>>
    BY <1>1, <1>2 DEF OnlyAt
  <1>4. chan'[<<s, q>>] # <<>>
    BY <1>1 DEF Carried
  <1> QED
    BY <1>3, <1>4 DEF Clean

(* A live site hears of the home site, and the other way round.            *)
LEMMA AliveReaches ==
    ASSUME Base, alive[Home], NEW p \in Site
    PROVE  /\ Reaches(p, Home)
           /\ alive[p] => Reaches(Home, p) /\ p \notin perm[Home]
           /\ p \in perm[Home] => ~alive[p]
           /\ ~Reaches(Home, p) => ~alive[p]
  BY HomeAssumption DEF Base, Reaches

LEMMA ManagerKinds ==
    ASSUME NEW t \in ToManagerTypes, NEW r \in Nat
    PROVE  /\ ToManager(t, r) \in Message /\ ToManager(t, r).type = t
           /\ ToManager(t, r).req = r /\ ToManager(t, r) \notin PermFails
           /\ ToManager(t, r).type \notin DownTypes
  <1>1. ToManager(t, r) \in Message
    BY DEF ToManager, Message, ManagerMessage
  <1>2. /\ ToManager(t, r).type = t /\ ToManager(t, r).req = r
        /\ ToManager(t, r).to = "manager"
    BY DEF ToManager
  <1>3. t \notin DownTypes
    BY DEF ToManagerTypes, DownTypes
  <1> QED
    BY <1>1, <1>2, <1>3 DEF PermFails

LEMMA TokenKinds ==
    /\ TokenMessage \in Message /\ TokenMessage \notin PermFails
    /\ TokenMessage.type \notin DownTypes /\ TokenMessage.type \notin UpTypes
    /\ TokenMessage.type = "TOKEN"
  <1>1. TokenMessage \in Message /\ TokenMessage.type = "TOKEN"
    BY DEF Message, TokenMessage, ToProxy
  <1> QED
    BY <1>1 DEF PermFails, DownTypes, UpTypes

LEMMA HeadKinds ==
    ASSUME NEW m \in Message
    PROVE  /\ m.to = "proxy" => m.type \notin UpTypes
           /\ m.to = "manager" => m.type \notin DownTypes /\ m.type # "TOKEN"
           /\ m.req \in Nat
  <1>1. /\ ToProxyTypes \cap UpTypes = {} /\ ToManagerTypes \cap DownTypes = {}
        /\ "TOKEN" \notin ToManagerTypes
    BY DEF ToProxyTypes, ToManagerTypes, UpTypes, DownTypes
  <1>2. TokenMessage.to = "proxy" /\ TokenMessage.type \notin UpTypes
          /\ TokenMessage.req = 0
    BY TokenKinds DEF TokenMessage, ToProxy
  <1> QED
    BY <1>1, <1>2 DEF Message, ManagerMessage, ProxyMessage

-----------------------------------------------------------------------------
(* What the observations tell about p after p sends m to the manager, q    *)
(* after the manager sends m to it, s after the manager reads its message, *)
(* and p after it reads a message of the manager.                          *)

LEMMA SentHome ==
    ASSUME NEW c \in Channels(Message), NEW p \in Site, NEW m \in Message,
           NEW n, n = Sent(c, p, To(Home, m)), Reaches(p, Home)
    PROVE  /\ Lost(n, p) <=> Lost(c, p) \/ m.type = "FAILED_PRED"
           /\ Broken(n, p) <=> Broken(c, p) \/ m.type = "FAILED_SUCC"
           /\ Asks(n, p) <=> Asks(c, p) \/ (m.type = "GET" /\ ~Lost(c, p))
           /\ \A r : AsksFor(n, p, r)
                <=> AsksFor(c, p, r) \/ (m.type = "GET" /\ m.req = r /\ ~Lost(c, p))
           /\ Saw(n, p)
                <=> \/ Saw(c, p)
                    \/ m.type \in {"TOKEN_HERE", "NEED_NO_MORE"} /\ ~Lost(c, p)
           /\ \A r : Old(n, p, r)
                <=> \/ Old(c, p, r)
                    \/ m.type \in {"OLD_SUCC", "OLD_PRED"} /\ m.req = r /\ ~Lost(c, p)
           /\ BrokenTwice(n, p)
                => BrokenTwice(c, p) \/ (m.type = "FAILED_SUCC" /\ Broken(c, p))
           /\ AsksTwice(n, p)
                => AsksTwice(c, p) \/ (m.type = "GET" /\ Asks(c, p) /\ ~Lost(c, p))
           /\ AsksThenSaw(n, p)
                => \/ AsksThenSaw(c, p)
                   \/ /\ m.type \in {"TOKEN_HERE", "NEED_NO_MORE"}
                      /\ Asks(c, p) /\ ~Lost(c, p)
           /\ \A r : AsksThenOld(n, p, r)
                => \/ AsksThenOld(c, p, r)
                   \/ /\ m.type \in {"OLD_SUCC", "OLD_PRED"}
                      /\ m.req = r /\ AsksFor(c, p, r) /\ ~Lost(c, p)
  <1>1. Posted(p, Home, p)
    BY DEF Posted
  <1>2. Saw(n, p)
          <=> \/ Saw(c, p)
              \/ m.type \in {"TOKEN_HERE", "NEED_NO_MORE"} /\ ~Lost(c, p)
    BY <1>1, HomeAssumption, SentUp
  <1>3. ASSUME NEW r
        PROVE  AsksFor(n, p, r)
                <=> AsksFor(c, p, r) \/ (m.type = "GET" /\ m.req = r /\ ~Lost(c, p))
    BY <1>1, HomeAssumption, SentUp
  <1>4. ASSUME NEW r
        PROVE  Old(n, p, r)
                <=> \/ Old(c, p, r)
                    \/ m.type \in {"OLD_SUCC", "OLD_PRED"} /\ m.req = r /\ ~Lost(c, p)
    BY <1>1, HomeAssumption, SentUp
  <1>5. BrokenTwice(n, p)
                => BrokenTwice(c, p) \/ (m.type = "FAILED_SUCC" /\ Broken(c, p))
    BY <1>1, HomeAssumption, SentUp
  <1>6. AsksTwice(n, p)
                => AsksTwice(c, p) \/ (m.type = "GET" /\ Asks(c, p) /\ ~Lost(c, p))
    BY <1>1, HomeAssumption, SentUp
  <1>7. AsksThenSaw(n, p)
                => \/ AsksThenSaw(c, p)
                   \/ /\ m.type \in {"TOKEN_HERE", "NEED_NO_MORE"}
                      /\ Asks(c, p) /\ ~Lost(c, p)
    BY <1>1, HomeAssumption, SentUp
  <1>8. ASSUME NEW r PROVE AsksThenOld(n, p, r)
                => \/ AsksThenOld(c, p, r)
                   \/ /\ m.type \in {"OLD_SUCC", "OLD_PRED"}
                      /\ m.req = r /\ AsksFor(c, p, r) /\ ~Lost(c, p)
    BY <1>1, HomeAssumption, SentUp
  <1>9. /\ Lost(n, p) <=> Lost(c, p) \/ m.type = "FAILED_PRED"
        /\ Broken(n, p) <=> Broken(c, p) \/ m.type = "FAILED_SUCC"
        /\ Asks(n, p) <=> Asks(c, p) \/ (m.type = "GET" /\ ~Lost(c, p))
    BY <1>1, HomeAssumption, SentUp
  <1> QED
    BY <1>2, <1>3, <1>4, <1>5, <1>6, <1>7, <1>8, <1>9

LEMMA SentNowhere ==
    ASSUME NEW c \in Channels(Message), NEW p \in Site, NEW d,
           NEW m \in Message, ~Reaches(p, d)
    PROVE  Sent(c, p, To(d, m)) = c
  <1>1. c \in [Site \X Site -> Seq(Message)]
    BY DEF Channels
  <1>2. Sent(c, p, To(d, m)) \in [Site \X Site -> {Sent(c, p, To(d, m))[l] : l \in Site \X Site}]
    BY DEF Sent
  <1>3. ASSUME NEW l \in Site \X Site
        PROVE  Sent(c, p, To(d, m))[l] = c[l]
    <2>1. c[l] \in Seq(Message) /\ l[2] \in Site
      BY DEF Channels
    <2>2. l[2] # d => To(d, m)[l[2]] = <<>>
      BY <2>1 DEF To, Silent
    <2>3. c[l] \o <<>> = c[l]
      BY <2>1, ConcatEmptySeq
    <2> QED
      BY <2>2, <2>3 DEF Sent, Reaches
  <1> QED
    BY <1>1, <1>2, <1>3

LEMMA SentTold ==
    ASSUME NEW c \in Channels(Message), NEW q \in Site, NEW m \in Message,
           NEW n, n = Sent(c, Home, To(q, m)), Reaches(Home, q)
    PROVE  /\ Told(n, q) <=> Told(c, q) \/ m.type = "FORWARD"
           /\ \A x : ToldOf(n, q, x)
                <=> ToldOf(c, q, x) \/ (m.type = "FORWARD" /\ m.site = x)
           /\ Checked(n, q) <=> Checked(c, q) \/ m.type = "CHECK_SUCC"
           /\ ToldTwice(n, q)
                => ToldTwice(c, q) \/ (m.type = "FORWARD" /\ Told(c, q))
           /\ \A x : ToldThenChecked(n, q, x)
                => \/ ToldThenChecked(c, q, x)
                   \/ m.type = "CHECK_SUCC" /\ ToldOf(c, q, x)
  <1>1. Handed(Home, q, q)
    BY DEF Handed
  <1>2. /\ Told(n, q) <=> Told(c, q) \/ m.type = "FORWARD"
        /\ Checked(n, q) <=> Checked(c, q) \/ m.type = "CHECK_SUCC"
    BY <1>1, SentDown, HomeAssumption
  <1>3. ASSUME NEW x
        PROVE  ToldOf(n, q, x)
                 <=> ToldOf(c, q, x) \/ (m.type = "FORWARD" /\ m.site = x)
    BY <1>1, SentDown, HomeAssumption
  <1>4. ToldTwice(n, q) => ToldTwice(c, q) \/ (m.type = "FORWARD" /\ Told(c, q))
    BY <1>1, SentDown, HomeAssumption
  <1>5. ASSUME NEW x
        PROVE  ToldThenChecked(n, q, x)
                 => \/ ToldThenChecked(c, q, x)
                    \/ m.type = "CHECK_SUCC" /\ ToldOf(c, q, x)
    BY <1>1, SentDown, HomeAssumption
  <1> QED
    BY <1>2, <1>3, <1>4, <1>5

LEMMA TakenHome ==
    ASSUME NEW c \in Channels(Message), NEW s \in Site, c[<<s, Home>>] # <<>>,
           NEW h, h = Head(c[<<s, Home>>]), h.type # "FAILED_PRED",
           NEW n, n = Taken(c, s, Home)
    PROVE  /\ Lost(n, s) <=> Lost(c, s)
           /\ Broken(n, s) => Broken(c, s)
           /\ h.type # "FAILED_SUCC" => (Broken(n, s) <=> Broken(c, s))
           /\ h.type = "FAILED_SUCC"
                => Broken(c, s) /\ (Broken(n, s) => BrokenTwice(c, s))
           /\ Asks(n, s) => Asks(c, s)
           /\ h.type # "GET" => (Asks(n, s) <=> Asks(c, s))
           /\ h.type = "GET" =>
                /\ Asks(c, s) /\ AsksFor(c, s, h.req)
                /\ Asks(n, s) => AsksTwice(c, s)
                /\ Saw(n, s) => AsksThenSaw(c, s)
                /\ Old(n, s, h.req) => AsksThenOld(c, s, h.req)
           /\ \A r : AsksFor(n, s, r) => AsksFor(c, s, r)
           /\ Saw(n, s) => Saw(c, s)
           /\ h.type \in {"TOKEN_HERE", "NEED_NO_MORE"} => Saw(c, s)
           /\ \A r : Old(n, s, r) => Old(c, s, r)
           /\ h.type \in {"OLD_SUCC", "OLD_PRED"} => Old(c, s, h.req)
           /\ BrokenTwice(n, s) => BrokenTwice(c, s)
           /\ AsksTwice(n, s) => AsksTwice(c, s)
           /\ AsksThenSaw(n, s) => AsksThenSaw(c, s)
           /\ \A r : AsksThenOld(n, s, r) => AsksThenOld(c, s, r)
  <1>1. Read(s, Home, s)
    BY DEF Read
  <1>2. Lost(n, s) <=> Lost(c, s)
    BY <1>1, TakenUp, HomeAssumption
  <1>3. /\ Broken(n, s) => Broken(c, s)
        /\ h.type # "FAILED_SUCC" => (Broken(n, s) <=> Broken(c, s))
    BY <1>1, TakenUp, HomeAssumption
  <1>4. h.type = "FAILED_SUCC"
                => Broken(c, s) /\ (Broken(n, s) => BrokenTwice(c, s))
    BY <1>1, TakenUp, HomeAssumption
  <1>5. /\ Asks(n, s) => Asks(c, s)
        /\ h.type # "GET" => (Asks(n, s) <=> Asks(c, s))
    BY <1>1, TakenUp, HomeAssumption
  <1>6. h.type = "GET" => Asks(c, s) /\ AsksFor(c, s, h.req)
    BY <1>1, TakenUp, HomeAssumption
  <1>7. h.type = "GET" => (Asks(n, s) => AsksTwice(c, s))
    BY <1>1, TakenUp, HomeAssumption
  <1>8. h.type = "GET" => (Saw(n, s) => AsksThenSaw(c, s))
    BY <1>1, TakenUp, HomeAssumption
  <1>9. h.type = "GET" => (Old(n, s, h.req) => AsksThenOld(c, s, h.req))
    BY <1>1, TakenUp, HomeAssumption
  <1>10. ASSUME NEW r
         PROVE  AsksFor(n, s, r) => AsksFor(c, s, r)
    BY <1>1, TakenUp, HomeAssumption
  <1>11. /\ Saw(n, s) => Saw(c, s)
         /\ h.type \in {"TOKEN_HERE", "NEED_NO_MORE"} => Saw(c, s)
    BY <1>1, TakenUp, HomeAssumption
  <1>12. ASSUME NEW r
         PROVE  Old(n, s, r) => Old(c, s, r)
    BY <1>1, TakenUp, HomeAssumption
  <1>13. h.type \in {"OLD_SUCC", "OLD_PRED"} => Old(c, s, h.req)
    BY <1>1, TakenUp, HomeAssumption
  <1>14. BrokenTwice(n, s) => BrokenTwice(c, s)
    BY <1>1, TakenUp, HomeAssumption
  <1>15. /\ AsksTwice(n, s) => AsksTwice(c, s)
         /\ AsksThenSaw(n, s) => AsksThenSaw(c, s)
    BY <1>1, TakenUp, HomeAssumption
  <1>16. ASSUME NEW r
         PROVE  AsksThenOld(n, s, r) => AsksThenOld(c, s, r)
    BY <1>1, TakenUp, HomeAssumption
  <1> QED
    BY <1>2, <1>3, <1>4, <1>5, <1>6, <1>7, <1>8, <1>9, <1>10, <1>11, <1>12,
       <1>13, <1>14, <1>15, <1>16

LEMMA TakenTold ==
    ASSUME NEW c \in Channels(Message), NEW p \in Site, c[<<Home, p>>] # <<>>,
           NEW h, h = Head(c[<<Home, p>>]), NEW n, n = Taken(c, Home, p)
    PROVE  /\ Told(n, p) => Told(c, p)
           /\ h.type # "FORWARD" => (Told(n, p) <=> Told(c, p))
           /\ h.type = "FORWARD" =>
                /\ Told(c, p) /\ ToldOf(c, p, h.site)
                /\ Told(n, p) => ToldTwice(c, p)
                /\ Checked(n, p) => ToldThenChecked(c, p, h.site)
           /\ \A x : ToldOf(n, p, x) => ToldOf(c, p, x)
           /\ Checked(n, p) => Checked(c, p)
           /\ h.type = "CHECK_SUCC" => Checked(c, p)
           /\ ToldTwice(n, p) => ToldTwice(c, p)
           /\ \A x : ToldThenChecked(n, p, x) => ToldThenChecked(c, p, x)
  <1>1. Served(Home, p, p)
    BY DEF Served
  <1>2. /\ Told(n, p) => Told(c, p)
        /\ h.type # "FORWARD" => (Told(n, p) <=> Told(c, p))
    BY <1>1, TakenDown, HomeAssumption
  <1>3. h.type = "FORWARD" => Told(c, p) /\ ToldOf(c, p, h.site)
    BY <1>1, TakenDown, HomeAssumption
  <1>4. h.type = "FORWARD" => (Told(n, p) => ToldTwice(c, p))
    BY <1>1, TakenDown, HomeAssumption
  <1>5. h.type = "FORWARD" => (Checked(n, p) => ToldThenChecked(c, p, h.site))
    BY <1>1, TakenDown, HomeAssumption
  <1>6. ASSUME NEW x
        PROVE  ToldOf(n, p, x) => ToldOf(c, p, x)
    BY <1>1, TakenDown, HomeAssumption
  <1>7. /\ Checked(n, p) => Checked(c, p)
        /\ h.type = "CHECK_SUCC" => Checked(c, p)
        /\ ToldTwice(n, p) => ToldTwice(c, p)
    BY <1>1, TakenDown, HomeAssumption
  <1>8. ASSUME NEW x
        PROVE  ToldThenChecked(n, p, x) => ToldThenChecked(c, p, x)
    BY <1>1, TakenDown, HomeAssumption
  <1> QED
    BY <1>2, <1>3, <1>4, <1>5, <1>6, <1>7, <1>8

-----------------------------------------------------------------------------
(* Operations of the proxies.                                              *)

(* A step in which nothing happens but that the token may be lost.         *)
LEMMA SteadyFrame ==
    ASSUME Shaped, \A q \in Site : SiteOK(q), Ordered, Proceeds,
           UNCHANGED <<chain, last>>, \A q \in Site : Steady(q),
           \A q \in Site : Token(q)' => Token(q)
    PROVE  Shaped' /\ (\A q \in Site : SiteOK(q)') /\ Ordered'
  <1>1. EndOf(chain, chain')
    BY WholeChain DEF Shaped
  <1>2. ASSUME NEW q \in Site
        PROVE  /\ SiteOK(q)'
               /\ Flagged(q)' <=> Flagged(q)
               /\ \A r : Reached(q, r)' => Reached(q, r) \/ Token(q)'
    <2>1. InChain(q)' <=> InChain(q)
      BY DEF InChain
    <2>2. Idles(q)
      BY DEF Idles
    <2> QED
      BY <1>1, <2>1, <2>2, IdleSite
  <1>3. \A q \in Site : \A r : Reached(q, r)' => Reached(q, r)
    BY <1>2 DEF Reached
  <1>4. \A q \in Site : q # Home => Idles(q)
    BY DEF Idles
  <1> QED
    BY <1>2, <1>3, <1>4, ProxyFrame, HomeAssumption

LEMMA EmitsToManager ==
    ASSUME TypeOK, Base, NEW p \in Site, NEW t \in ToManagerTypes, NEW r \in Nat,
           Emit(p, sendToManager(t, r)), t = "NEED_NO_MORE" => p # Home,
           UNCHANGED managerVars,
           \A q \in Site : successor'[q] = successor[q] \/ successor'[q] = NoSite
    PROVE  /\ Base' /\ (NoFail(chan) => NoFail(chan'))
           /\ \A q \in Site : SameDown(chan, chan', q)
           /\ \A q \in Site : q # p \/ t \notin UpTypes => SameUp(chan, chan', q)
  <1> DEFINE m == ToManager(t, r)
  <1>1. /\ m \in Message /\ m.type = t /\ m \notin PermFails /\ m.type \notin DownTypes
    BY ManagerKinds
  <1>2. /\ chan \in Channels(Message) /\ chan' = Sent(chan, p, To(Home, m))
        /\ Clean' /\ \A q, s \in Site : s \in perm'[q] => ~alive'[s]
    BY EmitNet DEF sendToManager
  <1> HIDE DEF m
  <1>3. FromHome(chan') /\ NoOwnNeed(chan') /\ (NoFail(chan) => NoFail(chan'))
    BY <1>1, <1>2, SentBase DEF Base
  <1>4. ASSUME NEW q \in Site
        PROVE  /\ SameDown(chan, chan', q)
               /\ q # p \/ t \notin UpTypes => SameUp(chan, chan', q)
    BY <1>1, <1>2, SentSame
  <1>5. Base'
    <2>1. mfail' => chain' = <<>> /\ last' = NoSite
      BY DEF Base, managerVars
    <2> QED
      BY <1>2, <1>3, <1>4, <2>1, SameToldLess, BaseFrame
  <1> QED
    BY <1>3, <1>4, <1>5

LEMMA EmitsNothing ==
    ASSUME TypeOK, Base, NEW p \in Site, Emit(p, Silent), UNCHANGED managerVars,
           \A q \in Site : successor'[q] = successor[q] \/ successor'[q] = NoSite
    PROVE  /\ Base' /\ (NoFail(chan) => NoFail(chan'))
           /\ \A q \in Site : SameDown(chan, chan', q) /\ SameUp(chan, chan', q)
  <1>1. /\ chan \in Channels(Message) /\ chan' = Sent(chan, p, Silent)
        /\ Clean' /\ \A q, s \in Site : s \in perm'[q] => ~alive'[s]
    BY EmitNet
  <1>2. chan' = chan
    BY <1>1, SentSilent
  <1>3. \A q \in Site : SameDown(chan, chan', q) /\ SameUp(chan, chan', q)
    BY <1>2, SameLink
  <1>4. mfail' => chain' = <<>> /\ last' = NoSite
    BY DEF Base, managerVars
  <1>5. FromHome(chan') /\ NoOwnNeed(chan') /\ (NoFail(chan) => NoFail(chan'))
    BY <1>2 DEF Base
  <1> QED
    BY <1>1, <1>3, <1>4, <1>5, SameToldLess, BaseFrame

LEMMA AccessWaitChain ==
    ASSUME IInv, ChainInv, NEW p \in Site, AccessWait(p)
    PROVE  ChainInv'
  <1>1. TypeOK /\ Base /\ Quiet
    BY AccessWaitStep DEF IInv, ChainInv
  <1>2. Emit(p, Silent)
    BY DEF AccessWait
  <1>3. /\ Base' /\ (NoFail(chan) => NoFail(chan'))
        /\ \A q \in Site : SameDown(chan, chan', q) /\ SameUp(chan, chan', q)
    BY <1>1, <1>2, EmitsNothing DEF AccessWait
  <1>4. alive' = alive /\ perm' = perm /\ Proceeds
    BY <1>1, <1>2, EmitNet
  <1>5. ASSUME Able'
        PROVE  ChainOK'
    <2>1. Able /\ UNCHANGED <<chain, last>>
      BY <1>4, <1>5 DEF Able, AccessWait, managerVars
    <2>2. \A q \in Site : Steady(q)
      BY <1>3, <1>4 DEF Steady, AccessWait
    <2> QED
      BY <1>1, <1>3, <1>4, <2>1, <2>2, SteadyFrame, QuietToken DEF ChainInv, ChainOK
  <1> QED
    BY <1>3, <1>5 DEF ChainInv

LEMMA MonitorChain ==
    ASSUME IInv, ChainInv, NEW p \in Site, Monitor(p)
    PROVE  ChainInv'
  <1>1. TypeOK /\ Base /\ Quiet
    BY MonitorStep DEF IInv, ChainInv
  <1>2. /\ Emit(p, sendToManager("REGISTER", 0)) /\ "REGISTER" \in ToManagerTypes
        /\ "REGISTER" \notin UpTypes
    BY DEF Monitor, ToManagerTypes, UpTypes
  <1>3. /\ Base' /\ (NoFail(chan) => NoFail(chan'))
        /\ \A q \in Site : SameDown(chan, chan', q) /\ SameUp(chan, chan', q)
    BY <1>1, <1>2, EmitsToManager DEF Monitor
  <1>4. alive' = alive /\ perm' = perm /\ Proceeds
    BY <1>1, <1>2, EmitNet
  <1>5. ASSUME Able'
        PROVE  ChainOK'
    <2>1. Able /\ UNCHANGED <<chain, last>>
      BY <1>4, <1>5 DEF Able, Monitor, managerVars
    <2>2. \A q \in Site : Steady(q)
      BY <1>3, <1>4 DEF Steady, Monitor
    <2> QED
      BY <1>1, <1>3, <1>4, <2>1, <2>2, SteadyFrame, QuietToken DEF ChainInv, ChainOK
  <1> QED
    BY <1>3, <1>5 DEF ChainInv

LEMMA KillChain ==
    ASSUME IInv, ChainInv, NEW p \in Site, Kill(p)
    PROVE  ChainInv'
  <1>1. TypeOK /\ Base /\ Quiet
    BY KillStep DEF IInv, ChainInv
  <1>2. /\ Emit(p, sendToManager("PERMFAIL", 0)) /\ "PERMFAIL" \in ToManagerTypes
        /\ "PERMFAIL" \notin UpTypes
    BY DEF Kill, ToManagerTypes, UpTypes
  <1>3. /\ Base' /\ (NoFail(chan) => NoFail(chan'))
        /\ \A q \in Site : SameDown(chan, chan', q) /\ SameUp(chan, chan', q)
    BY <1>1, <1>2, EmitsToManager DEF Kill, proxyVars
  <1>4. alive' = alive /\ perm' = perm /\ Proceeds
    BY <1>1, <1>2, EmitNet
  <1>5. ASSUME Able'
        PROVE  ChainOK'
    <2>1. Able /\ UNCHANGED <<chain, last>>
      BY <1>4, <1>5 DEF Able, Kill, managerVars
    <2>2. \A q \in Site : Steady(q)
      BY <1>3, <1>4 DEF Steady, Kill, proxyVars
    <2> QED
      BY <1>1, <1>3, <1>4, <2>1, <2>2, SteadyFrame, QuietToken DEF ChainInv, ChainOK
  <1> QED
    BY <1>3, <1>5 DEF ChainInv

LEMMA ImportProxyChain ==
    ASSUME IInv, ChainInv, NEW p \in Site, ImportProxy(p)
    PROVE  ChainInv'
  <1>1. TypeOK /\ Base /\ Quiet
    BY ImportProxyStep DEF IInv, ChainInv
  <1>2. Emit(p, Silent)
    BY DEF ImportProxy
  <1>3. /\ Base' /\ (NoFail(chan) => NoFail(chan'))
        /\ \A q \in Site : SameDown(chan, chan', q) /\ SameUp(chan, chan', q)
    BY <1>1, <1>2, EmitsNothing DEF ImportProxy
  <1>4. alive' = alive /\ perm' = perm /\ Proceeds
    BY <1>1, <1>2, EmitNet
  <1>5. ASSUME Able'
        PROVE  ChainOK'
    <2>1. Able /\ UNCHANGED <<chain, last>>
      BY <1>4, <1>5 DEF Able, ImportProxy, managerVars
    <2>2. Home \notin perm[p]
      BY <1>1, <2>1, HomeAssumption DEF Base, Able
    <2>3. \A q \in Site : pfail'[q] => pfail[q]
      BY <1>1, <2>2 DEF ImportProxy, TypeOK
    <2>4. \A q \in Site : Steady(q)
      BY <1>3, <1>4, <2>3 DEF Steady, ImportProxy
    <2> QED
      BY <1>1, <1>3, <1>4, <2>1, <2>4, SteadyFrame, QuietToken DEF ChainInv, ChainOK
  <1> QED
    BY <1>3, <1>5 DEF ChainInv

(* Asking for the token puts a proxy that was resting on the waiting list. *)
LEMMA AccessRequestChain ==
    ASSUME IInv, ChainInv, NEW p \in Site, AccessRequest(p)
    PROVE  ChainInv'
  <1> DEFINE r0 == request[p]
             m == ToManager("GET", r0)
  <1>1. TypeOK /\ Base /\ Quiet
    BY AccessRequestStep DEF IInv, ChainInv
  <1>2. /\ Emit(p, sendToManager("GET", r0)) /\ "GET" \in ToManagerTypes
        /\ r0 \in Nat
    BY <1>1 DEF AccessRequest, ToManagerTypes, TypeOK
  <1>3. /\ Base' /\ (NoFail(chan) => NoFail(chan'))
        /\ \A q \in Site : SameDown(chan, chan', q)
        /\ \A q \in Site : q # p => SameUp(chan, chan', q)
    BY <1>1, <1>2, EmitsToManager DEF AccessRequest
  <1>4. /\ alive' = alive /\ perm' = perm /\ Proceeds /\ draining' = draining
        /\ chan \in Channels(Message) /\ chan' = Sent(chan, p, To(Home, m))
        /\ alive[p] /\ p \notin draining
    BY <1>1, <1>2, EmitNet DEF sendToManager
  <1>5. m \in Message /\ m.type = "GET" /\ m.req = r0
    BY <1>2, ManagerKinds
  <1>6. /\ status[p] = "EMPTY" /\ status'[p] = "REQUESTED"
        /\ \A q \in Site : q # p => status'[q] = status[q]
        /\ UNCHANGED <<successor, request, pfail, chain, last, mfail>>
    BY <1>1 DEF AccessRequest, TypeOK, managerVars
  <1> HIDE DEF m, r0
  <1>7. ASSUME Able'
        PROVE  ChainOK'
    <2>1. Able /\ ChainOK /\ SiteOK(p)
      BY <1>4, <1>6, <1>7 DEF Able, ChainInv, ChainOK
    <2>2. p \notin perm[Home] /\ Reaches(p, Home)
      BY <1>1, <1>4, <2>1, AliveReaches DEF Able
    <2>5. /\ Lost(chan', p) <=> Lost(chan, p)
          /\ Broken(chan', p) <=> Broken(chan, p)
          /\ Asks(chan', p) <=> Asks(chan, p) \/ ~Lost(chan, p)
          /\ \A r : AsksFor(chan', p, r)
                <=> AsksFor(chan, p, r) \/ (r0 = r /\ ~Lost(chan, p))
          /\ Saw(chan', p) <=> Saw(chan, p)
          /\ \A r : Old(chan', p, r) <=> Old(chan, p, r)
          /\ BrokenTwice(chan', p) => BrokenTwice(chan, p)
          /\ AsksTwice(chan', p)
                => AsksTwice(chan, p) \/ (Asks(chan, p) /\ ~Lost(chan, p))
          /\ AsksThenSaw(chan', p) => AsksThenSaw(chan, p)
          /\ \A r : AsksThenOld(chan', p, r) => AsksThenOld(chan, p, r)
      <3>1. /\ Lost(chan', p) <=> Lost(chan, p) \/ m.type = "FAILED_PRED"
            /\ Broken(chan', p) <=> Broken(chan, p) \/ m.type = "FAILED_SUCC"
            /\ Asks(chan', p)
                 <=> Asks(chan, p) \/ (m.type = "GET" /\ ~Lost(chan, p))
        BY <1>4, <1>5, <2>2, SentHome
      <3>2. \A r : AsksFor(chan', p, r) <=>
                 \/ AsksFor(chan, p, r)
                 \/ m.type = "GET" /\ m.req = r /\ ~Lost(chan, p)
        BY <1>4, <1>5, <2>2, SentHome
      <3>3. Saw(chan', p) <=> Saw(chan, p)
        BY <1>4, <1>5, <2>2, SentHome
      <3>4. \A r : Old(chan', p, r) <=> Old(chan, p, r)
        BY <1>4, <1>5, <2>2, SentHome
      <3>5. /\ BrokenTwice(chan', p) => BrokenTwice(chan, p)
            /\ AsksTwice(chan', p)
                => AsksTwice(chan, p) \/ (Asks(chan, p) /\ ~Lost(chan, p))
            /\ AsksThenSaw(chan', p) => AsksThenSaw(chan, p)
        BY <1>4, <1>5, <2>2, SentHome
      <3>6. \A r : AsksThenOld(chan', p, r) => AsksThenOld(chan, p, r)
        BY <1>4, <1>5, <2>2, SentHome
      <3> QED
        BY <1>5, <3>1, <3>2, <3>3, <3>4, <3>5, <3>6
    <2>6. SameDown(chan, chan', p)
      BY <1>3
    <2>7. /\ Sound(p)' <=> Sound(p)
          /\ Sound(p) <=> ~Lost(chan, p)
          /\ Flagged(p)' <=> Flagged(p)
      BY <1>4, <1>6, <2>2, <2>5, <2>6 DEF Sound, Flagged, SameDown
    <2>8. Token(p)' => Token(p)
      BY <1>1, QuietToken
    <2>9. Sound(p) => ~Flagged(p) /\ ~Asks(chan, p) /\ ~Token(p)
      BY <1>6, <2>1 DEF SiteOK, Resting, TokenKept
    <2>10. OneDuty(p)' /\ Inquired(p)' /\ GivenUp(p)' /\ TokenKept(p)'
      <3>1. OneDuty(p)' /\ Inquired(p)'
        BY <1>4, <1>6, <2>1, <2>5, <2>6 DEF SiteOK, OneDuty, SameDown, Inquired
      <3>2. GivenUp(p)'
        BY <1>6, <2>1, <2>7 DEF SiteOK, GivenUp
      <3>3. TokenKept(p) /\ (InChain(p) => InChain(p)')
        BY <1>6, <2>1 DEF SiteOK, InChain
      <3>4. TokenKept(p)'
        BY <1>4, <1>6, <2>5, <2>7, <2>8, <2>9, <3>3, TokenStays
      <3> QED
        BY <3>1, <3>2, <3>4
    <2>11. Waiting(p)'
      <3>1. CASE Sound(p)
        <4>1. AsksThenSaw(chan, p) => Asks(chan, p)
          BY <1>4, TwoFirst, HomeAssumption DEF AsksThenSaw, Asks
        <4>2. \A r : AsksThenOld(chan, p, r) => Asks(chan, p)
          BY <1>4, TwoFirst, HomeAssumption, SpecificObs DEF AsksThenOld, AsksFor
        <4>3. AsksTwice(chan, p) => Asks(chan, p)
          BY <1>4, TwoFirst, HomeAssumption DEF AsksTwice, Asks
        <4>4. /\ ~AsksThenSaw(chan', p) /\ (\A r : ~AsksThenOld(chan', p, r))
              /\ ~AsksTwice(chan', p) /\ ~Token(p)'
          BY <2>5, <2>8, <2>9, <3>1, <4>1, <4>2, <4>3
        <4>5. /\ ~Told(chan', p) /\ successor'[p] = NoSite /\ ~Broken(chan', p)
              /\ last' # p
          BY <2>7, <2>9, <3>1 DEF Flagged
        <4> QED
          BY <1>6, <4>4, <4>5 DEF Waiting
      <3>2. CASE ~Sound(p)
        <4>1. Asks(chan', p) <=> Asks(chan, p)
          BY <2>5, <2>7, <3>2
        <4>2. AsksTwice(chan', p) => AsksTwice(chan, p)
          BY <2>5, <2>7, <3>2
        <4> QED
          BY <1>4, <1>6, <2>1, <2>5, <2>6, <2>7, <2>8, <3>2, <4>1, <4>2
          DEF SiteOK, Waiting, SameDown
      <3> QED
        BY <3>1, <3>2
    <2>12. Numbered(p)'
      BY <1>6, <2>1, <2>5, <2>7 DEF SiteOK, Numbered, r0
    <2>13. Resting(p)' /\ Enlisted(p)' /\ OnDuty(p)'
      <3>1. Resting(p)'
        BY <1>6 DEF Resting
      <3>2. Enlisted(p)'
        BY <1>4, <1>6, <2>1, <2>7 DEF SiteOK, Enlisted, InChain
      <3>3. OnDuty(p)'
        BY <2>5, <2>7 DEF OnDuty
      <3> QED
        BY <3>1, <3>2, <3>3
    <2>14. Current(p)' /\ Guided(p)'
      <3>1. Current(p)'
        BY <1>6, <2>1, <2>5, <2>7 DEF SiteOK, Current
      <3>2. Guided(p)'
        BY <1>4, <1>6, <2>1, <2>5, <2>6 DEF SiteOK, Guided, SameDown, InChain
      <3> QED
        BY <3>1, <3>2
    <2>15. SiteOK(p)'
      BY <2>10, <2>11, <2>12, <2>13, <2>14 DEF SiteOK
    <2>16. \A r : Reached(p, r)' => Reached(p, r)
      BY <1>6, <2>5, <2>7, <2>8 DEF Reached
    <2>17. \A q \in Site : q # p => Idles(q)
      BY <1>1, <1>3, <1>4, <1>6, QuietToken DEF Idles, Steady
    <2> QED
      BY <1>1, <1>3, <1>4, <1>6, <2>1, <2>7, <2>15, <2>16, <2>17, ProxyFrame,
         QuietToken DEF ChainOK
  <1> QED
    BY <1>3, <1>7 DEF ChainInv

-----------------------------------------------------------------------------
(* What p has said stays as it is, but that it may say that the token is   *)
(* lost; p is not told more than it was.                                   *)
SameVoice(c, n, q) ==
    /\ Broken(n, q) <=> Broken(c, q)
    /\ Asks(n, q) <=> Asks(c, q)
    /\ \A r : AsksFor(n, q, r) <=> AsksFor(c, q, r)
    /\ Saw(n, q) => Saw(c, q)
    /\ \A r : Old(n, q, r) => Old(c, q, r)
    /\ BrokenTwice(n, q) => BrokenTwice(c, q)
    /\ AsksTwice(n, q) => AsksTwice(c, q)
    /\ AsksThenSaw(n, q) => AsksThenSaw(c, q)
    /\ \A r : AsksThenOld(n, q, r) => AsksThenOld(c, q, r)

LessDown(c, n, q) ==
    /\ Told(n, q) => Told(c, q)
    /\ \A x : ToldOf(n, q, x) => ToldOf(c, q, x)
    /\ Checked(n, q) => Checked(c, q)
    /\ ToldTwice(n, q) => ToldTwice(c, q)
    /\ \A x : ToldThenChecked(n, q, x) => ToldThenChecked(c, q, x)

LEMMA SameLess ==
    ASSUME NEW c, NEW n, NEW q
    PROVE  /\ SameUp(c, n, q) => SameVoice(c, n, q)
           /\ SameDown(c, n, q) => LessDown(c, n, q)
           /\ LessDown(c, n, q) => ToldLess(c, n, q)
  BY DEF SameUp, SameDown, SameVoice, LessDown, ToldLess

(* Nobody relies on p any more.                                            *)
LEMMA Dismissed ==
    ASSUME NEW p \in Site, SiteOK(p), Proceeds, UNCHANGED <<chain, last>>,
           Sound(p)' => Sound(p), SameVoice(chan, chan', p),
           LessDown(chan, chan', p),
           successor'[p] = successor[p] \/ successor'[p] = NoSite,
           alive'[p] = alive[p],
           ~Sound(p)' \/ (status[p] = "EMPTY" /\ status'[p] = "EMPTY"),
           pfail'[p] => ~Sound(p)', Token(p)' => Token(p)
    PROVE  /\ SiteOK(p)'
           /\ Flagged(p)' => Flagged(p)
           /\ \A r : Reached(p, r)' => Reached(p, r)
  <1>1. Flagged(p)' => Flagged(p)
    BY DEF Flagged, SameVoice, LessDown
  <1>2. Sound(p)' => ~Flagged(p) /\ ~Asks(chan, p) /\ ~Token(p)
    BY DEF SiteOK, Resting, TokenKept
  <1>3. OneDuty(p)'
    BY DEF SiteOK, OneDuty, SameVoice, LessDown
  <1>4. Waiting(p)'
    <2> SUFFICES ASSUME Asks(chan', p)
                 PROVE  /\ ~Told(chan', p) /\ successor'[p] = NoSite /\ ~Broken(chan', p)
                        /\ last' = p => p = Home /\ Home \in draining'
                        /\ last' # p => /\ ~Token(p)'
                                        /\ ~AsksThenSaw(chan', p)
                                        /\ \A r : ~AsksThenOld(chan', p, r)
                                        /\ Sound(p)' => status'[p] = "REQUESTED"
                        /\ p # Home => ~AsksTwice(chan', p)
      BY DEF Waiting
    <2>1. Asks(chan, p)
      BY DEF SameVoice
    <2>2. ~Told(chan', p) /\ successor'[p] = NoSite /\ ~Broken(chan', p)
      BY <2>1 DEF SiteOK, Waiting, SameVoice, LessDown
    <2>3. last = p => p = Home /\ Home \in draining'
      BY <2>1 DEF SiteOK, Waiting, Proceeds
    <2>4. last # p => ~Token(p)' /\ ~AsksThenSaw(chan', p) /\ \A r : ~AsksThenOld(chan', p, r)
      BY <2>1 DEF SiteOK, Waiting, SameVoice
    <2>5. p # Home => ~AsksTwice(chan', p)
      BY <2>1 DEF SiteOK, Waiting, SameVoice
    <2> QED
      BY <1>2, <2>1, <2>2, <2>3, <2>4, <2>5
  <1>5. Numbered(p)'
    BY <1>2, SpecificObs DEF Numbered, SameVoice
  <1>6. Resting(p)'
    BY <1>1, <1>2 DEF Resting, SameVoice
  <1>7. TokenKept(p)'
    <2>1. TokenKept(p) /\ (InChain(p) => InChain(p)')
      BY DEF SiteOK, InChain
    <2> QED
      BY <1>2, <2>1, TokenStays DEF SameVoice
  <1>8. GivenUp(p)' /\ Enlisted(p)'
    BY <1>1 DEF SiteOK, GivenUp, Enlisted, InChain
  <1>9. OnDuty(p)'
    BY DEF OnDuty
  <1>10. Current(p)'
    BY <1>1, <1>2 DEF SiteOK, Current, SameVoice
  <1>11. Guided(p)'
    <2>1. \A x : InChain(p)' /\ ToldOf(chan', p, x) => Adjacent(chain', p, x)
      BY DEF SiteOK, Guided, LessDown, InChain
    <2>2. InChain(p)' /\ successor'[p] # NoSite => Adjacent(chain', p, successor'[p])
      BY DEF SiteOK, Guided, InChain
    <2>3. \A x : Broken(chan', p) /\ Adjacent(chain', p, x) => Dead(alive', x)
      BY DEF SiteOK, Guided, SameVoice, Proceeds
    <2> QED
      BY <2>1, <2>2, <2>3 DEF Guided
  <1>12. Inquired(p)'
    BY DEF SiteOK, Inquired, LessDown, Proceeds
  <1>13. \A r : Reached(p, r)' => Reached(p, r)
    BY DEF Reached, SameVoice
  <1> QED
    BY <1>1, <1>3, <1>4, <1>5, <1>6, <1>7, <1>8, <1>9, <1>10, <1>11, <1>12,
       <1>13 DEF SiteOK

(* p reports that it saw the token or has forwarded it, or says nothing.   *)
LEMMA Reports ==
    ASSUME NEW p \in Site, SiteOK(p), Proceeds, UNCHANGED <<chain, last>>,
           Sound(p)' <=> Sound(p),
           Broken(chan', p) <=> Broken(chan, p), Asks(chan', p) <=> Asks(chan, p),
           \A r : AsksFor(chan', p, r) <=> AsksFor(chan, p, r),
           BrokenTwice(chan', p) => BrokenTwice(chan, p),
           AsksTwice(chan', p) => AsksTwice(chan, p),
           Saw(chan', p) => Saw(chan, p) \/ Token(p),
           AsksThenSaw(chan', p)
              => AsksThenSaw(chan, p) \/ (Token(p) /\ Asks(chan, p)),
           \A r : Old(chan', p, r)
              => Old(chan, p, r) \/ (Sound(p) /\ request[p] # r),
           \A r : AsksThenOld(chan', p, r)
              => \/ AsksThenOld(chan, p, r)
                 \/ AsksFor(chan, p, r) /\ Sound(p) /\ request[p] # r,
           Told(chan', p) <=> Told(chan, p), LessDown(chan, chan', p),
           successor'[p] = successor[p], request'[p] = request[p],
           alive'[p] = alive[p], pfail'[p] => pfail[p],
           status'[p] = status[p] \/ (status'[p] = "HERE" /\ Token(p)),
           Token(p)' => Token(p)
    PROVE  /\ SiteOK(p)'
           /\ Flagged(p)' => Flagged(p)
           /\ \A r : Reached(p, r)' => Reached(p, r)
  <1>1. Flagged(p)' <=> Flagged(p)
    BY DEF Flagged
  <1>2. OneDuty(p)'
    BY DEF SiteOK, OneDuty
  <1>3. Waiting(p)'
    <2> SUFFICES ASSUME Asks(chan', p)
                 PROVE  /\ ~Told(chan', p) /\ successor'[p] = NoSite /\ ~Broken(chan', p)
                        /\ last' = p => p = Home /\ Home \in draining'
                        /\ last' # p => /\ ~Token(p)'
                                        /\ ~AsksThenSaw(chan', p)
                                        /\ \A r : ~AsksThenOld(chan', p, r)
                                        /\ Sound(p)' => status'[p] = "REQUESTED"
                        /\ p # Home => ~AsksTwice(chan', p)
      BY DEF Waiting
    <2>1. ~Told(chan', p) /\ successor'[p] = NoSite /\ ~Broken(chan', p)
      BY DEF SiteOK, Waiting
    <2>2. last = p => p = Home /\ Home \in draining'
      BY DEF SiteOK, Waiting, Proceeds
    <2>3. last # p => /\ ~Token(p)' /\ ~AsksThenSaw(chan', p)
                      /\ Sound(p)' => status'[p] = "REQUESTED"
      BY DEF SiteOK, Waiting
    <2>4. last # p => \A r : ~AsksThenOld(chan', p, r)
      BY DEF SiteOK, Waiting, Numbered
    <2>5. p # Home => ~AsksTwice(chan', p)
      BY DEF SiteOK, Waiting
    <2> QED
      BY <2>1, <2>2, <2>3, <2>4, <2>5
  <1>4. Numbered(p)'
    BY DEF SiteOK, Numbered
  <1>5. Resting(p)'
    BY <1>1 DEF SiteOK, Resting
  <1>6. TokenKept(p)'
    <2>1. TokenKept(p) /\ (InChain(p) => InChain(p)')
      BY DEF SiteOK, InChain
    <2>2. \A r : Token(p) /\ Has(chain, p, r) /\ Old(chan', p, r) => Old(chan, p, r)
      BY DEF SiteOK, TokenKept, Current
    <2>3. Token(p)' /\ Sound(p)' => Flagged(p)'
      BY <1>1, <2>1 DEF TokenKept
    <2> QED
      BY <2>1, <2>2, <2>3, TokenStays
  <1>7. GivenUp(p)' /\ Enlisted(p)'
    BY <1>1 DEF SiteOK, GivenUp, Enlisted, InChain
  <1>8. OnDuty(p)'
    BY <1>1 DEF SiteOK, OnDuty, TokenKept, InChain
  <1>9. Current(p)'
    BY <1>1 DEF SiteOK, Current
  <1>10. Guided(p)'
    <2>1. \A x : InChain(p)' /\ ToldOf(chan', p, x) => Adjacent(chain', p, x)
      BY DEF SiteOK, Guided, LessDown, InChain
    <2>2. InChain(p)' /\ successor'[p] # NoSite => Adjacent(chain', p, successor'[p])
      BY DEF SiteOK, Guided, InChain
    <2>3. \A x : Broken(chan', p) /\ Adjacent(chain', p, x) => Dead(alive', x)
      BY DEF SiteOK, Guided, Proceeds
    <2> QED
      BY <2>1, <2>2, <2>3 DEF Guided
  <1>11. Inquired(p)'
    BY DEF SiteOK, Inquired, LessDown, Proceeds
  <1>12. \A r : Reached(p, r)' => Reached(p, r)
    BY DEF Reached
  <1> QED
    BY <1>1, <1>2, <1>3, <1>4, <1>5, <1>6, <1>7, <1>8, <1>9, <1>10, <1>11,
       <1>12 DEF SiteOK

(* p complains that its successor has failed, and forgets it.              *)
LEMMA Complains ==
    ASSUME NEW p \in Site, Shaped, SiteOK(p), Proceeds, UNCHANGED <<chain, last>>,
           Once(p), successor[p] # NoSite, Dead(alive, successor[p]),
           Sound(p)' <=> Sound(p), Asks(chan', p) <=> Asks(chan, p),
           \A r : AsksFor(chan', p, r) <=> AsksFor(chan, p, r),
           BrokenTwice(chan', p) => BrokenTwice(chan, p) \/ Broken(chan, p),
           Saw(chan', p) => Saw(chan, p), Broken(chan', p),
           \A r : Old(chan', p, r) => Old(chan, p, r),
           Told(chan', p) => Told(chan, p),
           \A x : ToldThenChecked(chan', p, x)
              => ToldThenChecked(chan, p, x) \/ ToldOf(chan, p, x),
           successor'[p] = NoSite, request'[p] = request[p],
           alive'[p] = alive[p], pfail'[p] => pfail[p],
           status'[p] = status[p], Token(p)' => Token(p)
    PROVE  /\ SiteOK(p)'
           /\ Flagged(p)' => Flagged(p)
           /\ \A r : Reached(p, r)' => Reached(p, r)
  <1>1. Flagged(p)' /\ Flagged(p)
    BY DEF Flagged
  <1>2. last # p /\ ~Broken(chan, p) /\ ~Told(chan, p) /\ ~Asks(chan, p)
    BY DEF SiteOK, OneDuty, Waiting, Once
  <1>3. OneDuty(p)' /\ Waiting(p)'
    BY <1>2 DEF SiteOK, OneDuty, Waiting
  <1>4. Numbered(p)' /\ Resting(p)' /\ OnDuty(p)'
    BY <1>1, <1>2 DEF SiteOK, Numbered, Resting, OnDuty
  <1>5. TokenKept(p)'
    <2>1. TokenKept(p) /\ (InChain(p) => InChain(p)')
      BY DEF SiteOK, InChain
    <2> QED
      BY <1>1, <2>1, TokenStays
  <1>6. GivenUp(p)' /\ Enlisted(p)' /\ Current(p)'
    BY <1>1 DEF SiteOK, GivenUp, Enlisted, Current, InChain
  <1>7. Guided(p)'
    <2>1. \A x : ~ToldOf(chan', p, x)
      BY <1>2, SpecificObs
    <2>2. ASSUME NEW x, Adjacent(chain, p, x)
          PROVE  Dead(alive', x)
      <3>1. chain \in Seq(Entry) /\ Distinct(chain)
        BY DEF Shaped
      <3>2. Visits(chain, p) /\ \A y : Adjacent(chain, p, y) => y = x
        BY <2>2, <3>1, AdjacentFacts
      <3>3. x = successor[p]
        BY <3>2 DEF SiteOK, Guided, InChain
      <3> QED
        BY <3>3 DEF Proceeds
    <2> QED
      BY <2>1, <2>2 DEF Guided
  <1>8. Inquired(p)'
    BY <1>2, SpecificObs DEF SiteOK, Inquired, Proceeds
  <1>9. \A r : Reached(p, r)' => Reached(p, r)
    BY <1>2 DEF Reached
  <1> QED
    BY <1>1, <1>3, <1>4, <1>5, <1>6, <1>7, <1>8, <1>9 DEF SiteOK

(* p passes the token on to the successor d that it knows or hears of.     *)
LEMMA PassesOn ==
    ASSUME TypeOK, ChainOK, Proceeds, UNCHANGED <<chain, last, pfail, alive, perm>>,
           NoFail(chan'), NEW p \in Site, NEW d, alive[p], ~pfail[p],
           ForwardedToken(p), Token(p),
           (successor[p] # NoSite /\ d = successor[p]) \/ ToldOf(chan, p, d),
           \A q \in Site : SameUp(chan, chan', q),
           \A q \in Site : q # p => SameDown(chan, chan', q),
           ~Told(chan', p),
           \A x : ToldThenChecked(chan', p, x) => ToldThenChecked(chan, p, x),
           \A q \in Site : Token(q)' => q = d /\ alive[d]
    PROVE  ChainOK'
  <1>1. Shaped /\ (\A q \in Site : SiteOK(q)) /\ Ordered
    BY DEF ChainOK
  <1>2. Flagged(p) /\ InChain(p)
    BY <1>1, SpecificObs DEF Flagged, SiteOK, Enlisted
  <1>3. Adjacent(chain, p, d)
    BY <1>1, <1>2 DEF SiteOK, Guided
  <1>4. /\ last # p /\ ~Broken(chan, p) /\ ~Asks(chan, p)
    BY <1>1, SpecificObs DEF SiteOK, OneDuty, Waiting
  <1>5. p # d
    BY <1>1, <1>3, AdjacentFacts DEF Shaped
  <1>6. ~Broken(chan', p) /\ ~Asks(chan', p) /\ ~Token(p)'
        /\ (BrokenTwice(chan', p) => BrokenTwice(chan, p))
    BY <1>4, <1>5 DEF SameUp
  <1>7. /\ status'[p] = "EMPTY" /\ successor'[p] = NoSite
        /\ \A q \in Site : q # p => /\ status'[q] = status[q]
                                    /\ successor'[q] = successor[q]
                                    /\ request'[q] = request[q]
    BY DEF TypeOK, ForwardedToken
  <1>8. SiteOK(p)' /\ ~Flagged(p)'
    BY <1>1, <1>4, <1>6, <1>7, Unburdened
  <1>9. \A q \in Site : q # p => Steady(q)
    BY <1>7 DEF Steady
  <1> QED
    BY <1>1, <1>2, <1>3, <1>8, <1>9, ForwardFrame DEF ChainOK

-----------------------------------------------------------------------------
(* Garbage collection: a proxy gives up its weak root, or disappears.      *)
LEMMA ClearWeakRootChain ==
    ASSUME IInv, ChainInv, NEW p \in Site, ClearWeakRoot(p)
    PROVE  ChainInv'
  <1>1. /\ TypeOK /\ Base /\ TokenUnique /\ TypeOK' /\ (Quiet \/ Departure(p))
    BY ClearWeakRootStep DEF IInv, ChainInv
  <1>2. /\ p # Home /\ ~pfail[p] /\ Holder(p) /\ alive' = alive
        /\ UNCHANGED <<chain, last, mfail, pfail, proxies>>
    BY DEF ClearWeakRoot, IsWeakRoot, Holder, Emit, Idle, managerVars
  <1>3. CASE successor[p] # NoSite
    <2> DEFINE d == successor[p]
    <2>1. Emit(p, To(d, TokenMessage)) /\ ForwardedToken(p)
      BY <1>3 DEF ClearWeakRoot, TokenTo
    <2>2. /\ chan \in Channels(Message) /\ chan' = Sent(chan, p, To(d, TokenMessage))
          /\ perm' = perm /\ Proceeds /\ Clean' /\ alive[p]
          /\ \A q, s \in Site : s \in perm'[q] => ~alive'[s]
      BY <1>1, <2>1, EmitNet
    <2>3. OnlyAt(chan', {TokenMessage}, p, d) /\ \A q \in Site : ~Holder(q)'
      <3>1. NoneOf(chan, {TokenMessage}) /\ \A q \in Site : Holder(q) => q = p
        BY <1>1, <1>2 DEF TokenUnique
      <3>2. OnlyAt(chan', {TokenMessage}, p, d)
        BY <1>1, <2>1, <3>1, TypeOKNet, EmitSendsToken, TokenIsMessage, ToOnlyFor
      <3>3. present' = present
        BY DEF ClearWeakRoot
      <3>4. \A q \in Site : ~Holder(q)'
        BY <1>1, <1>2, <2>1, <3>1, <3>3, ForwardedType DEF Holder
      <3> QED
        BY <3>2, <3>4
    <2>4. \A q \in Site : Token(q)' => q = d /\ alive[d]
      BY <1>1, <1>2, <2>2, <2>3, SentTokenAt
    <2> HIDE DEF d
    <2>5. \A q \in Site : SameUp(chan, chan', q) /\ SameDown(chan, chan', q)
      BY <2>2, TokenKinds, SentSame
    <2>6. FromHome(chan') /\ NoOwnNeed(chan') /\ (NoFail(chan) => NoFail(chan'))
      BY <1>1, <2>2, TokenKinds, SentBase DEF Base
    <2>7. \A q \in Site : successor'[q] = successor[q] \/ successor'[q] = NoSite
      BY <1>1, <2>1 DEF ForwardedToken, TypeOK
    <2>8. Base'
      <3>1. mfail' => chain' = <<>> /\ last' = NoSite
        BY <1>1, <1>2 DEF Base
      <3> QED
        BY <1>1, <2>2, <2>5, <2>6, <2>7, <3>1, SameToldLess, BaseFrame
    <2>9. ASSUME Able'
          PROVE  ChainOK'
      <3>1. ChainOK /\ Once(p)
        BY <1>1, <1>2, <2>9 DEF Able, ChainInv, Base
      <3>2. ~Told(chan', p)
        BY <1>3, <2>5, <3>1 DEF Once, SameDown
      <3>3. NoFail(chan') /\ Token(p)
        BY <1>2, <2>6, <3>1 DEF ChainOK, Token
      <3>4. \A x : ToldThenChecked(chan', p, x) => ToldThenChecked(chan, p, x)
        BY <2>5 DEF SameDown
      <3>5. successor[p] # NoSite /\ d = successor[p]
        BY <1>3 DEF d
      <3> QED
        BY <1>1, <1>2, <2>1, <2>2, <2>4, <2>5, <3>1, <3>2, <3>3, <3>4, <3>5, PassesOn
    <2> QED
      BY <2>8, <2>9 DEF ChainInv
  <1>4. CASE successor[p] = NoSite
    <2> DEFINE m == ToManager("NEED_NO_MORE", 0)
    <2>1. /\ Emit(p, sendToManager("NEED_NO_MORE", 0)) /\ "NEED_NO_MORE" \in ToManagerTypes
          /\ UNCHANGED <<status, successor, request, managerVars>> /\ 0 \in Nat
      BY <1>4 DEF ClearWeakRoot, ToManagerTypes
    <2>2. /\ Base' /\ (NoFail(chan) => NoFail(chan'))
          /\ \A q \in Site : SameDown(chan, chan', q)
          /\ \A q \in Site : q # p => SameUp(chan, chan', q)
      BY <1>1, <1>2, <2>1, EmitsToManager
    <2>3. /\ chan \in Channels(Message) /\ chan' = Sent(chan, p, To(Home, m))
          /\ perm' = perm /\ Proceeds /\ alive[p]
      BY <1>1, <2>1, EmitNet DEF sendToManager
    <2>4. m \in Message /\ m.type = "NEED_NO_MORE"
      BY <2>1, ManagerKinds
    <2> HIDE DEF m
    <2>5. Quiet
      <3>1. Holder(p)'
        BY <1>2, <2>1 DEF Holder, ClearWeakRoot
      <3> QED
        BY <1>1, <3>1 DEF Departure
    <2>6. ASSUME Able'
          PROVE  ChainOK'
      <3>1. Able /\ ChainOK /\ SiteOK(p)
        BY <1>2, <2>6 DEF Able, ChainInv, ChainOK
      <3>2. Reaches(p, Home)
        BY <1>1, <3>1, AliveReaches DEF Able
      <3>3. /\ Lost(chan', p) <=> Lost(chan, p)
            /\ Broken(chan', p) <=> Broken(chan, p)
            /\ Asks(chan', p) <=> Asks(chan, p)
        BY <2>3, <2>4, <3>2, SentHome
      <3>4. \A r : AsksFor(chan', p, r) <=> AsksFor(chan, p, r)
        BY <2>3, <2>4, <3>2, SentHome
      <3>5. \A r : Old(chan', p, r) <=> Old(chan, p, r)
        BY <2>3, <2>4, <3>2, SentHome
      <3>6. /\ BrokenTwice(chan', p) => BrokenTwice(chan, p)
            /\ AsksTwice(chan', p) => AsksTwice(chan, p)
            /\ AsksThenSaw(chan', p) => AsksThenSaw(chan, p) \/ Asks(chan, p)
        BY <2>3, <2>4, <3>2, SentHome
      <3>7. \A r : AsksThenOld(chan', p, r) => AsksThenOld(chan, p, r)
        BY <2>3, <2>4, <3>2, SentHome
      <3>8. Token(p) /\ (Token(p)' => Token(p)) /\ (Sound(p)' <=> Sound(p))
        BY <1>2, <2>3, <3>3 DEF Token, Sound
      <3>9. SameDown(chan, chan', p) /\ LessDown(chan, chan', p)
        BY <2>2, SameLess
      <3>10. Told(chan', p) <=> Told(chan, p)
        BY <3>9 DEF SameDown
      <3>11. /\ SiteOK(p)' /\ (Flagged(p)' => Flagged(p))
             /\ \A r : Reached(p, r)' => Reached(p, r)
        BY <1>2, <2>1, <2>3, <3>1, <3>3, <3>4, <3>5, <3>6, <3>7, <3>8, <3>9,
           <3>10, Reports
      <3>12. \A q \in Site : (q # p => Idles(q)) /\ (Token(q)' => Token(q))
        BY <1>2, <2>1, <2>2, <2>3, <2>5, QuietToken DEF Idles, Steady
      <3> QED
        BY <1>2, <2>2, <2>3, <3>1, <3>11, <3>12, ProxyFrame DEF ChainOK
    <2> QED
      BY <2>2, <2>6 DEF ChainInv
  <1> QED
    BY <1>3, <1>4

LEMMA DeleteProxyChain ==
    ASSUME IInv, ChainInv, NEW p \in Site, DeleteProxy(p)
    PROVE  ChainInv'
  <1>1. TypeOK /\ Base /\ Quiet
    BY DeleteProxyStep DEF IInv, ChainInv
  <1>2. /\ "DEREGISTER" \in ToManagerTypes /\ "DEREGISTER" \notin UpTypes
        /\ UNCHANGED managerVars
        /\ Emit(p, sendToManager("DEREGISTER", 0)) \/ Emit(p, Silent)
    BY DEF DeleteProxy, ToManagerTypes, UpTypes
  <1>3. \A q \in Site : successor'[q] = successor[q] \/ successor'[q] = NoSite
    BY <1>1 DEF DeleteProxy, TypeOK
  <1>4. /\ Base' /\ (NoFail(chan) => NoFail(chan'))
        /\ \A q \in Site : SameDown(chan, chan', q) /\ SameUp(chan, chan', q)
    <2>1. CASE Emit(p, sendToManager("DEREGISTER", 0))
      BY <1>1, <1>2, <1>3, <2>1, EmitsToManager
    <2>2. CASE Emit(p, Silent)
      BY <1>1, <1>2, <1>3, <2>2, EmitsNothing
    <2> QED
      BY <1>2, <2>1, <2>2
  <1>5. alive' = alive /\ perm' = perm /\ Proceeds
    BY <1>1, <1>2, EmitNet
  <1>6. ASSUME Able'
        PROVE  ChainOK'
    <2>1. Able /\ ChainOK /\ SiteOK(p) /\ UNCHANGED <<chain, last>>
      BY <1>2, <1>5, <1>6 DEF Able, ChainInv, ChainOK, managerVars
    <2>2. /\ pfail[p] \/ status[p] = "EMPTY"
          /\ status'[p] = "EMPTY" /\ successor'[p] = NoSite /\ ~pfail'[p]
          /\ \A q \in Site : q # p => /\ status'[q] = status[q]
                                      /\ successor'[q] = successor[q]
                                      /\ request'[q] = request[q]
                                      /\ pfail'[q] = pfail[q]
      BY <1>1 DEF DeleteProxy, IsWeakRoot, TypeOK
    <2>3. Sound(p)' <=> Sound(p)
      BY <1>4, <1>5 DEF Sound, SameUp
    <2>4. ~Sound(p)' \/ (status[p] = "EMPTY" /\ status'[p] = "EMPTY")
      BY <2>1, <2>2, <2>3 DEF SiteOK, GivenUp
    <2>5. SameVoice(chan, chan', p) /\ LessDown(chan, chan', p)
      BY <1>4, SameLess
    <2>6. /\ SiteOK(p)' /\ (Flagged(p)' => Flagged(p))
          /\ \A r : Reached(p, r)' => Reached(p, r)
      BY <1>1, <1>5, <2>1, <2>2, <2>3, <2>4, <2>5, Dismissed, QuietToken
    <2>7. \A q \in Site : (q # p => Idles(q)) /\ (Token(q)' => Token(q))
      BY <1>1, <1>4, <1>5, <2>2, QuietToken DEF Idles, Steady
    <2> QED
      BY <1>4, <1>5, <2>1, <2>6, <2>7, ProxyFrame DEF ChainOK
  <1> QED
    BY <1>4, <1>6 DEF ChainInv

-----------------------------------------------------------------------------
(* A proxy reads a message.                                                *)
LEMMA ProxyReads ==
    ASSUME TypeOK, Base, NEW s \in Site, NEW p \in Site, CanRecv(s, p),
           Head1(s, p).to = "proxy", NEW n, n = Taken(chan, s, p)
    PROVE  /\ n \in Channels(Message) /\ chan \in Channels(Message)
           /\ chan[<<s, p>>] # <<>> /\ Head1(s, p) \in Message
           /\ Head1(s, p) = Head(chan[<<s, p>>])
           /\ FromHome(n) /\ NoOwnNeed(n) /\ (NoFail(chan) => NoFail(n))
           /\ \A q \in Site : SameUp(chan, n, q)
           /\ \A q \in Site : q # p => SameDown(chan, n, q)
           /\ Head1(s, p).type \notin DownTypes => SameDown(chan, n, p)
           /\ LessDown(chan, n, p)
           /\ Head1(s, p).type # "FORWARD" => (Told(n, p) <=> Told(chan, p))
           /\ Head1(s, p).type \in DownTypes => s = Home
  <1> DEFINE h == Head(chan[<<s, p>>])
  <1>1. /\ chan \in Channels(Message) /\ chan[<<s, p>>] # <<>>
        /\ h = Head1(s, p)
    BY DEF TypeOK, Channels, CanRecv, Head1
  <1>2. n \in Channels(Message) /\ h \in Message
    BY <1>1, TakenType
  <1>3. h.type \notin UpTypes
    BY <1>1, <1>2, HeadKinds
  <1>4. /\ FromHome(n) /\ NoOwnNeed(n) /\ (NoFail(chan) => NoFail(n))
        /\ h.type \in DownTypes => s = Home
    BY <1>1, TakenBase DEF Base
  <1> HIDE DEF h
  <1>5. ASSUME NEW q \in Site
        PROVE  /\ SameUp(chan, n, q)
               /\ q # p \/ s # Home \/ h.type \notin DownTypes => SameDown(chan, n, q)
    BY <1>1, <1>3, TakenSame DEF h
  <1>6. LessDown(chan, n, p) /\ (h.type # "FORWARD" => (Told(n, p) <=> Told(chan, p)))
    <2>1. CASE s # Home
      BY <1>5, <2>1, SameLess DEF SameDown
    <2>2. CASE s = Home
      <3>1. /\ Told(n, p) => Told(chan, p)
            /\ h.type # "FORWARD" => (Told(n, p) <=> Told(chan, p))
        BY <1>1, <2>2, TakenTold DEF h
      <3>2. \A x : ToldOf(n, p, x) => ToldOf(chan, p, x)
        BY <1>1, <2>2, TakenTold DEF h
      <3>3. /\ Checked(n, p) => Checked(chan, p)
            /\ ToldTwice(n, p) => ToldTwice(chan, p)
        BY <1>1, <2>2, TakenTold DEF h
      <3>4. \A x : ToldThenChecked(n, p, x) => ToldThenChecked(chan, p, x)
        BY <1>1, <2>2, TakenTold DEF h
      <3> QED
        BY <3>1, <3>2, <3>3, <3>4 DEF LessDown
    <2> QED
      BY <2>1, <2>2
  <1> QED
    BY <1>1, <1>2, <1>4, <1>5, <1>6 DEF h

(* It answers the manager, or says nothing.                                *)
LEMMA ProxyAnswers ==
    ASSUME TypeOK, Base, NEW s \in Site, NEW p \in Site, CanRecv(s, p),
           Head1(s, p).to = "proxy", UNCHANGED managerVars,
           NEW t \in ToManagerTypes, NEW r \in Nat, t # "NEED_NO_MORE",
           NEW out, out \in {Silent, sendToManager(t, r)}, Consume(s, p, out),
           \A q \in Site : successor'[q] = successor[q] \/ successor'[q] = NoSite
    PROVE  /\ Base' /\ (NoFail(chan) => NoFail(chan'))
           /\ Proceeds /\ alive' = alive /\ perm' = perm /\ alive[p]
           /\ \A q \in Site : q # p => SameUp(chan, chan', q) /\ SameDown(chan, chan', q)
           /\ Head1(s, p).type \notin DownTypes => SameDown(chan, chan', p)
           /\ LessDown(chan, chan', p)
           /\ Head1(s, p).type # "FORWARD" => (Told(chan', p) <=> Told(chan, p))
           /\ t \notin UpTypes \/ out = Silent => SameUp(chan, chan', p)
  <1> DEFINE n == Taken(chan, s, p)
             m == ToManager(t, r)
  <1>1. /\ n \in Channels(Message)
        /\ FromHome(n) /\ NoOwnNeed(n) /\ (NoFail(chan) => NoFail(n))
        /\ \A q \in Site : SameUp(chan, n, q)
        /\ \A q \in Site : q # p => SameDown(chan, n, q)
        /\ Head1(s, p).type \notin DownTypes => SameDown(chan, n, p)
        /\ LessDown(chan, n, p)
        /\ Head1(s, p).type # "FORWARD" => (Told(n, p) <=> Told(chan, p))
    BY ProxyReads
  <1>2. /\ chan' = Sent(n, p, out) /\ Proceeds /\ alive' = alive /\ perm' = perm
        /\ Clean' /\ alive[p]
        /\ \A q, x \in Site : x \in perm'[q] => ~alive'[x]
    BY ConsumeNet, ZenonT(40)
  <1>3. m \in Message /\ m.type = t /\ m \notin PermFails /\ m.type \notin DownTypes
    BY ManagerKinds
  <1>4. out = Silent \/ out = To(Home, m)
    BY DEF sendToManager
  <1> HIDE DEF n, m
  <1>5. /\ FromHome(chan') /\ NoOwnNeed(chan') /\ (NoFail(chan) => NoFail(chan'))
        /\ \A q \in Site : SameDown(n, chan', q)
        /\ \A q \in Site : q # p \/ t \notin UpTypes \/ out = Silent => SameUp(n, chan', q)
    <2>1. CASE out = Silent
      <3>1. chan' = n
        BY <1>1, <1>2, <2>1, SentSilent
      <3> QED
        BY <1>1, <3>1, SameLink
    <2>2. CASE out = To(Home, m)
      <3>1. FromHome(chan') /\ NoOwnNeed(chan') /\ (NoFail(n) => NoFail(chan'))
        BY <1>1, <1>2, <1>3, <2>2, SentBase
      <3>2. ASSUME NEW q \in Site
            PROVE  SameDown(n, chan', q) /\ (q # p \/ t \notin UpTypes => SameUp(n, chan', q))
        BY <1>1, <1>2, <1>3, <2>2, SentSame
      <3>3. out = Silent => chan' = n
        BY <1>1, <1>2, SentSilent
      <3> QED
        BY <1>1, <3>1, <3>2, <3>3, SameLink
    <2> QED
      BY <1>4, <2>1, <2>2
  <1>6. /\ \A q \in Site : q # p => SameUp(chan, chan', q) /\ SameDown(chan, chan', q)
        /\ Head1(s, p).type \notin DownTypes => SameDown(chan, chan', p)
        /\ t \notin UpTypes \/ out = Silent => SameUp(chan, chan', p)
    BY <1>1, <1>5, SameTrans
  <1>7. /\ LessDown(chan, chan', p)
        /\ Head1(s, p).type # "FORWARD" => (Told(chan', p) <=> Told(chan, p))
    BY <1>1, <1>5 DEF LessDown, SameDown
  <1>8. \A q \in Site : ToldLess(chan, chan', q)
    BY <1>6, <1>7, SameLess
  <1>9. Base'
    <2>1. mfail' => chain' = <<>> /\ last' = NoSite
      BY DEF Base, managerVars
    <2> QED
      BY <1>2, <1>5, <1>8, <2>1, BaseFrame
  <1> QED
    BY <1>2, <1>5, <1>6, <1>7, <1>9

LEMMA ProxyIgnoresChain ==
    ASSUME IInv, ChainInv, NEW s \in Site, NEW p \in Site, ProxyIgnores(s, p)
    PROVE  ChainInv'
  <1>1. TypeOK /\ AbsentEmpty /\ Base /\ Quiet
    BY ProxyIgnoresStep DEF IInv, ChainInv
  <1>2. /\ CanRecv(s, p) /\ Head1(s, p).to = "proxy" /\ Consume(s, p, Silent)
        /\ ~present[p] \/ pfail[p]
        /\ UNCHANGED <<managerVars, status, successor, request, pfail, chain, last, mfail>>
    BY DEF ProxyIgnores, proxyVars, managerVars
  <1>3. "GET" \in ToManagerTypes /\ 0 \in Nat
    BY DEF ToManagerTypes
  <1>4. /\ Base' /\ (NoFail(chan) => NoFail(chan'))
        /\ Proceeds /\ alive' = alive /\ perm' = perm
        /\ \A q \in Site : q # p => SameUp(chan, chan', q) /\ SameDown(chan, chan', q)
        /\ LessDown(chan, chan', p) /\ SameUp(chan, chan', p)
    BY <1>1, <1>2, <1>3, ProxyAnswers
  <1>5. ASSUME Able'
        PROVE  ChainOK'
    <2>1. ChainOK /\ SiteOK(p)
      BY <1>2, <1>4, <1>5 DEF Able, ChainInv, ChainOK
    <2>2. Sound(p)' <=> Sound(p)
      BY <1>4 DEF Sound, SameUp
    <2>3. /\ pfail[p] => ~Sound(p)
          /\ ~present[p] => status[p] = "EMPTY"
      BY <1>1, <2>1 DEF SiteOK, GivenUp, AbsentEmpty
    <2>4. /\ SiteOK(p)' /\ (Flagged(p)' => Flagged(p))
          /\ \A r : Reached(p, r)' => Reached(p, r)
      BY <1>1, <1>2, <1>4, <2>1, <2>2, <2>3, Dismissed, QuietToken, SameLess
    <2>5. \A q \in Site : (q # p => Idles(q)) /\ (Token(q)' => Token(q))
      BY <1>1, <1>2, <1>4, QuietToken DEF Idles, Steady
    <2> QED
      BY <1>2, <1>4, <2>1, <2>4, <2>5, ProxyFrame DEF ChainOK
  <1> QED
    BY <1>4, <1>5 DEF ChainInv

LEMMA GetPermFailChain ==
    ASSUME IInv, ChainInv, NEW s \in Site, NEW p \in Site, GetPermFail(s, p)
    PROVE  ChainInv'
  <1>1. TypeOK /\ Base
    BY DEF IInv, ChainInv
  <1>2. /\ CanRecv(s, p) /\ Head1(s, p).to = "proxy" /\ Consume(s, p, Silent)
        /\ Head1(s, p).type = "PERMFAIL" /\ UNCHANGED managerVars
        /\ successor' = [successor EXCEPT ![p] = NoSite]
    BY DEF GetPermFail, ProxyGets, ProxyLostToken
  <1>3. "GET" \in ToManagerTypes /\ 0 \in Nat
    BY DEF ToManagerTypes
  <1>4. \A q \in Site : successor'[q] = successor[q] \/ successor'[q] = NoSite
    BY <1>1, <1>2 DEF TypeOK
  <1>5. Base' /\ alive' = alive
    BY <1>1, <1>2, <1>3, <1>4, ProxyAnswers
  <1>6. ~Able'
    <2>1. Able' => NoFail(chan)
      BY <1>2, <1>5 DEF Able, ChainInv, ChainOK, managerVars
    <2>2. /\ Head1(s, p) \in Message /\ Head1(s, p) = Head(chan[<<s, p>>])
          /\ chan \in Channels(Message) /\ chan[<<s, p>>] # <<>>
      BY <1>1, <1>2, ProxyReads
    <2>3. Head(chan[<<s, p>>]) \in PermFails
      BY <1>2, <2>2 DEF PermFails
    <2> QED
      BY <2>1, <2>2, <2>3, TakenBase
  <1> QED
    BY <1>5, <1>6 DEF ChainInv

-----------------------------------------------------------------------------
(* A proxy that is told its successor while it waits for the token.        *)
LEMMA Learns ==
    ASSUME NEW p \in Site, Shaped, SiteOK(p), Proceeds, UNCHANGED <<chain, last>>,
           alive[p], SameUp(chan, chan', p), LessDown(chan, chan', p), NEW x,
           ToldOf(chan, p, x), ~Told(chan', p),
           Checked(chan', p) => ToldThenChecked(chan, p, x),
           Sound(p)' <=> Sound(p), successor'[p] = x, request'[p] = request[p],
           alive'[p] = alive[p], pfail'[p] => pfail[p],
           status'[p] = status[p], Token(p)' => Token(p)
    PROVE  /\ SiteOK(p)'
           /\ Flagged(p)' => Flagged(p)
           /\ \A r : Reached(p, r)' => Reached(p, r)
  <1>1. Told(chan, p) /\ Flagged(p) /\ InChain(p)
    BY SpecificObs DEF Flagged, SiteOK, Enlisted
  <1>2. Adjacent(chain, p, x) /\ x # NoSite
    <2>1. Adjacent(chain, p, x)
      BY <1>1 DEF SiteOK, Guided
    <2> QED
      BY <2>1, AdjacentFacts, NoSiteAssumption DEF Shaped
  <1>3. Flagged(p)'
    BY <1>2 DEF Flagged
  <1>4. last # p /\ ~Broken(chan, p) /\ ~Asks(chan, p) /\ ~BrokenTwice(chan, p)
    BY <1>1 DEF SiteOK, OneDuty, Waiting
  <1>5. OneDuty(p)' /\ Waiting(p)'
    BY <1>4 DEF OneDuty, Waiting, SameUp
  <1>6. Numbered(p)' /\ Resting(p)' /\ OnDuty(p)'
    BY <1>1, <1>3 DEF SiteOK, Numbered, Resting, OnDuty, SameUp
  <1>7. TokenKept(p)' /\ GivenUp(p)' /\ Enlisted(p)'
    <2>1. TokenKept(p) /\ (InChain(p) => InChain(p)')
      BY DEF SiteOK, InChain
    <2>2. TokenKept(p)'
      BY <1>3, <2>1, TokenStays DEF SameUp
    <2> QED
      BY <1>1, <2>1, <2>2 DEF SiteOK, GivenUp, Enlisted
  <1>8. Current(p)'
    BY <1>1 DEF SiteOK, Current, SameUp
  <1>9. Guided(p)'
    BY <1>2, <1>4, SpecificObs DEF Guided, SameUp
  <1>10. Inquired(p)'
    BY <1>1 DEF SiteOK, Inquired, LessDown, Proceeds
  <1>11. \A r : Reached(p, r)' => Reached(p, r)
    BY DEF Reached, SameUp
  <1> QED
    BY <1>1, <1>5, <1>6, <1>7, <1>8, <1>9, <1>10, <1>11 DEF SiteOK

LEMMA GetForwardChain ==
    ASSUME IInv, ChainInv, NEW s \in Site, NEW p \in Site, GetForward(s, p)
    PROVE  ChainInv'
  <1> DEFINE n == Taken(chan, s, p)
             x == Head1(s, p).site
  <1>1. /\ TypeOK /\ Base /\ TokenUnique /\ TypeOK' /\ (Quiet \/ Departure(p))
    BY GetForwardStep DEF IInv, ChainInv
  <1>2. /\ CanRecv(s, p) /\ Head1(s, p).to = "proxy" /\ Head1(s, p).type = "FORWARD"
        /\ ~pfail[p] /\ present[p] /\ alive[p]
        /\ UNCHANGED <<present, pfail, managerVars, chain, last, mfail>>
    BY DEF GetForward, ProxyGets, CanRecv, managerVars
  <1>3. /\ n \in Channels(Message) /\ chan \in Channels(Message)
        /\ chan[<<s, p>>] # <<>> /\ Head1(s, p) = Head(chan[<<s, p>>])
        /\ FromHome(n) /\ NoOwnNeed(n) /\ (NoFail(chan) => NoFail(n))
        /\ \A q \in Site : SameUp(chan, n, q)
        /\ \A q \in Site : q # p => SameDown(chan, n, q)
        /\ LessDown(chan, n, p) /\ s = Home
    BY <1>1, <1>2, ProxyReads DEF DownTypes
  <1>4. /\ Told(chan, p) /\ ToldOf(chan, p, x) /\ (Told(n, p) => ToldTwice(chan, p))
        /\ Checked(n, p) => ToldThenChecked(chan, p, x)
    BY <1>2, <1>3, TakenTold
  <1>5. ~Told(n, p) /\ successor[p] = NoSite
    BY <1>1, <1>4 DEF Base, Once
  <1>6. mfail' => chain' = <<>> /\ last' = NoSite
    BY <1>1, <1>2 DEF Base
  <1> HIDE DEF n, x
  <1>7. CASE status[p] = "HERE"
    <2>1. /\ Consume(s, p, To(x, TokenMessage)) /\ ForwardedToken(p)
      BY <1>7 DEF GetForward, TokenTo, x
    <2>2. /\ chan' = Sent(n, p, To(x, TokenMessage)) /\ alive' = alive
          /\ perm' = perm /\ Proceeds /\ Clean'
          /\ \A q, r \in Site : r \in perm'[q] => ~alive'[r]
      BY <1>1, <1>2, <2>1, ConsumeNet DEF n
    <2>3. OnlyAt(chan', {TokenMessage}, p, x) /\ \A q \in Site : ~Holder(q)'
      <3>1. Holder(p)
        BY <1>2, <1>7 DEF Holder
      <3>2. NoneOf(chan, {TokenMessage}) /\ \A q \in Site : Holder(q) => q = p
        BY <1>1, <3>1 DEF TokenUnique
      <3>3. OnlyAt(chan', {TokenMessage}, p, x)
        BY <1>1, <1>2, <2>1, <3>2, TypeOKNet, ConsumeSendsToken, TokenIsMessage, ToOnlyFor
      <3>4. \A q \in Site : ~Holder(q)'
        BY <1>1, <1>2, <2>1, <2>2, <3>2, ForwardedType DEF Holder
      <3> QED
        BY <3>3, <3>4
    <2>4. \A q \in Site : Token(q)' => q = x /\ alive[x]
      BY <1>1, <2>2, <2>3, SentTokenAt
    <2>5. ASSUME NEW q \in Site
          PROVE  SameUp(n, chan', q) /\ SameDown(n, chan', q)
      BY <1>3, <2>2, TokenKinds, SentSame
    <2>6. /\ \A q \in Site : SameUp(chan, chan', q)
          /\ \A q \in Site : q # p => SameDown(chan, chan', q)
      BY <1>3, <2>5, SameTrans
    <2>7. FromHome(chan') /\ NoOwnNeed(chan') /\ (NoFail(chan) => NoFail(chan'))
      BY <1>3, <2>2, TokenKinds, SentBase
    <2>8. LessDown(chan, chan', p) /\ ~Told(chan', p)
      BY <1>3, <1>5, <2>5 DEF LessDown, SameDown
    <2>9. \A q \in Site : successor'[q] = successor[q] \/ successor'[q] = NoSite
      BY <1>1, <2>1 DEF ForwardedToken, TypeOK
    <2>10. \A q \in Site : ToldLess(chan, chan', q)
      BY <2>6, <2>8, SameLess
    <2>11. Base'
      BY <1>1, <1>6, <2>2, <2>7, <2>9, <2>10, BaseFrame
    <2>12. ASSUME Able'
           PROVE  ChainOK'
      <3>1. ChainOK
        BY <1>2, <2>2, <2>12 DEF Able, ChainInv
      <3>2. Token(p)
        BY <1>2, <1>7 DEF Token, Holder
      <3>3. NoFail(chan')
        BY <2>7, <3>1 DEF ChainOK
      <3>4. \A y : ToldThenChecked(chan', p, y) => ToldThenChecked(chan, p, y)
        BY <2>8 DEF LessDown
      <3> QED
        BY <1>1, <1>2, <1>4, <2>1, <2>2, <2>4, <2>6, <2>8, <3>1, <3>2, <3>3,
           <3>4, PassesOn
    <2> QED
      BY <2>11, <2>12 DEF ChainInv
  <1>8. CASE status[p] # "HERE"
    <2>1. /\ Consume(s, p, Silent)
          /\ successor' = [successor EXCEPT ![p] = x]
          /\ UNCHANGED <<status, request>>
      BY <1>8 DEF GetForward, x
    <2>2. /\ chan' = Sent(n, p, Silent) /\ alive' = alive
          /\ perm' = perm /\ Proceeds /\ Clean'
          /\ \A q, r \in Site : r \in perm'[q] => ~alive'[r]
      BY <1>1, <1>2, <2>1, ConsumeNet DEF n
    <2>3. chan' = n
      BY <1>3, <2>2, SentSilent
    <2>4. successor'[p] = x /\ \A q \in Site : q # p => successor'[q] = successor[q]
      BY <1>1, <2>1 DEF TypeOK
    <2>5. \A q \in Site : Once(q)'
      <3>1. Once(p)'
        BY <1>1, <1>3, <1>5, <2>3 DEF Base, Once, LessDown
      <3>2. \A q \in Site : q # p => Once(q)'
        BY <1>1, <1>3, <2>3, <2>4 DEF Base, Once, SameDown
      <3> QED
        BY <3>1, <3>2
    <2>6. Base'
      BY <1>3, <1>6, <2>2, <2>3, <2>5 DEF Base
    <2>7. Quiet
      <3>1. Holder(p)' => status[p] = "HERE"
        BY <2>1 DEF Holder
      <3>2. ~Holder(p)
        BY <1>8 DEF Holder
      <3> QED
        BY <1>1, <3>2 DEF Departure
    <2>8. ASSUME Able'
          PROVE  ChainOK'
      <3>1. ChainOK /\ Shaped /\ SiteOK(p) /\ NoFail(chan')
        BY <1>2, <1>3, <2>2, <2>3, <2>8 DEF Able, ChainInv, ChainOK
      <3>2. /\ SameUp(chan, chan', p) /\ LessDown(chan, chan', p) /\ ~Told(chan', p)
            /\ Checked(chan', p) => ToldThenChecked(chan, p, x)
            /\ Sound(p)' <=> Sound(p)
        BY <1>3, <1>4, <1>5, <2>2, <2>3 DEF SameUp, Sound
      <3>3. /\ SiteOK(p)' /\ (Flagged(p)' => Flagged(p))
            /\ \A r : Reached(p, r)' => Reached(p, r)
        BY <1>2, <1>4, <2>1, <2>2, <2>4, <2>7, <3>1, <3>2, Learns, QuietToken
      <3>4. \A q \in Site : (q # p => Idles(q)) /\ (Token(q)' => Token(q))
        BY <1>2, <1>3, <2>1, <2>2, <2>3, <2>4, <2>7, QuietToken DEF Idles, Steady
      <3> QED
        BY <1>2, <2>2, <3>1, <3>3, <3>4, ProxyFrame DEF ChainOK
    <2> QED
      BY <2>6, <2>8 DEF ChainInv
  <1> QED
    BY <1>7, <1>8

-----------------------------------------------------------------------------
(* A proxy answers that it has the token, or has passed it on.             *)
LEMMA ProxyReports ==
    ASSUME TypeOK, Base, ChainOK, alive[Home], NEW s \in Site, NEW p \in Site,
           CanRecv(s, p), Head1(s, p).to = "proxy", Head1(s, p).type # "FORWARD",
           NEW t \in {"TOKEN_HERE", "OLD_SUCC", "OLD_PRED"}, NEW r0 \in Nat,
           Consume(s, p, sendToManager(t, r0)),
           t = "TOKEN_HERE" => Token(p), t # "TOKEN_HERE" => request[p] # r0,
           UNCHANGED <<successor, request, pfail, managerVars>>,
           status'[p] = status[p] \/ (status'[p] = "HERE" /\ Token(p)),
           \A q \in Site : q # p => status'[q] = status[q],
           \A q \in Site : Token(q)' => Token(q)
    PROVE  ChainOK'
  <1> DEFINE n == Taken(chan, s, p)
             m == ToManager(t, r0)
  <1>1. t \in ToManagerTypes /\ t # "NEED_NO_MORE"
    BY DEF ToManagerTypes
  <1>2. /\ NoFail(chan) => NoFail(chan')
        /\ Proceeds /\ alive' = alive /\ perm' = perm /\ alive[p]
        /\ \A q \in Site : q # p => SameUp(chan, chan', q) /\ SameDown(chan, chan', q)
        /\ LessDown(chan, chan', p) /\ (Told(chan', p) <=> Told(chan, p))
    BY <1>1, ProxyAnswers
  <1>3. /\ n \in Channels(Message) /\ SameUp(chan, n, p)
        /\ chan' = Sent(n, p, To(Home, m))
    <2>1. n \in Channels(Message) /\ SameUp(chan, n, p)
      BY ProxyReads
    <2>2. chan' = Sent(n, p, sendToManager(t, r0))
      BY DEF Consume, Taken
    <2> QED
      BY <2>1, <2>2 DEF sendToManager
  <1>4. m \in Message /\ m.type = t /\ m.req = r0
    BY <1>1, ManagerKinds
  <1>5. Reaches(p, Home)
    BY AliveReaches
  <1> HIDE DEF n, m
  <1>6. /\ Lost(chan', p) <=> Lost(n, p)
        /\ Broken(chan', p) <=> Broken(n, p)
        /\ Asks(chan', p) <=> Asks(n, p)
    BY <1>3, <1>4, <1>5, SentHome
  <1>7. \A r : AsksFor(chan', p, r) <=> AsksFor(n, p, r)
    BY <1>3, <1>4, <1>5, SentHome
  <1>8. Saw(chan', p) => Saw(n, p) \/ t = "TOKEN_HERE"
    BY <1>3, <1>4, <1>5, SentHome
  <1>9. \A r : Old(chan', p, r)
           => Old(n, p, r) \/ (t # "TOKEN_HERE" /\ r0 = r /\ ~Lost(n, p))
    BY <1>3, <1>4, <1>5, SentHome
  <1>10. /\ BrokenTwice(chan', p) => BrokenTwice(n, p)
         /\ AsksTwice(chan', p) => AsksTwice(n, p)
         /\ AsksThenSaw(chan', p)
              => AsksThenSaw(n, p) \/ (t = "TOKEN_HERE" /\ Asks(n, p))
    BY <1>3, <1>4, <1>5, SentHome
  <1>11. \A r : AsksThenOld(chan', p, r)
            => \/ AsksThenOld(n, p, r)
               \/ t # "TOKEN_HERE" /\ r0 = r /\ AsksFor(n, p, r) /\ ~Lost(n, p)
    BY <1>3, <1>4, <1>5, SentHome
  <1>12. Sound(p)' <=> Sound(p)
    BY <1>2, <1>3, <1>6 DEF Sound, SameUp
  <1>13. ~Lost(n, p) => Sound(p)
    BY <1>2, <1>3, AliveReaches DEF Sound, SameUp
  <1>14. /\ Broken(chan', p) <=> Broken(chan, p)
         /\ Asks(chan', p) <=> Asks(chan, p)
         /\ \A r : AsksFor(chan', p, r) <=> AsksFor(chan, p, r)
         /\ BrokenTwice(chan', p) => BrokenTwice(chan, p)
         /\ AsksTwice(chan', p) => AsksTwice(chan, p)
    BY <1>3, <1>6, <1>7, <1>10 DEF SameUp
  <1>15. /\ Saw(chan', p) => Saw(chan, p) \/ Token(p)
         /\ AsksThenSaw(chan', p) => AsksThenSaw(chan, p) \/ (Token(p) /\ Asks(chan, p))
    BY <1>3, <1>8, <1>10 DEF SameUp
  <1>16. \A r : Old(chan', p, r) => Old(chan, p, r) \/ (Sound(p) /\ request[p] # r)
    BY <1>3, <1>9, <1>13 DEF SameUp
  <1>17. \A r : AsksThenOld(chan', p, r)
            => \/ AsksThenOld(chan, p, r)
               \/ AsksFor(chan, p, r) /\ Sound(p) /\ request[p] # r
    BY <1>3, <1>11, <1>13 DEF SameUp
  <1>18. SiteOK(p) /\ UNCHANGED <<chain, last>>
    BY DEF ChainOK, managerVars
  <1>19. /\ SiteOK(p)' /\ (Flagged(p)' => Flagged(p))
         /\ \A r : Reached(p, r)' => Reached(p, r)
    BY <1>2, <1>12, <1>14, <1>15, <1>16, <1>17, <1>18, Reports
  <1>20. \A q \in Site : q # p => Idles(q)
    BY <1>2 DEF Idles, Steady
  <1> QED
    BY <1>2, <1>18, <1>19, <1>20, ProxyFrame DEF ChainOK

LEMMA GetTokenChain ==
    ASSUME IInv, ChainInv, NEW s \in Site, NEW p \in Site, GetToken(s, p)
    PROVE  ChainInv'
  <1> DEFINE n == Taken(chan, s, p)
             d == successor[p]
  <1>1. /\ TypeOK /\ Base /\ TokenUnique /\ TypeOK'
        /\ Passage(s, p) \/ Arrival(s, p)
    BY GetTokenStep DEF IInv, ChainInv
  <1>2. /\ CanRecv(s, p) /\ Head1(s, p).to = "proxy" /\ Head1(s, p).type = "TOKEN"
        /\ ~pfail[p] /\ present[p] /\ alive[p]
        /\ UNCHANGED <<present, pfail, managerVars, chain, last, mfail>>
    BY DEF GetToken, ProxyGets, CanRecv, managerVars
  <1>3. /\ Head(chan[<<s, p>>]) = TokenMessage
        /\ Head1(s, p).type # "FORWARD" /\ Head1(s, p).type \notin DownTypes
    BY <1>1, <1>2, HeadIsMessage DEF Head1, DownTypes
  <1>4. Token(p)
    BY <1>1 DEF Token, TokenUnderWay, Passage, Arrival
  <1>5. mfail' => chain' = <<>> /\ last' = NoSite
    BY <1>1, <1>2 DEF Base
  <1>6. CASE successor[p] # NoSite
    <2>1. /\ Consume(s, p, To(d, TokenMessage)) /\ ForwardedToken(p)
          /\ d \in Site \cup {NoSite}
      BY <1>1, <1>6 DEF GetToken, TokenTo, TypeOK
    <2>2. /\ n \in Channels(Message)
          /\ FromHome(n) /\ NoOwnNeed(n) /\ (NoFail(chan) => NoFail(n))
          /\ \A q \in Site : SameUp(chan, n, q) /\ SameDown(chan, n, q)
      BY <1>1, <1>2, <1>3, ProxyReads
    <2>3. /\ chan' = Sent(n, p, To(d, TokenMessage)) /\ alive' = alive
          /\ perm' = perm /\ Proceeds /\ Clean'
          /\ \A q, r \in Site : r \in perm'[q] => ~alive'[r]
      BY <1>1, <1>2, <2>1, ConsumeNet
    <2>4. OnlyOne(chan, {TokenMessage}) /\ \A q \in Site : ~Holder(q)
      BY <1>1 DEF TokenUnique, NoneOf, Carried, Passage, Arrival
    <2>5. OnlyAt(chan', {TokenMessage}, p, d)
      BY <1>1, <1>2, <1>3, <2>1, <2>4, TypeOKNet, ConsumeSendsToken,
         TokenIsMessage, ToOnlyFor
    <2>6. \A q \in Site : ~Holder(q)'
      BY <1>1, <1>2, <2>1, <2>3, <2>4, ForwardedType DEF Holder
    <2>7. \A q \in Site : Token(q)' => q = d /\ alive[d]
      BY <1>1, <2>3, <2>5, <2>6, SentTokenAt
    <2> HIDE DEF n, d
    <2>8. ASSUME NEW q \in Site
          PROVE  SameUp(n, chan', q) /\ SameDown(n, chan', q)
      BY <2>2, <2>3, TokenKinds, SentSame
    <2>9. \A q \in Site : SameUp(chan, chan', q) /\ SameDown(chan, chan', q)
      BY <2>2, <2>8, SameTrans
    <2>10. FromHome(chan') /\ NoOwnNeed(chan') /\ (NoFail(chan) => NoFail(chan'))
      BY <2>2, <2>3, TokenKinds, SentBase
    <2>11. \A q \in Site : successor'[q] = successor[q] \/ successor'[q] = NoSite
      BY <1>1, <2>1 DEF ForwardedToken, TypeOK
    <2>12. Base'
      BY <1>1, <1>5, <2>3, <2>9, <2>10, <2>11, SameToldLess, BaseFrame
    <2>13. ASSUME Able'
           PROVE  ChainOK'
      <3>1. ChainOK /\ Once(p)
        BY <1>1, <1>2, <2>3, <2>13 DEF Able, ChainInv, Base
      <3>2. ~Told(chan', p)
        BY <1>6, <2>9, <3>1 DEF Once, SameDown
      <3>3. NoFail(chan')
        BY <2>10, <3>1 DEF ChainOK
      <3>4. \A x : ToldThenChecked(chan', p, x) => ToldThenChecked(chan, p, x)
        BY <2>9 DEF SameDown
      <3>5. successor[p] # NoSite /\ d = successor[p]
        BY <1>6 DEF d
      <3> QED
        BY <1>1, <1>2, <1>4, <2>1, <2>3, <2>7, <2>9, <3>1, <3>2, <3>3, <3>4,
           <3>5, PassesOn
    <2> QED
      BY <2>12, <2>13 DEF ChainInv
  <1>7. CASE successor[p] = NoSite
    <2>1. /\ Consume(s, p, sendToManager("TOKEN_HERE", 0))
          /\ status' = [status EXCEPT ![p] = "HERE"]
          /\ UNCHANGED <<successor, request>>
          /\ "TOKEN_HERE" \in ToManagerTypes /\ 0 \in Nat
      BY <1>7 DEF GetToken, ToManagerTypes
    <2>2. Base' /\ alive' = alive
      BY <1>1, <1>2, <2>1, ProxyAnswers
    <2>3. status'[p] = "HERE" /\ \A q \in Site : q # p => status'[q] = status[q]
      BY <1>1, <2>1 DEF TypeOK
    <2>4. \A q \in Site : Token(q)' => Token(q)
      <3>1. Holder(p)'
        BY <1>2, <2>2, <2>3 DEF Holder
      <3>2. Arrival(s, p)
        BY <1>1, <3>1 DEF Passage
      <3>3. \A q \in Site : ~TokenUnderWay(q)'
        BY <3>2 DEF Arrival, NoneOf, TokenUnderWay, Carried
      <3>4. \A q \in Site : Token(q)' => q = p
        BY <3>2, <3>3 DEF Arrival, Token
      <3> QED
        BY <1>4, <3>4
    <2>5. ASSUME Able'
          PROVE  ChainOK'
      <3>1. ChainOK /\ alive[Home]
        BY <1>2, <2>2, <2>5 DEF Able, ChainInv
      <3> QED
        BY <1>1, <1>2, <1>3, <1>4, <2>1, <2>3, <2>4, <3>1, ProxyReports
    <2> QED
      BY <2>2, <2>5 DEF ChainInv
  <1> QED
    BY <1>6, <1>7

-----------------------------------------------------------------------------
(* A proxy answers the inquiry about its successor or its predecessor.     *)
LEMMA GetCheckSuccChain ==
    ASSUME IInv, ChainInv, NEW s \in Site, NEW p \in Site, GetCheckSucc(s, p)
    PROVE  ChainInv'
  <1> DEFINE r0 == Head1(s, p).req
  <1>1. TypeOK /\ Base /\ Quiet
    BY GetCheckSuccStep DEF IInv, ChainInv
  <1>2. /\ CanRecv(s, p) /\ Head1(s, p).to = "proxy" /\ Head1(s, p).type = "CHECK_SUCC"
        /\ UNCHANGED <<status, request, pfail, managerVars, chain, last, mfail>>
    BY DEF GetCheckSucc, ProxyGets, managerVars
  <1>3. /\ Head1(s, p).type # "FORWARD" /\ r0 \in Nat
        /\ "OLD_SUCC" \in ToManagerTypes /\ "FAILED_SUCC" \in ToManagerTypes
        /\ 0 \in Nat
    BY <1>1, <1>2, HeadIsMessage DEF ToManagerTypes
  <1>4. \A q \in Site : Token(q)' => Token(q)
    BY <1>1, QuietToken
  <1>5. CASE request[p] # r0
    <2>1. Consume(s, p, sendToManager("OLD_SUCC", r0)) /\ UNCHANGED successor
      BY <1>5 DEF GetCheckSucc
    <2> HIDE DEF r0
    <2>2. Base' /\ alive' = alive
      BY <1>1, <1>2, <1>3, <2>1, ProxyAnswers
    <2>3. ASSUME Able'
          PROVE  ChainOK'
      <3>1. ChainOK /\ alive[Home]
        BY <1>2, <2>2, <2>3 DEF Able, ChainInv
      <3> QED
        BY <1>1, <1>2, <1>3, <1>4, <1>5, <2>1, <3>1, ProxyReports
    <2> QED
      BY <2>2, <2>3 DEF ChainInv
  <1>6. CASE request[p] = r0 /\ successor[p] = NoSite
    <2>1. /\ Consume(s, p, Silent)
          /\ successor' = [successor EXCEPT ![p] = NoSite]
      BY <1>6 DEF GetCheckSucc
    <2>2. successor' = successor
      BY <1>1, <1>6, <2>1 DEF TypeOK
    <2>3. /\ Base' /\ (NoFail(chan) => NoFail(chan'))
          /\ Proceeds /\ alive' = alive /\ perm' = perm
          /\ \A q \in Site : q # p => SameUp(chan, chan', q) /\ SameDown(chan, chan', q)
          /\ LessDown(chan, chan', p) /\ (Told(chan', p) <=> Told(chan, p))
          /\ SameUp(chan, chan', p)
      BY <1>1, <1>2, <1>3, <2>1, <2>2, ProxyAnswers
    <2>4. ASSUME Able'
          PROVE  ChainOK'
      <3>1. ChainOK /\ SiteOK(p) /\ (Sound(p)' <=> Sound(p))
        BY <1>2, <2>3, <2>4 DEF Able, ChainInv, ChainOK, Sound, SameUp
      <3>2. /\ Broken(chan', p) <=> Broken(chan, p)
            /\ Asks(chan', p) <=> Asks(chan, p)
            /\ \A r : AsksFor(chan', p, r) <=> AsksFor(chan, p, r)
            /\ BrokenTwice(chan', p) => BrokenTwice(chan, p)
            /\ AsksTwice(chan', p) => AsksTwice(chan, p)
            /\ Saw(chan', p) => Saw(chan, p)
            /\ AsksThenSaw(chan', p) => AsksThenSaw(chan, p)
            /\ \A r : Old(chan', p, r) => Old(chan, p, r)
            /\ \A r : AsksThenOld(chan', p, r) => AsksThenOld(chan, p, r)
        BY <2>3 DEF SameUp
      <3>3. /\ SiteOK(p)' /\ (Flagged(p)' => Flagged(p))
            /\ \A r : Reached(p, r)' => Reached(p, r)
        BY <1>2, <1>4, <2>2, <2>3, <3>1, <3>2, Reports
      <3>4. \A q \in Site : q # p => Idles(q)
        BY <1>2, <1>4, <2>2, <2>3 DEF Idles, Steady
      <3> QED
        BY <1>2, <1>4, <2>3, <3>1, <3>3, <3>4, ProxyFrame DEF ChainOK
    <2> QED
      BY <2>3, <2>4 DEF ChainInv
  <1>7. CASE request[p] = r0 /\ successor[p] # NoSite
    <2> DEFINE n == Taken(chan, s, p)
               m == ToManager("FAILED_SUCC", 0)
    <2>1. /\ Consume(s, p, sendToManager("FAILED_SUCC", 0))
          /\ successor' = [successor EXCEPT ![p] = NoSite]
      BY <1>7 DEF GetCheckSucc
    <2>2. successor'[p] = NoSite /\ \A q \in Site : q # p => successor'[q] = successor[q]
      BY <1>1, <2>1 DEF TypeOK
    <2>3. \A q \in Site : successor'[q] = successor[q] \/ successor'[q] = NoSite
      BY <2>2
    <2>4. /\ Base' /\ (NoFail(chan) => NoFail(chan'))
          /\ Proceeds /\ alive' = alive /\ perm' = perm
          /\ \A q \in Site : q # p => SameUp(chan, chan', q) /\ SameDown(chan, chan', q)
          /\ LessDown(chan, chan', p) /\ (Told(chan', p) <=> Told(chan, p))
      BY <1>1, <1>2, <1>3, <2>1, <2>3, ProxyAnswers
    <2>5. /\ n \in Channels(Message) /\ SameUp(chan, n, p) /\ s = Home
          /\ chan \in Channels(Message) /\ chan[<<s, p>>] # <<>>
          /\ Head1(s, p) = Head(chan[<<s, p>>])
      BY <1>1, <1>2, ProxyReads DEF DownTypes
    <2>6. chan' = Sent(n, p, To(Home, m))
      BY <2>1 DEF Consume, Taken, sendToManager
    <2>7. m \in Message /\ m.type = "FAILED_SUCC"
      BY <1>3, ManagerKinds
    <2>8. Checked(chan, p)
      BY <1>2, <2>5, TakenTold
    <2> HIDE DEF n, m
    <2>9. ASSUME Able'
          PROVE  ChainOK'
      <3>1. /\ ChainOK /\ SiteOK(p) /\ Shaped /\ Once(p)
            /\ Reaches(p, Home)
        BY <1>1, <1>2, <2>4, <2>9, AliveReaches DEF Able, ChainInv, ChainOK, Base
      <3>2. Dead(alive, successor[p])
        BY <1>7, <2>8, <3>1 DEF SiteOK, Inquired
      <3>3. /\ Lost(chan', p) <=> Lost(n, p)
            /\ Broken(chan', p)
            /\ Asks(chan', p) <=> Asks(n, p)
        BY <2>5, <2>6, <2>7, <3>1, SentHome
      <3>4. \A r : AsksFor(chan', p, r) <=> AsksFor(n, p, r)
        BY <2>5, <2>6, <2>7, <3>1, SentHome
      <3>5. Saw(chan', p) => Saw(n, p)
        BY <2>5, <2>6, <2>7, <3>1, SentHome
      <3>6. \A r : Old(chan', p, r) => Old(n, p, r)
        BY <2>5, <2>6, <2>7, <3>1, SentHome
      <3>7. BrokenTwice(chan', p) => BrokenTwice(n, p) \/ Broken(n, p)
        BY <2>5, <2>6, <2>7, <3>1, SentHome
      <3>8. /\ Asks(chan', p) <=> Asks(chan, p)
            /\ \A r : AsksFor(chan', p, r) <=> AsksFor(chan, p, r)
            /\ Saw(chan', p) => Saw(chan, p)
            /\ \A r : Old(chan', p, r) => Old(chan, p, r)
            /\ BrokenTwice(chan', p) => BrokenTwice(chan, p) \/ Broken(chan, p)
            /\ Sound(p)' <=> Sound(p)
        BY <2>4, <2>5, <3>3, <3>4, <3>5, <3>6, <3>7 DEF SameUp, Sound
      <3>8a. /\ Told(chan', p) => Told(chan, p)
             /\ \A x : ToldThenChecked(chan', p, x) => ToldThenChecked(chan, p, x)
        BY <2>4 DEF LessDown
      <3>9. /\ SiteOK(p)' /\ (Flagged(p)' => Flagged(p))
            /\ \A r : Reached(p, r)' => Reached(p, r)
        BY <1>2, <1>4, <1>7, <2>2, <2>4, <3>1, <3>2, <3>3, <3>8, <3>8a, Complains
      <3>10. \A q \in Site : q # p => Idles(q)
        BY <1>2, <1>4, <2>2, <2>4 DEF Idles, Steady
      <3> QED
        BY <1>2, <1>4, <2>4, <3>1, <3>9, <3>10, ProxyFrame DEF ChainOK
    <2> QED
      BY <2>4, <2>9 DEF ChainInv
  <1> QED
    BY <1>5, <1>6, <1>7

LEMMA GetCheckPredChain ==
    ASSUME IInv, ChainInv, NEW s \in Site, NEW p \in Site, GetCheckPred(s, p)
    PROVE  ChainInv'
  <1> DEFINE r0 == Head1(s, p).req
  <1>1. TypeOK /\ Base /\ Quiet
    BY GetCheckPredStep DEF IInv, ChainInv
  <1>2. /\ CanRecv(s, p) /\ Head1(s, p).to = "proxy" /\ Head1(s, p).type = "CHECK_PRED"
        /\ present[p] /\ ~pfail[p] /\ alive[p]
        /\ UNCHANGED <<status, request, managerVars, chain, last, mfail>>
    BY DEF GetCheckPred, ProxyGets, managerVars, CanRecv
  <1>3. /\ Head1(s, p).type # "FORWARD" /\ r0 \in Nat /\ 0 \in Nat
        /\ "OLD_PRED" \in ToManagerTypes /\ "TOKEN_HERE" \in ToManagerTypes
        /\ "FAILED_PRED" \in ToManagerTypes
    BY <1>1, <1>2, HeadIsMessage DEF ToManagerTypes
  <1>4. \A q \in Site : Token(q)' => Token(q)
    BY <1>1, QuietToken
  <1>5. CASE request[p] # r0
    <2>1. /\ Consume(s, p, sendToManager("OLD_PRED", r0))
          /\ UNCHANGED <<successor, pfail>>
      BY <1>5 DEF GetCheckPred
    <2> HIDE DEF r0
    <2>2. Base' /\ alive' = alive
      BY <1>1, <1>2, <1>3, <2>1, ProxyAnswers
    <2>3. ASSUME Able'
          PROVE  ChainOK'
      <3>1. ChainOK /\ alive[Home]
        BY <1>2, <2>2, <2>3 DEF Able, ChainInv
      <3> QED
        BY <1>1, <1>2, <1>3, <1>4, <1>5, <2>1, <3>1, ProxyReports
    <2> QED
      BY <2>2, <2>3 DEF ChainInv
  <1>6. CASE request[p] = r0 /\ status[p] = "HERE"
    <2>1. /\ Consume(s, p, sendToManager("TOKEN_HERE", 0))
          /\ UNCHANGED <<successor, pfail>>
      BY <1>6 DEF GetCheckPred
    <2>2. Base' /\ alive' = alive
      BY <1>1, <1>2, <1>3, <2>1, ProxyAnswers
    <2>3. Token(p)
      BY <1>2, <1>6 DEF Token, Holder
    <2>4. ASSUME Able'
          PROVE  ChainOK'
      <3>1. ChainOK /\ alive[Home]
        BY <1>2, <2>2, <2>4 DEF Able, ChainInv
      <3> QED
        BY <1>1, <1>2, <1>3, <1>4, <2>1, <2>3, <3>1, ProxyReports
    <2> QED
      BY <2>2, <2>4 DEF ChainInv
  <1>7. CASE request[p] = r0 /\ status[p] # "HERE"
    <2> DEFINE n == Taken(chan, s, p)
               m == ToManager("FAILED_PRED", 0)
    <2>1. /\ Consume(s, p, sendToManager("FAILED_PRED", 0)) /\ ProxyLostToken(p)
      BY <1>7 DEF GetCheckPred
    <2>2. /\ successor'[p] = NoSite
          /\ \A q \in Site : q # p => successor'[q] = successor[q] /\ pfail'[q] = pfail[q]
      BY <1>1, <2>1 DEF TypeOK, ProxyLostToken
    <2>3. \A q \in Site : successor'[q] = successor[q] \/ successor'[q] = NoSite
      BY <2>2
    <2>4. /\ Base' /\ (NoFail(chan) => NoFail(chan'))
          /\ Proceeds /\ alive' = alive /\ perm' = perm
          /\ \A q \in Site : q # p => SameUp(chan, chan', q) /\ SameDown(chan, chan', q)
          /\ LessDown(chan, chan', p)
      BY <1>1, <1>2, <1>3, <2>1, <2>3, ProxyAnswers
    <2>5. n \in Channels(Message) /\ SameUp(chan, n, p)
      BY <1>1, <1>2, ProxyReads
    <2>6. chan' = Sent(n, p, To(Home, m))
      BY <2>1 DEF Consume, Taken, sendToManager
    <2>7. m \in Message /\ m.type = "FAILED_PRED"
      BY <1>3, ManagerKinds
    <2> HIDE DEF n, m
    <2>8. ASSUME Able'
          PROVE  ChainOK'
      <3>1. ChainOK /\ SiteOK(p) /\ Reaches(p, Home)
        BY <1>1, <1>2, <2>4, <2>8, AliveReaches DEF Able, ChainInv, ChainOK
      <3>2. /\ Lost(chan', p)
            /\ Broken(chan', p) <=> Broken(n, p)
            /\ Asks(chan', p) <=> Asks(n, p)
        BY <2>5, <2>6, <2>7, <3>1, SentHome
      <3>3. \A r : AsksFor(chan', p, r) <=> AsksFor(n, p, r)
        BY <2>5, <2>6, <2>7, <3>1, SentHome
      <3>4. Saw(chan', p) <=> Saw(n, p)
        BY <2>5, <2>6, <2>7, <3>1, SentHome
      <3>5. \A r : Old(chan', p, r) <=> Old(n, p, r)
        BY <2>5, <2>6, <2>7, <3>1, SentHome
      <3>6. /\ BrokenTwice(chan', p) => BrokenTwice(n, p)
            /\ AsksTwice(chan', p) => AsksTwice(n, p)
            /\ AsksThenSaw(chan', p) => AsksThenSaw(n, p)
        BY <2>5, <2>6, <2>7, <3>1, SentHome
      <3>7. \A r : AsksThenOld(chan', p, r) => AsksThenOld(n, p, r)
        BY <2>5, <2>6, <2>7, <3>1, SentHome
      <3>8. SameVoice(chan, chan', p) /\ ~Sound(p)'
        BY <2>5, <3>2, <3>3, <3>4, <3>5, <3>6, <3>7 DEF SameUp, SameVoice, Sound
      <3>9. /\ SiteOK(p)' /\ (Flagged(p)' => Flagged(p))
            /\ \A r : Reached(p, r)' => Reached(p, r)
        BY <1>2, <1>4, <2>2, <2>4, <3>1, <3>8, Dismissed
      <3>10. \A q \in Site : q # p => Idles(q)
        BY <1>2, <1>4, <2>2, <2>4 DEF Idles, Steady
      <3> QED
        BY <1>2, <1>4, <2>4, <3>1, <3>9, <3>10, ProxyFrame DEF ChainOK
    <2> QED
      BY <2>4, <2>8 DEF ChainInv
  <1> QED
    BY <1>5, <1>6, <1>7

-----------------------------------------------------------------------------
(* The manager reads a message.                                            *)
LEMMA ManagerReads ==
    ASSUME TypeOK, Base, NEW s \in Site, CanRecv(s, Home),
           Head1(s, Home).to = "manager", NEW n, n = Taken(chan, s, Home)
    PROVE  /\ n \in Channels(Message) /\ chan \in Channels(Message)
           /\ chan[<<s, Home>>] # <<>> /\ Head1(s, Home) \in Message
           /\ Head1(s, Home) = Head(chan[<<s, Home>>]) /\ Head1(s, Home).req \in Nat
           /\ FromHome(n) /\ NoOwnNeed(n) /\ (NoFail(chan) => NoFail(n))
           /\ \A q \in Site : SameDown(chan, n, q)
           /\ \A q \in Site : q # s => SameUp(chan, n, q)
           /\ Head1(s, Home).type \notin UpTypes \/ Head1(s, Home).type \in Reporting
                => SameUp(chan, n, s)
           /\ Head1(s, Home).type = "NEED_NO_MORE" => s # Home
  <1> DEFINE h == Head(chan[<<s, Home>>])
  <1>1. /\ chan \in Channels(Message) /\ chan[<<s, Home>>] # <<>>
        /\ h = Head1(s, Home)
    BY HomeAssumption DEF TypeOK, Channels, CanRecv, Head1
  <1>2. n \in Channels(Message) /\ h \in Message
    BY <1>1, TakenType, HomeAssumption
  <1>3. h.type \notin DownTypes /\ h.req \in Nat
    BY <1>1, <1>2, HeadKinds
  <1>4. /\ FromHome(n) /\ NoOwnNeed(n) /\ (NoFail(chan) => NoFail(n))
        /\ h.type = "NEED_NO_MORE" => s # Home
    BY <1>1, TakenBase, HomeAssumption DEF Base
  <1> HIDE DEF h
  <1>5. ASSUME NEW q \in Site
        PROVE  /\ q # s \/ h.type \notin UpTypes \/ h.type \in Reporting
                    => SameUp(chan, n, q)
               /\ SameDown(chan, n, q)
    BY <1>1, <1>3, TakenSame, HomeAssumption DEF h
  <1> QED
    BY <1>1, <1>2, <1>3, <1>4, <1>5 DEF h

(* It does not answer.                                                     *)
LEMMA ManagerListens ==
    ASSUME TypeOK, Base, NEW s \in Site, CanRecv(s, Home),
           Head1(s, Home).to = "manager", Consume(s, Home, Silent),
           successor' = successor, mfail' => chain' = <<>> /\ last' = NoSite
    PROVE  /\ Base' /\ (NoFail(chan) => NoFail(chan'))
           /\ Proceeds /\ alive' = alive /\ perm' = perm
           /\ chan' = Taken(chan, s, Home)
  <1> DEFINE n == Taken(chan, s, Home)
  <1>1. /\ n \in Channels(Message)
        /\ FromHome(n) /\ NoOwnNeed(n) /\ (NoFail(chan) => NoFail(n))
        /\ \A q \in Site : SameDown(chan, n, q)
    BY ManagerReads
  <1>2. /\ chan' = Sent(n, Home, Silent) /\ Proceeds /\ alive' = alive
        /\ perm' = perm /\ Clean'
        /\ \A q, x \in Site : x \in perm'[q] => ~alive'[x]
    BY ConsumeNet, HomeAssumption
  <1>3. chan' = n
    BY <1>1, <1>2, SentSilent, HomeAssumption
  <1>4. Base'
    BY <1>1, <1>2, <1>3, SameToldLess, BaseFrame
  <1> QED
    BY <1>1, <1>2, <1>3, <1>4

(* The manager removes sites that are not flagged from the chain.          *)
LEMMA PopFrame ==
    ASSUME Shaped, \A q \in Site : SiteOK(q), Ordered, Proceeds,
           last' = last, EndOf(chain, chain'), \A q \in Site : Steady(q),
           \A q \in Site : Token(q)' => Token(q),
           \A q \in Site : InChain(q) /\ ~InChain(q)' => ~Flagged(q) /\ ~Token(q)
    PROVE  Shaped' /\ (\A q \in Site : SiteOK(q)') /\ Ordered'
  <1>1. ASSUME NEW q \in Site
        PROVE  /\ SiteOK(q)'
               /\ Flagged(q)' <=> Flagged(q)
               /\ \A r : Reached(q, r)' => Reached(q, r)
    <2>1. Idles(q)
      BY DEF Idles
    <2>2. /\ SiteOK(q)'
          /\ Flagged(q)' <=> Flagged(q)
          /\ \A r : Reached(q, r)' => Reached(q, r) \/ Token(q)'
      BY <2>1, IdleSite
    <2> QED
      BY <2>2 DEF Reached
  <1>2. Shaped'
    BY DEF Shaped, EndOf
  <1>3. Ordered'
    <2> SUFFICES ASSUME NEW a, NEW b, NEW r, Ahead(chain', a, b, r), Reached(b, r)'
                 PROVE  ~Flagged(a)' /\ ~Token(a)'
      BY DEF Ordered
    <2>1. Ahead(chain, a, b, r)
      BY DEF EndOf
    <2>2. a \in Site /\ b \in Site
      BY <2>1, ChainFacts DEF Shaped
    <2> QED
      BY <1>1, <2>1, <2>2 DEF Ordered
  <1> QED
    BY <1>1, <1>2, <1>3

LEMMA RegisterChain ==
    ASSUME IInv, ChainInv, NEW s \in Site, Register(s)
    PROVE  ChainInv'
  <1> DEFINE n == Taken(chan, s, Home)
             m == ToProxy("PERMFAIL", NoSite, 0)
  <1>1. TypeOK /\ Base /\ Quiet
    BY RegisterStep DEF IInv, ChainInv
  <1>2. /\ CanRecv(s, Home) /\ Head1(s, Home).to = "manager"
        /\ Head1(s, Home).type = "REGISTER" /\ "REGISTER" \notin UpTypes
        /\ UNCHANGED <<status, successor, request, pfail, chain, last, mfail>>
    BY DEF Register, ManagerGets, proxyVars, UpTypes
  <1>3. mfail' => chain' = <<>> /\ last' = NoSite
    BY <1>1, <1>2 DEF Base
  <1>4. /\ n \in Channels(Message)
        /\ FromHome(n) /\ NoOwnNeed(n) /\ (NoFail(chan) => NoFail(n))
        /\ \A q \in Site : SameDown(chan, n, q) /\ SameUp(chan, n, q)
    BY <1>1, <1>2, ManagerReads
  <1>5. CASE mfail
    <2>1. /\ Consume(s, Home, To(s, m)) /\ m \in Message /\ m.type = "PERMFAIL"
      BY <1>5 DEF Register, Message, ProxyMessage, ToProxy, ToProxyTypes
    <2>2. /\ chan' = Sent(n, Home, To(s, m)) /\ Clean'
          /\ \A q, x \in Site : x \in perm'[q] => ~alive'[x]
      BY <1>1, <1>2, <2>1, ConsumeNet, HomeAssumption
    <2>3. m.type # "NEED_NO_MORE" /\ m.type \notin DownTypes
      BY <2>1 DEF DownTypes
    <2> HIDE DEF n, m
    <2>4. FromHome(chan') /\ NoOwnNeed(chan')
      BY <1>4, <2>1, <2>2, <2>3, SentBase, HomeAssumption
    <2>5. ASSUME NEW q \in Site
          PROVE  SameDown(n, chan', q)
      BY <1>4, <2>1, <2>2, <2>3, SentSame, HomeAssumption
    <2>6. Base'
      BY <1>1, <1>2, <1>3, <1>4, <2>2, <2>4, <2>5, SameTrans, SameToldLess, BaseFrame
    <2> QED
      BY <1>2, <1>5, <2>6 DEF ChainInv, Able
  <1>6. CASE ~mfail
    <2>1. Consume(s, Home, Silent)
      BY <1>6 DEF Register
    <2>2. /\ Base' /\ (NoFail(chan) => NoFail(chan'))
          /\ Proceeds /\ alive' = alive /\ perm' = perm /\ chan' = n
      BY <1>1, <1>2, <1>3, <2>1, ManagerListens
    <2>3. ASSUME Able'
          PROVE  ChainOK'
      <3>1. ChainOK
        BY <1>2, <2>2, <2>3 DEF Able, ChainInv
      <3>2. \A q \in Site : Steady(q)
        BY <1>2, <1>4, <2>2 DEF Steady
      <3> QED
        BY <1>1, <1>2, <2>2, <3>1, <3>2, SteadyFrame, QuietToken DEF ChainOK
    <2> QED
      BY <2>2, <2>3 DEF ChainInv
  <1> QED
    BY <1>5, <1>6

LEMMA DeregisterChain ==
    ASSUME IInv, ChainInv, NEW s \in Site, Deregister(s)
    PROVE  ChainInv'
  <1> DEFINE n == Taken(chan, s, Home)
  <1>1. TypeOK /\ Base /\ Quiet
    BY DeregisterStep DEF IInv, ChainInv
  <1>2. /\ CanRecv(s, Home) /\ Head1(s, Home).to = "manager"
        /\ Head1(s, Home).type = "DEREGISTER" /\ "DEREGISTER" \notin UpTypes
        /\ UNCHANGED <<status, successor, request, pfail, chain, last, mfail>>
        /\ Consume(s, Home, Silent)
    BY DEF Deregister, ManagerGets, proxyVars, UpTypes
  <1>3. mfail' => chain' = <<>> /\ last' = NoSite
    BY <1>1, <1>2 DEF Base
  <1>4. \A q \in Site : SameDown(chan, n, q) /\ SameUp(chan, n, q)
    BY <1>1, <1>2, ManagerReads
  <1>5. /\ Base' /\ (NoFail(chan) => NoFail(chan'))
        /\ Proceeds /\ alive' = alive /\ perm' = perm /\ chan' = n
    BY <1>1, <1>2, <1>3, ManagerListens
  <1>6. ASSUME Able'
        PROVE  ChainOK'
    <2>1. ChainOK
      BY <1>2, <1>5, <1>6 DEF Able, ChainInv
    <2>2. \A q \in Site : Steady(q)
      BY <1>2, <1>4, <1>5 DEF Steady
    <2> QED
      BY <1>1, <1>2, <1>5, <2>1, <2>2, SteadyFrame, QuietToken DEF ChainOK
  <1> QED
    BY <1>5, <1>6 DEF ChainInv

(* The sender of MIGM_TOKEN_HERE becomes the first of the chain.           *)
LEMMA TokenHereChain ==
    ASSUME IInv, ChainInv, NEW s \in Site, TokenHere(s)
    PROVE  ChainInv'
  <1> DEFINE n == Taken(chan, s, Home)
  <1>1. TypeOK /\ Base /\ Quiet
    BY TokenHereStep DEF IInv, ChainInv
  <1>2. /\ CanRecv(s, Home) /\ Head1(s, Home).to = "manager"
        /\ Head1(s, Home).type = "TOKEN_HERE" /\ "TOKEN_HERE" \in Reporting
        /\ UNCHANGED <<status, successor, request, pfail, last, mfail>>
        /\ Consume(s, Home, Silent)
        /\ chain' = IF ~mfail /\ InChain(s) THEN PoppedBefore(s) ELSE chain
    BY DEF TokenHere, ManagerGets, proxyVars, Reporting
  <1>3. mfail' => chain' = <<>> /\ last' = NoSite
    BY <1>1, <1>2 DEF Base
  <1>4. /\ \A q \in Site : SameDown(chan, n, q) /\ SameUp(chan, n, q)
        /\ chan \in Channels(Message) /\ chan[<<s, Home>>] # <<>>
        /\ Head1(s, Home) = Head(chan[<<s, Home>>])
    BY <1>1, <1>2, ManagerReads
  <1>5. /\ Base' /\ (NoFail(chan) => NoFail(chan'))
        /\ Proceeds /\ alive' = alive /\ perm' = perm /\ chan' = n
    BY <1>1, <1>2, <1>3, ManagerListens
  <1>6. Saw(chan, s)
    BY <1>2, <1>4, TakenHome
  <1> HIDE DEF n
  <1>7. ASSUME Able'
        PROVE  ChainOK'
    <2>1. ChainOK /\ Shaped /\ Ordered /\ ~mfail
      BY <1>2, <1>5, <1>7 DEF Able, ChainInv, ChainOK
    <2>2. \A q \in Site : Steady(q)
      BY <1>2, <1>4, <1>5 DEF Steady
    <2>3. CASE InChain(s)
      <3>1. chain' = PoppedBefore(s)
        BY <1>2, <2>1, <2>3
      <3>2. /\ EndOf(chain, chain')
            /\ \A a, r : Visits(chain, a) /\ ~Visits(chain', a)
                          /\ Has(chain, s, r) => Ahead(chain, a, s, r)
        BY <2>1, <2>3, <3>1, PoppedEnds DEF Shaped
      <3>3. PICK r \in Nat : Has(chain, s, r)
        BY <2>1, <2>3, ChainFacts DEF Shaped, InChain
      <3>4. \A q \in Site : InChain(q) /\ ~InChain(q)' => ~Flagged(q) /\ ~Token(q)
        BY <1>6, <2>1, <3>2, <3>3 DEF InChain, Ordered, Reached
      <3> QED
        BY <1>1, <1>2, <1>5, <2>1, <2>2, <3>2, <3>4, PopFrame, QuietToken DEF ChainOK
    <2>4. CASE ~InChain(s)
      <3>1. chain' = chain
        BY <1>2, <2>4
      <3> QED
        BY <1>1, <1>2, <1>5, <2>1, <2>2, <3>1, SteadyFrame, QuietToken DEF ChainOK
    <2> QED
      BY <2>3, <2>4
  <1> QED
    BY <1>5, <1>7 DEF ChainInv

-----------------------------------------------------------------------------
(* The manager notifies proxies of the failure: they are told nothing more *)
(* of successors.                                                          *)
LEMMA PermFailSent ==
    ASSUME NEW c \in Channels(Message), NEW x, NEW n,
           n = Sent(c, Home, PermFailOut(x))
    PROVE  /\ FromHome(c) => FromHome(n)
           /\ NoOwnNeed(c) => NoOwnNeed(n)
           /\ \A q \in Site : ToldLess(c, n, q)
  <1> DEFINE m == ToProxy("PERMFAIL", NoSite, 0)
  <1>1. m \in Message /\ m.type = "PERMFAIL"
    BY DEF Message, ProxyMessage, ToProxy, ToProxyTypes
  <1>2. /\ m \notin Kind(DownTypes) /\ m \notin Kind({"NEED_NO_MORE"})
        /\ m \notin Kind({"FORWARD"})
    BY <1>1 DEF Kind, DownTypes
  <1>3. ASSUME NEW l \in Site \X Site
        PROVE  n[l] = c[l] \/ n[l] = c[l] \o <<m>>
    <2>1. c[l] \in Seq(Message) /\ l[2] \in Site
      BY DEF Channels
    <2>2. PermFailOut(x)[l[2]] = <<m>> \/ PermFailOut(x)[l[2]] = <<>>
      BY <2>1 DEF PermFailOut
    <2>3. c[l] \o <<>> = c[l]
      BY <2>1, ConcatEmptySeq
    <2> QED
      BY <2>2, <2>3 DEF Sent
  <1> HIDE DEF m
  <1>4. ASSUME NEW l \in Site \X Site, NEW K, m \notin K, On(n, l, K, {})
        PROVE  On(c, l, K, {})
    <2>1. c[l] \in Seq(Message)
      BY DEF Channels
    <2>2. CASE n[l] = c[l]
      BY <1>4, <2>2 DEF On
    <2>3. CASE n[l] = c[l] \o <<m>>
      <3>1. Hears(c[l] \o <<m>>, K, {})
        BY <1>4, <2>3 DEF On
      <3> QED
        BY <1>1, <1>4, <2>1, <3>1, HearsAppend DEF On
    <2> QED
      BY <1>3, <2>2, <2>3
  <1>5. ASSUME NEW l \in Site \X Site, NEW K, m \notin K, Two(n, l, K, K, {})
        PROVE  Two(c, l, K, K, {})
    <2>1. c[l] \in Seq(Message)
      BY DEF Channels
    <2>2. CASE n[l] = c[l]
      BY <1>5, <2>2 DEF Two
    <2>3. CASE n[l] = c[l] \o <<m>>
      <3>1. Pair(c[l] \o <<m>>, K, K, {})
        BY <1>5, <2>3 DEF Two
      <3> QED
        BY <1>1, <1>5, <2>1, <3>1, PairAppend DEF Two
    <2> QED
      BY <1>3, <2>2, <2>3
  <1>6. /\ <<Home, Home>> \in Site \X Site
        /\ \A s, q \in Site : <<s, q>> \in Site \X Site
        /\ \A q \in Site : <<Home, q>> \in Site \X Site
    BY HomeAssumption
  <1>7. FromHome(c) => FromHome(n)
    BY <1>2, <1>4, <1>6 DEF FromHome
  <1>8. NoOwnNeed(c) => NoOwnNeed(n)
    BY <1>2, <1>4, <1>6 DEF NoOwnNeed
  <1>9. ASSUME NEW q \in Site
        PROVE  ToldLess(c, n, q)
    BY <1>2, <1>4, <1>5, <1>6 DEF ToldLess, Told, ToldTwice
  <1> QED
    BY <1>7, <1>8, <1>9

(* A site crashes.                                                         *)
LEMMA CrashBase ==
    ASSUME TypeOK, Base, NEW s \in Site, Crash(s), UNCHANGED <<successor, managerVars>>
    PROVE  /\ Base' /\ (NoFail(chan) => NoFail(chan'))
           /\ alive' = [alive EXCEPT ![s] = FALSE]
           /\ perm' = perm
           /\ \A l \in Site \X Site : chan'[l] = IF l[2] = s THEN <<>> ELSE chan[l]
  <1>1. /\ alive' = [alive EXCEPT ![s] = FALSE] /\ perm' = perm
        /\ \A l \in Site \X Site : chan'[l] = IF l[2] = s THEN <<>> ELSE chan[l]
    BY DEF Crash
  <1>2. \A l \in Site \X Site : chan'[l] = chan[l] \/ chan'[l] = <<>>
    BY <1>1
  <1>3. /\ FromHome(chan') /\ NoOwnNeed(chan') /\ (NoFail(chan) => NoFail(chan'))
    BY <1>2, EmptiedBase DEF Base
  <1>4. \A x \in Site : alive'[x] => alive[x] /\ x # s
    BY <1>1 DEF TypeOK
  <1>5. \A p, q \in Site : <<p, q>> \in Site \X Site /\ <<p, q>>[2] = q
    OBVIOUS
  <1>6. Clean'
    <2> SUFFICES ASSUME NEW p \in Site, NEW d \in Site, ~alive'[d]
                 PROVE  chan'[<<p, d>>] = <<>>
      BY DEF Clean
    <2>1. ~alive[d] \/ d = s
      BY <1>1 DEF TypeOK
    <2> QED
      BY <1>1, <1>5, <2>1 DEF Base, Clean
  <1>7. ASSUME NEW q \in Site
        PROVE  ToldLess(chan, chan', q)
    <2>1. <<Home, q>> \in Site \X Site
      BY HomeAssumption
    <2> QED
      BY <1>2, <2>1, EmptiedOrder DEF ToldLess, Told, ToldTwice
  <1>8. mfail' => chain' = <<>> /\ last' = NoSite
    BY DEF Base, managerVars
  <1>9. \A p, x \in Site : x \in perm'[p] => ~alive'[x]
    BY <1>1, <1>4 DEF Base
  <1> QED
    BY <1>1, <1>3, <1>6, <1>7, <1>8, <1>9, BaseFrame

LEMMA FailedChain ==
    ASSUME IInv, ChainInv, NEW s \in Site, Failed(s)
    PROVE  ChainInv'
  <1> DEFINE n == Taken(chan, s, Home)
  <1>1. TypeOK /\ Base
    BY DEF IInv, ChainInv
  <1>2. /\ CanRecv(s, Home) /\ Head1(s, Home).to = "manager"
        /\ UNCHANGED successor
    BY DEF Failed, ManagerGets, proxyVars
  <1>3. mfail' /\ chain' = <<>> /\ last' = NoSite
    BY <1>1 DEF Base, Failed, ManagerLostToken, managerVars
  <1>4. Base'
    <2>1. CASE mfail
      BY <1>1, <1>2, <1>3, <2>1, ManagerListens DEF Failed
    <2>2. CASE ~mfail
      <3>1. Consume(s, Home, PermFailOut(chain))
        BY <2>2 DEF Failed
      <3>2. /\ chan' = Sent(n, Home, PermFailOut(chain)) /\ Clean'
            /\ \A q, x \in Site : x \in perm'[q] => ~alive'[x]
        BY <1>1, <1>2, <3>1, ConsumeNet, HomeAssumption
      <3>3. /\ n \in Channels(Message) /\ FromHome(n) /\ NoOwnNeed(n)
            /\ \A q \in Site : SameDown(chan, n, q)
        BY <1>1, <1>2, ManagerReads
      <3> HIDE DEF n
      <3>4. /\ FromHome(chan') /\ NoOwnNeed(chan')
            /\ \A q \in Site : ToldLess(n, chan', q)
        BY <3>2, <3>3, PermFailSent
      <3>5. \A q \in Site : ToldLess(chan, chan', q)
        BY <3>3, <3>4, SameToldLess DEF ToldLess
      <3> QED
        BY <1>1, <1>2, <1>3, <3>2, <3>4, <3>5, BaseFrame
    <2> QED
      BY <2>1, <2>2
  <1> QED
    BY <1>3, <1>4 DEF ChainInv, Able

(* An entry that the token has passed leaves the chain, with those ahead.  *)
LEMMA PassedEntry ==
    ASSUME Shaped, \A q \in Site : SiteOK(q), Ordered, NEW s \in Site, InChain(s),
           Old(chan, s, chain[Position(s)].req)
    PROVE  /\ EndOf(chain, PoppedThrough(s))
           /\ \A q \in Site : InChain(q) /\ ~Visits(PoppedThrough(s), q)
                => ~Flagged(q) /\ ~Token(q)
  <1> DEFINE r == chain[Position(s)].req
  <1>1. chain \in Seq(Entry) /\ Distinct(chain) /\ Ends(chain, last)
    BY DEF Shaped
  <1>2. Has(chain, s, r)
    BY <1>1, PositionInChain, ChainElements DEF Has
  <1>3. Reached(s, r)
    BY DEF Reached
  <1> HIDE DEF r
  <1>4. ~Flagged(s) /\ ~Token(s)
    BY <1>2 DEF SiteOK, Current, TokenKept, r
  <1>5. ~Ends(chain, s)
    BY <1>1, <1>4, ChainFacts DEF Flagged
  <1>6. /\ EndOf(chain, PoppedThrough(s))
        /\ \A a : Visits(chain, a) /\ ~Visits(PoppedThrough(s), a)
                => a = s \/ Ahead(chain, a, s, r)
    BY <1>1, <1>2, <1>5, PoppedEnds
  <1> QED
    BY <1>3, <1>4, <1>6 DEF InChain, Ordered

LEMMA OldPredChain ==
    ASSUME IInv, ChainInv, NEW s \in Site, OldPred(s)
    PROVE  ChainInv'
  <1> DEFINE n == Taken(chan, s, Home)
  <1>1. TypeOK /\ Base /\ Quiet
    BY OldPredStep DEF IInv, ChainInv
  <1>2. /\ CanRecv(s, Home) /\ Head1(s, Home).to = "manager"
        /\ Head1(s, Home).type = "OLD_PRED" /\ "OLD_PRED" \in Reporting
        /\ UNCHANGED <<status, successor, request, pfail, last, mfail>>
        /\ Consume(s, Home, Silent)
        /\ chain' = IF IsOld(s) THEN PoppedThrough(s) ELSE chain
    BY DEF OldPred, ManagerGets, proxyVars, Reporting
  <1>3. mfail' => chain' = <<>> /\ last' = NoSite
    BY <1>1, <1>2 DEF Base, IsOld
  <1>4. /\ \A q \in Site : SameDown(chan, n, q) /\ SameUp(chan, n, q)
        /\ chan \in Channels(Message) /\ chan[<<s, Home>>] # <<>>
        /\ Head1(s, Home) = Head(chan[<<s, Home>>])
    BY <1>1, <1>2, ManagerReads
  <1>5. /\ Base' /\ (NoFail(chan) => NoFail(chan'))
        /\ Proceeds /\ alive' = alive /\ perm' = perm /\ chan' = n
    BY <1>1, <1>2, <1>3, ManagerListens
  <1>6. Old(chan, s, Head1(s, Home).req)
    BY <1>2, <1>4, TakenHome
  <1> HIDE DEF n
  <1>7. ASSUME Able'
        PROVE  ChainOK'
    <2>1. ChainOK /\ Shaped /\ Ordered /\ ~mfail
      BY <1>2, <1>5, <1>7 DEF Able, ChainInv, ChainOK
    <2>2. \A q \in Site : Steady(q)
      BY <1>2, <1>4, <1>5 DEF Steady
    <2>3. CASE IsOld(s)
      <3>1. chain' = PoppedThrough(s) /\ InChain(s) /\ Old(chan, s, chain[Position(s)].req)
        BY <1>2, <1>6, <2>3 DEF IsOld
      <3>2. /\ EndOf(chain, chain')
            /\ \A q \in Site : InChain(q) /\ ~InChain(q)' => ~Flagged(q) /\ ~Token(q)
        BY <2>1, <3>1, PassedEntry DEF InChain, ChainOK
      <3> QED
        BY <1>1, <1>2, <1>5, <2>1, <2>2, <3>2, PopFrame, QuietToken DEF ChainOK
    <2>4. CASE ~IsOld(s)
      <3>1. chain' = chain
        BY <1>2, <2>4
      <3> QED
        BY <1>1, <1>2, <1>5, <2>1, <2>2, <3>1, SteadyFrame, QuietToken DEF ChainOK
    <2> QED
      BY <2>3, <2>4
  <1> QED
    BY <1>5, <1>7 DEF ChainInv

-----------------------------------------------------------------------------
(* The inquiry asks the closest live predecessor about its successor, or   *)
(* without one a live successor about its predecessor.                     *)
AsksForward(c, k, failed) ==
    \E d \in Site, r \in Nat :
        InquiryOut(c, k, failed) = To(d, ToProxy("CHECK_PRED", NoSite, r))

AsksBackward(c, k, failed) ==
    \E i \in 1..(k - 1) :
        /\ c[i].site \notin failed
        /\ \A j \in (i + 1)..(k - 1) : c[j].site \in failed
        /\ InquiryOut(c, k, failed)
             = To(c[i].site, ToProxy("CHECK_SUCC", NoSite, c[i].req))

LEMMA InquiryShape ==
    ASSUME NEW c \in Seq(Entry), NEW k \in 1..Len(c), NEW failed,
           ~AllFailed(c, k, failed)
    PROVE  AsksForward(c, k, failed) \/ AsksBackward(c, k, failed)
  <1>1. /\ Len(c) \in Nat
        /\ \A i \in 1..Len(c) : c[i].site \in Site /\ c[i].req \in Nat
    BY ChainElements
  <1>2. CASE Predecessors(c, k, failed) = {}
    <2> DEFINE I == Successors(c, k, failed)
    <2>1. I # {}
      BY <1>2 DEF AllFailed
    <2>2. I \subseteq 1..Len(c)
      BY <1>1 DEF Successors, Live
    <2>3. Closest(I) \in 1..Len(c)
      BY <1>1, <2>1, <2>2, ClosestInSet
    <2>4. InquiryOut(c, k, failed) = To(c[Closest(I)].site,
                       ToProxy("CHECK_PRED", NoSite, c[Closest(I)].req))
      BY <1>2 DEF InquiryOut
    <2> QED
      BY <1>1, <1>2, <2>3, <2>4 DEF AsksForward
  <1>3. CASE Predecessors(c, k, failed) # {}
    <2> DEFINE I == Predecessors(c, k, failed)
               i == Closest(I)
    <2>1. k - 1 \in Nat /\ I \subseteq 1..(k - 1)
      BY <1>1 DEF Predecessors, Live
    <2>2. i \in I /\ \A j \in I : j <= i
      BY <1>3, <2>1, ClosestInSet
    <2>3. i \in 1..(k - 1) /\ c[i].site \notin failed
      BY <2>2 DEF Predecessors, Live
    <2>4. InquiryOut(c, k, failed)
            = To(c[i].site, ToProxy("CHECK_SUCC", NoSite, c[i].req))
      BY <1>3 DEF InquiryOut
    <2> HIDE DEF i
    <2>5. ASSUME NEW j \in (i + 1)..(k - 1)
          PROVE  c[j].site \in failed
      <3>1. j \in 1..(k - 1) /\ ~(j <= i)
        BY <2>1, <2>3
      <3>2. j \notin I
        BY <2>2, <3>1
      <3> QED
        BY <3>1, <3>2 DEF Predecessors, Live
    <2> QED
      BY <2>3, <2>4, <2>5 DEF AsksBackward
  <1> QED
    BY <1>2, <1>3

(* MIGM_OLD_SUCC: the inquiry has no predecessor to ask.                   *)
LEMMA OldSuccChain ==
    ASSUME IInv, ChainInv, NEW s \in Site, OldSucc(s)
    PROVE  ChainInv'
  <1> DEFINE n == Taken(chan, s, Home)
             c == PoppedThrough(s)
  <1>1. TypeOK /\ Base /\ Quiet
    BY OldSuccStep DEF IInv, ChainInv
  <1>2. /\ CanRecv(s, Home) /\ Head1(s, Home).to = "manager"
        /\ Head1(s, Home).type = "OLD_SUCC" /\ "OLD_SUCC" \in Reporting
        /\ UNCHANGED <<status, successor, request, pfail>>
    BY DEF OldSucc, ManagerGets, proxyVars, Reporting
  <1>3. /\ \A q \in Site : SameDown(chan, n, q) /\ SameUp(chan, n, q)
        /\ chan \in Channels(Message) /\ chan[<<s, Home>>] # <<>>
        /\ Head1(s, Home) = Head(chan[<<s, Home>>])
        /\ n \in Channels(Message) /\ FromHome(n) /\ NoOwnNeed(n)
        /\ NoFail(chan) => NoFail(n)
    BY <1>1, <1>2, ManagerReads
  <1>4. Old(chan, s, Head1(s, Home).req)
    BY <1>2, <1>3, TakenHome
  <1> HIDE DEF n
  <1>5. CASE ~IsOld(s)
    <2>1. Consume(s, Home, Silent) /\ UNCHANGED <<chain, last, mfail>>
      BY <1>5 DEF OldSucc, managerVars
    <2>2. mfail' => chain' = <<>> /\ last' = NoSite
      BY <1>1, <2>1 DEF Base
    <2>3. /\ Base' /\ (NoFail(chan) => NoFail(chan'))
          /\ Proceeds /\ alive' = alive /\ perm' = perm /\ chan' = n
      BY <1>1, <1>2, <2>1, <2>2, ManagerListens DEF n
    <2>4. ASSUME Able'
          PROVE  ChainOK'
      <3>1. ChainOK
        BY <2>1, <2>3, <2>4 DEF Able, ChainInv
      <3>2. \A q \in Site : Steady(q)
        BY <1>2, <1>3, <2>3 DEF Steady
      <3> QED
        BY <1>1, <2>1, <2>3, <3>1, <3>2, SteadyFrame, QuietToken DEF ChainOK
    <2> QED
      BY <2>3, <2>4 DEF ChainInv
  <1>6. CASE IsOld(s) /\ c = <<>>
    <2>1. Crash(Home) /\ UNCHANGED managerVars
      BY <1>6 DEF OldSucc
    <2>2. Base' /\ ~alive'[Home]
      BY <1>1, <1>2, <2>1, CrashBase, HomeAssumption, SMTT(40) DEF TypeOK
    <2> QED
      BY <2>2 DEF ChainInv, Able
  <1>7. CASE IsOld(s) /\ c # <<>> /\ AllFailed(c, 1, perm[Home])
    <2>1. Consume(s, Home, PermFailOut(<<>>)) /\ ManagerLostToken
      BY <1>7 DEF OldSucc
    <2>2. /\ chan' = Sent(n, Home, PermFailOut(<<>>)) /\ Clean'
          /\ \A q, x \in Site : x \in perm'[q] => ~alive'[x]
      BY <1>1, <1>2, <2>1, ConsumeNet, HomeAssumption DEF n
    <2>3. mfail' /\ chain' = <<>> /\ last' = NoSite
      BY <2>1 DEF ManagerLostToken
    <2>4. /\ FromHome(chan') /\ NoOwnNeed(chan')
          /\ \A q \in Site : ToldLess(n, chan', q)
      BY <1>3, <2>2, PermFailSent
    <2>5. \A q \in Site : ToldLess(chan, chan', q)
      BY <1>3, <2>4, SameToldLess DEF ToldLess
    <2>6. Base'
      BY <1>1, <1>2, <2>2, <2>3, <2>4, <2>5, BaseFrame
    <2> QED
      BY <2>3, <2>6 DEF ChainInv, Able
  <1>8. CASE IsOld(s) /\ c # <<>> /\ ~AllFailed(c, 1, perm[Home])
    <2>1. /\ Consume(s, Home, InquiryOut(c, 1, perm[Home])) /\ chain' = c
          /\ UNCHANGED <<last, mfail>>
      BY <1>8 DEF OldSucc
    <2>2. chain \in Seq(Entry) /\ InChain(s) /\ ~mfail
          /\ Old(chan, s, chain[Position(s)].req)
      BY <1>1, <1>4, <1>8 DEF TypeOK, Entry, IsOld
    <2>3. c \in Seq(Entry) /\ Len(c) \in Nat /\ Len(c) # 0
      BY <1>8, <2>2, PoppedType, ChainElements
    <2> HIDE DEF c
    <2>4. 1 \in 1..Len(c) /\ 1..(1 - 1) = {}
      BY <2>3
    <2>5. PICK d \in Site, r \in Nat :
            InquiryOut(c, 1, perm[Home]) = To(d, ToProxy("CHECK_PRED", NoSite, r))
      <3>1. AsksForward(c, 1, perm[Home])
        BY <1>8, <2>3, <2>4, InquiryShape DEF AsksBackward
      <3> QED
        BY <3>1 DEF AsksForward
    <2> DEFINE m == ToProxy("CHECK_PRED", NoSite, r)
    <2>6. m \in Message /\ m.type = "CHECK_PRED" /\ m \notin PermFails
      BY DEF Message, ProxyMessage, ToProxy, ToProxyTypes, PermFails
    <2>7. m.type \notin DownTypes /\ m.type \notin UpTypes /\ m.type # "NEED_NO_MORE"
      BY <2>6 DEF DownTypes, UpTypes
    <2> DEFINE out == InquiryOut(c, 1, perm[Home])
    <2>8. /\ chan' = Sent(n, Home, To(d, m)) /\ Clean' /\ Proceeds
          /\ alive' = alive /\ perm' = perm
          /\ \A q, x \in Site : x \in perm'[q] => ~alive'[x]
      <3> HIDE DEF m, out
      <3>1. Consume(s, Home, out) /\ out = To(d, m)
        BY <2>1, <2>5 DEF out, m
      <3>2. /\ chan' = Sent(n, Home, out) /\ Clean' /\ Proceeds
            /\ alive' = alive /\ perm' = perm
            /\ \A q, x \in Site : x \in perm'[q] => ~alive'[x]
        BY <1>1, <1>2, <3>1, ConsumeNet, HomeAssumption, ZenonT(40) DEF n
      <3> QED
        BY <3>1, <3>2
    <2> HIDE DEF m
    <2>9. FromHome(chan') /\ NoOwnNeed(chan') /\ (NoFail(chan) => NoFail(chan'))
      BY <1>3, <2>6, <2>7, <2>8, SentBase, HomeAssumption
    <2>10. ASSUME NEW q \in Site
           PROVE  SameDown(n, chan', q) /\ SameUp(n, chan', q)
      BY <1>3, <2>6, <2>7, <2>8, SentSame, HomeAssumption
    <2>11. ASSUME NEW q \in Site
           PROVE  SameDown(chan, chan', q) /\ SameUp(chan, chan', q)
      BY <1>3, <2>10, SameTrans
    <2>12. Base'
      BY <1>1, <1>2, <2>1, <2>2, <2>8, <2>9, <2>11, SameToldLess, BaseFrame
    <2>13. ASSUME Able'
           PROVE  ChainOK'
      <3>1. ChainOK /\ Shaped /\ Ordered
        BY <2>1, <2>8, <2>13 DEF Able, ChainInv, ChainOK
      <3>2. \A q \in Site : Steady(q)
        BY <1>2, <2>8, <2>11 DEF Steady
      <3>3. /\ EndOf(chain, chain')
            /\ \A q \in Site : InChain(q) /\ ~InChain(q)' => ~Flagged(q) /\ ~Token(q)
        BY <2>1, <2>2, <3>1, PassedEntry DEF InChain, ChainOK, c
      <3> QED
        BY <1>1, <2>1, <2>8, <2>9, <3>1, <3>2, <3>3, PopFrame, QuietToken DEF ChainOK
    <2> QED
      BY <2>12, <2>13 DEF ChainInv
  <1> QED
    BY <1>5, <1>6, <1>7, <1>8

-----------------------------------------------------------------------------
(* The home proxy, on which nobody relies, asks for the token (again).     *)
LEMMA HomeAsks ==
    ASSUME TypeOK, Base, alive[Home], SiteOK(Home), Proceeds,
           UNCHANGED <<chain, last, successor, request, pfail, alive, perm>>,
           ~Flagged(Home), SameDown(chan, chan', Home),
           Token(Home)' => Token(Home), status'[Home] = "REQUESTED",
           Lost(chan', Home) <=> Lost(chan, Home),
           Broken(chan', Home) <=> Broken(chan, Home),
           Asks(chan', Home) <=> Asks(chan, Home) \/ ~Lost(chan, Home),
           \A r : AsksFor(chan', Home, r)
             <=> AsksFor(chan, Home, r) \/ (request[Home] = r /\ ~Lost(chan, Home)),
           Saw(chan', Home) => Saw(chan, Home),
           \A r : Old(chan', Home, r) => Old(chan, Home, r),
           BrokenTwice(chan', Home) => BrokenTwice(chan, Home),
           AsksThenSaw(chan', Home) => AsksThenSaw(chan, Home),
           \A r : AsksThenOld(chan', Home, r) => AsksThenOld(chan, Home, r)
    PROVE  /\ SiteOK(Home)' /\ ~Flagged(Home)'
           /\ \A r : Has(chain, Home, r) /\ Reached(Home, r)' => Reached(Home, r)
  <1>1. chan \in Channels(Message) /\ <<Home, Home>> \in Site \X Site
    BY HomeAssumption DEF TypeOK, Channels
  <1>2. Home \notin perm[Home]
    BY AliveReaches, HomeAssumption
  <1>3. /\ Sound(Home)' <=> Sound(Home)
        /\ Sound(Home) <=> ~Lost(chan, Home)
    BY <1>2 DEF Sound
  <1>4. /\ last # Home /\ ~Told(chan, Home) /\ successor[Home] = NoSite
        /\ ~Broken(chan, Home)
    BY DEF Flagged
  <1>5. /\ last' # Home /\ ~Told(chan', Home) /\ successor'[Home] = NoSite
        /\ ~Broken(chan', Home)
    BY <1>4 DEF SameDown
  <1>6. ~Flagged(Home)'
    BY <1>5 DEF Flagged
  <1>7. OneDuty(Home)' /\ Inquired(Home)' /\ GivenUp(Home)'
    BY <1>3, <1>5 DEF SiteOK, OneDuty, Inquired, GivenUp, SameDown
  <1>8. TokenKept(Home)'
    <2>1. TokenKept(Home) /\ (InChain(Home) => InChain(Home)')
      BY DEF SiteOK, InChain
    <2>2. Token(Home)' /\ Sound(Home)' => Flagged(Home)'
      BY <1>3, <2>1 DEF TokenKept
    <2> QED
      BY <2>1, <2>2, TokenStays, HomeAssumption
  <1>9. Waiting(Home)'
    <2> SUFFICES ASSUME Asks(chan', Home)
                 PROVE  /\ ~Token(Home)' /\ ~AsksThenSaw(chan', Home)
                        /\ \A r : ~AsksThenOld(chan', Home, r)
      BY <1>5 DEF Waiting
    <2>1. AsksThenSaw(chan, Home) => Asks(chan, Home)
      BY <1>1, TwoFirst DEF AsksThenSaw, Asks
    <2>2. \A r : AsksThenOld(chan, Home, r) => Asks(chan, Home)
      BY <1>1, TwoFirst, SpecificObs DEF AsksThenOld, AsksFor
    <2>3. ~AsksThenSaw(chan', Home)
      BY <1>4, <2>1 DEF SiteOK, Waiting
    <2>4. \A r : ~AsksThenOld(chan', Home, r)
      BY <1>4, <2>2 DEF SiteOK, Waiting
    <2>5. ~Token(Home)
      BY <1>3, <1>4 DEF SiteOK, Waiting, TokenKept
    <2> QED
      BY <2>3, <2>4, <2>5
  <1>10. Numbered(Home)'
    BY <1>3 DEF SiteOK, Numbered
  <1>11. Resting(Home)' /\ Enlisted(Home)' /\ Current(Home)'
    BY <1>6 DEF Resting, Enlisted, Current
  <1>12. OnDuty(Home)'
    BY <1>3 DEF OnDuty
  <1>13. Guided(Home)'
    BY <1>5, SpecificObs DEF Guided
  <1>14. ASSUME NEW r, Has(chain, Home, r), Reached(Home, r)'
         PROVE  Reached(Home, r)
    <2>1. InChain(Home)
      <3>1. chain \in Seq(Entry)
        BY DEF TypeOK, Entry
      <3> QED
        BY <1>14, <3>1, ChainElements DEF Has, InChain, Visits
    <2>2. Sound(Home) => status[Home] = "EMPTY" \/ Asks(chan, Home)
      BY <2>1 DEF SiteOK, OnDuty
    <2> QED
      BY <1>3, <1>4, <1>14, <2>2 DEF Reached
  <1> QED
    BY <1>6, <1>7, <1>8, <1>9, <1>10, <1>11, <1>12, <1>13, <1>14 DEF SiteOK

(* The manager makes the home proxy ask for the token that s gives up.     *)
LEMMA NeedNoMoreChain ==
    ASSUME IInv, ChainInv, NEW s \in Site, NeedNoMore(s)
    PROVE  ChainInv'
  <1> DEFINE n == Taken(chan, s, Home)
             r0 == request[Home]
             m == ToManager("GET", r0)
  <1>1. TypeOK /\ Base /\ Quiet
    BY NeedNoMoreStep DEF IInv, ChainInv
  <1>2. /\ CanRecv(s, Home) /\ Head1(s, Home).to = "manager"
        /\ Head1(s, Home).type = "NEED_NO_MORE" /\ "NEED_NO_MORE" \in Reporting
        /\ UNCHANGED <<successor, request, pfail, chain, last, mfail>>
    BY DEF NeedNoMore, ManagerGets, managerVars, Reporting
  <1>3. mfail' => chain' = <<>> /\ last' = NoSite
    BY <1>1, <1>2 DEF Base
  <1>4. /\ \A q \in Site : SameDown(chan, n, q) /\ SameUp(chan, n, q)
        /\ chan \in Channels(Message) /\ chan[<<s, Home>>] # <<>>
        /\ Head1(s, Home) = Head(chan[<<s, Home>>]) /\ s # Home
        /\ n \in Channels(Message) /\ FromHome(n) /\ NoOwnNeed(n)
        /\ NoFail(chan) => NoFail(n)
    BY <1>1, <1>2, ManagerReads
  <1>5. Saw(chan, s)
    BY <1>2, <1>4, TakenHome
  <1> HIDE DEF n
  <1>6. CASE s # last
    <2>1. Consume(s, Home, Silent) /\ UNCHANGED status
      BY <1>6 DEF NeedNoMore
    <2>2. /\ Base' /\ (NoFail(chan) => NoFail(chan'))
          /\ Proceeds /\ alive' = alive /\ perm' = perm /\ chan' = n
      BY <1>1, <1>2, <1>3, <2>1, ManagerListens DEF n
    <2>3. ASSUME Able'
          PROVE  ChainOK'
      <3>1. ChainOK
        BY <1>2, <2>2, <2>3 DEF Able, ChainInv
      <3>2. \A q \in Site : Steady(q)
        BY <1>2, <1>4, <2>1, <2>2 DEF Steady
      <3> QED
        BY <1>1, <1>2, <2>2, <3>1, <3>2, SteadyFrame, QuietToken DEF ChainOK
    <2> QED
      BY <2>2, <2>3 DEF ChainInv
  <1>7. CASE s = last
    <2>1. /\ Consume(s, Home, To(Home, m))
          /\ status'[Home] = "REQUESTED"
          /\ \A q \in Site : q # Home => status'[q] = status[q]
      BY <1>1, <1>7, HomeAssumption DEF NeedNoMore, sendToManager, TypeOK
    <2>2. /\ m \in Message /\ m.type = "GET" /\ m.req = r0 /\ m \notin PermFails
          /\ m.type \notin DownTypes
      <3>1. "GET" \in ToManagerTypes /\ r0 \in Nat
        BY <1>1, HomeAssumption DEF TypeOK, ToManagerTypes
      <3> QED
        BY <3>1, ManagerKinds
    <2> HIDE DEF m, r0
    <2>3. /\ chan' = Sent(n, Home, To(Home, m)) /\ Clean' /\ Proceeds
          /\ alive' = alive /\ perm' = perm /\ alive[Home]
          /\ \A q, x \in Site : x \in perm'[q] => ~alive'[x]
      BY <1>1, <1>2, <2>1, ConsumeNet, HomeAssumption, ZenonT(40) DEF n
    <2>4. FromHome(chan') /\ NoOwnNeed(chan') /\ (NoFail(chan) => NoFail(chan'))
      BY <1>4, <2>2, <2>3, SentBase, HomeAssumption
    <2>5. ASSUME NEW q \in Site
          PROVE  SameDown(chan, chan', q) /\ (q # Home => SameUp(chan, chan', q))
      <3>1. SameDown(n, chan', q) /\ (q # Home => SameUp(n, chan', q))
        BY <1>4, <2>2, <2>3, SentSame, HomeAssumption
      <3> QED
        BY <1>4, <3>1, SameTrans
    <2>6. Base'
      BY <1>1, <1>2, <1>3, <2>3, <2>4, <2>5, SameToldLess, BaseFrame
    <2>7. Able /\ ChainOK /\ Shaped /\ Ordered /\ (\A q \in Site : SiteOK(q))
      <3>1. ~mfail
        BY <1>1, <1>7, NoSiteAssumption DEF Base
      <3> QED
        BY <2>3, <3>1 DEF Able, ChainInv, ChainOK
    <2>8. ~Flagged(Home)
      <3>1. chain \in Seq(Entry) /\ Distinct(chain) /\ Ends(chain, s)
        BY <1>7, <2>7 DEF Shaped
      <3>2. PICK r \in Nat : Has(chain, s, r)
        BY <3>1, ChainFacts
      <3>3. Reached(s, r)
        BY <1>5 DEF Reached
      <3>4. CASE InChain(Home)
        BY <1>4, <2>7, <3>1, <3>2, <3>3, <3>4, ChainFacts DEF InChain, Ordered
      <3>5. CASE ~InChain(Home)
        BY <2>3, <2>7, <3>5, HomeAssumption DEF SiteOK, Enlisted
      <3> QED
        BY <3>4, <3>5
    <2>9. Reaches(Home, Home)
      BY <1>1, <2>3, AliveReaches, HomeAssumption
    <2>10. /\ Lost(chan', Home) <=> Lost(n, Home)
           /\ Broken(chan', Home) <=> Broken(n, Home)
           /\ Asks(chan', Home) <=> Asks(n, Home) \/ ~Lost(n, Home)
      BY <1>4, <2>2, <2>3, <2>9, SentHome, HomeAssumption
    <2>11. ASSUME NEW r
           PROVE  /\ AsksFor(chan', Home, r)
                       <=> AsksFor(n, Home, r) \/ (r0 = r /\ ~Lost(n, Home))
      BY <1>4, <2>2, <2>3, <2>9, SentHome, HomeAssumption
    <2>12. /\ Saw(chan', Home) => Saw(n, Home)
           /\ BrokenTwice(chan', Home) => BrokenTwice(n, Home)
           /\ AsksThenSaw(chan', Home) => AsksThenSaw(n, Home)
      BY <1>4, <2>2, <2>3, <2>9, SentHome, HomeAssumption
    <2>13. ASSUME NEW r
           PROVE  Old(chan', Home, r) => Old(n, Home, r)
      BY <1>4, <2>2, <2>3, <2>9, SentHome, HomeAssumption
    <2>14. ASSUME NEW r
           PROVE  AsksThenOld(chan', Home, r) => AsksThenOld(n, Home, r)
      BY <1>4, <2>2, <2>3, <2>9, SentHome, HomeAssumption
    <2>15. SameUp(chan, n, Home)
      BY <1>4, HomeAssumption
    <2>16. /\ Lost(chan', Home) <=> Lost(chan, Home)
           /\ Broken(chan', Home) <=> Broken(chan, Home)
           /\ Asks(chan', Home) <=> Asks(chan, Home) \/ ~Lost(chan, Home)
           /\ \A r : AsksFor(chan', Home, r)
                <=> AsksFor(chan, Home, r) \/ (r0 = r /\ ~Lost(chan, Home))
           /\ Saw(chan', Home) => Saw(chan, Home)
           /\ \A r : Old(chan', Home, r) => Old(chan, Home, r)
           /\ BrokenTwice(chan', Home) => BrokenTwice(chan, Home)
           /\ AsksThenSaw(chan', Home) => AsksThenSaw(chan, Home)
           /\ \A r : AsksThenOld(chan', Home, r) => AsksThenOld(chan, Home, r)
      BY <2>10, <2>11, <2>12, <2>13, <2>14, <2>15 DEF SameUp
    <2>17. \A q \in Site : Token(q)' => Token(q)
      BY <1>1, QuietToken
    <2>18. /\ SiteOK(Home)' /\ ~Flagged(Home)'
           /\ \A r : Has(chain, Home, r) /\ Reached(Home, r)' => Reached(Home, r)
      BY <1>1, <1>2, <2>1, <2>3, <2>5, <2>7, <2>8, <2>16, <2>17, HomeAsks,
         HomeAssumption DEF r0
    <2>19. \A q \in Site : q # Home => Idles(q)
      BY <1>2, <2>1, <2>3, <2>5, <2>17 DEF Idles, Steady
    <2>20. Shaped' /\ (\A q \in Site : SiteOK(q)') /\ Ordered'
      BY <1>2, <2>3, <2>7, <2>17, <2>18, <2>19, ProxyFrame, HomeAssumption
    <2> QED
      BY <2>4, <2>6, <2>7, <2>20 DEF ChainInv, ChainOK
  <1> QED
    BY <1>6, <1>7

-----------------------------------------------------------------------------
(* Nothing is said on an empty queue.                                      *)
LEMMA EmptyLink ==
    ASSUME NEW c, NEW l, c[l] = <<>>, NEW K, NEW L, NEW S
    PROVE  ~On(c, l, K, S) /\ ~Two(c, l, K, L, S)
  BY DEF On, Two, Hears, Pair

LEMMA EmptyDown ==
    ASSUME NEW c, NEW q, c[<<Home, q>>] = <<>>
    PROVE  /\ ~Told(c, q) /\ ~Checked(c, q) /\ ~ToldTwice(c, q)
           /\ \A x : ~ToldOf(c, q, x) /\ ~ToldThenChecked(c, q, x)
  <1>1. \A K, S : ~On(c, <<Home, q>>, K, S)
    BY EmptyLink
  <1>2. \A K, L, S : ~Two(c, <<Home, q>>, K, L, S)
    BY EmptyLink
  <1> QED
    BY <1>1, <1>2 DEF Told, Checked, ToldTwice, ToldOf, ToldThenChecked

LEMMA EmptyUp ==
    ASSUME NEW c, NEW q, c[<<q, Home>>] = <<>>
    PROVE  /\ ~Broken(c, q) /\ ~Asks(c, q) /\ ~Saw(c, q) /\ ~BrokenTwice(c, q)
           /\ \A r : ~Old(c, q, r)
  <1>1. \A K, S : ~On(c, <<q, Home>>, K, S)
    BY EmptyLink
  <1>2. \A K, L, S : ~Two(c, <<q, Home>>, K, L, S)
    BY EmptyLink
  <1> QED
    BY <1>1, <1>2 DEF Broken, Asks, Saw, BrokenTwice, Old

(* What remains of a site that crashes.                                    *)
LEMMA CrashedSite ==
    ASSUME NEW s \in Site, s # Home, SiteOK(s), Proceeds,
           UNCHANGED <<chain, last, status, successor, request, pfail, perm>>,
           SameUp(chan, chan', s), chan'[<<Home, s>>] = <<>>, ~alive'[s],
           ~Token(s)'
    PROVE  /\ SiteOK(s)'
           /\ Flagged(s)' => Flagged(s)
           /\ \A r : Reached(s, r)' => Reached(s, r)
  <1>1. /\ ~Told(chan', s) /\ ~Checked(chan', s)
        /\ \A x : ~ToldOf(chan', s, x) /\ ~ToldThenChecked(chan', s, x)
    BY EmptyDown
  <1>2. Sound(s)' <=> Sound(s)
    BY DEF Sound, SameUp
  <1>3. Flagged(s)' => Flagged(s)
    BY <1>1 DEF Flagged, SameUp
  <1>4. OneDuty(s)' /\ Numbered(s)'
    BY <1>1, <1>2 DEF SiteOK, OneDuty, Numbered, SameUp
  <1>5. Waiting(s)'
    BY <1>1, <1>2 DEF SiteOK, Waiting, SameUp
  <1>6. Resting(s)' /\ GivenUp(s)'
    BY <1>2, <1>3 DEF SiteOK, Resting, GivenUp, SameUp
  <1>7. TokenKept(s)' /\ Enlisted(s)' /\ OnDuty(s)'
    BY DEF TokenKept, Enlisted, OnDuty, Token
  <1>8. Current(s)'
    BY <1>2, <1>3 DEF SiteOK, Current, SameUp
  <1>9. Guided(s)'
    BY <1>1 DEF SiteOK, Guided, SameUp, Proceeds, InChain
  <1>10. Inquired(s)'
    BY <1>1 DEF Inquired
  <1>11. \A r : Reached(s, r)' => Reached(s, r)
    BY <1>2 DEF Reached, SameUp
  <1> QED
    BY <1>3, <1>4, <1>5, <1>6, <1>7, <1>8, <1>9, <1>10, <1>11 DEF SiteOK

LEMMA SiteCrashChain ==
    ASSUME IInv, ChainInv, NEW s \in Site, SiteCrash(s)
    PROVE  ChainInv'
  <1>1. TypeOK /\ Base /\ Quiet
    BY SiteCrashStep DEF IInv, ChainInv
  <1>2. /\ Crash(s)
        /\ UNCHANGED <<status, successor, request, pfail, chain, last, mfail>>
    BY DEF SiteCrash, proxyVars, managerVars
  <1>3. /\ Base' /\ (NoFail(chan) => NoFail(chan'))
        /\ alive' = [alive EXCEPT ![s] = FALSE] /\ perm' = perm
        /\ \A l \in Site \X Site : chan'[l] = IF l[2] = s THEN <<>> ELSE chan[l]
    BY <1>1, CrashBase DEF SiteCrash, proxyVars
  <1>4. ASSUME Able'
        PROVE  ChainOK'
    <2>1. /\ ~alive'[s] /\ s # Home
          /\ \A q \in Site : q # s => alive'[q] = alive[q]
      BY <1>1, <1>3, <1>4, HomeAssumption DEF TypeOK, Able
    <2>2. ChainOK
      BY <1>2, <1>4, <2>1, HomeAssumption DEF Able, ChainInv
    <2>3. Proceeds
      <3>1. \A x : Dead(alive, x) => Dead(alive', x)
        BY <2>1 DEF Dead
      <3>2. Home \in draining => Home \in draining'
        BY <1>2, <2>1 DEF Crash
      <3> QED
        BY <3>1, <3>2 DEF Proceeds
    <2>4. /\ \A p, q \in Site : <<p, q>> \in Site \X Site /\ <<p, q>>[2] = q
          /\ \A q \in Site : /\ <<q, Home>> \in Site \X Site /\ <<q, Home>>[2] = Home
                             /\ <<Home, q>> \in Site \X Site /\ <<Home, q>>[2] = q
      BY HomeAssumption
    <2>5. \A q \in Site : SameUp(chan, chan', q)
      BY <1>3, <2>1, <2>4, SameLink
    <2>6. \A q \in Site : q # s => SameDown(chan, chan', q)
      BY <1>3, <2>4, SameLink
    <2>7. chan'[<<Home, s>>] = <<>> /\ \A q \in Site : chan'[<<q, s>>] = <<>>
      <3>1. ASSUME NEW q \in Site
            PROVE  chan'[<<q, s>>] = <<>>
        BY <1>3, <2>4
      <3> QED
        BY <3>1, HomeAssumption
    <2>8. ~Token(s)'
      <3>1. ASSUME NEW q \in Site
            PROVE  ~Carried(chan', <<q, s>>, {TokenMessage})
        <4>1. DOMAIN chan'[<<q, s>>] = {}
          BY <2>7
        <4> QED
          BY <4>1 DEF Carried
      <3> QED
        BY <2>1, <3>1 DEF Token, Holder, TokenUnderWay
    <2>9. \A q \in Site : Token(q)' => Token(q)
      BY <1>1, QuietToken
    <2>10. \A q \in Site : q # s => Idles(q)
      BY <1>2, <1>3, <2>1, <2>5, <2>6, <2>9 DEF Idles, Steady
    <2>11. /\ SiteOK(s)'
           /\ Flagged(s)' => Flagged(s)
           /\ \A r : Reached(s, r)' => Reached(s, r)
      BY <1>2, <1>3, <2>1, <2>2, <2>3, <2>5, <2>7, <2>8, CrashedSite DEF ChainOK
    <2> QED
      BY <1>2, <1>3, <2>2, <2>3, <2>9, <2>10, <2>11, ProxyFrame DEF ChainOK
  <1> QED
    BY <1>3, <1>4 DEF ChainInv

-----------------------------------------------------------------------------
(* The manager, which has given the entity up, tells the sender so.        *)
LEMMA ManagerRefuses ==
    ASSUME TypeOK, Base, NEW s \in Site, CanRecv(s, Home),
           Head1(s, Home).to = "manager",
           Consume(s, Home, To(s, ToProxy("PERMFAIL", NoSite, 0))),
           successor' = successor, mfail' => chain' = <<>> /\ last' = NoSite
    PROVE  Base'
  <1> DEFINE n == Taken(chan, s, Home)
             m == ToProxy("PERMFAIL", NoSite, 0)
  <1>1. m \in Message /\ m.type = "PERMFAIL"
    BY DEF Message, ProxyMessage, ToProxy, ToProxyTypes
  <1>2. /\ chan' = Sent(n, Home, To(s, m)) /\ Clean'
        /\ \A q, x \in Site : x \in perm'[q] => ~alive'[x]
    BY ConsumeNet, HomeAssumption
  <1>3. m.type # "NEED_NO_MORE" /\ m.type \notin DownTypes
    BY <1>1 DEF DownTypes
  <1>4. /\ n \in Channels(Message) /\ FromHome(n) /\ NoOwnNeed(n)
        /\ \A q \in Site : SameDown(chan, n, q)
    BY ManagerReads
  <1> HIDE DEF n, m
  <1>5. FromHome(chan') /\ NoOwnNeed(chan')
    BY <1>1, <1>2, <1>3, <1>4, SentBase, HomeAssumption
  <1>6. ASSUME NEW q \in Site
        PROVE  SameDown(n, chan', q)
    BY <1>1, <1>2, <1>3, <1>4, SentSame, HomeAssumption
  <1> QED
    BY <1>2, <1>4, <1>5, <1>6, SameTrans, SameToldLess, BaseFrame

(* The manager reads a message of s and tells p that its successor is x.   *)
LEMMA ManagerForwards ==
    ASSUME TypeOK, Base, NEW s \in Site, CanRecv(s, Home),
           Head1(s, Home).to = "manager", NEW p \in Site, NEW x \in Site,
           Consume(s, Home, To(p, ToProxy("FORWARD", x, 0))), ~Told(chan, p),
           successor[p] = NoSite, successor' = successor,
           mfail' => chain' = <<>> /\ last' = NoSite,
           NEW n, n = Taken(chan, s, Home)
    PROVE  /\ Base' /\ Proceeds /\ alive' = alive /\ perm' = perm /\ alive[Home]
           /\ NoFail(chan) => NoFail(chan')
           /\ \A q \in Site : SameUp(n, chan', q)
           /\ \A q \in Site : q # p => SameDown(chan, chan', q)
           /\ Told(chan', p) <=> alive[p]
           /\ \A y : ToldOf(chan', p, y) => y = x
           /\ \A y : ToldThenChecked(chan', p, y) => ToldThenChecked(chan, p, y)
           /\ s = Home /\ Asks(chan', Home) => Home \in draining'
           /\ Home \in draining => s = Home
  <1> DEFINE m == ToProxy("FORWARD", x, 0)
  <1>1. m \in Message /\ m.type = "FORWARD" /\ m.site = x /\ m \notin PermFails
    BY DEF Message, ProxyMessage, ToProxy, ToProxyTypes, PermFails
  <1>2. /\ chan' = Sent(n, Home, To(p, m)) /\ Clean' /\ Proceeds
        /\ alive' = alive /\ perm' = perm /\ alive[Home]
        /\ Home \in draining => s = Home
        /\ \A q, y \in Site : y \in perm'[q] => ~alive'[y]
        /\ s = Home /\ chan'[<<Home, Home>>] # <<>> => Home \in draining'
    BY ConsumeNet, HomeAssumption, ZenonT(40)
  <1>3. /\ n \in Channels(Message) /\ FromHome(n) /\ NoOwnNeed(n)
        /\ NoFail(chan) => NoFail(n)
        /\ \A q \in Site : SameDown(chan, n, q)
    BY ManagerReads
  <1>4. m.type # "NEED_NO_MORE" /\ m.type \notin UpTypes /\ m.type # "CHECK_SUCC"
    BY <1>1 DEF UpTypes
  <1> HIDE DEF m
  <1>5. FromHome(chan') /\ NoOwnNeed(chan') /\ (NoFail(chan) => NoFail(chan'))
    BY <1>1, <1>2, <1>3, <1>4, SentBase, HomeAssumption
  <1>6. ASSUME NEW q \in Site
        PROVE  SameUp(n, chan', q) /\ (q # p => SameDown(chan, chan', q))
    <2>1. SameUp(n, chan', q) /\ (q # p => SameDown(n, chan', q))
      BY <1>1, <1>2, <1>3, <1>4, SentSame, HomeAssumption
    <2> QED
      BY <1>3, <2>1, SameTrans
  <1>7. SameDown(chan, n, p)
    BY <1>3
  <1>8. /\ Told(chan', p) <=> alive[p]
        /\ \A y : ToldOf(chan', p, y) => y = x
        /\ \A y : ToldThenChecked(chan', p, y) => ToldThenChecked(chan, p, y)
        /\ ToldTwice(chan', p) => ToldTwice(chan, p)
    <2>1. /\ ~Told(n, p) /\ \A y : ~ToldOf(n, p, y)
      BY <1>7, SpecificObs DEF SameDown
    <2>2. CASE Reaches(Home, p)
      <3>1. Told(chan', p) /\ alive[p]
        BY <1>1, <1>2, <1>3, <2>2, SentTold DEF Reaches
      <3>2. ASSUME NEW y
            PROVE  ToldOf(chan', p, y) => y = x
        BY <1>1, <1>2, <1>3, <2>1, <2>2, SentTold
      <3>3. ASSUME NEW y
            PROVE  ToldThenChecked(chan', p, y) => ToldThenChecked(n, p, y)
        BY <1>1, <1>2, <1>3, <1>4, <2>2, SentTold
      <3>4. ToldTwice(chan', p) => ToldTwice(n, p)
        BY <1>1, <1>2, <1>3, <2>1, <2>2, SentTold
      <3> QED
        BY <1>7, <3>1, <3>2, <3>3, <3>4 DEF SameDown
    <2>3. CASE ~Reaches(Home, p)
      <3>1. chan' = n
        BY <1>1, <1>2, <1>3, <2>3, SentNowhere, HomeAssumption
      <3>2. ~alive[p]
        BY <1>2, <2>3, AliveReaches
      <3> QED
        BY <1>7, <2>1, <3>1, <3>2 DEF SameDown
    <2> QED
      BY <2>2, <2>3
  <1>9. ASSUME NEW q \in Site
        PROVE  Once(q)'
    <2>1. Once(q)
      BY DEF Base
    <2>2. CASE q = p
      BY <1>8, <2>1, <2>2 DEF Once
    <2>3. CASE q # p
      BY <1>6, <2>1, <2>3 DEF Once, SameDown
    <2> QED
      BY <2>2, <2>3
  <1>10. Base'
    BY <1>2, <1>5, <1>9 DEF Base
  <1> QED
    BY <1>2, <1>5, <1>6, <1>8, <1>10, AsksNonempty

(* p, which was the last or has reported its successor, is told of a new   *)
(* one.                                                                    *)
LEMMA Directed ==
    ASSUME NEW p \in Site, NEW x, SiteOK(p), Flagged(p), Proceeds,
           ~Told(chan, p), successor[p] = NoSite, ~Asks(chan, p), last' # p,
           ~Broken(chan', p), Lost(chan', p) <=> Lost(chan, p),
           Asks(chan', p) => Asks(chan, p), Saw(chan', p) => Saw(chan, p),
           \A r : Old(chan', p, r) => Old(chan, p, r),
           BrokenTwice(chan', p) => BrokenTwice(chan, p),
           Told(chan', p) <=> alive[p], \A y : ToldOf(chan', p, y) => y = x,
           \A y : ToldThenChecked(chan', p, y) => ToldThenChecked(chan, p, y),
           Adjacent(chain', p, x), InChain(p)',
           \A r : Has(chain', p, r) => Has(chain, p, r),
           UNCHANGED <<status, successor, request, pfail, alive, perm>>,
           Token(p)' => Token(p)
    PROVE  /\ SiteOK(p)'
           /\ \A r : Reached(p, r)' => Reached(p, r)
  <1>1. ~Asks(chan', p) /\ \A r : ~AsksFor(chan', p, r)
    BY SpecificObs
  <1>2. Sound(p)' <=> Sound(p)
    BY DEF Sound
  <1>3. Flagged(p)' <=> alive[p]
    BY DEF Flagged
  <1>4. Token(p) => alive[p]
    BY DEF SiteOK, TokenKept, Token, Holder
  <1>5. OneDuty(p)' /\ Waiting(p)' /\ Numbered(p)'
    BY <1>1 DEF SiteOK, OneDuty, Waiting, Numbered
  <1>6. Resting(p)' /\ GivenUp(p)'
    BY <1>2 DEF SiteOK, Resting, GivenUp
  <1>7. TokenKept(p)'
    <2>1. TokenKept(p)
      BY DEF SiteOK
    <2> QED
      BY <1>3, <1>4, <2>1, TokenStays
  <1>8. Enlisted(p)' /\ OnDuty(p)'
    BY <1>3 DEF Enlisted, OnDuty
  <1>9. Current(p)'
    BY <1>2 DEF SiteOK, Current
  <1>10. Guided(p)'
    BY DEF Guided
  <1>11. Inquired(p)'
    BY DEF SiteOK, Inquired, Proceeds
  <1>12. \A r : Reached(p, r)' => Reached(p, r)
    BY <1>1, <1>2 DEF Reached
  <1> QED
    BY <1>5, <1>6, <1>7, <1>8, <1>9, <1>10, <1>11, <1>12 DEF SiteOK

(* s, which asks for the token, becomes the last of the chain.             *)
LEMMA Enrolled ==
    ASSUME NEW s \in Site, NEW r0, SiteOK(s), Proceeds, Asks(chan, s), last # s,
           AsksFor(chan, s, r0), last' = s, InChain(s)',
           \A r : Has(chain', s, r) => r = r0,
           Lost(chan', s) <=> Lost(chan, s), Broken(chan', s) => Broken(chan, s),
           Asks(chan', s) => AsksTwice(chan, s),
           s = Home /\ Asks(chan', s) => Home \in draining',
           \A r : AsksFor(chan', s, r) => AsksFor(chan, s, r),
           Saw(chan', s) => AsksThenSaw(chan, s),
           Old(chan', s, r0) => AsksThenOld(chan, s, r0),
           BrokenTwice(chan', s) => BrokenTwice(chan, s),
           SameDown(chan, chan', s), Token(s)' => Token(s),
           UNCHANGED <<status, successor, request, pfail, alive, perm>>
    PROVE  SiteOK(s)' /\ ~Reached(s, r0)'
  <1>1. /\ ~Told(chan, s) /\ successor[s] = NoSite /\ ~Broken(chan, s)
        /\ ~Token(s) /\ ~AsksThenSaw(chan, s) /\ ~AsksThenOld(chan, s, r0)
        /\ Sound(s) => status[s] = "REQUESTED"
        /\ s # Home => ~AsksTwice(chan, s)
    BY DEF SiteOK, Waiting
  <1>2. Sound(s)' <=> Sound(s)
    BY DEF Sound
  <1>3. Sound(s) => r0 = request[s]
    BY DEF SiteOK, Numbered
  <1>4. ~Told(chan', s) /\ successor'[s] = NoSite /\ ~Broken(chan', s) /\ Flagged(s)'
    BY <1>1 DEF SameDown, Flagged
  <1>5. OneDuty(s)'
    BY <1>4 DEF SiteOK, OneDuty
  <1>6. Waiting(s)'
    BY <1>1, <1>4 DEF Waiting
  <1>7. Numbered(s)'
    BY <1>2 DEF SiteOK, Numbered
  <1>8. Resting(s)' /\ TokenKept(s)' /\ GivenUp(s)'
    BY <1>1, <1>2, <1>4 DEF SiteOK, Resting, TokenKept, GivenUp, Token
  <1>9. Enlisted(s)' /\ OnDuty(s)'
    BY <1>4 DEF Enlisted, OnDuty
  <1>10. Current(s)'
    BY <1>1, <1>2, <1>3 DEF Current
  <1>11. Guided(s)'
    BY <1>4, SpecificObs DEF Guided
  <1>12. Inquired(s)'
    BY <1>4 DEF SiteOK, Inquired, SameDown, Proceeds
  <1>13. ~Reached(s, r0)'
    BY <1>1, <1>2, <1>3 DEF Reached
  <1> QED
    BY <1>5, <1>6, <1>7, <1>8, <1>9, <1>10, <1>11, <1>12, <1>13 DEF SiteOK

(* The home proxy asks for the token while it is the last: no answer.      *)
LEMMA AskedInVain ==
    ASSUME SiteOK(Home), Proceeds, last = Home, UNCHANGED <<chain, last>>,
           UNCHANGED <<status, successor, request, pfail, alive, perm>>,
           Lost(chan', Home) <=> Lost(chan, Home),
           Broken(chan', Home) => Broken(chan, Home),
           Asks(chan', Home) => Asks(chan, Home),
           \A r : AsksFor(chan', Home, r) => AsksFor(chan, Home, r),
           Saw(chan', Home) => Saw(chan, Home),
           \A r : Old(chan', Home, r) => Old(chan, Home, r),
           BrokenTwice(chan', Home) => BrokenTwice(chan, Home),
           SameDown(chan, chan', Home), Token(Home)' => Token(Home)
    PROVE  /\ SiteOK(Home)' /\ Flagged(Home)
           /\ \A r : Reached(Home, r)' => Reached(Home, r)
  <1>1. Flagged(Home) /\ Flagged(Home)'
    BY DEF Flagged
  <1>2. Sound(Home)' <=> Sound(Home)
    BY DEF Sound
  <1>3. /\ ~Told(chan, Home) /\ successor[Home] = NoSite /\ ~Broken(chan, Home)
    BY DEF SiteOK, OneDuty
  <1>4. ~Told(chan', Home) /\ successor'[Home] = NoSite /\ ~Broken(chan', Home)
    BY <1>3 DEF SameDown
  <1>5. OneDuty(Home)'
    BY <1>4 DEF SiteOK, OneDuty
  <1>6. Waiting(Home)'
    <2>1. Asks(chan', Home) => Home \in draining'
      BY DEF SiteOK, Waiting, Proceeds
    <2> QED
      BY <1>4, <2>1 DEF Waiting
  <1>7. Numbered(Home)' /\ Resting(Home)' /\ GivenUp(Home)'
    BY <1>1, <1>2 DEF SiteOK, Numbered, Resting, GivenUp
  <1>8. TokenKept(Home)'
    <2>1. TokenKept(Home) /\ (InChain(Home) => InChain(Home)')
      BY DEF SiteOK, InChain
    <2> QED
      BY <1>1, <2>1, TokenStays, HomeAssumption
  <1>9. Enlisted(Home)' /\ OnDuty(Home)' /\ Current(Home)'
    BY <1>1, <1>2 DEF SiteOK, Enlisted, OnDuty, Current, InChain
  <1>10. Guided(Home)'
    BY <1>4, SpecificObs DEF Guided
  <1>11. Inquired(Home)'
    BY <1>4 DEF SiteOK, Inquired, SameDown, Proceeds
  <1>12. \A r : Reached(Home, r)' => Reached(Home, r)
    BY <1>2 DEF Reached
  <1> QED
    BY <1>1, <1>5, <1>6, <1>7, <1>8, <1>9, <1>10, <1>11, <1>12 DEF SiteOK

-----------------------------------------------------------------------------
(* MIGM_GET: the last proxy is told to forward the token to s.             *)
LEMMA GetChain ==
    ASSUME IInv, ChainInv, NEW s \in Site, Get(s)
    PROVE  ChainInv'
  <1> DEFINE n == Taken(chan, s, Home)
  <1>1. TypeOK /\ Base /\ Quiet
    BY GetStep DEF IInv, ChainInv
  <1>2. /\ CanRecv(s, Home) /\ Head1(s, Home).to = "manager"
        /\ Head1(s, Home).type = "GET" /\ alive[Home]
        /\ UNCHANGED <<status, successor, request, pfail, mfail>>
    BY DEF Get, ManagerGets, proxyVars, CanRecv
  <1>3. /\ \A q \in Site : SameDown(chan, n, q)
        /\ \A q \in Site : q # s => SameUp(chan, n, q)
        /\ chan \in Channels(Message) /\ chan[<<s, Home>>] # <<>>
        /\ Head1(s, Home) = Head(chan[<<s, Home>>]) /\ Head1(s, Home).req \in Nat
        /\ n \in Channels(Message)
    BY <1>1, <1>2, ManagerReads
  <1>4. \A q \in Site : Token(q)' => Token(q)
    BY <1>1, QuietToken
  <1>0. PICK r0 \in Nat : r0 = Head1(s, Home).req
    BY <1>3
  <1> HIDE DEF n
  <1>5. /\ Asks(chan, s) /\ AsksFor(chan, s, r0)
        /\ Asks(n, s) => AsksTwice(chan, s)
        /\ Saw(n, s) => AsksThenSaw(chan, s)
        /\ Old(n, s, r0) => AsksThenOld(chan, s, r0)
    BY <1>0, <1>2, <1>3, TakenHome DEF n
  <1>6. /\ Lost(n, s) <=> Lost(chan, s)
        /\ Broken(n, s) => Broken(chan, s)
        /\ Asks(n, s) => Asks(chan, s)
        /\ Saw(n, s) => Saw(chan, s)
        /\ BrokenTwice(n, s) => BrokenTwice(chan, s)
    BY <1>2, <1>3, TakenHome DEF n
  <1>7. ASSUME NEW r
        PROVE  AsksFor(n, s, r) => AsksFor(chan, s, r)
    BY <1>2, <1>3, TakenHome DEF n
  <1>8. ASSUME NEW r
        PROVE  Old(n, s, r) => Old(chan, s, r)
    BY <1>2, <1>3, TakenHome DEF n
  <1>9. CASE mfail
    <2>1. /\ Consume(s, Home, To(s, ToProxy("PERMFAIL", NoSite, 0)))
          /\ UNCHANGED <<chain, last>>
      BY <1>9 DEF Get
    <2>2. Base'
      BY <1>1, <1>2, <2>1, ManagerRefuses DEF Base
    <2> QED
      BY <1>2, <1>9, <2>2 DEF ChainInv, Able
  <1>10. CASE ~mfail /\ s = last
    <2>1. Consume(s, Home, Silent) /\ UNCHANGED <<chain, last>>
      BY <1>10 DEF Get
    <2>2. /\ Base' /\ (NoFail(chan) => NoFail(chan'))
          /\ Proceeds /\ alive' = alive /\ perm' = perm /\ chan' = n
      BY <1>1, <1>2, <1>10, <2>1, ManagerListens DEF n
    <2>3. ChainOK /\ Shaped /\ Ordered /\ (\A q \in Site : SiteOK(q))
      BY <1>2, <1>10 DEF ChainInv, Able, ChainOK
    <2>4. s = Home
      BY <1>5, <1>10, <2>3 DEF SiteOK, Waiting
    <2>5. /\ SiteOK(Home)' /\ Flagged(Home)
          /\ \A r : Reached(Home, r)' => Reached(Home, r)
      BY <1>2, <1>3, <1>4, <1>6, <1>7, <1>8, <1>10, <2>1, <2>2, <2>3, <2>4,
         AskedInVain, HomeAssumption
    <2>6. \A q \in Site : q # Home => Idles(q)
      BY <1>2, <1>3, <1>4, <2>2, <2>4 DEF Idles, Steady
    <2>7. Shaped' /\ (\A q \in Site : SiteOK(q)') /\ Ordered'
      BY <1>4, <2>1, <2>2, <2>3, <2>5, <2>6, ProxyFrame, HomeAssumption
    <2> QED
      BY <2>2, <2>3, <2>7 DEF ChainInv, ChainOK
  <1>11. CASE ~mfail /\ s # last
    <2>0. PICK l0, c1 :
            l0 = last /\ c1 = IF InChain(s) THEN PoppedThrough(s) ELSE chain
      OBVIOUS
    <2>1. /\ Consume(s, Home, To(l0, ToProxy("FORWARD", s, 0)))
          /\ chain' = Append(c1, [site |-> s, req |-> r0])
          /\ last' = s
      BY <1>0, <1>11, <2>0 DEF Get
    <2>2. ChainOK /\ Shaped /\ Ordered /\ (\A q \in Site : SiteOK(q))
      BY <1>2, <1>11 DEF ChainInv, Able, ChainOK
    <2>3. chain \in Seq(Entry) /\ Distinct(chain) /\ Ends(chain, l0)
      BY <2>0, <2>2 DEF Shaped
    <2>4. l0 \in Site /\ l0 # s /\ Flagged(l0)
      BY <1>11, <2>0, <2>3, ChainFacts DEF Flagged
    <2>5. ~Told(chan, l0) /\ successor[l0] = NoSite /\ ~Broken(chan, l0)
      BY <2>0, <2>2, <2>4 DEF SiteOK, OneDuty
    <2>6. /\ EndOf(chain, c1) /\ ~Visits(c1, s)
          /\ \A q \in Site : q # s /\ InChain(q) /\ ~Visits(c1, q)
                => ~Flagged(q) /\ ~Token(q)
      <3>1. CASE ~InChain(s)
        BY <2>0, <2>3, <3>1, WholeChain DEF InChain
      <3>2. CASE InChain(s)
        <4>1. c1 = PoppedThrough(s) /\ ~Ends(chain, s)
          BY <2>0, <2>3, <2>4, <3>2, ChainFacts
        <4>2. PICK r \in Nat : Has(chain, s, r)
          BY <2>3, <3>2, ChainFacts DEF InChain
        <4>3. /\ EndOf(chain, c1) /\ ~Visits(c1, s)
              /\ \A a : Visits(chain, a) /\ ~Visits(c1, a)
                   => a = s \/ Ahead(chain, a, s, r)
          BY <2>3, <3>2, <4>1, <4>2, PoppedEnds
        <4>4. Reached(s, r)
          BY <1>5, <1>11 DEF Reached
        <4> QED
          BY <2>2, <4>3, <4>4 DEF InChain, Ordered
      <3> QED
        BY <3>1, <3>2
    <2>7. c1 \in Seq(Entry) /\ Distinct(c1) /\ Ends(c1, l0)
      BY <2>3, <2>6 DEF EndOf
    <2>19. Appended(c1, chain', s, r0)
      BY <1>0, <2>1, <2>6, <2>7, AppendedEntry
    <2>8. /\ chain' \in Seq(Entry) /\ Distinct(chain') /\ Ends(chain', s)
          /\ \A a : Visits(chain', a) <=> Visits(c1, a) \/ a = s
          /\ \A a, t : Has(chain', a, t) => Has(c1, a, t) \/ (a = s /\ t = r0)
      BY <2>19 DEF Appended
    <2>9. /\ \A a, b : Adjacent(c1, a, b) => Adjacent(chain', a, b)
          /\ \A a : Ends(c1, a) => Adjacent(chain', a, s)
          /\ \A a, b : Adjacent(chain', a, b)
                 => Adjacent(c1, a, b) \/ (Ends(c1, a) /\ b = s)
          /\ \A a, b, t : Ahead(chain', a, b, t)
                 => Ahead(c1, a, b, t) \/ (b = s /\ t = r0 /\ a # s)
      BY <2>19 DEF Appended
    <2>10. /\ Base' /\ Proceeds /\ alive' = alive /\ perm' = perm
           /\ NoFail(chan) => NoFail(chan')
           /\ \A q \in Site : SameUp(n, chan', q)
           /\ \A q \in Site : q # l0 => SameDown(chan, chan', q)
           /\ Told(chan', l0) <=> alive[l0]
           /\ \A y : ToldOf(chan', l0, y) => y = s
           /\ \A y : ToldThenChecked(chan', l0, y) => ToldThenChecked(chan, l0, y)
           /\ s = Home /\ Asks(chan', Home) => Home \in draining'
           /\ Home \in draining => s = Home
      BY <1>1, <1>2, <1>11, <2>1, <2>4, <2>5, ManagerForwards DEF n
    <2>11. ~Asks(chan, l0)
      BY <2>0, <2>2, <2>4, <2>10 DEF SiteOK, Waiting
    <2>12. \A q \in Site : q # s => SameUp(chan, chan', q)
      BY <1>3, <2>10, SameTrans
    <2>13. /\ SiteOK(l0)'
           /\ \A r : Reached(l0, r)' => Reached(l0, r)
      <3>1. SameUp(chan, chan', l0)
        BY <2>4, <2>12
      <3>2. /\ ~Broken(chan', l0)
            /\ Lost(chan', l0) <=> Lost(chan, l0)
            /\ Asks(chan', l0) => Asks(chan, l0)
            /\ Saw(chan', l0) => Saw(chan, l0)
            /\ \A r : Old(chan', l0, r) => Old(chan, l0, r)
            /\ BrokenTwice(chan', l0) => BrokenTwice(chan, l0)
        BY <2>5, <3>1 DEF SameUp
      <3>3. /\ Adjacent(chain', l0, s) /\ InChain(l0)'
            /\ \A r : Has(chain', l0, r) => Has(chain, l0, r)
        <4>1. Visits(c1, l0)
          BY <2>7, ChainFacts
        <4> QED
          BY <2>4, <2>6, <2>7, <2>8, <2>9, <4>1 DEF EndOf, InChain
      <3>4. last' # l0
        BY <2>1, <2>4
      <3> QED
        BY <1>2, <1>4, <2>2, <2>4, <2>5, <2>10, <2>11, <3>2, <3>3, <3>4, Directed
    <2>14. SiteOK(s)' /\ ~Reached(s, r0)'
      <3>1. SameUp(n, chan', s) /\ SameDown(chan, chan', s)
        BY <2>4, <2>10
      <3>2. /\ Lost(chan', s) <=> Lost(chan, s)
            /\ Broken(chan', s) => Broken(chan, s)
            /\ Asks(chan', s) => AsksTwice(chan, s)
            /\ \A r : AsksFor(chan', s, r) => AsksFor(chan, s, r)
            /\ Saw(chan', s) => AsksThenSaw(chan, s)
            /\ Old(chan', s, r0) => AsksThenOld(chan, s, r0)
            /\ BrokenTwice(chan', s) => BrokenTwice(chan, s)
        BY <1>5, <1>6, <1>7, <3>1 DEF SameUp
      <3>3. InChain(s)' /\ \A r : Has(chain', s, r) => r = r0
        BY <2>6, <2>7, <2>8, ChainFacts DEF InChain
      <3>4. s = Home /\ Asks(chan', s) => Home \in draining'
        BY <2>10
      <3> QED
        BY <1>2, <1>4, <1>5, <1>11, <2>1, <2>2, <2>10, <3>1, <3>2, <3>3, <3>4, Enrolled
    <2>15. ASSUME NEW q \in Site, q # s, q # l0
           PROVE  /\ SiteOK(q)'
                  /\ Flagged(q)' <=> Flagged(q)
                  /\ \A r : Reached(q, r)' => Reached(q, r)
      <3>1. Idles(q)
        BY <1>2, <1>4, <2>10, <2>12, <2>15 DEF Idles, Steady
      <3>2. ~Ends(c1, q)
        BY <2>7, <2>15, ChainFacts
      <3>3. Follows(q)
        <4>1. InChain(q)' <=> Visits(c1, q)
          BY <2>8, <2>15 DEF InChain
        <4>2. /\ InChain(q)' => InChain(q)
              /\ InChain(q) /\ ~InChain(q)' => ~Flagged(q) /\ ~Token(q)'
          BY <1>4, <2>6, <2>15, <4>1 DEF EndOf, InChain
        <4>3. \A r : Has(chain', q, r) => Has(chain, q, r)
          BY <2>6, <2>8, <2>15 DEF EndOf
        <4>4. \A x : Adjacent(chain', q, x) => Adjacent(chain, q, x)
          BY <2>6, <2>9, <3>2 DEF EndOf
        <4>5. \A x : Adjacent(chain, q, x) /\ InChain(q)' => Adjacent(chain', q, x)
          BY <2>6, <2>9, <4>1 DEF EndOf
        <4> QED
          BY <4>2, <4>3, <4>4, <4>5 DEF Follows
      <3>4. last' = q <=> last = q
        BY <2>0, <2>1, <2>15
      <3>5. /\ SiteOK(q)'
            /\ Flagged(q)' <=> Flagged(q)
            /\ \A r : Reached(q, r)' => Reached(q, r) \/ Token(q)'
        BY <2>2, <2>10, <3>1, <3>3, <3>4, SettledSite
      <3> QED
        BY <1>4, <3>5 DEF Reached
    <2>16. \A q \in Site : SiteOK(q)'
      BY <2>13, <2>14, <2>15
    <2>17. Shaped'
      BY <2>1, <2>8 DEF Shaped
    <2>18. Ordered'
      <3> SUFFICES ASSUME NEW a, NEW b, NEW r, Ahead(chain', a, b, r), Reached(b, r)'
                   PROVE  ~Flagged(a)' /\ ~Token(a)'
        BY DEF Ordered
      <3>1. Ahead(c1, a, b, r)
        BY <2>9, <2>14
      <3>2. Visits(c1, a) /\ Visits(c1, b)
        BY <2>7, <3>1, ChainFacts
      <3>3. a # s /\ b # s
        BY <2>6, <3>2
      <3>4. Ahead(chain, a, b, r)
        BY <2>6, <3>1 DEF EndOf
      <3>5. a \in Site /\ b \in Site
        BY <2>3, <3>4, ChainFacts
      <3>6. Reached(b, r)
        BY <2>13, <2>15, <3>3, <3>5
      <3>7. ~Flagged(a) /\ ~Token(a)
        BY <2>2, <3>4, <3>6 DEF Ordered
      <3> QED
        BY <1>4, <2>4, <2>15, <3>3, <3>5, <3>7
    <2> QED
      BY <2>2, <2>10, <2>16, <2>17, <2>18 DEF ChainInv, ChainOK
  <1> QED
    BY <1>9, <1>10, <1>11

-----------------------------------------------------------------------------
(* s, which has reported its last successor, becomes the last itself.      *)
LEMMA Promoted ==
    ASSUME NEW s \in Site, SiteOK(s), Flagged(s), Proceeds,
           ~Told(chan, s), successor[s] = NoSite, ~Asks(chan, s), last' = s,
           ~Broken(chan', s), Lost(chan', s) <=> Lost(chan, s),
           Asks(chan', s) => Asks(chan, s), Saw(chan', s) => Saw(chan, s),
           \A r : Old(chan', s, r) => Old(chan, s, r),
           BrokenTwice(chan', s) => BrokenTwice(chan, s),
           SameDown(chan, chan', s), InChain(s)',
           \A r : Has(chain', s, r) => Has(chain, s, r),
           UNCHANGED <<status, successor, request, pfail, alive, perm>>,
           Token(s)' => Token(s)
    PROVE  /\ SiteOK(s)'
           /\ \A r : Reached(s, r)' => Reached(s, r)
  <1>1. ~Asks(chan', s) /\ \A r : ~AsksFor(chan', s, r)
    BY SpecificObs
  <1>2. Sound(s)' <=> Sound(s)
    BY DEF Sound
  <1>3. Flagged(s)' /\ ~Told(chan', s)
    BY DEF Flagged, SameDown
  <1>4. OneDuty(s)' /\ Waiting(s)' /\ Numbered(s)'
    BY <1>1, <1>3 DEF SiteOK, OneDuty, Waiting, Numbered
  <1>5. Resting(s)' /\ GivenUp(s)'
    BY <1>2 DEF SiteOK, Resting, GivenUp
  <1>6. TokenKept(s)'
    BY <1>3 DEF SiteOK, TokenKept, Token, Holder
  <1>7. Enlisted(s)' /\ OnDuty(s)'
    BY <1>3 DEF Enlisted, OnDuty
  <1>8. Current(s)'
    BY <1>2 DEF SiteOK, Current
  <1>9. Guided(s)'
    BY <1>3, SpecificObs DEF Guided
  <1>10. Inquired(s)'
    BY DEF SiteOK, Inquired, SameDown, Proceeds
  <1>11. \A r : Reached(s, r)' => Reached(s, r)
    BY <1>1, <1>2 DEF Reached
  <1> QED
    BY <1>4, <1>5, <1>6, <1>7, <1>8, <1>9, <1>10, <1>11 DEF SiteOK

(* The last site, which has crashed, leaves the chain.                     *)
LEMMA DroppedSite ==
    ASSUME NEW y \in Site, y # Home, SiteOK(y), last = y, last' # y, Proceeds,
           Steady(y), ~alive[y], Token(y)' => Token(y)
    PROVE  SiteOK(y)'
  <1>1. /\ ~Told(chan, y) /\ successor[y] = NoSite /\ ~Broken(chan, y)
        /\ ~Asks(chan, y) /\ ~Token(y)
    BY DEF SiteOK, OneDuty, Waiting, TokenKept, Token, Holder
  <1>2. /\ ~Told(chan', y) /\ successor'[y] = NoSite /\ ~Broken(chan', y)
        /\ ~Asks(chan', y) /\ ~Token(y)' /\ ~alive'[y]
    BY <1>1 DEF Steady, SameUp, SameDown
  <1>3. ~Flagged(y)'
    BY <1>2 DEF Flagged
  <1>4. Sound(y)' <=> Sound(y)
    BY DEF Sound, Steady, SameUp
  <1>5. OneDuty(y)'
    BY <1>2 DEF SiteOK, OneDuty, Steady, SameUp
  <1>6. Waiting(y)' /\ Numbered(y)' /\ Resting(y)'
    BY <1>2, <1>3, SpecificObs DEF Waiting, Numbered, Resting
  <1>7. TokenKept(y)' /\ Enlisted(y)' /\ OnDuty(y)' /\ Current(y)'
    BY <1>2, <1>3 DEF TokenKept, Token, Enlisted, OnDuty, Current
  <1>8. GivenUp(y)'
    BY <1>4 DEF SiteOK, GivenUp, Steady
  <1>9. Guided(y)'
    BY <1>2, SpecificObs DEF Guided
  <1>10. Inquired(y)'
    BY <1>2 DEF SiteOK, Inquired, Steady, SameDown, Proceeds
  <1> QED
    BY <1>5, <1>6, <1>7, <1>8, <1>9, <1>10 DEF SiteOK

(* MIGM_FAILED_SUCC: the successor of s leaves the chain.                  *)
LEMMA FailedSuccChain ==
    ASSUME IInv, ChainInv, NEW s \in Site, FailedSucc(s)
    PROVE  ChainInv'
  <1> DEFINE n == Taken(chan, s, Home)
  <1>1. TypeOK /\ Base /\ Quiet
    BY FailedSuccStep DEF IInv, ChainInv
  <1>2. /\ CanRecv(s, Home) /\ Head1(s, Home).to = "manager"
        /\ Head1(s, Home).type = "FAILED_SUCC" /\ alive[Home]
        /\ UNCHANGED <<status, successor, request, pfail, mfail>>
    BY DEF FailedSucc, ManagerGets, proxyVars, CanRecv
  <1>3. /\ \A q \in Site : SameDown(chan, n, q)
        /\ \A q \in Site : q # s => SameUp(chan, n, q)
        /\ chan \in Channels(Message) /\ chan[<<s, Home>>] # <<>>
        /\ Head1(s, Home) = Head(chan[<<s, Home>>])
        /\ n \in Channels(Message)
    BY <1>1, <1>2, ManagerReads
  <1>4. \A q \in Site : Token(q)' => Token(q)
    BY <1>1, QuietToken
  <1> HIDE DEF n
  <1>5. Broken(chan, s) /\ (Broken(n, s) => BrokenTwice(chan, s))
    BY <1>2, <1>3, TakenHome DEF n
  <1>6. /\ Lost(n, s) <=> Lost(chan, s)
        /\ Asks(n, s) => Asks(chan, s)
        /\ Saw(n, s) => Saw(chan, s)
        /\ BrokenTwice(n, s) => BrokenTwice(chan, s)
    BY <1>2, <1>3, TakenHome DEF n
  <1>7. ASSUME NEW r
        PROVE  Old(n, s, r) => Old(chan, s, r)
    BY <1>2, <1>3, TakenHome DEF n
  <1>8. CASE mfail
    <2>1. Consume(s, Home, Silent) /\ UNCHANGED <<chain, last>>
      BY <1>8 DEF FailedSucc
    <2>2. mfail' => chain' = <<>> /\ last' = NoSite
      BY <1>1, <1>8, <2>1 DEF Base
    <2>3. Base'
      BY <1>1, <1>2, <2>1, <2>2, ManagerListens
    <2> QED
      BY <1>2, <1>8, <2>3 DEF ChainInv, Able
  <1>9. CASE ~mfail /\ ~HasSuccessor(s)
    <2>1. Crash(Home) /\ UNCHANGED <<chain, last>>
      BY <1>9 DEF FailedSucc
    <2>2. UNCHANGED managerVars
      BY <2>1 DEF FailedSucc, managerVars
    <2>3. Base' /\ ~alive'[Home]
      BY <1>1, <1>2, <2>1, <2>2, CrashBase, HomeAssumption DEF TypeOK
    <2> QED
      BY <2>3 DEF ChainInv, Able
  <1>10. CASE ~mfail /\ HasSuccessor(s)
    <2>1. chain' = ChainWithoutSuccessor(s)
      BY <1>10 DEF FailedSucc
    <2>2. ChainOK /\ Shaped /\ Ordered /\ (\A q \in Site : SiteOK(q))
      BY <1>2, <1>10 DEF ChainInv, Able, ChainOK
    <2>3. chain \in Seq(Entry) /\ Distinct(chain) /\ Ends(chain, last)
      BY <2>2 DEF Shaped
    <2>4. PICK y \in Site : Removed(chain', s, y)
      BY <1>10, <2>1, <2>3, RemovedSuccessor
    <2>5. /\ Flagged(s) /\ last # s /\ ~Told(chan, s) /\ successor[s] = NoSite
          /\ ~Asks(chan, s) /\ ~Broken(n, s)
      BY <1>5, <2>2 DEF SiteOK, OneDuty, Waiting, Flagged
    <2>6. y # s /\ Visits(chain, s) /\ Visits(chain, y)
      BY <2>3, <2>4, AdjacentFacts DEF Removed
    <2>7. ~alive[y] /\ y # Home
      BY <1>2, <1>5, <2>2, <2>4 DEF SiteOK, Guided, Removed, Dead
    <2>8. /\ chain' \in Seq(Entry) /\ Distinct(chain')
          /\ \A a : Visits(chain', a) <=> Visits(chain, a) /\ a # y
          /\ \A a, r : Has(chain', a, r) => Has(chain, a, r)
          /\ \A a, b, r : Ahead(chain', a, b, r) => Ahead(chain, a, b, r)
      BY <2>4 DEF Removed
    <2>9. InChain(s)' /\ InChain(s)
      BY <2>6, <2>8 DEF InChain
    <2>10. ASSUME NEW q \in Site, q # s
           PROVE  Follows(q)
      <3>1. /\ \A x : Adjacent(chain', q, x) => Adjacent(chain, q, x)
            /\ \A x : q # y /\ Adjacent(chain, q, x) => Adjacent(chain', q, x)
        BY <2>4, <2>10 DEF Removed
      <3>2. InChain(q)' <=> InChain(q) /\ q # y
        BY <2>8 DEF InChain
      <3> QED
        BY <2>7, <2>8, <3>1, <3>2 DEF Follows
    (* every site that is still in the chain *)
    <2>11. ASSUME \A q \in Site : SiteOK(q)', Ends(chain', last'),
                  \A q \in Site : q # y => (Flagged(q)' => Flagged(q)),
                  \A q \in Site : \A r : q # y /\ Reached(q, r)' => Reached(q, r)
           PROVE  Shaped' /\ Ordered'
      <3>1. Shaped'
        BY <2>8, <2>11 DEF Shaped
      <3>2. ASSUME NEW a, NEW b, NEW r, Ahead(chain', a, b, r), Reached(b, r)'
            PROVE  ~Flagged(a)' /\ ~Token(a)'
        <4>1. Ahead(chain, a, b, r)
          BY <2>8, <3>2
        <4>2. a \in Site /\ b \in Site
          BY <2>3, <4>1, ChainFacts
        <4>3. Visits(chain', a) /\ Visits(chain', b)
          BY <2>8, <3>2, ChainFacts
        <4>4. a # y /\ b # y
          BY <2>8, <4>3
        <4>5. Reached(b, r)
          BY <2>11, <3>2, <4>2, <4>4
        <4> QED
          BY <1>4, <2>2, <2>11, <4>1, <4>2, <4>4, <4>5 DEF Ordered
      <3> QED
        BY <3>1, <3>2 DEF Ordered
    <2>12. CASE Position(s) + 1 < Len(chain)
      <3>1. PICK x \in Site : x = chain[Position(s) + 2].site
        BY <2>4, <2>12 DEF Removed
      <3>2. Consume(s, Home, To(s, ToProxy("FORWARD", x, 0))) /\ last' = last
        BY <1>10, <2>12, <3>1 DEF FailedSucc
      <3>3. /\ Base' /\ Proceeds /\ alive' = alive /\ perm' = perm
            /\ NoFail(chan) => NoFail(chan')
            /\ \A q \in Site : SameUp(n, chan', q)
            /\ \A q \in Site : q # s => SameDown(chan, chan', q)
            /\ Told(chan', s) <=> alive[s]
            /\ \A z : ToldOf(chan', s, z) => z = x
            /\ \A z : ToldThenChecked(chan', s, z) => ToldThenChecked(chan, s, z)
        BY <1>1, <1>2, <1>10, <2>5, <3>2, ManagerForwards DEF n
      <3>4. \A q \in Site : q # s => SameUp(chan, chan', q)
        BY <1>3, <3>3, SameTrans
      <3>5. /\ SiteOK(s)'
            /\ \A r : Reached(s, r)' => Reached(s, r)
        <4>1. SameUp(n, chan', s)
          BY <3>3
        <4>2. /\ ~Broken(chan', s)
              /\ Lost(chan', s) <=> Lost(chan, s)
              /\ Asks(chan', s) => Asks(chan, s)
              /\ Saw(chan', s) => Saw(chan, s)
              /\ \A r : Old(chan', s, r) => Old(chan, s, r)
              /\ BrokenTwice(chan', s) => BrokenTwice(chan, s)
          BY <1>6, <1>7, <2>5, <4>1 DEF SameUp
        <4>3. Adjacent(chain', s, x) /\ last' # s
          BY <2>4, <2>5, <2>12, <3>1, <3>2 DEF Removed
        <4> QED
          BY <1>2, <1>4, <2>2, <2>5, <2>8, <2>9, <3>3, <4>2, <4>3, Directed
      <3>6. ASSUME NEW q \in Site, q # s
            PROVE  /\ SiteOK(q)'
                   /\ Flagged(q)' <=> Flagged(q)
                   /\ \A r : Reached(q, r)' => Reached(q, r)
        <4>1. Idles(q)
          BY <1>2, <1>4, <3>3, <3>4, <3>6 DEF Idles, Steady
        <4>2. /\ SiteOK(q)'
              /\ Flagged(q)' <=> Flagged(q)
              /\ \A r : Reached(q, r)' => Reached(q, r) \/ Token(q)'
          BY <2>2, <2>10, <3>2, <3>3, <3>6, <4>1, SettledSite
        <4> QED
          BY <1>4, <4>2 DEF Reached
      <3>7. Ends(chain', last')
        BY <2>3, <2>4, <2>12, <3>2 DEF Removed
      <3>8. Shaped' /\ Ordered'
        BY <2>5, <2>11, <3>5, <3>6, <3>7
      <3> QED
        BY <2>2, <3>3, <3>5, <3>6, <3>8 DEF ChainInv, ChainOK
    <2>13. CASE ~(Position(s) + 1 < Len(chain))
      <3>1. Consume(s, Home, Silent) /\ last' = s
        BY <1>10, <2>13 DEF FailedSucc
      <3>2. /\ Base' /\ (NoFail(chan) => NoFail(chan'))
            /\ Proceeds /\ alive' = alive /\ perm' = perm /\ chan' = n
        BY <1>1, <1>2, <1>10, <3>1, ManagerListens DEF n
      <3>3. Ends(chain', last') /\ last = y
        BY <2>3, <2>4, <2>13, <3>1, ChainFacts DEF Removed
      <3>4. /\ SiteOK(s)'
            /\ \A r : Reached(s, r)' => Reached(s, r)
        BY <1>2, <1>3, <1>4, <1>6, <1>7, <2>2, <2>5, <2>8, <2>9, <3>1, <3>2, Promoted
      <3>5. SiteOK(y)'
        <4>1. Steady(y)
          BY <1>2, <1>3, <2>6, <3>2 DEF Steady
        <4> QED
          BY <1>4, <2>2, <2>6, <2>7, <3>1, <3>2, <3>3, <4>1, DroppedSite
      <3>6. ASSUME NEW q \in Site, q # s, q # y
            PROVE  /\ SiteOK(q)'
                   /\ Flagged(q)' <=> Flagged(q)
                   /\ \A r : Reached(q, r)' => Reached(q, r)
        <4>1. Idles(q)
          BY <1>2, <1>3, <1>4, <3>2, <3>6 DEF Idles, Steady
        <4>2. last' = q <=> last = q
          BY <3>1, <3>3, <3>6
        <4>3. /\ SiteOK(q)'
              /\ Flagged(q)' <=> Flagged(q)
              /\ \A r : Reached(q, r)' => Reached(q, r) \/ Token(q)'
          BY <2>2, <2>10, <3>2, <3>6, <4>1, <4>2, SettledSite
        <4> QED
          BY <1>4, <4>3 DEF Reached
      <3>7. Shaped' /\ Ordered'
        BY <2>5, <2>11, <3>3, <3>4, <3>5, <3>6
      <3> QED
        BY <2>2, <3>2, <3>4, <3>5, <3>6, <3>7 DEF ChainInv, ChainOK
    <2> QED
      BY <2>12, <2>13
  <1> QED
    BY <1>8, <1>9, <1>10

-----------------------------------------------------------------------------
(* Site p learns that s has crashed and drops what s has sent.             *)
Dropped(c, s, p) == [c EXCEPT ![<<s, p>>] = <<>>]

LEMMA DetectNet ==
    ASSUME TypeOK, Base, NEW p \in Site, NEW s \in Site, NEW out,
           CanDetect(p, s), Detect(p, s, out), NEW e, e = Dropped(chan, s, p)
    PROVE  /\ e \in Channels(Message) /\ chan' = Sent(e, p, out)
           /\ e[<<s, p>>] = <<>> /\ chan \in Channels(Message)
           /\ alive' = alive /\ draining' = draining
           /\ \A q \in Site : q # p => perm'[q] = perm[q]
           /\ perm'[p] = perm[p] \cup {s}
           /\ alive[p] /\ ~alive[s] /\ p # s
           /\ Proceeds /\ Clean'
           /\ \A q, r \in Site : r \in perm'[q] => ~alive'[r]
           /\ FromHome(e) /\ NoOwnNeed(e) /\ (NoFail(chan) => NoFail(e))
           /\ \A q \in Site : q # s \/ p # Home => SameUp(chan, e, q)
           /\ \A q \in Site : q # p \/ s # Home => SameDown(chan, e, q)
           /\ \A q \in Site : ToldLess(chan, e, q)
  <1>1. /\ chan \in Channels(Message) /\ alive[p] /\ ~alive[s] /\ p # s
        /\ perm \in [Site -> SUBSET Site] /\ <<s, p>> \in Site \X Site
    BY DEF TypeOK, Channels, CanDetect, Idle
  <1>2. /\ e \in Channels(Message) /\ e[<<s, p>>] = <<>>
        /\ \A l \in Site \X Site : l # <<s, p>> => e[l] = chan[l]
    BY <1>1, EmptySeq DEF Dropped, Channels
  <1>3. \A l \in Site \X Site : e[l] = chan[l] \/ e[l] = <<>>
    BY <1>2
  <1>4. /\ chan' = Sent(e, p, out) /\ alive' = alive /\ draining' = draining
        /\ \A q \in Site : q # p => perm'[q] = perm[q]
        /\ perm'[p] = perm[p] \cup {s}
    BY <1>1 DEF Detect, Dropped
  <1>5. FromHome(e) /\ NoOwnNeed(e) /\ (NoFail(chan) => NoFail(e))
    BY <1>3, EmptiedBase DEF Base
  <1>6. Clean'
    <2> SUFFICES ASSUME NEW r \in Site, NEW d \in Site, ~alive[d]
                 PROVE  chan'[<<r, d>>] = <<>>
      BY <1>4 DEF Clean
    <2>1. chan'[<<r, d>>] = e[<<r, d>>]
      BY <1>2, <1>4, SentClean
    <2>2. <<r, d>> \in Site \X Site /\ chan[<<r, d>>] = <<>>
      BY DEF Base, Clean
    <2> QED
      BY <1>3, <2>1, <2>2
  <1>7. \A q, r \in Site : r \in perm'[q] => ~alive'[r]
    BY <1>1, <1>4 DEF Base
  <1>8. ASSUME NEW q \in Site, q # s \/ p # Home
        PROVE  SameUp(chan, e, q)
    <2>1. <<q, Home>> \in Site \X Site /\ <<q, Home>> # <<s, p>>
      BY <1>8, HomeAssumption
    <2> QED
      BY <1>2, <2>1, SameLink
  <1>9. ASSUME NEW q \in Site, q # p \/ s # Home
        PROVE  SameDown(chan, e, q)
    <2>1. <<Home, q>> \in Site \X Site /\ <<Home, q>> # <<s, p>>
      BY <1>9, HomeAssumption
    <2> QED
      BY <1>2, <2>1, SameLink
  <1>10. ASSUME NEW q \in Site
         PROVE  ToldLess(chan, e, q)
    <2>1. <<Home, q>> \in Site \X Site
      BY HomeAssumption
    <2> QED
      BY <1>3, <2>1, EmptiedOrder DEF ToldLess, Told, ToldTwice
  <1>11. Proceeds
    BY <1>4 DEF Proceeds
  <1> QED
    BY <1>1, <1>2, <1>4, <1>5, <1>6, <1>7, <1>8, <1>9, <1>10, <1>11

(* Site p reports that its successor has failed.                           *)
Complaint(c, n, p) ==
    /\ Broken(n, p)
    /\ Lost(n, p) <=> Lost(c, p)
    /\ Asks(n, p) <=> Asks(c, p)
    /\ \A r : AsksFor(n, p, r) <=> AsksFor(c, p, r)
    /\ Saw(n, p) => Saw(c, p)
    /\ \A r : Old(n, p, r) => Old(c, p, r)
    /\ BrokenTwice(n, p) => BrokenTwice(c, p) \/ Broken(c, p)

LEMMA SentComplaint ==
    ASSUME NEW c \in Channels(Message), NEW p \in Site, NEW n,
           n = Sent(c, p, sendToManager("FAILED_SUCC", 0))
    PROVE  /\ Reaches(p, Home) => Complaint(c, n, p)
           /\ \A q \in Site : SameDown(c, n, q)
           /\ \A q \in Site : q # p => SameUp(c, n, q)
           /\ FromHome(c) => FromHome(n)
           /\ NoOwnNeed(c) => NoOwnNeed(n)
           /\ NoFail(c) => NoFail(n)
  <1> DEFINE m == ToManager("FAILED_SUCC", 0)
  <1>1. /\ m \in Message /\ m.type = "FAILED_SUCC" /\ m \notin PermFails
        /\ m.type \notin DownTypes /\ n = Sent(c, p, To(Home, m))
    <2>1. "FAILED_SUCC" \in ToManagerTypes /\ 0 \in Nat
      BY DEF ToManagerTypes
    <2> QED
      BY <2>1, ManagerKinds DEF sendToManager
  <1> HIDE DEF m
  <1>2. ASSUME Reaches(p, Home)
        PROVE  Complaint(c, n, p)
    <2>1. /\ Lost(n, p) <=> Lost(c, p)
          /\ Broken(n, p)
          /\ Asks(n, p) <=> Asks(c, p)
      BY <1>1, <1>2, SentHome
    <2>2. \A r : AsksFor(n, p, r) <=> AsksFor(c, p, r)
      BY <1>1, <1>2, SentHome
    <2>3. Saw(n, p) => Saw(c, p)
      BY <1>1, <1>2, SentHome
    <2>4. \A r : Old(n, p, r) => Old(c, p, r)
      BY <1>1, <1>2, SentHome
    <2>5. BrokenTwice(n, p) => BrokenTwice(c, p) \/ Broken(c, p)
      BY <1>1, <1>2, SentHome
    <2> QED
      BY <2>1, <2>2, <2>3, <2>4, <2>5 DEF Complaint
  <1>3. ASSUME NEW q \in Site
        PROVE  SameDown(c, n, q) /\ (q # p => SameUp(c, n, q))
    BY <1>1, SentSame
  <1>4. /\ FromHome(c) => FromHome(n)
        /\ NoOwnNeed(c) => NoOwnNeed(n)
        /\ NoFail(c) => NoFail(n)
    BY <1>1, SentBase
  <1> QED
    BY <1>2, <1>3, <1>4

LEMMA ComplaintSame ==
    ASSUME NEW c, NEW n, NEW o, NEW p
    PROVE  /\ SameUp(c, n, p) /\ Complaint(n, o, p) => Complaint(c, o, p)
           /\ Complaint(c, n, p) /\ SameUp(n, o, p) => Complaint(c, o, p)
  BY DEF SameUp, Complaint

LEMMA DetectRemoteChain ==
    ASSUME IInv, ChainInv, NEW p \in Site, NEW s \in Site, DetectRemote(p, s)
    PROVE  ChainInv'
  <1> DEFINE e == Dropped(chan, s, p)
             out == ProxyDetectOut(p, s)
  <1>1. TypeOK /\ Base /\ Quiet
    BY DetectRemoteStep DEF IInv, ChainInv
  <1>2. /\ p # Home /\ CanDetect(p, s) /\ Detect(p, s, out)
        /\ UNCHANGED <<status, request, chain, last, mfail>>
    BY DEF DetectRemote, managerVars
  <1> HIDE DEF out
  <1>3a. /\ e \in Channels(Message) /\ chan' = Sent(e, p, out)
         /\ alive' = alive /\ \A q \in Site : q # p => perm'[q] = perm[q]
    BY <1>1, <1>2, DetectNet
  <1>3b. alive[p] /\ ~alive[s] /\ p # s /\ Proceeds /\ Clean'
    BY <1>1, <1>2, DetectNet
  <1>3c. /\ \A q, r \in Site : r \in perm'[q] => ~alive'[r]
         /\ FromHome(e) /\ NoOwnNeed(e) /\ (NoFail(chan) => NoFail(e))
    BY <1>1, <1>2, DetectNet
  <1>3. /\ e \in Channels(Message) /\ chan' = Sent(e, p, out)
        /\ alive' = alive /\ perm'[Home] = perm[Home]
        /\ alive[p] /\ ~alive[s] /\ p # s /\ Proceeds /\ Clean'
        /\ \A q, r \in Site : r \in perm'[q] => ~alive'[r]
        /\ FromHome(e) /\ NoOwnNeed(e) /\ (NoFail(chan) => NoFail(e))
    BY <1>2, <1>3a, <1>3b, <1>3c, HomeAssumption
  <1>4. /\ \A q \in Site : SameUp(chan, e, q)
        /\ \A q \in Site : s # Home => SameDown(chan, e, q)
        /\ \A q \in Site : ToldLess(chan, e, q)
    BY <1>1, <1>2, DetectNet, ZenonT(40)
  <1> HIDE DEF e
  <1>5. mfail' => chain' = <<>> /\ last' = NoSite
    BY <1>1, <1>2 DEF Base
  <1>6. \A q \in Site : Token(q)' => Token(q)
    BY <1>1, QuietToken
  <1>7. CASE ~ProxyDetects(p, s)
    <2>1. chan' = e
      BY <1>3, <1>7, SentSilent DEF out, ProxyDetectOut
    <2>2. /\ \A q \in Site : successor'[q] = successor[q] \/ successor'[q] = NoSite
          /\ s # Home => successor' = successor /\ pfail' = pfail
      BY <1>1, <1>7 DEF DetectRemote, ProxyLostToken, TypeOK
    <2>3. Base'
      BY <1>1, <1>3, <1>4, <1>5, <2>1, <2>2, BaseFrame
    <2>4. ASSUME Able'
          PROVE  ChainOK'
      <3>1. s # Home /\ ChainOK
        BY <1>2, <1>3, <2>4 DEF Able, ChainInv
      <3>2. \A q \in Site : Steady(q)
        BY <1>2, <1>3, <1>4, <2>1, <2>2, <3>1 DEF Steady
      <3> QED
        BY <1>2, <1>3, <1>6, <2>1, <3>1, <3>2, SteadyFrame DEF ChainOK
    <2> QED
      BY <2>3, <2>4 DEF ChainInv
  <1>8. CASE ProxyDetects(p, s)
    <2>1. /\ s # Home /\ successor[p] = s /\ successor[p] # NoSite
          /\ successor' = [successor EXCEPT ![p] = NoSite] /\ pfail' = pfail
      BY <1>8, NoSiteAssumption DEF DetectRemote, ProxyDetects
    <2>2. successor'[p] = NoSite /\ \A q \in Site : q # p => successor'[q] = successor[q]
      BY <1>1, <2>1 DEF TypeOK
    <2>3. chan' = Sent(e, p, sendToManager("FAILED_SUCC", 0))
      BY <1>3, <1>8 DEF out, ProxyDetectOut
    <2>4. /\ Reaches(p, Home) => Complaint(e, chan', p)
          /\ FromHome(chan') /\ NoOwnNeed(chan') /\ (NoFail(chan) => NoFail(chan'))
      BY <1>3, <2>3, SentComplaint
    <2>5. \A q \in Site : SameDown(e, chan', q) /\ (q # p => SameUp(e, chan', q))
      BY <1>3, <2>3, SentComplaint
    <2>6. \A q \in Site : SameDown(chan, chan', q) /\ (q # p => SameUp(chan, chan', q))
      BY <1>4, <2>1, <2>5, SameTrans
    <2>7. Base'
      BY <1>1, <1>3, <1>5, <2>2, <2>4, <2>6, SameToldLess, BaseFrame
    <2>8. ASSUME Able'
          PROVE  ChainOK'
      <3>1. /\ ChainOK /\ Shaped /\ SiteOK(p) /\ Once(p) /\ Reaches(p, Home)
        BY <1>1, <1>2, <1>3, <2>8, AliveReaches DEF Able, ChainInv, ChainOK, Base
      <3>2. Complaint(chan, chan', p)
        BY <1>4, <2>4, <3>1, ComplaintSame
      <3>3. Dead(alive, successor[p])
        BY <1>3, <2>1 DEF Dead
      <3>4. Sound(p)' <=> Sound(p)
        BY <1>3, <3>2 DEF Sound, Complaint
      <3>5. /\ Told(chan', p) => Told(chan, p)
            /\ \A x : ToldThenChecked(chan', p, x) => ToldThenChecked(chan, p, x)
        BY <2>6 DEF SameDown
      <3>6. /\ SiteOK(p)' /\ (Flagged(p)' => Flagged(p))
            /\ \A r : Reached(p, r)' => Reached(p, r)
        BY <1>2, <1>3, <1>6, <2>1, <2>2, <3>1, <3>2, <3>3, <3>4, <3>5, Complains
           DEF Complaint
      <3>7. \A q \in Site : q # p => Idles(q)
        BY <1>2, <1>3, <1>6, <2>1, <2>2, <2>6 DEF Idles, Steady
      <3> QED
        BY <1>2, <1>3, <1>6, <2>4, <3>1, <3>6, <3>7, ProxyFrame DEF ChainOK
    <2> QED
      BY <2>7, <2>8 DEF ChainInv
  <1> QED
    BY <1>7, <1>8

-----------------------------------------------------------------------------
(* The manager may ask site q about its successor.                         *)
Quizzed(c, n, q) ==
    /\ Told(n, q) <=> Told(c, q)
    /\ \A x : ToldOf(n, q, x) <=> ToldOf(c, q, x)
    /\ ToldTwice(n, q) => ToldTwice(c, q)
    /\ \A x : ToldThenChecked(n, q, x) => ToldThenChecked(c, q, x) \/ ToldOf(c, q, x)

(* The successor of q in the chain has failed.                             *)
Severed(q) == InChain(q) /\ \A x : Adjacent(chain, q, x) => Dead(alive, x)

LEMMA Questioned ==
    ASSUME NEW q \in Site, SiteOK(q), Proceeds, UNCHANGED <<chain, last>>,
           SameUp(chan, chan', q), Quizzed(chan, chan', q),
           SameDown(chan, chan', q) \/ Severed(q),
           status'[q] = status[q], successor'[q] = successor[q],
           request'[q] = request[q], pfail'[q] = pfail[q], alive'[q] = alive[q],
           q \in perm'[Home] <=> q \in perm[Home], Token(q)' => Token(q)
    PROVE  /\ SiteOK(q)'
           /\ Flagged(q)' => Flagged(q)
           /\ \A r : Reached(q, r)' => Reached(q, r)
  <1>1. CASE SameDown(chan, chan', q)
    <2>1. Idles(q)
      BY <1>1 DEF Idles, Steady
    <2>2. Follows(q)
      BY DEF Follows, InChain
    <2>3. /\ SiteOK(q)'
          /\ Flagged(q)' <=> Flagged(q)
          /\ \A r : Reached(q, r)' => Reached(q, r) \/ Token(q)'
      BY <2>1, <2>2, SettledSite
    <2> QED
      BY <2>3 DEF Reached
  <1>2. CASE Severed(q)
    <2>1. Sound(q)' <=> Sound(q)
      BY DEF SameUp, Sound
    <2>2. Flagged(q)' <=> Flagged(q)
      BY DEF SameUp, Quizzed, Flagged
    <2>3. \A r : Reached(q, r)' => Reached(q, r)
      BY <2>1 DEF SameUp, Reached
    <2>4. OneDuty(q)' /\ Numbered(q)'
      BY <2>1 DEF SiteOK, OneDuty, Numbered, SameUp, Quizzed
    <2>5. Waiting(q)'
      <3> SUFFICES ASSUME Asks(chan', q)
                   PROVE  /\ ~Told(chan', q) /\ successor'[q] = NoSite /\ ~Broken(chan', q)
                          /\ last' = q => q = Home /\ Home \in draining'
                          /\ last' # q => /\ ~Token(q)'
                                          /\ ~AsksThenSaw(chan', q)
                                          /\ \A r : ~AsksThenOld(chan', q, r)
                                          /\ Sound(q)' => status'[q] = "REQUESTED"
                          /\ q # Home => ~AsksTwice(chan', q)
        BY DEF Waiting
      <3>1. Asks(chan, q)
        BY DEF SameUp
      <3>2. last = q => q = Home /\ Home \in draining'
        BY <3>1 DEF SiteOK, Waiting, Proceeds
      <3>3. ~Told(chan', q) /\ successor'[q] = NoSite /\ ~Broken(chan', q)
        BY <3>1 DEF SiteOK, Waiting, SameUp, Quizzed
      <3>4. last # q => /\ ~Token(q)' /\ ~AsksThenSaw(chan', q)
                        /\ \A r : ~AsksThenOld(chan', q, r)
                        /\ Sound(q)' => status'[q] = "REQUESTED"
        BY <2>1, <3>1 DEF SiteOK, Waiting, SameUp
      <3>5. q # Home => ~AsksTwice(chan', q)
        BY <3>1 DEF SiteOK, Waiting, SameUp
      <3> QED
        BY <3>2, <3>3, <3>4, <3>5
    <2>6. Resting(q)' /\ GivenUp(q)'
      BY <2>1, <2>2 DEF SiteOK, Resting, GivenUp, SameUp
    <2>7. TokenKept(q)'
      <3>1. TokenKept(q) /\ (InChain(q) => InChain(q)')
        BY DEF SiteOK, InChain
      <3>2. Token(q)' /\ Sound(q)' => Flagged(q)'
        BY <2>1, <2>2, <3>1 DEF TokenKept
      <3> QED
        BY <3>1, <3>2, TokenStays DEF SameUp
    <2>8. Enlisted(q)' /\ OnDuty(q)'
      BY <2>1, <2>2 DEF SiteOK, Enlisted, OnDuty, InChain, SameUp
    <2>9. Current(q)'
      BY <2>1, <2>2 DEF SiteOK, Current, SameUp
    <2>10. Guided(q)'
      BY DEF SiteOK, Guided, InChain, SameUp, Quizzed, Proceeds
    <2>11. Inquired(q)'
      <3>1. successor[q] # NoSite => Dead(alive, successor[q])
        BY <1>2 DEF SiteOK, Guided, Severed
      <3>2. \A x : ToldOf(chan, q, x) => Dead(alive, x)
        BY <1>2 DEF SiteOK, Guided, Severed
      <3>3. \A x : ToldThenChecked(chan, q, x) => Dead(alive, x)
        BY DEF SiteOK, Inquired
      <3>4. \A x : ToldThenChecked(chan', q, x) => Dead(alive', x)
        BY <3>2, <3>3 DEF Quizzed, Proceeds
      <3>5. successor'[q] # NoSite => Dead(alive', successor'[q])
        BY <3>1 DEF Proceeds
      <3> QED
        BY <3>4, <3>5 DEF Inquired
    <2> QED
      BY <2>2, <2>3, <2>4, <2>5, <2>6, <2>7, <2>8, <2>9, <2>10, <2>11 DEF SiteOK
  <1> QED
    BY <1>1, <1>2

(* What remains of a crashed site s once the manager knows of the crash.   *)
LEMMA DetectedSite ==
    ASSUME NEW s \in Site, s # Home, SiteOK(s), Proceeds, Clean',
           UNCHANGED <<chain, last>>, ~alive[s], ~alive'[s], s \in perm'[Home],
           chan'[<<s, Home>>] = <<>>, successor'[s] = successor[s],
           Token(s)' => Token(s)
    PROVE  /\ SiteOK(s)'
           /\ Flagged(s)' => Flagged(s)
           /\ \A r : ~Reached(s, r)'
  <1>1. /\ ~Broken(chan', s) /\ ~Asks(chan', s) /\ ~Saw(chan', s)
        /\ ~BrokenTwice(chan', s) /\ \A r : ~Old(chan', s, r)
    BY EmptyUp
  <1>2. chan'[<<Home, s>>] = <<>>
    BY HomeAssumption DEF Clean
  <1>3. /\ ~Told(chan', s) /\ ~Checked(chan', s)
        /\ \A x : ~ToldOf(chan', s, x) /\ ~ToldThenChecked(chan', s, x)
    BY <1>2, EmptyDown
  <1>4. ~Sound(s)' /\ (Flagged(s)' => Flagged(s))
    BY <1>1, <1>3 DEF Sound, Flagged
  <1>5. ~Token(s)'
    BY DEF SiteOK, TokenKept, Token, Holder
  <1>6. OneDuty(s)' /\ Waiting(s)' /\ Numbered(s)' /\ Resting(s)'
    BY <1>1, <1>3, <1>4 DEF SiteOK, OneDuty, Waiting, Numbered, Resting
  <1>7. TokenKept(s)' /\ GivenUp(s)' /\ Enlisted(s)' /\ OnDuty(s)'
    BY <1>4, <1>5 DEF TokenKept, GivenUp, Enlisted, OnDuty, Token
  <1>8. Current(s)' /\ Inquired(s)'
    BY <1>1, <1>3, <1>4 DEF Current, Inquired
  <1>9. Guided(s)'
    BY <1>1, <1>3 DEF SiteOK, Guided, InChain
  <1>10. \A r : ~Reached(s, r)'
    BY <1>1, <1>4, <1>5 DEF Reached
  <1> QED
    BY <1>4, <1>6, <1>7, <1>8, <1>9, <1>10 DEF SiteOK

(* The site that inquire asks about its successor has lost it.             *)
LEMMA InquirySevers ==
    ASSUME Base, chain \in Seq(Entry), Distinct(chain), NEW s \in Site, ~alive[s],
           NEW k \in 1..Len(chain), chain[k].site = s, NEW i \in 1..(k - 1),
           \A j \in (i + 1)..(k - 1) : chain[j].site \in perm[Home] \cup {s}
    PROVE  Severed(chain[i].site)
  <1> DEFINE m == Len(chain)
  <1>1. /\ m \in Nat /\ DOMAIN chain = 1..m /\ k \in 1..m
        /\ \A j \in 1..m : chain[j].site \in Site
    BY ChainElements
  <1>2. InChain(chain[i].site)
    <2>1. i \in 1..Len(chain)
      BY <1>1
    <2> QED
      BY <2>1 DEF InChain, Visits
  <1> HIDE DEF m
  <1>3. i \in 1..m /\ i + 1 \in 1..m /\ (i + 1 = k \/ i + 1 \in (i + 1)..(k - 1))
    BY <1>1
  <1>4. Dead(alive, chain[i + 1].site)
    BY <1>1, <1>3, HomeAssumption DEF Base, Dead
  <1>5. ASSUME NEW x, Adjacent(chain, chain[i].site, x)
        PROVE  x = chain[i + 1].site
    BY <1>1, <1>3, <1>5 DEF Adjacent, Distinct
  <1> QED
    BY <1>2, <1>4, <1>5 DEF Severed

-----------------------------------------------------------------------------
(* The proxy of the home site reacts to the crash of s before the manager: *)
(* f is what the channels are in between.                                  *)
Noted(s, f) ==
    /\ f \in Channels(Message) /\ FromHome(f) /\ NoOwnNeed(f)
    /\ NoFail(chan) => NoFail(f)
    /\ f[<<s, Home>>] = <<>>
    /\ \A q \in Site : SameDown(chan, f, q)
    /\ \A q \in Site : q # s /\ q # Home => SameUp(chan, f, q)
    /\ IF ProxyDetects(Home, s) THEN Complaint(chan, f, Home)
       ELSE SameUp(chan, f, Home)

LEMMA HomeNotes ==
    ASSUME TypeOK, Base, NEW s \in Site, CanDetect(Home, s), NEW out,
           Detect(Home, s, out),
           NEW f, f = Sent(Dropped(chan, s, Home), Home, ProxyDetectOut(Home, s))
    PROVE  Noted(s, f)
  <1> DEFINE e == Dropped(chan, s, Home)
  <1>1. e \in Channels(Message) /\ e[<<s, Home>>] = <<>> /\ alive[Home] /\ Home # s
    BY DetectNet, HomeAssumption
  <1>2. FromHome(e) /\ NoOwnNeed(e) /\ (NoFail(chan) => NoFail(e))
    BY DetectNet, HomeAssumption
  <1>3. /\ \A q \in Site : q # s \/ Home # Home => SameUp(chan, e, q)
        /\ \A q \in Site : q # Home \/ s # Home => SameDown(chan, e, q)
    BY DetectNet, HomeAssumption, ZenonT(40)
  <1>4. /\ \A q \in Site : q # s => SameUp(chan, e, q)
        /\ \A q \in Site : SameDown(chan, e, q)
    BY <1>1, <1>3
  <1> HIDE DEF e
  <1>5. f = Sent(e, Home, ProxyDetectOut(Home, s))
    BY DEF e
  <1>6. CASE ~ProxyDetects(Home, s)
    <2>1. f = e
      BY <1>1, <1>5, <1>6, SentSilent, HomeAssumption DEF ProxyDetectOut
    <2> QED
      BY <1>1, <1>2, <1>4, <1>6, <2>1, HomeAssumption DEF Noted
  <1>7. CASE ProxyDetects(Home, s)
    <2>1. f = Sent(e, Home, sendToManager("FAILED_SUCC", 0))
      BY <1>5, <1>7 DEF ProxyDetectOut
    <2>2. Reaches(Home, Home)
      BY <1>1, AliveReaches, HomeAssumption
    <2>3. Complaint(e, f, Home)
      BY <1>1, <2>1, <2>2, SentComplaint, HomeAssumption
    <2>4. FromHome(f) /\ NoOwnNeed(f) /\ (NoFail(chan) => NoFail(f))
      BY <1>1, <1>2, <2>1, SentComplaint, HomeAssumption
    <2>5. \A q \in Site : SameDown(e, f, q)
      BY <1>1, <2>1, SentComplaint, HomeAssumption
    <2>6. \A q \in Site : q # Home => SameUp(e, f, q)
      BY <1>1, <2>1, SentComplaint, HomeAssumption
    <2>7. f \in Channels(Message)
      <3> DEFINE own == ProxyDetectOut(Home, s)
      <3>1. own \in [Site -> Seq(Message)] /\ f = Sent(e, Home, own)
        BY <1>5, ProxyDetectHarmless DEF Harmless
      <3> HIDE DEF own
      <3>2. e \in [Site \X Site -> Seq(Message)]
        BY <1>1 DEF Channels
      <3>3. Sent(e, Home, own) \in [Site \X Site -> Seq(Message)]
        BY <3>1, <3>2, SentType, HomeAssumption
      <3> QED
        BY <3>1, <3>3 DEF Channels
    <2>8. f[<<s, Home>>] = <<>>
      <3> DEFINE m == ToManager("FAILED_SUCC", 0)
      <3>1. m \in Message /\ <<s, Home>> \in Site \X Site /\ <<s, Home>> # <<Home, Home>>
        <4>1. "FAILED_SUCC" \in ToManagerTypes /\ 0 \in Nat
          BY DEF ToManagerTypes
        <4> QED
          BY <1>1, <4>1, ManagerKinds, HomeAssumption
      <3>2. f = Sent(e, Home, To(Home, m))
        BY <2>1 DEF sendToManager
      <3> HIDE DEF m
      <3>3. ASSUME NEW l \in Site \X Site, l # <<Home, Home>>
            PROVE  f[l] = e[l]
        <4>1. Sent(e, Home, To(Home, m))[l]
                = IF l = <<Home, Home>> /\ Reaches(Home, Home)
                  THEN e[l] \o <<m>> ELSE e[l]
          BY <1>1, <3>1, SentLink, HomeAssumption
        <4> QED
          BY <3>2, <3>3, <4>1
      <3> QED
        BY <1>1, <3>1, <3>3
    <2>9. Complaint(chan, f, Home)
      BY <1>1, <1>4, <2>3, ComplaintSame, HomeAssumption
    <2>10. /\ \A q \in Site : SameDown(chan, f, q)
           /\ \A q \in Site : q # s /\ q # Home => SameUp(chan, f, q)
      BY <1>4, <2>5, <2>6, SameTrans
    <2> QED
      BY <1>7, <2>4, <2>7, <2>8, <2>9, <2>10 DEF Noted
  <1> QED
    BY <1>6, <1>7

(* The manager then asks at most one proxy about its successor.            *)
LEMMA HomeFrame ==
    ASSUME TypeOK, Base, ChainOK, Proceeds, Clean', NEW s \in Site, s # Home,
           alive[Home], ~alive[s], NEW f, Noted(s, f),
           \A q \in Site : SameUp(f, chan', q) /\ Quizzed(f, chan', q),
           \A q \in Site : SameDown(f, chan', q) \/ Severed(q),
           chan'[<<s, Home>>] = <<>>, NoFail(chan'),
           UNCHANGED <<chain, last, status, request, pfail, alive>>,
           successor' = IF ProxyDetects(Home, s)
                        THEN [successor EXCEPT ![Home] = NoSite] ELSE successor,
           perm'[Home] = perm[Home] \cup {s},
           \A q \in Site : Token(q)' => Token(q)
    PROVE  ChainOK'
  <1>1. Shaped /\ Ordered /\ \A q \in Site : SiteOK(q)
    BY DEF ChainOK
  <1>2. \A q \in Site : q # Home => successor'[q] = successor[q]
    BY DEF TypeOK
  <1>3. \A q \in Site : Quizzed(chan, chan', q)
    BY DEF Noted, SameDown, Quizzed
  <1>4. \A q \in Site : SameDown(chan, chan', q) \/ Severed(q)
    BY SameTrans DEF Noted
  <1>5. \A q \in Site : q # s /\ q # Home => SameUp(chan, chan', q)
    BY SameTrans DEF Noted
  <1>6. \A q \in Site : q # s => (q \in perm'[Home] <=> q \in perm[Home])
    OBVIOUS
  <1>7. /\ SiteOK(s)' /\ (Flagged(s)' => Flagged(s))
        /\ \A r : Reached(s, r)' => Reached(s, r)
    BY <1>1, <1>2, DetectedSite
  <1>8. ASSUME NEW q \in Site, q # s, q # Home \/ ~ProxyDetects(Home, s)
        PROVE  /\ SiteOK(q)' /\ (Flagged(q)' => Flagged(q))
               /\ \A r : Reached(q, r)' => Reached(q, r)
    <2>1. SameUp(chan, chan', q)
      <3>1. CASE q # Home
        BY <1>5, <1>8, <3>1
      <3>2. CASE q = Home
        BY <1>8, <3>2, SameTrans DEF Noted
      <3> QED
        BY <3>1, <3>2
    <2>2. successor'[q] = successor[q]
      BY <1>2, <1>8
    <2> QED
      BY <1>1, <1>3, <1>4, <1>6, <1>8, <2>1, <2>2, Questioned
  <1>9. ASSUME ProxyDetects(Home, s)
        PROVE  /\ SiteOK(Home)' /\ (Flagged(Home)' => Flagged(Home))
               /\ \A r : Reached(Home, r)' => Reached(Home, r)
    <2>1. /\ successor[Home] = s /\ successor[Home] # NoSite
          /\ Dead(alive, successor[Home]) /\ successor'[Home] = NoSite
      BY <1>9, NoSiteAssumption, HomeAssumption DEF ProxyDetects, Dead, TypeOK
    <2>2. Complaint(chan, chan', Home)
      BY <1>9, ComplaintSame, HomeAssumption DEF Noted
    <2>3. Sound(Home)' <=> Sound(Home)
      BY <1>6, <2>2, HomeAssumption DEF Sound, Complaint
    <2>4. /\ Told(chan', Home) => Told(chan, Home)
          /\ \A x : ToldThenChecked(chan', Home, x)
               => ToldThenChecked(chan, Home, x) \/ ToldOf(chan, Home, x)
      BY <1>3, HomeAssumption DEF Quizzed
    <2>5. Once(Home) /\ SiteOK(Home) /\ (Token(Home)' => Token(Home))
      BY <1>1, HomeAssumption DEF Base
    <2> QED
      BY <1>1, <2>1, <2>2, <2>3, <2>4, <2>5, Complains, HomeAssumption DEF Complaint
  <1>10. ASSUME NEW q \in Site
         PROVE  /\ SiteOK(q)' /\ (Flagged(q)' => Flagged(q))
                /\ \A r : Reached(q, r)' => Reached(q, r)
    <2>1. q = s \/ (q # s /\ (q # Home \/ ~ProxyDetects(Home, s)))
            \/ (q = Home /\ ProxyDetects(Home, s))
      OBVIOUS
    <2> QED
      BY <1>7, <1>8, <1>9, <2>1
  <1>11. Ordered'
    <2> SUFFICES ASSUME NEW a, NEW b, NEW r, Ahead(chain', a, b, r), Reached(b, r)'
                 PROVE  ~Flagged(a)' /\ ~Token(a)'
      BY DEF Ordered
    <2>1. Ahead(chain, a, b, r)
      OBVIOUS
    <2>2. a \in Site /\ b \in Site
      BY <1>1, <2>1, ChainFacts DEF Shaped
    <2> QED
      BY <1>1, <1>10, <2>1, <2>2 DEF Ordered
  <1>12. Shaped'
    BY <1>1 DEF Shaped
  <1> QED
    BY <1>10, <1>11, <1>12 DEF ChainOK

-----------------------------------------------------------------------------
(* The manager learns that s has crashed, and inquires about the token.    *)
LEMMA InquiryMessage ==
    ASSUME Base, chain \in Seq(Entry), NEW s \in Site, ~alive[s], InChain(s),
           NEW failed, failed = perm[Home] \cup {s},
           ~AllFailed(chain, Position(s), failed)
    PROVE  \E d \in Site, m \in Message :
              /\ InquiryOut(chain, Position(s), failed) = To(d, m)
              /\ m.type \in {"CHECK_PRED", "CHECK_SUCC"} /\ m \notin PermFails
              /\ m.type = "CHECK_SUCC" /\ Distinct(chain) => Severed(d)
  <1> DEFINE k == Position(s)
  <1>1. k \in 1..Len(chain) /\ chain[k].site = s
    BY PositionInChain
  <1> HIDE DEF k
  <1>2. ASSUME NEW t \in {"CHECK_PRED", "CHECK_SUCC"}, NEW r \in Nat
        PROVE  /\ ToProxy(t, NoSite, r) \in Message /\ ToProxy(t, NoSite, r).type = t
               /\ ToProxy(t, NoSite, r) \notin PermFails
    BY DEF Message, ProxyMessage, ToProxy, ToProxyTypes, PermFails
  <1> DEFINE Goal == \E d \in Site, m \in Message :
                /\ InquiryOut(chain, k, failed) = To(d, m)
                /\ m.type \in {"CHECK_PRED", "CHECK_SUCC"} /\ m \notin PermFails
                /\ m.type = "CHECK_SUCC" /\ Distinct(chain) => Severed(d)
  <1>3. ASSUME AsksForward(chain, k, failed)
        PROVE  Goal
    <2>1. PICK d \in Site, r \in Nat :
              InquiryOut(chain, k, failed) = To(d, ToProxy("CHECK_PRED", NoSite, r))
      BY <1>3 DEF AsksForward
    <2>2. /\ ToProxy("CHECK_PRED", NoSite, r) \in Message
          /\ ToProxy("CHECK_PRED", NoSite, r).type = "CHECK_PRED"
          /\ ToProxy("CHECK_PRED", NoSite, r) \notin PermFails
      BY <1>2
    <2> QED
      BY <2>1, <2>2
  <1>4. ASSUME AsksBackward(chain, k, failed)
        PROVE  Goal
    <2>1. PICK i \in 1..(k - 1) :
                /\ \A j \in (i + 1)..(k - 1) : chain[j].site \in failed
                /\ InquiryOut(chain, k, failed)
                     = To(chain[i].site, ToProxy("CHECK_SUCC", NoSite, chain[i].req))
      BY <1>4 DEF AsksBackward
    <2>2. chain[i].site \in Site /\ chain[i].req \in Nat
      <3>1. Len(chain) \in Nat /\ \A j \in 1..Len(chain) : chain[j].site \in Site /\ chain[j].req \in Nat
        BY ChainElements
      <3>2. i \in 1..Len(chain)
        BY <1>1, <3>1
      <3> QED
        BY <3>1, <3>2
    <2>3. Distinct(chain) => Severed(chain[i].site)
      BY <1>1, <2>1, InquirySevers
    <2>4. /\ ToProxy("CHECK_SUCC", NoSite, chain[i].req) \in Message
          /\ ToProxy("CHECK_SUCC", NoSite, chain[i].req).type = "CHECK_SUCC"
          /\ ToProxy("CHECK_SUCC", NoSite, chain[i].req) \notin PermFails
      BY <1>2, <2>2
    <2> QED
      BY <2>1, <2>2, <2>3, <2>4
  <1>5. ~AllFailed(chain, k, failed)
    BY DEF k
  <1>6. AsksForward(chain, k, failed) \/ AsksBackward(chain, k, failed)
    BY <1>1, <1>5, InquiryShape
  <1>7. Goal
    <2> HIDE DEF Goal
    <2> QED
      BY <1>3, <1>4, <1>6
  <1> QED
    BY <1>7 DEF k

LEMMA DetectHomeChain ==
    ASSUME IInv, ChainInv, NEW s \in Site, DetectHome(s)
    PROVE  ChainInv'
  <1> DEFINE e == Dropped(chan, s, Home)
             own == ProxyDetectOut(Home, s)
             failed == perm[Home] \cup {s}
             f == Sent(e, Home, own)
             succ == IF ProxyDetects(Home, s)
                     THEN [successor EXCEPT ![Home] = NoSite] ELSE successor
  <1>1. TypeOK /\ Base /\ Quiet /\ Home \in Site
    BY DetectHomeStep, HomeAssumption DEF IInv, ChainInv
  <1>2. /\ CanDetect(Home, s) /\ successor' = succ
        /\ UNCHANGED <<status, request, pfail>>
    BY DEF DetectHome
  <1>3. /\ chain \in Seq(Entry) /\ own \in [Site -> Seq(Message)]
        /\ \A q \in Site : succ[q] = successor[q] \/ succ[q] = NoSite
    BY <1>1, ProxyDetectHarmless DEF TypeOK, Entry, Harmless
  <1>4. \A q \in Site : successor'[q] = successor[q] \/ successor'[q] = NoSite
    BY <1>2, <1>3
  <1>5. \A q \in Site : Token(q)' => Token(q)
    BY <1>1, QuietToken
  (* what every case has in common *)
  <1>6. ASSUME NEW out, Detect(Home, s, out)
        PROVE  /\ e \in Channels(Message) /\ chan' = Sent(e, Home, out)
               /\ alive' = alive /\ perm'[Home] = perm[Home] \cup {s}
               /\ alive[Home] /\ ~alive[s] /\ Home # s /\ Proceeds /\ Clean'
               /\ \A q, r \in Site : r \in perm'[q] => ~alive'[r]
               /\ Noted(s, f)
    <2>1. /\ e \in Channels(Message) /\ chan' = Sent(e, Home, out)
          /\ alive' = alive /\ perm'[Home] = perm[Home] \cup {s}
      BY <1>1, <1>2, <1>6, DetectNet
    <2>2. /\ alive[Home] /\ ~alive[s] /\ Home # s /\ Proceeds /\ Clean'
          /\ \A q, r \in Site : r \in perm'[q] => ~alive'[r]
      BY <1>1, <1>2, <1>6, DetectNet
    <2>3. Noted(s, f)
      BY <1>1, <1>2, <1>6, HomeNotes
    <2> QED
      BY <2>1, <2>2, <2>3
  <1> HIDE DEF own, f, e
  <1>7. CASE mfail \/ ~InChain(s)
    <2>1. Detect(Home, s, own) /\ UNCHANGED <<chain, last, mfail>>
      BY <1>7 DEF DetectHome, own
    <2>2. /\ chan' = f /\ alive' = alive /\ perm'[Home] = perm[Home] \cup {s}
          /\ alive[Home] /\ ~alive[s] /\ Home # s /\ Proceeds /\ Clean'
          /\ \A q, r \in Site : r \in perm'[q] => ~alive'[r]
          /\ Noted(s, f)
      BY <1>6, <2>1 DEF f
    <2>3. Base'
      <3>1. mfail' => chain' = <<>> /\ last' = NoSite
        BY <1>1, <2>1 DEF Base
      <3>2. \A q \in Site : ToldLess(chan, chan', q)
        BY <2>2, SameToldLess DEF Noted
      <3> QED
        BY <1>1, <1>4, <2>2, <3>1, <3>2, BaseFrame DEF Noted
    <2>4. ASSUME Able'
          PROVE  ChainOK'
      <3>1. ChainOK
        BY <2>1, <2>2, <2>4 DEF Able, ChainInv
      <3>2. \A q \in Site : SameUp(f, chan', q) /\ SameDown(f, chan', q) /\ Quizzed(f, chan', q)
        BY <2>2 DEF SameUp, SameDown, Quizzed
      <3>3. chan'[<<s, Home>>] = <<>> /\ NoFail(chan')
        BY <2>2, <3>1 DEF Noted, ChainOK
      <3> QED
        BY <1>1, <1>2, <1>5, <2>1, <2>2, <3>1, <3>2, <3>3, HomeFrame
    <2> QED
      BY <2>3, <2>4 DEF ChainInv
  <1>8. CASE ~mfail /\ InChain(s) /\ AllFailed(chain, Position(s), failed)
    <2> DEFINE P == PermFailOut(<<>>)
    <2>1. Detect(Home, s, Both(own, P)) /\ ManagerLostToken
      BY <1>8 DEF DetectHome, own
    <2>2. P \in [Site -> Seq(Message)]
      BY PermFailHarmless DEF Harmless
    <2> HIDE DEF P
    <2>3. /\ chan' = Sent(e, Home, Both(own, P)) /\ e \in Channels(Message) /\ Clean'
          /\ \A q, r \in Site : r \in perm'[q] => ~alive'[r]
          /\ Noted(s, f)
      BY <1>6, <2>1
    <2>4. chan' = Sent(f, Home, P)
      <3>1. own \in [Site -> Seq(Message)] /\ e \in Channels(Message)
        BY <1>3, <2>3
      <3>2. Sent(e, Home, Both(own, P)) = Sent(Sent(e, Home, own), Home, P)
        BY <2>2, <3>1, SentBoth, HomeAssumption
      <3> QED
        BY <2>3, <3>2 DEF f
    <2>5. /\ FromHome(chan') /\ NoOwnNeed(chan')
          /\ \A q \in Site : ToldLess(f, chan', q)
      <3>1. f \in Channels(Message) /\ FromHome(f) /\ NoOwnNeed(f)
        BY <2>3 DEF Noted
      <3>2. chan' = Sent(f, Home, PermFailOut(<<>>))
        BY <2>4 DEF P
      <3> QED
        BY <3>1, <3>2, PermFailSent
    <2>6. \A q \in Site : ToldLess(chan, chan', q)
      BY <2>3, <2>5, SameToldLess DEF ToldLess, Noted
    <2>7. mfail' /\ chain' = <<>> /\ last' = NoSite
      BY <2>1 DEF ManagerLostToken
    <2>8. Base'
      BY <1>1, <1>4, <2>3, <2>5, <2>6, <2>7, BaseFrame
    <2> QED
      BY <2>7, <2>8 DEF ChainInv, Able
  <1>9. CASE ~mfail /\ InChain(s) /\ ~AllFailed(chain, Position(s), failed)
    <2> DEFINE I == InquiryOut(chain, Position(s), failed)
    <2>1. Detect(Home, s, Both(own, I)) /\ UNCHANGED <<chain, last, mfail>>
      BY <1>9 DEF DetectHome, own
    <2>2. I \in [Site -> Seq(Message)]
      <3>1. Position(s) \in 1..Len(chain)
        BY <1>3, <1>9, PositionInChain
      <3> QED
        BY <1>3, <1>9, <3>1, InquiryHarmless DEF Harmless
    <2>3. ~alive[s]
      BY <1>2 DEF CanDetect
    <2>4. PICK d \in Site, m \in Message :
              /\ I = To(d, m)
              /\ m.type \in {"CHECK_PRED", "CHECK_SUCC"} /\ m \notin PermFails
              /\ m.type = "CHECK_SUCC" /\ Distinct(chain) => Severed(d)
      BY <1>1, <1>3, <1>9, <2>3, InquiryMessage
    <2> HIDE DEF I
    <2>5. /\ chan' = Sent(e, Home, Both(own, I)) /\ e \in Channels(Message)
          /\ alive' = alive /\ perm'[Home] = perm[Home] \cup {s}
          /\ alive[Home] /\ Home # s /\ Proceeds /\ Clean'
          /\ \A q, r \in Site : r \in perm'[q] => ~alive'[r]
          /\ Noted(s, f) /\ f \in Channels(Message)
      BY <1>6, <2>1 DEF Noted
    <2>6. chan' = Sent(f, Home, To(d, m))
      BY <1>1, <1>3, <2>2, <2>4, <2>5, SentBoth DEF f
    <2>7. m.type \notin UpTypes /\ m.type # "NEED_NO_MORE" /\ m.type # "FORWARD"
      BY <2>4 DEF UpTypes
    <2>8. FromHome(chan') /\ NoOwnNeed(chan') /\ (NoFail(f) => NoFail(chan'))
      BY <1>1, <2>4, <2>5, <2>6, <2>7, SentBase DEF Noted
    <2>9. \A q \in Site : SameUp(f, chan', q)
      BY <1>1, <2>5, <2>6, <2>7, SentSame
    <2>10. ASSUME NEW q \in Site
           PROVE  Quizzed(f, chan', q)
      <3>1. /\ Told(chan', q) <=> Told(f, q)
            /\ ToldTwice(chan', q) => ToldTwice(f, q)
        BY <1>1, <2>5, <2>6, <2>7, SentDown
      <3>2. \A x : ToldOf(chan', q, x) <=> ToldOf(f, q, x)
        BY <1>1, <2>5, <2>6, <2>7, SentDown
      <3>3. \A x : ToldThenChecked(chan', q, x)
                     => ToldThenChecked(f, q, x) \/ ToldOf(f, q, x)
        BY <1>1, <2>5, <2>6, <2>7, SentDown
      <3> QED
        BY <3>1, <3>2, <3>3 DEF Quizzed
    <2>11. \A q \in Site : ToldLess(chan, chan', q)
      BY <2>5, <2>10 DEF ToldLess, Quizzed, Noted, SameDown
    <2>12. Base'
      <3>1. mfail' => chain' = <<>> /\ last' = NoSite
        BY <1>1, <2>1 DEF Base
      <3> QED
        BY <1>1, <1>4, <2>5, <2>8, <2>11, <3>1, BaseFrame
    <2>13. ASSUME Able'
           PROVE  ChainOK'
      <3>1. ChainOK /\ Distinct(chain)
        BY <2>1, <2>5, <2>13 DEF Able, ChainInv, ChainOK, Shaped
      <3>2. ASSUME NEW q \in Site
            PROVE  SameDown(f, chan', q) \/ Severed(q)
        <4>1. CASE q = d /\ m.type = "CHECK_SUCC"
          BY <2>4, <3>1, <4>1
        <4>2. CASE ~(q = d /\ m.type = "CHECK_SUCC")
          <5>1. q # d \/ m.type \notin DownTypes
            BY <2>7, <4>2 DEF DownTypes
          <5> QED
            BY <1>1, <2>5, <2>6, <5>1, SentSame
        <4> QED
          BY <4>1, <4>2
      <3>3. chan'[<<s, Home>>] = <<>>
        <4>1. <<s, Home>> \in Site \X Site /\ <<s, Home>>[1] = s
          BY <1>1
        <4>2. Sent(f, Home, To(d, m))[<<s, Home>>] = f[<<s, Home>>]
          BY <2>5, <4>1 DEF Sent
        <4> QED
          BY <2>5, <2>6, <4>2 DEF Noted
      <3>4. NoFail(chan')
        BY <2>5, <2>8, <3>1 DEF Noted, ChainOK
      <3> QED
        BY <1>1, <1>2, <1>5, <2>1, <2>3, <2>5, <2>9, <2>10, <3>1, <3>2, <3>3, <3>4, HomeFrame
    <2> QED
      BY <2>12, <2>13 DEF ChainInv
  <1> QED
    BY <1>7, <1>8, <1>9

-----------------------------------------------------------------------------
(* The invariant holds at first and every step of Next preserves it.       *)
LEMMA FirstChain ==
    ASSUME NEW c, c = <<[site |-> Home, req |-> 0]>>
    PROVE  /\ c \in Seq(Entry) /\ Distinct(c) /\ Ends(c, Home)
           /\ \A a : Visits(c, a) <=> a = Home
           /\ \A a, r : Has(c, a, r) => a = Home /\ r = 0
           /\ \A a, b, r : ~Ahead(c, a, b, r)
  <1>1. /\ Len(c) = 1 /\ DOMAIN c = {1} /\ 1..Len(c) = {1} /\ c # <<>>
        /\ c[1].site = Home /\ c[1].req = 0
    OBVIOUS
  <1>2. c \in Seq(Entry)
    BY HomeAssumption DEF Entry
  <1> QED
    BY <1>1, <1>2 DEF Distinct, Ends, Visits, Has, Ahead

LEMMA InitChain ==
    ASSUME Init
    PROVE  ChainInv
  <1>1. /\ \A l \in Site \X Site : chan[l] = <<>>
        /\ \A p \in Site : alive[p] /\ perm[p] = {} /\ successor[p] = NoSite
        /\ \A p \in Site : request[p] = 0 /\ ~pfail[p]
        /\ \A p \in Site : status[p] = "EMPTY" => p # Home
        /\ \A p \in Site : status[p] = "HERE" => p = Home
        /\ last = Home /\ ~mfail
    BY DEF Init, NetInit
  <1>2. /\ Shaped
        /\ \A a : InChain(a) <=> a = Home
        /\ \A a, r : Has(chain, a, r) => a = Home /\ r = 0
        /\ \A a, b, r : ~Ahead(chain, a, b, r)
    <2>1. chain = <<[site |-> Home, req |-> 0]>>
      BY DEF Init
    <2> QED
      BY <1>1, <2>1, FirstChain DEF Shaped, InChain
  <1>3. \A l \in Site \X Site : \A K, S : ~On(chan, l, K, S)
    BY <1>1, EmptyLink
  <1>4. /\ <<Home, Home>> \in Site \X Site
        /\ \A s, p \in Site : <<s, p>> \in Site \X Site
        /\ \A p \in Site : <<Home, p>> \in Site \X Site /\ <<p, Home>> \in Site \X Site
    BY HomeAssumption
  <1>5. FromHome(chan) /\ NoOwnNeed(chan) /\ NoFail(chan)
    BY <1>3, <1>4 DEF FromHome, NoOwnNeed, NoFail
  <1>6. ASSUME NEW p \in Site
        PROVE  /\ ~Broken(chan, p) /\ ~Asks(chan, p) /\ ~BrokenTwice(chan, p)
               /\ \A r : ~Old(chan, p, r)
               /\ ~Told(chan, p) /\ ~Checked(chan, p) /\ ~ToldTwice(chan, p)
               /\ \A x : ~ToldOf(chan, p, x) /\ ~ToldThenChecked(chan, p, x)
    <2>1. chan[<<p, Home>>] = <<>> /\ chan[<<Home, p>>] = <<>>
      BY <1>1, <1>4
    <2> QED
      BY <2>1, EmptyUp, EmptyDown
  <1>7. ASSUME NEW p \in Site
        PROVE  /\ ~TokenUnderWay(p)
               /\ Token(p) => p = Home
    <2>1. ASSUME NEW s \in Site
          PROVE  ~Carried(chan, <<s, p>>, {TokenMessage})
      <3>1. chan[<<s, p>>] = <<>>
        BY <1>1, <1>4
      <3>2. DOMAIN chan[<<s, p>>] = {}
        BY <3>1
      <3> QED
        BY <3>2 DEF Carried
    <2> QED
      BY <1>1, <2>1 DEF TokenUnderWay, Token, Holder
  <1>8. Base
    BY <1>1, <1>4, <1>5, <1>6 DEF Base, Clean, Once
  <1>9. ASSUME NEW p \in Site
        PROVE  SiteOK(p)
    <2>1. Flagged(p) <=> p = Home
      BY <1>1, <1>6 DEF Flagged
    <2>2. \A r : ~AsksFor(chan, p, r)
      BY <1>6, SpecificObs
    <2>3. OneDuty(p) /\ Waiting(p) /\ Numbered(p)
      BY <1>1, <1>6, <2>2 DEF OneDuty, Waiting, Numbered
    <2>4. Resting(p) /\ TokenKept(p) /\ GivenUp(p)
      BY <1>1, <1>2, <1>6, <1>7, <2>1 DEF Resting, TokenKept, GivenUp
    <2>5. Enlisted(p) /\ OnDuty(p) /\ Current(p)
      BY <1>1, <1>2, <1>6, <2>1 DEF Enlisted, OnDuty, Current
    <2>6. Guided(p) /\ Inquired(p)
      BY <1>1, <1>6 DEF Guided, Inquired
    <2> QED
      BY <2>3, <2>4, <2>5, <2>6 DEF SiteOK
  <1>10. Ordered
    BY <1>2 DEF Ordered
  <1> QED
    BY <1>2, <1>5, <1>8, <1>9, <1>10 DEF ChainInv, ChainOK

LEMMA StutterChain ==
    ASSUME ChainInv, UNCHANGED vars
    PROVE  ChainInv'
  <1>1. /\ UNCHANGED <<chan, alive, perm, draining>>
        /\ UNCHANGED <<present, status, successor, request, pfail, chain, last, mfail>>
    BY DEF vars, proxyVars, managerVars, netVars
  <1>2. /\ \A q : SameUp(chan, chan', q) /\ SameDown(chan, chan', q)
        /\ \A q : ToldLess(chan, chan', q)
    BY <1>1, SameLink, SameToldLess
  <1>3. FromHome(chan') /\ NoOwnNeed(chan') /\ (NoFail(chan) => NoFail(chan'))
    BY <1>1 DEF ChainInv, Base
  <1>4. Clean'
    BY <1>1 DEF ChainInv, Base, Clean
  <1>5. Base'
    BY <1>1, <1>2, <1>3, <1>4, BaseFrame DEF ChainInv, Base
  <1>6. ASSUME Able'
        PROVE  ChainOK'
    <2>1. ChainOK
      BY <1>1, <1>6 DEF Able, ChainInv
    <2>2. \A q \in Site : Steady(q)
      BY <1>1, <1>2 DEF Steady
    <2>3. \A q \in Site : Token(q)' => Token(q)
      BY <1>1 DEF Token, Holder, TokenUnderWay, Carried
    <2>4. Proceeds
      BY <1>1 DEF Proceeds
    <2> QED
      BY <1>1, <1>3, <2>1, <2>2, <2>3, <2>4, SteadyFrame DEF ChainOK
  <1> QED
    BY <1>5, <1>6 DEF ChainInv

LEMMA NextChain ==
    ASSUME IInv, ChainInv, Next
    PROVE  ChainInv'
  <1>1. ASSUME NEW p \in Site, Operation(p)
        PROVE  ChainInv'
    BY <1>1, AccessRequestChain, AccessWaitChain, MonitorChain, KillChain,
       ClearWeakRootChain, DeleteProxyChain, ImportProxyChain DEF Operation
  <1>2. ASSUME NEW s \in Site, NEW p \in Site, ProxyReceives(s, p)
        PROVE  ChainInv'
    BY <1>2, ProxyIgnoresChain, GetForwardChain, GetTokenChain, GetCheckSuccChain,
       GetCheckPredChain, GetPermFailChain DEF ProxyReceives
  <1>3. ASSUME NEW s \in Site, ManagerReceives(s)
        PROVE  ChainInv'
    BY <1>3, RegisterChain, DeregisterChain, GetChain, TokenHereChain,
       NeedNoMoreChain, FailedSuccChain, FailedChain, OldPredChain, OldSuccChain
       DEF ManagerReceives
  <1> QED
    BY <1>1, <1>2, <1>3, SiteCrashChain, DetectHomeChain, DetectRemoteChain DEF Next

(* The invariant of the chain: the messages between the proxies and the    *)
(* manager, the states of the proxies and the chain agree as long as the   *)
(* home site lives and the entity has not failed.                          *)
THEOREM ChainInvariance == Spec => [](IInv /\ ChainInv)
  <1>1. IInv /\ ChainInv /\ [Next]_vars => ChainInv'
    BY NextChain, StutterChain
  <1>2. Init => ChainInv
    BY InitChain
  <1> QED
    BY <1>1, <1>2, Invariance, PTL DEF Spec

(* The invariants that protocol_migratory.hh lists for a_chain and a_last  *)
(* hold at a live manager whatever proxies crash, are deleted, killed or   *)
(* created again, for every number of sites.                               *)
THEOREM ChainIsConsistent == Spec => []ChainConsistent
  <1>1. ASSUME IInv, ChainInv
        PROVE  ChainConsistent
    <2> SUFFICES ASSUME alive[Home]
                 PROVE  /\ mfail <=> chain = <<>>
                        /\ mfail <=> last = NoSite
                        /\ chain # <<>> => last = chain[Len(chain)].site
                        /\ \A i, j \in DOMAIN chain :
                              chain[i].site = chain[j].site => i = j
      BY DEF ChainConsistent
    <2>1. CASE mfail
      <3>1. chain = <<>> /\ last = NoSite
        BY <1>1, <2>1 DEF ChainInv, Base
      <3>2. DOMAIN chain = {}
        BY <3>1
      <3> QED
        BY <2>1, <3>1, <3>2
    <2>2. CASE ~mfail
      <3>1. chain \in Seq(Entry) /\ Distinct(chain) /\ Ends(chain, last)
        BY <1>1, <2>2 DEF ChainInv, Able, ChainOK, Shaped
      <3>2. last \in Site
        BY <3>1, ChainFacts
      <3> QED
        BY <2>2, <3>1, <3>2, NoSiteAssumption DEF Ends, Distinct
    <2> QED
      BY <1>1, <2>1, <2>2 DEF IInv, TypeOK
  <1> QED
    BY <1>1, ChainInvariance, PTL

(* The assertion of the MIGM_FORWARD handler holds for every number of     *)
(* sites: no MIGM_FORWARD overwrites a successor.                          *)
THEOREM ForwardFindsNone == Spec => []ForwardFindsNoSuccessor
  <1>1. ASSUME IInv, ChainInv
        PROVE  ForwardFindsNoSuccessor
    <2> SUFFICES ASSUME NEW s \in Site, NEW p \in Site, ProxyGets(s, p, "FORWARD")
                 PROVE  successor[p] = NoSite
      BY DEF ForwardFindsNoSuccessor
    <2>1. TypeOK /\ Base
      BY <1>1 DEF IInv, ChainInv
    <2>2. /\ chan \in Channels(Message) /\ chan[<<s, p>>] # <<>>
          /\ Head(chan[<<s, p>>]).type = "FORWARD"
      BY <2>1 DEF ProxyGets, CanRecv, Head1, TypeOK, Channels
    <2>3. s = Home
      BY <2>1, <2>2, TakenBase DEF Base, DownTypes
    <2>4. Told(chan, p)
      BY <2>2, <2>3, TakenTold
    <2> QED
      BY <2>1, <2>4 DEF Base, Once
  <1> QED
    BY <1>1, ChainInvariance, PTL

(* For every number of sites and however many proxies crash, a_chain of a  *)
(* live manager that has not given the entity up never forgets the proxy   *)
(* that has the token or is being sent it.                                 *)
THEOREM ChainCovers == Spec => []ChainCoversToken
  <1>1. ASSUME IInv, ChainInv
        PROVE  ChainCoversToken
    <2> SUFFICES ASSUME alive[Home], ~mfail, NEW p \in Site,
                        Holder(p) \/ TokenUnderWay(p)
                 PROVE  InChain(p)
      BY DEF ChainCoversToken
    <2>1. SiteOK(p)
      BY <1>1 DEF ChainInv, Able, ChainOK
    <2>2. TokenKept(p)
      BY <2>1 DEF SiteOK
    <2> QED
      BY <2>2 DEF TokenKept, Token
  <1> QED
    BY <1>1, ChainInvariance, PTL

-----------------------------------------------------------------------------
(* Without crashes.  As long as no site crashes the manager makes no       *)
(* inquiry, and nothing fails before somebody kills the entity.            *)

Inquiry == {"CHECK_SUCC", "CHECK_PRED", "FAILED_SUCC", "FAILED_PRED",
            "OLD_SUCC", "OLD_PRED"}

Calm ==
    /\ budget["kill"] <= MaxKills /\ budget["import"] <= MaxImports
    /\ NoCrash => NoneOf(chan, Kind(Inquiry))
    /\ Undisturbed => ~mfail /\ NoneOf(chan, Kind({"PERMFAIL"}))

(* What is sent has no message of the types T.                             *)
Mild(out, T) == out \in [Site -> Seq(Message)] /\ Without(out, Kind(T))

LEMMA MildOutputs ==
    ASSUME NEW T, NEW d
    PROVE  /\ Mild(Silent, T)
           /\ \A t \in ToManagerTypes, r \in Nat : t \notin T => Mild(To(d, ToManager(t, r)), T)
           /\ \A t \in ToProxyTypes, s \in Site \cup {NoSite} :
                 t \notin T => Mild(To(d, ToProxy(t, s, 0)), T)
           /\ "TOKEN" \notin T => Mild(TokenTo(d), T)
  <1>1. ASSUME NEW m \in Message, m.type \notin T
        PROVE  Mild(To(d, m), T)
    <2>1. m \notin Kind(T)
      BY <1>1 DEF Kind
    <2> QED
      BY <2>1, ToType, ToWithout DEF Mild
  <1>2. \A t \in ToManagerTypes, r \in Nat : t \notin T => Mild(To(d, ToManager(t, r)), T)
    BY <1>1, ManagerKinds
  <1>3. ASSUME NEW t \in ToProxyTypes, NEW s \in Site \cup {NoSite}
        PROVE  ToProxy(t, s, 0) \in Message /\ ToProxy(t, s, 0).type = t
    BY DEF ToProxy, Message, ProxyMessage
  <1>4. "TOKEN" \notin T => Mild(TokenTo(d), T)
    BY <1>1, TokenKinds DEF TokenTo
  <1>5. Mild(Silent, T)
    BY SilentType, SilentWithout DEF Mild
  <1> QED
    BY <1>1, <1>2, <1>3, <1>4, <1>5

LEMMA MildStep ==
    ASSUME TypeOK, NEW T, NoneOf(chan, Kind(T)), NEW out, Mild(out, T),
           NEW p \in Site,
           Emit(p, out) \/ \E s \in Site : CanRecv(s, p) /\ Consume(s, p, out)
    PROVE  NoneOf(chan', Kind(T))
  <1>1. CASE Emit(p, out)
    BY <1>1, TypeOKNet, EmitStep DEF Mild, Keeps
  <1>2. ASSUME NEW s \in Site, CanRecv(s, p), Consume(s, p, out)
        PROVE  NoneOf(chan', Kind(T))
    BY <1>2, TypeOKNet, ConsumeStep DEF Mild, Keeps
  <1> QED
    BY <1>1, <1>2

LEMMA HeadOther ==
    ASSUME TypeOK, NEW T, NoneOf(chan, Kind(T)), NEW s \in Site, NEW p \in Site,
           CanRecv(s, p)
    PROVE  Head1(s, p).type \notin T
  <1>1. chan[<<s, p>>] \in Seq(Message) /\ chan[<<s, p>>] # <<>>
    BY DEF TypeOK, CanRecv
  <1>2. 1 \in DOMAIN chan[<<s, p>>] /\ Head1(s, p) = chan[<<s, p>>][1]
    BY <1>1, EmptySeq, LenProperties DEF Head1
  <1>3. Head1(s, p) \notin Kind(T)
    BY <1>2 DEF NoneOf
  <1> QED
    BY <1>3, HeadIsMessage DEF Kind

(* Without a crash the manager makes no inquiry, and no site notes a       *)
(* failure of another one.                                                 *)
Peaceful ==
    \/ \E p \in Site : Operation(p)
    \/ \E s, p \in Site : ProxyIgnores(s, p) \/ GetForward(s, p)
                            \/ GetToken(s, p) \/ GetPermFail(s, p)
    \/ \E s \in Site : Register(s) \/ Deregister(s) \/ Get(s) \/ TokenHere(s)
                            \/ NeedNoMore(s) \/ Failed(s)

LEMMA StaysUp ==
    ASSUME TypeOK, Next
    PROVE  NoCrash' => NoCrash
  <1>1. ASSUME NEW x \in Site, Crash(x) PROVE ~NoCrash'
    BY <1>1 DEF TypeOK, Crash, NoCrash
  <1>2. \A p \in Site : Operation(p) => alive' = alive
    BY DEF Operation, AccessRequest, AccessWait, Monitor, Kill, ClearWeakRoot,
       DeleteProxy, ImportProxy, Emit
  <1>3. \A s, p \in Site : ProxyReceives(s, p) => alive' = alive
    BY DEF ProxyReceives, ProxyIgnores, GetForward, GetToken, GetCheckSucc, GetCheckPred,
       GetPermFail, Consume
  <1>4. \A s \in Site : FailedSucc(s) => alive' = alive \/ Crash(Home)
    BY DEF FailedSucc, Consume
  <1>5. \A s \in Site : OldSucc(s) => alive' = alive \/ Crash(Home)
    BY DEF OldSucc, Consume
  <1>6. \A s \in Site : ManagerReceives(s) => alive' = alive \/ Crash(Home)
    BY <1>4, <1>5 DEF ManagerReceives, Register, Deregister, Get, TokenHere,
       NeedNoMore, Failed, OldPred, Consume
  <1>7. \A s \in Site : DetectHome(s) => alive' = alive
    BY DEF DetectHome, Detect
  <1>8. \A p, s \in Site : DetectRemote(p, s) => alive' = alive
    BY DEF DetectRemote, Detect
  <1>9. \A s \in Site : SiteCrash(s) => Crash(s)
    BY DEF SiteCrash
  <1>10. alive' = alive \/ \E x \in Site : Crash(x)
    BY <1>2, <1>3, <1>6, <1>7, <1>8, <1>9, HomeAssumption DEF Next
  <1> QED
    BY <1>1, <1>10 DEF NoCrash

LEMMA PeacefulStep ==
    ASSUME TypeOK, Calm, Next, NoCrash'
    PROVE  NoCrash /\ NoneOf(chan, Kind(Inquiry)) /\ Peaceful
  <1>1. NoCrash /\ NoneOf(chan, Kind(Inquiry))
    BY StaysUp DEF Calm
  <1>2. ASSUME NEW s \in Site, NEW p \in Site, CanRecv(s, p)
        PROVE  Head1(s, p).type \notin Inquiry
    BY <1>1, <1>2, HeadOther
  <1>3. \A s, p \in Site : ~GetCheckSucc(s, p) /\ ~GetCheckPred(s, p)
    BY <1>2 DEF GetCheckSucc, GetCheckPred, ProxyGets, Inquiry
  <1>4. \A s \in Site : ~FailedSucc(s) /\ ~OldPred(s) /\ ~OldSucc(s)
    BY <1>2, HomeAssumption DEF FailedSucc, OldPred, OldSucc, ManagerGets, Inquiry
  <1>5. \A p, s \in Site : ~DetectRemote(p, s) /\ ~DetectHome(s)
    BY <1>1 DEF DetectRemote, DetectHome, CanDetect, NoCrash
  <1>6. \A s \in Site : ~SiteCrash(s)
    BY DEF SiteCrash, Crash, NoCrash, TypeOK
  <1> QED
    BY <1>1, <1>3, <1>4, <1>5, <1>6 DEF Next, ProxyReceives, ManagerReceives, Peaceful

Ordinary == {"GET", "TOKEN", "REGISTER", "DEREGISTER", "TOKEN_HERE",
             "NEED_NO_MORE", "FORWARD"}

LEMMA MildPermFail ==
    ASSUME NEW c, NEW T, "PERMFAIL" \notin T
    PROVE  Mild(PermFailOut(c), T)
  <1> DEFINE m == ToProxy("PERMFAIL", NoSite, 0)
  <1>1. m \in Message /\ m.type = "PERMFAIL"
    BY DEF ToProxy, Message, ProxyMessage, ToProxyTypes
  <1> HIDE DEF m
  <1>2. PermFailOut(c) \in [Site -> Seq(Message)]
    BY PermFailHarmless DEF Harmless
  <1>3. m \notin Kind(T)
    BY <1>1 DEF Kind
  <1>4. Without(PermFailOut(c), Kind(T))
    BY <1>3 DEF PermFailOut, Without, m
  <1> QED
    BY <1>2, <1>4 DEF Mild

LEMMA PeacefulKinds ==
    ASSUME TypeOK, Peaceful, NoneOf(chan, Kind(Inquiry)),
           NEW T, T \cap Ordinary = {}, NoneOf(chan, Kind(T)),
           "PERMFAIL" \in T => ~mfail /\ \A p \in Site : ~Kill(p)
    PROVE  NoneOf(chan', Kind(T))
  <1> DEFINE NT == NoneOf(chan', Kind(T))
  <1>1. ASSUME NEW out, Mild(out, T), NEW p \in Site, NEW s \in Site,
               Emit(p, out) \/ (CanRecv(s, p) /\ Consume(s, p, out))
        PROVE  NT
    BY <1>1, MildStep
  <1>2. \A t \in Ordinary : t \notin T
    OBVIOUS
  <1>3. ASSUME NEW d
        PROVE  /\ Mild(Silent, T) /\ Mild(TokenTo(d), T)
               /\ \A t \in ToManagerTypes \cap Ordinary, r \in Nat :
                     Mild(To(d, ToManager(t, r)), T)
               /\ \A s \in Site : Mild(To(d, ToProxy("FORWARD", s, 0)), T)
    BY <1>2, MildOutputs DEF Ordinary, ToProxyTypes
  <1>4. ASSUME NEW p \in Site
        PROVE  /\ Mild(sendToManager("GET", request[p]), T)
               /\ Mild(sendToManager("REGISTER", 0), T)
               /\ Mild(sendToManager("DEREGISTER", 0), T)
               /\ Mild(sendToManager("NEED_NO_MORE", 0), T)
               /\ Mild(sendToManager("TOKEN_HERE", 0), T)
    <2>1. request[p] \in Nat /\ 0 \in Nat
      BY DEF TypeOK
    <2>2. /\ "GET" \in ToManagerTypes \cap Ordinary
          /\ "REGISTER" \in ToManagerTypes \cap Ordinary
          /\ "DEREGISTER" \in ToManagerTypes \cap Ordinary
          /\ "NEED_NO_MORE" \in ToManagerTypes \cap Ordinary
          /\ "TOKEN_HERE" \in ToManagerTypes \cap Ordinary
      BY DEF ToManagerTypes, Ordinary
    <2> QED
      BY <1>3, <2>1, <2>2 DEF sendToManager
  <1>5. "PERMFAIL" \notin T => \A d : Mild(sendToManager("PERMFAIL", 0), T)
                                 /\ Mild(To(d, ToProxy("PERMFAIL", NoSite, 0)), T)
    BY MildOutputs DEF sendToManager, ToManagerTypes, ToProxyTypes
  <1> HIDE DEF NT
  <1>6. ASSUME NEW p \in Site, Operation(p)
        PROVE  NT
    <2>1. CASE AccessRequest(p)
      BY <1>1, <1>4, <2>1 DEF AccessRequest
    <2>2. CASE AccessWait(p)
      BY <1>1, <1>3, <2>2 DEF AccessWait
    <2>3. CASE Monitor(p)
      BY <1>1, <1>4, <2>3 DEF Monitor
    <2>4. CASE Kill(p)
      BY <1>1, <1>5, <2>4 DEF Kill
    <2>5. CASE ClearWeakRoot(p)
      BY <1>1, <1>3, <1>4, <2>5 DEF ClearWeakRoot
    <2>6. CASE DeleteProxy(p)
      BY <1>1, <1>3, <1>4, <2>6 DEF DeleteProxy
    <2>7. CASE ImportProxy(p)
      BY <1>1, <1>3, <2>7 DEF ImportProxy
    <2> QED
      BY <1>6, <2>1, <2>2, <2>3, <2>4, <2>5, <2>6, <2>7 DEF Operation
  <1>7. ASSUME NEW s \in Site, NEW p \in Site,
               ProxyIgnores(s, p) \/ GetForward(s, p) \/ GetToken(s, p) \/ GetPermFail(s, p)
        PROVE  NT
    <2>1. CASE ProxyIgnores(s, p)
      BY <1>1, <1>3, <2>1 DEF ProxyIgnores
    <2>2. CASE GetForward(s, p)
      BY <1>1, <1>3, <2>2 DEF GetForward, ProxyGets
    <2>3. CASE GetToken(s, p)
      BY <1>1, <1>3, <1>4, <2>3 DEF GetToken, ProxyGets
    <2>4. CASE GetPermFail(s, p)
      BY <1>1, <1>3, <2>4 DEF GetPermFail, ProxyGets
    <2> QED
      BY <1>7, <2>1, <2>2, <2>3, <2>4
  <1>8. ASSUME NEW s \in Site, Failed(s)
        PROVE  NT
    <2>1. CanRecv(s, Home) /\ Head1(s, Home).type = "PERMFAIL"
      <3>1. CanRecv(s, Home) /\ Head1(s, Home).type \in {"PERMFAIL", "FAILED_PRED"}
        BY <1>8 DEF Failed, ManagerGets
      <3>2. Head1(s, Home).type \notin Inquiry
        BY <3>1, HeadOther, HomeAssumption
      <3> QED
        BY <3>1, <3>2 DEF Inquiry
    <2>2. "PERMFAIL" \notin T
      BY <2>1, HeadOther, HomeAssumption
    <2>3. Mild(PermFailOut(chain), T)
      BY <2>2, MildPermFail
    <2>4. Consume(s, Home, Silent) \/ Consume(s, Home, PermFailOut(chain))
      BY <1>8 DEF Failed
    <2> QED
      BY <1>1, <1>3, <2>1, <2>3, <2>4, HomeAssumption
  <1>9. ASSUME NEW s \in Site,
               Register(s) \/ Deregister(s) \/ Get(s) \/ TokenHere(s) \/ NeedNoMore(s)
        PROVE  NT
    <2> USE HomeAssumption
    <2>1. CASE Register(s)
      BY <1>1, <1>3, <1>5, <2>1 DEF Register, ManagerGets
    <2>2. CASE Deregister(s)
      BY <1>1, <1>3, <2>2 DEF Deregister, ManagerGets
    <2>3. CASE Get(s)
      BY <1>1, <1>3, <1>5, <2>3 DEF Get, ManagerGets
    <2>4. CASE TokenHere(s)
      BY <1>1, <1>3, <2>4 DEF TokenHere, ManagerGets
    <2>5. CASE NeedNoMore(s)
      BY <1>1, <1>3, <1>4, <2>5 DEF NeedNoMore, ManagerGets
    <2> QED
      BY <1>9, <2>1, <2>2, <2>3, <2>4, <2>5
  <1> QED
    BY <1>6, <1>7, <1>8, <1>9 DEF Peaceful, NT

LEMMA BudgetStep ==
    ASSUME TypeOK, Next
    PROVE  /\ budget'["kill"] <= budget["kill"] /\ budget'["import"] <= budget["import"]
           /\ \A p \in Site : Kill(p) => budget'["kill"] < budget["kill"]
           /\ \A p \in Site : ImportProxy(p) => budget'["import"] < budget["import"]
  <1>1. /\ budget \in [{"weak", "kill", "import", "crash"} -> Nat]
    BY DEF TypeOK
  <1>2. \A b \in {"weak", "kill", "import", "crash"} : Spend(b) =>
            /\ budget'[b] < budget[b]
            /\ \A a \in {"weak", "kill", "import", "crash"} : budget'[a] <= budget[a]
    BY <1>1 DEF Spend
  <1>3. UNCHANGED budget \/ \E b \in {"weak", "kill", "import", "crash"} : Spend(b)
    <2>1. \A p \in Site : Operation(p) =>
             UNCHANGED budget \/ Spend("kill") \/ Spend("weak") \/ Spend("import")
      BY DEF Operation, AccessRequest, AccessWait, Monitor, Kill, ClearWeakRoot,
         DeleteProxy, ImportProxy
    <2>2. \A s, p \in Site : ProxyReceives(s, p) => UNCHANGED budget
      BY DEF ProxyReceives, ProxyIgnores, GetForward, GetToken, GetCheckSucc,
         GetCheckPred, GetPermFail
    <2>3. \A s \in Site : ManagerReceives(s) => UNCHANGED budget
      BY DEF ManagerReceives, Register, Deregister, Get, TokenHere, NeedNoMore,
         FailedSucc, Failed, OldPred, OldSucc
    <2>4. \A s \in Site : SiteCrash(s) \/ DetectHome(s) => UNCHANGED budget \/ Spend("crash")
      BY DEF SiteCrash, DetectHome
    <2>5. \A p, s \in Site : DetectRemote(p, s) => UNCHANGED budget
      BY DEF DetectRemote
    <2> QED
      BY <2>1, <2>2, <2>3, <2>4, <2>5 DEF Next
  <1>4. \A p \in Site : (Kill(p) => Spend("kill")) /\ (ImportProxy(p) => Spend("import"))
    BY DEF Kill, ImportProxy
  <1>5. budget'["kill"] <= budget["kill"] /\ budget'["import"] <= budget["import"]
    BY <1>1, <1>2, <1>3
  <1> QED
    BY <1>2, <1>4, <1>5

LEMMA FailureStep ==
    ASSUME TypeOK, Peaceful, NoneOf(chan, Kind(Inquiry)),
           NoneOf(chan, Kind({"PERMFAIL"})), ~mfail
    PROVE  mfail' = mfail
  <1>1. \A s \in Site : ~Failed(s)
    <2> SUFFICES ASSUME NEW s \in Site, Failed(s)
                 PROVE  FALSE
      OBVIOUS
    <2>1. CanRecv(s, Home) /\ Head1(s, Home).type \in {"PERMFAIL", "FAILED_PRED"}
      BY DEF Failed, ManagerGets
    <2>2. Head1(s, Home).type \notin Inquiry /\ Head1(s, Home).type \notin {"PERMFAIL"}
      BY <2>1, HeadOther, HomeAssumption
    <2> QED
      BY <2>1, <2>2 DEF Inquiry
  <1>2. \A p \in Site : Operation(p) => mfail' = mfail
    BY DEF Operation, AccessRequest, AccessWait, Monitor, Kill, ClearWeakRoot,
       DeleteProxy, ImportProxy, managerVars
  <1>3. \A s, p \in Site : ProxyIgnores(s, p) \/ GetForward(s, p) \/ GetToken(s, p)
                             \/ GetPermFail(s, p) => mfail' = mfail
    BY DEF ProxyIgnores, GetForward, GetToken, GetPermFail, managerVars
  <1>4. \A s \in Site : Register(s) \/ Deregister(s) \/ Get(s) \/ TokenHere(s)
                            \/ NeedNoMore(s) => mfail' = mfail
    BY DEF Register, Deregister, Get, TokenHere, NeedNoMore, managerVars
  <1> QED
    BY <1>1, <1>2, <1>3, <1>4 DEF Peaceful

LEMMA CalmStep ==
    ASSUME TypeOK, TypeOK', Calm, Next
    PROVE  Calm'
  <1>1. /\ budget["kill"] \in Nat /\ budget'["kill"] \in Nat /\ MaxKills \in Nat
        /\ budget["import"] \in Nat /\ budget'["import"] \in Nat /\ MaxImports \in Nat
    BY BoundsAssumption DEF TypeOK
  <1>2. budget'["kill"] <= MaxKills /\ budget'["import"] <= MaxImports
    BY <1>1, BudgetStep DEF Calm
  <1>3. NoCrash' => NoneOf(chan', Kind(Inquiry))
    <2> SUFFICES ASSUME NoCrash'
                 PROVE  NoneOf(chan', Kind(Inquiry))
      OBVIOUS
    <2>1. Inquiry \cap Ordinary = {} /\ "PERMFAIL" \notin Inquiry
      BY DEF Inquiry, Ordinary
    <2> QED
      BY <2>1, PeacefulStep, PeacefulKinds
  <1>4. ASSUME Undisturbed'
        PROVE  ~mfail' /\ NoneOf(chan', Kind({"PERMFAIL"}))
    <2>1. NoCrash' /\ budget'["kill"] = MaxKills
      BY <1>4 DEF Undisturbed, NoCrash
    <2>2. NoCrash /\ NoneOf(chan, Kind(Inquiry)) /\ Peaceful
      BY <2>1, PeacefulStep
    <2>3. budget["kill"] = MaxKills /\ \A p \in Site : ~Kill(p)
      BY <1>1, <2>1, BudgetStep DEF Calm
    <2>4. ~mfail /\ NoneOf(chan, Kind({"PERMFAIL"}))
      BY <2>2, <2>3 DEF Calm, Undisturbed, NoCrash
    <2>5. {"PERMFAIL"} \cap Ordinary = {}
      BY DEF Ordinary
    <2>6. NoneOf(chan', Kind({"PERMFAIL"}))
      BY <2>2, <2>3, <2>4, <2>5, PeacefulKinds
    <2> QED
      BY <2>2, <2>4, <2>6, FailureStep
  <1> QED
    BY <1>2, <1>3, <1>4 DEF Calm

LEMMA CalmInit == Init => Calm
  BY BoundsAssumption DEF Init, NetInit, Calm, NoneOf

-----------------------------------------------------------------------------
(* Without a crash or a kill the token is somewhere.                       *)

LEMMA NotOn ==
    ASSUME NEW c, NEW T, NoneOf(c, Kind(T)), NEW l \in Site \X Site, NEW K,
           K \subseteq Kind(T), NEW S
    PROVE  ~On(c, l, K, S)
  BY DEF NoneOf, On, Hears

LEMMA Undamaged ==
    ASSUME TypeOK, ChainInv, NoCrash, ~mfail, NoneOf(chan, Kind(Inquiry)),
           NEW p \in Site
    PROVE  /\ Able /\ ChainOK
           /\ alive[p] /\ Sound(p) /\ ~pfail[p] /\ ~Broken(chan, p)
           /\ \A r : ~Old(chan, p, r)
  <1>1. Able /\ ChainOK /\ alive[p]
    BY HomeAssumption DEF ChainInv, Able, NoCrash
  <1>2. /\ Loss \subseteq Kind(Inquiry) /\ Kind({"FAILED_SUCC"}) \subseteq Kind(Inquiry)
        /\ \A r : Aged(r) \subseteq Kind(Inquiry)
    BY DEF Loss, Kind, Inquiry, Aged
  <1>3. <<p, Home>> \in Site \X Site
    BY HomeAssumption
  <1>4. ~Lost(chan, p) /\ ~Broken(chan, p) /\ \A r : ~Old(chan, p, r)
    BY <1>2, <1>3, NotOn DEF Lost, Broken, Old
  <1>5. p \notin perm[Home]
    BY <1>1, HomeAssumption DEF ChainInv, Base
  <1>6. Sound(p)
    BY <1>4, <1>5 DEF Sound
  <1>7. ~pfail[p]
    BY <1>1, <1>6 DEF ChainOK, SiteOK, GivenUp
  <1> QED
    BY <1>1, <1>4, <1>6, <1>7

Somewhere == \E p \in Site : Token(p)

(* A step that leaves the holder alone and reads no token.                 *)
Undisposed(q) == Holder(q) => present'[q] /\ ~pfail'[q] /\ status'[q] = "HERE"

LEMMA TokenRemains ==
    ASSUME TypeOK, NEW q \in Site, Token(q), Undisposed(q),
           NEW p \in Site, NEW out, Harmless(out)
    PROVE  /\ Emit(p, out) => Somewhere'
           /\ \A s \in Site : CanRecv(s, p) /\ Consume(s, p, out)
                                /\ Head1(s, p).type # "TOKEN" => Somewhere'
  <1>1. ASSUME Holder(q), alive' = alive
        PROVE  Somewhere'
    BY <1>1 DEF Holder, Token, Undisposed, Somewhere
  <1>2. ASSUME NEW r \in Site, Carried(chan, <<r, q>>, {TokenMessage}),
               Emit(p, out)
        PROVE  Somewhere'
    <2>1. <<r, q>> \in Site \X Site
      OBVIOUS
    <2> QED
      BY <1>2, <2>1, TypeOKNet, EmitStays DEF Somewhere, Token, TokenUnderWay, Harmless
  <1>3. ASSUME NEW r \in Site, Carried(chan, <<r, q>>, {TokenMessage}), NEW s \in Site,
               CanRecv(s, p), Consume(s, p, out), Head1(s, p).type # "TOKEN"
        PROVE  Somewhere'
    <2>1. <<r, q>> \in Site \X Site
      OBVIOUS
    <2>2. Head(chan[<<s, p>>]) \notin {TokenMessage}
      BY <1>3, TokenKinds DEF Head1
    <2>3. Carried(chan', <<r, q>>, {TokenMessage})
      BY <1>3, <2>1, <2>2, TypeOKNet, ConsumeStays DEF Harmless
    <2> QED
      BY <2>3 DEF Somewhere, Token, TokenUnderWay
  <1>4. /\ Emit(p, out) => alive' = alive
        /\ \A s : Consume(s, p, out) => alive' = alive
    BY DEF Emit, Consume
  <1>5. Holder(q) \/ \E r \in Site : Carried(chan, <<r, q>>, {TokenMessage})
    BY DEF Token, TokenUnderWay
  <1> QED
    BY <1>1, <1>2, <1>3, <1>4, <1>5

(* The token is sent on to another site.                                   *)
LEMMA TokenSent ==
    ASSUME TypeOK, Base, NoCrash, NEW p \in Site, NEW d \in Site,
           \/ Emit(p, TokenTo(d))
           \/ \E s \in Site : CanRecv(s, p) /\ Consume(s, p, TokenTo(d))
    PROVE  Somewhere'
  <1>1. alive[d] /\ d \notin perm[p]
    BY DEF NoCrash, Base
  <1>2. TokenTo(d) \in [Site -> Seq(Message)]
    BY TokenKinds, ToType DEF TokenTo
  <1>3. 1 \in DOMAIN TokenTo(d)[d] /\ TokenTo(d)[d][1] \in {TokenMessage}
    BY DEF TokenTo, To, Silent
  <1>4. ASSUME NEW c \in Channels(Message), chan' = Sent(c, p, TokenTo(d))
        PROVE  Somewhere'
    <2>1. c \in [Site \X Site -> Seq(Message)]
      BY DEF Channels
    <2>2. Carried(chan', <<p, d>>, {TokenMessage})
      BY <1>1, <1>2, <1>3, <1>4, <2>1, SentArrives
    <2> QED
      BY <2>2 DEF Somewhere, Token, TokenUnderWay
  <1>5. CASE Emit(p, TokenTo(d))
    BY <1>4, <1>5, EmitNet
  <1>6. ASSUME NEW s \in Site, CanRecv(s, p), Consume(s, p, TokenTo(d))
        PROVE  Somewhere'
    <2>1. /\ Taken(chan, s, p) \in Channels(Message)
          /\ chan' = Sent(Taken(chan, s, p), p, TokenTo(d))
      BY <1>6, ConsumeNet
    <2> QED
      BY <1>4, <2>1
  <1> QED
    BY <1>5, <1>6

LEMMA SomewhereOperation ==
    ASSUME IInv, ChainInv, NoCrash, ~mfail, NoneOf(chan, Kind(Inquiry)),
           Somewhere, NEW p \in Site, Operation(p)
    PROVE  Somewhere'
  <1>1. PICK q \in Site : Token(q)
    BY DEF Somewhere
  <1>2. ASSUME NEW out, Harmless(out), Emit(p, out), Undisposed(q)
        PROVE  Somewhere'
    BY <1>1, <1>2, TokenRemains DEF IInv
  <1>3. /\ Harmless(Silent) /\ request[p] \in Nat
        /\ Harmless(sendToManager("GET", request[p]))
        /\ Harmless(sendToManager("REGISTER", 0))
        /\ Harmless(sendToManager("DEREGISTER", 0))
        /\ Harmless(sendToManager("NEED_NO_MORE", 0))
        /\ Harmless(sendToManager("PERMFAIL", 0))
    <2>1. request[p] \in Nat
      BY DEF IInv, TypeOK
    <2>2. \A t \in ToManagerTypes, r \in Nat : Harmless(sendToManager(t, r))
      BY ToManagerHarmless
    <2> QED
      BY <2>1, <2>2, SilentHarmless DEF ToManagerTypes
  <1> USE DEF IInv, TypeOK, Undisposed, Holder
  <1>4. CASE AccessRequest(p)
    BY <1>2, <1>3, <1>4 DEF AccessRequest
  <1>5. CASE AccessWait(p)
    BY <1>2, <1>3, <1>5 DEF AccessWait
  <1>6. CASE Monitor(p)
    BY <1>2, <1>3, <1>6 DEF Monitor
  <1>7. CASE Kill(p)
    BY <1>2, <1>3, <1>7 DEF Kill, proxyVars
  <1>8. CASE DeleteProxy(p)
    BY <1>2, <1>3, <1>8 DEF DeleteProxy, IsWeakRoot
  <1>9. CASE ImportProxy(p)
    BY <1>2, <1>3, <1>9 DEF ImportProxy
  <1>10. CASE ClearWeakRoot(p)
    <2>1. CASE successor[p] = NoSite
      BY <1>2, <1>3, <1>10, <2>1 DEF ClearWeakRoot
    <2>2. CASE successor[p] # NoSite
      <3>1. successor[p] \in Site /\ Emit(p, TokenTo(successor[p]))
        BY <1>10, <2>2 DEF ClearWeakRoot
      <3> QED
        BY <3>1, TokenSent DEF ChainInv
    <2> QED
      BY <2>1, <2>2
  <1> QED
    BY <1>4, <1>5, <1>6, <1>7, <1>8, <1>9, <1>10 DEF Operation

LEMMA SomewhereProxy ==
    ASSUME IInv, ChainInv, NoCrash, ~mfail, NoneOf(chan, Kind(Inquiry)),
           NoneOf(chan, Kind({"PERMFAIL"})), Somewhere, NEW s \in Site, NEW p \in Site,
           ProxyIgnores(s, p) \/ GetForward(s, p) \/ GetToken(s, p) \/ GetPermFail(s, p)
    PROVE  Somewhere'
  <1>1. PICK q \in Site : Token(q)
    BY DEF Somewhere
  <1>2. ASSUME NEW out, Harmless(out), CanRecv(s, p), Consume(s, p, out), Undisposed(q),
               Head1(s, p).type # "TOKEN"
        PROVE  Somewhere'
    BY <1>1, <1>2, TokenRemains DEF IInv
  <1>3. /\ Shaped /\ SiteOK(p) /\ Sound(p) /\ ~pfail[p] /\ TypeOK /\ Base
    BY Undamaged DEF ChainOK, IInv, ChainInv
  <1>4. CASE ProxyIgnores(s, p)
    <2>1. CanRecv(s, p) /\ ~present[p] /\ Consume(s, p, Silent)
      BY <1>3, <1>4 DEF ProxyIgnores
    <2>2. Head1(s, p).type # "TOKEN"
      <3> SUFFICES ASSUME Head1(s, p).type = "TOKEN"
                   PROVE  FALSE
        OBVIOUS
      <3>1. chan[<<s, p>>] \in Seq(Message) /\ chan[<<s, p>>] # <<>>
        BY <1>3, <2>1 DEF TypeOK, CanRecv
      <3>2. 1 \in DOMAIN chan[<<s, p>>] /\ Head1(s, p) = chan[<<s, p>>][1]
        BY <3>1, EmptySeq, LenProperties DEF Head1
      <3>3. TokenUnderWay(p)
        BY <1>3, <2>1, <3>2, HeadIsMessage DEF TokenUnderWay, Carried
      <3>4. Flagged(p)
        BY <1>3, <3>3 DEF SiteOK, TokenKept, Token
      <3>5. status[p] # "EMPTY"
        BY <1>3, <3>4 DEF SiteOK, Resting
      <3> QED
        BY <2>1, <3>5 DEF IInv, AbsentEmpty
    <2>3. Undisposed(q)
      BY <1>4 DEF ProxyIgnores, proxyVars, Undisposed, Holder
    <2> QED
      BY <1>2, <2>1, <2>2, <2>3, SilentHarmless
  <1>5. CASE GetForward(s, p)
    <2>1. /\ CanRecv(s, p) /\ Head1(s, p).type = "FORWARD" /\ present[p]
          /\ Head1(s, p).site \in Site \cup {NoSite}
      BY <1>3, <1>5, HeadIsMessage DEF GetForward, ProxyGets
    <2>2. CASE status[p] # "HERE"
      <3>1. Consume(s, p, Silent) /\ Undisposed(q)
        BY <1>3, <1>5, <2>2 DEF GetForward, Undisposed, Holder
      <3> QED
        BY <1>2, <2>1, <3>1, SilentHarmless
    <2>3. CASE status[p] = "HERE"
      <3> DEFINE x == Head1(s, p).site
      <3>1. Consume(s, p, TokenTo(x))
        BY <1>5, <2>3 DEF GetForward
      <3>2. InChain(p)
        <4>1. Holder(p)
          BY <1>3, <2>1, <2>3 DEF Holder, CanRecv
        <4> QED
          BY <1>3, <4>1 DEF SiteOK, TokenKept, Token
      <3>3. /\ chan \in Channels(Message) /\ chan[<<s, p>>] # <<>>
            /\ Head1(s, p) \in Message /\ Head1(s, p) = Head(chan[<<s, p>>])
        BY <1>3, <2>1, <3>1, ConsumeNet
      <3>4. s = Home
        BY <1>3, <2>1, <3>3, TakenBase DEF Base, DownTypes
      <3>5. ToldOf(chan, p, x)
        <4>1. <<s, p>> \in Site \X Site /\ Head1(s, p) \in Naming(x)
          BY <2>1, <3>3 DEF Naming
        <4>2. Head1(s, p) \notin {}
          OBVIOUS
        <4> QED
          BY <3>3, <3>4, <4>1, <4>2, TakenOn DEF ToldOf
      <3>6. Adjacent(chain, p, x)
        BY <1>3, <3>2, <3>5 DEF SiteOK, Guided
      <3>7. x \in Site
        BY <1>3, <3>6, AdjacentFacts DEF Shaped
      <3> QED
        BY <1>3, <2>1, <3>1, <3>7, TokenSent
    <2> QED
      BY <2>2, <2>3
  <1>6. CASE GetToken(s, p)
    <2>1. CanRecv(s, p) /\ present[p]
      BY <1>6 DEF GetToken, ProxyGets
    <2>2. CASE successor[p] # NoSite
      <3>1. successor[p] \in Site /\ Consume(s, p, TokenTo(successor[p]))
        BY <1>3, <1>6, <2>2 DEF GetToken, TypeOK
      <3> QED
        BY <1>3, <2>1, <3>1, TokenSent
    <2>3. CASE successor[p] = NoSite
      <3>1. Holder(p)'
        BY <1>3, <1>6, <2>1, <2>3 DEF GetToken, Consume, Holder, CanRecv, TypeOK
      <3> QED
        BY <3>1 DEF Somewhere, Token
    <2> QED
      BY <2>2, <2>3
  <1>7. ~GetPermFail(s, p)
    BY <1>3, HeadOther DEF GetPermFail, ProxyGets
  <1> QED
    BY <1>4, <1>5, <1>6, <1>7

LEMMA SomewhereManager ==
    ASSUME IInv, ChainInv, NoCrash, ~mfail, NoneOf(chan, Kind(Inquiry)),
           NoneOf(chan, Kind({"PERMFAIL"})), Somewhere, NEW s \in Site,
           \/ Register(s) \/ Deregister(s) \/ Get(s) \/ TokenHere(s)
           \/ NeedNoMore(s) \/ Failed(s)
    PROVE  Somewhere'
  <1> USE HomeAssumption
  <1>1. PICK q \in Site : Token(q)
    BY DEF Somewhere
  <1>2. /\ Shaped /\ SiteOK(q) /\ SiteOK(s) /\ Ordered /\ TypeOK /\ Base
        /\ Sound(s)
    BY Undamaged DEF ChainOK, IInv, ChainInv
  <1>3. /\ CanRecv(s, Home) /\ Head1(s, Home).to = "manager"
        /\ Head1(s, Home).type # "TOKEN"
    <2>1. CanRecv(s, Home) /\ Head1(s, Home).to = "manager"
      BY DEF Register, Deregister, Get, TokenHere, NeedNoMore, Failed, ManagerGets
    <2>2. Head1(s, Home) \in Message
      BY <1>2, <2>1, HeadIsMessage
    <2> QED
      BY <2>1, <2>2, HeadKinds
  <1>4. ASSUME NEW out, Harmless(out), Consume(s, Home, out), Undisposed(q)
        PROVE  Somewhere'
    BY <1>1, <1>2, <1>3, <1>4, TokenRemains
  <1>5. ~Failed(s)
    <2>1. Head1(s, Home).type \notin Inquiry /\ Head1(s, Home).type \notin {"PERMFAIL"}
      BY <1>2, <1>3, HeadOther
    <2> QED
      BY <2>1 DEF Failed, ManagerGets, Inquiry
  <1>6. CASE NeedNoMore(s) /\ s = last
    <2>1. Consume(s, Home, sendToManager("GET", request[Home]))
            /\ status' = [status EXCEPT ![Home] = "REQUESTED"]
            /\ UNCHANGED <<present, pfail>>
            /\ Head1(s, Home).type = "NEED_NO_MORE"
      BY <1>6 DEF NeedNoMore, ManagerGets
    <2>2. s # Home
      BY <1>2, <1>3, <2>1, ManagerReads
    <2>3. Saw(chan, s)
      <3>1. /\ chan \in Channels(Message) /\ chan[<<s, Home>>] # <<>>
            /\ Head1(s, Home) \in Message /\ Head1(s, Home) = Head(chan[<<s, Home>>])
        BY <1>2, <1>3, ManagerReads
      <3>2. Head1(s, Home) \in Seen /\ Head1(s, Home) \notin Loss
        BY <2>1, <3>1 DEF Seen, Loss, Kind
      <3>3. <<s, Home>> \in Site \X Site
        OBVIOUS
      <3> QED
        BY <3>1, <3>2, <3>3, TakenOn DEF Saw
    <2>4. PICK r \in Nat : Has(chain, s, r)
      BY <1>2, <1>6, ChainFacts DEF Shaped
    <2>5. q # Home
      <3> SUFFICES ASSUME q = Home
                   PROVE  FALSE
        OBVIOUS
      <3>1. InChain(Home)
        BY <1>1, <1>2 DEF SiteOK, TokenKept
      <3>2. Ahead(chain, Home, s, r)
        BY <1>2, <1>6, <2>2, <2>4, <3>1, ChainFacts DEF Shaped, InChain
      <3> QED
        BY <1>1, <1>2, <2>3, <3>2 DEF Ordered, Reached
    <2>6. Undisposed(q)
      BY <1>2, <2>1, <2>5 DEF Undisposed, Holder, TypeOK
    <2>7. "GET" \in ToManagerTypes /\ request[Home] \in Nat
      BY <1>2 DEF TypeOK, ToManagerTypes
    <2> QED
      BY <1>4, <2>1, <2>6, <2>7, ToManagerHarmless
  <1>7. CASE ~(NeedNoMore(s) /\ s = last)
    <2>1. Undisposed(q)
      BY <1>5, <1>7 DEF Undisposed, Holder, Register, Deregister, Get, TokenHere,
         NeedNoMore, proxyVars
    <2>2. \/ Consume(s, Home, Silent)
          \/ Consume(s, Home, To(last, ToProxy("FORWARD", s, 0)))
      BY <1>5, <1>7 DEF Register, Deregister, Get, TokenHere, NeedNoMore
    <2> QED
      BY <1>4, <2>1, <2>2, SilentHarmless, ManagerHarmless
  <1> QED
    BY <1>6, <1>7

LEMMA SomewhereStep ==
    ASSUME IInv, IInv', ChainInv, Calm, Undisturbed => Somewhere, Next
    PROVE  Undisturbed' => Somewhere'
  <1> SUFFICES ASSUME Undisturbed'
               PROVE  Somewhere'
    OBVIOUS
  <1>1. NoCrash' /\ budget'["kill"] = MaxKills /\ TypeOK /\ TypeOK'
    BY DEF Undisturbed, NoCrash, IInv
  <1>2. NoCrash /\ NoneOf(chan, Kind(Inquiry)) /\ Peaceful
    BY <1>1, PeacefulStep
  <1>3. Undisturbed
    <2>1. budget["kill"] \in Nat /\ budget'["kill"] \in Nat /\ MaxKills \in Nat
      BY <1>1, BoundsAssumption DEF TypeOK
    <2>2. budget["kill"] = MaxKills
      BY <1>1, <2>1, BudgetStep DEF Calm
    <2> QED
      BY <1>2, <2>2 DEF Undisturbed, NoCrash
  <1>4. Somewhere /\ ~mfail /\ NoneOf(chan, Kind({"PERMFAIL"}))
    BY <1>3 DEF Calm
  <1> QED
    BY <1>2, <1>4, SomewhereOperation, SomewhereProxy, SomewhereManager DEF Peaceful

LEMMA SomewhereInit == Init => Somewhere
  BY InitRefines, HomeAssumption DEF Somewhere, Token, at

-----------------------------------------------------------------------------
(* Without a crash, a kill or a reimport the entry of a proxy in the chain *)
(* is not ahead of its requests, and is behind them once the proxy has     *)
(* passed the token on.                                                    *)

Parted(p) == status[p] = "EMPTY" \/ (Asks(chan, p) /\ last # p)

Behind(p) ==
    \A r : Has(chain, p, r) => r <= request[p] /\ (Parted(p) => r < request[p])

Numbering ==
    NoCrash /\ ~mfail /\ NoReimport => \A p \in Site : present[p] => Behind(p)

(* A step that leaves p with its entry and its request, or passes on.      *)
Lags(p) ==
    /\ present'[p] => present[p]
    /\ \A r : Has(chain', p, r) => Has(chain, p, r)
    /\ \/ request'[p] = request[p] /\ (Parted(p)' /\ InChain(p) => Parted(p))
       \/ request'[p] = request[p] + 1

LEMMA LagsBehind ==
    ASSUME TypeOK, Shaped, NEW p \in Site, Lags(p), present'[p], present[p] => Behind(p)
    PROVE  Behind(p)'
  <1>1. request[p] \in Nat
    BY DEF TypeOK
  <1>2. \A r : Has(chain, p, r) => r \in Nat /\ InChain(p)
    BY ChainFacts DEF Shaped, InChain
  <1> SUFFICES ASSUME NEW r, Has(chain', p, r)
               PROVE  r <= request'[p] /\ (Parted(p)' => r < request'[p])
    BY DEF Behind
  <1>3. /\ r \in Nat /\ r <= request[p] /\ (Parted(p) => r < request[p])
        /\ InChain(p)
    BY <1>2 DEF Lags, Behind
  <1> QED
    BY <1>1, <1>3 DEF Lags

LEMMA AsksCarried ==
    ASSUME NEW c, NEW p \in Site
    PROVE  /\ Asks(c, p) => Carried(c, <<p, Home>>, Kind({"GET"}))
           /\ NoneOf(c, Kind(Inquiry)) /\ c \in Channels(Message)
                /\ Carried(c, <<p, Home>>, Kind({"GET"})) => Asks(c, p)
  <1>1. Asks(c, p) => Carried(c, <<p, Home>>, Kind({"GET"}))
    BY DEF Asks, On, Hears, Carried
  <1>2. ASSUME NoneOf(c, Kind(Inquiry)), c \in Channels(Message),
               Carried(c, <<p, Home>>, Kind({"GET"}))
        PROVE  Asks(c, p)
    <2> DEFINE q == c[<<p, Home>>]
    <2>1. <<p, Home>> \in Site \X Site /\ q \in Seq(Message)
      BY <1>2, HomeAssumption DEF Channels
    <2>2. Loss \subseteq Kind(Inquiry)
      BY DEF Loss, Kind, Inquiry
    <2>3. \A i \in DOMAIN q : q[i] \notin Loss
      BY <1>2, <2>1, <2>2 DEF NoneOf
    <2>4. DOMAIN q = 1..Len(q) /\ Len(q) \in Nat
      BY <2>1, LenProperties
    <2>5. PICK j \in DOMAIN q : q[j] \in Kind({"GET"})
      BY <1>2 DEF Carried
    <2> HIDE DEF q
    <2>6. \A k \in 1..(j - 1) : k \in DOMAIN q
      BY <2>4, <2>5
    <2> QED
      BY <2>3, <2>5, <2>6 DEF Asks, On, Hears, q
  <1> QED
    BY <1>1, <1>2

(* Nobody asks for the token but the one who sends a MIGM_GET.             *)
LEMMA AsksKept ==
    ASSUME TypeOK, NoneOf(chan, Kind(Inquiry)), NEW out, NEW p \in Site,
           Mild(out, {"GET"}),
           Emit(p, out) \/ \E s \in Site : CanRecv(s, p) /\ Consume(s, p, out),
           NEW q \in Site, Asks(chan', q)
    PROVE  Asks(chan, q)
  <1>1. Keeps(Kind({"GET"}))
    <2>1. CASE Emit(p, out)
      BY <2>1, TypeOKNet, EmitStep DEF Mild
    <2>2. ASSUME NEW s \in Site, CanRecv(s, p), Consume(s, p, out)
          PROVE  Keeps(Kind({"GET"}))
      BY <2>2, TypeOKNet, ConsumeStep DEF Mild
    <2> QED
      BY <2>1, <2>2
  <1>2. <<q, Home>> \in Site \X Site /\ chan \in Channels(Message)
    BY HomeAssumption DEF TypeOK, Channels
  <1> QED
    BY <1>1, <1>2, AsksCarried DEF Keeps

LEMMA AsksOther ==
    ASSUME TypeOK, Base, NoneOf(chan, Kind(Inquiry)), NEW p \in Site, NEW m \in Message,
           Emit(p, To(Home, m)) \/ \E s \in Site : CanRecv(s, p) /\ Consume(s, p, To(Home, m)),
           NEW q \in Site, q # p, Asks(chan', q)
    PROVE  Asks(chan, q)
  <1>1. ASSUME NEW c \in Channels(Message), chan' = Sent(c, p, To(Home, m))
        PROVE  Asks(c, q)
    BY <1>1, SentSame DEF SameUp
  <1>2. CASE Emit(p, To(Home, m))
    BY <1>1, <1>2, EmitNet
  <1>3. ASSUME NEW s \in Site, CanRecv(s, p), Consume(s, p, To(Home, m))
        PROVE  Asks(chan, q)
    <2>1. /\ chan \in Channels(Message) /\ chan[<<s, p>>] # <<>>
          /\ Taken(chan, s, p) \in Channels(Message)
          /\ Head1(s, p) = Head(chan[<<s, p>>])
          /\ chan' = Sent(Taken(chan, s, p), p, To(Home, m))
      BY <1>3, ConsumeNet
    <2>2. Asks(Taken(chan, s, p), q)
      BY <1>1, <2>1
    <2>3. Head1(s, p).type # "FAILED_PRED"
      BY <1>3, HeadOther DEF Inquiry
    <2> QED
      BY <2>1, <2>2, <2>3, TakenUp
  <1> QED
    BY <1>2, <1>3

(* The chain does not change: p lags unless it asks or passes on.          *)
LEMMA LagsUnasked ==
    ASSUME NEW q \in Site, present'[q] => present[q], chain' = chain, last' = last,
           request'[q] = request[q], status'[q] = "EMPTY" => status[q] = "EMPTY",
           Asks(chan', q) => Asks(chan, q)
    PROVE  Lags(q)
  BY DEF Lags, Parted

LEMMA LagsOperation ==
    ASSUME TypeOK, Base, NoneOf(chan, Kind(Inquiry)), NEW p \in Site, Operation(p),
           ~ImportProxy(p), NEW q \in Site, present'[q]
    PROVE  Lags(q)
  <1> USE DEF TypeOK
  <1>1. ASSUME NEW out, Mild(out, {"GET"}), Emit(p, out)
        PROVE  Asks(chan', q) => Asks(chan, q)
    BY <1>1, AsksKept
  <1>2. /\ Mild(Silent, {"GET"}) /\ \A d : Mild(TokenTo(d), {"GET"})
        /\ Mild(sendToManager("REGISTER", 0), {"GET"})
        /\ Mild(sendToManager("DEREGISTER", 0), {"GET"})
        /\ Mild(sendToManager("NEED_NO_MORE", 0), {"GET"})
        /\ Mild(sendToManager("PERMFAIL", 0), {"GET"})
    BY MildOutputs DEF sendToManager, ToManagerTypes
  <1>3. CASE AccessRequest(p)
    <2>1. /\ present' = present /\ chain' = chain /\ last' = last /\ request' = request
          /\ status[p] = "EMPTY" /\ status' = [status EXCEPT ![p] = "REQUESTED"]
          /\ Emit(p, sendToManager("GET", request[p]))
      BY <1>3 DEF AccessRequest, managerVars
    <2>2. CASE q = p
      BY <2>1, <2>2 DEF Lags, Parted
    <2>3. CASE q # p
      <3>1. ToManager("GET", request[p]) \in Message
        BY ManagerKinds DEF ToManagerTypes
      <3>2. Asks(chan', q) => Asks(chan, q)
        BY <2>1, <2>3, <3>1, AsksOther DEF sendToManager
      <3> QED
        BY <2>1, <2>3, <3>2, LagsUnasked
    <2> QED
      BY <2>2, <2>3
  <1>4. CASE AccessWait(p)
    BY <1>1, <1>2, <1>4, LagsUnasked DEF AccessWait, managerVars
  <1>5. CASE Monitor(p)
    BY <1>1, <1>2, <1>5, LagsUnasked DEF Monitor, managerVars
  <1>6. CASE Kill(p)
    BY <1>1, <1>2, <1>6, LagsUnasked DEF Kill, managerVars, proxyVars
  <1>7. CASE DeleteProxy(p)
    <2>1. Asks(chan', q) => Asks(chan, q)
      BY <1>1, <1>2, <1>7 DEF DeleteProxy
    <2> QED
      BY <1>7, <2>1, LagsUnasked DEF DeleteProxy, managerVars
  <1>8. CASE ClearWeakRoot(p)
    <2>1. Asks(chan', q) => Asks(chan, q)
      BY <1>1, <1>2, <1>8 DEF ClearWeakRoot
    <2>2. present' = present /\ chain' = chain /\ last' = last
      BY <1>8 DEF ClearWeakRoot, managerVars
    <2>3. CASE successor[p] # NoSite /\ q = p
      <3>1. request'[q] = request[q] + 1
        BY <1>8, <2>3 DEF ClearWeakRoot, ForwardedToken
      <3> QED
        BY <2>2, <3>1 DEF Lags
    <2>4. CASE ~(successor[p] # NoSite /\ q = p)
      <3>1. request'[q] = request[q] /\ status'[q] = status[q]
        BY <1>8, <2>4 DEF ClearWeakRoot, ForwardedToken
      <3> QED
        BY <2>1, <2>2, <3>1, LagsUnasked
    <2> QED
      BY <2>3, <2>4
  <1> QED
    BY <1>3, <1>4, <1>5, <1>6, <1>7, <1>8 DEF Operation

LEMMA LagsProxy ==
    ASSUME TypeOK, Base, NoneOf(chan, Kind(Inquiry)), NEW s \in Site, NEW p \in Site,
           ProxyIgnores(s, p) \/ GetForward(s, p) \/ GetToken(s, p) \/ GetPermFail(s, p),
           NEW q \in Site
    PROVE  Lags(q)
  <1> USE DEF TypeOK
  <1>1. Mild(Silent, {"GET"}) /\ (\A d : Mild(TokenTo(d), {"GET"}))
          /\ Mild(sendToManager("TOKEN_HERE", 0), {"GET"})
    BY MildOutputs DEF sendToManager, ToManagerTypes
  <1>2. CanRecv(s, p) /\ present' = present /\ chain' = chain /\ last' = last
    BY DEF ProxyIgnores, GetForward, GetToken, GetPermFail, ProxyGets, managerVars, proxyVars
  <1>3. \/ Consume(s, p, Silent) \/ Consume(s, p, sendToManager("TOKEN_HERE", 0))
        \/ \E d : Consume(s, p, TokenTo(d))
    BY DEF ProxyIgnores, GetForward, GetToken, GetPermFail
  <1>4. Asks(chan', q) => Asks(chan, q)
    BY <1>1, <1>2, <1>3, AsksKept
  <1>5. \/ request'[q] = request[q] + 1
        \/ request'[q] = request[q] /\ (status'[q] = status[q] \/ status'[q] = "HERE")
    <2>1. ForwardedToken(p) => request'[q] = request[q] + 1
                                 \/ (request'[q] = request[q] /\ status'[q] = status[q])
      BY DEF ForwardedToken
    <2>2. CASE ProxyIgnores(s, p)
      BY <2>2 DEF ProxyIgnores, proxyVars
    <2>3. CASE GetForward(s, p)
      BY <2>1, <2>3 DEF GetForward
    <2>4. CASE GetToken(s, p)
      BY <2>1, <2>4 DEF GetToken
    <2>5. CASE GetPermFail(s, p)
      BY <2>5 DEF GetPermFail
    <2> QED
      BY <2>2, <2>3, <2>4, <2>5
  <1>6. CASE request'[q] = request[q] + 1
    BY <1>2, <1>6 DEF Lags
  <1>7. CASE request'[q] = request[q] /\ (status'[q] = status[q] \/ status'[q] = "HERE")
    BY <1>2, <1>4, <1>7, LagsUnasked
  <1> QED
    BY <1>5, <1>6, <1>7

(* A proxy of the chain that is behind the token has passed it on.         *)
LEMMA PassedOn ==
    ASSUME TypeOK, ChainInv, NoCrash, ~mfail, NoneOf(chan, Kind(Inquiry)),
           NEW a \in Site, InChain(a), ~Flagged(a)
    PROVE  Parted(a)
  <1>1. SiteOK(a) /\ alive[a] /\ Sound(a)
    BY Undamaged DEF ChainOK
  <1> QED
    BY <1>1 DEF SiteOK, OnDuty, Parted, Flagged

LEMMA LagsManager ==
    ASSUME TypeOK, ChainInv, NoCrash, ~mfail, NoneOf(chan, Kind(Inquiry)),
           NEW s \in Site, Register(s) \/ Deregister(s) \/ TokenHere(s) \/ NeedNoMore(s),
           NEW q \in Site
    PROVE  Lags(q)
  <1> USE HomeAssumption
  <1>1. /\ Shaped /\ SiteOK(q) /\ SiteOK(s) /\ SiteOK(Home) /\ Ordered /\ Base /\ Sound(s)
    BY Undamaged DEF ChainOK, ChainInv
  <1>2. CanRecv(s, Home) /\ Head1(s, Home).to = "manager"
    BY DEF Register, Deregister, TokenHere, NeedNoMore, ManagerGets
  <1>3. Consume(s, Home, Silent) => (Asks(chan', q) => Asks(chan, q))
    BY <1>2, MildOutputs, AsksKept
  <1>4. CASE Register(s)
    BY <1>3, <1>4, LagsUnasked DEF Register, proxyVars
  <1>5. CASE Deregister(s)
    BY <1>3, <1>5, LagsUnasked DEF Deregister, proxyVars
  <1>6. CASE TokenHere(s)
    <2>1. /\ present' = present /\ request' = request /\ status' = status /\ last' = last
          /\ Consume(s, Home, Silent)
          /\ chain' = IF InChain(s) THEN PoppedBefore(s) ELSE chain
      BY <1>6 DEF TokenHere, proxyVars
    <2>2. \A r : Has(chain', q, r) => Has(chain, q, r)
      BY <1>1, <2>1, PoppedEnds DEF Shaped, EndOf
    <2> QED
      BY <1>3, <2>1, <2>2 DEF Lags, Parted
  <1>7. CASE NeedNoMore(s) /\ s # last
    BY <1>3, <1>7, LagsUnasked DEF NeedNoMore, managerVars
  <1>8. CASE NeedNoMore(s) /\ s = last
    <2>1. /\ Consume(s, Home, sendToManager("GET", request[Home]))
          /\ status' = [status EXCEPT ![Home] = "REQUESTED"]
          /\ present' = present /\ request' = request /\ chain' = chain /\ last' = last
          /\ Head1(s, Home).type = "NEED_NO_MORE"
      BY <1>8 DEF NeedNoMore, ManagerGets, managerVars
    <2>2. CASE q # Home
      <3>1. ToManager("GET", request[Home]) \in Message
        BY ManagerKinds DEF ToManagerTypes, TypeOK
      <3>2. Asks(chan', q) => Asks(chan, q)
        BY <1>1, <1>2, <2>1, <2>2, <3>1, AsksOther DEF sendToManager
      <3> QED
        BY <2>1, <2>2, <3>2, LagsUnasked DEF TypeOK
    <2>3. CASE q = Home
      <3>1. s # Home
        BY <1>1, <1>2, <2>1, ManagerReads
      <3>2. Saw(chan, s)
        <4>1. /\ chan \in Channels(Message) /\ chan[<<s, Home>>] # <<>>
              /\ Head1(s, Home) \in Message /\ Head1(s, Home) = Head(chan[<<s, Home>>])
          BY <1>1, <1>2, ManagerReads
        <4>2. Head1(s, Home) \in Seen /\ Head1(s, Home) \notin Loss
          BY <2>1, <4>1 DEF Seen, Loss, Kind
        <4>3. <<s, Home>> \in Site \X Site
          OBVIOUS
        <4> QED
          BY <4>1, <4>2, <4>3, TakenOn DEF Saw
      <3>3. PICK t \in Nat : Has(chain, s, t)
        BY <1>1, <1>8, ChainFacts DEF Shaped
      <3>4. ASSUME InChain(Home)
            PROVE  Parted(Home)
        <4>1. Ahead(chain, Home, s, t)
          BY <1>1, <1>8, <3>1, <3>3, <3>4, ChainFacts DEF Shaped, InChain
        <4>2. ~Flagged(Home)
          BY <1>1, <3>2, <4>1 DEF Ordered, Reached
        <4> QED
          BY <3>4, <4>2, PassedOn
      <3>5. ASSUME ~InChain(Home), NEW r
            PROVE  ~Has(chain, Home, r)
        BY <1>1, <3>5, ChainFacts DEF Shaped, InChain
      <3> QED
        BY <2>1, <2>3, <3>4, <3>5 DEF Lags
    <2> QED
      BY <2>2, <2>3
  <1> QED
    BY <1>4, <1>5, <1>6, <1>7, <1>8

(* A proxy that asks for the token gets an entry for its current request.  *)
LEMMA BehindGet ==
    ASSUME TypeOK, ChainInv, NoCrash, ~mfail, NoneOf(chan, Kind(Inquiry)),
           NEW s \in Site, Get(s), NEW q \in Site
    PROVE  Lags(q) \/ Behind(q)'
  <1> USE HomeAssumption
  <1>1. /\ Shaped /\ SiteOK(q) /\ SiteOK(s) /\ Base /\ Sound(s)
    BY Undamaged DEF ChainOK, ChainInv
  <1>2. /\ CanRecv(s, Home) /\ Head1(s, Home).to = "manager"
        /\ Head1(s, Home).type = "GET"
        /\ present' = present /\ request' = request /\ status' = status
    BY DEF Get, ManagerGets, proxyVars
  <1>3. Asks(chan', q) => Asks(chan, q)
    <2>1. Mild(Silent, {"GET"}) /\ Mild(To(last, ToProxy("FORWARD", s, 0)), {"GET"})
      BY MildOutputs DEF ToProxyTypes
    <2>2. \/ Consume(s, Home, Silent)
          \/ Consume(s, Home, To(last, ToProxy("FORWARD", s, 0)))
      BY DEF Get
    <2> QED
      BY <1>2, <2>1, <2>2, AsksKept
  <1>4. CASE s = last
    BY <1>2, <1>3, <1>4, LagsUnasked DEF Get
  <1>5. CASE s # last
    <2> DEFINE c == IF InChain(s) THEN PoppedThrough(s) ELSE chain
               t == Head1(s, Home).req
    <2>1. /\ chain' = Append(c, [site |-> s, req |-> t]) /\ last' = s
      BY <1>5 DEF Get
    <2>2. /\ chan \in Channels(Message) /\ chan[<<s, Home>>] # <<>>
          /\ Head1(s, Home) = Head(chan[<<s, Home>>]) /\ t \in Nat
      BY <1>1, <1>2, ManagerReads
    <2>3. Asks(chan, s) /\ AsksFor(chan, s, t)
      <3>1. Head1(s, Home).type # "FAILED_PRED" /\ Read(s, Home, s)
        BY <1>2 DEF Read
      <3> QED
        BY <1>2, <2>2, <3>1, TakenUp
    <2>4. t = request[s] /\ status[s] = "REQUESTED"
      BY <1>1, <1>5, <2>3 DEF SiteOK, Numbered, Waiting
    <2>5. ~Ends(chain, s)
      BY <1>1, <1>5, ChainFacts DEF Shaped
    <2>6. EndOf(chain, c) /\ ~Visits(c, s)
      <3>1. CASE InChain(s)
        BY <1>1, <2>5, <3>1, PoppedEnds DEF Shaped
      <3>2. CASE ~InChain(s)
        BY <1>1, <3>2, WholeChain DEF Shaped, InChain
      <3> QED
        BY <3>1, <3>2
    <2> HIDE DEF c, t
    <2>7. Appended(c, chain', s, t)
      BY <2>1, <2>2, <2>6, AppendedEntry DEF EndOf
    <2>8. \A r : Has(chain', q, r) => Has(chain, q, r) \/ (q = s /\ r = t)
      BY <2>6, <2>7 DEF Appended, EndOf
    <2>9. CASE q = s
      <3>1. \A r : Has(chain', s, r) => r = t
        <4>1. \A r : ~Has(c, s, r)
          BY <2>6, ChainFacts DEF EndOf
        <4> QED
          BY <2>7, <4>1 DEF Appended
      <3>2. ~Parted(s)'
        BY <1>2, <2>1, <2>4 DEF Parted
      <3>3. request[s] \in Nat
        BY DEF TypeOK
      <3> QED
        BY <1>2, <2>4, <2>9, <3>1, <3>2, <3>3 DEF Behind
    <2>10. CASE q # s
      <3>1. Asks(chan, q) => last # q
        <4> SUFFICES ASSUME Asks(chan, q), last = q
                     PROVE  FALSE
          OBVIOUS
        <4>1. q = Home /\ Home \in draining
          BY <1>1 DEF SiteOK, Waiting
        <4> QED
          BY <1>2, <2>10, <4>1 DEF CanRecv
      <3> QED
        BY <1>2, <1>3, <2>8, <2>10, <3>1 DEF Lags, Parted
    <2> QED
      BY <2>9, <2>10
  <1> QED
    BY <1>4, <1>5

LEMMA NumberingStep ==
    ASSUME IInv, IInv', ChainInv, Calm, Numbering, Next
    PROVE  Numbering'
  <1> SUFFICES ASSUME NoCrash', ~mfail', NoReimport', NEW q \in Site, present'[q]
               PROVE  Behind(q)'
    BY DEF Numbering
  <1>1. NoCrash /\ NoneOf(chan, Kind(Inquiry)) /\ Peaceful /\ TypeOK /\ TypeOK' /\ Base
    BY PeacefulStep DEF IInv, ChainInv
  <1>2. NoReimport /\ \A p \in Site : ~ImportProxy(p)
    <2>1. budget["import"] \in Nat /\ budget'["import"] \in Nat /\ MaxImports \in Nat
      BY <1>1, BoundsAssumption DEF TypeOK
    <2> QED
      BY <1>1, <2>1, BudgetStep DEF Calm, NoReimport
  <1>3. ~mfail /\ \A s \in Site : ~Failed(s)
    <2>1. \A p \in Site : Operation(p) => mfail' = mfail
      BY DEF Operation, AccessRequest, AccessWait, Monitor, Kill, ClearWeakRoot,
         DeleteProxy, ImportProxy, managerVars
    <2>2. \A s, p \in Site : ProxyIgnores(s, p) \/ GetForward(s, p) \/ GetToken(s, p)
                               \/ GetPermFail(s, p) => mfail' = mfail
      BY DEF ProxyIgnores, GetForward, GetToken, GetPermFail, managerVars
    <2>3. \A s \in Site : Register(s) \/ Deregister(s) \/ Get(s) \/ TokenHere(s)
                              \/ NeedNoMore(s) => mfail' = mfail
      BY DEF Register, Deregister, Get, TokenHere, NeedNoMore, managerVars
    <2>4. \A s \in Site : ~Failed(s)
      BY DEF Failed, ManagerLostToken, managerVars
    <2> QED
      BY <1>1, <2>1, <2>2, <2>3, <2>4 DEF Peaceful
  <1>4. Shaped /\ (present[q] => Behind(q))
    BY <1>1, <1>2, <1>3, Undamaged DEF Numbering, ChainOK
  <1>5. Lags(q) => Behind(q)'
    BY <1>1, <1>4, LagsBehind
  <1>6. ASSUME NEW p \in Site, Operation(p)
        PROVE  Lags(q)
    BY <1>1, <1>2, <1>6, LagsOperation
  <1>7. ASSUME NEW s \in Site, NEW p \in Site,
               ProxyIgnores(s, p) \/ GetForward(s, p) \/ GetToken(s, p) \/ GetPermFail(s, p)
        PROVE  Lags(q)
    BY <1>1, <1>7, LagsProxy
  <1>8. ASSUME NEW s \in Site,
               Register(s) \/ Deregister(s) \/ TokenHere(s) \/ NeedNoMore(s)
        PROVE  Lags(q)
    BY <1>1, <1>3, <1>8, LagsManager
  <1>9. ASSUME NEW s \in Site, Get(s)
        PROVE  Lags(q) \/ Behind(q)'
    BY <1>1, <1>3, <1>9, BehindGet
  <1> QED
    BY <1>1, <1>3, <1>5, <1>6, <1>7, <1>8, <1>9 DEF Peaceful

LEMMA NumberingInit == Init => Numbering
  <1> SUFFICES ASSUME Init, NEW p \in Site, NEW r, Has(chain, p, r)
               PROVE  r <= request[p] /\ (Parted(p) => r < request[p])
    BY DEF Numbering, Behind
  <1>1. p = Home /\ r = 0 /\ request[p] = 0
    BY DEF Init, Has
  <1>2. status[p] = "HERE" /\ last = p
    BY <1>1 DEF Init
  <1> QED
    BY <1>1, <1>2 DEF Parted

-----------------------------------------------------------------------------
(* The invariant of the behaviours without crashes.                        *)
Safe == Calm /\ (Undisturbed => Somewhere) /\ Numbering

(* Without a crash there is no inquiry; without a crash and a kill the     *)
(* entity does not fail and the token is somewhere; without a crash and a  *)
(* reimport the request ids in a_chain are not ahead of the proxies'.      *)
THEOREM SafeInvariance == Spec => []Safe
  <1>1. Init => Safe
    BY CalmInit, SomewhereInit, NumberingInit DEF Safe
  <1>2. IInv /\ IInv' /\ ChainInv /\ Safe /\ [Next]_vars => Safe'
    <2> SUFFICES ASSUME IInv, IInv', ChainInv, Safe, [Next]_vars
                 PROVE  Safe'
      OBVIOUS
    <2>1. CASE Next
      BY <2>1, CalmStep, SomewhereStep, NumberingStep DEF Safe, IInv
    <2>2. CASE UNCHANGED vars
      <3>1. Calm'
        BY <2>2 DEF Safe, Calm, NoCrash, Undisturbed, NoneOf, vars, netVars, managerVars
      <3>2. (Undisturbed => Somewhere)'
        BY <2>2 DEF Safe, Undisturbed, Somewhere, Token, TokenUnderWay, Holder, Carried,
           vars, netVars, managerVars, proxyVars
      <3>3. Numbering'
        BY <2>2 DEF Safe, Numbering, NoCrash, NoReimport, Behind, Parted, vars, netVars,
           managerVars, proxyVars
      <3> QED
        BY <3>1, <3>2, <3>3 DEF Safe
    <2> QED
      BY <2>1, <2>2
  <1> QED
    BY <1>1, <1>2, ChainInvariance, PTL DEF Spec

(* As long as no site crashes and nobody kills the entity, every step that *)
(* changes where the token is moves it: no deletion or import of a proxy,  *)
(* MIGM_NEED_NO_MORE or MIGM_TOKEN to a proxy that is gone destroys it.    *)
THEOREM NeverLost == Spec => StateIsNeverLost
  <1>1. ASSUME IInv, Safe', [Next]_vars
        PROVE  [Undisturbed' => Mobile!Move]_<<{p \in Site : Holder(p)},
                                               {d \in Site : TokenUnderWay(d)}>>
    <2>1. CASE Next
      <3>1. [Mobile!Next]_<<at, moving>>
        BY <1>1, <2>1, NextStep, StepRefines DEF IInv
      <3>2. Undisturbed' => ~(at' = {} /\ moving' = {})
        BY <1>1 DEF Safe, Somewhere, Token, at, moving
      <3> QED
        BY <3>1, <3>2 DEF Mobile!Next, Mobile!Lose, at, moving
    <2>2. CASE UNCHANGED vars
      BY <2>2, StutterRefines DEF at, moving
    <2> QED
      BY <1>1, <2>1, <2>2
  <1> QED
    BY <1>1, Invariance, SafeInvariance, PTL DEF Spec, StateIsNeverLost

(* As long as no site crashes and no proxy is created again, each proxy of *)
(* a_chain that has not passed the token on for its request there knows,   *)
(* or is sent by MIGM_FORWARD, the site that follows it in the chain.      *)
THEOREM ChainLeads == Spec => []ChainIsPath
  <1>1. ASSUME IInv, ChainInv, Safe
        PROVE  ChainIsPath
    <2> SUFFICES ASSUME NoCrash, NoReimport, NEW i \in 1..(Len(chain) - 1),
                        present[chain[i].site], ~pfail[chain[i].site],
                        request[chain[i].site] = chain[i].req
                 PROVE  \/ successor[chain[i].site] = chain[i + 1].site
                        \/ ForwardInFlight(chain[i].site, chain[i + 1].site)
      BY DEF ChainIsPath
    <2>1. TypeOK /\ chain \in Seq(Entry) /\ NoneOf(chan, Kind(Inquiry))
      BY <1>1 DEF IInv, TypeOK, Safe, Calm, Entry
    <2>2. Len(chain) \in Nat /\ DOMAIN chain = 1..Len(chain) /\ chain # <<>>
      BY <2>1, ChainElements
    <2>3. ~mfail
      BY <1>1, <2>2 DEF ChainInv, Base
    <2> DEFINE a == chain[i].site
               b == chain[i + 1].site
    <2>4. i \in 1..Len(chain) /\ i + 1 \in 1..Len(chain)
      BY <2>2
    <2>5. a \in Site
      BY <2>1, <2>4, ChainElements
    <2>6. Adjacent(chain, a, b) /\ Has(chain, a, request[a])
      BY <2>2, <2>4 DEF Adjacent, Has
    <2> HIDE DEF a, b
    <2>7. Shaped /\ SiteOK(a) /\ ~Broken(chan, a)
      BY <1>1, <2>1, <2>3, <2>5, Undamaged DEF ChainOK
    <2>8. InChain(a) /\ a # last /\ \A x : Adjacent(chain, a, x) => x = b
      BY <2>6, <2>7, AdjacentFacts DEF Shaped, InChain
    <2>9. Behind(a)
      BY <1>1, <2>3, <2>5 DEF Safe, Numbering, a
    <2>10. ~Parted(a)
      <3>1. request[a] \in Nat
        BY <2>1, <2>5 DEF TypeOK
      <3> QED
        BY <2>6, <2>9, <3>1 DEF Behind
    <2>11. Flagged(a)
      BY <1>1, <2>1, <2>3, <2>5, <2>8, <2>10, PassedOn
    <2>12. CASE successor[a] # NoSite
      BY <2>7, <2>8, <2>12 DEF SiteOK, Guided, a, b
    <2>13. CASE Told(chan, a)
      <3>1. PICK j \in DOMAIN chan[<<Home, a>>] :
                chan[<<Home, a>>][j] \in Kind({"FORWARD"})
        BY <2>13 DEF Told, On, Hears
      <3> DEFINE x == chan[<<Home, a>>][j].site
      <3>2. ToldOf(chan, a, x)
        BY <3>1 DEF ToldOf, On, Hears, Naming, Kind
      <3>3. x = b
        BY <2>7, <2>8, <3>2 DEF SiteOK, Guided
      <3>4. ForwardInFlight(a, b)
        BY <3>1, <3>3 DEF ForwardInFlight, Kind
      <3> QED
        BY <3>4 DEF a, b
    <2> QED
      BY <2>7, <2>8, <2>11, <2>12, <2>13 DEF Flagged
  <1> QED
    BY <1>1, ChainInvariance, SafeInvariance, PTL
=============================================================================
