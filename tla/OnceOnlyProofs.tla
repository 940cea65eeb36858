--------------------------- MODULE OnceOnlyProofs ---------------------------
(***************************************************************************)
(* OnceOnly implements Decision, for any set of sites and any budget: no   *)
(* two sites see different values, and without a kill or a crash of the    *)
(* home site no site sees a failure where another sees a value.            *)
(***************************************************************************)
EXTENDS OnceOnly, TransientProofs

(* What a message says is true when it is sent and stays true: the value   *)
(* in a redirection is the one of the home site, the manager has failed    *)
(* when it reports a failure, and it does so only after a kill.            *)
Honest(m) ==
    /\ m.to = "proxy" /\ m.type = "REDIRECT" =>
           value[Home] # Unbound /\ m.val = value[Home]
    /\ m.to = "proxy" /\ m.type = "PERMFAIL" => mfail
    /\ m.to = "manager" /\ m.type = "BOUND" => value[Home] # Unbound
    /\ m.to = "manager" /\ m.type = "PERMFAIL" => "kill" \in history
    /\ m.to = "manager" /\ m.type = "BIND" => m.val \in Site

Dishonest == {m \in Message : ~Honest(m)}

(* The value is that of the home site, where the manager knows of it.      *)
OneValue ==
    /\ \A p \in Site : value[p] \in {Unbound, value[Home]}
    /\ mstatus = "BOUND" <=> value[Home] # Unbound

(* Failure has a cause.                                                    *)
Justified ==
    /\ mfail => "kill" \in history
    /\ pfail[Home] => mfail
    /\ \A p \in Site : pfail[p] => Broken

IInv ==
    /\ TransientTypeOK
    /\ Detected
    /\ AbsentBlank
    /\ NoneOf(chan, Dishonest)
    /\ OneValue
    /\ Justified
    /\ "crossed" \notin history

LEMMA InitIInv == Init => IInv
  <1> SUFFICES ASSUME Init
               PROVE  IInv
    OBVIOUS
  <1> USE DEF Init, TransientInit
  <1>1. NetTypeOK(Message)
    BY EmptySeq DEF NetInit, NetTypeOK
  <1>2. NoneOf(chan, Dishonest)
    BY DEF NetInit, NoneOf
  <1>3. TransientTypeOK
    BY <1>1, HomeAssumption, BudgetsAssumption, UnboundValue
       DEF TransientTypeOK, EntityTypeOK, ProxyTypeOK, ManagerTypeOK, EnvTypeOK
  <1>4. Detected /\ AbsentBlank /\ OneValue /\ Justified
    BY HomeAssumption DEF NetInit, Detected, AbsentBlank, OneValue, Justified
  <1> QED
    BY <1>2, <1>3, <1>4 DEF IInv

-----------------------------------------------------------------------------
(* What is sent is true in the state after the step.                       *)

(* The value of the home site and the failure of the manager are final.    *)
Firm ==
    /\ value[Home] # Unbound => value'[Home] = value[Home]
    /\ mfail => mfail'
    /\ history \subseteq history'

LEMMA DishonestShrinks ==
    ASSUME Firm
    PROVE  Dishonest' \subseteq Dishonest
  BY DEF Firm, Dishonest, Honest

HonestOut(out) ==
    out \in [Site -> Seq(Message)] /\ Without(out, Dishonest')

LEMMA SilentHonest == HonestOut(Silent)
  BY SilentType, SilentWithout DEF HonestOut

LEMMA ToHonest ==
    ASSUME NEW d, NEW m \in Message, Honest(m)'
    PROVE  HonestOut(To(d, m))
  <1>1. m \notin Dishonest'
    BY DEF Dishonest
  <1> QED
    BY <1>1, ToType, ToWithout DEF HonestOut

LEMMA ToAllHonest ==
    ASSUME NEW S, NEW m \in Message, Honest(m)'
    PROVE  HonestOut(ToAll(S, m))
  <1>1. m \notin Dishonest'
    BY DEF Dishonest
  <1> QED
    BY <1>1, ToAllType, ToAllWithout DEF HonestOut

LEMMA BothHonest ==
    ASSUME NEW o1, NEW o2, HonestOut(o1), HonestOut(o2)
    PROVE  HonestOut(Both(o1, o2))
  BY BothType, BothWithout DEF HonestOut

(* Messages that claim nothing.                                            *)
LEMMA PlainToManager ==
    ASSUME NEW t \in {"REGISTER", "DEREGISTER", "UPDATE_REQUEST"}
    PROVE  HonestOut(sendToManager(t, Unbound))
  <1>1. ToManager(t, Unbound) \in Message
    BY ToManagerMessage, UnboundValue DEF ManagerTypes
  <1>2. Honest(ToManager(t, Unbound))'
    BY DEF Honest, ToManager
  <1> QED
    BY <1>1, <1>2, ToHonest DEF sendToManager

LEMMA PlainNotice ==
    /\ Notice("UPDATE") \in Message
    /\ Honest(Notice("UPDATE"))'
  <1>1. Notice("UPDATE") \in Message
    BY ToProxyMessage, UnboundValue DEF Notice, ProxyTypes
  <1>2. Honest(Notice("UPDATE"))'
    BY DEF Honest, Notice, ToProxy
  <1> QED
    BY <1>1, <1>2

LEMMA PlainReference ==
    ASSUME NEW d, NEW r \in {"AUTO", "MANUAL"}
    PROVE  HonestOut(To(d, Reference(r)))
  <1>1. Reference(r) \in Message
    BY ReferenceMessage
  <1>2. Honest(Reference(r))'
    BY DEF Honest, Reference
  <1> QED
    BY <1>1, <1>2, ToHonest

(* The network carries it.                                                 *)
NetStep ==
    /\ NetTypeOK(Message)' /\ NoneOf(chan, Dishonest)' /\ Detected'
    /\ UNCHANGED alive

LEMMA NetKept ==
    ASSUME NoneOf(chan, Dishonest), Firm, Keeps(Dishonest')
    PROVE  NoneOf(chan, Dishonest)'
  <1>1. NoneOf(chan, Dishonest')
    BY DishonestShrinks DEF NoneOf
  <1> QED
    BY <1>1 DEF Keeps

LEMMA EmitHonest ==
    ASSUME IInv, Firm, NEW p \in Site, NEW out, HonestOut(out), Emit(p, out)
    PROVE  NetStep
  <1>1. NetTypeOK(Message)' /\ Keeps(Dishonest')
    BY EmitStep DEF IInv, TransientTypeOK, HonestOut
  <1> QED
    BY <1>1, NetKept DEF NetStep, IInv, Emit, Detected

LEMMA ConsumeHonest ==
    ASSUME IInv, Firm, NEW s \in Site, NEW p \in Site, NEW out,
           HonestOut(out), CanRecv(s, p), Consume(s, p, out)
    PROVE  NetStep
  <1>1. NetTypeOK(Message)' /\ Keeps(Dishonest')
    BY ConsumeStep DEF IInv, TransientTypeOK, HonestOut
  <1> QED
    BY <1>1, NetKept DEF NetStep, IInv, Consume, Detected

LEMMA DetectHonest ==
    ASSUME IInv, Firm, NEW s \in Site, NEW p \in Site, CanDetect(p, s),
           Detect(p, s, Silent)
    PROVE  NetStep
  <1>1. NetTypeOK(Message)' /\ Keeps(Dishonest')
    BY DetectStep, SilentHonest DEF IInv, TransientTypeOK, HonestOut
  <1>2. Detected'
    BY DEF IInv, TransientTypeOK, NetTypeOK, Detected, Detect, CanDetect
  <1> QED
    BY <1>1, <1>2, NetKept DEF NetStep, IInv, Detect

(* What a received message says is true.                                   *)
LEMMA HeadHonest ==
    ASSUME IInv, NEW s \in Site, NEW p \in Site, CanRecv(s, p)
    PROVE  Head1(s, p) \in Message /\ Honest(Head1(s, p))
  <1>1. Head1(s, p) \in Message /\ Head1(s, p) \notin Dishonest
    BY HeadMessage DEF IInv, TransientTypeOK, NoneOf
  <1> QED
    BY <1>1 DEF Dishonest

-----------------------------------------------------------------------------
(* Steps that change neither a value nor the failure of anything.          *)
LEMMA QuietStep ==
    ASSUME IInv, NetStep, UNCHANGED <<value, present, pfail, mstatus, mfail>>,
           EntityTypeOK', ProxyTypeOK', ManagerTypeOK', EnvTypeOK',
           history \subseteq history',
           "crossed" \in history' => "crossed" \in history
    PROVE  IInv' /\ Agree!Next
  <1>1. TransientTypeOK' /\ Detected' /\ NoneOf(chan, Dishonest)'
    BY DEF NetStep, TransientTypeOK
  <1>2. AbsentBlank' /\ OneValue'
    BY DEF IInv, AbsentBlank, OneValue
  <1>3. Justified'
    BY DEF IInv, Justified, Broken, NetStep
  <1>4. Agree!Next
    BY OutcomeStays DEF Onward, NetStep
  <1> QED
    BY <1>1, <1>2, <1>3, <1>4 DEF IInv

(* The types other than those of the network, for the steps below.         *)
LEMMA TypesOf ==
    ASSUME IInv
    PROVE  /\ EntityTypeOK /\ ProxyTypeOK /\ ManagerTypeOK /\ EnvTypeOK
           /\ NetTypeOK(Message)
  BY DEF IInv, TransientTypeOK

LEMMA BindWaitQuiet ==
    ASSUME IInv, NEW p \in Site, BindWait(p)
    PROVE  IInv' /\ Agree!Next
  <1>1. /\ EnvTypeOK' /\ history \subseteq history'
        /\ "crossed" \in history' => "crossed" \in history
    BY TypesOf, SpendType DEF BindWait
  <1>2. Firm
    BY <1>1 DEF Firm, BindWait, managerVars
  <1>3. HonestOut(sendToManager("BIND", p))
    <2>1. ToManager("BIND", p) \in Message
      BY ToManagerMessage DEF ManagerTypes, Value
    <2>2. Honest(ToManager("BIND", p))'
      BY DEF Honest, ToManager
    <2> QED
      BY <2>1, <2>2, ToHonest DEF sendToManager
  <1>4. NetStep
    BY <1>2, <1>3, SilentHonest, EmitHonest DEF BindWait
  <1>5. EntityTypeOK' /\ ProxyTypeOK' /\ ManagerTypeOK'
    BY TypesOf
       DEF BindWait, EntityTypeOK, ProxyTypeOK, ManagerTypeOK, managerVars
  <1> QED
    BY <1>1, <1>4, <1>5, QuietStep DEF BindWait, managerVars

LEMMA MakeNeededQuiet ==
    ASSUME IInv, NEW p \in Site, MakeNeeded(p)
    PROVE  IInv' /\ Agree!Next
  <1>1. /\ EnvTypeOK' /\ history \subseteq history'
        /\ "crossed" \in history' => "crossed" \in history
    BY TypesOf, SpendType DEF MakeNeeded
  <1>2. Firm
    BY <1>1 DEF Firm, MakeNeeded, managerVars
  <1>3. NetStep
    BY <1>2, PlainToManager, SilentHonest, EmitHonest DEF MakeNeeded
  <1>4. EntityTypeOK' /\ ProxyTypeOK' /\ ManagerTypeOK'
    BY TypesOf DEF MakeNeeded, EntityTypeOK, ProxyTypeOK, ManagerTypeOK,
                   proxyVars, managerVars
  <1> QED
    BY <1>1, <1>3, <1>4, QuietStep DEF MakeNeeded, proxyVars, managerVars

LEMMA KillQuiet ==
    ASSUME IInv, NEW p \in Site, Kill(p)
    PROVE  IInv' /\ Agree!Next
  <1>1. /\ EnvTypeOK' /\ history \subseteq history' /\ "kill" \in history'
        /\ "crossed" \in history' => "crossed" \in history
    BY TypesOf, SpendType DEF Kill
  <1>2. Firm
    BY <1>1 DEF Firm, Kill, entityVars, managerVars
  <1>3. HonestOut(sendToManager("PERMFAIL", Unbound))
    <2>1. ToManager("PERMFAIL", Unbound) \in Message
      BY ToManagerMessage, UnboundValue DEF ManagerTypes
    <2>2. Honest(ToManager("PERMFAIL", Unbound))'
      BY <1>1 DEF Honest, ToManager
    <2> QED
      BY <2>1, <2>2, ToHonest DEF sendToManager
  <1>4. NetStep
    BY <1>2, <1>3, EmitHonest DEF Kill
  <1>5. EntityTypeOK' /\ ProxyTypeOK' /\ ManagerTypeOK'
    BY TypesOf DEF Kill, EntityTypeOK, ProxyTypeOK, ManagerTypeOK,
                   entityVars, managerVars
  <1> QED
    BY <1>1, <1>4, <1>5, QuietStep DEF Kill, entityVars, managerVars

LEMMA RegisterRemoteHonest ==
    ASSUME NEW q \in Site
    PROVE  HonestOut(RegisterRemoteOut(q))
  BY PlainNotice, ToHonest, SilentHonest DEF RegisterRemoteOut

LEMMA ExportQuiet ==
    ASSUME IInv, NEW q \in Site, Export(q)
    PROVE  IInv' /\ Agree!Next
  <1>1. CASE ExportHome(q)
    <2>1. /\ EnvTypeOK' /\ history \subseteq history'
          /\ "crossed" \in history' => "crossed" \in history
      BY <1>1, TypesOf, SpendType DEF ExportHome, MayExport
    <2>2. Firm
      BY <1>1, <2>1 DEF Firm, ExportHome, entityVars
    <2>3. HonestOut(Both(To(q, Reference("AUTO")), RegisterRemoteOut(q)))
      BY PlainReference, RegisterRemoteHonest, BothHonest
    <2>4. NetStep
      BY <1>1, <2>2, <2>3, EmitHonest, HomeAssumption DEF ExportHome
    <2>5. EntityTypeOK' /\ ProxyTypeOK' /\ ManagerTypeOK'
      BY <1>1, TypesOf DEF ExportHome, EntityTypeOK, ProxyTypeOK,
                           ManagerTypeOK, entityVars, proxyVars
    <2> QED
      BY <1>1, <2>1, <2>4, <2>5, QuietStep DEF ExportHome, entityVars, proxyVars
  <1>2. ASSUME NEW p \in Site, ExportRemote(p, q)
        PROVE  IInv' /\ Agree!Next
    <2>1. /\ EnvTypeOK' /\ history \subseteq history'
          /\ "crossed" \in history' => "crossed" \in history
      BY <1>2, TypesOf, SpendType DEF ExportRemote, MayExport
    <2>2. Firm
      BY <1>2, <2>1 DEF Firm, ExportRemote, entityVars, managerVars
    <2>3. NetStep
      BY <1>2, <2>2, PlainReference, EmitHonest DEF ExportRemote
    <2>4. EntityTypeOK' /\ ProxyTypeOK' /\ ManagerTypeOK'
      BY <1>2, TypesOf DEF ExportRemote, EntityTypeOK, ProxyTypeOK,
                           ManagerTypeOK, entityVars, proxyVars, managerVars
    <2> QED
      BY <1>2, <2>1, <2>3, <2>4, QuietStep
         DEF ExportRemote, entityVars, proxyVars, managerVars
  <1> QED
    BY <1>1, <1>2 DEF Export

(* A message that changes nothing but the needs and the registrations.     *)
LEMMA ReceiveQuiet ==
    ASSUME IInv, NEW s \in Site, NEW p \in Site, NEW out, HonestOut(out),
           CanRecv(s, p), Consume(s, p, out),
           UNCHANGED <<value, waiting, proxyVars, mstatus, mfail, envVars>>,
           needed' \in [Site -> BOOLEAN], proxies' \subseteq Site
    PROVE  IInv' /\ Agree!Next
  <1>1. Firm
    BY DEF Firm, envVars
  <1>2. NetStep
    BY <1>1, ConsumeHonest
  <1>3. EntityTypeOK' /\ ProxyTypeOK' /\ ManagerTypeOK' /\ EnvTypeOK'
    BY TypesOf DEF EntityTypeOK, ProxyTypeOK, ManagerTypeOK, EnvTypeOK,
                   proxyVars, envVars
  <1> QED
    BY <1>2, <1>3, QuietStep DEF proxyVars, envVars

LEMMA ProxyReceivesQuiet ==
    ASSUME IInv, NEW s \in Site, NEW p \in Site,
           \/ ProxyIgnores(s, p)
           \/ DisposeReference(s, p) /\ UNCHANGED history
           \/ GetUpdate(s, p)
    PROVE  IInv' /\ Agree!Next
  <1>1. CASE ProxyIgnores(s, p)
    BY <1>1, TypesOf, SilentHonest, ReceiveQuiet
       DEF ProxyIgnores, EntityTypeOK, ManagerTypeOK, entityVars, managerVars
  <1>2. CASE DisposeReference(s, p) /\ UNCHANGED history
    BY <1>2, TypesOf, SilentHonest, ReceiveQuiet
       DEF DisposeReference, GetsReference, EntityTypeOK, ManagerTypeOK,
           entityVars, managerVars, envVars
  <1>3. CASE GetUpdate(s, p)
    <2>1. needed' \in [Site -> BOOLEAN]
      BY <1>3, TypesOf DEF GetUpdate, AppendNeed, EntityTypeOK
    <2> QED
      BY <1>3, <2>1, TypesOf, SilentHonest, ReceiveQuiet
         DEF GetUpdate, ProxyGets, ManagerTypeOK, managerVars
  <1> QED
    BY <1>1, <1>2, <1>3

LEMMA ManagerReceivesQuiet ==
    ASSUME IInv, NEW s \in Site,
           \/ Register(s) \/ Deregister(s) \/ IgnoreLate(s)
           \/ AnnounceBound(s) \/ AcceptUpdate(s)
    PROVE  IInv' /\ Agree!Next
  <1> DEFINE Same == UNCHANGED <<entityVars, proxyVars, mstatus, mfail, envVars>>
  <1>1. SUFFICES ASSUME NEW out, HonestOut(out), CanRecv(s, Home),
                        Consume(s, Home, out), Same, proxies' \subseteq Site
                 PROVE  IInv' /\ Agree!Next
    <2>1. CASE Register(s)
      <3>1. CanRecv(s, Home) /\ Same
        BY <2>1 DEF Register, ManagerGets
      <3>2. CASE mfail
        <4>1. Notice("PERMFAIL") \in Message
          BY ToProxyMessage, UnboundValue DEF Notice, ProxyTypes
        <4>2. Honest(Notice("PERMFAIL"))'
          BY <3>1, <3>2 DEF Honest, Notice, ToProxy
        <4>3. /\ Consume(s, Home, To(s, Notice("PERMFAIL")))
              /\ proxies' \subseteq Site
          BY <2>1, <3>2, TypesOf DEF Register, ManagerTypeOK
        <4> QED
          BY <1>1, <3>1, <4>1, <4>2, <4>3, ToHonest
      <3>3. CASE ~mfail /\ mstatus = "BOUND"
        <4>0. PICK v \in Value : v = value[Home]
          BY TypesOf, HomeAssumption DEF EntityTypeOK
        <4> DEFINE m == ToProxy("REDIRECT", v)
        <4>1. m \in Message
          BY ToProxyMessage DEF ProxyTypes
        <4>2. value'[Home] = v /\ v # Unbound
          BY <3>1, <3>3, <4>0 DEF IInv, OneValue, entityVars
        <4>3. Honest(m)'
          BY <4>2 DEF Honest, ToProxy
        <4>4. Consume(s, Home, To(s, m)) /\ proxies' \subseteq Site
          BY <2>1, <3>3, <4>0, TypesOf DEF Register, ManagerTypeOK
        <4> HIDE DEF m
        <4> QED
          BY <1>1, <3>1, <4>1, <4>3, <4>4, ToHonest
      <3>4. CASE ~mfail /\ mstatus # "BOUND"
        <4>1. Consume(s, Home, RegisterRemoteOut(s)) /\ proxies' \subseteq Site
          BY <2>1, <3>4, TypesOf DEF Register, ManagerTypeOK
        <4> QED
          BY <1>1, <3>1, <4>1, RegisterRemoteHonest
      <3> QED
        BY <3>2, <3>3, <3>4
    <2>2. CASE Deregister(s)
      BY <1>1, <2>2, TypesOf, SilentHonest
         DEF Deregister, ManagerGets, ManagerTypeOK
    <2>3. CASE IgnoreLate(s)
      BY <1>1, <2>3, TypesOf, SilentHonest
         DEF IgnoreLate, ManagerSkips, ManagerGets, ManagerTypeOK, managerVars
    <2>4. CASE AnnounceBound(s)
      <3>0. PICK v \in Value : v = value[Home]
        BY TypesOf, HomeAssumption DEF EntityTypeOK
      <3> DEFINE m == ToProxy("REDIRECT", v)
      <3>1. Honest(Head1(s, Home))
        BY <2>4, HeadHonest, HomeAssumption DEF AnnounceBound, ManagerGets
      <3>2. value'[Home] = v /\ v # Unbound
        BY <2>4, <3>0, <3>1 DEF AnnounceBound, ManagerGets, Honest, entityVars
      <3>3. m \in Message
        BY ToProxyMessage DEF ProxyTypes
      <3>4. Honest(m)'
        BY <3>2 DEF Honest, ToProxy
      <3>5. /\ CanRecv(s, Home) /\ Same /\ proxies' \subseteq Site
            /\ Consume(s, Home, ToAll(proxies \ {Home}, m))
        BY <2>4, <3>0 DEF AnnounceBound, ManagerGets
      <3> HIDE DEF m
      <3> QED
        BY <1>1, <3>3, <3>4, <3>5, ToAllHonest
    <2>5. CASE AcceptUpdate(s)
      <3>1. /\ CanRecv(s, Home) /\ Same /\ proxies' \subseteq Site
            /\ Consume(s, Home, ToAll(proxies \cup {s}, Notice("UPDATE")))
        BY <2>5, TypesOf
           DEF AcceptUpdate, ManagerGets, ManagerTypeOK, managerVars
      <3> QED
        BY <1>1, <3>1, PlainNotice, ToAllHonest
    <2> QED
      BY <2>1, <2>2, <2>3, <2>4, <2>5
  <1>2. needed' \in [Site -> BOOLEAN]
    BY <1>1, TypesOf DEF EntityTypeOK, entityVars
  <1> QED
    BY <1>1, <1>2, ReceiveQuiet, HomeAssumption DEF entityVars

LEMMA DetectHomeQuiet ==
    ASSUME IInv, NEW s \in Site, DetectHome(s)
    PROVE  IInv' /\ Agree!Next
  <1>1. Firm
    BY DEF Firm, DetectHome, entityVars, envVars
  <1>2. NetStep
    BY <1>1, DetectHonest, HomeAssumption DEF DetectHome
  <1>3. EntityTypeOK' /\ ProxyTypeOK' /\ ManagerTypeOK' /\ EnvTypeOK'
    BY TypesOf DEF EntityTypeOK, ProxyTypeOK, ManagerTypeOK, EnvTypeOK,
                   DetectHome, entityVars, proxyVars, envVars
  <1> QED
    BY <1>2, <1>3, QuietStep DEF DetectHome, entityVars, proxyVars, envVars

-----------------------------------------------------------------------------
(* Steps that settle the variable somewhere.                               *)

LEMMA BindHomeSettles ==
    ASSUME IInv, BindHome
    PROVE  IInv' /\ Agree!Next
  <1>1. /\ EnvTypeOK' /\ history \subseteq history'
        /\ "crossed" \in history' => "crossed" \in history
    BY TypesOf, SpendType DEF BindHome
  <1>2. /\ value \in [Site -> Value] /\ value[Home] = Unbound
        /\ value' = [value EXCEPT ![Home] = Home]
        /\ Home # Unbound /\ Home \in Value
    BY TypesOf, HomeAssumption, UnboundAssumption
       DEF BindHome, Usable, BindVariable, EntityTypeOK, Value
  <1>3. Firm
    BY <1>1, <1>2 DEF Firm, BindHome
  <1>4. HonestOut(sendToManager("BOUND", Unbound))
    <2>1. ToManager("BOUND", Unbound) \in Message
      BY ToManagerMessage, UnboundValue DEF ManagerTypes
    <2>2. Honest(ToManager("BOUND", Unbound))'
      BY <1>2, HomeAssumption DEF Honest, ToManager
    <2> QED
      BY <2>1, <2>2, ToHonest DEF sendToManager
  <1>5. NetStep
    BY <1>3, <1>4, EmitHonest, HomeAssumption DEF BindHome
  <1>6. EntityTypeOK' /\ ProxyTypeOK' /\ ManagerTypeOK'
    BY <1>2, TypesOf DEF BindHome, BindVariable, EntityTypeOK, ProxyTypeOK,
                         ManagerTypeOK
  <1>7. \A q \in Site : value[q] = Unbound
    BY <1>2 DEF IInv, OneValue
  <1>8. AbsentBlank' /\ OneValue'
    BY <1>2, <1>7, HomeAssumption DEF IInv, AbsentBlank, OneValue, BindHome
  <1>9. Justified'
    BY <1>1, <1>5 DEF IInv, Justified, Broken, NetStep, BindHome
  <1>10. Agree!Next
    <2>1. Onward
      BY <1>1, <1>5 DEF Onward, NetStep
    <2>2. alive[Home] /\ ~pfail[Home]
      BY DEF BindHome, Usable, Emit, Idle
    <2>3. \A q \in Site : pfail[q] => Broken'
      BY <1>9 DEF Justified, BindHome
    <2> QED
      BY <1>2, <1>7, <2>1, <2>2, <2>3, ValueSettles, HomeAssumption DEF BindHome
  <1> QED
    BY <1>1, <1>5, <1>6, <1>8, <1>9, <1>10 DEF IInv, TransientTypeOK, NetStep

LEMMA AcceptBindSettles ==
    ASSUME IInv, NEW s \in Site, AcceptBind(s)
    PROVE  IInv' /\ Agree!Next
  <1>1. CanRecv(s, Home) /\ Honest(Head1(s, Home))
    BY HeadHonest, HomeAssumption DEF AcceptBind, ManagerGets
  <1>2. PICK v \in Site : v = Head1(s, Home).val
    BY <1>1 DEF AcceptBind, ManagerGets, Honest
  <1>3. /\ value \in [Site -> Value] /\ value[Home] = Unbound /\ ~mfail
        /\ value' = [value EXCEPT ![Home] = v]
        /\ v # Unbound /\ v \in Value
    BY <1>2, TypesOf, UnboundAssumption
       DEF AcceptBind, TooLate, BindVariable, EntityTypeOK, Value, IInv, OneValue,
           ManagerTypeOK
  <1>4. value'[Home] = v
    BY <1>3, HomeAssumption
  <1>5. Firm
    BY <1>3 DEF Firm, AcceptBind, envVars
  <1> DEFINE m == ToProxy("REDIRECT", v)
  <1>6. m \in Message /\ Honest(m)'
    <2>1. m \in Message
      BY <1>3, ToProxyMessage DEF ProxyTypes
    <2>2. Honest(m)'
      BY <1>3, <1>4 DEF Honest, ToProxy
    <2> QED
      BY <2>1, <2>2
  <1>7. Consume(s, Home, ToAll(proxies, m))
    BY <1>4 DEF AcceptBind
  <1> HIDE DEF m
  <1>8. NetStep
    BY <1>1, <1>5, <1>6, <1>7, ToAllHonest, ConsumeHonest, HomeAssumption
  <1>9. EntityTypeOK' /\ ProxyTypeOK' /\ ManagerTypeOK' /\ EnvTypeOK'
    <2>1. EntityTypeOK'
      BY <1>3, TypesOf DEF AcceptBind, BindVariable, EntityTypeOK
    <2>2. ManagerTypeOK'
      BY TypesOf DEF AcceptBind, ManagerTypeOK
    <2>3. ProxyTypeOK' /\ EnvTypeOK'
      BY TypesOf DEF AcceptBind, ProxyTypeOK, EnvTypeOK, proxyVars, envVars
    <2> QED
      BY <2>1, <2>2, <2>3
  <1>10. \A q \in Site : value[q] = Unbound
    BY <1>3 DEF IInv, OneValue
  <1>11. AbsentBlank' /\ OneValue'
    BY <1>3, <1>10, HomeAssumption
       DEF IInv, AbsentBlank, OneValue, AcceptBind, proxyVars
  <1>12. Justified'
    BY <1>8 DEF IInv, Justified, Broken, NetStep, AcceptBind, proxyVars, envVars
  <1>13. Agree!Next
    <2>1. Onward
      BY <1>8 DEF Onward, NetStep, AcceptBind, envVars
    <2>2. alive[Home] /\ ~pfail[Home]
      BY <1>1, <1>3 DEF CanRecv, IInv, Justified
    <2>3. \A q \in Site : pfail[q] => Broken'
      BY <1>12 DEF Justified, AcceptBind, proxyVars
    <2> QED
      BY <1>3, <1>10, <2>1, <2>2, <2>3, ValueSettles, HomeAssumption
         DEF AcceptBind, proxyVars
  <1> QED
    BY <1>8, <1>9, <1>11, <1>12, <1>13
       DEF IInv, TransientTypeOK, NetStep, AcceptBind, envVars

LEMMA GetRedirectSettles ==
    ASSUME IInv, NEW s \in Site, NEW p \in Site, GetRedirect(s, p)
    PROVE  IInv' /\ Agree!Next
  <1>1. /\ CanRecv(s, p) /\ Honest(Head1(s, p))
        /\ value[Home] # Unbound /\ Head1(s, p).val = value[Home]
    BY HeadHonest DEF GetRedirect, ProxyGets, Honest
  <1>2. PICK v \in Site : v = value[Home]
    BY <1>1, TypesOf, HomeAssumption DEF EntityTypeOK, Value
  <1>3. /\ value \in [Site -> Value] /\ v \in Value
        /\ value' = value \/ (p # Home /\ value' = [value EXCEPT ![p] = v])
    BY <1>1, <1>2, TypesOf DEF GetRedirect, BindVariable, EntityTypeOK, Value
  <1>4. Firm
    BY <1>3, HomeAssumption DEF Firm, GetRedirect, managerVars, envVars
  <1>5. NetStep
    BY <1>1, <1>4, SilentHonest, ConsumeHonest DEF GetRedirect
  <1>6. EntityTypeOK' /\ ProxyTypeOK' /\ ManagerTypeOK' /\ EnvTypeOK'
    <2>1. EntityTypeOK'
      <3>1. value' \in [Site -> Value]
        BY <1>3
      <3>2. waiting' \in [Site -> BOOLEAN] /\ needed' = needed
        BY TypesOf DEF GetRedirect, BindVariable, EntityTypeOK
      <3> QED
        BY <3>1, <3>2, TypesOf DEF EntityTypeOK
    <2>2. ProxyTypeOK'
      BY TypesOf DEF GetRedirect, ProxyTypeOK
    <2>3. ManagerTypeOK' /\ EnvTypeOK'
      BY TypesOf DEF GetRedirect, ManagerTypeOK, EnvTypeOK, managerVars, envVars
    <2> QED
      BY <2>1, <2>2, <2>3
  <1>7. CASE value' = value
    BY <1>5, <1>6, <1>7, QuietStep DEF GetRedirect, managerVars, envVars
  <1>8. CASE value' # value
    <2>1. value[p] = Unbound /\ p # Home /\ value' = [value EXCEPT ![p] = v]
      BY <1>2, <1>3, <1>8 DEF IInv, OneValue
    <2>2. AbsentBlank'
      BY <1>3, <2>1 DEF IInv, AbsentBlank, GetRedirect, ProxyGets
    <2>3. OneValue'
      BY <1>2, <1>3, <2>1, HomeAssumption
         DEF IInv, OneValue, GetRedirect, managerVars
    <2>4. Justified'
      BY <1>5 DEF IInv, Justified, Broken, NetStep, GetRedirect, managerVars,
                  envVars
    <2>5. Agree!Next
      <3>1. Onward
        BY <1>5 DEF Onward, NetStep, GetRedirect, envVars
      <3>2. alive[p] /\ ~pfail[p]
        BY <1>1 DEF CanRecv, GetRedirect, ProxyGets
      <3>3. \A q \in Site : pfail[q] => Broken'
        BY <2>4 DEF Justified, GetRedirect
      <3>4. \A q \in Site : value[q] \in {Unbound, v}
        BY <1>2 DEF IInv, OneValue
      <3> QED
        BY <1>3, <2>1, <3>1, <3>2, <3>3, <3>4, ValueSettles DEF GetRedirect
    <2> QED
      BY <1>5, <1>6, <2>2, <2>3, <2>4, <2>5
         DEF IInv, TransientTypeOK, NetStep, GetRedirect, envVars
  <1> QED
    BY <1>7, <1>8

(* A proxy is told that the variable has failed, or finds out.             *)
LEMMA FailureStep ==
    ASSUME IInv, NetStep, NEW p \in Site, present'[p], alive[p], Broken,
           p = Home => mfail,
           UNCHANGED <<entityVars, managerVars, envVars>>, ProxyTypeOK',
           \A q \in Site : present[q] => present'[q],
           pfail' = [pfail EXCEPT ![p] = TRUE]
    PROVE  IInv' /\ Agree!Next
  <1>1. EntityTypeOK' /\ ManagerTypeOK' /\ EnvTypeOK' /\ pfail \in [Site -> BOOLEAN]
    BY TypesOf DEF EntityTypeOK, ProxyTypeOK, ManagerTypeOK, EnvTypeOK,
                   entityVars, managerVars, envVars
  <1>2. Broken'
    BY DEF Broken, NetStep, envVars
  <1>3. Justified'
    BY <1>1, <1>2 DEF IInv, Justified, managerVars, envVars
  <1>4. OneValue' /\ AbsentBlank'
    BY <1>1, HomeAssumption
       DEF IInv, OneValue, AbsentBlank, entityVars, managerVars
  <1>5. Agree!Next
    <2>1. Onward
      BY DEF Onward, NetStep, envVars
    <2> QED
      BY <1>1, <1>2, <2>1, FailureSettles DEF entityVars
  <1> QED
    BY <1>1, <1>3, <1>4, <1>5 DEF IInv, TransientTypeOK, NetStep, envVars

LEMMA GetPermFailSettles ==
    ASSUME IInv, NEW s \in Site, NEW p \in Site, GetPermFail(s, p)
    PROVE  IInv' /\ Agree!Next
  <1>1. CanRecv(s, p) /\ mfail
    BY HeadHonest DEF GetPermFail, ProxyGets, Honest
  <1>2. Firm
    BY DEF Firm, GetPermFail, entityVars, managerVars, envVars
  <1>3. NetStep
    BY <1>1, <1>2, SilentHonest, ConsumeHonest DEF GetPermFail
  <1>4. Broken
    BY <1>1 DEF IInv, Justified, Broken
  <1>5. ProxyTypeOK' /\ present'[p] /\ alive[p]
    BY <1>1, TypesOf DEF GetPermFail, ProxyGets, CanRecv, ProxyTypeOK
  <1> QED
    BY <1>1, <1>3, <1>4, <1>5, FailureStep DEF GetPermFail

LEMMA ImportProxySettles ==
    ASSUME IInv, NEW s \in Site, NEW p \in Site, ImportProxy(s, p)
    PROVE  IInv' /\ Agree!Next
  <1>1. CanRecv(s, p) /\ ~present[p] /\ p # Home /\ value[p] = Unbound /\ ~pfail[p]
    BY DEF ImportProxy, GetsReference, IInv, AbsentBlank
  <1>2. Firm
    BY DEF Firm, ImportProxy, entityVars, managerVars, envVars
  <1>3. NetStep
    BY <1>1, <1>2, SilentHonest, PlainToManager, ConsumeHonest DEF ImportProxy
  <1>4. ProxyTypeOK' /\ present'[p] /\ alive[p]
        /\ \A q \in Site : present[q] => present'[q]
    BY <1>1, TypesOf DEF ImportProxy, CreateProxy, CanRecv, ProxyTypeOK
  <1>5. CASE Home \in perm[p]
    <2>1. Broken
      BY <1>5, HomeAssumption DEF IInv, Detected, Broken
    <2>2. pfail' = [pfail EXCEPT ![p] = TRUE]
      BY <1>5 DEF ImportProxy, CreateProxy
    <2> QED
      BY <1>1, <1>3, <1>4, <2>1, <2>2, FailureStep DEF ImportProxy
  <1>6. CASE Home \notin perm[p]
    <2>1. pfail' = pfail
      BY <1>1, <1>6, TypesOf DEF ImportProxy, CreateProxy, ProxyTypeOK
    <2>2. EntityTypeOK' /\ ManagerTypeOK' /\ EnvTypeOK'
      BY TypesOf DEF ImportProxy, EntityTypeOK, ManagerTypeOK, EnvTypeOK,
                     entityVars, managerVars, envVars
    <2>3. AbsentBlank' /\ OneValue'
      BY <1>4, <2>1, HomeAssumption
         DEF IInv, AbsentBlank, OneValue, ImportProxy, entityVars, managerVars
    <2>4. Justified'
      BY <1>3, <2>1 DEF IInv, Justified, Broken, NetStep, ImportProxy,
                        managerVars, envVars
    <2>5. Agree!Next
      BY <1>3, <2>1, OutcomeStays
         DEF Onward, NetStep, ImportProxy, entityVars, envVars
    <2> QED
      BY <1>3, <1>4, <2>2, <2>3, <2>4, <2>5
         DEF IInv, TransientTypeOK, NetStep, ImportProxy, envVars
  <1> QED
    BY <1>5, <1>6

LEMMA DetectRemoteSettles ==
    ASSUME IInv, NEW s \in Site, NEW p \in Site, DetectRemote(p, s)
    PROVE  IInv' /\ Agree!Next
  <1>1. Firm
    BY DEF Firm, DetectRemote, entityVars, managerVars, envVars
  <1>2. NetStep
    BY <1>1, DetectHonest DEF DetectRemote
  <1>3. ProxyTypeOK'
    BY TypesOf DEF DetectRemote, ProxyTypeOK
  <1>4. CASE s = Home /\ present[p] /\ status[p] # "BOUND"
    <2>1. Broken /\ alive[p] /\ p # Home
      BY <1>4 DEF DetectRemote, CanDetect, Idle, Broken
    <2>2. pfail' = [pfail EXCEPT ![p] = TRUE]
      BY <1>4, TypesOf DEF DetectRemote, ProxyTypeOK
    <2> QED
      BY <1>2, <1>3, <1>4, <2>1, <2>2, FailureStep DEF DetectRemote
  <1>5. CASE ~(s = Home /\ present[p] /\ status[p] # "BOUND")
    <2>1. pfail' = pfail
      BY <1>5, TypesOf DEF DetectRemote, ProxyTypeOK
    <2>2. EntityTypeOK' /\ ManagerTypeOK' /\ EnvTypeOK'
      BY TypesOf DEF DetectRemote, EntityTypeOK, ManagerTypeOK, EnvTypeOK,
                     entityVars, managerVars, envVars
    <2> QED
      BY <1>2, <1>3, <2>1, <2>2, QuietStep
         DEF DetectRemote, entityVars, managerVars, envVars
  <1> QED
    BY <1>4, <1>5

(* The manager fails and says so.                                          *)
LEMMA FailHonest ==
    ASSUME IInv, NEW s \in Site, Fail(s)
    PROVE  IInv' /\ Agree!Next
  <1>1. CanRecv(s, Home) /\ "kill" \in history
    BY HeadHonest, HomeAssumption DEF Fail, ManagerGets, Honest
  <1>2. Firm
    BY DEF Firm, Fail, entityVars, envVars
  <1> DEFINE m == Notice("PERMFAIL")
  <1>3. m \in Message /\ Honest(m)'
    <2>1. m \in Message
      BY ToProxyMessage, UnboundValue DEF Notice, ProxyTypes
    <2>2. Honest(m)'
      BY DEF Honest, Notice, ToProxy, Fail
    <2> QED
      BY <2>1, <2>2
  <1>4. Consume(s, Home, ToAll(proxies, m))
    BY DEF Fail
  <1> HIDE DEF m
  <1>5. NetStep
    BY <1>1, <1>2, <1>3, <1>4, ToAllHonest, ConsumeHonest, HomeAssumption
  <1>6. EntityTypeOK' /\ ProxyTypeOK' /\ ManagerTypeOK' /\ EnvTypeOK'
    BY TypesOf DEF Fail, EntityTypeOK, ProxyTypeOK, ManagerTypeOK, EnvTypeOK,
                   entityVars, proxyVars, envVars
  <1>7. AbsentBlank' /\ OneValue'
    BY DEF IInv, AbsentBlank, OneValue, Fail, entityVars, proxyVars
  <1>8. Justified'
    BY <1>1, <1>5 DEF IInv, Justified, Broken, NetStep, Fail, proxyVars, envVars
  <1>9. Agree!Next
    BY <1>5, OutcomeStays
       DEF Onward, NetStep, Fail, entityVars, proxyVars, envVars
  <1> QED
    BY <1>5, <1>6, <1>7, <1>8, <1>9
       DEF IInv, TransientTypeOK, NetStep, Fail, envVars

(* A site that loses its proxy forgets the outcome.                        *)
LEMMA DeleteProxyForgets ==
    ASSUME IInv, NEW p \in Site, DeleteProxy(p)
    PROVE  IInv' /\ Agree!Next
  <1>1. /\ EnvTypeOK' /\ history \subseteq history'
        /\ "crossed" \in history' => "crossed" \in history
    BY TypesOf, SpendType DEF DeleteProxy
  <1>2. /\ p # Home
        /\ value \in [Site -> Value] /\ value' = [value EXCEPT ![p] = Unbound]
        /\ pfail \in [Site -> BOOLEAN] /\ pfail' = [pfail EXCEPT ![p] = FALSE]
        /\ present \in [Site -> BOOLEAN]
        /\ present' = [present EXCEPT ![p] = FALSE]
    BY TypesOf
       DEF DeleteProxy, Collectable, DeleteVariable, EntityTypeOK, ProxyTypeOK
  <1>3. Firm
    BY <1>1, <1>2, HomeAssumption DEF Firm, DeleteProxy, managerVars
  <1>4. NetStep
    BY <1>3, SilentHonest, PlainToManager, EmitHonest DEF DeleteProxy, DeregisterOut
  <1>5. EntityTypeOK' /\ ProxyTypeOK' /\ ManagerTypeOK'
    BY TypesOf, UnboundValue
       DEF DeleteProxy, DeleteVariable, EntityTypeOK, ProxyTypeOK, ManagerTypeOK,
           managerVars
  <1>6. AbsentBlank' /\ OneValue'
    BY <1>2, HomeAssumption DEF IInv, AbsentBlank, OneValue, DeleteProxy, managerVars
  <1>7. Justified'
    BY <1>1, <1>2, <1>4, HomeAssumption
       DEF IInv, Justified, Broken, NetStep, DeleteProxy, managerVars
  <1>8. Agree!Next
    BY <1>1, <1>2, <1>4, OutcomeForgotten DEF Onward, NetStep
  <1> QED
    BY <1>1, <1>4, <1>5, <1>6, <1>7, <1>8 DEF IInv, TransientTypeOK, NetStep

LEMMA SiteCrashStep ==
    ASSUME IInv, NEW s \in Site, SiteCrash(s)
    PROVE  IInv' /\ Agree!Next
  <1>1. /\ EnvTypeOK' /\ history \subseteq history'
        /\ "crossed" \in history' => "crossed" \in history
    BY TypesOf, SpendType DEF SiteCrash
  <1>2. Firm
    BY <1>1 DEF Firm, SiteCrash, entityVars, managerVars
  <1>3. NetTypeOK(Message)' /\ Keeps(Dishonest')
    BY TypesOf, CrashStep DEF SiteCrash
  <1>4. NoneOf(chan, Dishonest)'
    BY <1>2, <1>3, NetKept DEF IInv
  <1>5. \A q \in Site : alive'[q] => alive[q]
    BY TypesOf DEF SiteCrash, Crash, NetTypeOK
  <1>6. Detected'
    BY <1>5 DEF IInv, Detected, SiteCrash, Crash
  <1>7. EntityTypeOK' /\ ProxyTypeOK' /\ ManagerTypeOK'
    BY TypesOf DEF SiteCrash, EntityTypeOK, ProxyTypeOK, ManagerTypeOK,
                   entityVars, proxyVars, managerVars
  <1>8. AbsentBlank' /\ OneValue'
    BY DEF IInv, AbsentBlank, OneValue, SiteCrash, entityVars, proxyVars,
           managerVars
  <1>9. Justified'
    BY <1>1, <1>5, HomeAssumption
       DEF IInv, Justified, Broken, SiteCrash, proxyVars, managerVars
  <1>10. Agree!Next
    BY <1>1, <1>5, OutcomeStays DEF Onward, SiteCrash, entityVars, proxyVars
  <1> QED
    BY <1>1, <1>3, <1>4, <1>6, <1>7, <1>8, <1>9, <1>10 DEF IInv, TransientTypeOK

-----------------------------------------------------------------------------
LEMMA NextIInv ==
    ASSUME IInv, Next
    PROVE  IInv' /\ Agree!Next
  <1>1. CASE Environment
    BY <1>1, BindHomeSettles, BindWaitQuiet, MakeNeededQuiet, KillQuiet,
       DeleteProxyForgets, ExportQuiet, SiteCrashStep
       DEF Environment, Operation
  <1>2. ASSUME NEW s \in Site, NEW p \in Site, ProxyReceives(s, p)
        PROVE  IInv' /\ Agree!Next
    BY <1>2, ProxyReceivesQuiet, ImportProxySettles, GetRedirectSettles,
       GetPermFailSettles DEF ProxyReceives
  <1>3. ASSUME NEW s \in Site, ManagerReceives(s)
        PROVE  IInv' /\ Agree!Next
    BY <1>3, ManagerReceivesQuiet, FailHonest, AcceptBindSettles
       DEF ManagerReceives
  <1>4. CASE System
    BY <1>2, <1>3, <1>4, DetectRemoteSettles, DetectHomeQuiet DEF System
  <1> QED
    BY <1>1, <1>4 DEF Next

LEMMA StutterIInv ==
    ASSUME IInv, UNCHANGED vars
    PROVE  IInv'
  <1> USE DEF vars, transientVars, entityVars, proxyVars, managerVars, netVars,
              envVars
  <1>1. TransientTypeOK'
    BY DEF IInv, TransientTypeOK, NetTypeOK, EntityTypeOK, ProxyTypeOK,
           ManagerTypeOK, EnvTypeOK
  <1>2. Detected' /\ AbsentBlank' /\ OneValue' /\ Justified'
    BY DEF IInv, Detected, AbsentBlank, OneValue, Justified, Broken
  <1>3. NoneOf(chan, Dishonest)'
    BY DEF IInv, NoneOf, Dishonest, Honest
  <1> QED
    BY <1>1, <1>2, <1>3 DEF IInv

(* No redirection, notice of failure or binding that is under way is ever  *)
(* contradicted by the manager, the value of every site is that of the     *)
(* home site, and every failure follows a kill or a crash of the home      *)
(* site: in every state that ProtocolOnceOnlyManager and -Proxy reach.     *)
THEOREM OnceOnlyInvariance == Spec => []IInv
  <1>1. IInv /\ [Next]_vars => IInv'
    BY NextIInv, StutterIInv
  <1> QED
    BY <1>1, InitIInv, PTL DEF Spec

(* The once-only protocol implements Decision: whatever binds, kills,      *)
(* crashes, imports and collections race, each step of the manager and of  *)
(* the proxies settles the variable at a site compatibly with all the      *)
(* others, or changes what no site sees.                                   *)
THEOREM OnceOnlyAgrees == Spec => Agreement
  <1>1. Init => Agree!Init
    BY HomeAssumption DEF Init, TransientInit, NetInit, Agree!Init, Outcome
  <1>2. UNCHANGED vars => UNCHANGED <<[p \in Site |-> Outcome(p)],
                                      {s \in Site : ~alive[s]},
                                      "kill" \in history \/ ~alive[Home],
                                      "crossed" \in history>>
    BY DEF vars, transientVars, entityVars, proxyVars, netVars, envVars, Outcome
  <1>3. IInv /\ [Next]_vars
            => [Agree!Next]_<<[p \in Site |-> Outcome(p)],
                              {s \in Site : ~alive[s]},
                              "kill" \in history \/ ~alive[Home],
                              "crossed" \in history>>
    BY <1>2, NextIInv
  <1> QED
    BY <1>1, <1>3, OnceOnlyInvariance, PTL DEF Spec, Agreement, Agree!Spec
=============================================================================
