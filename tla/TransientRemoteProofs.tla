------------------------ MODULE TransientRemoteProofs ------------------------
(***************************************************************************)
(* TransientRemote, for any set of sites and any budget, until a token and *)
(* a deregistration of the same site cross each other: at most one proxy   *)
(* has the write token or is sent it, the one that the manager takes for   *)
(* its holder; and the protocol implements Decision.                       *)
(***************************************************************************)
EXTENDS TransientRemote, TransientProofs

Request == [type : {"BIND", "UPDATE_REQUEST", "PERMFAIL"}, val : Value]

RemoteTypeOK ==
    /\ token \in [Site -> BOOLEAN]
    /\ current \in Site
    /\ requests \in Seq(Request)

TypeOK == TransientTypeOK /\ RemoteTypeOK

(* The messages that matter to the token: the reference that brings it and *)
(* the deregistration that returns it.  There is no other deregistration.  *)
Tok == {Reference("TOKEN")}
Bye == {ToManager("DEREGISTER", Unbound)}
Deregistration ==
    {m \in Message : m.to = "manager" /\ m.type = "DEREGISTER"}
Odd == Deregistration \ Bye

(* Only the home site sends the token, to another site.                    *)
TokenOrigin ==
    \A l \in Site \X Site :
        Carried(chan, l, Tok) => l[1] = Home /\ l[2] # Home

(* The token is in one place, where the manager takes it to be, and the    *)
(* proxy that has it is not an earlier one's successor whose               *)
(* deregistration could make the manager take it back.                     *)
Exclusive ==
    /\ \A p \in Site : HasToken(p) \/ TokenSent(p) => p = current
    /\ \A p \in Site : HasToken(p) => ~TokenSent(p)
    /\ OnlyOne(chan, Tok)
    /\ \A p \in Site : HasToken(p) /\ p # Home => ~Deregistering(p)

(* Only a proxy that has left sends a deregistration.                      *)
Departed ==
    /\ NoneOf(chan, Odd)
    /\ "leave" \notin history => NoneOf(chan, Bye)
    /\ "crossed" \in history => "leave" \in history

(* The token is not lost but by a crash, a departure or a site that drops  *)
(* the reference.                                                          *)
Lost == ~alive[Home] \/ ~alive[current] \/ history \cap {"leave", "dropped"} # {}

Kept == Lost \/ HasToken(current) \/ TokenSent(current)

IInv ==
    /\ TypeOK
    /\ TokenOrigin
    /\ "crossed" \notin history => Exclusive
    /\ Departed
    /\ Kept

LEMMA InitIInv == Init => IInv
  <1> SUFFICES ASSUME Init
               PROVE  IInv
    OBVIOUS
  <1> USE DEF Init, TransientInit
  <1>1. NetTypeOK(Message)
    BY EmptySeq DEF NetInit, NetTypeOK
  <1>2. /\ \A l \in Site \X Site : chan[l] = <<>>
        /\ DOMAIN <<>> = {}
    BY DEF NetInit
  <1>3. \A K : /\ NoneOf(chan, K) /\ OnlyOne(chan, K)
               /\ \A l \in Site \X Site : ~Carried(chan, l, K)
    BY <1>2 DEF NoneOf, OnlyOne, Carried
  <1>4. TypeOK
    BY <1>1, HomeAssumption, BudgetsAssumption, UnboundValue, EmptySeq
       DEF TypeOK, RemoteTypeOK, TransientTypeOK, EntityTypeOK, ProxyTypeOK,
           ManagerTypeOK, EnvTypeOK
  <1>5. TokenOrigin /\ Departed
    BY <1>3 DEF TokenOrigin, Departed
  <1>6. Exclusive
    BY <1>3, HomeAssumption DEF Exclusive, HasToken, TokenSent, Tok
  <1>7. Kept
    BY HomeAssumption DEF Kept, HasToken
  <1> QED
    BY <1>4, <1>5, <1>6, <1>7 DEF IInv

LEMMA TypesOf ==
    ASSUME IInv
    PROVE  /\ EntityTypeOK /\ ProxyTypeOK /\ ManagerTypeOK /\ EnvTypeOK
           /\ RemoteTypeOK /\ NetTypeOK(Message)
  BY DEF IInv, TypeOK, TransientTypeOK

-----------------------------------------------------------------------------
(* What does not concern the token.                                        *)

Special == Tok \cup Deregistration

Plain(out) == out \in [Site -> Seq(Message)] /\ Without(out, Special)

LEMMA KindsSpecial ==
    /\ Tok \subseteq Special /\ Bye \subseteq Special /\ Odd \subseteq Special
    /\ Bye \subseteq Message /\ Tok \subseteq Message
  <1>1. ToManager("DEREGISTER", Unbound) \in Message
    BY ToManagerMessage, UnboundValue DEF ManagerTypes
  <1>2. Bye \subseteq Deregistration
    BY <1>1 DEF Bye, Deregistration, ToManager
  <1> QED
    BY <1>1, <1>2, ReferenceMessage DEF Special, Odd, Bye, Tok

LEMMA PlainManager ==
    ASSUME NEW t \in ManagerTypes \ {"DEREGISTER"}, NEW v \in Value
    PROVE  ToManager(t, v) \in Message \ Special
  <1>1. ToManager(t, v) \in Message
    BY ToManagerMessage
  <1>2. ToManager(t, v) \notin Special
    BY DEF Special, Deregistration, Tok, ToManager, Reference
  <1> QED
    BY <1>1, <1>2

LEMMA PlainProxy ==
    ASSUME NEW t \in ProxyTypes, NEW v \in Value
    PROVE  ToProxy(t, v) \in Message \ Special
  <1>1. ToProxy(t, v) \in Message
    BY ToProxyMessage
  <1>2. ToProxy(t, v) \notin Special
    BY DEF Special, Deregistration, Tok, ToProxy, Reference
  <1> QED
    BY <1>1, <1>2

LEMMA PlainReference ==
    ASSUME NEW r \in {"AUTO", "MANUAL"}
    PROVE  Reference(r) \in Message \ Special
  <1>1. Reference(r) \in Message
    BY ReferenceMessage
  <1>2. Reference(r) \notin Special
    BY DEF Special, Deregistration, Tok, Reference
  <1> QED
    BY <1>1, <1>2

LEMMA SilentPlain == Plain(Silent)
  BY SilentType, SilentWithout DEF Plain

LEMMA ToPlain ==
    ASSUME NEW d, NEW m \in Message \ Special
    PROVE  Plain(To(d, m))
  BY ToType, ToWithout DEF Plain

LEMMA ToAllPlain ==
    ASSUME NEW S, NEW m \in Message \ Special
    PROVE  Plain(ToAll(S, m))
  BY ToAllType, ToAllWithout DEF Plain

LEMMA BothPlain ==
    ASSUME NEW o1, NEW o2, Plain(o1), Plain(o2)
    PROVE  Plain(Both(o1, o2))
  BY BothType, BothWithout DEF Plain

LEMMA SendPlain ==
    ASSUME NEW t \in ManagerTypes \ {"DEREGISTER"}, NEW v \in Value
    PROVE  Plain(sendToManager(t, v))
  BY PlainManager, ToPlain DEF sendToManager

LEMMA NoticePlain ==
    ASSUME NEW t \in ProxyTypes
    PROVE  Notice(t) \in Message \ Special
  BY PlainProxy, UnboundValue DEF Notice

LEMMA ChangesPlain ==
    ASSUME NEW d
    PROVE  Plain(ChangesOut(d))
  <1>1. Notice("UPDATE") \in Message \ Special
    BY NoticePlain DEF ProxyTypes
  <1> QED
    BY <1>1, ToPlain, SilentPlain DEF ChangesOut

LEMMA ForwardPlain ==
    ASSUME RemoteTypeOK, NEW d
    PROVE  Plain(ForwardOut(d))
  <1> DEFINE f == [i \in DOMAIN requests |->
                      ToProxy(requests[i].type, requests[i].val)]
  <1>1. /\ requests \in Seq(Request) /\ Len(requests) \in Nat
        /\ DOMAIN requests = 1..Len(requests)
    BY LenProperties DEF RemoteTypeOK
  <1>2. \A i \in DOMAIN requests : requests[i] \in Request
    BY <1>1, ElementOfSeq
  <1>3. \A i \in DOMAIN requests : f[i] \in Message \ Special
    BY <1>2, PlainProxy DEF Request, ProxyTypes
  <1>4. f \in [1..Len(requests) -> Message]
    BY <1>1, <1>3
  <1> HIDE DEF f
  <1>5. f \in Seq(Message) /\ DOMAIN f = DOMAIN requests /\ <<>> \in Seq(Message)
        /\ DOMAIN <<>> = {}
    BY <1>1, <1>4, EmptySeq
  <1>6. ForwardOut(d) = [e \in Site |-> IF e = d THEN f ELSE <<>>]
    BY DEF ForwardOut, f
  <1>7. ForwardOut(d) \in [Site -> Seq(Message)]
    BY <1>5, <1>6
  <1>8. Without(ForwardOut(d), Special)
    BY <1>3, <1>5, <1>6 DEF Without
  <1> QED
    BY <1>7, <1>8 DEF Plain

-----------------------------------------------------------------------------
(* Steps of the network that leave the token and the deregistrations where *)
(* they are, or lose them.                                                 *)

Calm ==
    /\ NetTypeOK(Message)'
    /\ Keeps(Tok) /\ Keeps(Bye) /\ Keeps(Odd)
    /\ \A s \in Site : alive'[s] => alive[s]

Stays ==
    Carried(chan, <<Home, current>>, Tok)
        => Carried(chan', <<Home, current>>, Tok)

LEMMA PlainWithout ==
    ASSUME NEW out, Plain(out)
    PROVE  Without(out, Tok) /\ Without(out, Bye) /\ Without(out, Odd)
  BY KindsSpecial DEF Plain, Without

LEMMA EmitCalm ==
    ASSUME IInv, NEW p \in Site, NEW out, Plain(out), Emit(p, out)
    PROVE  Calm /\ Stays
  <1>1. out \in [Site -> Seq(Message)] /\ NetTypeOK(Message)
    BY TypesOf DEF Plain
  <1>2. Calm
    BY <1>1, EmitStep, PlainWithout DEF Calm, Emit
  <1>3. Stays
    BY <1>1, EmitStays, HomeAssumption, TypesOf DEF Stays, RemoteTypeOK
  <1> QED
    BY <1>2, <1>3

LEMMA ConsumeCalm ==
    ASSUME IInv, NEW s \in Site, NEW p \in Site, NEW out, Plain(out),
           CanRecv(s, p), Consume(s, p, out)
    PROVE  Calm /\ (Head1(s, p) \notin Tok => Stays)
  <1>1. out \in [Site -> Seq(Message)] /\ NetTypeOK(Message)
    BY TypesOf DEF Plain
  <1>2. Calm
    BY <1>1, ConsumeStep, PlainWithout DEF Calm, Consume
  <1>3. ASSUME Head1(s, p) \notin Tok
        PROVE  Stays
    BY <1>1, <1>3, ConsumeStays, HomeAssumption, TypesOf
       DEF Stays, RemoteTypeOK, Head1
  <1> QED
    BY <1>2, <1>3

LEMMA DetectCalm ==
    ASSUME IInv, NEW s \in Site, NEW p \in Site, NEW out, Plain(out),
           CanDetect(p, s), Detect(p, s, out)
    PROVE  Calm /\ (alive[Home] => Stays)
  <1>1. out \in [Site -> Seq(Message)] /\ NetTypeOK(Message)
    BY TypesOf DEF Plain
  <1>2. Calm
    BY <1>1, DetectStep, PlainWithout DEF Calm, Detect
  <1>3. ASSUME alive[Home]
        PROVE  Stays
    BY <1>1, <1>3, DetectStays, HomeAssumption, TypesOf
       DEF Stays, RemoteTypeOK, CanDetect
  <1> QED
    BY <1>2, <1>3

LEMMA CrashCalm ==
    ASSUME IInv, NEW s \in Site, Crash(s)
    PROVE  Calm /\ (s # current => Stays) /\ ~alive'[s]
  <1>1. NetTypeOK(Message)
    BY TypesOf
  <1>2. /\ NetTypeOK(Message)'
        /\ \A K : Keeps(K)
    BY <1>1, CrashStep
  <1>3. (\A q \in Site : alive'[q] => alive[q]) /\ ~alive'[s]
    BY <1>1 DEF NetTypeOK, Crash
  <1>4. ASSUME s # current
        PROVE  Stays
    BY <1>1, <1>4, TypesOf, HomeAssumption
       DEF Stays, Crash, RemoteTypeOK, NetTypeOK, Carried
  <1> QED
    BY <1>2, <1>3, <1>4 DEF Calm

(* Steps that leave proxies and token alone.                               *)
LEMMA QuietStep ==
    ASSUME IInv, Calm, Stays \/ Lost', UNCHANGED <<present, token, current>>,
           EntityTypeOK', ProxyTypeOK', ManagerTypeOK', EnvTypeOK',
           RemoteTypeOK', history \subseteq history',
           "crossed" \in history' => "crossed" \in history
    PROVE  IInv'
  <1>1. TypeOK'
    BY DEF Calm, TypeOK, TransientTypeOK
  <1>2. TokenOrigin'
    BY DEF IInv, TokenOrigin, Calm, Keeps
  <1>3. \A p \in Site : /\ HasToken(p)' = HasToken(p)
                        /\ TokenSent(p)' => TokenSent(p)
                        /\ Deregistering(p)' => Deregistering(p)
    BY HomeAssumption
       DEF HasToken, TokenSent, Deregistering, Calm, Keeps, Tok, Bye
  <1>4. OnlyOne(chan, Tok) => OnlyOne(chan, Tok)'
    BY DEF Calm, Keeps
  <1>5. Exclusive => Exclusive'
    BY <1>3, <1>4 DEF Exclusive
  <1>6. Departed'
    BY DEF IInv, Departed, Calm, Keeps
  <1>7. Kept'
    <2>1. Lost => Lost'
      BY HomeAssumption, TypesOf DEF Lost, Calm, RemoteTypeOK
    <2>2. HasToken(current) => HasToken(current)'
      BY <1>3, TypesOf DEF HasToken, RemoteTypeOK
    <2>3. Stays /\ TokenSent(current) => TokenSent(current)'
      BY DEF Stays, TokenSent, Tok
    <2> QED
      BY <2>1, <2>2, <2>3 DEF IInv, Kept
  <1> QED
    BY <1>1, <1>2, <1>5, <1>6, <1>7 DEF IInv

LEMMA HeadOf ==
    ASSUME IInv, NEW s \in Site, NEW p \in Site, CanRecv(s, p)
    PROVE  /\ Head1(s, p) \in Message
           /\ Head1(s, p).type # "REFERENCE" =>
                  Head1(s, p).val \in Value /\ Head1(s, p) \notin Tok
           /\ Head1(s, p).type = "REFERENCE" /\ Head1(s, p).val # "TOKEN" =>
                  Head1(s, p) \notin Tok
           /\ Head1(s, p).type = "REFERENCE" =>
                  Head1(s, p) = Reference(Head1(s, p).val)
           /\ Head1(s, p).to \in {"proxy", "manager"} =>
                  Head1(s, p).type # "REFERENCE"
  <1>1. Head1(s, p) \in Message
    BY TypesOf, HeadMessage
  <1> QED
    BY <1>1 DEF Message, ManagerTypes, ProxyTypes, Tok, Reference

-----------------------------------------------------------------------------
(* Operations.                                                             *)

LEMMA EmitQuiet ==
    ASSUME IInv, NEW p \in Site, NEW out, Plain(out), Emit(p, out),
           UNCHANGED <<present, token, current>>,
           EntityTypeOK', ProxyTypeOK', ManagerTypeOK', RemoteTypeOK',
           Spend("bind") \/ Spend("need") \/ Spend("kill") \/ Spend("export")
    PROVE  IInv'
  <1>1. /\ EnvTypeOK' /\ history \subseteq history'
        /\ "crossed" \in history' => "crossed" \in history
    BY TypesOf, SpendType
  <1> QED
    BY <1>1, EmitCalm, QuietStep

LEMMA BoundPlain ==
    ASSUME NEW p, NEW v \in Value
    PROVE  Plain(BoundOut(p, v))
  BY SendPlain, UnboundValue DEF BoundOut, ManagerTypes

LEMMA BindTokenQuiet ==
    ASSUME IInv, NEW p \in Site, BindToken(p)
    PROVE  IInv'
  <1>1. Plain(BoundOut(p, p))
    BY BoundPlain DEF Value
  <1>2. EntityTypeOK' /\ ProxyTypeOK' /\ ManagerTypeOK' /\ RemoteTypeOK'
    BY TypesOf DEF BindToken, BindVariable, EntityTypeOK, ProxyTypeOK, Value,
                   ManagerTypeOK, RemoteTypeOK, managerVars, remoteVars
  <1> QED
    BY <1>1, <1>2, EmitQuiet DEF BindToken, remoteVars

LEMMA BindWaitQuiet ==
    ASSUME IInv, NEW p \in Site, BindWait(p)
    PROVE  IInv'
  <1>1. Plain(sendToManager("BIND", p))
    BY SendPlain DEF Value, ManagerTypes
  <1>2. EntityTypeOK' /\ ProxyTypeOK' /\ ManagerTypeOK' /\ RemoteTypeOK'
    BY TypesOf DEF BindWait, EntityTypeOK, ProxyTypeOK, ManagerTypeOK,
                   RemoteTypeOK, managerVars, remoteVars
  <1> QED
    BY <1>1, <1>2, SilentPlain, EmitQuiet DEF BindWait, remoteVars

LEMMA MakeNeededQuiet ==
    ASSUME IInv, NEW p \in Site, MakeNeeded(p)
    PROVE  IInv'
  <1>1. /\ Plain(sendToManager("UPDATE", Unbound))
        /\ Plain(sendToManager("UPDATE_REQUEST", Unbound))
    BY SendPlain, UnboundValue DEF ManagerTypes
  <1>2. EntityTypeOK' /\ ProxyTypeOK' /\ ManagerTypeOK' /\ RemoteTypeOK'
    BY TypesOf DEF MakeNeeded, EntityTypeOK, ProxyTypeOK, ManagerTypeOK,
                   RemoteTypeOK, proxyVars, managerVars, remoteVars
  <1>3. PICK out : Plain(out) /\ Emit(p, out)
    BY <1>1, SilentPlain DEF MakeNeeded
  <1> QED
    BY <1>2, <1>3, EmitQuiet DEF MakeNeeded, proxyVars, remoteVars

LEMMA KillQuiet ==
    ASSUME IInv, NEW p \in Site, Kill(p)
    PROVE  IInv'
  <1>1. Plain(sendToManager("PERMFAIL", Unbound))
    BY SendPlain, UnboundValue DEF ManagerTypes
  <1>2. EntityTypeOK' /\ ProxyTypeOK' /\ ManagerTypeOK' /\ RemoteTypeOK'
    BY TypesOf DEF Kill, EntityTypeOK, ProxyTypeOK, ManagerTypeOK,
                   RemoteTypeOK, entityVars, managerVars, remoteVars
  <1> QED
    BY <1>1, <1>2, EmitQuiet DEF Kill, remoteVars

LEMMA ExportRemoteQuiet ==
    ASSUME IInv, NEW p \in Site, NEW q \in Site, ExportRemote(p, q)
    PROVE  IInv'
  <1>1. Plain(To(q, Reference("MANUAL")))
    BY PlainReference, ToPlain
  <1>2. EntityTypeOK' /\ ProxyTypeOK' /\ ManagerTypeOK' /\ RemoteTypeOK'
    BY TypesOf DEF ExportRemote, EntityTypeOK, ProxyTypeOK, ManagerTypeOK,
                   RemoteTypeOK, entityVars, proxyVars, managerVars, remoteVars
  <1> QED
    BY <1>1, <1>2, EmitQuiet DEF ExportRemote, MayExport, proxyVars, remoteVars

(* The home site gives the token away: it was the only one to have it.     *)
LEMMA GiveToken ==
    ASSUME IInv, NEW q \in Site, ExportHome(q), GivesToken(q)
    PROVE  IInv'
  <1> DEFINE rest == Both(ChangesOut(q), ForwardOut(q))
             out == Both(To(q, Reference("TOKEN")), rest)
  <1>1. /\ EnvTypeOK' /\ history \subseteq history'
        /\ "crossed" \in history' => "crossed" \in history
    BY TypesOf, SpendType DEF ExportHome, MayExport
  <1>2. EntityTypeOK' /\ ProxyTypeOK' /\ ManagerTypeOK' /\ RemoteTypeOK'
    BY TypesOf DEF ExportHome, SetCurrent, EntityTypeOK, ProxyTypeOK,
                   ManagerTypeOK, RemoteTypeOK, entityVars, proxyVars
  <1>3. Plain(rest)
    BY TypesOf, ChangesPlain, ForwardPlain, BothPlain
  <1>4. /\ To(q, Reference("TOKEN")) \in [Site -> Seq(Message)]
        /\ rest \in [Site -> Seq(Message)]
        /\ out \in [Site -> Seq(Message)]
    BY <1>3, ReferenceMessage, ToType, BothType DEF Plain
  <1>5. Emit(Home, out) /\ q # Home /\ current = Home /\ current' = q
        /\ q \notin perm[Home] /\ UNCHANGED present
        /\ token' = [token EXCEPT ![Home] = FALSE]
    BY DEF ExportHome, SetCurrent, MayExport, GivesToken, proxyVars
  <1>6. OnlyFor(out, Tok, q)
    BY <1>3, <1>4, PlainWithout, ToOnlyFor, BothForFirst
  <1>7. Without(out, Bye) /\ Without(out, Odd)
    <2>1. Reference("TOKEN") \notin Bye /\ Reference("TOKEN") \notin Odd
      BY DEF Bye, Odd, Deregistration, Reference, ToManager
    <2> QED
      BY <1>3, <1>4, <2>1, PlainWithout, ToWithout, BothWithout
  <1>8. alive[q] => Carried(chan', <<Home, q>>, Tok)
    <2>1. 1 \in DOMAIN out[q] /\ out[q][1] \in Tok
      <3>1. out[q] = <<Reference("TOKEN")>> \o rest[q] /\ rest[q] \in Seq(Message)
        BY <1>4 DEF Both, To, Silent
      <3>2. <<Reference("TOKEN")>> \in Seq(Message)
        BY ReferenceMessage
      <3> HIDE DEF out, rest
      <3> QED
        BY <3>1, <3>2, ConcatProperties, LenProperties DEF Tok
    <2> HIDE DEF out
    <2> QED
      BY <1>4, <1>5, <2>1, SentArrives, TypesOf, HomeAssumption
         DEF Emit, NetTypeOK
  <1> HIDE DEF out, rest
  <1>9. NetTypeOK(Message)' /\ Keeps(Bye) /\ Keeps(Odd) /\ UNCHANGED alive
    BY <1>4, <1>5, <1>7, TypesOf, EmitStep, HomeAssumption DEF Emit
  <1>10. TokenOrigin' /\ ("crossed" \notin history => OnlyAt(chan', Tok, Home, q))
    <2>1. ASSUME "crossed" \notin history
          PROVE  NoneOf(chan, Tok)
      BY <1>5, <2>1 DEF IInv, Exclusive, TokenOrigin, TokenSent, NoneOf, Carried,
                        Tok
    <2>2. "crossed" \notin history => OnlyAt(chan', Tok, Home, q)
      BY <1>4, <1>5, <1>6, <2>1, TypesOf, EmitSendsToken, HomeAssumption
    <2>3. TokenOrigin'
      <3>1. SUFFICES ASSUME NEW l \in Site \X Site, Carried(chan', l, Tok)
                     PROVE  l[1] = Home /\ l[2] # Home
        BY DEF TokenOrigin
      <3>2. PICK i \in DOMAIN chan'[l] : chan'[l][i] \in Tok
        BY <3>1 DEF Carried
      <3>3. chan' = Sent(chan, Home, out)
        BY <1>5 DEF Emit
      <3>4. Origin(chan, Home, out, l, i)
        BY <1>4, <3>2, <3>3, SentElements, TypesOf, HomeAssumption DEF NetTypeOK
      <3>5. CASE i \in DOMAIN chan[l] /\ chan[l][i] \in Tok
        BY <3>5 DEF IInv, TokenOrigin, Carried
      <3>6. CASE l[1] = Home /\ \E j \in DOMAIN out[l[2]] : out[l[2]][j] \in Tok
        BY <1>5, <1>6, <3>6 DEF OnlyFor
      <3> QED
        BY <3>2, <3>3, <3>4, <3>5, <3>6 DEF Origin
    <2> QED
      BY <2>2, <2>3
  <1>11. ASSUME "crossed" \notin history
         PROVE  Exclusive'
    <2>1. \A p \in Site : ~HasToken(p)'
      <3>1. \A p \in Site : HasToken(p) => p = Home
        BY <1>5, <1>11 DEF IInv, Exclusive
      <3> QED
        BY <1>5, <3>1, TypesOf DEF HasToken, RemoteTypeOK
    <2>2. \A p \in Site : TokenSent(p)' => p = q
      BY <1>10, <1>11, HomeAssumption DEF OnlyAt, TokenSent, Tok
    <2> QED
      BY <1>5, <1>10, <1>11, <2>1, <2>2 DEF Exclusive, OnlyAt
  <1>12. Departed'
    BY <1>1, <1>9 DEF IInv, Departed, Keeps
  <1>13. Kept'
    BY <1>5, <1>8, <1>9 DEF Kept, Lost, TokenSent, Tok
  <1> QED
    BY <1>1, <1>2, <1>9, <1>10, <1>11, <1>12, <1>13
       DEF IInv, TypeOK, TransientTypeOK

LEMMA ExportHomeStep ==
    ASSUME IInv, NEW q \in Site, ExportHome(q)
    PROVE  IInv'
  <1>1. CASE GivesToken(q)
    BY <1>1, GiveToken
  <1>2. CASE ~GivesToken(q)
    <2>1. Plain(Both(To(q, Reference("AUTO")),
                     IF q \in proxies THEN Silent ELSE ChangesOut(q)))
      BY PlainReference, ToPlain, SilentPlain, ChangesPlain, BothPlain
    <2>2. EntityTypeOK' /\ ProxyTypeOK' /\ ManagerTypeOK' /\ RemoteTypeOK'
      BY <1>2, TypesOf DEF ExportHome, EntityTypeOK, ProxyTypeOK, ManagerTypeOK,
                           RemoteTypeOK, entityVars, proxyVars, remoteVars
    <2> QED
      BY <1>2, <2>1, <2>2, EmitQuiet, HomeAssumption
         DEF ExportHome, MayExport, proxyVars, remoteVars
  <1> QED
    BY <1>1, <1>2

(* A proxy that leaves has the token no more, and only its own link gets a *)
(* deregistration.                                                         *)
LEMMA DeleteProxyStep ==
    ASSUME IInv, NEW p \in Site, DeleteProxy(p)
    PROVE  IInv'
  <1> DEFINE out == DeregisterOut(p)
  <1>1. /\ EnvTypeOK' /\ history \subseteq history' /\ "leave" \in history'
        /\ "crossed" \in history' => "crossed" \in history
    BY TypesOf, SpendType DEF DeleteProxy, Spend
  <1>2. EntityTypeOK' /\ ProxyTypeOK' /\ ManagerTypeOK' /\ RemoteTypeOK'
    BY TypesOf, UnboundValue
       DEF DeleteProxy, DeleteVariable, EntityTypeOK, ProxyTypeOK,
           ManagerTypeOK, RemoteTypeOK, managerVars
  <1>3. /\ Emit(p, out) /\ UNCHANGED current /\ present \in [Site -> BOOLEAN]
        /\ present' = [present EXCEPT ![p] = FALSE]
        /\ token' = [token EXCEPT ![p] = FALSE] /\ token \in [Site -> BOOLEAN]
    BY TypesOf DEF DeleteProxy, DeleteVariable, ProxyTypeOK, RemoteTypeOK
  <1>4. out \in [Site -> Seq(Message)] /\ Without(out, Tok) /\ Without(out, Odd)
    <2>1. ToManager("DEREGISTER", Unbound) \in Message
      BY ToManagerMessage, UnboundValue DEF ManagerTypes
    <2>2. /\ ToManager("DEREGISTER", Unbound) \notin Tok
          /\ ToManager("DEREGISTER", Unbound) \notin Odd
      BY DEF Tok, Odd, Bye, Reference, ToManager
    <2> QED
      BY <2>1, <2>2, ToType, ToWithout, SilentType, SilentWithout
         DEF DeregisterOut, sendToManager
  <1> HIDE DEF out
  <1>5. NetTypeOK(Message)' /\ Keeps(Tok) /\ Keeps(Odd) /\ UNCHANGED alive
    BY <1>3, <1>4, TypesOf, EmitStep DEF Emit
  <1>6. \A q \in Site : q # p => Deregistering(q)' = Deregistering(q)
    <2>1. ASSUME NEW q \in Site, q # p
          PROVE  chan'[<<q, Home>>] = chan[<<q, Home>>]
      BY <1>3, <2>1, HomeAssumption DEF Emit, Sent
    <2> QED
      BY <2>1 DEF Deregistering, Carried
  <1>7. \A q \in Site : /\ HasToken(q)' => q # p /\ HasToken(q)
                        /\ TokenSent(q)' => TokenSent(q)
    BY <1>3, <1>5, HomeAssumption DEF HasToken, TokenSent, Keeps, Tok
  <1>8. Exclusive => Exclusive'
    BY <1>3, <1>5, <1>6, <1>7 DEF Exclusive, Keeps
  <1>9. TokenOrigin'
    BY <1>5 DEF IInv, TokenOrigin, Keeps
  <1>10. Departed' /\ Kept'
    BY <1>1, <1>5 DEF IInv, Departed, Kept, Lost, Keeps
  <1> QED
    BY <1>1, <1>2, <1>5, <1>8, <1>9, <1>10 DEF IInv, TypeOK, TransientTypeOK

-----------------------------------------------------------------------------
(* References that arrive.                                                 *)

LEMMA RecordType ==
    ASSUME EnvTypeOK, UNCHANGED budget, NEW e \in {"crossed", "dropped"},
           NEW P \in BOOLEAN, Record(e, P)
    PROVE  /\ EnvTypeOK' /\ history \subseteq history'
           /\ P => e \in history'
           /\ ~P => history' = history
           /\ \A x : x \in history' => x \in history \/ x = e
  BY DEF EnvTypeOK, Record

LEMMA ImportProxyStep ==
    ASSUME IInv, NEW s \in Site, NEW p \in Site, ImportProxy(s, p)
    PROVE  IInv'
  <1> DEFINE m == Head1(s, p)
             out == IF m.val = "MANUAL"
                    THEN sendToManager("REGISTER", Unbound) ELSE Silent
             gets == m.val = "TOKEN"
  <1>1. CanRecv(s, p) /\ ~present[p] /\ m.type = "REFERENCE" /\ Consume(s, p, out)
    BY DEF ImportProxy, GetsReference
  <1>2. Plain(out)
    BY SendPlain, SilentPlain, UnboundValue DEF ManagerTypes
  <1>3. /\ UNCHANGED <<current, entityVars, managerVars, requests, budget>>
        /\ token' = [token EXCEPT ![p] = gets] /\ token \in [Site -> BOOLEAN]
        /\ present' = [present EXCEPT ![p] = TRUE]
        /\ present \in [Site -> BOOLEAN]
        /\ Record("crossed", gets /\ Deregistering(p))
    BY TypesOf DEF ImportProxy, CreateProxy, RemoteTypeOK, ProxyTypeOK
  <1>4. EntityTypeOK' /\ ProxyTypeOK' /\ ManagerTypeOK' /\ RemoteTypeOK'
    BY <1>3, TypesOf
       DEF ImportProxy, CreateProxy, EntityTypeOK, ProxyTypeOK, ManagerTypeOK,
           RemoteTypeOK, entityVars, managerVars
  <1>5. m \in Tok <=> gets
    BY <1>1, HeadOf DEF Tok, Reference
  <1>6. /\ EnvTypeOK' /\ history \subseteq history'
        /\ gets /\ Deregistering(p) => "crossed" \in history'
        /\ ~(gets /\ Deregistering(p)) => history' = history
        /\ \A x : x \in history' => x \in history \/ x = "crossed"
    BY <1>3, TypesOf, RecordType
  <1>7. Calm /\ (~gets => Stays)
    BY <1>1, <1>2, <1>5, ConsumeCalm
  <1>8. UNCHANGED alive
    BY <1>1 DEF Consume
  <1>9. gets => s = Home /\ TokenSent(p)
    <2>1. ASSUME gets
          PROVE  Carried(chan, <<s, p>>, Tok)
      BY <1>1, <1>5, <2>1, HeadMessage, TypesOf DEF Carried
    <2> QED
      BY <2>1 DEF IInv, TokenOrigin, TokenSent, Tok
  <1>10. \A q \in Site : /\ q # p => HasToken(q)' = HasToken(q)
                         /\ HasToken(p)' = gets
                         /\ TokenSent(q)' => TokenSent(q)
                         /\ Deregistering(q)' => Deregistering(q)
    BY <1>3, <1>7, HomeAssumption
       DEF HasToken, TokenSent, Deregistering, Calm, Keeps, Tok, Bye
  <1>11. ASSUME Exclusive, gets
         PROVE  NoneOf(chan', Tok)
    <2>1. out \in [Site -> Seq(Message)] /\ Without(out, Tok)
      BY <1>2, PlainWithout DEF Plain
    <2> HIDE DEF out
    <2> QED
      BY <1>1, <1>5, <1>11, <2>1, ConsumeToken, TypesOf DEF Exclusive, Head1
  <1> HIDE DEF gets, out, m
  <1>12. ASSUME "crossed" \notin history'
         PROVE  Exclusive'
    <2>1. Exclusive /\ ~(gets /\ Deregistering(p))
      BY <1>6, <1>12 DEF IInv
    <2>2. CASE gets
      <3>1. p = current /\ \A q \in Site : ~TokenSent(q)'
        <4>1. NoneOf(chan', Tok)
          BY <1>11, <2>1, <2>2
        <4> QED
          BY <1>9, <2>1, <2>2, <4>1, HomeAssumption
             DEF Exclusive, TokenSent, NoneOf, Carried, Tok
      <3>2. \A q \in Site : HasToken(q)' => q = p
        BY <1>1, <1>10, <2>1, <3>1 DEF Exclusive, HasToken
      <3>3. OnlyOne(chan, Tok)'
        BY <1>7, <2>1 DEF Exclusive, Calm, Keeps
      <3> QED
        BY <1>3, <1>10, <2>1, <2>2, <3>1, <3>2, <3>3 DEF Exclusive
    <2>3. CASE ~gets
      <3>1. \A q \in Site : HasToken(q)' => HasToken(q)
        BY <1>10, <2>3
      <3>2. OnlyOne(chan, Tok)'
        BY <1>7, <2>1 DEF Exclusive, Calm, Keeps
      <3> QED
        BY <1>3, <1>10, <2>1, <3>1, <3>2 DEF Exclusive
    <2> QED
      BY <2>2, <2>3
  <1>13. TokenOrigin'
    BY <1>7 DEF IInv, TokenOrigin, Calm, Keeps
  <1>14. Departed'
    <2>1. Deregistering(p) => "leave" \in history
      BY HomeAssumption DEF IInv, Departed, Deregistering, Carried, NoneOf, Bye
    <2> QED
      BY <1>6, <1>7, <2>1 DEF IInv, Departed, Calm, Keeps
  <1>15. Kept'
    <2>1. Lost => Lost'
      BY <1>3, <1>6, <1>8 DEF Lost
    <2>2. ASSUME TokenSent(current), ~gets
          PROVE  TokenSent(current)'
      BY <1>3, <1>7, <2>2 DEF Stays, TokenSent, Tok
    <2>3. ASSUME ~Lost, gets
          PROVE  p = current
      BY <1>9, <2>3 DEF IInv, Departed, Lost, Exclusive
    <2>4. HasToken(current) => HasToken(current)'
      BY <1>1, <1>3, <1>10, TypesOf DEF HasToken, RemoteTypeOK
    <2> QED
      BY <1>3, <1>10, <2>1, <2>2, <2>3, <2>4 DEF IInv, Kept, HasToken
  <1> QED
    BY <1>4, <1>6, <1>7, <1>12, <1>13, <1>14, <1>15
       DEF IInv, TypeOK, TransientTypeOK, Calm

LEMMA DropReferenceQuiet ==
    ASSUME IInv, NEW s \in Site, NEW p \in Site, DropReference(s, p)
    PROVE  IInv'
  <1> DEFINE gets == Head1(s, p).val = "TOKEN"
  <1>1. /\ CanRecv(s, p) /\ Consume(s, p, Silent)
        /\ Head1(s, p).type = "REFERENCE"
        /\ UNCHANGED <<entityVars, proxyVars, managerVars, remoteVars, budget>>
        /\ Record("dropped", gets)
    BY DEF DropReference, DisposeReference, GetsReference
  <1>2. /\ EnvTypeOK' /\ history \subseteq history'
        /\ gets => "dropped" \in history'
        /\ \A x : x \in history' => x \in history \/ x = "dropped"
    BY <1>1, TypesOf, RecordType
  <1>3. EntityTypeOK' /\ ProxyTypeOK' /\ ManagerTypeOK' /\ RemoteTypeOK'
    BY <1>1, TypesOf
       DEF EntityTypeOK, ProxyTypeOK, ManagerTypeOK, RemoteTypeOK,
           entityVars, proxyVars, managerVars, remoteVars
  <1>4. Calm /\ (~gets => Stays)
    BY <1>1, SilentPlain, ConsumeCalm, HeadOf
  <1>5. gets => Lost'
    BY <1>2 DEF Lost
  <1> QED
    BY <1>1, <1>2, <1>3, <1>4, <1>5, QuietStep DEF proxyVars, remoteVars

-----------------------------------------------------------------------------
(* Messages for proxies.                                                   *)

LEMMA ReceiveQuiet ==
    ASSUME IInv, NEW s \in Site, NEW p \in Site, NEW out, Plain(out),
           CanRecv(s, p), Consume(s, p, out),
           Head1(s, p).to \in {"proxy", "manager"},
           UNCHANGED <<present, token, current, envVars>>,
           EntityTypeOK', ProxyTypeOK', ManagerTypeOK', RemoteTypeOK'
    PROVE  IInv'
  <1>1. Calm /\ Stays
    BY ConsumeCalm, HeadOf
  <1>2. EnvTypeOK' /\ UNCHANGED history
    BY TypesOf DEF EnvTypeOK, envVars
  <1> QED
    BY <1>1, <1>2, QuietStep

LEMMA ProxyReceivesQuiet ==
    ASSUME IInv, NEW s \in Site, NEW p \in Site,
           \/ Ignores(s, p) \/ IgnoreRequest(s, p)
           \/ GetBind(s, p) \/ GetUpdateRequest(s, p) \/ GetRedirect(s, p)
           \/ GetUpdate(s, p) \/ GetPermFail(s, p)
    PROVE  IInv'
  <1> DEFINE m == Head1(s, p)
  <1>1. CanRecv(s, p) /\ m.to = "proxy" /\ m.val \in Value
    BY HeadOf DEF Ignores, ProxyIgnores, IgnoreRequest, GetBind,
       GetUpdateRequest, GetRedirect, GetUpdate, GetPermFail, ProxyGets
  <1> HIDE DEF m
  <1> SUFFICES ASSUME NEW out, Plain(out), Consume(s, p, out),
                      UNCHANGED <<present, token, current, envVars>>,
                      EntityTypeOK', ProxyTypeOK', ManagerTypeOK', RemoteTypeOK'
               PROVE  IInv'
    <2>1. CASE Ignores(s, p)
      BY <2>1, SilentPlain, TypesOf
         DEF Ignores, ProxyIgnores, EntityTypeOK, ProxyTypeOK, ManagerTypeOK,
             RemoteTypeOK, entityVars, proxyVars, managerVars, remoteVars
    <2>2. CASE IgnoreRequest(s, p)
      BY <2>2, SilentPlain, TypesOf
         DEF IgnoreRequest, EntityTypeOK, ProxyTypeOK, ManagerTypeOK,
             RemoteTypeOK, entityVars, proxyVars, managerVars, remoteVars
    <2>3. CASE GetBind(s, p)
      <3>1. Plain(BoundOut(p, m.val)) /\ Consume(s, p, BoundOut(p, m.val))
        BY <1>1, <2>3, BoundPlain DEF GetBind, m
      <3>2. EntityTypeOK' /\ ProxyTypeOK' /\ ManagerTypeOK' /\ RemoteTypeOK'
        BY <1>1, <2>3, TypesOf
           DEF GetBind, BindVariable, EntityTypeOK, ProxyTypeOK, ManagerTypeOK,
               RemoteTypeOK, managerVars, remoteVars, m
      <3> QED
        BY <2>3, <3>1, <3>2 DEF GetBind, remoteVars
    <2>4. CASE GetUpdateRequest(s, p)
      <3>1. Plain(sendToManager("UPDATE_REPLY", Unbound))
        BY SendPlain, UnboundValue DEF ManagerTypes
      <3>2. EntityTypeOK' /\ ProxyTypeOK' /\ ManagerTypeOK' /\ RemoteTypeOK'
        BY <2>4, TypesOf
           DEF GetUpdateRequest, AppendNeed, EntityTypeOK, ProxyTypeOK,
               ManagerTypeOK, RemoteTypeOK, proxyVars, managerVars, remoteVars
      <3> QED
        BY <2>4, <3>1, <3>2 DEF GetUpdateRequest, proxyVars, remoteVars
    <2>5. CASE GetRedirect(s, p)
      <3>1. EntityTypeOK' /\ ProxyTypeOK' /\ ManagerTypeOK' /\ RemoteTypeOK'
        BY <1>1, <2>5, TypesOf
           DEF GetRedirect, BindVariable, EntityTypeOK, ProxyTypeOK,
               ManagerTypeOK, RemoteTypeOK, managerVars, remoteVars, m
      <3> QED
        BY <2>5, <3>1, SilentPlain DEF GetRedirect, remoteVars
    <2>6. CASE GetUpdate(s, p)
      <3>1. EntityTypeOK' /\ ProxyTypeOK' /\ ManagerTypeOK' /\ RemoteTypeOK'
        BY <2>6, TypesOf
           DEF GetUpdate, AppendNeed, EntityTypeOK, ProxyTypeOK, ManagerTypeOK,
               RemoteTypeOK, proxyVars, managerVars, remoteVars
      <3> QED
        BY <2>6, <3>1, SilentPlain DEF GetUpdate, proxyVars, remoteVars
    <2>7. CASE GetPermFail(s, p)
      <3>1. Plain(sendToManager("PERMFAIL", Unbound))
        BY SendPlain, UnboundValue DEF ManagerTypes
      <3>2. EntityTypeOK' /\ ProxyTypeOK' /\ ManagerTypeOK' /\ RemoteTypeOK'
        BY <2>7, TypesOf
           DEF GetPermFail, EntityTypeOK, ProxyTypeOK, ManagerTypeOK,
               RemoteTypeOK, entityVars, managerVars, remoteVars
      <3> QED
        BY <2>7, <3>1, <3>2, SilentPlain DEF GetPermFail, remoteVars
    <2> QED
      BY <2>1, <2>2, <2>3, <2>4, <2>5, <2>6, <2>7
  <1> QED
    BY <1>1, ReceiveQuiet DEF m

-----------------------------------------------------------------------------
(* Messages for the manager.                                               *)

(* The manager takes the token back from a proxy that has left and was not *)
(* sent it again, so that nobody but the home proxy has it.                *)
LEMMA TakeBackToken ==
    ASSUME IInv, NEW s \in Site, Deregister(s), ReturnsToken(s)
    PROVE  IInv'
  <1>1. /\ CanRecv(s, Home) /\ Consume(s, Home, ForwardOut(Home))
        /\ s = current /\ current' = Home /\ UNCHANGED <<present, budget>>
        /\ token' = [token EXCEPT ![Home] = TRUE] /\ token \in [Site -> BOOLEAN]
        /\ Record("crossed", TokenSent(s))
        /\ Head1(s, Home).type = "DEREGISTER" /\ Head1(s, Home).to = "manager"
    <2>1. s = current
      BY DEF ReturnsToken
    <2>2. Record("crossed", TokenSent(s))
      BY DEF Deregister, Record
    <2>3. /\ CanRecv(s, Home) /\ Consume(s, Home, ForwardOut(Home))
          /\ SetCurrent(Home) /\ UNCHANGED <<present, budget>>
          /\ Head1(s, Home).type = "DEREGISTER" /\ Head1(s, Home).to = "manager"
      BY DEF Deregister, ManagerGets, proxyVars
    <2> QED
      BY <2>1, <2>2, <2>3, TypesOf DEF SetCurrent, RemoteTypeOK
  <1>2. EntityTypeOK' /\ ProxyTypeOK' /\ ManagerTypeOK' /\ RemoteTypeOK'
    BY <1>1, TypesOf, HomeAssumption
       DEF Deregister, SetCurrent, EntityTypeOK, ProxyTypeOK, ManagerTypeOK,
           RemoteTypeOK, entityVars, proxyVars
  <1>3. /\ EnvTypeOK' /\ history \subseteq history'
        /\ TokenSent(s) => "crossed" \in history'
        /\ ~TokenSent(s) => history' = history
        /\ \A x : x \in history' => x \in history \/ x = "crossed"
    BY <1>1, TypesOf, RecordType DEF TokenSent, Carried
  <1>4. Calm
    BY <1>1, TypesOf, ForwardPlain, ConsumeCalm, HomeAssumption
  <1>5. Deregistering(s) /\ "leave" \in history
    <2>1. /\ Head1(s, Home) \in Deregistration /\ 1 \in DOMAIN chan[<<s, Home>>]
          /\ Head1(s, Home) = chan[<<s, Home>>][1]
      BY <1>1, HeadOf, HeadMessage, TypesOf, HomeAssumption DEF Deregistration
    <2>2. chan[<<s, Home>>][1] \in Bye
      BY <2>1, HomeAssumption DEF IInv, Departed, NoneOf, Odd
    <2> QED
      BY <2>1, <2>2, HomeAssumption
         DEF IInv, Departed, NoneOf, Deregistering, Carried, Bye
  <1>6. TokenOrigin'
    BY <1>4 DEF IInv, TokenOrigin, Calm, Keeps
  <1>7. \A q \in Site : /\ q # Home => HasToken(q)' = HasToken(q)
                        /\ TokenSent(q)' => TokenSent(q)
    BY <1>1, <1>4, HomeAssumption DEF HasToken, TokenSent, Calm, Keeps, Tok
  <1>8. ASSUME "crossed" \notin history'
        PROVE  Exclusive'
    <2>1. Exclusive /\ ~TokenSent(s)
      BY <1>3, <1>8 DEF IInv
    <2>2. \A q \in Site : ~TokenSent(q)'
      BY <1>1, <1>7, <2>1 DEF Exclusive
    <2>3. \A q \in Site : HasToken(q)' => q = Home
      BY <1>1, <1>5, <1>7, <2>1 DEF Exclusive
    <2>4. OnlyOne(chan, Tok)'
      BY <1>4, <2>1 DEF Exclusive, Calm, Keeps
    <2> QED
      BY <1>1, <2>2, <2>3, <2>4 DEF Exclusive
  <1>9. Departed'
    BY <1>3, <1>4, <1>5 DEF IInv, Departed, Calm, Keeps
  <1>10. Kept'
    BY <1>3, <1>5 DEF Kept, Lost
  <1> QED
    BY <1>2, <1>3, <1>4, <1>6, <1>8, <1>9, <1>10
       DEF IInv, TypeOK, TransientTypeOK, Calm

LEMMA DeregisterStep ==
    ASSUME IInv, NEW s \in Site, Deregister(s)
    PROVE  IInv'
  <1>1. CASE ReturnsToken(s)
    BY <1>1, TakeBackToken
  <1>2. CASE ~ReturnsToken(s)
    <2>1. /\ CanRecv(s, Home) /\ Consume(s, Home, Silent)
          /\ Head1(s, Home).to = "manager" /\ UNCHANGED remoteVars
          /\ UNCHANGED <<entityVars, proxyVars, mstatus, mfail, envVars>>
          /\ proxies' = proxies \ {s}
      BY <1>2 DEF Deregister, ManagerGets, Record, envVars
    <2>2. EntityTypeOK' /\ ProxyTypeOK' /\ ManagerTypeOK' /\ RemoteTypeOK'
      BY <2>1, TypesOf DEF EntityTypeOK, ProxyTypeOK, ManagerTypeOK,
                           RemoteTypeOK, entityVars, proxyVars, remoteVars
    <2> QED
      BY <2>1, <2>2, SilentPlain, ReceiveQuiet, HomeAssumption
         DEF proxyVars, remoteVars
  <1> QED
    BY <1>1, <1>2

LEMMA PassOnQuiet ==
    ASSUME IInv, NEW s \in Site, NEW t \in {"BIND", "UPDATE_REQUEST", "PERMFAIL"},
           NEW v \in Value, CanRecv(s, Home), Head1(s, Home).to = "manager",
           PassOn(s, t, v), mstatus' \in {mstatus, "WAITING"}
    PROVE  IInv'
  <1>1. Plain(To(current, ToProxy(t, v)))
    BY PlainProxy, ToPlain DEF ProxyTypes
  <1>2. requests' \in Seq(Request)
    BY TypesOf, AppendProperties DEF PassOn, RemoteTypeOK, Request
  <1>3. EntityTypeOK' /\ ProxyTypeOK' /\ ManagerTypeOK' /\ RemoteTypeOK'
    BY <1>2, TypesOf DEF PassOn, EntityTypeOK, ProxyTypeOK, ManagerTypeOK,
                         RemoteTypeOK, entityVars, proxyVars
  <1> QED
    BY <1>1, <1>3, ReceiveQuiet, HomeAssumption DEF PassOn, proxyVars

LEMMA RequestQuiet ==
    ASSUME IInv, NEW s \in Site,
           RequestBind(s) \/ RequestUpdate(s) \/ RequestFail(s)
    PROVE  IInv'
  <1>1. /\ CanRecv(s, Home) /\ Head1(s, Home).to = "manager"
        /\ Head1(s, Home).val \in Value
    BY HeadOf, HomeAssumption
       DEF RequestBind, RequestUpdate, RequestFail, ManagerGets
  <1> QED
    BY <1>1, PassOnQuiet, UnboundValue DEF RequestBind, RequestUpdate, RequestFail

LEMMA ManagerReceivesQuiet ==
    ASSUME IInv, NEW s \in Site,
           Register(s) \/ IgnoreLate(s) \/ Fail(s) \/ ForwardUpdate(s)
    PROVE  IInv'
  <1>1. CanRecv(s, Home) /\ Head1(s, Home).to = "manager"
    BY DEF Register, IgnoreLate, Fail, ForwardUpdate, ManagerGets
  <1>2. /\ Notice("PERMFAIL") \in Message \ Special
        /\ Notice("UPDATE") \in Message \ Special
    BY NoticePlain DEF ProxyTypes
  <1> SUFFICES ASSUME NEW out, Plain(out), Consume(s, Home, out),
                      UNCHANGED <<present, token, current, envVars>>,
                      EntityTypeOK', ProxyTypeOK', ManagerTypeOK', RemoteTypeOK'
               PROVE  IInv'
    <2>1. CASE Register(s)
      <3>1. value[Home] \in Value
        BY TypesOf, HomeAssumption DEF EntityTypeOK
      <3>2. Plain(To(s, ToProxy("REDIRECT", value[Home])))
        BY <3>1, PlainProxy, ToPlain DEF ProxyTypes
      <3>3. PICK out : Plain(out) /\ Consume(s, Home, out)
        BY <1>2, <2>1, <3>2, ToPlain, SilentPlain, ChangesPlain DEF Register
      <3>4. EntityTypeOK' /\ ProxyTypeOK' /\ ManagerTypeOK' /\ RemoteTypeOK'
        BY <2>1, TypesOf
           DEF Register, EntityTypeOK, ProxyTypeOK, ManagerTypeOK, RemoteTypeOK,
               entityVars, proxyVars, remoteVars
      <3> QED
        BY <2>1, <3>3, <3>4 DEF Register, proxyVars, remoteVars
    <2>2. CASE IgnoreLate(s)
      BY <2>2, SilentPlain, TypesOf
         DEF IgnoreLate, ManagerSkips, EntityTypeOK, ProxyTypeOK, ManagerTypeOK,
             RemoteTypeOK, entityVars, proxyVars, managerVars, remoteVars
    <2>3. CASE Fail(s)
      <3>1. EntityTypeOK' /\ ProxyTypeOK' /\ ManagerTypeOK' /\ RemoteTypeOK'
        BY <2>3, TypesOf, EmptySeq
           DEF Fail, EntityTypeOK, ProxyTypeOK, ManagerTypeOK, RemoteTypeOK,
               entityVars, proxyVars
      <3> QED
        BY <1>2, <2>3, <3>1, ToAllPlain DEF Fail, proxyVars
    <2>4. CASE ForwardUpdate(s)
      <3>1. requests' \in Seq(Request)
        <4>1. CASE Head1(s, Home).type = "UPDATE_REPLY"
          BY <2>4, <4>1, TypesOf, HeadTailProperties
             DEF ForwardUpdate, NoRequest, RemoteTypeOK
        <4>2. CASE Head1(s, Home).type # "UPDATE_REPLY"
          BY <2>4, <4>2, TypesOf DEF ForwardUpdate, RemoteTypeOK
        <4> QED
          BY <4>1, <4>2
      <3>2. EntityTypeOK' /\ ProxyTypeOK' /\ ManagerTypeOK' /\ RemoteTypeOK'
        BY <2>4, <3>1, TypesOf
           DEF ForwardUpdate, EntityTypeOK, ProxyTypeOK, ManagerTypeOK,
               RemoteTypeOK, entityVars, proxyVars, managerVars
      <3> QED
        BY <1>2, <2>4, <3>2, ToAllPlain DEF ForwardUpdate, proxyVars
    <2> QED
      BY <2>1, <2>2, <2>3, <2>4
  <1> QED
    BY <1>1, ReceiveQuiet, HomeAssumption

LEMMA AnnounceBoundQuiet ==
    ASSUME IInv, NEW s \in Site, AnnounceBound(s)
    PROVE  IInv'
  <1>1. /\ CanRecv(s, Home) /\ Head1(s, Home).to = "manager"
        /\ Head1(s, Home).val \in Value
    BY HeadOf, HomeAssumption DEF AnnounceBound, ManagerGets
  <1>2. EntityTypeOK' /\ ProxyTypeOK' /\ ManagerTypeOK' /\ RemoteTypeOK'
    BY <1>1, TypesOf, EmptySeq
       DEF AnnounceBound, BindVariable, EntityTypeOK, ProxyTypeOK, ManagerTypeOK,
           RemoteTypeOK, proxyVars
  <1>3. PICK v \in Value : v = value'[Home]
    BY <1>2, HomeAssumption DEF EntityTypeOK
  <1> DEFINE told == IF current = Home THEN Silent ELSE To(Home, Notice("BOUND"))
             redirect == ToProxy("REDIRECT", v)
             out == Both(told, ToAll(proxies \ {current, Home}, redirect))
  <1>4. Plain(told) /\ redirect \in Message \ Special
    BY NoticePlain, PlainProxy, ToPlain, SilentPlain DEF ProxyTypes
  <1>5. Consume(s, Home, out)
    BY <1>3 DEF AnnounceBound
  <1> HIDE DEF told, redirect
  <1>6. Plain(out)
    BY <1>4, ToAllPlain, BothPlain
  <1> HIDE DEF out
  <1> QED
    BY <1>1, <1>2, <1>5, <1>6, ReceiveQuiet, HomeAssumption
       DEF AnnounceBound, proxyVars

-----------------------------------------------------------------------------
(* Failures.                                                               *)

LEMMA CrashQuiet ==
    ASSUME IInv, NEW s \in Site, Crash(s), EnvTypeOK',
           UNCHANGED <<entityVars, proxyVars, managerVars, remoteVars>>,
           history \subseteq history',
           "crossed" \in history' => "crossed" \in history
    PROVE  IInv'
  <1>1. EntityTypeOK' /\ ProxyTypeOK' /\ ManagerTypeOK' /\ RemoteTypeOK'
    BY TypesOf DEF EntityTypeOK, ProxyTypeOK, ManagerTypeOK, RemoteTypeOK,
                   entityVars, proxyVars, managerVars, remoteVars
  <1>2. Calm /\ (Stays \/ Lost')
    BY CrashCalm DEF Lost, remoteVars
  <1> QED
    BY <1>1, <1>2, QuietStep DEF proxyVars, remoteVars

LEMMA PopNothingQuiet ==
    ASSUME IInv, NEW s \in Site, PopNothing(s)
    PROVE  IInv'
  <1>1. EnvTypeOK' /\ UNCHANGED history
    BY TypesOf DEF PopNothing, EnvTypeOK, envVars
  <1> QED
    BY <1>1, CrashQuiet, HomeAssumption DEF PopNothing

LEMMA SiteCrashQuiet ==
    ASSUME IInv, NEW s \in Site, SiteCrash(s), UNCHANGED remoteVars
    PROVE  IInv'
  <1>1. /\ EnvTypeOK' /\ history \subseteq history'
        /\ "crossed" \in history' => "crossed" \in history
    BY TypesOf, SpendType DEF SiteCrash
  <1> QED
    BY <1>1, CrashQuiet DEF SiteCrash

LEMMA DetectQuiet ==
    ASSUME IInv, NEW p \in Site, NEW s \in Site, NEW out, Plain(out),
           CanDetect(p, s), Detect(p, s, out),
           UNCHANGED <<present, token, current, envVars>>,
           EntityTypeOK', ProxyTypeOK', ManagerTypeOK', RemoteTypeOK'
    PROVE  IInv'
  <1>1. Calm /\ (Stays \/ Lost')
    BY DetectCalm, HomeAssumption DEF Lost, Calm
  <1>2. EnvTypeOK' /\ UNCHANGED history
    BY TypesOf DEF EnvTypeOK, envVars
  <1> QED
    BY <1>1, <1>2, QuietStep

LEMMA FailureQuiet ==
    ASSUME IInv, NEW p \in Site, NEW s \in Site, Failure(p, s)
    PROVE  IInv'
  <1>1. EntityTypeOK' /\ ProxyTypeOK' /\ ManagerTypeOK' /\ RemoteTypeOK'
    BY TypesOf DEF Failure, DetectRemote, EntityTypeOK, ProxyTypeOK,
                   ManagerTypeOK, RemoteTypeOK, entityVars, managerVars, remoteVars
  <1> QED
    BY <1>1, SilentPlain, DetectQuiet DEF Failure, DetectRemote, remoteVars

LEMMA DetectHomeQuiet ==
    ASSUME IInv, NEW s \in Site, DetectHome(s)
    PROVE  IInv'
  <1>1. EntityTypeOK' /\ ProxyTypeOK' /\ ManagerTypeOK' /\ RemoteTypeOK'
    BY TypesOf DEF DetectHome, EntityTypeOK, ProxyTypeOK, ManagerTypeOK,
                   RemoteTypeOK, entityVars, proxyVars, remoteVars
  <1>2. Plain(ToAll(proxies \ {s}, Notice("PERMFAIL")))
    BY NoticePlain, ToAllPlain DEF ProxyTypes
  <1>3. PICK out : Plain(out) /\ Detect(Home, s, out)
    BY <1>2, SilentPlain DEF DetectHome
  <1> QED
    BY <1>1, <1>3, DetectQuiet, HomeAssumption
       DEF DetectHome, proxyVars, remoteVars

-----------------------------------------------------------------------------
LEMMA NextIInv ==
    ASSUME IInv, Next
    PROVE  IInv'
  <1>1. CASE Environment
    BY <1>1, BindTokenQuiet, BindWaitQuiet, MakeNeededQuiet, KillQuiet,
       DeleteProxyStep, ExportHomeStep, ExportRemoteQuiet, SiteCrashQuiet
       DEF Environment, Operation, Export
  <1>2. ASSUME NEW s \in Site, NEW p \in Site, ProxyReceives(s, p)
        PROVE  IInv'
    BY <1>2, ProxyReceivesQuiet, ImportProxyStep, DropReferenceQuiet
       DEF ProxyReceives
  <1>3. ASSUME NEW s \in Site, ManagerReceives(s)
        PROVE  IInv'
    BY <1>3, ManagerReceivesQuiet, DeregisterStep, RequestQuiet,
       AnnounceBoundQuiet, PopNothingQuiet DEF ManagerReceives
  <1>4. CASE System
    BY <1>2, <1>3, <1>4, FailureQuiet, DetectHomeQuiet DEF System
  <1> QED
    BY <1>1, <1>4 DEF Next

LEMMA StutterIInv ==
    ASSUME IInv, UNCHANGED vars
    PROVE  IInv'
  <1> USE DEF vars, transientVars, entityVars, proxyVars, managerVars, netVars,
              envVars, remoteVars
  <1>1. TypeOK'
    BY DEF IInv, TypeOK, TransientTypeOK, NetTypeOK, EntityTypeOK, ProxyTypeOK,
           ManagerTypeOK, EnvTypeOK, RemoteTypeOK
  <1>2. TokenOrigin' /\ Departed'
    BY DEF IInv, TokenOrigin, Departed, Carried, NoneOf
  <1>3. Exclusive => Exclusive'
    BY DEF Exclusive, HasToken, TokenSent, Deregistering, Carried, OnlyOne
  <1>4. Kept'
    BY DEF IInv, Kept, Lost, HasToken, TokenSent, Carried
  <1> QED
    BY <1>1, <1>2, <1>3, <1>4 DEF IInv

(* The write token is in at most one place, on its way with a reference or *)
(* at a proxy none of whose predecessors' deregistrations is under way; it *)
(* is lost only by a crash, a departure or a reference that is dropped.    *)
THEOREM Invariance == Spec => []IInv
  <1>1. IInv /\ [Next]_vars => IInv'
    BY NextIInv, StutterIInv
  <1> QED
    BY <1>1, InitIInv, PTL DEF Spec

(* a_current of the manager is the only site whose proxy has the write     *)
(* token or is sent it, whatever references, departures, requests and      *)
(* crashes there are, until a token and a deregistration of the same site  *)
(* cross each other; and without departures and dropped references the     *)
(* token is there, or on its way, but never both.                          *)
THEOREM TokenIsKnown == Spec => []TokenKnown
  <1>1. IInv => TokenKnown
    <2>1. SUFFICES ASSUME IInv
                   PROVE  TokenKnown
      OBVIOUS
    <2>2. "crossed" \notin history =>
              \A p \in Site : HasToken(p) \/ TokenSent(p) => p = current
      BY <2>1 DEF IInv, Exclusive
    <2>3. ASSUME alive[Home], alive[current],
                 history \cap {"leave", "dropped"} = {}
          PROVE  HasToken(current) <=> ~TokenSent(current)
      <3>1. Exclusive
        BY <2>1, <2>3 DEF IInv, Departed
      <3>2. HasToken(current) \/ TokenSent(current)
        BY <2>1, <2>3 DEF IInv, Kept, Lost
      <3> QED
        BY <3>1, <3>2, <2>1, TypesOf DEF Exclusive, RemoteTypeOK
    <2> QED
      BY <2>2, <2>3 DEF TokenKnown
  <1> QED
    BY <1>1, Invariance, PTL

-----------------------------------------------------------------------------
(* What the messages say about the value: the announcement of a binding to *)
(* the manager, by a remote proxy with the value and by the home proxy     *)
(* without, and the redirection of a proxy; and about failure: the report  *)
(* of a kill to the manager, and the notice to a proxy.                    *)

Said(to, t) == {m \in Message : m.to = to /\ m.type = t}

Announcement == Said("manager", "REDIRECT")
HomeBound == Said("manager", "BOUND")
Redirection == Said("proxy", "REDIRECT")
Report == Said("manager", "PERMFAIL")
Alarm == Said("proxy", "PERMFAIL")

(* A binding to no value, and a redirection to none.                       *)
Blank == {m \in Message : m.val = Unbound /\ (m.type = "BIND" \/ m \in Announcement)}
Empty == {m \in Redirection : m.val = Unbound}

(* What contradicts that the value is d.                                   *)
Lies(d) == {m \in Announcement \cup Redirection : m.val \notin {Unbound, d}}

Words == Announcement \cup HomeBound \cup Redirection \cup Blank \cup Tok
             \cup Bye
Woes == Report \cup Alarm

(* The value is announced to the manager by site k ahead of any            *)
(* deregistration.                                                         *)
Lead(c, k) == On(c, <<k, Home>>, Announcement, Bye)

RealRequests ==
    \A i \in DOMAIN requests : requests[i].type = "BIND" =>
        requests[i].val # Unbound

NoFailRequests == \A i \in DOMAIN requests : requests[i].type # "PERMFAIL"

(* What holds whatever happens to the token: bindings have a value, the    *)
(* home proxy announces only what it has bound, a redirection is empty     *)
(* only after the home proxy has failed, and a proxy that knows the value  *)
(* is bound; the home proxy, which the manager tells its value before it   *)
(* is told that it is bound, is an exception.                              *)
Basics ==
    /\ NoneOf(chan, Blank) /\ RealRequests
    /\ \A l \in Site \X Site : Carried(chan, l, HomeBound) => value[Home] # Unbound
    /\ \A l \in Site \X Site : Carried(chan, l, Empty) => pfail[Home]
    /\ mstatus = "BOUND" => value[Home] # Unbound \/ pfail[Home]
    /\ \A p \in Site : p # Home /\ value[p] # Unbound => status[p] = "BOUND"
    /\ ~Deregistering(Home)
    /\ Detected
    /\ AbsentBlank

(* The proxy of p may still bind the variable on its own.                  *)
Binder(p) == (HasToken(p) /\ status[p] # "BOUND") \/ TokenSent(p)

(* Someone takes the variable for failed.                                  *)
Troubled ==
    \/ mfail
    \/ \E l \in Site \X Site : Carried(chan, l, Alarm)
    \/ \E p \in Site : alive[p] /\ pfail[p]

(* The value is d, or none is known if d is Unbound.                       *)
OneValue(d) ==
    /\ \A p \in Site : alive[p] => value[p] \in {Unbound, d}
    /\ NoneOf(chan, Lies(d))
    /\ d = Unbound => mstatus # "BOUND"

(* Nobody can bind the variable a second time.                             *)
NoBinder(d) == d # Unbound => \A p \in Site : alive[p] => ~Binder(p)

(* Before the manager knows the value only the holder of the token does,   *)
(* and its announcement is under way.                                      *)
Early ==
    mstatus # "BOUND" =>
        /\ \A p \in Site : alive[p] /\ value[p] # Unbound => p = current
        /\ NoneOf(chan, Redirection)
        /\ \A l \in Site \X Site :
              Carried(chan, l, Announcement) => l = <<current, Home>> /\ current # Home

Announced(d) ==
    /\ d # Unbound /\ mstatus # "BOUND" /\ alive[Home] /\ current # Home
           => Lead(chan, current)
    /\ d # Unbound /\ current = Home => value[Home] # Unbound

(* Without a kill and a crash of the home site the variable fails only     *)
(* with the site that has the token, and only if no site knows a value.    *)
Excused(d) ==
    "kill" \notin history /\ alive[Home] =>
        /\ NoneOf(chan, Report) /\ NoFailRequests
        /\ Troubled => mfail /\ ~alive[current] /\ d = Unbound
        /\ mstatus = "BOUND" => proxies = {} /\ value[Home] # Unbound

Sound(d) == OneValue(d) /\ NoBinder(d) /\ Early /\ Announced(d) /\ Excused(d)

(* What the proofs below show to be invariant.                             *)
AInv ==
    /\ IInv
    /\ Basics
    /\ "crossed" \notin history => \E d \in Value : Sound(d)

-----------------------------------------------------------------------------
(* Which messages are of no interest.                                      *)

LEMMA PlainWords ==
    ASSUME NEW m \in Message,
           \/ m.type \in {"REGISTER", "UPDATE", "UPDATE_REQUEST",
                          "UPDATE_REPLY", "PERMFAIL"}
           \/ m.type = "BOUND" /\ m.to = "proxy"
           \/ m.type = "BIND" /\ m.val # Unbound
           \/ m.type = "REFERENCE" /\ m.val # "TOKEN"
    PROVE  m \notin Words
  BY DEF Words, Announcement, HomeBound, Redirection, Blank, Tok, Bye, Said,
         Reference, ToManager

LEMMA PlainWoes ==
    ASSUME NEW m \in Message, m.type # "PERMFAIL"
    PROVE  m \notin Woes
  BY DEF Woes, Report, Alarm, Said

LEMMA KindsOfWords ==
    /\ Announcement \subseteq Words /\ HomeBound \subseteq Words
    /\ Redirection \subseteq Words /\ Blank \subseteq Words
    /\ Tok \subseteq Words /\ Bye \subseteq Words /\ Empty \subseteq Words
    /\ \A d : Lies(d) \subseteq Words
    /\ Report \subseteq Woes /\ Alarm \subseteq Woes
  BY DEF Words, Woes, Empty, Lies

Mute(out) == out \in [Site -> Seq(Message)] /\ Without(out, Words)
Glad(out) == out \in [Site -> Seq(Message)] /\ Without(out, Woes)

LEMMA SilentMute == Mute(Silent) /\ Glad(Silent)
  BY SilentType, SilentWithout DEF Mute, Glad

LEMMA ToMute ==
    ASSUME NEW d, NEW m \in Message
    PROVE  /\ m \notin Words => Mute(To(d, m))
           /\ m \notin Woes => Glad(To(d, m))
  BY ToType, ToWithout DEF Mute, Glad

LEMMA ToAllMute ==
    ASSUME NEW S, NEW m \in Message
    PROVE  /\ m \notin Words => Mute(ToAll(S, m))
           /\ m \notin Woes => Glad(ToAll(S, m))
  BY ToAllType, ToAllWithout DEF Mute, Glad

LEMMA BothMute ==
    ASSUME NEW o1, NEW o2
    PROVE  /\ Mute(o1) /\ Mute(o2) => Mute(Both(o1, o2))
           /\ Glad(o1) /\ Glad(o2) => Glad(Both(o1, o2))
  BY BothType, BothWithout DEF Mute, Glad

LEMMA SendMute ==
    ASSUME NEW t \in {"REGISTER", "UPDATE", "UPDATE_REQUEST", "UPDATE_REPLY"}
    PROVE  Mute(sendToManager(t, Unbound)) /\ Glad(sendToManager(t, Unbound))
  <1> DEFINE m == ToManager(t, Unbound)
  <1>1. m \in Message /\ m.type = t
    BY ToManagerMessage, UnboundValue DEF ManagerTypes, ToManager
  <1> HIDE DEF m
  <1>2. m \notin Words /\ m \notin Woes
    BY <1>1, PlainWords, PlainWoes
  <1> QED
    BY <1>1, <1>2, ToMute DEF sendToManager, m

LEMMA BindMute ==
    ASSUME NEW v \in Site
    PROVE  Mute(sendToManager("BIND", v)) /\ Glad(sendToManager("BIND", v))
  <1> DEFINE m == ToManager("BIND", v)
  <1>1. m \in Message /\ m.type = "BIND" /\ m.val # Unbound
    BY ToManagerMessage, UnboundAssumption DEF ManagerTypes, ToManager, Value
  <1> HIDE DEF m
  <1>2. m \notin Words /\ m \notin Woes
    BY <1>1, PlainWords, PlainWoes
  <1> QED
    BY <1>1, <1>2, ToMute DEF sendToManager, m

LEMMA NoticeMute ==
    ASSUME NEW t \in {"UPDATE", "BOUND", "PERMFAIL"}
    PROVE  /\ Notice(t) \in Message /\ Notice(t) \notin Words
           /\ t # "PERMFAIL" => Notice(t) \notin Woes
  <1> DEFINE m == Notice(t)
  <1>1. m \in Message /\ m.type = t /\ m.to = "proxy"
    BY ToProxyMessage, UnboundValue DEF ProxyTypes, ToProxy, Notice
  <1> HIDE DEF m
  <1>2. m \notin Words /\ (t # "PERMFAIL" => m \notin Woes)
    BY <1>1, PlainWords, PlainWoes
  <1> QED
    BY <1>1, <1>2 DEF m

LEMMA ReferenceMute ==
    ASSUME NEW d, NEW r \in {"AUTO", "MANUAL"}
    PROVE  Mute(To(d, Reference(r))) /\ Glad(To(d, Reference(r)))
  <1> DEFINE m == Reference(r)
  <1>1. m \in Message /\ m.type = "REFERENCE" /\ m.val = r
    BY ReferenceMessage DEF Reference
  <1> HIDE DEF m
  <1>2. m \notin Words /\ m \notin Woes
    BY <1>1, PlainWords, PlainWoes
  <1> QED
    BY <1>1, <1>2, ToMute DEF m

LEMMA ChangesMute ==
    ASSUME NEW d
    PROVE  Mute(ChangesOut(d)) /\ Glad(ChangesOut(d))
  BY NoticeMute, ToMute, SilentMute DEF ChangesOut

LEMMA ForwardMute ==
    ASSUME RemoteTypeOK, RealRequests, NEW d
    PROVE  /\ Mute(ForwardOut(d))
           /\ NoFailRequests => Glad(ForwardOut(d))
  <1> DEFINE f == [i \in DOMAIN requests |->
                      ToProxy(requests[i].type, requests[i].val)]
  <1>1. /\ requests \in Seq(Request) /\ Len(requests) \in Nat
        /\ DOMAIN requests = 1..Len(requests)
    BY LenProperties DEF RemoteTypeOK
  <1>2. \A i \in DOMAIN requests : requests[i] \in Request
    BY <1>1, ElementOfSeq
  <1>3. ASSUME NEW i \in DOMAIN requests
        PROVE  /\ f[i] \in Message /\ f[i] \notin Words
               /\ NoFailRequests => f[i] \notin Woes
    <2>1. /\ f[i] \in Message /\ f[i].type = requests[i].type
          /\ f[i].val = requests[i].val
      BY <1>2, ToProxyMessage DEF Request, ProxyTypes, ToProxy
    <2>2. requests[i].type \in {"BIND", "UPDATE_REQUEST", "PERMFAIL"}
      BY <1>2 DEF Request
    <2> HIDE DEF f
    <2>3. f[i] \notin Words
      BY <2>1, <2>2, PlainWords DEF RealRequests
    <2>4. NoFailRequests => f[i] \notin Woes
      BY <2>1, PlainWoes DEF NoFailRequests
    <2> QED
      BY <2>1, <2>3, <2>4
  <1>4. f \in [1..Len(requests) -> Message]
    BY <1>1, <1>3
  <1> HIDE DEF f
  <1>5. f \in Seq(Message) /\ DOMAIN f = DOMAIN requests /\ <<>> \in Seq(Message)
        /\ DOMAIN <<>> = {}
    BY <1>1, <1>4, EmptySeq
  <1>6. ForwardOut(d) = [e \in Site |-> IF e = d THEN f ELSE <<>>]
    BY DEF ForwardOut, f
  <1>7. ForwardOut(d) \in [Site -> Seq(Message)]
    BY <1>5, <1>6
  <1>8. /\ Without(ForwardOut(d), Words)
        /\ NoFailRequests => Without(ForwardOut(d), Woes)
    BY <1>3, <1>5, <1>6 DEF Without
  <1> QED
    BY <1>7, <1>8 DEF Mute, Glad

-----------------------------------------------------------------------------
(* The steps of the network.                                               *)

(* No message of a kind within Z is added.                                 *)
Adds(Z) == \A K : K \subseteq Z => Keeps(K)

Smooth ==
    /\ NetTypeOK(Message)'
    /\ Detected'
    /\ \A s \in Site : alive'[s] => alive[s]

LeadStays == alive'[Home] /\ Lead(chan, current) => Lead(chan', current)

LEMMA WithoutPart ==
    ASSUME NEW out, NEW Z, Without(out, Z), NEW K, K \subseteq Z
    PROVE  Without(out, K)
  BY DEF Without

(* What has the lead keeps it when something is sent behind it.            *)
LEMMA HearsConcat ==
    ASSUME NEW M, NEW q \in Seq(M), NEW r \in Seq(M), NEW K, NEW S,
           Hears(q, K, S)
    PROVE  Hears(q \o r, K, S)
  <1>1. PICK j \in DOMAIN q : q[j] \in K /\ \A k \in 1..(j - 1) : q[k] \notin S
    BY DEF Hears
  <1>2. /\ DOMAIN q = 1..Len(q) /\ Len(q) \in Nat /\ Len(r) \in Nat
        /\ DOMAIN (q \o r) = 1..(Len(q) + Len(r))
        /\ \A i \in 1..Len(q) : (q \o r)[i] = q[i]
    BY LenProperties, ConcatProperties
  <1>3. j \in DOMAIN (q \o r) /\ j \in 1..Len(q)
    BY <1>1, <1>2
  <1>4. \A k \in 1..(j - 1) : k \in 1..Len(q)
    BY <1>2, <1>3
  <1> QED
    BY <1>1, <1>2, <1>3, <1>4 DEF Hears

LEMMA SentLead ==
    ASSUME NEW c \in Channels(Message), NEW p \in Site,
           NEW out \in [Site -> Seq(Message)], NEW k \in Site, Lead(c, k)
    PROVE  Lead(Sent(c, p, out), k)
  <1> DEFINE l == <<k, Home>>
  <1>1. /\ l \in Site \X Site /\ l[2] \in Site
    BY HomeAssumption
  <1>2. c[l] \in Seq(Message) /\ out[l[2]] \in Seq(Message)
    BY <1>1 DEF Channels
  <1>3. \/ Sent(c, p, out)[l] = c[l]
        \/ Sent(c, p, out)[l] = c[l] \o out[l[2]]
    BY <1>1 DEF Sent
  <1> HIDE DEF l
  <1>4. Hears(c[l], Announcement, Bye)
    BY DEF Lead, On, l
  <1>5. Hears(Sent(c, p, out)[l], Announcement, Bye)
    BY <1>2, <1>3, <1>4, HearsConcat
  <1> QED
    BY <1>5 DEF Lead, On, l

(* A deregistration is not received before the announcement.               *)
LEMMA LeadHead ==
    ASSUME NEW c \in Channels(Message), NEW k \in Site, Lead(c, k),
           c[<<k, Home>>] # <<>>
    PROVE  Head(c[<<k, Home>>]) \notin Bye
  <1> DEFINE q == c[<<k, Home>>]
  <1>1. q \in Seq(Message)
    BY HomeAssumption DEF Channels
  <1>2. PICK j \in DOMAIN q : q[j] \in Announcement
                              /\ \A i \in 1..(j - 1) : q[i] \notin Bye
    BY DEF Lead, On, Hears
  <1> HIDE DEF q
  <1>3. j \in 1..Len(q) /\ Len(q) \in Nat
    BY <1>1, <1>2, LenProperties
  <1>4. Head(q) = q[1]
    BY <1>1, <1>3
  <1>5. Announcement \cap Bye = {}
    BY DEF Announcement, Said, Bye, ToManager
  <1>6. CASE j = 1
    BY <1>2, <1>4, <1>5, <1>6 DEF q
  <1>7. CASE j # 1
    <2>1. 1 \in 1..(j - 1)
      BY <1>3, <1>7
    <2> QED
      BY <1>2, <1>4, <2>1 DEF q
  <1> QED
    BY <1>6, <1>7

LEMMA TakenLead ==
    ASSUME NEW c \in Channels(Message), NEW s \in Site, NEW p \in Site,
           c[<<s, p>>] # <<>>, NEW k \in Site, Lead(c, k),
           <<s, p>> = <<k, Home>> => Head(c[<<s, p>>]) \notin Announcement
    PROVE  Lead(Taken(c, s, p), k)
  <1> DEFINE l == <<k, Home>>
  <1>1. l \in Site \X Site
    BY HomeAssumption
  <1>2. l = <<s, p>> => Head(c[<<s, p>>]) \notin Bye
    BY LeadHead
  <1> HIDE DEF l
  <1>3. On(c, l, Announcement, Bye)
    BY DEF Lead, l
  <1>4. On(Taken(c, s, p), l, Announcement, Bye)
    BY <1>1, <1>2, <1>3, TakenOn DEF l
  <1> QED
    BY <1>4 DEF Lead, l

LEMMA EmitSmooth ==
    ASSUME IInv, Basics, NEW p \in Site, NEW out \in [Site -> Seq(Message)],
           Emit(p, out)
    PROVE  /\ Smooth /\ LeadStays /\ UNCHANGED alive
           /\ \A Z : Without(out, Z) => Adds(Z)
  <1>1. NetTypeOK(Message) /\ current \in Site
    BY TypesOf DEF RemoteTypeOK
  <1>2. NetTypeOK(Message)' /\ \A K : Without(out, K) => Keeps(K)
    BY <1>1, EmitStep
  <1>3. \A Z : Without(out, Z) => Adds(Z)
    BY <1>2, WithoutPart DEF Adds
  <1>4. UNCHANGED <<alive, perm>> /\ chan' = Sent(chan, p, out)
    BY DEF Emit
  <1>5. Smooth
    BY <1>2, <1>4 DEF Smooth, Detected, Basics
  <1>6. chan \in Channels(Message)
    BY <1>1 DEF NetTypeOK, Channels
  <1>7. LeadStays
    BY <1>1, <1>4, <1>6, SentLead DEF LeadStays
  <1> QED
    BY <1>3, <1>4, <1>5, <1>7

LEMMA ConsumeSmooth ==
    ASSUME IInv, Basics, NEW s \in Site, NEW p \in Site,
           NEW out \in [Site -> Seq(Message)], CanRecv(s, p), Consume(s, p, out)
    PROVE  /\ Smooth /\ UNCHANGED alive
           /\ Head1(s, p) \notin Announcement => LeadStays
           /\ \A Z : Without(out, Z) => Adds(Z)
  <1>1. NetTypeOK(Message) /\ current \in Site
    BY TypesOf DEF RemoteTypeOK
  <1>2. NetTypeOK(Message)' /\ \A K : Without(out, K) => Keeps(K)
    BY <1>1, ConsumeStep
  <1>3. \A Z : Without(out, Z) => Adds(Z)
    BY <1>2, WithoutPart DEF Adds
  <1>4. UNCHANGED <<alive, perm>> /\ chan' = Sent(Taken(chan, s, p), p, out)
    BY DEF Consume, Taken
  <1>5. Smooth
    BY <1>2, <1>4 DEF Smooth, Detected, Basics
  <1>6. chan \in Channels(Message) /\ chan[<<s, p>>] # <<>>
    BY <1>1 DEF NetTypeOK, Channels, CanRecv
  <1>7. Taken(chan, s, p) \in Channels(Message)
    BY <1>6, TakenType
  <1>8. ASSUME Head1(s, p) \notin Announcement, Lead(chan, current)
        PROVE  Lead(chan', current)
    <2>1. Lead(Taken(chan, s, p), current)
      BY <1>1, <1>6, <1>8, TakenLead DEF Head1
    <2> QED
      BY <1>1, <1>4, <1>7, <2>1, SentLead
  <1> QED
    BY <1>3, <1>4, <1>5, <1>8 DEF LeadStays

LEMMA DetectSmooth ==
    ASSUME IInv, Basics, NEW s \in Site, NEW p \in Site,
           NEW out \in [Site -> Seq(Message)], CanDetect(p, s),
           Detect(p, s, out)
    PROVE  /\ Smooth /\ UNCHANGED alive
           /\ <<s, p>> # <<current, Home>> => LeadStays
           /\ \A Z : Without(out, Z) => Adds(Z)
  <1> DEFINE c == [chan EXCEPT ![<<s, p>>] = <<>>]
  <1>1. NetTypeOK(Message) /\ current \in Site
    BY TypesOf DEF RemoteTypeOK
  <1>2. NetTypeOK(Message)' /\ \A K : Without(out, K) => Keeps(K)
    BY <1>1, DetectStep
  <1>3. \A Z : Without(out, Z) => Adds(Z)
    BY <1>2, WithoutPart DEF Adds
  <1>4. UNCHANGED alive /\ chan' = Sent(c, p, out)
    BY DEF Detect
  <1>5. Smooth
    <2>1. Detected'
      BY <1>1 DEF Detect, CanDetect, Detected, Basics, NetTypeOK
    <2> QED
      BY <1>2, <1>4, <2>1 DEF Smooth
  <1>6. chan \in Channels(Message) /\ c \in Channels(Message)
    BY <1>1 DEF NetTypeOK, Channels
  <1>7. ASSUME <<s, p>> # <<current, Home>>, Lead(chan, current)
        PROVE  Lead(chan', current)
    <2>1. c[<<current, Home>>] = chan[<<current, Home>>]
      BY <1>1, <1>7, HomeAssumption DEF NetTypeOK
    <2>2. Lead(c, current)
      BY <1>7, <2>1 DEF Lead, On
    <2> HIDE DEF c
    <2> QED
      BY <1>1, <1>4, <1>6, <2>2, SentLead
  <1> QED
    BY <1>3, <1>4, <1>5, <1>7 DEF LeadStays

LEMMA CrashSmooth ==
    ASSUME IInv, Basics, NEW s \in Site, Crash(s)
    PROVE  Smooth /\ LeadStays /\ \A Z : Adds(Z)
  <1>1. NetTypeOK(Message) /\ current \in Site
    BY TypesOf DEF RemoteTypeOK
  <1>2. NetTypeOK(Message)' /\ \A K : Keeps(K)
    BY <1>1, CrashStep
  <1>3. \A q \in Site : alive'[q] => alive[q] /\ q # s
    BY <1>1 DEF NetTypeOK, Crash
  <1>4. Smooth
    BY <1>2, <1>3 DEF Smooth, Detected, Basics, Crash
  <1>5. ASSUME alive'[Home]
        PROVE  chan'[<<current, Home>>] = chan[<<current, Home>>]
    BY <1>1, <1>3, <1>5, HomeAssumption DEF Crash, NetTypeOK
  <1>6. LeadStays
    BY <1>5 DEF LeadStays, Lead, On
  <1> QED
    BY <1>2, <1>4, <1>6 DEF Adds

-----------------------------------------------------------------------------
(* Steps that say nothing new about the value.                             *)

(* Without a kill and a crash of the home site, nothing new fails.         *)
Woeless ==
    \/ "kill" \in history' \/ ~alive'[Home]
    \/ /\ Keeps(Report) /\ (NoFailRequests => NoFailRequests')
       /\ Troubled' => Troubled
       /\ mfail => mfail'
       /\ mstatus = "BOUND" /\ value[Home] # Unbound => proxies' \subseteq proxies

Mild(d) ==
    /\ \A p \in Site : alive'[p] => alive[p]
    /\ history \subseteq history' /\ UNCHANGED current
    /\ \A p \in Site : value'[p] \in {value[p], Unbound}
    /\ value'[Home] = value[Home]
    /\ \A p \in Site : Binder(p)' => Binder(p)
    /\ mstatus = "BOUND" <=> mstatus' = "BOUND"
    /\ Keeps(Lies(d))
    /\ mstatus' # "BOUND" => Keeps(Redirection) /\ Keeps(Announcement) /\ LeadStays

LEMMA MildSound ==
    ASSUME IInv, NEW d \in Value, Sound(d), Mild(d), Woeless
    PROVE  Sound(d)'
  <1> USE DEF Sound, Mild
  <1>1. OneValue(d)'
    <2>1. NoneOf(chan', Lies(d))
      BY DEF OneValue, Keeps
    <2> QED
      BY <2>1 DEF OneValue, Lies, Announcement, Redirection, Said
  <1>2. NoBinder(d)'
    BY DEF NoBinder
  <1>3. Early'
    <2>1. SUFFICES ASSUME mstatus' # "BOUND"
                   PROVE  /\ \A p \in Site : (alive[p] /\ value[p] # Unbound => p = current)'
                          /\ NoneOf(chan', Redirection)
                          /\ \A l \in Site \X Site : Carried(chan', l, Announcement)
                                => l = <<current, Home>> /\ current # Home
      BY DEF Early, Announcement, Redirection, Said
    <2>2. Early /\ Keeps(Redirection) /\ Keeps(Announcement) /\ mstatus # "BOUND"
      BY <2>1
    <2>3. NoneOf(chan', Redirection)
      BY <2>2 DEF Early, Keeps
    <2>4. \A l \in Site \X Site : Carried(chan', l, Announcement)
                                => l = <<current, Home>> /\ current # Home
      BY <2>2 DEF Early, Keeps
    <2>5. \A p \in Site : alive'[p] /\ value'[p] # Unbound => p = current'
      BY <2>2 DEF Early
    <2> QED
      BY <2>3, <2>4, <2>5
  <1>4. Announced(d)'
    <2>1. d # Unbound /\ mstatus' # "BOUND" /\ alive'[Home] /\ current' # Home
            => Lead(chan', current')
      BY HomeAssumption DEF Announced, LeadStays
    <2>2. Lead(chan', current') => Lead(chan, current)'
      BY DEF Lead, On, Hears, Announcement, Said, Bye
    <2>3. d # Unbound /\ current' = Home => value'[Home] # Unbound
      BY DEF Announced
    <2> QED
      BY <2>1, <2>2, <2>3 DEF Announced
  <1>5. Excused(d)'
    <2>1. SUFFICES ASSUME "kill" \notin history', alive'[Home]
                   PROVE  /\ NoneOf(chan', Report) /\ NoFailRequests'
                          /\ Troubled' => mfail' /\ ~alive'[current'] /\ d = Unbound
                          /\ mstatus' = "BOUND" => proxies' = {} /\ value'[Home] # Unbound
      BY DEF Excused, Report, Said
    <2>2. /\ NoneOf(chan, Report) /\ NoFailRequests
          /\ Troubled => mfail /\ ~alive[current] /\ d = Unbound
          /\ mstatus = "BOUND" => proxies = {} /\ value[Home] # Unbound
      BY <2>1, HomeAssumption DEF Excused
    <2>3. /\ Keeps(Report) /\ (NoFailRequests => NoFailRequests')
          /\ Troubled' => Troubled
          /\ mfail => mfail'
          /\ mstatus = "BOUND" /\ value[Home] # Unbound => proxies' \subseteq proxies
      BY <2>1 DEF Woeless
    <2>4. NoneOf(chan', Report) /\ NoFailRequests'
      BY <2>2, <2>3 DEF Keeps
    <2>5. Troubled' => mfail' /\ ~alive'[current'] /\ d = Unbound
      BY <2>2, <2>3, TypesOf DEF RemoteTypeOK
    <2>6. mstatus' = "BOUND" => proxies' = {} /\ value'[Home] # Unbound
      BY <2>2, <2>3
    <2> QED
      BY <2>4, <2>5, <2>6
  <1> QED
    BY <1>1, <1>2, <1>3, <1>4, <1>5

(* Steps that leave all values alone.                                      *)
Steady ==
    /\ Smooth /\ Adds(Words) /\ history \subseteq history'
    /\ UNCHANGED <<value, present>>
    /\ \A p \in Site : status[p] = "BOUND" => status'[p] = "BOUND"
    /\ \A p \in Site : pfail[p] => pfail'[p]
    /\ \A p \in Site : pfail'[p] => pfail[p] \/ present[p]
    /\ mstatus = "BOUND" <=> mstatus' = "BOUND"
    /\ RealRequests'

LEMMA ByeKept ==
    ASSUME Keeps(Bye), ~Deregistering(Home)
    PROVE  ~Deregistering(Home)'
  BY HomeAssumption DEF Keeps, Deregistering, Bye

LEMMA BasicsKept ==
    ASSUME Basics, Smooth, Keeps(Blank), RealRequests',
           \A l \in Site \X Site :
               /\ Carried(chan', l, HomeBound) => value'[Home] # Unbound
               /\ Carried(chan', l, Empty) => pfail'[Home],
           mstatus' = "BOUND" => value'[Home] # Unbound \/ pfail'[Home],
           \A p \in Site : p # Home /\ value'[p] # Unbound => status'[p] = "BOUND",
           ~Deregistering(Home)', AbsentBlank'
    PROVE  Basics'
  <1>1. NoneOf(chan', Blank)
    BY DEF Basics, Keeps
  <1>2. NoneOf(chan, Blank)'
    BY <1>1 DEF NoneOf, Blank, Announcement, Said
  <1>3. (\A l \in Site \X Site : Carried(chan, l, HomeBound) => value[Home] # Unbound)'
    BY DEF HomeBound, Said
  <1>4. (\A l \in Site \X Site : Carried(chan, l, Empty) => pfail[Home])'
    BY DEF Empty, Redirection, Said
  <1> QED
    BY <1>2, <1>3, <1>4 DEF Basics, Smooth

LEMMA SteadyBasics ==
    ASSUME Basics, Steady
    PROVE  Basics'
  <1> USE DEF Steady, Basics
  <1>1. /\ Keeps(Blank) /\ Keeps(HomeBound) /\ Keeps(Empty) /\ Keeps(Bye)
    BY KindsOfWords DEF Adds
  <1>2. \A l \in Site \X Site :
           /\ Carried(chan', l, HomeBound) => value'[Home] # Unbound
           /\ Carried(chan', l, Empty) => pfail'[Home]
    BY <1>1, HomeAssumption DEF Keeps
  <1>3. mstatus' = "BOUND" => value'[Home] # Unbound \/ pfail'[Home]
    BY HomeAssumption
  <1>4. \A p \in Site : p # Home /\ value'[p] # Unbound => status'[p] = "BOUND"
    OBVIOUS
  <1>5. ~Deregistering(Home)' /\ AbsentBlank'
    BY <1>1, ByeKept DEF AbsentBlank
  <1> HIDE DEF Basics
  <1> QED
    BY <1>1, <1>2, <1>3, <1>4, <1>5, BasicsKept

Lull ==
    /\ Steady
    /\ UNCHANGED <<token, current>>
    /\ mstatus' # "BOUND" => LeadStays

LEMMA LullMild ==
    ASSUME Lull, NEW d
    PROVE  Mild(d)
  <1>1. /\ Keeps(Lies(d)) /\ Keeps(Redirection) /\ Keeps(Announcement)
        /\ Keeps(Tok)
    BY KindsOfWords DEF Lull, Steady, Adds
  <1>2. ASSUME NEW p \in Site, Binder(p)'
        PROVE  Binder(p)
    <2>1. TokenSent(p)' => TokenSent(p)
      BY <1>1, HomeAssumption DEF TokenSent, Keeps, Tok
    <2>2. HasToken(p)' /\ status'[p] # "BOUND" => HasToken(p) /\ status[p] # "BOUND"
      BY DEF HasToken, Lull, Steady
    <2> QED
      BY <1>2, <2>1, <2>2 DEF Binder
  <1> QED
    BY <1>1, <1>2, HomeAssumption DEF Mild, Lull, Steady, Smooth

(* Nothing fails, and no word of it is sent.                               *)
LEMMA Untroubled ==
    ASSUME Smooth, Adds(Woes), UNCHANGED <<mfail, pfail>>,
           NoFailRequests => NoFailRequests',
           mstatus = "BOUND" /\ value[Home] # Unbound => proxies' \subseteq proxies
    PROVE  Woeless
  <1>1. Keeps(Report) /\ Keeps(Alarm)
    BY KindsOfWords DEF Adds
  <1>2. ASSUME Troubled'
        PROVE  Troubled
    <2>1. \/ mfail'
          \/ \E l \in Site \X Site : Carried(chan', l, Alarm)
          \/ \E p \in Site : alive'[p] /\ pfail'[p]
      BY <1>2 DEF Troubled, Alarm, Said
    <2> QED
      BY <1>1, <2>1 DEF Troubled, Keeps, Smooth
  <1> QED
    BY <1>1, <1>2 DEF Woeless

Good == Basics /\ ("crossed" \notin history => \E d \in Value : Sound(d))

LEMMA GoodOf ==
    AInv <=> IInv /\ Good
  BY DEF AInv, Good

(* The step concerns the value only as long as the token is in one place.  *)
LEMMA Conclude ==
    ASSUME AInv, Onward, Basics',
           \A d \in Value : /\ "crossed" \notin history'
                            /\ Exclusive /\ Sound(d)
                            => (\E e \in Value : Sound(e)') /\ Agree!Next
    PROVE  Good' /\ Agree!Next
  <1>1. CASE "crossed" \in history'
    <2>1. Agree!Next
      BY <1>1, HomeAssumption DEF Agree!Next, Onward
    <2> QED
      BY <1>1, <2>1 DEF Good
  <1>2. CASE "crossed" \notin history'
    <2>1. Exclusive /\ \E d \in Value : Sound(d)
      BY <1>2 DEF AInv, IInv, Onward
    <2>2. (\E e \in Value : Sound(e)') /\ Agree!Next
      BY <1>2, <2>1
    <2>3. (\E e \in Value : Sound(e))'
      BY <2>2 DEF Value
    <2> QED
      BY <2>2, <2>3 DEF Good
  <1> QED
    BY <1>1, <1>2

(* No proxy takes note.                                                    *)
LEMMA LullStep ==
    ASSUME AInv, Lull, UNCHANGED pfail,
           \A d \in Value : Exclusive /\ Sound(d) => Woeless
    PROVE  Good' /\ Agree!Next
  <1>1. Onward
    BY DEF Onward, Lull, Steady, Smooth
  <1>2. Basics'
    BY SteadyBasics DEF AInv, Lull
  <1>3. Agree!Next
    BY <1>1, OutcomeStays DEF Lull, Steady
  <1>4. ASSUME NEW d \in Value, Exclusive, Sound(d)
        PROVE  Sound(d)'
    BY <1>4, LullMild, MildSound DEF AInv
  <1> QED
    BY <1>1, <1>2, <1>3, <1>4, Conclude

(* Proxy p fails, for a good reason.                                       *)
LEMMA FailureLull ==
    ASSUME AInv, Lull, NEW p \in Site, alive[p],
           pfail' = [pfail EXCEPT ![p] = TRUE],
           \A d \in Value : Exclusive /\ Sound(d) =>
               Woeless /\ (Broken' \/ d = Unbound)
    PROVE  Good' /\ Agree!Next
  <1>1. Onward
    BY DEF Onward, Lull, Steady, Smooth
  <1>2. Basics'
    BY SteadyBasics DEF AInv, Lull
  <1>3. ASSUME NEW d \in Value, Exclusive, Sound(d)
        PROVE  Sound(d)' /\ Agree!Next
    <2>1. Sound(d)'
      BY <1>3, LullMild, MildSound DEF AInv
    <2>2. \/ Broken'
          \/ \A q \in Site : alive[q] => value[q] = Unbound
      BY <1>3 DEF Sound, OneValue
    <2>3. pfail \in [Site -> BOOLEAN]
      BY TypesOf DEF AInv, ProxyTypeOK
    <2>4. Agree!Next
      BY <1>1, <2>2, <2>3, FailureSettles DEF Lull, Steady
    <2> QED
      BY <2>1, <2>4
  <1> QED
    BY <1>1, <1>2, <1>3, Conclude

-----------------------------------------------------------------------------
(* Operations that leave the value alone.                                  *)

LEMMA EmitLull ==
    ASSUME AInv, NEW p \in Site, NEW out, Mute(out), Emit(p, out),
           UNCHANGED <<value, present, remoteVars, mstatus>>,
           \A q \in Site : status[q] = "BOUND" => status'[q] = "BOUND",
           \A q \in Site : pfail[q] => pfail'[q],
           \A q \in Site : pfail'[q] => pfail[q] \/ present[q],
           Spend("bind") \/ Spend("need") \/ Spend("kill") \/ Spend("export")
    PROVE  Lull /\ (Glad(out) => Adds(Woes)) /\ UNCHANGED alive
  <1>1. history \subseteq history'
    BY TypesOf, SpendType DEF AInv
  <1>2. out \in [Site -> Seq(Message)] /\ IInv /\ Basics
    BY DEF Mute, AInv
  <1>3. /\ Smooth /\ LeadStays /\ UNCHANGED alive
        /\ \A Z : Without(out, Z) => Adds(Z)
    BY <1>2, EmitSmooth
  <1>4. Adds(Words) /\ (Glad(out) => Adds(Woes))
    BY <1>3 DEF Mute, Glad
  <1>5. RealRequests'
    BY <1>2 DEF RealRequests, Basics, remoteVars
  <1> QED
    BY <1>1, <1>3, <1>4, <1>5 DEF Lull, Steady, remoteVars

LEMMA BindWaitLull ==
    ASSUME AInv, NEW p \in Site, BindWait(p)
    PROVE  Good' /\ Agree!Next
  <1>1. PICK out : Mute(out) /\ Glad(out) /\ Emit(p, out)
    BY BindMute, SilentMute DEF BindWait
  <1>2. \A q \in Site : status[q] = "BOUND" => status'[q] = "BOUND"
    BY TypesOf DEF BindWait, AInv, ProxyTypeOK
  <1>3. Lull /\ Adds(Woes)
    BY <1>1, <1>2, EmitLull DEF BindWait, managerVars
  <1>4. NoFailRequests => NoFailRequests'
    BY DEF NoFailRequests, BindWait, remoteVars
  <1>5. Woeless
    BY <1>3, <1>4, Untroubled DEF Lull, Steady, BindWait, managerVars
  <1> QED
    BY <1>3, <1>5, LullStep DEF BindWait

LEMMA MakeNeededLull ==
    ASSUME AInv, NEW p \in Site, MakeNeeded(p)
    PROVE  Good' /\ Agree!Next
  <1>1. PICK out : Mute(out) /\ Glad(out) /\ Emit(p, out)
    BY SendMute, SilentMute DEF MakeNeeded
  <1>2. Lull /\ Adds(Woes)
    BY <1>1, EmitLull DEF MakeNeeded, proxyVars, managerVars
  <1>3. NoFailRequests => NoFailRequests'
    BY DEF NoFailRequests, MakeNeeded, remoteVars
  <1>4. Woeless
    BY <1>2, <1>3, Untroubled DEF Lull, Steady, MakeNeeded, proxyVars, managerVars
  <1> QED
    BY <1>2, <1>4, LullStep DEF MakeNeeded, proxyVars

LEMMA ReportMute == Mute(sendToManager("PERMFAIL", Unbound))
  <1> DEFINE m == ToManager("PERMFAIL", Unbound)
  <1>1. m \in Message /\ m.type = "PERMFAIL"
    BY ToManagerMessage, UnboundValue DEF ManagerTypes, ToManager
  <1> HIDE DEF m
  <1> QED
    BY <1>1, PlainWords, ToMute DEF sendToManager, m

LEMMA KillLull ==
    ASSUME AInv, NEW p \in Site, Kill(p)
    PROVE  Good' /\ Agree!Next
  <1>1. /\ Emit(p, sendToManager("PERMFAIL", Unbound)) /\ present[p] /\ ~pfail[p]
        /\ status[p] = "FREE" /\ status' = [status EXCEPT ![p] = "WAITING"]
        /\ pfail' = [pfail EXCEPT ![p] = token[p]] /\ alive[p]
        /\ pfail \in [Site -> BOOLEAN] /\ token \in [Site -> BOOLEAN]
        /\ status \in [Site -> {"FREE", "WAITING", "BOUND"}]
    BY TypesOf DEF Kill, Usable, Emit, Idle, AInv, ProxyTypeOK, RemoteTypeOK
  <1>2. /\ \A q \in Site : status[q] = "BOUND" => status'[q] = "BOUND"
        /\ \A q \in Site : pfail[q] => pfail'[q]
        /\ \A q \in Site : pfail'[q] => pfail[q] \/ present[q]
    BY <1>1
  <1>3. Lull
    BY <1>1, <1>2, ReportMute, EmitLull DEF Kill, entityVars, managerVars
  <1>4. "kill" \in history'
    BY TypesOf, SpendType DEF Kill, AInv
  <1>5. Woeless /\ Broken'
    BY <1>4 DEF Woeless, Broken
  <1>6. CASE token[p]
    <2>1. pfail' = [pfail EXCEPT ![p] = TRUE]
      BY <1>1, <1>6
    <2> QED
      BY <1>1, <1>3, <1>5, <2>1, FailureLull
  <1>7. CASE ~token[p]
    <2>1. pfail' = pfail
      BY <1>1, <1>7
    <2> QED
      BY <1>3, <1>5, <2>1, LullStep
  <1> QED
    BY <1>6, <1>7

LEMMA ExportRemoteLull ==
    ASSUME AInv, NEW p \in Site, NEW q \in Site, ExportRemote(p, q)
    PROVE  Good' /\ Agree!Next
  <1>1. /\ Mute(To(q, Reference("MANUAL"))) /\ Glad(To(q, Reference("MANUAL")))
        /\ Emit(p, To(q, Reference("MANUAL")))
    BY ReferenceMute DEF ExportRemote
  <1>2. Lull /\ Adds(Woes)
    BY <1>1, EmitLull
       DEF ExportRemote, MayExport, entityVars, proxyVars, managerVars
  <1>3. NoFailRequests => NoFailRequests'
    BY DEF NoFailRequests, ExportRemote, remoteVars
  <1>4. Woeless
    BY <1>2, <1>3, Untroubled
       DEF Lull, Steady, ExportRemote, proxyVars, managerVars
  <1> QED
    BY <1>2, <1>4, LullStep DEF ExportRemote, proxyVars

LEMMA ExportHomeLull ==
    ASSUME AInv, NEW q \in Site, ExportHome(q), ~GivesToken(q)
    PROVE  Good' /\ Agree!Next
  <1> DEFINE out == Both(To(q, Reference("AUTO")),
                         IF q \in proxies THEN Silent ELSE ChangesOut(q))
  <1>1. Mute(out) /\ Glad(out)
    BY ReferenceMute, SilentMute, ChangesMute, BothMute
  <1>2. Emit(Home, out) /\ value[Home] = Unbound
    BY DEF ExportHome, MayExport
  <1> HIDE DEF out
  <1>3. Lull /\ Adds(Woes)
    BY <1>1, <1>2, EmitLull, HomeAssumption
       DEF ExportHome, MayExport, entityVars, proxyVars
  <1>4. NoFailRequests => NoFailRequests'
    BY DEF NoFailRequests, ExportHome, remoteVars
  <1>5. Woeless
    BY <1>2, <1>3, <1>4, Untroubled DEF Lull, Steady, ExportHome, proxyVars
  <1> QED
    BY <1>3, <1>5, LullStep DEF ExportHome, proxyVars

-----------------------------------------------------------------------------
(* Messages that leave the value alone.                                    *)

LEMMA ConsumeLull ==
    ASSUME AInv, NEW s \in Site, NEW p \in Site, NEW out, Mute(out),
           CanRecv(s, p), Consume(s, p, out),
           Head1(s, p) \notin Announcement,
           UNCHANGED <<value, present, token, current>>,
           RealRequests', history \subseteq history',
           mstatus = "BOUND" <=> mstatus' = "BOUND",
           \A q \in Site : status[q] = "BOUND" => status'[q] = "BOUND",
           \A q \in Site : pfail[q] => pfail'[q],
           \A q \in Site : pfail'[q] => pfail[q] \/ present[q]
    PROVE  Lull /\ (Glad(out) => Adds(Woes)) /\ UNCHANGED alive
  <1>1. out \in [Site -> Seq(Message)] /\ IInv /\ Basics
    BY DEF Mute, AInv
  <1>2. /\ Smooth /\ LeadStays /\ UNCHANGED alive
        /\ \A Z : Without(out, Z) => Adds(Z)
    BY <1>1, ConsumeSmooth
  <1>3. Adds(Words) /\ (Glad(out) => Adds(Woes))
    BY <1>2 DEF Mute, Glad
  <1> QED
    BY <1>2, <1>3 DEF Lull, Steady

(* Nothing of the state but the mark of need and the channels changes.     *)
LEMMA SkipLull ==
    ASSUME AInv, NEW s \in Site, NEW p \in Site, NEW out, Mute(out), Glad(out),
           CanRecv(s, p), Consume(s, p, out),
           Head1(s, p) \notin Announcement, history \subseteq history',
           UNCHANGED <<value, proxyVars, managerVars, remoteVars>>
    PROVE  Good' /\ Agree!Next
  <1>1. RealRequests'
    BY DEF AInv, Basics, RealRequests, remoteVars
  <1>2. Lull /\ Adds(Woes)
    BY <1>1, ConsumeLull DEF proxyVars, managerVars, remoteVars
  <1>3. NoFailRequests => NoFailRequests'
    BY DEF NoFailRequests, remoteVars
  <1>4. Woeless
    BY <1>2, <1>3, Untroubled DEF Lull, Steady, proxyVars, managerVars
  <1> QED
    BY <1>2, <1>4, LullStep DEF proxyVars

LEMMA ProxyLull ==
    ASSUME AInv, NEW s \in Site, NEW p \in Site,
           \/ Ignores(s, p) \/ DropReference(s, p) \/ IgnoreRequest(s, p)
           \/ GetUpdateRequest(s, p) \/ GetUpdate(s, p)
    PROVE  Good' /\ Agree!Next
  <1>1. CanRecv(s, p) /\ Head1(s, p) \notin Announcement
    <2>1. CASE DropReference(s, p)
      BY <2>1 DEF DropReference, DisposeReference, GetsReference, Announcement, Said
    <2>2. CASE \/ Ignores(s, p) \/ IgnoreRequest(s, p)
               \/ GetUpdateRequest(s, p) \/ GetUpdate(s, p)
      BY <2>2 DEF Ignores, ProxyIgnores, IgnoreRequest, GetUpdateRequest,
                  GetUpdate, ProxyGets, Announcement, Said
    <2> QED
      BY <2>1, <2>2
  <1>2. PICK out : Mute(out) /\ Glad(out) /\ Consume(s, p, out)
    BY SendMute, SilentMute
       DEF Ignores, ProxyIgnores, DropReference, DisposeReference,
           IgnoreRequest, GetUpdateRequest, GetUpdate
  <1>3. history \subseteq history'
    BY DEF Ignores, ProxyIgnores, DropReference, Record, IgnoreRequest,
           GetUpdateRequest, GetUpdate, envVars
  <1>4. UNCHANGED <<value, proxyVars, managerVars, remoteVars>>
    BY DEF Ignores, ProxyIgnores, DropReference, DisposeReference,
           IgnoreRequest, GetUpdateRequest, GetUpdate, entityVars
  <1> QED
    BY <1>1, <1>2, <1>3, <1>4, SkipLull

LEMMA HeadCarried ==
    ASSUME IInv, NEW s \in Site, NEW p \in Site, CanRecv(s, p), NEW K,
           Head1(s, p) \in K
    PROVE  Carried(chan, <<s, p>>, K) /\ ~NoneOf(chan, K)
  BY TypesOf, HeadMessage DEF Carried, NoneOf

(* The home site hears of a kill only if there is one.                     *)
LEMMA ReportOfKill ==
    ASSUME IInv, NEW d, Sound(d), NEW s \in Site, ManagerGets(s, "PERMFAIL")
    PROVE  "kill" \in history
  <1>1. Head1(s, Home) \in Report /\ CanRecv(s, Home) /\ alive[Home]
    BY HeadOf, HomeAssumption DEF ManagerGets, CanRecv, Report, Said
  <1>2. ~NoneOf(chan, Report)
    BY <1>1, HeadCarried, HomeAssumption
  <1> QED
    BY <1>1, <1>2 DEF Sound, Excused

LEMMA GetPermFailLull ==
    ASSUME AInv, NEW s \in Site, NEW p \in Site, GetPermFail(s, p)
    PROVE  Good' /\ Agree!Next
  <1> DEFINE out == IF token[p] THEN sendToManager("PERMFAIL", Unbound)
                    ELSE Silent
  <1>1. /\ CanRecv(s, p) /\ Consume(s, p, out) /\ present[p] /\ alive[p]
        /\ Head1(s, p) \in Alarm /\ Head1(s, p) \notin Announcement
        /\ pfail' = [pfail EXCEPT ![p] = TRUE] /\ pfail \in [Site -> BOOLEAN]
    BY HeadOf, TypesOf
       DEF GetPermFail, ProxyGets, CanRecv, Alarm, Announcement, Said, AInv,
           ProxyTypeOK
  <1>2. Mute(out) /\ (~token[p] => Glad(out))
    BY ReportMute, SilentMute
  <1> HIDE DEF out
  <1>3. RealRequests' /\ (NoFailRequests => NoFailRequests')
    BY DEF GetPermFail, AInv, Basics, RealRequests, NoFailRequests, remoteVars
  <1>4. Lull /\ (Glad(out) => Adds(Woes)) /\ UNCHANGED alive
    BY <1>1, <1>2, <1>3, ConsumeLull
       DEF GetPermFail, entityVars, managerVars, remoteVars, envVars
  <1>5. Troubled
    BY <1>1, HeadCarried DEF Troubled, AInv
  <1>6. ASSUME NEW d \in Value, Exclusive, Sound(d)
        PROVE  Woeless /\ (Broken' \/ d = Unbound)
    <2>1. CASE Broken
      BY <1>4, <2>1 DEF Broken, Woeless, GetPermFail, envVars
    <2>2. CASE ~Broken
      <3>1. ~alive[current] /\ d = Unbound
        BY <1>5, <1>6, <2>2 DEF Sound, Excused, Broken
      <3>2. ~token[p]
        BY <1>1, <1>6, <3>1 DEF Exclusive, HasToken
      <3>3. Keeps(Report)
        BY <1>2, <1>4, <3>2, KindsOfWords DEF Adds
      <3> QED
        BY <1>3, <1>5, <3>1, <3>3 DEF Woeless, GetPermFail, managerVars
    <2> QED
      BY <2>1, <2>2
  <1> QED
    BY <1>1, <1>4, <1>6, FailureLull

(* The home proxy is told that it is bound.                                *)
LEMMA GetBoundLull ==
    ASSUME AInv, NEW s \in Site, NEW p \in Site, GetRedirect(s, p),
           Head1(s, p).type = "BOUND"
    PROVE  Good' /\ Agree!Next
  <1>1. /\ CanRecv(s, p) /\ Consume(s, p, Silent)
        /\ Head1(s, p) \notin Announcement
        /\ status' = [status EXCEPT ![p] = "BOUND"]
        /\ status \in [Site -> {"FREE", "WAITING", "BOUND"}]
        /\ UNCHANGED <<value, present, pfail, managerVars, remoteVars, envVars>>
    BY TypesOf DEF GetRedirect, ProxyGets, Announcement, Said, AInv, ProxyTypeOK
  <1>2. RealRequests' /\ (NoFailRequests => NoFailRequests')
    BY <1>1 DEF AInv, Basics, RealRequests, NoFailRequests, remoteVars
  <1>3. Lull /\ Adds(Woes)
    BY <1>1, <1>2, SilentMute, ConsumeLull DEF managerVars, remoteVars, envVars
  <1>4. Woeless
    BY <1>1, <1>2, <1>3, Untroubled DEF Lull, Steady, managerVars
  <1> QED
    BY <1>1, <1>3, <1>4, LullStep

-----------------------------------------------------------------------------
(* Messages for the manager that leave the value alone.                    *)

LEMMA ManagerLull ==
    ASSUME AInv, NEW s \in Site, NEW out, Mute(out), ManagerGets(s, "REGISTER")
               \/ ManagerGets(s, "DEREGISTER") \/ ManagerGets(s, "BIND")
               \/ ManagerGets(s, "PERMFAIL") \/ ManagerGets(s, "UPDATE")
               \/ ManagerGets(s, "UPDATE_REQUEST") \/ ManagerGets(s, "UPDATE_REPLY"),
           Consume(s, Home, out),
           UNCHANGED <<value, proxyVars, token, current>>,
           RealRequests', history \subseteq history',
           mstatus = "BOUND" <=> mstatus' = "BOUND",
           \A d \in Value : Exclusive /\ Sound(d) /\ (Glad(out) => Adds(Woes))
               => Woeless
    PROVE  Good' /\ Agree!Next
  <1>1. CanRecv(s, Home) /\ Head1(s, Home) \notin Announcement
    BY DEF ManagerGets, Announcement, Said
  <1>2. Lull /\ (Glad(out) => Adds(Woes))
    BY <1>1, ConsumeLull, HomeAssumption DEF proxyVars
  <1> QED
    BY <1>2, LullStep DEF proxyVars

LEMMA RegisterLull ==
    ASSUME AInv, NEW s \in Site, Register(s), mfail \/ mstatus # "BOUND"
    PROVE  Good' /\ Agree!Next
  <1>1. /\ ManagerGets(s, "REGISTER")
        /\ UNCHANGED <<value, proxyVars, mstatus, mfail, remoteVars, history>>
    BY DEF Register, entityVars, envVars
  <1>2. RealRequests' /\ (NoFailRequests => NoFailRequests')
    BY <1>1 DEF AInv, Basics, RealRequests, NoFailRequests, remoteVars
  <1>3. CASE mfail
    <2> DEFINE out == To(s, Notice("PERMFAIL"))
    <2>1. Consume(s, Home, out) /\ UNCHANGED proxies
      BY <1>3 DEF Register
    <2>2. Mute(out)
      BY NoticeMute, ToMute
    <2>3. out \in [Site -> Seq(Message)] /\ Without(out, Report)
      <3>1. Notice("PERMFAIL") \in Message /\ Notice("PERMFAIL") \notin Report
        BY NoticeMute DEF Report, Said, Notice, ToProxy
      <3> QED
        BY <3>1, ToWithout, ToType
    <2> HIDE DEF out
    <2>4. Adds(Report)
      BY <1>1, <2>1, <2>3, ConsumeSmooth, HomeAssumption DEF AInv, ManagerGets
    <2>5. Woeless
      BY <1>1, <1>2, <1>3, <2>1, <2>4 DEF Woeless, Adds, Troubled
    <2> QED
      BY <1>1, <1>2, <2>1, <2>2, <2>5, ManagerLull DEF remoteVars
  <1>4. CASE ~mfail
    <2>1. mstatus # "BOUND"
      BY <1>4
    <2>2. PICK out : Mute(out) /\ Glad(out) /\ Consume(s, Home, out)
      BY <1>4, <2>1, SilentMute, ChangesMute DEF Register
    <2>3. ASSUME Adds(Woes)
          PROVE  Woeless
      <3>1. Smooth
        BY <1>1, <2>2, ConsumeSmooth, HomeAssumption DEF AInv, ManagerGets, Mute
      <3> QED
        BY <1>1, <1>2, <2>1, <2>3, <3>1, Untroubled DEF proxyVars
    <2> QED
      BY <1>1, <1>2, <2>2, <2>3, ManagerLull DEF remoteVars
  <1> QED
    BY <1>3, <1>4

LEMMA DeregisterLull ==
    ASSUME AInv, NEW s \in Site, Deregister(s), ~ReturnsToken(s)
    PROVE  Good' /\ Agree!Next
  <1>1. /\ ManagerGets(s, "DEREGISTER") /\ Consume(s, Home, Silent)
        /\ UNCHANGED <<value, proxyVars, mstatus, mfail, remoteVars>>
        /\ history \subseteq history' /\ proxies' = proxies \ {s}
    BY DEF Deregister, entityVars, Record
  <1>2. RealRequests' /\ (NoFailRequests => NoFailRequests')
    BY <1>1 DEF AInv, Basics, RealRequests, NoFailRequests, remoteVars
  <1>3. ASSUME Adds(Woes)
        PROVE  Woeless
    <2>1. Smooth
      BY <1>1, SilentMute, ConsumeSmooth, HomeAssumption DEF AInv, ManagerGets, Mute
    <2> QED
      BY <1>1, <1>2, <1>3, <2>1, Untroubled DEF proxyVars
  <1> QED
    BY <1>1, <1>2, <1>3, SilentMute, ManagerLull DEF remoteVars

LEMMA IgnoreLateLull ==
    ASSUME AInv, NEW s \in Site, IgnoreLate(s)
    PROVE  Good' /\ Agree!Next
  <1>1. /\ CanRecv(s, Home) /\ Head1(s, Home) \notin Announcement
        /\ Consume(s, Home, Silent)
        /\ UNCHANGED <<value, proxyVars, managerVars, remoteVars, history>>
    BY DEF IgnoreLate, ManagerGets, ManagerSkips, Announcement, Said, entityVars,
           envVars
  <1> QED
    BY <1>1, SilentMute, SkipLull, HomeAssumption

(* A request that is kept.                                                 *)
LEMMA PassOnLull ==
    ASSUME AInv, NEW s \in Site, NEW t \in {"BIND", "UPDATE_REQUEST", "PERMFAIL"},
           NEW v \in Value, ManagerGets(s, t), PassOn(s, t, v),
           mstatus' # "BOUND", mstatus # "BOUND", t = "BIND" => v # Unbound
    PROVE  Good' /\ Agree!Next
  <1> DEFINE m == ToProxy(t, v)
             out == To(current, m)
  <1>1. Consume(s, Home, out)
    BY DEF PassOn
  <1>2. /\ m \in Message /\ m \notin Words
        /\ t # "PERMFAIL" => m \notin Woes
    <2>1. m \in Message /\ m.type = t /\ m.val = v
      BY ToProxyMessage DEF ProxyTypes, ToProxy
    <2> HIDE DEF m
    <2> QED
      BY <2>1, PlainWords, PlainWoes
  <1> HIDE DEF m
  <1>3. Mute(out) /\ (t # "PERMFAIL" => Glad(out))
    BY <1>2, ToMute
  <1> HIDE DEF out
  <1>4. /\ RealRequests'
        /\ t # "PERMFAIL" => (NoFailRequests => NoFailRequests')
    <2>1. requests \in Seq(Request) /\ requests' = Append(requests, [type |-> t, val |-> v])
      BY TypesOf DEF AInv, RemoteTypeOK, PassOn
    <2> DEFINE r == [type |-> t, val |-> v]
    <2>2. r \in Request /\ r.type = t /\ r.val = v
      BY DEF Request
    <2> HIDE DEF r
    <2>3. \A i \in DOMAIN requests' : requests'[i] = r \/ (i \in DOMAIN requests /\ requests'[i] = requests[i])
      BY <2>1, <2>2, AppendProperties, LenProperties DEF r
    <2> QED
      BY <2>2, <2>3 DEF AInv, Basics, RealRequests, NoFailRequests
  <1>5. UNCHANGED <<value, proxyVars, mfail, proxies, token, current, history>>
    BY DEF PassOn, entityVars, envVars
  <1>6. ASSUME NEW d \in Value, Sound(d), Glad(out) => Adds(Woes)
        PROVE  Woeless
    <2>1. CASE t = "PERMFAIL"
      BY <1>5, <1>6, <2>1, ReportOfKill DEF Woeless, AInv
    <2>2. CASE t # "PERMFAIL"
      <3>1. Smooth
        BY <1>1, <1>3, ConsumeSmooth, HomeAssumption DEF AInv, ManagerGets, Mute
      <3> QED
        BY <1>3, <1>4, <1>5, <1>6, <2>2, <3>1, Untroubled DEF proxyVars
    <2> QED
      BY <2>1, <2>2
  <1> QED
    BY <1>1, <1>3, <1>4, <1>5, <1>6, ManagerLull

LEMMA RequestLull ==
    ASSUME AInv, NEW s \in Site,
           RequestBind(s) \/ RequestUpdate(s) \/ RequestFail(s)
    PROVE  Good' /\ Agree!Next
  <1>1. CASE RequestBind(s)
    <2>1. /\ CanRecv(s, Home) /\ Head1(s, Home) \in Message
          /\ Head1(s, Home).type = "BIND" /\ Head1(s, Home).val \in Value
      BY <1>1, HeadOf, HomeAssumption DEF RequestBind, ManagerGets, AInv
    <2>2. Head1(s, Home) \notin Blank
      BY <2>1, HeadCarried, HomeAssumption DEF AInv, Basics
    <2>3. Head1(s, Home).val # Unbound
      BY <2>1, <2>2 DEF Blank
    <2> QED
      BY <1>1, <2>1, <2>3, PassOnLull DEF RequestBind, TooLate
  <1>2. CASE RequestUpdate(s)
    BY <1>2, PassOnLull, UnboundValue DEF RequestUpdate, TooLate
  <1>3. CASE RequestFail(s)
    BY <1>3, PassOnLull, UnboundValue DEF RequestFail, TooLate
  <1> QED
    BY <1>1, <1>2, <1>3

LEMMA FailLull ==
    ASSUME AInv, NEW s \in Site, Fail(s)
    PROVE  Good' /\ Agree!Next
  <1> DEFINE out == ToAll(proxies, Notice("PERMFAIL"))
  <1>1. /\ ManagerGets(s, "PERMFAIL") /\ Consume(s, Home, out)
        /\ UNCHANGED <<value, proxyVars, mstatus, token, current, history>>
        /\ requests' = <<>>
    BY DEF Fail, entityVars, envVars
  <1>2. Mute(out)
    BY NoticeMute, ToAllMute
  <1> HIDE DEF out
  <1>3. RealRequests'
    BY <1>1 DEF RealRequests
  <1>4. ASSUME NEW d \in Value, Sound(d)
        PROVE  Woeless
    BY <1>1, <1>4, ReportOfKill DEF Woeless, AInv
  <1> QED
    BY <1>1, <1>2, <1>3, <1>4, ManagerLull

LEMMA ForwardUpdateLull ==
    ASSUME AInv, NEW s \in Site, ForwardUpdate(s)
    PROVE  Good' /\ Agree!Next
  <1> DEFINE out == ToAll(proxies \ {current}, Notice("UPDATE"))
  <1>1. /\ ManagerGets(s, "UPDATE") \/ ManagerGets(s, "UPDATE_REPLY")
        /\ Consume(s, Home, out)
        /\ UNCHANGED <<value, proxyVars, managerVars, token, current, history>>
    BY DEF ForwardUpdate, entityVars, envVars
  <1>2. Mute(out) /\ Glad(out)
    BY NoticeMute, ToAllMute
  <1> HIDE DEF out
  <1>3. requests \in Seq(Request)
    BY TypesOf DEF AInv, RemoteTypeOK
  <1>4. RealRequests' /\ (NoFailRequests => NoFailRequests')
    <2>1. CASE requests' = requests
      BY <2>1 DEF AInv, Basics, RealRequests, NoFailRequests
    <2>2. CASE requests # <<>> /\ requests' = Tail(requests)
      <3>1. \A i \in DOMAIN requests' : i + 1 \in DOMAIN requests
                                        /\ requests'[i] = requests[i + 1]
        BY <1>3, <2>2, HeadTailProperties, LenProperties
      <3> QED
        BY <3>1 DEF AInv, Basics, RealRequests, NoFailRequests
    <2> QED
      BY <2>1, <2>2 DEF ForwardUpdate, NoRequest
  <1>5. ASSUME Adds(Woes)
        PROVE  Woeless
    <2>1. Smooth
      BY <1>1, <1>2, ConsumeSmooth, HomeAssumption DEF AInv, ManagerGets, Mute
    <2> QED
      BY <1>1, <1>4, <1>5, <2>1, Untroubled DEF proxyVars, managerVars
  <1> QED
    BY <1>1, <1>2, <1>4, <1>5, ManagerLull DEF managerVars

-----------------------------------------------------------------------------
(* Failures.                                                               *)

LEMMA CrashLull ==
    ASSUME AInv, NEW s \in Site, Crash(s), history \subseteq history',
           UNCHANGED <<entityVars, proxyVars, managerVars, remoteVars>>
    PROVE  Good' /\ Agree!Next
  <1>1. Smooth /\ LeadStays /\ Adds(Words) /\ Adds(Woes)
    BY CrashSmooth DEF AInv
  <1>2. RealRequests' /\ (NoFailRequests => NoFailRequests')
    BY DEF AInv, Basics, RealRequests, NoFailRequests, remoteVars
  <1>3. Lull
    BY <1>1, <1>2 DEF Lull, Steady, entityVars, proxyVars, managerVars, remoteVars
  <1>4. Woeless
    BY <1>1, <1>2, Untroubled DEF proxyVars, managerVars
  <1> QED
    BY <1>3, <1>4, LullStep DEF proxyVars

LEMMA CrashesLull ==
    ASSUME AInv, NEW s \in Site,
           PopNothing(s) \/ (SiteCrash(s) /\ UNCHANGED remoteVars)
    PROVE  Good' /\ Agree!Next
  <1>1. CASE PopNothing(s)
    BY <1>1, CrashLull, HomeAssumption DEF PopNothing, envVars
  <1>2. CASE SiteCrash(s) /\ UNCHANGED remoteVars
    <2>1. history \subseteq history'
      BY <1>2, TypesOf, SpendType DEF SiteCrash, AInv
    <2> QED
      BY <1>2, <2>1, CrashLull DEF SiteCrash
  <1> QED
    BY <1>1, <1>2

(* A proxy hears of a crash.                                               *)
LEMMA FailureSettlesProxy ==
    ASSUME AInv, NEW p \in Site, NEW s \in Site, Failure(p, s)
    PROVE  Good' /\ Agree!Next
  <1> DEFINE fails == s = Home /\ present[p] /\ status[p] # "BOUND"
  <1>1. /\ p # Home /\ CanDetect(p, s) /\ Detect(p, s, Silent) /\ alive[p]
        /\ pfail' = [pfail EXCEPT ![p] = @ \/ fails] /\ pfail \in [Site -> BOOLEAN]
        /\ UNCHANGED <<entityVars, present, status, managerVars, envVars, remoteVars>>
    BY TypesOf DEF Failure, DetectRemote, CanDetect, Idle, AInv, ProxyTypeOK
  <1>2. Smooth /\ UNCHANGED alive /\ LeadStays /\ Adds(Words) /\ Adds(Woes)
    BY <1>1, SilentMute, DetectSmooth DEF AInv, Mute, Glad
  <1>3. RealRequests' /\ (NoFailRequests => NoFailRequests')
    BY <1>1 DEF AInv, Basics, RealRequests, NoFailRequests, remoteVars
  <1>4. Lull
    BY <1>1, <1>2, <1>3
       DEF Lull, Steady, entityVars, managerVars, remoteVars, envVars
  <1>5. CASE fails
    <2>1. Woeless /\ Broken'
      BY <1>1, <1>2, <1>5 DEF CanDetect, Woeless, Broken
    <2>2. pfail' = [pfail EXCEPT ![p] = TRUE]
      BY <1>1, <1>5
    <2> QED
      BY <1>1, <1>4, <2>1, <2>2, FailureLull
  <1>6. CASE ~fails
    <2>1. pfail' = pfail
      BY <1>1, <1>6
    <2>2. Woeless
      BY <1>1, <1>2, <1>3, <2>1, Untroubled DEF managerVars
    <2> QED
      BY <1>4, <2>1, <2>2, LullStep
  <1> QED
    BY <1>5, <1>6

(* If the announcement is lost with the site that sent it, no site knows a *)
(* value any more.                                                         *)
LEMMA ValueIsLost ==
    ASSUME AInv, NEW s \in Site, DetectHome(s), s = current, mstatus # "BOUND",
           NEW d \in Value, Sound(d), Basics'
    PROVE  Sound(Unbound)'
  <1>1. PICK out \in [Site -> Seq(Message)] :
            /\ Detect(Home, s, out) /\ Without(out, Words) /\ Without(out, Report)
            /\ s \notin proxies => Without(out, Woes)
    <2> DEFINE o == ToAll(proxies \ {s}, Notice("PERMFAIL"))
    <2>1. Notice("PERMFAIL") \in Message /\ Notice("PERMFAIL") \notin Words
          /\ Notice("PERMFAIL") \notin Report
      BY NoticeMute DEF Report, Said, Notice, ToProxy
    <2>2. o \in [Site -> Seq(Message)] /\ Without(o, Words) /\ Without(o, Report)
      BY <2>1, ToAllType, ToAllWithout
    <2>3. CASE s \in proxies
      BY <2>2, <2>3 DEF DetectHome
    <2>4. CASE s \notin proxies
      <3>1. Silent \in [Site -> Seq(Message)]
        BY SilentType
      <3> QED
        BY <2>4, <3>1, SilentWithout DEF DetectHome
    <2> QED
      BY <2>3, <2>4
  <1>2. /\ CanDetect(Home, s) /\ ~alive[s] /\ mstatus' = mstatus
        /\ UNCHANGED <<value, pfail, requests, current, history>>
        /\ IF s \in proxies THEN mfail' = TRUE ELSE mfail' = mfail
    BY DEF DetectHome, CanDetect, entityVars, proxyVars, remoteVars, envVars
  <1>3. /\ Smooth /\ UNCHANGED alive /\ Adds(Words) /\ Adds(Report)
        /\ s \notin proxies => Adds(Woes)
    BY <1>1, <1>2, DetectSmooth, HomeAssumption DEF AInv
  <1>4. /\ Keeps(Redirection) /\ Keeps(Announcement) /\ Keeps(Report)
        /\ s \notin proxies => Keeps(Alarm)
    BY <1>3, KindsOfWords DEF Adds
  <1>5. Early /\ Excused(d)
    BY DEF Sound
  <1>6. \A p \in Site : alive'[p] => value'[p] = Unbound
    BY <1>2, <1>3, <1>5 DEF Early
  <1>7. NoneOf(chan', Redirection)
    BY <1>4, <1>5 DEF Early, Keeps
  <1>8. NoneOf(chan', Announcement)
    <2>1. ASSUME NEW l \in Site \X Site, Carried(chan', l, Announcement)
          PROVE  FALSE
      <3>1. l = <<s, Home>>
        BY <1>4, <1>5, <2>1 DEF Early, Keeps
      <3> DEFINE c == [chan EXCEPT ![<<s, Home>>] = <<>>]
      <3>2. /\ chan' = Sent(c, Home, out)
            /\ chan \in [Site \X Site -> Seq(Message)]
            /\ c \in [Site \X Site -> Seq(Message)]
            /\ Without(out, Announcement) /\ c[<<s, Home>>] = <<>>
        BY <1>1, TypesOf, HomeAssumption, KindsOfWords, WithoutPart
           DEF Detect, AInv, NetTypeOK
      <3> HIDE DEF c
      <3>3. Carried(c, l, Announcement)
        BY <2>1, <3>2, SentCarried, HomeAssumption
      <3> QED
        BY <3>1, <3>2, <3>3 DEF Carried
    <2> QED
      BY <2>1 DEF NoneOf, Carried
  <1>9. OneValue(Unbound)'
    <2>1. NoneOf(chan', Lies(Unbound))
      BY <1>7, <1>8 DEF NoneOf, Lies
    <2> QED
      BY <1>2, <1>6, <2>1 DEF OneValue, Lies, Announcement, Redirection, Said
  <1>10. Early'
    <2>1. NoneOf(chan, Redirection)' /\ NoneOf(chan, Announcement)'
      BY <1>7, <1>8 DEF Redirection, Announcement, Said
    <2> QED
      BY <1>6, <2>1 DEF Early, NoneOf, Carried
  <1>11. Excused(Unbound)'
    <2>1. SUFFICES ASSUME "kill" \notin history, alive[Home]
                   PROVE  /\ NoneOf(chan', Report) /\ NoFailRequests'
                          /\ Troubled' => mfail' /\ ~alive'[current']
      BY <1>2, <1>3 DEF Excused, Report, Said
    <2>2. NoneOf(chan', Report) /\ NoFailRequests'
      BY <1>2, <1>4, <1>5, <2>1 DEF Excused, Keeps, NoFailRequests
    <2>3. CASE s \in proxies
      BY <1>2, <1>3, <2>2, <2>3
    <2>4. CASE s \notin proxies
      <3>1. ASSUME Troubled'
            PROVE  Troubled
        <4>1. \/ mfail'
              \/ \E l \in Site \X Site : Carried(chan', l, Alarm)
              \/ \E p \in Site : alive'[p] /\ pfail'[p]
          BY <3>1 DEF Troubled, Alarm, Said
        <4> QED
          BY <1>2, <1>3, <1>4, <2>4, <4>1 DEF Troubled, Keeps
      <3> QED
        BY <1>2, <1>3, <1>5, <2>1, <2>2, <2>4, <3>1 DEF Excused
    <2> QED
      BY <2>3, <2>4
  <1> QED
    BY <1>9, <1>10, <1>11 DEF Sound, NoBinder, Announced

LEMMA DetectHomeStep ==
    ASSUME AInv, NEW s \in Site, DetectHome(s)
    PROVE  Good' /\ Agree!Next
  <1>1. PICK out : /\ Mute(out) /\ Detect(Home, s, out)
                   /\ ~(s = current /\ s \in proxies) => Glad(out)
    BY NoticeMute, ToAllMute, SilentMute DEF DetectHome
  <1>2. /\ CanDetect(Home, s) /\ mstatus' = mstatus
        /\ UNCHANGED <<value, proxyVars, remoteVars, history>>
        /\ proxies' \subseteq proxies
        /\ ~(s = current /\ s \in proxies) => UNCHANGED mfail
    BY DEF DetectHome, entityVars, proxyVars, envVars
  <1>3. /\ Smooth /\ UNCHANGED alive /\ Adds(Words)
        /\ s # current => LeadStays
        /\ ~(s = current /\ s \in proxies) => Adds(Woes)
    <2>1. out \in [Site -> Seq(Message)] /\ IInv /\ Basics
      BY <1>1 DEF Mute, AInv
    <2>2. /\ Smooth /\ UNCHANGED alive
          /\ <<s, Home>> # <<current, Home>> => LeadStays
          /\ \A Z : Without(out, Z) => Adds(Z)
      BY <1>1, <1>2, <2>1, DetectSmooth, HomeAssumption
    <2> QED
      BY <1>1, <2>2 DEF Mute, Glad
  <1>4. RealRequests' /\ (NoFailRequests => NoFailRequests')
    BY <1>2 DEF AInv, Basics, RealRequests, NoFailRequests, remoteVars
  <1>5. Steady
    BY <1>2, <1>3, <1>4 DEF Steady, proxyVars
  <1>6. CASE s # current \/ mstatus = "BOUND"
    <2>1. Lull
      BY <1>2, <1>3, <1>5, <1>6 DEF Lull, remoteVars
    <2>2. ASSUME NEW d \in Value, Sound(d)
          PROVE  Woeless
      <3>1. CASE s = current /\ s \in proxies
        <4>1. "kill" \in history
          BY <1>2, <1>6, <2>2, <3>1 DEF Sound, Excused, CanDetect, Idle
        <4> QED
          BY <1>2, <4>1 DEF Woeless
      <3>2. CASE ~(s = current /\ s \in proxies)
        BY <1>2, <1>3, <1>4, <3>2, Untroubled DEF proxyVars
      <3> QED
        BY <3>1, <3>2
    <2> QED
      BY <1>2, <2>1, <2>2, LullStep DEF proxyVars
  <1>7. CASE s = current /\ mstatus # "BOUND"
    <2>1. Basics'
      BY <1>5, SteadyBasics DEF AInv
    <2>2. Onward
      BY <1>2, <1>3 DEF Onward, Smooth
    <2>3. Agree!Next
      BY <1>2, <2>2, OutcomeStays DEF proxyVars
    <2>4. \A d \in Value : Sound(d) => Sound(Unbound)'
      BY <1>7, <2>1, ValueIsLost
    <2> QED
      BY <2>1, <2>2, <2>3, <2>4, Conclude, UnboundValue
  <1> QED
    BY <1>6, <1>7

-----------------------------------------------------------------------------
(* The token moves.                                                        *)

LEMMA NoWordOfValue ==
    ASSUME Basics, Sound(Unbound)
    PROVE  /\ NoneOf(chan, Announcement) /\ NoneOf(chan, Redirection)
           /\ mstatus # "BOUND"
           /\ \A p \in Site : alive[p] => value[p] = Unbound
  <1>1. /\ NoneOf(chan, Lies(Unbound)) /\ NoneOf(chan, Blank)
        /\ mstatus # "BOUND" /\ NoneOf(chan, Redirection)
    BY DEF Sound, OneValue, Early, Basics
  <1>2. Announcement \subseteq Lies(Unbound) \cup Blank
    BY DEF Lies, Blank, Announcement, Said
  <1>3. NoneOf(chan, Announcement)
    BY <1>1, <1>2 DEF NoneOf
  <1> QED
    BY <1>1, <1>3 DEF Sound, OneValue

(* As long as there is no value it does not matter where the token is.     *)
LEMMA NoValueYet ==
    ASSUME Basics, Sound(Unbound), Smooth, history \subseteq history',
           UNCHANGED <<value, mstatus, mfail, pfail, requests>>,
           Keeps(Announcement), Keeps(Redirection),
           "kill" \notin history /\ alive[Home] =>
               Keeps(Report) /\ Keeps(Alarm) /\ ~Troubled
    PROVE  Sound(Unbound)'
  <1>1. /\ NoneOf(chan', Announcement) /\ NoneOf(chan', Redirection)
        /\ mstatus' # "BOUND"
        /\ \A p \in Site : alive'[p] => value'[p] = Unbound
    BY NoWordOfValue DEF Keeps, Smooth
  <1>2. OneValue(Unbound)'
    <2>1. NoneOf(chan', Lies(Unbound))
      BY <1>1 DEF NoneOf, Lies
    <2> QED
      BY <1>1, <2>1 DEF OneValue, Lies, Announcement, Redirection, Said
  <1>3. Early'
    <2>1. NoneOf(chan, Redirection)' /\ NoneOf(chan, Announcement)'
      BY <1>1 DEF Redirection, Announcement, Said
    <2> QED
      BY <1>1, <2>1 DEF Early, NoneOf, Carried
  <1>4. Excused(Unbound)'
    <2>1. SUFFICES ASSUME "kill" \notin history, alive[Home]
                   PROVE  NoneOf(chan', Report) /\ NoFailRequests' /\ ~Troubled'
      BY <1>1, HomeAssumption DEF Excused, Report, Said, Smooth
    <2>2. NoneOf(chan', Report) /\ NoFailRequests'
      BY <2>1 DEF Sound, Excused, Keeps, NoFailRequests
    <2>3. ~Troubled'
      <3>1. SUFFICES ASSUME Troubled'
                     PROVE  Troubled
        BY <2>1
      <3>2. \/ mfail'
            \/ \E l \in Site \X Site : Carried(chan', l, Alarm)
            \/ \E p \in Site : alive'[p] /\ pfail'[p]
        BY <3>1 DEF Troubled, Alarm, Said
      <3> QED
        BY <2>1, <3>2 DEF Troubled, Keeps, Smooth
    <2> QED
      BY <2>2, <2>3
  <1> QED
    BY <1>2, <1>3, <1>4 DEF Sound, NoBinder, Announced

(* What holds whatever happens to the token, when it moves.                *)
LEMMA TokenMoves ==
    ASSUME Basics, Smooth, Keeps(Blank), Keeps(HomeBound), Keeps(Empty),
           Keeps(Bye), UNCHANGED <<value, proxyVars, mstatus, requests>>
    PROVE  Basics'
  <1>1. \A l \in Site \X Site :
           /\ Carried(chan', l, HomeBound) => value'[Home] # Unbound
           /\ Carried(chan', l, Empty) => pfail'[Home]
    BY DEF Basics, Keeps, proxyVars
  <1>2. ~Deregistering(Home)' /\ AbsentBlank' /\ RealRequests'
    BY ByeKept DEF Basics, AbsentBlank, RealRequests, proxyVars
  <1>3. /\ mstatus' = "BOUND" => value'[Home] # Unbound \/ pfail'[Home]
        /\ \A p \in Site : p # Home /\ value'[p] # Unbound => status'[p] = "BOUND"
    BY DEF Basics, proxyVars
  <1> QED
    BY <1>1, <1>2, <1>3, BasicsKept

LEMMA GiveTokenStep ==
    ASSUME AInv, NEW q \in Site, ExportHome(q), GivesToken(q)
    PROVE  Good' /\ Agree!Next
  <1> DEFINE rest == Both(ChangesOut(q), ForwardOut(q))
             ref == Reference("TOKEN")
             out == Both(To(q, ref), rest)
  <1>1. /\ Emit(Home, out) /\ current = Home /\ value[Home] = Unbound
        /\ UNCHANGED <<value, proxyVars, mstatus, mfail, requests>>
        /\ alive[Home]
    BY DEF ExportHome, SetCurrent, MayExport, GivesToken, entityVars, Emit, Idle
  <1>2. Mute(rest) /\ (NoFailRequests => Glad(rest))
    BY TypesOf, ChangesMute, ForwardMute, BothMute DEF AInv, Basics
  <1>3. ref \in Message /\ \A Z : ref \notin Z => Without(To(q, ref), Z)
    BY ReferenceMessage, ToWithout
  <1>4. /\ ref \notin Blank /\ ref \notin HomeBound /\ ref \notin Empty
        /\ ref \notin Bye /\ ref \notin Announcement /\ ref \notin Redirection
        /\ ref \notin Report /\ ref \notin Alarm
    BY DEF Reference, Blank, HomeBound, Empty, Bye, Announcement, Redirection,
           Said, ToManager, Report, Alarm
  <1> HIDE DEF ref, rest
  <1>5. /\ To(q, ref) \in [Site -> Seq(Message)] /\ rest \in [Site -> Seq(Message)]
        /\ out \in [Site -> Seq(Message)]
    BY <1>2, <1>3, ToType, BothType DEF Mute
  <1>6. \A Z : ref \notin Z /\ Without(rest, Z) => Without(out, Z)
    BY <1>3, <1>5, BothWithout
  <1>7. /\ Without(rest, Blank) /\ Without(rest, HomeBound) /\ Without(rest, Empty)
        /\ Without(rest, Bye) /\ Without(rest, Announcement)
        /\ Without(rest, Redirection)
        /\ NoFailRequests => Without(rest, Report) /\ Without(rest, Alarm)
    BY <1>2, KindsOfWords, WithoutPart DEF Mute, Glad
  <1> HIDE DEF out
  <1>8. Smooth /\ \A Z : Without(out, Z) => Keeps(Z)
    BY <1>1, <1>5, EmitSmooth, HomeAssumption DEF AInv, Adds
  <1>9. Basics'
    BY <1>1, <1>4, <1>6, <1>7, <1>8, TokenMoves DEF AInv
  <1>10. history \subseteq history'
    BY TypesOf, SpendType DEF ExportHome, MayExport, AInv
  <1>11. Onward
    BY <1>8, <1>10 DEF Onward, Smooth
  <1>12. Agree!Next
    BY <1>1, <1>11, OutcomeStays DEF proxyVars
  <1>13. ASSUME NEW d \in Value, Sound(d)
         PROVE  Sound(Unbound)'
    <2>1. d = Unbound
      BY <1>1, <1>13 DEF Sound, Announced
    <2>2. Keeps(Announcement) /\ Keeps(Redirection)
      BY <1>4, <1>6, <1>7, <1>8
    <2>3. ASSUME "kill" \notin history
          PROVE  Keeps(Report) /\ Keeps(Alarm) /\ ~Troubled
      BY <1>1, <1>4, <1>6, <1>7, <1>8, <1>13, <2>3 DEF Sound, Excused
    <2> QED
      BY <1>1, <1>8, <1>10, <1>13, <2>1, <2>2, <2>3, NoValueYet DEF AInv, proxyVars
  <1> QED
    BY <1>9, <1>11, <1>12, <1>13, Conclude, UnboundValue

(* The proxy with the token has left without a word about the value: an    *)
(* announcement would be ahead of the deregistration.                      *)
LEMMA TakeBackStep ==
    ASSUME AInv, NEW s \in Site, Deregister(s), ReturnsToken(s)
    PROVE  Good' /\ Agree!Next
  <1> DEFINE out == ForwardOut(Home)
  <1>1. /\ CanRecv(s, Home) /\ Consume(s, Home, out) /\ alive[Home]
        /\ s = current /\ ~mfail /\ mstatus # "BOUND"
        /\ Head1(s, Home).type = "DEREGISTER" /\ Head1(s, Home).to = "manager"
        /\ UNCHANGED <<value, proxyVars, mstatus, mfail, requests>>
        /\ history \subseteq history'
    BY DEF Deregister, ReturnsToken, ManagerGets, CanRecv, SetCurrent,
           entityVars, Record
  <1>2. Mute(out) /\ (NoFailRequests => Glad(out))
    BY TypesOf, ForwardMute DEF AInv, Basics
  <1> HIDE DEF out
  <1>3. Smooth /\ \A Z : Without(out, Z) => Adds(Z)
    BY <1>1, <1>2, ConsumeSmooth, HomeAssumption DEF AInv, Mute
  <1>4. /\ Keeps(Blank) /\ Keeps(HomeBound) /\ Keeps(Empty) /\ Keeps(Bye)
        /\ Keeps(Announcement) /\ Keeps(Redirection)
        /\ NoFailRequests => Keeps(Report) /\ Keeps(Alarm)
    BY <1>2, <1>3, KindsOfWords DEF Adds, Mute, Glad
  <1>5. Basics'
    BY <1>1, <1>3, <1>4, TokenMoves DEF AInv
  <1>6. Onward
    BY <1>1, <1>3 DEF Onward, Smooth
  <1>7. Agree!Next
    BY <1>1, <1>6, OutcomeStays DEF proxyVars
  <1>8. Head1(s, Home) \in Bye
    <2>1. Head1(s, Home) \in Deregistration
      BY <1>1, HeadOf, HomeAssumption DEF Deregistration, AInv
    <2>2. Head1(s, Home) \notin Odd
      BY <1>1, HeadCarried, HomeAssumption DEF AInv, IInv, Departed
    <2> QED
      BY <2>1, <2>2 DEF Odd
  <1>9. s # Home
    <2>1. Carried(chan, <<s, Home>>, Bye)
      BY <1>1, <1>8, HeadCarried, HomeAssumption DEF AInv
    <2> QED
      BY <2>1 DEF AInv, Basics, Deregistering, Bye
  <1>10. ASSUME NEW d \in Value, Sound(d)
         PROVE  Sound(Unbound)'
    <2>1. d = Unbound
      <3>1. SUFFICES ASSUME d # Unbound
                     PROVE  FALSE
        OBVIOUS
      <3>2. Lead(chan, s)
        BY <1>1, <1>9, <1>10, <3>1 DEF Sound, Announced
      <3>3. chan \in Channels(Message) /\ chan[<<s, Home>>] # <<>>
        BY <1>1, TypesOf DEF AInv, NetTypeOK, Channels, CanRecv
      <3> QED
        BY <1>8, <3>2, <3>3, LeadHead DEF Head1
    <2>2. ASSUME "kill" \notin history
          PROVE  Keeps(Report) /\ Keeps(Alarm) /\ ~Troubled
      BY <1>1, <1>4, <1>10, <2>2 DEF Sound, Excused
    <2> QED
      BY <1>1, <1>3, <1>4, <1>10, <2>1, <2>2, NoValueYet DEF AInv, proxyVars
  <1> QED
    BY <1>5, <1>6, <1>7, <1>10, Conclude, UnboundValue

-----------------------------------------------------------------------------
(* Proxies come and go.                                                    *)

LEMMA DeleteProxyForgets ==
    ASSUME AInv, NEW p \in Site, DeleteProxy(p)
    PROVE  Good' /\ Agree!Next
  <1> DEFINE out == DeregisterOut(p)
  <1>1. /\ Emit(p, out) /\ p # Home /\ UNCHANGED <<managerVars, current, requests>>
        /\ value \in [Site -> Value] /\ value' = [value EXCEPT ![p] = Unbound]
        /\ pfail \in [Site -> BOOLEAN] /\ pfail' = [pfail EXCEPT ![p] = FALSE]
        /\ present \in [Site -> BOOLEAN] /\ present' = [present EXCEPT ![p] = FALSE]
        /\ token \in [Site -> BOOLEAN] /\ token' = [token EXCEPT ![p] = FALSE]
        /\ status \in [Site -> {"FREE", "WAITING", "BOUND"}]
        /\ status' = [status EXCEPT ![p] = "FREE"]
    BY TypesOf DEF DeleteProxy, DeleteVariable, Collectable, AInv, EntityTypeOK,
                   ProxyTypeOK, RemoteTypeOK
  <1>2. history \subseteq history'
    BY TypesOf, SpendType DEF DeleteProxy, AInv
  <1>3. /\ out \in [Site -> Seq(Message)] /\ Without(out, Announcement)
        /\ Without(out, HomeBound) /\ Without(out, Redirection)
        /\ Without(out, Blank) /\ Without(out, Tok)
        /\ Without(out, Report) /\ Without(out, Alarm)
    <2> DEFINE m == ToManager("DEREGISTER", Unbound)
    <2>1. m \in Message
      BY ToManagerMessage, UnboundValue DEF ManagerTypes
    <2>2. /\ m \notin Announcement /\ m \notin HomeBound /\ m \notin Redirection
          /\ m \notin Blank /\ m \notin Tok /\ m \notin Report /\ m \notin Alarm
      BY DEF Announcement, HomeBound, Redirection, Blank, Tok, Report, Alarm, Said,
             Reference, ToManager
    <2> HIDE DEF m
    <2> QED
      BY <2>1, <2>2, ToType, ToWithout, SilentType, SilentWithout
         DEF DeregisterOut, sendToManager, m
  <1> HIDE DEF out
  <1>4. /\ Smooth /\ LeadStays /\ UNCHANGED alive
        /\ \A Z : Without(out, Z) => Adds(Z)
    BY <1>1, <1>3, EmitSmooth DEF AInv
  <1>5. /\ Keeps(Announcement) /\ Keeps(HomeBound) /\ Keeps(Redirection)
        /\ Keeps(Blank) /\ Keeps(Empty) /\ Keeps(Tok)
        /\ Keeps(Report) /\ Keeps(Alarm)
    BY <1>3, <1>4 DEF Adds, Empty
  <1>6. ~Deregistering(Home)'
    <2>1. chan'[<<Home, Home>>] = chan[<<Home, Home>>]
      BY <1>1, HomeAssumption DEF Emit, Sent
    <2> QED
      BY <2>1 DEF Deregistering, Carried, AInv, Basics
  <1>7. Basics'
    <2>1. RealRequests' /\ AbsentBlank'
      BY <1>1, HomeAssumption DEF AInv, Basics, RealRequests, AbsentBlank
    <2>2. /\ mstatus' = "BOUND" => value'[Home] # Unbound \/ pfail'[Home]
          /\ \A q \in Site : q # Home /\ value'[q] # Unbound => status'[q] = "BOUND"
      BY <1>1 DEF AInv, Basics, managerVars
    <2>3. \A l \in Site \X Site :
             /\ Carried(chan', l, HomeBound) => value'[Home] # Unbound
             /\ Carried(chan', l, Empty) => pfail'[Home]
      BY <1>1, <1>5 DEF AInv, Basics, Keeps
    <2> QED
      BY <1>4, <1>5, <1>6, <2>1, <2>2, <2>3, BasicsKept DEF AInv
  <1>8. Onward
    BY <1>2, <1>4 DEF Onward
  <1>9. Agree!Next
    BY <1>1, <1>8, OutcomeForgotten
  <1>10. \A q \in Site : Binder(q)' => Binder(q)
    <2>1. \A q \in Site : TokenSent(q)' => TokenSent(q)
      BY <1>5, HomeAssumption DEF TokenSent, Keeps, Tok
    <2>2. \A q \in Site : HasToken(q)' /\ status'[q] # "BOUND"
                            => HasToken(q) /\ status[q] # "BOUND"
      BY <1>1 DEF HasToken
    <2> QED
      BY <2>1, <2>2 DEF Binder
  <1>11. ASSUME NEW d \in Value
         PROVE  Mild(d)
    <2>1. Keeps(Lies(d))
      <3>1. Without(out, Lies(d))
        BY <1>3 DEF Without, Lies
      <3> QED
        BY <1>4, <3>1 DEF Adds
    <2> QED
      BY <1>1, <1>2, <1>4, <1>5, <1>10, <2>1, HomeAssumption DEF Mild, managerVars
  <1>12. Woeless
    <2>1. NoFailRequests => NoFailRequests'
      BY <1>1 DEF NoFailRequests
    <2>2. ASSUME Troubled'
          PROVE  Troubled
      <3>1. \/ mfail'
            \/ \E l \in Site \X Site : Carried(chan', l, Alarm)
            \/ \E q \in Site : alive'[q] /\ pfail'[q]
        BY <2>2 DEF Troubled, Alarm, Said
      <3> QED
        BY <1>1, <1>4, <1>5, <3>1 DEF Troubled, Keeps, managerVars
    <2> QED
      BY <1>1, <1>5, <2>1, <2>2 DEF Woeless, managerVars
  <1>13. \A d \in Value : Sound(d) => Sound(d)'
    BY <1>11, <1>12, MildSound DEF AInv
  <1> QED
    BY <1>7, <1>8, <1>9, <1>13, Conclude

(* The reference that brings the token was what could bind.                *)
LEMMA ImportProxySettles ==
    ASSUME AInv, NEW s \in Site, NEW p \in Site, ImportProxy(s, p)
    PROVE  Good' /\ Agree!Next
  <1> DEFINE m == Head1(s, p)
             out == IF m.val = "MANUAL"
                    THEN sendToManager("REGISTER", Unbound) ELSE Silent
             gets == m.val = "TOKEN"
             lost == Home \in perm[p]
  <1>1. /\ CanRecv(s, p) /\ Consume(s, p, out) /\ ~present[p] /\ alive[p]
        /\ m.type = "REFERENCE"
        /\ UNCHANGED <<value, managerVars, current, requests>>
        /\ pfail \in [Site -> BOOLEAN] /\ pfail' = [pfail EXCEPT ![p] = lost]
        /\ present \in [Site -> BOOLEAN] /\ present' = [present EXCEPT ![p] = TRUE]
        /\ token \in [Site -> BOOLEAN] /\ token' = [token EXCEPT ![p] = gets]
        /\ status \in [Site -> {"FREE", "WAITING", "BOUND"}]
        /\ status' = [status EXCEPT ![p] = "FREE"]
        /\ history \subseteq history'
    BY TypesOf DEF ImportProxy, CreateProxy, GetsReference, CanRecv, AInv,
                   ProxyTypeOK, RemoteTypeOK, entityVars, Record
  <1>2. Mute(out) /\ Glad(out)
    BY SendMute, SilentMute
  <1>3. m \notin Announcement
    BY <1>1 DEF Announcement, Said
  <1>4. gets => TokenSent(p)
    <2>1. ASSUME gets
          PROVE  Carried(chan, <<s, p>>, Tok)
      <3>1. m \in Tok
        BY <1>1, <2>1, HeadOf DEF Tok, Reference, AInv
      <3> QED
        BY <1>1, <3>1, HeadCarried DEF AInv
    <2> QED
      BY <2>1 DEF AInv, IInv, TokenOrigin, TokenSent, Tok
  <1>5. lost => ~alive[Home]
    BY HomeAssumption DEF AInv, Basics, Detected
  <1> HIDE DEF gets, out, lost
  <1>6. Smooth /\ LeadStays /\ UNCHANGED alive /\ Adds(Words) /\ Adds(Woes)
    BY <1>1, <1>2, <1>3, ConsumeSmooth DEF AInv, Mute, Glad
  <1>7. value[p] = Unbound /\ ~pfail[p] /\ p # Home
    BY <1>1 DEF AInv, Basics, AbsentBlank
  <1>8. Basics'
    <2>1. /\ Keeps(Blank) /\ Keeps(HomeBound) /\ Keeps(Empty) /\ Keeps(Bye)
      BY <1>6, KindsOfWords DEF Adds
    <2>2. RealRequests' /\ AbsentBlank'
      BY <1>1, HomeAssumption DEF AInv, Basics, RealRequests, AbsentBlank
    <2>3. \A l \in Site \X Site :
             /\ Carried(chan', l, HomeBound) => value'[Home] # Unbound
             /\ Carried(chan', l, Empty) => pfail'[Home]
      BY <1>1, <1>7, <2>1 DEF AInv, Basics, Keeps
    <2>4. ~Deregistering(Home)'
      BY <2>1, ByeKept DEF AInv, Basics
    <2>5. /\ mstatus' = "BOUND" => value'[Home] # Unbound \/ pfail'[Home]
          /\ \A q \in Site : q # Home /\ value'[q] # Unbound => status'[q] = "BOUND"
      BY <1>1, <1>7 DEF AInv, Basics, managerVars
    <2> QED
      BY <1>6, <2>1, <2>2, <2>3, <2>4, <2>5, BasicsKept DEF AInv
  <1>9. Onward
    BY <1>1, <1>6 DEF Onward, Smooth
  <1>10. Agree!Next
    <2>1. CASE lost
      <3>1. pfail' = [pfail EXCEPT ![p] = TRUE] /\ Broken'
        BY <1>1, <1>5, <1>6, <2>1 DEF Broken
      <3> QED
        BY <1>1, <1>9, <3>1, FailureSettles
    <2>2. CASE ~lost
      <3>1. pfail' = pfail
        BY <1>1, <1>7, <2>2 DEF lost
      <3> QED
        BY <1>1, <1>9, <3>1, OutcomeStays
    <2> QED
      BY <2>1, <2>2
  <1>11. \A q \in Site : Binder(q)' => Binder(q)
    <2>1. \A q \in Site : TokenSent(q)' => TokenSent(q)
      <3>1. Keeps(Tok)
        BY <1>6, KindsOfWords DEF Adds
      <3> QED
        BY <3>1, HomeAssumption DEF TokenSent, Keeps, Tok
    <2>2. \A q \in Site : q # p /\ HasToken(q)' /\ status'[q] # "BOUND"
                            => HasToken(q) /\ status[q] # "BOUND"
      BY <1>1 DEF HasToken
    <2>3. HasToken(p)' => TokenSent(p)
      BY <1>1, <1>4 DEF HasToken
    <2> QED
      BY <2>1, <2>2, <2>3 DEF Binder
  <1>12. ASSUME NEW d \in Value
         PROVE  Mild(d)
    <2>1. Keeps(Lies(d)) /\ Keeps(Redirection) /\ Keeps(Announcement)
      BY <1>6, KindsOfWords DEF Adds
    <2> QED
      BY <1>1, <1>6, <1>11, <2>1, HomeAssumption DEF Mild, managerVars
  <1>13. Woeless
    <2>1. CASE ~alive[Home]
      BY <1>6, <2>1 DEF Woeless
    <2>2. CASE alive[Home]
      <3>1. pfail' = pfail
        BY <1>1, <1>5, <1>7, <2>2 DEF lost
      <3>2. NoFailRequests => NoFailRequests'
        BY <1>1 DEF NoFailRequests
      <3> QED
        BY <1>1, <1>6, <3>1, <3>2, Untroubled DEF managerVars
    <2> QED
      BY <2>1, <2>2
  <1>14. \A d \in Value : Sound(d) => Sound(d)'
    BY <1>12, <1>13, MildSound DEF AInv
  <1> QED
    BY <1>8, <1>9, <1>10, <1>14, Conclude

-----------------------------------------------------------------------------
(* The value becomes known.                                                *)

(* Once the manager knows the value, or has just learnt it.                *)
LEMMA KnownSound ==
    ASSUME NEW d \in Value, d # Unbound, Sound(d), Smooth,
           history \subseteq history', mstatus' = "BOUND",
           UNCHANGED <<current, mfail, pfail>>,
           \A p \in Site : value'[p] \in {value[p], d},
           \A p \in Site : Binder(p)' => Binder(p),
           Keeps(Lies(d)), Keeps(Report), Keeps(Alarm),
           NoFailRequests => NoFailRequests',
           "kill" \notin history /\ alive[Home] =>
               proxies' = {} /\ value'[Home] # Unbound
    PROVE  Sound(d)'
  <1> USE DEF Sound
  <1>1. OneValue(d)'
    <2>1. NoneOf(chan', Lies(d))
      BY DEF OneValue, Keeps
    <2>2. \A p \in Site : alive'[p] => value'[p] \in {Unbound, d}
      BY DEF OneValue, Smooth
    <2> QED
      BY <2>1, <2>2 DEF OneValue, Lies, Announcement, Redirection, Said
  <1>2. NoBinder(d)' /\ Early'
    BY DEF NoBinder, Early, Smooth
  <1>3. Announced(d)'
    BY HomeAssumption DEF Announced
  <1>4. Excused(d)'
    <2>1. SUFFICES ASSUME "kill" \notin history, alive[Home]
                   PROVE  /\ NoneOf(chan', Report) /\ NoFailRequests'
                          /\ ~Troubled' /\ proxies' = {} /\ value'[Home] # Unbound
      BY HomeAssumption DEF Excused, Report, Said, Smooth
    <2>2. NoneOf(chan', Report) /\ NoFailRequests' /\ ~Troubled
      BY <2>1 DEF Excused, Keeps
    <2>3. ~Troubled'
      <3>1. SUFFICES ASSUME Troubled'
                     PROVE  Troubled
        BY <2>2
      <3>2. \/ mfail'
            \/ \E l \in Site \X Site : Carried(chan', l, Alarm)
            \/ \E p \in Site : alive'[p] /\ pfail'[p]
        BY <3>1 DEF Troubled, Alarm, Said
      <3> QED
        BY <3>2 DEF Troubled, Keeps, Smooth
    <2> QED
      BY <2>1, <2>2, <2>3
  <1> QED
    BY <1>1, <1>2, <1>3, <1>4

LEMMA KnownAgrees ==
    ASSUME NEW d \in Value, d # Unbound, Sound(d), Onward, NEW p \in Site,
           alive[p], ~pfail[p], value \in [Site -> Value],
           value' = [value EXCEPT ![p] = d], UNCHANGED pfail
    PROVE  Agree!Next
  <1>1. value[p] \in {Unbound, d} /\ d \in Site
    BY DEF Sound, OneValue, Value
  <1>2. CASE value[p] = d
    <2>1. value' = value
      BY <1>2
    <2> QED
      BY <2>1, OutcomeStays
  <1>3. CASE value[p] = Unbound
    <2>1. ASSUME NEW q \in Site, alive[q], pfail[q]
          PROVE  Broken'
      <3>1. Troubled
        BY <2>1 DEF Troubled
      <3>2. Broken
        BY <3>1 DEF Sound, Excused, Broken
      <3> QED
        BY <3>2, HomeAssumption DEF Broken, Onward
    <2> QED
      BY <1>1, <1>3, <2>1, ValueSettles DEF Sound, OneValue
  <1> QED
    BY <1>1, <1>2, <1>3

(* A proxy is told the value, which the manager knows.                     *)
LEMMA GetRedirectSettles ==
    ASSUME AInv, NEW s \in Site, NEW p \in Site, GetRedirect(s, p),
           Head1(s, p).type # "BOUND"
    PROVE  Good' /\ Agree!Next
  <1> DEFINE m == Head1(s, p)
             v == m.val
  <1>1. /\ CanRecv(s, p) /\ Consume(s, p, Silent) /\ alive[p]
        /\ present[p] /\ ~pfail[p] /\ status[p] # "BOUND"
        /\ value \in [Site -> Value] /\ value' = [value EXCEPT ![p] = v]
        /\ status \in [Site -> {"FREE", "WAITING", "BOUND"}]
        /\ status' = [status EXCEPT ![p] = "BOUND"]
        /\ UNCHANGED <<present, pfail, managerVars, remoteVars, history>>
        /\ m.to = "proxy" /\ m.type = "REDIRECT"
    BY TypesOf DEF GetRedirect, ProxyGets, CanRecv, BindVariable, AInv,
                   EntityTypeOK, ProxyTypeOK, envVars
  <1>2. m \in Redirection /\ m \notin Announcement /\ v \in Value
    BY <1>1, HeadOf DEF AInv, Redirection, Announcement, Said
  <1>3. Carried(chan, <<s, p>>, Redirection) /\ \A K : m \in K => ~NoneOf(chan, K)
    BY <1>1, <1>2, HeadCarried DEF AInv
  <1>4. /\ Smooth /\ UNCHANGED alive /\ \A Z : Adds(Z)
    <2>1. Silent \in [Site -> Seq(Message)]
      BY SilentType
    <2> QED
      BY <1>1, <2>1, ConsumeSmooth, SilentWithout DEF AInv
  <1>5. \A K : Keeps(K)
    BY <1>4 DEF Adds
  <1>6. v = Unbound => pfail[Home] /\ p # Home
    <2>1. ASSUME v = Unbound
          PROVE  Carried(chan, <<s, p>>, Empty)
      BY <1>1, <1>2, <2>1, HeadCarried DEF AInv, Empty
    <2> QED
      BY <1>1, <2>1 DEF AInv, Basics
  <1>7. p # Home => value[p] = Unbound
    BY <1>1 DEF AInv, Basics
  <1> HIDE DEF m, v
  <1>8. Basics'
    <2>1. value[Home] # Unbound => value'[Home] # Unbound
      BY <1>1, <1>6, HomeAssumption
    <2>2. \A l \in Site \X Site :
             /\ Carried(chan', l, HomeBound) => value'[Home] # Unbound
             /\ Carried(chan', l, Empty) => pfail'[Home]
      BY <1>1, <1>5, <2>1 DEF AInv, Basics, Keeps
    <2>3. /\ mstatus' = "BOUND" => value'[Home] # Unbound \/ pfail'[Home]
          /\ \A q \in Site : q # Home /\ value'[q] # Unbound => status'[q] = "BOUND"
      BY <1>1, <2>1 DEF AInv, Basics, managerVars
    <2>4. ~Deregistering(Home)' /\ RealRequests'
      BY <1>1, <1>5, ByeKept DEF AInv, Basics, RealRequests, remoteVars
    <2>5. AbsentBlank'
      BY <1>1 DEF AInv, Basics, AbsentBlank
    <2> QED
      BY <1>4, <1>5, <2>2, <2>3, <2>4, <2>5, BasicsKept DEF AInv
  <1>9. Onward
    BY <1>1, <1>4 DEF Onward
  <1>10. ASSUME NEW d \in Value, Sound(d)
         PROVE  Sound(d)' /\ Agree!Next
    <2>1. mstatus = "BOUND" /\ d # Unbound
      BY <1>2, <1>3, <1>10 DEF Sound, Early, OneValue
    <2>2. v \in {Unbound, d}
      <3>1. m \notin Lies(d)
        BY <1>3, <1>10 DEF Sound, OneValue
      <3> QED
        BY <1>2, <3>1 DEF Lies, v
    <2>3. \A q \in Site : value'[q] \in {value[q], d}
      BY <1>1, <1>6, <1>7, <2>2
    <2>4. \A q \in Site : Binder(q)' => Binder(q)
      <3>1. \A q \in Site : TokenSent(q)' => TokenSent(q)
        BY <1>5, HomeAssumption DEF TokenSent, Keeps
      <3>2. \A q \in Site : HasToken(q)' /\ status'[q] # "BOUND"
                              => HasToken(q) /\ status[q] # "BOUND"
        BY <1>1 DEF HasToken, remoteVars
      <3> QED
        BY <3>1, <3>2 DEF Binder
    <2>5. "kill" \notin history /\ alive[Home] =>
              proxies' = {} /\ value'[Home] # Unbound
      BY <1>1, <1>10, <2>1, <2>3, HomeAssumption DEF Sound, Excused, managerVars
    <2>6. NoFailRequests => NoFailRequests'
      BY <1>1 DEF NoFailRequests, remoteVars
    <2>7. Sound(d)'
      BY <1>1, <1>4, <1>5, <1>10, <2>1, <2>3, <2>4, <2>5, <2>6, KnownSound
         DEF managerVars, remoteVars
    <2>8. CASE v = d
      BY <1>1, <1>9, <1>10, <2>1, <2>7, <2>8, KnownAgrees
    <2>9. CASE v = Unbound
      <3>1. value' = value
        BY <1>1, <1>6, <1>7, <2>9
      <3> QED
        BY <1>1, <1>9, <2>7, <3>1, OutcomeStays
    <2> QED
      BY <2>2, <2>8, <2>9
  <1> QED
    BY <1>8, <1>9, <1>10, Conclude

(* A proxy that registers late is told the value.                          *)
LEMMA RegisterBound ==
    ASSUME AInv, NEW s \in Site, Register(s), ~mfail, mstatus = "BOUND"
    PROVE  Good' /\ Agree!Next
  <1> DEFINE m == ToProxy("REDIRECT", value[Home])
             out == To(s, m)
  <1>1. /\ CanRecv(s, Home) /\ Consume(s, Home, out) /\ alive[Home]
        /\ UNCHANGED <<value, proxyVars, managerVars, remoteVars, history>>
    BY DEF Register, ManagerGets, CanRecv, entityVars, managerVars, envVars
  <1>2. /\ m \in Message /\ m.to = "proxy" /\ m.type = "REDIRECT"
        /\ m.val = value[Home]
    BY TypesOf, ToProxyMessage, HomeAssumption
       DEF AInv, EntityTypeOK, ProxyTypes, ToProxy
  <1>3. /\ m \notin Blank /\ m \notin HomeBound /\ m \notin Bye /\ m \notin Tok
        /\ m \notin Report /\ m \notin Alarm
        /\ \A d : value[Home] \in {Unbound, d} => m \notin Lies(d)
        /\ value[Home] # Unbound => m \notin Empty
    BY <1>2 DEF Blank, HomeBound, Bye, Tok, Report, Alarm, Lies, Empty,
                Announcement, Redirection, Said, ToManager, Reference
  <1> HIDE DEF m
  <1>4. out \in [Site -> Seq(Message)] /\ \A K : m \notin K => Without(out, K)
    BY <1>2, ToType, ToWithout
  <1> HIDE DEF out
  <1>5. /\ Smooth /\ UNCHANGED alive
        /\ \A K : m \notin K => Keeps(K)
    <2>1. \A Z : Without(out, Z) => Adds(Z)
      BY <1>1, <1>4, ConsumeSmooth, HomeAssumption DEF AInv
    <2> QED
      BY <1>1, <1>4, <2>1, ConsumeSmooth, HomeAssumption DEF AInv, Adds
  <1>6. Basics'
    <2>1. Keeps(HomeBound) /\ Keeps(Bye) /\ Keeps(Blank)
          /\ (value[Home] # Unbound => Keeps(Empty))
      BY <1>3, <1>5
    <2>2. \A l \in Site \X Site :
             /\ Carried(chan', l, HomeBound) => value'[Home] # Unbound
             /\ Carried(chan', l, Empty) => pfail'[Home]
      BY <1>1, <2>1 DEF AInv, Basics, Keeps, proxyVars
    <2>3. /\ mstatus' = "BOUND" => value'[Home] # Unbound \/ pfail'[Home]
          /\ \A q \in Site : q # Home /\ value'[q] # Unbound => status'[q] = "BOUND"
      BY <1>1 DEF AInv, Basics, proxyVars, managerVars
    <2>4. ~Deregistering(Home)' /\ RealRequests' /\ AbsentBlank'
      BY <1>1, <2>1, ByeKept
         DEF AInv, Basics, RealRequests, AbsentBlank, proxyVars, remoteVars
    <2> QED
      BY <1>5, <2>1, <2>2, <2>3, <2>4, BasicsKept DEF AInv
  <1>7. Onward
    BY <1>1, <1>5 DEF Onward
  <1>8. Agree!Next
    BY <1>1, <1>7, OutcomeStays DEF proxyVars
  <1>9. ASSUME NEW d \in Value, Sound(d)
        PROVE  Sound(d)'
    <2>1. d # Unbound /\ value[Home] \in {Unbound, d}
      BY <1>1, <1>9, HomeAssumption DEF Sound, OneValue
    <2>2. Keeps(Lies(d)) /\ Keeps(Tok) /\ Keeps(Report) /\ Keeps(Alarm)
      BY <1>3, <1>5, <2>1
    <2>3. \A q \in Site : Binder(q)' => Binder(q)
      <3>1. \A q \in Site : TokenSent(q)' => TokenSent(q)
        BY <2>2, HomeAssumption DEF TokenSent, Keeps, Tok
      <3> QED
        BY <1>1, <3>1 DEF Binder, HasToken, proxyVars, remoteVars
    <2>4. "kill" \notin history /\ alive[Home] =>
              proxies' = {} /\ value'[Home] # Unbound
      BY <1>1, <1>9 DEF Sound, Excused, managerVars
    <2>5. NoFailRequests => NoFailRequests'
      BY <1>1 DEF NoFailRequests, remoteVars
    <2> QED
      BY <1>1, <1>5, <1>9, <2>1, <2>2, <2>3, <2>4, <2>5, KnownSound
         DEF proxyVars, managerVars, remoteVars
  <1> QED
    BY <1>6, <1>7, <1>8, <1>9, Conclude

(* The manager learns the value and tells all proxies.                     *)
LEMMA AnnounceBoundSettles ==
    ASSUME AInv, NEW s \in Site, AnnounceBound(s)
    PROVE  Good' /\ Agree!Next
  <1> DEFINE h == Head1(s, Home)
  <1>1. /\ CanRecv(s, Home) /\ alive[Home] /\ h \in Message /\ h.to = "manager"
        /\ h.type = "REDIRECT" \/ h.type = "BOUND"
        /\ h.val \in Value
    BY HeadOf, HomeAssumption DEF AnnounceBound, ManagerGets, CanRecv, AInv
  <1>2. /\ h.type = "BOUND" => h \in HomeBound
        /\ h.type # "BOUND" => h \in Announcement
        /\ \A K : h \in K => Carried(chan, <<s, Home>>, K) /\ ~NoneOf(chan, K)
    BY <1>1, HeadCarried, HomeAssumption DEF HomeBound, Announcement, Said, AInv
  <1>3. /\ h.type = "BOUND" => value[Home] # Unbound
        /\ h.type # "BOUND" => h.val # Unbound
    <2>1. h.type = "BOUND" => value[Home] # Unbound
      BY <1>2, HomeAssumption DEF AInv, Basics
    <2>2. h.type # "BOUND" => h.val # Unbound
      BY <1>1, <1>2 DEF AInv, Basics, Blank
    <2> QED
      BY <2>1, <2>2
  <1>4. /\ mstatus' = "BOUND" /\ proxies' = {} /\ requests' = <<>>
        /\ UNCHANGED <<proxyVars, mfail, token, current, history>>
        /\ value \in [Site -> Value]
        /\ IF h.type = "BOUND" \/ pfail[Home] THEN UNCHANGED value
           ELSE value' = [value EXCEPT ![Home] = h.val]
    BY TypesOf DEF AnnounceBound, BindVariable, AInv, EntityTypeOK, envVars
  <1> HIDE DEF h
  <1>5. PICK v \in Value : v = value'[Home]
    BY <1>1, <1>4, HomeAssumption
  <1>6. /\ \A q \in Site : q # Home => value'[q] = value[q]
        /\ value[Home] # Unbound => v # Unbound
        /\ v = Unbound => pfail[Home]
    BY <1>3, <1>4, <1>5, HomeAssumption
  <1> DEFINE told == IF current = Home THEN Silent ELSE To(Home, Notice("BOUND"))
             m == ToProxy("REDIRECT", v)
             out == Both(told, ToAll(proxies \ {current, Home}, m))
  <1>7. Consume(s, Home, out)
    BY <1>5 DEF AnnounceBound
  <1>8. m \in Message /\ m.to = "proxy" /\ m.type = "REDIRECT" /\ m.val = v
    BY ToProxyMessage DEF ProxyTypes, ToProxy
  <1>9. /\ m \notin Blank /\ m \notin HomeBound /\ m \notin Bye /\ m \notin Tok
        /\ m \notin Report /\ m \notin Alarm
        /\ \A d : v \in {Unbound, d} => m \notin Lies(d)
        /\ v # Unbound => m \notin Empty
    BY <1>8 DEF Blank, HomeBound, Bye, Tok, Report, Alarm, Lies, Empty,
                Announcement, Redirection, Said, ToManager, Reference
  <1>10. Mute(told) /\ Glad(told)
    BY NoticeMute, ToMute, SilentMute
  <1> HIDE DEF m, told
  <1>11. /\ out \in [Site -> Seq(Message)]
         /\ \A K : m \notin K /\ Without(told, K) => Without(out, K)
    <2>1. /\ ToAll(proxies \ {current, Home}, m) \in [Site -> Seq(Message)]
          /\ told \in [Site -> Seq(Message)]
      BY <1>8, <1>10, ToAllType DEF Mute
    <2> QED
      BY <2>1, BothType, BothWithout, ToAllWithout
  <1> HIDE DEF out
  <1>12. /\ Smooth /\ UNCHANGED alive
         /\ \A K : m \notin K /\ (K \subseteq Words \/ K \subseteq Woes) => Keeps(K)
    <2>1. /\ Smooth /\ UNCHANGED alive
          /\ \A Z : Without(out, Z) => Adds(Z)
      BY <1>1, <1>7, <1>11, ConsumeSmooth, HomeAssumption DEF AInv
    <2>2. \A K : K \subseteq Words \/ K \subseteq Woes => Without(told, K)
      BY <1>10, WithoutPart DEF Mute, Glad
    <2> QED
      BY <1>11, <2>1, <2>2 DEF Adds
  <1>13. Basics'
    <2>1. Keeps(HomeBound) /\ Keeps(Bye) /\ Keeps(Blank)
          /\ (v # Unbound => Keeps(Empty))
      BY <1>9, <1>12, KindsOfWords
    <2>2. \A l \in Site \X Site :
             /\ Carried(chan', l, HomeBound) => value'[Home] # Unbound
             /\ Carried(chan', l, Empty) => pfail'[Home]
      BY <1>4, <1>5, <1>6, <2>1 DEF AInv, Basics, Keeps, proxyVars
    <2>3. /\ mstatus' = "BOUND" => value'[Home] # Unbound \/ pfail'[Home]
          /\ \A q \in Site : q # Home /\ value'[q] # Unbound => status'[q] = "BOUND"
      BY <1>4, <1>5, <1>6 DEF AInv, Basics, proxyVars
    <2>4. ~Deregistering(Home)' /\ RealRequests'
      BY <1>4, <2>1, ByeKept DEF AInv, Basics, RealRequests
    <2>5. AbsentBlank'
      BY <1>4, <1>6 DEF AInv, Basics, AbsentBlank, proxyVars
    <2> QED
      BY <1>12, <2>1, <2>2, <2>3, <2>4, <2>5, BasicsKept DEF AInv
  <1>14. Onward
    BY <1>4, <1>12 DEF Onward
  <1>15. ASSUME NEW d \in Value, Sound(d)
         PROVE  Sound(d)' /\ Agree!Next
    <2>1. value[Home] \in {Unbound, d} /\ (h.type # "BOUND" => h.val = d)
      <3>1. h \notin Lies(d)
        BY <1>2, <1>15 DEF Sound, OneValue
      <3> QED
        BY <1>1, <1>2, <1>3, <1>15, <3>1, HomeAssumption
           DEF Lies, Sound, OneValue
    <2>2. d # Unbound /\ v \in {value[Home], d} /\ v \in {Unbound, d}
      BY <1>3, <1>4, <1>5, <2>1, HomeAssumption
    <2>3. \A q \in Site : value'[q] \in {value[q], d}
      BY <1>5, <1>6, <2>2
    <2>4. Keeps(Lies(d)) /\ Keeps(Tok) /\ Keeps(Report) /\ Keeps(Alarm)
      BY <1>9, <1>12, <2>2, KindsOfWords
    <2>5. \A q \in Site : Binder(q)' => Binder(q)
      <3>1. \A q \in Site : TokenSent(q)' => TokenSent(q)
        BY <2>4, HomeAssumption DEF TokenSent, Keeps, Tok
      <3> QED
        BY <1>4, <3>1 DEF Binder, HasToken, proxyVars
    <2>6. "kill" \notin history /\ alive[Home] => value'[Home] # Unbound
      <3>1. ASSUME "kill" \notin history, pfail[Home]
            PROVE  FALSE
        <4>1. Troubled
          BY <1>1, <3>1, HomeAssumption DEF Troubled
        <4> QED
          BY <1>1, <1>15, <2>2, <3>1, <4>1 DEF Sound, Excused
      <3> QED
        BY <1>5, <1>6, <3>1
    <2>7. NoFailRequests'
      BY <1>4 DEF NoFailRequests
    <2>8. Sound(d)'
      BY <1>4, <1>12, <1>15, <2>2, <2>3, <2>4, <2>5, <2>6, <2>7, KnownSound
         DEF proxyVars
    <2>9. CASE h.type = "BOUND" \/ pfail[Home]
      BY <1>4, <1>14, <2>8, <2>9, OutcomeStays DEF proxyVars
    <2>10. CASE ~(h.type = "BOUND" \/ pfail[Home])
      <3>1. value' = [value EXCEPT ![Home] = d]
        BY <1>4, <2>1, <2>10
      <3> QED
        BY <1>1, <1>4, <1>14, <1>15, <2>2, <2>8, <2>10, <3>1, KnownAgrees,
           HomeAssumption DEF proxyVars
    <2> QED
      BY <2>9, <2>10
  <1> QED
    BY <1>13, <1>14, <1>15, Conclude

-----------------------------------------------------------------------------
(* The proxy with the token binds.                                         *)

(* What it sends: to the channels as they are, or without what it got.     *)
BoundMessage(p, v) ==
    IF p = Home THEN ToManager("BOUND", Unbound) ELSE ToManager("REDIRECT", v)

LEMMA BoundSent ==
    ASSUME AInv, NEW p \in Site, NEW v \in Site, NEW c \in Channels(Message),
           chan' = Sent(c, p, BoundOut(p, v)),
           \A K : NoneOf(chan, K) => NoneOf(c, K),
           Carried(c, <<p, Home>>, Bye) => Carried(chan, <<p, Home>>, Bye)
    PROVE  /\ BoundOut(p, v) = To(Home, BoundMessage(p, v))
           /\ BoundMessage(p, v) \in Message
           /\ NoneOf(chan, Announcement) =>
                  \A l \in Site \X Site : Carried(chan', l, Announcement) => l = <<p, Home>>
           /\ p # Home /\ ~Deregistering(p) /\ alive[Home] => Lead(chan', p)
  <1> DEFINE m == BoundMessage(p, v)
             l == <<p, Home>>
  <1>1. BoundOut(p, v) = To(Home, m)
    BY DEF BoundOut, BoundMessage, sendToManager
  <1>2. m \in Message /\ (p # Home => m \in Announcement)
    <2>1. m \in Message
      BY ToManagerMessage, UnboundValue DEF BoundMessage, ManagerTypes, Value
    <2> QED
      BY <2>1 DEF BoundMessage, Announcement, Said, ToManager
  <1> HIDE DEF m
  <1>3. chan' = Sent(c, p, To(Home, m)) /\ To(Home, m) \in [Site -> Seq(Message)]
    BY <1>1, <1>2, ToType
  <1>4. c \in [Site \X Site -> Seq(Message)]
    BY DEF Channels
  <1>5. ASSUME NoneOf(chan, Announcement)
        PROVE  OnlyAt(chan', Announcement, p, Home)
    <2> DEFINE out == To(Home, m)
    <2>1. NoneOf(c, Announcement)
      BY <1>5
    <2>2. OnlyFor(out, Announcement, Home)
      BY ToOnlyFor
    <2>3. out \in [Site -> Seq(Message)] /\ chan' = Sent(c, p, out)
      BY <1>3
    <2> HIDE DEF out
    <2>4. OnlyAt(Sent(c, p, out), Announcement, p, Home)
      BY <2>1, <2>2, <2>3, <1>4, SentToken
    <2> QED
      BY <2>3, <2>4
  <1>6. ASSUME p # Home, ~Deregistering(p), alive[Home]
        PROVE  Lead(chan', p)
    <2>1. ~On(c, l, Bye, {})
      <3>1. ~Carried(c, l, Bye)
        BY <1>6 DEF Deregistering, Bye
      <3> QED
        BY <3>1 DEF Carried, On, Hears
    <2>2. Reaches(p, Home) /\ l \in Site \X Site
      BY <1>6, HomeAssumption DEF Reaches, AInv, Basics, Detected
    <2>3. On(chan', l, Announcement, Bye)
      BY <1>2, <1>3, <1>6, <2>1, <2>2, SentOn
    <2> QED
      BY <2>3 DEF Lead
  <1> QED
    BY <1>1, <1>2, <1>5, <1>6 DEF OnlyAt, m

LEMMA BindingSettles ==
    ASSUME AInv, NEW p \in Site, NEW v \in Site,
           present[p], token[p], status[p] # "BOUND", alive[p], ~pfail[p],
           value' = [value EXCEPT ![p] = v],
           status' = [status EXCEPT ![p] = "BOUND"],
           UNCHANGED <<present, pfail, managerVars, remoteVars>>,
           history \subseteq history', Smooth, UNCHANGED alive,
           BoundMessage(p, v) \in Message,
           \A K : BoundMessage(p, v) \notin K => Keeps(K),
           NoneOf(chan, Announcement) =>
               \A l \in Site \X Site : Carried(chan', l, Announcement) => l = <<p, Home>>,
           p # Home /\ ~Deregistering(p) /\ alive[Home] => Lead(chan', p)
    PROVE  Good' /\ Agree!Next
  <1> DEFINE m == BoundMessage(p, v)
  <1>1. v # Unbound /\ v \in Value /\ HasToken(p)
    BY UnboundAssumption DEF Value, HasToken
  <1>2. /\ value \in [Site -> Value]
        /\ status \in [Site -> {"FREE", "WAITING", "BOUND"}]
    BY TypesOf DEF AInv, EntityTypeOK, ProxyTypeOK
  <1>3. /\ m \notin Blank /\ m \notin Redirection /\ m \notin Empty
        /\ m \notin Bye /\ m \notin Tok /\ m \notin Report /\ m \notin Alarm
        /\ m \notin Lies(v) /\ (p # Home => m \notin HomeBound)
        /\ p = Home => m \notin Announcement
    BY <1>1 DEF BoundMessage, Blank, Redirection, Empty, Bye, Tok, Report, Alarm,
                Lies, HomeBound, Announcement, Said, ToManager, Reference
  <1> HIDE DEF m
  <1>4. /\ Keeps(Blank) /\ Keeps(Redirection) /\ Keeps(Empty) /\ Keeps(Bye)
        /\ Keeps(Tok) /\ Keeps(Report) /\ Keeps(Alarm) /\ Keeps(Lies(v))
        /\ p # Home => Keeps(HomeBound)
        /\ p = Home => Keeps(Announcement)
    BY <1>3 DEF m
  <1>5. Basics'
    <2>1. value[Home] # Unbound \/ p = Home => value'[Home] # Unbound
      BY <1>1, <1>2, HomeAssumption
    <2>2. \A l \in Site \X Site :
             /\ Carried(chan', l, HomeBound) => value'[Home] # Unbound
             /\ Carried(chan', l, Empty) => pfail'[Home]
      BY <1>4, <2>1 DEF AInv, Basics, Keeps
    <2>3. /\ mstatus' = "BOUND" => value'[Home] # Unbound \/ pfail'[Home]
          /\ \A q \in Site : q # Home /\ value'[q] # Unbound => status'[q] = "BOUND"
      BY <1>2, <2>1 DEF AInv, Basics, managerVars
    <2>4. ~Deregistering(Home)' /\ RealRequests'
      BY <1>4, ByeKept DEF AInv, Basics, RealRequests, remoteVars
    <2>5. AbsentBlank'
      BY <1>2 DEF AInv, Basics, AbsentBlank
    <2> QED
      BY <1>4, <2>2, <2>3, <2>4, <2>5, BasicsKept DEF AInv
  <1>6. Onward
    BY DEF Onward
  <1>7. ASSUME NEW d \in Value, Exclusive, Sound(d)
        PROVE  Sound(v)' /\ Agree!Next
    <2>1. d = Unbound /\ p = current
      BY <1>1, <1>7 DEF Sound, NoBinder, Binder, Exclusive
    <2>2. /\ NoneOf(chan, Announcement) /\ NoneOf(chan, Redirection)
          /\ mstatus # "BOUND" /\ mstatus' # "BOUND"
          /\ \A q \in Site : alive[q] => value[q] = Unbound
      BY <1>7, <2>1, NoWordOfValue DEF AInv, managerVars
    <2>3. OneValue(v)'
      <3>1. NoneOf(chan, Lies(v))
        BY <2>2 DEF NoneOf, Lies
      <3>2. NoneOf(chan', Lies(v))
        BY <1>4, <3>1 DEF Keeps
      <3>3. \A q \in Site : alive'[q] => value'[q] \in {Unbound, v}
        BY <1>2, <2>2
      <3> QED
        BY <1>1, <3>2, <3>3 DEF OneValue, Lies, Announcement, Redirection, Said
    <2>4. NoBinder(v)'
      <3>1. \A q \in Site : TokenSent(q)' => TokenSent(q)
        BY <1>4, HomeAssumption DEF TokenSent, Keeps, Tok
      <3>2. \A q \in Site : ~TokenSent(q)'
        BY <1>1, <1>7, <2>1, <3>1 DEF Exclusive
      <3>3. \A q \in Site : HasToken(q)' => q = p
        BY <1>7, <2>1 DEF Exclusive, HasToken, remoteVars
      <3> QED
        BY <1>2, <3>2, <3>3 DEF NoBinder, Binder
    <2>5. Early'
      <3>1. NoneOf(chan', Redirection)
        BY <1>4, <2>2 DEF Keeps
      <3>2. \A l \in Site \X Site : Carried(chan', l, Announcement)
               => l = <<current', Home>> /\ current' # Home
        <4>1. CASE p = Home
          BY <1>4, <2>2, <4>1 DEF Keeps, NoneOf, Carried
        <4>2. CASE p # Home
          BY <2>1, <2>2, <4>2 DEF remoteVars
        <4> QED
          BY <4>1, <4>2
      <3>3. \A q \in Site : alive'[q] /\ value'[q] # Unbound => q = current'
        BY <1>2, <2>1, <2>2 DEF remoteVars
      <3> QED
        BY <3>1, <3>2, <3>3 DEF Early, Announcement, Redirection, Said
    <2>6. Announced(v)'
      <3>1. alive[Home] /\ p # Home => Lead(chan', p)
        BY <1>1, <1>7 DEF Exclusive
      <3>2. alive'[Home] /\ current' # Home => Lead(chan', current')
        BY <2>1, <3>1 DEF remoteVars
      <3>3. Lead(chan', current') => Lead(chan, current)'
        BY DEF Lead, On, Hears, Announcement, Said, Bye
      <3>4. current' = Home => value'[Home] # Unbound
        BY <1>1, <1>2, <2>1 DEF remoteVars
      <3> QED
        BY <3>2, <3>3, <3>4 DEF Announced
    <2>7. "kill" \notin history /\ alive[Home] =>
              NoneOf(chan, Report) /\ NoFailRequests /\ ~Troubled
      BY <1>7, <2>1 DEF Sound, Excused
    <2>8. Excused(v)'
      <3>1. SUFFICES ASSUME "kill" \notin history, alive[Home]
                     PROVE  NoneOf(chan', Report) /\ NoFailRequests' /\ ~Troubled'
        BY <2>2 DEF Excused, Report, Said
      <3>2. NoneOf(chan', Report) /\ NoFailRequests'
        BY <1>4, <2>7, <3>1 DEF Keeps, NoFailRequests, remoteVars
      <3>3. ~Troubled'
        <4>1. SUFFICES ASSUME Troubled'
                       PROVE  Troubled
          BY <2>7, <3>1
        <4>2. \/ mfail'
              \/ \E l \in Site \X Site : Carried(chan', l, Alarm)
              \/ \E q \in Site : alive'[q] /\ pfail'[q]
          BY <4>1 DEF Troubled, Alarm, Said
        <4> QED
          BY <1>4, <4>2 DEF Troubled, Keeps, managerVars
      <3> QED
        BY <3>2, <3>3
    <2>9. Sound(v)'
      BY <2>3, <2>4, <2>5, <2>6, <2>8 DEF Sound
    <2>10. Agree!Next
      <3>1. \A q \in Site : alive[q] /\ pfail[q] => Broken'
        BY <2>7, HomeAssumption DEF Troubled, Broken
      <3> QED
        BY <1>2, <1>6, <2>2, <3>1, ValueSettles
    <2> QED
      BY <2>9, <2>10
  <1> QED
    BY <1>1, <1>5, <1>6, <1>7, Conclude

LEMMA BindTokenSettles ==
    ASSUME AInv, NEW p \in Site, BindToken(p)
    PROVE  Good' /\ Agree!Next
  <1> DEFINE m == BoundMessage(p, p)
  <1>1. /\ Emit(p, BoundOut(p, p)) /\ chan' = Sent(chan, p, BoundOut(p, p))
        /\ alive[p] /\ present[p] /\ token[p] /\ status[p] # "BOUND" /\ ~pfail[p]
        /\ value' = [value EXCEPT ![p] = p]
        /\ status' = [status EXCEPT ![p] = "BOUND"]
        /\ UNCHANGED <<present, pfail, managerVars, remoteVars>>
    BY DEF BindToken, Emit, Idle, Usable, BindVariable
  <1>2. chan \in Channels(Message)
    BY TypesOf DEF AInv, NetTypeOK, Channels
  <1>3. /\ BoundOut(p, p) = To(Home, m) /\ m \in Message
        /\ NoneOf(chan, Announcement) =>
               \A l \in Site \X Site : Carried(chan', l, Announcement) => l = <<p, Home>>
        /\ p # Home /\ ~Deregistering(p) /\ alive[Home] => Lead(chan', p)
    BY <1>1, <1>2, BoundSent
  <1> HIDE DEF m
  <1>4. To(Home, m) \in [Site -> Seq(Message)]
    BY <1>3, ToType
  <1>5. /\ Smooth /\ UNCHANGED alive
        /\ \A K : m \notin K => Keeps(K)
    BY <1>1, <1>3, <1>4, EmitSmooth, ToWithout DEF AInv, Adds
  <1>6. history \subseteq history'
    BY TypesOf, SpendType DEF BindToken, AInv
  <1> QED
    BY <1>1, <1>3, <1>5, <1>6, BindingSettles DEF m

LEMMA GetBindSettles ==
    ASSUME AInv, NEW s \in Site, NEW p \in Site, GetBind(s, p)
    PROVE  Good' /\ Agree!Next
  <1>1. PICK v : v = Head1(s, p).val
    OBVIOUS
  <1> DEFINE m == BoundMessage(p, v)
             c == Taken(chan, s, p)
  <1>2. /\ CanRecv(s, p) /\ Consume(s, p, BoundOut(p, v))
        /\ chan' = Sent(c, p, BoundOut(p, v)) /\ chan[<<s, p>>] # <<>>
        /\ alive[p] /\ present[p] /\ token[p] /\ status[p] # "BOUND" /\ ~pfail[p]
        /\ value' = [value EXCEPT ![p] = v]
        /\ status' = [status EXCEPT ![p] = "BOUND"]
        /\ UNCHANGED <<present, pfail, managerVars, remoteVars, history>>
        /\ Head1(s, p).type = "BIND" /\ Head1(s, p).to = "proxy"
    BY <1>1 DEF GetBind, ProxyGets, CanRecv, Consume, Taken, BindVariable, envVars
  <1>3. v \in Site
    <2>1. Head1(s, p) \in Message /\ v \in Value
      BY <1>1, <1>2, HeadOf DEF AInv
    <2>2. Head1(s, p) \notin Blank
      BY <1>2, HeadCarried DEF AInv, Basics
    <2> QED
      BY <1>1, <1>2, <2>1, <2>2 DEF Blank, Value
  <1>4. /\ chan \in Channels(Message) /\ chan \in [Site \X Site -> Seq(Message)]
        /\ <<s, p>> \in Site \X Site
    BY TypesOf DEF AInv, NetTypeOK, Channels
  <1>5. /\ c \in Channels(Message)
        /\ \A K : NoneOf(chan, K) => NoneOf(c, K)
        /\ Carried(c, <<p, Home>>, Bye) => Carried(chan, <<p, Home>>, Bye)
    <2>1. c \in Channels(Message)
      BY <1>2, <1>4, TakenType
    <2>2. \A K : NoneOf(chan, K) => NoneOf(c, K)
      BY <1>2, <1>4, TailNone DEF Taken
    <2>3. Carried(c, <<p, Home>>, Bye) => Carried(chan, <<p, Home>>, Bye)
      BY <1>2, <1>4, TailCarried, HomeAssumption DEF Taken
    <2> QED
      BY <2>1, <2>2, <2>3
  <1> HIDE DEF c
  <1>6. /\ BoundOut(p, v) = To(Home, m) /\ m \in Message
        /\ NoneOf(chan, Announcement) =>
               \A l \in Site \X Site : Carried(chan', l, Announcement) => l = <<p, Home>>
        /\ p # Home /\ ~Deregistering(p) /\ alive[Home] => Lead(chan', p)
    BY <1>2, <1>3, <1>5, BoundSent
  <1> HIDE DEF m
  <1>7. To(Home, m) \in [Site -> Seq(Message)]
    BY <1>6, ToType
  <1>8. /\ Smooth /\ UNCHANGED alive
        /\ \A K : m \notin K => Keeps(K)
    <2>1. /\ Smooth /\ UNCHANGED alive
          /\ \A Z : Without(To(Home, m), Z) => Adds(Z)
      BY <1>2, <1>6, <1>7, ConsumeSmooth DEF AInv
    <2> QED
      BY <2>1, ToWithout DEF Adds
  <1> QED
    BY <1>2, <1>3, <1>6, <1>8, BindingSettles DEF m

-----------------------------------------------------------------------------
LEMMA InitAInv == Init => AInv
  <1> SUFFICES ASSUME Init
               PROVE  AInv
    OBVIOUS
  <1> USE DEF Init, TransientInit
  <1>1. /\ \A l \in Site \X Site : chan[l] = <<>>
        /\ DOMAIN <<>> = {}
    BY DEF NetInit
  <1>2. \A K : NoneOf(chan, K) /\ \A l \in Site \X Site : ~Carried(chan, l, K)
    BY <1>1 DEF NoneOf, Carried
  <1>3. RealRequests /\ NoFailRequests
    BY DEF RealRequests, NoFailRequests
  <1>4. Basics
    BY <1>2, <1>3, HomeAssumption
       DEF Basics, Deregistering, Detected, AbsentBlank, NetInit
  <1>5. ~Troubled
    BY <1>2 DEF Troubled
  <1>6. OneValue(Unbound) /\ NoBinder(Unbound) /\ Announced(Unbound)
    BY <1>2 DEF OneValue, NoBinder, Announced
  <1>7. Early /\ Excused(Unbound)
    BY <1>2, <1>3, <1>5 DEF Early, Excused
  <1> QED
    BY <1>4, <1>6, <1>7, InitIInv, UnboundValue DEF AInv, Sound

LEMMA NextGood ==
    ASSUME AInv, Next
    PROVE  Good' /\ Agree!Next
  <1>1. CASE Environment
    BY <1>1, BindTokenSettles, BindWaitLull, MakeNeededLull, KillLull,
       DeleteProxyForgets, ExportHomeLull, GiveTokenStep, ExportRemoteLull,
       CrashesLull DEF Environment, Operation, Export
  <1>2. ASSUME NEW s \in Site, NEW p \in Site, ProxyReceives(s, p)
        PROVE  Good' /\ Agree!Next
    BY <1>2, ProxyLull, ImportProxySettles, GetBindSettles, GetBoundLull,
       GetRedirectSettles, GetPermFailLull DEF ProxyReceives
  <1>3. ASSUME NEW s \in Site, ManagerReceives(s)
        PROVE  Good' /\ Agree!Next
    BY <1>3, RegisterLull, RegisterBound, DeregisterLull, TakeBackStep,
       IgnoreLateLull, RequestLull, FailLull, AnnounceBoundSettles,
       ForwardUpdateLull, CrashesLull DEF ManagerReceives
  <1>4. CASE System
    BY <1>2, <1>3, <1>4, FailureSettlesProxy, DetectHomeStep DEF System
  <1> QED
    BY <1>1, <1>4 DEF Next

LEMMA StutterGood ==
    ASSUME AInv, UNCHANGED vars
    PROVE  Good'
  <1> USE DEF vars, transientVars, entityVars, proxyVars, managerVars, netVars,
              envVars, remoteVars
  <1>1. Basics'
    BY DEF AInv, Basics, RealRequests, Deregistering, Detected, AbsentBlank,
           NoneOf, Carried, Blank, HomeBound, Empty, Redirection, Announcement, Said
  <1>2. ASSUME NEW d \in Value, Sound(d)
        PROVE  Sound(d)'
    <2>1. OneValue(d)'
      BY <1>2 DEF Sound, OneValue, NoneOf, Lies, Announcement, Redirection, Said
    <2>2. NoBinder(d)'
      BY <1>2 DEF Sound, NoBinder, Binder, HasToken, TokenSent, Carried
    <2>3. Early'
      BY <1>2 DEF Sound, Early, NoneOf, Carried, Announcement, Redirection, Said
    <2>4. Announced(d)'
      BY <1>2 DEF Sound, Announced, Lead, On, Hears, Announcement, Said, Bye
    <2>5. Troubled' = Troubled
      BY DEF Troubled, Carried, Alarm, Said
    <2>6. Excused(d)'
      BY <1>2, <2>5 DEF Sound, Excused, NoFailRequests, NoneOf, Report, Said
    <2> QED
      BY <2>1, <2>2, <2>3, <2>4, <2>6 DEF Sound
  <1>3. (\E d \in Value : Sound(d)) => (\E d \in Value : Sound(d))'
    BY <1>2 DEF Value
  <1> QED
    BY <1>1, <1>3 DEF AInv, Good

(* As long as no token and deregistration have crossed each other, there   *)
(* is a single value in the sites, the redirections and the announcements; *)
(* once there is one, no proxy can bind any more; until the manager knows  *)
(* it, the proxy with the token has it alone and its announcement is ahead *)
(* of any deregistration that would return the token.                      *)
THEOREM RemoteInvariance == Spec => []AInv
  <1>1. AInv /\ Next => AInv'
    BY NextGood, NextIInv, GoodOf DEF AInv, Good
  <1>2. AInv /\ UNCHANGED vars => AInv'
    BY StutterGood, StutterIInv DEF AInv, Good
  <1> QED
    BY <1>1, <1>2, InitAInv, PTL DEF Spec

(* The transient-remote protocol implements Decision, for any set of sites *)
(* and any number of bindings, kills, references, departures and crashes:  *)
(* until a token and a deregistration cross each other, every step settles *)
(* the variable at a site compatibly with all the others, or changes what  *)
(* no site sees.                                                           *)
THEOREM RemoteAgrees == Spec => Agreement
  <1>1. Init => Agree!Init
    BY HomeAssumption DEF Init, TransientInit, NetInit, Agree!Init, Outcome
  <1>2. UNCHANGED vars => UNCHANGED <<[p \in Site |-> Outcome(p)],
                                      {s \in Site : ~alive[s]},
                                      "kill" \in history \/ ~alive[Home],
                                      "crossed" \in history>>
    BY DEF vars, transientVars, entityVars, proxyVars, netVars, envVars, Outcome
  <1>3. AInv /\ [Next]_vars
            => [Agree!Next]_<<[p \in Site |-> Outcome(p)],
                              {s \in Site : ~alive[s]},
                              "kill" \in history \/ ~alive[Home],
                              "crossed" \in history>>
    BY <1>2, NextGood
  <1> QED
    BY <1>1, <1>3, RemoteInvariance, PTL DEF Spec, Agreement, Agree!Spec
=============================================================================
