------------------------------- MODULE OnceOnly -------------------------------
(***************************************************************************)
(* The once-only protocol (PN_TRANSIENT): the manager decides which        *)
(* binding succeeds and tells all registered proxies.  A site that gets    *)
(* the reference from the home site is registered when the reference is    *)
(* marshaled, any other one registers itself.                              *)
(***************************************************************************)
EXTENDS Transient

vars == transientVars

(* The proxy and the manager of the home site are created together.        *)
Init == TransientInit

-----------------------------------------------------------------------------
(* Operations of the threads and of the garbage collector of p.            *)

(* The home proxy binds at once and keeps the manager from accepting       *)
(* another binding.                                                        *)
BindHome ==
    /\ Usable(Home) /\ status[Home] = "FREE"
    /\ Spend("bind")
    /\ Emit(Home, sendToManager("BOUND", Unbound))
    /\ BindVariable(Home, Home)
    /\ status' = [status EXCEPT ![Home] = "BOUND"]
    /\ mstatus' = "BOUND"
    /\ UNCHANGED <<needed, present, pfail, mfail, proxies>>

(* Another proxy, or the home proxy after a kill, suspends the thread.     *)
BindWait(p) ==
    /\ Usable(p)
    /\ status[p] = "WAITING" \/ (status[p] = "FREE" /\ p # Home)
    /\ Spend("bind")
    /\ Emit(p, IF status[p] = "FREE" THEN sendToManager("BIND", p) ELSE Silent)
    /\ status' = [status EXCEPT ![p] = "WAITING"]
    /\ waiting' = [waiting EXCEPT ![p] = TRUE]
    /\ UNCHANGED <<value, needed, present, pfail, managerVars>>

(* A thread of p needs the value; operationAppend.                         *)
MakeNeeded(p) ==
    /\ Usable(p) /\ status[p] # "BOUND" /\ ~needed[p]
    /\ Spend("need")
    /\ Emit(p, IF status[p] = "FREE"
               THEN sendToManager("UPDATE_REQUEST", Unbound) ELSE Silent)
    /\ needed' = [needed EXCEPT ![p] = TRUE]
    /\ waiting' = [waiting EXCEPT ![p] = TRUE]
    /\ UNCHANGED <<value, proxyVars, managerVars>>

Kill(p) ==
    /\ Usable(p) /\ status[p] = "FREE"
    /\ Spend("kill")
    /\ Emit(p, sendToManager("PERMFAIL", Unbound))
    /\ status' = [status EXCEPT ![p] = "WAITING"]
    /\ UNCHANGED <<entityVars, present, pfail, managerVars>>

DeleteProxy(p) ==
    /\ Collectable(p)
    /\ Spend("leave")
    /\ Emit(p, DeregisterOut(p))
    /\ DeleteVariable(p)
    /\ UNCHANGED managerVars

(* registerRemote                                                          *)
RegisterRemoteOut(s) ==
    IF s \notin proxies /\ Changes THEN To(s, Notice("UPDATE")) ELSE Silent

(* marshal_protocol_info: the home site registers the destination.         *)
ExportHome(q) ==
    /\ MayExport(Home, q)
    /\ Emit(Home, Both(To(q, Reference("AUTO")), RegisterRemoteOut(q)))
    /\ proxies' = proxies \cup {q}
    /\ UNCHANGED <<entityVars, proxyVars, mstatus, mfail>>

ExportRemote(p, q) ==
    /\ p # Home /\ MayExport(p, q)
    /\ Emit(p, To(q, Reference("MANUAL")))
    /\ UNCHANGED <<entityVars, proxyVars, managerVars>>

(* Faulty variant: every proxy takes itself for registered.                *)
ImportProxySilently(s, p) ==
    /\ GetsReference(s, p) /\ ~present[p]
    /\ Consume(s, p, Silent)
    /\ CreateProxy(p)
    /\ UNCHANGED <<entityVars, managerVars, envVars>>

(* m_initRemoteProt                                                        *)
ImportProxy(s, p) ==
    /\ GetsReference(s, p) /\ ~present[p]
    /\ Consume(s, p, IF Head1(s, p).val = "AUTO" THEN Silent
                     ELSE sendToManager("REGISTER", Unbound))
    /\ CreateProxy(p)
    /\ UNCHANGED <<entityVars, managerVars, envVars>>

-----------------------------------------------------------------------------
(* Proxy: p processes a message from s.                                    *)

(* At the home site the manager has already bound the variable.            *)
GetRedirect(s, p) ==
    /\ ProxyGets(s, p, "REDIRECT")
    /\ Consume(s, p, Silent)
    /\ status' = [status EXCEPT ![p] = "BOUND"]
    /\ IF p = Home THEN UNCHANGED <<value, waiting>>
       ELSE BindVariable(p, Head1(s, p).val)
    /\ UNCHANGED <<needed, present, pfail, managerVars, envVars>>

GetUpdate(s, p) ==
    /\ ProxyGets(s, p, "UPDATE")
    /\ Consume(s, p, Silent)
    /\ AppendNeed(p)
    /\ UNCHANGED <<value, waiting, proxyVars, managerVars, envVars>>

GetPermFail(s, p) ==
    /\ ProxyGets(s, p, "PERMFAIL")
    /\ Consume(s, p, Silent)
    /\ pfail' = [pfail EXCEPT ![p] = TRUE]
    /\ UNCHANGED <<entityVars, present, status, managerVars, envVars>>

-----------------------------------------------------------------------------
(* Manager: messages from the proxy of site s.                             *)

Register(s) ==
    /\ ManagerGets(s, "REGISTER")
    /\ IF mfail
       THEN Consume(s, Home, To(s, Notice("PERMFAIL"))) /\ UNCHANGED proxies
       ELSE IF mstatus = "BOUND"
       THEN /\ Consume(s, Home, To(s, ToProxy("REDIRECT", value[Home])))
            /\ UNCHANGED proxies
       ELSE /\ Consume(s, Home, RegisterRemoteOut(s))
            /\ proxies' = proxies \cup {s}
    /\ UNCHANGED <<entityVars, proxyVars, mstatus, mfail, envVars>>

Deregister(s) ==
    /\ ManagerGets(s, "DEREGISTER")
    /\ Consume(s, Home, Silent)
    /\ proxies' = proxies \ {s}
    /\ UNCHANGED <<entityVars, proxyVars, mstatus, mfail, envVars>>

(* A request that comes after the binding or the failure is ignored.       *)
(* Faulty variant: only a failed manager ignores it.                       *)
TooLateIfFailed == mfail
TooLate == mfail \/ mstatus = "BOUND"

IgnoreLate(s) ==
    /\ \E t \in {"PERMFAIL", "BIND", "UPDATE_REQUEST"} : ManagerGets(s, t)
    /\ TooLate
    /\ ManagerSkips(s)

(* makePermFail tells every registered proxy.                              *)
Fail(s) ==
    /\ ManagerGets(s, "PERMFAIL") /\ ~TooLate
    /\ Consume(s, Home, ToAll(proxies, Notice("PERMFAIL")))
    /\ mfail' = TRUE
    /\ proxies' = {}
    /\ UNCHANGED <<entityVars, proxyVars, mstatus, envVars>>

(* OO_BIND: the variable is bound at the home site, then the binding is    *)
(* sent to every registered proxy.                                         *)
AcceptBind(s) ==
    /\ ManagerGets(s, "BIND") /\ ~TooLate
    /\ BindVariable(Home, Head1(s, Home).val)
    /\ Consume(s, Home, ToAll(proxies, ToProxy("REDIRECT", value'[Home])))
    /\ mstatus' = "BOUND"
    /\ proxies' = {}
    /\ UNCHANGED <<needed, proxyVars, mfail, envVars>>

(* OO_BOUND from the home proxy.                                           *)
AnnounceBound(s) ==
    /\ ManagerGets(s, "BOUND")
    /\ Consume(s, Home, ToAll(proxies \ {Home},
                              ToProxy("REDIRECT", value[Home])))
    /\ proxies' = {}
    /\ UNCHANGED <<entityVars, proxyVars, mstatus, mfail, envVars>>

(* OO_UPDATE_REQUEST: everyone is told, also a requester that is not       *)
(* registered.                                                             *)
AcceptUpdate(s) ==
    /\ ManagerGets(s, "UPDATE_REQUEST") /\ ~TooLate
    /\ Consume(s, Home, ToAll(proxies \cup {s}, Notice("UPDATE")))
    /\ UNCHANGED <<entityVars, proxyVars, managerVars, envVars>>

(* The manager forgets a failed proxy.                                     *)
DetectHome(s) ==
    /\ CanDetect(Home, s)
    /\ Detect(Home, s, Silent)
    /\ proxies' = proxies \ {s}
    /\ UNCHANGED <<entityVars, proxyVars, mstatus, mfail, envVars>>

-----------------------------------------------------------------------------
Operation(p) ==
    \/ BindWait(p) \/ MakeNeeded(p) \/ Kill(p) \/ DeleteProxy(p)

Export(q) == ExportHome(q) \/ \E p \in Site : ExportRemote(p, q)

ProxyReceives(s, p) ==
    \/ ProxyIgnores(s, p) \/ ImportProxy(s, p)
    \/ DisposeReference(s, p) /\ UNCHANGED history
    \/ GetRedirect(s, p) \/ GetUpdate(s, p) \/ GetPermFail(s, p)

ManagerReceives(s) ==
    \/ Register(s) \/ Deregister(s) \/ IgnoreLate(s) \/ Fail(s)
    \/ AcceptBind(s) \/ AnnounceBound(s) \/ AcceptUpdate(s)

Environment ==
    \/ BindHome
    \/ \E p \in Site : Operation(p) \/ Export(p) \/ SiteCrash(p)

System ==
    \/ \E s, p \in Site : ProxyReceives(s, p) \/ DetectRemote(p, s)
    \/ \E s \in Site : ManagerReceives(s) \/ DetectHome(s)

Next == Environment \/ System

Spec == Init /\ [][Next]_vars

(* The sites keep processing messages and failures as long as there are    *)
(* any.  As every message causes finitely many others, none waits for ever. *)
Fairness == WF_vars(System)

FairSpec == Spec /\ Fairness
=============================================================================
