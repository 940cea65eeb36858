--------------------------- MODULE TransientRemote ---------------------------
(***************************************************************************)
(* The transient-remote protocol (PN_TRANSIENT_REMOTE): one proxy has the  *)
(* write token and binds the variable; the manager serializes the requests *)
(* of the other proxies, passes them to that proxy and keeps them until    *)
(* they are answered.  The home proxy gives the token to the first site    *)
(* that it sends the reference to, and gets it back if that proxy leaves.  *)
(***************************************************************************)
EXTENDS Transient

VARIABLES
    token,      \* hasToken(), of each proxy
    current,    \* a_current of the manager
    requests    \* a_requests of the manager

remoteVars == <<token, current, requests>>
vars == <<transientVars, remoteVars>>

Init ==
    /\ TransientInit
    /\ token = [p \in Site |-> p = Home]
    /\ current = Home
    /\ requests = <<>>

-----------------------------------------------------------------------------
(* Operations of the threads and of the garbage collector of p.            *)

BoundOut(p, v) ==
    IF p = Home THEN sendToManager("BOUND", Unbound)
    ELSE sendToManager("REDIRECT", v)

(* The proxy with the token binds at once.                                 *)
BindToken(p) ==
    /\ Usable(p) /\ status[p] = "FREE" /\ token[p]
    /\ Spend("bind")
    /\ Emit(p, BoundOut(p, p))
    /\ BindVariable(p, p)
    /\ status' = [status EXCEPT ![p] = "BOUND"]
    /\ UNCHANGED <<needed, present, pfail, managerVars, remoteVars>>

BindWait(p) ==
    /\ Usable(p)
    /\ status[p] = "WAITING" \/ (status[p] = "FREE" /\ ~token[p])
    /\ Spend("bind")
    /\ Emit(p, IF status[p] = "FREE" THEN sendToManager("BIND", p) ELSE Silent)
    /\ status' = [status EXCEPT ![p] = "WAITING"]
    /\ waiting' = [waiting EXCEPT ![p] = TRUE]
    /\ UNCHANGED <<value, needed, present, pfail, managerVars, remoteVars>>

MakeNeeded(p) ==
    /\ Usable(p) /\ status[p] # "BOUND" /\ ~needed[p]
    /\ Spend("need")
    /\ Emit(p, CASE status[p] # "FREE" -> Silent
                 [] status[p] = "FREE" /\ token[p] ->
                        sendToManager("UPDATE", Unbound)
                 [] OTHER -> sendToManager("UPDATE_REQUEST", Unbound))
    /\ needed' = [needed EXCEPT ![p] = TRUE]
    /\ waiting' = [waiting EXCEPT ![p] = TRUE]
    /\ UNCHANGED <<value, proxyVars, managerVars, remoteVars>>

(* The proxy with the token fails at once.                                 *)
Kill(p) ==
    /\ Usable(p) /\ status[p] = "FREE"
    /\ Spend("kill")
    /\ Emit(p, sendToManager("PERMFAIL", Unbound))
    /\ status' = [status EXCEPT ![p] = "WAITING"]
    /\ pfail' = [pfail EXCEPT ![p] = token[p]]
    /\ UNCHANGED <<entityVars, present, managerVars, remoteVars>>

DeleteProxy(p) ==
    /\ Collectable(p)
    /\ Spend("leave")
    /\ Emit(p, DeregisterOut(p))
    /\ DeleteVariable(p)
    /\ token' = [token EXCEPT ![p] = FALSE]
    /\ UNCHANGED <<managerVars, current, requests>>

-----------------------------------------------------------------------------
(* setCurrent: s gets the token, and all requests that are not answered.   *)
(* The token of the home proxy is set at once.  Faulty variants: requests  *)
(* are not sent again, the home proxy keeps the token.                     *)

ForwardOutNothing(s) == Silent
ForwardOut(s) ==
    [d \in Site |->
        IF d = s THEN [i \in DOMAIN requests |->
                          ToProxy(requests[i].type, requests[i].val)]
        ELSE <<>>]

SetCurrentKeepsHome(s) ==
    /\ current' = s
    /\ token' = [token EXCEPT ![Home] = @ \/ s = Home]
    /\ UNCHANGED requests

SetCurrent(s) ==
    /\ current' = s
    /\ token' = [token EXCEPT ![Home] = s = Home]
    /\ UNCHANGED requests

ChangesOut(s) == IF Changes THEN To(s, Notice("UPDATE")) ELSE Silent

(* registerToken, when the home site marshals the reference for q.         *)
GivesToken(q) == q \notin proxies /\ current = Home

ExportHome(q) ==
    /\ MayExport(Home, q)
    /\ proxies' = proxies \cup {q}
    /\ IF GivesToken(q)
       THEN /\ Emit(Home, Both(To(q, Reference("TOKEN")),
                               Both(ChangesOut(q), ForwardOut(q))))
            /\ SetCurrent(q)
       ELSE /\ Emit(Home, Both(To(q, Reference("AUTO")),
                               IF q \in proxies THEN Silent
                               ELSE ChangesOut(q)))
            /\ UNCHANGED remoteVars
    /\ UNCHANGED <<entityVars, proxyVars, mstatus, mfail>>

ExportRemote(p, q) ==
    /\ p # Home /\ MayExport(p, q)
    /\ Emit(p, To(q, Reference("MANUAL")))
    /\ UNCHANGED <<entityVars, proxyVars, managerVars, remoteVars>>

(* The token may be on its way to p, with a reference, while a             *)
(* deregistration of an earlier proxy of p is on its way to the manager,   *)
(* which will take the token back from a proxy that keeps it.              *)
TokenSent(p) == Carried(chan, <<Home, p>>, {Reference("TOKEN")})
Deregistering(p) ==
    Carried(chan, <<p, Home>>, {ToManager("DEREGISTER", Unbound)})

(* m_initRemoteProt                                                        *)
ImportProxy(s, p) ==
    /\ GetsReference(s, p) /\ ~present[p]
    /\ Consume(s, p, IF Head1(s, p).val = "MANUAL"
                     THEN sendToManager("REGISTER", Unbound) ELSE Silent)
    /\ CreateProxy(p)
    /\ token' = [token EXCEPT ![p] = Head1(s, p).val = "TOKEN"]
    /\ Record("crossed", Head1(s, p).val = "TOKEN" /\ Deregistering(p))
    /\ UNCHANGED <<entityVars, managerVars, current, requests, budget>>

(* dispose_protocol_info skips the kind of registration: a token that      *)
(* comes to a site with a proxy is dropped.                                *)
DropReference(s, p) ==
    /\ DisposeReference(s, p)
    /\ Record("dropped", Head1(s, p).val = "TOKEN")
    /\ UNCHANGED remoteVars

-----------------------------------------------------------------------------
(* Proxy: p processes a message from s.                                    *)

(* A request for the proxy with the token that has lost it.                *)
IgnoreRequest(s, p) ==
    /\ \E t \in {"BIND", "UPDATE_REQUEST"} : ProxyGets(s, p, t)
    /\ ~token[p]
    /\ Consume(s, p, Silent)
    /\ UNCHANGED <<entityVars, proxyVars, managerVars, remoteVars, envVars>>

GetBind(s, p) ==
    /\ ProxyGets(s, p, "BIND") /\ token[p]
    /\ Consume(s, p, BoundOut(p, Head1(s, p).val))
    /\ BindVariable(p, Head1(s, p).val)
    /\ status' = [status EXCEPT ![p] = "BOUND"]
    /\ UNCHANGED <<needed, present, pfail, managerVars, remoteVars, envVars>>

GetUpdateRequest(s, p) ==
    /\ ProxyGets(s, p, "UPDATE_REQUEST") /\ token[p]
    /\ Consume(s, p, sendToManager("UPDATE_REPLY", Unbound))
    /\ AppendNeed(p)
    /\ UNCHANGED <<value, waiting, proxyVars, managerVars, remoteVars,
                   envVars>>

(* TR_REDIRECT, and TR_BOUND to the home proxy, whose variable is bound.   *)
GetRedirect(s, p) ==
    /\ ProxyGets(s, p, "REDIRECT") \/ ProxyGets(s, p, "BOUND")
    /\ Consume(s, p, Silent)
    /\ status' = [status EXCEPT ![p] = "BOUND"]
    /\ IF Head1(s, p).type = "BOUND" THEN UNCHANGED <<value, waiting>>
       ELSE BindVariable(p, Head1(s, p).val)
    /\ UNCHANGED <<needed, present, pfail, managerVars, remoteVars, envVars>>

GetUpdate(s, p) ==
    /\ ProxyGets(s, p, "UPDATE")
    /\ Consume(s, p, Silent)
    /\ AppendNeed(p)
    /\ UNCHANGED <<value, waiting, proxyVars, managerVars, remoteVars,
                   envVars>>

GetPermFail(s, p) ==
    /\ ProxyGets(s, p, "PERMFAIL")
    /\ Consume(s, p, IF token[p] THEN sendToManager("PERMFAIL", Unbound)
                     ELSE Silent)
    /\ pfail' = [pfail EXCEPT ![p] = TRUE]
    /\ UNCHANGED <<entityVars, present, status, managerVars, remoteVars,
                   envVars>>

-----------------------------------------------------------------------------
(* Manager: messages from the proxy of site s.                             *)

Register(s) ==
    /\ ManagerGets(s, "REGISTER")
    /\ IF mfail
       THEN Consume(s, Home, To(s, Notice("PERMFAIL"))) /\ UNCHANGED proxies
       ELSE IF mstatus = "BOUND"
       THEN /\ Consume(s, Home, To(s, ToProxy("REDIRECT", value[Home])))
            /\ UNCHANGED proxies
       ELSE /\ Consume(s, Home, IF s \in proxies THEN Silent
                                ELSE ChangesOut(s))
            /\ proxies' = proxies \cup {s}
    /\ UNCHANGED <<entityVars, proxyVars, mstatus, mfail, remoteVars, envVars>>

(* The home proxy gets the token of s back.                                *)
ReturnsToken(s) == s = current /\ ~mfail /\ mstatus # "BOUND"

Deregister(s) ==
    /\ ManagerGets(s, "DEREGISTER")
    /\ proxies' = proxies \ {s}
    /\ IF ReturnsToken(s)
       THEN Consume(s, Home, ForwardOut(Home)) /\ SetCurrent(Home)
       ELSE Consume(s, Home, Silent) /\ UNCHANGED remoteVars
    /\ Record("crossed", ReturnsToken(s) /\ TokenSent(s))
    /\ UNCHANGED <<entityVars, proxyVars, mstatus, mfail, budget>>

(* A request is ignored after a binding, a failure or an attempt to either. *)
TooLate == mfail \/ mstatus # "FREE"

IgnoreLate(s) ==
    /\ \/ \E t \in {"PERMFAIL", "BIND", "UPDATE_REQUEST"} :
             ManagerGets(s, t) /\ TooLate
       \/ \E t \in {"UPDATE_REPLY", "UPDATE"} :
             ManagerGets(s, t) /\ (mfail \/ mstatus = "BOUND")
    /\ ManagerSkips(s)
    /\ UNCHANGED remoteVars

(* A request is kept and passed to the proxy with the token.               *)
PassOn(s, t, v) ==
    /\ Consume(s, Home, To(current, ToProxy(t, v)))
    /\ requests' = Append(requests, [type |-> t, val |-> v])
    /\ UNCHANGED <<entityVars, proxyVars, mfail, proxies, token, current,
                   envVars>>

RequestBind(s) ==
    /\ ManagerGets(s, "BIND") /\ ~TooLate
    /\ PassOn(s, "BIND", Head1(s, Home).val)
    /\ mstatus' = "WAITING"

RequestUpdate(s) ==
    /\ ManagerGets(s, "UPDATE_REQUEST") /\ ~TooLate
    /\ PassOn(s, "UPDATE_REQUEST", Unbound)
    /\ UNCHANGED mstatus

RequestFail(s) ==
    /\ ManagerGets(s, "PERMFAIL") /\ ~TooLate /\ s # current
    /\ PassOn(s, "PERMFAIL", Unbound)
    /\ mstatus' = "WAITING"

(* PROT_PERMFAIL of the proxy with the token.                              *)
Fail(s) ==
    /\ ManagerGets(s, "PERMFAIL") /\ ~TooLate /\ s = current
    /\ Consume(s, Home, ToAll(proxies, Notice("PERMFAIL")))
    /\ mfail' = TRUE
    /\ proxies' = {}
    /\ requests' = <<>>
    /\ UNCHANGED <<entityVars, proxyVars, mstatus, token, current, envVars>>

(* TR_REDIRECT of a remote proxy installs the value, TR_BOUND comes from   *)
(* the home proxy; all other proxies are told.                             *)
AnnounceBound(s) ==
    /\ ManagerGets(s, "REDIRECT") \/ ManagerGets(s, "BOUND")
    /\ IF Head1(s, Home).type = "BOUND" \/ pfail[Home]
       THEN UNCHANGED <<value, waiting>>
       ELSE BindVariable(Home, Head1(s, Home).val)
    /\ LET told == IF current = Home THEN Silent ELSE To(Home, Notice("BOUND"))
           redirect == ToProxy("REDIRECT", value'[Home])
       IN  Consume(s, Home,
                   Both(told, ToAll(proxies \ {current, Home}, redirect)))
    /\ mstatus' = "BOUND"
    /\ proxies' = {}
    /\ requests' = <<>>
    /\ UNCHANGED <<needed, proxyVars, mfail, token, current, envVars>>

NoRequest(s) == Head1(s, Home).type = "UPDATE_REPLY" /\ requests = <<>>

(* TR_UPDATE, TR_UPDATE_REPLY of the proxy with the token: without a       *)
(* thread there is no requester to be told separately.                     *)
ForwardUpdate(s) ==
    /\ ManagerGets(s, "UPDATE") \/ ManagerGets(s, "UPDATE_REPLY")
    /\ ~mfail /\ mstatus # "BOUND" /\ ~NoRequest(s)
    /\ Consume(s, Home, ToAll(proxies \ {current}, Notice("UPDATE")))
    /\ requests' = IF Head1(s, Home).type = "UPDATE_REPLY"
                   THEN Tail(requests) ELSE requests
    /\ UNCHANGED <<entityVars, proxyVars, managerVars, token, current,
                   envVars>>

(* The request of a reply is popped from an empty queue: the home site     *)
(* follows a null pointer and goes down.                                   *)
PopNothing(s) ==
    /\ ManagerGets(s, "UPDATE_REPLY")
    /\ ~mfail /\ mstatus # "BOUND" /\ NoRequest(s)
    /\ Crash(Home)
    /\ UNCHANGED <<entityVars, proxyVars, managerVars, remoteVars, envVars>>

(* m_siteStateChange: the variable fails with the proxy that has the token. *)
DetectHome(s) ==
    /\ CanDetect(Home, s)
    /\ IF s = current /\ s \in proxies
       THEN /\ Detect(Home, s, ToAll(proxies \ {s}, Notice("PERMFAIL")))
            /\ mfail' = TRUE
            /\ proxies' = {}
       ELSE /\ Detect(Home, s, Silent)
            /\ proxies' = proxies \ {s}
            /\ UNCHANGED mfail
    /\ UNCHANGED <<entityVars, proxyVars, mstatus, remoteVars, envVars>>

-----------------------------------------------------------------------------
Operation(p) ==
    \/ BindToken(p) \/ BindWait(p) \/ MakeNeeded(p)
    \/ Kill(p) \/ DeleteProxy(p)

Export(q) == ExportHome(q) \/ \E p \in Site : ExportRemote(p, q)

Ignores(s, p) == ProxyIgnores(s, p) /\ UNCHANGED remoteVars

ProxyReceives(s, p) ==
    \/ Ignores(s, p) \/ DropReference(s, p) \/ ImportProxy(s, p)
    \/ IgnoreRequest(s, p)
    \/ GetBind(s, p) \/ GetUpdateRequest(s, p) \/ GetRedirect(s, p)
    \/ GetUpdate(s, p) \/ GetPermFail(s, p)

ManagerReceives(s) ==
    \/ Register(s) \/ Deregister(s) \/ IgnoreLate(s)
    \/ RequestBind(s) \/ RequestUpdate(s) \/ RequestFail(s) \/ Fail(s)
    \/ AnnounceBound(s) \/ ForwardUpdate(s) \/ PopNothing(s)

Failure(p, s) == DetectRemote(p, s) /\ UNCHANGED remoteVars

Environment ==
    \/ \E p \in Site : Operation(p) \/ Export(p)
    \/ \E s \in Site : SiteCrash(s) /\ UNCHANGED remoteVars

System ==
    \/ \E s, p \in Site : ProxyReceives(s, p) \/ Failure(p, s)
    \/ \E s \in Site : ManagerReceives(s) \/ DetectHome(s)

Next == Environment \/ System

Spec == Init /\ [][Next]_vars

(* As in OnceOnly.                                                         *)
Fairness == WF_vars(System)

FairSpec == Spec /\ Fairness

-----------------------------------------------------------------------------
(* Properties, besides those of Transient.                                 *)

HasToken(p) == present[p] /\ token[p]

(* No proxy has or is sent the write token but the one that the manager    *)
(* takes for its holder, so two sites never bind the variable on their     *)
(* own: but for the crossing of a reference and a deregistration that      *)
(* TokenSent and Deregistering describe, no order of references,           *)
(* departures, requests and crashes leads there.  As long as               *)
(* no proxy has left, no token has been dropped and the variable is        *)
(* neither bound nor failed, that proxy has the token or is sent it with   *)
(* its first reference.                                                    *)
TokenKnown ==
    /\ "crossed" \notin history =>
           \A p \in Site : HasToken(p) \/ TokenSent(p) => p = current
    /\ /\ alive[Home] /\ alive[current] /\ ~mfail /\ mstatus # "BOUND"
       /\ history \cap {"leave", "dropped"} = {}
       => (HasToken(current) <=> ~TokenSent(current))
=============================================================================
