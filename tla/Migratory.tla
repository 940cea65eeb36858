------------------------------ MODULE Migratory ------------------------------
(***************************************************************************)
(* The migratory state protocol (PN_MIGRATORY_STATE) on a stationary       *)
(* coordinator: a unique token, and the state of the entity with it,       *)
(* migrates among the proxies.  The manager keeps the chain of the proxies *)
(* the token is to visit, and inquires around crashed proxies to find out  *)
(* whether the token is lost.                                              *)
(***************************************************************************)
EXTENDS Network

CONSTANTS
    NoSite,         \* the NULL DSite pointer
    Monitors,       \* the sites that may run operationMonitor
    MaxRequests,    \* a proxy asks for the token while a_request is below this
    MaxThreads,     \* bound on the threads suspended at a proxy
    MaxWeak,        \* bound on the MIGM_NEED_NO_MORE messages sent
    MaxKills,       \* bound on the calls of operationKill
    MaxImports,     \* bound on the proxies created again after deletion
    MaxCrashes      \* bound on the sites that crash

ASSUME NoSiteAssumption == NoSite \notin Site
ASSUME MonitorsAssumption == Monitors \subseteq Site
ASSUME BoundsAssumption ==
    /\ MaxRequests \in Nat /\ MaxThreads \in Nat /\ MaxWeak \in Nat
    /\ MaxKills \in Nat /\ MaxImports \in Nat /\ MaxCrashes \in Nat

VARIABLES
    \* ProtocolMigratoryProxy, one per site that has imported the entity
    present,    \* the site has a proxy of the entity
    status,     \* MIGT_EMPTY, MIGT_REQUESTED or MIGT_HERE
    successor,  \* a_successor
    request,    \* a_request
    susps,      \* the number of threads in a_susps
    pfail,      \* isPermFail()
    registered, \* isRegistered()
    \* ProtocolMigratoryManager, at Home
    chain,      \* a_chain: records [site, req]
    last,       \* a_last
    mfail,      \* isPermFail()
    proxies,    \* a_proxies
    \* what is left of the bounds
    budget

proxyVars == <<present, status, successor, request, susps, pfail, registered>>
managerVars == <<chain, last, mfail, proxies>>
vars == <<proxyVars, managerVars, netVars, budget>>

Status == {"EMPTY", "REQUESTED", "HERE"}

ToManagerTypes == {"REGISTER", "DEREGISTER", "PERMFAIL", "GET", "TOKEN_HERE",
    "NEED_NO_MORE", "FAILED_SUCC", "FAILED_PRED", "OLD_SUCC", "OLD_PRED"}
ToProxyTypes == {"PERMFAIL", "FORWARD", "CHECK_SUCC", "CHECK_PRED"}

(* Messages: a type, and a request id or a site where the type has one.    *)
ToManager(t, r) == [to |-> "manager", type |-> t, site |-> NoSite, req |-> r]
ToProxy(t, s, r) == [to |-> "proxy", type |-> t, site |-> s, req |-> r]

TokenMessage == ToProxy("TOKEN", NoSite, 0)

ManagerMessage ==
    [to: {"manager"}, type: ToManagerTypes, site: {NoSite}, req: Nat]
ProxyMessage ==
    [to: {"proxy"}, type: ToProxyTypes, site: Site \cup {NoSite}, req: Nat]
Message == ManagerMessage \cup ProxyMessage \cup {TokenMessage}

sendToManager(t, r) == To(Home, ToManager(t, r))

Spend(b) == budget[b] > 0 /\ budget' = [budget EXCEPT ![b] = @ - 1]

Init ==
    /\ NetInit
    /\ present = [p \in Site |-> TRUE]
    /\ status = [p \in Site |-> IF p = Home THEN "HERE" ELSE "EMPTY"]
    /\ successor = [p \in Site |-> NoSite]
    /\ request = [p \in Site |-> 0]
    /\ susps = [p \in Site |-> 0]
    /\ pfail = [p \in Site |-> FALSE]
    /\ registered = [p \in Site |-> FALSE]
    /\ chain = <<[site |-> Home, req |-> 0]>>
    /\ last = Home
    /\ mfail = FALSE
    /\ proxies = {}
    /\ budget = [weak |-> MaxWeak, kill |-> MaxKills,
                 import |-> MaxImports, crash |-> MaxCrashes]

-----------------------------------------------------------------------------
(* Proxy: operations of the threads of site p.                             *)

(* protocol_Access without the token: the first thread asks for it.        *)
(* (With the token the operation proceeds, after a failure it raises an    *)
(* exception; neither changes the protocol's state.)                       *)
AccessRequest(p) ==
    /\ present[p] /\ ~pfail[p] /\ status[p] = "EMPTY"
    /\ request[p] < MaxRequests /\ susps[p] < MaxThreads
    /\ Emit(p, sendToManager("GET", request[p]))
    /\ status' = [status EXCEPT ![p] = "REQUESTED"]
    /\ susps' = [susps EXCEPT ![p] = @ + 1]
    /\ UNCHANGED <<present, successor, request, pfail, registered,
                   managerVars, budget>>

AccessWait(p) ==
    /\ present[p] /\ ~pfail[p] /\ status[p] = "REQUESTED"
    /\ susps[p] < MaxThreads
    /\ Emit(p, Silent)
    /\ susps' = [susps EXCEPT ![p] = @ + 1]
    /\ UNCHANGED <<present, status, successor, request, pfail, registered,
                   managerVars, budget>>

(* operationMonitor: protocol_Register.                                    *)
Monitor(p) ==
    /\ p \in Monitors /\ present[p] /\ ~registered[p]
    /\ Emit(p, sendToManager("REGISTER", 0))
    /\ registered' = [registered EXCEPT ![p] = TRUE]
    /\ UNCHANGED <<present, status, successor, request, susps, pfail,
                   managerVars, budget>>

(* operationKill: protocol_Kill.                                           *)
Kill(p) ==
    /\ present[p] /\ ~pfail[p]
    /\ Spend("kill")
    /\ Emit(p, sendToManager("PERMFAIL", 0))
    /\ UNCHANGED <<proxyVars, managerVars>>

(* forwardToken: to the site s, which is a_successor.                      *)
TokenTo(s) == To(s, TokenMessage)

(* Faulty variants, which the properties must tell from the code: the      *)
(* token stays, the successor stays, the request id stays or goes back.    *)
ForwardedTokenKept(p) ==
    /\ successor' = [successor EXCEPT ![p] = NoSite]
    /\ request' = [request EXCEPT ![p] = @ + 1]
    /\ UNCHANGED status

ForwardedTokenKeepsSuccessor(p) ==
    /\ status' = [status EXCEPT ![p] = "EMPTY"]
    /\ request' = [request EXCEPT ![p] = @ + 1]
    /\ UNCHANGED successor

ForwardedTokenSameRequest(p) ==
    /\ status' = [status EXCEPT ![p] = "EMPTY"]
    /\ successor' = [successor EXCEPT ![p] = NoSite]
    /\ UNCHANGED request

ForwardedTokenCountsDown(p) ==
    /\ status' = [status EXCEPT ![p] = "EMPTY"]
    /\ successor' = [successor EXCEPT ![p] = NoSite]
    /\ request' = [request EXCEPT ![p] = @ - 1]

ForwardedToken(p) ==
    /\ status' = [status EXCEPT ![p] = "EMPTY"]
    /\ successor' = [successor EXCEPT ![p] = NoSite]
    /\ request' = [request EXCEPT ![p] = @ + 1]

(* Faulty variant: a proxy whose request is under way may be deleted.      *)
IsWeakRootWhenHere(p) == ~pfail[p] /\ status[p] = "HERE"

IsWeakRoot(p) == ~pfail[p] /\ status[p] # "EMPTY"

(* Garbage collection of a remote proxy that only the token keeps alive.   *)
ClearWeakRoot(p) ==
    /\ p # Home /\ present[p] /\ IsWeakRoot(p) /\ status[p] = "HERE"
    /\ Spend("weak")
    /\ IF successor[p] # NoSite
       THEN Emit(p, TokenTo(successor[p])) /\ ForwardedToken(p)
       ELSE /\ Emit(p, sendToManager("NEED_NO_MORE", 0))
            /\ UNCHANGED <<status, successor, request>>
    /\ UNCHANGED <<present, susps, pfail, registered, managerVars>>

(* Garbage collection of a remote proxy that is no weak root.              *)
DeleteProxy(p) ==
    /\ p # Home /\ present[p] /\ ~IsWeakRoot(p)
    /\ Emit(p, IF registered[p] THEN sendToManager("DEREGISTER", 0)
               ELSE Silent)
    /\ present' = [present EXCEPT ![p] = FALSE]
    /\ status' = [status EXCEPT ![p] = "EMPTY"]
    /\ successor' = [successor EXCEPT ![p] = NoSite]
    /\ request' = [request EXCEPT ![p] = 0]
    /\ pfail' = [pfail EXCEPT ![p] = FALSE]
    /\ registered' = [registered EXCEPT ![p] = FALSE]
    /\ UNCHANGED <<susps, managerVars, budget>>

(* Site p receives a reference to the entity and creates a proxy, which    *)
(* fails at once if the home site is known to have failed.                 *)
ImportProxy(p) ==
    /\ ~present[p]
    /\ Spend("import")
    /\ Emit(p, Silent)
    /\ present' = [present EXCEPT ![p] = TRUE]
    /\ pfail' = [pfail EXCEPT ![p] = Home \in perm[p]]
    /\ UNCHANGED <<status, successor, request, susps, registered, managerVars>>

-----------------------------------------------------------------------------
(* Proxy: messages.  p processes a message m from s.                       *)

Head1(s, p) == Head(chan[<<s, p>>])

ProxyGets(s, p, t) ==
    /\ CanRecv(s, p)
    /\ Head1(s, p).to = "proxy" /\ Head1(s, p).type = t
    /\ present[p] /\ ~pfail[p]

(* No proxy at the destination (the M_..._NODEST reply has no effect), or  *)
(* one that has failed.                                                    *)
ProxyIgnores(s, p) ==
    /\ CanRecv(s, p)
    /\ Head1(s, p).to = "proxy"
    /\ ~present[p] \/ pfail[p]
    /\ Consume(s, p, Silent)
    /\ UNCHANGED <<proxyVars, managerVars, budget>>

GetForward(s, p) ==
    /\ ProxyGets(s, p, "FORWARD")
    /\ LET next == Head1(s, p).site IN
       IF status[p] = "HERE"
       THEN Consume(s, p, TokenTo(next)) /\ ForwardedToken(p)
       ELSE /\ Consume(s, p, Silent)
            /\ successor' = [successor EXCEPT ![p] = next]
            /\ UNCHANGED <<status, request>>
    /\ UNCHANGED <<present, susps, pfail, registered, managerVars, budget>>

(* installEntityState and resumeOperations                                 *)
GetToken(s, p) ==
    /\ ProxyGets(s, p, "TOKEN")
    /\ susps' = [susps EXCEPT ![p] = 0]
    /\ IF successor[p] # NoSite
       THEN Consume(s, p, TokenTo(successor[p])) /\ ForwardedToken(p)
       ELSE /\ Consume(s, p, sendToManager("TOKEN_HERE", 0))
            /\ status' = [status EXCEPT ![p] = "HERE"]
            /\ UNCHANGED <<successor, request>>
    /\ UNCHANGED <<present, pfail, registered, managerVars, budget>>

GetCheckSucc(s, p) ==
    /\ ProxyGets(s, p, "CHECK_SUCC")
    /\ LET reqid == Head1(s, p).req IN
       IF request[p] # reqid
       THEN Consume(s, p, sendToManager("OLD_SUCC", reqid)) /\ UNCHANGED successor
       ELSE /\ Consume(s, p, IF successor[p] = NoSite THEN Silent
                             ELSE sendToManager("FAILED_SUCC", 0))
            /\ successor' = [successor EXCEPT ![p] = NoSite]
    /\ UNCHANGED <<present, status, request, susps, pfail, registered,
                   managerVars, budget>>

(* Faulty variant: the suspended threads are forgotten.                    *)
ProxyLostTokenSilently(p) ==
    /\ pfail' = [pfail EXCEPT ![p] = TRUE]
    /\ registered' = [registered EXCEPT ![p] = FALSE]
    /\ successor' = [successor EXCEPT ![p] = NoSite]
    /\ UNCHANGED susps

(* lostToken of the proxy: fail the suspended threads and the entity.      *)
ProxyLostToken(p) ==
    /\ pfail' = [pfail EXCEPT ![p] = TRUE]
    /\ registered' = [registered EXCEPT ![p] = FALSE]
    /\ susps' = [susps EXCEPT ![p] = 0]
    /\ successor' = [successor EXCEPT ![p] = NoSite]

GetCheckPred(s, p) ==
    /\ ProxyGets(s, p, "CHECK_PRED")
    /\ LET reqid == Head1(s, p).req IN
       IF request[p] # reqid \/ status[p] = "HERE"
       THEN /\ Consume(s, p, IF request[p] # reqid
                             THEN sendToManager("OLD_PRED", reqid)
                             ELSE sendToManager("TOKEN_HERE", 0))
            /\ UNCHANGED <<pfail, registered, susps, successor>>
       ELSE Consume(s, p, sendToManager("FAILED_PRED", 0)) /\ ProxyLostToken(p)
    /\ UNCHANGED <<present, status, request, managerVars, budget>>

GetPermFail(s, p) ==
    /\ ProxyGets(s, p, "PERMFAIL")
    /\ Consume(s, p, Silent)
    /\ ProxyLostToken(p)
    /\ UNCHANGED <<present, status, request, managerVars, budget>>

-----------------------------------------------------------------------------
(* Manager: the chain and the inquiry.                                     *)

Visits(c, s) == \E i \in 1..Len(c) : c[i].site = s

InChain(s) == Visits(chain, s)

Position(s) == CHOOSE i \in 1..Len(chain) : chain[i].site = s

(* The chain without its elements up to s, s included or not, each with a  *)
(* faulty variant that is one off.                                         *)
PoppedThroughOneLess(s) == SubSeq(chain, Position(s), Len(chain))
PoppedThrough(s) == SubSeq(chain, Position(s) + 1, Len(chain))
PoppedBeforeOneMore(s) == SubSeq(chain, Position(s) + 1, Len(chain))
PoppedBefore(s) == SubSeq(chain, Position(s), Len(chain))

(* Faulty variant: the registered proxies are not notified.                *)
PermFailOutChain(c) ==
    [d \in Site |-> IF Visits(c, d)
                    THEN <<ToProxy("PERMFAIL", NoSite, 0)>> ELSE <<>>]

(* lostToken of the manager: notify the chain c and the registered proxies.*)
PermFailOut(c) ==
    [d \in Site |-> IF Visits(c, d) \/ d \in proxies
                    THEN <<ToProxy("PERMFAIL", NoSite, 0)>> ELSE <<>>]

ManagerLostToken ==
    /\ last' = NoSite
    /\ chain' = <<>>
    /\ mfail' = TRUE
    /\ proxies' = {}

(* inquire(s) on the chain c, with failed the sites known to have failed:  *)
(* the proxy to ask, by its position, and the question.  The loop over the *)
(* successors has no break, so it ends on the last of them.  If all have   *)
(* failed, the chain is emptied before lostToken.                          *)
Live(c, failed, I) == {i \in I : c[i].site \notin failed}

Closest(I) == CHOOSE i \in I : \A j \in I : j <= i

Predecessors(c, k, failed) == Live(c, failed, 1..(k-1))
Successors(c, k, failed) == Live(c, failed, (k+1)..Len(c))

InquiryOut(c, k, failed) ==
    IF Predecessors(c, k, failed) # {}
    THEN LET i == Closest(Predecessors(c, k, failed))
         IN  To(c[i].site, ToProxy("CHECK_SUCC", NoSite, c[i].req))
    ELSE LET i == Closest(Successors(c, k, failed))
         IN  To(c[i].site, ToProxy("CHECK_PRED", NoSite, c[i].req))

AllFailed(c, k, failed) ==
    Predecessors(c, k, failed) = {} /\ Successors(c, k, failed) = {}

-----------------------------------------------------------------------------
(* Manager: messages from the proxy of site s.                             *)

ManagerGets(s, T) ==
    /\ CanRecv(s, Home)
    /\ Head1(s, Home).to = "manager" /\ Head1(s, Home).type \in T

Register(s) ==
    /\ ManagerGets(s, {"REGISTER"})
    /\ IF mfail
       THEN /\ Consume(s, Home, To(s, ToProxy("PERMFAIL", NoSite, 0)))
            /\ UNCHANGED proxies
       ELSE Consume(s, Home, Silent) /\ proxies' = proxies \cup {s}
    /\ UNCHANGED <<proxyVars, chain, last, mfail, budget>>

Deregister(s) ==
    /\ ManagerGets(s, {"DEREGISTER"})
    /\ Consume(s, Home, Silent)
    /\ proxies' = proxies \ {s}
    /\ UNCHANGED <<proxyVars, chain, last, mfail, budget>>

Get(s) ==
    /\ ManagerGets(s, {"GET"})
    /\ IF mfail \/ s = last
       THEN /\ Consume(s, Home, IF mfail
                                THEN To(s, ToProxy("PERMFAIL", NoSite, 0))
                                ELSE Silent)
            /\ UNCHANGED <<chain, last>>
       ELSE /\ Consume(s, Home, To(last, ToProxy("FORWARD", s, 0)))
            /\ chain' = Append(IF InChain(s) THEN PoppedThrough(s) ELSE chain,
                               [site |-> s, req |-> Head1(s, Home).req])
            /\ last' = s
    /\ UNCHANGED <<proxyVars, mfail, proxies, budget>>

TokenHere(s) ==
    /\ ManagerGets(s, {"TOKEN_HERE"})
    /\ Consume(s, Home, Silent)
    /\ chain' = IF ~mfail /\ InChain(s) THEN PoppedBefore(s) ELSE chain
    /\ UNCHANGED <<proxyVars, last, mfail, proxies, budget>>

(* The manager makes the proxy of its own site ask for the token; the      *)
(* assertion in requestToken that its status is MIGT_EMPTY is compiled out.*)
NeedNoMore(s) ==
    /\ ManagerGets(s, {"NEED_NO_MORE"})
    /\ IF s = last
       THEN /\ Consume(s, Home, sendToManager("GET", request[Home]))
            /\ status' = [status EXCEPT ![Home] = "REQUESTED"]
       ELSE Consume(s, Home, Silent) /\ UNCHANGED status
    /\ UNCHANGED <<present, successor, request, susps, pfail, registered,
                   managerVars, budget>>

(* The sender's successor leaves the chain.  If the sender has none there, *)
(* the manager removes the element after the end of the list: it follows a *)
(* null pointer and the site goes down.                                    *)
HasSuccessor(s) == InChain(s) /\ Position(s) < Len(chain)

ChainWithoutSuccessor(s) ==
    SubSeq(chain, 1, Position(s)) \o SubSeq(chain, Position(s) + 2, Len(chain))

FailedSucc(s) ==
    /\ ManagerGets(s, {"FAILED_SUCC"})
    /\ CASE mfail -> Consume(s, Home, Silent) /\ UNCHANGED <<chain, last>>
         [] ~mfail /\ HasSuccessor(s) ->
              /\ chain' = ChainWithoutSuccessor(s)
              /\ IF Position(s) + 1 < Len(chain)
                 THEN /\ Consume(s, Home,
                           To(s, ToProxy("FORWARD",
                                         chain[Position(s) + 2].site, 0)))
                      /\ UNCHANGED last
                 ELSE Consume(s, Home, Silent) /\ last' = s
         [] OTHER -> Crash(Home) /\ UNCHANGED <<chain, last>>
    /\ UNCHANGED <<proxyVars, mfail, proxies, budget>>

(* PROT_PERMFAIL (from operationKill) or MIGM_FAILED_PRED.                 *)
Failed(s) ==
    /\ ManagerGets(s, {"PERMFAIL", "FAILED_PRED"})
    /\ IF mfail
       THEN Consume(s, Home, Silent) /\ UNCHANGED managerVars
       ELSE Consume(s, Home, PermFailOut(chain)) /\ ManagerLostToken
    /\ UNCHANGED <<proxyVars, budget>>

(* MIGM_OLD_SUCC, MIGM_OLD_PRED: the sender has forwarded the token of the *)
(* request.  The inquiry that may follow looks at the first element left.  *)
IsOld(s) ==
    ~mfail /\ InChain(s) /\ chain[Position(s)].req = Head1(s, Home).req

OldPred(s) ==
    /\ ManagerGets(s, {"OLD_PRED"})
    /\ Consume(s, Home, Silent)
    /\ chain' = IF IsOld(s) THEN PoppedThrough(s) ELSE chain
    /\ UNCHANGED <<proxyVars, last, mfail, proxies, budget>>

OldSucc(s) ==
    /\ ManagerGets(s, {"OLD_SUCC"})
    /\ LET c == PoppedThrough(s) IN
       CASE ~IsOld(s) -> Consume(s, Home, Silent) /\ UNCHANGED managerVars
         [] IsOld(s) /\ c = <<>> -> Crash(Home) /\ UNCHANGED managerVars
         [] OTHER ->
              IF AllFailed(c, 1, perm[Home])
              THEN Consume(s, Home, PermFailOut(<<>>)) /\ ManagerLostToken
              ELSE /\ Consume(s, Home, InquiryOut(c, 1, perm[Home]))
                   /\ chain' = c
                   /\ UNCHANGED <<last, mfail, proxies>>
    /\ UNCHANGED <<proxyVars, budget>>

-----------------------------------------------------------------------------
(* Failures.                                                               *)

SiteCrash(s) ==
    /\ Spend("crash")
    /\ Crash(s)
    /\ UNCHANGED <<proxyVars, managerVars>>

(* siteStateChanged of the proxy of p, when s has failed.                  *)
ProxyDetects(p, s) ==
    present[p] /\ ~pfail[p] /\ s # Home /\ successor[p] = s

ProxyDetectOut(p, s) ==
    IF ProxyDetects(p, s) THEN sendToManager("FAILED_SUCC", 0) ELSE Silent

DetectRemote(p, s) ==
    /\ p # Home /\ CanDetect(p, s)
    /\ Detect(p, s, ProxyDetectOut(p, s))
    /\ CASE present[p] /\ ~pfail[p] /\ s = Home -> ProxyLostToken(p)
         [] ProxyDetects(p, s) ->
              /\ successor' = [successor EXCEPT ![p] = NoSite]
              /\ UNCHANGED <<susps, pfail, registered>>
         [] OTHER -> UNCHANGED <<successor, susps, pfail, registered>>
    /\ UNCHANGED <<present, status, request, managerVars, budget>>

(* At home the proxy is told first, then the manager.                      *)
DetectHome(s) ==
    /\ CanDetect(Home, s)
    /\ successor' = IF ProxyDetects(Home, s)
                    THEN [successor EXCEPT ![Home] = NoSite] ELSE successor
    /\ LET out == ProxyDetectOut(Home, s)
           failed == perm[Home] \cup {s} IN
       IF mfail \/ ~InChain(s)
       THEN /\ Detect(Home, s, out)
            /\ proxies' = proxies \ {s}
            /\ UNCHANGED <<chain, last, mfail>>
       ELSE IF AllFailed(chain, Position(s), failed)
       THEN Detect(Home, s, Both(out, PermFailOut(<<>>))) /\ ManagerLostToken
       ELSE /\ Detect(Home, s, Both(out, InquiryOut(chain, Position(s), failed)))
            /\ proxies' = proxies \ {s}
            /\ UNCHANGED <<chain, last, mfail>>
    /\ UNCHANGED <<present, status, request, susps, pfail, registered, budget>>

-----------------------------------------------------------------------------
Operation(p) ==
    \/ AccessRequest(p) \/ AccessWait(p) \/ Monitor(p) \/ Kill(p)
    \/ ClearWeakRoot(p) \/ DeleteProxy(p) \/ ImportProxy(p)

ProxyReceives(s, p) ==
    \/ ProxyIgnores(s, p) \/ GetForward(s, p) \/ GetToken(s, p)
    \/ GetCheckSucc(s, p) \/ GetCheckPred(s, p) \/ GetPermFail(s, p)

ManagerReceives(s) ==
    \/ Register(s) \/ Deregister(s) \/ Get(s) \/ TokenHere(s)
    \/ NeedNoMore(s) \/ FailedSucc(s) \/ Failed(s) \/ OldPred(s)
    \/ OldSucc(s)

Next ==
    \/ \E p \in Site : Operation(p)
    \/ \E s, p \in Site : ProxyReceives(s, p)
    \/ \E s \in Site : ManagerReceives(s)
    \/ \E s \in Site : SiteCrash(s) \/ DetectHome(s)
    \/ \E p, s \in Site : DetectRemote(p, s)

Spec == Init /\ [][Next]_vars

(* The event loop of a live site reads every connection and sweeps its     *)
(* loopback queue for ever; a crash is eventually reported everywhere.     *)
Fairness ==
    /\ \A s, p \in Site : WF_vars(ProxyReceives(s, p))
    /\ \A s \in Site : WF_vars(ManagerReceives(s))
    /\ \A s \in Site : WF_vars(DetectHome(s))
    /\ \A p, s \in Site : WF_vars(DetectRemote(p, s))

FairSpec == Spec /\ Fairness

-----------------------------------------------------------------------------
(* Properties.                                                             *)

TypeOK ==
    /\ chan \in [Site \X Site -> Seq(Message)]
    /\ alive \in [Site -> BOOLEAN]
    /\ perm \in [Site -> SUBSET Site]
    /\ draining \subseteq Site
    /\ present \in [Site -> BOOLEAN]
    /\ status \in [Site -> Status]
    /\ successor \in [Site -> Site \cup {NoSite}]
    /\ request \in [Site -> Nat]
    /\ susps \in [Site -> Nat]
    /\ pfail \in [Site -> BOOLEAN]
    /\ registered \in [Site -> BOOLEAN]
    /\ chain \in Seq([site: Site, req: Nat])
    /\ last \in Site \cup {NoSite}
    /\ mfail \in BOOLEAN
    /\ proxies \subseteq Site
    /\ budget \in [{"weak", "kill", "import", "crash"} -> Nat]

(* The proxy of p can operate on the state of the entity.                  *)
Holder(p) == alive[p] /\ present[p] /\ ~pfail[p] /\ status[p] = "HERE"

(* A message brings the token to site d.                                   *)
TokenUnderWay(d) == \E s \in Site : Carried(chan, <<s, d>>, {TokenMessage})

(* The token is unique ("a unique token" of the protocol's description):   *)
(* at most one live proxy operates on the state or one message carries it, *)
(* whatever crashes, kills, garbage collections and inquiries happen.      *)
TokenUnique ==
    /\ \A p, q \in Site : Holder(p) /\ Holder(q) => p = q
    /\ OnlyOne(chan, {TokenMessage})
    /\ (\E p \in Site : Holder(p)) => NoneOf(chan, {TokenMessage})

(* The protocol implements MobileState.                                    *)
Mobile == INSTANCE MobileState WITH
    at <- {p \in Site : Holder(p)},
    moving <- {d \in Site : TokenUnderWay(d)}

(* Whatever crashes, kills and garbage collections happen, the state is in *)
(* one place and a state that is lost never reappears: a late MIGM_TOKEN   *)
(* is not installed by a proxy that has failed, been deleted or imported   *)
(* again in the meantime.                                                  *)
StateIsMobile == Mobile!Spec

Undisturbed == (\A s \in Site : alive[s]) /\ budget["kill"] = MaxKills

(* As long as there is no crash and no kill the state moves and is never   *)
(* lost, although proxies are deleted and created again while requests are *)
(* under way.                                                              *)
StateIsNeverLost ==
    [][Undisturbed' => Mobile!Move]_<<{p \in Site : Holder(p)},
                                      {d \in Site : TokenUnderWay(d)}>>

(* The invariants that protocol_migratory.hh lists for a_chain and a_last: *)
(* a_last is the last proxy of the chain, no proxy appears twice, and the  *)
(* chain is empty and a_last is NULL iff the entity has failed.            *)
ChainConsistent ==
    alive[Home] =>
        /\ mfail <=> chain = <<>>
        /\ mfail <=> last = NoSite
        /\ chain # <<>> => last = chain[Len(chain)].site
        /\ \A i, j \in DOMAIN chain : chain[i].site = chain[j].site => i = j

(* The assertion of the MIGM_FORWARD handler: a proxy that is told of its  *)
(* successor has none, so no MIGM_FORWARD overwrites another.              *)
ForwardFindsNoSuccessor ==
    \A s, p \in Site : ProxyGets(s, p, "FORWARD") => successor[p] = NoSite

(* The manager forwards proxy a to site b, or proxy a already knows it.    *)
ForwardInFlight(a, b) ==
    \E i \in DOMAIN chan[<<Home, a>>] :
        /\ chan[<<Home, a>>][i].type = "FORWARD"
        /\ chan[<<Home, a>>][i].site = b

NoCrash == \A s \in Site : alive[s]

NoReimport == budget["import"] = MaxImports

(* Without failures the chain tells where the token goes: each proxy of it *)
(* that has not yet passed the token on for the request in the chain is    *)
(* told of the next one, by a message under way or already processed.  (A  *)
(* proxy that is created again numbers its requests from zero again.)      *)
ChainIsPath ==
    NoCrash /\ NoReimport =>
        \A i \in 1..(Len(chain) - 1) :
            LET a == chain[i].site
                b == chain[i + 1].site
            IN  present[a] /\ ~pfail[a] /\ request[a] = chain[i].req =>
                    successor[a] = b \/ ForwardInFlight(a, b)

(* Whatever proxies crash, as long as the manager lives and has not given  *)
(* the entity up the token is at, or on its way to, a proxy in the chain:  *)
(* a_chain never forgets where the state is.                               *)
ChainCoversToken ==
    alive[Home] /\ ~mfail =>
        \A p \in Site : Holder(p) \/ TokenUnderWay(p) => InChain(p)

(* As long as no site crashes every thread that suspends on an access is   *)
(* eventually resumed, with the token or, once the entity is killed, with  *)
(* an exception.                                                           *)
SuspendedResume == \A p \in Site : susps[p] > 0 ~> susps[p] = 0 \/ ~NoCrash

(* Once the manager has failed the entity, every proxy registered for      *)
(* monitoring hears of it, however its registration races the failure.     *)
MonitorsNotified ==
    \A p \in Site : mfail /\ present[p] /\ registered[p]
                        ~> pfail[p] \/ ~present[p] \/ ~alive[p] \/ ~alive[Home]

(* When the home site crashes no thread waits for ever for the token.      *)
HomeCrashResumes ==
    \A p \in Site : ~alive[Home] /\ alive[p] /\ susps[p] > 0
                        ~> ~alive[p] \/ susps[p] = 0

(* "It is therefore lost": the manager, or a proxy that answers            *)
(* MIGM_FAILED_PRED, gives the token up only when no live proxy has it     *)
(* (nobody kills the entity here).                                         *)
LossIsReal ==
    (alive[Home] /\ \E p \in Site : present[p] /\ pfail[p])
        => \A p \in Site : ~Holder(p)
=============================================================================
