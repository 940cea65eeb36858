------------------------------ MODULE Transient ------------------------------
(***************************************************************************)
(* What the two protocols for logic variables, once-only (PN_TRANSIENT)    *)
(* and transient-remote (PN_TRANSIENT_REMOTE), have in common: the         *)
(* variable at each site, the state of proxy and manager, and references   *)
(* to the variable that travel between sites and create proxies.           *)
(*                                                                         *)
(* Threads suspend on the variable itself, not in the proxy: the mediator  *)
(* calls the protocol without a thread.  The only update that it makes is  *)
(* to mark the variable as needed.  The value that the threads of a site   *)
(* try to bind the variable to is that site.                               *)
(***************************************************************************)
EXTENDS Network

CONSTANTS
    Unbound,        \* the value of an unbound variable
    Budgets         \* the bounds on what the environment does, see Budget

(* Bounds on the calls of operationBind, operationAppend and operationKill, *)
(* on the references sent, the proxies collected and the sites that crash.  *)
Budget == [{"bind", "need", "kill", "export", "leave", "crash"} -> Nat]

ASSUME UnboundAssumption == Unbound \notin Site
ASSUME BudgetsAssumption == Budgets \subseteq Budget

VARIABLES
    \* OzVariableMediator and its variable, at each site
    value,      \* what the variable is bound to
    needed,     \* it is marked as needed
    waiting,    \* a thread is suspended on it
    \* ProtocolProxy
    present,    \* the site has a proxy of the variable
    status,     \* getStatus()
    pfail,      \* isPermFail()
    \* ProtocolManager, at Home
    mstatus,    \* getStatus()
    mfail,      \* isPermFail()
    proxies,    \* a_proxies
    \* what is left of the bounds, and which of "kill", "leave" and, in
    \* TransientRemote, "crossed" and "dropped" happened
    budget,
    history

entityVars == <<value, needed, waiting>>
proxyVars == <<present, status, pfail>>
managerVars == <<mstatus, mfail, proxies>>
envVars == <<budget, history>>
transientVars == <<entityVars, proxyVars, managerVars, netVars, envVars>>

(* Messages to the manager and to a proxy, and references in messages of   *)
(* other entities; val is the value or the kind of registration.           *)
ToManager(t, v) == [to |-> "manager", type |-> t, val |-> v]
ToProxy(t, v) == [to |-> "proxy", type |-> t, val |-> v]
Reference(reg) == [to |-> "site", type |-> "REFERENCE", val |-> reg]

Notice(t) == ToProxy(t, Unbound)

ToAll(S, m) == [d \in Site |-> IF d \in S THEN <<m>> ELSE <<>>]

sendToManager(t, v) == To(Home, ToManager(t, v))

Spend(b) ==
    /\ budget[b] > 0
    /\ budget' = [budget EXCEPT ![b] = @ - 1]
    /\ history' = history \cup ({b} \cap {"kill", "leave"})

Record(e, happened) == history' = history \cup {x \in {e} : happened}

(* The variable becomes distributed at Home.                               *)
TransientInit ==
    /\ NetInit
    /\ value = [p \in Site |-> Unbound]
    /\ needed = [p \in Site |-> FALSE]
    /\ waiting = [p \in Site |-> FALSE]
    /\ present = [p \in Site |-> p = Home]
    /\ status = [p \in Site |-> "FREE"]
    /\ pfail = [p \in Site |-> FALSE]
    /\ mstatus = "FREE"
    /\ mfail = FALSE
    /\ proxies = {Home}
    /\ budget \in Budgets
    /\ history = {}

(* The variable of p can be used: it is distributed, unbound and not       *)
(* failed.  The mediator of a bound variable is passive.                   *)
Usable(p) == present[p] /\ value[p] = Unbound /\ ~pfail[p]

(* OzVariableMediator::bind wakes up the threads that are suspended.       *)
BindVariable(p, v) ==
    /\ value' = [value EXCEPT ![p] = v]
    /\ waiting' = [waiting EXCEPT ![p] = FALSE]

(* callback_Append marks a variable that is still active.                  *)
AppendNeed(p) == needed' = [needed EXCEPT ![p] = @ \/ value[p] = Unbound]

(* callback_Changes: what a proxy that registers must be told.             *)
Changes == needed[Home] /\ value[Home] = Unbound

(* A proxy is created at p for a reference from another site, and fails at *)
(* once if the home site is known to have failed.                          *)
CreateProxy(p) ==
    /\ present' = [present EXCEPT ![p] = TRUE]
    /\ status' = [status EXCEPT ![p] = "FREE"]
    /\ pfail' = [pfail EXCEPT ![p] = Home \in perm[p]]

(* The garbage collector deletes the proxy of p.  An unbound variable with *)
(* suspended threads is kept unless it has failed.                         *)
Collectable(p) == p # Home /\ present[p] /\ (waiting[p] => pfail[p])

(* The destructor deregisters a proxy that has tried neither to bind nor   *)
(* to kill; failure deregisters.                                           *)
DeregisterOut(p) ==
    IF status[p] = "FREE" /\ ~pfail[p]
    THEN sendToManager("DEREGISTER", Unbound) ELSE Silent

DeleteVariable(p) ==
    /\ present' = [present EXCEPT ![p] = FALSE]
    /\ value' = [value EXCEPT ![p] = Unbound]
    /\ needed' = [needed EXCEPT ![p] = FALSE]
    /\ waiting' = [waiting EXCEPT ![p] = FALSE]
    /\ status' = [status EXCEPT ![p] = "FREE"]
    /\ pfail' = [pfail EXCEPT ![p] = FALSE]

-----------------------------------------------------------------------------
Head1(s, p) == Head(chan[<<s, p>>])

ProxyGets(s, p, t) ==
    /\ CanRecv(s, p)
    /\ Head1(s, p).to = "proxy" /\ Head1(s, p).type = t
    /\ present[p] /\ ~pfail[p] /\ status[p] # "BOUND"

(* No proxy at the destination, or one whose variable is bound or failed.  *)
ProxyIgnores(s, p) ==
    /\ CanRecv(s, p)
    /\ Head1(s, p).to = "proxy"
    /\ ~present[p] \/ pfail[p] \/ status[p] = "BOUND"
    /\ Consume(s, p, Silent)
    /\ UNCHANGED <<entityVars, proxyVars, managerVars, envVars>>

ManagerGets(s, t) ==
    /\ CanRecv(s, Home)
    /\ Head1(s, Home).to = "manager" /\ Head1(s, Home).type = t

(* The manager takes no notice of m.                                       *)
ManagerSkips(s) ==
    /\ Consume(s, Home, Silent)
    /\ UNCHANGED <<entityVars, proxyVars, managerVars, envVars>>

GetsReference(s, p) ==
    /\ CanRecv(s, p)
    /\ Head1(s, p).type = "REFERENCE"

(* The entity exists at p: dispose_protocol_info.                          *)
DisposeReference(s, p) ==
    /\ GetsReference(s, p) /\ present[p]
    /\ Consume(s, p, Silent)
    /\ UNCHANGED <<entityVars, proxyVars, managerVars, budget>>

(* A message that carries a reference is sent by p, whose variable is not  *)
(* bound, to q.  A reference to the home site finds the entity there.      *)
MayExport(p, q) ==
    /\ present[p] /\ value[p] = Unbound
    /\ p # q /\ q # Home /\ q \notin perm[p]
    /\ Spend("export")

-----------------------------------------------------------------------------
SiteCrash(s) ==
    /\ Spend("crash")
    /\ Crash(s)
    /\ UNCHANGED <<entityVars, proxyVars, managerVars>>

(* siteStateChanged: an unbound proxy depends on the home site.            *)
DetectRemote(p, s) ==
    /\ p # Home /\ CanDetect(p, s)
    /\ Detect(p, s, Silent)
    /\ pfail' = [pfail EXCEPT ![p] =
                    @ \/ (s = Home /\ present[p] /\ status[p] # "BOUND")]
    /\ UNCHANGED <<entityVars, present, status, managerVars, envVars>>

-----------------------------------------------------------------------------
(* Properties of both protocols.                                           *)

Settled(p) == value[p] # Unbound \/ pfail[p]

Gone(p) == ~alive[p] \/ ~present[p]

Outcome(p) == IF value[p] # Unbound THEN value[p]
              ELSE IF pfail[p] THEN "failed" ELSE Unbound

(* The sites may disagree on the failure of the variable only after a      *)
(* crash of the home site or a kill.                                       *)
Agree == INSTANCE Decision
    WITH outcome <- [p \in Site |-> Outcome(p)],
         down <- {s \in Site : ~alive[s]},
         broken <- "kill" \in history \/ ~alive[Home],
         split <- "crossed" \in history

(* However bindings, kills, crashes, imports and garbage collection race,  *)
(* no two sites ever see different values and no value changes; and unless *)
(* the variable is killed or its home site crashes, no site sees it fail   *)
(* while another sees it bound.  In transient-remote this ends when the    *)
(* write token and a deregistration of the same site cross each other;     *)
(* once-only has no such case.                                             *)
Agreement == Agree!Spec

Waiting(p) == present[p] /\ status[p] = "WAITING"

(* "The proxy will eventually receive the OO_REDIRECT message (or possibly *)
(* PROT_PERMFAIL)": every attempt to bind made before the manager has      *)
(* failed comes to an end, as long as no proxy leaves, the variable is not *)
(* killed and no write token is dropped; sites may crash, the proxy that   *)
(* performs the binding included.                                          *)
BindSettles ==
    \A p \in Site :
        Waiting(p) /\ ~mfail ~> Settled(p) \/ Gone(p) \/ history # {}

(* A need for the value, wherever it arises, reaches the home site, which  *)
(* tells the sites that register later, also if the request for it was     *)
(* passed to a proxy that has left since; unless the variable is killed,   *)
(* the write token has been dropped, or two proxies have it.               *)
NeedReachesHome ==
    \A q \in Site :
        present[q] /\ needed[q]
            ~> \/ needed[Home] \/ Settled(Home) \/ Gone(q) \/ Gone(Home)
               \/ history \cap {"kill", "dropped", "crossed"} # {}
=============================================================================
