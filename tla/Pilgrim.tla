------------------------------- MODULE Pilgrim -------------------------------
(***************************************************************************)
(* The pilgrim protocol (PN_PILGRIM_STATE) on a stationary coordinator:    *)
(* the token circulates among the proxies of a ring that the manager       *)
(* maintains.  Colorings of the ring find out whether the token is lost    *)
(* and which proxies outside the ring are unreachable.                     *)
(*                                                                         *)
(* The handlers of a proxy are functions of its state; their result is the *)
(* new state and what the proxy sends.                                     *)
(***************************************************************************)
EXTENDS Network, Functions

CONSTANTS
    NoSite,         \* the NULL DSite pointer
    FreeRounds,     \* rounds without an access before a proxy leaves the ring
    Budgets         \* the bounds on what the environment does, see Budget

(* Bounds on the accesses that suspend, the calls of clearWeakRoot and     *)
(* operationKill, the proxies created and the sites that crash.            *)
Budget == [{"access", "weak", "kill", "import", "crash"} -> Nat]

ASSUME NoSiteAssumption == NoSite \notin Site
ASSUME FreeRoundsAssumption == FreeRounds \in Nat \ {0}
ASSUME BudgetsAssumption == Budgets \subseteq Budget

VARIABLES
    proxy,      \* the ProtocolPilgrimProxy of each site
    manager,    \* the ProtocolPilgrimManager, at Home
    budget      \* what is left of the bounds

vars == <<proxy, manager, budget, netVars>>

-----------------------------------------------------------------------------
(* PilgrimColor.  Colors are numbered modulo 2^29 and compared within half *)
(* of that range, so that the order is that of the numbers as long as no   *)
(* two colors in use are 2^28 changes apart.  It is reflexive.             *)

White == [value |-> 0, dark |-> FALSE]
IsWhite(c) == c.value = 0
Darkened(c, b) == [c EXCEPT !.dark = @ \/ b]
NextColor(c) == [value |-> c.value + 1, dark |-> FALSE]
SameColor(c, d) == c.value = d.value
NotNewer(c, d) == c.value <= d.value

(* Messages: a type, and a site or a color where the type has one.         *)
Msg(to, t, s, c) == [to |-> to, type |-> t, site |-> s, color |-> c]
ToManager(t, s, c) == Msg("manager", t, s, c)
Notice(t) == Msg("proxy", t, NoSite, White)
Forward(s) == Msg("proxy", "FORWARD", s, White)
Colored(t, c) == Msg("proxy", t, NoSite, c)

sendToManager(t) == To(Home, ToManager(t, NoSite, White))

ToAll(S, m) == [d \in Site |-> IF d \in S THEN <<m>> ELSE <<>>]

Result(x, o) == [st |-> x, out |-> o]

-----------------------------------------------------------------------------
(* The constructor at the home site, and m_initRemoteProt.                 *)
HomeProxy ==
    [present |-> TRUE, hasToken |-> TRUE, isInRing |-> TRUE,
     isReachable |-> TRUE, isColoring |-> FALSE, isStrict |-> TRUE,
     successor |-> Home, freeRounds |-> 0, color |-> Darkened(White, TRUE),
     waiting |-> FALSE, permFail |-> FALSE]

RemoteProxy ==
    [HomeProxy EXCEPT !.hasToken = FALSE, !.isInRing = FALSE,
                      !.isReachable = FALSE, !.successor = NoSite]

NoProxy == [RemoteProxy EXCEPT !.present = FALSE]

HomeManager ==
    [ring |-> <<Home>>, lastLeaving |-> FALSE, color |-> Darkened(White, TRUE),
     proxies |-> {Home}, permFail |-> FALSE]

Spend(b) == budget[b] > 0 /\ budget' = [budget EXCEPT ![b] = @ - 1]

Init ==
    /\ NetInit
    /\ proxy = [p \in Site |-> IF p = Home THEN HomeProxy ELSE RemoteProxy]
    /\ manager = HomeManager
    /\ budget \in Budgets

-----------------------------------------------------------------------------
(* Steps of the proxy x of site p.                                         *)

(* m_enter                                                                 *)
Entered(x) ==
    IF x.isInRing THEN x
    ELSE [x EXCEPT !.isInRing = TRUE, !.isReachable = TRUE,
                   !.isColoring = FALSE, !.successor = NoSite,
                   !.color = White]

EnterOut(x) == IF x.isInRing THEN Silent ELSE sendToManager("ENTER")

(* Faulty variant: the token is copied.                                    *)
ForwardTokenKept(p, x) ==
    IF x.hasToken /\ x.successor \notin {NoSite, p}
    THEN Result(x, To(x.successor, Colored("TOKEN", x.color)))
    ELSE Result(x, Silent)

(* m_forwardToken: a proxy that is alone, or knows no successor, keeps it. *)
ForwardToken(p, x) ==
    IF x.hasToken /\ x.successor \notin {NoSite, p}
    THEN Result([x EXCEPT !.hasToken = FALSE],
                To(x.successor, Colored("TOKEN", x.color)))
    ELSE Result(x, Silent)

(* m_forwardColor                                                          *)
ForwardColor(x) ==
    Result([x EXCEPT !.isColoring = x.successor = NoSite],
           IF x.successor = NoSite THEN Silent
           ELSE To(x.successor, Colored("COLOR", x.color)))

(* Faulty variant: the suspended threads are forgotten.                    *)
LostTokenSilently(x) ==
    [x EXCEPT !.permFail = TRUE, !.successor = NoSite]

(* m_lostToken                                                             *)
LostToken(x) ==
    [x EXCEPT !.permFail = TRUE, !.waiting = FALSE, !.successor = NoSite]

(* PLGM_FORWARD                                                            *)
GetForward(p, x, m) ==
    LET y == [x EXCEPT !.successor = m.site]
        c == IF y.isColoring THEN ForwardColor(y) ELSE Result(y, Silent)
        t == ForwardToken(p, c.st)
    IN  Result(t.st, Both(c.out, t.out))

(* Faulty variant: a proxy outside the ring refuses the token.             *)
AcceptsInRing(x, c) == x.isInRing /\ SameColor(x.color, c)

(* m_acceptTokenColor: a white proxy takes the color of the token.         *)
Accepts(x, c) == ~x.isStrict \/ IsWhite(x.color) \/ SameColor(x.color, c)

(* A free round: one more round without an access.  Below zero the counter *)
(* never reaches zero again and is not counted any further.                *)
Leaves(x) == ~x.waiting /\ x.isInRing /\ x.freeRounds = 1

RoundsLeft(x) ==
    IF x.waiting THEN FreeRounds
    ELSE IF x.isInRing /\ x.freeRounds >= 0 THEN x.freeRounds - 1
    ELSE x.freeRounds

(* PLGM_TOKEN: resume the operations, or count a free round, and pass on.  *)
GetToken(p, x, m) ==
    IF Accepts(x, m.color)
    THEN LET c == IF IsWhite(x.color) THEN m.color ELSE x.color
             y == [x EXCEPT !.hasToken = TRUE,
                            !.color = Darkened(c, TRUE), !.isStrict = TRUE,
                            !.freeRounds = RoundsLeft(x), !.waiting = FALSE,
                            !.isInRing = @ /\ ~Leaves(x)]
             t == ForwardToken(p, y)
         IN  Result(t.st, Both(IF Leaves(x) THEN sendToManager("LEAVE")
                               ELSE Silent, t.out))
    ELSE Result(LostToken(x), Silent)

(* PLGM_COLOR_START and PLGM_COLOR: take the color if it is more recent.   *)
Take(x, c) == [x EXCEPT !.color = Darkened(c, x.hasToken)]

GetColorStart(p, x, m) ==
    IF NotNewer(x.color, m.color)
    THEN ForwardColor([Take(x, m.color) EXCEPT !.isStrict = x.hasToken])
    ELSE Result(x, Silent)

GetColor(p, x, m) ==
    CASE SameColor(x.color, m.color) /\ (x.color.dark \/ m.color.dark) ->
           Result(x, To(Home, ToManager("COLOR_DONE", NoSite, m.color)))
      [] SameColor(x.color, m.color) /\ ~(x.color.dark \/ m.color.dark) ->
           Result(LostToken(x), sendToManager("PERMFAIL"))
      [] OTHER -> IF NotNewer(x.color, m.color)
                  THEN ForwardColor(Take(x, m.color)) ELSE Result(x, Silent)

GetColorDone(p, x, m) ==
    Result([x EXCEPT !.isReachable =
                @ /\ (x.isInRing \/ SameColor(x.color, m.color))], Silent)

GetPermFail(p, x, m) == Result(LostToken(x), Silent)

(* siteStateChanged, when site s has failed.                               *)
SiteFails(x, s) ==
    CASE x.present /\ ~x.permFail /\ s = Home ->
           Result(LostToken(x), Silent)
      [] x.present /\ ~x.permFail /\ s # Home /\ x.successor = s ->
           Result([x EXCEPT !.successor = NoSite],
                  To(Home, ToManager("FAILED", s, White)))
      [] OTHER -> Result(x, Silent)

-----------------------------------------------------------------------------
(* Proxy: operations of site p.                                            *)

(* protocol_Access without the token.  (With the token the operation       *)
(* proceeds, after a failure it raises an exception.)                      *)
Access(p) ==
    /\ proxy[p].present /\ ~proxy[p].permFail /\ ~proxy[p].hasToken
    /\ ~proxy[p].waiting
    /\ Spend("access")
    /\ Emit(p, EnterOut(proxy[p]))
    /\ proxy' = [proxy EXCEPT ![p] = [Entered(@) EXCEPT !.waiting = TRUE]]
    /\ UNCHANGED manager

(* operationKill: protocol_Kill.                                           *)
Kill(p) ==
    /\ proxy[p].present /\ ~proxy[p].permFail
    /\ Spend("kill")
    /\ Emit(p, sendToManager("PERMFAIL"))
    /\ UNCHANGED <<proxy, manager>>

(* Garbage collection of a remote proxy that only isReachable keeps alive. *)
ClearWeakRoot(p) ==
    /\ p # Home /\ proxy[p].present /\ proxy[p].isReachable
    /\ Spend("weak")
    /\ Emit(p, sendToManager(IF proxy[p].isInRing THEN "LEAVE"
                             ELSE "COLOR_START"))
    /\ proxy' = [proxy EXCEPT ![p].isInRing = FALSE]
    /\ UNCHANGED manager

(* Garbage collection of a remote proxy that is no weak root: it always    *)
(* deregisters, unless it has failed.                                      *)
DeleteProxy(p) ==
    /\ p # Home /\ proxy[p].present /\ ~proxy[p].isReachable
    /\ Emit(p, IF proxy[p].permFail THEN Silent
               ELSE sendToManager("DEREGISTER"))
    /\ proxy' = [proxy EXCEPT ![p] = NoProxy]
    /\ UNCHANGED <<manager, budget>>

(* Site p receives a reference to the entity and creates a proxy, which    *)
(* fails at once if the home site is known to have failed.                 *)
ImportProxy(p) ==
    /\ ~proxy[p].present
    /\ Spend("import")
    /\ Emit(p, Silent)
    /\ proxy' = [proxy EXCEPT ![p] =
                    IF Home \in perm[p] THEN LostToken(RemoteProxy)
                    ELSE RemoteProxy]
    /\ UNCHANGED manager

-----------------------------------------------------------------------------
(* Proxy: messages from s.                                                 *)

Head1(s, p) == Head(chan[<<s, p>>])

(* No proxy at the destination, or one that has failed.                    *)
ProxyIgnores(s, p) ==
    /\ CanRecv(s, p)
    /\ Head1(s, p).to = "proxy"
    /\ ~proxy[p].present \/ proxy[p].permFail
    /\ Consume(s, p, Silent)
    /\ UNCHANGED <<proxy, manager, budget>>

(* The proxy of p handles a message of type t with the result r.           *)
ProxyHandles(s, p, t, r) ==
    /\ CanRecv(s, p)
    /\ Head1(s, p).to = "proxy" /\ Head1(s, p).type = t
    /\ proxy[p].present /\ ~proxy[p].permFail
    /\ Consume(s, p, r.out)
    /\ proxy' = [proxy EXCEPT ![p] = r.st]
    /\ UNCHANGED <<manager, budget>>

ProxyReceives(s, p) ==
    LET x == proxy[p]
        m == Head1(s, p)
    IN  \/ ProxyIgnores(s, p)
        \/ ProxyHandles(s, p, "FORWARD", GetForward(p, x, m))
        \/ ProxyHandles(s, p, "TOKEN", GetToken(p, x, m))
        \/ ProxyHandles(s, p, "COLOR_START", GetColorStart(p, x, m))
        \/ ProxyHandles(s, p, "COLOR", GetColor(p, x, m))
        \/ ProxyHandles(s, p, "COLOR_DONE", GetColorDone(p, x, m))
        \/ ProxyHandles(s, p, "PERMFAIL", GetPermFail(p, x, m))

-----------------------------------------------------------------------------
(* SimpleRing, as the sequence that starts with the current element.       *)

InRing(s) == s \in Range(manager.ring)

(* find(s)                                                                 *)
Rotated(s) ==
    LET r == manager.ring
        i == CHOOSE i \in DOMAIN r : r[i] = s
    IN  SubSeq(r, i, Len(r)) \o SubSeq(r, 1, i - 1)

Predecessor(r) == r[Len(r)]
Current(r) == r[1]

-----------------------------------------------------------------------------
(* Manager.                                                                *)

(* m_lostToken of the manager, with the proxies S registered.              *)
ManagerLost(S) ==
    Result([manager EXCEPT !.permFail = TRUE, !.proxies = {}, !.ring = <<>>],
           ToAll(S, Notice("PERMFAIL")))

(* A color change that starts at the current proxy of the ring r.          *)
StartColoring(x, r) ==
    LET c == NextColor(manager.color) IN
    Result([x EXCEPT !.ring = r, !.color = c],
           To(Current(r), Colored("COLOR_START", c)))

(* m_removeFailed: close the ring and start a color change.                *)
RemoveFailed(s) ==
    LET registered == manager.proxies \ {s}
        r == IF InRing(s) THEN Tail(Rotated(s)) ELSE manager.ring
        c == StartColoring([manager EXCEPT !.proxies = registered], r)
    IN  IF r = <<>> THEN ManagerLost(registered)
        ELSE IF InRing(s)
        THEN Result(c.st, Both(To(Predecessor(r), Forward(Current(r))), c.out))
        ELSE c

ManagerGets(s, t) ==
    /\ CanRecv(s, Home)
    /\ Head1(s, Home).to = "manager" /\ Head1(s, Home).type = t
    /\ ~manager.permFail

(* The manager's part of a step with the result r.                         *)
ManagerHandles(s, t, r) ==
    /\ ManagerGets(s, t)
    /\ Consume(s, Home, r.out)
    /\ manager' = r.st
    /\ UNCHANGED <<proxy, budget>>

(* The entity has failed: whatever the message, its sender is told.        *)
ManagerRefuses(s) ==
    /\ CanRecv(s, Home)
    /\ Head1(s, Home).to = "manager" /\ manager.permFail
    /\ Consume(s, Home, To(s, Notice("PERMFAIL")))
    /\ UNCHANGED <<proxy, manager, budget>>

Deregister(s) ==
    ManagerHandles(s, "DEREGISTER",
        Result([manager EXCEPT !.proxies = @ \ {s}], Silent))

(* Faulty variants: the proxy is not registered, and its predecessor is    *)
(* not told of it.                                                         *)
JoinedUnregistered(s) ==
    Result([manager EXCEPT !.lastLeaving = FALSE, !.ring = <<s>> \o @],
           Both(To(Predecessor(manager.ring), Forward(s)),
                To(s, Forward(Current(manager.ring)))))

JoinedUnknown(s) ==
    Result([manager EXCEPT !.proxies = @ \cup {s}, !.lastLeaving = FALSE,
                           !.ring = <<s>> \o @],
           To(s, Forward(Current(manager.ring))))

(* The proxy of s joins the ring before the current one, or replaces the   *)
(* last one, which waits to leave.                                         *)
Joined(s) ==
    LET registered == [manager EXCEPT !.proxies = @ \cup {s},
                                      !.lastLeaving = FALSE]
        r == manager.ring
    IN  CASE manager.lastLeaving /\ Current(r) = s ->
               Result(registered, Silent)
          [] manager.lastLeaving /\ Current(r) # s ->
               Result([registered EXCEPT !.ring = <<s>> \o Tail(r)],
                      Both(To(Current(r), Forward(s)), To(s, Forward(s))))
          [] OTHER ->
               Result([registered EXCEPT !.ring = <<s>> \o r],
                      Both(To(Predecessor(r), Forward(s)),
                           To(s, Forward(Current(r)))))

Enter(s) == ManagerHandles(s, "ENTER", Joined(s))

(* The last proxy stays in the ring until another one enters; the home     *)
(* proxy is made to enter.                                                 *)
LastLeaves(s) == InRing(s) /\ Len(manager.ring) = 1

Leave(s) ==
    /\ ManagerGets(s, "LEAVE")
    /\ IF LastLeaves(s) /\ s # Home
       THEN /\ Consume(s, Home, EnterOut(proxy[Home]))
            /\ proxy' = [proxy EXCEPT ![Home] = Entered(@)]
            /\ manager' = [manager EXCEPT !.lastLeaving = TRUE]
       ELSE LET r == Tail(Rotated(s)) IN
            /\ UNCHANGED proxy
            /\ CASE LastLeaves(s) ->
                      /\ Consume(s, Home, Silent)
                      /\ manager' = [manager EXCEPT !.lastLeaving = TRUE]
                 [] InRing(s) /\ ~LastLeaves(s) ->
                      /\ Consume(s, Home,
                                 To(Predecessor(r), Forward(Current(r))))
                      /\ manager' = [manager EXCEPT !.ring = r]
                 [] OTHER -> Consume(s, Home, Silent) /\ UNCHANGED manager
    /\ UNCHANGED budget

ColorStart(s) ==
    ManagerHandles(s, "COLOR_START", StartColoring(manager, manager.ring))

(* The coloring is over: tell the registered proxies outside the ring.     *)
(* The search for each proxy in the ring turns the ring.                   *)
ColorDone(s) ==
    \/ /\ ManagerGets(s, "COLOR_DONE")
       /\ ~SameColor(manager.color, Head1(s, Home).color)
       /\ Consume(s, Home, Silent)
       /\ UNCHANGED <<proxy, manager, budget>>
    \/ \E q \in Range(manager.ring) :
        /\ ManagerGets(s, "COLOR_DONE")
        /\ SameColor(manager.color, Head1(s, Home).color)
        /\ Consume(s, Home, ToAll(manager.proxies \ Range(manager.ring),
                                  Colored("COLOR_DONE", manager.color)))
        /\ manager' = [manager EXCEPT !.ring = Rotated(q)]
        /\ UNCHANGED <<proxy, budget>>

Failed(s) == ManagerHandles(s, "FAILED", RemoveFailed(Head1(s, Home).site))

PermFail(s) ==
    ManagerHandles(s, "PERMFAIL", ManagerLost(manager.proxies))

ManagerReceives(s) ==
    \/ ManagerRefuses(s) \/ Deregister(s) \/ Enter(s) \/ Leave(s)
    \/ ColorStart(s) \/ ColorDone(s) \/ Failed(s) \/ PermFail(s)

-----------------------------------------------------------------------------
(* Failures.                                                               *)

SiteCrash(s) ==
    /\ Spend("crash")
    /\ Crash(s)
    /\ UNCHANGED <<proxy, manager>>

(* Site p is told that s has failed, at home first the proxy and then the  *)
(* manager.                                                                *)
SiteStateChange(p, s) ==
    LET x == SiteFails(proxy[p], s)
        tell == p = Home /\ ~manager.permFail /\ s \in manager.proxies
    IN  /\ CanDetect(p, s)
        /\ Detect(p, s, IF tell THEN Both(x.out, RemoveFailed(s).out)
                        ELSE x.out)
        /\ proxy' = [proxy EXCEPT ![p] = x.st]
        /\ manager' = IF tell THEN RemoveFailed(s).st ELSE manager
        /\ UNCHANGED budget

-----------------------------------------------------------------------------
Operation(p) ==
    \/ Access(p) \/ Kill(p) \/ ClearWeakRoot(p)
    \/ DeleteProxy(p) \/ ImportProxy(p)

Next ==
    \/ \E p \in Site : Operation(p) \/ SiteCrash(p)
    \/ \E s, p \in Site : ProxyReceives(s, p) \/ SiteStateChange(p, s)
    \/ \E s \in Site : ManagerReceives(s)

Spec == Init /\ [][Next]_vars

(* The event loop of a live site reads every connection and sweeps its     *)
(* loopback queue for ever; a crash is eventually reported everywhere.     *)
Fairness ==
    /\ \A s, p \in Site : WF_vars(ProxyReceives(s, p))
    /\ \A s \in Site : WF_vars(ManagerReceives(s))
    /\ \A p, s \in Site : WF_vars(SiteStateChange(p, s))

FairSpec == Spec /\ Fairness

-----------------------------------------------------------------------------
(* Properties.                                                             *)

(* The proxy of p can operate on the state of the entity.                  *)
Holder(p) ==
    alive[p] /\ proxy[p].present /\ ~proxy[p].permFail /\ proxy[p].hasToken

(* A message of type t is on its way from s to p.                          *)
UnderWay(s, p, t) ==
    \E i \in DOMAIN chan[<<s, p>>] : chan[<<s, p>>][i].type = t

TokenUnderWay(d) == \E s \in Site : UnderWay(s, d, "TOKEN")

Mobile == INSTANCE MobileState WITH
    at <- {p \in Site : Holder(p)},
    moving <- {d \in Site : TokenUnderWay(d)}

(* Whatever crashes, kills, colorings and garbage collections happen, the  *)
(* state is in one place and what is lost never reappears: no late         *)
(* PLGM_TOKEN revives a state that a failure or a collection has ended.    *)
StateIsMobile == Mobile!Spec

NoCrash == \A s \in Site : alive[s]

(* Nothing has failed and no color change has been started.                *)
Undisturbed == NoCrash /\ ~manager.permFail /\ IsWhite(manager.color)

(* However proxies enter and leave the ring while the token is under way,  *)
(* the token is never lost before a crash, a kill or a color change.       *)
LostOnlyIfDisturbed == [][Mobile!Lose => ~Undisturbed']_vars

(* The invariants that protocol_pilgrim.hh lists and the assertions of the *)
(* manager: the ring is empty iff the token is lost, its proxies are       *)
(* registered and appear once, no proxy enters the ring twice or           *)
(* deregisters in the ring, and a proxy that waits to leave is alone.      *)
(* Such a last proxy may deregister, which the manager's assertion denies: *)
(* the ring then holds a proxy that is not registered, until the next one  *)
(* enters.                                                                 *)
RingConsistent ==
    alive[Home] =>
        /\ manager.permFail <=> manager.ring = <<>>
        /\ IsInjective(manager.ring)
        /\ manager.lastLeaving /\ ~manager.permFail => Len(manager.ring) = 1
        /\ \/ manager.lastLeaving
           \/ /\ Range(manager.ring) \subseteq manager.proxies
              /\ \A s \in Site :
                    ManagerGets(s, "ENTER") \/ ManagerGets(s, "DEREGISTER")
                        => ~InRing(s)

(* The proxies form the manager's ring: when every PLGM_FORWARD has been   *)
(* processed, each proxy of a ring of several knows its successor there,   *)
(* or has left and is about to enter again.                                *)
RingClosed ==
    LET r == manager.ring
        next(i) == r[IF i = Len(r) THEN 1 ELSE i + 1]
    IN  (/\ Undisturbed
         /\ Len(r) > 1
         /\ \A p \in Site : ~proxy[p].permFail
         /\ \A p \in Site : ~UnderWay(Home, p, "FORWARD"))
        => \A i \in DOMAIN r : \/ proxy[r[i]].successor = next(i)
                               \/ UnderWay(r[i], Home, "ENTER")

(* A thread that waits for the token is resumed, with the token or because *)
(* the entity has failed, unless the garbage collector makes its proxy     *)
(* leave the ring or, the home site alive, crashes and color changes get   *)
(* in the way.                                                             *)
WaitingResumes ==
    \A p \in Site :
        proxy[p].waiting ~> \/ ~proxy[p].waiting
                            \/ ~proxy[p].isInRing
                            \/ ~alive[p]
                            \/ alive[Home] /\ ~NoCrash
                            \/ alive[Home] /\ ~IsWhite(manager.color)
=============================================================================
