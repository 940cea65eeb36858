----------------------------- MODULE References -----------------------------
(***************************************************************************)
(* Distributed garbage collection: the home reference of an entity, kept   *)
(* by its coordinator, and the remote references kept by its proxies.      *)
(* Both run the same list of algorithms: weighted reference counting (WRC),*)
(* time leases (TL) and two versions of reference listing (RLV1, RLV2).    *)
(* The home reference is a root as long as all its algorithms say so; when *)
(* it is no root the garbage collector localizes the entity.               *)
(*                                                                         *)
(* The state of an algorithm is a weight (WRC), the expiry of the lease    *)
(* and at a proxy the time of its timer (TL), or the list of a SiteHandler *)
(* and at a proxy a count (RLV1, RLV2).  Time passes in steps; a message   *)
(* of the lease algorithm takes at most MaxDelay of them.                  *)
(***************************************************************************)
EXTENDS Network, Weighted, Functions

CONSTANTS
    Lease,          \* gc_tl_leaseTime
    Update,         \* gc_tl_updateTime: renew the lease so long before it ends
    MaxDelay,       \* the longest time a lease or its renewal is under way
    MaxTime,        \* bound on the time
    Annotations     \* the algorithms of an entity, with bounds: see Annotation

Algorithm == {"WRC", "TL", "RLV1", "RLV2"}

(* The algorithms, and bounds on the references sent, on those sent to a   *)
(* site that has been sent one before, and on the sites that crash.        *)
Annotation ==
    [algs: SUBSET Algorithm \ {{}}, export: Nat, again: Nat, crash: Nat]

ASSUME AnnotationsAssumption == Annotations \subseteq Annotation
ASSUME LeaseAssumption ==
    /\ Lease \in Nat /\ Update \in Nat /\ MaxDelay \in Nat /\ MaxTime \in Nat
    /\ Lease > Update

(* Whoever receives a reference or a renewal takes the lease for younger   *)
(* than it is, by the delay of the message; the time for a renewal must    *)
(* make up for this, however often the reference is passed on.             *)
ASSUME DelayAssumption ==
    \A x \in Annotations :
        "TL" \in x.algs => (x.export + 1) * MaxDelay <= Update

VARIABLES
    algs,       \* the algorithms of the entity
    home,       \* a_algs of the HomeReference
    held,       \* held[p]: site p has a proxy and its RemoteReference
    remote,     \* a_algs of the RemoteReference of each site
    sentTo,     \* the sites that a reference has been sent to
    localized,  \* the home site has localized the entity
    now,        \* m_getCurrTime()
    rearmed,    \* a timer has been set again, by then for the end of a lease
    budget      \* what is left of the bounds

refVars == <<home, held, remote>>
envVars == <<algs, localized, now, rearmed>>
vars == <<refVars, envVars, sentTo, budget, netVars>>

(* A reference in a message of another entity, with the information of     *)
(* each algorithm, and the messages of the algorithms.                     *)
RefMsg(i) == [to |-> "site", type |-> "REF", alg |-> "", info |-> i]
CtlMsg(to, a, t, i) == [to |-> to, type |-> t, alg |-> a, info |-> i]

ToHome(a, t, i) == To(Home, CtlMsg("home", a, t, i))

Result(x, o) == [st |-> x, out |-> o]

Spend(b) == budget[b] > 0 /\ budget' = [budget EXCEPT ![b] = @ - 1]

InTransit(s, p) ==
    {i \in DOMAIN chan[<<s, p>>] : chan[<<s, p>>][i].type = "REF"}

(* A reference to the entity exists at p or is on its way there.           *)
Referenced(p) ==
    alive[p] /\ (held[p] \/ \E s \in Site : InTransit(s, p) # {})

(* A reference is sent to q.                                               *)
SpendExport(q) ==
    /\ budget.export > 0 /\ (q \in sentTo => budget.again > 0)
    /\ budget' = [budget EXCEPT !.export = @ - 1,
                                !.again = IF q \in sentTo THEN @ - 1 ELSE @]
    /\ sentTo' = sentTo \cup {q}

-----------------------------------------------------------------------------
(* SiteHandler: a_siteList, as a function from the sites listed.           *)

NoSites == [s \in {} |-> 0]

ModifyDSite(list, s, n) ==
    IF s \notin DOMAIN list
    THEN [x \in DOMAIN list \cup {s} |-> IF x = s THEN n ELSE list[x]]
    ELSE IF list[s] + n = 0 THEN Restrict(list, DOMAIN list \ {s})
    ELSE [list EXCEPT ![s] = @ + n]

InsertDSite(list, s) == ModifyDSite(list, s, 1)
RemoveDSite(list, s, n) == ModifyDSite(list, s, 0 - n)

(* A faulty gcPreps that keeps the sites that have failed.                 *)
GcPrepsKeepsFailed(list, failed) == list

(* gcPreps drops the sites that have failed.                               *)
GcPreps(list, failed) == Restrict(list, DOMAIN list \ failed)

-----------------------------------------------------------------------------
(* The algorithms.                                                         *)

NoTimer == -1

(* The time that is left, when it is sent.                                 *)
Remaining(t) == [lease |-> t, sent |-> now]

(* A faulty setTimer that renews the lease only when it ends.              *)
SetTimerAtExpiry(i) == now + i

(* setTimer, for a lease of i.                                             *)
SetTimer(i) == now + i - Update

(* TL_Remote gets another lease: setTimer, unless a timer runs already.    *)
Timer(old, i) == IF old = NoTimer /\ i > Update THEN SetTimer(i) ELSE old

NewHome(a) ==
    CASE a = "WRC" -> FracInit(MaxEnum, 1)
      [] a = "TL" -> now + Lease
      [] OTHER -> NoSites

NewRemote(a) ==
    CASE a = "WRC" -> NoFrac
      [] a = "TL" -> [expire |-> 0, timer |-> NoTimer]
      [] OTHER -> [sites |-> NoSites, decs |-> 0]

(* m_getReferenceInfo, for a reference to d: what is left and what is sent *)
(* with it, and a message to the home site.                                *)
Same(x) == [st |-> x, info |-> ""]

TLHomeGive == [st |-> now + Lease, info |-> Remaining(Lease)]

HomeGive(a, x, d) ==
    CASE a = "WRC" -> GetNewRefWeightPair(x)
      [] a = "TL" -> TLHomeGive
      [] OTHER -> Same(InsertDSite(x, d))

RLV1Give(x, d) == Same([x EXCEPT !.sites = InsertDSite(@, d)])

RemoteGive(a, x, d) ==
    CASE a = "WRC" -> GetNewRefWeightPair(x)
      [] a = "TL" -> [st |-> x, info |-> Remaining(x.expire - now)]
      [] a = "RLV1" -> RLV1Give(x, d)
      [] a = "RLV2" -> Same(x)

GiveOut(a, d) == IF a = "RLV2" THEN ToHome(a, "INC", d) ELSE Silent

(* The constructors of the remote algorithms, for a reference from s.      *)
TLConstruct(i) ==
    IF i.lease < Update
    THEN Result([expire |-> now + i.lease, timer |-> NoTimer],
                ToHome("TL", "RENEW", Remaining(0)))
    ELSE Result([expire |-> now + i.lease, timer |-> SetTimer(i.lease)],
                Silent)

RLV1Construct(s) ==
    Result([sites |-> NoSites, decs |-> 1],
           IF s = Home THEN Silent ELSE ToHome("RLV1", "INC_AND_ACK", s))

Construct(a, s, i) ==
    CASE a = "WRC" -> Result(FracInit(i.e, i.d), Silent)
      [] a = "TL" -> TLConstruct(i)
      [] a = "RLV1" -> RLV1Construct(s)
      [] a = "RLV2" -> Result(NewRemote(a), Silent)

(* m_mergeReferenceInfo: another reference comes from s.                   *)
TLMerge(x, i) ==
    IF now + i.lease <= x.expire THEN x
    ELSE [expire |-> now + i.lease, timer |-> Timer(x.timer, i.lease)]

Counted(x) == [x EXCEPT !.decs = @ + 1]

(* Faulty variant: a reference from another proxy is counted, and its      *)
(* sender is not told.                                                     *)
RLV1MergeUnacknowledged(x, s) == Result(Counted(x), Silent)

RLV1Merge(x, s) ==
    IF s = Home THEN Result(Counted(x), Silent)
    ELSE Result(x, To(s, CtlMsg("remote", "RLV1", "ACK_FROM_REMOTE", "")))

Merge(a, x, s, i) ==
    CASE a = "WRC" -> Result(InsertPair(x, i.e, i.d), Silent)
      [] a = "TL" -> Result(TLMerge(x, i), Silent)
      [] a = "RLV1" -> RLV1Merge(x, s)
      [] a = "RLV2" -> Result(Counted(x), Silent)

(* m_dropReference                                                         *)
DropOut(a, x) ==
    CASE a = "WRC" -> ToHome(a, "DROP", x)
      [] a = "TL" -> Silent
      [] OTHER -> ToHome(a, "DROP", x.decs)

(* m_getCtlMsg of the home algorithms, for a message m from s.             *)
TLHomeCtl(s) ==
    Result(now + Lease,
           To(s, CtlMsg("remote", "TL", "LEASE", Remaining(Lease))))

RLV1HomeCtl(x, s, m) ==
    IF m.type = "DROP" THEN Result(RemoveDSite(x, s, m.info), Silent)
    ELSE Result(InsertDSite(x, s),
                To(m.info, CtlMsg("remote", "RLV1", "ACK_FROM_HOME", s)))

RLV2HomeCtl(x, s, m) ==
    Result(IF m.type = "DROP" THEN RemoveDSite(x, s, m.info)
           ELSE InsertDSite(x, m.info), Silent)

HomeCtl(a, x, s, m) ==
    CASE a = "WRC" -> Result(Returned(x, m.info), Silent)
      [] a = "TL" -> TLHomeCtl(s)
      [] a = "RLV1" -> RLV1HomeCtl(x, s, m)
      [] a = "RLV2" -> RLV2HomeCtl(x, s, m)

(* m_getCtlMsg of TL_Remote and RLV1_Remote; the others get no messages.   *)
TLRemoteCtl(x, m) ==
    [expire |-> now + m.info.lease, timer |-> Timer(x.timer, m.info.lease)]

RLV1RemoteCtl(x, s, m) ==
    [x EXCEPT !.sites =
        RemoveDSite(@, IF m.type = "ACK_FROM_HOME" THEN m.info ELSE s, 1)]

RemoteCtl(a, x, s, m) ==
    IF a = "TL" THEN TLRemoteCtl(x, m) ELSE RLV1RemoteCtl(x, s, m)

HomeAlgIsRoot(a) ==
    CASE a = "WRC" -> ~FracIsEmpty(home[a])
      [] a = "TL" -> now <= home[a]
      [] OTHER -> home[a] # NoSites

(* m_isRoot of the HomeReference, and of the RemoteReference of p.         *)
HomeIsRoot == \A a \in algs : HomeAlgIsRoot(a)

RemoteIsRoot(p) == "RLV1" \in algs /\ remote[p]["RLV1"].sites # NoSites

(* What all algorithms send.  No algorithm takes notice of the messages of *)
(* another, so the order of the list a_algs does not matter.               *)
All(out(_)) ==
    LET o(a) == IF a \in algs THEN out(a) ELSE Silent
    IN  Both(Both(o("RLV2"), o("RLV1")), Both(o("TL"), o("WRC")))

NoRemote == [a \in algs |-> NewRemote(a)]

-----------------------------------------------------------------------------
Init ==
    /\ NetInit
    /\ \E x \in Annotations :
        /\ algs = x.algs
        /\ budget = [export |-> x.export, again |-> x.again, crash |-> x.crash]
    /\ now = 0
    /\ rearmed = FALSE
    /\ home = [a \in algs |-> NewHome(a)]
    /\ held = [p \in Site |-> FALSE]
    /\ remote = [p \in Site |-> NoRemote]
    /\ sentTo = {}
    /\ localized = FALSE

(* Marshaling a reference to q.  A reference to the home site carries no   *)
(* information.                                                            *)
HomeExport(q) ==
    LET g == [a \in algs |-> HomeGive(a, home[a], q)] IN
    /\ ~localized /\ q # Home /\ q \notin perm[Home]
    /\ "WRC" \in algs => CanGive(home["WRC"])
    /\ SpendExport(q)
    /\ Emit(Home, To(q, RefMsg([a \in algs |-> g[a].info])))
    /\ home' = [a \in algs |-> g[a].st]
    /\ UNCHANGED <<held, remote, envVars>>

RemoteExport(p, q) ==
    LET g == [a \in algs |-> RemoteGive(a, remote[p][a], q)] IN
    /\ held[p] /\ q \notin {p, Home} /\ q \notin perm[p]
    /\ "WRC" \in algs => CanGive(remote[p]["WRC"])
    /\ SpendExport(q)
    /\ Emit(p, Both(All(LAMBDA a : GiveOut(a, q)),
                    To(q, RefMsg([a \in algs |-> g[a].info]))))
    /\ remote' = [remote EXCEPT ![p] = [a \in algs |-> g[a].st]]
    /\ UNCHANGED <<home, held, envVars>>

Head1(s, p) == Head(chan[<<s, p>>])

(* Unmarshaling: m_buildAlgorithms, or m_mergeAlgorithms.                  *)
Import(s, p) ==
    LET i == Head1(s, p).info
        r == [a \in algs |->
                IF held[p] THEN Merge(a, remote[p][a], s, i[a])
                ELSE Construct(a, s, i[a])]
    IN  /\ CanRecv(s, p) /\ Head1(s, p).type = "REF"
        /\ Consume(s, p, All(LAMBDA a : r[a].out))
        /\ held' = [held EXCEPT ![p] = TRUE]
        /\ remote' = [remote EXCEPT ![p] = [a \in algs |-> r[a].st]]
        /\ UNCHANGED <<home, envVars, sentTo, budget>>

(* The garbage collector deletes the proxy of p.                           *)
DropReference(p) ==
    /\ held[p] /\ ~RemoteIsRoot(p)
    /\ Emit(p, All(LAMBDA a : DropOut(a, remote[p][a])))
    /\ held' = [held EXCEPT ![p] = FALSE]
    /\ remote' = [remote EXCEPT ![p] = NoRemote]
    /\ UNCHANGED <<home, envVars, sentTo, budget>>

(* m_msgToGcAlg at home.  Without the coordinator the message is lost.     *)
HomeMsg(s) ==
    LET m == Head1(s, Home)
        r == HomeCtl(m.alg, home[m.alg], s, m)
    IN  /\ CanRecv(s, Home) /\ m.to = "home"
        /\ IF localized THEN Consume(s, Home, Silent) /\ UNCHANGED home
           ELSE /\ Consume(s, Home, r.out)
                /\ home' = [home EXCEPT ![m.alg] = r.st]
        /\ UNCHANGED <<held, remote, envVars, sentTo, budget>>

RemoteMsg(s, p) ==
    LET m == Head1(s, p) IN
    /\ CanRecv(s, p) /\ m.to = "remote"
    /\ Consume(s, p, Silent)
    /\ remote' = IF held[p]
                 THEN [remote EXCEPT ![p][m.alg] = RemoteCtl(m.alg, @, s, m)]
                 ELSE remote
    /\ UNCHANGED <<home, held, envVars, sentTo, budget>>

(* m_makeGCpreps, at the home site and at p.                               *)
HomePreps ==
    /\ Emit(Home, Silent)
    /\ ~localized
    /\ home' = [a \in algs |-> IF a \in {"WRC", "TL"} THEN home[a]
                               ELSE GcPreps(home[a], perm[Home])]
    /\ home' # home
    /\ UNCHANGED <<held, remote, envVars, sentTo, budget>>

RemotePreps(p) ==
    /\ held[p] /\ "RLV1" \in algs
    /\ Emit(p, Silent)
    /\ remote' = [remote EXCEPT ![p]["RLV1"].sites = GcPreps(@, perm[p])]
    /\ remote' # remote
    /\ UNCHANGED <<home, held, envVars, sentTo, budget>>

(* The garbage collector of the home site finds no root.                   *)
Localize ==
    /\ sentTo # {} /\ ~localized /\ ~HomeIsRoot
    /\ Emit(Home, Silent)
    /\ localized' = TRUE
    /\ UNCHANGED <<algs, now, rearmed, refVars, sentTo, budget>>

(* updateTimerExpired: the timer is set again if the lease has been        *)
(* extended in the meantime, otherwise the lease is renewed.               *)
TimerDue(p) ==
    "TL" \in algs /\ alive[p] /\ held[p] /\ remote[p]["TL"].timer = now

TimerExpires(p) ==
    LET lt == remote[p]["TL"].expire - now IN
    /\ TimerDue(p)
    /\ IF lt > Update
       THEN /\ Emit(p, Silent)
            /\ remote' = [remote EXCEPT ![p]["TL"].timer = now + lt]
            /\ rearmed' = TRUE
       ELSE /\ Emit(p, ToHome("TL", "RENEW", Remaining(0)))
            /\ remote' = [remote EXCEPT ![p]["TL"].timer = NoTimer]
            /\ UNCHANGED rearmed
    /\ UNCHANGED <<home, held, algs, localized, now, sentTo, budget>>

(* Time passes: timers are not late, and messages not later than MaxDelay. *)
SentAt(m) == IF m.type = "REF" THEN m.info["TL"].sent ELSE m.info.sent

Tick ==
    /\ "TL" \in algs /\ sentTo # {} /\ now < MaxTime
    /\ \A p \in Site : ~TimerDue(p)
    /\ \A l \in Site \X Site : \A i \in DOMAIN chan[l] :
            chan[l][i].type \in {"REF", "RENEW", "LEASE"}
                => now - SentAt(chan[l][i]) < MaxDelay
    /\ now' = now + 1
    /\ UNCHANGED <<refVars, algs, localized, rearmed, sentTo, budget, netVars>>

SiteCrash(s) ==
    /\ Spend("crash")
    /\ Crash(s)
    /\ UNCHANGED <<refVars, envVars, sentTo>>

SiteFails(p, s) ==
    /\ CanDetect(p, s)
    /\ Detect(p, s, Silent)
    /\ UNCHANGED <<refVars, envVars, sentTo, budget>>

-----------------------------------------------------------------------------
(* What the DSS does by itself: deliver messages, detect crashes, collect. *)
System ==
    \/ \E s, p \in Site : Import(s, p) \/ RemoteMsg(s, p) \/ SiteFails(p, s)
    \/ \E s \in Site : HomeMsg(s) \/ RemotePreps(s)
    \/ \E p \in Site : TimerExpires(p)
    \/ HomePreps \/ Localize \/ Tick

Next ==
    \/ System
    \/ \E q \in Site : HomeExport(q) \/ DropReference(q) \/ SiteCrash(q)
    \/ \E p, q \in Site : RemoteExport(p, q)

Spec == Init /\ [][Next]_vars /\ WF_vars(System)

-----------------------------------------------------------------------------
(* Properties.                                                             *)

NoCrash == \A s \in Site : alive[s]

(* The home site never localizes an entity while a reference to it exists  *)
(* or is under way, however references are passed on, dropped and received *)
(* again: until a site crashes, and under WRC also afterwards; and until a *)
(* timer has been set again, since updateTimerExpired then renews a lease  *)
(* only when it ends.                                                      *)
NoDangling ==
    localized /\ ~rearmed /\ (NoCrash \/ algs = {"WRC"}) =>
        \A p \in Site : ~Referenced(p)

Sum(S, f(_)) == MapThenSumSet(f, S)

(* The weight in the messages from s to p.                                 *)
Weight(s, p) ==
    LET c == chan[<<s, p>>]
        units(i) ==
            CASE c[i].type = "REF" ->
                   Units(FracInit(c[i].info["WRC"].e, c[i].info["WRC"].d))
              [] c[i].alg = "WRC" -> Units(c[i].info)
              [] OTHER -> 0
    IN  Sum(DOMAIN c, units)

(* No weight is lost or made up by splitting and carrying: the home        *)
(* reference, the remote references and the messages together have the     *)
(* weight 1, or all of it has come back and been dropped.                  *)
WeightConserved ==
    "WRC" \in algs /\ NoCrash /\ ~localized =>
        LET away == Sum(Site, LAMBDA p : Units(remote[p]["WRC"]))
                    + Sum(Site \X Site, LAMBDA l : Weight(l[1], l[2]))
        IN  \/ Units(home["WRC"]) + away = WholeWeight
            \/ FracIsEmpty(home["WRC"]) /\ away = 0

(* The RLV1 messages of type t from s to p about site x.                   *)
About(s, p, t, x) ==
    {i \in DOMAIN chan[<<s, p>>] :
        LET m == chan[<<s, p>>][i] IN
        m.alg = "RLV1" /\ m.type = t /\ m.info = x}

Listed(list, p) == IF p \in DOMAIN list THEN list[p] ELSE 0

Drops(p) ==
    LET c == chan[<<p, Home>>] IN
    Sum({i \in DOMAIN c : c[i].alg = "RLV1" /\ c[i].type = "DROP"},
        LAMBDA i : c[i].info)

(* Reference listing: the home site counts for each site what that site    *)
(* will give back, and a proxy counts the references it has passed on that *)
(* are not acknowledged yet.                                               *)
ListsExact ==
    "RLV1" \in algs /\ NoCrash /\ ~localized =>
        \A p \in Site \ {Home} :
            /\ Listed(home["RLV1"], p) =
                   remote[p]["RLV1"].decs + Drops(p)
                   + Cardinality(InTransit(Home, p))
                   - Cardinality(UNION {About(p, Home, "INC_AND_ACK", x) :
                                            x \in Site})
            /\ \A q \in Site \ {Home} :
                Listed(remote[q]["RLV1"].sites, p) =
                    Cardinality(InTransit(q, p))
                    + Cardinality(About(p, Home, "INC_AND_ACK", q))
                    + Cardinality(About(Home, q, "ACK_FROM_HOME", p))
                    + Cardinality(About(p, q, "ACK_FROM_REMOTE", ""))

(* Once no reference exists any more the entity is localized, unless the   *)
(* home site has crashed.  Not so under WRC alone when another site has    *)
(* crashed with its weight, nor under RLV2 alone, whose remote references  *)
(* give back one less than they count for.  (Or the lease does not end     *)
(* within the bound on the time.)                                          *)
Reclaimed ==
    /\ sentTo # {}
    /\ \A p \in Site : ~Referenced(p)
    ~> \/ localized \/ ~alive[Home]
       \/ \E p \in Site : Referenced(p)
       \/ algs = {"WRC"} /\ ~NoCrash
       \/ algs = {"RLV2"}
       \/ "TL" \in algs /\ home["TL"] >= MaxTime
=============================================================================
