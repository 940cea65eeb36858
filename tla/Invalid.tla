------------------------------- MODULE Invalid -------------------------------
(***************************************************************************)
(* The invalidation protocols (PN_EAGER_INVALID, PN_LAZY_INVALID) on a     *)
(* stationary coordinator: every proxy that reads has a copy of the state, *)
(* and the manager performs the writes on the copy of the home site after  *)
(* all readers have invalidated theirs.                                    *)
(*                                                                         *)
(* The state of the entity is the number of writes performed on it.  Write *)
(* requests always have a caller: the entities that write without one      *)
(* (RelaxedMutableAbstractEntity) are refused by this protocol.            *)
(***************************************************************************)
EXTENDS Network, FiniteSets

CONSTANTS
    Lazy,           \* m_isLazy(): readers subscribe again after invalidation
    Monitors,       \* the sites that may run operationMonitor
    MaxUInt,        \* the largest unsigned int
    MaxReads,       \* bound on the reads suspended at a proxy
    MaxWrites,      \* bound on the calls of operationWrite
    MaxKills,       \* bound on the calls of operationKill
    MaxImports,     \* bound on the proxies created for imported references
    MaxLeaves,      \* bound on the proxies that are garbage collected
    MaxCrashes      \* bound on the sites that crash

ASSUME LazyAssumption == Lazy \in BOOLEAN
ASSUME InvalidMonitorsAssumption == Monitors \subseteq Site
ASSUME UIntAssumption == MaxUInt \in Nat
ASSUME InvalidBoundsAssumption ==
    /\ MaxReads \in Nat /\ MaxWrites \in Nat /\ MaxKills \in Nat
    /\ MaxImports \in Nat /\ MaxLeaves \in Nat /\ MaxCrashes \in Nat

VARIABLES
    \* ProtocolInvalidProxy, one per site that has imported the entity
    present,    \* the site has a proxy of the entity
    reader,     \* m_isReader()
    valid,      \* m_isValid()
    copy,       \* the site's copy of the state of the entity
    reads,      \* a_numRead
    writes,     \* the number of the other threads in a_susps
    pfail,      \* isPermFail()
    registered, \* isRegistered()
    \* ProtocolInvalidManager, at Home
    readers,    \* a_readers
    nvalid,     \* a_valid
    requests,   \* a_requests: the site of each caller
    mfail,      \* isPermFail()
    proxies,    \* a_proxies
    \* what is left of the bounds
    budget

statusVars == <<present, reader, valid, pfail, registered>>
proxyVars == <<statusVars, copy, reads, writes>>
managerVars == <<readers, nvalid, requests, mfail, proxies>>
vars == <<proxyVars, managerVars, netVars, budget>>

(* Messages; ver is the state that an INV_COMMIT carries.                  *)
ToManager(t) == [to |-> "manager", type |-> t, ver |-> 0]
ToProxy(t, v) == [to |-> "proxy", type |-> t, ver |-> v]

Message ==
    [to: {"manager"}, ver: {0},
     type: {"REGISTER", "DEREGISTER", "PERMFAIL", "READ", "WRITE", "INVALID"}]
    \cup
    [to: {"proxy"}, ver: Nat,
     type: {"PERMFAIL", "RETURN", "INVALIDATE", "COMMIT"}]

sendToManager(t) == To(Home, ToManager(t))

Spend(b) == budget[b] > 0 /\ budget' = [budget EXCEPT ![b] = @ - 1]

(* The entity is created at Home, whose proxy is a valid reader.           *)
Init ==
    /\ NetInit
    /\ present = [p \in Site |-> p = Home]
    /\ reader = [p \in Site |-> p = Home]
    /\ valid = [p \in Site |-> p = Home]
    /\ copy = [p \in Site |-> 0]
    /\ reads = [p \in Site |-> 0]
    /\ writes = [p \in Site |-> 0]
    /\ pfail = [p \in Site |-> FALSE]
    /\ registered = [p \in Site |-> FALSE]
    /\ readers = <<Home>>
    /\ nvalid = 1
    /\ requests = <<>>
    /\ mfail = FALSE
    /\ proxies = {}
    /\ budget = [write |-> MaxWrites, kill |-> MaxKills, import |-> MaxImports,
                 leave |-> MaxLeaves, crash |-> MaxCrashes]

-----------------------------------------------------------------------------
(* Proxy: operations of the threads and of the garbage collector of p.     *)

(* operationRead without a valid copy.  (With one the read proceeds, after *)
(* a failure it raises an exception; neither changes the state.)           *)
Read(p) ==
    /\ present[p] /\ ~pfail[p] /\ ~valid[p] /\ reads[p] < MaxReads
    /\ Emit(p, IF reader[p] THEN Silent ELSE sendToManager("READ"))
    /\ reader' = [reader EXCEPT ![p] = TRUE]
    /\ reads' = [reads EXCEPT ![p] = @ + 1]
    /\ UNCHANGED <<present, valid, copy, writes, pfail, registered,
                   managerVars, budget>>

Write(p) ==
    /\ present[p] /\ ~pfail[p]
    /\ Spend("write")
    /\ Emit(p, sendToManager("WRITE"))
    /\ writes' = [writes EXCEPT ![p] = @ + 1]
    /\ UNCHANGED <<statusVars, copy, reads, managerVars>>

Monitor(p) ==
    /\ p \in Monitors /\ present[p] /\ ~registered[p]
    /\ Emit(p, sendToManager("REGISTER"))
    /\ registered' = [registered EXCEPT ![p] = TRUE]
    /\ UNCHANGED <<present, reader, valid, copy, reads, writes, pfail,
                   managerVars, budget>>

Kill(p) ==
    /\ present[p] /\ ~pfail[p]
    /\ Spend("kill")
    /\ Emit(p, sendToManager("PERMFAIL"))
    /\ UNCHANGED <<proxyVars, managerVars>>

(* A remote proxy that no thread uses is deleted.  It deregisters if it is *)
(* registered for monitoring; that it is a reader plays no role.           *)
DeleteProxy(p) ==
    /\ p # Home /\ present[p] /\ reads[p] = 0 /\ writes[p] = 0
    /\ Spend("leave")
    /\ Emit(p, IF registered[p] THEN sendToManager("DEREGISTER") ELSE Silent)
    /\ present' = [present EXCEPT ![p] = FALSE]
    /\ reader' = [reader EXCEPT ![p] = FALSE]
    /\ valid' = [valid EXCEPT ![p] = FALSE]
    /\ copy' = [copy EXCEPT ![p] = 0]
    /\ pfail' = [pfail EXCEPT ![p] = FALSE]
    /\ registered' = [registered EXCEPT ![p] = FALSE]
    /\ UNCHANGED <<reads, writes, managerVars>>

(* A proxy is created for an imported reference: m_initRemoteProt, and     *)
(* failure at once if the home site is known to have failed.               *)
ImportProxy(p) ==
    /\ ~present[p]
    /\ Spend("import")
    /\ Emit(p, IF Lazy THEN Silent ELSE sendToManager("READ"))
    /\ present' = [present EXCEPT ![p] = TRUE]
    /\ reader' = [reader EXCEPT ![p] = ~Lazy]
    /\ pfail' = [pfail EXCEPT ![p] = Home \in perm[p]]
    /\ UNCHANGED <<valid, copy, reads, writes, registered, managerVars>>

-----------------------------------------------------------------------------
(* Proxy: p processes a message from s.                                    *)

Head1(s, p) == Head(chan[<<s, p>>])

ProxyGets(s, p, t) ==
    /\ CanRecv(s, p)
    /\ Head1(s, p).to = "proxy" /\ Head1(s, p).type = t
    /\ present[p] /\ ~pfail[p]

(* No proxy at the destination, or one that has failed.                    *)
ProxyIgnores(s, p) ==
    /\ CanRecv(s, p)
    /\ Head1(s, p).to = "proxy"
    /\ ~present[p] \/ pfail[p]
    /\ Consume(s, p, Silent)
    /\ UNCHANGED <<proxyVars, managerVars, budget>>

(* The caller leaves a_susps, if it is there.                              *)
GetReturn(s, p) ==
    /\ ProxyGets(s, p, "RETURN")
    /\ Consume(s, p, Silent)
    /\ writes' = [writes EXCEPT ![p] = IF @ > 0 THEN @ - 1 ELSE 0]
    /\ UNCHANGED <<statusVars, copy, reads, managerVars, budget>>

(* Faulty variant: a lazy proxy remains a reader.                          *)
GetInvalidateKeepsReader(s, p) ==
    /\ ProxyGets(s, p, "INVALIDATE")
    /\ Consume(s, p, sendToManager("INVALID"))
    /\ valid' = [valid EXCEPT ![p] = FALSE]
    /\ UNCHANGED <<present, reader, pfail, registered, copy, reads, writes,
                   managerVars, budget>>

GetInvalidate(s, p) ==
    /\ ProxyGets(s, p, "INVALIDATE")
    /\ Consume(s, p, sendToManager("INVALID"))
    /\ valid' = [valid EXCEPT ![p] = FALSE]
    /\ reader' = [reader EXCEPT ![p] = @ /\ ~Lazy]
    /\ UNCHANGED <<present, pfail, registered, copy, reads, writes,
                   managerVars, budget>>

GetCommit(s, p) ==
    /\ ProxyGets(s, p, "COMMIT")
    /\ Consume(s, p, Silent)
    /\ copy' = [copy EXCEPT ![p] = Head1(s, p).ver]
    /\ valid' = [valid EXCEPT ![p] = TRUE]
    /\ reads' = [reads EXCEPT ![p] = 0]
    /\ UNCHANGED <<present, reader, pfail, registered, writes,
                   managerVars, budget>>

(* Faulty variant: one writer is resumed, whether there is one or not.     *)
FailProxyPopsOne(p) ==
    /\ pfail' = [pfail EXCEPT ![p] = TRUE]
    /\ registered' = [registered EXCEPT ![p] = FALSE]
    /\ reads' = [reads EXCEPT ![p] = 0]
    /\ writes' = [writes EXCEPT ![p] = @ - 1]

(* makePermFail of the proxy: all suspended threads fail.                  *)
FailProxy(p) ==
    /\ pfail' = [pfail EXCEPT ![p] = TRUE]
    /\ registered' = [registered EXCEPT ![p] = FALSE]
    /\ reads' = [reads EXCEPT ![p] = 0]
    /\ writes' = [writes EXCEPT ![p] = 0]

GetPermFail(s, p) ==
    /\ ProxyGets(s, p, "PERMFAIL")
    /\ Consume(s, p, Silent)
    /\ FailProxy(p)
    /\ UNCHANGED <<present, reader, valid, copy, managerVars, budget>>

-----------------------------------------------------------------------------
(* Manager: the invalidation phase.  The operators take the readers r, the *)
(* count v and the requests rq as the handler has already changed them.    *)

Times(n, m) == [i \in 1..n |-> m]

Occurrences(s, q) == Cardinality({i \in DOMAIN q : q[i] = s})

ToEach(q, m) == [d \in Site |-> Times(Occurrences(d, q), m)]

InvalidateOut(r) == ToEach(r, ToProxy("INVALIDATE", 0))

CommitOut(r, v) == ToEach(r, ToProxy("COMMIT", v))

(* Faulty variant: only the first request is answered.                     *)
ReturnOutFirst(rq) ==
    [d \in Site |-> IF rq # <<>> /\ Head(rq) = d
                    THEN <<ToProxy("RETURN", 0)>> ELSE <<>>]

ReturnOut(rq) == ToEach(rq, ToProxy("RETURN", 0))

(* m_checkOperations does nothing while a reader may be valid.  Faulty     *)
(* variant: it does not wait for the last one.                             *)
MayOperateEarly(v) == v <= 1
MayOperate(v) == v = 0

(* All requests are performed and answered, then the new state is sent to  *)
(* all readers, which makes them valid.                                    *)
CheckOperationsOut(r, v, rq) ==
    IF MayOperate(v)
    THEN Both(ReturnOut(rq), CommitOut(r, copy[Home] + Len(rq)))
    ELSE Silent

CheckOperations(r, v, rq) ==
    /\ readers' = r
    /\ IF MayOperate(v)
       THEN /\ copy' = [copy EXCEPT ![Home] = @ + Len(rq)]
            /\ requests' = <<>>
            /\ nvalid' = v + Len(r)
       ELSE requests' = rq /\ nvalid' = v /\ UNCHANGED copy

(* m_invalid: one valid reader less.  With remove, the site leaves the     *)
(* list, and nothing happens if it is not there.  Faulty variants: the     *)
(* count stays, or only a reader that has answered is counted.             *)
DecrementedNever == nvalid
Decremented == IF nvalid = 0 THEN MaxUInt ELSE nvalid - 1

Among(s, q) == \E i \in DOMAIN q : q[i] = s

IsCountedWhenAnswered(s, remove) == ~remove
IsCounted(s, remove) == remove => Among(s, readers)

WithoutReader(s, remove) ==
    IF remove /\ Among(s, readers)
    THEN LET i == CHOOSE i \in DOMAIN readers : readers[i] = s
         IN  SubSeq(readers, 1, i - 1) \o SubSeq(readers, i + 1, Len(readers))
    ELSE readers

InvalidOut(s, remove) ==
    IF IsCounted(s, remove)
    THEN CheckOperationsOut(WithoutReader(s, remove), Decremented, requests)
    ELSE Silent

CountInvalid(s, remove) ==
    IF IsCounted(s, remove)
    THEN CheckOperations(WithoutReader(s, remove), Decremented, requests)
    ELSE UNCHANGED <<readers, nvalid, requests, copy>>

-----------------------------------------------------------------------------
(* Manager: messages from the proxy of site s.                             *)

ManagerGets(s, t) ==
    /\ CanRecv(s, Home)
    /\ Head1(s, Home).to = "manager" /\ Head1(s, Home).type = t

(* Once the entity has failed, every message is answered so.               *)
AnswerFailed(s) ==
    /\ CanRecv(s, Home)
    /\ Head1(s, Home).to = "manager"
    /\ mfail
    /\ Consume(s, Home, To(s, ToProxy("PERMFAIL", 0)))
    /\ UNCHANGED <<proxyVars, managerVars, budget>>

Register(s) ==
    /\ ManagerGets(s, "REGISTER") /\ ~mfail
    /\ Consume(s, Home, Silent)
    /\ proxies' = proxies \cup {s}
    /\ UNCHANGED <<proxyVars, readers, nvalid, requests, mfail, budget>>

Deregister(s) ==
    /\ ManagerGets(s, "DEREGISTER") /\ ~mfail
    /\ Consume(s, Home, InvalidOut(s, TRUE))
    /\ CountInvalid(s, TRUE)
    /\ proxies' = proxies \ {s}
    /\ UNCHANGED <<statusVars, reads, writes, mfail, budget>>

(* Faulty variant: a reader that subscribes during an invalidation phase   *)
(* gets the old state at once.                                             *)
SubscribeAlwaysCommits(s) ==
    /\ ManagerGets(s, "READ") /\ ~mfail
    /\ readers' = <<s>> \o readers
    /\ Consume(s, Home, To(s, ToProxy("COMMIT", copy[Home])))
    /\ nvalid' = nvalid + 1
    /\ UNCHANGED <<proxyVars, requests, mfail, proxies, budget>>

(* INV_READ: m_register                                                    *)
Subscribe(s) ==
    /\ ManagerGets(s, "READ") /\ ~mfail
    /\ readers' = <<s>> \o readers
    /\ IF requests = <<>>
       THEN /\ Consume(s, Home, To(s, ToProxy("COMMIT", copy[Home])))
            /\ nvalid' = nvalid + 1
       ELSE Consume(s, Home, Silent) /\ UNCHANGED nvalid
    /\ UNCHANGED <<proxyVars, requests, mfail, proxies, budget>>

(* INV_WRITE: the first request starts an invalidation phase, which may    *)
(* end at once.                                                            *)
RequestWrite(s) ==
    /\ ManagerGets(s, "WRITE") /\ ~mfail
    /\ IF requests = <<>>
       THEN /\ Consume(s, Home, Both(InvalidateOut(readers),
                                     CheckOperationsOut(readers, nvalid, <<s>>)))
            /\ CheckOperations(readers, nvalid, <<s>>)
       ELSE /\ Consume(s, Home, Silent)
            /\ requests' = Append(requests, s)
            /\ UNCHANGED <<readers, nvalid, copy>>
    /\ UNCHANGED <<statusVars, reads, writes, mfail, proxies, budget>>

(* INV_INVALID                                                             *)
Invalidated(s) ==
    /\ ManagerGets(s, "INVALID") /\ ~mfail
    /\ Consume(s, Home, InvalidOut(s, Lazy))
    /\ CountInvalid(s, Lazy)
    /\ UNCHANGED <<statusVars, reads, writes, mfail, proxies, budget>>

(* PROT_PERMFAIL: m_failed notifies the registered proxies.                *)
Fail(s) ==
    /\ ManagerGets(s, "PERMFAIL") /\ ~mfail
    /\ Consume(s, Home, [d \in Site |-> IF d \in proxies
                                        THEN <<ToProxy("PERMFAIL", 0)>>
                                        ELSE <<>>])
    /\ readers' = <<>>
    /\ requests' = <<>>
    /\ mfail' = TRUE
    /\ proxies' = {}
    /\ UNCHANGED <<proxyVars, nvalid, budget>>

-----------------------------------------------------------------------------
(* Failures.                                                               *)

SiteCrash(s) ==
    /\ Spend("crash")
    /\ Crash(s)
    /\ UNCHANGED <<proxyVars, managerVars>>

(* siteStateChanged: a proxy only depends on the home site.                *)
DetectRemote(p, s) ==
    /\ p # Home /\ CanDetect(p, s)
    /\ Detect(p, s, Silent)
    /\ IF s = Home /\ present[p] /\ ~pfail[p] THEN FailProxy(p)
       ELSE UNCHANGED <<pfail, registered, reads, writes>>
    /\ UNCHANGED <<present, reader, valid, copy, managerVars, budget>>

(* m_siteStateChange of the manager.                                       *)
DetectHome(s) ==
    /\ CanDetect(Home, s)
    /\ IF mfail
       THEN Detect(Home, s, Silent) /\ UNCHANGED <<managerVars, copy>>
       ELSE /\ Detect(Home, s, InvalidOut(s, TRUE))
            /\ CountInvalid(s, TRUE)
            /\ proxies' = proxies \ {s}
            /\ UNCHANGED mfail
    /\ UNCHANGED <<statusVars, reads, writes, budget>>

-----------------------------------------------------------------------------
Operation(p) ==
    \/ Read(p) \/ Write(p) \/ Monitor(p) \/ Kill(p)
    \/ DeleteProxy(p) \/ ImportProxy(p)

ProxyReceives(s, p) ==
    \/ ProxyIgnores(s, p) \/ GetReturn(s, p) \/ GetInvalidate(s, p)
    \/ GetCommit(s, p) \/ GetPermFail(s, p)

ManagerReceives(s) ==
    \/ AnswerFailed(s) \/ Register(s) \/ Deregister(s) \/ Subscribe(s)
    \/ RequestWrite(s) \/ Invalidated(s) \/ Fail(s)

Next ==
    \/ \E p \in Site : Operation(p)
    \/ \E s, p \in Site : ProxyReceives(s, p)
    \/ \E s \in Site : ManagerReceives(s)
    \/ \E s \in Site : SiteCrash(s) \/ DetectHome(s)
    \/ \E p, s \in Site : DetectRemote(p, s)

Spec == Init /\ [][Next]_vars

(* As in Migratory: live sites process their messages, crashes are told.   *)
Fairness ==
    /\ \A s, p \in Site : WF_vars(ProxyReceives(s, p))
    /\ \A s \in Site : WF_vars(ManagerReceives(s))
    /\ \A s \in Site : WF_vars(DetectHome(s))
    /\ \A p, s \in Site : WF_vars(DetectRemote(p, s))

FairSpec == Spec /\ Fairness

-----------------------------------------------------------------------------
(* Properties.                                                             *)

TypeOK ==
    /\ chan \in [Site \X Site -> Seq(Message)]
    /\ alive \in [Site -> BOOLEAN]
    /\ perm \in [Site -> SUBSET Site]
    /\ draining \subseteq Site
    /\ present \in [Site -> BOOLEAN]
    /\ reader \in [Site -> BOOLEAN]
    /\ valid \in [Site -> BOOLEAN]
    /\ copy \in [Site -> Nat]
    /\ reads \in [Site -> Nat]
    /\ writes \in [Site -> Nat]
    /\ pfail \in [Site -> BOOLEAN]
    /\ registered \in [Site -> BOOLEAN]
    /\ readers \in Seq(Site)
    /\ nvalid \in Nat
    /\ requests \in Seq(Site)
    /\ mfail \in BOOLEAN
    /\ proxies \subseteq Site
    /\ budget \in [{"write", "kill", "import", "leave", "crash"} -> Nat]

InFlight(s, d, t) ==
    Cardinality({i \in DOMAIN chan[<<s, d>>] : chan[<<s, d>>][i].type = t})

NoCrash == \A s \in Site : alive[s]

NoLeave == budget["leave"] = MaxLeaves

(* "This guarantees consistent causality between sites": as long as no     *)
(* site crashes and no proxy has left, a read that does not wait never     *)
(* sees an older state than the one the last write, whose result its       *)
(* caller may already have, has produced, although subscriptions,          *)
(* invalidations and commits of several phases are under way.              *)
FaultFreeReadsAreCurrent ==
    NoCrash /\ NoLeave =>
        \A p \in Site : present[p] /\ ~pfail[p] /\ valid[p]
                            => copy[p] = copy[Home]

(* Nor does a late INV_COMMIT overwrite the home site's copy, the only one *)
(* that writes change, with an older state.  (With departures it may: one  *)
(* that subscribes during a phase and deregisters is discounted although   *)
(* it was never counted, and the phase ends early.)                        *)
NoWriteIsUndone == [][NoCrash' /\ NoLeave' => copy'[Home] >= copy[Home]]_vars

(* "a_valid proxies among a_readers have not notified invalidation": while *)
(* a phase is under way, no site has crashed and no proxy has left, the    *)
(* count is that of the readers whose INV_INVALIDATE or whose answer is    *)
(* still on its way.                                                       *)
CountIsExact ==
    NoCrash /\ NoLeave /\ ~mfail /\ requests # <<>> =>
        nvalid = Cardinality({d \in Site :
                    /\ Among(d, readers)
                    /\ InFlight(Home, d, "INVALIDATE")
                         + InFlight(d, Home, "INVALID") > 0})

(* "a_valid proxies among a_readers": whoever crashes or leaves, and       *)
(* although one that has already answered is then counted twice, the       *)
(* unsigned a_valid never exceeds the readers, so it never wraps around    *)
(* below zero, which would block all writes for ever.                      *)
CountAmongReaders ==
    alive[Home] /\ ~mfail => nvalid <= Len(readers)

(* No write is lost or performed twice, whoever crashes or leaves during   *)
(* the invalidation phase: every suspended writer of a live site has       *)
(* exactly one request or one answer under way.                            *)
WritesTracked ==
    \A p \in Site :
        alive[Home] /\ ~mfail /\ alive[p] /\ present[p] /\ ~pfail[p] =>
            writes[p] = InFlight(p, Home, "WRITE") + Occurrences(p, requests)
                          + InFlight(Home, p, "RETURN")

(* Every suspended read is eventually resumed: with the state, or with an  *)
(* exception after a crash of the home site or, at a proxy registered for  *)
(* monitoring, after a kill, however it races the registration and the     *)
(* phase under way.  (m_failed tells nobody else; and a reader that is     *)
(* garbage collected never answers the invalidation that reads wait for.)  *)
ReadsServed ==
    \A p \in Site :
        reads[p] > 0 ~> \/ reads[p] = 0 \/ ~alive[p] \/ ~NoLeave
                        \/ mfail /\ ~registered[p]

(* "Once all proxies have invalidated their state, M performs all write    *)
(* operations, and sends results back": no suspended write waits for ever. *)
WritesServed ==
    \A p \in Site : writes[p] > 0 ~> writes[p] = 0 \/ ~alive[p] \/ ~NoLeave
=============================================================================
