---------------------------- MODULE InvalidProofs ----------------------------
(***************************************************************************)
(* Theorems about Invalid, for any set of sites, any bounds and both       *)
(* variants: type correctness, the count of valid readers never wraps      *)
(* around although crashes and departures make the manager miscount, no    *)
(* write is lost or performed twice, and, without crashes and departures,  *)
(* the copies are coherent: valid copies are current, the count is exact,  *)
(* no write is undone.                                                     *)
(***************************************************************************)
EXTENDS Invalid, NetworkProofs

-----------------------------------------------------------------------------
(* The invariant.                                                          *)

Leaving == ToManager("DEREGISTER")

(* The home proxy never deregisters.                                       *)
HomeStays == ~Carried(chan, <<Home, Home>>, {Leaving})

(* a_valid is zero only when there is no reader left, which in the eager   *)
(* protocol never happens because the home proxy remains one, and never    *)
(* while requests wait.                                                    *)
CountPositive ==
    ~mfail => /\ nvalid <= Len(readers)
              /\ nvalid = 0 => readers = <<>>
              /\ requests # <<>> => nvalid # 0
              /\ ~Lazy => Among(Home, readers)

IInv == TypeOK /\ HomeStays /\ CountPositive

-----------------------------------------------------------------------------
(* What the handlers send.                                                 *)

Harmless(out) == out \in [Site -> Seq(Message)] /\ Without(out, {Leaving})

ProxyTypes == {"PERMFAIL", "RETURN", "INVALIDATE", "COMMIT"}
ManagerTypes == {"REGISTER", "PERMFAIL", "READ", "WRITE", "INVALID"}

LEMMA SilentHarmless == Harmless(Silent)
  BY SilentType, SilentWithout DEF Harmless

LEMMA ToManagerHarmless ==
    ASSUME NEW t \in ManagerTypes
    PROVE  Harmless(sendToManager(t))
  <1>1. ToManager(t) \in Message
    BY DEF ToManager, Message, ManagerTypes
  <1>2. ToManager(t) # Leaving
    <2>1. ToManager(t).type = t /\ Leaving.type = "DEREGISTER"
      BY DEF ToManager, Leaving
    <2>2. t # "DEREGISTER"
      BY DEF ManagerTypes
    <2> QED
      BY <2>1, <2>2
  <1> QED
    BY <1>1, <1>2, ToType, ToWithout DEF Harmless, sendToManager

LEMMA ToProxyMessage ==
    ASSUME NEW t \in ProxyTypes, NEW v \in Nat
    PROVE  ToProxy(t, v) \in Message /\ ToProxy(t, v) # Leaving
  <1>1. ToProxy(t, v) \in Message
    BY DEF ToProxy, Message, ProxyTypes
  <1>2. ToProxy(t, v).to = "proxy" /\ Leaving.to = "manager"
    BY DEF ToProxy, Leaving, ToManager
  <1> QED
    BY <1>1, <1>2

LEMMA ToProxyHarmless ==
    ASSUME NEW d, NEW t \in ProxyTypes, NEW v \in Nat
    PROVE  Harmless(To(d, ToProxy(t, v)))
  BY ToProxyMessage, ToType, ToWithout DEF Harmless

LEMMA BothHarmless ==
    ASSUME NEW o1, NEW o2, Harmless(o1), Harmless(o2)
    PROVE  Harmless(Both(o1, o2))
  BY BothType, BothWithout DEF Harmless

LEMMA OccurrencesNat ==
    ASSUME NEW S, NEW q \in Seq(S), NEW s
    PROVE  Occurrences(s, q) \in Nat
  <1>1. DOMAIN q = 1..Len(q) /\ Len(q) \in Nat
    BY LenProperties
  <1>2. IsFiniteSet(1..Len(q))
    BY <1>1, FS_Interval
  <1>3. IsFiniteSet({i \in DOMAIN q : q[i] = s})
    BY <1>1, <1>2, FS_Subset
  <1> QED
    BY <1>3, FS_CardinalityType DEF Occurrences

LEMMA ToEachHarmless ==
    ASSUME NEW S, NEW q \in Seq(S), NEW t \in ProxyTypes, NEW v \in Nat
    PROVE  Harmless(ToEach(q, ToProxy(t, v)))
  <1> DEFINE m == ToProxy(t, v)
  <1>1. m \in Message /\ m # Leaving
    BY ToProxyMessage
  <1> HIDE DEF m
  <1>2. ASSUME NEW n \in Nat
        PROVE  Times(n, m) \in Seq(Message) /\ DOMAIN Times(n, m) = 1..n
    BY <1>1 DEF Times
  <1>3. \A d \in Site : Occurrences(d, q) \in Nat
    BY OccurrencesNat
  <1>4. ToEach(q, m) \in [Site -> Seq(Message)]
    BY <1>2, <1>3 DEF ToEach
  <1>5. Without(ToEach(q, m), {Leaving})
    BY <1>1, <1>2, <1>3 DEF ToEach, Without, Times
  <1> QED
    BY <1>4, <1>5 DEF Harmless, m

-----------------------------------------------------------------------------
(* The network.                                                            *)

NetStep == NetTypeOK(Message)' /\ (HomeStays => HomeStays')

LEMMA TypeOKNet == TypeOK => NetTypeOK(Message)
  BY DEF TypeOK, NetTypeOK

LEMMA KeepsHomeStays ==
    ASSUME Keeps({Leaving})
    PROVE  HomeStays => HomeStays'
  BY HomeAssumption DEF Keeps, HomeStays, Carried

LEMMA EmitNetStep ==
    ASSUME TypeOK, NEW p \in Site, NEW out, Harmless(out), Emit(p, out)
    PROVE  NetStep
  BY TypeOKNet, EmitStep, KeepsHomeStays DEF Harmless, NetStep

LEMMA ConsumeNetStep ==
    ASSUME TypeOK, NEW s \in Site, NEW p \in Site, NEW out, Harmless(out),
           CanRecv(s, p), Consume(s, p, out)
    PROVE  NetStep
  BY TypeOKNet, ConsumeStep, KeepsHomeStays DEF Harmless, NetStep

LEMMA CrashNetStep ==
    ASSUME TypeOK, NEW s \in Site, Crash(s)
    PROVE  NetStep
  BY TypeOKNet, CrashStep, KeepsHomeStays DEF NetStep

LEMMA DetectNetStep ==
    ASSUME TypeOK, NEW p \in Site, NEW s \in Site, NEW out, Harmless(out),
           Detect(p, s, out)
    PROVE  NetStep
  BY TypeOKNet, DetectStep, KeepsHomeStays DEF Harmless, NetStep

LEMMA SpendType ==
    ASSUME TypeOK, NEW b \in {"write", "kill", "import", "leave", "crash"},
           Spend(b)
    PROVE  budget' \in [{"write", "kill", "import", "leave", "crash"} -> Nat]
  BY DEF Spend, TypeOK

(* A step that leaves the manager alone keeps its part of the invariant.   *)
LEMMA CountUntouched ==
    ASSUME CountPositive, UNCHANGED <<readers, nvalid, requests, mfail>>
    PROVE  CountPositive'
  BY DEF CountPositive, Among

-----------------------------------------------------------------------------
(* Operations of a proxy.                                                  *)

LEMMA ReadStep ==
    ASSUME IInv, NEW p \in Site, Read(p)
    PROVE  IInv'
  <1>1. NetStep
    <2>1. Harmless(IF reader[p] THEN Silent ELSE sendToManager("READ"))
      BY SilentHarmless, ToManagerHarmless DEF ManagerTypes
    <2> QED
      BY <2>1, EmitNetStep DEF Read, IInv
  <1>2. reader' \in [Site -> BOOLEAN] /\ reads' \in [Site -> Nat]
    BY DEF Read, IInv, TypeOK
  <1>3. CountPositive'
    BY CountUntouched DEF IInv, Read, managerVars
  <1> QED
    BY <1>1, <1>2, <1>3 DEF NetStep, NetTypeOK, IInv, TypeOK, Read, managerVars

LEMMA WriteStep ==
    ASSUME IInv, NEW p \in Site, Write(p)
    PROVE  IInv'
  <1>1. NetStep
    BY ToManagerHarmless, EmitNetStep DEF Write, IInv, ManagerTypes
  <1>2. writes' \in [Site -> Nat]
    BY DEF Write, IInv, TypeOK
  <1>3. budget' \in [{"write", "kill", "import", "leave", "crash"} -> Nat]
    BY SpendType DEF Write, IInv
  <1>4. CountPositive'
    BY CountUntouched DEF IInv, Write, managerVars
  <1> QED
    BY <1>1, <1>2, <1>3, <1>4
    DEF NetStep, NetTypeOK, IInv, TypeOK, Write, managerVars, statusVars

LEMMA MonitorStep ==
    ASSUME IInv, NEW p \in Site, Monitor(p)
    PROVE  IInv'
  <1>1. NetStep
    BY ToManagerHarmless, EmitNetStep DEF Monitor, IInv, ManagerTypes
  <1>2. registered' \in [Site -> BOOLEAN]
    BY DEF Monitor, IInv, TypeOK
  <1>3. CountPositive'
    BY CountUntouched DEF IInv, Monitor, managerVars
  <1> QED
    BY <1>1, <1>2, <1>3
    DEF NetStep, NetTypeOK, IInv, TypeOK, Monitor, managerVars

LEMMA KillStep ==
    ASSUME IInv, NEW p \in Site, Kill(p)
    PROVE  IInv'
  <1>1. NetStep
    BY ToManagerHarmless, EmitNetStep DEF Kill, IInv, ManagerTypes
  <1>2. budget' \in [{"write", "kill", "import", "leave", "crash"} -> Nat]
    BY SpendType DEF Kill, IInv
  <1>3. CountPositive'
    BY CountUntouched DEF IInv, Kill, managerVars
  <1> QED
    BY <1>1, <1>2, <1>3
    DEF NetStep, NetTypeOK, IInv, TypeOK, Kill, managerVars, proxyVars, statusVars

(* Only a remote proxy deregisters.                                        *)
LEMMA DeleteProxyNetStep ==
    ASSUME IInv, NEW p \in Site, DeleteProxy(p)
    PROVE  NetStep
  <1> DEFINE out == IF registered[p] THEN sendToManager("DEREGISTER") ELSE Silent
  <1>1. Leaving \in Message
    BY DEF Leaving, ToManager, Message
  <1>2. out \in [Site -> Seq(Message)]
    BY <1>1, ToType, SilentType DEF sendToManager, Leaving
  <1>3. p # Home /\ Emit(p, out)
    BY DEF DeleteProxy
  <1> HIDE DEF out
  <1>4. NetTypeOK(Message)'
    BY <1>2, <1>3, TypeOKNet, EmitStep DEF IInv
  <1>5. chan'[<<Home, Home>>] = chan[<<Home, Home>>]
    BY <1>3, HomeAssumption DEF Emit, Sent
  <1> QED
    BY <1>4, <1>5 DEF NetStep, HomeStays, Carried

LEMMA DeleteProxyStep ==
    ASSUME IInv, NEW p \in Site, DeleteProxy(p)
    PROVE  IInv'
  <1>1. NetStep
    BY DeleteProxyNetStep
  <1>2. /\ present' \in [Site -> BOOLEAN] /\ reader' \in [Site -> BOOLEAN]
        /\ valid' \in [Site -> BOOLEAN] /\ pfail' \in [Site -> BOOLEAN]
        /\ registered' \in [Site -> BOOLEAN] /\ copy' \in [Site -> Nat]
    BY DEF DeleteProxy, IInv, TypeOK
  <1>3. budget' \in [{"write", "kill", "import", "leave", "crash"} -> Nat]
    BY SpendType DEF DeleteProxy, IInv
  <1>4. CountPositive'
    BY CountUntouched DEF IInv, DeleteProxy, managerVars
  <1> QED
    BY <1>1, <1>2, <1>3, <1>4
    DEF NetStep, NetTypeOK, IInv, TypeOK, DeleteProxy, managerVars

LEMMA ImportProxyStep ==
    ASSUME IInv, NEW p \in Site, ImportProxy(p)
    PROVE  IInv'
  <1>1. NetStep
    <2>1. Harmless(IF Lazy THEN Silent ELSE sendToManager("READ"))
      BY SilentHarmless, ToManagerHarmless DEF ManagerTypes
    <2> QED
      BY <2>1, EmitNetStep DEF ImportProxy, IInv
  <1>2. /\ present' \in [Site -> BOOLEAN] /\ reader' \in [Site -> BOOLEAN]
        /\ pfail' \in [Site -> BOOLEAN]
    <2>1. /\ present \in [Site -> BOOLEAN] /\ reader \in [Site -> BOOLEAN]
          /\ pfail \in [Site -> BOOLEAN]
      BY DEF IInv, TypeOK
    <2> QED
      BY <2>1, LazyAssumption DEF ImportProxy
  <1>3. budget' \in [{"write", "kill", "import", "leave", "crash"} -> Nat]
    BY SpendType DEF ImportProxy, IInv
  <1>4. CountPositive'
    BY CountUntouched DEF IInv, ImportProxy, managerVars
  <1> QED
    BY <1>1, <1>2, <1>3, <1>4
    DEF NetStep, NetTypeOK, IInv, TypeOK, ImportProxy, managerVars

-----------------------------------------------------------------------------
(* Messages to a proxy.                                                    *)

LEMMA HeadIsMessage ==
    ASSUME TypeOK, NEW s \in Site, NEW p \in Site, CanRecv(s, p)
    PROVE  Head1(s, p) \in Message /\ Head1(s, p).ver \in Nat
  <1>1. chan[<<s, p>>] \in Seq(Message) /\ chan[<<s, p>>] # <<>>
    BY DEF TypeOK, CanRecv
  <1>2. Head1(s, p) \in Message
    BY <1>1, HeadTailProperties DEF Head1
  <1> QED
    BY <1>2 DEF Message

LEMMA ProxyIgnoresStep ==
    ASSUME IInv, NEW s \in Site, NEW p \in Site, ProxyIgnores(s, p)
    PROVE  IInv'
  <1>1. NetStep
    BY SilentHarmless, ConsumeNetStep DEF ProxyIgnores, IInv
  <1>2. CountPositive'
    BY CountUntouched DEF IInv, ProxyIgnores, managerVars
  <1> QED
    BY <1>1, <1>2
    DEF NetStep, NetTypeOK, IInv, TypeOK, ProxyIgnores, managerVars, proxyVars,
        statusVars

LEMMA GetReturnStep ==
    ASSUME IInv, NEW s \in Site, NEW p \in Site, GetReturn(s, p)
    PROVE  IInv'
  <1>1. NetStep
    BY SilentHarmless, ConsumeNetStep DEF GetReturn, ProxyGets, IInv
  <1>2. writes' \in [Site -> Nat]
    BY SMTT(40) DEF GetReturn, IInv, TypeOK
  <1>3. CountPositive'
    BY CountUntouched DEF IInv, GetReturn, managerVars
  <1> QED
    BY <1>1, <1>2, <1>3
    DEF NetStep, NetTypeOK, IInv, TypeOK, GetReturn, managerVars, statusVars

LEMMA GetInvalidateStep ==
    ASSUME IInv, NEW s \in Site, NEW p \in Site, GetInvalidate(s, p)
    PROVE  IInv'
  <1>1. NetStep
    BY ToManagerHarmless, ConsumeNetStep
    DEF GetInvalidate, ProxyGets, IInv, ManagerTypes
  <1>2. valid' \in [Site -> BOOLEAN]
    BY DEF GetInvalidate, IInv, TypeOK
  <1>3. reader' \in [Site -> BOOLEAN]
    <2>1. (reader[p] /\ ~Lazy) \in BOOLEAN
      BY LazyAssumption DEF IInv, TypeOK
    <2> QED
      BY <2>1 DEF GetInvalidate, IInv, TypeOK
  <1>4. CountPositive'
    BY CountUntouched DEF IInv, GetInvalidate, managerVars
  <1> QED
    BY <1>1, <1>2, <1>3, <1>4
    DEF NetStep, NetTypeOK, IInv, TypeOK, GetInvalidate, managerVars

LEMMA GetCommitStep ==
    ASSUME IInv, NEW s \in Site, NEW p \in Site, GetCommit(s, p)
    PROVE  IInv'
  <1>1. NetStep
    BY SilentHarmless, ConsumeNetStep DEF GetCommit, ProxyGets, IInv
  <1>2. copy' \in [Site -> Nat]
    <2>1. Head1(s, p).ver \in Nat
      BY HeadIsMessage DEF GetCommit, ProxyGets, IInv
    <2> QED
      BY <2>1 DEF GetCommit, IInv, TypeOK
  <1>3. valid' \in [Site -> BOOLEAN] /\ reads' \in [Site -> Nat]
    BY DEF GetCommit, IInv, TypeOK
  <1>4. CountPositive'
    BY CountUntouched DEF IInv, GetCommit, managerVars
  <1> QED
    BY <1>1, <1>2, <1>3, <1>4
    DEF NetStep, NetTypeOK, IInv, TypeOK, GetCommit, managerVars

LEMMA FailProxyType ==
    ASSUME TypeOK, NEW p \in Site, FailProxy(p)
    PROVE  /\ pfail' \in [Site -> BOOLEAN] /\ registered' \in [Site -> BOOLEAN]
           /\ reads' \in [Site -> Nat] /\ writes' \in [Site -> Nat]
  BY DEF FailProxy, TypeOK

LEMMA GetPermFailStep ==
    ASSUME IInv, NEW s \in Site, NEW p \in Site, GetPermFail(s, p)
    PROVE  IInv'
  <1>1. NetStep
    BY SilentHarmless, ConsumeNetStep DEF GetPermFail, ProxyGets, IInv
  <1>2. /\ pfail' \in [Site -> BOOLEAN] /\ registered' \in [Site -> BOOLEAN]
        /\ reads' \in [Site -> Nat] /\ writes' \in [Site -> Nat]
    BY FailProxyType DEF GetPermFail, IInv
  <1>3. CountPositive'
    BY CountUntouched DEF IInv, GetPermFail, managerVars
  <1> QED
    BY <1>1, <1>2, <1>3
    DEF NetStep, NetTypeOK, IInv, TypeOK, GetPermFail, managerVars

-----------------------------------------------------------------------------
(* The invalidation phase.                                                 *)

PhaseType ==
    /\ readers \in Seq(Site) /\ nvalid \in Nat
    /\ requests \in Seq(Site) /\ copy \in [Site -> Nat]

LEMMA CheckOperationsHarmless ==
    ASSUME TypeOK, NEW r \in Seq(Site), NEW v, NEW rq \in Seq(Site)
    PROVE  Harmless(CheckOperationsOut(r, v, rq))
  <1>1. copy[Home] + Len(rq) \in Nat
    BY HomeAssumption, LenProperties DEF TypeOK
  <1>2. Harmless(ReturnOut(rq))
    BY ToEachHarmless DEF ReturnOut, ProxyTypes
  <1>3. Harmless(CommitOut(r, copy[Home] + Len(rq)))
    BY <1>1, ToEachHarmless DEF CommitOut, ProxyTypes
  <1> QED
    BY <1>2, <1>3, BothHarmless, SilentHarmless DEF CheckOperationsOut

(* After m_checkOperations the count is zero only without readers.         *)
LEMMA CheckOperationsCount ==
    ASSUME TypeOK, NEW r \in Seq(Site), NEW v \in Nat, NEW rq \in Seq(Site),
           v <= Len(r), CheckOperations(r, v, rq)
    PROVE  /\ PhaseType' /\ readers' = r
           /\ nvalid' <= Len(r)
           /\ nvalid' = 0 => r = <<>>
           /\ requests' # <<>> => nvalid' # 0
  <1>1. Len(r) \in Nat /\ Len(rq) \in Nat /\ (Len(r) = 0 => r = <<>>)
    BY LenProperties, EmptySeq
  <1>2. readers' = r
    BY DEF CheckOperations
  <1>3. CASE v = 0
    <2>1. nvalid' = Len(r) /\ requests' = <<>>
      BY <1>1, <1>3 DEF CheckOperations, MayOperate
    <2>2. copy' \in [Site -> Nat]
      <3>1. copy \in [Site -> Nat] /\ copy[Home] + Len(rq) \in Nat
        BY <1>1, HomeAssumption, SMTT(40) DEF TypeOK
      <3>2. copy' = [copy EXCEPT ![Home] = copy[Home] + Len(rq)]
        BY <1>3 DEF CheckOperations, MayOperate
      <3> QED
        BY <3>1, <3>2
    <2> QED
      BY <1>1, <1>2, <2>1, <2>2 DEF PhaseType
  <1>4. CASE v # 0
    <2>1. nvalid' = v /\ requests' = rq /\ copy' = copy
      BY <1>4 DEF CheckOperations, MayOperate
    <2> QED
      BY <1>1, <1>2, <1>4, <2>1 DEF PhaseType, TypeOK
  <1> QED
    BY <1>3, <1>4

(* Removing one occurrence of a site.                                      *)
LEMMA WithoutReaderRemoves ==
    ASSUME NEW s, Among(s, readers), readers \in Seq(Site)
    PROVE  /\ WithoutReader(s, TRUE) \in Seq(Site)
           /\ Len(WithoutReader(s, TRUE)) = Len(readers) - 1
           /\ \A h : h # s /\ Among(h, readers) => Among(h, WithoutReader(s, TRUE))
  <1> DEFINE n == Len(readers)
             k == CHOOSE i \in DOMAIN readers : readers[i] = s
             a == SubSeq(readers, 1, k - 1)
             b == SubSeq(readers, k + 1, n)
  <1>1. n \in Nat /\ DOMAIN readers = 1..n /\ \A i \in 1..n : readers[i] \in Site
    BY LenProperties, ElementOfSeq
  <1>2. k \in 1..n /\ readers[k] = s
    BY <1>1 DEF Among
  <1>3. WithoutReader(s, TRUE) = a \o b
    BY DEF WithoutReader
  <1> HIDE DEF k, n
  <1>4. /\ a \in Seq(Site) /\ Len(a) = k - 1
        /\ \A i \in 1..(k - 1) : a[i] = readers[i]
    <2>1. \A i \in 1..(k - 1) : readers[i] \in Site
      BY <1>1, <1>2
    <2> QED
      BY <1>1, <1>2, <2>1, SubSeqProperties
  <1>5. /\ b \in Seq(Site) /\ Len(b) = n - k
        /\ \A i \in 1..(n - k) : b[i] = readers[k + i]
    <2>1. \A i \in (k + 1)..n : readers[i] \in Site
      BY <1>1, <1>2
    <2> QED
      BY <1>1, <1>2, <2>1, SubSeqProperties
  <1> HIDE DEF a, b
  <1>6. /\ a \o b \in Seq(Site) /\ Len(a \o b) = n - 1
        /\ DOMAIN (a \o b) = 1..(n - 1)
        /\ \A i \in 1..(n - 1) :
              (a \o b)[i] = IF i <= k - 1 THEN a[i] ELSE b[i - (k - 1)]
    BY <1>1, <1>2, <1>4, <1>5, ConcatProperties, LenProperties
  <1>7. ASSUME NEW h, h # s, Among(h, readers)
        PROVE  Among(h, a \o b)
    <2>1. PICK i \in 1..n : readers[i] = h
      BY <1>1, <1>7 DEF Among
    <2>2. CASE i < k
      <3>1. i \in 1..(n - 1) /\ i <= k - 1 /\ i \in 1..(k - 1)
        BY <1>1, <1>2, <2>1, <2>2
      <3>2. (a \o b)[i] = h
        BY <1>4, <1>6, <2>1, <3>1
      <3> QED
        BY <1>6, <3>1, <3>2 DEF Among
    <2>3. CASE i > k
      <3>1. /\ i - 1 \in 1..(n - 1) /\ ~(i - 1 <= k - 1)
            /\ i - k \in 1..(n - k) /\ k + (i - k) = i
            /\ (i - 1) - (k - 1) = i - k
        BY <1>1, <1>2, <2>1, <2>3
      <3>2. (a \o b)[i - 1] = h
        BY <1>5, <1>6, <2>1, <3>1
      <3> QED
        BY <1>6, <3>1, <3>2 DEF Among
    <2>4. i # k
      BY <1>2, <1>7, <2>1
    <2> QED
      BY <1>1, <1>2, <2>1, <2>2, <2>3, <2>4
  <1> QED
    BY <1>3, <1>6, <1>7 DEF n

(* m_invalid: with REMOVE the home proxy must not be the one removed from  *)
(* an eager manager; without REMOVE the manager is eager.                  *)
LEMMA CountInvalidStep ==
    ASSUME IInv, ~mfail, NEW s \in Site, NEW remove \in BOOLEAN,
           remove => Lazy \/ s # Home, ~remove => ~Lazy,
           CountInvalid(s, remove), UNCHANGED mfail
    PROVE  /\ PhaseType' /\ CountPositive'
           /\ Harmless(InvalidOut(s, remove))
  <1>1. TypeOK /\ readers \in Seq(Site) /\ requests \in Seq(Site) /\ nvalid \in Nat
    BY DEF IInv, TypeOK
  <1>2. /\ nvalid <= Len(readers) /\ (nvalid = 0 => readers = <<>>)
        /\ (~Lazy => Among(Home, readers))
    BY DEF IInv, CountPositive
  <1>3. CASE ~IsCounted(s, remove)
    <2>1. UNCHANGED <<readers, nvalid, requests, copy>>
      BY <1>3 DEF CountInvalid
    <2>2. CountPositive'
      BY <2>1, CountUntouched DEF IInv
    <2>3. PhaseType'
      BY <2>1 DEF PhaseType, IInv, TypeOK
    <2> QED
      BY <1>3, <2>2, <2>3, SilentHarmless DEF InvalidOut
  <1>4. CASE IsCounted(s, remove)
    <2> DEFINE r == WithoutReader(s, remove)
    <2>1. \A h : Among(h, readers) => readers # <<>>
      BY DEF Among
    <2>2. nvalid > 0
      <3>1. readers # <<>>
        BY <1>2, <1>4, <2>1, LazyAssumption DEF IsCounted
      <3> QED
        BY <1>1, <1>2, <3>1
    <2>3. Decremented = nvalid - 1 /\ Decremented \in Nat
      BY <1>1, <2>2 DEF Decremented
    <2>4. /\ r \in Seq(Site) /\ Decremented <= Len(r)
          /\ ~Lazy => Among(Home, r)
      <3>1. CASE remove
        <4>1. remove = TRUE /\ Among(s, readers)
          BY <1>4, <3>1 DEF IsCounted
        <4>2. /\ r \in Seq(Site) /\ Len(r) = Len(readers) - 1
              /\ \A h : h # s /\ Among(h, readers) => Among(h, r)
          BY <1>1, <4>1, WithoutReaderRemoves
        <4>3. Len(readers) \in Nat
          BY <1>1, LenProperties
        <4>4. Decremented <= Len(r)
          BY <1>1, <1>2, <2>3, <4>2, <4>3
        <4>5. ~Lazy => Home # s
          BY <3>1
        <4>6. ~Lazy => Among(Home, r)
          BY <1>2, <4>2, <4>5
        <4> QED
          BY <4>2, <4>4, <4>6
      <3>2. CASE ~remove
        <4>1. r = readers /\ Len(readers) \in Nat
          BY <1>1, <3>2, LenProperties DEF WithoutReader
        <4> QED
          BY <1>1, <1>2, <2>3, <4>1
      <3> QED
        BY <3>1, <3>2
    <2>5. CheckOperations(r, Decremented, requests)
      BY <1>4 DEF CountInvalid
    <2>6. InvalidOut(s, remove) = CheckOperationsOut(r, Decremented, requests)
      BY <1>4 DEF InvalidOut
    <2> HIDE DEF r
    <2>7. /\ PhaseType' /\ readers' = r
          /\ nvalid' <= Len(r) /\ (nvalid' = 0 => r = <<>>)
          /\ requests' # <<>> => nvalid' # 0
      BY <1>1, <2>3, <2>4, <2>5, CheckOperationsCount
    <2>8. CountPositive'
      BY <2>4, <2>7 DEF CountPositive, Among
    <2>9. Harmless(InvalidOut(s, remove))
      BY <1>1, <2>4, <2>6, CheckOperationsHarmless
    <2> QED
      BY <2>7, <2>8, <2>9
  <1> QED
    BY <1>3, <1>4

-----------------------------------------------------------------------------
(* Messages to the manager.                                                *)

LEMMA AnswerFailedStep ==
    ASSUME IInv, NEW s \in Site, AnswerFailed(s)
    PROVE  IInv'
  <1>1. NetStep
    BY ToProxyHarmless, ConsumeNetStep, HomeAssumption
    DEF AnswerFailed, IInv, ProxyTypes
  <1>2. CountPositive'
    BY CountUntouched DEF IInv, AnswerFailed, managerVars
  <1> QED
    BY <1>1, <1>2
    DEF NetStep, NetTypeOK, IInv, TypeOK, AnswerFailed, managerVars, proxyVars,
        statusVars

LEMMA RegisterStep ==
    ASSUME IInv, NEW s \in Site, Register(s)
    PROVE  IInv'
  <1>1. NetStep
    BY SilentHarmless, ConsumeNetStep, HomeAssumption DEF Register, ManagerGets, IInv
  <1>2. CountPositive'
    BY CountUntouched DEF IInv, Register
  <1> QED
    BY <1>1, <1>2
    DEF NetStep, NetTypeOK, IInv, TypeOK, Register, proxyVars, statusVars

LEMMA DeregisterStep ==
    ASSUME IInv, NEW s \in Site, Deregister(s)
    PROVE  IInv'
  <1>1. CanRecv(s, Home) /\ Head1(s, Home).to = "manager"
        /\ Head1(s, Home).type = "DEREGISTER"
    BY DEF Deregister, ManagerGets
  <1>2. s # Home
    <2> SUFFICES ASSUME s = Home
                 PROVE  FALSE
      OBVIOUS
    <2>1. Head1(s, Home) \in Message
      BY <1>1, HeadIsMessage, HomeAssumption DEF IInv
    <2>2. Head1(s, Home) = Leaving
      BY <1>1, <2>1 DEF Message, Leaving, ToManager
    <2>3. chan[<<Home, Home>>] \in Seq(Message) /\ chan[<<Home, Home>>] # <<>>
      BY <1>1, HomeAssumption DEF IInv, TypeOK, CanRecv
    <2>4. 1 \in DOMAIN chan[<<Home, Home>>] /\ chan[<<Home, Home>>][1] = Leaving
      BY <2>2, <2>3 DEF Head1
    <2> QED
      BY <2>4 DEF IInv, HomeStays, Carried
  <1>3. /\ PhaseType' /\ CountPositive' /\ Harmless(InvalidOut(s, TRUE))
    <2>1. ~mfail /\ CountInvalid(s, TRUE) /\ UNCHANGED mfail
      BY DEF Deregister
    <2> QED
      BY <1>2, <2>1, CountInvalidStep
  <1>4. NetStep
    BY <1>1, <1>3, ConsumeNetStep, HomeAssumption DEF Deregister, IInv
  <1>5. proxies' \subseteq Site
    BY DEF Deregister, IInv, TypeOK
  <1> QED
    BY <1>3, <1>4, <1>5
    DEF NetStep, NetTypeOK, PhaseType, IInv, TypeOK, Deregister, statusVars

LEMMA SubscribeStep ==
    ASSUME IInv, NEW s \in Site, Subscribe(s)
    PROVE  IInv'
  <1>1. /\ readers \in Seq(Site) /\ nvalid \in Nat /\ ~mfail
        /\ nvalid <= Len(readers) /\ (nvalid = 0 => readers = <<>>)
        /\ (~Lazy => Among(Home, readers))
        /\ (requests # <<>> => nvalid # 0)
    BY DEF IInv, TypeOK, CountPositive, Subscribe
  <1>2. NetStep
    <2>1. copy[Home] \in Nat
      BY HomeAssumption DEF IInv, TypeOK
    <2>2. Harmless(To(s, ToProxy("COMMIT", copy[Home])))
      BY <2>1, ToProxyHarmless DEF ProxyTypes
    <2> QED
      BY <2>2, SilentHarmless, ConsumeNetStep, HomeAssumption
      DEF Subscribe, ManagerGets, IInv
  <1>3. /\ readers' = <<s>> \o readers /\ readers' \in Seq(Site)
        /\ Len(readers') = Len(readers) + 1 /\ Len(readers) \in Nat
        /\ \A i \in 1..Len(readers) :
              i + 1 \in DOMAIN readers' /\ readers'[i + 1] = readers[i]
    <2>1. /\ readers' = <<s>> \o readers /\ <<s>> \in Seq(Site) /\ Len(<<s>>) = 1
      BY DEF Subscribe
    <2>2. Len(readers) \in Nat
      BY <1>1, LenProperties
    <2>3. readers' \in Seq(Site) /\ Len(readers') = Len(readers) + 1
      BY <1>1, <2>1, <2>2, ConcatProperties
    <2>4. DOMAIN readers' = 1..(Len(readers) + 1)
      BY <2>3, LenProperties
    <2>5. ASSUME NEW i \in 1..Len(readers)
          PROVE  readers'[i + 1] = readers[i]
      <3>1. i + 1 \in 1..(1 + Len(readers)) /\ ~(i + 1 <= 1) /\ (i + 1) - 1 = i
        BY <2>2
      <3> QED
        BY <1>1, <2>1, <3>1, ConcatProperties
    <2> QED
      BY <2>1, <2>2, <2>3, <2>4, <2>5
  <1>4. nvalid' \in Nat /\ nvalid' <= Len(readers')
    BY <1>1, <1>3 DEF Subscribe
  <1>5. nvalid' # 0
    <2>1. CASE requests = <<>>
      BY <1>1, <2>1 DEF Subscribe
    <2>2. CASE requests # <<>>
      BY <1>1, <2>2 DEF Subscribe
    <2> QED
      BY <2>1, <2>2
  <1>6. ~Lazy => Among(Home, readers')
    BY <1>1, <1>3, LenProperties DEF Among
  <1> QED
    BY <1>2, <1>3, <1>4, <1>5, <1>6
    DEF NetStep, NetTypeOK, IInv, TypeOK, CountPositive, Among, Subscribe,
        proxyVars, statusVars

LEMMA RequestWriteStep ==
    ASSUME IInv, NEW s \in Site, RequestWrite(s)
    PROVE  IInv'
  <1>1. /\ TypeOK /\ readers \in Seq(Site) /\ nvalid \in Nat /\ ~mfail
        /\ requests \in Seq(Site)
        /\ nvalid <= Len(readers) /\ (nvalid = 0 => readers = <<>>)
        /\ (~Lazy => Among(Home, readers))
        /\ (requests # <<>> => nvalid # 0)
    BY DEF IInv, TypeOK, CountPositive, RequestWrite
  <1>2. CanRecv(s, Home) /\ UNCHANGED mfail
    BY DEF RequestWrite, ManagerGets
  <1>3. CASE requests = <<>>
    <2>1. <<s>> \in Seq(Site)
      OBVIOUS
    <2>2. Harmless(InvalidateOut(readers))
      BY <1>1, ToEachHarmless DEF InvalidateOut, ProxyTypes
    <2>3. Harmless(CheckOperationsOut(readers, nvalid, <<s>>))
      BY <1>1, <2>1, CheckOperationsHarmless
    <2>4. NetStep
      BY <1>1, <1>2, <1>3, <2>2, <2>3, BothHarmless, ConsumeNetStep, HomeAssumption
      DEF RequestWrite
    <2>5. CheckOperations(readers, nvalid, <<s>>)
      BY <1>3 DEF RequestWrite
    <2>6. /\ PhaseType' /\ readers' = readers
          /\ nvalid' <= Len(readers) /\ (nvalid' = 0 => readers = <<>>)
          /\ requests' # <<>> => nvalid' # 0
      BY <1>1, <2>1, <2>5, CheckOperationsCount
    <2>7. CountPositive'
      BY <1>1, <2>6 DEF CountPositive, Among
    <2> QED
      BY <2>4, <2>6, <2>7
      DEF NetStep, NetTypeOK, PhaseType, IInv, TypeOK, RequestWrite, statusVars
  <1>4. CASE requests # <<>>
    <2>1. NetStep
      BY <1>1, <1>2, <1>4, SilentHarmless, ConsumeNetStep, HomeAssumption
      DEF RequestWrite
    <2>2. requests' \in Seq(Site) /\ UNCHANGED <<readers, nvalid, copy>>
      BY <1>1, <1>4 DEF RequestWrite
    <2>3. CountPositive'
      BY <1>1, <1>4, <2>2 DEF CountPositive, Among
    <2> QED
      BY <2>1, <2>2, <2>3
      DEF NetStep, NetTypeOK, IInv, TypeOK, RequestWrite, statusVars
  <1> QED
    BY <1>3, <1>4

LEMMA InvalidatedStep ==
    ASSUME IInv, NEW s \in Site, Invalidated(s)
    PROVE  IInv'
  <1>1. CanRecv(s, Home) /\ ~mfail /\ CountInvalid(s, Lazy) /\ UNCHANGED mfail
    BY DEF Invalidated, ManagerGets
  <1>2. /\ PhaseType' /\ CountPositive' /\ Harmless(InvalidOut(s, Lazy))
    BY <1>1, CountInvalidStep, LazyAssumption
  <1>3. NetStep
    BY <1>1, <1>2, ConsumeNetStep, HomeAssumption DEF Invalidated, IInv
  <1> QED
    BY <1>2, <1>3
    DEF NetStep, NetTypeOK, PhaseType, IInv, TypeOK, Invalidated, statusVars

LEMMA FailStep ==
    ASSUME IInv, NEW s \in Site, Fail(s)
    PROVE  IInv'
  <1> DEFINE m == ToProxy("PERMFAIL", 0)
             out == [d \in Site |-> IF d \in proxies THEN <<m>> ELSE <<>>]
  <1>1. m \in Message /\ m # Leaving
    BY ToProxyMessage DEF ProxyTypes
  <1>2. CanRecv(s, Home) /\ Consume(s, Home, out)
    BY DEF Fail, ManagerGets
  <1> HIDE DEF m
  <1>3. Harmless(out)
    <2>1. out \in [Site -> Seq(Message)]
      BY <1>1
    <2>2. Without(out, {Leaving})
      BY <1>1 DEF Without
    <2> QED
      BY <2>1, <2>2 DEF Harmless
  <1> HIDE DEF out
  <1>4. NetStep
    BY <1>2, <1>3, ConsumeNetStep, HomeAssumption DEF IInv
  <1>5. CountPositive'
    BY DEF CountPositive, Fail
  <1>6. readers' \in Seq(Site) /\ requests' \in Seq(Site)
    BY DEF Fail
  <1> QED
    BY <1>4, <1>5, <1>6
    DEF NetStep, NetTypeOK, IInv, TypeOK, Fail, proxyVars, statusVars

-----------------------------------------------------------------------------
(* Failures.                                                               *)

LEMMA SiteCrashStep ==
    ASSUME IInv, NEW s \in Site, SiteCrash(s)
    PROVE  IInv'
  <1>1. NetStep
    BY CrashNetStep DEF SiteCrash, IInv
  <1>2. budget' \in [{"write", "kill", "import", "leave", "crash"} -> Nat]
    BY SpendType DEF SiteCrash, IInv
  <1>3. CountPositive'
    BY CountUntouched DEF IInv, SiteCrash, managerVars
  <1> QED
    BY <1>1, <1>2, <1>3
    DEF NetStep, NetTypeOK, IInv, TypeOK, SiteCrash, managerVars, proxyVars,
        statusVars

LEMMA DetectRemoteStep ==
    ASSUME IInv, NEW p \in Site, NEW s \in Site, DetectRemote(p, s)
    PROVE  IInv'
  <1>1. NetStep
    BY SilentHarmless, DetectNetStep DEF DetectRemote, IInv
  <1>2. /\ pfail' \in [Site -> BOOLEAN] /\ registered' \in [Site -> BOOLEAN]
        /\ reads' \in [Site -> Nat] /\ writes' \in [Site -> Nat]
    BY FailProxyType DEF DetectRemote, IInv, TypeOK
  <1>3. CountPositive'
    BY CountUntouched DEF IInv, DetectRemote, managerVars
  <1> QED
    BY <1>1, <1>2, <1>3
    DEF NetStep, NetTypeOK, IInv, TypeOK, DetectRemote, managerVars

(* The site that the manager finds crashed is not its own.                 *)
LEMMA DetectHomeStep ==
    ASSUME IInv, NEW s \in Site, DetectHome(s)
    PROVE  IInv'
  <1>1. s # Home
    BY DEF DetectHome, CanDetect, Idle
  <1>2. CASE mfail
    <2>1. NetStep
      BY <1>2, SilentHarmless, DetectNetStep, HomeAssumption DEF DetectHome, IInv
    <2>2. UNCHANGED <<managerVars, copy>>
      BY <1>2 DEF DetectHome
    <2>3. CountPositive'
      BY <2>2, CountUntouched DEF IInv, managerVars
    <2> QED
      BY <2>1, <2>2, <2>3
      DEF NetStep, NetTypeOK, IInv, TypeOK, DetectHome, managerVars, statusVars
  <1>3. CASE ~mfail
    <2>1. CountInvalid(s, TRUE) /\ UNCHANGED mfail /\ Detect(Home, s, InvalidOut(s, TRUE))
          /\ proxies' = proxies \ {s}
      BY <1>3 DEF DetectHome
    <2>2. /\ PhaseType' /\ CountPositive' /\ Harmless(InvalidOut(s, TRUE))
      BY <1>1, <1>3, <2>1, CountInvalidStep
    <2>3. NetStep
      BY <2>1, <2>2, DetectNetStep, HomeAssumption DEF IInv
    <2> QED
      BY <2>1, <2>2, <2>3
      DEF NetStep, NetTypeOK, PhaseType, IInv, TypeOK, DetectHome, statusVars
  <1> QED
    BY <1>2, <1>3

-----------------------------------------------------------------------------
(* The invariant holds.                                                    *)

LEMMA InitIInv == Init => IInv
  <1> SUFFICES ASSUME Init
               PROVE  IInv
    OBVIOUS
  <1>1. NetTypeOK(Message) /\ HomeStays
    BY HomeAssumption DEF Init, NetInit, NetTypeOK, HomeStays, Carried
  <1>2. readers \in Seq(Site) /\ Len(readers) = 1 /\ readers # <<>>
        /\ Among(Home, readers)
    BY HomeAssumption DEF Init, Among
  <1>3. CountPositive
    BY <1>2 DEF Init, CountPositive
  <1>4. TypeOK
    <2>1. budget \in [{"write", "kill", "import", "leave", "crash"} -> Nat]
      BY InvalidBoundsAssumption DEF Init
    <2>2. /\ present \in [Site -> BOOLEAN] /\ reader \in [Site -> BOOLEAN]
          /\ valid \in [Site -> BOOLEAN] /\ pfail \in [Site -> BOOLEAN]
          /\ registered \in [Site -> BOOLEAN]
      BY DEF Init
    <2>3. /\ copy \in [Site -> Nat] /\ reads \in [Site -> Nat]
          /\ writes \in [Site -> Nat]
      BY DEF Init
    <2>4. nvalid \in Nat /\ proxies \subseteq Site
      BY DEF Init
    <2>5. mfail \in BOOLEAN
      BY DEF Init
    <2>6. requests \in Seq(Site)
      BY EmptySeq DEF Init
    <2> QED
      BY <1>1, <1>2, <2>1, <2>2, <2>3, <2>4, <2>5, <2>6 DEF TypeOK, NetTypeOK
  <1> QED
    BY <1>1, <1>3, <1>4 DEF IInv

LEMMA StutterIInv ==
    ASSUME IInv, UNCHANGED vars
    PROVE  IInv'
  <1>1. TypeOK'
    BY DEF IInv, TypeOK, vars, netVars, proxyVars, statusVars, managerVars
  <1>2. HomeStays'
    BY DEF IInv, HomeStays, Carried, vars, netVars
  <1>3. CountPositive'
    BY CountUntouched DEF IInv, vars, managerVars
  <1> QED
    BY <1>1, <1>2, <1>3 DEF IInv

LEMMA NextIInv == IInv /\ [Next]_vars => IInv'
  <1> SUFFICES ASSUME IInv, [Next]_vars
               PROVE  IInv'
    OBVIOUS
  <1>1. ASSUME NEW p \in Site, Operation(p)
        PROVE  IInv'
    BY <1>1, ReadStep, WriteStep, MonitorStep, KillStep, DeleteProxyStep,
       ImportProxyStep
    DEF Operation
  <1>2. ASSUME NEW s \in Site, NEW p \in Site, ProxyReceives(s, p)
        PROVE  IInv'
    BY <1>2, ProxyIgnoresStep, GetReturnStep, GetInvalidateStep, GetCommitStep,
       GetPermFailStep
    DEF ProxyReceives
  <1>3. ASSUME NEW s \in Site, ManagerReceives(s)
        PROVE  IInv'
    BY <1>3, AnswerFailedStep, RegisterStep, DeregisterStep, SubscribeStep,
       RequestWriteStep, InvalidatedStep, FailStep
    DEF ManagerReceives
  <1>4. ASSUME NEW s \in Site, SiteCrash(s) \/ DetectHome(s)
        PROVE  IInv'
    BY <1>4, SiteCrashStep, DetectHomeStep
  <1>5. ASSUME NEW p \in Site, NEW s \in Site, DetectRemote(p, s)
        PROVE  IInv'
    BY <1>5, DetectRemoteStep
  <1> QED
    BY <1>1, <1>2, <1>3, <1>4, <1>5, StutterIInv DEF Next

(* The inductive invariant holds in every reachable state.                 *)
THEOREM InvalidInvariance == Spec => []IInv
  BY InitIInv, NextIInv, PTL DEF Spec

(* ProtocolInvalidProxy and ProtocolInvalidManager keep the types of their *)
(* fields, for any number of sites, crashes and departures: in particular  *)
(* no handler resumes more writers than are suspended.                     *)
THEOREM InvalidTypeCorrect == Spec => []TypeOK
  <1>1. IInv => TypeOK
    BY DEF IInv
  <1> QED
    BY <1>1, InvalidInvariance, PTL

(* The unsigned a_valid never exceeds the length of a_readers, and so      *)
(* never wraps around, for any number of sites, crashes and departures.    *)
THEOREM CountNeverWraps == Spec => []CountAmongReaders
  <1>1. IInv => CountAmongReaders
    BY DEF IInv, CountPositive, CountAmongReaders
  <1> QED
    BY <1>1, InvalidInvariance, PTL

-----------------------------------------------------------------------------
(* Every write is tracked.  Answers come from the home site only; as long  *)
(* as the manager is up and the entity has not failed, no proxy has        *)
(* failed; only crashed sites are detected; at a site without proxy no     *)
(* write waits.  So no answer is lost at a proxy that would ignore it, and *)
(* each message that is consumed moves one writer to the next place.       *)

WriteKind == {m \in Message : m.type = "WRITE"}
ReturnKind == {m \in Message : m.type = "RETURN"}
ProxyKind == {m \in Message : m.to = "proxy"}
FailKind == {m \in ProxyKind : m.type = "PERMFAIL"}

Asked(p) == OnLink(chan, <<p, Home>>, WriteKind)
Answered(p) == OnLink(chan, <<Home, p>>, ReturnKind)

Tracked ==
    alive[Home] /\ ~mfail =>
        \A p \in Site :
            alive[p] => writes[p] = Asked(p) + Occurrences(p, requests) + Answered(p)

Detected == \A p \in Site : \A s \in perm[p] : ~alive[s]

FromHome == \A s, p \in Site : s # Home => ~Carried(chan, <<s, p>>, ProxyKind)

FailureCaused ==
    ~mfail => NoneOf(chan, FailKind) /\ \A p \in Site : pfail[p] => ~alive[Home]

AbsentIdle == \A p \in Site : ~present[p] => writes[p] = 0

WInv == Tracked /\ Detected /\ FromHome /\ FailureCaused /\ AbsentIdle

LEMMA Kinds ==
    /\ ReturnKind \subseteq ProxyKind /\ FailKind \subseteq ProxyKind
    /\ \A m \in Message : m \in WriteKind <=> m.type = "WRITE"
    /\ \A m \in Message : m \in ReturnKind <=> m.type = "RETURN"
    /\ \A t \in ManagerTypes \cup {"DEREGISTER"} :
          /\ ToManager(t) \in Message /\ ToManager(t) \notin ProxyKind
          /\ ToManager(t) \in WriteKind <=> t = "WRITE"
    /\ \A t \in ProxyTypes, v \in Nat :
          /\ ToProxy(t, v) \in Message /\ ToProxy(t, v) \notin WriteKind
          /\ ToProxy(t, v) \in ReturnKind <=> t = "RETURN"
          /\ ToProxy(t, v) \in FailKind <=> t = "PERMFAIL"
  <1>1. FailKind \subseteq ProxyKind
    BY DEF FailKind
  <1>2. ASSUME NEW m \in ReturnKind
        PROVE  m \in ProxyKind
    BY <1>2 DEF ReturnKind, ProxyKind, Message
  <1>3. /\ \A m \in Message : m \in WriteKind <=> m.type = "WRITE"
        /\ \A m \in Message : m \in ReturnKind <=> m.type = "RETURN"
    BY DEF WriteKind, ReturnKind
  <1>4. ASSUME NEW t \in ManagerTypes \cup {"DEREGISTER"}
        PROVE  /\ ToManager(t) \in Message /\ ToManager(t) \notin ProxyKind
               /\ ToManager(t) \in WriteKind <=> t = "WRITE"
    <2>1. ToManager(t) \in Message
      BY DEF ToManager, Message, ManagerTypes
    <2>2. ToManager(t).to = "manager" /\ ToManager(t).type = t
      BY DEF ToManager
    <2> QED
      BY <2>1, <2>2 DEF ProxyKind, WriteKind
  <1>5. ASSUME NEW t \in ProxyTypes, NEW v \in Nat
        PROVE  /\ ToProxy(t, v) \in Message /\ ToProxy(t, v) \notin WriteKind
               /\ ToProxy(t, v) \in ReturnKind <=> t = "RETURN"
               /\ ToProxy(t, v) \in FailKind <=> t = "PERMFAIL"
    <2>1. ToProxy(t, v) \in Message
      BY ToProxyMessage
    <2>2. ToProxy(t, v).to = "proxy" /\ ToProxy(t, v).type = t
      BY DEF ToProxy
    <2>3. t # "WRITE"
      BY DEF ProxyTypes
    <2> QED
      BY <2>1, <2>2, <2>3 DEF ProxyKind, WriteKind, ReturnKind, FailKind
  <1> QED
    BY <1>1, <1>2, <1>3, <1>4, <1>5

(* What a proxy sends besides INV_WRITE, and what the manager sends as     *)
(* long as the entity has not failed.                                      *)
Plain(out) ==
    /\ out \in [Site -> Seq(Message)]
    /\ Without(out, WriteKind) /\ Without(out, ProxyKind)

Served(out) ==
    /\ out \in [Site -> Seq(Message)]
    /\ Without(out, WriteKind) /\ Without(out, FailKind)

LEMMA SilentPlain == Plain(Silent) /\ Served(Silent) /\ Without(Silent, ReturnKind)
  BY SilentType, SilentWithout DEF Plain, Served

LEMMA ToManagerPlain ==
    ASSUME NEW t \in ManagerTypes \cup {"DEREGISTER"}, t # "WRITE"
    PROVE  Plain(sendToManager(t))
  <1>1. /\ ToManager(t) \in Message /\ ToManager(t) \notin ProxyKind
        /\ ToManager(t) \notin WriteKind
    BY Kinds
  <1> QED
    BY <1>1, ToType, ToWithout DEF Plain, sendToManager

LEMMA PlainWithout ==
    ASSUME NEW out, Plain(out)
    PROVE  Without(out, ReturnKind) /\ Without(out, FailKind) /\ Served(out)
  <1>1. Without(out, ReturnKind) /\ Without(out, FailKind)
    BY Kinds DEF Plain, Without
  <1> QED
    BY <1>1 DEF Plain, Served

LEMMA ToProxyServed ==
    ASSUME NEW d, NEW t \in ProxyTypes, t # "PERMFAIL", NEW v \in Nat
    PROVE  /\ Served(To(d, ToProxy(t, v)))
           /\ t # "RETURN" => Without(To(d, ToProxy(t, v)), ReturnKind)
  <1>1. /\ ToProxy(t, v) \in Message /\ ToProxy(t, v) \notin WriteKind
        /\ ToProxy(t, v) \in ReturnKind <=> t = "RETURN"
        /\ ToProxy(t, v) \notin FailKind
    BY Kinds
  <1> QED
    BY <1>1, ToType, ToWithout DEF Served

LEMMA BothServed ==
    ASSUME NEW o1, NEW o2, Served(o1), Served(o2)
    PROVE  Served(Both(o1, o2))
  BY BothType, BothWithout DEF Served

LEMMA NumberTimes ==
    ASSUME NEW n \in Nat, NEW m, NEW K
    PROVE  Number(Times(n, m), K) = IF m \in K THEN n ELSE 0
  <1>1. DOMAIN Times(n, m) = 1..n /\ \A i \in 1..n : Times(n, m)[i] = m
    BY DEF Times
  <1>2. CASE m \in K
    <2>1. {i \in DOMAIN Times(n, m) : Times(n, m)[i] \in K} = 1..n
      BY <1>1, <1>2
    <2>2. Cardinality(1..n) = n
      BY FS_Interval
    <2> QED
      BY <1>2, <2>1, <2>2 DEF Number
  <1>3. CASE m \notin K
    <2>1. {i \in DOMAIN Times(n, m) : Times(n, m)[i] \in K} = {}
      BY <1>1, <1>3
    <2> QED
      BY <1>3, <2>1, FS_EmptySet DEF Number
  <1> QED
    BY <1>2, <1>3

LEMMA ToEachServed ==
    ASSUME NEW q \in Seq(Site), NEW t \in ProxyTypes, t # "PERMFAIL", NEW v \in Nat
    PROVE  /\ Served(ToEach(q, ToProxy(t, v)))
           /\ \A d \in Site : Number(ToEach(q, ToProxy(t, v))[d], ReturnKind)
                                = IF t = "RETURN" THEN Occurrences(d, q) ELSE 0
  <1> DEFINE m == ToProxy(t, v)
  <1>1. /\ m \in Message /\ m \notin WriteKind
        /\ m \in ReturnKind <=> t = "RETURN"
        /\ m \notin FailKind
    BY Kinds
  <1>2. \A d \in Site : Occurrences(d, q) \in Nat
    BY OccurrencesNat
  <1> HIDE DEF m
  <1>3. \A n \in Nat : Times(n, m) \in Seq(Message) /\ \A i \in DOMAIN Times(n, m) : Times(n, m)[i] = m
    BY <1>1 DEF Times
  <1>4. Served(ToEach(q, m))
    BY <1>1, <1>2, <1>3 DEF Served, ToEach, Without
  <1>5. ASSUME NEW d \in Site
        PROVE  Number(ToEach(q, m)[d], ReturnKind)
                 = IF t = "RETURN" THEN Occurrences(d, q) ELSE 0
    <2>1. ToEach(q, m)[d] = Times(Occurrences(d, q), m)
      BY DEF ToEach
    <2> QED
      BY <1>1, <1>2, <2>1, NumberTimes
  <1> QED
    BY <1>4, <1>5 DEF m

LEMMA OccurrencesEmpty == \A s : Occurrences(s, <<>>) = 0
  <1>1. \A s : {i \in DOMAIN <<>> : <<>>[i] = s} = {}
    OBVIOUS
  <1> QED
    BY <1>1, FS_EmptySet DEF Occurrences

LEMMA OccurrencesAppend ==
    ASSUME NEW q \in Seq(Site), NEW s \in Site, NEW d
    PROVE  /\ Occurrences(d, Append(q, s)) = Occurrences(d, q) + (IF d = s THEN 1 ELSE 0)
           /\ Occurrences(d, <<s>>) = IF d = s THEN 1 ELSE 0
  <1> DEFINE K == {d}
             one == <<s>>
  <1>1. \A r : Occurrences(d, r) = Number(r, K)
    BY DEF Occurrences, Number
  <1>2. one \in Seq(Site) /\ Append(q, s) = q \o one
    BY AppendIsConcat
  <1>3. Number(one, K) = IF d = s THEN 1 ELSE 0
    <2>1. s \in K <=> d = s
      OBVIOUS
    <2> HIDE DEF K
    <2> QED
      BY <2>1, NumberSingle
  <1> HIDE DEF K, one
  <1>4. Number(q \o one, K) = Number(q, K) + Number(one, K)
    BY <1>2, NumberConcat
  <1> QED
    BY <1>1, <1>2, <1>3, <1>4 DEF one

(* m_checkOperations answers every request or keeps it.                    *)
LEMMA CheckOperationsAnswers ==
    ASSUME TypeOK, NEW r \in Seq(Site), NEW v, NEW rq \in Seq(Site),
           CheckOperations(r, v, rq)
    PROVE  /\ Served(CheckOperationsOut(r, v, rq))
           /\ \A d \in Site :
                 Number(CheckOperationsOut(r, v, rq)[d], ReturnKind)
                     + Occurrences(d, requests') = Occurrences(d, rq)
  <1> DEFINE n == copy[Home] + Len(rq)
             o1 == ReturnOut(rq)
             o2 == CommitOut(r, n)
  <1>1. n \in Nat
    BY HomeAssumption, LenProperties DEF TypeOK
  <1>2. \A d \in Site : Occurrences(d, rq) \in Nat
    BY OccurrencesNat
  <1> HIDE DEF n
  <1>3. /\ Served(o1)
        /\ \A d \in Site : Number(o1[d], ReturnKind) = Occurrences(d, rq)
    BY ToEachServed DEF ReturnOut, ProxyTypes
  <1>4. /\ Served(o2)
        /\ \A d \in Site : Number(o2[d], ReturnKind) = 0
    BY <1>1, ToEachServed DEF CommitOut, ProxyTypes
  <1> HIDE DEF o1, o2
  <1>5. CASE MayOperate(v)
    <2>1. CheckOperationsOut(r, v, rq) = Both(o1, o2) /\ requests' = <<>>
      BY <1>5 DEF CheckOperationsOut, CheckOperations, o1, o2, n
    <2>2. ASSUME NEW d \in Site
          PROVE  Number(Both(o1, o2)[d], ReturnKind) = Occurrences(d, rq)
      <3>1. Both(o1, o2)[d] = o1[d] \o o2[d]
        BY DEF Both
      <3>2. o1[d] \in Seq(Message) /\ o2[d] \in Seq(Message)
        BY <1>3, <1>4 DEF Served
      <3>3. Number(o1[d] \o o2[d], ReturnKind)
              = Number(o1[d], ReturnKind) + Number(o2[d], ReturnKind)
        BY <3>2, NumberConcat
      <3> QED
        BY <1>2, <1>3, <1>4, <3>1, <3>3
    <2>3. \A d \in Site : Occurrences(d, requests') = 0
      BY <2>1, OccurrencesEmpty
    <2> QED
      BY <1>2, <1>3, <1>4, <2>1, <2>2, <2>3, BothServed
  <1>6. CASE ~MayOperate(v)
    <2>1. CheckOperationsOut(r, v, rq) = Silent /\ requests' = rq
      BY <1>6 DEF CheckOperationsOut, CheckOperations
    <2>2. ASSUME NEW d \in Site
          PROVE  Number(Silent[d], ReturnKind) = 0
      <3>1. Silent[d] \in Seq(Message)
        BY SilentType
      <3> QED
        BY <3>1, NumberZero, SilentPlain DEF Without
    <2> QED
      BY <1>2, <2>1, <2>2, SilentPlain
  <1> QED
    BY <1>5, <1>6

-----------------------------------------------------------------------------
(* What the steps of the network do to requests and answers.               *)

(* No request and no answer appears or disappears, but for those of sites  *)
(* that have crashed.                                                      *)
Unmoved ==
    \A q \in Site : alive'[q] /\ alive'[Home] =>
        /\ alive[q] /\ alive[Home]
        /\ Asked(q)' = Asked(q) /\ Answered(q)' = Answered(q)

NetInv == Detected /\ FromHome /\ (~mfail => NoneOf(chan, FailKind))

LEMMA WInvNet == WInv => NetInv
  BY DEF WInv, NetInv, FailureCaused

LEMMA AskedNat ==
    ASSUME TypeOK, NEW q \in Site
    PROVE  /\ Asked(q) \in Nat /\ Answered(q) \in Nat
           /\ Occurrences(q, requests) \in Nat /\ writes[q] \in Nat
  <1>1. chan \in Channels(Message) /\ requests \in Seq(Site) /\ writes[q] \in Nat
    BY DEF TypeOK, Channels
  <1>2. <<q, Home>> \in Site \X Site /\ <<Home, q>> \in Site \X Site
    BY HomeAssumption
  <1>3. Asked(q) \in Nat
    BY <1>1, <1>2, OnLinkNat DEF Asked
  <1>4. Answered(q) \in Nat
    BY <1>1, <1>2, OnLinkNat DEF Answered
  <1> QED
    BY <1>1, <1>3, <1>4, OccurrencesNat

LEMMA KeepsNetInv ==
    ASSUME NetInv, Keeps(ProxyKind), Keeps(FailKind), mfail => mfail',
           UNCHANGED <<alive, perm>>
    PROVE  NetInv'
  <1>1. Detected'
    BY DEF NetInv, Detected
  <1>2. FromHome'
    BY DEF NetInv, FromHome, Keeps
  <1>3. ~mfail' => NoneOf(chan', FailKind)
    BY DEF NetInv, Keeps
  <1> QED
    BY <1>1, <1>2, <1>3 DEF NetInv

LEMMA EmitPlain ==
    ASSUME TypeOK, NetInv, NEW p \in Site, NEW out, Plain(out), Emit(p, out),
           UNCHANGED mfail
    PROVE  NetInv' /\ Unmoved
  <1>1. NetTypeOK(Message) /\ out \in [Site -> Seq(Message)]
    BY TypeOKNet DEF Plain
  <1>2. Keeps(ProxyKind) /\ Keeps(FailKind)
    BY <1>1, EmitStep, PlainWithout DEF Plain
  <1>3. NetInv'
    BY <1>2, KeepsNetInv DEF Emit
  <1>4. ASSUME NEW q \in Site
        PROVE  Asked(q)' = Asked(q) /\ Answered(q)' = Answered(q)
    <2>1. <<q, Home>> \in Site \X Site /\ <<Home, q>> \in Site \X Site
      BY HomeAssumption
    <2>2. Added(p, out, <<q, Home>>, WriteKind) = 0
      BY <1>1, <2>1, AddedNone DEF Plain
    <2>3. Added(p, out, <<Home, q>>, ReturnKind) = 0
      BY <1>1, <2>1, AddedNone, PlainWithout
    <2>4. Asked(q)' = Asked(q) + Added(p, out, <<q, Home>>, WriteKind)
      BY <1>1, <2>1, EmitNumber DEF Asked
    <2>5. Answered(q)' = Answered(q) + Added(p, out, <<Home, q>>, ReturnKind)
      BY <1>1, <2>1, EmitNumber DEF Answered
    <2> QED
      BY <2>2, <2>3, <2>4, <2>5, AskedNat
  <1> QED
    BY <1>3, <1>4 DEF Unmoved, Emit

(* A message that is consumed: what p sends is plain, or p is the home     *)
(* site.                                                                   *)
LEMMA ConsumeBalance ==
    ASSUME TypeOK, NEW s \in Site, NEW p \in Site, NEW out, Served(out),
           CanRecv(s, p), Consume(s, p, out), NEW q \in Site
    PROVE  /\ Asked(q) = Asked(q)'
                + (IF q = s /\ p = Home /\ Head1(s, p).type = "WRITE" THEN 1 ELSE 0)
           /\ Answered(q) + Added(p, out, <<Home, q>>, ReturnKind) = Answered(q)'
                + (IF s = Home /\ q = p /\ Head1(s, p).type = "RETURN" THEN 1 ELSE 0)
  <1>1. NetTypeOK(Message) /\ out \in [Site -> Seq(Message)]
    BY TypeOKNet DEF Served
  <1>2. <<q, Home>> \in Site \X Site /\ <<Home, q>> \in Site \X Site
    BY HomeAssumption
  <1>3. /\ Head(chan[<<s, p>>]) \in WriteKind <=> Head1(s, p).type = "WRITE"
        /\ Head(chan[<<s, p>>]) \in ReturnKind <=> Head1(s, p).type = "RETURN"
    <2>1. Head1(s, p) \in Message
      BY HeadIsMessage
    <2> QED
      BY <2>1, Kinds DEF Head1
  <1>4. Added(p, out, <<q, Home>>, WriteKind) = 0
    BY <1>1, <1>2, AddedNone DEF Served
  <1>5. OnLink(chan, <<q, Home>>, WriteKind) + Added(p, out, <<q, Home>>, WriteKind)
          = OnLink(chan', <<q, Home>>, WriteKind)
              + (IF <<q, Home>> = <<s, p>> /\ Head(chan[<<s, p>>]) \in WriteKind
                 THEN 1 ELSE 0)
    BY <1>1, <1>2, ConsumeNumber
  <1>6. OnLink(chan, <<Home, q>>, ReturnKind) + Added(p, out, <<Home, q>>, ReturnKind)
          = OnLink(chan', <<Home, q>>, ReturnKind)
              + (IF <<Home, q>> = <<s, p>> /\ Head(chan[<<s, p>>]) \in ReturnKind
                 THEN 1 ELSE 0)
    BY <1>1, <1>2, ConsumeNumber
  <1>7. Asked(q) = OnLink(chan, <<q, Home>>, WriteKind) /\ Asked(q) \in Nat
        /\ Asked(q)' = OnLink(chan', <<q, Home>>, WriteKind)
        /\ Answered(q) = OnLink(chan, <<Home, q>>, ReturnKind)
        /\ Answered(q)' = OnLink(chan', <<Home, q>>, ReturnKind)
    BY AskedNat DEF Asked, Answered
  <1>8. /\ <<q, Home>> = <<s, p>> <=> q = s /\ p = Home
        /\ <<Home, q>> = <<s, p>> <=> s = Home /\ q = p
    BY HomeAssumption
  <1> QED
    BY <1>3, <1>4, <1>5, <1>6, <1>7, <1>8

LEMMA ConsumeNetInv ==
    ASSUME TypeOK, NetInv, NEW s \in Site, NEW p \in Site, NEW out,
           out \in [Site -> Seq(Message)],
           CanRecv(s, p), Consume(s, p, out), p = Home \/ Without(out, ProxyKind),
           mfail => mfail', ~mfail' => Without(out, FailKind)
    PROVE  NetInv'
  <1>1. NetTypeOK(Message) /\ chan \in Channels(Message) /\ NetTypeOK(Message)'
        /\ chan' \in Channels(Message)
    <2>1. NetTypeOK(Message) /\ NetTypeOK(Message)'
      BY TypeOKNet, ConsumeStep
    <2> QED
      BY <2>1 DEF NetTypeOK, Channels
  <1>2. ~mfail' => NoneOf(chan', FailKind)
    BY <1>1, ConsumeStep DEF NetInv, Keeps
  <1>3. Detected'
    BY DEF Consume, NetInv, Detected
  <1>4. ASSUME NEW a \in Site, NEW b \in Site, a # Home,
               ~Carried(chan, <<a, b>>, ProxyKind)
        PROVE  ~Carried(chan', <<a, b>>, ProxyKind)
    <2> DEFINE l == <<a, b>>
    <2>1. l \in Site \X Site /\ l[1] = a
      OBVIOUS
    <2> HIDE DEF l
    <2>2. Added(p, out, l, ProxyKind) = 0
      <3>1. CASE p = Home
        BY <1>4, <2>1, <3>1 DEF Added
      <3>2. CASE Without(out, ProxyKind)
        BY <2>1, <3>2, AddedNone
      <3> QED
        BY <3>1, <3>2
    <2>3. OnLink(chan, l, ProxyKind) = 0
      BY <1>1, <1>4, <2>1, OnLinkNat DEF l
    <2>4. OnLink(chan', l, ProxyKind) \in Nat
      BY <1>1, <2>1, OnLinkNat
    <2>5. OnLink(chan, l, ProxyKind) + Added(p, out, l, ProxyKind)
             = OnLink(chan', l, ProxyKind)
                 + (IF l = <<s, p>> /\ Head(chan[<<s, p>>]) \in ProxyKind THEN 1 ELSE 0)
      BY <1>1, <2>1, ConsumeNumber, SMTT(40)
    <2>6. OnLink(chan', l, ProxyKind) = 0
      BY <2>2, <2>3, <2>4, <2>5
    <2>7. ~Carried(chan', l, ProxyKind)
      BY <1>1, <2>1, <2>6, OnLinkNat
    <2> QED
      BY <2>7 DEF l
  <1>5. FromHome'
    BY <1>4 DEF NetInv, FromHome
  <1> QED
    BY <1>2, <1>3, <1>5 DEF NetInv

LEMMA ConsumeUnmoved ==
    ASSUME TypeOK, TypeOK', NEW s \in Site, NEW p \in Site, NEW out, Served(out),
           Without(out, ReturnKind), CanRecv(s, p), Consume(s, p, out),
           Head1(s, p).type \notin {"WRITE", "RETURN"}
    PROVE  Unmoved
  <1>1. ASSUME NEW q \in Site
        PROVE  Asked(q)' = Asked(q) /\ Answered(q)' = Answered(q)
    <2>1. <<Home, q>> \in Site \X Site
      BY HomeAssumption
    <2>2. Added(p, out, <<Home, q>>, ReturnKind) = 0
      BY <2>1, AddedNone DEF Served
    <2>3. Asked(q) = Asked(q)' + 0
      BY ConsumeBalance
    <2>4. Answered(q) + 0 = Answered(q)' + 0
      BY <2>2, ConsumeBalance
    <2>5. Asked(q) \in Nat /\ Answered(q) \in Nat
      BY AskedNat
    <2>6. Asked(q)' \in Nat /\ Answered(q)' \in Nat
      <3>1. chan' \in Channels(Message) /\ <<q, Home>> \in Site \X Site
        BY HomeAssumption DEF TypeOK, Channels
      <3> QED
        BY <2>1, <3>1, OnLinkNat DEF Asked, Answered
    <2> QED
      BY <2>3, <2>4, <2>5, <2>6
  <1> QED
    BY <1>1 DEF Unmoved, Consume

(* The manager sends out, and d is alive.                                  *)
LEMMA HomeAdds ==
    ASSUME NetInv, NEW out, NEW d \in Site, alive[d], NEW K
    PROVE  Added(Home, out, <<Home, d>>, K) = Number(out[d], K)
  BY HomeAssumption DEF Added, NetInv, Detected

(* Steps that move no writer keep the balance.                             *)
LEMMA UnmovedTracked ==
    ASSUME Tracked, Unmoved, mfail => mfail', UNCHANGED <<writes, requests>>
    PROVE  Tracked'
  BY DEF Tracked, Unmoved

-----------------------------------------------------------------------------
(* The operations of a proxy.                                              *)

LEMMA PlainOperation ==
    ASSUME IInv, WInv, NEW p \in Site, NEW out, Plain(out), Emit(p, out),
           UNCHANGED <<writes, requests, mfail>>
    PROVE  NetInv' /\ Tracked'
  BY WInvNet, EmitPlain, UnmovedTracked DEF IInv, WInv

LEMMA ReadTracked ==
    ASSUME IInv, WInv, NEW p \in Site, Read(p)
    PROVE  WInv'
  <1> DEFINE out == IF reader[p] THEN Silent ELSE sendToManager("READ")
  <1>1. Plain(out)
    BY SilentPlain, ToManagerPlain DEF ManagerTypes
  <1>2. Emit(p, out) /\ UNCHANGED <<writes, requests, mfail, present, pfail, alive>>
    BY DEF Read, managerVars, Emit
  <1> HIDE DEF out
  <1>3. NetInv' /\ Tracked'
    BY <1>1, <1>2, PlainOperation
  <1> QED
    BY <1>2, <1>3 DEF WInv, NetInv, FailureCaused, AbsentIdle

LEMMA MonitorTracked ==
    ASSUME IInv, WInv, NEW p \in Site, Monitor(p)
    PROVE  WInv'
  <1>1. /\ Emit(p, sendToManager("REGISTER"))
        /\ UNCHANGED <<writes, requests, mfail, present, pfail, alive>>
    BY DEF Monitor, managerVars, Emit
  <1>2. NetInv' /\ Tracked'
    BY <1>1, PlainOperation, ToManagerPlain DEF ManagerTypes
  <1> QED
    BY <1>1, <1>2 DEF WInv, NetInv, FailureCaused, AbsentIdle

LEMMA KillTracked ==
    ASSUME IInv, WInv, NEW p \in Site, Kill(p)
    PROVE  WInv'
  <1>1. /\ Emit(p, sendToManager("PERMFAIL"))
        /\ UNCHANGED <<writes, requests, mfail, present, pfail, alive>>
    BY DEF Kill, managerVars, proxyVars, statusVars, Emit
  <1>2. NetInv' /\ Tracked'
    BY <1>1, PlainOperation, ToManagerPlain DEF ManagerTypes
  <1> QED
    BY <1>1, <1>2 DEF WInv, NetInv, FailureCaused, AbsentIdle

LEMMA DeleteProxyTracked ==
    ASSUME IInv, WInv, NEW p \in Site, DeleteProxy(p)
    PROVE  WInv'
  <1> DEFINE out == IF registered[p] THEN sendToManager("DEREGISTER") ELSE Silent
  <1>1. Plain(out)
    BY SilentPlain, ToManagerPlain
  <1>2. Emit(p, out) /\ UNCHANGED <<writes, requests, mfail, alive>>
    BY DEF DeleteProxy, managerVars, Emit
  <1> HIDE DEF out
  <1>3. NetInv' /\ Tracked'
    BY <1>1, <1>2, PlainOperation
  <1>4. FailureCaused'
    BY <1>2, <1>3 DEF WInv, NetInv, FailureCaused, DeleteProxy, IInv, TypeOK
  <1>5. AbsentIdle'
    BY <1>2 DEF WInv, AbsentIdle, DeleteProxy, IInv, TypeOK
  <1> QED
    BY <1>3, <1>4, <1>5 DEF WInv, NetInv

LEMMA ImportProxyTracked ==
    ASSUME IInv, WInv, NEW p \in Site, ImportProxy(p)
    PROVE  WInv'
  <1> DEFINE out == IF Lazy THEN Silent ELSE sendToManager("READ")
  <1>1. Plain(out)
    BY SilentPlain, ToManagerPlain DEF ManagerTypes
  <1>2. Emit(p, out) /\ UNCHANGED <<writes, requests, mfail, alive>>
    BY DEF ImportProxy, managerVars, Emit
  <1> HIDE DEF out
  <1>3. NetInv' /\ Tracked'
    BY <1>1, <1>2, PlainOperation
  <1>4. FailureCaused'
    <2>1. Home \in perm[p] => ~alive[Home]
      BY DEF WInv, Detected
    <2> QED
      BY <1>2, <1>3, <2>1 DEF WInv, NetInv, FailureCaused, ImportProxy, IInv, TypeOK
  <1>5. AbsentIdle'
    BY <1>2 DEF WInv, AbsentIdle, ImportProxy, IInv, TypeOK
  <1> QED
    BY <1>3, <1>4, <1>5 DEF WInv, NetInv

(* The request of a new writer is on its way.                              *)
LEMMA WriteTracked ==
    ASSUME IInv, WInv, NEW p \in Site, Write(p)
    PROVE  WInv'
  <1> DEFINE m == ToManager("WRITE")
             out == sendToManager("WRITE")
  <1>1. m \in Message /\ m \notin ProxyKind /\ m \in WriteKind
    BY Kinds DEF ManagerTypes
  <1>2. out = To(Home, m) /\ out[Home] = <<m>>
    BY HomeAssumption DEF sendToManager, To, Silent
  <1>3. out \in [Site -> Seq(Message)] /\ Without(out, ProxyKind)
    BY <1>1, <1>2, ToType, ToWithout
  <1>4. Without(out, FailKind) /\ Without(out, ReturnKind)
    BY <1>3, Kinds DEF Without
  <1>5. Emit(p, out) /\ UNCHANGED <<requests, mfail, alive, perm, present, pfail>>
    BY DEF Write, managerVars, statusVars, Emit
  <1>6. NetTypeOK(Message)
    BY TypeOKNet DEF IInv
  <1> HIDE DEF out, m
  <1>7. NetInv'
    <2>1. Keeps(ProxyKind) /\ Keeps(FailKind)
      BY <1>3, <1>4, <1>5, <1>6, EmitStep
    <2> QED
      BY <1>5, <2>1, KeepsNetInv, WInvNet
  <1>8. ASSUME NEW q \in Site, alive[q], alive[Home]
        PROVE  /\ Asked(q)' = Asked(q) + (IF q = p THEN 1 ELSE 0)
               /\ Answered(q)' = Answered(q)
               /\ writes'[q] = writes[q] + (IF q = p THEN 1 ELSE 0)
    <2>1. <<q, Home>> \in Site \X Site /\ <<Home, q>> \in Site \X Site
      BY HomeAssumption
    <2>2. Added(p, out, <<q, Home>>, WriteKind) = IF q = p THEN 1 ELSE 0
      <3>1. Number(out[Home], WriteKind) = 1
        BY <1>1, <1>2, NumberSingle
      <3>2. Home \notin perm[p]
        BY <1>8, HomeAssumption DEF WInv, Detected
      <3> QED
        BY <1>8, <3>1, <3>2 DEF Added
    <2>3. Added(p, out, <<Home, q>>, ReturnKind) = 0
      BY <1>3, <1>4, <2>1, AddedNone
    <2>4. Asked(q)' = Asked(q) + Added(p, out, <<q, Home>>, WriteKind)
      BY <1>3, <1>5, <1>6, <2>1, EmitNumber DEF Asked
    <2>5. Answered(q)' = Answered(q) + Added(p, out, <<Home, q>>, ReturnKind)
      BY <1>3, <1>5, <1>6, <2>1, EmitNumber DEF Answered
    <2>6. Asked(q) \in Nat /\ Answered(q) \in Nat /\ writes[q] \in Nat
      BY AskedNat DEF IInv
    <2>7. writes'[q] = writes[q] + (IF q = p THEN 1 ELSE 0)
      BY <2>6, SMTT(40) DEF Write, IInv, TypeOK
    <2> QED
      BY <2>2, <2>3, <2>4, <2>5, <2>6, <2>7
  <1>9. Tracked'
    <2> SUFFICES ASSUME alive[Home], ~mfail, NEW q \in Site, alive[q]
                 PROVE  writes'[q] = Asked(q)' + Occurrences(q, requests) + Answered(q)'
      BY <1>5 DEF Tracked
    <2>1. writes[q] = Asked(q) + Occurrences(q, requests) + Answered(q)
      BY DEF WInv, Tracked
    <2>2. /\ Asked(q) \in Nat /\ Answered(q) \in Nat
          /\ Occurrences(q, requests) \in Nat /\ writes[q] \in Nat
      BY AskedNat DEF IInv
    <2> QED
      BY <1>8, <2>1, <2>2
  <1>10. AbsentIdle'
    BY <1>5 DEF WInv, AbsentIdle, Write, IInv, TypeOK
  <1> QED
    BY <1>5, <1>7, <1>9, <1>10 DEF WInv, NetInv, FailureCaused

-----------------------------------------------------------------------------
(* Messages to a proxy.                                                    *)

LEMMA PlainReceipt ==
    ASSUME IInv, WInv, TypeOK', NEW s \in Site, NEW p \in Site, NEW out, Plain(out),
           CanRecv(s, p), Consume(s, p, out), UNCHANGED <<requests, mfail>>
    PROVE  /\ NetInv'
           /\ Head1(s, p).type \notin {"WRITE", "RETURN"} /\ UNCHANGED writes
                 => Tracked'
  <1>1. TypeOK /\ NetInv /\ Tracked
    BY WInvNet DEF IInv, WInv
  <1>2. Served(out) /\ Without(out, ReturnKind) /\ Without(out, FailKind)
        /\ out \in [Site -> Seq(Message)] /\ Without(out, ProxyKind)
    BY PlainWithout DEF Plain
  <1>3. NetInv'
    BY <1>1, <1>2, ConsumeNetInv
  <1>4. ASSUME Head1(s, p).type \notin {"WRITE", "RETURN"}, UNCHANGED writes
        PROVE  Tracked'
    BY <1>1, <1>2, <1>4, ConsumeUnmoved, UnmovedTracked
  <1> QED
    BY <1>3, <1>4

(* A message to a proxy comes from the home site and is no write request.  *)
LEMMA HeadToProxy ==
    ASSUME IInv, WInv, NEW s \in Site, NEW p \in Site, CanRecv(s, p),
           Head1(s, p).to = "proxy"
    PROVE  /\ s = Home /\ Head1(s, p).type # "WRITE"
           /\ Head1(s, p).type = "PERMFAIL" => mfail
           /\ Head1(s, p).type = "RETURN" => Answered(p) # 0
  <1>1. Head1(s, p) \in Message /\ Head1(s, p) \in ProxyKind
    BY HeadIsMessage DEF IInv, ProxyKind
  <1>2. Head1(s, p).type # "WRITE"
    BY <1>1 DEF Message, ProxyKind
  <1>3. chan \in Channels(Message) /\ chan[<<s, p>>] \in Seq(Message)
        /\ chan[<<s, p>>] # <<>> /\ <<s, p>> \in Site \X Site
    BY DEF IInv, TypeOK, CanRecv, Channels
  <1>4. 1 \in DOMAIN chan[<<s, p>>] /\ chan[<<s, p>>][1] = Head1(s, p)
    BY <1>3 DEF Head1
  <1>5. Carried(chan, <<s, p>>, ProxyKind)
    BY <1>1, <1>4 DEF Carried
  <1>6. s = Home
    BY <1>5 DEF WInv, FromHome
  <1>7. ASSUME Head1(s, p).type = "PERMFAIL"
        PROVE  mfail
    <2>1. Head1(s, p) \in FailKind
      BY <1>1, <1>7 DEF FailKind
    <2> QED
      BY <1>3, <1>4, <2>1 DEF WInv, FailureCaused, NoneOf
  <1>8. ASSUME Head1(s, p).type = "RETURN"
        PROVE  Answered(p) # 0
    <2>1. Carried(chan, <<s, p>>, ReturnKind)
      BY <1>1, <1>4, <1>8, Kinds DEF Carried
    <2>2. OnLink(chan, <<s, p>>, ReturnKind) # 0
      BY <1>3, <2>1, OnLinkNat
    <2> QED
      BY <1>6, <2>2 DEF Answered
  <1> QED
    BY <1>2, <1>6, <1>7, <1>8

(* An answer is never ignored while the manager is up.                     *)
LEMMA ProxyIgnoresTracked ==
    ASSUME IInv, WInv, TypeOK', NEW s \in Site, NEW p \in Site, ProxyIgnores(s, p)
    PROVE  WInv'
  <1>1. /\ CanRecv(s, p) /\ Consume(s, p, Silent) /\ Head1(s, p).to = "proxy"
        /\ ~present[p] \/ pfail[p]
        /\ UNCHANGED <<writes, requests, mfail, present, pfail, alive>>
    BY DEF ProxyIgnores, proxyVars, statusVars, managerVars, Consume
  <1>2. NetInv' /\ (Head1(s, p).type \notin {"WRITE", "RETURN"} => Tracked')
    BY <1>1, PlainReceipt, SilentPlain
  <1>3. Tracked'
    <2>1. CASE ~alive[Home] \/ mfail
      BY <1>1, <2>1 DEF Tracked
    <2>2. CASE alive[Home] /\ ~mfail
      <3>1. ~present[p] /\ writes[p] = 0
        BY <1>1, <2>2 DEF WInv, FailureCaused, AbsentIdle
      <3>2. writes[p] = Asked(p) + Occurrences(p, requests) + Answered(p)
        BY <1>1, <2>2 DEF WInv, Tracked, CanRecv
      <3>3. Asked(p) \in Nat /\ Occurrences(p, requests) \in Nat /\ Answered(p) \in Nat
        BY AskedNat DEF IInv
      <3>4. Answered(p) = 0
        BY <3>1, <3>2, <3>3
      <3> QED
        BY <1>1, <1>2, <3>4, HeadToProxy
    <2> QED
      BY <2>1, <2>2
  <1> QED
    BY <1>1, <1>2, <1>3 DEF WInv, NetInv, FailureCaused, AbsentIdle

LEMMA GetReturnTracked ==
    ASSUME IInv, WInv, TypeOK', NEW s \in Site, NEW p \in Site, GetReturn(s, p)
    PROVE  WInv'
  <1>1. /\ CanRecv(s, p) /\ Consume(s, p, Silent)
        /\ Head1(s, p).to = "proxy" /\ Head1(s, p).type = "RETURN"
        /\ present[p]
        /\ UNCHANGED <<requests, mfail, present, pfail, alive>>
    BY DEF GetReturn, ProxyGets, statusVars, managerVars, Consume
  <1>2. NetInv'
    BY <1>1, PlainReceipt, SilentPlain
  <1>3. s = Home /\ Answered(p) # 0
    BY <1>1, HeadToProxy
  <1>4. Tracked'
    <2> SUFFICES ASSUME alive[Home], ~mfail, NEW q \in Site, alive[q]
                 PROVE  writes'[q] = Asked(q)' + Occurrences(q, requests) + Answered(q)'
      BY <1>1 DEF Tracked
    <2>1. /\ writes[q] = Asked(q) + Occurrences(q, requests) + Answered(q)
          /\ writes[p] = Asked(p) + Occurrences(p, requests) + Answered(p)
      BY <1>1 DEF WInv, Tracked, CanRecv
    <2>2. /\ Asked(q) \in Nat /\ Answered(q) \in Nat
          /\ Occurrences(q, requests) \in Nat /\ writes[q] \in Nat
      BY AskedNat DEF IInv
    <2>3. /\ Asked(p) \in Nat /\ Answered(p) \in Nat
          /\ Occurrences(p, requests) \in Nat /\ writes[p] \in Nat
      BY AskedNat DEF IInv
    <2>4. <<Home, q>> \in Site \X Site
      BY HomeAssumption
    <2>5. Added(p, Silent, <<Home, q>>, ReturnKind) = 0
      BY <2>4, AddedNone, SilentPlain DEF Served
    <2>6. /\ Asked(q) = Asked(q)'
          /\ Answered(q) + 0 = Answered(q)' + (IF q = p THEN 1 ELSE 0)
      <3>1. /\ Asked(q) = Asked(q)'
                 + (IF q = s /\ p = Home /\ Head1(s, p).type = "WRITE" THEN 1 ELSE 0)
            /\ Answered(q) + Added(p, Silent, <<Home, q>>, ReturnKind) = Answered(q)'
                + (IF s = Home /\ q = p /\ Head1(s, p).type = "RETURN" THEN 1 ELSE 0)
        BY <1>1, ConsumeBalance, SilentPlain DEF IInv
      <3>2. Asked(q)' \in Nat
        <4>1. chan' \in Channels(Message) /\ <<q, Home>> \in Site \X Site
          BY HomeAssumption DEF TypeOK, Channels
        <4> QED
          BY <4>1, OnLinkNat DEF Asked
      <3> QED
        BY <1>1, <1>3, <2>5, <3>1, <3>2
    <2>7. writes[p] > 0
      BY <1>3, <2>1, <2>3
    <2>8. writes'[q] + (IF q = p THEN 1 ELSE 0) = writes[q] /\ writes'[q] \in Nat
      <3>1. writes'[q] = IF q = p THEN writes[p] - 1 ELSE writes[q]
        <4>1. writes' = [writes EXCEPT ![p] = IF writes[p] > 0 THEN writes[p] - 1 ELSE 0]
              /\ writes \in [Site -> Nat]
          BY DEF GetReturn, IInv, TypeOK
        <4> QED
          BY <2>7, <4>1
      <3> QED
        BY <2>2, <2>3, <2>7, <3>1
    <2>9. Answered(q)' \in Nat
      <3>1. chan' \in Channels(Message)
        BY DEF TypeOK, Channels
      <3> QED
        BY <2>4, <3>1, OnLinkNat DEF Answered
    <2> QED
      BY <2>1, <2>2, <2>6, <2>8, <2>9
  <1>5. AbsentIdle'
    BY <1>1 DEF WInv, AbsentIdle, GetReturn, IInv, TypeOK
  <1> QED
    BY <1>1, <1>2, <1>4, <1>5 DEF WInv, NetInv, FailureCaused

LEMMA GetInvalidateTracked ==
    ASSUME IInv, WInv, TypeOK', NEW s \in Site, NEW p \in Site, GetInvalidate(s, p)
    PROVE  WInv'
  <1>1. /\ CanRecv(s, p) /\ Consume(s, p, sendToManager("INVALID"))
        /\ Head1(s, p).type = "INVALIDATE"
        /\ UNCHANGED <<writes, requests, mfail, present, pfail, alive>>
    BY DEF GetInvalidate, ProxyGets, managerVars, Consume
  <1>2. NetInv' /\ Tracked'
    BY <1>1, PlainReceipt, ToManagerPlain DEF ManagerTypes
  <1> QED
    BY <1>1, <1>2 DEF WInv, NetInv, FailureCaused, AbsentIdle

LEMMA GetCommitTracked ==
    ASSUME IInv, WInv, TypeOK', NEW s \in Site, NEW p \in Site, GetCommit(s, p)
    PROVE  WInv'
  <1>1. /\ CanRecv(s, p) /\ Consume(s, p, Silent) /\ Head1(s, p).type = "COMMIT"
        /\ UNCHANGED <<writes, requests, mfail, present, pfail, alive>>
    BY DEF GetCommit, ProxyGets, managerVars, Consume
  <1>2. NetInv' /\ Tracked'
    BY <1>1, PlainReceipt, SilentPlain
  <1> QED
    BY <1>1, <1>2 DEF WInv, NetInv, FailureCaused, AbsentIdle

(* A failure is told by a manager that has failed.                         *)
LEMMA GetPermFailTracked ==
    ASSUME IInv, WInv, TypeOK', NEW s \in Site, NEW p \in Site, GetPermFail(s, p)
    PROVE  WInv'
  <1>1. /\ CanRecv(s, p) /\ Consume(s, p, Silent)
        /\ Head1(s, p).to = "proxy" /\ Head1(s, p).type = "PERMFAIL"
        /\ UNCHANGED <<requests, mfail, present, alive>>
    BY DEF GetPermFail, ProxyGets, managerVars, Consume
  <1>2. NetInv'
    BY <1>1, PlainReceipt, SilentPlain
  <1>3. mfail
    BY <1>1, HeadToProxy
  <1>4. AbsentIdle'
    BY <1>1 DEF WInv, AbsentIdle, GetPermFail, FailProxy, IInv, TypeOK
  <1> QED
    BY <1>1, <1>2, <1>3, <1>4 DEF WInv, NetInv, FailureCaused, Tracked

-----------------------------------------------------------------------------
(* Messages to the manager.                                                *)

LEMMA AnswerFailedTracked ==
    ASSUME IInv, WInv, NEW s \in Site, AnswerFailed(s)
    PROVE  WInv'
  <1> DEFINE out == To(s, ToProxy("PERMFAIL", 0))
  <1>1. /\ CanRecv(s, Home) /\ Consume(s, Home, out) /\ mfail
        /\ UNCHANGED <<writes, requests, mfail, present, pfail, alive>>
    BY DEF AnswerFailed, proxyVars, statusVars, managerVars, Consume
  <1>2. out \in [Site -> Seq(Message)]
    BY Kinds, ToType DEF ProxyTypes
  <1> HIDE DEF out
  <1>3. NetInv'
    BY <1>1, <1>2, WInvNet, ConsumeNetInv, HomeAssumption DEF IInv
  <1> QED
    BY <1>1, <1>3 DEF WInv, NetInv, FailureCaused, AbsentIdle, Tracked

(* The manager serves a message that is no write request.                  *)
LEMMA ServedReceipt ==
    ASSUME IInv, WInv, TypeOK', NEW s \in Site, NEW t, ManagerGets(s, t),
           t \in ManagerTypes \cup {"DEREGISTER"}, NEW out,
           Served(out), Consume(s, Home, out), ~mfail,
           \A d \in Site : Number(out[d], ReturnKind) + Occurrences(d, requests')
                   = Occurrences(d, requests) + (IF d = s /\ t = "WRITE" THEN 1 ELSE 0),
           UNCHANGED <<writes, mfail, present, pfail>>
    PROVE  WInv'
  <1>1. /\ CanRecv(s, Home) /\ Head1(s, Home).type = t
        /\ UNCHANGED <<alive, perm>> /\ NetInv /\ TypeOK
    BY WInvNet DEF ManagerGets, Consume, IInv
  <1>2. t # "RETURN"
    BY DEF ManagerTypes
  <1>3. out \in [Site -> Seq(Message)] /\ Without(out, FailKind)
    BY DEF Served
  <1>4. NetInv'
    BY <1>1, <1>3, ConsumeNetInv, HomeAssumption
  <1>5. Tracked'
    <2> SUFFICES ASSUME alive[Home], NEW q \in Site, alive[q]
                 PROVE  writes[q] = Asked(q)' + Occurrences(q, requests') + Answered(q)'
      BY <1>1 DEF Tracked
    <2>1. writes[q] = Asked(q) + Occurrences(q, requests) + Answered(q)
      BY DEF WInv, Tracked
    <2>2. /\ Asked(q) \in Nat /\ Answered(q) \in Nat
          /\ Occurrences(q, requests) \in Nat /\ writes[q] \in Nat
      BY AskedNat DEF IInv
    <2>3. Added(Home, out, <<Home, q>>, ReturnKind) = Number(out[q], ReturnKind)
      BY <1>1, HomeAdds
    <2>4. /\ Asked(q) = Asked(q)'
                + (IF q = s /\ Head1(s, Home).type = "WRITE" THEN 1 ELSE 0)
          /\ Answered(q) + Added(Home, out, <<Home, q>>, ReturnKind) = Answered(q)'
                + (IF s = Home /\ q = Home /\ Head1(s, Home).type = "RETURN"
                   THEN 1 ELSE 0)
      BY <1>1, ConsumeBalance, HomeAssumption
    <2>5. Asked(q)' \in Nat /\ Answered(q)' \in Nat
      <3>1. chan' \in Channels(Message) /\ <<q, Home>> \in Site \X Site
            /\ <<Home, q>> \in Site \X Site
        BY HomeAssumption DEF TypeOK, Channels
      <3> QED
        BY <3>1, OnLinkNat DEF Asked, Answered
    <2>6. Number(out[q], ReturnKind) \in Nat /\ Occurrences(q, requests') \in Nat
      <3>1. out[q] \in Seq(Message) /\ requests' \in Seq(Site)
        BY <1>3 DEF TypeOK
      <3> QED
        BY <3>1, NumberFinite, OccurrencesNat
    <2>7. Asked(q) = Asked(q)' + (IF q = s /\ t = "WRITE" THEN 1 ELSE 0)
      BY <1>1, <2>4
    <2>8. Answered(q) + Number(out[q], ReturnKind) = Answered(q)'
      BY <1>1, <1>2, <2>3, <2>4, <2>5
    <2>9. Number(out[q], ReturnKind) + Occurrences(q, requests')
            = Occurrences(q, requests) + (IF q = s /\ t = "WRITE" THEN 1 ELSE 0)
      OBVIOUS
    <2> QED
      BY <2>1, <2>2, <2>5, <2>6, <2>7, <2>8, <2>9
  <1> QED
    BY <1>1, <1>4, <1>5 DEF WInv, NetInv, FailureCaused, AbsentIdle

(* The manager answers nobody and keeps its requests.                      *)
LEMMA NoAnswer ==
    ASSUME TypeOK, NEW out, Served(out), Without(out, ReturnKind), NEW d \in Site
    PROVE  Number(out[d], ReturnKind) + Occurrences(d, requests)
             = Occurrences(d, requests)
  <1>1. out[d] \in Seq(Message) /\ \A i \in DOMAIN out[d] : out[d][i] \notin ReturnKind
    BY DEF Served, Without
  <1>2. Number(out[d], ReturnKind) = 0
    BY <1>1, NumberZero
  <1>3. Occurrences(d, requests) \in Nat
    BY AskedNat
  <1> QED
    BY <1>2, <1>3

LEMMA RegisterTracked ==
    ASSUME IInv, WInv, TypeOK', NEW s \in Site, Register(s)
    PROVE  WInv'
  <1>1. /\ ManagerGets(s, "REGISTER") /\ Consume(s, Home, Silent) /\ ~mfail
        /\ UNCHANGED <<writes, requests, mfail, present, pfail>>
    BY DEF Register, proxyVars, statusVars
  <1>2. \A d \in Site : Occurrences(d, requests) \in Nat
    BY AskedNat DEF IInv
  <1>3. \A d \in Site : Number(Silent[d], ReturnKind) + Occurrences(d, requests)
                          = Occurrences(d, requests) + 0
    BY <1>2, NoAnswer, SilentPlain DEF IInv
  <1> QED
    BY <1>1, <1>3, ServedReceipt, SilentPlain DEF ManagerTypes

LEMMA SubscribeTracked ==
    ASSUME IInv, WInv, TypeOK', NEW s \in Site, Subscribe(s)
    PROVE  WInv'
  <1> DEFINE out == IF requests = <<>> THEN To(s, ToProxy("COMMIT", copy[Home]))
                    ELSE Silent
  <1>1. /\ ManagerGets(s, "READ") /\ Consume(s, Home, out) /\ ~mfail
        /\ UNCHANGED <<writes, requests, mfail, present, pfail>>
    BY DEF Subscribe, proxyVars, statusVars
  <1>2. Served(out) /\ Without(out, ReturnKind)
    <2>1. copy[Home] \in Nat
      BY HomeAssumption DEF IInv, TypeOK
    <2>2. /\ Served(To(s, ToProxy("COMMIT", copy[Home])))
          /\ Without(To(s, ToProxy("COMMIT", copy[Home])), ReturnKind)
      BY <2>1, ToProxyServed DEF ProxyTypes
    <2> QED
      BY <2>2, SilentPlain
  <1> HIDE DEF out
  <1>3. \A d \in Site : Occurrences(d, requests) \in Nat
    BY AskedNat DEF IInv
  <1>4. \A d \in Site : Number(out[d], ReturnKind) + Occurrences(d, requests)
                          = Occurrences(d, requests) + 0
    BY <1>2, <1>3, NoAnswer DEF IInv
  <1> QED
    BY <1>1, <1>2, <1>4, ServedReceipt DEF ManagerTypes

(* m_invalid performs the requests or keeps them.                          *)
LEMMA InvalidOutAnswers ==
    ASSUME IInv, NEW s \in Site, NEW remove \in BOOLEAN, CountInvalid(s, remove)
    PROVE  /\ Served(InvalidOut(s, remove))
           /\ \A d \in Site :
                 Number(InvalidOut(s, remove)[d], ReturnKind)
                     + Occurrences(d, requests') = Occurrences(d, requests)
  <1>1. TypeOK /\ readers \in Seq(Site) /\ requests \in Seq(Site)
    BY DEF IInv, TypeOK
  <1>2. CASE IsCounted(s, remove)
    <2> DEFINE r == WithoutReader(s, remove)
    <2>1. r \in Seq(Site)
      <3>1. CASE remove /\ Among(s, readers)
        <4>1. remove = TRUE
          BY <3>1
        <4> QED
          BY <1>1, <3>1, <4>1, WithoutReaderRemoves
      <3>2. CASE ~(remove /\ Among(s, readers))
        BY <1>1, <3>2 DEF WithoutReader
      <3> QED
        BY <3>1, <3>2
    <2>2. /\ CheckOperations(r, Decremented, requests)
          /\ InvalidOut(s, remove) = CheckOperationsOut(r, Decremented, requests)
      BY <1>2 DEF CountInvalid, InvalidOut
    <2> HIDE DEF r
    <2> QED
      BY <1>1, <2>1, <2>2, CheckOperationsAnswers
  <1>3. CASE ~IsCounted(s, remove)
    <2>1. InvalidOut(s, remove) = Silent /\ requests' = requests
      BY <1>3 DEF InvalidOut, CountInvalid
    <2> QED
      BY <1>1, <2>1, NoAnswer, SilentPlain
  <1> QED
    BY <1>2, <1>3

LEMMA DeregisterTracked ==
    ASSUME IInv, WInv, TypeOK', NEW s \in Site, Deregister(s)
    PROVE  WInv'
  <1> DEFINE out == InvalidOut(s, TRUE)
  <1>1. /\ ManagerGets(s, "DEREGISTER") /\ Consume(s, Home, out) /\ ~mfail
        /\ CountInvalid(s, TRUE)
        /\ UNCHANGED <<writes, mfail, present, pfail>>
    BY DEF Deregister, statusVars
  <1>2. Served(out) /\ \A d \in Site : Number(out[d], ReturnKind)
                          + Occurrences(d, requests') = Occurrences(d, requests)
    BY <1>1, InvalidOutAnswers
  <1>3. \A d \in Site : Occurrences(d, requests) \in Nat
    BY AskedNat DEF IInv
  <1> HIDE DEF out
  <1>4. \A d \in Site : Number(out[d], ReturnKind) + Occurrences(d, requests')
                          = Occurrences(d, requests) + 0
    BY <1>2, <1>3
  <1> QED
    BY <1>1, <1>2, <1>4, ServedReceipt

LEMMA InvalidatedTracked ==
    ASSUME IInv, WInv, TypeOK', NEW s \in Site, Invalidated(s)
    PROVE  WInv'
  <1> DEFINE out == InvalidOut(s, Lazy)
  <1>1. /\ ManagerGets(s, "INVALID") /\ Consume(s, Home, out) /\ ~mfail
        /\ CountInvalid(s, Lazy)
        /\ UNCHANGED <<writes, mfail, present, pfail>>
    BY DEF Invalidated, statusVars
  <1>2. Served(out) /\ \A d \in Site : Number(out[d], ReturnKind)
                          + Occurrences(d, requests') = Occurrences(d, requests)
    BY <1>1, InvalidOutAnswers, LazyAssumption
  <1>3. \A d \in Site : Occurrences(d, requests) \in Nat
    BY AskedNat DEF IInv
  <1> HIDE DEF out
  <1>4. \A d \in Site : Number(out[d], ReturnKind) + Occurrences(d, requests')
                          = Occurrences(d, requests) + 0
    BY <1>2, <1>3
  <1> QED
    BY <1>1, <1>2, <1>4, ServedReceipt DEF ManagerTypes

(* The request that is received waits or is answered at once.              *)
LEMMA RequestWriteTracked ==
    ASSUME IInv, WInv, TypeOK', NEW s \in Site, RequestWrite(s)
    PROVE  WInv'
  <1>1. /\ ManagerGets(s, "WRITE") /\ ~mfail
        /\ UNCHANGED <<writes, mfail, present, pfail>>
    BY DEF RequestWrite, statusVars
  <1>2. TypeOK /\ readers \in Seq(Site) /\ requests \in Seq(Site)
    BY DEF IInv, TypeOK
  <1>3. \A d \in Site : Occurrences(d, requests) \in Nat
    BY AskedNat DEF IInv
  <1>4. CASE requests = <<>>
    <2> DEFINE o1 == InvalidateOut(readers)
               rq == <<s>>
               o2 == CheckOperationsOut(readers, nvalid, rq)
               out == Both(o1, o2)
    <2>1. /\ Consume(s, Home, out) /\ CheckOperations(readers, nvalid, rq)
      BY <1>4 DEF RequestWrite
    <2>2. rq \in Seq(Site)
      OBVIOUS
    <2>3. \A d \in Site : Occurrences(d, rq) = IF d = s THEN 1 ELSE 0
      BY <1>2, OccurrencesAppend
    <2>4. \A d \in Site : Occurrences(d, requests) = 0
      BY <1>4, OccurrencesEmpty
    <2> HIDE DEF rq
    <2>5. Served(o1) /\ \A d \in Site : Number(o1[d], ReturnKind) = 0
      BY <1>2, ToEachServed DEF InvalidateOut, ProxyTypes
    <2>6. /\ Served(o2)
          /\ \A d \in Site : Number(o2[d], ReturnKind) + Occurrences(d, requests')
                               = Occurrences(d, rq)
      BY <1>2, <2>1, <2>2, CheckOperationsAnswers
    <2> HIDE DEF o1, o2
    <2>7. Served(out)
      BY <2>5, <2>6, BothServed
    <2>8. ASSUME NEW d \in Site
          PROVE  Number(out[d], ReturnKind) + Occurrences(d, requests')
                   = Occurrences(d, requests) + (IF d = s THEN 1 ELSE 0)
      <3>1. out[d] = o1[d] \o o2[d]
        BY DEF Both
      <3>2. o1[d] \in Seq(Message) /\ o2[d] \in Seq(Message)
        BY <2>5, <2>6 DEF Served
      <3>3. Number(o1[d] \o o2[d], ReturnKind)
              = Number(o1[d], ReturnKind) + Number(o2[d], ReturnKind)
        BY <3>2, NumberConcat
      <3>4. Number(o2[d], ReturnKind) \in Nat
        BY <3>2, NumberFinite
      <3> QED
        BY <2>3, <2>4, <2>5, <2>6, <3>1, <3>3, <3>4
    <2> HIDE DEF out
    <2> QED
      BY <1>1, <2>1, <2>7, <2>8, ServedReceipt DEF ManagerTypes
  <1>5. CASE requests # <<>>
    <2>1. Consume(s, Home, Silent) /\ requests' = Append(requests, s)
      BY <1>5 DEF RequestWrite
    <2>2. \A d \in Site : Occurrences(d, requests')
                            = Occurrences(d, requests) + (IF d = s THEN 1 ELSE 0)
      BY <1>2, <2>1, OccurrencesAppend, ZenonT(40)
    <2>3. ASSUME NEW d \in Site
          PROVE  Number(Silent[d], ReturnKind) = 0
      <3>1. Silent[d] \in Seq(Message)
        BY SilentType
      <3> QED
        BY <3>1, NumberZero, SilentPlain DEF Without
    <2>4. \A d \in Site : Number(Silent[d], ReturnKind) + Occurrences(d, requests')
                            = Occurrences(d, requests) + (IF d = s THEN 1 ELSE 0)
      BY <1>3, <2>2, <2>3
    <2> QED
      BY <1>1, <2>1, <2>4, ServedReceipt, SilentPlain DEF ManagerTypes
  <1> QED
    BY <1>4, <1>5

LEMMA FailTracked ==
    ASSUME IInv, WInv, NEW s \in Site, Fail(s)
    PROVE  WInv'
  <1> DEFINE m == ToProxy("PERMFAIL", 0)
             out == [d \in Site |-> IF d \in proxies THEN <<m>> ELSE <<>>]
  <1>1. /\ CanRecv(s, Home) /\ Consume(s, Home, out) /\ mfail' = TRUE
        /\ UNCHANGED <<writes, present, pfail, alive>>
    BY DEF Fail, ManagerGets, Consume, proxyVars, statusVars
  <1>2. m \in Message
    BY Kinds DEF ProxyTypes
  <1> HIDE DEF m
  <1>3. out \in [Site -> Seq(Message)]
    BY <1>2
  <1> HIDE DEF out
  <1>4. NetInv'
    BY <1>1, <1>3, WInvNet, ConsumeNetInv, HomeAssumption DEF IInv
  <1> QED
    BY <1>1, <1>4 DEF WInv, NetInv, FailureCaused, AbsentIdle, Tracked

-----------------------------------------------------------------------------
(* Failures.                                                               *)

LEMMA SiteCrashTracked ==
    ASSUME IInv, WInv, NEW s \in Site, SiteCrash(s)
    PROVE  WInv'
  <1>1. /\ Crash(s)
        /\ UNCHANGED <<writes, requests, mfail, present, pfail>>
    BY DEF SiteCrash, proxyVars, statusVars, managerVars
  <1>2. Keeps(ProxyKind) /\ Keeps(FailKind)
    BY <1>1, CrashStep, TypeOKNet DEF IInv
  <1>3. /\ alive \in [Site -> BOOLEAN] /\ alive' = [alive EXCEPT ![s] = FALSE]
        /\ perm' = perm /\ perm \in [Site -> SUBSET Site]
        /\ chan' = [l \in Site \X Site |-> IF l[2] = s THEN <<>> ELSE chan[l]]
    BY <1>1 DEF Crash, IInv, TypeOK
  <1>4. Detected'
    BY <1>3 DEF WInv, Detected
  <1>5. FromHome'
    BY <1>2 DEF WInv, FromHome, Keeps
  <1>6. FailureCaused'
    BY <1>1, <1>2, <1>3, HomeAssumption DEF WInv, FailureCaused, Keeps
  <1>7. Unmoved
    <2>1. ASSUME NEW q \in Site, alive'[q], alive'[Home]
          PROVE  /\ alive[q] /\ alive[Home]
                 /\ Asked(q)' = Asked(q) /\ Answered(q)' = Answered(q)
      <3>1. q # s /\ Home # s /\ alive[q] /\ alive[Home]
        BY <1>3, <2>1, HomeAssumption
      <3>2. chan'[<<q, Home>>] = chan[<<q, Home>>] /\ chan'[<<Home, q>>] = chan[<<Home, q>>]
        BY <1>3, <3>1, HomeAssumption
      <3> QED
        BY <3>1, <3>2 DEF Asked, Answered, OnLink
    <2> QED
      BY <2>1 DEF Unmoved
  <1>8. Tracked'
    BY <1>1, <1>7, UnmovedTracked DEF WInv
  <1> QED
    BY <1>1, <1>4, <1>5, <1>6, <1>8 DEF WInv, AbsentIdle

LEMMA DetectNetInv ==
    ASSUME TypeOK, NetInv, NEW p \in Site, NEW s \in Site, NEW out, Served(out),
           p = Home \/ Without(out, ProxyKind), CanDetect(p, s), Detect(p, s, out),
           UNCHANGED mfail
    PROVE  NetInv'
  <1>1. NetTypeOK(Message) /\ out \in [Site -> Seq(Message)] /\ NetTypeOK(Message)'
    BY TypeOKNet, DetectStep DEF Served
  <1>2. /\ perm' = [perm EXCEPT ![p] = @ \cup {s}] /\ alive' = alive /\ ~alive[s]
        /\ perm \in [Site -> SUBSET Site]
    BY DEF Detect, CanDetect, TypeOK
  <1>3. Detected'
    BY <1>2 DEF NetInv, Detected
  <1>4. ~mfail' => NoneOf(chan', FailKind)
    BY <1>1, DetectStep DEF NetInv, Keeps, Served
  <1>5. FromHome'
    <2>1. CASE p = Home
      <3>1. ASSUME NEW a \in Site, NEW b \in Site, a # Home
            PROVE  chan'[<<a, b>>] = chan[<<a, b>>] \/ chan'[<<a, b>>] = <<>>
        BY <2>1, <3>1 DEF Detect, Sent, TypeOK
      <3>2. ASSUME NEW a \in Site, NEW b \in Site, a # Home,
                   ~Carried(chan, <<a, b>>, ProxyKind)
            PROVE  ~Carried(chan', <<a, b>>, ProxyKind)
        <4>1. CASE chan'[<<a, b>>] = chan[<<a, b>>]
          BY <3>2, <4>1 DEF Carried
        <4>2. CASE chan'[<<a, b>>] = <<>>
          BY <4>2 DEF Carried
        <4> QED
          BY <3>1, <3>2, <4>1, <4>2
      <3> QED
        BY <3>2 DEF NetInv, FromHome
    <2>2. CASE Without(out, ProxyKind)
      BY <1>1, <2>2, DetectStep DEF NetInv, FromHome, Keeps
    <2> QED
      BY <2>1, <2>2
  <1> QED
    BY <1>3, <1>4, <1>5 DEF NetInv

LEMMA DetectRemoteTracked ==
    ASSUME IInv, WInv, TypeOK', NEW p \in Site, NEW s \in Site, DetectRemote(p, s)
    PROVE  WInv'
  <1>1. /\ p # Home /\ CanDetect(p, s) /\ Detect(p, s, Silent) /\ ~alive[s]
        /\ UNCHANGED <<requests, mfail, present, alive>>
    BY DEF DetectRemote, managerVars, CanDetect, Detect
  <1>2. NetInv'
    <2>1. Served(Silent) /\ Without(Silent, ProxyKind)
      BY SilentPlain DEF Plain
    <2>2. TypeOK /\ NetInv /\ UNCHANGED mfail
      BY <1>1, WInvNet DEF IInv
    <2> QED
      BY <1>1, <2>1, <2>2, DetectNetInv
  <1>3. AbsentIdle'
    <2>1. writes' = writes \/ writes' = [writes EXCEPT ![p] = 0]
      BY DEF DetectRemote, FailProxy
    <2>2. writes \in [Site -> Nat] /\ present' = present
      BY <1>1 DEF IInv, TypeOK
    <2> QED
      BY <2>1, <2>2 DEF WInv, AbsentIdle
  <1>4. CASE s = Home
    <2>1. ~alive'[Home]
      BY <1>1, <1>4
    <2> QED
      BY <1>2, <1>3, <2>1 DEF WInv, NetInv, FailureCaused, Tracked
  <1>5. CASE s # Home
    <2>1. UNCHANGED <<pfail, writes>>
      BY <1>5 DEF DetectRemote
    <2>2. ASSUME NEW q \in Site
          PROVE  Asked(q)' = Asked(q) /\ Answered(q)' = Answered(q)
      <3>1. /\ <<q, Home>> \in Site \X Site /\ <<Home, q>> \in Site \X Site
            /\ <<q, Home>> # <<s, p>> /\ <<Home, q>> # <<s, p>>
        BY <1>1, <1>5, HomeAssumption
      <3>2. NetTypeOK(Message) /\ Silent \in [Site -> Seq(Message)]
        BY TypeOKNet, SilentType DEF IInv
      <3>3. /\ Added(p, Silent, <<q, Home>>, WriteKind) = 0
            /\ Added(p, Silent, <<Home, q>>, ReturnKind) = 0
        BY <3>1, <3>2, AddedNone, SilentWithout
      <3>4. Asked(q)' = Asked(q) + Added(p, Silent, <<q, Home>>, WriteKind)
        BY <1>1, <3>1, <3>2, DetectNumber, SMTT(40) DEF Asked
      <3>5. Answered(q)' = Answered(q) + Added(p, Silent, <<Home, q>>, ReturnKind)
        BY <1>1, <3>1, <3>2, DetectNumber, SMTT(40) DEF Answered
      <3> QED
        BY <3>3, <3>4, <3>5, AskedNat DEF IInv
    <2>3. Unmoved
      BY <1>1, <2>2 DEF Unmoved
    <2>4. Tracked'
      BY <1>1, <2>1, <2>3, UnmovedTracked DEF WInv
    <2> QED
      BY <1>1, <1>2, <1>3, <2>1, <2>4 DEF WInv, NetInv, FailureCaused
  <1> QED
    BY <1>4, <1>5

LEMMA DetectHomeTracked ==
    ASSUME IInv, WInv, TypeOK', NEW s \in Site, DetectHome(s)
    PROVE  WInv'
  <1> DEFINE out == IF mfail THEN Silent ELSE InvalidOut(s, TRUE)
  <1>1. /\ CanDetect(Home, s) /\ Detect(Home, s, out) /\ ~alive[s]
        /\ ~mfail => CountInvalid(s, TRUE)
        /\ UNCHANGED <<writes, mfail, present, pfail, alive>>
    BY DEF DetectHome, managerVars, statusVars, CanDetect, Detect
  <1>2. /\ Served(out)
        /\ ~mfail => \A d \in Site : Number(out[d], ReturnKind)
                         + Occurrences(d, requests') = Occurrences(d, requests)
    BY <1>1, InvalidOutAnswers, SilentPlain
  <1> HIDE DEF out
  <1>3. NetInv'
    BY <1>1, <1>2, DetectNetInv, WInvNet, HomeAssumption DEF IInv
  <1>4. Tracked'
    <2> SUFFICES ASSUME alive[Home], ~mfail, NEW q \in Site, alive[q]
                 PROVE  writes[q] = Asked(q)' + Occurrences(q, requests') + Answered(q)'
      BY <1>1 DEF Tracked
    <2>1. writes[q] = Asked(q) + Occurrences(q, requests) + Answered(q)
      BY DEF WInv, Tracked
    <2>2. /\ Asked(q) \in Nat /\ Answered(q) \in Nat
          /\ Occurrences(q, requests) \in Nat /\ writes[q] \in Nat
      BY AskedNat DEF IInv
    <2>3. /\ <<q, Home>> \in Site \X Site /\ <<Home, q>> \in Site \X Site
          /\ <<q, Home>> # <<s, Home>> /\ <<Home, q>> # <<s, Home>>
      BY <1>1, HomeAssumption
    <2>4. NetTypeOK(Message) /\ out \in [Site -> Seq(Message)]
      BY <1>2, TypeOKNet DEF IInv, Served
    <2>5. Added(Home, out, <<q, Home>>, WriteKind) = 0
      BY <1>2, <2>3, <2>4, AddedNone DEF Served
    <2>6. Added(Home, out, <<Home, q>>, ReturnKind) = Number(out[q], ReturnKind)
      BY HomeAdds, WInvNet
    <2>7. Asked(q)' = Asked(q) + Added(Home, out, <<q, Home>>, WriteKind)
      BY <1>1, <2>3, <2>4, DetectNumber, HomeAssumption DEF Asked
    <2>8. Answered(q)' = Answered(q) + Added(Home, out, <<Home, q>>, ReturnKind)
      BY <1>1, <2>3, <2>4, DetectNumber, HomeAssumption DEF Answered
    <2>9. Number(out[q], ReturnKind) \in Nat /\ Occurrences(q, requests') \in Nat
      <3>1. out[q] \in Seq(Message) /\ requests' \in Seq(Site)
        BY <2>4 DEF TypeOK
      <3> QED
        BY <3>1, NumberFinite, OccurrencesNat
    <2>10. Number(out[q], ReturnKind) + Occurrences(q, requests') = Occurrences(q, requests)
      BY <1>2
    <2> QED
      BY <2>1, <2>2, <2>5, <2>6, <2>7, <2>8, <2>9, <2>10
  <1> QED
    BY <1>1, <1>3, <1>4 DEF WInv, NetInv, FailureCaused, AbsentIdle

-----------------------------------------------------------------------------
(* Every write is tracked in every reachable state.                        *)

LEMMA InitWInv == Init => WInv
  <1> SUFFICES ASSUME Init
               PROVE  WInv
    OBVIOUS
  <1>1. /\ chan = [l \in Site \X Site |-> <<>>] /\ perm = [s \in Site |-> {}]
    BY DEF Init, NetInit
  <1>2. Detected
    BY <1>1 DEF Detected
  <1>3. \A l \in Site \X Site : chan[l] = <<>>
    BY <1>1
  <1>4. FromHome /\ NoneOf(chan, FailKind)
    BY <1>3 DEF FromHome, Carried, NoneOf
  <1>5. FailureCaused /\ AbsentIdle
    BY <1>4 DEF FailureCaused, AbsentIdle, Init
  <1>6. ASSUME NEW q \in Site
        PROVE  Asked(q) = 0 /\ Answered(q) = 0 /\ Occurrences(q, requests) = 0
    <2>1. /\ <<q, Home>> \in Site \X Site /\ <<Home, q>> \in Site \X Site
          /\ chan \in Channels(Message)
      BY <1>1, HomeAssumption, EmptySeq DEF Channels
    <2>2. ~Carried(chan, <<q, Home>>, WriteKind) /\ ~Carried(chan, <<Home, q>>, ReturnKind)
      BY <1>3, <2>1 DEF Carried
    <2> QED
      BY <2>1, <2>2, OnLinkNat, OccurrencesEmpty DEF Asked, Answered, Init
  <1>7. Tracked
    BY <1>6 DEF Tracked, Init
  <1> QED
    BY <1>2, <1>4, <1>5, <1>7 DEF WInv

LEMMA StutterWInv ==
    ASSUME WInv, UNCHANGED vars
    PROVE  WInv'
  <1>1. Tracked'
    BY DEF WInv, Tracked, Asked, Answered, vars, netVars, proxyVars, managerVars
  <1>2. Detected' /\ FromHome' /\ AbsentIdle'
    BY DEF WInv, Detected, FromHome, AbsentIdle, Carried, vars, netVars,
           proxyVars, statusVars
  <1>3. FailureCaused'
    BY DEF WInv, FailureCaused, NoneOf, vars, netVars, proxyVars, statusVars,
           managerVars
  <1> QED
    BY <1>1, <1>2, <1>3 DEF WInv

LEMMA NextWInv == IInv /\ IInv' /\ WInv /\ [Next]_vars => WInv'
  <1> SUFFICES ASSUME IInv, IInv', WInv, [Next]_vars
               PROVE  WInv'
    OBVIOUS
  <1> TypeOK'
    BY DEF IInv
  <1>1. ASSUME NEW p \in Site, Operation(p)
        PROVE  WInv'
    BY <1>1, ReadTracked, WriteTracked, MonitorTracked, KillTracked,
       DeleteProxyTracked, ImportProxyTracked
    DEF Operation
  <1>2. ASSUME NEW s \in Site, NEW p \in Site, ProxyReceives(s, p)
        PROVE  WInv'
    BY <1>2, ProxyIgnoresTracked, GetReturnTracked, GetInvalidateTracked,
       GetCommitTracked, GetPermFailTracked
    DEF ProxyReceives
  <1>3. ASSUME NEW s \in Site, ManagerReceives(s)
        PROVE  WInv'
    BY <1>3, AnswerFailedTracked, RegisterTracked, DeregisterTracked,
       SubscribeTracked, RequestWriteTracked, InvalidatedTracked, FailTracked
    DEF ManagerReceives
  <1>4. ASSUME NEW s \in Site, SiteCrash(s) \/ DetectHome(s)
        PROVE  WInv'
    BY <1>4, SiteCrashTracked, DetectHomeTracked
  <1>5. ASSUME NEW p \in Site, NEW s \in Site, DetectRemote(p, s)
        PROVE  WInv'
    BY <1>5, DetectRemoteTracked
  <1> QED
    BY <1>1, <1>2, <1>3, <1>4, <1>5, StutterWInv DEF Next

(* The invariant of the writes holds in every reachable state.             *)
THEOREM WritesInvariance == Spec => []WInv
  BY InitWInv, NextWInv, InvalidInvariance, PTL DEF Spec

(* No write is lost or performed twice: as long as the manager is up and   *)
(* the entity has not failed, every suspended writer of a live site has    *)
(* exactly one request or one answer under way, for any number of sites,   *)
(* crashes and departures.                                                 *)
THEOREM EveryWriteIsTracked == Spec => []WritesTracked
  <1>1. IInv /\ WInv => WritesTracked
    <2> SUFFICES ASSUME IInv, WInv, NEW p \in Site, alive[Home], ~mfail, alive[p]
                 PROVE  writes[p] = InFlight(p, Home, "WRITE")
                          + Occurrences(p, requests) + InFlight(Home, p, "RETURN")
      BY DEF WritesTracked
    <2>1. writes[p] = Asked(p) + Occurrences(p, requests) + Answered(p)
      BY DEF WInv, Tracked
    <2>2. ASSUME NEW l \in Site \X Site, NEW i \in DOMAIN chan[l]
          PROVE  /\ chan[l][i] \in WriteKind <=> chan[l][i].type = "WRITE"
                 /\ chan[l][i] \in ReturnKind <=> chan[l][i].type = "RETURN"
      <3>1. chan[l] \in Seq(Message)
        BY DEF IInv, TypeOK
      <3>2. chan[l][i] \in Message
        BY <3>1, ElementOfSeq, LenProperties
      <3> QED
        BY <3>2, Kinds
    <2>3. <<p, Home>> \in Site \X Site /\ <<Home, p>> \in Site \X Site
      BY HomeAssumption
    <2>4. {i \in DOMAIN chan[<<p, Home>>] : chan[<<p, Home>>][i] \in WriteKind}
            = {i \in DOMAIN chan[<<p, Home>>] : chan[<<p, Home>>][i].type = "WRITE"}
      BY <2>2, <2>3
    <2>5. {i \in DOMAIN chan[<<Home, p>>] : chan[<<Home, p>>][i] \in ReturnKind}
            = {i \in DOMAIN chan[<<Home, p>>] : chan[<<Home, p>>][i].type = "RETURN"}
      BY <2>2, <2>3
    <2>6. Asked(p) = InFlight(p, Home, "WRITE") /\ Answered(p) = InFlight(Home, p, "RETURN")
      BY <2>4, <2>5 DEF Asked, Answered, OnLink, Number, InFlight
    <2> QED
      BY <2>1, <2>6
  <1> QED
    BY <1>1, InvalidInvariance, WritesInvariance, PTL

-----------------------------------------------------------------------------
(* Coherence.  As long as no site crashes and no proxy leaves, the state   *)
(* of the subscription of a proxy is divided among the manager's list, the *)
(* proxy and the messages between them:                                    *)
(*   - a subscription is under way only if the proxy is not in the list,   *)
(*     or is about to be removed from it (lazy, its answer is ahead);      *)
(*   - an invalidation or its answer is under way only in a phase, and     *)
(*     only to or from a member of the list: those are the counted ones;   *)
(*   - a member that has the state, or is being sent it, will still be     *)
(*     invalidated if there is a phase.                                    *)
(* So when the count is zero nobody has or is being sent the old state.    *)

Mail(t) == {m \in Message : m.type = t}

OldCommits(v) == {m \in Mail("COMMIT") : m.ver # v}

PhaseTypes == {"READ", "INVALID", "INVALIDATE", "COMMIT"}

PhaseMail == {m \in Message : m.type \in PhaseTypes}

Subscribing(c, p) == On(c, <<p, Home>>, Mail("READ"), {})
Answering(c, p) == On(c, <<p, Home>>, Mail("INVALID"), {})
Invalidating(c, p) == On(c, <<Home, p>>, Mail("INVALIDATE"), {})
Committing(c, p) == On(c, <<Home, p>>, Mail("COMMIT"), {})
Outdated(c, p, v) == On(c, <<Home, p>>, OldCommits(v), {})

(* No message of a phase is doubled, a subscription is not ahead of an     *)
(* answer, and an invalidation is not ahead of a commit.                   *)
Orderly(c, p) ==
    /\ ~Two(c, <<p, Home>>, Mail("READ"), Mail("READ"), {})
    /\ ~Two(c, <<p, Home>>, Mail("READ"), Mail("INVALID"), {})
    /\ ~Two(c, <<p, Home>>, Mail("INVALID"), Mail("INVALID"), {})
    /\ ~Two(c, <<Home, p>>, Mail("INVALIDATE"), Mail("INVALIDATE"), {})
    /\ ~Two(c, <<Home, p>>, Mail("INVALIDATE"), Mail("COMMIT"), {})

Subscribed(p) ==
    /\ Orderly(chan, p)
    /\ Invalidating(chan, p) \/ Answering(chan, p)
          => requests # <<>> /\ Among(p, readers)
    /\ ~(Invalidating(chan, p) /\ Answering(chan, p))
    /\ Committing(chan, p) \/ valid[p]
          => /\ Among(p, readers) /\ ~Answering(chan, p)
             /\ requests # <<>> => Invalidating(chan, p)
    /\ Subscribing(chan, p)
          => /\ present[p] /\ reader[p]
             /\ Among(p, readers) => Lazy /\ Answering(chan, p)
    /\ Among(p, readers)
          => present[p] /\ (reader[p] \/ (Lazy /\ Answering(chan, p)))

(* Whoever has the state, or is being sent it, has the current one.        *)
Fresh(p) ==
    /\ ~Outdated(chan, p, copy[Home])
    /\ valid[p] => copy[p] = copy[Home]

Counted ==
    {d \in Site : /\ Among(d, readers)
                  /\ Invalidating(chan, d) \/ Answering(chan, d)}

Injective(q) == \A i, j \in DOMAIN q : q[i] = q[j] => i = j

CountRight ==
    nvalid = IF requests = <<>> THEN Len(readers) ELSE Cardinality(Counted)

Listed == Injective(readers) /\ CountRight /\ \A p \in Site : Subscribed(p)

Faultless == NoCrash /\ NoLeave

CInv ==
    /\ budget["leave"] <= MaxLeaves
    /\ NoLeave => NoneOf(chan, {Leaving})
    /\ Faultless => (\A p \in Site : Fresh(p)) /\ (~mfail => Listed)

LEMMA MailFacts ==
    /\ \A t \in PhaseTypes : Mail(t) \subseteq PhaseMail
    /\ \A v : OldCommits(v) \subseteq PhaseMail
    /\ \A m \in Message : \A t : m \in Mail(t) <=> m.type = t
    /\ \A m \in Message : \A v : m \in OldCommits(v) <=> m.type = "COMMIT" /\ m.ver # v
    /\ \A m \in Message : m \in PhaseMail <=> m.type \in PhaseTypes
  BY DEF Mail, OldCommits, PhaseMail, PhaseTypes

LEMMA HomeLinks ==
    ASSUME NEW p \in Site
    PROVE  /\ <<p, Home>> \in Site \X Site /\ <<Home, p>> \in Site \X Site
           /\ <<p, Home>>[1] = p /\ <<p, Home>>[2] = Home
           /\ <<Home, p>>[1] = Home /\ <<Home, p>>[2] = p
  BY HomeAssumption

(* Nothing happens to the messages of a phase from and to q.               *)
SamePhase(c, n, q) ==
    /\ Subscribing(n, q) <=> Subscribing(c, q)
    /\ Answering(n, q) <=> Answering(c, q)
    /\ Invalidating(n, q) <=> Invalidating(c, q)
    /\ Committing(n, q) <=> Committing(c, q)
    /\ \A v : Outdated(n, q, v) => Outdated(c, q, v)
    /\ Orderly(c, q) => Orderly(n, q)

LEMMA SentSame ==
    ASSUME NEW c \in Channels(Message), NEW p \in Site,
           NEW out \in [Site -> Seq(Message)], Without(out, PhaseMail),
           NEW q \in Site
    PROVE  SamePhase(c, Sent(c, p, out), q)
  <1> DEFINE n == Sent(c, p, out)
  <1>1. ASSUME NEW l \in Site \X Site, NEW K, NEW L,
               K \subseteq PhaseMail, L \subseteq PhaseMail
        PROVE  /\ On(n, l, K, {}) <=> On(c, l, K, {})
               /\ Two(n, l, K, L, {}) => Two(c, l, K, L, {})
    BY <1>1, SentOther
  <1> HIDE DEF n
  <1>2. <<q, Home>> \in Site \X Site /\ <<Home, q>> \in Site \X Site
    BY HomeLinks
  <1>3. /\ Mail("READ") \subseteq PhaseMail /\ Mail("INVALID") \subseteq PhaseMail
        /\ Mail("INVALIDATE") \subseteq PhaseMail /\ Mail("COMMIT") \subseteq PhaseMail
        /\ \A v : OldCommits(v) \subseteq PhaseMail
    BY MailFacts DEF PhaseTypes
  <1>4. /\ Subscribing(n, q) <=> Subscribing(c, q)
        /\ Answering(n, q) <=> Answering(c, q)
        /\ Invalidating(n, q) <=> Invalidating(c, q)
        /\ Committing(n, q) <=> Committing(c, q)
    BY <1>1, <1>2, <1>3 DEF Subscribing, Answering, Invalidating, Committing
  <1>5. \A v : Outdated(n, q, v) => Outdated(c, q, v)
    BY <1>1, <1>2, <1>3 DEF Outdated
  <1>6. Orderly(c, q) => Orderly(n, q)
    BY <1>1, <1>2, <1>3 DEF Orderly
  <1> QED
    BY <1>4, <1>5, <1>6 DEF SamePhase, n

(* Site p takes a message h from s.                                        *)
LEMMA Taking ==
    ASSUME NEW c \in Channels(Message), NEW s \in Site, NEW p \in Site,
           c[<<s, p>>] # <<>>, NEW q \in Site,
           NEW n, n = Taken(c, s, p), NEW h, h = Head(c[<<s, p>>])
    PROVE  /\ Orderly(c, q) => Orderly(n, q)
           /\ \A v : Outdated(n, q, v) => Outdated(c, q, v)
           /\ Subscribing(n, q) => Subscribing(c, q)
           /\ Answering(n, q) => Answering(c, q)
           /\ Invalidating(n, q) => Invalidating(c, q)
           /\ Committing(n, q) => Committing(c, q)
           /\ Subscribing(c, q) => \/ Subscribing(n, q)
                                   \/ q = s /\ p = Home /\ h.type = "READ"
           /\ Answering(c, q) => \/ Answering(n, q)
                                 \/ q = s /\ p = Home /\ h.type = "INVALID"
           /\ Invalidating(c, q) => \/ Invalidating(n, q)
                                    \/ s = Home /\ q = p /\ h.type = "INVALIDATE"
           /\ Committing(c, q) => \/ Committing(n, q)
                                  \/ s = Home /\ q = p /\ h.type = "COMMIT"
  <1>1. ASSUME NEW l \in Site \X Site, NEW K, NEW L
        PROVE  /\ On(n, l, K, {}) => On(c, l, K, {})
               /\ On(c, l, K, {}) => On(n, l, K, {}) \/ (l = <<s, p>> /\ h \in K)
               /\ Two(n, l, K, L, {}) => Two(c, l, K, L, {})
    BY TakenOn, TakenTwo
  <1>2. <<q, Home>> \in Site \X Site /\ <<Home, q>> \in Site \X Site
    BY HomeLinks
  <1>3. h \in Message
    BY TakenType
  <1>4. \A t : h \in Mail(t) <=> h.type = t
    BY <1>3, MailFacts
  <1>5. /\ <<q, Home>> = <<s, p>> => q = s /\ p = Home
        /\ <<Home, q>> = <<s, p>> => s = Home /\ q = p
    OBVIOUS
  <1>6. /\ Subscribing(n, q) => Subscribing(c, q)
        /\ Answering(n, q) => Answering(c, q)
        /\ Invalidating(n, q) => Invalidating(c, q)
        /\ Committing(n, q) => Committing(c, q)
        /\ \A v : Outdated(n, q, v) => Outdated(c, q, v)
    BY <1>1, <1>2 DEF Subscribing, Answering, Invalidating, Committing, Outdated
  <1>7. /\ Subscribing(c, q) => \/ Subscribing(n, q)
                                \/ q = s /\ p = Home /\ h.type = "READ"
        /\ Answering(c, q) => \/ Answering(n, q)
                              \/ q = s /\ p = Home /\ h.type = "INVALID"
    BY <1>1, <1>2, <1>4, <1>5 DEF Subscribing, Answering
  <1>8. /\ Invalidating(c, q) => \/ Invalidating(n, q)
                                 \/ s = Home /\ q = p /\ h.type = "INVALIDATE"
        /\ Committing(c, q) => \/ Committing(n, q)
                               \/ s = Home /\ q = p /\ h.type = "COMMIT"
    BY <1>1, <1>2, <1>4, <1>5 DEF Invalidating, Committing
  <1>9. Orderly(c, q) => Orderly(n, q)
    BY <1>1, <1>2 DEF Orderly
  <1> QED
    BY <1>6, <1>7, <1>8, <1>9

(* What it takes was there, and what must not be behind it is not.         *)
LEMMA Taking1 ==
    ASSUME NEW c \in Channels(Message), NEW s \in Site, NEW p \in Site,
           c[<<s, p>>] # <<>>,
           NEW n, n = Taken(c, s, p), NEW h, h = Head(c[<<s, p>>])
    PROVE  /\ p = Home /\ h.type = "READ" =>
                /\ Subscribing(c, s)
                /\ Orderly(c, s) => ~Subscribing(n, s) /\ ~Answering(n, s)
           /\ p = Home /\ h.type = "INVALID" =>
                Answering(c, s) /\ (Orderly(c, s) => ~Answering(n, s))
           /\ s = Home /\ h.type = "INVALIDATE" =>
                /\ Invalidating(c, p)
                /\ Orderly(c, p) => ~Invalidating(n, p) /\ ~Committing(n, p)
           /\ s = Home /\ h.type = "COMMIT" =>
                Committing(c, p) /\ \A v : h.ver # v => Outdated(c, p, v)
  <1>1. ASSUME NEW l \in Site \X Site, NEW K, NEW L, l = <<s, p>>, h \in K
        PROVE  On(c, l, K, {}) /\ (On(n, l, L, {}) => Two(c, l, K, L, {}))
    BY <1>1, TakenOn, TakenTwo
  <1>2. <<s, p>> \in Site \X Site
    OBVIOUS
  <1>3. h \in Message
    BY TakenType
  <1>4. /\ \A t : h \in Mail(t) <=> h.type = t
        /\ \A v : h \in OldCommits(v) <=> h.type = "COMMIT" /\ h.ver # v
    BY <1>3, MailFacts
  <1>5. ASSUME p = Home, h.type = "READ"
        PROVE  /\ Subscribing(c, s)
               /\ Orderly(c, s) => ~Subscribing(n, s) /\ ~Answering(n, s)
    BY <1>1, <1>2, <1>4, <1>5 DEF Subscribing, Answering, Orderly
  <1>6. ASSUME p = Home, h.type = "INVALID"
        PROVE  Answering(c, s) /\ (Orderly(c, s) => ~Answering(n, s))
    BY <1>1, <1>2, <1>4, <1>6 DEF Answering, Orderly
  <1>7. ASSUME s = Home, h.type = "INVALIDATE"
        PROVE  /\ Invalidating(c, p)
               /\ Orderly(c, p) => ~Invalidating(n, p) /\ ~Committing(n, p)
    BY <1>1, <1>2, <1>4, <1>7 DEF Invalidating, Committing, Orderly
  <1>8. ASSUME s = Home, h.type = "COMMIT"
        PROVE  Committing(c, p) /\ \A v : h.ver # v => Outdated(c, p, v)
    BY <1>1, <1>2, <1>4, <1>8 DEF Committing, Outdated
  <1> QED
    BY <1>5, <1>6, <1>7, <1>8

LEMMA TakenSame ==
    ASSUME NEW c \in Channels(Message), NEW s \in Site, NEW p \in Site,
           c[<<s, p>>] # <<>>, Head(c[<<s, p>>]).type \notin PhaseTypes,
           NEW q \in Site
    PROVE  SamePhase(c, Taken(c, s, p), q)
  <1> DEFINE n == Taken(c, s, p)
             h == Head(c[<<s, p>>])
  <1>1. /\ h.type # "READ" /\ h.type # "INVALID"
        /\ h.type # "INVALIDATE" /\ h.type # "COMMIT"
    BY DEF PhaseTypes
  <1> HIDE DEF n, h
  <1> QED
    BY <1>1, Taking DEF SamePhase, n, h

(* A proxy sends to the manager.                                           *)
LEMMA Posting ==
    ASSUME NEW c \in Channels(Message), NEW p \in Site,
           NEW t \in {"READ", "INVALID"}, Reaches(p, Home), NEW q \in Site,
           NEW n, n = Sent(c, p, sendToManager(t))
    PROVE  /\ Subscribing(n, q) <=> Subscribing(c, q) \/ (q = p /\ t = "READ")
           /\ Answering(n, q) <=> Answering(c, q) \/ (q = p /\ t = "INVALID")
           /\ Invalidating(n, q) <=> Invalidating(c, q)
           /\ Committing(n, q) <=> Committing(c, q)
           /\ \A v : Outdated(n, q, v) => Outdated(c, q, v)
           /\ Orderly(c, q)
                /\ (q = p => ~Subscribing(c, q) /\ (t = "INVALID" => ~Answering(c, q)))
                => Orderly(n, q)
  <1> DEFINE m == ToManager(t)
  <1>1. m \in Message /\ m.type = t
    BY DEF ToManager, Message
  <1>2. /\ \A k : m \in Mail(k) <=> k = t
        /\ \A v : m \notin OldCommits(v)
    BY <1>1, MailFacts
  <1>3. n = Sent(c, p, Each({Home}, m))
    BY ToIsEach, HomeAssumption DEF sendToManager
  <1> HIDE DEF m
  <1>4. ASSUME NEW l \in Site \X Site, NEW K, NEW L
        PROVE  /\ On(n, l, K, {}) <=> \/ On(c, l, K, {})
                                      \/ l[1] = p /\ l[2] = Home /\ m \in K
               /\ Two(n, l, K, L, {}) =>
                    \/ Two(c, l, K, L, {})
                    \/ l[1] = p /\ l[2] = Home /\ m \in L /\ On(c, l, K, {})
    BY <1>1, <1>3, EachOn, EachTwo
  <1>5. /\ <<q, Home>> \in Site \X Site /\ <<Home, q>> \in Site \X Site
        /\ <<q, Home>>[1] = q /\ <<q, Home>>[2] = Home
    BY HomeLinks
  <1>6. /\ Subscribing(n, q) <=> Subscribing(c, q) \/ (q = p /\ t = "READ")
        /\ Answering(n, q) <=> Answering(c, q) \/ (q = p /\ t = "INVALID")
    BY <1>2, <1>4, <1>5 DEF Subscribing, Answering
  <1>7. /\ m \notin Mail("INVALIDATE") /\ m \notin Mail("COMMIT")
        /\ \A v : m \notin OldCommits(v)
    BY <1>2
  <1>8. /\ Invalidating(n, q) <=> Invalidating(c, q)
        /\ Committing(n, q) <=> Committing(c, q)
        /\ \A v : Outdated(n, q, v) => Outdated(c, q, v)
    BY <1>4, <1>5, <1>7 DEF Invalidating, Committing, Outdated
  <1>9. ASSUME Orderly(c, q),
               q = p => ~Subscribing(c, q) /\ (t = "INVALID" => ~Answering(c, q))
        PROVE  Orderly(n, q)
    <2>1. /\ ~Two(n, <<Home, q>>, Mail("INVALIDATE"), Mail("INVALIDATE"), {})
          /\ ~Two(n, <<Home, q>>, Mail("INVALIDATE"), Mail("COMMIT"), {})
      BY <1>4, <1>5, <1>7, <1>9 DEF Orderly
    <2>2. /\ ~Two(n, <<q, Home>>, Mail("READ"), Mail("READ"), {})
          /\ ~Two(n, <<q, Home>>, Mail("READ"), Mail("INVALID"), {})
      BY <1>4, <1>5, <1>9 DEF Orderly, Subscribing
    <2>3. ~Two(n, <<q, Home>>, Mail("INVALID"), Mail("INVALID"), {})
      BY <1>2, <1>4, <1>5, <1>9 DEF Orderly, Answering
    <2> QED
      BY <2>1, <2>2, <2>3 DEF Orderly
  <1> QED
    BY <1>6, <1>8, <1>9

(* The manager sends to the sites of D.                                    *)
LEMMA Mailing ==
    ASSUME NEW c \in Channels(Message), \A d \in Site : Reaches(Home, d), NEW D,
           NEW t \in {"INVALIDATE", "COMMIT"}, NEW v \in Nat, NEW q \in Site,
           NEW n, n = Sent(c, Home, Each(D, ToProxy(t, v)))
    PROVE  /\ n \in Channels(Message)
           /\ Subscribing(n, q) <=> Subscribing(c, q)
           /\ Answering(n, q) <=> Answering(c, q)
           /\ Invalidating(n, q) <=> Invalidating(c, q) \/ (q \in D /\ t = "INVALIDATE")
           /\ Committing(n, q) <=> Committing(c, q) \/ (q \in D /\ t = "COMMIT")
           /\ \A w : Outdated(n, q, w) => Outdated(c, q, w) \/ (t = "COMMIT" /\ w # v)
           /\ Orderly(c, q) /\ (q \in D => ~Invalidating(c, q)) => Orderly(n, q)
  <1> DEFINE m == ToProxy(t, v)
  <1>1. m \in Message /\ m.type = t /\ m.ver = v
    BY DEF ToProxy, Message
  <1>2. /\ \A k : m \in Mail(k) <=> k = t
        /\ \A w : m \in OldCommits(w) => t = "COMMIT" /\ w # v
    BY <1>1, MailFacts
  <1> HIDE DEF m
  <1>3. n = Sent(c, Home, Each(D, m))
    BY DEF m
  <1>4. ASSUME NEW l \in Site \X Site, NEW K, NEW L
        PROVE  /\ On(n, l, K, {}) <=>
                    \/ On(c, l, K, {})
                    \/ l[1] = Home /\ Reaches(Home, l[2]) /\ l[2] \in D /\ m \in K
               /\ Two(n, l, K, L, {}) =>
                    \/ Two(c, l, K, L, {})
                    \/ l[1] = Home /\ l[2] \in D /\ m \in L /\ On(c, l, K, {})
    BY <1>1, <1>3, EachOn, EachTwo, HomeAssumption
  <1>5. /\ <<q, Home>> \in Site \X Site /\ <<Home, q>> \in Site \X Site
        /\ <<Home, q>>[1] = Home /\ <<Home, q>>[2] = q /\ Reaches(Home, q)
    BY HomeLinks
  <1>6. m \notin Mail("READ") /\ m \notin Mail("INVALID")
    BY <1>2
  <1>7. /\ Subscribing(n, q) <=> Subscribing(c, q)
        /\ Answering(n, q) <=> Answering(c, q)
    BY <1>4, <1>5, <1>6 DEF Subscribing, Answering
  <1>8. /\ Invalidating(n, q) <=> Invalidating(c, q) \/ (q \in D /\ t = "INVALIDATE")
        /\ Committing(n, q) <=> Committing(c, q) \/ (q \in D /\ t = "COMMIT")
    BY <1>2, <1>4, <1>5 DEF Invalidating, Committing
  <1>9. \A w : Outdated(n, q, w) => Outdated(c, q, w) \/ (t = "COMMIT" /\ w # v)
    BY <1>2, <1>4, <1>5 DEF Outdated
  <1>10. ASSUME Orderly(c, q), q \in D => ~Invalidating(c, q)
         PROVE  Orderly(n, q)
    <2>1. /\ ~Two(n, <<Home, q>>, Mail("INVALIDATE"), Mail("INVALIDATE"), {})
          /\ ~Two(n, <<Home, q>>, Mail("INVALIDATE"), Mail("COMMIT"), {})
      BY <1>4, <1>5, <1>10 DEF Orderly, Invalidating
    <2>2. /\ ~Two(n, <<q, Home>>, Mail("READ"), Mail("READ"), {})
          /\ ~Two(n, <<q, Home>>, Mail("READ"), Mail("INVALID"), {})
          /\ ~Two(n, <<q, Home>>, Mail("INVALID"), Mail("INVALID"), {})
      BY <1>4, <1>5, <1>6, <1>10 DEF Orderly
    <2> QED
      BY <2>1, <2>2 DEF Orderly
  <1>11. n \in Channels(Message)
    <2>1. Each(D, m) \in [Site -> Seq(Message)]
      BY <1>1, EachType
    <2> QED
      <3>1. c \in [Site \X Site -> Seq(Message)]
        BY DEF Channels
      <3>2. n \in [Site \X Site -> Seq(Message)]
        <4>1. Sent(c, Home, Each(D, m)) \in [Site \X Site -> Seq(Message)]
          BY <2>1, <3>1, SentType, HomeAssumption
        <4> QED
          BY <1>3, <4>1
      <3> QED
        BY <3>2 DEF Channels
  <1> QED
    BY <1>7, <1>8, <1>9, <1>10, <1>11

-----------------------------------------------------------------------------
(* The list of readers.                                                    *)

InList(q) == {d \in Site : Among(d, q)}

LEMMA ToEachInjective ==
    ASSUME NEW q \in Seq(Site), Injective(q), NEW m
    PROVE  ToEach(q, m) = Each(InList(q), m)
  <1> SUFFICES ASSUME NEW d \in Site
               PROVE  Times(Occurrences(d, q), m)
                        = IF d \in InList(q) THEN <<m>> ELSE <<>>
    BY DEF ToEach, Each
  <1>1. CASE Among(d, q)
    <2>1. PICK k \in DOMAIN q : q[k] = d
      BY <1>1 DEF Among
    <2>2. {i \in DOMAIN q : q[i] = d} = {k}
      BY <2>1 DEF Injective
    <2>3. Occurrences(d, q) = 1
      BY <2>2, FS_Singleton DEF Occurrences
    <2>4. Times(1, m) = <<m>>
      BY DEF Times
    <2> QED
      BY <1>1, <2>3, <2>4 DEF InList
  <1>2. CASE ~Among(d, q)
    <2>1. {i \in DOMAIN q : q[i] = d} = {}
      BY <1>2 DEF Among
    <2>2. Occurrences(d, q) = 0
      BY <2>1, FS_EmptySet DEF Occurrences
    <2>3. Times(0, m) = <<>>
      BY DEF Times
    <2> QED
      BY <1>2, <2>2, <2>3 DEF InList
  <1> QED
    BY <1>1, <1>2

LEMMA ListSize ==
    ASSUME NEW q \in Seq(Site), Injective(q)
    PROVE  IsFiniteSet(InList(q)) /\ Cardinality(InList(q)) = Len(q)
  <1>1. /\ DOMAIN q = 1..Len(q) /\ Len(q) \in Nat
        /\ \A i \in 1..Len(q) : q[i] \in Site
    BY LenProperties, ElementOfSeq
  <1>2. q \in [1..Len(q) -> InList(q)]
    BY <1>1 DEF InList, Among
  <1>3. q \in Bijection(1..Len(q), InList(q))
    <2>1. \A i, j \in 1..Len(q) : q[i] = q[j] => i = j
      BY <1>1 DEF Injective
    <2>2. \A d \in InList(q) : \E i \in 1..Len(q) : q[i] = d
      BY <1>1 DEF InList, Among
    <2> QED
      BY <1>2, <2>1, <2>2 DEF Bijection, Injection, Surjection, IsInjective
  <1>4. ExistsBijection(1..Len(q), InList(q))
    BY <1>3 DEF ExistsBijection
  <1>5. IsFiniteSet(1..Len(q)) /\ Cardinality(1..Len(q)) = Len(q)
    <2>1. \A k \in Nat : IsFiniteSet(1..k) /\ Cardinality(1..k) = k
      BY FS_Interval
    <2> QED
      BY <1>1, <2>1
  <1> QED
    BY <1>4, <1>5, FS_Bijection

LEMMA ListFront ==
    ASSUME NEW q \in Seq(Site), NEW s \in Site, NEW r, r = <<s>> \o q
    PROVE  /\ r \in Seq(Site) /\ Len(r) = Len(q) + 1
           /\ \A d : Among(d, r) <=> d = s \/ Among(d, q)
           /\ Injective(q) /\ ~Among(s, q) => Injective(r)
  <1>1. /\ DOMAIN q = 1..Len(q) /\ Len(q) \in Nat
        /\ \A i \in 1..Len(q) : q[i] \in Site
    BY LenProperties, ElementOfSeq
  <1>2. /\ r \in Seq(Site) /\ Len(r) = Len(q) + 1 /\ DOMAIN r = 1..(Len(q) + 1)
        /\ r[1] = s /\ \A i \in 2..(Len(q) + 1) : r[i] = q[i - 1]
    <2>1. <<s>> \in Seq(Site) /\ Len(<<s>>) = 1 /\ <<s>>[1] = s
      OBVIOUS
    <2>2. /\ r \in Seq(Site) /\ Len(r) = 1 + Len(q)
          /\ \A i \in 1..(1 + Len(q)) :
                r[i] = IF i <= 1 THEN <<s>>[i] ELSE q[i - 1]
      BY <1>1, <2>1, ConcatProperties
    <2>3. DOMAIN r = 1..Len(r)
      BY <2>2, LenProperties
    <2>4. \A i \in 2..(Len(q) + 1) : i \in 1..(1 + Len(q)) /\ ~(i <= 1)
      BY <1>1
    <2> QED
      BY <1>1, <2>1, <2>2, <2>3, <2>4
  <1>3. ASSUME NEW d
        PROVE  Among(d, r) <=> d = s \/ Among(d, q)
    <2>1. ASSUME Among(d, r)
          PROVE  d = s \/ Among(d, q)
      <3>1. PICK i \in 1..(Len(q) + 1) : r[i] = d
        BY <1>2, <2>1 DEF Among
      <3>2. i = 1 \/ (i \in 2..(Len(q) + 1) /\ i - 1 \in 1..Len(q))
        BY <1>1, <3>1
      <3> QED
        BY <1>1, <1>2, <3>1, <3>2 DEF Among
    <2>2. ASSUME Among(d, q)
          PROVE  Among(d, r)
      <3>1. PICK i \in 1..Len(q) : q[i] = d
        BY <1>1, <2>2 DEF Among
      <3>2. i + 1 \in 2..(Len(q) + 1) /\ i + 1 \in 1..(Len(q) + 1) /\ (i + 1) - 1 = i
        BY <1>1, <3>1
      <3>3. r[i + 1] = d
        BY <1>2, <3>1, <3>2
      <3> QED
        BY <1>2, <3>2, <3>3 DEF Among
    <2>3. Among(s, r)
      BY <1>1, <1>2 DEF Among
    <2> QED
      BY <2>1, <2>2, <2>3
  <1>4. ASSUME Injective(q), ~Among(s, q)
        PROVE  Injective(r)
    <2> SUFFICES ASSUME NEW i \in 1..(Len(q) + 1), NEW j \in 1..(Len(q) + 1), r[i] = r[j]
                 PROVE  i = j
      BY <1>2 DEF Injective
    <2>1. /\ i = 1 \/ (i \in 2..(Len(q) + 1) /\ i - 1 \in 1..Len(q))
          /\ j = 1 \/ (j \in 2..(Len(q) + 1) /\ j - 1 \in 1..Len(q))
      BY <1>1
    <2>2. \A k \in 1..Len(q) : q[k] # s
      BY <1>1, <1>4 DEF Among
    <2>3. CASE i = 1 \/ j = 1
      BY <1>2, <2>1, <2>2, <2>3
    <2>4. CASE i # 1 /\ j # 1
      <3>1. q[i - 1] = q[j - 1]
        BY <1>2, <2>1, <2>4
      <3>2. i - 1 = j - 1
        BY <1>1, <1>4, <2>1, <2>4, <3>1 DEF Injective
      <3> QED
        BY <2>1, <2>4, <3>2
    <2> QED
      BY <2>3, <2>4
  <1> QED
    BY <1>2, <1>3, <1>4

LEMMA ListRemoval ==
    ASSUME NEW s, readers \in Seq(Site), Injective(readers), Among(s, readers),
           NEW r, r = WithoutReader(s, TRUE)
    PROVE  /\ r \in Seq(Site) /\ Injective(r)
           /\ \A d : Among(d, r) <=> d # s /\ Among(d, readers)
  <1> DEFINE n == Len(readers)
             k == CHOOSE i \in DOMAIN readers : readers[i] = s
             a == SubSeq(readers, 1, k - 1)
             b == SubSeq(readers, k + 1, n)
  <1>1. n \in Nat /\ DOMAIN readers = 1..n /\ \A i \in 1..n : readers[i] \in Site
    BY LenProperties, ElementOfSeq
  <1>2. k \in 1..n /\ readers[k] = s
    BY <1>1 DEF Among
  <1>3. r = a \o b
    BY DEF WithoutReader
  <1> HIDE DEF k, n
  <1>4. /\ a \in Seq(Site) /\ Len(a) = k - 1
        /\ \A i \in 1..(k - 1) : a[i] = readers[i]
    <2>1. \A i \in 1..(k - 1) : readers[i] \in Site
      BY <1>1, <1>2
    <2> QED
      BY <1>1, <1>2, <2>1, SubSeqProperties
  <1>5. /\ b \in Seq(Site) /\ Len(b) = n - k
        /\ \A i \in 1..(n - k) : b[i] = readers[k + i]
    <2>1. \A i \in (k + 1)..n : readers[i] \in Site
      BY <1>1, <1>2
    <2> QED
      BY <1>1, <1>2, <2>1, SubSeqProperties
  <1> HIDE DEF a, b
  <1>6. /\ r \in Seq(Site)
        /\ DOMAIN r = 1..(n - 1)
        /\ \A i \in 1..(n - 1) : r[i] = IF i <= k - 1 THEN a[i] ELSE b[i - (k - 1)]
    <2>1. /\ a \o b \in Seq(Site) /\ Len(a \o b) = n - 1
          /\ \A i \in 1..(n - 1) :
                (a \o b)[i] = IF i <= k - 1 THEN a[i] ELSE b[i - (k - 1)]
      <3>1. Len(a) + Len(b) = n - 1
        BY <1>1, <1>2, <1>4, <1>5
      <3>2. /\ a \o b \in Seq(Site) /\ Len(a \o b) = Len(a) + Len(b)
            /\ \A i \in 1..(Len(a) + Len(b)) :
                  (a \o b)[i] = IF i <= Len(a) THEN a[i] ELSE b[i - Len(a)]
        BY <1>4, <1>5, ConcatProperties
      <3> QED
        BY <1>4, <3>1, <3>2
    <2>2. DOMAIN (a \o b) = 1..(n - 1)
      BY <2>1, LenProperties
    <2> QED
      BY <1>3, <2>1, <2>2
  <1>7. ASSUME NEW i \in 1..(n - 1)
        PROVE  LET j == IF i < k THEN i ELSE i + 1
               IN  j \in 1..n /\ j # k /\ r[i] = readers[j]
    <2>1. CASE i < k
      <3>1. i <= k - 1 /\ i \in 1..(k - 1) /\ i \in 1..n /\ i # k
        BY <1>1, <1>2, <2>1
      <3> QED
        BY <1>4, <1>6, <2>1, <3>1
    <2>2. CASE ~(i < k)
      <3>1. /\ ~(i <= k - 1) /\ i - (k - 1) \in 1..(n - k)
            /\ k + (i - (k - 1)) = i + 1 /\ i + 1 \in 1..n /\ i + 1 # k
        BY <1>1, <1>2, <2>2
      <3>2. r[i] = b[i - (k - 1)]
        BY <1>6, <3>1
      <3>3. b[i - (k - 1)] = readers[k + (i - (k - 1))]
        BY <1>5, <3>1
      <3> QED
        BY <2>2, <3>1, <3>2, <3>3
    <2> QED
      BY <2>1, <2>2
  <1>8. Injective(r)
    <2> SUFFICES ASSUME NEW i \in 1..(n - 1), NEW j \in 1..(n - 1), r[i] = r[j]
                 PROVE  i = j
      BY <1>6 DEF Injective
    <2> DEFINE x == IF i < k THEN i ELSE i + 1
               y == IF j < k THEN j ELSE j + 1
    <2>1. x \in DOMAIN readers /\ r[i] = readers[x]
      BY <1>1, <1>7
    <2>2. y \in DOMAIN readers /\ r[j] = readers[y]
      BY <1>1, <1>7
    <2> HIDE DEF x, y
    <2>3. x = y
      BY <2>1, <2>2 DEF Injective
    <2> QED
      BY <1>1, <1>2, <2>3 DEF x, y
  <1>9. ~Among(s, r)
    <2> SUFFICES ASSUME NEW i \in 1..(n - 1), r[i] = s
                 PROVE  FALSE
      BY <1>6 DEF Among
    <2>1. PICK j \in 1..n : j # k /\ r[i] = readers[j]
      BY <1>7
    <2> QED
      BY <1>1, <1>2, <2>1 DEF Injective
  <1>10. \A d : Among(d, r) => Among(d, readers)
    BY <1>1, <1>6, <1>7 DEF Among
  <1>11. \A d : d # s /\ Among(d, readers) => Among(d, r)
    BY WithoutReaderRemoves
  <1> QED
    BY <1>6, <1>8, <1>9, <1>10, <1>11

-----------------------------------------------------------------------------
(* Steps that do not concern the phase.                                    *)

Phaseless(out) == Harmless(out) /\ Without(out, PhaseMail)

Coherent == (\A p \in Site : Fresh(p)) /\ (~mfail => Listed)

LEMMA FaultlessReaches ==
    ASSUME WInv, Faultless
    PROVE  \A p, d \in Site : Reaches(p, d)
  BY DEF WInv, Detected, Faultless, NoCrash, Reaches

(* What is known of a proxy that a step leaves alone.                      *)
LEMMA SubscribedKept ==
    ASSUME NEW q \in Site, Subscribed(q), SamePhase(chan, chan', q),
           valid'[q] = valid[q], reader'[q] = reader[q], present'[q] = present[q],
           Among(q, readers') <=> Among(q, readers),
           requests' = <<>> <=> requests = <<>>
    PROVE  Subscribed(q)'
  BY DEF Subscribed, SamePhase

LEMMA FreshKept ==
    ASSUME NEW q \in Site, Fresh(q), SamePhase(chan, chan', q),
           valid'[q] = valid[q], copy' = copy
    PROVE  Fresh(q)'
  BY DEF Fresh, SamePhase

LEMMA CountKept ==
    ASSUME CountRight, UNCHANGED <<readers, nvalid>>,
           requests' = <<>> <=> requests = <<>>,
           \A q \in Site :
              Invalidating(chan', q) \/ Answering(chan', q)
                <=> Invalidating(chan, q) \/ Answering(chan, q)
    PROVE  CountRight'
  <1>1. Counted' = Counted
    BY DEF Counted
  <1> QED
    BY <1>1 DEF CountRight

LEMMA CoherentKept ==
    ASSUME Coherent, \A q \in Site : SamePhase(chan, chan', q),
           UNCHANGED <<present, reader, valid, copy, readers, nvalid, mfail>>,
           requests' = <<>> <=> requests = <<>>
    PROVE  Coherent'
  <1>1. \A q \in Site : Fresh(q)'
    BY FreshKept DEF Coherent
  <1>2. ASSUME ~mfail
        PROVE  Listed'
    <2>1. Listed
      BY <1>2 DEF Coherent
    <2>2. \A q \in Site : Subscribed(q)'
      BY <2>1, SubscribedKept DEF Listed
    <2>3. CountRight'
      BY <2>1, CountKept DEF Listed, SamePhase
    <2> QED
      BY <2>1, <2>2, <2>3 DEF Listed, Injective
  <1> QED
    BY <1>1, <1>2 DEF Coherent

(* Departures.                                                             *)
LEMMA LeaveKept ==
    ASSUME TypeOK, CInv, Keeps({Leaving}), budget'["leave"] = budget["leave"]
    PROVE  /\ budget'["leave"] <= MaxLeaves
           /\ NoLeave' => NoneOf(chan', {Leaving})
  BY DEF CInv, NoLeave, Keeps

LEMMA SpendOther ==
    ASSUME TypeOK, NEW b \in {"write", "kill", "import", "crash"}, Spend(b)
    PROVE  budget'["leave"] = budget["leave"]
  BY DEF Spend, TypeOK

LEMMA HarmlessKeeps ==
    ASSUME TypeOK, NEW out, Harmless(out)
    PROVE  /\ \A p \in Site : Emit(p, out) => Keeps({Leaving})
           /\ \A s, p \in Site : CanRecv(s, p) /\ Consume(s, p, out) => Keeps({Leaving})
           /\ \A p, s \in Site : Detect(p, s, out) => Keeps({Leaving})
  <1>1. NetTypeOK(Message) /\ out \in [Site -> Seq(Message)] /\ Without(out, {Leaving})
    BY TypeOKNet DEF Harmless
  <1>2. ASSUME NEW p \in Site, Emit(p, out)
        PROVE  Keeps({Leaving})
    BY <1>1, <1>2, EmitStep
  <1>3. ASSUME NEW s \in Site, NEW p \in Site, CanRecv(s, p), Consume(s, p, out)
        PROVE  Keeps({Leaving})
    BY <1>1, <1>3, ConsumeStep
  <1>4. ASSUME NEW p \in Site, NEW s \in Site, Detect(p, s, out)
        PROVE  Keeps({Leaving})
    BY <1>1, <1>4, DetectStep
  <1> QED
    BY <1>2, <1>3, <1>4

(* The faultless states are followed by faultless ones only.               *)
LEMMA Concludes ==
    ASSUME TypeOK, CInv, Keeps({Leaving}), budget'["leave"] = budget["leave"],
           alive' = alive,
           Faultless /\ Coherent => Coherent'
    PROVE  CInv'
  <1>1. /\ budget'["leave"] <= MaxLeaves
        /\ NoLeave' => NoneOf(chan', {Leaving})
    BY LeaveKept
  <1>2. Faultless' => Faultless
    BY DEF Faultless, NoCrash, NoLeave
  <1>3. Faultless => Coherent
    BY DEF CInv, Coherent
  <1> QED
    BY <1>1, <1>2, <1>3 DEF CInv, Coherent

LEMMA QuietEmit ==
    ASSUME IInv, CInv, NEW p \in Site, NEW out, Phaseless(out), Emit(p, out),
           UNCHANGED <<present, reader, valid, copy, readers, nvalid, mfail, requests>>,
           budget'["leave"] = budget["leave"]
    PROVE  CInv'
  <1>1. TypeOK /\ Keeps({Leaving})
    BY HarmlessKeeps DEF IInv, Phaseless
  <1>2. alive' = alive /\ chan' = Sent(chan, p, out)
    BY DEF Emit
  <1>3. \A q \in Site : SamePhase(chan, chan', q)
    BY <1>1, <1>2, SentSame DEF TypeOK, Channels, Phaseless, Harmless
  <1> QED
    BY <1>1, <1>2, <1>3, CoherentKept, Concludes

LEMMA QuietConsume ==
    ASSUME IInv, CInv, NEW s \in Site, NEW p \in Site, NEW out, Phaseless(out),
           CanRecv(s, p), Consume(s, p, out),
           Faultless /\ Coherent /\ ~mfail => Head1(s, p).type \notin PhaseTypes,
           UNCHANGED <<present, reader, valid, copy, readers, nvalid, mfail, budget>>,
           requests' = <<>> <=> requests = <<>>
    PROVE  CInv'
  <1> DEFINE n == Taken(chan, s, p)
  <1>1. TypeOK /\ Keeps({Leaving})
    BY HarmlessKeeps DEF IInv, Phaseless
  <1>2. alive' = alive /\ chan' = Sent(n, p, out)
    BY DEF Consume, Taken
  <1>3. chan \in Channels(Message) /\ chan[<<s, p>>] # <<>>
    BY <1>1 DEF TypeOK, Channels, CanRecv
  <1>4. n \in Channels(Message)
    BY <1>3, TakenType
  <1> HIDE DEF n
  <1>5. \A q \in Site : SamePhase(n, chan', q)
    BY <1>2, <1>4, SentSame DEF Phaseless, Harmless
  <1>6. ASSUME Head1(s, p).type \notin PhaseTypes, Coherent
        PROVE  Coherent'
    <2>1. \A q \in Site : SamePhase(chan, n, q)
      BY <1>3, <1>6, TakenSame DEF Head1, n
    <2>2. \A q \in Site : SamePhase(chan, chan', q)
      BY <1>5, <2>1 DEF SamePhase
    <2> QED
      BY <1>6, <2>2, CoherentKept
  <1>7. ASSUME mfail, Coherent
        PROVE  Coherent'
    <2>1. ASSUME NEW q \in Site
          PROVE  \A v : Outdated(n, q, v) => Outdated(chan, q, v)
      BY <1>3, Taking DEF n
    <2>2. \A q \in Site : Fresh(q)'
      BY <1>5, <1>7, <2>1 DEF Coherent, Fresh, SamePhase
    <2> QED
      BY <1>7, <2>2 DEF Coherent
  <1> QED
    BY <1>1, <1>2, <1>6, <1>7, Concludes

LEMMA SilentPhaseless == Phaseless(Silent)
  BY SilentHarmless, SilentWithout DEF Phaseless

LEMMA ToManagerPhaseless ==
    ASSUME NEW t \in ManagerTypes, t \notin PhaseTypes
    PROVE  Phaseless(sendToManager(t))
  <1>1. ToManager(t) \in Message /\ ToManager(t).type = t
    BY DEF ToManager, Message, ManagerTypes
  <1>2. ToManager(t) \notin PhaseMail
    BY <1>1, MailFacts
  <1> QED
    BY <1>2, ToManagerHarmless, ToWithout DEF Phaseless, sendToManager

LEMMA ToProxyPhaseless ==
    ASSUME NEW d, NEW t \in ProxyTypes, t \notin PhaseTypes, NEW v \in Nat
    PROVE  Phaseless(To(d, ToProxy(t, v)))
  <1>1. ToProxy(t, v) \in Message /\ ToProxy(t, v).type = t
    BY ToProxyMessage DEF ToProxy
  <1>2. ToProxy(t, v) \notin PhaseMail
    BY <1>1, MailFacts
  <1> QED
    BY <1>2, ToProxyHarmless, ToWithout DEF Phaseless

LEMMA WriteCoherent ==
    ASSUME IInv, CInv, NEW p \in Site, Write(p)
    PROVE  CInv'
  <1>1. Phaseless(sendToManager("WRITE"))
    BY ToManagerPhaseless DEF ManagerTypes, PhaseTypes
  <1>2. budget'["leave"] = budget["leave"]
    BY SpendOther DEF Write, IInv
  <1> QED
    BY <1>1, <1>2, QuietEmit DEF Write, statusVars, managerVars

LEMMA MonitorCoherent ==
    ASSUME IInv, CInv, NEW p \in Site, Monitor(p)
    PROVE  CInv'
  <1>1. Phaseless(sendToManager("REGISTER"))
    BY ToManagerPhaseless DEF ManagerTypes, PhaseTypes
  <1> QED
    BY <1>1, QuietEmit DEF Monitor, managerVars

LEMMA KillCoherent ==
    ASSUME IInv, CInv, NEW p \in Site, Kill(p)
    PROVE  CInv'
  <1>1. Phaseless(sendToManager("PERMFAIL"))
    BY ToManagerPhaseless DEF ManagerTypes, PhaseTypes
  <1>2. budget'["leave"] = budget["leave"]
    BY SpendOther DEF Kill, IInv
  <1> QED
    BY <1>1, <1>2, QuietEmit DEF Kill, proxyVars, statusVars, managerVars

(* A proxy that ignores messages is sent none of a phase.                  *)
LEMMA ProxyIgnoresCoherent ==
    ASSUME IInv, WInv, CInv, NEW s \in Site, NEW p \in Site, ProxyIgnores(s, p)
    PROVE  CInv'
  <1>1. /\ CanRecv(s, p) /\ Consume(s, p, Silent) /\ Head1(s, p).to = "proxy"
        /\ ~present[p] \/ pfail[p]
        /\ UNCHANGED <<present, reader, valid, copy, readers, nvalid, mfail,
                       budget, requests>>
    BY DEF ProxyIgnores, proxyVars, statusVars, managerVars
  <1>2. ASSUME Faultless, Coherent, ~mfail
        PROVE  Head1(s, p).type \notin PhaseTypes
    <2>1. s = Home
      BY <1>1, HeadToProxy
    <2>2. ~present[p]
      BY <1>1, <1>2, HomeAssumption DEF WInv, FailureCaused, Faultless, NoCrash
    <2>3. ~Invalidating(chan, p) /\ ~Committing(chan, p)
      BY <1>2, <2>2 DEF Coherent, Listed, Subscribed
    <2>4. chan \in Channels(Message) /\ chan[<<s, p>>] # <<>>
      BY <1>1 DEF IInv, TypeOK, Channels, CanRecv
    <2>5. Head1(s, p).type # "INVALIDATE" /\ Head1(s, p).type # "COMMIT"
      BY <2>1, <2>3, <2>4, Taking1 DEF Head1
    <2>6. Head1(s, p) \in Message
      BY <1>1, HeadIsMessage DEF IInv
    <2>7. Head1(s, p).type # "READ" /\ Head1(s, p).type # "INVALID"
      BY <1>1, <2>6 DEF Message
    <2> QED
      BY <2>5, <2>7 DEF PhaseTypes
  <1> QED
    BY <1>1, <1>2, SilentPhaseless, QuietConsume

LEMMA GetReturnCoherent ==
    ASSUME IInv, CInv, NEW s \in Site, NEW p \in Site, GetReturn(s, p)
    PROVE  CInv'
  <1>1. Head1(s, p).type \notin PhaseTypes
    BY DEF GetReturn, ProxyGets, PhaseTypes
  <1> QED
    BY <1>1, SilentPhaseless, QuietConsume
    DEF GetReturn, ProxyGets, statusVars, managerVars

LEMMA GetPermFailCoherent ==
    ASSUME IInv, CInv, NEW s \in Site, NEW p \in Site, GetPermFail(s, p)
    PROVE  CInv'
  <1>1. Head1(s, p).type \notin PhaseTypes
    BY DEF GetPermFail, ProxyGets, PhaseTypes
  <1> QED
    BY <1>1, SilentPhaseless, QuietConsume DEF GetPermFail, ProxyGets, managerVars

LEMMA AnswerFailedCoherent ==
    ASSUME IInv, CInv, NEW s \in Site, AnswerFailed(s)
    PROVE  CInv'
  <1>1. Phaseless(To(s, ToProxy("PERMFAIL", 0)))
    BY ToProxyPhaseless DEF ProxyTypes, PhaseTypes
  <1> QED
    BY <1>1, QuietConsume, HomeAssumption
    DEF AnswerFailed, proxyVars, statusVars, managerVars

LEMMA RegisterCoherent ==
    ASSUME IInv, CInv, NEW s \in Site, Register(s)
    PROVE  CInv'
  <1>1. Head1(s, Home).type \notin PhaseTypes
    BY DEF Register, ManagerGets, PhaseTypes
  <1> QED
    BY <1>1, SilentPhaseless, QuietConsume, HomeAssumption
    DEF Register, ManagerGets, proxyVars, statusVars

(* Nobody has left, so nobody deregisters.                                 *)
LEMMA DeregisterCoherent ==
    ASSUME IInv, CInv, NEW s \in Site, Deregister(s)
    PROVE  CInv'
  <1>1. /\ CanRecv(s, Home) /\ Consume(s, Home, InvalidOut(s, TRUE)) /\ ~mfail
        /\ Head1(s, Home).to = "manager" /\ Head1(s, Home).type = "DEREGISTER"
        /\ CountInvalid(s, TRUE) /\ UNCHANGED <<mfail, budget>>
    BY DEF Deregister, ManagerGets
  <1>2. chan[<<s, Home>>] \in Seq(Message) /\ chan[<<s, Home>>] # <<>>
        /\ <<s, Home>> \in Site \X Site
    BY <1>1, HomeAssumption DEF IInv, TypeOK, CanRecv
  <1>3. 1 \in DOMAIN chan[<<s, Home>>] /\ chan[<<s, Home>>][1] = Head1(s, Home)
    BY <1>2 DEF Head1
  <1>4. Head1(s, Home) = Leaving
    <2>1. Head1(s, Home) \in Message
      BY <1>1, HeadIsMessage, HomeAssumption DEF IInv
    <2> QED
      BY <1>1, <2>1 DEF Message, Leaving, ToManager
  <1>5. ~NoLeave
    BY <1>2, <1>3, <1>4 DEF CInv, NoneOf
  <1>6. ~Lazy => s # Home
    <2>1. s = Home => Carried(chan, <<Home, Home>>, {Leaving})
      BY <1>3, <1>4 DEF Carried
    <2> QED
      BY <2>1 DEF IInv, HomeStays
  <1>7. Harmless(InvalidOut(s, TRUE))
    BY <1>1, <1>6, CountInvalidStep
  <1>8. Keeps({Leaving})
    BY <1>1, <1>7, HarmlessKeeps, HomeAssumption DEF IInv
  <1> QED
    BY <1>1, <1>5, <1>8, LeaveKept DEF CInv, IInv, Faultless, NoLeave

LEMMA DeleteProxyCoherent ==
    ASSUME IInv, CInv, NEW p \in Site, DeleteProxy(p)
    PROVE  CInv'
  <1>1. budget'["leave"] = budget["leave"] - 1 /\ budget["leave"] \in Nat
    BY DEF DeleteProxy, Spend, IInv, TypeOK
  <1>2. budget'["leave"] < MaxLeaves
    BY <1>1, InvalidBoundsAssumption DEF CInv
  <1> QED
    BY <1>1, <1>2, InvalidBoundsAssumption DEF CInv, Faultless, NoLeave

(* After a crash nothing is claimed.                                       *)
LEMMA SiteCrashCoherent ==
    ASSUME IInv, CInv, NEW s \in Site, SiteCrash(s)
    PROVE  CInv'
  <1>1. Keeps({Leaving})
    BY TypeOKNet, CrashStep DEF SiteCrash, IInv
  <1>2. ~NoCrash'
    BY DEF SiteCrash, Crash, NoCrash, IInv, TypeOK
  <1>3. budget'["leave"] = budget["leave"]
    BY SpendOther DEF SiteCrash, IInv
  <1> QED
    BY <1>1, <1>2, <1>3, LeaveKept DEF CInv, IInv, Faultless

LEMMA DetectRemoteCoherent ==
    ASSUME IInv, CInv, NEW p \in Site, NEW s \in Site, DetectRemote(p, s)
    PROVE  CInv'
  <1>1. Detect(p, s, Silent) /\ ~alive[s] /\ alive' = alive /\ budget' = budget
    BY DEF DetectRemote, CanDetect, Detect
  <1>2. Keeps({Leaving})
    BY <1>1, SilentHarmless, HarmlessKeeps DEF IInv
  <1>3. ~NoCrash'
    BY <1>1 DEF NoCrash
  <1> QED
    BY <1>1, <1>2, <1>3, LeaveKept DEF CInv, IInv, Faultless

LEMMA DetectHomeCoherent ==
    ASSUME IInv, CInv, NEW s \in Site, DetectHome(s)
    PROVE  CInv'
  <1>1. ~alive[s] /\ alive' = alive /\ budget' = budget /\ CanDetect(Home, s)
    BY DEF DetectHome, CanDetect, Detect
  <1>2. Keeps({Leaving})
    <2>1. CASE mfail
      BY <2>1, SilentHarmless, HarmlessKeeps, HomeAssumption DEF IInv, DetectHome
    <2>2. CASE ~mfail
      <3>1. s # Home
        BY <1>1 DEF CanDetect, Idle
      <3>2. CountInvalid(s, TRUE) /\ UNCHANGED mfail /\ Detect(Home, s, InvalidOut(s, TRUE))
        BY <2>2 DEF DetectHome
      <3>3. Harmless(InvalidOut(s, TRUE))
        BY <2>2, <3>1, <3>2, CountInvalidStep
      <3> QED
        BY <3>2, <3>3, HarmlessKeeps, HomeAssumption DEF IInv
    <2> QED
      BY <2>1, <2>2
  <1>3. ~NoCrash'
    BY <1>1 DEF NoCrash
  <1> QED
    BY <1>1, <1>2, <1>3, LeaveKept DEF CInv, IInv, Faultless

-----------------------------------------------------------------------------
(* Subscriptions.                                                          *)

LEMMA ReadCoherent ==
    ASSUME IInv, WInv, CInv, NEW p \in Site, Read(p)
    PROVE  CInv'
  <1> DEFINE out == IF reader[p] THEN Silent ELSE sendToManager("READ")
  <1>1. /\ TypeOK /\ Emit(p, out) /\ chan' = Sent(chan, p, out) /\ alive' = alive
        /\ budget' = budget /\ present[p] /\ ~valid[p]
        /\ reader' = [reader EXCEPT ![p] = TRUE]
        /\ UNCHANGED <<present, valid, copy, readers, nvalid, requests, mfail>>
    BY DEF Read, Emit, managerVars, IInv
  <1>2. Harmless(out)
    BY SilentHarmless, ToManagerHarmless DEF ManagerTypes
  <1>3. Keeps({Leaving})
    BY <1>1, <1>2, HarmlessKeeps
  <1>4. chan \in Channels(Message)
    BY <1>1 DEF TypeOK, Channels
  <1>5. ASSUME Faultless, Coherent
        PROVE  Coherent'
    <2>1. CASE reader[p]
      <3>1. chan' = chan
        BY <1>1, <1>4, <2>1, SentSilent
      <3>2. reader' = reader
        BY <1>1, <2>1 DEF TypeOK
      <3>3. \A q \in Site : SamePhase(chan, chan', q)
        BY <3>1 DEF SamePhase
      <3> QED
        BY <1>1, <1>5, <3>2, <3>3, CoherentKept
    <2>2. CASE ~reader[p]
      <3>1. chan' = Sent(chan, p, sendToManager("READ")) /\ Reaches(p, Home)
        BY <1>1, <1>5, <2>2, FaultlessReaches, HomeAssumption
      <3> HIDE DEF out
      <3>2. ASSUME NEW q \in Site
            PROVE  /\ Subscribing(chan', q) <=> Subscribing(chan, q) \/ q = p
                   /\ Answering(chan', q) <=> Answering(chan, q)
                   /\ Invalidating(chan', q) <=> Invalidating(chan, q)
                   /\ Committing(chan', q) <=> Committing(chan, q)
                   /\ \A v : Outdated(chan', q, v) => Outdated(chan, q, v)
                   /\ Orderly(chan, q) /\ (q = p => ~Subscribing(chan, q))
                        => Orderly(chan', q)
        BY <1>4, <3>1, Posting
      <3>3. \A q \in Site : Fresh(q)'
        BY <1>1, <1>5, <3>2 DEF Coherent, Fresh
      <3>4. ASSUME ~mfail
            PROVE  Listed'
        <4>1. Listed
          BY <1>5, <3>4 DEF Coherent
        <4>2. ASSUME NEW q \in Site, q # p
              PROVE  Subscribed(q)'
          <5>1. SamePhase(chan, chan', q) /\ reader'[q] = reader[q]
            BY <1>1, <3>2, <4>2 DEF SamePhase, TypeOK
          <5> QED
            BY <1>1, <4>1, <5>1, SubscribedKept DEF Listed
        <4>3. Subscribed(p)'
          <5>1. Subscribed(p)
            BY <4>1 DEF Listed
          <5>2. ~Subscribing(chan, p)
            BY <2>2, <5>1 DEF Subscribed
          <5>3. Orderly(chan', p)
            BY <3>2, <5>1, <5>2 DEF Subscribed
          <5>4. Among(p, readers) => Lazy /\ Answering(chan, p)
            BY <2>2, <5>1 DEF Subscribed
          <5>5. reader'[p] = TRUE
            BY <1>1 DEF TypeOK
          <5> QED
            BY <1>1, <3>2, <5>1, <5>3, <5>4, <5>5 DEF Subscribed
        <4>4. CountRight'
          BY <1>1, <3>2, <4>1, CountKept DEF Listed
        <4> QED
          BY <1>1, <4>1, <4>2, <4>3, <4>4 DEF Listed, Injective
      <3> QED
        BY <1>1, <3>3, <3>4 DEF Coherent
    <2> QED
      BY <2>1, <2>2
  <1> QED
    BY <1>1, <1>3, <1>5, Concludes

LEMMA ImportProxyCoherent ==
    ASSUME IInv, WInv, CInv, NEW p \in Site, ImportProxy(p)
    PROVE  CInv'
  <1> DEFINE out == IF Lazy THEN Silent ELSE sendToManager("READ")
  <1>1. /\ TypeOK /\ Emit(p, out) /\ chan' = Sent(chan, p, out) /\ alive' = alive
        /\ ~present[p]
        /\ reader' = [reader EXCEPT ![p] = ~Lazy]
        /\ present' = [present EXCEPT ![p] = TRUE]
        /\ UNCHANGED <<valid, copy, readers, nvalid, requests, mfail>>
    BY DEF ImportProxy, Emit, managerVars, IInv
  <1>2. Harmless(out)
    BY SilentHarmless, ToManagerHarmless DEF ManagerTypes
  <1>3. Keeps({Leaving})
    BY <1>1, <1>2, HarmlessKeeps
  <1>4. budget'["leave"] = budget["leave"]
    BY <1>1, SpendOther DEF ImportProxy
  <1>5. chan \in Channels(Message)
    BY <1>1 DEF TypeOK, Channels
  <1>6. ASSUME Faultless, Coherent
        PROVE  Coherent'
    <2>1. ASSUME NEW q \in Site
          PROVE  /\ Subscribing(chan', q) <=> Subscribing(chan, q) \/ (q = p /\ ~Lazy)
                 /\ Answering(chan', q) <=> Answering(chan, q)
                 /\ Invalidating(chan', q) <=> Invalidating(chan, q)
                 /\ Committing(chan', q) <=> Committing(chan, q)
                 /\ \A v : Outdated(chan', q, v) => Outdated(chan, q, v)
                 /\ Orderly(chan, q) /\ (q = p => ~Subscribing(chan, q))
                      => Orderly(chan', q)
      <3>1. CASE Lazy
        <4>1. chan' = chan
          BY <1>1, <1>5, <3>1, SentSilent
        <4> QED
          BY <3>1, <4>1
      <3>2. CASE ~Lazy
        <4>1. chan' = Sent(chan, p, sendToManager("READ")) /\ Reaches(p, Home)
          BY <1>1, <1>6, <3>2, FaultlessReaches, HomeAssumption
        <4> HIDE DEF out
        <4> QED
          BY <1>5, <3>2, <4>1, Posting
      <3> QED
        BY <3>1, <3>2
    <2>2. \A q \in Site : Fresh(q)'
      BY <1>1, <1>6, <2>1 DEF Coherent, Fresh
    <2>3. ASSUME ~mfail
          PROVE  Listed'
      <3>1. Listed
        BY <1>6, <2>3 DEF Coherent
      <3>2. ASSUME NEW q \in Site, q # p
            PROVE  Subscribed(q)'
        <4>1. SamePhase(chan, chan', q) /\ reader'[q] = reader[q] /\ present'[q] = present[q]
          BY <1>1, <2>1, <3>2 DEF SamePhase, TypeOK
        <4> QED
          BY <1>1, <3>1, <4>1, SubscribedKept DEF Listed
      <3>3. Subscribed(p)'
        <4>1. Subscribed(p)
          BY <3>1 DEF Listed
        <4>2. /\ ~Subscribing(chan, p) /\ ~Among(p, readers) /\ ~Invalidating(chan, p)
              /\ ~Answering(chan, p) /\ ~Committing(chan, p) /\ ~valid[p]
          BY <1>1, <4>1 DEF Subscribed
        <4>3. Orderly(chan', p)
          BY <2>1, <4>1, <4>2 DEF Subscribed
        <4>4. present'[p] = TRUE /\ (~Lazy => reader'[p])
          BY <1>1 DEF TypeOK
        <4> QED
          BY <1>1, <2>1, <4>2, <4>3, <4>4 DEF Subscribed
      <3>4. CountRight'
        BY <1>1, <2>1, <3>1, CountKept DEF Listed
      <3> QED
        BY <1>1, <3>1, <3>2, <3>3, <3>4 DEF Listed, Injective
    <2> QED
      BY <1>1, <2>2, <2>3 DEF Coherent
  <1> QED
    BY <1>1, <1>3, <1>4, <1>6, Concludes

(* An invalidation is answered: the proxy stays among the counted.         *)
LEMMA GetInvalidateCoherent ==
    ASSUME IInv, WInv, CInv, NEW s \in Site, NEW p \in Site, GetInvalidate(s, p)
    PROVE  CInv'
  <1> DEFINE n == Taken(chan, s, p)
             h == Head(chan[<<s, p>>])
             out == sendToManager("INVALID")
  <1>1. /\ TypeOK /\ CanRecv(s, p) /\ Consume(s, p, out)
        /\ chan' = Sent(n, p, out) /\ alive' = alive /\ budget' = budget
        /\ h.to = "proxy" /\ h.type = "INVALIDATE"
        /\ valid' = [valid EXCEPT ![p] = FALSE]
        /\ reader' = [reader EXCEPT ![p] = @ /\ ~Lazy]
        /\ UNCHANGED <<present, copy, readers, nvalid, requests, mfail>>
    BY DEF GetInvalidate, ProxyGets, Head1, Consume, Taken, managerVars, IInv
  <1>2. Harmless(out)
    BY ToManagerHarmless DEF ManagerTypes
  <1>3. Keeps({Leaving})
    BY <1>1, <1>2, HarmlessKeeps
  <1>4. chan \in Channels(Message) /\ chan[<<s, p>>] # <<>>
    BY <1>1 DEF TypeOK, Channels, CanRecv
  <1>5. n \in Channels(Message)
    BY <1>4, TakenType
  <1>6. s = Home
    BY <1>1, HeadToProxy DEF Head1
  <1> HIDE DEF n, h
  <1>7. ASSUME Faultless, Coherent
        PROVE  Coherent'
    <2>1. Reaches(p, Home)
      BY <1>7, FaultlessReaches, HomeAssumption
    <2>2. ASSUME NEW q \in Site
          PROVE  /\ Subscribing(chan', q) <=> Subscribing(n, q)
                 /\ Answering(chan', q) <=> Answering(n, q) \/ q = p
                 /\ Invalidating(chan', q) <=> Invalidating(n, q)
                 /\ Committing(chan', q) <=> Committing(n, q)
                 /\ \A v : Outdated(chan', q, v) => Outdated(n, q, v)
                 /\ Orderly(n, q) /\ (q = p => ~Subscribing(n, q) /\ ~Answering(n, q))
                      => Orderly(chan', q)
      BY <1>1, <1>5, <2>1, Posting
    <2> HIDE DEF out
    <2>3. ASSUME NEW q \in Site
          PROVE  /\ \A v : Outdated(n, q, v) => Outdated(chan, q, v)
                 /\ Orderly(chan, q) => Orderly(n, q)
                 /\ Subscribing(n, q) <=> Subscribing(chan, q)
                 /\ Answering(n, q) <=> Answering(chan, q)
                 /\ q # p => (Invalidating(n, q) <=> Invalidating(chan, q))
                 /\ Committing(n, q) <=> Committing(chan, q)
      BY <1>1, <1>4, Taking DEF n, h
    <2>4. /\ Invalidating(chan, p)
          /\ Orderly(chan, p) => ~Invalidating(n, p) /\ ~Committing(n, p)
      BY <1>1, <1>4, <1>6, Taking1 DEF n, h
    <2>5. \A q \in Site : q # p => SamePhase(chan, chan', q)
      BY <2>2, <2>3 DEF SamePhase
    <2>6. ~valid'[p] /\ \A q \in Site : q # p => valid'[q] = valid[q] /\ reader'[q] = reader[q]
      BY <1>1 DEF TypeOK
    <2>7. \A q \in Site : Fresh(q)'
      BY <1>1, <1>7, <2>2, <2>3, <2>6 DEF Coherent, Fresh
    <2>8. ASSUME ~mfail
          PROVE  Listed'
      <3>1. Listed
        BY <1>7, <2>8 DEF Coherent
      <3>2. ASSUME NEW q \in Site, q # p
            PROVE  Subscribed(q)'
        BY <1>1, <2>5, <2>6, <3>1, <3>2, SubscribedKept DEF Listed
      <3>3. Subscribed(p)'
        <4>1. Subscribed(p)
          BY <3>1 DEF Listed
        <4>2. /\ requests # <<>> /\ Among(p, readers) /\ ~Answering(chan, p)
              /\ ~Subscribing(chan, p) /\ present[p] /\ reader[p]
          BY <2>4, <4>1 DEF Subscribed
        <4>3. /\ ~Invalidating(chan', p) /\ ~Committing(chan', p) /\ ~Subscribing(chan', p)
              /\ Answering(chan', p) /\ Orderly(chan', p)
          BY <2>2, <2>3, <2>4, <4>1, <4>2 DEF Subscribed
        <4>4. reader'[p] \/ Lazy
          BY <1>1, <4>2 DEF TypeOK
        <4> QED
          BY <1>1, <2>6, <4>2, <4>3, <4>4 DEF Subscribed
      <3>4. \A q \in Site :
              Invalidating(chan', q) \/ Answering(chan', q)
                <=> Invalidating(chan, q) \/ Answering(chan, q)
        BY <2>2, <2>4, <2>5 DEF SamePhase
      <3>5. CountRight'
        BY <1>1, <3>1, <3>4, CountKept DEF Listed
      <3> QED
        BY <1>1, <3>1, <3>2, <3>3, <3>5 DEF Listed, Injective
    <2> QED
      BY <1>1, <2>7, <2>8 DEF Coherent
  <1> QED
    BY <1>1, <1>3, <1>7, Concludes

(* The state that arrives is the current one; at home it changes nothing.  *)
LEMMA GetCommitCoherent ==
    ASSUME IInv, WInv, CInv, NEW s \in Site, NEW p \in Site, GetCommit(s, p)
    PROVE  /\ CInv'
           /\ Faultless => copy'[Home] = copy[Home]
  <1> DEFINE n == Taken(chan, s, p)
             h == Head(chan[<<s, p>>])
  <1>1. /\ TypeOK /\ CanRecv(s, p) /\ Consume(s, p, Silent)
        /\ chan' = Sent(n, p, Silent) /\ alive' = alive /\ budget' = budget
        /\ h.to = "proxy" /\ h.type = "COMMIT"
        /\ copy' = [copy EXCEPT ![p] = h.ver]
        /\ valid' = [valid EXCEPT ![p] = TRUE]
        /\ UNCHANGED <<present, reader, readers, nvalid, requests, mfail>>
    BY DEF GetCommit, ProxyGets, Head1, Consume, Taken, managerVars, IInv
  <1>2. Keeps({Leaving})
    BY <1>1, SilentHarmless, HarmlessKeeps
  <1>3. chan \in Channels(Message) /\ chan[<<s, p>>] # <<>>
    BY <1>1 DEF TypeOK, Channels, CanRecv
  <1>4. chan' = n
    BY <1>1, <1>3, TakenType, SentSilent
  <1>5. s = Home
    BY <1>1, HeadToProxy DEF Head1
  <1> HIDE DEF n, h
  <1>6. ASSUME Faultless, Coherent
        PROVE  Coherent' /\ copy'[Home] = copy[Home]
    <2>1. ASSUME NEW q \in Site
          PROVE  /\ \A v : Outdated(chan', q, v) => Outdated(chan, q, v)
                 /\ Orderly(chan, q) => Orderly(chan', q)
                 /\ Subscribing(chan', q) <=> Subscribing(chan, q)
                 /\ Answering(chan', q) <=> Answering(chan, q)
                 /\ Invalidating(chan', q) <=> Invalidating(chan, q)
                 /\ q # p => (Committing(chan', q) <=> Committing(chan, q))
      BY <1>1, <1>3, <1>4, Taking DEF n, h
    <2>2. Committing(chan, p) /\ \A v : h.ver # v => Outdated(chan, p, v)
      BY <1>1, <1>3, <1>5, Taking1 DEF n, h
    <2>3. h.ver = copy[Home]
      BY <1>6, <2>2 DEF Coherent, Fresh
    <2>4. /\ copy'[p] = copy[Home] /\ copy'[Home] = copy[Home] /\ valid'[p] = TRUE
          /\ \A q \in Site : q # p => copy'[q] = copy[q] /\ valid'[q] = valid[q]
      BY <1>1, <2>3, HomeAssumption DEF TypeOK
    <2>5. \A q \in Site : Fresh(q)'
      BY <1>6, <2>1, <2>4 DEF Coherent, Fresh
    <2>6. ASSUME ~mfail
          PROVE  Listed'
      <3>1. Listed
        BY <1>6, <2>6 DEF Coherent
      <3>2. ASSUME NEW q \in Site, q # p
            PROVE  Subscribed(q)'
        <4>1. SamePhase(chan, chan', q)
          BY <2>1, <3>2 DEF SamePhase
        <4> QED
          BY <1>1, <2>4, <3>1, <3>2, <4>1, SubscribedKept DEF Listed
      <3>3. Subscribed(p)'
        <4>1. Subscribed(p)
          BY <3>1 DEF Listed
        <4> QED
          BY <1>1, <2>1, <2>2, <4>1 DEF Subscribed
      <3>4. CountRight'
        BY <1>1, <2>1, <3>1, CountKept DEF Listed
      <3> QED
        BY <1>1, <3>1, <3>2, <3>3, <3>4 DEF Listed, Injective
    <2> QED
      BY <1>1, <2>4, <2>5, <2>6 DEF Coherent
  <1>7. Faultless => Coherent
    BY DEF CInv, Coherent
  <1> QED
    BY <1>1, <1>2, <1>6, <1>7, Concludes

LEMMA SubscribeCoherent ==
    ASSUME IInv, WInv, CInv, NEW s \in Site, Subscribe(s)
    PROVE  CInv'
  <1> DEFINE n == Taken(chan, s, Home)
             h == Head(chan[<<s, Home>>])
             m == ToProxy("COMMIT", copy[Home])
             out == IF requests = <<>> THEN To(s, m) ELSE Silent
  <1>1. /\ TypeOK /\ CanRecv(s, Home) /\ Consume(s, Home, out)
        /\ chan' = Sent(n, Home, out) /\ alive' = alive /\ budget' = budget
        /\ h.type = "READ" /\ ~mfail
        /\ readers' = <<s>> \o readers
        /\ nvalid' = IF requests = <<>> THEN nvalid + 1 ELSE nvalid
        /\ UNCHANGED <<present, reader, valid, copy, requests, mfail>>
    BY DEF Subscribe, ManagerGets, Head1, Consume, Taken, proxyVars, statusVars, IInv
  <1>2. copy[Home] \in Nat /\ Home \in Site /\ readers \in Seq(Site)
    BY <1>1, HomeAssumption DEF TypeOK
  <1>3. Harmless(out)
    BY <1>2, SilentHarmless, ToProxyHarmless DEF ProxyTypes
  <1>4. Keeps({Leaving})
    BY <1>1, <1>2, <1>3, HarmlessKeeps
  <1>5. chan \in Channels(Message) /\ chan[<<s, Home>>] # <<>>
    BY <1>1, <1>2 DEF TypeOK, Channels, CanRecv
  <1>6. n \in Channels(Message)
    BY <1>2, <1>5, TakenType
  <1> HIDE DEF n, h
  <1>7. ASSUME Faultless, Coherent
        PROVE  Coherent'
    <2>1. ASSUME NEW q \in Site
          PROVE  /\ \A v : Outdated(n, q, v) => Outdated(chan, q, v)
                 /\ Orderly(chan, q) => Orderly(n, q)
                 /\ q # s => (Subscribing(n, q) <=> Subscribing(chan, q))
                 /\ Answering(n, q) <=> Answering(chan, q)
                 /\ Invalidating(n, q) <=> Invalidating(chan, q)
                 /\ Committing(n, q) <=> Committing(chan, q)
      BY <1>1, <1>2, <1>5, Taking DEF n, h
    <2>2. /\ Subscribing(chan, s)
          /\ Orderly(chan, s) => ~Subscribing(n, s) /\ ~Answering(n, s)
      BY <1>1, <1>2, <1>5, Taking1 DEF n, h
    <2>3. ASSUME NEW q \in Site
          PROVE  /\ Subscribing(chan', q) <=> Subscribing(n, q)
                 /\ Answering(chan', q) <=> Answering(n, q)
                 /\ Invalidating(chan', q) <=> Invalidating(n, q)
                 /\ Committing(chan', q) <=> \/ Committing(n, q)
                                             \/ q = s /\ requests = <<>>
                 /\ Outdated(chan', q, copy[Home]) => Outdated(n, q, copy[Home])
                 /\ Orderly(n, q) /\ (q = s => ~Invalidating(n, q)) => Orderly(chan', q)
      <3>1. CASE requests = <<>>
        <4>1. chan' = Sent(n, Home, Each({s}, m))
          BY <1>1, <3>1, ToIsEach
        <4>2. \A d \in Site : Reaches(Home, d)
          BY <1>2, <1>7, FaultlessReaches
        <4> HIDE DEF out
        <4> QED
          BY <1>2, <1>6, <3>1, <4>1, <4>2, Mailing, SMTT(40)
      <3>2. CASE requests # <<>>
        <4>1. chan' = n
          BY <1>1, <1>2, <1>6, <3>2, SentSilent
        <4> QED
          BY <3>2, <4>1
      <3> QED
        BY <3>1, <3>2
    <2> HIDE DEF out, m
    <2>4. Listed /\ Subscribed(s)
      BY <1>1, <1>7 DEF Coherent, Listed
    <2>5. /\ ~Among(s, readers) /\ ~Answering(chan, s) /\ ~Invalidating(chan, s)
          /\ ~Committing(chan, s) /\ ~valid[s] /\ present[s] /\ reader[s]
          /\ ~Subscribing(n, s)
      BY <2>1, <2>2, <2>4 DEF Subscribed
    <2>6. \A q \in Site : Fresh(q)'
      BY <1>1, <1>7, <2>1, <2>3 DEF Coherent, Fresh
    <2>7. /\ Len(readers') = Len(readers) + 1
          /\ \A d : Among(d, readers') <=> d = s \/ Among(d, readers)
          /\ Injective(readers')
      BY <1>1, <1>2, <2>4, <2>5, ListFront DEF Listed
    <2>8. ASSUME NEW q \in Site, q # s
          PROVE  Subscribed(q)'
      <3>1. /\ Subscribing(chan', q) <=> Subscribing(chan, q)
            /\ Answering(chan', q) <=> Answering(chan, q)
            /\ Invalidating(chan', q) <=> Invalidating(chan, q)
            /\ Committing(chan', q) <=> Committing(chan, q)
            /\ Orderly(chan, q) => Orderly(chan', q)
        BY <2>1, <2>3, <2>8
      <3>2. Among(q, readers') <=> Among(q, readers)
        BY <2>7, <2>8
      <3>3. Subscribed(q)
        BY <2>4 DEF Listed
      <3> QED
        BY <1>1, <3>1, <3>2, <3>3 DEF Subscribed
    <2>9. Subscribed(s)'
      <3>1. /\ ~Subscribing(chan', s) /\ ~Answering(chan', s) /\ ~Invalidating(chan', s)
            /\ Committing(chan', s) => requests = <<>>
            /\ Orderly(chan', s)
        BY <2>1, <2>3, <2>4, <2>5 DEF Subscribed
      <3>2. Among(s, readers')
        BY <2>7
      <3> QED
        BY <1>1, <2>5, <3>1, <3>2 DEF Subscribed
    <2>10. CountRight'
      <3>1. CASE requests = <<>>
        BY <1>1, <2>4, <2>7, <3>1 DEF Listed, CountRight
      <3>2. CASE requests # <<>>
        <4>1. Counted' = Counted
          BY <2>1, <2>3, <2>5, <2>7 DEF Counted
        <4> QED
          BY <1>1, <2>4, <3>2, <4>1 DEF Listed, CountRight
      <3> QED
        BY <3>1, <3>2
    <2>11. Listed'
      BY <2>7, <2>8, <2>9, <2>10 DEF Listed, Injective
    <2> QED
      BY <2>6, <2>11 DEF Coherent
  <1> QED
    BY <1>1, <1>4, <1>7, Concludes

-----------------------------------------------------------------------------
(* The end of a phase.                                                     *)

LEMMA ReturnPhaseless ==
    ASSUME NEW rq \in Seq(Site)
    PROVE  ReturnOut(rq) \in [Site -> Seq(Message)] /\ Without(ReturnOut(rq), PhaseMail)
  <1> DEFINE m == ToProxy("RETURN", 0)
  <1>1. m \in Message /\ m.type = "RETURN"
    BY DEF ToProxy, Message
  <1>2. m \notin PhaseMail
    BY <1>1 DEF PhaseMail, PhaseTypes
  <1>3. ReturnOut(rq) \in [Site -> Seq(Message)]
    BY ToEachHarmless DEF ReturnOut, ProxyTypes, Harmless
  <1> HIDE DEF m
  <1>4. \A d \in Site : ReturnOut(rq)[d] = Times(Occurrences(d, rq), m)
    BY DEF ReturnOut, ToEach, m
  <1>5. \A d \in Site : \A i \in DOMAIN ReturnOut(rq)[d] : ReturnOut(rq)[d][i] = m
    BY <1>4 DEF Times
  <1> QED
    BY <1>2, <1>3, <1>5 DEF Without

LEMMA OutdatedCommits ==
    ASSUME NEW c, NEW q, NEW v, Outdated(c, q, v)
    PROVE  Committing(c, q)
  BY DEF Outdated, Committing, On, Hears, OldCommits

LEMMA HomeSendsBoth ==
    ASSUME NEW c \in Channels(Message), NEW a \in [Site -> Seq(Message)],
           NEW b \in [Site -> Seq(Message)], NEW p \in Site, p = Home
    PROVE  Sent(c, Home, Both(a, b)) = Sent(Sent(c, Home, a), Home, b)
  <1>1. Sent(c, p, Both(a, b)) = Sent(Sent(c, p, a), p, b)
    BY SentBoth
  <1> QED
    BY <1>1

(* All requests are answered, and all readers are sent the new state.      *)
LEMMA Operating ==
    ASSUME TypeOK, NEW c \in Channels(Message), \A d \in Site : Reaches(Home, d),
           NEW r \in Seq(Site), Injective(r), NEW rq \in Seq(Site),
           NEW n, n = Sent(c, Home, CheckOperationsOut(r, 0, rq)), NEW q \in Site
    PROVE  /\ Subscribing(n, q) <=> Subscribing(c, q)
           /\ Answering(n, q) <=> Answering(c, q)
           /\ Invalidating(n, q) <=> Invalidating(c, q)
           /\ Committing(n, q) <=> Committing(c, q) \/ Among(q, r)
           /\ Outdated(n, q, copy[Home] + Len(rq)) => Committing(c, q)
           /\ Orderly(c, q) /\ ~Invalidating(c, q) => Orderly(n, q)
  <1> DEFINE v == copy[Home] + Len(rq)
             o1 == ReturnOut(rq)
             o2 == Each(InList(r), ToProxy("COMMIT", v))
             k == Sent(c, Home, o1)
  <1>1. v \in Nat
    BY HomeAssumption, LenProperties, SMTT(40) DEF TypeOK
  <1> HIDE DEF v
  <1>2. o1 \in [Site -> Seq(Message)] /\ Without(o1, PhaseMail)
    BY ReturnPhaseless
  <1>3. o2 \in [Site -> Seq(Message)]
    <2>1. ToProxy("COMMIT", v) \in Message
      BY <1>1, ToProxyMessage DEF ProxyTypes
    <2> QED
      BY <2>1, EachType
  <1>4. CheckOperationsOut(r, 0, rq) = Both(o1, o2)
    BY ToEachInjective DEF CheckOperationsOut, MayOperate, CommitOut, v
  <1> HIDE DEF o1, o2
  <1>5. n = Sent(k, Home, o2)
    <2>1. \A p \in Site : p = Home =>
             Sent(c, Home, Both(o1, o2)) = Sent(Sent(c, Home, o1), Home, o2)
      BY <1>2, <1>3, HomeSendsBoth
    <2>2. Sent(c, Home, Both(o1, o2)) = Sent(Sent(c, Home, o1), Home, o2)
      BY <2>1, HomeAssumption
    <2>3. n = Sent(c, Home, Both(o1, o2))
      BY <1>4
    <2> QED
      BY <2>2, <2>3
  <1>6. k \in Channels(Message)
    <2>1. c \in [Site \X Site -> Seq(Message)]
      BY DEF Channels
    <2>2. k \in [Site \X Site -> Seq(Message)]
      BY <1>2, <2>1, SentType, HomeAssumption
    <2> QED
      BY <2>2 DEF Channels
  <1>7. SamePhase(c, k, q)
    BY <1>2, SentSame, HomeAssumption
  <1> HIDE DEF k
  <1>8. q \in InList(r) <=> Among(q, r)
    BY DEF InList
  <1>9. /\ Subscribing(n, q) <=> Subscribing(k, q)
        /\ Answering(n, q) <=> Answering(k, q)
        /\ Invalidating(n, q) <=> Invalidating(k, q)
        /\ Committing(n, q) <=> Committing(k, q) \/ q \in InList(r)
        /\ Outdated(n, q, v) => Outdated(k, q, v)
        /\ Orderly(k, q) /\ ~Invalidating(k, q) => Orderly(n, q)
    BY <1>1, <1>5, <1>6, Mailing DEF o2
  <1>10. Outdated(n, q, v) => Committing(c, q)
    BY <1>7, <1>9, OutdatedCommits DEF SamePhase
  <1> QED
    BY <1>7, <1>8, <1>9, <1>10 DEF SamePhase, v

LEMMA PhaseEnds ==
    ASSUME TypeOK, NEW c \in Channels(Message), \A d \in Site : Reaches(Home, d),
           NEW r \in Seq(Site), Injective(r), NEW rq \in Seq(Site),
           \A q \in Site :
              /\ Orderly(c, q) /\ ~Invalidating(c, q) /\ ~Answering(c, q)
              /\ ~Committing(c, q) /\ ~valid[q]
              /\ Subscribing(c, q) => present[q] /\ reader[q] /\ ~Among(q, r)
              /\ Among(q, r) => present[q] /\ reader[q],
           CheckOperations(r, 0, rq),
           chan' = Sent(c, Home, CheckOperationsOut(r, 0, rq)),
           UNCHANGED <<present, reader, valid>>
    PROVE  Coherent' /\ copy'[Home] = copy[Home] + Len(rq)
  <1>1. Len(r) \in Nat /\ Len(rq) \in Nat /\ copy[Home] \in Nat
    BY HomeAssumption, LenProperties DEF TypeOK
  <1>2. /\ readers' = r /\ requests' = <<>> /\ nvalid' = Len(r)
        /\ copy' = [copy EXCEPT ![Home] = @ + Len(rq)]
    BY <1>1 DEF CheckOperations, MayOperate
  <1>3. copy'[Home] = copy[Home] + Len(rq)
    BY <1>2, HomeAssumption DEF TypeOK
  <1>4. ASSUME NEW q \in Site
        PROVE  /\ Subscribing(chan', q) <=> Subscribing(c, q)
               /\ Answering(chan', q) <=> Answering(c, q)
               /\ Invalidating(chan', q) <=> Invalidating(c, q)
               /\ Committing(chan', q) <=> Committing(c, q) \/ Among(q, r)
               /\ Outdated(chan', q, copy[Home] + Len(rq)) => Committing(c, q)
               /\ Orderly(c, q) /\ ~Invalidating(c, q) => Orderly(chan', q)
    BY Operating
  <1>5. \A q \in Site : Fresh(q)'
    BY <1>3, <1>4 DEF Fresh
  <1>6. \A q \in Site : Subscribed(q)'
    BY <1>2, <1>4 DEF Subscribed
  <1>7. CountRight'
    BY <1>2 DEF CountRight
  <1>8. Injective(readers)'
    BY <1>2 DEF Injective
  <1> QED
    BY <1>3, <1>5, <1>6, <1>7, <1>8 DEF Coherent, Listed

(* The first request starts a phase: every reader is invalidated, after    *)
(* what it has been sent, and counted.                                     *)
LEMMA RequestWriteCoherent ==
    ASSUME IInv, WInv, CInv, NEW s \in Site, RequestWrite(s)
    PROVE  CInv'
  <1>1. /\ TypeOK /\ CanRecv(s, Home) /\ Head1(s, Home).type = "WRITE" /\ ~mfail
        /\ UNCHANGED <<present, reader, valid, mfail, budget>>
        /\ Home \in Site /\ readers \in Seq(Site)
    BY HomeAssumption DEF RequestWrite, ManagerGets, statusVars, IInv, TypeOK
  <1>2. Head1(s, Home).type \notin PhaseTypes
    BY <1>1 DEF PhaseTypes
  <1>3. CASE requests # <<>>
    <2>1. /\ Consume(s, Home, Silent) /\ UNCHANGED <<readers, nvalid, copy>>
          /\ requests' # <<>>
      BY <1>1, <1>3 DEF RequestWrite, TypeOK
    <2> QED
      BY <1>1, <1>2, <1>3, <2>1, SilentPhaseless, QuietConsume
  <1>4. CASE requests = <<>>
    <2> DEFINE n == Taken(chan, s, Home)
               m == ToProxy("INVALIDATE", 0)
               o1 == InvalidateOut(readers)
               o2 == CheckOperationsOut(readers, nvalid, <<s>>)
               k == Sent(n, Home, o1)
    <2>1. /\ Consume(s, Home, Both(o1, o2)) /\ CheckOperations(readers, nvalid, <<s>>)
          /\ chan' = Sent(n, Home, Both(o1, o2)) /\ alive' = alive
      BY <1>4 DEF RequestWrite, Consume, Taken
    <2>2. <<s>> \in Seq(Site) /\ Len(<<s>>) = 1
      OBVIOUS
    <2>3. Harmless(o1) /\ Harmless(o2)
      BY <1>1, <2>2, ToEachHarmless, CheckOperationsHarmless DEF InvalidateOut, ProxyTypes
    <2>4. Keeps({Leaving})
      BY <1>1, <2>1, <2>3, BothHarmless, HarmlessKeeps
    <2>5. chan \in Channels(Message) /\ chan[<<s, Home>>] # <<>>
      BY <1>1 DEF TypeOK, Channels, CanRecv
    <2>6. n \in Channels(Message)
      BY <1>1, <2>5, TakenType
    <2>7. \A q \in Site : SamePhase(chan, n, q)
      BY <1>1, <1>2, <2>5, TakenSame DEF Head1
    <2> HIDE DEF n, o1, o2
    <2>8. chan' = Sent(k, Home, o2)
      <3>1. o1 \in [Site -> Seq(Message)] /\ o2 \in [Site -> Seq(Message)]
        BY <2>3 DEF Harmless
      <3>2. \A p \in Site : p = Home =>
               Sent(n, Home, Both(o1, o2)) = Sent(Sent(n, Home, o1), Home, o2)
        BY <2>6, <3>1, HomeSendsBoth
      <3>3. Sent(n, Home, Both(o1, o2)) = Sent(Sent(n, Home, o1), Home, o2)
        BY <1>1, <3>2
      <3> QED
        BY <2>1, <3>3
    <2>9. ASSUME Faultless, Coherent
          PROVE  Coherent'
      <3>1. Listed /\ Injective(readers) /\ \A d \in Site : Reaches(Home, d)
        BY <1>1, <2>9, FaultlessReaches DEF Coherent, Listed
      <3>2. k = Sent(n, Home, Each(InList(readers), m))
        BY <1>1, <3>1, ToEachInjective DEF o1, InvalidateOut
      <3> HIDE DEF k, m
      <3>3. ASSUME NEW q \in Site
            PROVE  /\ k \in Channels(Message)
                   /\ Subscribing(k, q) <=> Subscribing(n, q)
                   /\ Answering(k, q) <=> Answering(n, q)
                   /\ Invalidating(k, q) <=> Invalidating(n, q) \/ q \in InList(readers)
                   /\ Committing(k, q) <=> Committing(n, q)
                   /\ \A w : Outdated(k, q, w) => Outdated(n, q, w)
                   /\ Orderly(n, q) /\ ~Invalidating(n, q) => Orderly(k, q)
        BY <2>6, <3>1, <3>2, Mailing DEF m
      <3>4. ASSUME NEW q \in Site
            PROVE  /\ ~Invalidating(chan, q) /\ ~Answering(chan, q)
                   /\ Orderly(chan, q) /\ Subscribed(q)
        BY <1>4, <3>1 DEF Listed, Subscribed
      <3>5. ASSUME NEW q \in Site
            PROVE  /\ Subscribing(k, q) <=> Subscribing(chan, q)
                   /\ ~Answering(k, q)
                   /\ Invalidating(k, q) <=> Among(q, readers)
                   /\ Committing(k, q) <=> Committing(chan, q)
                   /\ \A w : Outdated(k, q, w) => Outdated(chan, q, w)
                   /\ Orderly(k, q)
        BY <2>7, <3>3, <3>4 DEF SamePhase, InList
      <3>6. CASE nvalid = 0
        <4>1. readers = <<>>
          BY <1>1, <3>6 DEF IInv, CountPositive
        <4>2. \A q : ~Among(q, readers)
          BY <4>1 DEF Among
        <4>3. \A q \in Site :
                 /\ Orderly(k, q) /\ ~Invalidating(k, q) /\ ~Answering(k, q)
                 /\ ~Committing(k, q) /\ ~valid[q]
                 /\ Subscribing(k, q) => present[q] /\ reader[q]
          BY <3>4, <3>5, <4>2 DEF Subscribed
        <4>4. /\ CheckOperations(readers, 0, <<s>>) /\ k \in Channels(Message)
              /\ chan' = Sent(k, Home, CheckOperationsOut(readers, 0, <<s>>))
          BY <1>1, <2>1, <2>8, <3>3, <3>6 DEF o2
        <4> QED
          BY <1>1, <2>2, <3>1, <4>2, <4>3, <4>4, PhaseEnds
      <3>7. CASE nvalid # 0
        <4>1. o2 = Silent /\ requests' = <<s>> /\ UNCHANGED <<readers, nvalid, copy>>
          BY <2>1, <3>7 DEF o2, CheckOperationsOut, CheckOperations, MayOperate
        <4>2. chan' = k
          BY <1>1, <2>8, <3>3, <4>1, SentSilent
        <4>3. \A q \in Site : Fresh(q)'
          BY <1>1, <2>9, <3>5, <4>1, <4>2 DEF Coherent, Fresh
        <4>4. \A q \in Site : Subscribed(q)'
          BY <1>1, <3>4, <3>5, <4>1, <4>2 DEF Subscribed
        <4>5. Counted' = InList(readers)
          BY <3>5, <4>1, <4>2 DEF Counted, InList
        <4>6. nvalid = Cardinality(InList(readers))
          BY <1>1, <1>4, <3>1, ListSize DEF Listed, CountRight
        <4>7. CountRight'
          BY <4>1, <4>5, <4>6 DEF CountRight
        <4>8. Injective(readers)'
          BY <3>1, <4>1 DEF Injective
        <4> QED
          BY <4>3, <4>4, <4>7, <4>8 DEF Coherent, Listed
      <3> QED
        BY <3>6, <3>7
    <2> QED
      BY <1>1, <2>1, <2>4, <2>9, Concludes
  <1> QED
    BY <1>3, <1>4

(* An answer: one of the counted readers less.  After the last one nobody  *)
(* has the state or is being sent it.                                      *)
LEMMA InvalidatedCoherent ==
    ASSUME IInv, WInv, CInv, NEW s \in Site, Invalidated(s)
    PROVE  CInv'
  <1> DEFINE n == Taken(chan, s, Home)
             h == Head(chan[<<s, Home>>])
             out == InvalidOut(s, Lazy)
             r == WithoutReader(s, Lazy)
  <1>1. /\ TypeOK /\ CanRecv(s, Home) /\ h.type = "INVALID" /\ ~mfail
        /\ Consume(s, Home, out) /\ chan' = Sent(n, Home, out) /\ alive' = alive
        /\ CountInvalid(s, Lazy)
        /\ UNCHANGED <<present, reader, valid, mfail, budget>>
        /\ Home \in Site /\ readers \in Seq(Site) /\ nvalid \in Nat
        /\ requests \in Seq(Site)
    BY HomeAssumption
    DEF Invalidated, ManagerGets, Head1, Consume, Taken, statusVars, IInv, TypeOK
  <1>2. Harmless(out)
    BY <1>1, CountInvalidStep, LazyAssumption
  <1>3. Keeps({Leaving})
    BY <1>1, <1>2, HarmlessKeeps
  <1>4. chan \in Channels(Message) /\ chan[<<s, Home>>] # <<>>
    BY <1>1 DEF TypeOK, Channels, CanRecv
  <1>5. n \in Channels(Message)
    BY <1>1, <1>4, TakenType
  <1> HIDE DEF n, h, out, r
  <1>6. ASSUME Faultless, Coherent
        PROVE  Coherent'
    <2>1. /\ Listed /\ Injective(readers) /\ Subscribed(s)
          /\ \A d \in Site : Reaches(Home, d)
      BY <1>1, <1>6, FaultlessReaches DEF Coherent, Listed
    <2>2. ASSUME NEW q \in Site
          PROVE  /\ \A v : Outdated(n, q, v) => Outdated(chan, q, v)
                 /\ Orderly(chan, q) => Orderly(n, q)
                 /\ Subscribing(n, q) <=> Subscribing(chan, q)
                 /\ q # s => (Answering(n, q) <=> Answering(chan, q))
                 /\ Invalidating(n, q) <=> Invalidating(chan, q)
                 /\ Committing(n, q) <=> Committing(chan, q)
      BY <1>1, <1>4, Taking DEF n, h
    <2>3. Answering(chan, s) /\ (Orderly(chan, s) => ~Answering(n, s))
      BY <1>1, <1>4, Taking1 DEF n, h
    <2>4. /\ ~Answering(n, s) /\ requests # <<>> /\ Among(s, readers)
          /\ ~Invalidating(chan, s) /\ ~Committing(chan, s) /\ ~valid[s]
      BY <2>1, <2>3 DEF Subscribed
    <2>5. /\ r \in Seq(Site) /\ Injective(r)
          /\ \A d : Among(d, r) <=> Among(d, readers) /\ (Lazy => d # s)
      <3>1. CASE Lazy
        <4>1. r = WithoutReader(s, TRUE)
          BY <3>1 DEF r, WithoutReader
        <4> QED
          BY <1>1, <2>1, <2>4, <3>1, <4>1, ListRemoval
      <3>2. CASE ~Lazy
        <4>1. r = readers
          BY <3>2 DEF r, WithoutReader
        <4> QED
          BY <1>1, <2>1, <3>2, <4>1
      <3> QED
        BY <3>1, <3>2
    <2>6. IsFiniteSet(Counted) /\ s \in Counted
      <3>1. IsFiniteSet(InList(readers))
        BY <1>1, <2>1, ListSize
      <3>2. Counted \subseteq InList(readers)
        BY DEF Counted, InList
      <3> QED
        BY <2>3, <2>4, <3>1, <3>2, FS_Subset DEF Counted
    <2>7. /\ IsFiniteSet(Counted \ {s})
          /\ Cardinality(Counted \ {s}) = Cardinality(Counted) - 1
      BY <2>6, FS_RemoveElement
    <2>8. Decremented = Cardinality(Counted \ {s})
      <3>1. nvalid # 0
        BY <1>1, <2>4 DEF IInv, CountPositive
      <3>2. nvalid = Cardinality(Counted)
        BY <2>1, <2>4 DEF Listed, CountRight
      <3> QED
        BY <1>1, <2>7, <3>1, <3>2 DEF Decremented
    <2>9. /\ CheckOperations(r, Decremented, requests)
          /\ chan' = Sent(n, Home, CheckOperationsOut(r, Decremented, requests))
      BY <1>1, <2>4 DEF CountInvalid, InvalidOut, IsCounted, out, r
    <2>10. ASSUME NEW q \in Site
           PROVE  /\ Orderly(n, q)
                  /\ Subscribing(n, q) => present[q] /\ reader[q]
                  /\ Among(q, r) => present[q] /\ (reader[q] \/ (Lazy /\ Answering(n, q)))
                  /\ Subscribing(n, q) /\ Among(q, r) => Lazy /\ Answering(n, q)
                  /\ Invalidating(n, q) \/ Answering(n, q) => q # s /\ Among(q, r)
                  /\ Committing(n, q) \/ valid[q] =>
                        q # s /\ Among(q, r) /\ Invalidating(n, q) /\ ~Answering(n, q)
                  /\ ~(Invalidating(n, q) /\ Answering(n, q))
      <3>1. Subscribed(q)
        BY <2>1 DEF Listed
      <3>2. CASE q = s
        BY <2>2, <2>3, <2>4, <2>5, <3>1, <3>2 DEF Subscribed
      <3>3. CASE q # s
        BY <2>2, <2>4, <2>5, <3>1, <3>3 DEF Subscribed
      <3> QED
        BY <3>2, <3>3
    <2>11. \A q \in Site :
              q \in Counted \ {s} <=> Among(q, r) /\ (Invalidating(n, q) \/ Answering(n, q))
      BY <2>2, <2>4, <2>5 DEF Counted
    <2>12. CASE Decremented = 0
      <3>1. Counted \ {s} = {}
        BY <2>7, <2>8, <2>12, FS_EmptySet
      <3>2. \A q \in Site :
               /\ Orderly(n, q) /\ ~Invalidating(n, q) /\ ~Answering(n, q)
               /\ ~Committing(n, q) /\ ~valid[q]
               /\ Subscribing(n, q) => present[q] /\ reader[q] /\ ~Among(q, r)
               /\ Among(q, r) => present[q] /\ reader[q]
        BY <2>10, <2>11, <3>1
      <3> QED
        BY <1>1, <1>5, <2>1, <2>5, <2>9, <2>12, <3>2, PhaseEnds
    <2>13. CASE Decremented # 0
      <3>1. /\ CheckOperationsOut(r, Decremented, requests) = Silent
            /\ readers' = r /\ requests' = requests /\ nvalid' = Decremented /\ copy' = copy
        BY <2>9, <2>13 DEF CheckOperationsOut, CheckOperations, MayOperate
      <3>2. chan' = n
        BY <1>1, <1>5, <2>9, <3>1, SentSilent
      <3>3. \A q \in Site : Fresh(q)'
        BY <1>1, <1>6, <2>2, <3>1, <3>2 DEF Coherent, Fresh
      <3>4. \A q \in Site : Subscribed(q)'
        BY <1>1, <2>4, <2>10, <3>1, <3>2 DEF Subscribed
      <3>5. Counted' = Counted \ {s}
        <4>1. Counted \subseteq Site
          BY DEF Counted
        <4> QED
          BY <2>11, <3>1, <3>2, <4>1 DEF Counted
      <3>6. CountRight'
        BY <2>4, <2>8, <3>1, <3>5 DEF CountRight
      <3>7. Injective(readers)'
        BY <2>5, <3>1 DEF Injective
      <3> QED
        BY <3>3, <3>4, <3>6, <3>7 DEF Coherent, Listed
    <2> QED
      BY <2>12, <2>13
  <1> QED
    BY <1>1, <1>3, <1>6, Concludes

LEMMA FailCoherent ==
    ASSUME IInv, CInv, NEW s \in Site, Fail(s)
    PROVE  CInv'
  <1> DEFINE m == ToProxy("PERMFAIL", 0)
             out == Each(proxies, m)
             n == Taken(chan, s, Home)
  <1>1. /\ TypeOK /\ CanRecv(s, Home) /\ Consume(s, Home, out)
        /\ chan' = Sent(n, Home, out) /\ alive' = alive /\ budget' = budget
        /\ mfail' = TRUE /\ UNCHANGED <<valid, copy>> /\ Home \in Site
    BY HomeAssumption
    DEF Fail, ManagerGets, Each, Consume, Taken, proxyVars, statusVars, IInv
  <1>2. m \in Message /\ m # Leaving /\ m \notin PhaseMail
    <2>1. m \in Message /\ m # Leaving /\ m.type = "PERMFAIL"
      BY ToProxyMessage DEF ProxyTypes, ToProxy
    <2> QED
      BY <2>1, MailFacts DEF PhaseTypes
  <1> HIDE DEF m
  <1>3. out \in [Site -> Seq(Message)]
    BY <1>2, EachType
  <1>4. Without(out, {Leaving}) /\ Without(out, PhaseMail)
    BY <1>2 DEF Without, Each
  <1> HIDE DEF out
  <1>5. Keeps({Leaving})
    BY <1>1, <1>3, <1>4, HarmlessKeeps DEF Harmless
  <1>6. chan \in Channels(Message) /\ chan[<<s, Home>>] # <<>>
    BY <1>1 DEF TypeOK, Channels, CanRecv
  <1>7. n \in Channels(Message)
    BY <1>1, <1>6, TakenType
  <1>8. ASSUME NEW q \in Site
        PROVE  \A v : Outdated(n, q, v) => Outdated(chan, q, v)
    BY <1>1, <1>6, Taking
  <1> HIDE DEF n
  <1>9. \A q \in Site : SamePhase(n, chan', q)
    BY <1>1, <1>3, <1>4, <1>7, SentSame
  <1>10. ASSUME Coherent
         PROVE  Coherent'
    <2>1. \A q \in Site : Fresh(q)'
      BY <1>1, <1>8, <1>9, <1>10 DEF Coherent, Fresh, SamePhase
    <2> QED
      BY <1>1, <2>1 DEF Coherent
  <1> QED
    BY <1>1, <1>5, <1>10, Concludes

-----------------------------------------------------------------------------
(* Coherence holds.                                                        *)

LEMMA InitCInv == Init => CInv
  <1> SUFFICES ASSUME Init
               PROVE  CInv
    OBVIOUS
  <1>1. /\ chan = [l \in Site \X Site |-> <<>>] /\ Home \in Site
        /\ copy = [p \in Site |-> 0] /\ valid = [p \in Site |-> p = Home]
        /\ present = [p \in Site |-> p = Home] /\ reader = [p \in Site |-> p = Home]
        /\ readers = <<Home>> /\ nvalid = 1 /\ requests = <<>>
        /\ budget["leave"] = MaxLeaves
    BY HomeAssumption DEF Init, NetInit
  <1>2. \A l \in Site \X Site : chan[l] = <<>>
    BY <1>1
  <1>3. NoneOf(chan, {Leaving})
    BY <1>2 DEF NoneOf
  <1>4. ASSUME NEW q \in Site
        PROVE  /\ ~Subscribing(chan, q) /\ ~Answering(chan, q)
               /\ ~Invalidating(chan, q) /\ ~Committing(chan, q)
               /\ \A v : ~Outdated(chan, q, v)
    <2>1. chan[<<q, Home>>] = <<>> /\ chan[<<Home, q>>] = <<>>
      BY <1>2, HomeLinks
    <2> QED
      BY <2>1 DEF Subscribing, Answering, Invalidating, Committing, Outdated, On, Hears
  <1>5. ASSUME NEW q \in Site
        PROVE  Orderly(chan, q)
    <2>1. chan[<<q, Home>>] = <<>> /\ chan[<<Home, q>>] = <<>>
      BY <1>2, HomeLinks
    <2> QED
      BY <2>1 DEF Orderly, Two, Pair
  <1>6. \A d \in Site : Among(d, readers) <=> d = Home
    BY <1>1 DEF Among
  <1>7. \A q \in Site : Fresh(q) /\ Subscribed(q)
    BY <1>1, <1>4, <1>5, <1>6 DEF Fresh, Subscribed
  <1>8. Injective(readers) /\ CountRight
    BY <1>1 DEF Injective, CountRight
  <1>9. budget["leave"] <= MaxLeaves
    BY <1>1, InvalidBoundsAssumption
  <1> QED
    BY <1>3, <1>7, <1>8, <1>9 DEF CInv, Listed

LEMMA StutterCInv ==
    ASSUME IInv, CInv, UNCHANGED vars
    PROVE  CInv'
  <1>1. /\ chan' = chan /\ alive' = alive /\ budget' = budget
        /\ UNCHANGED <<present, reader, valid, copy, readers, nvalid, mfail, requests>>
    BY DEF vars, netVars, proxyVars, statusVars, managerVars
  <1>2. \A q \in Site : SamePhase(chan, chan', q)
    BY <1>1 DEF SamePhase
  <1>3. Keeps({Leaving})
    BY <1>1 DEF Keeps
  <1> QED
    BY <1>1, <1>2, <1>3, CoherentKept, Concludes DEF IInv

LEMMA NextCInv == IInv /\ WInv /\ CInv /\ [Next]_vars => CInv'
  <1> SUFFICES ASSUME IInv, WInv, CInv, [Next]_vars
               PROVE  CInv'
    OBVIOUS
  <1>1. ASSUME NEW p \in Site, Operation(p)
        PROVE  CInv'
    BY <1>1, ReadCoherent, WriteCoherent, MonitorCoherent, KillCoherent,
       DeleteProxyCoherent, ImportProxyCoherent
    DEF Operation
  <1>2. ASSUME NEW s \in Site, NEW p \in Site, ProxyReceives(s, p)
        PROVE  CInv'
    BY <1>2, ProxyIgnoresCoherent, GetReturnCoherent, GetInvalidateCoherent,
       GetCommitCoherent, GetPermFailCoherent
    DEF ProxyReceives
  <1>3. ASSUME NEW s \in Site, ManagerReceives(s)
        PROVE  CInv'
    BY <1>3, AnswerFailedCoherent, RegisterCoherent, DeregisterCoherent,
       SubscribeCoherent, RequestWriteCoherent, InvalidatedCoherent, FailCoherent
    DEF ManagerReceives
  <1>4. ASSUME NEW s \in Site, SiteCrash(s) \/ DetectHome(s)
        PROVE  CInv'
    BY <1>4, SiteCrashCoherent, DetectHomeCoherent
  <1>5. ASSUME NEW p \in Site, NEW s \in Site, DetectRemote(p, s)
        PROVE  CInv'
    BY <1>5, DetectRemoteCoherent
  <1> QED
    BY <1>1, <1>2, <1>3, <1>4, <1>5, StutterCInv DEF Next

(* The invariant of the subscriptions holds in every reachable state.      *)
THEOREM CoherenceInvariance == Spec => []CInv
  BY InitCInv, NextCInv, InvalidInvariance, WritesInvariance, PTL DEF Spec

(* As long as no site crashes and no proxy leaves, a proxy that has a      *)
(* valid copy has the state of the home site: a read that does not wait    *)
(* never sees a state older than the result of a completed write, for any  *)
(* number of sites, reads and writes, lazy or eager.                       *)
THEOREM ReadsAreCurrent == Spec => []FaultFreeReadsAreCurrent
  <1>1. CInv => FaultFreeReadsAreCurrent
    BY DEF CInv, Faultless, Fresh, FaultFreeReadsAreCurrent
  <1> QED
    BY <1>1, CoherenceInvariance, PTL

(* A message of type t is on its way if and only if InFlight is not zero.  *)
LEMMA InFlightMail ==
    ASSUME TypeOK, NEW s \in Site, NEW d \in Site, NEW t
    PROVE  /\ InFlight(s, d, t) \in Nat
           /\ InFlight(s, d, t) > 0 <=> On(chan, <<s, d>>, Mail(t), {})
  <1> DEFINE q == chan[<<s, d>>]
             X == {i \in DOMAIN q : q[i].type = t}
  <1>1. q \in Seq(Message) /\ <<s, d>> \in Site \X Site
    BY DEF TypeOK
  <1>2. /\ DOMAIN q = 1..Len(q) /\ Len(q) \in Nat
        /\ \A i \in DOMAIN q : q[i] \in Message
    BY <1>1, LenProperties, ElementOfSeq
  <1>3. On(chan, <<s, d>>, Mail(t), {}) <=> \E i \in DOMAIN q : q[i].type = t
    BY <1>2, MailFacts DEF On, Hears
  <1> HIDE DEF q
  <1>4. IsFiniteSet(X)
    <2>1. IsFiniteSet(1..Len(q)) /\ X \subseteq 1..Len(q)
      BY <1>2, FS_Interval
    <2> QED
      BY <2>1, FS_Subset
  <1>5. Cardinality(X) \in Nat /\ (Cardinality(X) = 0 <=> X = {})
    BY <1>4, FS_CardinalityType, FS_EmptySet
  <1>6. InFlight(s, d, t) = Cardinality(X)
    BY DEF InFlight, q
  <1> QED
    BY <1>3, <1>5, <1>6

(* While a phase is under way, a_valid is the number of the readers whose  *)
(* INV_INVALIDATE or answer is on its way: none is counted twice, none is  *)
(* forgotten, for any number of sites, reads and writes.                   *)
THEOREM CountExact == Spec => []CountIsExact
  <1>1. IInv /\ CInv => CountIsExact
    <2> SUFFICES ASSUME IInv, CInv, NoCrash, NoLeave, ~mfail, requests # <<>>
                 PROVE  nvalid = Cardinality({d \in Site :
                           /\ Among(d, readers)
                           /\ InFlight(Home, d, "INVALIDATE")
                                + InFlight(d, Home, "INVALID") > 0})
      BY DEF CountIsExact
    <2>1. nvalid = Cardinality(Counted)
      BY DEF CInv, Faultless, Listed, CountRight
    <2>2. ASSUME NEW d \in Site
          PROVE  InFlight(Home, d, "INVALIDATE") + InFlight(d, Home, "INVALID") > 0
                   <=> Invalidating(chan, d) \/ Answering(chan, d)
      <3>1. /\ InFlight(Home, d, "INVALIDATE") \in Nat
            /\ InFlight(Home, d, "INVALIDATE") > 0 <=> Invalidating(chan, d)
        BY InFlightMail, HomeAssumption DEF Invalidating, IInv
      <3>2. /\ InFlight(d, Home, "INVALID") \in Nat
            /\ InFlight(d, Home, "INVALID") > 0 <=> Answering(chan, d)
        BY InFlightMail, HomeAssumption DEF Answering, IInv
      <3> QED
        BY <3>1, <3>2
    <2>3. Counted = {d \in Site :
                       /\ Among(d, readers)
                       /\ InFlight(Home, d, "INVALIDATE")
                            + InFlight(d, Home, "INVALID") > 0}
      BY <2>2 DEF Counted
    <2> QED
      BY <2>1, <2>3
  <1> QED
    BY <1>1, InvalidInvariance, CoherenceInvariance, PTL

LEMMA CheckOperationsGrows ==
    ASSUME TypeOK, NEW r, NEW v, NEW rq \in Seq(Site), CheckOperations(r, v, rq)
    PROVE  copy'[Home] >= copy[Home]
  <1>1. Len(rq) \in Nat /\ copy \in [Site -> Nat] /\ Home \in Site
    BY HomeAssumption, LenProperties DEF TypeOK
  <1>2. copy' = copy \/ copy' = [copy EXCEPT ![Home] = @ + Len(rq)]
    BY DEF CheckOperations
  <1> QED
    BY <1>1, <1>2

LEMMA CountInvalidGrows ==
    ASSUME TypeOK, NEW s, NEW remove, CountInvalid(s, remove)
    PROVE  copy'[Home] >= copy[Home]
  <1>1. requests \in Seq(Site) /\ copy[Home] \in Nat
    BY HomeAssumption DEF TypeOK
  <1> QED
    BY <1>1, CheckOperationsGrows DEF CountInvalid

(* A step into a faultless state is one from a faultless state.            *)
LEMMA NextFaultless ==
    ASSUME IInv, CInv, [Next]_vars, NoCrash', NoLeave'
    PROVE  Faultless
  <1>1. alive' = alive \/ \E s \in Site : alive' = [alive EXCEPT ![s] = FALSE]
    <2>1. ASSUME NEW p \in Site, Operation(p)
          PROVE  alive' = alive
      BY <2>1
      DEF Operation, Read, Write, Monitor, Kill, DeleteProxy, ImportProxy, Emit
    <2>2. ASSUME NEW s \in Site, NEW p \in Site, ProxyReceives(s, p)
          PROVE  alive' = alive
      BY <2>2
      DEF ProxyReceives, ProxyIgnores, GetReturn, GetInvalidate, GetCommit,
          GetPermFail, Consume
    <2>3. ASSUME NEW s \in Site, ManagerReceives(s)
          PROVE  alive' = alive
      BY <2>3
      DEF ManagerReceives, AnswerFailed, Register, Deregister, Subscribe,
          RequestWrite, Invalidated, Fail, Consume
    <2>4. ASSUME NEW s \in Site, SiteCrash(s) \/ DetectHome(s)
          PROVE  alive' = alive \/ alive' = [alive EXCEPT ![s] = FALSE]
      BY <2>4 DEF SiteCrash, Crash, DetectHome, Detect
    <2>5. ASSUME NEW p \in Site, NEW s \in Site, DetectRemote(p, s)
          PROVE  alive' = alive
      BY <2>5 DEF DetectRemote, Detect
    <2>6. UNCHANGED vars => alive' = alive
      BY DEF vars, netVars
    <2> QED
      BY <2>1, <2>2, <2>3, <2>4, <2>5, <2>6 DEF Next
  <1>2. budget' = budget \/ \E b \in DOMAIN budget : Spend(b)
    <2>1. DOMAIN budget = {"write", "kill", "import", "leave", "crash"}
      BY DEF IInv, TypeOK
    <2>2. ASSUME NEW p \in Site, Operation(p)
          PROVE  budget' = budget \/ \E b \in DOMAIN budget : Spend(b)
      BY <2>1, <2>2
      DEF Operation, Read, Write, Monitor, Kill, DeleteProxy, ImportProxy
    <2>3. ASSUME NEW s \in Site, NEW p \in Site, ProxyReceives(s, p)
          PROVE  budget' = budget
      BY <2>3
      DEF ProxyReceives, ProxyIgnores, GetReturn, GetInvalidate, GetCommit, GetPermFail
    <2>4. ASSUME NEW s \in Site, ManagerReceives(s)
          PROVE  budget' = budget
      BY <2>4
      DEF ManagerReceives, AnswerFailed, Register, Deregister, Subscribe,
          RequestWrite, Invalidated, Fail
    <2>5. ASSUME NEW s \in Site, SiteCrash(s) \/ DetectHome(s)
          PROVE  budget' = budget \/ Spend("crash")
      BY <2>5 DEF SiteCrash, DetectHome
    <2>6. ASSUME NEW p \in Site, NEW s \in Site, DetectRemote(p, s)
          PROVE  budget' = budget
      BY <2>6 DEF DetectRemote
    <2>7. UNCHANGED vars => budget' = budget
      BY DEF vars
    <2> QED
      BY <2>1, <2>2, <2>3, <2>4, <2>5, <2>6, <2>7 DEF Next
  <1>3. NoCrash
    BY <1>1 DEF NoCrash, IInv, TypeOK
  <1>4. NoLeave
    <2>1. ASSUME NEW b \in DOMAIN budget, Spend(b)
          PROVE  budget["leave"] = MaxLeaves
      <3>1. /\ budget["leave"] \in Nat /\ budget["leave"] <= MaxLeaves
            /\ budget'["leave"] = MaxLeaves /\ MaxLeaves \in Nat
        BY <2>1, InvalidBoundsAssumption DEF IInv, TypeOK, CInv, NoLeave
      <3>2. budget'["leave"] = IF b = "leave" THEN budget["leave"] - 1 ELSE budget["leave"]
        BY <2>1 DEF Spend, IInv, TypeOK
      <3> QED
        BY <3>1, <3>2
    <2> QED
      BY <1>2, <2>1 DEF NoLeave
  <1> QED
    BY <1>3, <1>4 DEF Faultless

LEMMA NextKeepsWrites ==
    ASSUME IInv, WInv, CInv, [Next]_vars, Faultless
    PROVE  copy'[Home] >= copy[Home]
  <1>1. TypeOK /\ copy[Home] \in Nat /\ requests \in Seq(Site)
    BY HomeAssumption DEF IInv, TypeOK
  <1>2. ASSUME NEW p \in Site, Operation(p)
        PROVE  copy'[Home] >= copy[Home]
    <2>1. CASE DeleteProxy(p)
      <3>1. p # Home /\ copy' = [copy EXCEPT ![p] = 0]
        BY <2>1 DEF DeleteProxy
      <3> QED
        BY <1>1, <3>1, HomeAssumption DEF TypeOK
    <2>2. CASE ~DeleteProxy(p)
      <3>1. copy' = copy
        BY <1>2, <2>2
        DEF Operation, Read, Write, Monitor, Kill, ImportProxy, proxyVars
      <3> QED
        BY <1>1, <3>1
    <2> QED
      BY <2>1, <2>2
  <1>3. ASSUME NEW s \in Site, NEW p \in Site, ProxyReceives(s, p)
        PROVE  copy'[Home] >= copy[Home]
    <2>1. CASE GetCommit(s, p)
      BY <1>1, <2>1, GetCommitCoherent
    <2>2. CASE ~GetCommit(s, p)
      <3>1. copy' = copy
        BY <1>3, <2>2
        DEF ProxyReceives, ProxyIgnores, GetReturn, GetInvalidate, GetPermFail, proxyVars
      <3> QED
        BY <1>1, <3>1
    <2> QED
      BY <2>1, <2>2
  <1>4. ASSUME NEW s \in Site, ManagerReceives(s)
        PROVE  copy'[Home] >= copy[Home]
    <2>1. CASE AnswerFailed(s) \/ Register(s) \/ Subscribe(s) \/ Fail(s)
      <3>1. copy' = copy
        BY <2>1 DEF AnswerFailed, Register, Subscribe, Fail, proxyVars
      <3> QED
        BY <1>1, <3>1
    <2>2. CASE Deregister(s)
      BY <1>1, <2>2, CountInvalidGrows DEF Deregister
    <2>3. CASE Invalidated(s)
      BY <1>1, <2>3, CountInvalidGrows DEF Invalidated
    <2>4. CASE RequestWrite(s)
      <3> DEFINE rq == <<s>>
      <3>1. rq \in Seq(Site)
        OBVIOUS
      <3>2. CheckOperations(readers, nvalid, rq) \/ copy' = copy
        BY <2>4 DEF RequestWrite
      <3> HIDE DEF rq
      <3> QED
        BY <1>1, <3>1, <3>2, CheckOperationsGrows
    <2> QED
      BY <1>4, <2>1, <2>2, <2>3, <2>4 DEF ManagerReceives
  <1>5. ASSUME NEW s \in Site, SiteCrash(s) \/ DetectHome(s)
        PROVE  copy'[Home] >= copy[Home]
    <2>1. CASE SiteCrash(s)
      BY <1>1, <2>1 DEF SiteCrash, proxyVars
    <2>2. CASE DetectHome(s)
      BY <2>2 DEF DetectHome, CanDetect, Faultless, NoCrash
    <2> QED
      BY <1>5, <2>1, <2>2
  <1>6. ASSUME NEW p \in Site, NEW s \in Site, DetectRemote(p, s)
        PROVE  copy'[Home] >= copy[Home]
    BY <1>1, <1>6 DEF DetectRemote
  <1>7. ASSUME UNCHANGED vars
        PROVE  copy'[Home] >= copy[Home]
    BY <1>1, <1>7 DEF vars, proxyVars
  <1> QED
    BY <1>2, <1>3, <1>4, <1>5, <1>6, <1>7 DEF Next

(* As long as no site crashes and no proxy leaves, the home site's copy,   *)
(* on which the writes are performed, never goes back: every INV_COMMIT    *)
(* that is on its way to it carries the current state.                     *)
THEOREM WritesStand == Spec => NoWriteIsUndone
  <1>1. IInv /\ WInv /\ CInv /\ [Next]_vars
          => [NoCrash' /\ NoLeave' => copy'[Home] >= copy[Home]]_vars
    BY NextFaultless, NextKeepsWrites
  <1> QED
    BY <1>1, InvalidInvariance, WritesInvariance, CoherenceInvariance, PTL
    DEF Spec, NoWriteIsUndone
=============================================================================
