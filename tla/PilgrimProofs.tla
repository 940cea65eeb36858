---------------------------- MODULE PilgrimProofs ----------------------------
(***************************************************************************)
(* Proofs about Pilgrim, for every number of sites and all bounds: the     *)
(* types, the refinement of MobileState, and the consistency of the        *)
(* manager's ring.                                                         *)
(***************************************************************************)
EXTENDS Pilgrim, NetworkProofs

-----------------------------------------------------------------------------
(* Types.                                                                  *)

Place == Site \cup {NoSite}
Color == [value: Nat, dark: BOOLEAN]

ManagerTypes == {"DEREGISTER", "ENTER", "LEAVE", "COLOR_START", "COLOR_DONE",
                 "FAILED", "PERMFAIL"}
ProxyTypes == {"FORWARD", "TOKEN", "COLOR_START", "COLOR", "COLOR_DONE",
               "PERMFAIL"}

Message ==
    [to: {"manager"}, type: ManagerTypes, site: Place, color: Color]
    \cup [to: {"proxy"}, type: ProxyTypes, site: Place, color: Color]

ProxyState ==
    [present: BOOLEAN, hasToken: BOOLEAN, isInRing: BOOLEAN,
     isReachable: BOOLEAN, isColoring: BOOLEAN, isStrict: BOOLEAN,
     successor: Place, freeRounds: Int, color: Color,
     waiting: BOOLEAN, permFail: BOOLEAN]

ManagerState ==
    [ring: Seq(Site), lastLeaving: BOOLEAN, color: Color,
     proxies: SUBSET Site, permFail: BOOLEAN]

(* The type invariant: the messages of manager and proxies have the types  *)
(* their receivers handle, so that no handler meets an unknown one.        *)
TypeOK ==
    /\ NetTypeOK(Message)
    /\ proxy \in [Site -> ProxyState]
    /\ manager \in ManagerState
    /\ budget \in Budget

OfType(T) == {m \in Message : m.type \in T}

Tokens == OfType({"TOKEN"})
Claims == OfType({"ENTER", "DEREGISTER"})
Marked == OfType({"TOKEN", "ENTER", "DEREGISTER", "LEAVE"})

(* What is sent holds neither the token nor a change of membership.        *)
Plain(out) == out \in [Site -> Seq(Message)] /\ Without(out, Marked)

LEMMA ColorTypes ==
    /\ White \in Color
    /\ \A c \in Color : NextColor(c) \in Color
    /\ \A c \in Color, b \in BOOLEAN : Darkened(c, b) \in Color
  BY DEF White, Color, NextColor, Darkened

LEMMA ToManagerMessage ==
    ASSUME NEW t \in ManagerTypes, NEW s \in Place, NEW c \in Color
    PROVE  ToManager(t, s, c) \in Message /\ ToManager(t, s, c).type = t
  BY DEF ToManager, Msg, Message

LEMMA ToProxyMessage ==
    ASSUME NEW t \in ProxyTypes, NEW s \in Place, NEW c \in Color
    PROVE  /\ Msg("proxy", t, s, c) \in Message
           /\ Msg("proxy", t, s, c).type = t
  BY DEF Msg, Message

LEMMA MessageFields ==
    ASSUME NEW m \in Message
    PROVE  /\ m.site \in Place /\ m.color \in Color
           /\ m.to = "proxy" => m.type \notin {"ENTER", "LEAVE", "DEREGISTER"}
  BY DEF Message, ProxyTypes

LEMMA SilentPlain == Plain(Silent)
  BY SilentType, SilentWithout DEF Plain

LEMMA ToPlain ==
    ASSUME NEW d, NEW m \in Message,
           m.type \notin {"TOKEN", "ENTER", "DEREGISTER", "LEAVE"}
    PROVE  Plain(To(d, m))
  <1>1. m \notin Marked
    BY DEF Marked, OfType
  <1> QED
    BY <1>1, ToType, ToWithout DEF Plain

LEMMA BothPlain ==
    ASSUME NEW o1, NEW o2, Plain(o1), Plain(o2)
    PROVE  Plain(Both(o1, o2))
  BY BothType, BothWithout DEF Plain

LEMMA ToAllPlain ==
    ASSUME NEW S, NEW m \in Message,
           m.type \notin {"TOKEN", "ENTER", "DEREGISTER", "LEAVE"}
    PROVE  Plain(ToAll(S, m))
  <1>1. m \notin Marked
    BY DEF Marked, OfType
  <1>2. <<m>> \in Seq(Message) /\ <<>> \in Seq(Message)
    OBVIOUS
  <1> QED
    BY <1>1, <1>2 DEF Plain, ToAll, Without

LEMMA PlainTokens ==
    ASSUME NEW out, Plain(out)
    PROVE  /\ Without(out, Tokens)
           /\ \A i \in DOMAIN out[Home] : out[Home][i] \notin Claims
  BY HomeAssumption DEF Plain, Without, Tokens, Claims, Marked, OfType

(* The messages a proxy sends to the manager, and the manager to a proxy.  *)
LEMMA SendPlain ==
    ASSUME NEW t \in ManagerTypes \ {"ENTER", "DEREGISTER", "LEAVE"},
           NEW s \in Place, NEW c \in Color
    PROVE  Plain(To(Home, ToManager(t, s, c)))
  <1>1. t # "TOKEN"
    BY DEF ManagerTypes
  <1> QED
    BY <1>1, ToManagerMessage, ToPlain

LEMMA NoticePlain ==
    ASSUME NEW d, NEW t \in ProxyTypes \ {"TOKEN"}, NEW s \in Place,
           NEW c \in Color
    PROVE  Plain(To(d, Msg("proxy", t, s, c)))
  <1>1. t \notin {"ENTER", "DEREGISTER", "LEAVE"}
    BY DEF ProxyTypes
  <1> QED
    BY <1>1, ToProxyMessage, ToPlain

-----------------------------------------------------------------------------
(* SimpleRing.                                                             *)

(* find(s) turns the ring, with s as the current element.                  *)
LEMMA RotatedElements ==
    ASSUME manager.ring \in Seq(Site), NEW s, InRing(s)
    PROVE  \E i \in DOMAIN manager.ring :
              LET r == manager.ring
                  n == Len(r) - i + 1
              IN  /\ r[i] = s
                  /\ Rotated(s) \in Seq(Site) /\ Len(Rotated(s)) = Len(r)
                  /\ \A k \in 1..Len(r) :
                        Rotated(s)[k] = IF k <= n THEN r[k + i - 1]
                                        ELSE r[k - n]
  <1> DEFINE r == manager.ring
             i == CHOOSE i \in DOMAIN r : r[i] = s
             a == SubSeq(r, i, Len(r))
             b == SubSeq(r, 1, i - 1)
  <1>1. i \in DOMAIN r /\ r[i] = s
    BY DEF InRing, Range
  <1>2. Rotated(s) = a \o b
    BY DEF Rotated
  <1> HIDE DEF i
  <1>3. Len(r) \in Nat /\ DOMAIN r = 1..Len(r) /\ \A k \in 1..Len(r) : r[k] \in Site
    BY LenProperties
  <1>4. i \in 1..Len(r)
    BY <1>1, <1>3
  <1>5. /\ a \in Seq(Site) /\ Len(a) = Len(r) - i + 1
        /\ \A k \in 1..(Len(r) - i + 1) : a[k] = r[i + k - 1]
    <2>1. \A k \in i..Len(r) : r[k] \in Site
      BY <1>3, <1>4
    <2> QED
      BY <1>3, <1>4, <2>1, SubSeqProperties
  <1>6. /\ b \in Seq(Site) /\ Len(b) = i - 1
        /\ \A k \in 1..(i - 1) : b[k] = r[k]
    <2>1. \A k \in 1..(i - 1) : r[k] \in Site
      BY <1>3, <1>4
    <2>2. /\ b \in Seq(Site)
          /\ Len(b) = IF 1 <= i - 1 THEN (i - 1) - 1 + 1 ELSE 0
          /\ \A k \in 1..((i - 1) - 1 + 1) : b[k] = r[1 + k - 1]
      BY <1>4, <2>1, SubSeqProperties
    <2> HIDE DEF b
    <2> QED
      BY <1>3, <1>4, <2>2
  <1> HIDE DEF a, b
  <1>7. /\ a \o b \in Seq(Site) /\ Len(a \o b) = Len(a) + Len(b)
        /\ \A k \in 1..(Len(a) + Len(b)) :
              (a \o b)[k] = IF k <= Len(a) THEN a[k] ELSE b[k - Len(a)]
    BY <1>5, <1>6, ConcatProperties
  <1>8. Len(a) + Len(b) = Len(r)
    BY <1>3, <1>4, <1>5, <1>6
  <1>9. ASSUME NEW k \in 1..Len(r)
        PROVE  (a \o b)[k] = IF k <= Len(r) - i + 1 THEN r[k + i - 1]
                             ELSE r[k - (Len(r) - i + 1)]
    <2>1. CASE k <= Len(r) - i + 1
      <3>1. (a \o b)[k] = a[k] /\ k \in 1..(Len(r) - i + 1)
        BY <1>3, <1>4, <1>5, <1>7, <1>8, <2>1
      <3>2. i + k - 1 = k + i - 1
        BY <1>3, <1>4
      <3> QED
        BY <1>5, <2>1, <3>1, <3>2
    <2>2. CASE ~(k <= Len(r) - i + 1)
      <3>1. k \in 1..(Len(a) + Len(b)) /\ ~(k <= Len(a))
        BY <1>5, <1>8, <2>2
      <3>2. (a \o b)[k] = b[k - (Len(r) - i + 1)]
        BY <1>5, <1>7, <3>1
      <3>3. k - (Len(r) - i + 1) \in 1..(i - 1)
        BY <1>3, <1>4, <2>2
      <3>4. b[k - (Len(r) - i + 1)] = r[k - (Len(r) - i + 1)]
        BY <1>6, <3>3
      <3> QED
        BY <2>2, <3>2, <3>4
    <2> QED
      BY <2>1, <2>2
  <1> QED
    BY <1>1, <1>2, <1>7, <1>8, <1>9

(* The turned ring holds the same proxies, and without its current one, s, *)
(* the others, each of them once.                                          *)
LEMMA RotatedRing ==
    ASSUME manager.ring \in Seq(Site), NEW s, InRing(s)
    PROVE  /\ Rotated(s) \in Seq(Site) /\ Len(Rotated(s)) = Len(manager.ring)
           /\ Rotated(s) # <<>>
           /\ Range(Rotated(s)) \subseteq Range(manager.ring)
           /\ IsInjective(manager.ring) => IsInjective(Rotated(s))
           /\ Tail(Rotated(s)) \in Seq(Site)
           /\ Len(Tail(Rotated(s))) = Len(manager.ring) - 1
           /\ Range(Tail(Rotated(s))) \subseteq Range(manager.ring)
           /\ IsInjective(manager.ring) =>
                 IsInjective(Tail(Rotated(s))) /\ s \notin Range(Tail(Rotated(s)))
  <1> DEFINE r == manager.ring
             t == Rotated(s)
             u == Tail(t)
  <1>1. PICK i \in DOMAIN r :
            /\ r[i] = s /\ t \in Seq(Site) /\ Len(t) = Len(r)
            /\ \A k \in 1..Len(r) :
                  t[k] = IF k <= Len(r) - i + 1 THEN r[k + i - 1]
                         ELSE r[k - (Len(r) - i + 1)]
    BY RotatedElements
  <1> HIDE DEF t
  <1>2. Len(r) \in Nat /\ DOMAIN r = 1..Len(r) /\ DOMAIN t = 1..Len(r)
    BY <1>1, LenProperties
  <1>3. i \in 1..Len(r)
    BY <1>1, <1>2
  <1>4. t # <<>>
    BY <1>1, <1>2, <1>3
  <1>5. \A k \in 1..Len(r) : t[k] \in Range(r)
    <2> SUFFICES ASSUME NEW k \in 1..Len(r)
                 PROVE  \E j \in 1..Len(r) : t[k] = r[j]
      BY <1>2 DEF Range
    <2>1. t[k] = IF k <= Len(r) - i + 1 THEN r[k + i - 1]
                 ELSE r[k - (Len(r) - i + 1)]
      BY <1>1
    <2>2. CASE k <= Len(r) - i + 1
      <3>1. k + i - 1 \in 1..Len(r)
        BY <1>2, <1>3, <2>2
      <3> QED
        BY <2>1, <2>2, <3>1
    <2>3. CASE ~(k <= Len(r) - i + 1)
      <3>1. k - (Len(r) - i + 1) \in 1..Len(r)
        BY <1>2, <1>3, <2>3
      <3> QED
        BY <2>1, <2>3, <3>1
    <2> QED
      BY <2>2, <2>3
  <1>6. ASSUME IsInjective(r)
        PROVE  \A j, k \in 1..Len(r) : t[j] = t[k] => j = k
    <2>1. \A j, k \in 1..Len(r) : r[j] = r[k] => j = k
      BY <1>2, <1>6 DEF IsInjective
    <2> SUFFICES ASSUME NEW j \in 1..Len(r), NEW k \in 1..Len(r), t[j] = t[k]
                 PROVE  j = k
      OBVIOUS
    <2> DEFINE n == Len(r) - i + 1
               f(z) == IF z <= n THEN z + i - 1 ELSE z - n
    <2>2. ASSUME NEW z \in 1..Len(r)
          PROVE  f(z) \in 1..Len(r) /\ t[z] = r[f(z)]
      <3>1. f(z) \in 1..Len(r)
        BY <1>2, <1>3
      <3>2. t[z] = IF z <= Len(r) - i + 1 THEN r[z + i - 1]
                   ELSE r[z - (Len(r) - i + 1)]
        BY <1>1
      <3> QED
        BY <3>1, <3>2
    <2>3. f(j) = f(k)
      BY <2>1, <2>2
    <2> QED
      BY <1>2, <1>3, <2>3
  <1>7. /\ u \in Seq(Site) /\ Len(u) = Len(r) - 1 /\ DOMAIN u = 1..(Len(r) - 1)
        /\ \A k \in 1..(Len(r) - 1) : u[k] = t[k + 1]
    BY <1>1, <1>4, HeadTailProperties, LenProperties
  <1> HIDE DEF u
  <1>8. Range(u) \subseteq Range(r)
    <2>1. \A k \in 1..(Len(r) - 1) : k + 1 \in 1..Len(r)
      BY <1>2
    <2> QED
      BY <1>5, <1>7, <2>1, SMTT(40) DEF Range
  <1>9. ASSUME IsInjective(r)
        PROVE  IsInjective(u) /\ s \notin Range(u)
    <2>1. \A k \in 1..(Len(r) - 1) : k + 1 \in 1..Len(r) /\ k + 1 # 1
      BY <1>2
    <2>2. t[1] = s /\ 1 \in 1..Len(r)
      BY <1>1, <1>2, <1>3
    <2>3. IsInjective(u)
      <3> SUFFICES ASSUME NEW j \in 1..(Len(r) - 1), NEW k \in 1..(Len(r) - 1),
                          u[j] = u[k]
                   PROVE  j = k
        BY <1>7 DEF IsInjective
      <3>1. j + 1 = k + 1
        BY <1>6, <1>7, <1>9, <2>1
      <3> QED
        BY <1>2, <3>1
    <2>4. s \notin Range(u)
      BY <1>6, <1>7, <1>9, <2>1, <2>2 DEF Range
    <2> QED
      BY <2>3, <2>4
  <1>10. Range(t) \subseteq Range(r) /\ (IsInjective(r) => IsInjective(t))
    BY <1>2, <1>5, <1>6 DEF Range, IsInjective
  <1> QED
    BY <1>1, <1>4, <1>7, <1>8, <1>9, <1>10 DEF t, u

(* push(s)                                                                 *)
LEMMA PushedRing ==
    ASSUME NEW r \in Seq(Site), NEW s \in Site
    PROVE  /\ <<s>> \o r \in Seq(Site) /\ <<s>> \o r # <<>>
           /\ Range(<<s>> \o r) \subseteq Range(r) \cup {s}
           /\ IsInjective(r) /\ s \notin Range(r) => IsInjective(<<s>> \o r)
  <1> DEFINE t == <<s>> \o r
  <1>1. <<s>> \in Seq(Site) /\ Len(<<s>>) = 1 /\ <<s>>[1] = s
    OBVIOUS
  <1>2. Len(r) \in Nat /\ DOMAIN r = 1..Len(r)
    BY LenProperties
  <1>3. /\ t \in Seq(Site) /\ Len(t) = 1 + Len(r)
        /\ \A k \in 1..(1 + Len(r)) :
              t[k] = IF k <= 1 THEN <<s>>[k] ELSE r[k - 1]
    BY <1>1, ConcatProperties
  <1> HIDE DEF t
  <1>4. DOMAIN t = 1..(1 + Len(r))
    BY <1>3, LenProperties
  <1>5. /\ t[1] = s
        /\ \A k \in 2..(1 + Len(r)) : k - 1 \in 1..Len(r) /\ t[k] = r[k - 1]
    BY <1>1, <1>2, <1>3
  <1>6. DOMAIN t = {1} \cup 2..(1 + Len(r)) /\ 1 \notin 2..(1 + Len(r))
    BY <1>2, <1>4
  <1>7. t # <<>>
    BY <1>2, <1>3
  <1>8. Range(t) \subseteq Range(r) \cup {s}
    BY <1>2, <1>5, <1>6, SMTT(40) DEF Range
  <1>9. ASSUME IsInjective(r), s \notin Range(r)
        PROVE  IsInjective(t)
    <2> SUFFICES ASSUME NEW j \in DOMAIN t, NEW k \in DOMAIN t, t[j] = t[k]
                 PROVE  j = k
      BY DEF IsInjective
    <2>1. CASE j = 1 \/ k = 1
      BY <1>2, <1>5, <1>6, <1>9, <2>1 DEF Range
    <2>2. CASE j # 1 /\ k # 1
      <3>1. j \in 2..(1 + Len(r)) /\ k \in 2..(1 + Len(r))
        BY <1>6, <2>2
      <3>2. j - 1 = k - 1
        BY <1>2, <1>5, <1>9, <3>1 DEF IsInjective
      <3> QED
        BY <1>2, <3>1, <3>2
    <2> QED
      BY <2>1, <2>2
  <1> QED
    BY <1>3, <1>7, <1>8, <1>9 DEF t

-----------------------------------------------------------------------------
(* The messages q of one proxy to the manager.  A proxy that is in the     *)
(* ring, at first (inside) or by an ENTER, leaves before it claims to be   *)
(* outside again: by an ENTER, by a DEREGISTER, or at last (outside).      *)

Opens(q, inside, i) == IF i = 0 THEN inside ELSE q[i].type = "ENTER"

Closes(q, outside, j) ==
    IF j = Len(q) + 1 THEN outside
    ELSE q[j].type = "ENTER" \/ q[j].type = "DEREGISTER"

LeavesIn(q, a, b) == \E k \in a..b : q[k].type = "LEAVE"

Alternates(q, inside, outside) ==
    \A i \in 0..Len(q), j \in 1..(Len(q) + 1) :
        i < j /\ Opens(q, inside, i) /\ Closes(q, outside, j)
            => LeavesIn(q, i + 1, j - 1)

LEMMA AlternatesWeakly ==
    ASSUME NEW q, NEW f, NEW l, NEW g, NEW h, Alternates(q, f, l),
           g => f, h => l
    PROVE  Alternates(q, g, h)
  BY DEF Alternates, Opens, Closes

LEMMA AlternatesEmpty ==
    ASSUME NEW f, NEW l, ~(f /\ l)
    PROVE  Alternates(<<>>, f, l)
  <1> SUFFICES ASSUME NEW i \in 0..0, NEW j \in 1..1,
                      Opens(<<>>, f, i), Closes(<<>>, l, j)
               PROVE  FALSE
    BY DEF Alternates
  <1>1. i = 0 /\ j = 1 /\ Len(<<>>) = 0
    OBVIOUS
  <1> QED
    BY <1>1 DEF Opens, Closes

(* The manager takes the first message: a claim comes from outside, and an *)
(* ENTER brings the proxy inside.                                          *)
LEMMA AlternatesTail ==
    ASSUME NEW M, NEW q \in Seq(M), q # <<>>, NEW f, NEW l, Alternates(q, f, l),
           NEW g, g => \/ Head(q).type = "ENTER"
                       \/ f /\ Head(q).type # "LEAVE"
    PROVE  /\ Alternates(Tail(q), g, l)
           /\ Head(q).type = "ENTER" \/ Head(q).type = "DEREGISTER" => ~f
  <1> DEFINE t == Tail(q)
             n == Len(q)
  <1>1. n \in Nat \ {0} /\ Head(q) = q[1]
    BY LenProperties
  <1>2. t \in Seq(M) /\ Len(t) = n - 1 /\ \A k \in 1..(n - 1) : t[k] = q[k + 1]
    BY HeadTailProperties
  <1> HIDE DEF t
  <1>3. ASSUME NEW i \in 0..(n - 1), NEW j \in 1..n, i < j,
               Opens(t, g, i), Closes(t, l, j)
        PROVE  LeavesIn(t, i + 1, j - 1)
    <2>1. Closes(q, l, j + 1)
      <3>1. CASE j = n
        BY <1>1, <1>2, <1>3, <3>1 DEF Closes
      <3>2. CASE j # n
        <4>1. j \in 1..(n - 1) /\ j + 1 # n + 1 /\ j # Len(t) + 1
          BY <1>1, <1>2, <3>2
        <4>2. t[j] = q[j + 1]
          BY <1>2, <4>1
        <4> QED
          BY <1>3, <4>1, <4>2 DEF Closes
      <3> QED
        BY <3>1, <3>2
    <2>2. /\ i + 1 \in 0..n /\ j + 1 \in 1..(n + 1) /\ i + 1 < j + 1
          /\ 0 \in 0..n /\ 0 < j + 1 /\ i + 1 # 0
      BY <1>1, <1>3
    <2>3. ASSUME NEW k \in (i + 2)..j, q[k].type = "LEAVE"
          PROVE  LeavesIn(t, i + 1, j - 1)
      <3>1. /\ k - 1 \in 1..(n - 1) /\ k - 1 \in (i + 1)..(j - 1)
            /\ (k - 1) + 1 = k
        BY <1>1, <1>3
      <3>2. t[k - 1] = q[k]
        BY <1>2, <3>1
      <3> QED
        BY <2>3, <3>1, <3>2 DEF LeavesIn
    <2>4. CASE Opens(q, f, i + 1)
      <3>1. LeavesIn(q, (i + 1) + 1, (j + 1) - 1)
        BY <2>1, <2>2, <2>4 DEF Alternates
      <3>2. (i + 1) + 1 = i + 2 /\ (j + 1) - 1 = j
        BY <1>3
      <3> QED
        BY <2>3, <3>1, <3>2 DEF LeavesIn
    <2>5. CASE i = 0 /\ f /\ Head(q).type # "LEAVE"
      <3>1. LeavesIn(q, 0 + 1, (j + 1) - 1)
        BY <2>1, <2>2, <2>5 DEF Alternates, Opens
      <3>2. 0 + 1 = 1 /\ (j + 1) - 1 = j
        BY <1>3
      <3>3. PICK k \in 1..j : q[k].type = "LEAVE"
        BY <3>1, <3>2 DEF LeavesIn
      <3>4. k # 1
        BY <1>1, <2>5, <3>3
      <3>5. k \in (i + 2)..j
        BY <2>5, <3>4
      <3> QED
        BY <2>3, <3>3, <3>5
    <2>6. Opens(q, f, i + 1) \/ (i = 0 /\ f /\ Head(q).type # "LEAVE")
      <3>1. CASE i = 0
        BY <1>1, <1>3, <3>1 DEF Opens
      <3>2. CASE i # 0
        <4>1. i \in 1..(n - 1)
          BY <1>1, <3>2
        <4>2. t[i] = q[i + 1]
          BY <1>2, <4>1
        <4> QED
          BY <1>3, <2>2, <3>2, <4>2 DEF Opens
      <3> QED
        BY <3>1, <3>2
    <2> QED
      BY <2>4, <2>5, <2>6
  <1>4. Alternates(t, g, l)
    <2>1. 0..Len(t) = 0..(n - 1) /\ 1..(Len(t) + 1) = 1..n
      BY <1>1, <1>2
    <2> QED
      BY <1>3, <2>1 DEF Alternates
  <1>5. ASSUME Head(q).type = "ENTER" \/ Head(q).type = "DEREGISTER", f
        PROVE  FALSE
    <2>1. 0 \in 0..n /\ 1 \in 1..(n + 1) /\ 0 < 1 /\ 1 # n + 1
      BY <1>1
    <2>2. Opens(q, f, 0) /\ Closes(q, l, 1)
      BY <1>1, <1>5, <2>1 DEF Opens, Closes
    <2>3. LeavesIn(q, 0 + 1, 1 - 1)
      BY <2>1, <2>2 DEF Alternates
    <2> QED
      BY <2>3 DEF LeavesIn
  <1> QED
    BY <1>4, <1>5 DEF t

(* The proxy sends o, without a claim: it may then be outside if it was,   *)
(* or if o holds a LEAVE.                                                  *)
LEMMA AlternatesPlain ==
    ASSUME NEW M, NEW q \in Seq(M), NEW o \in Seq(M), NEW f, NEW l,
           Alternates(q, f, l), NEW h,
           \A k \in DOMAIN o : o[k].type # "ENTER" /\ o[k].type # "DEREGISTER",
           h => l \/ \E k \in DOMAIN o : o[k].type = "LEAVE"
    PROVE  Alternates(q \o o, f, h)
  <1> DEFINE t == q \o o
             n == Len(q)
             m == Len(o)
  <1>1. n \in Nat /\ m \in Nat /\ DOMAIN o = 1..m
    BY LenProperties
  <1>2. /\ t \in Seq(M) /\ Len(t) = n + m
        /\ \A k \in 1..n : t[k] = q[k]
        /\ \A k \in 1..m : t[n + k] = o[k]
    <2>1. /\ t \in Seq(M) /\ Len(t) = n + m
          /\ \A k \in 1..(n + m) : t[k] = IF k <= n THEN q[k] ELSE o[k - n]
      BY ConcatProperties
    <2> HIDE DEF t
    <2>2. ASSUME NEW k \in 1..m
          PROVE  t[n + k] = o[k]
      <3>1. n + k \in 1..(n + m) /\ ~(n + k <= n) /\ (n + k) - n = k
        BY <1>1
      <3> QED
        BY <2>1, <3>1
    <2>3. \A k \in 1..n : t[k] = q[k]
      BY <1>1, <2>1
    <2> QED
      BY <2>1, <2>2, <2>3
  <1> HIDE DEF t
  <1>3. \A k \in 1..(n + m) : k \notin 1..n => \E a \in 1..m : k = n + a
    <2> SUFFICES ASSUME NEW k \in 1..(n + m), k \notin 1..n
                 PROVE  \E a \in 1..m : k = n + a
      OBVIOUS
    <2>1. k - n \in 1..m /\ k = n + (k - n)
      BY <1>1
    <2> QED
      BY <2>1
  <1>4. ASSUME NEW i \in 0..(n + m), NEW j \in 1..(n + m + 1), i < j,
               Opens(t, f, i), Closes(t, h, j)
        PROVE  LeavesIn(t, i + 1, j - 1)
    <2>1. i \in 0..n /\ Opens(q, f, i)
      <3>1. CASE i = 0
        BY <1>1, <1>4, <3>1 DEF Opens
      <3>2. CASE i \in 1..n
        BY <1>2, <1>4, <3>2 DEF Opens
      <3>3. CASE i # 0 /\ i \notin 1..n
        <4>1. i \in 1..(n + m)
          BY <1>1, <3>3
        <4>2. PICK a \in 1..m : i = n + a
          BY <1>3, <3>3, <4>1
        <4> QED
          BY <1>1, <1>2, <1>4, <3>3, <4>2 DEF Opens
      <3> QED
        BY <3>1, <3>2, <3>3
    <2>2. ASSUME NEW b \in 1..(n + 1), b <= j, i < b, Closes(q, l, b)
          PROVE  LeavesIn(t, i + 1, j - 1)
      <3>1. LeavesIn(q, i + 1, b - 1)
        BY <2>1, <2>2 DEF Alternates
      <3>2. PICK k \in (i + 1)..(b - 1) : q[k].type = "LEAVE"
        BY <3>1 DEF LeavesIn
      <3>3. k \in 1..n /\ k \in (i + 1)..(j - 1)
        BY <1>1, <2>1, <2>2, <3>2
      <3>4. t[k].type = "LEAVE"
        BY <1>2, <3>2, <3>3
      <3> QED
        BY <3>3, <3>4 DEF LeavesIn
    <2>3. CASE j \in 1..n
      <3>1. t[j] = q[j] /\ j # n + 1 /\ j # n + m + 1 /\ j \in 1..(n + 1) /\ j <= j
        BY <1>1, <1>2, <2>3
      <3>2. Closes(q, l, j)
        BY <1>2, <1>4, <3>1 DEF Closes
      <3> QED
        BY <1>4, <2>2, <3>1, <3>2
    <2>4. CASE j \notin 1..n /\ j # n + m + 1
      <3>1. j \in 1..(n + m)
        BY <1>1, <2>4
      <3>2. PICK a \in 1..m : j = n + a
        BY <1>3, <2>4, <3>1
      <3> QED
        BY <1>1, <1>2, <1>4, <2>4, <3>2 DEF Closes
    <2>5. CASE j = n + m + 1
      <3>1. h
        BY <1>2, <1>4, <2>5 DEF Closes
      <3>2. CASE l
        <4>1. n + 1 \in 1..(n + 1) /\ n + 1 <= j /\ i < n + 1
          BY <1>1, <2>1, <2>5
        <4>2. Closes(q, l, n + 1)
          BY <3>2 DEF Closes
        <4> QED
          BY <2>2, <4>1, <4>2
      <3>3. ASSUME NEW k \in DOMAIN o, o[k].type = "LEAVE"
            PROVE  LeavesIn(t, i + 1, j - 1)
        <4>1. k \in 1..m /\ n + k \in (i + 1)..(j - 1)
          BY <1>1, <2>1, <2>5
        <4>2. t[n + k].type = "LEAVE"
          BY <1>2, <3>3, <4>1
        <4> QED
          BY <4>1, <4>2 DEF LeavesIn
      <3> QED
        BY <3>1, <3>2, <3>3
    <2> QED
      BY <2>3, <2>4, <2>5
  <1>5. Alternates(t, f, h)
    <2>1. 0..Len(t) = 0..(n + m) /\ 1..(Len(t) + 1) = 1..(n + m + 1)
      BY <1>2
    <2> QED
      BY <1>4, <2>1 DEF Alternates
  <1> QED
    BY <1>5 DEF t

(* A proxy that is outside sends a claim; after an ENTER it is inside.     *)
LEMMA AlternatesClaim ==
    ASSUME NEW M, NEW q \in Seq(M), NEW m \in M, NEW f, Alternates(q, f, TRUE),
           NEW h, h => m.type # "ENTER"
    PROVE  Alternates(q \o <<m>>, f, h)
  <1> DEFINE t == q \o <<m>>
             n == Len(q)
  <1>1. n \in Nat /\ <<m>> \in Seq(M) /\ Len(<<m>>) = 1 /\ <<m>>[1] = m
    BY LenProperties
  <1>2. /\ Len(t) = n + 1 /\ t[n + 1] = m
        /\ \A k \in 1..n : t[k] = q[k]
    <2>1. /\ Len(t) = n + 1
          /\ \A k \in 1..(n + 1) : t[k] = IF k <= n THEN q[k] ELSE <<m>>[k - n]
      BY <1>1, ConcatProperties
    <2> HIDE DEF t
    <2>2. n + 1 \in 1..(n + 1) /\ ~(n + 1 <= n) /\ (n + 1) - n = 1
      BY <1>1
    <2>3. t[n + 1] = m
      BY <1>1, <2>1, <2>2
    <2> QED
      BY <1>1, <2>1, <2>3
  <1> HIDE DEF t
  <1>3. ASSUME NEW i \in 0..(n + 1), NEW j \in 1..(n + 2), i < j,
               Opens(t, f, i), Closes(t, h, j)
        PROVE  LeavesIn(t, i + 1, j - 1)
    <2>1. i \in 0..n
      <3> SUFFICES ASSUME i = n + 1
                   PROVE  FALSE
        BY <1>1
      <3>1. j = n + 2 /\ j = Len(t) + 1 /\ i # 0
        BY <1>1, <1>2, <1>3
      <3> QED
        BY <1>2, <1>3, <3>1 DEF Opens, Closes
    <2>2. Opens(q, f, i)
      <3>1. CASE i = 0
        BY <1>3, <3>1 DEF Opens
      <3>2. CASE i # 0
        <4>1. i \in 1..n
          BY <1>1, <2>1, <3>2
        <4> QED
          BY <1>2, <1>3, <3>2, <4>1 DEF Opens
      <3> QED
        BY <3>1, <3>2
    <2> DEFINE b == IF j \in 1..n THEN j ELSE n + 1
    <2>3. b \in 1..(n + 1) /\ i < b /\ b <= j
      BY <1>1, <1>3, <2>1
    <2>4. Closes(q, TRUE, b)
      <3>1. CASE j \in 1..n
        <4>1. b = j /\ t[j] = q[j] /\ j # Len(t) + 1
          BY <1>1, <1>2, <3>1
        <4> QED
          BY <1>3, <4>1 DEF Closes
      <3>2. CASE j \notin 1..n
        BY <3>2 DEF Closes
      <3> QED
        BY <3>1, <3>2
    <2> HIDE DEF b
    <2>5. LeavesIn(q, i + 1, b - 1)
      BY <2>1, <2>2, <2>3, <2>4 DEF Alternates
    <2>6. PICK k \in (i + 1)..(b - 1) : q[k].type = "LEAVE"
      BY <2>5 DEF LeavesIn
    <2>7. k \in 1..n /\ k \in (i + 1)..(j - 1)
      BY <1>1, <2>1, <2>3, <2>6
    <2>8. t[k].type = "LEAVE"
      BY <1>2, <2>6, <2>7
    <2> QED
      BY <2>7, <2>8 DEF LeavesIn
  <1>4. Alternates(t, f, h)
    <2>1. 0..Len(t) = 0..(n + 1) /\ 1..(Len(t) + 1) = 1..(n + 2)
      BY <1>1, <1>2
    <2> QED
      BY <1>3, <2>1 DEF Alternates
  <1> QED
    BY <1>4 DEF t

-----------------------------------------------------------------------------
(* The handlers of a proxy.  Its state goes from x to y while it sends o   *)
(* to the manager: a proxy says ENTER and DEREGISTER only outside the      *)
(* ring, and gets outside by a LEAVE.                                      *)
Orderly(x, y, o) ==
    \/ /\ \A k \in DOMAIN o : o[k] \notin Claims
       /\ ~y.isInRing => \/ ~x.isInRing
                         \/ \E k \in DOMAIN o : o[k].type = "LEAVE"
    \/ /\ ~x.isInRing
       /\ \E m \in Message : o = <<m>> /\ (~y.isInRing => m.type # "ENTER")

LEMMA OrderlySends ==
    ASSUME NEW q \in Seq(Message), NEW o \in Seq(Message), NEW f, NEW x, NEW y,
           Alternates(q, f, ~x.isInRing), Orderly(x, y, o)
    PROVE  Alternates(q \o o, f, ~y.isInRing)
  <1>1. CASE /\ \A k \in DOMAIN o : o[k] \notin Claims
             /\ ~y.isInRing => \/ ~x.isInRing
                               \/ \E k \in DOMAIN o : o[k].type = "LEAVE"
    <2>1. \A k \in DOMAIN o : o[k].type # "ENTER" /\ o[k].type # "DEREGISTER"
      BY <1>1, ElementOfSeq, LenProperties DEF Claims, OfType
    <2> QED
      BY <1>1, <2>1, AlternatesPlain
  <1>2. ASSUME ~x.isInRing, NEW m \in Message, o = <<m>>,
               ~y.isInRing => m.type # "ENTER"
        PROVE  Alternates(q \o o, f, ~y.isInRing)
    <2>1. Alternates(q, f, TRUE)
      BY <1>2, AlternatesWeakly
    <2> QED
      BY <1>2, <2>1, AlternatesClaim
  <1> QED
    BY <1>1, <1>2 DEF Orderly

(* What every handler with the result r does in state x; and where the     *)
(* token is afterwards, if the proxy keeps what it has or sends it.        *)
Handled(x, r) ==
    /\ r.st \in ProxyState /\ r.out \in [Site -> Seq(Message)]
    /\ r.st.isInRing => r.st.isReachable
    /\ Orderly(x, r.st, r.out[Home])

KeepsToken(x, r) ==
    /\ r.st.hasToken => x.hasToken
    /\ Without(r.out, Tokens)

SendsToken(r) ==
    /\ ~r.st.hasToken
    /\ \E d \in Place : OnlyFor(r.out, Tokens, d)

LEMMA PlainHandled ==
    ASSUME NEW x \in ProxyState, NEW y \in ProxyState, NEW out, Plain(out),
           y.isInRing => y.isReachable, ~y.isInRing => ~x.isInRing,
           y.hasToken => x.hasToken
    PROVE  /\ Handled(x, Result(y, out)) /\ KeepsToken(x, Result(y, out))
           /\ Result(y, out).st.present = y.present
  <1>1. Without(out, Tokens) /\ \A i \in DOMAIN out[Home] : out[Home][i] \notin Claims
    BY PlainTokens
  <1>2. Result(y, out).st = y /\ Result(y, out).out = out
    BY DEF Result
  <1> QED
    BY <1>1, <1>2 DEF Handled, KeepsToken, Orderly, Plain

LEMMA ForwardTokenResult ==
    ASSUME NEW p \in Site, NEW x \in ProxyState
    PROVE  LET t == ForwardToken(p, x) IN
           /\ t.st \in ProxyState /\ t.out \in [Site -> Seq(Message)]
           /\ Without(t.out, Claims)
           /\ t.st.present = x.present /\ t.st.isInRing = x.isInRing
           /\ t.st.isReachable = x.isReachable
           /\ \/ t.st = x /\ Without(t.out, Tokens)
              \/ x.hasToken /\ SendsToken(t)
  <1> DEFINE t == ForwardToken(p, x)
             m == Colored("TOKEN", x.color)
  <1>1. CASE ~(x.hasToken /\ x.successor \notin {NoSite, p})
    <2>1. t.st = x /\ t.out = Silent
      BY <1>1 DEF ForwardToken, Result
    <2> QED
      BY <2>1, SilentType, SilentWithout
  <1>2. CASE x.hasToken /\ x.successor \notin {NoSite, p}
    <2>1. t.st = [x EXCEPT !.hasToken = FALSE] /\ t.out = To(x.successor, m)
      BY <1>2 DEF ForwardToken, Result
    <2>2. x.color \in Color /\ x.successor \in Place
      BY DEF ProxyState
    <2>3. m \in Message /\ m.type = "TOKEN"
      BY <2>2, ToProxyMessage DEF Colored, ProxyTypes, Place
    <2>4. m \notin Claims
      BY <2>3 DEF Claims, OfType
    <2> HIDE DEF m
    <2>5. /\ t.out \in [Site -> Seq(Message)] /\ Without(t.out, Claims)
          /\ OnlyFor(t.out, Tokens, x.successor)
      BY <2>1, <2>3, <2>4, ToType, ToWithout, ToOnlyFor
    <2>6. /\ t.st \in ProxyState /\ ~t.st.hasToken
          /\ t.st.present = x.present /\ t.st.isInRing = x.isInRing
          /\ t.st.isReachable = x.isReachable
      BY <2>1 DEF ProxyState
    <2> QED
      BY <1>2, <2>2, <2>5, <2>6 DEF SendsToken
  <1> QED
    BY <1>1, <1>2

LEMMA ForwardColorResult ==
    ASSUME NEW x \in ProxyState
    PROVE  LET c == ForwardColor(x) IN
           /\ c.st \in ProxyState /\ Plain(c.out)
           /\ c.st.present = x.present /\ c.st.isInRing = x.isInRing
           /\ c.st.isReachable = x.isReachable /\ c.st.hasToken = x.hasToken
  <1>1. /\ ForwardColor(x).st = [x EXCEPT !.isColoring = x.successor = NoSite]
        /\ ForwardColor(x).out = IF x.successor = NoSite THEN Silent
                                 ELSE To(x.successor, Colored("COLOR", x.color))
    BY DEF ForwardColor, Result
  <1>2. "COLOR" \in ProxyTypes \ {"TOKEN"} /\ x.color \in Color /\ NoSite \in Place
    BY DEF ProxyTypes, ProxyState, Place
  <1>3. Plain(ForwardColor(x).out)
    BY <1>1, <1>2, SilentPlain, NoticePlain DEF Colored
  <1>4. /\ ForwardColor(x).st \in ProxyState
        /\ ForwardColor(x).st.present = x.present
        /\ ForwardColor(x).st.isInRing = x.isInRing
        /\ ForwardColor(x).st.isReachable = x.isReachable
        /\ ForwardColor(x).st.hasToken = x.hasToken
    BY <1>1 DEF ProxyState
  <1> QED
    BY <1>3, <1>4

LEMMA LostTokenResult ==
    ASSUME NEW x \in ProxyState
    PROVE  /\ LostToken(x) \in ProxyState
           /\ LostToken(x).present = x.present
           /\ LostToken(x).isInRing = x.isInRing
           /\ LostToken(x).isReachable = x.isReachable
           /\ LostToken(x).hasToken = x.hasToken
  BY DEF LostToken, ProxyState, Place

LEMMA EnteredResult ==
    ASSUME NEW x \in ProxyState, x.isInRing => x.isReachable
    PROVE  /\ Handled(x, Result(Entered(x), EnterOut(x)))
           /\ KeepsToken(x, Result(Entered(x), EnterOut(x)))
           /\ Entered(x).hasToken = x.hasToken
           /\ Entered(x).permFail = x.permFail
  <1>1. CASE x.isInRing
    <2>1. Entered(x) = x /\ EnterOut(x) = Silent
      BY <1>1 DEF Entered, EnterOut
    <2> QED
      BY <1>1, <2>1, SilentPlain, PlainHandled
  <1>2. CASE ~x.isInRing
    <2> DEFINE m == ToManager("ENTER", NoSite, White)
    <2>1. EnterOut(x) = To(Home, m)
      BY <1>2 DEF EnterOut, sendToManager
    <2>2. m \in Message /\ m.type = "ENTER"
      BY ToManagerMessage, ColorTypes DEF ManagerTypes, Place
    <2>3. m \notin Tokens
      BY <2>2 DEF Tokens, OfType
    <2> HIDE DEF m
    <2>4. /\ EnterOut(x) \in [Site -> Seq(Message)]
          /\ Without(EnterOut(x), Tokens) /\ EnterOut(x)[Home] = <<m>>
      BY <2>1, <2>2, <2>3, ToType, ToWithout, HomeAssumption DEF To, Silent
    <2>5. /\ Entered(x) \in ProxyState /\ Entered(x).isInRing
          /\ Entered(x).isReachable /\ Entered(x).present = x.present
          /\ Entered(x).hasToken = x.hasToken /\ Entered(x).permFail = x.permFail
      BY <1>2, ColorTypes DEF Entered, ProxyState, Place
    <2>6. /\ Result(Entered(x), EnterOut(x)).st = Entered(x)
          /\ Result(Entered(x), EnterOut(x)).out = EnterOut(x)
      BY DEF Result
    <2> QED
      BY <1>2, <2>2, <2>4, <2>5, <2>6 DEF Handled, KeepsToken, Orderly
  <1> QED
    BY <1>1, <1>2

-----------------------------------------------------------------------------
(* One lemma for each message to a proxy.                                  *)

LEMMA GetForwardResult ==
    ASSUME NEW p \in Site, NEW x \in ProxyState, x.isInRing => x.isReachable,
           NEW m \in Message
    PROVE  LET r == GetForward(p, x, m) IN
           /\ Handled(x, r) /\ r.st.present = x.present
           /\ KeepsToken(x, r) \/ (x.hasToken /\ SendsToken(r))
  <1> DEFINE y == [x EXCEPT !.successor = m.site]
             c == IF y.isColoring THEN ForwardColor(y) ELSE Result(y, Silent)
             t == ForwardToken(p, c.st)
             r == GetForward(p, x, m)
  <1>1. /\ y \in ProxyState /\ y.present = x.present /\ y.isInRing = x.isInRing
        /\ y.isReachable = x.isReachable /\ y.hasToken = x.hasToken
    BY MessageFields DEF ProxyState
  <1>2. r.st = t.st /\ r.out = Both(c.out, t.out)
    BY DEF GetForward, Result
  <1> HIDE DEF y
  <1>3. /\ c.st \in ProxyState /\ Plain(c.out)
        /\ c.st.present = x.present /\ c.st.isInRing = x.isInRing
        /\ c.st.isReachable = x.isReachable /\ c.st.hasToken = x.hasToken
    <2>1. CASE y.isColoring
      BY <1>1, <2>1, ForwardColorResult
    <2>2. CASE ~y.isColoring
      BY <1>1, <2>2, SilentPlain DEF Result
    <2> QED
      BY <2>1, <2>2
  <1> HIDE DEF c
  <1>4. /\ t.st \in ProxyState /\ t.out \in [Site -> Seq(Message)]
        /\ Without(t.out, Claims)
        /\ t.st.present = x.present /\ t.st.isInRing = x.isInRing
        /\ t.st.isReachable = x.isReachable
        /\ \/ t.st = c.st /\ Without(t.out, Tokens)
           \/ c.st.hasToken /\ SendsToken(t)
    BY <1>3, ForwardTokenResult
  <1> HIDE DEF t, r
  <1>5. Without(c.out, Tokens) /\ Without(c.out, Claims) /\ c.out \in [Site -> Seq(Message)]
    BY <1>3 DEF Plain, Without, Tokens, Claims, Marked, OfType
  <1>6. r.out \in [Site -> Seq(Message)] /\ Without(r.out, Claims)
    <2>1. Both(c.out, t.out) \in [Site -> Seq(Message)]
      BY <1>4, <1>5, BothType
    <2>2. Without(Both(c.out, t.out), Claims)
      BY <1>4, <1>5, BothWithout
    <2> QED
      BY <1>2, <2>1, <2>2
  <1>7. Handled(x, r)
    BY <1>2, <1>4, <1>6, HomeAssumption DEF Handled, Orderly, Without
  <1>8. CASE t.st = c.st /\ Without(t.out, Tokens)
    BY <1>2, <1>3, <1>4, <1>5, <1>7, <1>8, BothWithout DEF KeepsToken, r
  <1>9. CASE c.st.hasToken /\ SendsToken(t)
    <2>1. PICK d \in Place : OnlyFor(t.out, Tokens, d)
      BY <1>9 DEF SendsToken
    <2>2. OnlyFor(r.out, Tokens, d)
      BY <1>2, <1>4, <1>5, <2>1, BothOnlyFor
    <2> QED
      BY <1>2, <1>3, <1>4, <1>7, <1>9, <2>2 DEF SendsToken, r
  <1> QED
    BY <1>4, <1>8, <1>9

LEMMA GetTokenResult ==
    ASSUME NEW p \in Site, NEW x \in ProxyState, x.isInRing => x.isReachable,
           NEW m \in Message
    PROVE  LET r == GetToken(p, x, m) IN
           /\ Handled(x, r) /\ r.st.present = x.present
           /\ \/ SendsToken(r)
              \/ Without(r.out, Tokens) /\ r.st.permFail
              \/ /\ Without(r.out, Tokens) /\ r.st.hasToken
                 /\ r.st.permFail = x.permFail
  <1> DEFINE r == GetToken(p, x, m)
             v == IF IsWhite(x.color) THEN m.color ELSE x.color
             y == [x EXCEPT !.hasToken = TRUE,
                            !.color = Darkened(v, TRUE), !.isStrict = TRUE,
                            !.freeRounds = RoundsLeft(x), !.waiting = FALSE,
                            !.isInRing = @ /\ ~Leaves(x)]
             t == ForwardToken(p, y)
             o == IF Leaves(x) THEN sendToManager("LEAVE") ELSE Silent
  <1>1. CASE ~Accepts(x, m.color)
    <2>1. r.st = LostToken(x) /\ r.out = Silent /\ LostToken(x).permFail
      BY <1>1 DEF GetToken, Result, LostToken, ProxyState
    <2>2. Handled(x, Result(LostToken(x), Silent))
      BY LostTokenResult, SilentPlain, PlainHandled
    <2>3. Handled(x, r)
      BY <2>1, <2>2 DEF Handled, Result
    <2> QED
      BY <2>1, <2>3, LostTokenResult, SilentWithout
  <1>2. CASE Accepts(x, m.color)
    <2>1. r.st = t.st /\ r.out = Both(o, t.out)
      BY <1>2 DEF GetToken, Result
    <2>2. v \in Color /\ Darkened(v, TRUE) \in Color
      BY MessageFields, ColorTypes DEF ProxyState
    <2>3. RoundsLeft(x) \in Int
      BY FreeRoundsAssumption DEF RoundsLeft, ProxyState
    <2>4. /\ y \in ProxyState /\ y.present = x.present /\ y.hasToken
          /\ y.isInRing = (x.isInRing /\ ~Leaves(x))
          /\ y.isReachable = x.isReachable /\ y.permFail = x.permFail
      <3>1. (x.isInRing /\ ~Leaves(x)) \in BOOLEAN
        BY DEF ProxyState
      <3> HIDE DEF v
      <3> QED
        BY <2>2, <2>3, <3>1 DEF ProxyState
    <2> HIDE DEF y
    <2>5. /\ t.st \in ProxyState /\ t.out \in [Site -> Seq(Message)]
          /\ Without(t.out, Claims)
          /\ t.st.present = x.present /\ t.st.isInRing = y.isInRing
          /\ t.st.isReachable = x.isReachable
          /\ \/ t.st = y /\ Without(t.out, Tokens)
             \/ y.hasToken /\ SendsToken(t)
      BY <2>4, ForwardTokenResult
    <2> HIDE DEF t
    <2>6. /\ o \in [Site -> Seq(Message)] /\ Without(o, Claims)
          /\ Without(o, Tokens)
          /\ Leaves(x) => 1 \in DOMAIN o[Home] /\ o[Home][1].type = "LEAVE"
      <3>1. CASE Leaves(x)
        <4> DEFINE l == ToManager("LEAVE", NoSite, White)
        <4>1. o = To(Home, l)
          BY <3>1 DEF sendToManager
        <4>2. l \in Message /\ l.type = "LEAVE"
          BY ToManagerMessage, ColorTypes DEF ManagerTypes, Place
        <4>3. l \notin Claims /\ l \notin Tokens
          BY <4>2 DEF Claims, Tokens, OfType
        <4> HIDE DEF l, o
        <4>4. o[Home] = <<l>>
          BY <4>1, HomeAssumption DEF To, Silent
        <4> QED
          BY <4>1, <4>2, <4>3, <4>4, ToType, ToWithout
      <3>2. CASE ~Leaves(x)
        BY <3>2, SilentType, SilentWithout
      <3> QED
        BY <3>1, <3>2
    <2> HIDE DEF o, r
    <2>7. r.out \in [Site -> Seq(Message)]
      BY <2>1, <2>5, <2>6, BothType, SMTT(40)
    <2>8. Without(r.out, Claims)
      BY <2>1, <2>5, <2>6, BothWithout
    <2>9. Leaves(x) => \E k \in DOMAIN r.out[Home] :
                            r.out[Home][k].type = "LEAVE"
      <3> SUFFICES ASSUME Leaves(x)
                   PROVE  \E k \in DOMAIN r.out[Home] :
                             r.out[Home][k].type = "LEAVE"
        OBVIOUS
      <3> DEFINE a == o[Home]
                 b == t.out[Home]
      <3>1. r.out[Home] = a \o b /\ a \in Seq(Message) /\ b \in Seq(Message)
        BY <2>1, <2>5, <2>6, HomeAssumption DEF Both
      <3>2. 1 \in DOMAIN a /\ a[1].type = "LEAVE"
        BY <2>6
      <3> HIDE DEF a, b
      <3>3. /\ Len(a) \in Nat /\ DOMAIN a = 1..Len(a) /\ Len(b) \in Nat
            /\ DOMAIN (a \o b) = 1..(Len(a) + Len(b))
            /\ \A k \in 1..(Len(a) + Len(b)) :
                  (a \o b)[k] = IF k <= Len(a) THEN a[k] ELSE b[k - Len(a)]
        BY <3>1, ConcatProperties, LenProperties
      <3>4. 1 \in 1..(Len(a) + Len(b)) /\ 1 <= Len(a)
        BY <3>2, <3>3
      <3>5. (a \o b)[1] = a[1]
        BY <3>3, <3>4
      <3> QED
        BY <3>1, <3>2, <3>3, <3>4, <3>5
    <2>10. Orderly(x, r.st, r.out[Home])
      BY <2>1, <2>4, <2>5, <2>8, <2>9, HomeAssumption DEF Orderly, Without
    <2>11. Handled(x, r)
      BY <2>1, <2>4, <2>5, <2>7, <2>10 DEF Handled
    <2>12. CASE t.st = y /\ Without(t.out, Tokens)
      <3>1. Without(r.out, Tokens)
        BY <2>1, <2>5, <2>6, <2>12, BothWithout
      <3> QED
        BY <2>1, <2>4, <2>5, <2>11, <2>12, <3>1 DEF r
    <2>13. CASE SendsToken(t)
      <3>1. PICK d \in Place : OnlyFor(t.out, Tokens, d)
        BY <2>13 DEF SendsToken
      <3>2. OnlyFor(r.out, Tokens, d)
        BY <2>1, <2>5, <2>6, <3>1, BothOnlyFor
      <3> QED
        BY <2>1, <2>5, <2>11, <2>13, <3>2 DEF SendsToken, r
    <2> QED
      BY <2>5, <2>12, <2>13
  <1> QED
    BY <1>1, <1>2

LEMMA TakeResult ==
    ASSUME NEW x \in ProxyState, NEW c \in Color, NEW b \in BOOLEAN
    PROVE  LET y == [Take(x, c) EXCEPT !.isStrict = b] IN
           /\ Take(x, c) \in ProxyState /\ Take(x, c).present = x.present
           /\ Take(x, c).isInRing = x.isInRing
           /\ Take(x, c).isReachable = x.isReachable
           /\ Take(x, c).hasToken = x.hasToken
           /\ y \in ProxyState /\ y.present = x.present
           /\ y.isInRing = x.isInRing /\ y.isReachable = x.isReachable
           /\ y.hasToken = x.hasToken
  <1>1. Darkened(c, x.hasToken) \in Color
    BY ColorTypes DEF ProxyState
  <1> QED
    BY <1>1 DEF Take, ProxyState

LEMMA ColorHandled ==
    ASSUME NEW x \in ProxyState, x.isInRing => x.isReachable,
           NEW y \in ProxyState, y.present = x.present,
           y.isInRing = x.isInRing, y.isReachable = x.isReachable,
           y.hasToken = x.hasToken
    PROVE  /\ Handled(x, ForwardColor(y)) /\ KeepsToken(x, ForwardColor(y))
           /\ ForwardColor(y).st.present = x.present
  <1>1. /\ ForwardColor(y).st \in ProxyState /\ Plain(ForwardColor(y).out)
        /\ ForwardColor(y).st.present = x.present
        /\ ForwardColor(y).st.isInRing = x.isInRing
        /\ ForwardColor(y).st.isReachable = x.isReachable
        /\ ForwardColor(y).st.hasToken = x.hasToken
    BY ForwardColorResult
  <1>2. Handled(x, Result(ForwardColor(y).st, ForwardColor(y).out))
           /\ KeepsToken(x, Result(ForwardColor(y).st, ForwardColor(y).out))
    BY <1>1, PlainHandled
  <1> QED
    BY <1>1, <1>2 DEF Handled, KeepsToken, Result

LEMMA GetColorStartResult ==
    ASSUME NEW p, NEW x \in ProxyState, x.isInRing => x.isReachable,
           NEW m \in Message
    PROVE  /\ Handled(x, GetColorStart(p, x, m))
           /\ KeepsToken(x, GetColorStart(p, x, m))
           /\ GetColorStart(p, x, m).st.present = x.present
  <1> DEFINE y == [Take(x, m.color) EXCEPT !.isStrict = x.hasToken]
  <1>1. m.color \in Color /\ x.hasToken \in BOOLEAN
    BY MessageFields DEF ProxyState
  <1>2. /\ y \in ProxyState /\ y.present = x.present
        /\ y.isInRing = x.isInRing /\ y.isReachable = x.isReachable
        /\ y.hasToken = x.hasToken
    BY <1>1, TakeResult
  <1>3. \/ GetColorStart(p, x, m) = ForwardColor(y)
        \/ GetColorStart(p, x, m) = Result(x, Silent)
    BY DEF GetColorStart
  <1> HIDE DEF y
  <1> QED
    BY <1>2, <1>3, ColorHandled, PlainHandled, SilentPlain

LEMMA GetColorResult ==
    ASSUME NEW p, NEW x \in ProxyState, x.isInRing => x.isReachable,
           NEW m \in Message
    PROVE  /\ Handled(x, GetColor(p, x, m))
           /\ KeepsToken(x, GetColor(p, x, m))
           /\ GetColor(p, x, m).st.present = x.present
  <1> DEFINE done == To(Home, ToManager("COLOR_DONE", NoSite, m.color))
             fail == sendToManager("PERMFAIL")
  <1>1. m.color \in Color /\ NoSite \in Place /\ White \in Color
    BY MessageFields, ColorTypes DEF Place
  <1>2. Plain(done) /\ Plain(fail)
    <2>1. /\ "COLOR_DONE" \in ManagerTypes \ {"ENTER", "DEREGISTER", "LEAVE"}
          /\ "PERMFAIL" \in ManagerTypes \ {"ENTER", "DEREGISTER", "LEAVE"}
      BY DEF ManagerTypes
    <2> QED
      BY <1>1, <2>1, SendPlain DEF sendToManager
  <1>3. \/ GetColor(p, x, m) = Result(x, done)
        \/ GetColor(p, x, m) = Result(LostToken(x), fail)
        \/ GetColor(p, x, m) = ForwardColor(Take(x, m.color))
        \/ GetColor(p, x, m) = Result(x, Silent)
    BY DEF GetColor
  <1> HIDE DEF done, fail
  <1>4. /\ Take(x, m.color) \in ProxyState
        /\ Take(x, m.color).present = x.present
        /\ Take(x, m.color).isInRing = x.isInRing
        /\ Take(x, m.color).isReachable = x.isReachable
        /\ Take(x, m.color).hasToken = x.hasToken
    BY <1>1, TakeResult
  <1>5. CASE GetColor(p, x, m) = ForwardColor(Take(x, m.color))
    BY <1>4, <1>5, ColorHandled
  <1>6. CASE GetColor(p, x, m) = Result(LostToken(x), fail)
    BY <1>2, <1>6, LostTokenResult, PlainHandled
  <1>7. CASE GetColor(p, x, m) = Result(x, done) \/ GetColor(p, x, m) = Result(x, Silent)
    BY <1>2, <1>7, PlainHandled, SilentPlain
  <1> QED
    BY <1>3, <1>5, <1>6, <1>7

LEMMA GetColorDoneResult ==
    ASSUME NEW p, NEW x \in ProxyState, x.isInRing => x.isReachable,
           NEW m \in Message
    PROVE  /\ Handled(x, GetColorDone(p, x, m))
           /\ KeepsToken(x, GetColorDone(p, x, m))
           /\ GetColorDone(p, x, m).st.present = x.present
  <1> DEFINE b == x.isReachable /\ (x.isInRing \/ SameColor(x.color, m.color))
             y == [x EXCEPT !.isReachable = b]
  <1>1. GetColorDone(p, x, m) = Result(y, Silent)
    BY DEF GetColorDone
  <1>2. b \in BOOLEAN /\ (x.isInRing => b)
    BY DEF ProxyState
  <1> HIDE DEF b
  <1>3. /\ y \in ProxyState /\ y.present = x.present /\ y.hasToken = x.hasToken
        /\ y.isInRing = x.isInRing /\ y.isReachable = b
    BY <1>2 DEF ProxyState
  <1> HIDE DEF y
  <1> QED
    BY <1>1, <1>2, <1>3, PlainHandled, SilentPlain

LEMMA GetPermFailResult ==
    ASSUME NEW p, NEW x \in ProxyState, x.isInRing => x.isReachable, NEW m
    PROVE  /\ Handled(x, GetPermFail(p, x, m))
           /\ KeepsToken(x, GetPermFail(p, x, m))
           /\ GetPermFail(p, x, m).st.present = x.present
  BY LostTokenResult, PlainHandled, SilentPlain DEF GetPermFail

LEMMA SiteFailsResult ==
    ASSUME NEW x \in ProxyState, x.isInRing => x.isReachable, NEW s \in Site
    PROVE  /\ Handled(x, SiteFails(x, s)) /\ KeepsToken(x, SiteFails(x, s))
           /\ ~SiteFails(x, s).st.permFail => ~x.permFail
           /\ SiteFails(x, s).st.present = x.present
           /\ Plain(SiteFails(x, s).out)
           /\ SiteFails(x, s).st.isInRing = x.isInRing
  <1> DEFINE y == [x EXCEPT !.successor = NoSite]
             f == To(Home, ToManager("FAILED", s, White))
  <1>1. \/ SiteFails(x, s) = Result(LostToken(x), Silent) /\ ~x.permFail
        \/ SiteFails(x, s) = Result(y, f) /\ ~x.permFail
        \/ SiteFails(x, s) = Result(x, Silent)
    BY DEF SiteFails
  <1>2. /\ y \in ProxyState /\ y.present = x.present /\ y.hasToken = x.hasToken
        /\ y.isInRing = x.isInRing /\ y.isReachable = x.isReachable
    BY DEF ProxyState, Place
  <1>3. Plain(f)
    <2>1. "FAILED" \in ManagerTypes \ {"ENTER", "DEREGISTER", "LEAVE"}
      BY DEF ManagerTypes
    <2> QED
      BY <2>1, SendPlain, ColorTypes DEF Place
  <1> HIDE DEF y, f
  <1>4. CASE SiteFails(x, s) = Result(LostToken(x), Silent) /\ ~x.permFail
    BY <1>4, LostTokenResult, PlainHandled, SilentPlain DEF Result
  <1>5. CASE SiteFails(x, s) = Result(y, f) /\ ~x.permFail
    BY <1>2, <1>3, <1>5, PlainHandled DEF Result
  <1>6. CASE SiteFails(x, s) = Result(x, Silent)
    BY <1>6, PlainHandled, SilentPlain DEF Result
  <1> QED
    BY <1>1, <1>4, <1>5, <1>6

-----------------------------------------------------------------------------
(* The handlers of the manager.                                            *)

(* The manager holds m: the ring is empty iff the token is lost, holds     *)
(* every proxy once, and, but for a last one that waits to leave, only     *)
(* registered ones.                                                        *)
RingOK(m) ==
    /\ m.permFail <=> m.ring = <<>>
    /\ IsInjective(m.ring)
    /\ m.lastLeaving /\ ~m.permFail => Len(m.ring) = 1
    /\ m.lastLeaving \/ Range(m.ring) \subseteq m.proxies

(* For the manager, s is in the ring and has not asked to leave it.        *)
Inside(m, s) == s \in Range(m.ring) /\ ~m.lastLeaving

(* The result r of a handler that lets nobody but those in S enter.        *)
Managed(r, S) ==
    /\ r.st \in ManagerState /\ RingOK(r.st)
    /\ Plain(r.out)
    /\ \A q : Inside(r.st, q) => Inside(manager, q) \/ q \in S

ManagerReady == manager \in ManagerState /\ RingOK(manager) /\ ~manager.permFail

LEMMA EmptyRing ==
    /\ Range(<<>>) = {} /\ IsInjective(<<>>) /\ <<>> \in Seq(Site)
    /\ \A r \in Seq(Site) : r # <<>> => Current(r) \in Site
  <1>1. \A r \in Seq(Site) : r # <<>> => Current(r) \in Site
    BY LenProperties DEF Current
  <1> QED
    BY <1>1 DEF Range, IsInjective

LEMMA PlainNotices ==
    /\ \A S : Plain(ToAll(S, Notice("PERMFAIL")))
    /\ \A d : Plain(To(d, Notice("PERMFAIL")))
    /\ \A d : \A s \in Site : Plain(To(d, Forward(s)))
    /\ \A d : \A c \in Color : Plain(To(d, Colored("COLOR_START", c)))
    /\ \A S : \A c \in Color : Plain(ToAll(S, Colored("COLOR_DONE", c)))
  <1>1. /\ White \in Color /\ NoSite \in Place
        /\ {"PERMFAIL", "FORWARD", "COLOR_START", "COLOR_DONE"}
             \subseteq ProxyTypes \ {"TOKEN"}
    BY ColorTypes DEF Place, ProxyTypes
  <1>2. ASSUME NEW S, NEW t \in {"PERMFAIL", "COLOR_DONE"}, NEW c \in Color
        PROVE  Plain(ToAll(S, Msg("proxy", t, NoSite, c)))
    <2>1. /\ Msg("proxy", t, NoSite, c) \in Message
          /\ Msg("proxy", t, NoSite, c).type = t
      BY <1>1, ToProxyMessage
    <2> QED
      BY <2>1, ToAllPlain
  <1>3. \A d : \A s \in Site : Plain(To(d, Forward(s)))
    BY <1>1, NoticePlain DEF Forward, Place
  <1>4. \A d : \A c \in Color : Plain(To(d, Colored("COLOR_START", c)))
    BY <1>1, NoticePlain DEF Colored
  <1>5. \A d : Plain(To(d, Notice("PERMFAIL")))
    BY <1>1, NoticePlain DEF Notice
  <1> QED
    BY <1>1, <1>2, <1>3, <1>4, <1>5 DEF Notice, Colored

LEMMA ManagerLostResult ==
    ASSUME manager \in ManagerState, NEW S
    PROVE  Managed(ManagerLost(S), {})
  <1> DEFINE m == [manager EXCEPT !.permFail = TRUE, !.proxies = {},
                                  !.ring = <<>>]
  <1>1. ManagerLost(S).st = m /\ ManagerLost(S).out = ToAll(S, Notice("PERMFAIL"))
    BY DEF ManagerLost, Result
  <1>2. m \in ManagerState /\ m.permFail /\ m.ring = <<>> /\ m.proxies = {}
    BY EmptyRing DEF ManagerState
  <1> HIDE DEF m
  <1>3. RingOK(m) /\ \A q : ~Inside(m, q)
    BY <1>2, EmptyRing DEF RingOK, Inside
  <1> QED
    BY <1>1, <1>2, <1>3, PlainNotices DEF Managed

LEMMA StartColoringResult ==
    ASSUME manager \in ManagerState, NEW x \in ManagerState,
           NEW r \in Seq(Site)
    PROVE  LET c == StartColoring(x, r) IN
           /\ c.st \in ManagerState /\ c.st.ring = r
           /\ c.st.proxies = x.proxies /\ c.st.lastLeaving = x.lastLeaving
           /\ c.st.permFail = x.permFail /\ Plain(c.out)
  <1> DEFINE k == NextColor(manager.color)
             c == StartColoring(x, r)
  <1>1. c.st = [x EXCEPT !.ring = r, !.color = k]
           /\ c.out = To(Current(r), Colored("COLOR_START", k))
    BY DEF StartColoring, Result
  <1>2. k \in Color
    BY ColorTypes DEF ManagerState
  <1> HIDE DEF k
  <1>3. /\ c.st \in ManagerState /\ c.st.ring = r
        /\ c.st.proxies = x.proxies /\ c.st.lastLeaving = x.lastLeaving
        /\ c.st.permFail = x.permFail
    BY <1>1, <1>2 DEF ManagerState
  <1> QED
    BY <1>1, <1>2, <1>3, PlainNotices

(* The ring without s, which is in it.                                     *)
LEMMA WithoutCurrent ==
    ASSUME ManagerReady, NEW s, InRing(s)
    PROVE  LET r == Tail(Rotated(s)) IN
           /\ r \in Seq(Site) /\ Len(r) = Len(manager.ring) - 1
           /\ r = <<>> <=> Len(manager.ring) = 1
           /\ Range(r) \subseteq Range(manager.ring) /\ s \notin Range(r)
           /\ IsInjective(r)
  <1> DEFINE r == Tail(Rotated(s))
  <1>1. manager.ring \in Seq(Site) /\ IsInjective(manager.ring)
    BY DEF ManagerReady, ManagerState, RingOK
  <1>2. /\ r \in Seq(Site) /\ Len(r) = Len(manager.ring) - 1
        /\ Range(r) \subseteq Range(manager.ring)
        /\ IsInjective(r) /\ s \notin Range(r)
    BY <1>1, RotatedRing
  <1>3. Len(r) \in Nat /\ Len(manager.ring) \in Nat
    BY <1>1, <1>2, LenProperties
  <1> HIDE DEF r
  <1>4. r = <<>> <=> Len(r) = 0
    BY <1>2, EmptySeq
  <1>5. r = <<>> <=> Len(manager.ring) = 1
    BY <1>2, <1>3, <1>4
  <1> QED
    BY <1>2, <1>5 DEF r

LEMMA RemoveFailedResult ==
    ASSUME ManagerReady, NEW s
    PROVE  Managed(RemoveFailed(s), {})
  <1> DEFINE reg == manager.proxies \ {s}
             r == IF InRing(s) THEN Tail(Rotated(s)) ELSE manager.ring
             x == [manager EXCEPT !.proxies = reg]
             c == StartColoring(x, r)
             f == Both(To(Predecessor(r), Forward(Current(r))), c.out)
  <1>1. /\ r = <<>> => RemoveFailed(s) = ManagerLost(reg)
        /\ r # <<>> /\ InRing(s) => RemoveFailed(s) = Result(c.st, f)
        /\ r # <<>> /\ ~InRing(s) => RemoveFailed(s) = c
    BY DEF RemoveFailed
  <1>2. /\ manager \in ManagerState /\ manager.ring \in Seq(Site)
        /\ RingOK(manager) /\ ~manager.permFail
    BY DEF ManagerReady, ManagerState
  <1>3. /\ x \in ManagerState /\ x.ring = manager.ring /\ x.proxies = reg
        /\ x.lastLeaving = manager.lastLeaving /\ x.permFail = manager.permFail
    BY <1>2 DEF ManagerState
  <1>4. /\ r \in Seq(Site) /\ IsInjective(r)
        /\ Range(r) \subseteq Range(manager.ring) \ {s}
        /\ manager.lastLeaving /\ r # <<>> => Len(r) = 1
    <2>1. CASE InRing(s)
      BY <1>2, <2>1, WithoutCurrent DEF RingOK
    <2>2. CASE ~InRing(s)
      BY <1>2, <2>2 DEF RingOK, InRing
    <2> QED
      BY <2>1, <2>2
  <1> HIDE DEF r, x
  <1>5. /\ c.st \in ManagerState /\ c.st.ring = r /\ c.st.proxies = reg
        /\ c.st.lastLeaving = manager.lastLeaving /\ ~c.st.permFail
        /\ Plain(c.out)
    BY <1>2, <1>3, <1>4, StartColoringResult
  <1> HIDE DEF c
  <1>6. CASE r = <<>>
    BY <1>1, <1>2, <1>6, ManagerLostResult
  <1>7. CASE r # <<>>
    <2>1. RemoveFailed(s).st = c.st /\ Plain(RemoveFailed(s).out)
      <3>1. Current(r) \in Site
        BY <1>4, <1>7, EmptyRing
      <3>2. Plain(To(Predecessor(r), Forward(Current(r))))
        BY <3>1, PlainNotices
      <3>3. Plain(f)
        BY <1>5, <3>2, BothPlain
      <3> HIDE DEF f
      <3> QED
        BY <1>1, <1>5, <1>7, <3>3 DEF Result
    <2>2. Range(r) \subseteq reg \/ manager.lastLeaving
      BY <1>2, <1>4 DEF RingOK
    <2>3. RingOK(c.st)
      BY <1>4, <1>5, <1>7, <2>2 DEF RingOK
    <2>4. \A q : Inside(c.st, q) => Inside(manager, q)
      BY <1>4, <1>5 DEF Inside
    <2> QED
      BY <1>5, <2>1, <2>3, <2>4 DEF Managed
  <1> QED
    BY <1>6, <1>7

LEMMA JoinedResult ==
    ASSUME ManagerReady, NEW s \in Site, ~Inside(manager, s)
    PROVE  Managed(Joined(s), {s})
  <1> DEFINE r == manager.ring
             x == [manager EXCEPT !.proxies = @ \cup {s}, !.lastLeaving = FALSE]
             y == [x EXCEPT !.ring = <<s>> \o Tail(r)]
             z == [x EXCEPT !.ring = <<s>> \o r]
  <1>1. /\ manager \in ManagerState /\ r \in Seq(Site) /\ r # <<>>
        /\ RingOK(manager) /\ ~manager.permFail
    BY DEF ManagerReady, ManagerState, RingOK
  <1>2. /\ x \in ManagerState /\ x.ring = r /\ ~x.permFail
        /\ x.proxies = manager.proxies \cup {s} /\ ~x.lastLeaving
    BY <1>1 DEF ManagerState
  <1>3. Current(r) \in Site
    BY <1>1, EmptyRing
  <1>4. CASE manager.lastLeaving /\ Current(r) = s
    <2>1. Joined(s).st = x /\ Joined(s).out = Silent
      BY <1>4 DEF Joined, Result
    <2> HIDE DEF x
    <2>2. Range(r) = {s}
      <3>1. Len(r) = 1 /\ DOMAIN r = 1..Len(r)
        BY <1>1, <1>4, LenProperties DEF RingOK
      <3>2. DOMAIN r = {1} /\ r[1] = s
        BY <1>4, <3>1 DEF Current
      <3> QED
        BY <3>2 DEF Range
    <2>3. RingOK(x) /\ \A q : Inside(x, q) => q \in {s}
      BY <1>1, <1>2, <2>2 DEF RingOK, Inside
    <2> QED
      BY <1>2, <2>1, <2>3, SilentPlain DEF Managed
  <1>5. CASE manager.lastLeaving /\ Current(r) # s
    <2>1. /\ Joined(s).st = y
          /\ Joined(s).out = Both(To(Current(r), Forward(s)), To(s, Forward(s)))
      BY <1>5 DEF Joined, Result
    <2>2. Plain(Joined(s).out)
      <3>1. Plain(To(Current(r), Forward(s))) /\ Plain(To(s, Forward(s)))
        BY PlainNotices
      <3> QED
        BY <2>1, <3>1, BothPlain
    <2>3. Tail(r) = <<>>
      <3>1. Len(r) = 1
        BY <1>1, <1>5 DEF RingOK
      <3>2. Tail(r) \in Seq(Site) /\ Len(Tail(r)) = 0
        BY <1>1, <3>1, HeadTailProperties
      <3> HIDE DEF r
      <3> QED
        BY <3>2, EmptySeq
    <2>4. /\ <<s>> \o Tail(r) \in Seq(Site) /\ <<s>> \o Tail(r) # <<>>
          /\ Range(<<s>> \o Tail(r)) \subseteq {s}
          /\ IsInjective(<<s>> \o Tail(r))
      BY <2>3, EmptyRing, PushedRing
    <2> DEFINE t == <<s>> \o Tail(r)
    <2> HIDE DEF x, t
    <2>5. /\ y \in ManagerState /\ y.ring = t /\ ~y.permFail
          /\ y.proxies = manager.proxies \cup {s} /\ ~y.lastLeaving
      BY <1>2, <2>4 DEF ManagerState, t
    <2> HIDE DEF y
    <2>6. RingOK(y) /\ \A q : Inside(y, q) => q \in {s}
      BY <2>4, <2>5 DEF RingOK, Inside, t
    <2> QED
      BY <2>1, <2>2, <2>5, <2>6 DEF Managed
  <1>6. CASE ~manager.lastLeaving
    <2>1. /\ Joined(s).st = z
          /\ Joined(s).out = Both(To(Predecessor(r), Forward(s)),
                                  To(s, Forward(Current(r))))
      BY <1>6 DEF Joined, Result
    <2>2. Plain(Joined(s).out)
      <3>1. /\ Plain(To(Predecessor(r), Forward(s)))
            /\ Plain(To(s, Forward(Current(r))))
        BY <1>3, PlainNotices
      <3> QED
        BY <2>1, <3>1, BothPlain
    <2>3. s \notin Range(r)
      BY <1>6 DEF Inside
    <2>4. /\ <<s>> \o r \in Seq(Site) /\ <<s>> \o r # <<>>
          /\ Range(<<s>> \o r) \subseteq Range(r) \cup {s}
          /\ IsInjective(<<s>> \o r)
      BY <1>1, <2>3, PushedRing DEF RingOK
    <2> DEFINE t == <<s>> \o r
    <2> HIDE DEF x, t
    <2>5. /\ z \in ManagerState /\ z.ring = t /\ ~z.permFail
          /\ z.proxies = manager.proxies \cup {s} /\ ~z.lastLeaving
      BY <1>2, <2>4 DEF ManagerState, t
    <2> HIDE DEF z
    <2>6. RingOK(z) /\ \A q : Inside(z, q) => Inside(manager, q) \/ q \in {s}
      BY <1>1, <1>6, <2>4, <2>5 DEF RingOK, Inside, t
    <2> QED
      BY <2>1, <2>2, <2>5, <2>6 DEF Managed
  <1> QED
    BY <1>4, <1>5, <1>6

-----------------------------------------------------------------------------
(* The inductive invariant.                                                *)

(* A site is only told of crashes that have happened.                      *)
Detected == \A p, s \in Site : s \in perm[p] => ~alive[s]

(* A proxy in the ring is not garbage collected.                           *)
InRingReachable == \A p \in Site : proxy[p].isInRing => proxy[p].isReachable

(* The manager's ring is in order, and so is what each proxy has sent it.  *)
RingInv ==
    alive[Home] =>
        /\ RingOK(manager)
        /\ \A s \in Site :
              Alternates(chan[<<s, Home>>], Inside(manager, s),
                         alive[s] /\ ~proxy[s].isInRing)

(* The token is at one site, or under way once, or lost.                   *)
TokenUnique ==
    /\ \A p, q \in Site : Holder(p) /\ Holder(q) => p = q
    /\ (\E p \in Site : Holder(p)) => NoneOf(chan, Tokens)
    /\ OnlyOne(chan, Tokens)

(* A proxy that has been deleted was not in the ring; the home proxy is    *)
(* never deleted.                                                          *)
AbsentOutside ==
    \A p \in Site : ~proxy[p].present => ~proxy[p].isInRing /\ p # Home

Consistent == TypeOK /\ Detected /\ InRingReachable /\ RingInv

IInv == Consistent /\ AbsentOutside /\ TokenUnique

LEMMA SentHome ==
    ASSUME Detected, alive[Home], NEW p \in Site, NEW c, NEW out, NEW q \in Site
    PROVE  Sent(c, p, out)[<<q, Home>>] =
              IF q = p THEN c[<<q, Home>>] \o out[Home] ELSE c[<<q, Home>>]
  <1>1. Home \notin perm[p] /\ <<q, Home>> \in Site \X Site
    BY HomeAssumption DEF Detected
  <1> QED
    BY <1>1 DEF Sent

(* The proxy of p goes to r.st and sends r.out over the channels c, which  *)
(* are in order when the manager has done its part.                        *)
LEMMA RingSent ==
    ASSUME Consistent, alive[Home], NEW p \in Site, alive[p],
           NEW c \in [Site \X Site -> Seq(Message)],
           NEW r, Handled(proxy[p], r), NEW n, RingOK(n),
           \A q \in Site : Alternates(c[<<q, Home>>], Inside(n, q),
                                      alive[q] /\ ~proxy[q].isInRing),
           NEW q \in Site
    PROVE  Alternates(Sent(c, p, r.out)[<<q, Home>>], Inside(n, q),
                      alive[q] /\ ~[proxy EXCEPT ![p] = r.st][q].isInRing)
  <1> DEFINE d == c[<<q, Home>>]
             o == r.out[Home]
             f == Inside(n, q)
  <1>1. Alternates(d, f, alive[q] /\ ~proxy[q].isInRing)
    OBVIOUS
  <1>2. d \in Seq(Message) /\ o \in Seq(Message)
    BY HomeAssumption DEF Handled
  <1>3. Detected /\ proxy \in [Site -> ProxyState]
    BY DEF Consistent, TypeOK
  <1>4. Sent(c, p, r.out)[<<q, Home>>] = IF q = p THEN d \o o ELSE d
    BY <1>3, SentHome
  <1>5. CASE q = p
    <2>1. Sent(c, p, r.out)[<<q, Home>>] = d \o o
      BY <1>4, <1>5
    <2>2. [proxy EXCEPT ![p] = r.st][q] = r.st
      BY <1>3, <1>5
    <2> HIDE DEF d, o, f
    <2>3. Alternates(d, f, ~proxy[p].isInRing)
      BY <1>1, <1>5, AlternatesWeakly
    <2>4. Orderly(proxy[p], r.st, o)
      BY DEF Handled, o
    <2>5. Alternates(d \o o, f, ~r.st.isInRing)
      BY <1>2, <2>3, <2>4, OrderlySends
    <2>6. Alternates(d \o o, f, alive[q] /\ ~r.st.isInRing)
      BY <2>5, AlternatesWeakly
    <2> QED
      BY <2>1, <2>2, <2>6 DEF f
  <1>6. CASE q # p
    <2>1. Sent(c, p, r.out)[<<q, Home>>] = d
      BY <1>4, <1>6
    <2>2. [proxy EXCEPT ![p] = r.st][q] = proxy[q]
      BY <1>3, <1>6
    <2> QED
      BY <1>1, <2>1, <2>2
  <1> QED
    BY <1>5, <1>6

LEMMA NewProxyState ==
    ASSUME Consistent, NEW p \in Site, NEW r, Handled(proxy[p], r),
           proxy' = [proxy EXCEPT ![p] = r.st]
    PROVE  proxy' \in [Site -> ProxyState] /\ InRingReachable'
  <1>1. /\ proxy \in [Site -> ProxyState] /\ r.st \in ProxyState
        /\ r.st.isInRing => r.st.isReachable
        /\ InRingReachable
    BY DEF Consistent, TypeOK, Handled
  <1>2. proxy' \in [Site -> ProxyState]
    BY <1>1
  <1>3. \A q \in Site : proxy'[q] = IF q = p THEN r.st ELSE proxy[q]
    BY <1>1
  <1> QED
    BY <1>1, <1>2, <1>3 DEF InRingReachable

(* An operation of p.                                                      *)
LEMMA EmitConsistent ==
    ASSUME Consistent, NEW p \in Site, NEW r, Handled(proxy[p], r),
           Emit(p, r.out), proxy' = [proxy EXCEPT ![p] = r.st],
           UNCHANGED manager, budget' \in Budget
    PROVE  Consistent'
  <1>1. /\ chan' = Sent(chan, p, r.out) /\ alive[p]
        /\ UNCHANGED <<alive, perm, draining>>
    BY DEF Emit, Idle
  <1>2. NetTypeOK(Message) /\ r.out \in [Site -> Seq(Message)]
    BY DEF Consistent, TypeOK, Handled
  <1>3. NetTypeOK(Message)'
    BY <1>2, EmitStep
  <1>4. proxy' \in [Site -> ProxyState] /\ InRingReachable'
    BY NewProxyState
  <1>5. RingInv'
    <2> SUFFICES ASSUME alive[Home]
                 PROVE  /\ RingOK(manager)
                        /\ \A q \in Site :
                              Alternates(chan'[<<q, Home>>], Inside(manager, q),
                                         alive[q] /\ ~proxy'[q].isInRing)
      BY <1>1 DEF RingInv, Inside, RingOK
    <2>1. /\ RingOK(manager)
          /\ \A q \in Site : Alternates(chan[<<q, Home>>], Inside(manager, q),
                                        alive[q] /\ ~proxy[q].isInRing)
      BY DEF Consistent, RingInv
    <2>2. chan \in [Site \X Site -> Seq(Message)]
      BY <1>2 DEF NetTypeOK
    <2> QED
      BY <1>1, <2>1, <2>2, RingSent
  <1>6. Detected'
    BY <1>1 DEF Consistent, Detected
  <1> QED
    BY <1>3, <1>4, <1>5, <1>6 DEF Consistent, TypeOK

(* Site p takes a message from s.  If it is for the manager, this is Home: *)
(* a LEAVE leads out of the ring, an ENTER may lead into it.               *)
LEMMA ConsumeConsistent ==
    ASSUME Consistent, NEW s \in Site, NEW p \in Site, NEW r,
           Handled(proxy[p], r), CanRecv(s, p), Consume(s, p, r.out),
           proxy' = [proxy EXCEPT ![p] = r.st], UNCHANGED budget,
           manager' \in ManagerState, alive[Home] => RingOK(manager'),
           \A q \in Site : Inside(manager', q) =>
              \/ /\ Inside(manager, q)
                 /\ p = Home /\ q = s => Head1(s, p).type # "LEAVE"
              \/ p = Home /\ q = s /\ Head1(s, p).type = "ENTER"
    PROVE  Consistent'
  <1> DEFINE c == [chan EXCEPT ![<<s, p>>] = Tail(@)]
             n == manager'
  <1>1. /\ chan' = Sent(c, p, r.out) /\ alive[p] /\ chan[<<s, p>>] # <<>>
        /\ UNCHANGED <<alive, perm>>
    BY DEF Consume, CanRecv
  <1>2. NetTypeOK(Message) /\ r.out \in [Site -> Seq(Message)] /\ budget \in Budget
    BY DEF Consistent, TypeOK, Handled
  <1>3. NetTypeOK(Message)'
    BY <1>2, ConsumeStep
  <1>4. proxy' \in [Site -> ProxyState] /\ InRingReachable'
    BY NewProxyState
  <1>5. chan \in [Site \X Site -> Seq(Message)] /\ <<s, p>> \in Site \X Site
    BY <1>2 DEF NetTypeOK
  <1>6. c \in [Site \X Site -> Seq(Message)]
    BY <1>1, <1>5, TailType
  <1>7. ASSUME alive[Home], NEW q \in Site
        PROVE  Alternates(c[<<q, Home>>], Inside(n, q),
                          alive[q] /\ ~proxy[q].isInRing)
    <2>1. Alternates(chan[<<q, Home>>], Inside(manager, q),
                     alive[q] /\ ~proxy[q].isInRing)
      BY <1>7 DEF Consistent, RingInv
    <2>2. CASE p = Home /\ q = s
      <3>1. c[<<q, Home>>] = Tail(chan[<<s, p>>])
        BY <1>5, <2>2
      <3>2. chan[<<s, p>>] \in Seq(Message)
        BY <1>5
      <3>3. Inside(n, q) => \/ Head(chan[<<s, p>>]).type = "ENTER"
                            \/ /\ Inside(manager, q)
                               /\ Head(chan[<<s, p>>]).type # "LEAVE"
        BY <2>2 DEF Head1
      <3> QED
        BY <1>1, <2>1, <2>2, <3>1, <3>2, <3>3, AlternatesTail
    <2>3. CASE ~(p = Home /\ q = s)
      <3>1. <<q, Home>> # <<s, p>> /\ <<q, Home>> \in Site \X Site
        BY <2>3, HomeAssumption
      <3>2. c[<<q, Home>>] = chan[<<q, Home>>]
        BY <1>5, <3>1
      <3>3. Inside(n, q) => Inside(manager, q)
        BY <2>3
      <3> QED
        BY <2>1, <3>2, <3>3, AlternatesWeakly
    <2> QED
      BY <2>2, <2>3
  <1> HIDE DEF c
  <1>8. RingInv'
    <2> SUFFICES ASSUME alive[Home]
                 PROVE  /\ RingOK(n)
                        /\ \A q \in Site :
                              Alternates(chan'[<<q, Home>>], Inside(n, q),
                                         alive[q] /\ ~proxy'[q].isInRing)
      BY <1>1 DEF RingInv, Inside, RingOK
    <2> HIDE DEF n
    <2>1. RingOK(n)
      BY DEF n
    <2> QED
      BY <1>1, <1>6, <1>7, <2>1, RingSent, ZenonT(40)
  <1>9. Detected'
    BY <1>1 DEF Consistent, Detected
  <1> QED
    BY <1>2, <1>3, <1>4, <1>8, <1>9 DEF Consistent, TypeOK

(* Site p learns that s has crashed.                                       *)
LEMMA DetectConsistent ==
    ASSUME Consistent, NEW s \in Site, NEW p \in Site, NEW r,
           Handled(proxy[p], r), CanDetect(p, s), Detect(p, s, r.out),
           proxy' = [proxy EXCEPT ![p] = r.st], UNCHANGED budget,
           manager' \in ManagerState, alive[Home] => RingOK(manager'),
           \A q \in Site : Inside(manager', q) => Inside(manager, q)
    PROVE  Consistent'
  <1> DEFINE c == [chan EXCEPT ![<<s, p>>] = <<>>]
             n == manager'
  <1>1. /\ chan' = Sent(c, p, r.out) /\ alive[p] /\ ~alive[s]
        /\ UNCHANGED alive /\ perm' = [perm EXCEPT ![p] = @ \cup {s}]
    BY DEF Detect, CanDetect, Idle
  <1>2. NetTypeOK(Message) /\ r.out \in [Site -> Seq(Message)] /\ budget \in Budget
    BY DEF Consistent, TypeOK, Handled
  <1>3. NetTypeOK(Message)'
    BY <1>2, DetectStep
  <1>4. proxy' \in [Site -> ProxyState] /\ InRingReachable'
    BY NewProxyState
  <1>5. chan \in [Site \X Site -> Seq(Message)] /\ <<s, p>> \in Site \X Site
    BY <1>2 DEF NetTypeOK
  <1>6. c \in [Site \X Site -> Seq(Message)]
    BY <1>5, EmptySeq
  <1>7. ASSUME alive[Home], NEW q \in Site
        PROVE  Alternates(c[<<q, Home>>], Inside(n, q),
                          alive[q] /\ ~proxy[q].isInRing)
    <2>1. Alternates(chan[<<q, Home>>], Inside(manager, q),
                     alive[q] /\ ~proxy[q].isInRing)
      BY <1>7 DEF Consistent, RingInv
    <2>2. CASE p = Home /\ q = s
      <3>1. c[<<q, Home>>] = <<>>
        BY <1>5, <2>2
      <3> QED
        BY <1>1, <2>2, <3>1, AlternatesEmpty
    <2>3. CASE ~(p = Home /\ q = s)
      <3>1. <<q, Home>> # <<s, p>> /\ <<q, Home>> \in Site \X Site
        BY <2>3, HomeAssumption
      <3>2. c[<<q, Home>>] = chan[<<q, Home>>]
        BY <1>5, <3>1
      <3> QED
        BY <2>1, <3>2, AlternatesWeakly
    <2> QED
      BY <2>2, <2>3
  <1> HIDE DEF c
  <1>8. RingInv'
    <2> SUFFICES ASSUME alive[Home]
                 PROVE  /\ RingOK(n)
                        /\ \A q \in Site :
                              Alternates(chan'[<<q, Home>>], Inside(n, q),
                                         alive[q] /\ ~proxy'[q].isInRing)
      BY <1>1 DEF RingInv, Inside, RingOK
    <2> HIDE DEF n
    <2>1. RingOK(n)
      BY DEF n
    <2> QED
      BY <1>1, <1>6, <1>7, <2>1, RingSent
  <1>9. Detected'
    BY <1>1, <1>2 DEF Consistent, Detected, NetTypeOK
  <1> QED
    BY <1>2, <1>3, <1>4, <1>8, <1>9 DEF Consistent, TypeOK

LEMMA CrashConsistent ==
    ASSUME Consistent, NEW s \in Site, Crash(s), UNCHANGED <<proxy, manager>>,
           budget' \in Budget
    PROVE  Consistent'
  <1>1. /\ alive' = [alive EXCEPT ![s] = FALSE] /\ perm' = perm
        /\ \A l \in Site \X Site : chan'[l] = IF l[2] = s THEN <<>> ELSE chan[l]
    BY DEF Crash
  <1>2. NetTypeOK(Message) /\ alive \in [Site -> BOOLEAN]
    BY DEF Consistent, TypeOK, NetTypeOK
  <1>3. NetTypeOK(Message)'
    BY <1>2, CrashStep
  <1>4. \A q \in Site : alive'[q] => alive[q] /\ q # s
    BY <1>1, <1>2
  <1>5. RingInv'
    <2> SUFFICES ASSUME alive'[Home]
                 PROVE  /\ RingOK(manager)
                        /\ \A q \in Site :
                              Alternates(chan'[<<q, Home>>], Inside(manager, q),
                                         alive'[q] /\ ~proxy[q].isInRing)
      BY DEF RingInv, Inside, RingOK
    <2>1. alive[Home] /\ Home # s
      BY <1>4, HomeAssumption
    <2>2. RingOK(manager)
      BY <2>1 DEF Consistent, RingInv
    <2>3. ASSUME NEW q \in Site
          PROVE  Alternates(chan'[<<q, Home>>], Inside(manager, q),
                            alive'[q] /\ ~proxy[q].isInRing)
      <3>1. chan'[<<q, Home>>] = chan[<<q, Home>>]
        BY <1>1, <2>1, HomeAssumption
      <3>2. Alternates(chan[<<q, Home>>], Inside(manager, q),
                       alive[q] /\ ~proxy[q].isInRing)
        BY <2>1 DEF Consistent, RingInv
      <3> QED
        BY <1>4, <3>1, <3>2, AlternatesWeakly, ZenonT(40)
    <2> QED
      BY <2>2, <2>3
  <1>6. Detected' /\ InRingReachable'
    BY <1>1, <1>4 DEF Consistent, Detected, InRingReachable
  <1> QED
    BY <1>3, <1>5, <1>6 DEF Consistent, TypeOK

-----------------------------------------------------------------------------
(* What the steps do to the token, and a lemma for each way to take one.   *)

Holds(x) == x.present /\ ~x.permFail /\ x.hasToken

(* The token is where it was, or lost.                                     *)
Quiet ==
    /\ Keeps(Tokens)
    /\ \A q \in Site : Holder(q)' => Holder(q)

(* Site p had the token and sends it to d.                                 *)
Departure(p) ==
    /\ Holder(p)
    /\ \A q \in Site : ~Holder(q)'
    /\ \E d \in Place : OnlyAt(chan', Tokens, p, d)

(* Site p takes the token from the link from s and sends it on to d.       *)
Passage(s, p) ==
    /\ Carried(chan, <<s, p>>, Tokens)
    /\ \A q \in Site : ~Holder(q)'
    /\ \E d \in Place : OnlyAt(chan', Tokens, p, d)

(* Site p takes the token from the link from s and keeps it.               *)
Arrival(s, p) ==
    /\ Carried(chan, <<s, p>>, Tokens)
    /\ \A q \in Site : Holder(q)' <=> q = p
    /\ NoneOf(chan', Tokens)

TokenStep ==
    \/ Quiet
    \/ \E p \in Site : Departure(p)
    \/ \E s, p \in Site : Passage(s, p) \/ Arrival(s, p)

StepOK == Consistent' /\ AbsentOutside' /\ TokenStep

LEMMA ProxyChanges ==
    ASSUME TypeOK, NEW p \in Site, NEW y, proxy' = [proxy EXCEPT ![p] = y]
    PROVE  /\ proxy'[p] = y
           /\ \A q \in Site : q # p => proxy'[q] = proxy[q]
  BY DEF TypeOK

LEMMA HolderHolds ==
    \A p \in Site : Holder(p) <=> alive[p] /\ Holds(proxy[p])
  BY DEF Holder, Holds

LEMMA StillAbsentOutside ==
    ASSUME TypeOK, AbsentOutside, NEW p \in Site, NEW y,
           proxy' = [proxy EXCEPT ![p] = y],
           ~y.present => ~y.isInRing /\ p # Home
    PROVE  AbsentOutside'
  BY ProxyChanges DEF AbsentOutside

LEMMA QuietStep ==
    ASSUME TypeOK, NEW p \in Site, NEW y, proxy' = [proxy EXCEPT ![p] = y],
           Holds(y) => Holds(proxy[p]), \A q \in Site : alive'[q] => alive[q],
           Keeps(Tokens)
    PROVE  Quiet
  <1>1. ASSUME NEW q \in Site, Holder(q)'
        PROVE  Holder(q)
    <2>1. alive[q] /\ Holds(proxy'[q])
      BY <1>1 DEF Holder, Holds
    <2>2. Holds(proxy[q])
      BY <2>1, ProxyChanges
    <2> QED
      BY <2>1, <2>2, HolderHolds
  <1> QED
    BY <1>1 DEF Quiet

(* An operation of p that does not send the token.                         *)
LEMMA OperationOK ==
    ASSUME IInv, NEW p \in Site, NEW r, Handled(proxy[p], r),
           Without(r.out, Tokens), Holds(r.st) => Holds(proxy[p]),
           ~r.st.present => ~r.st.isInRing /\ p # Home,
           Emit(p, r.out), proxy' = [proxy EXCEPT ![p] = r.st],
           UNCHANGED manager, budget' \in Budget
    PROVE  StepOK
  <1>1. /\ Consistent /\ AbsentOutside /\ TypeOK /\ NetTypeOK(Message)
        /\ r.out \in [Site -> Seq(Message)] /\ alive' = alive
    BY DEF IInv, Consistent, TypeOK, Handled, Emit
  <1>2. Consistent'
    BY <1>1, EmitConsistent
  <1>3. AbsentOutside'
    BY <1>1, StillAbsentOutside
  <1>4. Keeps(Tokens)
    BY <1>1, EmitStep
  <1>5. Quiet
    BY <1>1, <1>4, QuietStep
  <1> QED
    BY <1>2, <1>3, <1>5 DEF StepOK, TokenStep

LEMMA HeadMessage ==
    ASSUME TypeOK, NEW s \in Site, NEW p \in Site, CanRecv(s, p)
    PROVE  /\ Head1(s, p) \in Message
           /\ Head1(s, p) = Head(chan[<<s, p>>])
           /\ Head1(s, p) \in Tokens => Carried(chan, <<s, p>>, Tokens)
  <1>1. chan[<<s, p>>] \in Seq(Message) /\ chan[<<s, p>>] # <<>>
    BY DEF TypeOK, NetTypeOK, CanRecv
  <1> DEFINE q == chan[<<s, p>>]
  <1> HIDE DEF q
  <1>2. Head(q) \in Message /\ 1 \in DOMAIN q /\ q[1] = Head(q)
    BY <1>1, HeadTailProperties, LenProperties DEF q
  <1> QED
    BY <1>2 DEF Head1, Carried, q

(* Site p takes a message from s; the token only if it is not sent on.     *)
LEMMA ConsumeQuiet ==
    ASSUME IInv, NEW s \in Site, NEW p \in Site, NEW r, Handled(proxy[p], r),
           Without(r.out, Tokens), Holds(r.st) => Holds(proxy[p]),
           CanRecv(s, p), Consume(s, p, r.out),
           proxy' = [proxy EXCEPT ![p] = r.st]
    PROVE  Quiet
  <1>1. /\ TypeOK /\ NetTypeOK(Message)
        /\ r.out \in [Site -> Seq(Message)] /\ alive' = alive
    BY DEF IInv, Consistent, TypeOK, Handled, Consume
  <1>2. Keeps(Tokens)
    BY <1>1, ConsumeStep
  <1> QED
    BY <1>1, <1>2, QuietStep

(* The proxy of p takes a message from s.                                  *)
LEMMA ProxyConsumes ==
    ASSUME IInv, NEW s \in Site, NEW p \in Site, NEW r, Handled(proxy[p], r),
           r.st.present = proxy[p].present, r.st.isInRing => r.st.present,
           CanRecv(s, p), Head1(s, p).to = "proxy", Consume(s, p, r.out),
           proxy' = [proxy EXCEPT ![p] = r.st], UNCHANGED <<manager, budget>>
    PROVE  Consistent' /\ AbsentOutside'
  <1>1. /\ Consistent /\ AbsentOutside /\ TypeOK /\ manager \in ManagerState
        /\ alive[Home] => RingOK(manager)
    BY DEF IInv, Consistent, TypeOK, RingInv
  <1>2. Head1(s, p).type # "LEAVE"
    BY <1>1, HeadMessage, MessageFields
  <1>3. Consistent'
    BY <1>1, <1>2, ConsumeConsistent DEF Inside, RingOK
  <1>4. AbsentOutside'
    BY <1>1, StillAbsentOutside DEF AbsentOutside
  <1> QED
    BY <1>3, <1>4

-----------------------------------------------------------------------------
(* The operations of a proxy.                                              *)

LEMMA SpendType ==
    ASSUME budget \in Budget, NEW b \in {"access", "weak", "kill", "import", "crash"},
           Spend(b)
    PROVE  budget' \in Budget
  <1>1. budget[b] - 1 \in Nat
    BY DEF Spend, Budget
  <1> QED
    BY <1>1 DEF Spend, Budget

LEMMA ProxyFacts ==
    ASSUME IInv, NEW p \in Site
    PROVE  /\ proxy[p] \in ProxyState
           /\ proxy[p].isInRing => proxy[p].isReachable
           /\ TypeOK /\ budget \in Budget /\ proxy \in [Site -> ProxyState]
  BY DEF IInv, Consistent, TypeOK, InRingReachable

LEMMA AccessStep ==
    ASSUME IInv, NEW p \in Site, Access(p)
    PROVE  StepOK
  <1> DEFINE x == proxy[p]
             y == [Entered(x) EXCEPT !.waiting = TRUE]
             r == Result(y, EnterOut(x))
             e == Result(Entered(x), EnterOut(x))
  <1>1. x \in ProxyState /\ (x.isInRing => x.isReachable)
    BY ProxyFacts
  <1>2. /\ Handled(x, e) /\ KeepsToken(x, e)
        /\ e.st = Entered(x) /\ e.out = EnterOut(x)
    BY <1>1, EnteredResult DEF Result
  <1>3. /\ Handled(x, e) /\ Without(EnterOut(x), Tokens)
        /\ Entered(x) \in ProxyState
    BY <1>2 DEF KeepsToken, Handled
  <1>4. /\ y \in ProxyState /\ y.isInRing = Entered(x).isInRing
        /\ y.isReachable = Entered(x).isReachable
        /\ y.hasToken = Entered(x).hasToken
    BY <1>3 DEF ProxyState
  <1>5. r.st = y /\ r.out = EnterOut(x)
    BY DEF Result
  <1>6. Handled(x, r)
    <2> HIDE DEF y, r, e
    <2> QED
      BY <1>2, <1>4, <1>5 DEF Handled, Orderly
  <1>7. /\ x.present /\ ~x.permFail /\ ~x.hasToken
        /\ Emit(p, EnterOut(x)) /\ proxy' = [proxy EXCEPT ![p] = y]
        /\ UNCHANGED manager /\ Spend("access")
    BY DEF Access
  <1>8. y.present = x.present /\ ~y.hasToken
    BY <1>1, <1>7 DEF Entered, ProxyState
  <1>9. budget' \in Budget
    BY <1>7, ProxyFacts, SpendType
  <1>10. Holds(y) => Holds(x)
    BY <1>8 DEF Holds
  <1> HIDE DEF x, y, r, e
  <1> QED
    BY <1>3, <1>5, <1>6, <1>7, <1>8, <1>9, <1>10, OperationOK DEF x

(* The proxy of p stays outside the ring, or where it is.                  *)
LEMMA PlainOperation ==
    ASSUME IInv, NEW p \in Site, NEW y \in ProxyState, NEW out, Plain(out),
           y.isInRing => y.isReachable, ~y.isInRing => ~proxy[p].isInRing,
           y.hasToken => proxy[p].hasToken, Holds(y) => Holds(proxy[p]),
           ~y.present => ~y.isInRing /\ p # Home,
           Emit(p, out), proxy' = [proxy EXCEPT ![p] = y],
           UNCHANGED manager, budget' \in Budget
    PROVE  StepOK
  <1> DEFINE r == Result(y, out)
  <1>1. r.st = y /\ r.out = out
    BY DEF Result
  <1>2. Handled(proxy[p], r) /\ KeepsToken(proxy[p], r)
    BY ProxyFacts, PlainHandled
  <1>3. Without(r.out, Tokens)
    BY <1>2 DEF KeepsToken
  <1> HIDE DEF r
  <1> QED
    BY <1>1, <1>2, <1>3, OperationOK

LEMMA KillStep ==
    ASSUME IInv, NEW p \in Site, Kill(p)
    PROVE  StepOK
  <1>1. /\ Emit(p, sendToManager("PERMFAIL")) /\ UNCHANGED <<proxy, manager>>
        /\ proxy[p].present /\ Spend("kill")
    BY DEF Kill
  <1>2. Plain(sendToManager("PERMFAIL"))
    <2>1. "PERMFAIL" \in ManagerTypes \ {"ENTER", "DEREGISTER", "LEAVE"}
      BY DEF ManagerTypes
    <2> QED
      BY <2>1, SendPlain, ColorTypes DEF sendToManager, Place
  <1>3. budget' \in Budget
    BY <1>1, ProxyFacts, SpendType
  <1>4. proxy' = [proxy EXCEPT ![p] = proxy[p]]
    BY <1>1, ProxyFacts
  <1> QED
    BY <1>1, <1>2, <1>3, <1>4, ProxyFacts, PlainOperation

(* What is sent to the manager, alone.                                     *)
LEMMA SentAlone ==
    ASSUME NEW t \in ManagerTypes
    PROVE  LET m == ToManager(t, NoSite, White) IN
           /\ m \in Message /\ m.type = t
           /\ sendToManager(t) \in [Site -> Seq(Message)]
           /\ sendToManager(t)[Home] = <<m>>
           /\ Without(sendToManager(t), Tokens)
  <1> DEFINE m == ToManager(t, NoSite, White)
  <1>1. m \in Message /\ m.type = t
    BY ToManagerMessage, ColorTypes DEF Place
  <1>2. m \notin Tokens
    BY <1>1 DEF Tokens, OfType, ManagerTypes
  <1>3. sendToManager(t) = To(Home, m)
    BY DEF sendToManager
  <1> HIDE DEF m
  <1>4. To(Home, m)[Home] = <<m>>
    BY HomeAssumption DEF To, Silent
  <1> QED
    BY <1>1, <1>2, <1>3, <1>4, ToType, ToWithout DEF m

LEMMA ClearWeakRootStep ==
    ASSUME IInv, NEW p \in Site, ClearWeakRoot(p)
    PROVE  StepOK
  <1> DEFINE x == proxy[p]
             y == [x EXCEPT !.isInRing = FALSE]
             k == IF x.isInRing THEN "LEAVE" ELSE "COLOR_START"
             m == ToManager(k, NoSite, White)
             r == Result(y, sendToManager(k))
  <1>1. /\ p # Home /\ x.present /\ Spend("weak") /\ UNCHANGED manager
        /\ Emit(p, sendToManager(k)) /\ proxy' = [proxy EXCEPT ![p] = y]
    BY ProxyFacts DEF ClearWeakRoot
  <1>2. /\ y \in ProxyState /\ ~y.isInRing /\ y.present = x.present
        /\ y.hasToken = x.hasToken /\ y.permFail = x.permFail
    BY ProxyFacts DEF ProxyState
  <1>3. k \in ManagerTypes /\ (x.isInRing => k = "LEAVE")
        /\ k \notin {"ENTER", "DEREGISTER"}
    BY DEF ManagerTypes
  <1> HIDE DEF x, y, k
  <1>4. /\ m \in Message /\ m.type = k /\ sendToManager(k)[Home] = <<m>>
        /\ sendToManager(k) \in [Site -> Seq(Message)]
        /\ Without(sendToManager(k), Tokens)
    BY <1>3, SentAlone
  <1>5. r.st = y /\ r.out = sendToManager(k)
    BY DEF Result
  <1>6. budget' \in Budget
    BY <1>1, ProxyFacts, SpendType
  <1> HIDE DEF m, r
  <1>7. Orderly(x, y, <<m>>)
    <2>1. m \notin Claims
      BY <1>3, <1>4 DEF Claims, OfType
    <2>2. \A i \in DOMAIN <<m>> : <<m>>[i] = m
      OBVIOUS
    <2>3. 1 \in DOMAIN <<m>>
      OBVIOUS
    <2> QED
      BY <1>3, <1>4, <2>1, <2>2, <2>3 DEF Orderly
  <1>8. Handled(x, r)
    BY <1>2, <1>4, <1>5, <1>7 DEF Handled
  <1>9. Holds(y) => Holds(x)
    BY <1>2 DEF Holds
  <1> QED
    BY <1>1, <1>2, <1>4, <1>5, <1>6, <1>8, <1>9, OperationOK DEF x

LEMMA NewProxies ==
    /\ RemoteProxy \in ProxyState /\ NoProxy \in ProxyState
    /\ ~RemoteProxy.isInRing /\ ~NoProxy.isInRing
    /\ ~RemoteProxy.hasToken /\ ~NoProxy.hasToken /\ RemoteProxy.present
    /\ HomeProxy \in ProxyState /\ HomeProxy.isReachable
    /\ HomeProxy.isInRing /\ HomeProxy.present
  <1>1. HomeProxy \in ProxyState /\ HomeProxy.isReachable
        /\ HomeProxy.isInRing /\ HomeProxy.present
    <2>1. Darkened(White, TRUE) \in Color
      BY DEF Darkened, White, Color
    <2>2. Home \in Place /\ 0 \in Int
      BY HomeAssumption DEF Place
    <2> QED
      BY <2>1, <2>2 DEF HomeProxy, ProxyState
  <1> HIDE DEF HomeProxy
  <1>2. /\ RemoteProxy \in ProxyState /\ ~RemoteProxy.isInRing
        /\ ~RemoteProxy.hasToken /\ RemoteProxy.present
    BY <1>1 DEF RemoteProxy, ProxyState, Place
  <1>3. NoProxy \in ProxyState /\ ~NoProxy.isInRing /\ ~NoProxy.hasToken
    BY <1>2 DEF NoProxy, ProxyState
  <1> QED
    BY <1>1, <1>2, <1>3

LEMMA DeleteProxyStep ==
    ASSUME IInv, NEW p \in Site, DeleteProxy(p)
    PROVE  StepOK
  <1> DEFINE x == proxy[p]
             y == NoProxy
             m == ToManager("DEREGISTER", NoSite, White)
             out == IF x.permFail THEN Silent ELSE sendToManager("DEREGISTER")
             r == Result(y, out)
  <1>1. /\ p # Home /\ ~x.isReachable /\ UNCHANGED <<manager, budget>>
        /\ Emit(p, out) /\ proxy' = [proxy EXCEPT ![p] = y]
    BY DEF DeleteProxy
  <1>2. ~x.isInRing
    BY <1>1, ProxyFacts
  <1>3. y \in ProxyState /\ ~y.isInRing /\ ~y.hasToken
    BY NewProxies
  <1> HIDE DEF x, y
  <1>4. Orderly(x, y, out[Home]) /\ out \in [Site -> Seq(Message)]
        /\ Without(out, Tokens)
    <2>1. CASE x.permFail
      <3>1. out = Silent
        BY <2>1
      <3> HIDE DEF out
      <3>2. out[Home] = <<>>
        BY <3>1, HomeAssumption DEF Silent
      <3> QED
        BY <1>2, <3>1, <3>2, SilentType, SilentWithout DEF Orderly
    <2>2. CASE ~x.permFail
      <3>1. out = sendToManager("DEREGISTER") /\ "DEREGISTER" \in ManagerTypes
        BY <2>2 DEF ManagerTypes
      <3> HIDE DEF out
      <3>2. /\ m \in Message /\ m.type = "DEREGISTER" /\ out[Home] = <<m>>
            /\ out \in [Site -> Seq(Message)] /\ Without(out, Tokens)
        BY <3>1, SentAlone
      <3> HIDE DEF m
      <3> QED
        BY <1>2, <3>2 DEF Orderly
    <2> QED
      BY <2>1, <2>2
  <1>5. r.st = y /\ r.out = out
    BY DEF Result
  <1>6. budget' \in Budget
    BY <1>1, ProxyFacts
  <1> HIDE DEF out, r
  <1>7. Handled(x, r)
    BY <1>3, <1>4, <1>5 DEF Handled
  <1>8. ~Holds(y)
    BY <1>3 DEF Holds
  <1> QED
    BY <1>1, <1>3, <1>4, <1>5, <1>6, <1>7, <1>8, OperationOK DEF x

LEMMA ImportProxyStep ==
    ASSUME IInv, NEW p \in Site, ImportProxy(p)
    PROVE  StepOK
  <1> DEFINE y == IF Home \in perm[p] THEN LostToken(RemoteProxy)
                  ELSE RemoteProxy
  <1>1. /\ ~proxy[p].present /\ Spend("import") /\ UNCHANGED manager
        /\ Emit(p, Silent) /\ proxy' = [proxy EXCEPT ![p] = y]
    BY DEF ImportProxy
  <1>2. y \in ProxyState /\ y.present /\ ~y.isInRing /\ ~y.hasToken
    BY NewProxies, LostTokenResult
  <1>3. ~proxy[p].isInRing
    BY <1>1 DEF IInv, AbsentOutside
  <1>4. budget' \in Budget
    BY <1>1, ProxyFacts, SpendType
  <1>5. ~Holds(y)
    BY <1>2 DEF Holds
  <1> HIDE DEF y
  <1> QED
    BY <1>1, <1>2, <1>3, <1>4, <1>5, SilentPlain, PlainOperation

LEMMA OperationStep ==
    ASSUME IInv, NEW p \in Site, Operation(p)
    PROVE  StepOK
  BY AccessStep, KillStep, ClearWeakRootStep, DeleteProxyStep, ImportProxyStep
  DEF Operation

-----------------------------------------------------------------------------
(* The messages to a proxy.                                                *)

LEMMA ProxyIgnoresStep ==
    ASSUME IInv, NEW s \in Site, NEW p \in Site, ProxyIgnores(s, p)
    PROVE  StepOK
  <1> DEFINE r == Result(proxy[p], Silent)
  <1>1. /\ CanRecv(s, p) /\ Head1(s, p).to = "proxy"
        /\ Consume(s, p, Silent) /\ UNCHANGED <<proxy, manager, budget>>
    BY DEF ProxyIgnores
  <1>2. r.st = proxy[p] /\ r.out = Silent
    BY DEF Result
  <1>3. Handled(proxy[p], r) /\ Without(Silent, Tokens)
    BY ProxyFacts, PlainHandled, SilentPlain, SilentWithout
  <1>4. proxy' = [proxy EXCEPT ![p] = proxy[p]]
    BY <1>1, ProxyFacts
  <1>5. proxy[p].isInRing => proxy[p].present
    BY ProxyFacts DEF IInv, AbsentOutside, ProxyState
  <1> HIDE DEF r
  <1>6. Quiet
    BY <1>1, <1>2, <1>3, <1>4, ConsumeQuiet
  <1>7. Consistent' /\ AbsentOutside'
    BY <1>1, <1>2, <1>3, <1>4, <1>5, ProxyConsumes
  <1> QED
    BY <1>6, <1>7 DEF StepOK, TokenStep

(* What the handlers have in common.                                       *)
LEMMA ProxyHandlesFacts ==
    ASSUME IInv, NEW s \in Site, NEW p \in Site, NEW t, NEW r,
           ProxyHandles(s, p, t, r), Handled(proxy[p], r),
           r.st.present = proxy[p].present
    PROVE  /\ CanRecv(s, p) /\ Consume(s, p, r.out)
           /\ Head1(s, p) \in Message /\ Head1(s, p).type = t
           /\ proxy[p].present /\ ~proxy[p].permFail /\ alive[p]
           /\ proxy' = [proxy EXCEPT ![p] = r.st]
           /\ Consistent' /\ AbsentOutside'
  <1>1. /\ CanRecv(s, p) /\ Head1(s, p).to = "proxy" /\ Head1(s, p).type = t
        /\ proxy[p].present /\ ~proxy[p].permFail /\ Consume(s, p, r.out)
        /\ proxy' = [proxy EXCEPT ![p] = r.st] /\ UNCHANGED <<manager, budget>>
    BY DEF ProxyHandles
  <1>2. Consistent' /\ AbsentOutside'
    BY <1>1, ProxyConsumes
  <1>3. Head1(s, p) \in Message /\ alive[p]
    BY <1>1, ProxyFacts, HeadMessage DEF CanRecv
  <1> QED
    BY <1>1, <1>2, <1>3

LEMMA QuietMessage ==
    ASSUME IInv, NEW s \in Site, NEW p \in Site, NEW t, NEW r,
           ProxyHandles(s, p, t, r), Handled(proxy[p], r),
           KeepsToken(proxy[p], r), r.st.present = proxy[p].present
    PROVE  StepOK
  <1>1. /\ CanRecv(s, p) /\ Consume(s, p, r.out)
        /\ proxy[p].present /\ ~proxy[p].permFail
        /\ proxy' = [proxy EXCEPT ![p] = r.st]
        /\ Consistent' /\ AbsentOutside'
    BY ProxyHandlesFacts
  <1>2. Without(r.out, Tokens) /\ (Holds(r.st) => Holds(proxy[p]))
    BY <1>1 DEF KeepsToken, Holds
  <1>3. Quiet
    BY <1>1, <1>2, ConsumeQuiet
  <1> QED
    BY <1>1, <1>3 DEF StepOK, TokenStep

(* Site p has no token after the step, nor has any other.                  *)
LEMMA NoHolder ==
    ASSUME IInv, NEW p \in Site, NEW y, proxy' = [proxy EXCEPT ![p] = y],
           ~Holds(y), UNCHANGED alive, \A q \in Site : Holder(q) => q = p
    PROVE  \A q \in Site : ~Holder(q)'
  <1> SUFFICES ASSUME NEW q \in Site, Holder(q)'
               PROVE  FALSE
    OBVIOUS
  <1>1. alive[q] /\ Holds(proxy'[q])
    BY DEF Holder, Holds
  <1>2. q # p
    BY <1>1, ProxyFacts, ProxyChanges
  <1>3. Holder(q)
    BY <1>1, <1>2, ProxyFacts, ProxyChanges, HolderHolds
  <1> QED
    BY <1>2, <1>3

LEMMA GetForwardStep ==
    ASSUME IInv, NEW s \in Site, NEW p \in Site,
           ProxyHandles(s, p, "FORWARD", GetForward(p, proxy[p], Head1(s, p)))
    PROVE  StepOK
  <1> DEFINE x == proxy[p]
             r == GetForward(p, x, Head1(s, p))
  <1>1. Head1(s, p) \in Message
    BY ProxyFacts, HeadMessage DEF ProxyHandles
  <1>2. /\ Handled(x, r) /\ r.st.present = x.present
        /\ KeepsToken(x, r) \/ (x.hasToken /\ SendsToken(r))
    BY <1>1, ProxyFacts, GetForwardResult
  <1>3. CASE KeepsToken(x, r)
    BY <1>2, <1>3, QuietMessage
  <1> HIDE DEF r
  <1>4. CASE x.hasToken /\ SendsToken(r)
    <2>1. /\ CanRecv(s, p) /\ Consume(s, p, r.out) /\ alive[p]
          /\ x.present /\ ~x.permFail /\ proxy' = [proxy EXCEPT ![p] = r.st]
          /\ Consistent' /\ AbsentOutside'
      BY <1>2, ProxyHandlesFacts DEF r
    <2>2. Holder(p)
      BY <1>4, <2>1 DEF Holder
    <2>3. NoneOf(chan, Tokens) /\ \A q \in Site : Holder(q) => q = p
      BY <2>2 DEF IInv, TokenUnique
    <2>4. PICK d \in Place : OnlyFor(r.out, Tokens, d)
      BY <1>4 DEF SendsToken
    <2>5. NetTypeOK(Message) /\ r.out \in [Site -> Seq(Message)]
      BY <1>2, ProxyFacts DEF Handled, TypeOK
    <2>6. OnlyAt(chan', Tokens, p, d)
      BY <2>1, <2>3, <2>4, <2>5, ConsumeSendsToken
    <2>7. ~Holds(r.st) /\ UNCHANGED alive
      BY <1>4, <2>1 DEF SendsToken, Holds, Consume
    <2>8. \A q \in Site : ~Holder(q)'
      BY <2>1, <2>3, <2>7, NoHolder
    <2> QED
      BY <2>1, <2>2, <2>6, <2>8 DEF StepOK, TokenStep, Departure
  <1> QED
    BY <1>2, <1>3, <1>4

LEMMA GetTokenStep ==
    ASSUME IInv, NEW s \in Site, NEW p \in Site,
           ProxyHandles(s, p, "TOKEN", GetToken(p, proxy[p], Head1(s, p)))
    PROVE  StepOK
  <1> DEFINE x == proxy[p]
             r == GetToken(p, x, Head1(s, p))
  <1>1. Head1(s, p) \in Message
    BY ProxyFacts, HeadMessage DEF ProxyHandles
  <1>2. /\ Handled(x, r) /\ r.st.present = x.present
        /\ \/ SendsToken(r)
           \/ Without(r.out, Tokens) /\ r.st.permFail
           \/ /\ Without(r.out, Tokens) /\ r.st.hasToken
              /\ r.st.permFail = x.permFail
    BY <1>1, ProxyFacts, GetTokenResult
  <1> HIDE DEF r
  <1>3. /\ CanRecv(s, p) /\ Consume(s, p, r.out) /\ alive[p]
        /\ x.present /\ ~x.permFail /\ proxy' = [proxy EXCEPT ![p] = r.st]
        /\ Head1(s, p).type = "TOKEN"
        /\ Consistent' /\ AbsentOutside'
    BY <1>2, ProxyHandlesFacts DEF r
  <1>4. Head1(s, p) \in Tokens
    BY <1>1, <1>3 DEF Tokens, OfType
  <1>5. Carried(chan, <<s, p>>, Tokens) /\ Head(chan[<<s, p>>]) \in Tokens
    BY <1>3, <1>4, ProxyFacts, HeadMessage
  <1>6. OnlyOne(chan, Tokens) /\ \A q \in Site : ~Holder(q)
    <2>1. ~NoneOf(chan, Tokens)
      BY <1>5 DEF Carried, NoneOf
    <2> QED
      BY <2>1 DEF IInv, TokenUnique
  <1>7. /\ NetTypeOK(Message) /\ r.out \in [Site -> Seq(Message)]
        /\ UNCHANGED alive
    BY <1>2, <1>3, ProxyFacts DEF Handled, TypeOK, Consume
  <1>8. CASE SendsToken(r)
    <2>1. PICK d \in Place : OnlyFor(r.out, Tokens, d)
      BY <1>8 DEF SendsToken
    <2>2. OnlyAt(chan', Tokens, p, d)
      BY <1>3, <1>5, <1>6, <1>7, <2>1, ConsumeSendsToken
    <2>3. ~Holds(r.st)
      BY <1>8 DEF SendsToken, Holds
    <2>4. \A q \in Site : ~Holder(q)'
      BY <1>3, <1>6, <1>7, <2>3, NoHolder
    <2> QED
      BY <1>3, <1>5, <2>2, <2>4 DEF StepOK, TokenStep, Passage
  <1>9. CASE Without(r.out, Tokens) /\ r.st.permFail
    <2>1. ~Holds(r.st)
      BY <1>9 DEF Holds
    <2>2. Quiet
      BY <1>2, <1>3, <1>9, <2>1, ConsumeQuiet
    <2> QED
      BY <1>3, <2>2 DEF StepOK, TokenStep
  <1>10. CASE /\ Without(r.out, Tokens) /\ r.st.hasToken
              /\ r.st.permFail = x.permFail
    <2>1. NoneOf(chan', Tokens)
      BY <1>3, <1>5, <1>6, <1>7, <1>10, ConsumeToken
    <2>2. Holds(r.st)
      BY <1>2, <1>3, <1>10 DEF Holds
    <2>3. ASSUME NEW q \in Site
          PROVE  Holder(q)' <=> q = p
      <3>1. Holder(q)' <=> alive[q] /\ Holds(proxy'[q])
        BY <1>7 DEF Holder, Holds
      <3>2. CASE q = p
        BY <1>3, <2>2, <3>1, <3>2, ProxyFacts, ProxyChanges
      <3>3. CASE q # p
        BY <1>3, <1>6, <3>1, <3>3, ProxyFacts, ProxyChanges, HolderHolds
      <3> QED
        BY <3>2, <3>3
    <2> QED
      BY <1>3, <1>5, <2>1, <2>3 DEF StepOK, TokenStep, Arrival
  <1> QED
    BY <1>2, <1>8, <1>9, <1>10

LEMMA ProxyReceivesStep ==
    ASSUME IInv, NEW s \in Site, NEW p \in Site, ProxyReceives(s, p)
    PROVE  StepOK
  <1> DEFINE x == proxy[p]
             m == Head1(s, p)
  <1>1. CASE ProxyIgnores(s, p)
    BY <1>1, ProxyIgnoresStep
  <1>2. CASE CanRecv(s, p)
    <2>1. m \in Message /\ x \in ProxyState /\ (x.isInRing => x.isReachable)
      BY <1>2, ProxyFacts, HeadMessage
    <2>2. CASE ProxyHandles(s, p, "FORWARD", GetForward(p, x, m))
      BY <2>2, GetForwardStep
    <2>3. CASE ProxyHandles(s, p, "TOKEN", GetToken(p, x, m))
      BY <2>3, GetTokenStep
    <2> HIDE DEF m
    <2>4. CASE ProxyHandles(s, p, "COLOR_START", GetColorStart(p, x, m))
      BY <2>1, <2>4, GetColorStartResult, QuietMessage
    <2>5. CASE ProxyHandles(s, p, "COLOR", GetColor(p, x, m))
      BY <2>1, <2>5, GetColorResult, QuietMessage
    <2>6. CASE ProxyHandles(s, p, "COLOR_DONE", GetColorDone(p, x, m))
      BY <2>1, <2>6, GetColorDoneResult, QuietMessage
    <2>7. CASE ProxyHandles(s, p, "PERMFAIL", GetPermFail(p, x, m))
      BY <2>1, <2>7, GetPermFailResult, QuietMessage
    <2> QED
      BY <1>1, <2>2, <2>3, <2>4, <2>5, <2>6, <2>7 DEF ProxyReceives, m
  <1>3. CanRecv(s, p)
    BY DEF ProxyReceives, ProxyIgnores, ProxyHandles
  <1> QED
    BY <1>2, <1>3

-----------------------------------------------------------------------------
(* The messages to the manager.                                            *)

(* Home takes a message from s; a LEAVE leads s out of the ring, an ENTER  *)
(* may lead it into the ring.                                              *)
LEMMA HomeConsumes ==
    ASSUME IInv, NEW s \in Site, CanRecv(s, Home), NEW r,
           Handled(proxy[Home], r), Without(r.out, Tokens), r.st.present,
           Holds(r.st) => Holds(proxy[Home]), Consume(s, Home, r.out),
           proxy' = [proxy EXCEPT ![Home] = r.st], UNCHANGED budget,
           manager' \in ManagerState, RingOK(manager'),
           \A q \in Site : Inside(manager', q) =>
              \/ Inside(manager, q) /\ (q = s => Head1(s, Home).type # "LEAVE")
              \/ q = s /\ Head1(s, Home).type = "ENTER"
    PROVE  StepOK
  <1>1. Consistent /\ AbsentOutside /\ TypeOK
    BY DEF IInv, Consistent
  <1>2. Consistent'
    BY <1>1, HomeAssumption, ConsumeConsistent
  <1>3. AbsentOutside'
    BY <1>1, HomeAssumption, StillAbsentOutside
  <1>4. Quiet
    BY HomeAssumption, ConsumeQuiet
  <1> QED
    BY <1>2, <1>3, <1>4 DEF StepOK, TokenStep

(* The manager answers with out, and the home proxy does nothing.          *)
LEMMA ManagerAnswers ==
    ASSUME IInv, NEW s \in Site, CanRecv(s, Home), NEW out, Plain(out),
           Consume(s, Home, out), UNCHANGED <<proxy, budget>>,
           manager' \in ManagerState, RingOK(manager'),
           \A q \in Site : Inside(manager', q) =>
              \/ Inside(manager, q) /\ (q = s => Head1(s, Home).type # "LEAVE")
              \/ q = s /\ Head1(s, Home).type = "ENTER"
    PROVE  StepOK
  <1> DEFINE x == proxy[Home]
             r == Result(x, out)
  <1>1. /\ x \in ProxyState /\ (x.isInRing => x.isReachable)
        /\ proxy' = [proxy EXCEPT ![Home] = x]
    BY HomeAssumption, ProxyFacts
  <1>2. x.present
    BY HomeAssumption DEF IInv, AbsentOutside
  <1>3. r.st = x /\ r.out = out
    BY DEF Result
  <1>4. Handled(x, r) /\ Without(out, Tokens)
    BY <1>1, PlainHandled, PlainTokens
  <1> HIDE DEF r
  <1> QED
    BY <1>1, <1>2, <1>3, <1>4, HomeConsumes

LEMMA ManagerFacts ==
    ASSUME IInv, alive[Home]
    PROVE  /\ manager \in ManagerState /\ RingOK(manager)
           /\ ~manager.permFail => ManagerReady
           /\ manager.permFail => \A q : ~Inside(manager, q)
  <1>1. manager \in ManagerState /\ RingOK(manager)
    BY DEF IInv, Consistent, TypeOK, RingInv
  <1>2. manager.permFail => \A q : ~Inside(manager, q)
    BY <1>1, EmptyRing DEF RingOK, Inside
  <1> QED
    BY <1>1, <1>2 DEF ManagerReady

(* A proxy that enters or deregisters is not inside the ring.              *)
LEMMA ClaimFromOutside ==
    ASSUME IInv, NEW s \in Site, CanRecv(s, Home),
           Head1(s, Home).type \in {"ENTER", "DEREGISTER"}
    PROVE  ~Inside(manager, s)
  <1> DEFINE q == chan[<<s, Home>>]
  <1>1. alive[Home] /\ q # <<>> /\ q \in Seq(Message)
    BY HomeAssumption, ProxyFacts DEF CanRecv, TypeOK, NetTypeOK
  <1>2. Alternates(q, Inside(manager, s), alive[s] /\ ~proxy[s].isInRing)
    BY <1>1 DEF IInv, Consistent, RingInv
  <1>3. Head(q).type = "ENTER" \/ Head(q).type = "DEREGISTER"
    BY DEF Head1
  <1> HIDE DEF q
  <1> QED
    BY <1>1, <1>2, <1>3, AlternatesTail

LEMMA ManagerRefusesStep ==
    ASSUME IInv, NEW s \in Site, ManagerRefuses(s)
    PROVE  StepOK
  <1>1. /\ CanRecv(s, Home) /\ manager.permFail /\ alive[Home]
        /\ Consume(s, Home, To(s, Notice("PERMFAIL")))
        /\ UNCHANGED <<proxy, manager, budget>>
    BY DEF ManagerRefuses, CanRecv
  <1>2. Plain(To(s, Notice("PERMFAIL")))
    BY PlainNotices
  <1>3. manager' \in ManagerState /\ RingOK(manager')
        /\ \A q : ~Inside(manager', q)
    BY <1>1, ManagerFacts
  <1> QED
    BY <1>1, <1>2, <1>3, ManagerAnswers

(* A message that lets nobody but the sender of an ENTER into the ring.    *)
LEMMA ManagerHandlesStep ==
    ASSUME IInv, NEW s \in Site, NEW t, NEW r, NEW S, ManagerHandles(s, t, r),
           Managed(r, S), t # "LEAVE", S = {} \/ (S = {s} /\ t = "ENTER")
    PROVE  StepOK
  <1>1. /\ CanRecv(s, Home) /\ Head1(s, Home).type = t
        /\ Consume(s, Home, r.out) /\ manager' = r.st
        /\ UNCHANGED <<proxy, budget>>
    BY DEF ManagerHandles, ManagerGets
  <1>2. /\ manager' \in ManagerState /\ RingOK(manager') /\ Plain(r.out)
        /\ \A q : Inside(manager', q) => Inside(manager, q) \/ q \in S
    BY <1>1 DEF Managed
  <1> QED
    BY <1>1, <1>2, ManagerAnswers

LEMMA ManagerGetsReady ==
    ASSUME IInv, NEW s, NEW t, ManagerGets(s, t)
    PROVE  ManagerReady /\ CanRecv(s, Home) /\ Head1(s, Home).type = t
  BY ManagerFacts DEF ManagerGets, CanRecv

LEMMA DeregisterStep ==
    ASSUME IInv, NEW s \in Site, Deregister(s)
    PROVE  StepOK
  <1> DEFINE y == [manager EXCEPT !.proxies = @ \ {s}]
             r == Result(y, Silent)
  <1>1. ManagerHandles(s, "DEREGISTER", r) /\ ManagerGets(s, "DEREGISTER")
    BY DEF Deregister, ManagerHandles
  <1>2. /\ ManagerReady /\ CanRecv(s, Home)
        /\ Head1(s, Home).type = "DEREGISTER"
    BY <1>1, ManagerGetsReady
  <1>3. ~Inside(manager, s)
    BY <1>2, ClaimFromOutside
  <1>4. manager \in ManagerState /\ RingOK(manager)
    BY <1>2 DEF ManagerReady
  <1>5. /\ y \in ManagerState /\ y.ring = manager.ring
        /\ y.lastLeaving = manager.lastLeaving /\ y.permFail = manager.permFail
        /\ y.proxies = manager.proxies \ {s}
    BY <1>4 DEF ManagerState
  <1>6. r.st = y /\ r.out = Silent
    BY DEF Result
  <1> HIDE DEF y, r
  <1>7. RingOK(y) /\ \A q : Inside(y, q) => Inside(manager, q)
    BY <1>3, <1>4, <1>5 DEF RingOK, Inside
  <1>8. Managed(r, {})
    BY <1>5, <1>6, <1>7, SilentPlain DEF Managed
  <1> QED
    BY <1>1, <1>8, ManagerHandlesStep

LEMMA EnterStep ==
    ASSUME IInv, NEW s \in Site, Enter(s)
    PROVE  StepOK
  <1>1. ManagerHandles(s, "ENTER", Joined(s)) /\ ManagerGets(s, "ENTER")
    BY DEF Enter, ManagerHandles
  <1>2. /\ ManagerReady /\ CanRecv(s, Home)
        /\ Head1(s, Home).type = "ENTER"
    BY <1>1, ManagerGetsReady
  <1>3. ~Inside(manager, s)
    BY <1>2, ClaimFromOutside
  <1>4. Managed(Joined(s), {s})
    BY <1>2, <1>3, JoinedResult
  <1> QED
    BY <1>1, <1>4, ManagerHandlesStep

(* The last proxy stays in the ring, waiting to leave it.                  *)
LEMMA LastStays ==
    ASSUME ManagerReady, NEW s, LastLeaves(s)
    PROVE  LET y == [manager EXCEPT !.lastLeaving = TRUE] IN
           y \in ManagerState /\ RingOK(y) /\ \A q : ~Inside(y, q)
  <1> DEFINE y == [manager EXCEPT !.lastLeaving = TRUE]
  <1>1. /\ manager \in ManagerState /\ RingOK(manager)
        /\ Len(manager.ring) = 1
    BY DEF ManagerReady, LastLeaves
  <1>2. /\ y \in ManagerState /\ y.ring = manager.ring /\ y.lastLeaving
        /\ y.permFail = manager.permFail
    BY <1>1 DEF ManagerState
  <1> HIDE DEF y
  <1>3. y \in ManagerState /\ RingOK(y) /\ \A q : ~Inside(y, q)
    BY <1>1, <1>2 DEF RingOK, Inside
  <1> QED
    BY <1>3 DEF y

LEMMA LeaveStep ==
    ASSUME IInv, NEW s \in Site, Leave(s)
    PROVE  StepOK
  <1> DEFINE y == [manager EXCEPT !.lastLeaving = TRUE]
             r == Tail(Rotated(s))
             z == [manager EXCEPT !.ring = r]
  <1>1. ManagerGets(s, "LEAVE") /\ UNCHANGED budget
    BY DEF Leave
  <1>2. /\ ManagerReady /\ CanRecv(s, Home)
        /\ Head1(s, Home).type = "LEAVE"
    BY <1>1, ManagerGetsReady
  <1>3. manager \in ManagerState /\ RingOK(manager)
    BY <1>2 DEF ManagerReady
  <1>4. CASE LastLeaves(s) /\ s # Home
    <2> DEFINE x == proxy[Home]
               e == Result(Entered(x), EnterOut(x))
    <2>1. /\ Consume(s, Home, EnterOut(x))
          /\ proxy' = [proxy EXCEPT ![Home] = Entered(x)] /\ manager' = y
      BY <1>4, HomeAssumption, ProxyFacts DEF Leave
    <2>2. manager' \in ManagerState /\ RingOK(manager')
          /\ \A q : ~Inside(manager', q)
      BY <1>2, <1>4, <2>1, LastStays
    <2>3. x \in ProxyState /\ (x.isInRing => x.isReachable) /\ x.present
      BY HomeAssumption, ProxyFacts DEF IInv, AbsentOutside
    <2>4. /\ e.st = Entered(x) /\ e.out = EnterOut(x)
          /\ Handled(x, e) /\ KeepsToken(x, e)
          /\ Entered(x).hasToken = x.hasToken
          /\ Entered(x).permFail = x.permFail
      BY <2>3, EnteredResult DEF Result
    <2>5. Entered(x).present = x.present
      BY <2>3 DEF Entered, ProxyState
    <2> HIDE DEF e, y
    <2>6. Without(e.out, Tokens) /\ (Holds(e.st) => Holds(x)) /\ e.st.present
      BY <2>3, <2>4, <2>5 DEF KeepsToken, Holds
    <2> QED
      BY <1>1, <1>2, <2>1, <2>2, <2>4, <2>6, HomeConsumes
  <1>5. CASE ~(LastLeaves(s) /\ s # Home) /\ LastLeaves(s)
    <2>1. Consume(s, Home, Silent) /\ manager' = y /\ UNCHANGED proxy
      BY <1>5 DEF Leave
    <2>2. manager' \in ManagerState /\ RingOK(manager')
          /\ \A q : ~Inside(manager', q)
      BY <1>2, <1>5, <2>1, LastStays
    <2> HIDE DEF y
    <2> QED
      BY <1>1, <1>2, <2>1, <2>2, SilentPlain, ManagerAnswers
  <1>6. CASE InRing(s) /\ ~LastLeaves(s)
    <2>1. /\ Consume(s, Home, To(Predecessor(r), Forward(Current(r))))
          /\ manager' = z /\ UNCHANGED proxy
      BY <1>6 DEF Leave
    <2>2. /\ r \in Seq(Site) /\ (r = <<>> <=> Len(manager.ring) = 1)
          /\ Range(r) \subseteq Range(manager.ring) /\ s \notin Range(r)
          /\ IsInjective(r)
      BY <1>2, <1>6, WithoutCurrent
    <2> HIDE DEF r
    <2>3. r # <<>> /\ Len(manager.ring) # 1
      BY <1>6, <2>2 DEF LastLeaves
    <2>4. Plain(To(Predecessor(r), Forward(Current(r))))
      BY <2>2, <2>3, EmptyRing, PlainNotices
    <2>5. /\ z \in ManagerState /\ z.ring = r
          /\ z.lastLeaving = manager.lastLeaving
          /\ z.permFail = manager.permFail /\ z.proxies = manager.proxies
      BY <1>3, <2>2 DEF ManagerState
    <2> HIDE DEF z
    <2>6. ~manager.permFail /\ ~manager.lastLeaving
      BY <1>2, <1>3, <2>3 DEF ManagerReady, RingOK
    <2>7. RingOK(z) /\ \A q : Inside(z, q) => Inside(manager, q) /\ q # s
      BY <1>3, <2>2, <2>3, <2>5, <2>6 DEF RingOK, Inside
    <2> QED
      BY <1>1, <1>2, <2>1, <2>4, <2>5, <2>7, ManagerAnswers
  <1>7. CASE ~InRing(s)
    <2>1. Consume(s, Home, Silent) /\ UNCHANGED <<manager, proxy>>
      BY <1>7 DEF Leave, LastLeaves
    <2>2. ~Inside(manager, s)
      BY <1>7 DEF InRing, Inside
    <2>3. /\ manager' \in ManagerState /\ RingOK(manager')
          /\ \A q : Inside(manager', q) => Inside(manager, q) /\ q # s
      BY <1>3, <2>1, <2>2
    <2> QED
      BY <1>1, <1>2, <2>1, <2>3, SilentPlain, ManagerAnswers
  <1> QED
    BY <1>4, <1>5, <1>6, <1>7

LEMMA ColorStartStep ==
    ASSUME IInv, NEW s \in Site, ColorStart(s)
    PROVE  StepOK
  <1> DEFINE c == StartColoring(manager, manager.ring)
  <1>1. ManagerHandles(s, "COLOR_START", c) /\ ManagerGets(s, "COLOR_START")
    BY DEF ColorStart, ManagerHandles
  <1>2. /\ manager \in ManagerState /\ RingOK(manager)
        /\ manager.ring \in Seq(Site)
    BY <1>1, ManagerGetsReady DEF ManagerReady, ManagerState
  <1>3. /\ c.st \in ManagerState /\ c.st.ring = manager.ring
        /\ c.st.proxies = manager.proxies
        /\ c.st.lastLeaving = manager.lastLeaving
        /\ c.st.permFail = manager.permFail /\ Plain(c.out)
    BY <1>2, StartColoringResult
  <1> HIDE DEF c
  <1>4. Managed(c, {})
    BY <1>2, <1>3 DEF Managed, RingOK, Inside
  <1> QED
    BY <1>1, <1>4, ManagerHandlesStep

LEMMA ColorDoneStep ==
    ASSUME IInv, NEW s \in Site, ColorDone(s)
    PROVE  StepOK
  <1>1. ManagerGets(s, "COLOR_DONE") /\ UNCHANGED <<proxy, budget>>
    BY DEF ColorDone
  <1>2. /\ ManagerReady /\ CanRecv(s, Home)
        /\ Head1(s, Home).type = "COLOR_DONE"
    BY <1>1, ManagerGetsReady
  <1>3. /\ manager \in ManagerState /\ RingOK(manager) /\ manager.color \in Color
        /\ manager.ring \in Seq(Site)
    BY <1>2 DEF ManagerReady, ManagerState
  <1>4. CASE Consume(s, Home, Silent) /\ UNCHANGED manager
    <2>1. /\ manager' \in ManagerState /\ RingOK(manager')
          /\ \A q : Inside(manager', q) => Inside(manager, q)
      BY <1>3, <1>4
    <2> QED
      BY <1>1, <1>2, <1>4, <2>1, SilentPlain, ManagerAnswers
  <1>5. ASSUME NEW q \in Range(manager.ring),
               Consume(s, Home, ToAll(manager.proxies \ Range(manager.ring),
                                      Colored("COLOR_DONE", manager.color))),
               manager' = [manager EXCEPT !.ring = Rotated(q)]
        PROVE  StepOK
    <2> DEFINE out == ToAll(manager.proxies \ Range(manager.ring),
                            Colored("COLOR_DONE", manager.color))
               r == Rotated(q)
               z == [manager EXCEPT !.ring = r]
    <2>1. Plain(out) /\ Consume(s, Home, out) /\ manager' = z
      BY <1>3, <1>5, PlainNotices
    <2>2. /\ r \in Seq(Site) /\ Len(r) = Len(manager.ring) /\ r # <<>>
          /\ Range(r) \subseteq Range(manager.ring) /\ IsInjective(r)
      BY <1>3, RotatedRing DEF InRing, RingOK
    <2> HIDE DEF out, r
    <2>3. /\ z \in ManagerState /\ z.ring = r
          /\ z.lastLeaving = manager.lastLeaving
          /\ z.permFail = manager.permFail /\ z.proxies = manager.proxies
      BY <1>3, <2>2 DEF ManagerState
    <2> HIDE DEF z
    <2>4. ~manager.permFail
      BY <1>2 DEF ManagerReady
    <2>5. RingOK(z) /\ \A d : Inside(z, d) => Inside(manager, d)
      BY <1>3, <2>2, <2>3, <2>4 DEF RingOK, Inside
    <2> QED
      BY <1>1, <1>2, <2>1, <2>3, <2>5, ManagerAnswers
  <1> QED
    BY <1>4, <1>5 DEF ColorDone

LEMMA ManagerReceivesStep ==
    ASSUME IInv, NEW s \in Site, ManagerReceives(s)
    PROVE  StepOK
  <1>1. CASE Failed(s)
    <2>1. /\ ManagerHandles(s, "FAILED", RemoveFailed(Head1(s, Home).site))
          /\ ManagerGets(s, "FAILED")
      BY <1>1 DEF Failed, ManagerHandles
    <2>2. Managed(RemoveFailed(Head1(s, Home).site), {})
      BY <2>1, ManagerGetsReady, RemoveFailedResult
    <2> QED
      BY <2>1, <2>2, ManagerHandlesStep
  <1>2. CASE PermFail(s)
    <2>1. /\ ManagerHandles(s, "PERMFAIL", ManagerLost(manager.proxies))
          /\ ManagerGets(s, "PERMFAIL")
      BY <1>2 DEF PermFail, ManagerHandles
    <2>2. Managed(ManagerLost(manager.proxies), {})
      BY <2>1, ManagerGetsReady, ManagerLostResult DEF ManagerReady
    <2> QED
      BY <2>1, <2>2, ManagerHandlesStep
  <1> QED
    BY <1>1, <1>2, ManagerRefusesStep, DeregisterStep, EnterStep, LeaveStep,
       ColorStartStep, ColorDoneStep DEF ManagerReceives

-----------------------------------------------------------------------------
(* Failures, and all the steps together.                                   *)

LEMMA SiteCrashStep ==
    ASSUME IInv, NEW s \in Site, SiteCrash(s)
    PROVE  StepOK
  <1>1. Crash(s) /\ Spend("crash") /\ UNCHANGED <<proxy, manager>>
    BY DEF SiteCrash
  <1>2. /\ Consistent /\ AbsentOutside /\ TypeOK /\ NetTypeOK(Message)
        /\ alive \in [Site -> BOOLEAN] /\ budget \in Budget
    BY DEF IInv, Consistent, TypeOK, NetTypeOK
  <1>3. budget' \in Budget
    BY <1>1, <1>2, SpendType
  <1>4. Consistent' /\ AbsentOutside'
    BY <1>1, <1>2, <1>3, CrashConsistent DEF AbsentOutside
  <1>5. Keeps(Tokens)
    BY <1>1, <1>2, CrashStep
  <1>6. \A q \in Site : alive'[q] => alive[q]
    BY <1>1, <1>2 DEF Crash
  <1>7. Quiet
    BY <1>1, <1>5, <1>6 DEF Quiet, Holder
  <1> QED
    BY <1>4, <1>7 DEF StepOK, TokenStep

LEMMA SiteStateChangeStep ==
    ASSUME IInv, NEW p \in Site, NEW s \in Site, SiteStateChange(p, s)
    PROVE  StepOK
  <1> DEFINE x == proxy[p]
             f == SiteFails(x, s)
             tell == p = Home /\ ~manager.permFail /\ s \in manager.proxies
             out == IF tell THEN Both(f.out, RemoveFailed(s).out) ELSE f.out
             r == Result(f.st, out)
  <1>1. /\ CanDetect(p, s) /\ Detect(p, s, out) /\ alive[p]
        /\ proxy' = [proxy EXCEPT ![p] = f.st] /\ UNCHANGED budget
        /\ manager' = IF tell THEN RemoveFailed(s).st ELSE manager
    BY DEF SiteStateChange, CanDetect, Idle
  <1>2. /\ Consistent /\ AbsentOutside /\ TypeOK /\ NetTypeOK(Message)
        /\ x \in ProxyState /\ (x.isInRing => x.isReachable)
        /\ manager \in ManagerState
    BY ProxyFacts DEF IInv, Consistent, TypeOK
  <1>3. /\ Handled(x, f) /\ KeepsToken(x, f) /\ Plain(f.out)
        /\ ~f.st.permFail => ~x.permFail
        /\ f.st.present = x.present /\ f.st.isInRing = x.isInRing
    BY <1>2, SiteFailsResult
  <1> HIDE DEF f
  <1>4. /\ f.st \in ProxyState /\ (f.st.isInRing => f.st.isReachable)
        /\ f.st.hasToken => x.hasToken
    BY <1>3 DEF Handled, KeepsToken
  <1>5. tell => Managed(RemoveFailed(s), {})
    BY <1>1, ManagerFacts, RemoveFailedResult
  <1>6. Plain(out)
    <2>1. CASE tell
      BY <1>3, <1>5, <2>1, BothPlain DEF Managed
    <2>2. CASE ~tell
      BY <1>3, <2>2
    <2> QED
      BY <2>1, <2>2
  <1>7. /\ manager' \in ManagerState /\ (alive[Home] => RingOK(manager'))
        /\ \A q \in Site : Inside(manager', q) => Inside(manager, q)
    <2>1. CASE tell
      BY <1>1, <1>5, <2>1 DEF Managed
    <2>2. CASE ~tell
      BY <1>1, <1>2, <2>2, ManagerFacts
    <2> QED
      BY <2>1, <2>2
  <1> HIDE DEF out, tell
  <1>8. r.st = f.st /\ r.out = out
    BY DEF Result
  <1>9. Handled(x, r)
    BY <1>2, <1>3, <1>4, <1>6, PlainHandled
  <1> HIDE DEF r
  <1>10. Consistent'
    BY <1>1, <1>2, <1>7, <1>8, <1>9, DetectConsistent
  <1>11. AbsentOutside'
    BY <1>1, <1>2, <1>3, StillAbsentOutside DEF AbsentOutside
  <1>12. Keeps(Tokens)
    <2>1. Without(out, Tokens) /\ out \in [Site -> Seq(Message)]
      BY <1>6, PlainTokens DEF Plain
    <2> QED
      BY <1>1, <1>2, <2>1, DetectStep
  <1>13. Quiet
    <2>1. Holds(f.st) => Holds(x)
      BY <1>3, <1>4 DEF Holds
    <2>2. \A q \in Site : alive'[q] => alive[q]
      BY <1>1 DEF Detect
    <2> QED
      BY <1>1, <1>2, <1>12, <2>1, <2>2, QuietStep
  <1> QED
    BY <1>10, <1>11, <1>13 DEF StepOK, TokenStep

LEMMA NextStep ==
    ASSUME IInv, Next
    PROVE  StepOK
  BY OperationStep, SiteCrashStep, ProxyReceivesStep, SiteStateChangeStep,
     ManagerReceivesStep DEF Next

LEMMA TokenStepUnique ==
    ASSUME TokenUnique, TokenStep
    PROVE  TokenUnique'
  <1>1. CASE Quiet
    <2>1. (\E p \in Site : Holder(p)') => NoneOf(chan', Tokens)
      BY <1>1 DEF Quiet, Keeps, TokenUnique
    <2> QED
      BY <1>1, <2>1 DEF Quiet, Keeps, TokenUnique
  <1>2. ASSUME \A q \in Site : ~Holder(q)', NEW p, NEW d,
               OnlyAt(chan', Tokens, p, d)
        PROVE  TokenUnique'
    BY <1>2 DEF OnlyAt, TokenUnique
  <1>3. ASSUME NEW s \in Site, NEW p \in Site, Arrival(s, p)
        PROVE  TokenUnique'
    <2>1. OnlyOne(chan', Tokens)
      BY <1>3 DEF Arrival, NoneOf, OnlyOne
    <2> QED
      BY <1>3, <2>1 DEF Arrival, TokenUnique
  <1> QED
    BY <1>1, <1>2, <1>3 DEF TokenStep, Departure, Passage

LEMMA InitIInv == Init => IInv
  <1> SUFFICES ASSUME Init
               PROVE  IInv
    OBVIOUS
  <1> USE HomeAssumption
  <1>1. /\ chan = [l \in Site \X Site |-> <<>>] /\ alive = [s \in Site |-> TRUE]
        /\ perm = [s \in Site |-> {}] /\ draining = {}
        /\ proxy = [p \in Site |-> IF p = Home THEN HomeProxy ELSE RemoteProxy]
        /\ manager = HomeManager /\ budget \in Budgets
    BY DEF Init, NetInit
  <1>2. NoneOf(chan, Tokens) /\ OnlyOne(chan, Tokens)
    BY <1>1 DEF NoneOf, OnlyOne
  <1>3. /\ manager \in ManagerState /\ manager.ring = <<Home>>
        /\ manager.permFail = FALSE /\ manager.lastLeaving = FALSE
        /\ manager.proxies = {Home}
    <2>1. Darkened(White, TRUE) \in Color
      BY DEF Darkened, White, Color
    <2>2. <<Home>> \in Seq(Site) /\ {Home} \in SUBSET Site
      OBVIOUS
    <2> QED
      BY <1>1, <2>1, <2>2 DEF HomeManager, ManagerState
  <1>4. \A p \in Site :
           /\ proxy[p] = (IF p = Home THEN HomeProxy ELSE RemoteProxy)
           /\ proxy[p].present /\ (proxy[p].isInRing => proxy[p].isReachable)
           /\ proxy[p].isInRing <=> p = Home
           /\ proxy[p].hasToken => p = Home
    BY <1>1, NewProxies
  <1>5. TypeOK
    <2>1. NetTypeOK(Message)
      BY <1>1, EmptySeq DEF NetTypeOK
    <2>2. proxy \in [Site -> ProxyState]
      BY <1>1, NewProxies
    <2> QED
      BY <1>1, <1>3, <2>1, <2>2, BudgetsAssumption DEF TypeOK
  <1>6. Detected /\ InRingReachable /\ AbsentOutside
    BY <1>1, <1>4 DEF Detected, InRingReachable, AbsentOutside
  <1>7. RingOK(manager) /\ Range(manager.ring) = {Home}
    <2>1. /\ Len(<<Home>>) = 1 /\ DOMAIN <<Home>> = {1} /\ <<Home>>[1] = Home
          /\ <<Home>> # <<>>
      OBVIOUS
    <2>2. Range(<<Home>>) = {Home} /\ IsInjective(<<Home>>)
      BY <2>1 DEF Range, IsInjective
    <2> QED
      BY <1>3, <2>1, <2>2 DEF RingOK
  <1>8. RingInv
    <2>1. ASSUME NEW s \in Site
          PROVE  Alternates(chan[<<s, Home>>], Inside(manager, s),
                            alive[s] /\ ~proxy[s].isInRing)
      <3>1. chan[<<s, Home>>] = <<>>
        BY <1>1
      <3>2. ~(Inside(manager, s) /\ ~proxy[s].isInRing)
        BY <1>4, <1>7 DEF Inside
      <3> QED
        BY <3>1, <3>2, AlternatesEmpty
    <2> QED
      BY <1>7, <2>1 DEF RingInv
  <1>9. \A p \in Site : Holder(p) => p = Home
    BY <1>4 DEF Holder
  <1> QED
    BY <1>2, <1>5, <1>6, <1>8, <1>9 DEF IInv, Consistent, TokenUnique

LEMMA StutterIInv ==
    ASSUME IInv, UNCHANGED vars
    PROVE  IInv'
  <1>1. UNCHANGED <<proxy, manager, budget, chan, alive, perm, draining>>
    BY DEF vars, netVars
  <1>2. TypeOK' /\ Detected' /\ InRingReachable' /\ AbsentOutside'
    BY <1>1 DEF IInv, Consistent, TypeOK, NetTypeOK, Detected, InRingReachable,
                AbsentOutside
  <1>3. RingInv'
    BY <1>1 DEF IInv, Consistent, RingInv
  <1>4. TokenUnique'
    BY <1>1 DEF IInv, TokenUnique, Holder, NoneOf, OnlyOne
  <1> QED
    BY <1>2, <1>3, <1>4 DEF IInv, Consistent

LEMMA NextIInv ==
    ASSUME IInv, [Next]_vars
    PROVE  IInv'
  <1>1. CASE Next
    <2>1. TokenUnique'
      BY <1>1, NextStep, TokenStepUnique DEF IInv, StepOK
    <2> QED
      BY <1>1, <2>1, NextStep DEF IInv, StepOK
  <1>2. CASE UNCHANGED vars
    BY <1>2, StutterIInv
  <1> QED
    BY <1>1, <1>2

(* The invariant: the types, the token is unique, crashes are only         *)
(* reported once they have happened, and for every proxy what it has sent  *)
(* to the manager alternates between entering and leaving the ring, in     *)
(* agreement with where it is now and where the manager has it.            *)
THEOREM Invariance == Spec => []IInv
  BY InitIInv, NextIInv, PTL DEF Spec

(* Every variable of the proxies, the manager and the network keeps its    *)
(* type, and manager and proxies only get messages of the types they know. *)
THEOREM TypeCorrect == Spec => []TypeOK
  <1>1. IInv => TypeOK
    BY DEF IInv, Consistent
  <1> QED
    BY <1>1, Invariance, PTL

LEMMA RingInvConsistent == IInv => RingConsistent
  <1> SUFFICES ASSUME IInv, alive[Home]
               PROVE  /\ manager.permFail <=> manager.ring = <<>>
                      /\ IsInjective(manager.ring)
                      /\ manager.lastLeaving /\ ~manager.permFail
                            => Len(manager.ring) = 1
                      /\ \/ manager.lastLeaving
                         \/ /\ Range(manager.ring) \subseteq manager.proxies
                            /\ \A s \in Site :
                                  ManagerGets(s, "ENTER")
                                     \/ ManagerGets(s, "DEREGISTER")
                                  => ~InRing(s)
    BY DEF RingConsistent
  <1>1. RingOK(manager)
    BY ManagerFacts
  <1>2. ASSUME NEW s \in Site, ~manager.lastLeaving,
               ManagerGets(s, "ENTER") \/ ManagerGets(s, "DEREGISTER")
        PROVE  ~InRing(s)
    <2>1. ~Inside(manager, s)
      BY <1>2, ClaimFromOutside DEF ManagerGets
    <2> QED
      BY <1>2, <2>1 DEF Inside, InRing
  <1> QED
    BY <1>1, <1>2 DEF RingOK

(* The manager's ring is consistent for every number of sites and however  *)
(* entering, leaving, collecting, crashing and killing interleave: it is   *)
(* empty iff the token is lost, its proxies are registered and appear      *)
(* once, and no proxy enters or deregisters while the manager has it in    *)
(* the ring, but for a last one that waits to leave.                       *)
THEOREM RingIsConsistent == Spec => []RingConsistent
  BY RingInvConsistent, Invariance, PTL

-----------------------------------------------------------------------------
(* The refinement of MobileState.                                          *)

at == {p \in Site : Holder(p)}
moving == {d \in Site : TokenUnderWay(d)}

LEMMA CarriedType ==
    ASSUME NEW c \in [Site \X Site -> Seq(Message)], NEW l \in Site \X Site
    PROVE  (\E i \in DOMAIN c[l] : c[l][i].type = "TOKEN")
              <=> Carried(c, l, Tokens)
  <1>1. \A i \in DOMAIN c[l] : c[l][i] \in Message
    BY LenProperties
  <1> QED
    BY <1>1 DEF Carried, Tokens, OfType

LEMMA MovingCarried ==
    ASSUME TypeOK
    PROVE  \A d \in Site : d \in moving <=>
              \E s \in Site : Carried(chan, <<s, d>>, Tokens)
  <1>1. chan \in [Site \X Site -> Seq(Message)]
    BY DEF TypeOK, NetTypeOK
  <1>2. ASSUME NEW d \in Site, NEW s \in Site
        PROVE  UnderWay(s, d, "TOKEN") <=> Carried(chan, <<s, d>>, Tokens)
    <2>1. <<s, d>> \in Site \X Site
      OBVIOUS
    <2> QED
      BY <1>1, <2>1, CarriedType DEF UnderWay
  <1> QED
    BY <1>2 DEF moving, TokenUnderWay

LEMMA MovingCarriedNext ==
    ASSUME TypeOK'
    PROVE  \A d \in Site : d \in moving' <=>
              \E s \in Site : Carried(chan', <<s, d>>, Tokens)
  <1>1. chan' \in [Site \X Site -> Seq(Message)]
    BY DEF TypeOK, NetTypeOK
  <1>2. ASSUME NEW d \in Site, NEW s \in Site
        PROVE  UnderWay(s, d, "TOKEN")' <=> Carried(chan', <<s, d>>, Tokens)
    <2>1. <<s, d>> \in Site \X Site
      OBVIOUS
    <2> QED
      BY <1>1, <2>1, CarriedType DEF UnderWay
  <1> QED
    BY <1>2 DEF moving, TokenUnderWay

LEMMA OnePlace ==
    ASSUME TypeOK, TokenUnique
    PROVE  /\ \A p \in at : at = {p} /\ moving = {}
           /\ \A d \in moving : at = {} /\ moving = {d}
  <1>0. moving \subseteq Site
    BY DEF moving
  <1>1. ASSUME NEW p \in at
        PROVE  at = {p} /\ moving = {}
    <2>1. NoneOf(chan, Tokens) /\ at = {p}
      BY <1>1 DEF at, TokenUnique
    <2>2. \A l \in Site \X Site : ~Carried(chan, l, Tokens)
      BY <2>1 DEF NoneOf, Carried
    <2> QED
      BY <1>0, <2>1, <2>2, MovingCarried
  <1>2. ASSUME NEW d \in moving
        PROVE  at = {} /\ moving = {d}
    <2>1. PICK s \in Site : Carried(chan, <<s, d>>, Tokens)
      BY <1>0, <1>2, MovingCarried
    <2>2. ASSUME NEW e \in moving
          PROVE  e = d
      <3>1. PICK r \in Site : Carried(chan, <<r, e>>, Tokens)
        BY <1>0, <2>2, MovingCarried
      <3>2. <<s, d>> = <<r, e>>
        BY <1>0, <1>2, <2>1, <2>2, <3>1 DEF TokenUnique, OnlyOne, Carried
      <3> QED
        BY <3>2
    <2>3. at = {}
      BY <1>1, <1>2
    <2> QED
      BY <1>2, <2>2, <2>3
  <1> QED
    BY <1>1, <1>2

LEMMA SentMoves ==
    ASSUME TypeOK', NEW p \in Site, NEW d, OnlyAt(chan', Tokens, p, d)
    PROVE  moving' = {} \/ (d \in Site /\ moving' = {d})
  <1>1. ASSUME NEW e \in moving'
        PROVE  e = d /\ d \in Site
    <2>1. e \in Site
      BY <1>1 DEF moving
    <2>2. PICK r \in Site : Carried(chan', <<r, e>>, Tokens)
      BY <1>1, <2>1, MovingCarriedNext
    <2>3. <<r, e>> = <<p, d>>
      BY <2>1, <2>2 DEF OnlyAt
    <2> QED
      BY <2>1, <2>3
  <1> QED
    BY <1>1

LEMMA StepRefines ==
    ASSUME TypeOK, TypeOK', TokenUnique, TokenStep
    PROVE  [Mobile!Next]_<<at, moving>>
  <1> USE DEF Mobile!Next, Mobile!Move, Mobile!Lose, Mobile!Depart,
              Mobile!Pass, Mobile!Arrive
  <1>0. moving \subseteq Site /\ moving' \subseteq Site
    BY DEF moving
  <1>1. CASE Quiet
    <2>1. at' \subseteq at
      BY <1>1 DEF Quiet, at
    <2>2. moving' \subseteq moving
      BY <1>0, <1>1, MovingCarried, MovingCarriedNext DEF Quiet, Keeps
    <2>3. CASE at = {} /\ moving = {}
      BY <2>1, <2>2, <2>3
    <2>4. ASSUME NEW p \in at
          PROVE  [Mobile!Next]_<<at, moving>>
      BY <2>1, <2>2, <2>4, OnePlace DEF at, moving
    <2>5. ASSUME NEW d \in moving
          PROVE  [Mobile!Next]_<<at, moving>>
      BY <2>1, <2>2, <2>5, OnePlace DEF at, moving
    <2> QED
      BY <2>3, <2>4, <2>5
  <1>2. ASSUME NEW p \in Site, Departure(p)
        PROVE  [Mobile!Next]_<<at, moving>>
    <2>1. at = {p} /\ moving = {}
      BY <1>2, OnePlace DEF Departure, at
    <2>2. at' = {}
      BY <1>2 DEF Departure, at
    <2>3. \E d : moving' = {} \/ (d \in Site /\ moving' = {d})
      BY <1>2, SentMoves DEF Departure
    <2> QED
      BY <2>1, <2>2, <2>3 DEF at, moving
  <1>3. ASSUME NEW s \in Site, NEW p \in Site, Passage(s, p)
        PROVE  [Mobile!Next]_<<at, moving>>
    <2>1. p \in moving
      BY <1>3, MovingCarried DEF Passage
    <2>2. at = {} /\ moving = {p}
      BY <2>1, OnePlace
    <2>3. at' = {}
      BY <1>3 DEF Passage, at
    <2>4. \E d : moving' = {} \/ (d \in Site /\ moving' = {d})
      BY <1>3, SentMoves DEF Passage
    <2> QED
      BY <2>2, <2>3, <2>4 DEF at, moving
  <1>4. ASSUME NEW s \in Site, NEW p \in Site, Arrival(s, p)
        PROVE  [Mobile!Next]_<<at, moving>>
    <2>1. p \in moving
      BY <1>4, MovingCarried DEF Arrival
    <2>2. at = {} /\ moving = {p}
      BY <2>1, OnePlace
    <2>3. at' = {p}
      BY <1>4 DEF Arrival, at
    <2>4. moving' = {}
      <3>1. \A l \in Site \X Site : ~Carried(chan', l, Tokens)
        BY <1>4 DEF Arrival, NoneOf, Carried
      <3> QED
        BY <1>0, <3>1, MovingCarriedNext
    <2> QED
      BY <2>2, <2>3, <2>4 DEF at, moving
  <1> QED
    BY <1>1, <1>2, <1>3, <1>4 DEF TokenStep

LEMMA InitRefines ==
    ASSUME Init
    PROVE  at = {Home} /\ moving = {}
  <1>1. \A p \in Site : Holder(p) <=> p = Home
    <2>1. /\ HomeProxy.present /\ HomeProxy.hasToken /\ ~HomeProxy.permFail
          /\ ~RemoteProxy.hasToken
      BY NewProxies DEF HomeProxy
    <2> QED
      BY <2>1 DEF Init, NetInit, Holder
  <1>2. \A l \in Site \X Site : DOMAIN chan[l] = {}
    BY DEF Init, NetInit
  <1>3. \A s, d \in Site : ~UnderWay(s, d, "TOKEN")
    BY <1>2 DEF UnderWay
  <1> QED
    BY <1>1, <1>3, HomeAssumption DEF at, moving, TokenUnderWay

LEMMA StutterRefines ==
    ASSUME UNCHANGED vars
    PROVE  UNCHANGED <<at, moving>>
  BY DEF at, moving, Holder, TokenUnderWay, UnderWay, vars, netVars

(* The pilgrim protocol implements MobileState: the token is at one site,  *)
(* or under way to one, or lost, and never comes back once lost, for every *)
(* number of sites, whatever crashes, kills, colorings and collections     *)
(* happen.                                                                 *)
THEOREM PilgrimIsMobile == Spec => StateIsMobile
  <1>1. Init => Mobile!Init
    BY InitRefines DEF Mobile!Init, at, moving
  <1>2. ASSUME IInv, [Next]_vars
        PROVE  [Mobile!Next]_<<{p \in Site : Holder(p)},
                               {d \in Site : TokenUnderWay(d)}>>
    <2>1. CASE Next
      <3>1. StepOK /\ TypeOK /\ TokenUnique
        BY <1>2, <2>1, NextStep DEF IInv, Consistent
      <3>2. TypeOK' /\ TokenStep
        BY <3>1 DEF StepOK, Consistent
      <3> QED
        BY <3>1, <3>2, StepRefines DEF at, moving
    <2>2. CASE UNCHANGED vars
      BY <2>2, StutterRefines DEF at, moving
    <2> QED
      BY <1>2, <2>1, <2>2
  <1> QED
    BY <1>1, <1>2, Invariance, PTL DEF Spec, StateIsMobile, Mobile!Spec
=============================================================================
