---------------------------- MODULE NetworkProofs ----------------------------
(* What the operators of Network do to the channels, for any messages.     *)
EXTENDS Network, SequenceTheorems, FiniteSetTheorems, TLAPS

(* Sending and receiving keep the channels sequences of messages.          *)
LEMMA SentType ==
    ASSUME NEW M, NEW c \in [Site \X Site -> Seq(M)], NEW p \in Site,
           NEW out \in [Site -> Seq(M)]
    PROVE  Sent(c, p, out) \in [Site \X Site -> Seq(M)]
  <1>1. ASSUME NEW l \in Site \X Site
        PROVE  c[l] \in Seq(M) /\ c[l] \o out[l[2]] \in Seq(M)
    <2>1. c[l] \in Seq(M) /\ out[l[2]] \in Seq(M)
      OBVIOUS
    <2> QED
      BY <2>1, ConcatProperties
  <1> QED
    BY <1>1 DEF Sent

LEMMA TailType ==
    ASSUME NEW M, NEW c \in [Site \X Site -> Seq(M)],
           NEW l \in Site \X Site, c[l] # <<>>
    PROVE  [c EXCEPT ![l] = Tail(@)] \in [Site \X Site -> Seq(M)]
  <1>1. Tail(c[l]) \in Seq(M)
    BY HeadTailProperties
  <1> QED
    BY <1>1

LEMMA ToType ==
    ASSUME NEW M, NEW d, NEW m \in M
    PROVE  To(d, m) \in [Site -> Seq(M)]
  <1>1. <<>> \in Seq(M) /\ <<m>> \in Seq(M)
    OBVIOUS
  <1> QED
    BY <1>1 DEF To, Silent

LEMMA SilentType ==
    ASSUME NEW M
    PROVE  Silent \in [Site -> Seq(M)]
  BY EmptySeq DEF Silent

LEMMA BothType ==
    ASSUME NEW M, NEW o1 \in [Site -> Seq(M)], NEW o2 \in [Site -> Seq(M)]
    PROVE  Both(o1, o2) \in [Site -> Seq(M)]
  BY ConcatProperties DEF Both

-----------------------------------------------------------------------------
(* Where the messages of a kind K are: sending anything else leaves them   *)
(* where they are, and sending one where there is none makes it unique.    *)

Without(out, K) == \A d \in Site : \A i \in DOMAIN out[d] : out[d][i] \notin K

(* The i-th message of link l after Sent is an old one, at its old place,  *)
(* or one of out, after the old ones.                                      *)
Origin(c, p, out, l, i) ==
    \/ i \in DOMAIN c[l] /\ Sent(c, p, out)[l][i] = c[l][i]
    \/ /\ i \in Nat /\ i > Len(c[l]) /\ l[1] = p
       /\ i - Len(c[l]) \in DOMAIN out[l[2]]
       /\ Sent(c, p, out)[l][i] = out[l[2]][i - Len(c[l])]

LEMMA SentElements ==
    ASSUME NEW M, NEW c \in [Site \X Site -> Seq(M)], NEW p \in Site,
           NEW out \in [Site -> Seq(M)], NEW l \in Site \X Site,
           NEW i \in DOMAIN Sent(c, p, out)[l]
    PROVE  Origin(c, p, out, l, i)
  <1> DEFINE sends == l[1] = p /\ alive[l[2]] /\ l[2] \notin perm[p]
             q == c[l]
             o == out[l[2]]
  <1>1. q \in Seq(M) /\ o \in Seq(M)
    OBVIOUS
  <1>2. CASE ~sends
    BY <1>2 DEF Sent, Origin
  <1>3. CASE sends
    <2>1. Sent(c, p, out)[l] = q \o o
      BY <1>3 DEF Sent
    <2>2. /\ q \o o \in Seq(M)
          /\ Len(q \o o) = Len(q) + Len(o)
          /\ \A n \in 1..(Len(q) + Len(o)) :
                (q \o o)[n] = IF n <= Len(q) THEN q[n] ELSE o[n - Len(q)]
      BY <1>1, ConcatProperties
    <2>3. Len(q) \in Nat /\ DOMAIN q = 1..Len(q)
      BY <1>1, LenProperties
    <2>4. Len(o) \in Nat /\ DOMAIN o = 1..Len(o)
      BY <1>1, LenProperties
    <2>5. i \in 1..(Len(q) + Len(o))
      BY <2>1, <2>2, LenProperties
    <2>6. CASE i <= Len(q)
      BY <2>1, <2>2, <2>3, <2>4, <2>5, <2>6 DEF Origin
    <2>7. CASE ~(i <= Len(q))
      <3>1. i - Len(q) \in 1..Len(o)
        BY <2>3, <2>4, <2>5, <2>7
      <3> QED
        BY <1>3, <2>1, <2>2, <2>3, <2>4, <2>5, <2>7, <3>1 DEF Origin
    <2> QED
      BY <2>6, <2>7
  <1> QED
    BY <1>2, <1>3

LEMMA SentNone ==
    ASSUME NEW M, NEW c \in [Site \X Site -> Seq(M)], NEW p \in Site,
           NEW out \in [Site -> Seq(M)], NEW K,
           Without(out, K), NoneOf(c, K)
    PROVE  NoneOf(Sent(c, p, out), K)
  <1>1. ASSUME NEW l \in Site \X Site, NEW i \in DOMAIN Sent(c, p, out)[l]
        PROVE  Sent(c, p, out)[l][i] \notin K
    <2>1. Origin(c, p, out, l, i)
      BY SentElements
    <2> QED
      BY <2>1 DEF NoneOf, Without, Origin
  <1> QED
    BY <1>1 DEF NoneOf

LEMMA SentOnly ==
    ASSUME NEW M, NEW c \in [Site \X Site -> Seq(M)], NEW p \in Site,
           NEW out \in [Site -> Seq(M)], NEW K,
           Without(out, K), OnlyOne(c, K)
    PROVE  OnlyOne(Sent(c, p, out), K)
  <1>1. ASSUME NEW l \in Site \X Site, NEW i \in DOMAIN Sent(c, p, out)[l],
               Sent(c, p, out)[l][i] \in K
        PROVE  i \in DOMAIN c[l] /\ c[l][i] \in K
    <2>1. Origin(c, p, out, l, i)
      BY SentElements
    <2> QED
      BY <1>1, <2>1 DEF Without, Origin
  <1> QED
    BY <1>1 DEF OnlyOne

LEMMA SentCarried ==
    ASSUME NEW M, NEW c \in [Site \X Site -> Seq(M)], NEW p \in Site,
           NEW out \in [Site -> Seq(M)], NEW K, Without(out, K),
           NEW l \in Site \X Site, Carried(Sent(c, p, out), l, K)
    PROVE  Carried(c, l, K)
  <1>1. PICK i \in DOMAIN Sent(c, p, out)[l] : Sent(c, p, out)[l][i] \in K
    BY DEF Carried
  <1>2. Origin(c, p, out, l, i)
    BY SentElements
  <1> QED
    BY <1>1, <1>2 DEF Carried, Without, Origin

(* The only K in the channels c, if any, is on the link from p to d.       *)
OnlyAt(c, K, p, d) ==
    /\ OnlyOne(c, K)
    /\ \A l \in Site \X Site : Carried(c, l, K) => l = <<p, d>>

(* What is sent has at most one K in it, and that goes to d.               *)
OnlyFor(out, K, d) ==
    \A e \in Site : \A i \in DOMAIN out[e] : out[e][i] \in K =>
        e = d /\ \A j \in DOMAIN out[e] : out[e][j] \in K => j = i

LEMMA SentToken ==
    ASSUME NEW M, NEW c \in [Site \X Site -> Seq(M)], NEW p \in Site,
           NEW out \in [Site -> Seq(M)], NEW K, NEW d,
           OnlyFor(out, K, d), NoneOf(c, K)
    PROVE  OnlyAt(Sent(c, p, out), K, p, d)
  <1> DEFINE n == Sent(c, p, out)
  <1>1. ASSUME NEW l \in Site \X Site, NEW i \in DOMAIN n[l], n[l][i] \in K
        PROVE  /\ l = <<p, d>> /\ i \in Nat /\ Len(c[l]) \in Nat
               /\ i - Len(c[l]) \in DOMAIN out[d]
               /\ out[d][i - Len(c[l])] \in K
    <2>1. Origin(c, p, out, l, i)
      BY SentElements
    <2>2. /\ i \in Nat /\ l[1] = p
          /\ i - Len(c[l]) \in DOMAIN out[l[2]]
          /\ out[l[2]][i - Len(c[l])] \in K
      BY <1>1, <2>1 DEF NoneOf, Origin
    <2>3. l[2] = d
      BY <2>2 DEF OnlyFor
    <2>4. Len(c[l]) \in Nat
      BY LenProperties
    <2> QED
      BY <2>2, <2>3, <2>4
  <1>2. OnlyOne(n, K)
    <2>1. SUFFICES ASSUME NEW k \in Site \X Site, NEW l \in Site \X Site,
                          NEW i \in DOMAIN n[k], NEW j \in DOMAIN n[l],
                          n[k][i] \in K, n[l][j] \in K
                   PROVE  k = l /\ i = j
      BY DEF OnlyOne
    <2> DEFINE z == Len(c[k])
    <2> HIDE DEF n
    <2>2. k = <<p, d>> /\ l = <<p, d>> /\ i \in Nat /\ j \in Nat /\ z \in Nat
      BY <1>1, <2>1
    <2>3. d \in Site
      BY <2>2
    <2>4. /\ i - z \in DOMAIN out[d] /\ out[d][i - z] \in K
          /\ j - z \in DOMAIN out[d] /\ out[d][j - z] \in K
      BY <1>1, <2>1, <2>2
    <2>5. i - z = j - z
      BY <2>3, <2>4 DEF OnlyFor
    <2> QED
      BY <2>2, <2>5
  <1> QED
    BY <1>1, <1>2 DEF OnlyAt, Carried

(* Receiving a message, or dropping a connection, only takes messages out. *)
LEMMA TailElements ==
    ASSUME NEW M, NEW c \in [Site \X Site -> Seq(M)],
           NEW l \in Site \X Site, c[l] # <<>>,
           NEW k \in Site \X Site,
           NEW i \in DOMAIN [c EXCEPT ![l] = Tail(@)][k]
    PROVE  IF k = l
           THEN /\ i \in Nat \ {0} /\ i + 1 \in DOMAIN c[k]
                /\ [c EXCEPT ![l] = Tail(@)][k][i] = c[k][i + 1]
           ELSE /\ i \in DOMAIN c[k]
                /\ [c EXCEPT ![l] = Tail(@)][k][i] = c[k][i]
  <1>1. CASE k # l
    BY <1>1
  <1>2. CASE k = l
    <2>1. [c EXCEPT ![l] = Tail(@)][k] = Tail(c[l])
      BY <1>2
    <2>2. /\ Tail(c[l]) \in Seq(M)
          /\ Len(Tail(c[l])) = Len(c[l]) - 1
          /\ \A j \in 1 .. Len(Tail(c[l])) : Tail(c[l])[j] = c[l][j + 1]
      BY HeadTailProperties
    <2>3. i \in 1..Len(Tail(c[l]))
      BY <2>1, <2>2, LenProperties
    <2>4. Len(c[l]) \in Nat /\ DOMAIN c[l] = 1..Len(c[l])
      BY LenProperties
    <2> QED
      BY <1>2, <2>1, <2>2, <2>3, <2>4
  <1> QED
    BY <1>1, <1>2

LEMMA TailNone ==
    ASSUME NEW M, NEW c \in [Site \X Site -> Seq(M)],
           NEW l \in Site \X Site, c[l] # <<>>, NEW K, NoneOf(c, K)
    PROVE  NoneOf([c EXCEPT ![l] = Tail(@)], K)
  BY TailElements DEF NoneOf

LEMMA TailCarried ==
    ASSUME NEW M, NEW c \in [Site \X Site -> Seq(M)],
           NEW l \in Site \X Site, c[l] # <<>>, NEW K,
           NEW k \in Site \X Site, Carried([c EXCEPT ![l] = Tail(@)], k, K)
    PROVE  Carried(c, k, K)
  BY TailElements DEF Carried

LEMMA TailOnly ==
    ASSUME NEW M, NEW c \in [Site \X Site -> Seq(M)],
           NEW l \in Site \X Site, c[l] # <<>>, NEW K, OnlyOne(c, K)
    PROVE  /\ OnlyOne([c EXCEPT ![l] = Tail(@)], K)
           /\ Head(c[l]) \in K => NoneOf([c EXCEPT ![l] = Tail(@)], K)
  <1> DEFINE n == [c EXCEPT ![l] = Tail(@)]
  <1>1. ASSUME NEW k \in Site \X Site, NEW i \in DOMAIN n[k], n[k][i] \in K
        PROVE  /\ k = l => i \in Nat \ {0} /\ i + 1 \in DOMAIN c[k] /\ c[k][i + 1] \in K
               /\ k # l => i \in DOMAIN c[k] /\ c[k][i] \in K
    BY <1>1, TailElements
  <1>2. OnlyOne(n, K)
    <2>1. SUFFICES ASSUME NEW k \in Site \X Site, NEW m \in Site \X Site,
                          NEW i \in DOMAIN n[k], NEW j \in DOMAIN n[m],
                          n[k][i] \in K, n[m][j] \in K
                   PROVE  k = m /\ i = j
      BY DEF OnlyOne
    <2>2. k = m
      BY <1>1, <2>1 DEF OnlyOne
    <2>3. CASE k # l
      BY <1>1, <2>1, <2>2, <2>3 DEF OnlyOne
    <2>4. CASE k = l
      <3>1. i \in Nat /\ i + 1 \in DOMAIN c[k] /\ c[k][i + 1] \in K
        BY <1>1, <2>1, <2>4
      <3>2. j \in Nat /\ j + 1 \in DOMAIN c[k] /\ c[k][j + 1] \in K
        BY <1>1, <2>1, <2>2, <2>4
      <3>3. i + 1 = j + 1
        BY <3>1, <3>2 DEF OnlyOne
      <3> QED
        BY <2>2, <3>1, <3>2, <3>3
    <2> QED
      BY <2>3, <2>4
  <1>3. ASSUME Head(c[l]) \in K
        PROVE  NoneOf(n, K)
    <2>1. 1 \in DOMAIN c[l] /\ c[l][1] \in K
      BY <1>3
    <2>2. SUFFICES ASSUME NEW k \in Site \X Site, NEW i \in DOMAIN n[k],
                          n[k][i] \in K
                   PROVE  FALSE
      BY DEF NoneOf
    <2>3. CASE k # l
      BY <1>1, <2>1, <2>2, <2>3 DEF OnlyOne
    <2>4. CASE k = l
      <3>1. i \in Nat \ {0} /\ i + 1 \in DOMAIN c[l] /\ c[l][i + 1] \in K
        BY <1>1, <2>2, <2>4
      <3>2. i + 1 = 1
        BY <2>1, <3>1 DEF OnlyOne
      <3> QED
        BY <3>1, <3>2
    <2> QED
      BY <2>3, <2>4
  <1> QED
    BY <1>2, <1>3

LEMMA ClearedKeeps ==
    ASSUME NEW M, NEW c \in [Site \X Site -> Seq(M)],
           NEW n \in [Site \X Site -> Seq(M)], NEW K,
           \A l \in Site \X Site : n[l] = c[l] \/ n[l] = <<>>
    PROVE  /\ NoneOf(c, K) => NoneOf(n, K)
           /\ OnlyOne(c, K) => OnlyOne(n, K)
           /\ \A l \in Site \X Site : Carried(n, l, K) => Carried(c, l, K)
  <1>1. ASSUME NEW l \in Site \X Site, NEW i \in DOMAIN n[l]
        PROVE  i \in DOMAIN c[l] /\ n[l][i] = c[l][i]
    BY <1>1
  <1> QED
    BY <1>1 DEF NoneOf, OnlyOne, Carried

-----------------------------------------------------------------------------
(* The steps of the network, for the messages of a kind K.                 *)

Keeps(K) ==
    /\ NoneOf(chan, K) => NoneOf(chan', K)
    /\ OnlyOne(chan, K) => OnlyOne(chan', K)
    /\ \A l \in Site \X Site : Carried(chan', l, K) => Carried(chan, l, K)

NetTypeOK(M) ==
    /\ chan \in [Site \X Site -> Seq(M)]
    /\ alive \in [Site -> BOOLEAN]
    /\ perm \in [Site -> SUBSET Site]
    /\ draining \subseteq Site

LEMMA EmitStep ==
    ASSUME NEW M, NetTypeOK(M), NEW p \in Site, NEW out \in [Site -> Seq(M)],
           Emit(p, out)
    PROVE  /\ NetTypeOK(M)'
           /\ \A K : Without(out, K) => Keeps(K)
  <1>1. chan' \in [Site \X Site -> Seq(M)]
    BY SentType DEF Emit, NetTypeOK
  <1>2. ASSUME NEW K, Without(out, K)
        PROVE  Keeps(K)
    BY <1>2, SentNone, SentOnly, SentCarried DEF Emit, NetTypeOK, Keeps
  <1> QED
    BY <1>1, <1>2 DEF Emit, NetTypeOK

LEMMA ConsumeStep ==
    ASSUME NEW M, NetTypeOK(M), NEW s \in Site, NEW p \in Site,
           NEW out \in [Site -> Seq(M)], CanRecv(s, p), Consume(s, p, out)
    PROVE  /\ NetTypeOK(M)'
           /\ \A K : Without(out, K) => Keeps(K)
  <1> DEFINE c == [chan EXCEPT ![<<s, p>>] = Tail(@)]
  <1>1. /\ chan \in [Site \X Site -> Seq(M)] /\ <<s, p>> \in Site \X Site
        /\ chan[<<s, p>>] # <<>>
    BY DEF NetTypeOK, CanRecv
  <1>2. c \in [Site \X Site -> Seq(M)]
    BY <1>1, TailType
  <1>3. chan' = Sent(c, p, out)
    BY DEF Consume
  <1>4. chan' \in [Site \X Site -> Seq(M)]
    BY <1>2, <1>3, SentType
  <1>5. ASSUME NEW K, Without(out, K)
        PROVE  Keeps(K)
    <2>1. NoneOf(chan, K) => NoneOf(chan', K)
      BY <1>1, <1>2, <1>3, <1>5, TailNone, SentNone
    <2>2. OnlyOne(chan, K) => OnlyOne(chan', K)
      BY <1>1, <1>2, <1>3, <1>5, TailOnly, SentOnly
    <2>3. ASSUME NEW l \in Site \X Site, Carried(chan', l, K)
          PROVE  Carried(chan, l, K)
      <3>1. Carried(c, l, K)
        BY <1>2, <1>3, <1>5, <2>3, SentCarried
      <3> QED
        BY <1>1, <3>1, TailCarried
    <2> QED
      BY <2>1, <2>2, <2>3 DEF Keeps
  <1> QED
    BY <1>4, <1>5 DEF Consume, NetTypeOK

(* A message of the kind is received, or sent, or received and sent on.    *)
LEMMA ConsumeToken ==
    ASSUME NEW M, NetTypeOK(M), NEW s \in Site, NEW p \in Site,
           NEW out \in [Site -> Seq(M)], NEW K,
           CanRecv(s, p), Consume(s, p, out), OnlyOne(chan, K),
           Head(chan[<<s, p>>]) \in K, Without(out, K)
    PROVE  NoneOf(chan', K)
  <1> DEFINE c == [chan EXCEPT ![<<s, p>>] = Tail(@)]
  <1>1. /\ chan \in [Site \X Site -> Seq(M)] /\ <<s, p>> \in Site \X Site
        /\ chan[<<s, p>>] # <<>>
    BY DEF NetTypeOK, CanRecv
  <1>2. c \in [Site \X Site -> Seq(M)]
    BY <1>1, TailType
  <1>3. NoneOf(c, K)
    BY <1>1, TailOnly
  <1> QED
    BY <1>2, <1>3, SentNone DEF Consume

LEMMA ConsumeSendsToken ==
    ASSUME NEW M, NetTypeOK(M), NEW s \in Site, NEW p \in Site, NEW d,
           NEW out \in [Site -> Seq(M)], NEW K, OnlyFor(out, K, d),
           CanRecv(s, p), Consume(s, p, out),
           NoneOf(chan, K) \/ (OnlyOne(chan, K) /\ Head(chan[<<s, p>>]) \in K)
    PROVE  OnlyAt(chan', K, p, d)
  <1> DEFINE c == [chan EXCEPT ![<<s, p>>] = Tail(@)]
  <1>1. /\ chan \in [Site \X Site -> Seq(M)] /\ <<s, p>> \in Site \X Site
        /\ chan[<<s, p>>] # <<>>
    BY DEF NetTypeOK, CanRecv
  <1>2. c \in [Site \X Site -> Seq(M)]
    BY <1>1, TailType
  <1>3. NoneOf(c, K)
    BY <1>1, TailOnly, TailNone
  <1>4. chan' = Sent(c, p, out)
    BY DEF Consume
  <1> HIDE DEF c
  <1> QED
    BY <1>2, <1>3, <1>4, SentToken

LEMMA EmitSendsToken ==
    ASSUME NEW M, NetTypeOK(M), NEW p \in Site, NEW d,
           NEW out \in [Site -> Seq(M)], NEW K, OnlyFor(out, K, d),
           Emit(p, out), NoneOf(chan, K)
    PROVE  OnlyAt(chan', K, p, d)
  <1>1. chan \in [Site \X Site -> Seq(M)]
    BY DEF NetTypeOK
  <1>2. chan' = Sent(chan, p, out)
    BY DEF Emit
  <1> QED
    BY <1>1, <1>2, SentToken

LEMMA CrashStep ==
    ASSUME NEW M, NetTypeOK(M), NEW s \in Site, Crash(s)
    PROVE  /\ NetTypeOK(M)'
           /\ \A K : Keeps(K)
  <1>1. chan \in [Site \X Site -> Seq(M)]
    BY DEF NetTypeOK
  <1>2. \A l \in Site \X Site : chan'[l] = chan[l] \/ chan'[l] = <<>>
    BY DEF Crash
  <1>3. chan' \in [Site \X Site -> Seq(M)]
    BY <1>1 DEF Crash
  <1>4. ASSUME NEW K
        PROVE  Keeps(K)
    BY <1>1, <1>2, <1>3, ClearedKeeps DEF Keeps
  <1> QED
    BY <1>3, <1>4 DEF Crash, NetTypeOK

LEMMA DetectStep ==
    ASSUME NEW M, NetTypeOK(M), NEW p \in Site, NEW s \in Site,
           NEW out \in [Site -> Seq(M)], Detect(p, s, out)
    PROVE  /\ NetTypeOK(M)'
           /\ \A K : Without(out, K) => Keeps(K)
  <1> DEFINE c == [chan EXCEPT ![<<s, p>>] = <<>>]
  <1>1. chan \in [Site \X Site -> Seq(M)] /\ c \in [Site \X Site -> Seq(M)]
    BY DEF NetTypeOK
  <1>2. \A l \in Site \X Site : c[l] = chan[l] \/ c[l] = <<>>
    BY <1>1
  <1>3. chan' = Sent(c, p, out)
    BY DEF Detect
  <1> HIDE DEF c
  <1>4. chan' \in [Site \X Site -> Seq(M)]
    BY <1>1, <1>3, SentType
  <1>5. ASSUME NEW K, Without(out, K)
        PROVE  Keeps(K)
    <2>1. /\ NoneOf(chan, K) => NoneOf(c, K)
          /\ OnlyOne(chan, K) => OnlyOne(c, K)
          /\ \A l \in Site \X Site : Carried(c, l, K) => Carried(chan, l, K)
      BY <1>1, <1>2, ClearedKeeps
    <2>2. NoneOf(c, K) => NoneOf(chan', K)
      BY <1>1, <1>3, <1>5, SentNone
    <2>3. OnlyOne(c, K) => OnlyOne(chan', K)
      BY <1>1, <1>3, <1>5, SentOnly
    <2>4. \A l \in Site \X Site : Carried(chan', l, K) => Carried(c, l, K)
      BY <1>1, <1>3, <1>5, SentCarried
    <2> QED
      BY <2>1, <2>2, <2>3, <2>4 DEF Keeps
  <1> QED
    BY <1>4, <1>5 DEF Detect, NetTypeOK

(* What the usual outputs do not contain.                                  *)
LEMMA SilentWithout ==
    ASSUME NEW K
    PROVE  Without(Silent, K)
  BY DEF Without, Silent

LEMMA ToWithout ==
    ASSUME NEW d, NEW m, NEW K, m \notin K
    PROVE  Without(To(d, m), K)
  BY DEF Without, To, Silent

LEMMA BothWithout ==
    ASSUME NEW M, NEW o1 \in [Site -> Seq(M)], NEW o2 \in [Site -> Seq(M)],
           NEW K, Without(o1, K), Without(o2, K)
    PROVE  Without(Both(o1, o2), K)
  <1> SUFFICES ASSUME NEW d \in Site, NEW i \in DOMAIN Both(o1, o2)[d]
               PROVE  Both(o1, o2)[d][i] \notin K
    BY DEF Without
  <1>1. Both(o1, o2)[d] = o1[d] \o o2[d]
    BY DEF Both
  <1>2. o1[d] \in Seq(M) /\ o2[d] \in Seq(M)
    OBVIOUS
  <1> QED
    BY <1>1, <1>2, ConcatProperties, LenProperties DEF Without

LEMMA ToOnlyFor ==
    ASSUME NEW d, NEW m, NEW K
    PROVE  OnlyFor(To(d, m), K, d)
  BY DEF OnlyFor, To, Silent

LEMMA BothOnlyFor ==
    ASSUME NEW M, NEW o1 \in [Site -> Seq(M)], NEW o2 \in [Site -> Seq(M)],
           NEW K, NEW d, Without(o1, K), OnlyFor(o2, K, d)
    PROVE  OnlyFor(Both(o1, o2), K, d)
  <1> DEFINE n == Both(o1, o2)
  <1>1. ASSUME NEW e \in Site, NEW i \in DOMAIN n[e], n[e][i] \in K
        PROVE  /\ i \in Nat /\ Len(o1[e]) \in Nat
               /\ i - Len(o1[e]) \in DOMAIN o2[e]
               /\ o2[e][i - Len(o1[e])] \in K
    <2>1. n[e] = o1[e] \o o2[e]
      BY DEF Both
    <2>2. o1[e] \in Seq(M) /\ o2[e] \in Seq(M)
      OBVIOUS
    <2> HIDE DEF n
    <2>3. i > Len(o1[e]) /\ i \in 1..(Len(o1[e]) + Len(o2[e]))
      BY <1>1, <2>1, <2>2, ConcatProperties, LenProperties DEF Without
    <2> QED
      BY <1>1, <2>1, <2>2, <2>3, ConcatProperties, LenProperties
  <1> HIDE DEF n
  <1>2. SUFFICES ASSUME NEW e \in Site, NEW i \in DOMAIN n[e], n[e][i] \in K
                 PROVE  /\ e = d
                        /\ \A j \in DOMAIN n[e] : n[e][j] \in K => j = i
    BY DEF OnlyFor, n
  <1>3. e = d
    BY <1>1, <1>2 DEF OnlyFor
  <1>4. ASSUME NEW j \in DOMAIN n[e], n[e][j] \in K
        PROVE  j = i
    <2>1. j - Len(o1[e]) = i - Len(o1[e])
      BY <1>1, <1>2, <1>4 DEF OnlyFor
    <2> QED
      BY <1>1, <1>2, <1>4, <2>1
  <1> QED
    BY <1>3, <1>4

LEMMA BothForFirst ==
    ASSUME NEW M, NEW o1 \in [Site -> Seq(M)], NEW o2 \in [Site -> Seq(M)],
           NEW K, NEW d, OnlyFor(o1, K, d), Without(o2, K)
    PROVE  OnlyFor(Both(o1, o2), K, d)
  <1> DEFINE n == Both(o1, o2)
  <1>1. ASSUME NEW e \in Site, NEW i \in DOMAIN n[e], n[e][i] \in K
        PROVE  i \in DOMAIN o1[e] /\ o1[e][i] \in K
    <2>1. n[e] = o1[e] \o o2[e]
      BY DEF Both
    <2>2. o1[e] \in Seq(M) /\ o2[e] \in Seq(M)
      OBVIOUS
    <2> HIDE DEF n
    <2>3. i <= Len(o1[e]) /\ i \in 1..(Len(o1[e]) + Len(o2[e]))
      BY <1>1, <2>1, <2>2, ConcatProperties, LenProperties DEF Without
    <2> QED
      BY <1>1, <2>1, <2>2, <2>3, ConcatProperties, LenProperties
  <1> HIDE DEF n
  <1> QED
    BY <1>1 DEF OnlyFor, n

-----------------------------------------------------------------------------
(* What is on a link stays there until it is received.                     *)

LEMMA SentStays ==
    ASSUME NEW M, NEW c \in [Site \X Site -> Seq(M)], NEW p \in Site,
           NEW out \in [Site -> Seq(M)], NEW K,
           NEW l \in Site \X Site, Carried(c, l, K)
    PROVE  Carried(Sent(c, p, out), l, K)
  <1>1. PICK i \in DOMAIN c[l] : c[l][i] \in K
    BY DEF Carried
  <1>2. c[l] \in Seq(M) /\ out[l[2]] \in Seq(M)
    OBVIOUS
  <1>3. i \in DOMAIN (c[l] \o out[l[2]]) /\ (c[l] \o out[l[2]])[i] = c[l][i]
    BY <1>1, <1>2, ConcatProperties, LenProperties
  <1>4. \/ Sent(c, p, out)[l] = c[l]
        \/ Sent(c, p, out)[l] = c[l] \o out[l[2]]
    BY DEF Sent
  <1> QED
    BY <1>1, <1>3, <1>4 DEF Carried

LEMMA TailStays ==
    ASSUME NEW M, NEW c \in [Site \X Site -> Seq(M)],
           NEW l \in Site \X Site, c[l] # <<>>, NEW K,
           NEW k \in Site \X Site, Carried(c, k, K),
           k # l \/ Head(c[l]) \notin K
    PROVE  Carried([c EXCEPT ![l] = Tail(@)], k, K)
  <1>1. CASE k # l
    BY <1>1 DEF Carried
  <1>2. CASE k = l
    <2>1. PICK i \in DOMAIN c[l] : c[l][i] \in K
      BY <1>2 DEF Carried
    <2>2. c[l] \in Seq(M)
      OBVIOUS
    <2>3. i \in Nat /\ i > 1 /\ i <= Len(c[l]) /\ Len(c[l]) \in Nat
      BY <1>2, <2>1, <2>2, HeadTailProperties, LenProperties
    <2> DEFINE j == i - 1
    <2>4. j \in 1..(Len(c[l]) - 1) /\ j + 1 = i
      BY <2>3
    <2> HIDE DEF j
    <2>5. j \in DOMAIN Tail(c[l]) /\ Tail(c[l])[j] = c[l][i]
      BY <2>2, <2>4, HeadTailProperties, LenProperties
    <2> QED
      BY <1>2, <2>1, <2>5 DEF Carried
  <1> QED
    BY <1>1, <1>2

LEMMA EmitStays ==
    ASSUME NEW M, NetTypeOK(M), NEW p \in Site, NEW out \in [Site -> Seq(M)],
           Emit(p, out), NEW K, NEW l \in Site \X Site, Carried(chan, l, K)
    PROVE  Carried(chan', l, K)
  BY SentStays DEF Emit, NetTypeOK

LEMMA ConsumeStays ==
    ASSUME NEW M, NetTypeOK(M), NEW s \in Site, NEW p \in Site,
           NEW out \in [Site -> Seq(M)], CanRecv(s, p), Consume(s, p, out),
           NEW K, NEW l \in Site \X Site, Carried(chan, l, K),
           l # <<s, p>> \/ Head(chan[<<s, p>>]) \notin K
    PROVE  Carried(chan', l, K)
  <1> DEFINE c == [chan EXCEPT ![<<s, p>>] = Tail(@)]
  <1>1. /\ chan \in [Site \X Site -> Seq(M)] /\ <<s, p>> \in Site \X Site
        /\ chan[<<s, p>>] # <<>>
    BY DEF NetTypeOK, CanRecv
  <1>2. c \in [Site \X Site -> Seq(M)]
    BY <1>1, TailType
  <1>3. Carried(c, l, K)
    BY <1>1, TailStays
  <1> HIDE DEF c
  <1> QED
    BY <1>2, <1>3, SentStays DEF Consume, c

LEMMA DetectStays ==
    ASSUME NEW M, NetTypeOK(M), NEW p \in Site, NEW s \in Site,
           NEW out \in [Site -> Seq(M)], Detect(p, s, out),
           NEW K, NEW l \in Site \X Site, Carried(chan, l, K), l[1] # s
    PROVE  Carried(chan', l, K)
  <1> DEFINE c == [chan EXCEPT ![<<s, p>>] = <<>>]
  <1>1. chan \in [Site \X Site -> Seq(M)] /\ c \in [Site \X Site -> Seq(M)]
    BY EmptySeq DEF NetTypeOK
  <1>2. Carried(c, l, K)
    BY <1>1 DEF Carried
  <1>3. chan' = Sent(c, p, out)
    BY DEF Detect
  <1> HIDE DEF c
  <1> QED
    BY <1>1, <1>2, <1>3, SentStays

(* A message to a live site gets on its way.                               *)
LEMMA SentArrives ==
    ASSUME NEW M, NEW c \in [Site \X Site -> Seq(M)], NEW p \in Site,
           NEW out \in [Site -> Seq(M)], NEW d \in Site, NEW K,
           alive[d], d \notin perm[p],
           NEW j \in DOMAIN out[d], out[d][j] \in K
    PROVE  Carried(Sent(c, p, out), <<p, d>>, K)
  <1> DEFINE l == <<p, d>>
  <1>1. /\ l \in Site \X Site /\ l[1] = p /\ l[2] = d
        /\ c[l] \in Seq(M) /\ out[d] \in Seq(M)
    OBVIOUS
  <1>2. Sent(c, p, out)[l] = c[l] \o out[d]
    BY <1>1 DEF Sent
  <1> HIDE DEF l
  <1>3. j \in 1..Len(out[d]) /\ Len(c[l]) \in Nat /\ Len(out[d]) \in Nat
    BY <1>1, LenProperties
  <1> DEFINE i == Len(c[l]) + j
  <1>4. /\ i \in 1..(Len(c[l]) + Len(out[d])) /\ i > Len(c[l])
        /\ i - Len(c[l]) = j
    BY <1>3
  <1> HIDE DEF i
  <1>5. i \in DOMAIN (c[l] \o out[d]) /\ (c[l] \o out[d])[i] = out[d][j]
    BY <1>1, <1>4, ConcatProperties, LenProperties
  <1> QED
    BY <1>2, <1>5 DEF Carried, l

-----------------------------------------------------------------------------
(* How many messages of a kind K there are.                                *)

Number(q, K) == Cardinality({i \in DOMAIN q : q[i] \in K})

LEMMA NumberFinite ==
    ASSUME NEW M, NEW q \in Seq(M), NEW K
    PROVE  /\ IsFiniteSet({i \in DOMAIN q : q[i] \in K})
           /\ Number(q, K) \in Nat
  <1>1. DOMAIN q = 1..Len(q) /\ Len(q) \in Nat
    BY LenProperties
  <1>2. IsFiniteSet(1..Len(q))
    BY <1>1, FS_Interval
  <1>3. IsFiniteSet({i \in DOMAIN q : q[i] \in K})
    BY <1>1, <1>2, FS_Subset
  <1> QED
    BY <1>3, FS_CardinalityType DEF Number

LEMMA NumberZero ==
    ASSUME NEW M, NEW q \in Seq(M), NEW K
    PROVE  Number(q, K) = 0 <=> \A i \in DOMAIN q : q[i] \notin K
  <1> DEFINE Q == {i \in DOMAIN q : q[i] \in K}
  <1>1. Number(q, K) = Cardinality(Q) /\ IsFiniteSet(Q)
    BY NumberFinite DEF Number
  <1> HIDE DEF Q
  <1>2. Number(q, K) = 0 <=> Q = {}
    BY <1>1, FS_EmptySet
  <1> QED
    BY <1>2 DEF Q

LEMMA NumberSingle ==
    ASSUME NEW m, NEW K
    PROVE  Number(<<m>>, K) = IF m \in K THEN 1 ELSE 0
  <1>1. DOMAIN <<m>> = {1} /\ <<m>>[1] = m
    OBVIOUS
  <1>2. CASE m \in K
    <2>1. {i \in DOMAIN <<m>> : <<m>>[i] \in K} = {1}
      BY <1>1, <1>2
    <2> QED
      BY <1>2, <2>1, FS_Singleton DEF Number
  <1>3. CASE m \notin K
    <2>1. {i \in DOMAIN <<m>> : <<m>>[i] \in K} = {}
      BY <1>1, <1>3
    <2> QED
      BY <1>3, <2>1, FS_EmptySet DEF Number
  <1> QED
    BY <1>2, <1>3

(* The messages of the second sequence keep their order behind the first.  *)
LEMMA NumberConcat ==
    ASSUME NEW M, NEW q \in Seq(M), NEW r \in Seq(M), NEW K
    PROVE  Number(q \o r, K) = Number(q, K) + Number(r, K)
  <1> DEFINE n == Len(q)
             Q == {i \in DOMAIN q : q[i] \in K}
             R == {i \in DOMAIN r : r[i] \in K}
             S == {i \in DOMAIN (q \o r) : i > n /\ (q \o r)[i] \in K}
  <1>1. /\ n \in Nat /\ Len(r) \in Nat /\ DOMAIN q = 1..n /\ DOMAIN r = 1..Len(r)
        /\ DOMAIN (q \o r) = 1..(n + Len(r))
        /\ \A i \in 1..(n + Len(r)) :
              (q \o r)[i] = IF i <= n THEN q[i] ELSE r[i - n]
    BY LenProperties, ConcatProperties
  <1> HIDE DEF n
  <1>2. {i \in DOMAIN (q \o r) : (q \o r)[i] \in K} = Q \cup S
    BY <1>1
  <1>3. Q \cap S = {}
    BY <1>1
  <1>4. IsFiniteSet(Q) /\ IsFiniteSet(R)
    BY NumberFinite
  <1>5. ExistsBijection(R, S)
    <2> DEFINE f == [i \in R |-> i + n]
    <2>1. ASSUME NEW i \in R
          PROVE  i \in Nat /\ i + n \in S
      <3>1. /\ i \in 1..Len(r) /\ i + n \in 1..(n + Len(r)) /\ i + n > n
            /\ ~(i + n <= n) /\ (i + n) - n = i
        BY <1>1
      <3>2. (q \o r)[i + n] = r[i]
        BY <1>1, <3>1
      <3> QED
        BY <1>1, <3>1, <3>2
    <2>2. f \in [R -> S]
      BY <2>1
    <2>3. ASSUME NEW i \in R, NEW j \in R, f[i] = f[j]
          PROVE  i = j
      BY <1>1, <2>1, <2>3
    <2>4. ASSUME NEW k \in S
          PROVE  \E i \in R : f[i] = k
      <3>1. /\ k \in 1..(n + Len(r)) /\ k > n /\ ~(k <= n)
            /\ k - n \in 1..Len(r) /\ (k - n) + n = k
        BY <1>1
      <3>2. r[k - n] \in K
        BY <1>1, <3>1
      <3>3. k - n \in R /\ f[k - n] = k
        BY <1>1, <3>1, <3>2
      <3> QED
        BY <3>3
    <2> HIDE DEF f, R, S
    <2>5. f \in Bijection(R, S)
      BY <2>2, <2>3, <2>4 DEF Bijection, Injection, Surjection, IsInjective
    <2> QED
      BY <2>5 DEF ExistsBijection
  <1>6. IsFiniteSet(S) /\ Cardinality(S) = Cardinality(R)
    BY <1>4, <1>5, FS_Bijection
  <1> HIDE DEF Q, R, S
  <1>7. Cardinality(Q \cup S) = Cardinality(Q) + Cardinality(S) - Cardinality(Q \cap S)
    BY <1>4, <1>6, FS_Union
  <1>8. Cardinality(Q \cap S) = 0
    BY <1>3, FS_EmptySet
  <1>9. Cardinality(Q) \in Nat /\ Cardinality(S) \in Nat
    BY <1>4, <1>6, FS_CardinalityType
  <1>10. Cardinality(Q \cup S) = Cardinality(Q) + Cardinality(R)
    BY <1>6, <1>7, <1>8, <1>9
  <1> QED
    BY <1>2, <1>10 DEF Number, Q, R

LEMMA NumberTail ==
    ASSUME NEW M, NEW q \in Seq(M), q # <<>>, NEW K
    PROVE  Number(q, K) = Number(Tail(q), K) + (IF Head(q) \in K THEN 1 ELSE 0)
  <1>1. /\ Head(q) \in M /\ Tail(q) \in Seq(M) /\ <<Head(q)>> \in Seq(M)
    BY HeadTailProperties
  <1>2. q = <<Head(q)>> \o Tail(q)
    OBVIOUS
  <1>3. Number(q, K) = Number(<<Head(q)>>, K) + Number(Tail(q), K)
    <2> DEFINE h == <<Head(q)>>
               t == Tail(q)
    <2>1. h \in Seq(M) /\ t \in Seq(M) /\ q = h \o t
      BY <1>1, <1>2
    <2> HIDE DEF h, t
    <2>2. Number(h \o t, K) = Number(h, K) + Number(t, K)
      BY <2>1, NumberConcat
    <2> QED
      BY <2>1, <2>2 DEF h, t
  <1>4. Number(<<Head(q)>>, K) = IF Head(q) \in K THEN 1 ELSE 0
    BY NumberSingle
  <1>5. Number(Tail(q), K) \in Nat
    BY <1>1, NumberFinite
  <1> QED
    BY <1>3, <1>4, <1>5

(* What is on link l, and what p adds to it by sending out.                *)
OnLink(c, l, K) == Number(c[l], K)

Added(p, out, l, K) ==
    IF l[1] = p /\ alive[l[2]] /\ l[2] \notin perm[p]
    THEN Number(out[l[2]], K) ELSE 0

Channels(M) == [Site \X Site -> Seq(M)]

LEMMA OnLinkNat ==
    ASSUME NEW M, NEW c \in Channels(M), NEW l \in Site \X Site, NEW K
    PROVE  /\ OnLink(c, l, K) \in Nat
           /\ OnLink(c, l, K) = 0 <=> ~Carried(c, l, K)
  <1>1. c[l] \in Seq(M)
    BY DEF Channels
  <1>2. Number(c[l], K) \in Nat
    BY <1>1, NumberFinite
  <1>3. Number(c[l], K) = 0 <=> \A i \in DOMAIN c[l] : c[l][i] \notin K
    BY <1>1, NumberZero
  <1> QED
    BY <1>2, <1>3 DEF OnLink, Carried

LEMMA AddedNat ==
    ASSUME NEW M, NEW p, NEW out \in [Site -> Seq(M)], NEW l \in Site \X Site, NEW K
    PROVE  Added(p, out, l, K) \in Nat
  <1>1. out[l[2]] \in Seq(M)
    OBVIOUS
  <1> QED
    BY <1>1, NumberFinite DEF Added

LEMMA AddedNone ==
    ASSUME NEW M, NEW p, NEW out \in [Site -> Seq(M)], NEW l \in Site \X Site,
           NEW K, Without(out, K)
    PROVE  Added(p, out, l, K) = 0
  <1>1. out[l[2]] \in Seq(M) /\ l[2] \in Site
    OBVIOUS
  <1>2. Number(out[l[2]], K) = 0
    BY <1>1, NumberZero DEF Without
  <1> QED
    BY <1>2 DEF Added

LEMMA SentNumber ==
    ASSUME NEW M, NEW c \in Channels(M), NEW p \in Site,
           NEW out \in [Site -> Seq(M)], NEW l \in Site \X Site, NEW K
    PROVE  OnLink(Sent(c, p, out), l, K) = OnLink(c, l, K) + Added(p, out, l, K)
  <1>1. c[l] \in Seq(M) /\ out[l[2]] \in Seq(M)
    BY DEF Channels
  <1>2. Number(c[l], K) \in Nat
    BY <1>1, NumberFinite
  <1>3. CASE l[1] = p /\ alive[l[2]] /\ l[2] \notin perm[p]
    <2>1. Sent(c, p, out)[l] = c[l] \o out[l[2]]
      BY <1>3 DEF Sent, Channels
    <2>2. Number(c[l] \o out[l[2]], K) = Number(c[l], K) + Number(out[l[2]], K)
      BY <1>1, NumberConcat
    <2> QED
      BY <1>3, <2>1, <2>2 DEF Added, OnLink
  <1>4. CASE ~(l[1] = p /\ alive[l[2]] /\ l[2] \notin perm[p])
    <2>1. Sent(c, p, out)[l] = c[l]
      BY <1>4 DEF Sent, Channels
    <2>2. Added(p, out, l, K) = 0
      BY <1>4 DEF Added
    <2> QED
      BY <1>2, <2>1, <2>2 DEF OnLink
  <1> QED
    BY <1>3, <1>4

LEMMA EmitNumber ==
    ASSUME NEW M, NetTypeOK(M), NEW p \in Site, NEW out \in [Site -> Seq(M)],
           Emit(p, out), NEW l \in Site \X Site, NEW K
    PROVE  OnLink(chan', l, K) = OnLink(chan, l, K) + Added(p, out, l, K)
  <1>1. chan \in Channels(M) /\ chan' = Sent(chan, p, out)
    BY DEF Emit, NetTypeOK, Channels
  <1> QED
    BY <1>1, SentNumber

(* A consumed message is the only one that is missing.                     *)
LEMMA ConsumeNumber ==
    ASSUME NEW M, NetTypeOK(M), NEW s \in Site, NEW p \in Site,
           NEW out \in [Site -> Seq(M)], CanRecv(s, p), Consume(s, p, out),
           NEW l \in Site \X Site, NEW K
    PROVE  OnLink(chan, l, K) + Added(p, out, l, K)
             = OnLink(chan', l, K)
                 + (IF l = <<s, p>> /\ Head(chan[<<s, p>>]) \in K THEN 1 ELSE 0)
  <1> DEFINE c == [chan EXCEPT ![<<s, p>>] = Tail(@)]
             a == Added(p, out, l, K)
             n == OnLink(c, l, K)
  <1>1. /\ chan \in [Site \X Site -> Seq(M)] /\ <<s, p>> \in Site \X Site
        /\ chan[<<s, p>>] # <<>>
    BY DEF NetTypeOK, CanRecv
  <1>2. c \in Channels(M)
    BY <1>1, TailType DEF Channels
  <1>3. chan' = Sent(c, p, out)
    BY DEF Consume
  <1>4. OnLink(chan', l, K) = n + a
    <2>1. OnLink(Sent(c, p, out), l, K) = OnLink(c, l, K) + Added(p, out, l, K)
      <3> HIDE DEF c
      <3> QED
        BY <1>2, SentNumber
    <2> QED
      BY <1>3, <2>1
  <1>5. a \in Nat /\ n \in Nat
    BY <1>2, AddedNat, OnLinkNat
  <1>6. OnLink(chan, l, K)
          = n + (IF l = <<s, p>> /\ Head(chan[<<s, p>>]) \in K THEN 1 ELSE 0)
    <2>1. CASE l = <<s, p>>
      <3>1. c[l] = Tail(chan[<<s, p>>]) /\ chan[<<s, p>>] \in Seq(M)
        BY <1>1, <2>1
      <3> QED
        BY <1>1, <2>1, <3>1, NumberTail DEF OnLink
    <2>2. CASE l # <<s, p>>
      <3>1. c[l] = chan[l]
        BY <1>1, <2>2
      <3>2. OnLink(chan, l, K) = n
        BY <3>1 DEF OnLink
      <3> HIDE DEF n
      <3> QED
        BY <1>5, <2>2, <3>2
    <2> QED
      BY <2>1, <2>2
  <1> HIDE DEF a, n
  <1>7. OnLink(chan, l, K) + a = OnLink(chan', l, K)
          + (IF l = <<s, p>> /\ Head(chan[<<s, p>>]) \in K THEN 1 ELSE 0)
    BY <1>4, <1>5, <1>6
  <1> QED
    BY <1>7 DEF a

LEMMA DetectNumber ==
    ASSUME NEW M, NetTypeOK(M), NEW p \in Site, NEW s \in Site,
           NEW out \in [Site -> Seq(M)], Detect(p, s, out),
           NEW l \in Site \X Site, NEW K, l # <<s, p>>
    PROVE  OnLink(chan', l, K) = OnLink(chan, l, K) + Added(p, out, l, K)
  <1> DEFINE c == [chan EXCEPT ![<<s, p>>] = <<>>]
  <1>1. c \in Channels(M) /\ c[l] = chan[l]
    BY EmptySeq DEF NetTypeOK, Channels
  <1>2. chan' = Sent(c, p, out)
    BY DEF Detect
  <1>3. OnLink(chan', l, K) = OnLink(c, l, K) + Added(p, out, l, K)
    BY <1>1, <1>2, SentNumber
  <1> QED
    BY <1>1, <1>3 DEF OnLink

-----------------------------------------------------------------------------
(* The order of the messages on a link.  A message of the kind K is in the *)
(* queue q with none of the kind S ahead of it; one of the kind K and,     *)
(* behind it, one of the kind L are.                                       *)

Hears(q, K, S) ==
    \E j \in DOMAIN q : q[j] \in K /\ \A k \in 1..(j - 1) : q[k] \notin S

Pair(q, K, L, S) ==
    \E i, j \in DOMAIN q :
        /\ i < j /\ q[i] \in K /\ q[j] \in L
        /\ \A k \in 1..(j - 1) : q[k] \notin S

LEMMA PairFirst ==
    ASSUME NEW M, NEW q \in Seq(M), NEW K, NEW L, NEW S, Pair(q, K, L, S)
    PROVE  Hears(q, K, S)
  <1>1. DOMAIN q = 1..Len(q) /\ Len(q) \in Nat
    BY LenProperties
  <1> QED
    BY <1>1 DEF Pair, Hears

LEMMA AppendElements ==
    ASSUME NEW M, NEW q \in Seq(M), NEW m \in M
    PROVE  /\ DOMAIN q = 1..Len(q) /\ Len(q) \in Nat
           /\ DOMAIN (q \o <<m>>) = 1..(Len(q) + 1)
           /\ \A i \in 1..Len(q) : (q \o <<m>>)[i] = q[i]
           /\ (q \o <<m>>)[Len(q) + 1] = m
  <1>1. <<m>> \in Seq(M) /\ Len(<<m>>) = 1 /\ <<m>>[1] = m
    OBVIOUS
  <1>2. Len(q) \in Nat /\ DOMAIN q = 1..Len(q)
    BY LenProperties
  <1>3. /\ q \o <<m>> \in Seq(M)
        /\ Len(q \o <<m>>) = Len(q) + 1
        /\ \A i \in 1..(Len(q) + 1) :
              (q \o <<m>>)[i] = IF i <= Len(q) THEN q[i] ELSE <<m>>[i - Len(q)]
    BY <1>1, <1>2, ConcatProperties
  <1>4. DOMAIN (q \o <<m>>) = 1..(Len(q) + 1)
    BY <1>3, LenProperties
  <1> QED
    BY <1>1, <1>2, <1>3, <1>4

LEMMA HearsAppend ==
    ASSUME NEW M, NEW q \in Seq(M), NEW m \in M, NEW K, NEW S
    PROVE  Hears(q \o <<m>>, K, S)
             <=> Hears(q, K, S) \/ (m \in K /\ ~Hears(q, S, {}))
  <1> DEFINE n == Len(q)
             t == q \o <<m>>
  <1>1. /\ DOMAIN q = 1..n /\ n \in Nat /\ DOMAIN t = 1..(n + 1)
        /\ \A i \in 1..n : t[i] = q[i]
        /\ t[n + 1] = m
    BY AppendElements
  <1> HIDE DEF n, t
  <1>2. Hears(q, S, {}) <=> \E k \in 1..n : q[k] \in S
    BY <1>1 DEF Hears
  <1>3. ASSUME Hears(t, K, S)
        PROVE  Hears(q, K, S) \/ (m \in K /\ ~Hears(q, S, {}))
    <2>1. PICK j \in 1..(n + 1) : t[j] \in K /\ \A k \in 1..(j - 1) : t[k] \notin S
      BY <1>1, <1>3 DEF Hears
    <2>2. CASE j = n + 1
      BY <1>1, <1>2, <2>1, <2>2
    <2>3. CASE j \in 1..n
      BY <1>1, <2>1, <2>3 DEF Hears
    <2> QED
      BY <1>1, <2>1, <2>2, <2>3
  <1>4. ASSUME Hears(q, K, S)
        PROVE  Hears(t, K, S)
    BY <1>1, <1>4 DEF Hears
  <1>5. ASSUME m \in K, ~Hears(q, S, {})
        PROVE  Hears(t, K, S)
    <2>1. \A k \in 1..((n + 1) - 1) : t[k] \notin S
      BY <1>1, <1>2, <1>5
    <2>2. n + 1 \in DOMAIN t /\ t[n + 1] \in K
      BY <1>1, <1>5
    <2> QED
      BY <2>1, <2>2 DEF Hears
  <1> QED
    BY <1>3, <1>4, <1>5 DEF t

LEMMA PairAppend ==
    ASSUME NEW M, NEW q \in Seq(M), NEW m \in M, NEW K, NEW L, NEW S,
           Pair(q \o <<m>>, K, L, S)
    PROVE  Pair(q, K, L, S) \/ (m \in L /\ Hears(q, K, S) /\ ~Hears(q, S, {}))
  <1> DEFINE n == Len(q)
             t == q \o <<m>>
  <1>1. /\ DOMAIN q = 1..n /\ n \in Nat /\ DOMAIN t = 1..(n + 1)
        /\ \A i \in 1..n : t[i] = q[i]
        /\ t[n + 1] = m
    BY AppendElements
  <1>2. PICK i, j \in DOMAIN t :
            i < j /\ t[i] \in K /\ t[j] \in L /\ \A k \in 1..(j - 1) : t[k] \notin S
    BY DEF Pair
  <1> HIDE DEF n, t
  <1>3. i \in 1..n /\ q[i] \in K
    BY <1>1, <1>2
  <1>4. CASE j = n + 1
    <2>1. \A k \in 1..n : q[k] \notin S
      BY <1>1, <1>2, <1>4
    <2>2. Hears(q, K, S)
      BY <1>1, <1>3, <2>1 DEF Hears
    <2>3. ~Hears(q, S, {})
      BY <1>1, <2>1 DEF Hears
    <2> QED
      BY <1>1, <1>2, <1>4, <2>2, <2>3
  <1>5. CASE j \in 1..n
    BY <1>1, <1>2, <1>3, <1>5 DEF Pair
  <1> QED
    BY <1>1, <1>2, <1>4, <1>5

LEMMA TailOrder ==
    ASSUME NEW M, NEW q \in Seq(M), q # <<>>, NEW K, NEW S
    PROVE  /\ Head(q) \in K => Hears(q, K, S)
           /\ Hears(q, K, S) /\ Head(q) \notin K => Hears(Tail(q), K, S)
           /\ Hears(Tail(q), K, S) /\ Head(q) \notin S => Hears(q, K, S)
           /\ \A L : Pair(Tail(q), K, L, S) /\ Head(q) \notin S => Pair(q, K, L, S)
           /\ \A L : Hears(Tail(q), L, S) /\ Head(q) \in K /\ Head(q) \notin S
                       => Pair(q, K, L, S)
  <1> DEFINE n == Len(q)
             t == Tail(q)
  <1>1. /\ n \in Nat \ {0} /\ DOMAIN q = 1..n /\ q[1] = Head(q)
        /\ DOMAIN t = 1..(n - 1)
        /\ \A i \in 1..(n - 1) : t[i] = q[i + 1]
    <2>1. n \in Nat /\ n # 0 /\ DOMAIN q = 1..n
      BY LenProperties, EmptySeq
    <2>2. t \in Seq(M) /\ Len(t) = n - 1 /\ Head(q) = q[1]
      BY HeadTailProperties
    <2>3. \A i \in 1..(n - 1) : t[i] = q[i + 1]
      BY <2>1
    <2> QED
      BY <2>1, <2>2, <2>3, LenProperties
  <1> HIDE DEF n, t
  <1>2. Head(q) \in K => Hears(q, K, S)
    BY <1>1 DEF Hears
  <1>3. ASSUME Hears(q, K, S), Head(q) \notin K
        PROVE  Hears(t, K, S)
    <2>1. PICK j \in 1..n : q[j] \in K /\ \A k \in 1..(j - 1) : q[k] \notin S
      BY <1>1, <1>3 DEF Hears
    <2>2. j - 1 \in 1..(n - 1) /\ t[j - 1] = q[j]
      BY <1>1, <1>3, <2>1
    <2>3. \A k \in 1..((j - 1) - 1) : t[k] \notin S
      BY <1>1, <2>1, <2>2
    <2> QED
      BY <1>1, <2>1, <2>2, <2>3 DEF Hears
  <1>4. ASSUME Head(q) \notin S, NEW j \in 1..(n - 1),
               \A k \in 1..(j - 1) : t[k] \notin S
        PROVE  j + 1 \in 1..n /\ \A k \in 1..((j + 1) - 1) : q[k] \notin S
    <2>1. ASSUME NEW k \in 1..((j + 1) - 1)
          PROVE  q[k] \notin S
      <3>1. CASE k = 1
        BY <1>1, <1>4, <3>1
      <3>2. CASE k # 1
        <4>1. k - 1 \in 1..(j - 1) /\ k - 1 \in 1..(n - 1) /\ (k - 1) + 1 = k
          BY <1>1, <3>2
        <4>2. t[k - 1] = q[(k - 1) + 1]
          BY <1>1, <4>1
        <4> QED
          BY <1>4, <4>1, <4>2
      <3> QED
        BY <3>1, <3>2
    <2> QED
      BY <1>1, <2>1
  <1>5. Hears(t, K, S) /\ Head(q) \notin S => Hears(q, K, S)
    BY <1>1, <1>4 DEF Hears
  <1>6. ASSUME NEW L, Pair(t, K, L, S), Head(q) \notin S
        PROVE  Pair(q, K, L, S)
    <2>1. PICK i, j \in 1..(n - 1) :
              i < j /\ t[i] \in K /\ t[j] \in L /\ \A k \in 1..(j - 1) : t[k] \notin S
      BY <1>1, <1>6 DEF Pair
    <2>2. j + 1 \in 1..n /\ \A k \in 1..((j + 1) - 1) : q[k] \notin S
      BY <1>4, <1>6, <2>1
    <2>3. i + 1 \in 1..n /\ i + 1 < j + 1 /\ q[i + 1] \in K /\ q[j + 1] \in L
      BY <1>1, <2>1
    <2> QED
      BY <1>1, <2>2, <2>3 DEF Pair
  <1>7. ASSUME NEW L, Hears(t, L, S), Head(q) \in K, Head(q) \notin S
        PROVE  Pair(q, K, L, S)
    <2>1. PICK j \in 1..(n - 1) : t[j] \in L /\ \A k \in 1..(j - 1) : t[k] \notin S
      BY <1>1, <1>7 DEF Hears
    <2>2. j + 1 \in 1..n /\ \A k \in 1..((j + 1) - 1) : q[k] \notin S
      BY <1>4, <1>7, <2>1
    <2>3. 1 \in 1..n /\ 1 < j + 1 /\ q[1] \in K /\ q[j + 1] \in L
      BY <1>1, <1>7, <2>1
    <2> QED
      BY <1>1, <2>2, <2>3 DEF Pair
  <1> QED
    BY <1>2, <1>3, <1>5, <1>6, <1>7 DEF t

-----------------------------------------------------------------------------
(* The same on the links of the channels c.                                *)

On(c, l, K, S) == Hears(c[l], K, S)
Two(c, l, K, L, S) == Pair(c[l], K, L, S)

LEMMA TwoFirst ==
    ASSUME NEW M, NEW c \in Channels(M), NEW l \in Site \X Site, NEW K, NEW L,
           NEW S, Two(c, l, K, L, S)
    PROVE  On(c, l, K, S)
  <1>1. c[l] \in Seq(M)
    BY DEF Channels
  <1> QED
    BY <1>1, PairFirst DEF On, Two

(* Site p sends the message m to d.                                        *)
Reaches(p, d) == alive[d] /\ d \notin perm[p]

LEMMA SentLink ==
    ASSUME NEW M, NEW c \in Channels(M), NEW p \in Site, NEW d, NEW m \in M,
           NEW l \in Site \X Site
    PROVE  Sent(c, p, To(d, m))[l]
             = IF l = <<p, d>> /\ Reaches(p, d) THEN c[l] \o <<m>> ELSE c[l]
  <1>1. c[l] \in Seq(M) /\ c[l] \o <<>> = c[l]
    <2>1. c[l] \in Seq(M)
      BY DEF Channels
    <2> QED
      BY <2>1, ConcatEmptySeq
  <1>2. l = <<l[1], l[2]>> /\ l[1] \in Site /\ l[2] \in Site
    OBVIOUS
  <1>3. To(d, m)[l[2]] = IF l[2] = d THEN <<m>> ELSE <<>>
    BY <1>2 DEF To, Silent
  <1>4. Sent(c, p, To(d, m))[l]
          = IF l[1] = p /\ alive[l[2]] /\ l[2] \notin perm[p]
            THEN c[l] \o To(d, m)[l[2]] ELSE c[l]
    BY DEF Sent
  <1>5. CASE l = <<p, d>>
    BY <1>1, <1>2, <1>3, <1>4, <1>5 DEF Reaches
  <1>6. CASE l # <<p, d>>
    <2>1. l[1] # p \/ l[2] # d
      BY <1>2, <1>6
    <2> QED
      BY <1>1, <1>3, <1>4, <1>6, <2>1
  <1> QED
    BY <1>5, <1>6

LEMMA SentOn ==
    ASSUME NEW M, NEW c \in Channels(M), NEW p \in Site, NEW d, NEW m \in M,
           NEW l \in Site \X Site, NEW K, NEW S
    PROVE  On(Sent(c, p, To(d, m)), l, K, S)
             <=> \/ On(c, l, K, S)
                 \/ l = <<p, d>> /\ Reaches(p, d) /\ m \in K /\ ~On(c, l, S, {})
  <1>1. c[l] \in Seq(M)
    BY DEF Channels
  <1>2. Hears(c[l] \o <<m>>, K, S)
          <=> Hears(c[l], K, S) \/ (m \in K /\ ~Hears(c[l], S, {}))
    BY <1>1, HearsAppend
  <1>3. Sent(c, p, To(d, m))[l]
          = IF l = <<p, d>> /\ Reaches(p, d) THEN c[l] \o <<m>> ELSE c[l]
    BY SentLink
  <1> QED
    BY <1>2, <1>3 DEF On

LEMMA SentTwo ==
    ASSUME NEW M, NEW c \in Channels(M), NEW p \in Site, NEW d, NEW m \in M,
           NEW l \in Site \X Site, NEW K, NEW L, NEW S,
           Two(Sent(c, p, To(d, m)), l, K, L, S)
    PROVE  \/ Two(c, l, K, L, S)
           \/ l = <<p, d>> /\ m \in L /\ On(c, l, K, S) /\ ~On(c, l, S, {})
  <1>1. c[l] \in Seq(M)
    BY DEF Channels
  <1>2. Pair(c[l] \o <<m>>, K, L, S)
          => Pair(c[l], K, L, S) \/ (m \in L /\ Hears(c[l], K, S) /\ ~Hears(c[l], S, {}))
    BY <1>1, PairAppend
  <1>3. Sent(c, p, To(d, m))[l]
          = IF l = <<p, d>> /\ Reaches(p, d) THEN c[l] \o <<m>> ELSE c[l]
    BY SentLink
  <1> QED
    BY <1>2, <1>3 DEF On, Two

LEMMA SentSilent ==
    ASSUME NEW M, NEW c \in Channels(M), NEW p \in Site
    PROVE  Sent(c, p, Silent) = c
  <1>1. ASSUME NEW l \in Site \X Site
        PROVE  c[l] \o Silent[l[2]] = c[l]
    <2>1. c[l] \in Seq(M) /\ l[2] \in Site
      BY DEF Channels
    <2>2. Silent[l[2]] = <<>>
      BY <2>1 DEF Silent
    <2> QED
      BY <2>1, <2>2, ConcatEmptySeq
  <1>2. c = [l \in Site \X Site |-> c[l]]
    BY DEF Channels
  <1>3. Sent(c, p, Silent) = [l \in Site \X Site |-> c[l]]
    BY <1>1 DEF Sent
  <1> QED
    BY <1>2, <1>3

(* Named, so that the provers need not match the concatenations.           *)
Associates(q, r, t) == (q \o r) \o t = q \o (r \o t)

LEMMA ConcatThree ==
    ASSUME NEW M, NEW q \in Seq(M), NEW r \in Seq(M), NEW t \in Seq(M)
    PROVE  Associates(q, r, t)
  <1>1. Len(q) \in Nat /\ Len(r) \in Nat /\ Len(t) \in Nat
    BY LenProperties
  <1>2. /\ q \o r \in Seq(M) /\ Len(q \o r) = Len(q) + Len(r)
        /\ \A i \in 1..(Len(q) + Len(r)) :
              (q \o r)[i] = IF i <= Len(q) THEN q[i] ELSE r[i - Len(q)]
    BY ConcatProperties
  <1>3. /\ r \o t \in Seq(M) /\ Len(r \o t) = Len(r) + Len(t)
        /\ \A i \in 1..(Len(r) + Len(t)) :
              (r \o t)[i] = IF i <= Len(r) THEN r[i] ELSE t[i - Len(r)]
    BY ConcatProperties
  <1> DEFINE u == q \o r
             w == r \o t
  <1> HIDE DEF u, w
  <1>4. /\ u \o t \in Seq(M) /\ Len(u \o t) = Len(u) + Len(t)
        /\ \A i \in 1..(Len(u) + Len(t)) :
              (u \o t)[i] = IF i <= Len(u) THEN u[i] ELSE t[i - Len(u)]
    BY <1>2, ConcatProperties DEF u
  <1>5. /\ q \o w \in Seq(M) /\ Len(q \o w) = Len(q) + Len(w)
        /\ \A i \in 1..(Len(q) + Len(w)) :
              (q \o w)[i] = IF i <= Len(q) THEN q[i] ELSE w[i - Len(q)]
    BY <1>3, ConcatProperties DEF w
  <1>6. ASSUME NEW i \in 1..Len(u \o t)
        PROVE  (u \o t)[i] = (q \o w)[i]
    <2> USE <1>1, <1>6
    <2>1. Len(u) = Len(q) + Len(r) /\ Len(w) = Len(r) + Len(t)
      BY <1>2, <1>3 DEF u, w
    <2>2. CASE i <= Len(q)
      BY <1>2, <1>4, <1>5, <2>1, <2>2 DEF u
    <2>3. CASE ~(i <= Len(q)) /\ i <= Len(u)
      <3>1. i - Len(q) \in 1..(Len(r) + Len(t)) /\ i - Len(q) <= Len(r)
        BY <1>4, <2>1, <2>3
      <3>2. w[i - Len(q)] = r[i - Len(q)]
        BY <1>3, <3>1 DEF w
      <3> QED
        BY <1>2, <1>4, <1>5, <2>1, <2>3, <3>2 DEF u
    <2>4. CASE ~(i <= Len(u))
      <3>1. /\ i - Len(q) \in 1..(Len(r) + Len(t)) /\ ~(i - Len(q) <= Len(r))
            /\ ~(i <= Len(q)) /\ (i - Len(q)) - Len(r) = i - Len(u)
        BY <1>4, <2>1, <2>4
      <3>2. w[i - Len(q)] = t[(i - Len(q)) - Len(r)]
        BY <1>3, <3>1 DEF w
      <3> QED
        BY <1>4, <1>5, <2>1, <2>4, <3>1, <3>2, SMTT(40)
    <2> QED
      BY <2>2, <2>3, <2>4
  <1>7. Len(u \o t) = Len(q \o w)
    BY <1>1, <1>2, <1>3, <1>4, <1>5 DEF u, w
  <1> QED
    BY <1>4, <1>5, <1>6, <1>7, SeqEqual DEF u, w, Associates

LEMMA SentBoth ==
    ASSUME NEW M, NEW c \in Channels(M), NEW p \in Site,
           NEW o1 \in [Site -> Seq(M)], NEW o2 \in [Site -> Seq(M)]
    PROVE  Sent(c, p, Both(o1, o2)) = Sent(Sent(c, p, o1), p, o2)
  <1> SUFFICES ASSUME NEW l \in Site \X Site
               PROVE  Sent(c, p, Both(o1, o2))[l] = Sent(Sent(c, p, o1), p, o2)[l]
    BY DEF Sent
  <1>1. /\ c[l] \in Seq(M) /\ o1[l[2]] \in Seq(M) /\ o2[l[2]] \in Seq(M)
        /\ l[2] \in Site
    BY DEF Channels
  <1> DEFINE a == c[l]
             x == o1[l[2]]
             y == o2[l[2]]
  <1>2. (a \o x) \o y = a \o (x \o y)
    <2>1. a \in Seq(M) /\ x \in Seq(M) /\ y \in Seq(M)
      BY <1>1
    <2> HIDE DEF a, x, y
    <2>2. Associates(a, x, y)
      BY <2>1, ConcatThree
    <2> QED
      BY <2>2 DEF Associates
  <1>3. Both(o1, o2)[l[2]] = o1[l[2]] \o o2[l[2]]
    BY <1>1 DEF Both
  <1> QED
    BY <1>2, <1>3 DEF Sent

(* Site p takes the oldest message of s.                                   *)
Taken(c, s, p) == [c EXCEPT ![<<s, p>>] = Tail(@)]

LEMMA TakenType ==
    ASSUME NEW M, NEW c \in Channels(M), NEW s \in Site, NEW p \in Site,
           c[<<s, p>>] # <<>>
    PROVE  Taken(c, s, p) \in Channels(M) /\ Head(c[<<s, p>>]) \in M
  <1>1. c \in [Site \X Site -> Seq(M)] /\ <<s, p>> \in Site \X Site
    BY DEF Channels
  <1>2. Head(c[<<s, p>>]) \in M
    BY <1>1, HeadTailProperties
  <1> QED
    BY <1>1, <1>2, TailType DEF Taken, Channels

LEMMA TakenOn ==
    ASSUME NEW M, NEW c \in Channels(M), NEW s \in Site, NEW p \in Site,
           c[<<s, p>>] # <<>>, NEW l \in Site \X Site, NEW K, NEW S,
           l = <<s, p>> => Head(c[<<s, p>>]) \notin S
    PROVE  /\ On(Taken(c, s, p), l, K, S) => On(c, l, K, S)
           /\ On(c, l, K, S) =>
                 \/ On(Taken(c, s, p), l, K, S)
                 \/ l = <<s, p>> /\ Head(c[<<s, p>>]) \in K
           /\ l = <<s, p>> /\ Head(c[<<s, p>>]) \in K => On(c, l, K, S)
  <1>1. c[l] \in Seq(M) /\ <<s, p>> \in Site \X Site
    BY DEF Channels
  <1>2. CASE l = <<s, p>>
    <2>1. Taken(c, s, p)[l] = Tail(c[l])
      BY <1>1, <1>2 DEF Taken, Channels
    <2> QED
      BY <1>1, <1>2, <2>1, TailOrder DEF On
  <1>3. CASE l # <<s, p>>
    <2>1. Taken(c, s, p)[l] = c[l]
      BY <1>1, <1>3 DEF Taken, Channels
    <2> QED
      BY <1>3, <2>1 DEF On
  <1> QED
    BY <1>2, <1>3

LEMMA TakenTwo ==
    ASSUME NEW M, NEW c \in Channels(M), NEW s \in Site, NEW p \in Site,
           c[<<s, p>>] # <<>>, NEW l \in Site \X Site, NEW K, NEW L, NEW S,
           l = <<s, p>> => Head(c[<<s, p>>]) \notin S
    PROVE  /\ Two(Taken(c, s, p), l, K, L, S) => Two(c, l, K, L, S)
           /\ l = <<s, p>> /\ Head(c[<<s, p>>]) \in K
                /\ On(Taken(c, s, p), l, L, S) => Two(c, l, K, L, S)
  <1>1. c[l] \in Seq(M) /\ <<s, p>> \in Site \X Site
    BY DEF Channels
  <1>2. CASE l = <<s, p>>
    <2>1. Taken(c, s, p)[l] = Tail(c[l])
      BY <1>1, <1>2 DEF Taken, Channels
    <2> QED
      BY <1>1, <1>2, <2>1, TailOrder DEF On, Two
  <1>3. CASE l # <<s, p>>
    <2>1. Taken(c, s, p)[l] = c[l]
      BY <1>1, <1>3 DEF Taken, Channels
    <2> QED
      BY <1>3, <2>1 DEF On, Two
  <1> QED
    BY <1>2, <1>3

(* Links are emptied.                                                      *)
LEMMA EmptiedOrder ==
    ASSUME NEW c, NEW n, NEW l, n[l] = c[l] \/ n[l] = <<>>, NEW K, NEW S
    PROVE  /\ On(n, l, K, S) => On(c, l, K, S)
           /\ \A L : Two(n, l, K, L, S) => Two(c, l, K, L, S)
  BY DEF On, Two, Hears, Pair

(* Site p sends the message m to every site of D.                          *)
Each(D, m) == [d \in Site |-> IF d \in D THEN <<m>> ELSE <<>>]

LEMMA ToIsEach ==
    ASSUME NEW d \in Site, NEW m
    PROVE  To(d, m) = Each({d}, m)
  BY DEF To, Silent, Each

LEMMA EachType ==
    ASSUME NEW M, NEW D, NEW m \in M
    PROVE  Each(D, m) \in [Site -> Seq(M)]
  <1>1. <<m>> \in Seq(M) /\ <<>> \in Seq(M)
    OBVIOUS
  <1> QED
    BY <1>1 DEF Each

LEMMA EachLink ==
    ASSUME NEW M, NEW c \in Channels(M), NEW p \in Site, NEW D, NEW m \in M,
           NEW l \in Site \X Site
    PROVE  Sent(c, p, Each(D, m))[l]
             = IF l[1] = p /\ Reaches(p, l[2]) /\ l[2] \in D
               THEN c[l] \o <<m>> ELSE c[l]
  <1>1. c[l] \in Seq(M) /\ l[2] \in Site
    BY DEF Channels
  <1>2. c[l] \o <<>> = c[l]
    BY <1>1, ConcatEmptySeq
  <1>3. Each(D, m)[l[2]] = IF l[2] \in D THEN <<m>> ELSE <<>>
    BY <1>1 DEF Each
  <1> QED
    BY <1>2, <1>3 DEF Sent, Reaches

LEMMA EachOn ==
    ASSUME NEW M, NEW c \in Channels(M), NEW p \in Site, NEW D, NEW m \in M,
           NEW l \in Site \X Site, NEW K
    PROVE  On(Sent(c, p, Each(D, m)), l, K, {})
             <=> \/ On(c, l, K, {})
                 \/ l[1] = p /\ Reaches(p, l[2]) /\ l[2] \in D /\ m \in K
  <1>1. c[l] \in Seq(M)
    BY DEF Channels
  <1>2. Hears(c[l] \o <<m>>, K, {})
          <=> Hears(c[l], K, {}) \/ (m \in K /\ ~Hears(c[l], {}, {}))
    BY <1>1, HearsAppend
  <1>3. ~Hears(c[l], {}, {})
    BY DEF Hears
  <1>4. Sent(c, p, Each(D, m))[l]
          = IF l[1] = p /\ Reaches(p, l[2]) /\ l[2] \in D
            THEN c[l] \o <<m>> ELSE c[l]
    BY EachLink
  <1> QED
    BY <1>2, <1>3, <1>4 DEF On

LEMMA EachTwo ==
    ASSUME NEW M, NEW c \in Channels(M), NEW p \in Site, NEW D, NEW m \in M,
           NEW l \in Site \X Site, NEW K, NEW L,
           Two(Sent(c, p, Each(D, m)), l, K, L, {})
    PROVE  \/ Two(c, l, K, L, {})
           \/ l[1] = p /\ l[2] \in D /\ m \in L /\ On(c, l, K, {})
  <1>1. c[l] \in Seq(M)
    BY DEF Channels
  <1>2. Pair(c[l] \o <<m>>, K, L, {})
          => Pair(c[l], K, L, {}) \/ (m \in L /\ Hears(c[l], K, {}))
    BY <1>1, PairAppend
  <1>3. Sent(c, p, Each(D, m))[l]
          = IF l[1] = p /\ Reaches(p, l[2]) /\ l[2] \in D
            THEN c[l] \o <<m>> ELSE c[l]
    BY EachLink
  <1> QED
    BY <1>2, <1>3 DEF On, Two

(* What is sent, or taken, is of no interest.                              *)
LEMMA SentOther ==
    ASSUME NEW M, NEW c \in Channels(M), NEW p \in Site,
           NEW out \in [Site -> Seq(M)], NEW Z, Without(out, Z),
           NEW l \in Site \X Site, NEW K, NEW L, K \subseteq Z, L \subseteq Z
    PROVE  /\ On(Sent(c, p, out), l, K, {}) <=> On(c, l, K, {})
           /\ Two(Sent(c, p, out), l, K, L, {}) => Two(c, l, K, L, {})
  <1> DEFINE n == Sent(c, p, out)
  <1>1. Without(out, K) /\ Without(out, L)
    BY DEF Without
  <1>2. c \in [Site \X Site -> Seq(M)]
    BY DEF Channels
  <1>3. On(n, l, K, {}) <=> Carried(n, l, K)
    BY DEF On, Hears, Carried
  <1>4. On(c, l, K, {}) <=> Carried(c, l, K)
    BY DEF On, Hears, Carried
  <1>5. Carried(n, l, K) <=> Carried(c, l, K)
    BY <1>1, <1>2, SentCarried, SentStays
  <1>6. ASSUME Two(n, l, K, L, {})
        PROVE  Two(c, l, K, L, {})
    <2>1. PICK i, j \in DOMAIN n[l] : i < j /\ n[l][i] \in K /\ n[l][j] \in L
      BY <1>6 DEF Two, Pair
    <2>2. ASSUME NEW k \in DOMAIN n[l], n[l][k] \in K \/ n[l][k] \in L
          PROVE  k \in DOMAIN c[l] /\ n[l][k] = c[l][k]
      <3>1. Origin(c, p, out, l, k)
        BY <1>2, SentElements
      <3>2. l[2] \in Site
        OBVIOUS
      <3> QED
        BY <1>1, <2>2, <3>1, <3>2 DEF Origin, Without
    <2>3. i \in DOMAIN c[l] /\ j \in DOMAIN c[l] /\ c[l][i] \in K /\ c[l][j] \in L
      BY <2>1, <2>2
    <2> QED
      BY <2>1, <2>3 DEF Two, Pair
  <1> QED
    BY <1>3, <1>4, <1>5, <1>6
=============================================================================
