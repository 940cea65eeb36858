--------------------------- MODULE ConnectionProofs ---------------------------
(***************************************************************************)
(* Proofs about Connection, for any two sites, any number of channels and  *)
(* any budget: the type invariant, which also says that connectionLost     *)
(* knows every state in which a ComObj has a channel; that a ComObj that   *)
(* works and has something queued has a writer; and that two ComObjs that  *)
(* work do so on the same channel and count the same messages.             *)
(*                                                                         *)
(* A handler is a composition of operators on one ComObj, so every         *)
(* operator has one lemma that says which ComObj it makes of which; the    *)
(* actions then put them together.                                         *)
(***************************************************************************)
EXTENDS Connection, FiniteSetTheorems, SequenceTheorems, TLAPS

(* What is queued: what controls the connection, pings, the messages of    *)
(* the application, and the two messages with a ConnectionInfo.            *)
Plain == {"ACK", "PING", "CLOSE_WEAK", "CLOSE_ACCEPT", "CLOSE_REJECT",
          "CLEAR_REFERENCE", "INIT_NEGOTIATE"}

Presenting == {"INIT_PRESENT", "ANON_NEGOTIATE"}

ConnectionInfo == [lastReceived : Nat, need : BOOLEAN]

Message ==
    [t : Plain] \cup [t : {"APP"}, id : Nat]
    \cup [t : Presenting, ci : ConnectionInfo]

FrameType ==
    [t : Plain \cup {"ANON_PRESENT"}, ack : Nat]
    \cup [t : {"APP"}, id : Nat, ack : Nat]
    \cup [t : Presenting, ci : ConnectionInfo, ack : Nat]

ComObjState ==
    {"CLOSED", "OPENING_WF_HANDOVER", "OPENING_WF_PRESENT",
     "OPENING_WF_NEGOTIATE", "ANONYMOUS_WF_PRESENT",
     "ANONYMOUS_WF_NEGOTIATE", "WORKING", "CLOSING_WEAK"}

Prio == {0, 2, 3, 4}

ComObj ==
    [st : ComObjState, ch : Channel \cup {NoChannel, LostChannel},
     q : [Prio -> Seq(Message)],
     unacked : Seq([num : Nat, msg : Message]),
     lastSent : Nat, lastReceived : Nat, localRef : BOOLEAN,
     remoteRef : BOOLEAN, sentClearRef : BOOLEAN, ackTimer : BOOLEAN,
     writer : BOOLEAN]

ChannelType ==
    [to : [Site -> Seq(FrameType)], open : [Site -> BOOLEAN],
     anonymous : SUBSET Site]

(* A ComObj that waits for a channel has none, and one with a state of its *)
(* own is not anonymous any more.                                          *)
Settled(r) ==
    /\ r.st = "OPENING_WF_HANDOVER" => r.ch = NoChannel
    /\ r.st # "ANONYMOUS_WF_PRESENT"

(* The type invariant: what the ComObjs, their queues and the channels     *)
(* hold, and that only a ComObj that has asked for a channel is without    *)
(* one in an opening state.                                                *)
TypeOK ==
    /\ conn \in [Site -> ComObj]
    /\ \A s \in Site : Settled(conn[s])
    /\ requests \in [Site -> Nat]
    /\ chan \in [Channel -> ChannelType]
    /\ sent \in [Site -> Nat]
    /\ got \in [Site -> Seq(Nat)]
    /\ broken \in BOOLEAN

(* What WriterWaits says of one ComObj.                                    *)
Waits(r) == r.st = "WORKING" /\ hasQueued(r) => r.writer

-----------------------------------------------------------------------------
(* Sites, queues and lists.                                                *)

(* The other site is a site.                                               *)
LEMMA PeerIsSite ==
    ASSUME NEW s \in Site PROVE Peer(s) \in Site /\ Peer(s) # s
<1>1. \E p \in Site : p # s
  <2>1. SUFFICES ASSUME Site = {s} PROVE FALSE
    OBVIOUS
  <2>2. Cardinality({s}) = 1
    BY FS_Singleton
  <2> QED BY <2>1, <2>2, SiteAssumption
<1> QED BY <1>1 DEF Peer

(* An element of a list.                                                   *)
LEMMA ElementOf ==
    ASSUME NEW S, NEW list \in Seq(S), NEW i \in 1..Len(list)
    PROVE list[i] \in S
OBVIOUS

(* Lists of numbered messages stay such lists when acknowledged ones go.   *)
LEMMA UnackedType ==
    ASSUME NEW S, NEW list \in Seq(S), NEW num
    PROVE Unacked(list, num) \in Seq(S)
<1> DEFINE D == {i \in DOMAIN list : list[i].num < num}
<1>1. DOMAIN list = 1..Len(list) /\ Len(list) \in Nat
  OBVIOUS
<1>2. IsFiniteSet(1..Len(list))
  BY <1>1, FS_Interval
<1>3. Cardinality(D) \in Nat
  <2>1. D \subseteq 1..Len(list)
    BY <1>1
  <2> QED BY <1>2, <2>1, FS_Subset, FS_CardinalityType
<1> HIDE DEF D
<1>4. SubSeq(list, Cardinality(D) + 2, Len(list)) \in Seq(S)
  BY <1>1, <1>3, ElementOf, SubSeqProperties
<1> QED BY <1>4 DEF Unacked, D

(* What a list of numbered messages carries.                               *)
LEMMA MessagesOf ==
    ASSUME NEW list \in Seq([num : Nat, msg : Message])
    PROVE [i \in DOMAIN list |-> list[i].msg] \in Seq(Message)
<1>1. DOMAIN list = 1..Len(list) /\ Len(list) \in Nat
  OBVIOUS
<1>2. ASSUME NEW i \in 1..Len(list) PROVE list[i].msg \in Message
  <2>1. list[i] \in [num : Nat, msg : Message]
    BY ElementOf
  <2> QED BY <2>1
<1> QED BY <1>1, <1>2

(* A queue to which something is appended is not empty.                    *)
LEMMA QueuedAfter ==
    ASSUME NEW q \in [Prio -> Seq(Message)], NEW m \in Message, NEW p \in Prio
    PROVE /\ [q EXCEPT ![p] = Append(@, m)] \in [Prio -> Seq(Message)]
          /\ [q EXCEPT ![p] = Append(@, m)][p] # <<>>
<1>1. q[p] \in Seq(Message)
  OBVIOUS
<1>2. Append(q[p], m) \in Seq(Message) /\ Append(q[p], m) # <<>>
  BY <1>1, AppendProperties
<1> QED BY <1>2

(* Something is queued exactly when one of the four queues is not empty.   *)
LEMMA HasQueued ==
    ASSUME NEW r \in ComObj
    PROVE hasQueued(r) <=> \E i \in Prio : r.q[i] # <<>>
<1>1. DOMAIN r.q = Prio
  BY DEF ComObj
<1> QED BY <1>1 DEF hasQueued

(* A ComObj that works has something ready whenever something is queued.   *)
LEMMA WorkingReady ==
    ASSUME NEW r \in ComObj
    PROVE /\ Ready(r) \subseteq Prio
          /\ r.st = "WORKING" /\ hasQueued(r) => Ready(r) # {}
          /\ r.q[4] # <<>> => Ready(r) # {}
<1>1. DOMAIN r.q = Prio
  BY DEF ComObj
<1> QED BY <1>1 DEF hasQueued, Ready, Prio

-----------------------------------------------------------------------------
(* The operators on one ComObj.                                            *)

(* deliver leaves a ComObj that works with a writer if anything is queued. *)
LEMMA DeliverWaits ==
    ASSUME NEW r \in ComObj
    PROVE /\ deliver(r) \in ComObj /\ Waits(deliver(r))
          /\ deliver(r) = [r EXCEPT !.writer = deliver(r).writer]
          /\ r.q[4] # <<>> => deliver(r).writer
          /\ r.st = "WORKING" /\ hasQueued(r) => deliver(r).writer
<1> DEFINE d == deliver(r)
<1>1. /\ d \in ComObj /\ d.st = r.st /\ d.q = r.q
      /\ d.writer = (Ready(r) # {})
      /\ d = [r EXCEPT !.writer = d.writer]
  BY DEF deliver, ComObj
<1>2. hasQueued(d) <=> hasQueued(r)
  BY <1>1 DEF hasQueued
<1> QED BY <1>1, <1>2, WorkingReady DEF Waits

(* m_open asks for a channel only when there is none.                      *)
LEMMA OpenType ==
    ASSUME NEW r \in ComObj
    PROVE /\ m_open(r) \in ComObj
          /\ Settled(r) => Settled(m_open(r))
          /\ m_open(r) = [r EXCEPT !.st = m_open(r).st]
          /\ m_open(r).st \in {r.st, "OPENING_WF_HANDOVER"}
BY DEF m_open, ComObj, ComObjState, Settled

(* m_close empties the queue of what controls the connection and leaves    *)
(* what the application sent.                                              *)
LEMMA CloseType ==
    ASSUME NEW r \in ComObj
    PROVE /\ m_close(r) \in ComObj /\ Settled(m_close(r))
          /\ m_close(r).st = "CLOSED" /\ m_close(r).ch = NoChannel
<1>1. <<>> \in Seq(Message)
  OBVIOUS
<1>2. [r.q EXCEPT ![4] = <<>>] \in [Prio -> Seq(Message)]
  BY <1>1 DEF ComObj, Prio
<1> QED BY <1>2 DEF m_close, ComObj, ComObjState, Settled

(* m_send queues the message.  In a ComObj that works and met the duty     *)
(* before, and in one that is being negotiated when what is sent controls  *)
(* the connection, there is a writer afterwards.                           *)
LEMMA SendWaits ==
    ASSUME NEW r \in ComObj, NEW m \in Message, NEW p \in Prio
    PROVE LET n == m_send(r, m, p) IN
          /\ n \in ComObj /\ hasQueued(n)
          /\ Settled(r) => Settled(n)
          /\ r.st # "CLOSED" => n.st = r.st
          /\ n.st \in {r.st, "OPENING_WF_HANDOVER"}
          /\ n.ch = r.ch
          /\ Waits(r) => Waits(n)
          /\ p = 4 /\ r.st = "OPENING_WF_NEGOTIATE" => n.writer
<1> DEFINE o == IF r.st = "CLOSED" THEN m_open(r) ELSE r
           w == [o EXCEPT !.q[p] = Append(@, m)]
           n == m_send(r, m, p)
<1>1. /\ o \in ComObj /\ o = [r EXCEPT !.st = o.st]
      /\ Settled(r) => Settled(o)
      /\ o.st \in {r.st, "OPENING_WF_HANDOVER"}
      /\ r.st # "CLOSED" => o = r
  <2>1. r = [r EXCEPT !.st = r.st]
    BY DEF ComObj
  <2> QED BY <2>1, OpenType
<1>2. o.q = r.q /\ o.ch = r.ch /\ o.writer = r.writer
  BY <1>1 DEF ComObj
<1> HIDE DEF o
<1>3. /\ w \in ComObj /\ w.st = o.st /\ w.ch = o.ch /\ w.writer = o.writer
      /\ w.q[p] # <<>>
  <2>1. o.q \in [Prio -> Seq(Message)]
    BY <1>1 DEF ComObj
  <2>2. w = [o EXCEPT !.q = [o.q EXCEPT ![p] = Append(@, m)]]
    OBVIOUS
  <2>3. /\ [o.q EXCEPT ![p] = Append(@, m)] \in [Prio -> Seq(Message)]
        /\ [o.q EXCEPT ![p] = Append(@, m)][p] # <<>>
    BY <2>1, QueuedAfter
  <2> DEFINE x == [o.q EXCEPT ![p] = Append(@, m)]
  <2> HIDE DEF x
  <2>4. [o EXCEPT !.q = x] \in ComObj
    BY <1>1, <2>3 DEF x, ComObj
  <2>5. [o EXCEPT !.q = x].q = x
    BY <1>1 DEF ComObj
  <2>6. /\ [o EXCEPT !.q = x].st = o.st /\ [o EXCEPT !.q = x].ch = o.ch
        /\ [o EXCEPT !.q = x].writer = o.writer
    BY <1>1 DEF ComObj
  <2> QED BY <2>2, <2>3, <2>4, <2>5, <2>6 DEF x
<1>4. hasQueued(w)
  BY <1>3, HasQueued
<1>5. n \in {w, deliver(w)}
  BY DEF m_send, o
<1> HIDE DEF w
<1>6. /\ deliver(w) \in ComObj /\ Waits(deliver(w))
      /\ deliver(w).st = w.st /\ deliver(w).ch = w.ch
      /\ deliver(w).q = w.q
  <2>1. /\ deliver(w) \in ComObj /\ Waits(deliver(w))
        /\ deliver(w) = [w EXCEPT !.writer = deliver(w).writer]
    BY <1>3, DeliverWaits
  <2> QED BY <1>3, <2>1 DEF ComObj
<1>7. hasQueued(deliver(w))
  BY <1>4, <1>6 DEF hasQueued
<1>8. n \in ComObj /\ hasQueued(n) /\ n.st = w.st /\ n.ch = w.ch
  BY <1>3, <1>4, <1>5, <1>6, <1>7
<1>9. Settled(r) => Settled(n)
  BY <1>1, <1>3, <1>8 DEF Settled
<1>10. ASSUME Waits(r) PROVE Waits(n)
  <2>1. CASE r.st = "WORKING" /\ ~hasQueued(r)
    <3>1. n = deliver(w)
      BY <2>1 DEF m_send, w, o
    <3> QED BY <3>1, <1>6
  <2>2. CASE r.st = "WORKING" /\ hasQueued(r)
    <3>1. r.writer
      BY <1>10, <2>2 DEF Waits
    <3>2. w.writer /\ w.st = "WORKING"
      BY <3>1, <2>2, <1>1, <1>3
    <3>3. Waits(w)
      BY <3>2 DEF Waits
    <3> QED BY <3>3, <1>5, <1>6
  <2>3. CASE r.st # "WORKING"
    BY <2>3, <1>1, <1>3, <1>8 DEF Waits
  <2> QED BY <2>1, <2>2, <2>3
<1>11. ASSUME p = 4, r.st = "OPENING_WF_NEGOTIATE" PROVE n.writer
  <2>1. n = deliver(w)
    BY <1>11 DEF m_send, w, o
  <2> QED BY <2>1, <1>3, <1>11, DeliverWaits
<1> QED BY <1>1, <1>2, <1>3, <1>8, <1>9, <1>10, <1>11

(* The queues and the writer are not touched by the flags and the timer.   *)
LEMMA SameQueues ==
    ASSUME NEW r \in ComObj, NEW n \in ComObj,
           n.st = r.st, n.ch = r.ch, n.q = r.q, n.writer = r.writer
    PROVE /\ Settled(r) => Settled(n)
          /\ Waits(r) => Waits(n)
          /\ hasQueued(n) <=> hasQueued(r)
<1>1. hasQueued(n) <=> hasQueued(r)
  BY DEF hasQueued
<1> QED BY <1>1 DEF Settled, Waits

(* An acknowledgement only shortens the list of messages kept.             *)
LEMMA AckedSame ==
    ASSUME NEW r \in ComObj, NEW num
    PROVE LET n == msgAcked(r, num) IN
          /\ n \in ComObj /\ n.st = r.st /\ n.ch = r.ch
          /\ n.lastReceived = r.lastReceived
          /\ Settled(r) => Settled(n)
          /\ Waits(r) => Waits(n)
          /\ hasQueued(n) <=> hasQueued(r)
<1> DEFINE n == msgAcked(r, num)
           u == Unacked(r.unacked, num)
<1>1. u \in Seq([num : Nat, msg : Message])
  BY UnackedType DEF ComObj
<1>2. n = [r EXCEPT !.unacked = u]
  BY DEF msgAcked
<1> HIDE DEF u
<1>3. /\ n \in ComObj /\ n.st = r.st /\ n.ch = r.ch /\ n.q = r.q
      /\ n.writer = r.writer /\ n.lastReceived = r.lastReceived
  BY <1>1, <1>2 DEF ComObj
<1> QED BY <1>3, SameQueues

(* sendAckExplicit sends nothing when something is queued already.         *)
LEMMA AckExplicitWaits ==
    ASSUME NEW r \in ComObj
    PROVE LET n == sendAckExplicit(r) IN
          /\ n \in ComObj /\ n.ch = r.ch
          /\ Settled(r) => Settled(n)
          /\ Waits(r) => Waits(n)
<1> DEFINE a == IF hasQueued(r) THEN r ELSE m_send(r, Control("ACK"), 4)
           n == sendAckExplicit(r)
<1>1. Control("ACK") \in Message /\ 4 \in Prio
  BY DEF Control, Message, Plain, Prio
<1>2. /\ a \in ComObj /\ a.ch = r.ch
      /\ Settled(r) => Settled(a)
      /\ Waits(r) => Waits(a)
  BY <1>1, SendWaits
<1>3. n = [a EXCEPT !.ackTimer = FALSE]
  BY DEF sendAckExplicit
<1> HIDE DEF a
<1>4. /\ n \in ComObj /\ n.st = a.st /\ n.ch = a.ch /\ n.q = a.q
      /\ n.writer = a.writer
  BY <1>2, <1>3 DEF ComObj
<1> QED BY <1>2, <1>4, SameQueues

(* A ComObj starts to work.  Its duty is met when a writer is there        *)
(* already or nothing is queued; otherwise the caller has to deliver.      *)
LEMMA WorkingWaits ==
    ASSUME NEW r \in ComObj
    PROVE LET n == working(r) IN
          /\ n \in ComObj /\ n.ch = r.ch /\ n.st = "WORKING" /\ Settled(n)
          /\ r.writer \/ ~hasQueued(r) => Waits(n)
<1> DEFINE w == [r EXCEPT !.st = "WORKING"]
           n == working(r)
<1>1. /\ w \in ComObj /\ w.st = "WORKING" /\ w.ch = r.ch /\ w.q = r.q
      /\ w.writer = r.writer
  BY DEF ComObj, ComObjState
<1>2. Settled(w) /\ (hasQueued(w) <=> hasQueued(r))
  BY <1>1 DEF Settled, hasQueued
<1>3. r.writer \/ ~hasQueued(r) => Waits(w)
  BY <1>1, <1>2 DEF Waits
<1>4. Control("PING") \in Message /\ 0 \in Prio
  BY DEF Control, Message, Plain, Prio
<1>5. n = IF QueuesNeed(w) THEN w ELSE m_send(w, Control("PING"), 0)
  BY DEF working
<1> HIDE DEF w
<1> QED BY <1>1, <1>2, <1>3, <1>4, <1>5, SendWaits

(* A ComObj that works and delivers what is queued meets its duty.         *)
LEMMA DeliveredWaits ==
    ASSUME NEW r \in ComObj, Settled(r), r.st = "WORKING"
    PROVE LET n == IF hasQueued(r) THEN deliver(r) ELSE r IN
          n \in ComObj /\ Settled(n) /\ Waits(n)
<1>1. CASE hasQueued(r)
  <2>1. /\ deliver(r) \in ComObj /\ Waits(deliver(r))
        /\ deliver(r) = [r EXCEPT !.writer = deliver(r).writer]
    BY DeliverWaits
  <2>2. deliver(r).st = r.st
    BY <2>1 DEF ComObj
  <2> QED BY <1>1, <2>1, <2>2 DEF Settled
<1>2. CASE ~hasQueued(r)
  BY <1>2 DEF Waits
<1> QED BY <1>1, <1>2

(* The weak close sends its request and stops working.                     *)
LEMMA ClosingType ==
    ASSUME NEW r \in ComObj
    PROVE LET n == m_WORKING_2_CLOSING_WEAK(r) IN
          n \in ComObj /\ n.ch = r.ch /\ n.st = "CLOSING_WEAK"
<1> DEFINE c == clearTimers(r)
           w == m_send(c, Control("CLOSE_WEAK"), 4)
           n == m_WORKING_2_CLOSING_WEAK(r)
<1>1. c \in ComObj /\ c.ch = r.ch
  BY DEF clearTimers, ComObj
<1>2. Control("CLOSE_WEAK") \in Message /\ 4 \in Prio
  BY DEF Control, Message, Plain, Prio
<1> HIDE DEF c
<1>3. w \in ComObj /\ w.ch = r.ch
  BY <1>1, <1>2, SendWaits
<1>4. n = [w EXCEPT !.st = "CLOSING_WEAK"]
  BY DEF m_WORKING_2_CLOSING_WEAK, c
<1> HIDE DEF w
<1> QED BY <1>3, <1>4 DEF ComObj, ComObjState

(* A weak close that is accepted, or whose channel is lost.                *)
LEMMA ClosedType ==
    ASSUME NEW r \in ComObj
    PROVE LET n == m_CLOSING_WEAK_2_CLOSED(r) IN
          /\ n \in ComObj /\ Settled(n)
          /\ n.st \in {"CLOSED", "OPENING_WF_HANDOVER"}
BY CloseType, OpenType DEF m_CLOSING_WEAK_2_CLOSED

(* extractCI puts what the other site has not received in front of what    *)
(* waits; it leaves the state and the channel.                             *)
LEMMA ExtractType ==
    ASSUME NEW r \in ComObj, NEW ci \in ConnectionInfo
    PROVE LET n == extractCI(r, ci) IN
          n \in ComObj /\ n.st = r.st /\ n.ch = r.ch
<1> DEFINE left == Unacked(r.unacked, ci.lastReceived)
           msgs == [i \in DOMAIN left |-> left[i].msg]
           q3 == r.q[3] \o msgs
           q == [r.q EXCEPT ![3] = q3]
           n == extractCI(r, ci)
<1>1. left \in Seq([num : Nat, msg : Message])
  BY UnackedType DEF ComObj
<1>2. msgs \in Seq(Message)
  BY <1>1, MessagesOf
<1>3. n = [r EXCEPT !.remoteRef = ci.need, !.q[3] = q3,
                    !.unacked = <<>>, !.lastSent = ci.lastReceived]
  BY DEF extractCI
<1> HIDE DEF left, msgs
<1>4. q \in [Prio -> Seq(Message)]
  <2>1. r.q[3] \in Seq(Message) /\ r.q \in [Prio -> Seq(Message)]
    BY DEF ComObj, Prio
  <2>2. q3 \in Seq(Message)
    BY <1>2, <2>1, ConcatProperties
  <2> QED BY <2>1, <2>2
<1>5. n = [r EXCEPT !.remoteRef = ci.need, !.q = q,
                    !.unacked = <<>>, !.lastSent = ci.lastReceived]
  BY <1>3 DEF ComObj
<1>6. <<>> \in Seq([num : Nat, msg : Message])
  OBVIOUS
<1>7. ci.need \in BOOLEAN /\ ci.lastReceived \in Nat
  BY DEF ConnectionInfo
<1> HIDE DEF q
<1> QED BY <1>4, <1>5, <1>6, <1>7 DEF ComObj

(* connectionLost knows every state of a ComObj that has a channel, and    *)
(* leaves none of them working.                                            *)
LEMMA LostType ==
    ASSUME NEW r \in ComObj, Settled(r), r.ch \in Channel
    PROVE LET n == connectionLost(r) IN
          n \in ComObj /\ Settled(n) /\ n.st # "WORKING"
<1> DEFINE n == connectionLost(r)
<1>1. r.st \in ComObjState
  BY DEF ComObj
<1>2. r.st # "OPENING_WF_HANDOVER" /\ r.st # "ANONYMOUS_WF_PRESENT"
  BY SiteAssumption DEF Settled, Channel, NoChannel
<1>3. CASE r.st \in {"OPENING_WF_PRESENT", "OPENING_WF_NEGOTIATE", "WORKING"}
  <2>1. n = m_open(m_close(r))
    BY <1>3 DEF connectionLost
  <2> QED BY <2>1, CloseType, OpenType
<1>4. CASE r.st = "ANONYMOUS_WF_NEGOTIATE"
  <2>1. n = m_close(r)
    BY <1>4 DEF connectionLost
  <2> QED BY <2>1, CloseType
<1>5. CASE r.st = "CLOSING_WEAK"
  <2>1. n = m_CLOSING_WEAK_2_CLOSED(r)
    BY <1>5 DEF connectionLost
  <2> QED BY <2>1, ClosedType
<1>6. CASE r.st = "CLOSED"
  <2> DEFINE lost == [r EXCEPT !.ch = LostChannel, !.writer = FALSE]
  <2>1. n = IF QueuesNeed(r) THEN m_open(lost) ELSE lost
    BY <1>6 DEF connectionLost
  <2>2. lost \in ComObj /\ Settled(lost) /\ lost.st = "CLOSED"
    BY <1>6 DEF ComObj, Settled
  <2> HIDE DEF lost
  <2> QED BY <2>1, <2>2, OpenType
<1> QED BY <1>1, <1>2, <1>3, <1>4, <1>5, <1>6 DEF ComObjState

(* The collector: what canBeFreed sends, and the weak close.               *)
LEMMA ReleasedWaits ==
    ASSUME NEW r \in ComObj
    PROVE LET n == Released(r) IN
          /\ n \in ComObj
          /\ Settled(r) => Settled(n)
          /\ Waits(r) => Waits(n)
<1> DEFINE x == m_send(r, Control("CLEAR_REFERENCE"), 4)
           clear == [x EXCEPT !.sentClearRef = TRUE]
           mayAsk == ~r.sentClearRef /\ r.st = "WORKING"
           asked == IF r.localRef /\ mayAsk
                    THEN [clear EXCEPT !.localRef = FALSE] ELSE r
           closing == m_WORKING_2_CLOSING_WEAK(asked)
<1>1. Control("CLEAR_REFERENCE") \in Message /\ 4 \in Prio
  BY DEF Control, Message, Plain, Prio
<1>2. /\ x \in ComObj
      /\ Settled(r) => Settled(x)
      /\ Waits(r) => Waits(x)
  BY <1>1, SendWaits
<1>3. Released(r) \in {r, clear, closing}
  BY DEF Released
<1> HIDE DEF x
<1>4. /\ clear \in ComObj
      /\ clear.st = x.st /\ clear.ch = x.ch /\ clear.q = x.q
      /\ clear.writer = x.writer
  BY <1>2 DEF ComObj
<1>5. /\ Settled(r) => Settled(clear)
      /\ Waits(r) => Waits(clear)
  BY <1>2, <1>4, SameQueues
<1> HIDE DEF clear
<1>6. asked \in ComObj
  BY <1>4 DEF ComObj
<1> HIDE DEF asked
<1>7. closing \in ComObj /\ closing.st = "CLOSING_WEAK"
  BY <1>6, ClosingType
<1>8. Settled(closing) /\ Waits(closing)
  BY <1>7 DEF Settled, Waits
<1> QED BY <1>3, <1>4, <1>5, <1>7, <1>8

-----------------------------------------------------------------------------
(* The channels.                                                           *)

Chans == [Channel -> ChannelType]

(* A site that closes its end reads nothing more from it.                  *)
LEMMA CloseChannelType ==
    ASSUME NEW cs \in Chans, NEW s \in Site, NEW c
    PROVE Close(cs, s, c) \in Chans
<1>1. CASE c \in Channel
  <2> DEFINE x == cs[c]
             o == [x.open EXCEPT ![s] = FALSE]
             t == [x.to EXCEPT ![s] = <<>>]
             a == x.anonymous \ {s}
             y == [x EXCEPT !.open[s] = FALSE, !.to[s] = <<>>,
                            !.anonymous = @ \ {s}]
  <2>1. x \in ChannelType
    BY <1>1 DEF Chans
  <2>2. /\ o \in [Site -> BOOLEAN] /\ t \in [Site -> Seq(FrameType)]
        /\ a \in SUBSET Site
    <3>1. <<>> \in Seq(FrameType)
      OBVIOUS
    <3> QED BY <2>1, <3>1 DEF ChannelType
  <2>3. y = [x EXCEPT !.open = o, !.to = t, !.anonymous = a]
    BY <2>1 DEF ChannelType
  <2> HIDE DEF o, t, a
  <2>4. y \in ChannelType
    BY <2>1, <2>2, <2>3 DEF ChannelType
  <2>5. Close(cs, s, c) = [cs EXCEPT ![c] = y]
    BY <1>1 DEF Close
  <2> HIDE DEF y
  <2> QED BY <2>4, <2>5 DEF Chans
<1>2. CASE c \notin Channel
  BY <1>2 DEF Close
<1> QED BY <1>1, <1>2

(* The frames on their way to one site are replaced by other frames.       *)
LEMMA FramesType ==
    ASSUME NEW cs \in Chans, NEW s \in Site, NEW c \in Channel,
           NEW f \in Seq(FrameType)
    PROVE [cs EXCEPT ![c].to[s] = f] \in Chans
<1> DEFINE x == cs[c]
           g == [x.to EXCEPT ![s] = f]
           y == [x EXCEPT !.to[s] = f]
<1>1. x \in ChannelType
  BY DEF Chans
<1>2. g \in [Site -> Seq(FrameType)]
  BY <1>1 DEF ChannelType
<1>3. y = [x EXCEPT !.to = g]
  OBVIOUS
<1> HIDE DEF g
<1>4. y \in ChannelType
  BY <1>1, <1>2, <1>3 DEF ChannelType
<1>5. [cs EXCEPT ![c].to[s] = f] = [cs EXCEPT ![c] = y]
  OBVIOUS
<1> HIDE DEF y
<1> QED BY <1>4, <1>5 DEF Chans

-----------------------------------------------------------------------------
(* Actions.  The inductive invariant is the type invariant and the duty of *)
(* every ComObj.                                                           *)

Duty == \A s \in Site : Waits(conn[s])

IInv == TypeOK /\ Duty

(* A step in which the ComObj of s becomes a ComObj that meets its duty.   *)
LEMMA BecomeStep ==
    ASSUME IInv, NEW s \in Site, NEW r \in ComObj, Settled(r), Waits(r),
           NEW cs \in Chans, Become(s, r, cs)
    PROVE /\ conn' \in [Site -> ComObj]
          /\ \A p \in Site : Settled(conn'[p])
          /\ Duty'
          /\ requests' \in [Site -> Nat]
          /\ chan' \in Chans
<1>1. conn' = [conn EXCEPT ![s] = r] /\ conn \in [Site -> ComObj]
  BY DEF Become, IInv, TypeOK
<1>2. \A p \in Site : conn'[p] = IF p = s THEN r ELSE conn[p]
  BY <1>1
<1>3. \A p \in Site : Settled(conn'[p])
  BY <1>2 DEF IInv, TypeOK
<1>4. Duty'
  BY <1>2 DEF IInv, Duty
<1>5. requests' \in [Site -> Nat]
  BY DEF Become, IInv, TypeOK
<1>6. chan' \in Chans
  BY CloseChannelType DEF Become
<1> QED BY <1>1, <1>3, <1>4, <1>5, <1>6

(* The same for a step that says nothing more of sent, got and broken.     *)
LEMMA QuietStep ==
    ASSUME IInv, NEW s \in Site, NEW r \in ComObj, Settled(r), Waits(r),
           NEW cs \in Chans, Become(s, r, cs),
           UNCHANGED <<sent, got, broken>>
    PROVE IInv'
<1>1. /\ conn' \in [Site -> ComObj]
      /\ \A p \in Site : Settled(conn'[p])
      /\ Duty'
      /\ requests' \in [Site -> Nat]
      /\ chan' \in Chans
  BY BecomeStep
<1> QED BY <1>1 DEF IInv, TypeOK, Chans

(* What the invariant says of the ComObj of a site.                        *)
LEMMA ComObjOf ==
    ASSUME IInv, NEW s \in Site
    PROVE /\ conn[s] \in ComObj /\ Settled(conn[s]) /\ Waits(conn[s])
          /\ chan \in Chans
BY DEF IInv, TypeOK, Duty, Chans

(* A frame that arrives, and what is left of the channel.                  *)
LEMMA FrameArrives ==
    ASSUME IInv, NEW s \in Site, NEW c \in Channel, NEW types,
           Arrives(s, c, types)
    PROVE /\ Frame(s, c) \in FrameType
          /\ Frame(s, c).t \in types
          /\ Consumed(s, c) \in Chans
<1>1. chan \in Chans /\ chan[c].to[s] \in Seq(FrameType)
  BY DEF IInv, TypeOK, Chans, ChannelType
<1>2. chan[c].to[s] # <<>>
  BY DEF Arrives
<1>3. /\ Head(chan[c].to[s]) \in FrameType
      /\ Tail(chan[c].to[s]) \in Seq(FrameType)
  BY <1>1, <1>2, HeadTailProperties
<1>4. Consumed(s, c) \in Chans
  <2>1. [chan EXCEPT ![c].to[s] = Tail(chan[c].to[s])] \in Chans
    BY <1>1, <1>3, FramesType
  <2> QED BY <2>1 DEF Consumed
<1> QED BY <1>3, <1>4 DEF Frame, Arrives

(* What the acknowledgement in the header makes of the ComObj.             *)
LEMMA AckedOf ==
    ASSUME IInv, NEW s \in Site, NEW c \in Channel
    PROVE LET r == Acked(s, c) IN
          /\ r \in ComObj /\ Settled(r) /\ Waits(r)
          /\ r.st = conn[s].st /\ r.ch = conn[s].ch
BY ComObjOf, AckedSame DEF Acked

(* A frame with a ConnectionInfo.                                          *)
LEMMA FrameInfo ==
    ASSUME NEW f \in FrameType, f.t \in Presenting
    PROVE f.ci \in ConnectionInfo
BY DEF FrameType, Presenting, Plain

(* A control message is a message.                                         *)
LEMMA ControlType ==
    ASSUME NEW t \in Plain
    PROVE Control(t) \in Message
BY DEF Control, Message

-----------------------------------------------------------------------------
(* The application, the timers and the garbage collector.                  *)

LEMMA m_sendMsgStep ==
    ASSUME IInv, NEW s \in Site, m_sendMsg(s) PROVE IInv'
<1> DEFINE m == [t |-> "APP", id |-> sent[s] + 1]
           x == m_send(conn[s], m, 2)
           r == [x EXCEPT !.localRef = TRUE]
<1>1. sent[s] + 1 \in Nat /\ sent \in [Site -> Nat]
  BY DEF IInv, TypeOK
<1>2. m \in Message /\ 2 \in Prio
  BY <1>1 DEF Message, Prio
<1>3. x \in ComObj /\ Settled(x) /\ Waits(x)
  BY <1>2, ComObjOf, SendWaits
<1>4. Become(s, r, chan)
  BY DEF m_sendMsg
<1> HIDE DEF x
<1>5. /\ r \in ComObj /\ r.st = x.st /\ r.ch = x.ch /\ r.q = x.q
      /\ r.writer = x.writer
  BY <1>3 DEF ComObj
<1>6. Settled(r) /\ Waits(r)
  BY <1>3, <1>5, SameQueues
<1> HIDE DEF r
<1>7. /\ conn' \in [Site -> ComObj]
      /\ \A p \in Site : Settled(conn'[p])
      /\ Duty'
      /\ requests' \in [Site -> Nat]
      /\ chan' \in Chans
  BY <1>4, <1>5, <1>6, ComObjOf, BecomeStep
<1>8. sent' \in [Site -> Nat] /\ got' = got /\ broken' = broken
  BY <1>1 DEF m_sendMsg
<1> QED BY <1>7, <1>8 DEF IInv, TypeOK, Chans

LEMMA sendProbePingStep ==
    ASSUME IInv, NEW s \in Site, sendProbePing(s) PROVE IInv'
<1> DEFINE r == m_send(conn[s], Control("PING"), 0)
<1>1. Control("PING") \in Message /\ 0 \in Prio
  BY ControlType DEF Plain, Prio
<1>2. r \in ComObj /\ Settled(r) /\ Waits(r)
  BY <1>1, ComObjOf, SendWaits
<1>3. Become(s, r, chan) /\ UNCHANGED <<sent, got, broken>>
  BY DEF sendProbePing
<1> HIDE DEF r
<1> QED BY <1>2, <1>3, ComObjOf, QuietStep

LEMMA sendAckTimerStep ==
    ASSUME IInv, NEW s \in Site, sendAckTimer(s) PROVE IInv'
<1> DEFINE r == sendAckExplicit(conn[s])
<1>1. r \in ComObj /\ Settled(r) /\ Waits(r)
  BY ComObjOf, AckExplicitWaits
<1>2. Become(s, r, chan) /\ UNCHANGED <<sent, got, broken>>
  BY DEF sendAckTimer
<1> HIDE DEF r
<1> QED BY <1>1, <1>2, ComObjOf, QuietStep

(* A new ComObj has nothing queued.                                        *)
LEMMA NewComObjType ==
    /\ NewComObj \in ComObj /\ Settled(NewComObj) /\ Waits(NewComObj)
    /\ ~hasQueued(NewComObj)
<1>1. NoQueued \in [Prio -> Seq(Message)] /\ \A i \in Prio : NoQueued[i] = <<>>
  <2>1. <<>> \in Seq(Message)
    OBVIOUS
  <2> QED BY <2>1 DEF NoQueued, Prio
<1>2. <<>> \in Seq([num : Nat, msg : Message])
  OBVIOUS
<1>3. NewComObj \in ComObj
  BY <1>1, <1>2 DEF NewComObj, ComObj, ComObjState
<1>4. ~hasQueued(NewComObj)
  BY <1>1, <1>3, HasQueued DEF NewComObj
<1> QED BY <1>3, <1>4 DEF NewComObj, Settled, Waits

LEMMA gcSiteTableStep ==
    ASSUME IInv, NEW s \in Site, gcSiteTable(s) PROVE IInv'
<1>0. UNCHANGED <<sent, got, broken>>
  BY DEF gcSiteTable
<1>1. CASE canBeFreed(conn[s])
  <2>1. conn' = [conn EXCEPT ![s] = NewComObj] /\ UNCHANGED <<requests, chan>>
    BY <1>1 DEF gcSiteTable
  <2>2. conn \in [Site -> ComObj]
    BY DEF IInv, TypeOK
  <2>3. \A p \in Site : conn'[p] = IF p = s THEN NewComObj ELSE conn[p]
    BY <2>1, <2>2
  <2>4. conn' \in [Site -> ComObj]
    BY <2>1, <2>2, NewComObjType
  <2>5. \A p \in Site : Settled(conn'[p]) /\ Waits(conn'[p])
    BY <2>3, NewComObjType, ComObjOf
  <2> QED BY <1>0, <2>1, <2>4, <2>5 DEF IInv, TypeOK, Duty
<1>2. CASE ~canBeFreed(conn[s])
  <2> DEFINE r == Released(conn[s])
  <2>1. r \in ComObj /\ Settled(r) /\ Waits(r)
    BY ComObjOf, ReleasedWaits
  <2>2. Become(s, r, chan)
    BY <1>2 DEF gcSiteTable
  <2> HIDE DEF r
  <2> QED BY <1>0, <2>1, <2>2, ComObjOf, QuietStep
<1> QED BY <1>1, <1>2

-----------------------------------------------------------------------------
(* Channels come, carry frames and go.                                     *)

LEMMA handoverStep ==
    ASSUME IInv, NEW s \in Site, handover(s) PROVE IInv'
<1>0. /\ requests' \in [Site -> Nat]
      /\ UNCHANGED <<sent, got, broken>>
  BY DEF handover, IInv, TypeOK
<1>1. CASE conn[s].st = "OPENING_WF_HANDOVER"
  <2> DEFINE F == [t |-> "ANON_PRESENT", ack |-> 0]
             N == [to |-> [p \in Site |-> IF p = s THEN <<F>> ELSE <<>>],
                   open |-> [p \in Site |-> TRUE],
                   anonymous |-> {Peer(s)}]
  <2>1. PICK c \in Channel :
          /\ conn' = [conn EXCEPT ![s].ch = c,
                                  ![s].st = "OPENING_WF_PRESENT"]
          /\ chan' = [chan EXCEPT ![c] = N]
    BY <1>1 DEF handover
  <2>2. N \in ChannelType
    <3>1. F \in FrameType
      BY DEF FrameType, Plain
    <3> HIDE DEF F
    <3>2. <<F>> \in Seq(FrameType) /\ <<>> \in Seq(FrameType)
      BY <3>1
    <3>3. Peer(s) \in Site
      BY PeerIsSite
    <3> QED BY <3>2, <3>3 DEF ChannelType
  <2> HIDE DEF N
  <2>3. chan' \in Chans
    BY <2>1, <2>2, ComObjOf DEF Chans
  <2> DEFINE r == [conn[s] EXCEPT !.ch = c, !.st = "OPENING_WF_PRESENT"]
  <2>4. conn' = [conn EXCEPT ![s] = r]
    BY <2>1
  <2>5. r \in ComObj /\ r.st = "OPENING_WF_PRESENT"
    BY ComObjOf, ZenonT(40) DEF ComObj, ComObjState
  <2>6. Settled(r) /\ Waits(r)
    BY <2>5 DEF Settled, Waits
  <2> HIDE DEF r
  <2>7. conn \in [Site -> ComObj]
    BY DEF IInv, TypeOK
  <2>8. conn' \in [Site -> ComObj]
    BY <2>4, <2>5, <2>7
  <2>9. \A p \in Site : Settled(conn'[p]) /\ Waits(conn'[p])
    BY <2>4, <2>6, <2>7, ComObjOf
  <2> QED BY <1>0, <2>3, <2>8, <2>9 DEF IInv, TypeOK, Duty, Chans
<1>2. CASE conn[s].st # "OPENING_WF_HANDOVER"
  <2>1. UNCHANGED <<conn, chan>>
    BY <1>2 DEF handover
  <2> QED BY <1>0, <2>1 DEF IInv, TypeOK, Duty
<1> QED BY <1>1, <1>2

(* Of the queues that are ready one has the highest priority.              *)
LEMMA Highest ==
    ASSUME NEW R, R \subseteq Prio, R # {}
    PROVE \E j \in R : \A k \in R : k <= j
<1>1. \A k \in R : k = 0 \/ k = 2 \/ k = 3 \/ k = 4
  BY DEF Prio
<1>2. 0 <= 2 /\ 0 <= 3 /\ 0 <= 4 /\ 2 <= 3 /\ 2 <= 4 /\ 3 <= 4
        /\ \A j \in {0, 2, 3, 4} : j <= j
  OBVIOUS
<1>3. 4 \in R \/ 3 \in R \/ 2 \in R \/ 0 \in R
  BY <1>1
<1> QED BY <1>1, <1>2, <1>3

(* A message gets the acknowledgement as one more field.                   *)
LEMMA MarshalledType ==
    ASSUME NEW m \in Message, NEW n \in Nat
    PROVE [f \in DOMAIN m \cup {"ack"} |-> IF f = "ack" THEN n ELSE m[f]]
             \in FrameType
<1> DEFINE F == [f \in DOMAIN m \cup {"ack"} |-> IF f = "ack" THEN n ELSE m[f]]
<1>1. CASE m \in [t : Plain]
  <2>1. DOMAIN m = {"t"} /\ m.t \in Plain
    BY <1>1
  <2>2. F = [t |-> m.t, ack |-> n]
    BY <2>1
  <2> HIDE DEF F
  <2> QED BY <2>1, <2>2 DEF FrameType
<1>2. CASE m \in [t : {"APP"}, id : Nat]
  <2>1. DOMAIN m = {"t", "id"} /\ m.t = "APP" /\ m.id \in Nat
    BY <1>2
  <2>2. F = [t |-> m.t, id |-> m.id, ack |-> n]
    BY <2>1
  <2> HIDE DEF F
  <2> QED BY <2>1, <2>2 DEF FrameType
<1>3. CASE m \in [t : Presenting, ci : ConnectionInfo]
  <2>1. DOMAIN m = {"t", "ci"} /\ m.t \in Presenting /\ m.ci \in ConnectionInfo
    BY <1>3
  <2>2. F = [t |-> m.t, ci |-> m.ci, ack |-> n]
    BY <2>1
  <2> HIDE DEF F
  <2> QED BY <2>1, <2>2 DEF FrameType
<1> QED BY <1>1, <1>2, <1>3 DEF Message

LEMMA writeDataAvailableStep ==
    ASSUME IInv, NEW s \in Site, writeDataAvailable(s) PROVE IInv'
<1> DEFINE r == conn[s]
           i == getNext(r)
           m == Head(r.q[i])
           qs == [r.q EXCEPT ![i] = Tail(@)]
           rest == [r EXCEPT !.q[i] = Tail(@),
                             !.ackTimer = @ /\ r.st # "WORKING"]
           marshalled == [f \in DOMAIN m \cup {"ack"} |->
                             IF f = "ack" THEN r.lastReceived ELSE m[f]]
           item == [num |-> r.lastSent + 1, msg |-> m]
           gone == IF i = 4 THEN rest
                   ELSE [rest EXCEPT !.lastSent = @ + 1,
                                     !.unacked = Append(@, item)]
           fs == IF chan[r.ch].open[Peer(s)]
                 THEN Append(chan[r.ch].to[Peer(s)], marshalled)
                 ELSE chan[r.ch].to[Peer(s)]
           cs == [chan EXCEPT ![r.ch].to[Peer(s)] = fs]
<1>1. /\ Ready(r) # {} /\ Owns(s, r.ch)
      /\ Become(s, deliver(gone), cs)
      /\ UNCHANGED <<sent, got, broken>>
  BY DEF writeDataAvailable
<1>2. r \in ComObj /\ Settled(r) /\ chan \in Chans
  BY ComObjOf
<1>3. i \in Ready(r)
  <2>1. Ready(r) \subseteq Prio
    BY <1>2, WorkingReady, SMTT(40)
  <2>2. \E j \in Ready(r) : \A k \in Ready(r) : k <= j
    BY <1>1, <2>1, Highest
  <2> QED BY <2>2 DEF getNext
<1>4. i \in Prio /\ r.q[i] # <<>>
  BY <1>2, <1>3, WorkingReady DEF Ready
<1> HIDE DEF i
<1>5. r.q \in [Prio -> Seq(Message)] /\ r.q[i] \in Seq(Message)
  BY <1>2, <1>4 DEF ComObj
<1>6. m \in Message /\ Tail(r.q[i]) \in Seq(Message)
  BY <1>4, <1>5, HeadTailProperties
<1>7. qs \in [Prio -> Seq(Message)]
  BY <1>5, <1>6
<1>8. rest \in ComObj /\ rest.st = r.st /\ rest.ch = r.ch
  <2>1. rest = [r EXCEPT !.q = qs, !.ackTimer = @ /\ r.st # "WORKING"]
    BY <1>2 DEF ComObj
  <2> HIDE DEF qs
  <2> QED BY <1>2, <1>7, <2>1 DEF ComObj
<1> HIDE DEF rest
<1>9. gone \in ComObj /\ gone.st = r.st /\ gone.ch = r.ch
  <2>1. item \in [num : Nat, msg : Message]
    BY <1>2, <1>6 DEF ComObj
  <2> HIDE DEF item
  <2>2. rest.unacked \in Seq([num : Nat, msg : Message])
    BY <1>8 DEF ComObj
  <2>3. Append(rest.unacked, item) \in Seq([num : Nat, msg : Message])
    BY <2>1, <2>2, AppendProperties
  <2> DEFINE u == Append(rest.unacked, item)
             k == rest.lastSent + 1
  <2>4. /\ i = 4 => gone = rest
        /\ i # 4 => gone = [rest EXCEPT !.lastSent = k, !.unacked = u]
    BY DEF gone
  <2>5. k \in Nat /\ u \in Seq([num : Nat, msg : Message])
    BY <1>8, <2>3 DEF ComObj
  <2> HIDE DEF u, k, gone, r
  <2> QED BY <1>8, <2>4, <2>5 DEF ComObj
<1> HIDE DEF gone
<1>10. /\ deliver(gone) \in ComObj /\ Waits(deliver(gone))
       /\ Settled(deliver(gone))
  <2>1. /\ deliver(gone) \in ComObj /\ Waits(deliver(gone))
        /\ deliver(gone) = [gone EXCEPT !.writer = deliver(gone).writer]
    BY <1>9, DeliverWaits
  <2>2. deliver(gone).st = gone.st /\ deliver(gone).ch = gone.ch
    BY <1>9, <2>1, SMTT(40) DEF ComObj
  <2> QED BY <1>2, <1>9, <2>1, <2>2 DEF Settled
<1>11. cs \in Chans
  <2>1. CASE r.ch \in Channel
    <3>1. marshalled \in FrameType
      <4>1. r.lastReceived \in Nat
        BY <1>2 DEF ComObj
      <4> HIDE DEF r, m
      <4> QED BY <4>1, <1>6, MarshalledType
    <3> HIDE DEF marshalled
    <3>2. Peer(s) \in Site
      BY PeerIsSite
    <3>3. chan[r.ch].to[Peer(s)] \in Seq(FrameType)
      BY <1>2, <2>1, <3>2 DEF Chans, ChannelType
    <3>4. fs \in Seq(FrameType)
      BY <3>1, <3>3, AppendProperties
    <3> HIDE DEF fs
    <3> QED BY <1>2, <2>1, <3>2, <3>4, FramesType
  <2>2. CASE r.ch \notin Channel
    BY <1>2, <2>2 DEF Chans
  <2> QED BY <2>1, <2>2
<1> HIDE DEF cs
<1> QED BY <1>1, <1>10, <1>11, QuietStep, SMTT(40)

(* A site sees its end of a channel lost.                                  *)
LEMMA LostStep ==
    ASSUME IInv, NEW s \in Site, NEW c \in Channel, NEW cs \in Chans,
           Lost(s, c, cs), UNCHANGED <<sent, got>>, broken' \in BOOLEAN
    PROVE IInv'
<1>1. CASE conn[s].ch = c
  <2> DEFINE r == connectionLost(conn[s])
  <2>1. r \in ComObj /\ Settled(r) /\ r.st # "WORKING"
    BY <1>1, ComObjOf, LostType
  <2>2. Waits(r)
    BY <2>1 DEF Waits
  <2>3. Become(s, r, cs)
    BY <1>1 DEF Lost
  <2> HIDE DEF r
  <2>4. /\ conn' \in [Site -> ComObj]
        /\ \A p \in Site : Settled(conn'[p])
        /\ Duty'
        /\ requests' \in [Site -> Nat]
        /\ chan' \in Chans
    BY <2>1, <2>2, <2>3, BecomeStep
  <2> QED BY <2>4 DEF IInv, TypeOK, Chans
<1>2. CASE conn[s].ch # c
  <2>1. chan' = cs /\ UNCHANGED <<conn, requests>>
    BY <1>2 DEF Lost
  <2> QED BY <2>1 DEF IInv, TypeOK, Duty, Chans
<1> QED BY <1>1, <1>2

LEMMA EndOfFileStep ==
    ASSUME IInv, NEW s \in Site, NEW c \in Channel, EndOfFile(s, c)
    PROVE IInv'
<1>1. Close(chan, s, c) \in Chans
  BY ComObjOf, CloseChannelType
<1>2. broken \in BOOLEAN
  BY DEF IInv, TypeOK
<1>3. Lost(s, c, Close(chan, s, c)) /\ UNCHANGED <<sent, got, broken>>
  BY DEF EndOfFile
<1> QED BY <1>1, <1>2, <1>3, LostStep

LEMMA ChannelBreaksStep ==
    ASSUME IInv, NEW s \in Site, NEW c \in Channel, ChannelBreaks(s, c)
    PROVE IInv'
<1> DEFINE P == Peer(s)
           cut(k) == [chan EXCEPT ![c].to[P] = SubSeq(chan[c].to[P], 1, k)]
<1>1. PICK k \in 0..Len(chan[c].to[P]) : Lost(s, c, Close(cut(k), s, c))
  BY DEF ChannelBreaks
<1>2. UNCHANGED <<sent, got>> /\ broken' \in BOOLEAN
  BY DEF ChannelBreaks
<1>3. P \in Site /\ chan \in Chans
  BY PeerIsSite, ComObjOf
<1> HIDE DEF P
<1>4. chan[c].to[P] \in Seq(FrameType)
  BY <1>3 DEF Chans, ChannelType
<1>5. SubSeq(chan[c].to[P], 1, k) \in Seq(FrameType)
  <2>1. Len(chan[c].to[P]) \in Nat
    BY <1>4, LenProperties
  <2>2. \A i \in 1..k : chan[c].to[P][i] \in FrameType
    BY <1>4, <2>1, ElementOf
  <2> QED BY <2>1, <2>2, SubSeqProperties
<1>6. cut(k) \in Chans
  BY <1>3, <1>5, FramesType
<1> HIDE DEF cut
<1>7. Close(cut(k), s, c) \in Chans
  BY <1>6, CloseChannelType
<1> QED BY <1>1, <1>2, <1>7, LostStep

-----------------------------------------------------------------------------
(* Frames.                                                                 *)

(* A frame that turns the ComObj of s into r, which meets its duty.        *)
LEMMA HandledStep ==
    ASSUME IInv, NEW s \in Site, NEW c \in Channel, NEW types,
           Arrives(s, c, types),
           NEW r \in ComObj, Settled(r), Waits(r), Handled(s, c, r),
           UNCHANGED <<sent, got, broken>>
    PROVE IInv'
<1>1. Consumed(s, c) \in Chans
  BY FrameArrives
<1>2. Become(s, r, Consumed(s, c))
  BY DEF Handled
<1> QED BY <1>1, <1>2, QuietStep

LEMMA IncompleteFrameStep ==
    ASSUME IInv, NEW s \in Site, NEW c \in Channel, IncompleteFrame(s, c)
    PROVE IInv'
<1> DEFINE r == Acked(s, c)
<1>1. r \in ComObj /\ Settled(r) /\ Waits(r)
  BY AckedOf
<1>2. Become(s, r, chan) /\ UNCHANGED <<sent, got, broken>>
  BY DEF IncompleteFrame
<1> HIDE DEF r
<1> QED BY <1>1, <1>2, ComObjOf, QuietStep

LEMMA MessageReceivedStep ==
    ASSUME IInv, NEW s \in Site, NEW c \in Channel, MessageReceived(s, c)
    PROVE IInv'
<1> DEFINE r == Acked(s, c)
           n == r.lastReceived + 1
           counted == [r EXCEPT !.lastReceived = n, !.remoteRef = TRUE]
           timed == [counted EXCEPT !.ackTimer = TRUE]
           acked == sendAckExplicit(counted)
           next == IF ~Open(r) THEN r
                   ELSE IF Frame(s, c).t = "PING" \/ n % MsgAckLength = 0
                   THEN acked ELSE timed
<1>1. r \in ComObj /\ Settled(r) /\ Waits(r)
  BY AckedOf
<1>2. /\ Arrives(s, c, {"APP", "PING"})
      /\ Handled(s, c, next)
      /\ UNCHANGED <<sent, broken>>
      /\ got' = IF Open(r) /\ Frame(s, c).t = "APP"
                THEN [got EXCEPT ![s] = Append(@, Frame(s, c).id)] ELSE got
  BY DEF MessageReceived
<1> HIDE DEF r
<1>3. /\ counted \in ComObj /\ counted.st = r.st /\ counted.ch = r.ch
      /\ counted.q = r.q /\ counted.writer = r.writer
  <2>1. n \in Nat
    BY <1>1 DEF ComObj
  <2> HIDE DEF n
  <2> QED BY <1>1, <2>1 DEF ComObj
<1>4. Settled(counted) /\ Waits(counted)
  BY <1>1, <1>3, SameQueues
<1> HIDE DEF counted
<1>5. acked \in ComObj /\ Settled(acked) /\ Waits(acked)
  BY <1>3, <1>4, AckExplicitWaits
<1>6. timed \in ComObj /\ Settled(timed) /\ Waits(timed)
  <2>1. /\ timed \in ComObj /\ timed.st = counted.st /\ timed.ch = counted.ch
        /\ timed.q = counted.q /\ timed.writer = counted.writer
    BY <1>3 DEF ComObj
  <2> QED BY <1>3, <1>4, <2>1, SameQueues
<1> HIDE DEF acked, timed
<1>7. next \in ComObj /\ Settled(next) /\ Waits(next)
  BY <1>1, <1>5, <1>6
<1> HIDE DEF next
<1>8. /\ conn' \in [Site -> ComObj]
      /\ \A p \in Site : Settled(conn'[p])
      /\ Duty'
      /\ requests' \in [Site -> Nat]
      /\ chan' \in Chans
  <2>1. Consumed(s, c) \in Chans
    BY <1>2, FrameArrives
  <2>2. Become(s, next, Consumed(s, c))
    BY <1>2 DEF Handled
  <2> QED BY <1>7, <2>1, <2>2, BecomeStep
<1>9. got' \in [Site -> Seq(Nat)]
  <2>1. got \in [Site -> Seq(Nat)]
    BY DEF IInv, TypeOK
  <2>2. ASSUME Frame(s, c).t = "APP" PROVE Frame(s, c).id \in Nat
    BY <1>2, <2>2, FrameArrives DEF FrameType, Plain, Presenting
  <2>3. CASE Open(r) /\ Frame(s, c).t = "APP"
    <3> DEFINE g == Append(got[s], Frame(s, c).id)
    <3>1. g \in Seq(Nat)
      BY <2>1, <2>2, <2>3, AppendProperties
    <3>2. got' = [got EXCEPT ![s] = g]
      BY <1>2, <2>3
    <3> HIDE DEF g
    <3> QED BY <2>1, <3>1, <3>2
  <2>4. CASE ~(Open(r) /\ Frame(s, c).t = "APP")
    BY <1>2, <2>1, <2>4
  <2> QED BY <2>3, <2>4
<1>10. broken' \in BOOLEAN /\ sent' \in [Site -> Nat]
  BY <1>2 DEF IInv, TypeOK
<1> QED BY <1>8, <1>9, <1>10 DEF IInv, TypeOK, Chans

LEMMA AckReceivedStep ==
    ASSUME IInv, NEW s \in Site, NEW c \in Channel, AckReceived(s, c)
    PROVE IInv'
<1>1. Arrives(s, c, {"ACK"}) /\ Handled(s, c, Acked(s, c))
      /\ UNCHANGED <<sent, got, broken>>
  BY DEF AckReceived
<1> QED BY <1>1, AckedOf, HandledStep

LEMMA AnonPresentStep ==
    ASSUME IInv, NEW s \in Site, NEW c \in Channel, AnonPresent(s, c)
    PROVE IInv'
<1> DEFINE r == Acked(s, c)
           g == [r EXCEPT !.st = "OPENING_WF_NEGOTIATE"]
           m == [t |-> "INIT_PRESENT", ci |-> CI(g)]
           n == m_send(g, m, 4)
<1>1. /\ Arrives(s, c, {"ANON_PRESENT"}) /\ Handled(s, c, n)
      /\ UNCHANGED <<sent, got, broken>>
  BY DEF AnonPresent
<1>2. r \in ComObj
  BY AckedOf
<1> HIDE DEF r
<1>3. g \in ComObj /\ g.st = "OPENING_WF_NEGOTIATE"
  BY <1>2 DEF ComObj, ComObjState
<1> HIDE DEF g
<1>4. m \in Message /\ 4 \in Prio
  <2>1. CI(g) \in ConnectionInfo
    <3>1. hasNeed(g) \in BOOLEAN
      <4>1. g.localRef \in BOOLEAN
        BY <1>3 DEF ComObj
      <4> QED BY <4>1 DEF hasNeed, QueuesNeed, hasQueued
    <3>2. g.lastReceived \in Nat
      BY <1>3 DEF ComObj
    <3> QED BY <3>1, <3>2 DEF CI, ConnectionInfo
  <2> QED BY <2>1 DEF Message, Presenting, Prio
<1> HIDE DEF m
<1>5. n \in ComObj /\ n.st = "OPENING_WF_NEGOTIATE"
  BY <1>3, <1>4, SendWaits
<1>6. Settled(n) /\ Waits(n)
  BY <1>5 DEF Settled, Waits
<1> HIDE DEF n
<1> QED BY <1>1, <1>5, <1>6, HandledStep

LEMMA InitPresentStep ==
    ASSUME IInv, NEW s \in Site, NEW c \in Channel, InitPresent(s, c)
    PROVE IInv'
<1> DEFINE old == conn[s]
           queues == IF old.st = "CLOSED" THEN old ELSE m_close(old)
           fresh == [NewComObj EXCEPT !.st = "ANONYMOUS_WF_PRESENT", !.ch = c,
                        !.q = queues.q, !.unacked = queues.unacked]
           merged == extractCI(fresh, Frame(s, c).ci)
           answer == [t |-> "ANON_NEGOTIATE", ci |-> CI(merged)]
           x == m_send(merged, answer, 4)
           n == [x EXCEPT !.st = "ANONYMOUS_WF_NEGOTIATE"]
           d == Consumed(s, c)
           cs == [d EXCEPT ![c].anonymous = @ \ {s}]
<1>1. /\ Arrives(s, c, {"INIT_PRESENT"})
      /\ UNCHANGED <<sent, got, broken>>
      /\ \/ Become(s, n, cs)
         \/ chan' = Close(chan, s, c) /\ UNCHANGED <<conn, requests>>
  BY DEF InitPresent
<1>2. /\ Frame(s, c).ci \in ConnectionInfo /\ d \in Chans
  BY <1>1, FrameArrives, FrameInfo DEF Presenting
<1>3. queues \in ComObj
  BY ComObjOf, CloseType
<1> HIDE DEF queues
<1>4. fresh \in ComObj
  BY <1>3, NewComObjType DEF ComObj, ComObjState
<1> HIDE DEF fresh
<1>5. merged \in ComObj
  BY <1>2, <1>4, ExtractType
<1> HIDE DEF merged
<1>6. answer \in Message /\ 4 \in Prio
  <2>1. CI(merged) \in ConnectionInfo
    <3>1. hasNeed(merged) \in BOOLEAN
      <4>1. merged.localRef \in BOOLEAN
        BY <1>5 DEF ComObj
      <4> QED BY <4>1 DEF hasNeed, QueuesNeed, hasQueued
    <3>2. merged.lastReceived \in Nat
      BY <1>5 DEF ComObj
    <3> QED BY <3>1, <3>2 DEF CI, ConnectionInfo
  <2> QED BY <2>1 DEF Message, Presenting, Prio
<1> HIDE DEF answer
<1>7. x \in ComObj
  BY <1>5, <1>6, SendWaits
<1> HIDE DEF x
<1>8. n \in ComObj /\ n.st = "ANONYMOUS_WF_NEGOTIATE"
  BY <1>7 DEF ComObj, ComObjState
<1>9. Settled(n) /\ Waits(n)
  BY <1>8 DEF Settled, Waits
<1> HIDE DEF n, d
<1>10. cs \in Chans
  <2> DEFINE y == [d[c] EXCEPT !.anonymous = @ \ {s}]
  <2>1. d[c] \in ChannelType
    BY <1>2 DEF Chans
  <2>2. y \in ChannelType
    BY <2>1 DEF ChannelType
  <2>3. cs = [d EXCEPT ![c] = y]
    OBVIOUS
  <2> HIDE DEF y
  <2> QED BY <1>2, <2>2, <2>3 DEF Chans
<1> HIDE DEF cs
<1>11. CASE Become(s, n, cs)
  BY <1>1, <1>8, <1>9, <1>10, <1>11, QuietStep
<1>12. CASE chan' = Close(chan, s, c) /\ UNCHANGED <<conn, requests>>
  <2>1. chan' \in Chans
    BY <1>12, ComObjOf, CloseChannelType
  <2> QED BY <1>1, <1>12, <2>1 DEF IInv, TypeOK, Duty, Chans
<1> QED BY <1>1, <1>11, <1>12

(* The opener starts to work: what waits and what has to be sent again is  *)
(* behind INIT_NEGOTIATE, whose writer goes on with it.                    *)
LEMMA AnonNegotiateStep ==
    ASSUME IInv, NEW s \in Site, NEW c \in Channel, AnonNegotiate(s, c)
    PROVE IInv'
<1> DEFINE r == extractCI(Acked(s, c), Frame(s, c).ci)
           x == m_send(r, Control("INIT_NEGOTIATE"), 4)
           n == working(x)
<1>1. /\ Arrives(s, c, {"ANON_NEGOTIATE"}) /\ Handled(s, c, n)
      /\ r.st = "OPENING_WF_NEGOTIATE"
      /\ UNCHANGED <<sent, got, broken>>
  BY DEF AnonNegotiate
<1>2. Frame(s, c).ci \in ConnectionInfo
  BY <1>1, FrameArrives, FrameInfo DEF Presenting
<1>3. r \in ComObj
  BY <1>2, AckedOf, ExtractType
<1> HIDE DEF r
<1>4. Control("INIT_NEGOTIATE") \in Message /\ 4 \in Prio
  BY ControlType DEF Plain, Prio
<1>5. x \in ComObj /\ x.writer
  BY <1>1, <1>3, <1>4, SendWaits
<1> HIDE DEF x
<1>6. n \in ComObj /\ Settled(n) /\ Waits(n)
  BY <1>5, WorkingWaits
<1> HIDE DEF n
<1> QED BY <1>1, <1>6, HandledStep

LEMMA InitNegotiateStep ==
    ASSUME IInv, NEW s \in Site, NEW c \in Channel, InitNegotiate(s, c)
    PROVE IInv'
<1> DEFINE r == working(Acked(s, c))
           n == IF hasQueued(r) THEN deliver(r) ELSE r
<1>1. /\ Arrives(s, c, {"INIT_NEGOTIATE"}) /\ Handled(s, c, n)
      /\ UNCHANGED <<sent, got, broken>>
  BY DEF InitNegotiate
<1>2. r \in ComObj /\ Settled(r) /\ r.st = "WORKING"
  BY AckedOf, WorkingWaits
<1> HIDE DEF r
<1>3. n \in ComObj /\ Settled(n) /\ Waits(n)
  BY <1>2, DeliveredWaits
<1> HIDE DEF n
<1> QED BY <1>1, <1>3, HandledStep

(* A weak close is refused while there is need: what waits keeps its       *)
(* writer, or the refusal brings one.                                      *)
LEMMA CloseWeakStep ==
    ASSUME IInv, NEW s \in Site, NEW c \in Channel, CloseWeak(s, c)
    PROVE IInv'
<1> DEFINE a == Acked(s, c)
           r == [a EXCEPT !.remoteRef = FALSE]
           answer == IF hasNeed(r) THEN "CLOSE_REJECT" ELSE "CLOSE_ACCEPT"
           x == m_send(r, Control(answer), 4)
           answered == clearTimers(x)
           closed == [answered EXCEPT !.st = "CLOSED"]
           n == IF r.st # "WORKING" THEN r
                ELSE IF hasNeed(r) THEN working(answered) ELSE closed
<1>1. /\ Arrives(s, c, {"CLOSE_WEAK"}) /\ Handled(s, c, n)
      /\ UNCHANGED <<sent, got, broken>>
  BY DEF CloseWeak
<1>2. a \in ComObj /\ Settled(a) /\ Waits(a)
  BY AckedOf
<1> HIDE DEF a
<1>3. /\ r \in ComObj /\ r.st = a.st /\ r.ch = a.ch /\ r.q = a.q
      /\ r.writer = a.writer
  BY <1>2 DEF ComObj
<1>4. Settled(r) /\ Waits(r)
  BY <1>2, <1>3, SameQueues
<1> HIDE DEF r
<1>5. Control(answer) \in Message /\ 4 \in Prio
  BY ControlType DEF Plain, Prio
<1>6. /\ x \in ComObj /\ Waits(x) /\ hasQueued(x)
      /\ r.st # "CLOSED" => x.st = r.st
  <2> HIDE DEF answer
  <2> QED BY <1>3, <1>4, <1>5, SendWaits
<1> HIDE DEF x
<1>7. /\ answered \in ComObj /\ answered.st = x.st
      /\ answered.writer = x.writer
  BY <1>6 DEF clearTimers, ComObj
<1> HIDE DEF answered
<1>8. CASE r.st # "WORKING"
  BY <1>1, <1>3, <1>4, <1>8, HandledStep
<1>9. CASE r.st = "WORKING" /\ hasNeed(r)
  <2>1. answered.writer
    BY <1>6, <1>7, <1>9 DEF Waits
  <2>2. n = working(answered)
    BY <1>9
  <2> HIDE DEF n
  <2> QED BY <1>1, <1>7, <2>1, <2>2, WorkingWaits, HandledStep
<1>10. CASE r.st = "WORKING" /\ ~hasNeed(r)
  <2>1. n = closed
    BY <1>10
  <2>2. closed \in ComObj /\ closed.st = "CLOSED"
    BY <1>7 DEF ComObj, ComObjState
  <2>3. Settled(closed) /\ Waits(closed)
    BY <2>2 DEF Settled, Waits
  <2> HIDE DEF n, closed
  <2> QED BY <1>1, <2>1, <2>2, <2>3, HandledStep
<1> QED BY <1>8, <1>9, <1>10

LEMMA CloseAcceptStep ==
    ASSUME IInv, NEW s \in Site, NEW c \in Channel, CloseAccept(s, c)
    PROVE IInv'
<1> DEFINE r == Acked(s, c)
           n == IF r.st = "CLOSING_WEAK"
                THEN m_CLOSING_WEAK_2_CLOSED(r) ELSE r
<1>1. /\ Arrives(s, c, {"CLOSE_ACCEPT"}) /\ Handled(s, c, n)
      /\ UNCHANGED <<sent, got, broken>>
  BY DEF CloseAccept
<1>2. r \in ComObj /\ Settled(r) /\ Waits(r)
  BY AckedOf
<1> HIDE DEF r
<1>3. n \in ComObj /\ Settled(n) /\ Waits(n)
  BY <1>2, ClosedType DEF Waits
<1> HIDE DEF n
<1> QED BY <1>1, <1>3, HandledStep

(* A weak close that is refused: what was queued meanwhile is delivered.   *)
LEMMA CloseRejectStep ==
    ASSUME IInv, NEW s \in Site, NEW c \in Channel, CloseReject(s, c)
    PROVE IInv'
<1> DEFINE r == Acked(s, c)
           y == [r EXCEPT !.remoteRef = TRUE]
           back == working(y)
           n == IF r.st # "CLOSING_WEAK" THEN r
                ELSE IF hasQueued(back) THEN deliver(back) ELSE back
<1>1. /\ Arrives(s, c, {"CLOSE_REJECT"}) /\ Handled(s, c, n)
      /\ UNCHANGED <<sent, got, broken>>
  BY DEF CloseReject
<1>2. r \in ComObj /\ Settled(r) /\ Waits(r)
  BY AckedOf
<1> HIDE DEF r
<1>3. y \in ComObj
  BY <1>2 DEF ComObj
<1> HIDE DEF y
<1>4. back \in ComObj /\ Settled(back) /\ back.st = "WORKING"
  BY <1>3, WorkingWaits
<1> HIDE DEF back
<1>5. n \in ComObj /\ Settled(n) /\ Waits(n)
  BY <1>2, <1>4, DeliveredWaits
<1> HIDE DEF n
<1> QED BY <1>1, <1>5, HandledStep

LEMMA ClearReferenceStep ==
    ASSUME IInv, NEW s \in Site, NEW c \in Channel, ClearReference(s, c)
    PROVE IInv'
<1> DEFINE r == Acked(s, c)
           cleared == [r EXCEPT !.remoteRef = FALSE]
           closing == m_WORKING_2_CLOSING_WEAK(cleared)
           n == IF ~Open(r) THEN r
                ELSE IF r.st = "WORKING" /\ ~hasNeed(cleared)
                THEN closing ELSE cleared
<1>1. /\ Arrives(s, c, {"CLEAR_REFERENCE"}) /\ Handled(s, c, n)
      /\ UNCHANGED <<sent, got, broken>>
  BY DEF ClearReference
<1>2. r \in ComObj /\ Settled(r) /\ Waits(r)
  BY AckedOf
<1> HIDE DEF r
<1>3. /\ cleared \in ComObj /\ cleared.st = r.st /\ cleared.ch = r.ch
      /\ cleared.q = r.q /\ cleared.writer = r.writer
  BY <1>2 DEF ComObj
<1>4. Settled(cleared) /\ Waits(cleared)
  BY <1>2, <1>3, SameQueues
<1> HIDE DEF cleared
<1>5. closing \in ComObj /\ closing.st = "CLOSING_WEAK"
  BY <1>3, ClosingType
<1>6. Settled(closing) /\ Waits(closing)
  BY <1>5 DEF Settled, Waits
<1> HIDE DEF closing
<1>7. n \in ComObj /\ Settled(n) /\ Waits(n)
  BY <1>2, <1>3, <1>4, <1>5, <1>6
<1> HIDE DEF n
<1> QED BY <1>1, <1>7, HandledStep

-----------------------------------------------------------------------------
(* The theorems.                                                           *)

LEMMA InitHolds == Init => IInv
<1> SUFFICES ASSUME Init PROVE IInv
  OBVIOUS
<1>1. conn = [s \in Site |-> NewComObj]
  BY DEF Init
<1>2. \A s \in Site : conn[s] = NewComObj
  BY <1>1
<1>3. conn \in [Site -> ComObj]
  BY <1>1, NewComObjType
<1>4. \A s \in Site : Settled(conn[s]) /\ Waits(conn[s])
  BY <1>2, NewComObjType
<1>5. chan \in [Channel -> ChannelType]
  <2>1. <<>> \in Seq(FrameType)
    OBVIOUS
  <2>2. Unused \in ChannelType
    BY <2>1 DEF Unused, ChannelType
  <2> QED BY <2>2 DEF Init
<1>6. got \in [Site -> Seq(Nat)]
  <2>1. <<>> \in Seq(Nat)
    OBVIOUS
  <2> QED BY <2>1 DEF Init
<1>7. /\ requests \in [Site -> Nat] /\ sent \in [Site -> Nat]
      /\ broken \in BOOLEAN
  BY DEF Init
<1> QED BY <1>3, <1>4, <1>5, <1>6, <1>7 DEF IInv, TypeOK, Duty

LEMMA NextHolds == IInv /\ [Next]_vars => IInv'
<1> SUFFICES ASSUME IInv, [Next]_vars PROVE IInv'
  OBVIOUS
<1>1. CASE UNCHANGED vars
  BY <1>1 DEF vars, IInv, TypeOK, Duty
<1>2. ASSUME NEW s \in Site, Environment(s) PROVE IInv'
  BY <1>2, m_sendMsgStep, sendProbePingStep, gcSiteTableStep,
     ChannelBreaksStep DEF Environment
<1>3. ASSUME NEW s \in Site,
             sendAckTimer(s) \/ handover(s) \/ writeDataAvailable(s)
      PROVE IInv'
  BY <1>3, sendAckTimerStep, handoverStep, writeDataAvailableStep
<1>4. ASSUME NEW s \in Site, NEW c \in Channel, Receive(s, c) PROVE IInv'
  BY <1>4, MessageReceivedStep, AckReceivedStep, AnonPresentStep,
     InitPresentStep, AnonNegotiateStep, InitNegotiateStep, CloseWeakStep,
     CloseAcceptStep, CloseRejectStep, ClearReferenceStep DEF Receive
<1>5. ASSUME NEW s \in Site, NEW c \in Channel, EndOfFile(s, c) PROVE IInv'
  BY <1>5, EndOfFileStep
<1>6. ASSUME NEW s \in Site, NEW c \in Channel, IncompleteFrame(s, c)
      PROVE IInv'
  BY <1>6, IncompleteFrameStep
<1> QED BY <1>1, <1>2, <1>3, <1>4, <1>5, <1>6 DEF Next

(* Types: ComObjs, queues and channels hold what they should, whatever the *)
(* sites send, lose and close; a ComObj that waits for a channel has none, *)
(* so that connectionLost, which has no case for that state, is never      *)
(* called in it.                                                           *)
THEOREM TypeCorrect == Spec => []TypeOK
<1>1. IInv => TypeOK
  BY DEF IInv
<1> QED BY <1>1, InitHolds, NextHolds, PTL DEF Spec

(* A working ComObj with queued messages has a writer, so m_send may rely  *)
(* on it when it queues without registering one.                           *)
THEOREM WriterAlwaysWaits == Spec => []WriterWaits
<1>1. IInv => WriterWaits
  BY DEF IInv, Duty, Waits, WriterWaits
<1> QED BY <1>1, InitHolds, NextHolds, PTL DEF Spec

-----------------------------------------------------------------------------
(* WorkingAgree.  Whether two ComObjs agree depends on what is queued and  *)
(* under way between them, so its invariant speaks of the frames on each   *)
(* channel, seen from either end.                                          *)

Numbered == {"APP", "PING"}

Handshake == {"INIT_PRESENT", "ANON_NEGOTIATE", "INIT_NEGOTIATE"}

(* The states of a ComObj that counts what it receives.                    *)
Talks == {"WORKING", "CLOSING_WEAK"}

NoneOf(q, T) == \A i \in DOMAIN q : q[i].t \notin T

Some(q, t) == \E i \in DOMAIN q : q[i].t = t

(* The ConnectionInfo of the messages of type t says that n are received.  *)
Says(q, t, n) == \A i \in DOMAIN q : q[i].t = t => q[i].ci.lastReceived = n

(* q has no element that o has not.                                        *)
Within(q, o) == \A i \in DOMAIN q : \E j \in DOMAIN o : q[i] = o[j]

-----------------------------------------------------------------------------
(* Sites and sequences of messages.                                        *)

LEMMA PeerOfPeer ==
    ASSUME NEW s \in Site
    PROVE Peer(Peer(s)) = s /\ \A x \in Site : x = s \/ x = Peer(s)
<1>1. Peer(s) \in Site /\ Peer(s) # s
  BY PeerIsSite
<1>2. ASSUME NEW x \in Site, x # s, x # Peer(s) PROVE FALSE
  <2> DEFINE A == Site \ {s}
             B == A \ {Peer(s)}
  <2>1. IsFiniteSet(Site) /\ Cardinality(Site) = 2
    BY SiteAssumption
  <2>2. IsFiniteSet(A) /\ Cardinality(A) = 1
    BY <2>1, FS_RemoveElement
  <2> HIDE DEF A
  <2>3. Peer(s) \in A /\ x \in A
    BY <1>1, <1>2 DEF A
  <2>4. IsFiniteSet(B) /\ Cardinality(B) = 0
    BY <2>2, <2>3, FS_RemoveElement
  <2>5. x \in B
    BY <1>2, <2>3
  <2> HIDE DEF B
  <2> QED BY <2>4, <2>5, FS_EmptySet
<1>3. Peer(Peer(s)) \in Site /\ Peer(Peer(s)) # Peer(s)
  BY <1>1, PeerIsSite
<1> QED BY <1>2, <1>3

(* What a queue that has no other elements than another keeps of it.       *)
LEMMA WithinKeeps ==
    ASSUME NEW q, NEW o, Within(q, o)
    PROVE /\ \A T : NoneOf(o, T) => NoneOf(q, T)
          /\ \A t, n : Says(o, t, n) => Says(q, t, n)
          /\ \A t : Some(q, t) => Some(o, t)
<1>1. ASSUME NEW T, NoneOf(o, T) PROVE NoneOf(q, T)
  BY <1>1 DEF Within, NoneOf
<1>2. ASSUME NEW t, NEW n, Says(o, t, n) PROVE Says(q, t, n)
  BY <1>2 DEF Within, Says
<1>3. ASSUME NEW t, Some(q, t) PROVE Some(o, t)
  BY <1>3 DEF Within, Some
<1> QED BY <1>1, <1>2, <1>3

LEMMA WithinSelf ==
    ASSUME NEW q PROVE Within(q, q) /\ Within(<<>>, q)
BY DEF Within

LEMMA WithinTail ==
    ASSUME NEW S, NEW q \in Seq(S), q # <<>> PROVE Within(Tail(q), q)
<1>1. /\ Len(q) \in Nat \ {0} /\ DOMAIN q = 1..Len(q)
      /\ DOMAIN Tail(q) = 1..(Len(q) - 1)
      /\ \A i \in 1..(Len(q) - 1) : Tail(q)[i] = q[i + 1]
  BY HeadTailProperties, LenProperties
<1>2. ASSUME NEW i \in DOMAIN Tail(q)
      PROVE i + 1 \in DOMAIN q /\ Tail(q)[i] = q[i + 1]
  BY <1>1, <1>2
<1> QED BY <1>2 DEF Within

LEMMA WithinCut ==
    ASSUME NEW S, NEW q \in Seq(S), NEW k \in 0..Len(q)
    PROVE Within(SubSeq(q, 1, k), q)
<1>1. /\ Len(q) \in Nat /\ DOMAIN q = 1..Len(q)
      /\ \A i \in 1..k : q[i] \in S
  BY LenProperties, ElementOf
<1>2. /\ SubSeq(q, 1, k) \in Seq(S) /\ Len(SubSeq(q, 1, k)) = k
      /\ \A i \in 1..k : SubSeq(q, 1, k)[i] = q[i]
  BY <1>1, SubSeqProperties
<1>3. DOMAIN SubSeq(q, 1, k) = 1..k
  BY <1>2, LenProperties
<1>4. \A i \in 1..k : i \in DOMAIN q
  BY <1>1
<1> QED BY <1>2, <1>3, <1>4 DEF Within

(* The elements of a queue to which m is appended.                         *)
LEMMA AppendedIs ==
    ASSUME NEW S, NEW q \in Seq(S), NEW m \in S
    PROVE /\ DOMAIN Append(q, m) = 1..(Len(q) + 1)
          /\ DOMAIN q = 1..Len(q) /\ Len(q) \in Nat
          /\ \A i \in 1..Len(q) : Append(q, m)[i] = q[i]
          /\ Append(q, m)[Len(q) + 1] = m
<1>1. /\ Append(q, m) \in Seq(S) /\ Len(Append(q, m)) = Len(q) + 1
      /\ \A i \in 1..Len(q) : Append(q, m)[i] = q[i]
      /\ Append(q, m)[Len(q) + 1] = m
  BY AppendProperties
<1> QED BY <1>1, LenProperties

LEMMA AppendKeeps ==
    ASSUME NEW S, NEW q \in Seq(S), NEW m \in S
    PROVE /\ \A T : NoneOf(q, T) /\ m.t \notin T => NoneOf(Append(q, m), T)
          /\ \A t, n : Says(q, t, n) /\ (m.t = t => m.ci.lastReceived = n)
                          => Says(Append(q, m), t, n)
          /\ \A t : Some(Append(q, m), t) <=> Some(q, t) \/ m.t = t
<1> DEFINE a == Append(q, m)
           n == Len(q)
<1>1. /\ DOMAIN a = 1..(n + 1) /\ DOMAIN q = 1..n /\ n \in Nat
      /\ \A i \in 1..n : a[i] = q[i]
      /\ a[n + 1] = m
  BY AppendedIs
<1> HIDE DEF a, n
<1>2. \A i \in DOMAIN a : (i \in DOMAIN q /\ a[i] = q[i]) \/ a[i] = m
  BY <1>1
<1>3. \A i \in DOMAIN q : i \in DOMAIN a /\ a[i] = q[i]
  BY <1>1
<1>4. n + 1 \in DOMAIN a /\ a[n + 1] = m
  BY <1>1
<1>5. ASSUME NEW T, NoneOf(q, T), m.t \notin T PROVE NoneOf(a, T)
  BY <1>2, <1>5 DEF NoneOf
<1>6. ASSUME NEW t, NEW k, Says(q, t, k), m.t = t => m.ci.lastReceived = k
      PROVE Says(a, t, k)
  BY <1>2, <1>6 DEF Says
<1>7. ASSUME NEW t PROVE Some(a, t) <=> Some(q, t) \/ m.t = t
  BY <1>2, <1>3, <1>4 DEF Some
<1> QED BY <1>5, <1>6, <1>7 DEF a

(* The head of a queue is one of its elements.                             *)
LEMMA HeadOf ==
    ASSUME NEW S, NEW q \in Seq(S), q # <<>>
    PROVE 1 \in DOMAIN q /\ Head(q) = q[1] /\ Head(q) \in S
BY HeadTailProperties, LenProperties

LEMMA NumberedNat ==
    ASSUME NEW S, NEW q \in Seq(S)
    PROVE /\ IsFiniteSet({i \in DOMAIN q : q[i].t \in Numbered})
          /\ NumberedIn(q) \in Nat
          /\ NoneOf(q, Numbered) => NumberedIn(q) = 0
<1> DEFINE Q == {i \in DOMAIN q : q[i].t \in Numbered}
<1>1. DOMAIN q = 1..Len(q) /\ Len(q) \in Nat
  BY LenProperties
<1>2. IsFiniteSet(1..Len(q))
  BY <1>1, FS_Interval
<1>3. IsFiniteSet(Q)
  BY <1>1, <1>2, FS_Subset
<1>4. NumberedIn(q) = Cardinality(Q)
  BY DEF NumberedIn, Numbered
<1>5. NoneOf(q, Numbered) => Q = {}
  BY DEF NoneOf
<1> HIDE DEF Q
<1>6. NumberedIn(q) \in Nat
  BY <1>3, <1>4, FS_CardinalityType
<1>7. NoneOf(q, Numbered) => NumberedIn(q) = 0
  BY <1>4, <1>5, FS_EmptySet
<1> QED BY <1>3, <1>6, <1>7 DEF Q

LEMMA NumberedAppend ==
    ASSUME NEW S, NEW q \in Seq(S), NEW m \in S
    PROVE NumberedIn(Append(q, m)) =
             NumberedIn(q) + (IF m.t \in Numbered THEN 1 ELSE 0)
<1> DEFINE a == Append(q, m)
           n == Len(q)
           Q == {i \in DOMAIN q : q[i].t \in Numbered}
           A == {i \in DOMAIN a : a[i].t \in Numbered}
<1>1. /\ DOMAIN a = 1..(n + 1) /\ DOMAIN q = 1..n /\ n \in Nat
      /\ \A i \in 1..n : a[i] = q[i]
      /\ a[n + 1] = m
  BY AppendedIs
<1>2. /\ NumberedIn(q) = Cardinality(Q) /\ NumberedIn(a) = Cardinality(A)
      /\ IsFiniteSet(Q) /\ NumberedIn(q) \in Nat
  BY NumberedNat DEF NumberedIn, Numbered
<1> HIDE DEF a, n
<1>3. n + 1 \notin Q
  BY <1>1
<1>4. CASE m.t \in Numbered
  <2>1. A = Q \cup {n + 1}
    BY <1>1, <1>4
  <2> HIDE DEF Q, A
  <2>2. Cardinality(Q \cup {n + 1}) = Cardinality(Q) + 1
    BY <1>2, <1>3, FS_AddElement
  <2> QED BY <1>2, <1>4, <2>1, <2>2 DEF a
<1>5. CASE m.t \notin Numbered
  <2>1. A = Q
    BY <1>1, <1>5
  <2> HIDE DEF Q, A
  <2> QED BY <1>2, <1>5, <2>1 DEF a
<1> QED BY <1>4, <1>5

LEMMA NumberedTail ==
    ASSUME NEW S, NEW q \in Seq(S), q # <<>>
    PROVE NumberedIn(q) =
             NumberedIn(Tail(q)) + (IF Head(q).t \in Numbered THEN 1 ELSE 0)
<1> DEFINE t == Tail(q)
           n == Len(q)
           Q == {i \in DOMAIN q : q[i].t \in Numbered}
           T == {i \in DOMAIN t : t[i].t \in Numbered}
           U == {i \in Q : i > 1}
<1>1. /\ n \in Nat \ {0} /\ DOMAIN q = 1..n /\ DOMAIN t = 1..(n - 1)
      /\ t \in Seq(S) /\ Head(q) = q[1]
      /\ \A i \in 1..(n - 1) : t[i] = q[i + 1]
  BY HeadTailProperties, LenProperties
<1>2. /\ NumberedIn(q) = Cardinality(Q) /\ NumberedIn(t) = Cardinality(T)
      /\ IsFiniteSet(T) /\ IsFiniteSet(Q) /\ NumberedIn(t) \in Nat
  BY <1>1, NumberedNat DEF NumberedIn, Numbered
<1> HIDE DEF n
<1>3. ExistsBijection(T, U)
  <2> DEFINE f == [i \in T |-> i + 1]
  <2>1. ASSUME NEW i \in T PROVE i \in Nat /\ i + 1 \in U
    <3>1. i \in 1..(n - 1) /\ i + 1 \in 1..n /\ i + 1 > 1
      BY <1>1
    <3>2. t[i] = q[i + 1]
      BY <1>1, <3>1
    <3> QED BY <1>1, <3>1, <3>2
  <2>2. f \in [T -> U]
    BY <2>1
  <2>3. ASSUME NEW i \in T, NEW j \in T, f[i] = f[j] PROVE i = j
    BY <2>1, <2>3
  <2>4. ASSUME NEW k \in U PROVE \E i \in T : f[i] = k
    <3>1. k - 1 \in 1..(n - 1) /\ (k - 1) + 1 = k
      BY <1>1
    <3>2. t[k - 1] = q[k]
      BY <1>1, <3>1
    <3>3. k - 1 \in T
      BY <1>1, <3>1, <3>2
    <3> QED BY <3>1, <3>3
  <2> HIDE DEF f, T, U
  <2>5. f \in Bijection(T, U)
    BY <2>2, <2>3, <2>4 DEF Bijection, Injection, Surjection, IsInjective
  <2> QED BY <2>5 DEF ExistsBijection
<1>4. IsFiniteSet(U) /\ Cardinality(U) = Cardinality(T)
  BY <1>2, <1>3, FS_Bijection
<1>5. 1 \notin U
  OBVIOUS
<1>6. CASE Head(q).t \in Numbered
  <2>1. Q = U \cup {1}
    BY <1>1, <1>6
  <2> HIDE DEF Q, U, T
  <2>2. Cardinality(U \cup {1}) = Cardinality(U) + 1
    BY <1>4, <1>5, FS_AddElement
  <2> QED BY <1>2, <1>4, <1>6, <2>1, <2>2
<1>7. CASE Head(q).t \notin Numbered
  <2>1. Q = U
    BY <1>1, <1>7
  <2> HIDE DEF Q, U, T
  <2> QED BY <1>2, <1>4, <1>7, <2>1
<1> QED BY <1>6, <1>7

-----------------------------------------------------------------------------
(* The two ends of a channel.                                              *)

Anon == "ANONYMOUS_WF_NEGOTIATE"

Counting == Talks \cup {Anon}

(* Each queue holds what belongs in it.                                    *)
Sorted(r) ==
    /\ NoneOf(r.q[4], Numbered)
    /\ \A i \in {0, 2, 3} : \A j \in DOMAIN r.q[i] : r.q[i][j].t \in Numbered
    /\ \A j \in DOMAIN r.unacked : r.unacked[j].msg.t \in Numbered
    /\ Says(r.q[4], "ANON_NEGOTIATE", 0)

(* The state of a ComObj tells whether it has a channel and which messages *)
(* of the handshake it may still have to write.                            *)
Staged(r) ==
    /\ r.ackTimer => r.st \in Talks
    /\ r.st \notin {"CLOSED", "OPENING_WF_HANDOVER"} => r.ch \in Channel
    /\ r.st \in {"CLOSED", "OPENING_WF_HANDOVER", "OPENING_WF_PRESENT"} =>
          NoneOf(r.q[4], Handshake)
    /\ r.st = "OPENING_WF_NEGOTIATE" =>
          /\ NoneOf(r.q[4], {"INIT_NEGOTIATE", "ANON_NEGOTIATE"})
          /\ Says(r.q[4], "INIT_PRESENT", r.lastReceived)
    /\ r.st = Anon =>
          /\ r.lastReceived = 0
          /\ NoneOf(r.q[4], {"INIT_NEGOTIATE", "INIT_PRESENT"})

Proper(r) == Sorted(r) /\ Staged(r)

(* x and y are the ComObjs of two sites, ts and tp the frames on their way *)
(* to them on channel c, as and ap whether their ends are anonymous.       *)

(* The end of x is anonymous: no answer is on its way to y.                *)
Unknown(x, y, c, ts, tp) ==
    /\ x.ch # c
    /\ NoneOf(ts, {"INIT_NEGOTIATE"} \cup Numbered)
    /\ NoneOf(tp, {"ANON_NEGOTIATE"} \cup Numbered)
    /\ y.ch = c => y.st \in {"OPENING_WF_PRESENT", "OPENING_WF_NEGOTIATE"}

(* x waits for the other end to present itself.                            *)
Presents(y, c, ts, tp) ==
    /\ y.ch # c
    /\ NoneOf(tp, Handshake \cup Numbered)
    /\ NoneOf(ts, {"ANON_NEGOTIATE"} \cup Numbered)

(* x waits for the answer to INIT_PRESENT.                                 *)
Negotiates(x, y, c, ts, tp) ==
    /\ NoneOf(tp, {"INIT_NEGOTIATE"} \cup Numbered)
    /\ NoneOf(ts, Numbered)
    /\ Says(tp, "INIT_PRESENT", x.lastReceived)
    /\ y.ch = c => y.st = Anon /\ y.lastSent = x.lastReceived

(* INIT_NEGOTIATE is ahead of everything that counts.                      *)
Announced(y, ts) ==
    \/ Some(y.q[4], "INIT_NEGOTIATE") /\ NoneOf(ts, Numbered)
    \/ \E k \in DOMAIN ts : /\ ts[k].t = "INIT_NEGOTIATE"
                            /\ \A j \in 1..(k - 1) : ts[j].t \notin Numbered

(* x has answered and waits for INIT_NEGOTIATE.                            *)
Answers(y, ts) ==
    /\ y.st \in {"OPENING_WF_NEGOTIATE", "CLOSED"} \cup Talks
    /\ y.st \in Talks => Announced(y, ts)

End(x, y, c, ts, tp, open, as, ap) ==
    /\ x.ch = c => open
    /\ Says(ts, "ANON_NEGOTIATE", 0)
    /\ as => ~ap /\ Unknown(x, y, c, ts, tp)
    /\ x.ch = c /\ x.st = "OPENING_WF_PRESENT" => Presents(y, c, ts, tp)
    /\ x.ch = c /\ x.st = "OPENING_WF_NEGOTIATE" => Negotiates(x, y, c, ts, tp)
    /\ x.ch = c /\ y.ch = c /\ x.st = Anon => Answers(y, ts)
    /\ x.ch = c /\ y.ch = c /\ x.st \in Counting /\ y.st \in Counting =>
          x.lastSent = y.lastReceived + NumberedIn(tp)

(* Channel c, which is h, and its ends: x is the ComObj of s, y that of p.  *)
Ends(x, y, c, h, s, p) ==
    /\ End(x, y, c, h.to[s], h.to[p], h.open[s],
           s \in h.anonymous, p \in h.anonymous)
    /\ End(y, x, c, h.to[p], h.to[s], h.open[p],
           p \in h.anonymous, s \in h.anonymous)

(* A ComObj leaves a channel, or has never been there; frames may be lost. *)
LEMMA EndsAway ==
    ASSUME NEW x, NEW y, NEW n, NEW c, NEW h, NEW k, NEW s, NEW p,
           Ends(x, y, c, h, s, p), n.ch # c,
           Within(k.to[s], h.to[s]), Within(k.to[p], h.to[p]),
           k.open[p] = h.open[p], s \in k.anonymous => s \in h.anonymous,
           p \in k.anonymous <=> p \in h.anonymous
    PROVE Ends(n, y, c, k, s, p)
<1> DEFINE ts == h.to[s]
           tp == h.to[p]
           os == h.open[s]
           op == h.open[p]
           as == s \in h.anonymous
           ap == p \in h.anonymous
           us == k.to[s]
           up == k.to[p]
           ns == k.open[s]
           bs == s \in k.anonymous
<1>1. /\ \A T : NoneOf(ts, T) => NoneOf(us, T)
      /\ \A T : NoneOf(tp, T) => NoneOf(up, T)
      /\ \A t, i : Says(ts, t, i) => Says(us, t, i)
      /\ \A t, i : Says(tp, t, i) => Says(up, t, i)
  BY WithinKeeps
<1>2. End(n, y, c, us, up, ns, bs, ap)
  <2>1. Says(us, "ANON_NEGOTIATE", 0)
    BY <1>1 DEF Ends, End
  <2>2. bs => ~ap /\ Unknown(n, y, c, us, up)
    BY <1>1 DEF Ends, End, Unknown
  <2> QED BY <2>1, <2>2 DEF End
<1>3. End(y, n, c, up, us, op, ap, bs)
  <2>1. Says(up, "ANON_NEGOTIATE", 0) /\ (y.ch = c => op)
    BY <1>1 DEF Ends, End
  <2>2. ap => ~bs /\ Unknown(y, n, c, up, us)
    BY <1>1 DEF Ends, End, Unknown
  <2>3. y.ch = c /\ y.st = "OPENING_WF_PRESENT" => Presents(n, c, up, us)
    BY <1>1 DEF Ends, End, Presents
  <2>4. y.ch = c /\ y.st = "OPENING_WF_NEGOTIATE"
           => Negotiates(y, n, c, up, us)
    BY <1>1 DEF Ends, End, Negotiates
  <2> QED BY <2>1, <2>2, <2>3, <2>4 DEF End
<1> QED BY <1>2, <1>3 DEF Ends

(* A ComObj that keeps its channel, its numbers and its INIT_NEGOTIATE.    *)
Steady(x, n) ==
    /\ n.ch = x.ch /\ n.lastSent = x.lastSent
    /\ n.lastReceived = x.lastReceived
    /\ Some(x.q[4], "INIT_NEGOTIATE") => Some(n.q[4], "INIT_NEGOTIATE")
    /\ n.st = x.st \/ (x.st \in Talks /\ n.st \in Talks \cup {"CLOSED"})

LEMMA TalksAre ==
    /\ "WORKING" \in Talks /\ "CLOSING_WEAK" \in Talks
    /\ Anon \notin Talks /\ "CLOSED" \notin Talks
    /\ "OPENING_WF_PRESENT" \notin Talks /\ "OPENING_WF_NEGOTIATE" \notin Talks
    /\ "OPENING_WF_HANDOVER" \notin Talks
    /\ Anon # "CLOSED" /\ Anon # "OPENING_WF_PRESENT"
    /\ Anon # "OPENING_WF_NEGOTIATE" /\ Anon # "OPENING_WF_HANDOVER"
BY DEF Talks, Anon

LEMMA EndsSteady ==
    ASSUME NEW x, NEW y, NEW n, NEW c, NEW h, NEW s, NEW p,
           Ends(x, y, c, h, s, p), x.ch = c, Steady(x, n)
    PROVE Ends(n, y, c, h, s, p)
<1> DEFINE ts == h.to[s]
           tp == h.to[p]
           os == h.open[s]
           op == h.open[p]
           as == s \in h.anonymous
           ap == p \in h.anonymous
<1>1. End(n, y, c, ts, tp, os, as, ap)
  <2>1. as => ~ap /\ Unknown(n, y, c, ts, tp)
    BY DEF Ends, End, Unknown
  <2>2. n.st = "OPENING_WF_PRESENT" => Presents(y, c, ts, tp)
    BY TalksAre DEF Ends, End, Steady
  <2>3. n.st = "OPENING_WF_NEGOTIATE" => Negotiates(n, y, c, ts, tp)
    BY TalksAre DEF Ends, End, Steady, Negotiates
  <2>4. y.ch = c /\ n.st = Anon => Answers(y, ts)
    BY TalksAre DEF Ends, End, Steady
  <2>5. y.ch = c /\ n.st \in Counting /\ y.st \in Counting =>
           n.lastSent = y.lastReceived + NumberedIn(tp)
    BY TalksAre DEF Ends, End, Steady, Counting
  <2>6. os /\ Says(ts, "ANON_NEGOTIATE", 0)
    BY DEF Ends, End
  <2> QED BY <2>1, <2>2, <2>3, <2>4, <2>5, <2>6 DEF End
<1>2. End(y, n, c, tp, ts, op, ap, as)
  <2>1. ap => ~as /\ Unknown(y, n, c, tp, ts)
    BY TalksAre DEF Ends, End, Steady, Unknown
  <2>2. y.ch = c => y.st # "OPENING_WF_PRESENT"
    BY DEF Ends, End, Presents
  <2>3. y.ch = c /\ y.st = "OPENING_WF_NEGOTIATE"
           => Negotiates(y, n, c, tp, ts)
    BY TalksAre DEF Ends, End, Steady, Negotiates
  <2>4. ASSUME y.ch = c, y.st = Anon PROVE Answers(n, tp)
    <3>1. Answers(x, tp)
      BY <2>4 DEF Ends, End
    <3>2. x.st \in Talks /\ Announced(x, tp) => Announced(n, tp)
      BY DEF Announced, Steady
    <3> QED BY <3>1, <3>2, TalksAre DEF Answers, Steady
  <2>5. y.ch = c /\ y.st \in Counting /\ n.st \in Counting =>
           y.lastSent = n.lastReceived + NumberedIn(ts)
    BY TalksAre DEF Ends, End, Steady, Counting
  <2>6. (y.ch = c => op) /\ Says(tp, "ANON_NEGOTIATE", 0)
    BY DEF Ends, End
  <2> QED BY <2>1, <2>2, <2>3, <2>4, <2>5, <2>6 DEF End
<1> QED BY <1>1, <1>2 DEF Ends

(* INIT_NEGOTIATE stays ahead when a frame before it is read.              *)
LEMMA AnnouncedTail ==
    ASSUME NEW y, NEW ts \in Seq(FrameType), ts # <<>>, Announced(y, ts)
    PROVE /\ Head(ts).t \notin Numbered
          /\ Head(ts).t # "INIT_NEGOTIATE" => Announced(y, Tail(ts))
<1>1. 1 \in DOMAIN ts /\ Head(ts) = ts[1]
  BY HeadOf
<1>2. CASE Some(y.q[4], "INIT_NEGOTIATE") /\ NoneOf(ts, Numbered)
  <2>1. NoneOf(Tail(ts), Numbered)
    BY <1>2, WithinTail, WithinKeeps
  <2> QED BY <1>1, <1>2, <2>1 DEF NoneOf, Announced
<1>3. CASE \E k \in DOMAIN ts : /\ ts[k].t = "INIT_NEGOTIATE"
                               /\ \A j \in 1..(k - 1) : ts[j].t \notin Numbered
  <2>1. PICK k \in DOMAIN ts : /\ ts[k].t = "INIT_NEGOTIATE"
                               /\ \A j \in 1..(k - 1) : ts[j].t \notin Numbered
    BY <1>3
  <2>2. /\ Len(ts) \in Nat \ {0} /\ DOMAIN ts = 1..Len(ts)
        /\ DOMAIN Tail(ts) = 1..(Len(ts) - 1)
        /\ \A i \in 1..(Len(ts) - 1) : Tail(ts)[i] = ts[i + 1]
    BY HeadTailProperties, LenProperties
  <2>3. CASE k = 1
    <3>1. Head(ts).t = "INIT_NEGOTIATE"
      BY <1>1, <2>1, <2>3
    <3> QED BY <3>1 DEF Numbered
  <2>4. CASE k # 1
    <3>1. 1 \in 1..(k - 1) /\ k - 1 \in 1..(Len(ts) - 1) /\ (k - 1) + 1 = k
      BY <2>2, <2>4
    <3>2. Head(ts).t \notin Numbered
      BY <1>1, <2>1, <3>1
    <3>3. Tail(ts)[k - 1].t = "INIT_NEGOTIATE" /\ k - 1 \in DOMAIN Tail(ts)
      BY <2>1, <2>2, <3>1
    <3>4. ASSUME NEW j \in 1..((k - 1) - 1) PROVE Tail(ts)[j].t \notin Numbered
      <4>1. j \in 1..(Len(ts) - 1) /\ j + 1 \in 1..(k - 1)
        BY <2>2, <3>1
      <4>2. Tail(ts)[j] = ts[j + 1]
        BY <2>2, <4>1
      <4> QED BY <2>1, <4>1, <4>2
    <3> QED BY <3>2, <3>3, <3>4 DEF Announced
  <2> QED BY <2>3, <2>4
<1> QED BY <1>2, <1>3 DEF Announced

(* A frame is read.  What counts is counted by a ComObj that talks.        *)
LEMMA EndsRead ==
    ASSUME NEW x \in ComObj, NEW y \in ComObj, NEW n \in ComObj, NEW c,
           NEW h, NEW k, NEW s, NEW p, h.to[s] \in Seq(FrameType),
           h.to[p] \in Seq(FrameType), Ends(x, y, c, h, s, p),
           k.to[s] = Tail(h.to[s]), k.to[p] = h.to[p],
           k.open = h.open, k.anonymous = h.anonymous,
           x.ch = c, h.to[s] # <<>>, Head(h.to[s]).t # "INIT_NEGOTIATE",
           n.st = x.st, n.ch = x.ch, n.lastSent = x.lastSent,
           n.lastReceived = x.lastReceived +
              (IF x.st \in Talks /\ Head(h.to[s]).t \in Numbered THEN 1 ELSE 0),
           Some(x.q[4], "INIT_NEGOTIATE") => Some(n.q[4], "INIT_NEGOTIATE")
    PROVE Ends(n, y, c, k, s, p)
<1> DEFINE ts == h.to[s]
           tp == h.to[p]
           os == h.open[s]
           op == h.open[p]
           as == s \in h.anonymous
           ap == p \in h.anonymous
<1> DEFINE us == Tail(ts)
<1>1. /\ \A T : NoneOf(ts, T) => NoneOf(us, T)
      /\ \A t, i : Says(ts, t, i) => Says(us, t, i)
      /\ us \in Seq(FrameType)
  BY WithinTail, WithinKeeps, HeadTailProperties
<1>2. NumberedIn(ts) =
        NumberedIn(us) + (IF Head(ts).t \in Numbered THEN 1 ELSE 0)
  BY NumberedTail
<1>3. NumberedIn(us) \in Nat /\ y.lastSent \in Nat /\ x.lastReceived \in Nat
  BY <1>1, NumberedNat DEF ComObj
<1>4. \A T : NoneOf(ts, T) => Head(ts).t \notin T
  BY HeadOf DEF NoneOf
<1> HIDE DEF us
<1>5. End(n, y, c, us, tp, os, as, ap)
  <2>1. as => ~ap /\ Unknown(n, y, c, us, tp)
    BY DEF Ends, End, Unknown
  <2>2. n.st = "OPENING_WF_PRESENT" => Presents(y, c, us, tp)
    BY <1>1 DEF Ends, End, Presents
  <2>3. ASSUME n.st = "OPENING_WF_NEGOTIATE" PROVE Negotiates(n, y, c, us, tp)
    <3>1. n.lastReceived = x.lastReceived
      BY <1>3, <2>3, TalksAre
    <3> QED BY <1>1, <2>3, <3>1 DEF Ends, End, Negotiates
  <2>4. ASSUME y.ch = c, n.st = Anon PROVE Answers(y, us)
    <3>1. Answers(y, ts)
      BY <2>4 DEF Ends, End
    <3>2. Announced(y, ts) => Announced(y, us)
      BY AnnouncedTail DEF us
    <3> QED BY <3>1, <3>2 DEF Answers
  <2>5. y.ch = c /\ n.st \in Counting /\ y.st \in Counting =>
           n.lastSent = y.lastReceived + NumberedIn(tp)
    BY DEF Ends, End
  <2>6. os /\ Says(us, "ANON_NEGOTIATE", 0)
    BY <1>1 DEF Ends, End
  <2> QED BY <2>1, <2>2, <2>3, <2>4, <2>5, <2>6 DEF End
<1>6. End(y, n, c, tp, us, op, ap, as)
  <2>1. ap => ~as /\ Unknown(y, n, c, tp, us)
    BY <1>1 DEF Ends, End, Unknown
  <2>2. y.ch = c => y.st # "OPENING_WF_PRESENT"
    BY DEF Ends, End, Presents
  <2>3. ASSUME y.ch = c, y.st = "OPENING_WF_NEGOTIATE"
        PROVE Negotiates(y, n, c, tp, us)
    BY <1>1, <2>3 DEF Ends, End, Negotiates
  <2>4. ASSUME y.ch = c, y.st = Anon PROVE Answers(n, tp)
    <3>1. Answers(x, tp)
      BY <2>4 DEF Ends, End
    <3> QED BY <3>1 DEF Answers, Announced
  <2>5. ASSUME y.ch = c, y.st \in Counting, n.st \in Counting
        PROVE y.lastSent = n.lastReceived + NumberedIn(us)
    <3>1. y.lastSent = x.lastReceived + NumberedIn(ts)
      BY <2>5 DEF Ends, End
    <3>2. CASE x.st \in Talks
      BY <1>2, <1>3, <3>1, <3>2
    <3>3. CASE x.st \notin Talks
      <4>1. x.st = Anon
        BY <2>5, <3>3 DEF Counting
      <4>2. Answers(y, ts)
        BY <2>5, <4>1 DEF Ends, End
      <4>3. Announced(y, ts)
        BY <2>5, <4>2, TalksAre DEF Answers, Counting
      <4>4. Head(ts).t \notin Numbered
        BY <4>3, AnnouncedTail
      <4> QED BY <1>2, <1>3, <3>1, <4>4
    <3> QED BY <3>2, <3>3
  <2>6. (y.ch = c => op) /\ Says(tp, "ANON_NEGOTIATE", 0)
    BY DEF Ends, End
  <2> QED BY <2>1, <2>2, <2>3, <2>4, <2>5, <2>6 DEF End
<1> QED BY <1>5, <1>6 DEF Ends, us

(* INIT_NEGOTIATE stays ahead, or gets ahead, when a frame is written.     *)
LEMMA AnnouncedAppend ==
    ASSUME NEW x, NEW n, NEW tp \in Seq(FrameType), NEW f \in FrameType,
           Announced(x, tp),
           Some(x.q[4], "INIT_NEGOTIATE") =>
              /\ f.t \notin Numbered
              /\ Some(n.q[4], "INIT_NEGOTIATE") \/ f.t = "INIT_NEGOTIATE"
    PROVE Announced(n, Append(tp, f))
<1> DEFINE a == Append(tp, f)
           l == Len(tp)
<1>1. /\ DOMAIN a = 1..(l + 1) /\ DOMAIN tp = 1..l /\ l \in Nat
      /\ \A i \in 1..l : a[i] = tp[i]
      /\ a[l + 1] = f
  BY AppendedIs
<1>2. NoneOf(tp, Numbered) /\ f.t \notin Numbered => NoneOf(a, Numbered)
  BY AppendKeeps
<1> HIDE DEF a, l
<1>3. CASE Some(x.q[4], "INIT_NEGOTIATE") /\ NoneOf(tp, Numbered)
  <2>1. CASE Some(n.q[4], "INIT_NEGOTIATE")
    BY <1>2, <1>3, <2>1 DEF Announced, a
  <2>2. CASE f.t = "INIT_NEGOTIATE"
    <3>1. l + 1 \in DOMAIN a /\ a[l + 1].t = "INIT_NEGOTIATE"
      BY <1>1, <2>2
    <3>2. ASSUME NEW j \in 1..((l + 1) - 1) PROVE a[j].t \notin Numbered
      <4>1. j \in DOMAIN tp /\ a[j] = tp[j]
        BY <1>1
      <4> QED BY <1>3, <4>1 DEF NoneOf
    <3> QED BY <3>1, <3>2 DEF Announced, a
  <2> QED BY <1>3, <2>1, <2>2
<1>4. CASE \E k \in DOMAIN tp :
              /\ tp[k].t = "INIT_NEGOTIATE"
              /\ \A j \in 1..(k - 1) : tp[j].t \notin Numbered
  <2>1. PICK k \in DOMAIN tp : /\ tp[k].t = "INIT_NEGOTIATE"
                               /\ \A j \in 1..(k - 1) : tp[j].t \notin Numbered
    BY <1>4
  <2>2. k \in DOMAIN a /\ a[k] = tp[k] /\ \A j \in 1..(k - 1) : a[j] = tp[j]
    BY <1>1
  <2> QED BY <2>1, <2>2 DEF Announced, a
<1> QED BY <1>3, <1>4 DEF Announced

(* A frame is written.  One that counts is written only when nothing that  *)
(* controls the connection waits.                                          *)
LEMMA EndsWrite ==
    ASSUME NEW x \in ComObj, NEW y \in ComObj, NEW n \in ComObj, NEW c,
           NEW h, NEW k, NEW s, NEW p, h.to[s] \in Seq(FrameType),
           h.to[p] \in Seq(FrameType), Ends(x, y, c, h, s, p),
           NEW f \in FrameType,
           k.to[s] = h.to[s], k.to[p] = Append(h.to[p], f),
           k.open = h.open, k.anonymous = h.anonymous,
           x.ch = c, n.st = x.st, n.ch = x.ch,
           n.lastReceived = x.lastReceived,
           n.lastSent = x.lastSent + (IF f.t \in Numbered THEN 1 ELSE 0),
           f.t \in Numbered => x.st = "WORKING"
                                /\ ~Some(x.q[4], "INIT_NEGOTIATE"),
           Some(x.q[4], "INIT_NEGOTIATE") =>
              Some(n.q[4], "INIT_NEGOTIATE") \/ f.t = "INIT_NEGOTIATE",
           f.t = "ANON_NEGOTIATE" => f.ci.lastReceived = 0,
           x.st = "OPENING_WF_PRESENT" => f.t \notin Handshake,
           x.st = "OPENING_WF_NEGOTIATE" =>
              /\ f.t # "INIT_NEGOTIATE"
              /\ f.t = "INIT_PRESENT" => f.ci.lastReceived = x.lastReceived
    PROVE Ends(n, y, c, k, s, p)
<1> DEFINE ts == h.to[s]
           tp == h.to[p]
           os == h.open[s]
           op == h.open[p]
           as == s \in h.anonymous
           ap == p \in h.anonymous
<1> DEFINE up == Append(tp, f)
<1>1. /\ \A T : NoneOf(tp, T) /\ f.t \notin T => NoneOf(up, T)
      /\ \A t, i : Says(tp, t, i) /\ (f.t = t => f.ci.lastReceived = i)
                      => Says(up, t, i)
  BY AppendKeeps
<1>2. NumberedIn(up) = NumberedIn(tp) + (IF f.t \in Numbered THEN 1 ELSE 0)
  BY NumberedAppend
<1>3. NumberedIn(tp) \in Nat /\ x.lastSent \in Nat /\ y.lastReceived \in Nat
  BY NumberedNat DEF ComObj
<1>4. x.st # "WORKING" => f.t \notin Numbered /\ n.lastSent = x.lastSent
  BY <1>3
<1>5. Announced(x, tp) => Announced(n, up)
  BY AnnouncedAppend
<1> HIDE DEF up
<1>6. End(n, y, c, ts, up, os, as, ap)
  <2>1. as => ~ap /\ Unknown(n, y, c, ts, up)
    BY DEF Ends, End, Unknown
  <2>2. ASSUME n.st = "OPENING_WF_PRESENT" PROVE Presents(y, c, ts, up)
    <3>1. f.t \notin Handshake \cup Numbered
      BY <1>4, <2>2
    <3> QED BY <1>1, <2>2, <3>1 DEF Ends, End, Presents
  <2>3. ASSUME n.st = "OPENING_WF_NEGOTIATE" PROVE Negotiates(n, y, c, ts, up)
    <3>1. f.t \notin {"INIT_NEGOTIATE"} \cup Numbered
      BY <1>4, <2>3
    <3> QED BY <1>1, <2>3, <3>1 DEF Ends, End, Negotiates
  <2>4. y.ch = c /\ n.st = Anon => Answers(y, ts)
    BY DEF Ends, End
  <2>5. ASSUME y.ch = c, n.st \in Counting, y.st \in Counting
        PROVE n.lastSent = y.lastReceived + NumberedIn(up)
    <3>1. x.lastSent = y.lastReceived + NumberedIn(tp)
      BY <2>5 DEF Ends, End
    <3> QED BY <1>2, <1>3, <3>1
  <2>6. os /\ Says(ts, "ANON_NEGOTIATE", 0)
    BY DEF Ends, End
  <2> QED BY <2>1, <2>2, <2>3, <2>4, <2>5, <2>6 DEF End
<1>7. End(y, n, c, up, ts, op, ap, as)
  <2>1. ASSUME ap PROVE ~as /\ Unknown(y, n, c, up, ts)
    <3>1. /\ ~as /\ Unknown(y, x, c, tp, ts)
          /\ x.st \in {"OPENING_WF_PRESENT", "OPENING_WF_NEGOTIATE"}
      BY <2>1 DEF Ends, End, Unknown
    <3>2. f.t \notin {"INIT_NEGOTIATE"} \cup Numbered
      BY <1>4, <3>1 DEF Handshake
    <3> QED BY <1>1, <3>1, <3>2 DEF Unknown
  <2>2. y.ch = c => y.st # "OPENING_WF_PRESENT"
    BY DEF Ends, End, Presents
  <2>3. ASSUME y.ch = c, y.st = "OPENING_WF_NEGOTIATE"
        PROVE Negotiates(y, n, c, up, ts)
    <3>1. Negotiates(y, x, c, tp, ts)
      BY <2>3 DEF Ends, End
    <3>2. x.st = Anon
      BY <3>1 DEF Negotiates
    <3>3. f.t \notin Numbered /\ n.lastSent = x.lastSent
      BY <1>4, <3>2, TalksAre
    <3> QED BY <1>1, <3>1, <3>2, <3>3 DEF Negotiates
  <2>4. ASSUME y.ch = c, y.st = Anon PROVE Answers(n, up)
    <3>1. Answers(x, tp)
      BY <2>4 DEF Ends, End
    <3> QED BY <1>5, <3>1 DEF Answers
  <2>5. y.ch = c /\ y.st \in Counting /\ n.st \in Counting =>
           y.lastSent = n.lastReceived + NumberedIn(ts)
    BY DEF Ends, End
  <2>6. (y.ch = c => op) /\ Says(up, "ANON_NEGOTIATE", 0)
    BY <1>1 DEF Ends, End
  <2> QED BY <2>1, <2>2, <2>3, <2>4, <2>5, <2>6 DEF End
<1> QED BY <1>6, <1>7 DEF Ends, up

LEMMA NoneOfLess ==
    ASSUME NEW q, NEW T, NoneOf(q, T)
    PROVE /\ \A U : U \subseteq T => NoneOf(q, U)
          /\ \A t \in T : ~Some(q, t) /\ \A n : Says(q, t, n)
BY DEF NoneOf, Some, Says

(* ANON_PRESENT is read: x presents itself.                                *)
LEMMA EndsPresent ==
    ASSUME NEW x \in ComObj, NEW y \in ComObj, NEW n \in ComObj, NEW c,
           NEW h, NEW k, NEW s, NEW p, h.to[s] \in Seq(FrameType),
           h.to[p] \in Seq(FrameType), Ends(x, y, c, h, s, p),
           k.to[s] = Tail(h.to[s]), k.to[p] = h.to[p],
           k.open = h.open, k.anonymous = h.anonymous,
           x.ch = c, x.st = "OPENING_WF_PRESENT", h.to[s] # <<>>,
           n.ch = c, n.st = "OPENING_WF_NEGOTIATE"
    PROVE Ends(n, y, c, k, s, p)
<1> DEFINE ts == h.to[s]
           tp == h.to[p]
           os == h.open[s]
           op == h.open[p]
           as == s \in h.anonymous
           ap == p \in h.anonymous
<1> DEFINE us == Tail(ts)
<1>1. /\ \A T : NoneOf(ts, T) => NoneOf(us, T)
      /\ \A t, i : Says(ts, t, i) => Says(us, t, i)
  BY WithinTail, WithinKeeps
<1> HIDE DEF us
<1>2. Presents(y, c, ts, tp) /\ y.ch # c
  BY DEF Ends, End, Presents
<1>3. /\ {"INIT_NEGOTIATE"} \cup Numbered \subseteq Handshake \cup Numbered
      /\ Numbered \subseteq {"ANON_NEGOTIATE"} \cup Numbered
      /\ "INIT_PRESENT" \in Handshake \cup Numbered
  BY DEF Handshake
<1>4. /\ NoneOf(tp, {"INIT_NEGOTIATE"} \cup Numbered) /\ NoneOf(ts, Numbered)
      /\ Says(tp, "INIT_PRESENT", n.lastReceived)
  BY <1>2, <1>3, NoneOfLess DEF Presents
<1>5. End(n, y, c, us, tp, os, as, ap)
  <2>1. as => ~ap /\ Unknown(n, y, c, us, tp)
    BY DEF Ends, End, Unknown
  <2>2. Negotiates(n, y, c, us, tp)
    BY <1>1, <1>2, <1>4 DEF Negotiates
  <2>3. os /\ Says(us, "ANON_NEGOTIATE", 0)
    BY <1>1 DEF Ends, End
  <2> QED BY <1>2, <2>1, <2>2, <2>3, TalksAre DEF End
<1>6. End(y, n, c, tp, us, op, ap, as)
  <2>1. ap => ~as /\ Unknown(y, n, c, tp, us)
    BY <1>1 DEF Ends, End, Unknown
  <2>2. Says(tp, "ANON_NEGOTIATE", 0)
    BY DEF Ends, End
  <2> QED BY <1>2, <2>1, <2>2 DEF End
<1> QED BY <1>5, <1>6 DEF Ends, us

(* ANON_NEGOTIATE is read: x works, and INIT_NEGOTIATE waits to be written.*)
LEMMA EndsNegotiate ==
    ASSUME NEW x \in ComObj, NEW y \in ComObj, NEW n \in ComObj, NEW c,
           NEW h, NEW k, NEW s, NEW p, h.to[s] \in Seq(FrameType),
           h.to[p] \in Seq(FrameType), Ends(x, y, c, h, s, p),
           k.to[s] = Tail(h.to[s]), k.to[p] = h.to[p],
           k.open = h.open, k.anonymous = h.anonymous,
           Proper(y),
           x.ch = c, x.st = "OPENING_WF_NEGOTIATE", h.to[s] # <<>>,
           Head(h.to[s]).t = "ANON_NEGOTIATE",
           n.ch = c, n.st = "WORKING", n.lastReceived = x.lastReceived,
           n.lastSent = Head(h.to[s]).ci.lastReceived,
           Some(n.q[4], "INIT_NEGOTIATE")
    PROVE Ends(n, y, c, k, s, p)
<1> DEFINE ts == h.to[s]
           tp == h.to[p]
           os == h.open[s]
           op == h.open[p]
           as == s \in h.anonymous
           ap == p \in h.anonymous
<1> DEFINE us == Tail(ts)
<1>1. /\ \A T : NoneOf(ts, T) => NoneOf(us, T)
      /\ \A t, i : Says(ts, t, i) => Says(us, t, i)
      /\ us \in Seq(FrameType)
  BY WithinTail, WithinKeeps, HeadTailProperties
<1>2. Some(ts, "ANON_NEGOTIATE") /\ Head(ts).ci.lastReceived = 0
  <2>1. Says(ts, "ANON_NEGOTIATE", 0)
    BY DEF Ends, End
  <2> QED BY <2>1, HeadOf DEF Some, Says
<1> HIDE DEF us
<1>3. Negotiates(x, y, c, ts, tp)
  BY DEF Ends, End
<1>4. NoneOf(tp, Numbered) /\ NoneOf(us, Numbered)
  <2>1. Numbered \subseteq {"INIT_NEGOTIATE"} \cup Numbered
    OBVIOUS
  <2> QED BY <1>1, <1>3, <2>1, NoneOfLess DEF Negotiates
<1>5. NumberedIn(tp) = 0 /\ NumberedIn(us) = 0
  BY <1>1, <1>4, NumberedNat
<1>6. y.ch = c => y.st = Anon /\ y.lastReceived = 0
                    /\ y.lastSent = x.lastReceived
  BY <1>3 DEF Negotiates, Proper, Staged
<1>7. End(n, y, c, us, tp, os, as, ap)
  <2>1. as => ~ap /\ Unknown(n, y, c, us, tp)
    BY DEF Ends, End, Unknown
  <2>2. os /\ Says(us, "ANON_NEGOTIATE", 0)
    BY <1>1 DEF Ends, End
  <2>3. y.ch = c => n.lastSent = y.lastReceived + NumberedIn(tp)
    BY <1>2, <1>5, <1>6
  <2> QED BY <2>1, <2>2, <2>3, TalksAre DEF End
<1>8. End(y, n, c, tp, us, op, ap, as)
  <2>1. ~ap
    <3>1. ap => NoneOf(ts, {"ANON_NEGOTIATE"} \cup Numbered)
      BY DEF Ends, End, Unknown
    <3>2. ap => ~Some(ts, "ANON_NEGOTIATE")
      BY <3>1, NoneOfLess
    <3> QED BY <1>2, <3>2
  <2>2. (y.ch = c => op) /\ Says(tp, "ANON_NEGOTIATE", 0)
    BY DEF Ends, End
  <2>3. Answers(n, tp)
    BY <1>4, TalksAre DEF Answers, Announced
  <2>4. y.ch = c => y.lastSent = n.lastReceived + NumberedIn(us)
    <3>1. x.lastReceived \in Nat
      BY DEF ComObj
    <3> QED BY <1>5, <1>6, <3>1
  <2> QED BY <1>6, <2>1, <2>2, <2>3, <2>4, TalksAre DEF End
<1> QED BY <1>7, <1>8 DEF Ends, us

(* INIT_NEGOTIATE is read: x works.                                        *)
LEMMA EndsWork ==
    ASSUME NEW x \in ComObj, NEW y \in ComObj, NEW n \in ComObj, NEW c,
           NEW h, NEW k, NEW s, NEW p, h.to[s] \in Seq(FrameType),
           h.to[p] \in Seq(FrameType), Ends(x, y, c, h, s, p),
           k.to[s] = Tail(h.to[s]), k.to[p] = h.to[p],
           k.open = h.open, k.anonymous = h.anonymous,
           x.ch = c, x.st = Anon, h.to[s] # <<>>,
           Head(h.to[s]).t = "INIT_NEGOTIATE",
           n.ch = c, n.st = "WORKING", n.lastReceived = x.lastReceived,
           n.lastSent = x.lastSent
    PROVE Ends(n, y, c, k, s, p)
<1> DEFINE ts == h.to[s]
           tp == h.to[p]
           os == h.open[s]
           op == h.open[p]
           as == s \in h.anonymous
           ap == p \in h.anonymous
<1> DEFINE us == Tail(ts)
<1>1. /\ \A T : NoneOf(ts, T) => NoneOf(us, T)
      /\ \A t, i : Says(ts, t, i) => Says(us, t, i)
      /\ us \in Seq(FrameType)
  BY WithinTail, WithinKeeps, HeadTailProperties
<1>2. NumberedIn(ts) = NumberedIn(us)
  <2>1. Head(ts).t \notin Numbered
    BY DEF Numbered
  <2>2. NumberedIn(us) \in Nat
    BY <1>1, NumberedNat
  <2> QED BY <2>1, <2>2, NumberedTail
<1>3. Some(ts, "INIT_NEGOTIATE")
  BY HeadOf DEF Some
<1> HIDE DEF us
<1>4. y.ch = c => y.st # Anon /\ y.st # "OPENING_WF_PRESENT"
                   /\ y.st # "OPENING_WF_NEGOTIATE"
  <2>1. y.ch = c => Answers(y, ts)
    BY DEF Ends, End
  <2>2. Negotiates(y, x, c, tp, ts) => ~Some(ts, "INIT_NEGOTIATE")
    BY NoneOfLess DEF Negotiates
  <2>3. ~(y.ch = c /\ y.st = "OPENING_WF_NEGOTIATE")
    BY <1>3, <2>2 DEF Ends, End
  <2> QED BY <2>1, <2>3, TalksAre DEF Answers
<1>5. End(n, y, c, us, tp, os, as, ap)
  <2>1. as => ~ap /\ Unknown(n, y, c, us, tp)
    BY DEF Ends, End, Unknown
  <2>2. os /\ Says(us, "ANON_NEGOTIATE", 0)
    BY <1>1 DEF Ends, End
  <2>3. y.ch = c /\ y.st \in Counting =>
           n.lastSent = y.lastReceived + NumberedIn(tp)
    BY DEF Ends, End, Counting
  <2> QED BY <2>1, <2>2, <2>3, TalksAre DEF End
<1>6. End(y, n, c, tp, us, op, ap, as)
  <2>1. ~ap
    BY TalksAre DEF Ends, End, Unknown
  <2>2. (y.ch = c => op) /\ Says(tp, "ANON_NEGOTIATE", 0)
    BY DEF Ends, End
  <2>3. y.ch = c /\ y.st \in Counting =>
           y.lastSent = n.lastReceived + NumberedIn(us)
    BY <1>2 DEF Ends, End, Counting
  <2> QED BY <1>4, <2>1, <2>2, <2>3 DEF End
<1> QED BY <1>5, <1>6 DEF Ends, us

(* INIT_PRESENT is read: the anonymous end becomes that of a ComObj.       *)
LEMMA EndsJoin ==
    ASSUME NEW x \in ComObj, NEW y \in ComObj, NEW n \in ComObj, NEW c,
           NEW h, NEW k, NEW s, NEW p, h.to[s] \in Seq(FrameType),
           h.to[p] \in Seq(FrameType), Ends(x, y, c, h, s, p),
           k.to[s] = Tail(h.to[s]), k.to[p] = h.to[p], h.open[s] = TRUE,
           k.open = h.open, k.anonymous = h.anonymous \ {s}, s # p,
           s \in h.anonymous, h.to[s] # <<>>, Head(h.to[s]).t = "INIT_PRESENT",
           n.ch = c, n.st = Anon, n.lastReceived = 0,
           n.lastSent = Head(h.to[s]).ci.lastReceived
    PROVE Ends(n, y, c, k, s, p)
<1> DEFINE ts == h.to[s]
           tp == h.to[p]
           os == h.open[s]
           op == h.open[p]
           as == s \in h.anonymous
           ap == p \in h.anonymous
<1> DEFINE us == Tail(ts)
<1>1. /\ \A T : NoneOf(ts, T) => NoneOf(us, T)
      /\ \A t, i : Says(ts, t, i) => Says(us, t, i)
  BY WithinTail, WithinKeeps
<1>2. /\ Some(ts, "INIT_PRESENT")
      /\ \A i : Says(ts, "INIT_PRESENT", i) => n.lastSent = i
  BY HeadOf DEF Some, Says
<1> HIDE DEF us
<1>3. Unknown(x, y, c, ts, tp) /\ ~ap
  BY DEF Ends, End
<1>4. y.ch = c => y.st = "OPENING_WF_NEGOTIATE"
  <2>1. Presents(x, c, tp, ts) => ~Some(ts, "INIT_PRESENT")
    BY NoneOfLess DEF Presents, Handshake
  <2>2. ~(y.ch = c /\ y.st = "OPENING_WF_PRESENT")
    BY <1>2, <2>1 DEF Ends, End
  <2> QED BY <1>3, <2>2 DEF Unknown
<1>5. End(n, y, c, us, tp, TRUE, FALSE, ap)
  <2>1. Says(us, "ANON_NEGOTIATE", 0)
    BY <1>1 DEF Ends, End
  <2>2. y.ch = c => Answers(y, us)
    BY <1>4, TalksAre DEF Answers
  <2>3. y.ch = c => y.st \notin Counting
    BY <1>4, TalksAre DEF Counting
  <2> QED BY <2>1, <2>2, <2>3, TalksAre DEF End
<1>6. End(y, n, c, tp, us, op, ap, FALSE)
  <2>1. (y.ch = c => op) /\ Says(tp, "ANON_NEGOTIATE", 0)
    BY DEF Ends, End
  <2>2. ASSUME y.ch = c PROVE Negotiates(y, n, c, tp, us)
    <3>1. Negotiates(y, x, c, tp, ts)
      BY <1>4, <2>2 DEF Ends, End
    <3>2. n.lastSent = y.lastReceived
      BY <1>2, <3>1 DEF Negotiates
    <3> QED BY <1>1, <3>1, <3>2 DEF Negotiates
  <2> QED BY <1>3, <1>4, <2>1, <2>2, TalksAre DEF End, Counting
<1>7. /\ k.to[s] = us /\ k.open[s] /\ s \notin k.anonymous
      /\ p \in k.anonymous <=> ap
  BY DEF us
<1>8. /\ End(n, y, c, k.to[s], k.to[p], k.open[s],
             s \in k.anonymous, p \in k.anonymous)
      /\ End(y, n, c, k.to[p], k.to[s], k.open[p],
             p \in k.anonymous, s \in k.anonymous)
  BY <1>5, <1>6, <1>7 DEF End
<1> QED BY <1>8 DEF Ends

(* A channel is new: nobody else has it.                                   *)
LEMMA EndsNew ==
    ASSUME NEW y \in ComObj, NEW n \in ComObj, NEW c, y.ch # c,
           NEW f, f.t = "ANON_PRESENT",
           n.ch = c, n.st = "OPENING_WF_PRESENT", NEW k, NEW s, NEW p,
           k.to[s] = <<f>>, k.to[p] = <<>>, k.open[s] = TRUE,
           k.open[p] = TRUE, s \notin k.anonymous, p \in k.anonymous
    PROVE Ends(n, y, c, k, s, p)
<1>1. DOMAIN <<f>> = {1} /\ <<f>>[1] = f /\ DOMAIN <<>> = {}
  OBVIOUS
<1>2. /\ \A T : "ANON_PRESENT" \notin T => NoneOf(<<f>>, T)
      /\ \A T : NoneOf(<<>>, T)
      /\ \A i : Says(<<f>>, "ANON_NEGOTIATE", i)
      /\ \A i : Says(<<>>, "ANON_NEGOTIATE", i)
  BY <1>1 DEF NoneOf, Says
<1>3. NoneOf(<<f>>, {"ANON_NEGOTIATE"} \cup Numbered)
  BY <1>2 DEF Numbered
<1>4. Presents(y, c, <<f>>, <<>>)
  BY <1>2, <1>3 DEF Presents
<1>5. Unknown(y, n, c, <<>>, <<f>>)
  BY <1>2, <1>3 DEF Unknown
<1>6. End(n, y, c, <<f>>, <<>>, TRUE, FALSE, TRUE)
  BY <1>2, <1>4, TalksAre DEF End
<1>7. End(y, n, c, <<>>, <<f>>, TRUE, TRUE, FALSE)
  BY <1>2, <1>5 DEF End
<1>8. /\ End(n, y, c, k.to[s], k.to[p], k.open[s],
             s \in k.anonymous, p \in k.anonymous)
      /\ End(y, n, c, k.to[p], k.to[s], k.open[p],
             p \in k.anonymous, s \in k.anonymous)
  BY <1>6, <1>7 DEF End
<1> QED BY <1>8 DEF Ends

(* A ComObj that has its channel for itself.                               *)
LEMMA EndsAlone ==
    ASSUME NEW x, NEW y, NEW n, NEW c, NEW h, NEW s, NEW p,
           Ends(x, y, c, h, s, p), x.ch = c, y.ch # c,
           n.ch = x.ch, n.st = x.st, n.lastReceived = x.lastReceived
    PROVE Ends(n, y, c, h, s, p)
BY DEF Ends, End, Unknown, Presents, Negotiates

-----------------------------------------------------------------------------
(* What the operators on one ComObj keep.                                  *)

(* A step of a ComObj that is steady, or has no channel.                   *)
Mild(x, n) == Steady(x, n) \/ (x.ch = NoChannel /\ n.ch = NoChannel)

LEMMA ProperSame ==
    ASSUME NEW r, NEW n, n.q = r.q, n.unacked = r.unacked
    PROVE /\ Sorted(r) => Sorted(n)
          /\ n.st = r.st /\ n.ch = r.ch /\ n.lastReceived = r.lastReceived
                /\ (n.ackTimer => r.ackTimer) /\ Proper(r) => Proper(n)
<1>1. Sorted(r) => Sorted(n)
  BY DEF Sorted
<1>2. n.st = r.st /\ n.ch = r.ch /\ n.lastReceived = r.lastReceived
         /\ (n.ackTimer => r.ackTimer) /\ Staged(r) => Staged(n)
  BY DEF Staged
<1> QED BY <1>1, <1>2 DEF Proper

LEMMA SteadySame ==
    ASSUME NEW r, NEW n, n.st = r.st, n.ch = r.ch, n.q = r.q,
           n.lastSent = r.lastSent, n.lastReceived = r.lastReceived
    PROVE Steady(r, n)
BY DEF Steady

(* m_send appends the message to its queue and leaves the rest, except     *)
(* that a closed ComObj without channel starts to open.                    *)
LEMMA SendFields ==
    ASSUME NEW r \in ComObj, NEW m \in Message, NEW p \in Prio
    PROVE LET n == m_send(r, m, p) IN
          /\ n \in ComObj
          /\ n.q = [r.q EXCEPT ![p] = Append(@, m)]
          /\ n.unacked = r.unacked /\ n.lastSent = r.lastSent
          /\ n.lastReceived = r.lastReceived /\ n.ackTimer = r.ackTimer
          /\ n.ch = r.ch
          /\ n.st = r.st \/ /\ r.st = "CLOSED" /\ r.ch = NoChannel
                            /\ n.st = "OPENING_WF_HANDOVER"
<1> DEFINE o == IF r.st = "CLOSED" THEN m_open(r) ELSE r
           q == [r.q EXCEPT ![p] = Append(@, m)]
           w == [o EXCEPT !.q[p] = Append(@, m)]
           n == m_send(r, m, p)
<1>1. /\ o = [r EXCEPT !.st = o.st]
      /\ o.st = r.st \/ /\ r.st = "CLOSED" /\ r.ch = NoChannel
                        /\ o.st = "OPENING_WF_HANDOVER"
  BY DEF m_open, ComObj
<1>2. n \in {w, deliver(w)} /\ n \in ComObj
  BY SendWaits DEF m_send
<1> HIDE DEF o
<1>3. o.q = r.q
  BY <1>1 DEF ComObj
<1>4. w = [o EXCEPT !.q = q]
  BY <1>3
<1> HIDE DEF q
<1>5. w = [r EXCEPT !.st = o.st, !.q = q]
  BY <1>1, <1>4 DEF ComObj
<1>6. \E b : n = [r EXCEPT !.st = o.st, !.q = q, !.writer = b]
  <2>1. w = [r EXCEPT !.st = o.st, !.q = q, !.writer = r.writer]
    BY <1>5 DEF ComObj
  <2>2. deliver(w) =
          [r EXCEPT !.st = o.st, !.q = q, !.writer = (Ready(w) # {})]
    <3> DEFINE b == (Ready(w) # {})
    <3>1. deliver(w) = [w EXCEPT !.writer = b]
      BY DEF deliver
    <3> HIDE DEF b, w
    <3> QED BY <1>5, <3>1 DEF ComObj, b
  <2> HIDE DEF w
  <2> QED BY <1>2, <2>1, <2>2
<1>7. PICK b : n = [r EXCEPT !.st = o.st, !.q = q, !.writer = b]
  BY <1>6
<1> HIDE DEF n, w
<1>8. /\ n.q = q /\ n.unacked = r.unacked /\ n.lastSent = r.lastSent
      /\ n.lastReceived = r.lastReceived /\ n.ackTimer = r.ackTimer
      /\ n.ch = r.ch /\ n.st = o.st
  BY <1>7 DEF ComObj
<1> QED BY <1>1, <1>2, <1>8 DEF n, q

(* What sending leaves as it is.                                           *)
LEMMA SendKeeps ==
    ASSUME NEW r \in ComObj, NEW m \in Message, NEW p \in Prio
    PROVE LET n == m_send(r, m, p) IN
          /\ n \in ComObj /\ n.ch = r.ch /\ n.lastSent = r.lastSent
          /\ n.lastReceived = r.lastReceived /\ n.ackTimer = r.ackTimer
          /\ r.st # "CLOSED" => n.st = r.st
<1> DEFINE n == m_send(r, m, p)
<1>1. /\ n \in ComObj /\ n.ch = r.ch /\ n.lastSent = r.lastSent
      /\ n.lastReceived = r.lastReceived /\ n.ackTimer = r.ackTimer
      /\ n.st = r.st \/ (r.st = "CLOSED" /\ n.st = "OPENING_WF_HANDOVER")
  BY SendFields, ZenonT(40)
<1> HIDE DEF n
<1>2. r.st # "CLOSED" => n.st = r.st
  BY <1>1
<1> QED BY <1>1, <1>2 DEF n

(* The queues stay sorted when a message is put into the right one.        *)
LEMMA SendSorted ==
    ASSUME NEW r \in ComObj, Sorted(r), NEW m \in Message, NEW p \in Prio,
           m.t \in Numbered <=> p # 4,
           m.t = "ANON_NEGOTIATE" => m.ci.lastReceived = 0
    PROVE LET n == m_send(r, m, p) IN
          /\ Sorted(n)
          /\ p # 4 => n.q[4] = r.q[4]
          /\ p = 4 => n.q[4] = Append(r.q[4], m)
          /\ \A t : Some(r.q[4], t) => Some(n.q[4], t)
<1> DEFINE n == m_send(r, m, p)
<1>1. /\ n.q = [r.q EXCEPT ![p] = Append(@, m)] /\ n.unacked = r.unacked
  BY SendFields
<1> HIDE DEF n
<1>2. r.q \in [Prio -> Seq(Message)] /\ 4 \in Prio
  BY DEF ComObj, Prio
<1>3. /\ n.q[p] = Append(r.q[p], m)
      /\ \A i \in Prio : i # p => n.q[i] = r.q[i]
      /\ r.q[4] \in Seq(Message) /\ r.q[p] \in Seq(Message)
  BY <1>1, <1>2
<1>4. ASSUME p = 4 PROVE /\ NoneOf(n.q[4], Numbered)
                         /\ Says(n.q[4], "ANON_NEGOTIATE", 0)
                         /\ \A t : Some(r.q[4], t) => Some(n.q[4], t)
  <2>1. n.q[4] = Append(r.q[4], m)
    BY <1>3, <1>4
  <2> QED BY <1>3, <1>4, <2>1, AppendKeeps DEF Sorted
<1>5. ASSUME p # 4 PROVE n.q[4] = r.q[4]
  BY <1>2, <1>3, <1>5
<1>6. ASSUME NEW i \in {0, 2, 3}, NEW j \in DOMAIN n.q[i]
      PROVE n.q[i][j].t \in Numbered
  <2>1. i \in Prio /\ i # 4
    BY DEF Prio
  <2>2. CASE i # p
    BY <1>3, <1>6, <2>1, <2>2 DEF Sorted
  <2>3. CASE i = p
    <3>1. j \in 1..(Len(r.q[p]) + 1) /\ Len(r.q[p]) \in Nat
             /\ DOMAIN r.q[p] = 1..Len(r.q[p])
      BY <1>3, <1>6, <2>3, AppendedIs
    <3>2. CASE j = Len(r.q[p]) + 1
      <4>1. n.q[i][j] = m
        BY <1>3, <2>3, <3>2, AppendedIs
      <4> QED BY <2>1, <2>3, <4>1
    <3>3. CASE j # Len(r.q[p]) + 1
      <4>1. j \in DOMAIN r.q[p] /\ j \in 1..Len(r.q[p])
        BY <3>1, <3>3
      <4>2. n.q[i][j] = r.q[p][j]
        BY <1>3, <2>3, <4>1, AppendedIs
      <4> QED BY <2>3, <4>1, <4>2 DEF Sorted
    <3> QED BY <3>2, <3>3
  <2> QED BY <2>2, <2>3
<1>7. NoneOf(n.q[4], Numbered) /\ Says(n.q[4], "ANON_NEGOTIATE", 0)
  BY <1>4, <1>5 DEF Sorted
<1>8. Sorted(n)
  BY <1>1, <1>6, <1>7 DEF Sorted
<1> QED BY <1>3, <1>4, <1>5, <1>8 DEF n

(* Sending what is not part of the handshake.                              *)
LEMMA SendProper ==
    ASSUME NEW r \in ComObj, Proper(r), NEW m \in Message, NEW p \in Prio,
           m.t \in Numbered <=> p # 4, m.t \notin Handshake
    PROVE LET n == m_send(r, m, p) IN
          /\ n \in ComObj /\ Proper(n) /\ Mild(r, n)
          /\ r.st # "CLOSED" => Steady(r, n) /\ n.st = r.st
          /\ n.lastSent = r.lastSent /\ n.lastReceived = r.lastReceived
<1> DEFINE n == m_send(r, m, p)
<1>1. /\ n \in ComObj
      /\ n.lastSent = r.lastSent
      /\ n.lastReceived = r.lastReceived /\ n.ackTimer = r.ackTimer
      /\ n.ch = r.ch
      /\ n.st = r.st \/ /\ r.st = "CLOSED" /\ r.ch = NoChannel
                        /\ n.st = "OPENING_WF_HANDOVER"
  BY SendFields, ZenonT(40)
<1>2. m.t # "ANON_NEGOTIATE" /\ m.t # "INIT_PRESENT" /\ m.t # "INIT_NEGOTIATE"
  BY DEF Handshake
<1>3. /\ Sorted(n)
      /\ p # 4 => n.q[4] = r.q[4]
      /\ p = 4 => n.q[4] = Append(r.q[4], m)
      /\ \A t : Some(r.q[4], t) => Some(n.q[4], t)
  BY <1>2, SendSorted DEF Proper
<1> HIDE DEF n
<1>4. /\ \A T : NoneOf(r.q[4], T) /\ m.t \notin T => NoneOf(n.q[4], T)
      /\ \A t, k : Says(r.q[4], t, k) /\ m.t # t => Says(n.q[4], t, k)
  <2>1. r.q[4] \in Seq(Message)
    BY DEF ComObj, Prio
  <2>2. CASE p = 4
    <3> DEFINE a == Append(r.q[4], m)
    <3>1. /\ \A T : NoneOf(r.q[4], T) /\ m.t \notin T => NoneOf(a, T)
          /\ \A t, k : Says(r.q[4], t, k) /\ (m.t = t => m.ci.lastReceived = k)
                          => Says(a, t, k)
      BY <2>1, AppendKeeps
    <3>2. n.q[4] = a
      BY <1>3, <2>2
    <3> HIDE DEF a
    <3> QED BY <3>1, <3>2
  <2>3. CASE p # 4
    BY <1>3, <2>3
  <2> QED BY <2>2, <2>3
<1>5. Staged(n)
  <2>1. n.ackTimer => n.st \in Talks
    BY <1>1, TalksAre DEF Proper, Staged
  <2>2. n.st \notin {"CLOSED", "OPENING_WF_HANDOVER"} => n.ch \in Channel
    BY <1>1 DEF Proper, Staged
  <2>3. n.st \in {"CLOSED", "OPENING_WF_HANDOVER", "OPENING_WF_PRESENT"} =>
           NoneOf(n.q[4], Handshake)
    BY <1>1, <1>4 DEF Proper, Staged
  <2>4. n.st = "OPENING_WF_NEGOTIATE" =>
          /\ NoneOf(n.q[4], {"INIT_NEGOTIATE", "ANON_NEGOTIATE"})
          /\ Says(n.q[4], "INIT_PRESENT", n.lastReceived)
    BY <1>1, <1>2, <1>4 DEF Proper, Staged
  <2>5. n.st = Anon =>
          /\ n.lastReceived = 0
          /\ NoneOf(n.q[4], {"INIT_NEGOTIATE", "INIT_PRESENT"})
    BY <1>1, <1>2, <1>4, TalksAre DEF Proper, Staged
  <2> QED BY <2>1, <2>2, <2>3, <2>4, <2>5 DEF Staged
<1>6. n.st = r.st => Steady(r, n)
  BY <1>1, <1>3 DEF Steady
<1> QED BY <1>1, <1>3, <1>5, <1>6 DEF Proper, Mild, n

LEMMA ControlIs ==
    ASSUME NEW t PROVE Control(t).t = t
BY DEF Control

LEMMA WithinEnd ==
    ASSUME NEW S, NEW q \in Seq(S), NEW k \in Nat
    PROVE Within(SubSeq(q, k + 1, Len(q)), q)
<1> DEFINE u == SubSeq(q, k + 1, Len(q))
<1>1. Len(q) \in Nat /\ DOMAIN q = 1..Len(q)
  BY LenProperties
<1>2. \A i \in (k + 1)..Len(q) : q[i] \in S
  BY <1>1, ElementOf
<1>3. CASE k + 1 <= Len(q)
  <2>1. /\ u \in Seq(S) /\ Len(u) = Len(q) - k
        /\ \A i \in 1..(Len(q) - k) : u[i] = q[k + i]
    <3>1. /\ u \in Seq(S)
          /\ Len(u) = IF k + 1 <= Len(q) THEN Len(q) - (k + 1) + 1 ELSE 0
          /\ \A i \in 1..(Len(q) - (k + 1) + 1) : u[i] = q[(k + 1) + i - 1]
      BY <1>1, <1>2, SubSeqProperties
    <3>2. Len(q) - (k + 1) + 1 = Len(q) - k
            /\ \A i \in Int : (k + 1) + i - 1 = k + i
      BY <1>1
    <3> QED BY <1>3, <3>1, <3>2
  <2>2. DOMAIN u = 1..(Len(q) - k)
    BY <2>1, LenProperties
  <2> HIDE DEF u
  <2>3. ASSUME NEW i \in DOMAIN u PROVE k + i \in DOMAIN q /\ u[i] = q[k + i]
    BY <1>1, <2>1, <2>2
  <2>4. Within(u, q)
    BY <2>3 DEF Within
  <2> QED BY <2>4 DEF u
<1>4. CASE ~(k + 1 <= Len(q))
  <2>1. u = <<>>
    BY <1>1, <1>4, SubSeqEmpty
  <2> QED BY <2>1, WithinSelf
<1> QED BY <1>3, <1>4

LEMMA UnackedWithin ==
    ASSUME NEW S, NEW list \in Seq(S), NEW num
    PROVE Within(Unacked(list, num), list)
<1> DEFINE D == {i \in DOMAIN list : list[i].num < num}
           k == Cardinality(D) + 1
<1>1. DOMAIN list = 1..Len(list) /\ Len(list) \in Nat
  BY LenProperties
<1>2. IsFiniteSet(1..Len(list))
  BY <1>1, FS_Interval
<1>3. Cardinality(D) \in Nat
  <2>1. D \subseteq 1..Len(list)
    BY <1>1
  <2> QED BY <1>2, <2>1, FS_Subset, FS_CardinalityType
<1>4. Unacked(list, num) = SubSeq(list, k + 1, Len(list))
  <2>1. Unacked(list, num) = SubSeq(list, Cardinality(D) + 2, Len(list))
    BY DEF Unacked
  <2> HIDE DEF D
  <2>2. Cardinality(D) + 2 = k + 1
    BY <1>3
  <2> QED BY <2>1, <2>2
<1>5. k \in Nat
  BY <1>3
<1> HIDE DEF k
<1> QED BY <1>4, <1>5, WithinEnd

LEMMA AckedProper ==
    ASSUME NEW r \in ComObj, Proper(r), NEW num
    PROVE LET n == msgAcked(r, num) IN
          /\ n \in ComObj /\ Proper(n) /\ Steady(r, n)
          /\ n.st = r.st /\ n.ackTimer = r.ackTimer /\ n.q = r.q
<1> DEFINE n == msgAcked(r, num)
           u == Unacked(r.unacked, num)
<1>1. Within(u, r.unacked) /\ u \in Seq([num : Nat, msg : Message])
  BY UnackedWithin, UnackedType DEF ComObj
<1>2. n = [r EXCEPT !.unacked = u]
  BY DEF msgAcked
<1> HIDE DEF u, n
<1>3. /\ n \in ComObj /\ n.st = r.st /\ n.ch = r.ch /\ n.q = r.q
      /\ n.lastReceived = r.lastReceived /\ n.lastSent = r.lastSent
      /\ n.ackTimer = r.ackTimer /\ n.unacked = u
  BY <1>1, <1>2 DEF ComObj
<1>4. \A j \in DOMAIN n.unacked : n.unacked[j].msg.t \in Numbered
  BY <1>1, <1>3 DEF Within, Proper, Sorted
<1>5. Sorted(n)
  BY <1>3, <1>4 DEF Proper, Sorted
<1>6. Staged(n)
  BY <1>3 DEF Proper, Staged
<1> QED BY <1>3, <1>5, <1>6, SteadySame DEF Proper, n

LEMMA AckExplicitProper ==
    ASSUME NEW r \in ComObj, Proper(r), r.st \in Talks
    PROVE LET n == sendAckExplicit(r) IN
          n \in ComObj /\ Proper(n) /\ Steady(r, n) /\ n.st = r.st
<1> DEFINE a == IF hasQueued(r) THEN r ELSE m_send(r, Control("ACK"), 4)
           n == sendAckExplicit(r)
<1>1. Control("ACK") \in Message /\ 4 \in Prio
  BY ControlType DEF Plain, Prio
<1>2. Control("ACK").t \notin Numbered /\ Control("ACK").t \notin Handshake
  BY ControlIs DEF Numbered, Handshake
<1>3. /\ a \in ComObj /\ Proper(a) /\ Steady(r, a) /\ a.st = r.st
  BY <1>1, <1>2, SendProper, SteadySame, TalksAre
<1>4. n = [a EXCEPT !.ackTimer = FALSE]
  BY DEF sendAckExplicit
<1> HIDE DEF a, n
<1>5. /\ n \in ComObj /\ n.st = a.st /\ n.ch = a.ch /\ n.q = a.q
      /\ n.lastReceived = a.lastReceived /\ n.lastSent = a.lastSent
      /\ n.ackTimer = FALSE /\ n.unacked = a.unacked
  BY <1>3, <1>4 DEF ComObj
<1>6. Proper(n)
  BY <1>3, <1>5, ProperSame
<1>7. Steady(r, n)
  BY <1>3, <1>5 DEF Steady
<1> QED BY <1>3, <1>5, <1>6, <1>7 DEF n

(* A ComObj with a channel starts to work.                                 *)
LEMMA WorkingProper ==
    ASSUME NEW r \in ComObj, Sorted(r), r.ch \in Channel
    PROVE LET n == working(r) IN
          /\ n \in ComObj /\ Proper(n)
          /\ n.st = "WORKING" /\ n.ch = r.ch /\ n.q[4] = r.q[4]
          /\ n.lastSent = r.lastSent /\ n.lastReceived = r.lastReceived
<1> DEFINE w == [r EXCEPT !.st = "WORKING"]
           p == m_send(w, Control("PING"), 0)
           n == working(r)
<1>1. /\ w \in ComObj /\ w.st = "WORKING" /\ w.ch = r.ch /\ w.q = r.q
      /\ w.lastReceived = r.lastReceived /\ w.lastSent = r.lastSent
      /\ w.unacked = r.unacked
  BY DEF ComObj, ComObjState
<1>2. n \in {w, p}
  BY DEF working
<1> HIDE DEF w
<1>3. Proper(w)
  <2>1. Sorted(w)
    BY <1>1, ProperSame
  <2>2. Staged(w)
    BY <1>1, TalksAre DEF Staged
  <2> QED BY <2>1, <2>2 DEF Proper
<1>4. Control("PING") \in Message /\ 0 \in Prio /\ 0 # 4
  BY ControlType DEF Plain, Prio
<1>5. Control("PING").t \in Numbered /\ Control("PING").t \notin Handshake
  BY ControlIs DEF Numbered, Handshake
<1>6. /\ p \in ComObj /\ Proper(p) /\ p.st = "WORKING" /\ p.ch = w.ch
      /\ p.lastSent = w.lastSent /\ p.lastReceived = w.lastReceived
  <2>1. p \in ComObj /\ Proper(p) /\ Steady(w, p) /\ p.st = w.st
    BY <1>1, <1>3, <1>4, <1>5, SendProper
  <2> HIDE DEF p
  <2> QED BY <1>1, <2>1 DEF Steady
<1>7. p.q[4] = w.q[4]
  <2>1. Control("PING").t # "ANON_NEGOTIATE"
    BY ControlIs
  <2> QED BY <1>1, <1>3, <1>4, <1>5, <2>1, SendSorted DEF Proper
<1> HIDE DEF p
<1> QED BY <1>1, <1>2, <1>3, <1>6, <1>7

LEMMA DeliverProper ==
    ASSUME NEW r \in ComObj, Proper(r)
    PROVE LET n == deliver(r) IN
          /\ n \in ComObj /\ Proper(n) /\ Steady(r, n) /\ n.st = r.st
          /\ n.q = r.q
<1> DEFINE n == deliver(r)
<1>1. n \in ComObj /\ n = [r EXCEPT !.writer = n.writer]
  BY DeliverWaits
<1> HIDE DEF n
<1>2. /\ n.st = r.st /\ n.ch = r.ch /\ n.q = r.q
      /\ n.lastReceived = r.lastReceived /\ n.lastSent = r.lastSent
      /\ n.ackTimer = r.ackTimer /\ n.unacked = r.unacked
  BY <1>1 DEF ComObj
<1> QED BY <1>1, <1>2, ProperSame, SteadySame DEF n

LEMMA ClosingProper ==
    ASSUME NEW r \in ComObj, Proper(r), r.st = "WORKING"
    PROVE LET n == m_WORKING_2_CLOSING_WEAK(r) IN
          n \in ComObj /\ Proper(n) /\ Steady(r, n)
<1> DEFINE c == clearTimers(r)
           w == m_send(c, Control("CLOSE_WEAK"), 4)
           n == m_WORKING_2_CLOSING_WEAK(r)
<1>1. c = [r EXCEPT !.ackTimer = FALSE]
  BY DEF clearTimers
<1> HIDE DEF c
<1>2. /\ c \in ComObj /\ c.st = r.st /\ c.ch = r.ch /\ c.q = r.q
      /\ c.lastReceived = r.lastReceived /\ c.lastSent = r.lastSent
      /\ c.ackTimer = FALSE /\ c.unacked = r.unacked
  BY <1>1 DEF ComObj
<1>3. Proper(c)
  BY <1>2, ProperSame
<1>4. Control("CLOSE_WEAK") \in Message /\ 4 \in Prio
  BY ControlType DEF Plain, Prio
<1>5. /\ Control("CLOSE_WEAK").t \notin Numbered
      /\ Control("CLOSE_WEAK").t \notin Handshake
  BY ControlIs DEF Numbered, Handshake
<1>6. w \in ComObj /\ Proper(w) /\ Steady(c, w) /\ w.st = "WORKING"
  BY <1>2, <1>3, <1>4, <1>5, SendProper
<1>7. n = [w EXCEPT !.st = "CLOSING_WEAK"]
  BY DEF m_WORKING_2_CLOSING_WEAK, c
<1> HIDE DEF w, n
<1>8. /\ n \in ComObj /\ n.st = "CLOSING_WEAK" /\ n.ch = w.ch /\ n.q = w.q
      /\ n.lastReceived = w.lastReceived /\ n.lastSent = w.lastSent
      /\ n.unacked = w.unacked
  BY <1>6, <1>7 DEF ComObj, ComObjState
<1>9. Sorted(n)
  BY <1>6, <1>8, ProperSame DEF Proper
<1>10. Staged(n)
  BY <1>6, <1>8, TalksAre DEF Proper, Staged
<1>11. Steady(r, n)
  BY <1>2, <1>6, <1>8, TalksAre DEF Steady
<1> QED BY <1>8, <1>9, <1>10, <1>11 DEF Proper, n

(* A ComObj without a channel has nothing of the handshake to write.       *)
Idle(n) == n.st \in {"CLOSED", "OPENING_WF_HANDOVER"} /\ n.ch \notin Channel

LEMMA CloseProper ==
    ASSUME NEW r \in ComObj, Sorted(r)
    PROVE LET n == m_close(r) IN
          /\ n \in ComObj /\ Proper(n) /\ Idle(n)
          /\ Proper(m_open(n)) /\ Idle(m_open(n))
<1> DEFINE q == [r.q EXCEPT ![4] = <<>>]
           n == m_close(r)
<1>1. /\ n \in ComObj /\ n.st = "CLOSED" /\ n.ch = NoChannel
  BY CloseType
<1>2. n.q = q /\ n.unacked = r.unacked /\ n.ackTimer = FALSE
  BY DEF m_close, ComObj
<1> HIDE DEF n
<1>3. n.q[4] = <<>> /\ \A i \in {0, 2, 3} : n.q[i] = r.q[i]
  BY <1>2 DEF ComObj, Prio
<1>4. \A T : NoneOf(n.q[4], T) /\ \A t, k : Says(n.q[4], t, k)
  BY <1>3 DEF NoneOf, Says
<1>5. Sorted(n)
  BY <1>2, <1>3, <1>4 DEF Sorted
<1>6. Staged(n)
  BY <1>1, <1>2, <1>4, TalksAre DEF Staged
<1>7. NoChannel \notin Channel
  BY SiteAssumption DEF NoChannel, Channel
<1> DEFINE o == m_open(n)
<1>8. o = [n EXCEPT !.st = "OPENING_WF_HANDOVER"]
  BY <1>1 DEF m_open
<1> HIDE DEF o
<1>9. /\ o.st = "OPENING_WF_HANDOVER" /\ o.ch = n.ch /\ o.q = n.q
      /\ o.unacked = n.unacked /\ o.ackTimer = n.ackTimer
  BY <1>1, <1>8 DEF ComObj
<1>10. Sorted(o)
  BY <1>5, <1>9, ProperSame
<1>11. Staged(o)
  BY <1>2, <1>4, <1>9, TalksAre DEF Staged
<1> QED BY <1>1, <1>5, <1>6, <1>7, <1>9, <1>10, <1>11 DEF Proper, Idle, n, o

LEMMA ClosedProper ==
    ASSUME NEW r \in ComObj, Sorted(r)
    PROVE LET n == m_CLOSING_WEAK_2_CLOSED(r) IN Proper(n) /\ Idle(n)
BY CloseProper DEF m_CLOSING_WEAK_2_CLOSED

LEMMA LostProper ==
    ASSUME NEW r \in ComObj, Settled(r), Proper(r), r.ch \in Channel
    PROVE LET n == connectionLost(r) IN Proper(n) /\ Idle(n)
<1> DEFINE n == connectionLost(r)
<1>0. Sorted(r)
  BY DEF Proper
<1>1. r.st \in ComObjState
  BY DEF ComObj
<1>2. r.st # "OPENING_WF_HANDOVER" /\ r.st # "ANONYMOUS_WF_PRESENT"
  BY SiteAssumption DEF Settled, Channel, NoChannel
<1>3. CASE r.st \in {"OPENING_WF_PRESENT", "OPENING_WF_NEGOTIATE", "WORKING"}
  <2>1. n = m_open(m_close(r))
    BY <1>3 DEF connectionLost
  <2> QED BY <1>0, <2>1, CloseProper
<1>4. CASE r.st = "ANONYMOUS_WF_NEGOTIATE"
  <2>1. n = m_close(r)
    BY <1>4 DEF connectionLost
  <2> QED BY <1>0, <2>1, CloseProper
<1>5. CASE r.st = "CLOSING_WEAK"
  <2>1. n = m_CLOSING_WEAK_2_CLOSED(r)
    BY <1>5 DEF connectionLost
  <2> QED BY <1>0, <2>1, ClosedProper
<1>6. CASE r.st = "CLOSED"
  <2> DEFINE lost == [r EXCEPT !.ch = LostChannel, !.writer = FALSE]
  <2>1. n = IF QueuesNeed(r) THEN m_open(lost) ELSE lost
    BY <1>6 DEF connectionLost
  <2>2. /\ lost.st = "CLOSED" /\ lost.ch = LostChannel /\ lost.q = r.q
        /\ lost.unacked = r.unacked /\ lost.ackTimer = r.ackTimer
    BY <1>6 DEF ComObj
  <2> HIDE DEF lost
  <2>3. m_open(lost) = lost
    BY <2>2 DEF m_open, LostChannel, NoChannel
  <2>4. Sorted(lost)
    BY <1>0, <2>2, ProperSame
  <2>5. Staged(lost)
    BY <1>6, <2>2, TalksAre DEF Proper, Staged
  <2>6. LostChannel \notin Channel
    BY SiteAssumption DEF LostChannel, Channel
  <2> QED BY <2>1, <2>2, <2>3, <2>4, <2>5, <2>6 DEF Proper, Idle
<1> QED BY <1>1, <1>2, <1>3, <1>4, <1>5, <1>6 DEF ComObjState

(* The collector only asks for a close.                                    *)
LEMMA ReleasedProper ==
    ASSUME NEW r \in ComObj, Proper(r)
    PROVE LET n == Released(r) IN n \in ComObj /\ Proper(n) /\ Mild(r, n)
<1> DEFINE x == m_send(r, Control("CLEAR_REFERENCE"), 4)
           clear == [x EXCEPT !.sentClearRef = TRUE]
           mayAsk == ~r.sentClearRef /\ r.st = "WORKING"
           asked == IF r.localRef /\ mayAsk
                    THEN [clear EXCEPT !.localRef = FALSE] ELSE r
           closing == m_WORKING_2_CLOSING_WEAK(asked)
<1>1. Released(r) = r \/ (r.st = "WORKING" /\ Released(r) \in {clear, closing})
  BY DEF Released
<1>2. Mild(r, r)
  BY SteadySame DEF Mild
<1>3. ASSUME r.st = "WORKING"
      PROVE /\ clear \in ComObj /\ Proper(clear) /\ Steady(r, clear)
            /\ closing \in ComObj /\ Proper(closing) /\ Steady(r, closing)
  <2>1. Control("CLEAR_REFERENCE") \in Message /\ 4 \in Prio
    BY ControlType DEF Plain, Prio
  <2>2. /\ Control("CLEAR_REFERENCE").t \notin Numbered
        /\ Control("CLEAR_REFERENCE").t \notin Handshake
    BY ControlIs DEF Numbered, Handshake
  <2>3. x \in ComObj /\ Proper(x) /\ Steady(r, x) /\ x.st = "WORKING"
    BY <1>3, <2>1, <2>2, SendProper
  <2> HIDE DEF x
  <2>4. /\ clear \in ComObj /\ clear.st = x.st /\ clear.ch = x.ch
        /\ clear.q = x.q /\ clear.lastReceived = x.lastReceived
        /\ clear.lastSent = x.lastSent /\ clear.ackTimer = x.ackTimer
        /\ clear.unacked = x.unacked
    BY <2>3 DEF ComObj
  <2>5. Proper(clear) /\ Steady(r, clear)
    BY <2>3, <2>4, ProperSame DEF Steady
  <2> HIDE DEF clear
  <2>6. /\ asked \in ComObj /\ Proper(asked) /\ Steady(r, asked)
        /\ asked.st = "WORKING"
    <3> DEFINE a == [clear EXCEPT !.localRef = FALSE]
    <3>1. /\ a \in ComObj /\ a.st = clear.st /\ a.ch = clear.ch
          /\ a.q = clear.q /\ a.lastReceived = clear.lastReceived
          /\ a.lastSent = clear.lastSent /\ a.ackTimer = clear.ackTimer
          /\ a.unacked = clear.unacked
      BY <2>4 DEF ComObj
    <3>2. asked \in {a, r}
      OBVIOUS
    <3> HIDE DEF a, asked
    <3>3. Proper(a) /\ Steady(r, a)
      BY <2>5, <3>1, ProperSame DEF Steady
    <3> QED BY <1>3, <2>3, <2>4, <3>1, <3>2, <3>3, SteadySame
  <2> HIDE DEF asked
  <2>7. closing \in ComObj /\ Proper(closing) /\ Steady(asked, closing)
    BY <2>6, ClosingProper
  <2> HIDE DEF closing
  <2>8. Steady(r, closing)
    BY <1>3, <2>6, <2>7, TalksAre DEF Steady
  <2> QED BY <2>4, <2>5, <2>7, <2>8
<1> HIDE DEF clear, closing
<1> QED BY <1>1, <1>2, <1>3 DEF Mild

(* extractCI sends again what counts.                                      *)
LEMMA ExtractSorted ==
    ASSUME NEW r \in ComObj, Sorted(r), NEW ci \in ConnectionInfo
    PROVE LET n == extractCI(r, ci) IN
          /\ n \in ComObj /\ Sorted(n)
          /\ n.st = r.st /\ n.ch = r.ch /\ n.q[4] = r.q[4]
          /\ n.lastSent = ci.lastReceived /\ n.lastReceived = r.lastReceived
          /\ n.ackTimer = r.ackTimer
<1> DEFINE left == Unacked(r.unacked, ci.lastReceived)
           msgs == [i \in DOMAIN left |-> left[i].msg]
           q3 == r.q[3] \o msgs
           q == [r.q EXCEPT ![3] = q3]
           n == extractCI(r, ci)
<1>1. /\ left \in Seq([num : Nat, msg : Message])
      /\ Within(left, r.unacked)
  BY UnackedType, UnackedWithin DEF ComObj
<1>2. msgs \in Seq(Message)
  BY <1>1, MessagesOf
<1>3. \A j \in DOMAIN msgs : msgs[j].t \in Numbered
  <2>1. ASSUME NEW j \in DOMAIN left PROVE left[j].msg.t \in Numbered
    BY <1>1, <2>1 DEF Within, Sorted
  <2> QED BY <2>1
<1>4. n = [r EXCEPT !.remoteRef = ci.need, !.q[3] = q3,
                    !.unacked = <<>>, !.lastSent = ci.lastReceived]
  BY DEF extractCI
<1> HIDE DEF left, msgs
<1>5. r.q \in [Prio -> Seq(Message)] /\ r.q[3] \in Seq(Message)
  BY DEF ComObj, Prio
<1>6. \A j \in DOMAIN q3 : q3[j].t \in Numbered
  <2> DEFINE a == r.q[3]
  <2>1. /\ a \in Seq(Message) /\ \A j \in DOMAIN a : a[j].t \in Numbered
    BY <1>5 DEF Sorted
  <2> HIDE DEF a
  <2>2. /\ Len(a) \in Nat /\ Len(msgs) \in Nat /\ DOMAIN a = 1..Len(a)
        /\ DOMAIN msgs = 1..Len(msgs)
        /\ DOMAIN (a \o msgs) = 1..(Len(a) + Len(msgs))
        /\ \A j \in 1..(Len(a) + Len(msgs)) :
              (a \o msgs)[j] = IF j <= Len(a) THEN a[j] ELSE msgs[j - Len(a)]
    BY <1>2, <2>1, ConcatProperties, LenProperties
  <2>3. ASSUME NEW j \in 1..(Len(a) + Len(msgs))
        PROVE (a \o msgs)[j].t \in Numbered
    <3>1. CASE j <= Len(a)
      BY <2>1, <2>2, <3>1
    <3>2. CASE ~(j <= Len(a))
      <4>1. j - Len(a) \in 1..Len(msgs)
        BY <2>2, <3>2
      <4> QED BY <1>3, <2>2, <3>2, <4>1
    <3> QED BY <3>1, <3>2
  <2> QED BY <2>2, <2>3 DEF a
<1>7. n = [r EXCEPT !.remoteRef = ci.need, !.q = q,
                    !.unacked = <<>>, !.lastSent = ci.lastReceived]
  BY <1>4 DEF ComObj
<1> HIDE DEF q3
<1>8. q[3] = q3 /\ \A i \in {0, 2, 4} : q[i] = r.q[i]
  BY <1>5 DEF Prio
<1> HIDE DEF q
<1>9. n \in ComObj
  BY ExtractType
<1> HIDE DEF n
<1>10. /\ n.q = q /\ n.unacked = <<>> /\ n.lastSent = ci.lastReceived
       /\ n.st = r.st /\ n.ch = r.ch /\ n.lastReceived = r.lastReceived
       /\ n.ackTimer = r.ackTimer
  BY <1>7 DEF ComObj
<1>11. Sorted(n)
  <2>1. n.q[4] = r.q[4]
    BY <1>8, <1>10
  <2>2. ASSUME NEW i \in {0, 2, 3}, NEW j \in DOMAIN n.q[i]
        PROVE n.q[i][j].t \in Numbered
    BY <1>6, <1>8, <1>10, <2>2 DEF Sorted
  <2>3. \A j \in DOMAIN n.unacked : n.unacked[j].msg.t \in Numbered
    BY <1>10
  <2> QED BY <2>1, <2>2, <2>3 DEF Sorted
<1> QED BY <1>8, <1>9, <1>10, <1>11 DEF n

LEMMA NewProper ==
    /\ NewComObj \in ComObj /\ Proper(NewComObj) /\ Idle(NewComObj)
    /\ NewComObj.lastReceived = 0 /\ NewComObj.ackTimer = FALSE
<1> DEFINE n == NewComObj
<1>1. n \in ComObj
  BY NewComObjType
<1>2. /\ n.st = "CLOSED" /\ n.ch = NoChannel /\ n.q = NoQueued
      /\ n.unacked = <<>> /\ n.lastReceived = 0 /\ n.ackTimer = FALSE
  BY DEF NewComObj
<1> HIDE DEF n
<1>3. \A i \in Prio : n.q[i] = <<>>
  BY <1>2 DEF NoQueued, Prio
<1>4. /\ \A T : NoneOf(n.q[4], T) /\ \A t, k : Says(n.q[4], t, k)
      /\ \A i \in {0, 2, 3} : n.q[i] = <<>>
  BY <1>3 DEF NoneOf, Says, Prio
<1>5. Sorted(n)
  BY <1>2, <1>4 DEF Sorted
<1>6. Staged(n)
  BY <1>2, <1>4, TalksAre DEF Staged
<1>7. NoChannel \notin Channel
  BY SiteAssumption DEF NoChannel, Channel
<1> QED BY <1>1, <1>2, <1>5, <1>6, <1>7 DEF Proper, Idle, n

-----------------------------------------------------------------------------
(* The invariant.                                                          *)

(* Channel c as the site s sees it.                                        *)
View(s, c) == Ends(conn[s], conn[Peer(s)], c, chan[c], s, Peer(s))

(* x works on channel c, or will when it reads what is on its way to it.   *)
EngagedOn(x, c, ts) ==
    /\ x.ch = c
    /\ \/ x.st \in Talks
       \/ x.st = Anon /\ Some(ts, "INIT_NEGOTIATE")
       \/ x.st = "OPENING_WF_NEGOTIATE" /\ Some(ts, "ANON_NEGOTIATE")

Engaged(s, c) == EngagedOn(conn[s], c, chan[c].to[s])

(* The ComObjs of the two sites are not engaged on different channels.     *)
Together ==
    \A s \in Site : \A c, d \in Channel :
        Engaged(s, c) /\ Engaged(Peer(s), d) => c = d

AgreeInv ==
    /\ \A s \in Site : Proper(conn[s])
    /\ \A s \in Site : \A c \in Channel : View(s, c)
    /\ Together

(* What a channel holds.                                                   *)
LEMMA ChannelOf ==
    ASSUME IInv, NEW c \in Channel, NEW s \in Site
    PROVE /\ chan[c].to[s] \in Seq(FrameType) /\ chan[c].open[s] \in BOOLEAN
          /\ chan[c] \in ChannelType
BY DEF IInv, TypeOK, ChannelType

LEMMA ViewOf ==
    ASSUME AgreeInv, NEW s \in Site
    PROVE /\ Proper(conn[s]) /\ Proper(conn[Peer(s)])
          /\ \A c \in Channel : View(s, c)
BY PeerIsSite DEF AgreeInv

(* The channel looks the same from the other end.                          *)
LEMMA OtherView ==
    ASSUME NEW s \in Site, NEW c, View(s, c)
    PROVE View(Peer(s), c)
BY PeerOfPeer DEF View, Ends

(* A step of s: what it must keep.                                         *)
LEMMA AgreeStep ==
    ASSUME AgreeInv, NEW s \in Site,
           conn'[Peer(s)] = conn[Peer(s)], Proper(conn'[s]),
           \A c \in Channel : View(s, c)',
           \A c \in Channel : Engaged(s, c)' => Engaged(s, c),
           \A c \in Channel :
              Engaged(Peer(s), c)' => Engaged(Peer(s), c) \/ conn'[s].ch = c
    PROVE AgreeInv'
<1> DEFINE p == Peer(s)
<1>1. p \in Site /\ Peer(p) = s /\ \A x \in Site : x = s \/ x = p
  BY PeerIsSite, PeerOfPeer
<1>2. \A x \in Site : Proper(conn'[x])
  BY <1>1, ViewOf
<1>3. \A c \in Channel : View(p, c)'
  <2>1. ASSUME NEW c \in Channel PROVE View(p, c)'
    <3>1. View(s, c)'
      OBVIOUS
    <3> QED BY <1>1, <3>1 DEF View, Ends
  <2> QED BY <2>1
<1> HIDE DEF p
<1>4. \A x \in Site : \A c \in Channel : View(x, c)'
  <2>1. ASSUME NEW x \in Site, NEW c \in Channel PROVE View(x, c)'
    BY <1>1, <1>3
  <2> QED BY <2>1
<1>5. ASSUME NEW c \in Channel, NEW d \in Channel,
             Engaged(s, c)', Engaged(p, d)'
      PROVE c = d
  <2>1. Engaged(s, c)
    BY <1>5
  <2>2. conn'[s].ch = c
    BY <1>5 DEF Engaged, EngagedOn
  <2>3. Engaged(p, d) \/ conn'[s].ch = d
    BY <1>5 DEF p
  <2>4. Engaged(p, d) => c = d
    BY <2>1 DEF AgreeInv, Together, p
  <2> QED BY <2>2, <2>3, <2>4
<1>6. Together'
  <2> SUFFICES ASSUME NEW x \in Site, NEW c \in Channel, NEW d \in Channel,
                      Engaged(x, c)', Engaged(Peer(x), d)'
               PROVE c = d
    BY DEF Together
  <2>1. CASE x = s
    BY <1>5, <2>1 DEF p
  <2>2. CASE x = p
    BY <1>1, <1>5, <2>2
  <2> QED BY <1>1, <2>1, <2>2
<1> QED BY <1>2, <1>4, <1>6 DEF AgreeInv

(* Nothing comes to the channels in a step of s.                           *)
Fewer(cs, s) ==
    \A d \in Channel :
        /\ Within(cs[d].to[s], chan[d].to[s])
        /\ Within(cs[d].to[Peer(s)], chan[d].to[Peer(s)])
        /\ cs[d].open[Peer(s)] = chan[d].open[Peer(s)]
        /\ s \in cs[d].anonymous => s \in chan[d].anonymous
        /\ Peer(s) \in cs[d].anonymous <=> Peer(s) \in chan[d].anonymous

(* A channel that s has left, or has never had.                            *)
LEMMA AwayView ==
    ASSUME IInv, IInv', AgreeInv, NEW s \in Site, Fewer(chan', s),
           conn'[Peer(s)] = conn[Peer(s)],
           NEW c \in Channel, conn'[s].ch # c
    PROVE View(s, c)'
<1>1. Ends(conn[s], conn[Peer(s)], c, chan[c], s, Peer(s))
  BY ViewOf DEF View
<1>2. /\ Within(chan'[c].to[s], chan[c].to[s])
      /\ Within(chan'[c].to[Peer(s)], chan[c].to[Peer(s)])
      /\ chan'[c].open[Peer(s)] = chan[c].open[Peer(s)]
      /\ s \in chan'[c].anonymous => s \in chan[c].anonymous
      /\ Peer(s) \in chan'[c].anonymous <=> Peer(s) \in chan[c].anonymous
  BY DEF Fewer
<1>3. Ends(conn'[s], conn[Peer(s)], c, chan'[c], s, Peer(s))
  BY <1>1, <1>2, EndsAway
<1> QED BY <1>3 DEF View

(* What the other site is engaged on when nothing comes to it.             *)
LEMMA FewerEngaged ==
    ASSUME NEW s \in Site, Fewer(chan', s), conn'[Peer(s)] = conn[Peer(s)],
           NEW c \in Channel
    PROVE Engaged(Peer(s), c)' => Engaged(Peer(s), c)
<1>1. \A t : Some(chan'[c].to[Peer(s)], t) => Some(chan[c].to[Peer(s)], t)
  BY WithinKeeps DEF Fewer
<1> QED BY <1>1 DEF Engaged, EngagedOn

(* s leaves its channel.                                                   *)
LEMMA LeaveStep ==
    ASSUME IInv, IInv', AgreeInv, NEW s \in Site, NEW r \in ComObj,
           Proper(r), Idle(r), conn' = [conn EXCEPT ![s] = r],
           Fewer(chan', s)
    PROVE AgreeInv'
<1>1. conn'[s] = r /\ conn'[Peer(s)] = conn[Peer(s)]
  BY PeerIsSite DEF IInv, TypeOK
<1>2. \A c \in Channel : conn'[s].ch # c
  BY <1>1 DEF Idle
<1>3. \A c \in Channel : View(s, c)'
  BY <1>1, <1>2, AwayView
<1>4. \A c \in Channel : ~Engaged(s, c)'
  BY <1>2 DEF Engaged, EngagedOn
<1>5. \A c \in Channel : Engaged(Peer(s), c)' => Engaged(Peer(s), c)
  BY <1>1, FewerEngaged
<1> QED BY <1>1, <1>3, <1>4, <1>5, AgreeStep

(* s loses an end that is not its ComObj's.                                *)
LEMMA ForeignStep ==
    ASSUME IInv, IInv', AgreeInv, NEW s \in Site, conn' = conn,
           Fewer(chan', s), NEW c, conn[s].ch # c,
           \A d \in Channel : d # c => chan'[d] = chan[d]
    PROVE AgreeInv'
<1>1. \A d \in Channel : View(s, d)'
  <2>1. ASSUME NEW d \in Channel, conn'[s].ch # d PROVE View(s, d)'
    BY <2>1, AwayView
  <2>2. ASSUME NEW d \in Channel, conn'[s].ch = d PROVE View(s, d)'
    <3>1. chan'[d] = chan[d] /\ View(s, d)
      BY <2>2, ViewOf
    <3> QED BY <3>1 DEF View
  <2> QED BY <2>1, <2>2
<1>2. \A d \in Channel : Engaged(s, d)' => Engaged(s, d)
  BY DEF Engaged, EngagedOn
<1>3. \A d \in Channel : Engaged(Peer(s), d)' => Engaged(Peer(s), d)
  BY FewerEngaged
<1> QED BY <1>1, <1>2, <1>3, ViewOf, AgreeStep

(* s keeps its channel.                                                    *)
LEMMA MildStep ==
    ASSUME IInv, IInv', AgreeInv, NEW s \in Site, NEW r \in ComObj,
           Proper(r), Mild(conn[s], r), Become(s, r, chan)
    PROVE AgreeInv'
<1> DEFINE p == Peer(s)
<1>1. /\ conn'[s] = r /\ conn'[p] = conn[p] /\ p \in Site
  BY PeerIsSite DEF IInv, TypeOK, Become
<1>2. chan' = chan
  BY DEF Become, Mild, Steady
<1>3. ASSUME NEW c \in Channel, r.ch # c PROVE View(s, c)'
  <2>1. Fewer(chan', s)
    BY <1>2, WithinSelf DEF Fewer
  <2> QED BY <1>1, <1>3, <2>1, AwayView
<1>4. ASSUME NEW c \in Channel, r.ch = c PROVE Steady(conn[s], r)
  <2>1. NoChannel \notin Channel
    BY SiteAssumption DEF NoChannel, Channel
  <2> QED BY <1>4, <2>1 DEF Mild
<1>5. ASSUME NEW c \in Channel, r.ch = c PROVE View(s, c)'
  <2>1. Steady(conn[s], r) /\ conn[s].ch = c
    BY <1>4, <1>5 DEF Steady
  <2>2. Ends(conn[s], conn[p], c, chan[c], s, p)
    BY ViewOf DEF View
  <2>3. Ends(r, conn[p], c, chan[c], s, p)
    BY <2>1, <2>2, EndsSteady
  <2> QED BY <1>1, <1>2, <2>3 DEF View
<1>6. \A c \in Channel : View(s, c)'
  BY <1>3, <1>5
<1>7. ASSUME NEW c \in Channel, Engaged(s, c)' PROVE Engaged(s, c)
  <2>1. r.ch = c
    BY <1>1, <1>7 DEF Engaged, EngagedOn
  <2>2. Steady(conn[s], r)
    BY <1>4, <2>1
  <2> QED BY <1>1, <1>2, <1>7, <2>1, <2>2, TalksAre
          DEF Engaged, EngagedOn, Steady
<1>8. \A c \in Channel : Engaged(p, c)' => Engaged(p, c)
  BY <1>1, <1>2 DEF Engaged
<1> QED BY <1>1, <1>6, <1>7, <1>8, AgreeStep

-----------------------------------------------------------------------------
(* The channels after a step.                                              *)

LEMMA FewerSelf ==
    ASSUME NEW s \in Site PROVE Fewer(chan, s)
BY WithinSelf DEF Fewer

LEMMA FewerClose ==
    ASSUME NEW s \in Site, NEW cs \in Chans, Fewer(cs, s), NEW c
    PROVE Fewer(Close(cs, s, c), s)
<1> DEFINE ks == Close(cs, s, c)
           p == Peer(s)
<1>1. p \in Site /\ p # s
  BY PeerIsSite
<1>2. ASSUME NEW d \in Channel
      PROVE /\ Within(ks[d].to[s], chan[d].to[s])
            /\ Within(ks[d].to[p], chan[d].to[p])
            /\ ks[d].open[p] = chan[d].open[p]
            /\ s \in ks[d].anonymous => s \in chan[d].anonymous
            /\ p \in ks[d].anonymous <=> p \in chan[d].anonymous
  <2>1. /\ Within(cs[d].to[s], chan[d].to[s])
        /\ Within(cs[d].to[p], chan[d].to[p])
        /\ cs[d].open[p] = chan[d].open[p]
        /\ s \in cs[d].anonymous => s \in chan[d].anonymous
        /\ p \in cs[d].anonymous <=> p \in chan[d].anonymous
    BY DEF Fewer
  <2>2. CASE d # c
    <3>1. ks[d] = cs[d]
      BY <2>2 DEF Close, Chans
    <3> QED BY <2>1, <3>1
  <2>3. CASE d = c
    <3>1. /\ ks[d].to[s] = <<>> /\ ks[d].to[p] = cs[d].to[p]
          /\ ks[d].open[p] = cs[d].open[p]
          /\ ks[d].anonymous = cs[d].anonymous \ {s}
      BY <1>1, <2>3 DEF Close, Chans, ChannelType
    <3> QED BY <1>1, <2>1, <3>1, WithinSelf
  <2> QED BY <2>2, <2>3
<1> HIDE DEF ks
<1>3. Fewer(ks, s)
  BY <1>2 DEF Fewer
<1> QED BY <1>3 DEF ks

LEMMA FewerCut ==
    ASSUME IInv, NEW s \in Site, NEW c \in Channel,
           NEW k \in 0..Len(chan[c].to[Peer(s)])
    PROVE LET cs == [chan EXCEPT ![c].to[Peer(s)] = SubSeq(@, 1, k)]
          IN  cs \in Chans /\ Fewer(cs, s)
<1> DEFINE p == Peer(s)
           f == SubSeq(chan[c].to[p], 1, k)
           cs == [chan EXCEPT ![c].to[p] = f]
<1>1. p \in Site /\ p # s /\ chan \in Chans
  BY PeerIsSite, ComObjOf
<1>2. chan[c].to[p] \in Seq(FrameType)
  BY <1>1, ChannelOf
<1>3. Within(f, chan[c].to[p])
  BY <1>2, WithinCut
<1>4. f \in Seq(FrameType)
  <2>1. /\ Len(chan[c].to[p]) \in Nat
        /\ \A i \in 1..k : chan[c].to[p][i] \in FrameType
    BY <1>2, LenProperties, ElementOf
  <2> QED BY <1>2, <2>1, SubSeqProperties
<1>5. cs \in Chans
  BY <1>1, <1>4, FramesType
<1>6. /\ cs[c].to[p] = f /\ cs[c].to[s] = chan[c].to[s]
      /\ cs[c].open = chan[c].open /\ cs[c].anonymous = chan[c].anonymous
      /\ \A d \in Channel : d # c => cs[d] = chan[d]
  BY <1>1 DEF Chans, ChannelType
<1> HIDE DEF cs, f
<1>7. Fewer(cs, s)
  <2>1. ASSUME NEW d \in Channel
        PROVE /\ Within(cs[d].to[s], chan[d].to[s])
              /\ Within(cs[d].to[p], chan[d].to[p])
              /\ cs[d].open[p] = chan[d].open[p]
              /\ s \in cs[d].anonymous => s \in chan[d].anonymous
              /\ p \in cs[d].anonymous <=> p \in chan[d].anonymous
    <3>1. CASE d = c
      BY <1>3, <1>6, <3>1, WithinSelf
    <3>2. CASE d # c
      BY <1>6, <3>2, WithinSelf
    <3> QED BY <3>1, <3>2
  <2> QED BY <2>1 DEF Fewer
<1> QED BY <1>5, <1>7 DEF cs, f

(* Channel c when s has read a frame.                                      *)
LEMMA ConsumedIs ==
    ASSUME IInv, NEW s \in Site, NEW c \in Channel, chan[c].to[s] # <<>>
    PROVE LET k == Consumed(s, c)[c]
          IN  /\ k.to[s] = Tail(chan[c].to[s])
              /\ k.to[Peer(s)] = chan[c].to[Peer(s)]
              /\ k.open = chan[c].open /\ k.anonymous = chan[c].anonymous
              /\ Within(k.to[s], chan[c].to[s])
              /\ \A d \in Channel : d # c => Consumed(s, c)[d] = chan[d]
              /\ Consumed(s, c) \in Chans
<1>1. Peer(s) \in Site /\ Peer(s) # s /\ chan \in Chans
  BY PeerIsSite, ComObjOf
<1>2. chan[c].to[s] \in Seq(FrameType)
  BY ChannelOf
<1>3. Within(Tail(chan[c].to[s]), chan[c].to[s])
  BY <1>2, WithinTail
<1>4. /\ Consumed(s, c)[c].to[s] = Tail(chan[c].to[s])
      /\ Consumed(s, c)[c].to[Peer(s)] = chan[c].to[Peer(s)]
      /\ Consumed(s, c)[c].open = chan[c].open
      /\ Consumed(s, c)[c].anonymous = chan[c].anonymous
      /\ \A d \in Channel : d # c => Consumed(s, c)[d] = chan[d]
  BY <1>1 DEF Consumed, Chans, ChannelType
<1>5. Consumed(s, c) \in Chans
  <2>1. Tail(chan[c].to[s]) \in Seq(FrameType)
    BY <1>2, HeadTailProperties
  <2> QED BY <1>1, <2>1, FramesType DEF Consumed
<1> QED BY <1>3, <1>4, <1>5

LEMMA FewerConsumed ==
    ASSUME IInv, NEW s \in Site, NEW c \in Channel, chan[c].to[s] # <<>>
    PROVE Fewer(Consumed(s, c), s)
<1> DEFINE cs == Consumed(s, c)
           p == Peer(s)
<1>1. /\ cs[c].to[p] = chan[c].to[p]
      /\ cs[c].open = chan[c].open /\ cs[c].anonymous = chan[c].anonymous
      /\ Within(cs[c].to[s], chan[c].to[s])
      /\ \A d \in Channel : d # c => cs[d] = chan[d]
  BY ConsumedIs
<1> HIDE DEF cs
<1>2. ASSUME NEW d \in Channel
      PROVE /\ Within(cs[d].to[s], chan[d].to[s])
            /\ Within(cs[d].to[p], chan[d].to[p])
            /\ cs[d].open[p] = chan[d].open[p]
            /\ s \in cs[d].anonymous => s \in chan[d].anonymous
            /\ p \in cs[d].anonymous <=> p \in chan[d].anonymous
  <2>1. CASE d = c
    BY <1>1, <2>1, WithinSelf
  <2>2. CASE d # c
    BY <1>1, <2>2, WithinSelf
  <2> QED BY <2>1, <2>2
<1>3. Fewer(cs, s)
  BY <1>2 DEF Fewer
<1> QED BY <1>3 DEF cs

(* A channel that the step does not concern.                               *)
LEMMA AwaySame ==
    ASSUME AgreeInv, NEW s \in Site, conn'[Peer(s)] = conn[Peer(s)],
           NEW d \in Channel, chan'[d] = chan[d], conn'[s].ch # d
    PROVE View(s, d)'
<1>1. Ends(conn[s], conn[Peer(s)], d, chan[d], s, Peer(s))
  BY ViewOf DEF View
<1>2. Ends(conn'[s], conn[Peer(s)], d, chan[d], s, Peer(s))
  BY <1>1, EndsAway, WithinSelf
<1> QED BY <1>2 DEF View

-----------------------------------------------------------------------------
(* The steps that keep or leave the channel.                               *)

LEMMA QuietAgree ==
    ASSUME AgreeInv, conn' = conn, chan' = chan PROVE AgreeInv'
<1>1. \A s \in Site : Proper(conn'[s])
  BY DEF AgreeInv
<1>2. \A s \in Site : \A c \in Channel : View(s, c)'
  BY DEF AgreeInv, View
<1>3. Together'
  BY DEF AgreeInv, Together, Engaged
<1> QED BY <1>1, <1>2, <1>3 DEF AgreeInv

LEMMA m_sendMsgAgree ==
    ASSUME IInv, IInv', AgreeInv, NEW s \in Site, m_sendMsg(s)
    PROVE AgreeInv'
<1> DEFINE m == [t |-> "APP", id |-> sent[s] + 1]
           x == m_send(conn[s], m, 2)
           r == [x EXCEPT !.localRef = TRUE]
<1>1. Become(s, r, chan)
  BY DEF m_sendMsg
<1>2. m \in Message /\ m.t = "APP" /\ 2 \in Prio
  BY DEF IInv, TypeOK, Message, Prio
<1>3. conn[s] \in ComObj /\ Proper(conn[s])
  BY ComObjOf, ViewOf
<1>4. m.t \in Numbered /\ m.t \notin Handshake
  BY <1>2 DEF Numbered, Handshake
<1> HIDE DEF m
<1>5. x \in ComObj /\ Proper(x) /\ Mild(conn[s], x)
  BY <1>2, <1>3, <1>4, SendProper
<1> HIDE DEF x
<1>6. /\ r \in ComObj /\ r.q = x.q /\ r.unacked = x.unacked
      /\ r.st = x.st /\ r.ch = x.ch /\ r.lastReceived = x.lastReceived
      /\ r.ackTimer = x.ackTimer /\ r.lastSent = x.lastSent
  BY <1>5 DEF ComObj
<1> HIDE DEF r
<1>7. Proper(r)
  BY <1>5, <1>6, ProperSame
<1>8. Mild(conn[s], r)
  BY <1>5, <1>6 DEF Mild, Steady
<1> QED BY <1>1, <1>6, <1>7, <1>8, MildStep

LEMMA sendProbePingAgree ==
    ASSUME IInv, IInv', AgreeInv, NEW s \in Site, sendProbePing(s)
    PROVE AgreeInv'
<1> DEFINE m == Control("PING")
           r == m_send(conn[s], m, 0)
<1>1. Become(s, r, chan)
  BY DEF sendProbePing
<1>2. m \in Message /\ m.t = "PING" /\ 0 \in Prio
  BY ControlType, ControlIs DEF Plain, Prio
<1>3. conn[s] \in ComObj /\ Proper(conn[s])
  BY ComObjOf, ViewOf
<1>4. m.t \in Numbered /\ m.t \notin Handshake
  BY <1>2 DEF Numbered, Handshake
<1> HIDE DEF m
<1>5. r \in ComObj /\ Proper(r) /\ Mild(conn[s], r)
  BY <1>2, <1>3, <1>4, SendProper
<1> HIDE DEF r
<1> QED BY <1>1, <1>5, MildStep

LEMMA sendAckTimerAgree ==
    ASSUME IInv, IInv', AgreeInv, NEW s \in Site, sendAckTimer(s)
    PROVE AgreeInv'
<1> DEFINE r == sendAckExplicit(conn[s])
<1>1. Become(s, r, chan) /\ conn[s].ackTimer
  BY DEF sendAckTimer
<1>2. conn[s] \in ComObj /\ Proper(conn[s])
  BY ComObjOf, ViewOf
<1>3. conn[s].st \in Talks
  BY <1>1, <1>2 DEF Proper, Staged
<1>4. r \in ComObj /\ Proper(r) /\ Steady(conn[s], r)
  BY <1>2, <1>3, AckExplicitProper
<1> HIDE DEF r
<1> QED BY <1>1, <1>4, MildStep DEF Mild

LEMMA gcSiteTableAgree ==
    ASSUME IInv, IInv', AgreeInv, NEW s \in Site, gcSiteTable(s)
    PROVE AgreeInv'
<1>1. CASE conn' = [conn EXCEPT ![s] = NewComObj] /\ chan' = chan
  BY <1>1, NewProper, FewerSelf, LeaveStep
<1>2. CASE Become(s, Released(conn[s]), chan)
  <2> DEFINE r == Released(conn[s])
  <2>1. r \in ComObj /\ Proper(r) /\ Mild(conn[s], r)
    BY ComObjOf, ViewOf, ReleasedProper
  <2>2. Become(s, r, chan)
    BY <1>2
  <2> HIDE DEF r
  <2> QED BY <2>1, <2>2, MildStep
<1> QED BY <1>1, <1>2 DEF gcSiteTable

(* The end of s of channel c is lost.                                      *)
LEMMA LostAgree ==
    ASSUME IInv, IInv', AgreeInv, NEW s \in Site, NEW c \in Channel,
           NEW cs \in Chans, Fewer(cs, s),
           \A d \in Channel : d # c => cs[d] = chan[d], Lost(s, c, cs)
    PROVE AgreeInv'
<1>1. CASE conn[s].ch = c
  <2> DEFINE r == connectionLost(conn[s])
  <2>1. conn[s] \in ComObj /\ Settled(conn[s]) /\ Proper(conn[s])
    BY ComObjOf, ViewOf
  <2>2. r \in ComObj /\ Proper(r) /\ Idle(r)
    BY <1>1, <2>1, LostType, LostProper
  <2>3. Become(s, r, cs)
    BY <1>1 DEF Lost
  <2> HIDE DEF r
  <2>4. r.ch # conn[s].ch
    BY <1>1, <2>2 DEF Idle
  <2>5. conn' = [conn EXCEPT ![s] = r] /\ chan' = Close(cs, s, conn[s].ch)
    BY <2>3, <2>4 DEF Become
  <2>6. Fewer(chan', s)
    BY <2>5, FewerClose
  <2> QED BY <2>2, <2>5, <2>6, LeaveStep
<1>2. CASE conn[s].ch # c
  <2>1. conn' = conn /\ chan' = cs
    BY <1>2 DEF Lost
  <2> QED BY <1>2, <2>1, ForeignStep
<1> QED BY <1>1, <1>2

LEMMA CloseOther ==
    ASSUME NEW cs \in Chans, NEW s, NEW c
    PROVE \A d \in Channel : d # c => Close(cs, s, c)[d] = cs[d]
BY DEF Close, Chans

LEMMA EndOfFileAgree ==
    ASSUME IInv, IInv', AgreeInv, NEW s \in Site, NEW c \in Channel,
           EndOfFile(s, c)
    PROVE AgreeInv'
<1> DEFINE cs == Close(chan, s, c)
<1>1. chan \in Chans
  BY ComObjOf
<1>2. cs \in Chans /\ Fewer(cs, s)
  BY <1>1, CloseChannelType, FewerSelf, FewerClose
<1>3. \A d \in Channel : d # c => cs[d] = chan[d]
  BY <1>1, CloseOther
<1>4. Lost(s, c, cs)
  BY DEF EndOfFile
<1> HIDE DEF cs
<1> QED BY <1>2, <1>3, <1>4, LostAgree

LEMMA ChannelBreaksAgree ==
    ASSUME IInv, IInv', AgreeInv, NEW s \in Site, NEW c \in Channel,
           ChannelBreaks(s, c)
    PROVE AgreeInv'
<1>1. PICK k \in 0..Len(chan[c].to[Peer(s)]) :
         Lost(s, c, Close([chan EXCEPT ![c].to[Peer(s)] = SubSeq(@, 1, k)],
                          s, c))
  BY DEF ChannelBreaks
<1> DEFINE ks == [chan EXCEPT ![c].to[Peer(s)] = SubSeq(@, 1, k)]
           cs == Close(ks, s, c)
<1>2. ks \in Chans /\ Fewer(ks, s)
  BY FewerCut
<1>3. \A d \in Channel : d # c => ks[d] = chan[d]
  BY ComObjOf DEF Chans
<1>4. Lost(s, c, cs)
  BY <1>1
<1> HIDE DEF ks
<1>5. cs \in Chans /\ Fewer(cs, s)
  BY <1>2, CloseChannelType, FewerClose
<1>6. \A d \in Channel : d # c => cs[d] = chan[d]
  BY <1>2, <1>3, CloseOther
<1> HIDE DEF cs
<1> QED BY <1>4, <1>5, <1>6, LostAgree

-----------------------------------------------------------------------------
(* The steps that read a frame.                                            *)

(* The frame that arrives at a ComObj, and the channel before and after.   *)
LEMMA HandledChannel ==
    ASSUME IInv, AgreeInv, NEW s \in Site, NEW c \in Channel, NEW types,
           Arrives(s, c, types)
    PROVE /\ chan[c].to[s] \in Seq(FrameType) /\ chan[c].to[s] # <<>>
          /\ chan[c].to[Peer(s)] \in Seq(FrameType)
          /\ Head(chan[c].to[s]).t \in types
          /\ Ends(conn[s], conn[Peer(s)], c, chan[c], s, Peer(s))
          /\ conn[s] \in ComObj /\ conn[Peer(s)] \in ComObj
          /\ Proper(conn[s]) /\ Proper(conn[Peer(s)])
<1>1. Peer(s) \in Site
  BY PeerIsSite
<1>2. /\ chan[c].to[s] \in Seq(FrameType)
      /\ chan[c].to[Peer(s)] \in Seq(FrameType)
  BY <1>1, ChannelOf
<1>3. conn[s] \in ComObj /\ conn[Peer(s)] \in ComObj
  BY <1>1, ComObjOf
<1>4. Ends(conn[s], conn[Peer(s)], c, chan[c], s, Peer(s))
  BY ViewOf DEF View
<1> QED BY <1>2, <1>3, <1>4, ViewOf DEF Arrives

LEMMA HandledAgree ==
    ASSUME IInv, IInv', AgreeInv, NEW s \in Site, NEW c \in Channel,
           NEW types, Arrives(s, c, types),
           NEW r \in ComObj, r.ch = c, Proper(r), Handled(s, c, r),
           Ends(r, conn[Peer(s)], c, Consumed(s, c)[c], s, Peer(s)),
           EngagedOn(r, c, Tail(chan[c].to[s])) => Engaged(s, c)
    PROVE AgreeInv'
<1>1. chan[c].to[s] # <<>>
  BY DEF Arrives
<1>2. chan' = Consumed(s, c) /\ conn' = [conn EXCEPT ![s] = r]
  BY DEF Handled, Owns, Become
<1>3. conn'[s] = r /\ conn'[Peer(s)] = conn[Peer(s)]
  BY <1>2, PeerIsSite DEF IInv, TypeOK
<1>4. Fewer(chan', s)
  BY <1>1, <1>2, FewerConsumed
<1>5. ASSUME NEW d \in Channel PROVE View(s, d)'
  <2>1. CASE d = c
    BY <1>2, <1>3, <2>1 DEF View
  <2>2. CASE d # c
    BY <1>3, <1>4, <2>2, AwayView
  <2> QED BY <2>1, <2>2
<1>6. chan'[c].to[s] = Tail(chan[c].to[s])
  BY <1>1, <1>2, ConsumedIs
<1>7. ASSUME NEW d \in Channel, Engaged(s, d)' PROVE Engaged(s, d)
  <2>1. d = c
    BY <1>3, <1>7 DEF Engaged, EngagedOn
  <2>2. EngagedOn(r, c, Tail(chan[c].to[s]))
    BY <1>3, <1>6, <1>7, <2>1 DEF Engaged
  <2> QED BY <2>1, <2>2
<1>8. \A d \in Channel : Engaged(Peer(s), d)' => Engaged(Peer(s), d)
  BY <1>3, <1>4, FewerEngaged
<1> QED BY <1>3, <1>5, <1>7, <1>8, AgreeStep

(* A frame that is not of the handshake: m is the ComObj that has counted  *)
(* it, r what the handler makes of m.                                      *)
LEMMA ReadAgree ==
    ASSUME IInv, IInv', AgreeInv, NEW s \in Site, NEW c \in Channel,
           NEW types, Arrives(s, c, types), "INIT_NEGOTIATE" \notin types,
           NEW m \in ComObj, m.st = conn[s].st, m.ch = conn[s].ch,
           m.q = conn[s].q, m.lastSent = conn[s].lastSent,
           m.lastReceived = conn[s].lastReceived +
              (IF conn[s].st \in Talks /\ Frame(s, c).t \in Numbered
               THEN 1 ELSE 0),
           NEW r \in ComObj, Steady(m, r), Proper(r), Handled(s, c, r)
    PROVE AgreeInv'
<1> DEFINE k == Consumed(s, c)[c]
           ts == chan[c].to[s]
           p == Peer(s)
<1>1. /\ ts \in Seq(FrameType) /\ ts # <<>>
      /\ chan[c].to[p] \in Seq(FrameType)
      /\ Head(ts).t \in types
      /\ Ends(conn[s], conn[p], c, chan[c], s, p)
      /\ conn[s] \in ComObj /\ conn[p] \in ComObj
  BY HandledChannel
<1>2. conn[s].ch = c
  BY DEF Handled, Owns
<1>3. /\ k.to[s] = Tail(ts) /\ k.to[p] = chan[c].to[p]
      /\ k.open = chan[c].open /\ k.anonymous = chan[c].anonymous
      /\ Within(k.to[s], ts)
  BY <1>1, ConsumedIs
<1> HIDE DEF k, p
<1>4. Ends(m, conn[p], c, k, s, p)
  BY <1>1, <1>2, <1>3, EndsRead DEF Frame
<1>5. Ends(r, conn[p], c, k, s, p)
  BY <1>2, <1>4, EndsSteady
<1>6. \A t : Some(Tail(ts), t) => Some(ts, t)
  BY <1>3, WithinKeeps
<1>7. r.ch = c
  BY <1>2 DEF Steady
<1>8. EngagedOn(r, c, Tail(ts)) => Engaged(s, c)
  BY <1>2, <1>6, TalksAre DEF EngagedOn, Engaged, Steady
<1> QED BY <1>5, <1>7, <1>8, HandledAgree DEF k, p

LEMMA SteadySelf ==
    ASSUME NEW r PROVE Steady(r, r)
BY DEF Steady

(* The ComObj of s after the acknowledgement of a frame.                   *)
LEMMA AckedIs ==
    ASSUME IInv, AgreeInv, NEW s \in Site, NEW c \in Channel
    PROVE LET r == Acked(s, c) IN
          /\ r \in ComObj /\ Proper(r)
          /\ r.st = conn[s].st /\ r.ch = conn[s].ch /\ r.q = conn[s].q
          /\ r.lastSent = conn[s].lastSent
          /\ r.lastReceived = conn[s].lastReceived
          /\ r.lastReceived \in Nat
<1> DEFINE r == msgAcked(conn[s], Frame(s, c).ack)
<1>1. conn[s] \in ComObj /\ Proper(conn[s])
  BY ComObjOf, ViewOf
<1>2. /\ r \in ComObj /\ Proper(r) /\ Steady(conn[s], r)
      /\ r.st = conn[s].st /\ r.q = conn[s].q
  BY <1>1, AckedProper
<1> HIDE DEF r
<1>3. /\ r.ch = conn[s].ch /\ r.lastSent = conn[s].lastSent
      /\ r.lastReceived = conn[s].lastReceived /\ r.lastReceived \in Nat
  BY <1>2 DEF Steady, ComObj
<1> QED BY <1>2, <1>3 DEF Acked, r

LEMMA IncompleteFrameAgree ==
    ASSUME IInv, IInv', AgreeInv, NEW s \in Site, NEW c \in Channel,
           IncompleteFrame(s, c)
    PROVE AgreeInv'
<1> DEFINE r == Acked(s, c)
<1>1. Become(s, r, chan)
  BY DEF IncompleteFrame
<1>2. conn[s] \in ComObj /\ Proper(conn[s])
  BY ComObjOf, ViewOf
<1>3. r \in ComObj /\ Proper(r) /\ Steady(conn[s], r)
  BY <1>2, AckedProper DEF Acked
<1> HIDE DEF r
<1> QED BY <1>1, <1>3, MildStep DEF Mild

(* A frame that does not count.                                            *)
LEMMA ControlAgree ==
    ASSUME IInv, IInv', AgreeInv, NEW s \in Site, NEW c \in Channel,
           NEW t \in Plain \ {"PING", "INIT_NEGOTIATE"}, Arrives(s, c, {t}),
           NEW m \in ComObj, m.st = conn[s].st, m.ch = conn[s].ch,
           m.q = conn[s].q, m.lastSent = conn[s].lastSent,
           m.lastReceived = conn[s].lastReceived,
           NEW r \in ComObj, Steady(m, r), Proper(r), Handled(s, c, r)
    PROVE AgreeInv'
<1>1. Frame(s, c).t = t
  BY DEF Arrives, Frame
<1>2. t \notin Numbered /\ "INIT_NEGOTIATE" \notin {t}
  BY DEF Numbered, Plain
<1>3. m.lastReceived \in Nat
  BY DEF ComObj
<1>4. m.lastReceived = conn[s].lastReceived +
         (IF conn[s].st \in Talks /\ Frame(s, c).t \in Numbered
          THEN 1 ELSE 0)
  BY <1>1, <1>2, <1>3
<1> QED BY <1>2, <1>4, ReadAgree

LEMMA MessageReceivedAgree ==
    ASSUME IInv, IInv', AgreeInv, NEW s \in Site, NEW c \in Channel,
           MessageReceived(s, c)
    PROVE AgreeInv'
<1> DEFINE r == Acked(s, c)
           counted == [r EXCEPT !.lastReceived = r.lastReceived + 1,
                                !.remoteRef = TRUE]
           timed == [counted EXCEPT !.ackTimer = TRUE]
           types == {"APP", "PING"}
<1>1. /\ Arrives(s, c, types)
      /\ \/ ~Open(r) /\ Handled(s, c, r)
         \/ Open(r) /\ Handled(s, c, sendAckExplicit(counted))
         \/ Open(r) /\ Handled(s, c, timed)
  BY DEF MessageReceived
<1>2. /\ r \in ComObj /\ Proper(r)
      /\ r.st = conn[s].st /\ r.ch = conn[s].ch /\ r.q = conn[s].q
      /\ r.lastSent = conn[s].lastSent
      /\ r.lastReceived = conn[s].lastReceived /\ r.lastReceived \in Nat
  BY AckedIs
<1>3. Open(r) <=> conn[s].st \in Talks
  BY <1>2 DEF Open, Talks
<1>4. "INIT_NEGOTIATE" \notin types /\ Frame(s, c).t \in Numbered
  BY <1>1 DEF Arrives, Frame, Numbered
<1> HIDE DEF r, types
<1>5. /\ counted \in ComObj /\ counted.st = r.st /\ counted.ch = r.ch
      /\ counted.q = r.q /\ counted.unacked = r.unacked
      /\ counted.lastSent = r.lastSent /\ counted.ackTimer = r.ackTimer
      /\ counted.lastReceived = r.lastReceived + 1
  <2> DEFINE k == r.lastReceived + 1
  <2>1. k \in Nat /\ counted = [r EXCEPT !.lastReceived = k,
                                        !.remoteRef = TRUE]
    BY <1>2
  <2> HIDE DEF k
  <2>2. counted \in ComObj
    BY <1>2, <2>1 DEF ComObj
  <2>3. /\ counted.st = r.st /\ counted.ch = r.ch
        /\ counted.q = r.q /\ counted.unacked = r.unacked
        /\ counted.lastSent = r.lastSent /\ counted.ackTimer = r.ackTimer
        /\ counted.lastReceived = k
    BY <1>2, <2>1 DEF ComObj
  <2> QED BY <2>2, <2>3 DEF k
<1>6. CASE ~Open(r) /\ Handled(s, c, r)
  <2>1. r.lastReceived = conn[s].lastReceived +
           (IF conn[s].st \in Talks /\ Frame(s, c).t \in Numbered
            THEN 1 ELSE 0)
    BY <1>2, <1>3, <1>6
  <2> QED BY <1>1, <1>2, <1>4, <1>6, <2>1, SteadySelf, ReadAgree
<1>7. ASSUME Open(r), NEW n \in ComObj, Steady(counted, n), Proper(n),
             Handled(s, c, n)
      PROVE AgreeInv'
  <2> HIDE DEF counted
  <2>1. /\ counted \in ComObj /\ counted.st = r.st /\ counted.ch = r.ch
        /\ counted.q = r.q /\ counted.lastSent = r.lastSent
        /\ counted.lastReceived = r.lastReceived + 1
    BY <1>5
  <2>2. counted.lastReceived = conn[s].lastReceived +
           (IF conn[s].st \in Talks /\ Frame(s, c).t \in Numbered
            THEN 1 ELSE 0)
    BY <1>2, <1>3, <1>4, <1>7, <2>1
  <2> QED BY <1>1, <1>2, <1>4, <1>7, <2>1, <2>2, ReadAgree
<1>8. ASSUME Open(r)
      PROVE /\ counted \in ComObj /\ Proper(counted)
            /\ counted.st \in Talks /\ counted.st = r.st
  <2> HIDE DEF counted
  <2>1. /\ counted \in ComObj /\ counted.st = r.st /\ counted.ch = r.ch
        /\ counted.q = r.q /\ counted.unacked = r.unacked
        /\ counted.ackTimer = r.ackTimer
    BY <1>5
  <2>2. r.st \in Talks
    BY <1>2, <1>3, <1>8
  <2>3. Sorted(counted)
    BY <1>2, <2>1, ProperSame DEF Proper
  <2>4. Staged(counted)
    BY <1>2, <2>1, <2>2, TalksAre DEF Proper, Staged
  <2> QED BY <2>1, <2>2, <2>3, <2>4 DEF Proper
<1>9. CASE Open(r) /\ Handled(s, c, sendAckExplicit(counted))
  <2> DEFINE n == sendAckExplicit(counted)
  <2> HIDE DEF counted
  <2>1. n \in ComObj /\ Proper(n) /\ Steady(counted, n)
    BY <1>8, <1>9, AckExplicitProper
  <2> QED BY <1>7, <1>9, <2>1
<1>10. CASE Open(r) /\ Handled(s, c, timed)
  <2> HIDE DEF counted
  <2>1. /\ timed \in ComObj /\ timed.st = counted.st
        /\ timed.ch = counted.ch /\ timed.q = counted.q
        /\ timed.unacked = counted.unacked
        /\ timed.lastSent = counted.lastSent
        /\ timed.lastReceived = counted.lastReceived
    BY <1>8, <1>10 DEF ComObj
  <2> HIDE DEF timed
  <2>2. Sorted(timed)
    BY <1>8, <1>10, <2>1, ProperSame DEF Proper
  <2>3. Staged(timed)
    BY <1>8, <1>10, <2>1, TalksAre DEF Proper, Staged
  <2>4. Steady(counted, timed)
    BY <2>1, SteadySame
  <2> QED BY <1>7, <1>10, <2>1, <2>2, <2>3, <2>4 DEF Proper
<1> QED BY <1>1, <1>6, <1>9, <1>10

LEMMA AckReceivedAgree ==
    ASSUME IInv, IInv', AgreeInv, NEW s \in Site, NEW c \in Channel,
           AckReceived(s, c)
    PROVE AgreeInv'
<1> DEFINE r == Acked(s, c)
<1>1. Arrives(s, c, {"ACK"}) /\ Handled(s, c, r)
  BY DEF AckReceived
<1>2. /\ r \in ComObj /\ Proper(r)
      /\ r.st = conn[s].st /\ r.ch = conn[s].ch /\ r.q = conn[s].q
      /\ r.lastSent = conn[s].lastSent
      /\ r.lastReceived = conn[s].lastReceived
  BY AckedIs
<1>3. "ACK" \in Plain \ {"PING", "INIT_NEGOTIATE"}
  BY DEF Plain
<1> HIDE DEF r
<1> QED BY <1>1, <1>2, <1>3, SteadySelf, ControlAgree

LEMMA CloseAcceptAgree ==
    ASSUME IInv, IInv', AgreeInv, NEW s \in Site, NEW c \in Channel,
           CloseAccept(s, c)
    PROVE AgreeInv'
<1> DEFINE r == Acked(s, c)
           n == m_CLOSING_WEAK_2_CLOSED(r)
<1>1. /\ Arrives(s, c, {"CLOSE_ACCEPT"})
      /\ Handled(s, c, n) \/ Handled(s, c, r)
  BY DEF CloseAccept
<1>2. /\ r \in ComObj /\ Proper(r)
      /\ r.st = conn[s].st /\ r.ch = conn[s].ch /\ r.q = conn[s].q
      /\ r.lastSent = conn[s].lastSent
      /\ r.lastReceived = conn[s].lastReceived
  BY AckedIs
<1>3. "CLOSE_ACCEPT" \in Plain \ {"PING", "INIT_NEGOTIATE"}
  BY DEF Plain
<1> HIDE DEF r
<1>4. CASE Handled(s, c, r)
  BY <1>1, <1>2, <1>3, <1>4, SteadySelf, ControlAgree
<1>5. CASE Handled(s, c, n)
  <2>1. n \in ComObj /\ Proper(n) /\ Idle(n)
    BY <1>2, ClosedType, ClosedProper DEF Proper
  <2> HIDE DEF n
  <2>2. conn[s].ch = c /\ n.ch # c
    BY <1>5, <2>1 DEF Handled, Owns, Idle
  <2>3. /\ conn' = [conn EXCEPT ![s] = n]
        /\ chan' = Close(Consumed(s, c), s, c)
    BY <1>5, <2>2 DEF Handled, Become
  <2>4. chan[c].to[s] # <<>>
    BY <1>1 DEF Arrives
  <2>5. Consumed(s, c) \in Chans /\ Fewer(Consumed(s, c), s)
    BY <2>4, ConsumedIs, FewerConsumed
  <2>6. Fewer(chan', s)
    BY <2>3, <2>5, FewerClose
  <2> QED BY <2>1, <2>3, <2>6, LeaveStep
<1> QED BY <1>1, <1>4, <1>5

(* A ComObj whose references change.                                       *)
LEMMA ReferenceProper ==
    ASSUME NEW r \in ComObj, Proper(r), NEW b \in BOOLEAN
    PROVE LET n == [r EXCEPT !.remoteRef = b] IN
          /\ n \in ComObj /\ Proper(n)
          /\ n.st = r.st /\ n.ch = r.ch /\ n.q = r.q
          /\ n.lastSent = r.lastSent /\ n.lastReceived = r.lastReceived
<1> DEFINE n == [r EXCEPT !.remoteRef = b]
<1>1. /\ n \in ComObj /\ n.st = r.st /\ n.ch = r.ch /\ n.q = r.q
      /\ n.lastSent = r.lastSent /\ n.lastReceived = r.lastReceived
      /\ n.unacked = r.unacked /\ n.ackTimer = r.ackTimer
  BY DEF ComObj
<1> HIDE DEF n
<1>2. Proper(n)
  BY <1>1, ProperSame
<1> QED BY <1>1, <1>2 DEF n

(* A working ComObj answers CLOSE_WEAK.                                    *)
LEMMA AnsweredIs ==
    ASSUME NEW r \in ComObj, Proper(r), r.st = "WORKING",
           NEW t \in {"CLOSE_REJECT", "CLOSE_ACCEPT"}
    PROVE LET n == clearTimers(m_send(r, Control(t), 4)) IN
          /\ n \in ComObj /\ Sorted(n) /\ n.st = "WORKING" /\ n.ch = r.ch
          /\ n.lastSent = r.lastSent /\ n.lastReceived = r.lastReceived
          /\ n.q[4] = Append(r.q[4], Control(t)) /\ ~n.ackTimer
          /\ \A u : Some(r.q[4], u) => Some(n.q[4], u)
<1> DEFINE m == Control(t)
           x == m_send(r, m, 4)
           n == [x EXCEPT !.ackTimer = FALSE]
<1>1. m \in Message /\ m.t = t /\ 4 \in Prio
  BY ControlType, ControlIs DEF Plain, Prio
<1>2. m.t \notin Numbered /\ m.t # "ANON_NEGOTIATE" /\ m.t \notin Handshake
  BY <1>1 DEF Numbered, Handshake
<1> HIDE DEF m
<1>3. /\ x \in ComObj /\ x.ch = r.ch /\ x.lastSent = r.lastSent
      /\ x.lastReceived = r.lastReceived /\ x.st = "WORKING"
  <2>1. /\ x \in ComObj /\ x.ch = r.ch /\ x.lastSent = r.lastSent
        /\ x.lastReceived = r.lastReceived
        /\ r.st # "CLOSED" => x.st = r.st
    BY <1>1, SendKeeps, ZenonT(40)
  <2> HIDE DEF x
  <2> QED BY <2>1
<1>4. /\ Sorted(x) /\ x.q[4] = Append(r.q[4], m)
      /\ \A u : Some(r.q[4], u) => Some(x.q[4], u)
  BY <1>1, <1>2, SendSorted DEF Proper
<1> HIDE DEF x
<1>5. /\ n \in ComObj /\ n.st = x.st /\ n.ch = x.ch /\ n.q = x.q
      /\ n.lastSent = x.lastSent /\ n.lastReceived = x.lastReceived
      /\ n.unacked = x.unacked /\ ~n.ackTimer
  BY <1>3 DEF ComObj
<1> HIDE DEF n
<1>6. Sorted(n)
  BY <1>4, <1>5, ProperSame
<1>7. clearTimers(m_send(r, Control(t), 4)) = n
  BY DEF clearTimers, n, x, m
<1>8. /\ n \in ComObj /\ Sorted(n) /\ n.st = "WORKING" /\ n.ch = r.ch
      /\ n.lastSent = r.lastSent /\ n.lastReceived = r.lastReceived
      /\ n.q[4] = Append(r.q[4], Control(t)) /\ ~n.ackTimer
      /\ \A u : Some(r.q[4], u) => Some(n.q[4], u)
  BY <1>3, <1>4, <1>5, <1>6 DEF m
<1> QED BY <1>7, <1>8

LEMMA CloseWeakAgree ==
    ASSUME IInv, IInv', AgreeInv, NEW s \in Site, NEW c \in Channel,
           CloseWeak(s, c)
    PROVE AgreeInv'
<1> DEFINE a == Acked(s, c)
           r == [a EXCEPT !.remoteRef = FALSE]
           rejecting == clearTimers(m_send(r, Control("CLOSE_REJECT"), 4))
           accepting == clearTimers(m_send(r, Control("CLOSE_ACCEPT"), 4))
           closed == [accepting EXCEPT !.st = "CLOSED"]
<1>1. /\ Arrives(s, c, {"CLOSE_WEAK"})
      /\ \/ r.st # "WORKING" /\ Handled(s, c, r)
         \/ r.st = "WORKING" /\ Handled(s, c, working(rejecting))
         \/ r.st = "WORKING" /\ ~hasNeed(r) /\ Handled(s, c, closed)
  BY DEF CloseWeak
<1>2. /\ a \in ComObj /\ Proper(a)
      /\ a.st = conn[s].st /\ a.ch = conn[s].ch /\ a.q = conn[s].q
      /\ a.lastSent = conn[s].lastSent
      /\ a.lastReceived = conn[s].lastReceived
  BY AckedIs
<1>3. "CLOSE_WEAK" \in Plain \ {"PING", "INIT_NEGOTIATE"}
  BY DEF Plain
<1> HIDE DEF a
<1>4. /\ r \in ComObj /\ Proper(r)
      /\ r.st = a.st /\ r.ch = a.ch /\ r.q = a.q
      /\ r.lastSent = a.lastSent /\ r.lastReceived = a.lastReceived
  BY <1>2, ReferenceProper
<1> HIDE DEF r
<1>5. ASSUME NEW n \in ComObj, Steady(r, n), Proper(n), Handled(s, c, n)
      PROVE AgreeInv'
  BY <1>1, <1>2, <1>3, <1>4, <1>5, ControlAgree
<1>6. CASE r.st # "WORKING" /\ Handled(s, c, r)
  BY <1>4, <1>5, <1>6, SteadySelf
<1>7. CASE r.st = "WORKING" /\ Handled(s, c, working(rejecting))
  <2> DEFINE n == working(rejecting)
  <2>1. /\ rejecting \in ComObj /\ Sorted(rejecting)
        /\ rejecting.ch = r.ch /\ rejecting.lastSent = r.lastSent
        /\ rejecting.lastReceived = r.lastReceived
        /\ \A u : Some(r.q[4], u) => Some(rejecting.q[4], u)
    BY <1>4, <1>7, AnsweredIs
  <2>2. r.ch \in Channel
    BY <1>4, <1>7 DEF Proper, Staged
  <2> HIDE DEF rejecting
  <2>3. /\ n \in ComObj /\ Proper(n) /\ n.st = "WORKING"
        /\ n.ch = rejecting.ch /\ n.q[4] = rejecting.q[4]
        /\ n.lastSent = rejecting.lastSent
        /\ n.lastReceived = rejecting.lastReceived
    BY <2>1, <2>2, WorkingProper
  <2>4. Handled(s, c, n)
    BY <1>7
  <2> HIDE DEF n
  <2>5. Steady(r, n)
    BY <1>7, <2>1, <2>3 DEF Steady
  <2> QED BY <1>5, <2>3, <2>4, <2>5
<1>8. CASE r.st = "WORKING" /\ ~hasNeed(r) /\ Handled(s, c, closed)
  <2>1. /\ accepting \in ComObj /\ Sorted(accepting) /\ accepting.ch = r.ch
        /\ accepting.lastSent = r.lastSent
        /\ accepting.lastReceived = r.lastReceived /\ ~accepting.ackTimer
        /\ accepting.q[4] = Append(r.q[4], Control("CLOSE_ACCEPT"))
        /\ \A u : Some(r.q[4], u) => Some(accepting.q[4], u)
    BY <1>4, <1>8, AnsweredIs
  <2>2. r.q[4] = <<>>
    <3>1. ~hasQueued(r) /\ 4 \in Prio
      BY <1>8 DEF hasNeed, QueuesNeed, Prio
    <3> QED BY <1>4, <3>1, HasQueued
  <2> HIDE DEF accepting
  <2>3. /\ closed \in ComObj /\ closed.st = "CLOSED"
        /\ closed.ch = accepting.ch /\ closed.q = accepting.q
        /\ closed.unacked = accepting.unacked
        /\ closed.lastSent = accepting.lastSent
        /\ closed.lastReceived = accepting.lastReceived
        /\ closed.ackTimer = accepting.ackTimer
    BY <2>1 DEF ComObj, ComObjState
  <2> HIDE DEF closed
  <2>4. NoneOf(closed.q[4], Handshake)
    <3> DEFINE m == Control("CLOSE_ACCEPT")
               q == r.q[4]
    <3>1. m \in Message /\ m.t \notin Handshake
      BY ControlType, ControlIs DEF Plain, Handshake
    <3>2. q \in Seq(Message)
      BY <1>4 DEF ComObj, Prio
    <3>3. NoneOf(q, Handshake)
      BY <2>2 DEF NoneOf
    <3>4. closed.q[4] = Append(q, m)
      BY <2>1, <2>3
    <3> HIDE DEF m, q
    <3> QED BY <3>1, <3>2, <3>3, <3>4, AppendKeeps
  <2>5. Sorted(closed)
    BY <2>1, <2>3, ProperSame
  <2>6. Staged(closed)
    BY <2>1, <2>3, <2>4, TalksAre DEF Staged
  <2>7. Steady(r, closed)
    BY <1>8, <2>1, <2>3, TalksAre DEF Steady
  <2> QED BY <1>5, <1>8, <2>3, <2>5, <2>6, <2>7 DEF Proper
<1> QED BY <1>1, <1>6, <1>7, <1>8

LEMMA CloseRejectAgree ==
    ASSUME IInv, IInv', AgreeInv, NEW s \in Site, NEW c \in Channel,
           CloseReject(s, c)
    PROVE AgreeInv'
<1> DEFINE a == Acked(s, c)
           r == [a EXCEPT !.remoteRef = TRUE]
           back == working(r)
<1>1. /\ Arrives(s, c, {"CLOSE_REJECT"})
      /\ \/ Handled(s, c, a)
         \/ /\ a.st = "CLOSING_WEAK"
            /\ Handled(s, c, back) \/ Handled(s, c, deliver(back))
  BY DEF CloseReject
<1>2. /\ a \in ComObj /\ Proper(a)
      /\ a.st = conn[s].st /\ a.ch = conn[s].ch /\ a.q = conn[s].q
      /\ a.lastSent = conn[s].lastSent
      /\ a.lastReceived = conn[s].lastReceived
  BY AckedIs
<1>3. "CLOSE_REJECT" \in Plain \ {"PING", "INIT_NEGOTIATE"}
  BY DEF Plain
<1> HIDE DEF a
<1>4. /\ r \in ComObj /\ Proper(r)
      /\ r.st = a.st /\ r.ch = a.ch /\ r.q = a.q
      /\ r.lastSent = a.lastSent /\ r.lastReceived = a.lastReceived
  BY <1>2, ReferenceProper
<1> HIDE DEF r
<1>5. ASSUME NEW n \in ComObj, Steady(r, n), Proper(n), Handled(s, c, n)
      PROVE AgreeInv'
  BY <1>1, <1>2, <1>3, <1>4, <1>5, ControlAgree
<1>6. CASE Handled(s, c, a)
  BY <1>1, <1>2, <1>3, <1>6, SteadySelf, ControlAgree
<1>7. ASSUME a.st = "CLOSING_WEAK"
      PROVE back \in ComObj /\ Proper(back) /\ Steady(r, back)
  <2>1. r.ch \in Channel /\ Sorted(r)
    BY <1>4, <1>7 DEF Proper, Staged
  <2>2. /\ back \in ComObj /\ Proper(back) /\ back.st = "WORKING"
        /\ back.ch = r.ch /\ back.q[4] = r.q[4]
        /\ back.lastSent = r.lastSent
        /\ back.lastReceived = r.lastReceived
    BY <1>4, <2>1, WorkingProper
  <2> HIDE DEF back
  <2> QED BY <1>4, <1>7, <2>2, TalksAre DEF Steady
<1> HIDE DEF back
<1>8. CASE a.st = "CLOSING_WEAK" /\ Handled(s, c, back)
  BY <1>5, <1>7, <1>8
<1>9. CASE a.st = "CLOSING_WEAK" /\ Handled(s, c, deliver(back))
  <2> DEFINE n == deliver(back)
  <2>1. /\ n \in ComObj /\ Proper(n) /\ Steady(back, n) /\ n.st = back.st
    BY <1>7, <1>9, DeliverProper
  <2>2. Handled(s, c, n)
    BY <1>9
  <2> HIDE DEF n
  <2>3. Steady(r, n)
    BY <1>7, <1>9, <2>1 DEF Steady
  <2> QED BY <1>5, <2>1, <2>2, <2>3
<1> QED BY <1>1, <1>6, <1>8, <1>9

LEMMA ClearReferenceAgree ==
    ASSUME IInv, IInv', AgreeInv, NEW s \in Site, NEW c \in Channel,
           ClearReference(s, c)
    PROVE AgreeInv'
<1> DEFINE a == Acked(s, c)
           r == [a EXCEPT !.remoteRef = FALSE]
           closing == m_WORKING_2_CLOSING_WEAK(r)
<1>1. /\ Arrives(s, c, {"CLEAR_REFERENCE"})
      /\ \/ Handled(s, c, a)
         \/ Handled(s, c, r)
         \/ a.st = "WORKING" /\ Handled(s, c, closing)
  BY DEF ClearReference
<1>2. /\ a \in ComObj /\ Proper(a)
      /\ a.st = conn[s].st /\ a.ch = conn[s].ch /\ a.q = conn[s].q
      /\ a.lastSent = conn[s].lastSent
      /\ a.lastReceived = conn[s].lastReceived
  BY AckedIs
<1>3. "CLEAR_REFERENCE" \in Plain \ {"PING", "INIT_NEGOTIATE"}
  BY DEF Plain
<1> HIDE DEF a
<1>4. /\ r \in ComObj /\ Proper(r)
      /\ r.st = a.st /\ r.ch = a.ch /\ r.q = a.q
      /\ r.lastSent = a.lastSent /\ r.lastReceived = a.lastReceived
  BY <1>2, ReferenceProper
<1> HIDE DEF r
<1>5. ASSUME NEW n \in ComObj, Steady(r, n), Proper(n), Handled(s, c, n)
      PROVE AgreeInv'
  BY <1>1, <1>2, <1>3, <1>4, <1>5, ControlAgree
<1>6. CASE Handled(s, c, a)
  BY <1>1, <1>2, <1>3, <1>6, SteadySelf, ControlAgree
<1>7. CASE Handled(s, c, r)
  BY <1>4, <1>5, <1>7, SteadySelf
<1>8. CASE a.st = "WORKING" /\ Handled(s, c, closing)
  <2>1. closing \in ComObj /\ Proper(closing) /\ Steady(r, closing)
    BY <1>4, <1>8, ClosingProper
  <2> HIDE DEF closing
  <2> QED BY <1>5, <1>8, <2>1
<1> QED BY <1>1, <1>6, <1>7, <1>8

(* The handshake.                                                          *)

LEMMA AnonPresentAgree ==
    ASSUME IInv, IInv', AgreeInv, NEW s \in Site, NEW c \in Channel,
           AnonPresent(s, c)
    PROVE AgreeInv'
<1> DEFINE r == Acked(s, c)
           x == [r EXCEPT !.st = "OPENING_WF_NEGOTIATE"]
           m == [t |-> "INIT_PRESENT", ci |-> CI(x)]
           n == m_send(x, m, 4)
           ts == chan[c].to[s]
           p == Peer(s)
<1>1. /\ Arrives(s, c, {"ANON_PRESENT"}) /\ r.st = "OPENING_WF_PRESENT"
      /\ Handled(s, c, n)
  BY DEF AnonPresent
<1>2. /\ r \in ComObj /\ Proper(r)
      /\ r.st = conn[s].st /\ r.ch = conn[s].ch /\ r.q = conn[s].q
      /\ r.lastReceived = conn[s].lastReceived
  BY AckedIs
<1> HIDE DEF r
<1>3. /\ x \in ComObj /\ x.st = "OPENING_WF_NEGOTIATE" /\ x.ch = r.ch
      /\ x.q = r.q /\ x.unacked = r.unacked
      /\ x.lastReceived = r.lastReceived /\ x.ackTimer = r.ackTimer
      /\ x.lastReceived \in Nat /\ x.q[4] \in Seq(Message)
  BY <1>2 DEF ComObj, ComObjState, Prio
<1>4. Sorted(x)
  BY <1>2, <1>3, ProperSame DEF Proper
<1>5. /\ m \in Message /\ m.t = "INIT_PRESENT"
      /\ m.ci.lastReceived = x.lastReceived
  <2>1. CI(x) \in ConnectionInfo /\ CI(x).lastReceived = x.lastReceived
    <3>1. hasNeed(x) \in BOOLEAN
      BY <1>3 DEF hasNeed, QueuesNeed, hasQueued, ComObj
    <3> QED BY <1>3, <3>1 DEF CI, ConnectionInfo
  <2> HIDE DEF x
  <2> QED BY <2>1 DEF Message, Presenting
<1> HIDE DEF x, m
<1>6. /\ m.t \notin Numbered /\ m.t # "ANON_NEGOTIATE"
      /\ m.t \notin {"INIT_NEGOTIATE", "ANON_NEGOTIATE"} /\ 4 \in Prio
  BY <1>5 DEF Numbered, Prio
<1>7. /\ n \in ComObj /\ n.ch = x.ch /\ n.lastReceived = x.lastReceived
      /\ n.st = "OPENING_WF_NEGOTIATE" /\ n.ackTimer = x.ackTimer
  <2>1. /\ n \in ComObj /\ n.ch = x.ch /\ n.lastReceived = x.lastReceived
        /\ n.ackTimer = x.ackTimer
        /\ x.st # "CLOSED" => n.st = x.st
    BY <1>3, <1>5, <1>6, SendKeeps, ZenonT(40)
  <2> HIDE DEF n
  <2> QED BY <1>3, <2>1
<1>8. Sorted(n) /\ n.q[4] = Append(x.q[4], m)
  BY <1>3, <1>4, <1>5, <1>6, SendSorted
<1> HIDE DEF n
<1>9. /\ NoneOf(n.q[4], {"INIT_NEGOTIATE", "ANON_NEGOTIATE"})
      /\ Says(n.q[4], "INIT_PRESENT", n.lastReceived)
  <2>1. NoneOf(x.q[4], Handshake)
    BY <1>1, <1>2, <1>3 DEF Proper, Staged
  <2>2. /\ {"INIT_NEGOTIATE", "ANON_NEGOTIATE"} \subseteq Handshake
        /\ "INIT_PRESENT" \in Handshake
    BY DEF Handshake
  <2>3. /\ NoneOf(x.q[4], {"INIT_NEGOTIATE", "ANON_NEGOTIATE"})
        /\ Says(x.q[4], "INIT_PRESENT", n.lastReceived)
    BY <2>1, <2>2, NoneOfLess
  <2> QED BY <1>3, <1>5, <1>6, <1>7, <1>8, <2>3, AppendKeeps
<1>10. /\ ts \in Seq(FrameType) /\ ts # <<>>
       /\ chan[c].to[p] \in Seq(FrameType)
       /\ Ends(conn[s], conn[p], c, chan[c], s, p)
       /\ conn[s] \in ComObj /\ conn[p] \in ComObj
  BY <1>1, HandledChannel
<1>11. conn[s].ch = c /\ n.ch = c
  BY <1>1, <1>2, <1>3, <1>7 DEF Handled, Owns
<1>12. Proper(n)
  <2>1. ~n.ackTimer
    BY <1>1, <1>2, <1>3, <1>7, TalksAre DEF Proper, Staged
  <2>2. Staged(n)
    BY <1>7, <1>9, <1>11, <2>1, TalksAre DEF Staged
  <2> QED BY <1>8, <2>2 DEF Proper
<1> DEFINE k == Consumed(s, c)[c]
<1>13. /\ k.to[s] = Tail(ts) /\ k.to[p] = chan[c].to[p]
       /\ k.open = chan[c].open /\ k.anonymous = chan[c].anonymous
       /\ Within(k.to[s], ts)
  BY <1>10, ConsumedIs
<1> HIDE DEF k, p
<1>14. Ends(n, conn[p], c, k, s, p)
  BY <1>1, <1>2, <1>7, <1>10, <1>11, <1>13, EndsPresent
<1>15. ~EngagedOn(n, c, Tail(ts))
  <2>1. NoneOf(ts, {"ANON_NEGOTIATE"} \cup Numbered)
    BY <1>1, <1>2, <1>10, <1>11 DEF Ends, End, Presents
  <2>2. ~Some(ts, "ANON_NEGOTIATE")
    BY <2>1, NoneOfLess
  <2>3. ~Some(Tail(ts), "ANON_NEGOTIATE")
    BY <1>13, <2>2, WithinKeeps
  <2> QED BY <1>7, <2>3, TalksAre DEF EngagedOn
<1> QED BY <1>1, <1>7, <1>11, <1>12, <1>14, <1>15, HandledAgree DEF k, p

LEMMA AnonNegotiateAgree ==
    ASSUME IInv, IInv', AgreeInv, NEW s \in Site, NEW c \in Channel,
           AnonNegotiate(s, c)
    PROVE AgreeInv'
<1> DEFINE a == Acked(s, c)
           f == Frame(s, c)
           r == extractCI(a, f.ci)
           m == Control("INIT_NEGOTIATE")
           x == m_send(r, m, 4)
           n == working(x)
           ts == chan[c].to[s]
           p == Peer(s)
<1>1. /\ Arrives(s, c, {"ANON_NEGOTIATE"}) /\ r.st = "OPENING_WF_NEGOTIATE"
      /\ Handled(s, c, n)
  BY DEF AnonNegotiate
<1>2. /\ a \in ComObj /\ Sorted(a)
      /\ a.st = conn[s].st /\ a.ch = conn[s].ch
      /\ a.lastReceived = conn[s].lastReceived
  BY AckedIs DEF Proper
<1>3. /\ ts \in Seq(FrameType) /\ ts # <<>>
      /\ chan[c].to[p] \in Seq(FrameType)
      /\ Ends(conn[s], conn[p], c, chan[c], s, p)
      /\ conn[s] \in ComObj /\ conn[p] \in ComObj /\ Proper(conn[p])
  BY <1>1, HandledChannel
<1>4. f = Head(ts) /\ f.t = "ANON_NEGOTIATE" /\ f.ci \in ConnectionInfo
  <2>1. f \in FrameType /\ f.t \in {"ANON_NEGOTIATE"}
    BY <1>1, FrameArrives
  <2>2. f.ci \in ConnectionInfo
    BY <2>1, FrameInfo DEF Presenting
  <2> QED BY <2>1, <2>2 DEF Frame
<1> HIDE DEF a, f
<1>5. /\ r \in ComObj /\ Sorted(r) /\ r.st = a.st /\ r.ch = a.ch
      /\ r.lastSent = f.ci.lastReceived /\ r.lastReceived = a.lastReceived
  BY <1>2, <1>4, ExtractSorted
<1>6. m \in Message /\ m.t = "INIT_NEGOTIATE" /\ 4 \in Prio
  BY ControlType, ControlIs DEF Plain, Prio
<1> HIDE DEF r, m
<1>7. m.t \notin Numbered /\ m.t # "ANON_NEGOTIATE"
  BY <1>6 DEF Numbered
<1>8. /\ x \in ComObj /\ x.ch = r.ch /\ x.lastSent = r.lastSent
      /\ x.lastReceived = r.lastReceived
  BY <1>5, <1>6, SendKeeps, ZenonT(40)
<1>9. Sorted(x) /\ x.q[4] = Append(r.q[4], m)
  BY <1>5, <1>6, <1>7, SendSorted
<1>10. Some(x.q[4], "INIT_NEGOTIATE")
  <2> DEFINE q == r.q[4]
  <2>1. q \in Seq(Message)
    BY <1>5 DEF ComObj, Prio
  <2>2. x.q[4] = Append(q, m)
    BY <1>9
  <2> HIDE DEF q, x
  <2>3. Some(Append(q, m), "INIT_NEGOTIATE")
    BY <1>6, <2>1, AppendKeeps
  <2> QED BY <2>2, <2>3
<1>11. conn[s].ch = c /\ x.ch = c
  BY <1>1, <1>2, <1>5, <1>8 DEF Handled, Owns
<1> HIDE DEF x
<1>12. /\ n \in ComObj /\ Proper(n) /\ n.st = "WORKING" /\ n.ch = x.ch
       /\ n.q[4] = x.q[4] /\ n.lastSent = x.lastSent
       /\ n.lastReceived = x.lastReceived
  BY <1>8, <1>9, <1>11, WorkingProper
<1> HIDE DEF n
<1> DEFINE k == Consumed(s, c)[c]
<1>13. /\ k.to[s] = Tail(ts) /\ k.to[p] = chan[c].to[p]
       /\ k.open = chan[c].open /\ k.anonymous = chan[c].anonymous
  BY <1>3, ConsumedIs
<1>14. /\ n.ch = c /\ n.lastSent = Head(ts).ci.lastReceived
       /\ n.lastReceived = conn[s].lastReceived
       /\ Some(n.q[4], "INIT_NEGOTIATE")
       /\ conn[s].st = "OPENING_WF_NEGOTIATE"
       /\ Head(ts).t = "ANON_NEGOTIATE"
  BY <1>1, <1>2, <1>4, <1>5, <1>8, <1>10, <1>11, <1>12
<1> HIDE DEF k, p
<1>15. Ends(n, conn[p], c, k, s, p)
  BY <1>3, <1>11, <1>12, <1>13, <1>14, EndsNegotiate
<1>16. Engaged(s, c)
  <2>1. Some(ts, "ANON_NEGOTIATE")
    BY <1>3, <1>14, HeadOf DEF Some
  <2> QED BY <1>11, <1>14, <2>1 DEF Engaged, EngagedOn
<1> QED BY <1>1, <1>12, <1>14, <1>15, <1>16, HandledAgree DEF k, p

LEMMA InitNegotiateAgree ==
    ASSUME IInv, IInv', AgreeInv, NEW s \in Site, NEW c \in Channel,
           InitNegotiate(s, c)
    PROVE AgreeInv'
<1> DEFINE a == Acked(s, c)
           r == working(a)
           n == IF hasQueued(r) THEN deliver(r) ELSE r
           ts == chan[c].to[s]
           p == Peer(s)
<1>1. /\ Arrives(s, c, {"INIT_NEGOTIATE"}) /\ conn[s].st = Anon
      /\ Handled(s, c, n)
  BY DEF InitNegotiate, Anon
<1>2. /\ a \in ComObj /\ Sorted(a) /\ a.ch = conn[s].ch
      /\ a.lastSent = conn[s].lastSent
      /\ a.lastReceived = conn[s].lastReceived
  BY AckedIs DEF Proper
<1>3. /\ ts \in Seq(FrameType) /\ ts # <<>>
      /\ chan[c].to[p] \in Seq(FrameType)
      /\ Head(ts).t = "INIT_NEGOTIATE"
      /\ Ends(conn[s], conn[p], c, chan[c], s, p)
      /\ conn[s] \in ComObj /\ conn[p] \in ComObj
  BY <1>1, HandledChannel
<1>4. conn[s].ch = c
  BY <1>1 DEF Handled, Owns
<1> HIDE DEF a
<1>5. /\ r \in ComObj /\ Proper(r) /\ r.st = "WORKING" /\ r.ch = c
      /\ r.lastSent = a.lastSent /\ r.lastReceived = a.lastReceived
  BY <1>2, <1>4, WorkingProper
<1> HIDE DEF r
<1>6. deliver(r) \in ComObj /\ Proper(deliver(r)) /\ Steady(r, deliver(r))
      /\ deliver(r).st = r.st
  BY <1>5, DeliverProper
<1>7. /\ n \in ComObj /\ Proper(n) /\ n.st = "WORKING" /\ n.ch = c
      /\ n.lastSent = conn[s].lastSent
      /\ n.lastReceived = conn[s].lastReceived
  BY <1>2, <1>5, <1>6 DEF Steady
<1> HIDE DEF n
<1> DEFINE k == Consumed(s, c)[c]
<1>8. /\ k.to[s] = Tail(ts) /\ k.to[p] = chan[c].to[p]
      /\ k.open = chan[c].open /\ k.anonymous = chan[c].anonymous
  BY <1>3, ConsumedIs
<1> HIDE DEF k, p
<1>9. Ends(n, conn[p], c, k, s, p)
  BY <1>1, <1>3, <1>4, <1>7, <1>8, EndsWork
<1>10. Engaged(s, c)
  <2>1. Some(ts, "INIT_NEGOTIATE")
    BY <1>3, HeadOf DEF Some
  <2> QED BY <1>1, <1>4, <2>1 DEF Engaged, EngagedOn
<1> QED BY <1>1, <1>7, <1>9, <1>10, HandledAgree DEF k, p

(* What the anonymous ComObj becomes that takes the place of old.          *)
Merged(old, c, ci) ==
    LET queues == IF old.st = "CLOSED" THEN old ELSE m_close(old)
        merged == extractCI([NewComObj EXCEPT
                                !.st = "ANONYMOUS_WF_PRESENT", !.ch = c,
                                !.q = queues.q, !.unacked = queues.unacked],
                            ci)
        answer == [t |-> "ANON_NEGOTIATE", ci |-> CI(merged)]
    IN  [m_send(merged, answer, 4) EXCEPT !.st = Anon]

LEMMA MergedProper ==
    ASSUME NEW old \in ComObj, Proper(old), NEW c \in Channel,
           NEW ci \in ConnectionInfo
    PROVE LET n == Merged(old, c, ci) IN
          /\ n \in ComObj /\ Proper(n) /\ n.st = Anon /\ n.ch = c
          /\ n.lastReceived = 0 /\ n.lastSent = ci.lastReceived
<1> DEFINE queues == IF old.st = "CLOSED" THEN old ELSE m_close(old)
           base == [NewComObj EXCEPT !.st = "ANONYMOUS_WF_PRESENT", !.ch = c,
                                     !.q = queues.q,
                                     !.unacked = queues.unacked]
           merged == extractCI(base, ci)
           answer == [t |-> "ANON_NEGOTIATE", ci |-> CI(merged)]
           x == m_send(merged, answer, 4)
           n == [x EXCEPT !.st = Anon]
<1>1. queues \in ComObj /\ Proper(queues) /\ queues.st = "CLOSED"
  <2>1. /\ m_close(old) \in ComObj /\ Proper(m_close(old))
        /\ m_close(old).st = "CLOSED"
    BY CloseProper, CloseType DEF Proper
  <2> QED BY <2>1
<1>2. NoneOf(queues.q[4], Handshake) /\ Sorted(queues)
  BY <1>1 DEF Proper, Staged
<1> HIDE DEF queues
<1>3. /\ base \in ComObj /\ base.st = "ANONYMOUS_WF_PRESENT" /\ base.ch = c
      /\ base.q = queues.q /\ base.unacked = queues.unacked
      /\ base.lastReceived = 0 /\ base.ackTimer = FALSE
  <2> DEFINE w == NewComObj
             q == queues.q
             u == queues.unacked
  <2>1. /\ w \in ComObj /\ w.lastReceived = 0 /\ w.ackTimer = FALSE
    BY NewProper
  <2>2. q \in [Prio -> Seq(Message)] /\ u \in Seq([num : Nat, msg : Message])
    BY <1>1 DEF ComObj
  <2>3. base = [w EXCEPT !.st = "ANONYMOUS_WF_PRESENT", !.ch = c,
                         !.q = q, !.unacked = u]
    OBVIOUS
  <2> HIDE DEF w, q, u, base
  <2>4. base \in ComObj
    BY <2>1, <2>2, <2>3 DEF ComObj, ComObjState
  <2>5. /\ base.st = "ANONYMOUS_WF_PRESENT" /\ base.ch = c
        /\ base.q = q /\ base.unacked = u
        /\ base.lastReceived = 0 /\ base.ackTimer = FALSE
    BY <2>1, <2>3 DEF ComObj
  <2> QED BY <2>4, <2>5 DEF q, u
<1> HIDE DEF base
<1>4. Sorted(base)
  BY <1>2, <1>3, ProperSame
<1>5. /\ merged \in ComObj /\ Sorted(merged) /\ merged.st = base.st
      /\ merged.ch = base.ch /\ merged.q[4] = base.q[4]
      /\ merged.lastSent = ci.lastReceived
      /\ merged.lastReceived = base.lastReceived
      /\ merged.ackTimer = base.ackTimer
  BY <1>3, <1>4, ExtractSorted
<1> HIDE DEF merged
<1>6. /\ answer \in Message /\ answer.t = "ANON_NEGOTIATE"
      /\ answer.ci.lastReceived = 0
  <2>1. CI(merged) \in ConnectionInfo /\ CI(merged).lastReceived = 0
    <3>1. hasNeed(merged) \in BOOLEAN
      BY <1>5 DEF hasNeed, QueuesNeed, hasQueued, ComObj
    <3> QED BY <1>3, <1>5, <3>1 DEF CI, ConnectionInfo
  <2> QED BY <2>1 DEF Message, Presenting
<1> HIDE DEF answer
<1>7. /\ answer.t \notin Numbered /\ 4 \in Prio
      /\ answer.t \notin {"INIT_NEGOTIATE", "INIT_PRESENT"}
  BY <1>6 DEF Numbered, Prio
<1>8. /\ x \in ComObj /\ x.ch = merged.ch /\ x.lastSent = merged.lastSent
      /\ x.lastReceived = merged.lastReceived
      /\ x.ackTimer = merged.ackTimer
  BY <1>5, <1>6, <1>7, SendKeeps, ZenonT(40)
<1>9. Sorted(x) /\ x.q[4] = Append(merged.q[4], answer)
  BY <1>5, <1>6, <1>7, SendSorted
<1> HIDE DEF x
<1>10. NoneOf(x.q[4], {"INIT_NEGOTIATE", "INIT_PRESENT"})
  <2> DEFINE q == merged.q[4]
             T == {"INIT_NEGOTIATE", "INIT_PRESENT"}
  <2>1. q \in Seq(Message)
    BY <1>5 DEF ComObj, Prio
  <2>2. T \subseteq Handshake /\ NoneOf(q, Handshake)
    BY <1>2, <1>3, <1>5 DEF Handshake
  <2>3. x.q[4] = Append(q, answer) /\ answer.t \notin T
    BY <1>7, <1>9
  <2> HIDE DEF q, T
  <2>4. NoneOf(q, T)
    BY <2>2, NoneOfLess
  <2>5. NoneOf(Append(q, answer), T)
    BY <1>6, <2>1, <2>3, <2>4, AppendKeeps
  <2> QED BY <2>3, <2>5 DEF T
<1>11. /\ n \in ComObj /\ n.st = Anon /\ n.ch = x.ch /\ n.q = x.q
       /\ n.unacked = x.unacked /\ n.lastSent = x.lastSent
       /\ n.lastReceived = x.lastReceived /\ n.ackTimer = x.ackTimer
  BY <1>8 DEF ComObj, ComObjState, Anon
<1> HIDE DEF n
<1>12. Sorted(n)
  BY <1>9, <1>11, ProperSame
<1>13. /\ n.ch = c /\ n.lastReceived = 0 /\ n.lastSent = ci.lastReceived
       /\ n.ackTimer = FALSE
  BY <1>3, <1>5, <1>8, <1>11
<1>14. Staged(n)
  BY <1>10, <1>11, <1>13, TalksAre DEF Staged
<1>15. /\ n \in ComObj /\ Proper(n) /\ n.st = Anon /\ n.ch = c
       /\ n.lastReceived = 0 /\ n.lastSent = ci.lastReceived
  BY <1>11, <1>12, <1>13, <1>14 DEF Proper
<1>16. Merged(old, c, ci) = n
  BY DEF Merged, n, x, answer, merged, base, queues
<1> QED BY <1>15, <1>16

LEMMA InitPresentAgree ==
    ASSUME IInv, IInv', AgreeInv, NEW s \in Site, NEW c \in Channel,
           InitPresent(s, c)
    PROVE AgreeInv'
<1> DEFINE n == Merged(conn[s], c, Frame(s, c).ci)
           cs == [Consumed(s, c) EXCEPT ![c].anonymous = @ \ {s}]
           ts == chan[c].to[s]
           p == Peer(s)
<1>1. /\ Arrives(s, c, {"INIT_PRESENT"}) /\ s \in chan[c].anonymous
      /\ \/ Become(s, n, cs)
         \/ chan' = Close(chan, s, c) /\ conn' = conn
  BY DEF InitPresent, Merged, Anon
<1>2. /\ ts \in Seq(FrameType) /\ ts # <<>>
      /\ chan[c].to[p] \in Seq(FrameType)
      /\ Head(ts).t = "INIT_PRESENT"
      /\ Ends(conn[s], conn[p], c, chan[c], s, p)
      /\ conn[s] \in ComObj /\ conn[p] \in ComObj /\ Proper(conn[s])
      /\ chan[c].open[s]
  BY <1>1, HandledChannel DEF Arrives
<1>3. Frame(s, c) = Head(ts) /\ Frame(s, c).ci \in ConnectionInfo
  <2>1. Frame(s, c) \in FrameType /\ Frame(s, c).t \in {"INIT_PRESENT"}
    BY <1>1, FrameArrives
  <2>2. Frame(s, c).ci \in ConnectionInfo
    BY <2>1, FrameInfo DEF Presenting
  <2> QED BY <2>2 DEF Frame
<1>4. Unknown(conn[s], conn[p], c, ts, chan[c].to[p]) /\ conn[s].ch # c
  BY <1>1, <1>2 DEF Ends, End, Unknown
<1>5. /\ n \in ComObj /\ Proper(n) /\ n.st = Anon /\ n.ch = c
      /\ n.lastReceived = 0 /\ n.lastSent = Head(ts).ci.lastReceived
  BY <1>2, <1>3, MergedProper
<1> HIDE DEF n
<1>6. p \in Site /\ p # s /\ chan \in Chans
  BY PeerIsSite, ComObjOf
<1>7. CASE chan' = Close(chan, s, c) /\ conn' = conn
  <2>1. Fewer(chan', s)
    BY <1>6, <1>7, FewerSelf, FewerClose
  <2>2. \A d \in Channel : d # c => chan'[d] = chan[d]
    BY <1>6, <1>7, CloseOther
  <2> QED BY <1>4, <1>7, <2>1, <2>2, ForeignStep
<1>8. CASE Become(s, n, cs)
  <2>1. /\ Consumed(s, c)[c].to[s] = Tail(ts)
        /\ Consumed(s, c)[c].to[p] = chan[c].to[p]
        /\ Consumed(s, c)[c].open = chan[c].open
        /\ Consumed(s, c)[c].anonymous = chan[c].anonymous
        /\ Consumed(s, c) \in Chans
        /\ Fewer(Consumed(s, c), s)
        /\ Within(Tail(ts), ts)
    BY <1>2, ConsumedIs, FewerConsumed
  <2>2. cs \in Chans
    BY <2>1 DEF Chans, ChannelType
  <2>3. /\ cs[c].to = Consumed(s, c)[c].to
        /\ cs[c].open = Consumed(s, c)[c].open
        /\ cs[c].anonymous = Consumed(s, c)[c].anonymous \ {s}
        /\ \A d \in Channel : d # c => cs[d] = Consumed(s, c)[d]
    BY <2>1 DEF Chans, ChannelType
  <2> HIDE DEF cs
  <2>4. Fewer(cs, s)
    <3>1. ASSUME NEW d \in Channel
          PROVE /\ Within(cs[d].to[s], chan[d].to[s])
                /\ Within(cs[d].to[p], chan[d].to[p])
                /\ cs[d].open[p] = chan[d].open[p]
                /\ s \in cs[d].anonymous => s \in chan[d].anonymous
                /\ p \in cs[d].anonymous <=> p \in chan[d].anonymous
      <4>1. CASE d = c
        BY <1>6, <2>1, <2>3, <4>1 DEF Fewer
      <4>2. CASE d # c
        BY <2>1, <2>3, <4>2 DEF Fewer
      <4> QED BY <4>1, <4>2
    <3> QED BY <3>1 DEF Fewer
  <2>5. /\ conn' = [conn EXCEPT ![s] = n]
        /\ chan' = Close(cs, s, conn[s].ch)
    BY <1>4, <1>5, <1>8 DEF Become
  <2>6. Fewer(chan', s)
    BY <2>2, <2>4, <2>5, FewerClose
  <2>7. chan'[c] = cs[c]
    BY <1>4, <2>2, <2>5, CloseOther
  <2>8. conn'[s] = n /\ conn'[p] = conn[p]
    BY <1>6, <2>5 DEF IInv, TypeOK
  <2> DEFINE k == cs[c]
  <2>9. /\ k.to[s] = Tail(ts) /\ k.to[p] = chan[c].to[p]
        /\ k.open = chan[c].open /\ k.anonymous = chan[c].anonymous \ {s}
    BY <2>1, <2>3
  <2>10. chan[c].open[s] = TRUE
    BY <1>2, ChannelOf
  <2> HIDE DEF k, p
  <2>11. Ends(n, conn[p], c, k, s, p)
    BY <1>1, <1>2, <1>5, <1>6, <2>9, <2>10, EndsJoin
  <2>12. ASSUME NEW d \in Channel PROVE View(s, d)'
    <3>1. CASE d = c
      BY <2>7, <2>8, <2>11, <3>1 DEF View, k, p
    <3>2. CASE d # c
      BY <1>5, <2>6, <2>8, <3>2, AwayView DEF p
    <3> QED BY <3>1, <3>2
  <2>13. ASSUME NEW d \in Channel, Engaged(s, d)' PROVE FALSE
    <3>1. d = c
      BY <1>5, <2>8, <2>13 DEF Engaged, EngagedOn
    <3>2. ~Some(ts, "INIT_NEGOTIATE")
      BY <1>4, NoneOfLess DEF Unknown
    <3>3. ~Some(chan'[c].to[s], "INIT_NEGOTIATE")
      BY <2>1, <2>7, <2>9, <3>2, WithinKeeps DEF k
    <3> QED BY <1>5, <2>8, <2>13, <3>1, <3>3, TalksAre DEF Engaged, EngagedOn
  <2>14. \A d \in Channel : Engaged(Peer(s), d)' => Engaged(Peer(s), d)
    BY <2>6, <2>8, FewerEngaged DEF p
  <2> QED BY <1>5, <2>8, <2>12, <2>13, <2>14, AgreeStep DEF p
<1> QED BY <1>1, <1>7, <1>8

LEMMA handoverAgree ==
    ASSUME IInv, IInv', AgreeInv, NEW s \in Site, handover(s)
    PROVE AgreeInv'
<1> DEFINE p == Peer(s)
           f == [t |-> "ANON_PRESENT", ack |-> 0]
<1>1. CASE conn' = conn /\ chan' = chan
  BY <1>1, QuietAgree
<1>2. ASSUME NEW c \in Channel, Free(c), conn[s].st = "OPENING_WF_HANDOVER",
             conn' = [conn EXCEPT ![s].ch = c,
                                  ![s].st = "OPENING_WF_PRESENT"],
             chan' = [chan EXCEPT ![c] =
                        [to |-> [x \in Site |-> IF x = s THEN <<f>> ELSE <<>>],
                         open |-> [x \in Site |-> TRUE],
                         anonymous |-> {p}]]
      PROVE AgreeInv'
  <2>1. p \in Site /\ p # s /\ chan \in Chans
    BY PeerIsSite, ComObjOf
  <2>2. conn[s] \in ComObj /\ conn[p] \in ComObj /\ Proper(conn[s])
    BY <2>1, ComObjOf, ViewOf
  <2> DEFINE n == [conn[s] EXCEPT !.ch = c, !.st = "OPENING_WF_PRESENT"]
  <2>3. conn'[s] = n /\ conn'[p] = conn[p]
    BY <1>2, <2>1 DEF IInv, TypeOK
  <2>4. /\ n \in ComObj /\ n.st = "OPENING_WF_PRESENT" /\ n.ch = c
        /\ n.q = conn[s].q /\ n.unacked = conn[s].unacked
        /\ n.ackTimer = conn[s].ackTimer
    BY <2>2 DEF ComObj, ComObjState
  <2> HIDE DEF n
  <2>5. Proper(n)
    <3>1. Sorted(n)
      BY <2>2, <2>4, ProperSame DEF Proper
    <3>2. NoneOf(n.q[4], Handshake) /\ ~n.ackTimer
      BY <1>2, <2>2, <2>4, TalksAre DEF Proper, Staged
    <3>3. Staged(n)
      BY <2>4, <3>2, TalksAre DEF Staged
    <3> QED BY <3>1, <3>3 DEF Proper
  <2> DEFINE k == chan'[c]
  <2>6. /\ k.to[s] = <<f>> /\ k.to[p] = <<>> /\ k.open[s] = TRUE
        /\ k.open[p] = TRUE /\ s \notin k.anonymous /\ p \in k.anonymous
        /\ \A d \in Channel : d # c => chan'[d] = chan[d]
    BY <1>2, <2>1 DEF Chans
  <2>7. conn[p].ch # c
    <3>1. ~chan[c].open[p]
      BY <1>2, <2>1 DEF Free
    <3>2. View(s, c)
      BY ViewOf
    <3> QED BY <3>1, <3>2 DEF View, Ends, End
  <2>8. f.t = "ANON_PRESENT"
    OBVIOUS
  <2> HIDE DEF k, f, p
  <2>9. Ends(n, conn[p], c, k, s, p)
    BY <2>2, <2>4, <2>6, <2>7, <2>8, EndsNew
  <2>10. ASSUME NEW d \in Channel PROVE View(s, d)'
    <3>1. CASE d = c
      BY <2>3, <2>9, <3>1 DEF View, k, p
    <3>2. CASE d # c
      BY <2>3, <2>4, <2>6, <3>2, AwaySame DEF p
    <3> QED BY <3>1, <3>2
  <2>11. ASSUME NEW d \in Channel, Engaged(s, d)' PROVE FALSE
    BY <2>3, <2>4, <2>11, TalksAre DEF Engaged, EngagedOn
  <2>12. ASSUME NEW d \in Channel, Engaged(p, d)' PROVE Engaged(p, d)
    <3>1. conn[p].ch = d
      BY <2>3, <2>12 DEF Engaged, EngagedOn
    <3>2. chan'[d] = chan[d]
      BY <2>6, <2>7, <3>1
    <3> QED BY <2>3, <2>12, <3>2 DEF Engaged
  <2> QED BY <2>3, <2>5, <2>10, <2>11, <2>12, AgreeStep DEF p
<1> QED BY <1>1, <1>2 DEF handover

-----------------------------------------------------------------------------
(* The step that writes a frame.                                           *)

(* The message that is written, the frame it becomes and the ComObj then.  *)
Taken(r) == Head(r.q[getNext(r)])

Marshalled(m, n) ==
    [f \in DOMAIN m \cup {"ack"} |-> IF f = "ack" THEN n ELSE m[f]]

Gone(r) ==
    LET i == getNext(r)
        rest == [r EXCEPT !.q[i] = Tail(@),
                          !.ackTimer = @ /\ r.st # "WORKING"]
    IN  IF i = 4 THEN rest
        ELSE [rest EXCEPT !.lastSent = @ + 1,
                          !.unacked = Append(@, [num |-> r.lastSent + 1,
                                                 msg |-> Taken(r)])]

LEMMA MarshalledIs ==
    ASSUME NEW m \in Message, NEW n \in Nat
    PROVE LET f == Marshalled(m, n) IN
          /\ f \in FrameType /\ f.t = m.t
          /\ m.t \in Presenting => f.ci = m.ci
<1> DEFINE f == Marshalled(m, n)
<1>1. f \in FrameType
  BY MarshalledType DEF Marshalled
<1>2. /\ "t" \in DOMAIN m
      /\ m.t \in Presenting => "ci" \in DOMAIN m
  BY DEF Message, Plain, Presenting
<1>3. /\ f.t = m.t
      /\ m.t \in Presenting => f.ci = m.ci
  BY <1>2 DEF Marshalled
<1> QED BY <1>1, <1>3

(* What controls the connection goes first.                                *)
LEMMA TakenIs ==
    ASSUME NEW r \in ComObj, Sorted(r), Ready(r) # {}
    PROVE LET i == getNext(r) IN
          /\ i \in Prio /\ r.q[i] # <<>> /\ r.q[i] \in Seq(Message)
          /\ Taken(r) \in Message /\ 1 \in DOMAIN r.q[i]
          /\ Taken(r) = r.q[i][1]
          /\ Taken(r).t \in Numbered <=> i # 4
          /\ i # 4 => r.q[4] = <<>> /\ r.st = "WORKING"
<1> DEFINE i == getNext(r)
<1>1. Ready(r) \subseteq Prio
  BY WorkingReady, SMTT(40)
<1>2. \E j \in Ready(r) : \A k \in Ready(r) : k <= j
  BY <1>1, Highest
<1>3. i \in Ready(r) /\ \A k \in Ready(r) : k <= i
  BY <1>2 DEF getNext
<1> HIDE DEF i
<1>4. i \in Prio /\ r.q[i] # <<>> /\ (i = 4 \/ r.st = "WORKING")
  BY <1>1, <1>3 DEF Ready
<1>5. r.q[i] \in Seq(Message) /\ DOMAIN r.q = Prio
  BY <1>4 DEF ComObj
<1>6. /\ 1 \in DOMAIN r.q[i] /\ Head(r.q[i]) = r.q[i][1]
      /\ Head(r.q[i]) \in Message
  BY <1>4, <1>5, HeadOf
<1>7. i # 4 => r.q[4] = <<>>
  <2>1. 4 \in Ready(r) => i = 4
    BY <1>3, <1>4 DEF Prio
  <2>2. r.q[4] # <<>> => 4 \in Ready(r)
    BY <1>5 DEF Ready, Prio
  <2> QED BY <2>1, <2>2
<1>8. Head(r.q[i]).t \in Numbered <=> i # 4
  <2>1. CASE i = 4
    BY <1>6, <2>1 DEF Sorted, NoneOf
  <2>2. CASE i # 4
    <3>1. i \in {0, 2, 3}
      BY <1>4, <2>2 DEF Prio
    <3> QED BY <1>6, <2>2, <3>1 DEF Sorted
  <2> QED BY <2>1, <2>2
<1>9. Taken(r) = Head(r.q[i])
  BY DEF Taken, i
<1> QED BY <1>4, <1>5, <1>6, <1>7, <1>8, <1>9 DEF i

LEMMA GoneIs ==
    ASSUME NEW r \in ComObj, Sorted(r), Ready(r) # {}
    PROVE LET n == Gone(r)
              i == getNext(r) IN
          /\ n \in ComObj /\ n.st = r.st /\ n.ch = r.ch
          /\ n.lastReceived = r.lastReceived
          /\ n.lastSent = r.lastSent + (IF i # 4 THEN 1 ELSE 0)
          /\ n.ackTimer => r.ackTimer
          /\ n.q = [r.q EXCEPT ![i] = Tail(r.q[i])]
          /\ \/ n.unacked = r.unacked
             \/ /\ n.unacked = Append(r.unacked, [num |-> r.lastSent + 1,
                                                  msg |-> Taken(r)])
                /\ i # 4
<1> DEFINE i == getNext(r)
           qs == [r.q EXCEPT ![i] = Tail(r.q[i])]
           m == Taken(r)
           item == [num |-> r.lastSent + 1, msg |-> m]
           b == r.ackTimer /\ r.st # "WORKING"
           rest == [r EXCEPT !.q[i] = Tail(@),
                             !.ackTimer = @ /\ r.st # "WORKING"]
           k == r.lastSent + 1
           u == Append(r.unacked, item)
           n == Gone(r)
<1>1. /\ i \in Prio /\ r.q[i] # <<>> /\ r.q[i] \in Seq(Message)
      /\ m \in Message
  BY TakenIs
<1>2. /\ r.q \in [Prio -> Seq(Message)] /\ r.lastSent \in Nat /\ k \in Nat
      /\ r.unacked \in Seq([num : Nat, msg : Message])
  BY DEF ComObj
<1> HIDE DEF i, m
<1>3. qs \in [Prio -> Seq(Message)]
  <2>1. Tail(r.q[i]) \in Seq(Message)
    BY <1>1, HeadTailProperties
  <2> QED BY <1>1, <1>2, <2>1
<1>4. rest = [r EXCEPT !.q = qs, !.ackTimer = b]
  BY DEF ComObj
<1> HIDE DEF qs
<1>5. b \in BOOLEAN /\ (b => r.ackTimer)
  BY DEF ComObj
<1> HIDE DEF b
<1>6. rest \in ComObj
  BY <1>3, <1>4, <1>5 DEF ComObj
<1>7. /\ rest.st = r.st /\ rest.ch = r.ch /\ rest.q = qs
      /\ rest.lastReceived = r.lastReceived /\ rest.lastSent = r.lastSent
      /\ rest.ackTimer = b /\ rest.unacked = r.unacked
  BY <1>4 DEF ComObj
<1>8. /\ i = 4 => n = rest
      /\ i # 4 => n = [rest EXCEPT !.lastSent = k, !.unacked = u]
  <2>1. /\ i = 4 => n = rest
        /\ i # 4 => n = [rest EXCEPT !.lastSent = @ + 1,
                                     !.unacked = Append(@, item)]
    BY DEF Gone, i, m
  <2> HIDE DEF rest, n
  <2> QED BY <1>6, <1>7, <2>1
<1> HIDE DEF rest, n
<1>9. u \in Seq([num : Nat, msg : Message])
  <2>1. item \in [num : Nat, msg : Message]
    BY <1>1, <1>2
  <2> HIDE DEF item
  <2> QED BY <1>2, <2>1, AppendProperties
<1>10. CASE i = 4
  <2>1. r.lastSent = r.lastSent + (IF i # 4 THEN 1 ELSE 0)
    BY <1>2, <1>10
  <2> HIDE DEF k, u
  <2> QED BY <1>5, <1>6, <1>7, <1>8, <1>10, <2>1 DEF qs, i, n
<1>11. CASE i # 4
  <2> HIDE DEF u, k
  <2>1. n \in ComObj
    BY <1>2, <1>6, <1>8, <1>9, <1>11 DEF ComObj
  <2>2. /\ n.st = rest.st /\ n.ch = rest.ch /\ n.q = rest.q
        /\ n.lastReceived = rest.lastReceived /\ n.ackTimer = rest.ackTimer
        /\ n.lastSent = k /\ n.unacked = u
    BY <1>6, <1>8, <1>11 DEF ComObj
  <2>3. k = r.lastSent + (IF i # 4 THEN 1 ELSE 0)
    BY <1>11 DEF k
  <2> QED BY <1>5, <1>7, <1>11, <2>1, <2>2, <2>3 DEF qs, i, n, u, m
<1> QED BY <1>10, <1>11

LEMMA GoneProper ==
    ASSUME NEW r \in ComObj, Proper(r), Ready(r) # {}
    PROVE LET n == Gone(r) IN
          /\ Proper(n)
          /\ Some(r.q[4], "INIT_NEGOTIATE") =>
                Some(n.q[4], "INIT_NEGOTIATE") \/ Taken(r).t = "INIT_NEGOTIATE"
<1> DEFINE n == Gone(r)
           i == getNext(r)
           m == Taken(r)
           item == [num |-> r.lastSent + 1, msg |-> m]
<1>1. Sorted(r) /\ Staged(r)
  BY DEF Proper
<1>2. /\ i \in Prio /\ r.q[i] # <<>> /\ r.q[i] \in Seq(Message)
      /\ m \in Message /\ m = r.q[i][1]
      /\ m.t \in Numbered <=> i # 4
  BY <1>1, TakenIs
<1>3. /\ n \in ComObj /\ n.st = r.st /\ n.ch = r.ch
      /\ n.lastReceived = r.lastReceived
      /\ n.ackTimer => r.ackTimer
      /\ n.q = [r.q EXCEPT ![i] = Tail(r.q[i])]
      /\ \/ n.unacked = r.unacked
         \/ n.unacked = Append(r.unacked, item) /\ i # 4
  BY <1>1, GoneIs
<1> HIDE DEF n, i, m
<1>4. \A j \in Prio : Within(n.q[j], r.q[j])
  <2>1. ASSUME NEW j \in Prio PROVE Within(n.q[j], r.q[j])
    <3>1. CASE j = i
      <4>1. n.q[j] = Tail(r.q[i])
        BY <1>2, <1>3, <3>1 DEF ComObj
      <4> QED BY <1>2, <3>1, <4>1, WithinTail
    <3>2. CASE j # i
      <4>1. n.q[j] = r.q[j]
        BY <1>2, <1>3, <3>2 DEF ComObj
      <4> QED BY <4>1, WithinSelf
    <3> QED BY <3>1, <3>2
  <2> QED BY <2>1
<1>5. /\ \A T : NoneOf(r.q[4], T) => NoneOf(n.q[4], T)
      /\ \A t, k : Says(r.q[4], t, k) => Says(n.q[4], t, k)
  BY <1>4, WithinKeeps DEF Prio
<1>6. \A j \in {0, 2, 3} : \A l \in DOMAIN n.q[j] : n.q[j][l].t \in Numbered
  BY <1>1, <1>4 DEF Sorted, Within, Prio
<1>7. \A j \in DOMAIN n.unacked : n.unacked[j].msg.t \in Numbered
  <2>1. CASE n.unacked = r.unacked
    BY <1>1, <2>1 DEF Sorted
  <2>2. CASE n.unacked = Append(r.unacked, item) /\ i # 4
    <3> DEFINE S == [num : Nat, msg : Message]
               u == r.unacked
    <3>1. item \in S /\ item.msg.t \in Numbered
      BY <1>2, <2>2 DEF ComObj
    <3>2. u \in Seq(S) /\ \A j \in DOMAIN u : u[j].msg.t \in Numbered
      BY <1>1 DEF ComObj, Sorted
    <3>3. n.unacked = Append(u, item)
      BY <2>2
    <3> HIDE DEF S, u, item
    <3>4. /\ DOMAIN Append(u, item) = 1..(Len(u) + 1)
          /\ DOMAIN u = 1..Len(u) /\ Len(u) \in Nat
          /\ \A j \in 1..Len(u) : Append(u, item)[j] = u[j]
          /\ Append(u, item)[Len(u) + 1] = item
      BY <3>1, <3>2, AppendedIs
    <3>5. ASSUME NEW j \in DOMAIN Append(u, item)
          PROVE Append(u, item)[j].msg.t \in Numbered
      <4>1. j \in 1..Len(u) \/ j = Len(u) + 1
        BY <3>4
      <4> QED BY <3>1, <3>2, <3>4, <4>1
    <3> QED BY <3>3, <3>5
  <2> QED BY <1>3, <2>1, <2>2
<1>8. Sorted(n)
  BY <1>1, <1>5, <1>6, <1>7 DEF Sorted
<1>9. Staged(n)
  BY <1>1, <1>3, <1>5 DEF Staged
<1>10. ASSUME Some(r.q[4], "INIT_NEGOTIATE"), m.t # "INIT_NEGOTIATE"
       PROVE Some(n.q[4], "INIT_NEGOTIATE")
  <2>1. CASE i = 4
    <3> DEFINE q == r.q[4]
    <3>1. n.q[4] = Tail(q)
      BY <1>2, <1>3, <2>1 DEF ComObj
    <3>2. q \in Seq(Message) /\ q # <<>> /\ q[1].t # "INIT_NEGOTIATE"
      BY <1>2, <1>10, <2>1
    <3>3. PICK j \in DOMAIN q : q[j].t = "INIT_NEGOTIATE"
      BY <1>10 DEF Some
    <3> HIDE DEF q
    <3>4. /\ Len(q) \in Nat \ {0} /\ DOMAIN q = 1..Len(q)
          /\ DOMAIN Tail(q) = 1..(Len(q) - 1)
          /\ \A l \in 1..(Len(q) - 1) : Tail(q)[l] = q[l + 1]
      BY <3>2, HeadTailProperties, LenProperties
    <3>5. j - 1 \in 1..(Len(q) - 1) /\ (j - 1) + 1 = j
      BY <3>2, <3>3, <3>4
    <3>6. j - 1 \in DOMAIN Tail(q) /\ Tail(q)[j - 1].t = "INIT_NEGOTIATE"
      BY <3>3, <3>4, <3>5
    <3> QED BY <3>1, <3>6 DEF Some
  <2>2. CASE i # 4
    <3>1. n.q[4] = r.q[4]
      BY <1>2, <1>3, <2>2 DEF ComObj, Prio
    <3> QED BY <1>10, <3>1
  <2> QED BY <2>1, <2>2
<1> QED BY <1>8, <1>9, <1>10 DEF Proper, n, m

LEMMA writeDataAvailableAgree ==
    ASSUME IInv, IInv', AgreeInv, NEW s \in Site, writeDataAvailable(s)
    PROVE AgreeInv'
<1> DEFINE r == conn[s]
           p == Peer(s)
           c == r.ch
           m == Taken(r)
           f == Marshalled(m, r.lastReceived)
           g == Gone(r)
           n == deliver(g)
           fs == IF chan[c].open[p] THEN Append(chan[c].to[p], f)
                 ELSE chan[c].to[p]
           cs == [chan EXCEPT ![c].to[p] = fs]
<1>1. Ready(r) # {} /\ Owns(s, c) /\ Become(s, n, cs)
  BY DEF writeDataAvailable, Gone, Taken, Marshalled
<1>2. /\ r \in ComObj /\ Proper(r) /\ Sorted(r) /\ Staged(r)
      /\ p \in Site /\ p # s /\ conn[p] \in ComObj
      /\ chan \in Chans
  BY ComObjOf, ViewOf, PeerIsSite DEF Proper
<1>3. /\ getNext(r) \in Prio /\ m \in Message
      /\ 1 \in DOMAIN r.q[getNext(r)] /\ m = r.q[getNext(r)][1]
      /\ m.t \in Numbered <=> getNext(r) # 4
      /\ getNext(r) # 4 => r.q[4] = <<>> /\ r.st = "WORKING"
  BY <1>1, <1>2, TakenIs
<1>4. /\ g \in ComObj /\ g.st = r.st /\ g.ch = r.ch
      /\ g.lastReceived = r.lastReceived
      /\ g.lastSent = r.lastSent + (IF getNext(r) # 4 THEN 1 ELSE 0)
  BY <1>1, <1>2, GoneIs
<1>5. /\ Proper(g)
      /\ Some(r.q[4], "INIT_NEGOTIATE") =>
            Some(g.q[4], "INIT_NEGOTIATE") \/ m.t = "INIT_NEGOTIATE"
  BY <1>1, <1>2, GoneProper
<1> HIDE DEF g
<1>6. /\ n \in ComObj /\ Proper(n) /\ Steady(g, n) /\ n.st = g.st
      /\ n.q = g.q
  BY <1>4, <1>5, DeliverProper
<1> HIDE DEF n
<1>7. /\ n.st = r.st /\ n.ch = r.ch /\ n.lastReceived = r.lastReceived
      /\ n.lastSent = r.lastSent + (IF m.t \in Numbered THEN 1 ELSE 0)
  BY <1>3, <1>4, <1>6 DEF Steady
<1>8. conn' = [conn EXCEPT ![s] = n] /\ chan' = cs
  BY <1>1, <1>7 DEF Become
<1>9. conn'[s] = n /\ conn'[p] = conn[p]
  <2>1. conn' = [conn EXCEPT ![s] = n]
    BY <1>8
  <2>2. conn \in [Site -> ComObj]
    BY DEF IInv, TypeOK
  <2> QED BY <1>2, <2>1, <2>2
<1>10. CASE c \notin Channel
  <2>1. chan' = chan
    BY <1>2, <1>8, <1>10 DEF Chans
  <2>2. Idle(n)
    BY <1>2, <1>7, <1>10 DEF Staged, Idle
  <2>3. Fewer(chan', s)
    BY <2>1, FewerSelf
  <2>4. conn' = [conn EXCEPT ![s] = n]
    BY <1>8
  <2> QED BY <1>6, <2>2, <2>3, <2>4, LeaveStep, ZenonT(40)
<1>11. CASE c \in Channel
  <2>1. /\ f \in FrameType /\ f.t = m.t
        /\ m.t \in Presenting => f.ci = m.ci
    <3>1. r.lastReceived \in Nat
      BY <1>2 DEF ComObj
    <3> QED BY <1>3, <3>1, MarshalledIs
  <2> HIDE DEF f
  <2>2. /\ Ends(r, conn[p], c, chan[c], s, p)
        /\ chan[c].to[s] \in Seq(FrameType)
        /\ chan[c].to[p] \in Seq(FrameType)
    BY <1>2, <1>11, ViewOf, ChannelOf DEF View
  <2> DEFINE k == chan'[c]
  <2>3. /\ k.to[s] = chan[c].to[s] /\ k.to[p] = fs
        /\ k.open = chan[c].open /\ k.anonymous = chan[c].anonymous
        /\ \A d \in Channel : d # c => chan'[d] = chan[d]
    <3> HIDE DEF fs
    <3> QED BY <1>2, <1>8, <1>11 DEF Chans, ChannelType
  <2>4. Ends(n, conn[p], c, k, s, p)
    <3>1. CASE chan[c].open[p]
      <4>1. k.to[p] = Append(chan[c].to[p], f)
        BY <2>3, <3>1, ZenonT(40)
      <4>2. /\ f.t \in Numbered => r.st = "WORKING"
                                   /\ ~Some(r.q[4], "INIT_NEGOTIATE")
            /\ Some(r.q[4], "INIT_NEGOTIATE") =>
                  Some(n.q[4], "INIT_NEGOTIATE") \/ f.t = "INIT_NEGOTIATE"
        BY <1>3, <1>5, <1>6, <2>1 DEF Some
      <4>3. f.t = "ANON_NEGOTIATE" => f.ci.lastReceived = 0
        <5>1. ASSUME f.t = "ANON_NEGOTIATE" PROVE f.ci.lastReceived = 0
          <6>1. getNext(r) = 4 /\ f.ci = m.ci
            BY <1>3, <2>1, <5>1 DEF Numbered, Presenting
          <6> QED BY <1>2, <1>3, <2>1, <5>1, <6>1 DEF Sorted, Says
        <5> QED BY <5>1
      <4>4. r.st = "OPENING_WF_PRESENT" => f.t \notin Handshake
        <5>1. ASSUME r.st = "OPENING_WF_PRESENT" PROVE f.t \notin Handshake
          <6>1. getNext(r) = 4 /\ NoneOf(r.q[4], Handshake)
            BY <1>2, <1>3, <5>1 DEF Staged
          <6> QED BY <1>3, <2>1, <6>1 DEF NoneOf
        <5> QED BY <5>1
      <4>5. r.st = "OPENING_WF_NEGOTIATE" =>
               /\ f.t # "INIT_NEGOTIATE"
               /\ f.t = "INIT_PRESENT" => f.ci.lastReceived = r.lastReceived
        <5>1. ASSUME r.st = "OPENING_WF_NEGOTIATE"
              PROVE /\ f.t # "INIT_NEGOTIATE"
                    /\ f.t = "INIT_PRESENT" =>
                          f.ci.lastReceived = r.lastReceived
          <6>1. /\ getNext(r) = 4
                /\ NoneOf(r.q[4], {"INIT_NEGOTIATE", "ANON_NEGOTIATE"})
                /\ Says(r.q[4], "INIT_PRESENT", r.lastReceived)
            BY <1>2, <1>3, <5>1 DEF Staged
          <6>2. f.t # "INIT_NEGOTIATE"
            BY <1>3, <2>1, <6>1 DEF NoneOf
          <6>3. f.t = "INIT_PRESENT" => f.ci = m.ci
            BY <2>1 DEF Presenting
          <6>4. m.t = "INIT_PRESENT" => m.ci.lastReceived = r.lastReceived
            BY <1>3, <6>1 DEF Says
          <6> QED BY <2>1, <6>2, <6>3, <6>4
        <5> QED BY <5>1
      <4>6. n.lastSent = r.lastSent + (IF f.t \in Numbered THEN 1 ELSE 0)
        BY <1>7, <2>1
      <4>7. r.ch = c
        BY ZenonT(40)
      <4> HIDE DEF k, r, p, m, c, fs
      <4> QED BY <1>2, <1>6, <1>7, <2>1, <2>2, <2>3, <4>1, <4>2, <4>3,
                 <4>4, <4>5, <4>6, <4>7, EndsWrite, ZenonT(40)
    <3>2. CASE ~chan[c].open[p]
      <4>1. conn[p].ch # c
        BY <2>2, <3>2 DEF Ends, End
      <4>2. k.to[s] = chan[c].to[s] /\ k.to[p] = chan[c].to[p]
        BY <2>3, <3>2
      <4>3. Ends(n, conn[p], c, chan[c], s, p)
        BY <1>7, <2>2, <4>1, EndsAlone
      <4> HIDE DEF k
      <4> QED BY <2>3, <4>2, <4>3, ZenonT(40) DEF Ends
    <3> QED BY <3>1, <3>2
  <2>5. ASSUME NEW d \in Channel PROVE View(s, d)'
    <3>1. CASE d = c
      BY <1>9, <2>4, <3>1 DEF View
    <3>2. CASE d # c
      BY <1>7, <1>9, <2>3, <3>2, AwaySame
    <3> QED BY <3>1, <3>2
  <2>6. ASSUME NEW d \in Channel, Engaged(s, d)' PROVE Engaged(s, d)
    <3>1. d = c
      BY <1>7, <1>9, <2>6 DEF Engaged, EngagedOn
    <3> QED BY <1>7, <1>9, <2>3, <2>6, <3>1 DEF Engaged, EngagedOn
  <2>7. ASSUME NEW d \in Channel, Engaged(p, d)'
        PROVE Engaged(p, d) \/ conn'[s].ch = d
    <3>1. CASE d = c
      BY <1>7, <1>9, <3>1
    <3>2. CASE d # c
      BY <1>9, <2>3, <2>7, <3>2 DEF Engaged
    <3> QED BY <3>1, <3>2
  <2> QED BY <1>6, <1>9, <2>5, <2>6, <2>7, AgreeStep, SMTT(40)
<1> QED BY <1>10, <1>11, SMTT(40)

-----------------------------------------------------------------------------

LEMMA InitAgrees == Init => AgreeInv
<1> SUFFICES ASSUME Init PROVE AgreeInv
  OBVIOUS
<1>1. \A s \in Site : conn[s] = NewComObj
  BY DEF Init
<1>2. \A s \in Site : Proper(conn[s])
  BY <1>1, NewProper
<1>3. \A s \in Site : \A c \in Channel : conn[s].ch # c
  BY <1>1, NewProper DEF Idle
<1>4. ASSUME NEW s \in Site, NEW c \in Channel PROVE View(s, c)
  <2>1. Peer(s) \in Site
    BY PeerIsSite
  <2>2. chan[c] = Unused
    BY DEF Init
  <2>3. /\ chan[c].to[s] = <<>> /\ chan[c].to[Peer(s)] = <<>>
        /\ s \notin chan[c].anonymous /\ Peer(s) \notin chan[c].anonymous
    BY <2>1, <2>2 DEF Unused
  <2>4. Says(<<>>, "ANON_NEGOTIATE", 0)
    BY DEF Says
  <2>5. conn[s].ch # c /\ conn[Peer(s)].ch # c
    BY <1>3, <2>1
  <2> QED BY <2>3, <2>4, <2>5 DEF View, Ends, End
<1>5. Together
  BY <1>3 DEF Together, Engaged, EngagedOn
<1> QED BY <1>2, <1>4, <1>5 DEF AgreeInv

LEMMA NextAgrees == IInv /\ IInv' /\ AgreeInv /\ [Next]_vars => AgreeInv'
<1> SUFFICES ASSUME IInv, IInv', AgreeInv, [Next]_vars PROVE AgreeInv'
  OBVIOUS
<1>1. CASE UNCHANGED vars
  BY <1>1, QuietAgree DEF vars
<1>2. ASSUME NEW s \in Site, Environment(s) PROVE AgreeInv'
  BY <1>2, m_sendMsgAgree, sendProbePingAgree, gcSiteTableAgree,
     ChannelBreaksAgree DEF Environment
<1>3. ASSUME NEW s \in Site,
             sendAckTimer(s) \/ handover(s) \/ writeDataAvailable(s)
      PROVE AgreeInv'
  BY <1>3, sendAckTimerAgree, handoverAgree, writeDataAvailableAgree
<1>4. ASSUME NEW s \in Site, NEW c \in Channel, Receive(s, c)
      PROVE AgreeInv'
  BY <1>4, MessageReceivedAgree, AckReceivedAgree, AnonPresentAgree,
     InitPresentAgree, AnonNegotiateAgree, InitNegotiateAgree,
     CloseWeakAgree, CloseAcceptAgree, CloseRejectAgree,
     ClearReferenceAgree DEF Receive
<1>5. ASSUME NEW s \in Site, NEW c \in Channel, EndOfFile(s, c)
      PROVE AgreeInv'
  BY <1>5, EndOfFileAgree
<1>6. ASSUME NEW s \in Site, NEW c \in Channel, IncompleteFrame(s, c)
      PROVE AgreeInv'
  BY <1>6, IncompleteFrameAgree
<1> QED BY <1>1, <1>2, <1>3, <1>4, <1>5, <1>6 DEF Next

LEMMA AgreeImplies == AgreeInv => WorkingAgree
<1> SUFFICES ASSUME AgreeInv, NEW s \in Site, conn[s].st = "WORKING",
                    conn[Peer(s)].st = "WORKING"
             PROVE /\ conn[s].ch = conn[Peer(s)].ch
                   /\ conn[s].lastSent = conn[Peer(s)].lastReceived
                         + NumberedIn(chan[conn[s].ch].to[Peer(s)])
  BY DEF WorkingAgree
<1> DEFINE p == Peer(s)
           c == conn[s].ch
           d == conn[p].ch
<1>1. c \in Channel /\ d \in Channel
  BY ViewOf DEF Proper, Staged
<1>2. Engaged(s, c) /\ Engaged(p, d)
  BY TalksAre DEF Engaged, EngagedOn
<1>3. c = d
  BY <1>1, <1>2 DEF AgreeInv, Together
<1>4. View(s, c)
  BY <1>1, ViewOf
<1>5. "WORKING" \in Counting
  BY TalksAre DEF Counting
<1>6. conn[s].lastSent = conn[p].lastReceived + NumberedIn(chan[c].to[p])
  BY <1>3, <1>4, <1>5 DEF View, Ends, End
<1> QED BY <1>3, <1>6

(* Two ComObjs that work agree: on the channel, and on how many messages   *)
(* have been numbered, counted and are on their way, whatever is opened,   *)
(* merged, refused, closed weakly and lost before.                         *)
THEOREM WorkingAgrees == Spec => []WorkingAgree
<1>1. IInv /\ AgreeInv /\ [Next]_vars => IInv' /\ AgreeInv'
  BY NextHolds, NextAgrees
<1>2. Init => IInv /\ AgreeInv
  BY InitHolds, InitAgrees
<1>3. IInv /\ AgreeInv => WorkingAgree
  BY AgreeImplies
<1> QED BY <1>1, <1>2, <1>3, PTL DEF Spec
=============================================================================
