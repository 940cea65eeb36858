------------------------------ MODULE Connection ------------------------------
(***************************************************************************)
(* The logical connection between two DSS sites: one ComObj per site with  *)
(* its PrioQueues, over a sequence of TCP channels.                        *)
(*                                                                         *)
(* A ComObj opens a channel when it has something to send, presents itself *)
(* to the anonymous ComObj that accepts the channel at the other site, and *)
(* negotiates which messages have to be sent again.  When both sites open  *)
(* at the same time one of the two channels is closed (m_merge).  A ComObj *)
(* without need is closed weakly by the garbage collector.  A channel may  *)
(* be lost at any time; the messages that are not acknowledged are kept    *)
(* for that case.                                                          *)
(*                                                                         *)
(* C_CLOSE_HARD and C_SET_ACK_PROP are never sent (a_closeHardFlag is      *)
(* always false), so the states CLOSING_HARD, CLOSING_WF_DISCONNECT and    *)
(* CLOSED_WF_REMOTE cannot be reached and are left out, as are tickets,    *)
(* encryption and the continuations of messages larger than the buffer.    *)
(***************************************************************************)
EXTENDS Integers, Sequences, FiniteSets

CONSTANTS
    Site,           \* the two sites
    Small,          \* the smaller of the two in the order of the sites
    MsgAckLength,   \* an acknowledgement is sent after so many messages
    MaxChannels,    \* bound: channels that exist at the same time
    Budgets         \* bounds: what may happen in a behaviour

ASSUME SiteAssumption ==
    /\ IsFiniteSet(Site) /\ Cardinality(Site) = 2 /\ Small \in Site
    /\ MsgAckLength \in Nat \ {0} /\ MaxChannels \in Nat \ {0}

VARIABLES
    conn,       \* conn[s]: the ComObj of site s for the other site
    requests,   \* requests[s]: the pending calls of establishConnection
    chan,       \* chan[c]: the channels
    sent,       \* sent[s]: the number of messages the application of s sent
    got,        \* got[s]: the messages delivered to the application of s
    budget,     \* what may still happen
    broken      \* a channel has been lost

vars == <<conn, requests, chan, sent, got, budget, broken>>

Peer(s) == CHOOSE p \in Site : p # s

Channel == 1..MaxChannels
NoChannel == 0          \* a_transObj = NULL
LostChannel == -1       \* a_transObj is set, its channel is lost

-----------------------------------------------------------------------------
(* ComObj and PrioQueues.  q[4] holds what controls the connection, q[3]   *)
(* what is sent again, q[2] the messages of the application, q[0] pings.   *)
(* A queue of lower priority gets its turn after Q_PRIO_VAL = 10 messages  *)
(* of a higher one, more than the bounds allow.                            *)

NoQueued == [i \in {0, 2, 3, 4} |-> <<>>]

NewComObj ==
    [st |-> "CLOSED", ch |-> NoChannel, q |-> NoQueued, unacked |-> <<>>,
     lastSent |-> 0, lastReceived |-> 0, localRef |-> FALSE,
     remoteRef |-> FALSE, sentClearRef |-> FALSE, ackTimer |-> FALSE,
     writer |-> FALSE]

hasQueued(r) == \E i \in DOMAIN r.q : r.q[i] # <<>>
QueuesNeed(r) == hasQueued(r) \/ r.unacked # <<>>
hasNeed(r) == r.localRef \/ QueuesNeed(r)

(* The queue getNext takes from.                                           *)
Ready(r) ==
    {i \in DOMAIN r.q : r.q[i] # <<>> /\ (i = 4 \/ r.st = "WORKING")}

getNext(r) == CHOOSE i \in Ready(r) : \A j \in Ready(r) : j <= i

(* deliver registers a writer, which goes when it finds nothing to write.  *)
deliver(r) == [r EXCEPT !.writer = Ready(r) # {}]

m_open(r) ==
    IF r.ch = NoChannel THEN [r EXCEPT !.st = "OPENING_WF_HANDOVER"] ELSE r

m_send(r, m, prio) ==
    LET opened == IF r.st = "CLOSED" THEN m_open(r) ELSE r
        queued == [opened EXCEPT !.q[prio] = Append(@, m)]
    IN  IF \/ r.st = "WORKING" /\ ~hasQueued(r)
           \/ r.st \in {"ANONYMOUS_WF_PRESENT", "ANONYMOUS_WF_NEGOTIATE",
                        "OPENING_WF_PRESENT", "OPENING_WF_NEGOTIATE"}
        THEN deliver(queued)
        ELSE queued

Control(t) == [t |-> t]

clearTimers(r) == [r EXCEPT !.ackTimer = FALSE]

(* Mutant: the queues are dropped with the channel.                        *)
m_closeClears(r) ==
    [r EXCEPT !.st = "CLOSED", !.ch = NoChannel, !.q = NoQueued,
              !.ackTimer = FALSE, !.writer = FALSE]

m_close(r) ==
    [r EXCEPT !.st = "CLOSED", !.ch = NoChannel, !.q[4] = <<>>,
              !.ackTimer = FALSE, !.writer = FALSE]

sendAckExplicit(r) ==
    LET acked == IF hasQueued(r) THEN r ELSE m_send(r, Control("ACK"), 4)
    IN  [acked EXCEPT !.ackTimer = FALSE]

(* The callback working() of the site installs a probe, which pings when   *)
(* nothing else is going to be answered.                                   *)
working(r) ==
    LET w == [r EXCEPT !.st = "WORKING"]
    IN  IF QueuesNeed(w) THEN w ELSE m_send(w, Control("PING"), 0)

m_WORKING_2_CLOSING_WEAK(r) ==
    [m_send(clearTimers(r), Control("CLOSE_WEAK"), 4) EXCEPT
        !.st = "CLOSING_WEAK"]

m_CLOSING_WEAK_2_CLOSED(r) ==
    LET closed == m_close(r)
    IN  IF QueuesNeed(closed) THEN m_open(closed) ELSE closed

(* PrioQueues::msgAcked: the messages older than num go, and the next one, *)
(* whatever its number is.                                                 *)
Unacked(list, num) ==
    LET older == Cardinality({i \in DOMAIN list : list[i].num < num})
    IN  SubSeq(list, older + 2, Len(list))

msgAcked(r, num) == [r EXCEPT !.unacked = Unacked(@, num)]

CI(r) == [lastReceived |-> r.lastReceived, need |-> hasNeed(r)]

(* Mutant: the numbering goes on where it was.                             *)
extractCIKeepsNumber(r, ci) ==
    LET left == Unacked(r.unacked, ci.lastReceived)
    IN  [r EXCEPT !.remoteRef = ci.need,
                  !.q[3] = @ \o [i \in DOMAIN left |-> left[i].msg],
                  !.unacked = <<>>]

extractCI(r, ci) ==
    LET left == Unacked(r.unacked, ci.lastReceived)
    IN  [r EXCEPT !.remoteRef = ci.need,
                  !.q[3] = @ \o [i \in DOMAIN left |-> left[i].msg],
                  !.unacked = <<>>,
                  !.lastSent = ci.lastReceived]

(* What connectionLost makes of the ComObj that owns the channel.          *)
connectionLost(r) ==
    CASE r.st \in {"OPENING_WF_PRESENT", "OPENING_WF_NEGOTIATE", "WORKING"} ->
            m_open(m_close(r))
      [] r.st = "ANONYMOUS_WF_NEGOTIATE" -> m_close(r)
      [] r.st = "CLOSING_WEAK" -> m_CLOSING_WEAK_2_CLOSED(r)
      [] r.st = "CLOSED" ->
            LET lost == [r EXCEPT !.ch = LostChannel, !.writer = FALSE]
            IN  IF QueuesNeed(r) THEN m_open(lost) ELSE lost

-----------------------------------------------------------------------------
(* Channels.  to[s] holds the frames on their way to s; open[s] is FALSE   *)
(* once s has closed its end or seen it lost.  The end of the site that    *)
(* did not open the channel belongs to an anonymous ComObj until that has  *)
(* learnt who the other site is.                                           *)

Unused == [to |-> [s \in Site |-> <<>>], open |-> [s \in Site |-> FALSE],
           anonymous |-> {}]

Free(c) == \A s \in Site : ~chan[c].open[s]

Close(cs, s, c) ==
    IF c \in Channel
    THEN [cs EXCEPT ![c].open[s] = FALSE, ![c].to[s] = <<>>,
                    ![c].anonymous = @ \ {s}]
    ELSE cs

(* The ComObj of s becomes r, which closes the channel that r has left and *)
(* asks for a channel when r has started to open; cs are the channels      *)
(* otherwise.                                                              *)
Become(s, r, cs) ==
    /\ conn' = [conn EXCEPT ![s] = r]
    /\ chan' = IF r.ch = conn[s].ch THEN cs ELSE Close(cs, s, conn[s].ch)
    /\ requests' =
          IF r.st = "OPENING_WF_HANDOVER" /\ conn[s].st # r.st
          THEN [requests EXCEPT ![s] = @ + 1]
          ELSE requests

Spend(item) == budget[item] > 0 /\ budget' = [budget EXCEPT ![item] = @ - 1]

(* The ComObj of s is the owner of its end of channel c.                   *)
Owns(s, c) == conn[s].ch = c /\ chan[c].open[s]

Init ==
    /\ conn = [s \in Site |-> NewComObj]
    /\ requests = [s \in Site |-> 0]
    /\ chan = [c \in Channel |-> Unused]
    /\ sent = [s \in Site |-> 0]
    /\ got = [s \in Site |-> <<>>]
    /\ budget \in Budgets
    /\ broken = FALSE

-----------------------------------------------------------------------------
(* The application, the timers and the garbage collector.                  *)

(* Site::m_sendMsg.                                                        *)
m_sendMsg(s) ==
    /\ sent[s] < budget.messages[s]
    /\ sent' = [sent EXCEPT ![s] = @ + 1]
    /\ Become(s, [m_send(conn[s], [t |-> "APP", id |-> sent[s] + 1], 2)
                     EXCEPT !.localRef = TRUE], chan)
    /\ UNCHANGED <<got, budget, broken>>

(* sendProbePing, when the last probe has been answered.                   *)
sendProbePing(s) ==
    /\ conn[s].st = "WORKING" /\ ~QueuesNeed(conn[s])
    /\ Spend("pings")
    /\ Become(s, m_send(conn[s], Control("PING"), 0), chan)
    /\ UNCHANGED <<sent, got, broken>>

sendAckTimer(s) ==
    /\ conn[s].ackTimer
    /\ Become(s, sendAckExplicit(conn[s]), chan)
    /\ UNCHANGED <<sent, got, budget, broken>>

(* canBeFreed asks the other site to forget this one, or closes weakly.    *)
Released(r) ==
    LET clear == [m_send(r, Control("CLEAR_REFERENCE"), 4) EXCEPT
                     !.sentClearRef = TRUE]
        mayAsk == ~r.sentClearRef /\ r.st = "WORKING"
        asked == IF r.localRef /\ mayAsk
                 THEN [clear EXCEPT !.localRef = FALSE] ELSE r
    IN  IF QueuesNeed(r) THEN r
        ELSE IF r.remoteRef THEN (IF mayAsk THEN clear ELSE r)
        ELSE IF r.st = "WORKING" THEN m_WORKING_2_CLOSING_WEAK(asked)
        ELSE r

canBeFreed(r) ==
    /\ ~QueuesNeed(r) /\ ~r.remoteRef
    /\ r.st \in {"CLOSED", "OPENING_WF_HANDOVER"}

(* The collector finds no reference to the other site.  A freed ComObj in  *)
(* state CLOSED leaves its channel as it is.                               *)
gcSiteTable(s) ==
    /\ Spend("collections")
    /\ IF canBeFreed(conn[s])
       THEN /\ conn' = [conn EXCEPT ![s] = NewComObj]
            /\ UNCHANGED <<requests, chan>>
       ELSE Become(s, Released(conn[s]), chan)
    /\ UNCHANGED <<sent, got, broken>>

-----------------------------------------------------------------------------
(* Channels come, carry frames and go.                                     *)

(* The connection asked for is there.  If it is still wanted it is taken,  *)
(* and the other site accepts it with an anonymous ComObj that presents    *)
(* itself; otherwise it is closed at once.                                 *)
handover(s) ==
    /\ requests[s] > 0
    /\ \E c \in Channel :
          /\ Free(c) /\ \A d \in 1..(c - 1) : ~Free(d)
          /\ IF conn[s].st = "OPENING_WF_HANDOVER"
             THEN /\ conn' = [conn EXCEPT ![s].ch = c,
                                          ![s].st = "OPENING_WF_PRESENT"]
                  /\ chan' = [chan EXCEPT ![c] =
                        [to |-> [p \in Site |-> IF p = s
                                   THEN <<[t |-> "ANON_PRESENT", ack |-> 0]>>
                                   ELSE <<>>],
                         open |-> [p \in Site |-> TRUE],
                         anonymous |-> {Peer(s)}]]
             ELSE UNCHANGED <<conn, chan>>
    /\ requests' = [requests EXCEPT ![s] = @ - 1]
    /\ UNCHANGED <<sent, got, budget, broken>>

(* writeDataAvailable: the next message is marshalled with the number of   *)
(* the last one received.                                                  *)
writeDataAvailable(s) ==
    LET r == conn[s]
        i == getNext(r)
        m == Head(r.q[i])
        rest == [r EXCEPT !.q[i] = Tail(@),
                          !.ackTimer = @ /\ r.st # "WORKING"]
        marshalled == [f \in DOMAIN m \cup {"ack"} |->
                          IF f = "ack" THEN r.lastReceived ELSE m[f]]
        internal == i = 4
        gone == IF internal THEN rest
                ELSE [rest EXCEPT !.lastSent = @ + 1,
                          !.unacked = Append(@, [num |-> r.lastSent + 1,
                                                 msg |-> m])]
    IN  /\ r.writer /\ Ready(r) # {} /\ Owns(s, r.ch)
        /\ Become(s, deliver(gone),
                  [chan EXCEPT ![r.ch].to[Peer(s)] =
                      IF chan[r.ch].open[Peer(s)] THEN Append(@, marshalled)
                      ELSE @])
        /\ UNCHANGED <<sent, got, budget, broken>>

(* The end of s of channel c is lost; cs are the channels without it.      *)
Lost(s, c, cs) ==
    IF conn[s].ch = c
    THEN Become(s, connectionLost(conn[s]), cs)
    ELSE chan' = cs /\ UNCHANGED <<conn, requests>>

(* The other site has closed the channel and all it sent has been read.    *)
AtEnd(s, c) ==
    chan[c].open[s] /\ ~chan[c].open[Peer(s)] /\ chan[c].to[s] = <<>>

(* A read at the end of the channel returns 0, and the channel is lost if  *)
(* errno, which is left from an earlier call, classifies as EC_LOST.       *)
(* Otherwise nothing happens, and the event loop reads again.              *)
EndOfFile(s, c) ==
    /\ AtEnd(s, c)
    /\ Lost(s, c, Close(chan, s, c))
    /\ UNCHANGED <<sent, got, budget, broken>>

(* The channel breaks: s sees it lost, with what was on its way to s and   *)
(* some of what was on its way to the other site.                          *)
ChannelBreaks(s, c) ==
    /\ chan[c].open[s]
    /\ Spend("losses")
    /\ \E k \in 0..Len(chan[c].to[Peer(s)]) :
          Lost(s, c, Close([chan EXCEPT ![c].to[Peer(s)] = SubSeq(@, 1, k)],
                           s, c))
    /\ broken' = TRUE
    /\ UNCHANGED <<sent, got>>

-----------------------------------------------------------------------------
(* Frames.  unmarshal takes the acknowledgement out of the header before   *)
(* it looks whether the frame is complete, and before msgReceived looks at *)
(* the message.                                                            *)

Arrives(s, c, types) ==
    /\ chan[c].open[s] /\ chan[c].to[s] # <<>>
    /\ Head(chan[c].to[s]).t \in types

Consumed(s, c) == [chan EXCEPT ![c].to[s] = Tail(@)]

Frame(s, c) == Head(chan[c].to[s])

Acked(s, c) == msgAcked(conn[s], Frame(s, c).ack)

Open(r) == r.st \in {"WORKING", "CLOSING_WEAK"}

(* A frame of channel c turns the ComObj of s into r.                      *)
Handled(s, c, r) ==
    /\ Owns(s, c)
    /\ Become(s, r, Consumed(s, c))

(* Only the header of the frame can be read; it is put back, to be read    *)
(* again with the rest.                                                    *)
IncompleteFrame(s, c) ==
    /\ Owns(s, c) /\ chan[c].to[s] # <<>>
    /\ Become(s, Acked(s, c), chan)
    /\ UNCHANGED <<sent, got, budget, broken>>

(* An application message or a ping, numbered and acknowledged.            *)
MessageReceived(s, c) ==
    LET r == Acked(s, c)
        n == r.lastReceived + 1
        counted == [r EXCEPT !.lastReceived = n, !.remoteRef = TRUE]
    IN  /\ Arrives(s, c, {"APP", "PING"})
        /\ Handled(s, c,
               IF ~Open(r) THEN r
               ELSE IF Frame(s, c).t = "PING" \/ n % MsgAckLength = 0
               THEN sendAckExplicit(counted)
               ELSE [counted EXCEPT !.ackTimer = TRUE])
        /\ got' = IF Open(r) /\ Frame(s, c).t = "APP"
                  THEN [got EXCEPT ![s] = Append(@, Frame(s, c).id)] ELSE got
        /\ UNCHANGED <<sent, budget, broken>>

AckReceived(s, c) ==
    /\ Arrives(s, c, {"ACK"})
    /\ Handled(s, c, Acked(s, c))
    /\ UNCHANGED <<sent, got, budget, broken>>

(* m_OPENING_WF_PRESENT_2_OPENING_WF_NEGOTIATE.                            *)
AnonPresent(s, c) ==
    LET r == Acked(s, c)
        negotiating == [r EXCEPT !.st = "OPENING_WF_NEGOTIATE"]
    IN  /\ Arrives(s, c, {"ANON_PRESENT"})
        /\ r.st = "OPENING_WF_PRESENT"
        /\ Handled(s, c, m_send(negotiating,
               [t |-> "INIT_PRESENT", ci |-> CI(negotiating)], 4))
        /\ UNCHANGED <<sent, got, budget, broken>>

(* Mutant: the order of the sites is not looked at.                        *)
m_mergeUnordered(s, old) ==
    old.st \in {"OPENING_WF_HANDOVER", "CLOSING_WEAK", "CLOSED"}

(* m_merge: may the anonymous ComObj of s take the place of old?           *)
m_merge(s, old) ==
    \/ old.st \in {"OPENING_WF_HANDOVER", "CLOSING_WEAK", "CLOSED"}
    \/ /\ old.st \in {"OPENING_WF_PRESENT", "OPENING_WF_NEGOTIATE"}
       /\ s = Small

(* m_ANONYMOUS_WF_PRESENT_2_ANONYMOUS_WF_NEGOTIATE: the anonymous ComObj   *)
(* takes over the queues of the ComObj it replaces, or closes the channel. *)
InitPresent(s, c) ==
    LET old == conn[s]
        queues == IF old.st = "CLOSED" THEN old ELSE m_close(old)
        merged == extractCI([NewComObj EXCEPT
                                !.st = "ANONYMOUS_WF_PRESENT", !.ch = c,
                                !.q = queues.q, !.unacked = queues.unacked],
                            Frame(s, c).ci)
        answer == [t |-> "ANON_NEGOTIATE", ci |-> CI(merged)]
    IN  /\ Arrives(s, c, {"INIT_PRESENT"})
        /\ s \in chan[c].anonymous
        /\ IF m_merge(s, old)
           THEN Become(s, [m_send(merged, answer, 4) EXCEPT
                              !.st = "ANONYMOUS_WF_NEGOTIATE"],
                       [Consumed(s, c) EXCEPT ![c].anonymous = @ \ {s}])
           ELSE /\ chan' = Close(chan, s, c)
                /\ UNCHANGED <<conn, requests>>
        /\ UNCHANGED <<sent, got, budget, broken>>

(* m_OPENING_WF_NEGOTIATE_2_WORKING.                                       *)
AnonNegotiate(s, c) ==
    LET r == extractCI(Acked(s, c), Frame(s, c).ci)
    IN  /\ Arrives(s, c, {"ANON_NEGOTIATE"})
        /\ r.st = "OPENING_WF_NEGOTIATE"
        /\ Handled(s, c, working(m_send(r, Control("INIT_NEGOTIATE"), 4)))
        /\ UNCHANGED <<sent, got, budget, broken>>

(* m_ANONYMOUS_WF_NEGOTIATE_2_WORKING.                                     *)
InitNegotiate(s, c) ==
    LET r == working(Acked(s, c))
    IN  /\ Arrives(s, c, {"INIT_NEGOTIATE"})
        /\ conn[s].st = "ANONYMOUS_WF_NEGOTIATE"
        /\ Handled(s, c, IF hasQueued(r) THEN deliver(r) ELSE r)
        /\ UNCHANGED <<sent, got, budget, broken>>

CloseWeak(s, c) ==
    LET r == [Acked(s, c) EXCEPT !.remoteRef = FALSE]
        answer == IF hasNeed(r) THEN "CLOSE_REJECT" ELSE "CLOSE_ACCEPT"
        answered == clearTimers(m_send(r, Control(answer), 4))
    IN  /\ Arrives(s, c, {"CLOSE_WEAK"})
        /\ Handled(s, c,
               IF r.st # "WORKING" THEN r
               ELSE IF hasNeed(r) THEN working(answered)
               ELSE [answered EXCEPT !.st = "CLOSED"])
        /\ UNCHANGED <<sent, got, budget, broken>>

CloseAccept(s, c) ==
    LET r == Acked(s, c)
    IN  /\ Arrives(s, c, {"CLOSE_ACCEPT"})
        /\ Handled(s, c, IF r.st = "CLOSING_WEAK"
                         THEN m_CLOSING_WEAK_2_CLOSED(r) ELSE r)
        /\ UNCHANGED <<sent, got, budget, broken>>

(* Mutant: what was queued while closing is not delivered.                 *)
CloseRejectSilent(s, c) ==
    LET r == Acked(s, c)
    IN  /\ Arrives(s, c, {"CLOSE_REJECT"})
        /\ Handled(s, c, IF r.st # "CLOSING_WEAK" THEN r
                         ELSE working([r EXCEPT !.remoteRef = TRUE]))
        /\ UNCHANGED <<sent, got, budget, broken>>

CloseReject(s, c) ==
    LET r == Acked(s, c)
        back == working([r EXCEPT !.remoteRef = TRUE])
    IN  /\ Arrives(s, c, {"CLOSE_REJECT"})
        /\ Handled(s, c, IF r.st # "CLOSING_WEAK" THEN r
                         ELSE IF hasQueued(back) THEN deliver(back)
                         ELSE back)
        /\ UNCHANGED <<sent, got, budget, broken>>

ClearReference(s, c) ==
    LET r == Acked(s, c)
        cleared == [r EXCEPT !.remoteRef = FALSE]
    IN  /\ Arrives(s, c, {"CLEAR_REFERENCE"})
        /\ Handled(s, c, IF ~Open(r) THEN r
                         ELSE IF r.st = "WORKING" /\ ~hasNeed(cleared)
                         THEN m_WORKING_2_CLOSING_WEAK(cleared)
                         ELSE cleared)
        /\ UNCHANGED <<sent, got, budget, broken>>

-----------------------------------------------------------------------------

Receive(s, c) ==
    \/ MessageReceived(s, c) \/ AckReceived(s, c)
    \/ AnonPresent(s, c) \/ InitPresent(s, c)
    \/ AnonNegotiate(s, c) \/ InitNegotiate(s, c)
    \/ CloseWeak(s, c) \/ CloseAccept(s, c) \/ CloseReject(s, c)
    \/ ClearReference(s, c)

Environment(s) ==
    \/ m_sendMsg(s) \/ sendProbePing(s) \/ gcSiteTable(s)
    \/ \E c \in Channel : ChannelBreaks(s, c)

Next == \E s \in Site :
    \/ Environment(s)
    \/ sendAckTimer(s) \/ handover(s) \/ writeDataAvailable(s)
    \/ \E c \in Channel :
          EndOfFile(s, c) \/ IncompleteFrame(s, c) \/ Receive(s, c)

Spec == Init /\ [][Next]_vars

(* The event loop serves every channel and every timer, and the connection *)
(* procedure of the glue answers every request.  Nothing makes it report   *)
(* the end of a channel.                                                   *)
Fairness == \A s \in Site :
    /\ WF_vars(sendAckTimer(s)) /\ WF_vars(handover(s))
    /\ WF_vars(writeDataAvailable(s))
    /\ \A c \in Channel : WF_vars(Receive(s, c))

FairSpec == Spec /\ Fairness

-----------------------------------------------------------------------------
(* Properties.                                                             *)

(* How many of the messages in q count: the application's and the pings.   *)
NumberedIn(q) == Cardinality({i \in DOMAIN q : q[i].t \in {"APP", "PING"}})

(* Two ComObjs that work agree: they work on the same channel, whatever    *)
(* the order in which both sites open, lose and close channels and merge;  *)
(* and what one has numbered is what the other has counted and what is on  *)
(* its way, although messages carry no numbers: createCI and extractCI     *)
(* restore it, and the meaning of an acknowledgement rests on it.          *)
WorkingAgree ==
    \A s \in Site :
        LET p == Peer(s)
            c == conn[s].ch
        IN  conn[s].st = "WORKING" /\ conn[p].st = "WORKING" =>
            /\ c = conn[p].ch
            /\ conn[s].lastSent =
                  conn[p].lastReceived + NumberedIn(chan[c].to[p])

(* m_send does not register a writer when something is queued already, so  *)
(* a working ComObj with queued messages must have one, or they wait until *)
(* the channel is lost.                                                    *)
WriterWaits ==
    \A s \in Site :
        conn[s].st = "WORKING" /\ hasQueued(conn[s]) => conn[s].writer

(* The messages of s that s still holds, or that are on a channel the      *)
(* other site still reads.                                                 *)
HeldBy(s) ==
    LET r == conn[s]
        p == Peer(s)
        ids(q) == {q[i].id : i \in {j \in DOMAIN q : q[j].t = "APP"}}
    IN  ids(r.q[2]) \cup ids(r.q[3])
        \cup ids([i \in DOMAIN r.unacked |-> r.unacked[i].msg])
        \cup UNION {ids(chan[c].to[p]) : c \in {d \in Channel : Owns(p, d)}}

(* Messages are not lost: a message is delivered, or its sender still has  *)
(* it, or it is on the way.  "Reliable in order communication" is what     *)
(* m_clearQueues says only a permanent failure may end.                    *)
Reliable ==
    \A s \in Site :
        1..sent[s] \subseteq HeldBy(s) \cup
            {got[Peer(s)][i] : i \in DOMAIN got[Peer(s)]}

(* As long as no channel breaks, messages arrive in the order in which     *)
(* they were sent, once, and none is lost, although both sites open        *)
(* channels at the same time, merge, close weakly and open again.          *)
FifoUnlessBroken ==
    ~broken => \A s \in Site :
        LET n == Len(got[Peer(s)])
        IN  /\ got[Peer(s)] = [i \in 1..n |-> i]
            /\ (n + 1)..sent[s] \subseteq HeldBy(s)

(* No end of a channel stays unreported for ever.  The code does not make  *)
(* sure of it: see EndOfFile.                                              *)
EndsReported == \A s \in Site : \A c \in Channel : []<>~AtEnd(s, c)

(* A message that waits in the queues of a ComObj is written in the end:   *)
(* "Eventually we will have a channel" (m_send), although openings cross,  *)
(* channels break and are refused, and closes are rejected.  This holds if *)
(* the ends of channels are reported, with two exceptions: a ComObj left   *)
(* in state CLOSED, after a weak close it has accepted or a channel lost   *)
(* while it was anonymous, does not open; and two sites that close weakly  *)
(* at the same time wait for each other.                                   *)
QueuesDrain ==
    EndsReported =>
        \A s \in Site :
            hasQueued(conn[s]) ~>
                \/ ~hasQueued(conn[s]) \/ conn[s].st = "CLOSED"
                \/ \A p \in Site : conn[p].st = "CLOSING_WEAK"
=============================================================================
