------------------------------- MODULE Network -------------------------------
(***************************************************************************)
(* The messaging layer as the entity protocols of the DSS see it.          *)
(*                                                                         *)
(* Every site keeps one FIFO connection per remote site, which all its     *)
(* proxies and coordinators share (ComObj), and one FIFO queue of          *)
(* messages to itself (ImmediateEvents).  The loopback queue is emptied by *)
(* the heart beat in one uninterruptible sweep, so a message that a site   *)
(* sends to itself may be overtaken by messages of other sites until the   *)
(* sweep starts, and by none afterwards.                                   *)
(*                                                                         *)
(* A site may crash.  Another site that learns of it (FS_GLOBAL_PERM)      *)
(* drops the connection with everything still queued on it, and discards   *)
(* what it would send there later.                                         *)
(***************************************************************************)
EXTENDS Naturals, Sequences

CONSTANTS
    Site,       \* the DSS sites
    Home        \* the site of the coordinator of the entity

ASSUME HomeAssumption == Home \in Site

VARIABLES
    chan,       \* chan[<<s, d>>]: the messages from s to d, oldest first
    alive,      \* alive[s]: site s has not crashed
    perm,       \* perm[s]: the sites that s knows to be FS_GLOBAL_PERM
    draining    \* the sites in the middle of a sweep of their loopback queue

netVars == <<chan, alive, perm, draining>>

NetInit ==
    /\ chan = [l \in Site \X Site |-> <<>>]
    /\ alive = [s \in Site |-> TRUE]
    /\ perm = [s \in Site |-> {}]
    /\ draining = {}

-----------------------------------------------------------------------------
(* What a handler sends: out[d] is the sequence of messages for site d.    *)

Silent == [d \in Site |-> <<>>]

To(d, m) == [Silent EXCEPT ![d] = <<m>>]

Both(o1, o2) == [d \in Site |-> o1[d] \o o2[d]]

(* Site p sends out over the channels c.  Messages to a site known to be   *)
(* failed are deleted by m_sendMsg; messages to a crashed site that is not *)
(* yet known to be so would never be read and are not kept either.         *)
Sent(c, p, out) ==
    [l \in Site \X Site |->
        IF l[1] = p /\ alive[l[2]] /\ l[2] \notin perm[p]
        THEN c[l] \o out[l[2]]
        ELSE c[l]]

(* Site p is between two events: it may run threads, read its connections  *)
(* or collect garbage.                                                     *)
Idle(p) == alive[p] /\ p \notin draining

(* An operation of p itself that sends out.                                *)
Emit(p, out) ==
    /\ Idle(p)
    /\ chan' = Sent(chan, p, out)
    /\ UNCHANGED <<alive, perm, draining>>

(* Site p can process the oldest message from s.                           *)
CanRecv(s, p) ==
    /\ alive[p]
    /\ chan[<<s, p>>] # <<>>
    /\ p \in draining => s = p

(* Site p processes the oldest message from s and sends out.               *)
Consume(s, p, out) ==
    /\ chan' = Sent([chan EXCEPT ![<<s, p>>] = Tail(@)], p, out)
    /\ draining' = IF s # p THEN draining
                   ELSE IF chan'[<<p, p>>] # <<>> THEN draining \cup {p}
                        ELSE draining \ {p}
    /\ UNCHANGED <<alive, perm>>

(* Site s stops for ever.  What it has sent may still arrive.              *)
Crash(s) ==
    /\ alive[s]
    /\ alive' = [alive EXCEPT ![s] = FALSE]
    /\ chan' = [l \in Site \X Site |-> IF l[2] = s THEN <<>> ELSE chan[l]]
    /\ draining' = draining \ {s}
    /\ UNCHANGED perm

(* Site p learns that s has crashed; its reaction sends out.               *)
CanDetect(p, s) ==
    /\ Idle(p)
    /\ ~alive[s]
    /\ s \notin perm[p]

Detect(p, s, out) ==
    /\ perm' = [perm EXCEPT ![p] = @ \cup {s}]
    /\ chan' = Sent([chan EXCEPT ![<<s, p>>] = <<>>], p, out)
    /\ UNCHANGED <<alive, draining>>

-----------------------------------------------------------------------------
(* A message of the kind K (a set of messages) is on link l, nowhere, or   *)
(* at most once in the channels c.                                         *)
Carried(c, l, K) == \E i \in DOMAIN c[l] : c[l][i] \in K

NoneOf(c, K) ==
    \A l \in Site \X Site : \A i \in DOMAIN c[l] : c[l][i] \notin K

OnlyOne(c, K) ==
    \A k, l \in Site \X Site : \A i \in DOMAIN c[k], j \in DOMAIN c[l] :
        c[k][i] \in K /\ c[l][j] \in K => k = l /\ i = j
=============================================================================
