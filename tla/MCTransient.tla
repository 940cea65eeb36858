----------------------------- MODULE MCTransient -----------------------------
(* Instances of OnceOnly and TransientRemote for TLC: every behaviour is   *)
(* one of the protocol that is chosen at the start.                        *)
EXTENDS TransientRemote, TLC

CONSTANT Protocols

VARIABLE protocol

O == INSTANCE OnceOnly

mcVars == <<protocol, vars>>

MCInit == protocol \in Protocols /\ Init

OnceOnlyStep(A) ==
    /\ protocol = "once_only"
    /\ A
    /\ UNCHANGED <<protocol, remoteVars>>

RemoteStep(A) ==
    /\ protocol = "transient_remote"
    /\ A
    /\ UNCHANGED protocol

MCNext == OnceOnlyStep(O!Next) \/ RemoteStep(Next)
MCSystem == OnceOnlyStep(O!System) \/ RemoteStep(System)

MCSpec == MCInit /\ [][MCNext]_mcVars /\ WF_mcVars(MCSystem)

(* What the environment does: bindings that race each other and a crash; a *)
(* need; a kill; a proxy that is collected and created again; a second one *)
(* that is, so that the write token crosses a deregistration.              *)
MCBudgets ==
    LET B == [bind |-> 1, need |-> 0, kill |-> 0, export |-> 2, leave |-> 0,
              crash |-> 0]
    IN  {[B EXCEPT !.bind = 2, !.crash = 1],
         [B EXCEPT !.need = 2],
         [B EXCEPT !.kill = 1],
         [B EXCEPT !.bind = 0, !.need = 1, !.export = 3, !.leave = 1],
         [B EXCEPT !.bind = 2, !.export = 3, !.leave = 2]}
=============================================================================
