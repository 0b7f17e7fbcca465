---- MODULE Handovers ----
(***************************************************************************)
(* Four machines that share no state, side by side: every behaviour is one *)
(* of a single machine, named by `part`, while the others stay where they  *)
(* begin.                                                                  *)
(***************************************************************************)
EXTENDS ProposalApply, RemoteQueue, RunOutput

VARIABLE part

hvars == <<part, pvars, qvars, ovars>>

HandoversInit ==
    /\ part \in {"proposal", "queue", "log", "ring"}
    /\ ProposalInit /\ QueueInit /\ OutputInit

HandoversNext ==
    \/ part = "proposal" /\ ProposalNext /\ UNCHANGED <<part, qvars, ovars>>
    \/ part = "queue" /\ QueueNext /\ UNCHANGED <<part, pvars, ovars>>
    \/ part = "log" /\ LogNext /\ UNCHANGED <<part, pvars, qvars>>
    \/ part = "ring" /\ RingNext /\ UNCHANGED <<part, pvars, qvars>>

HandoversSpec == HandoversInit /\ [][HandoversNext]_hvars

-----------------------------------------------------------------------------
\* Every machine keeps to its domains; for the remote queue (remote.ts) that includes
\* the bound on the jobs it holds.
TypesOK == ProposalTypeOK /\ QueueTypeOK /\ OutputTypeOK
====
