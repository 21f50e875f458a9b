---------------------------- MODULE UpdateAbstract ----------------------------
(***************************************************************************)
(* What the update orchestration promises (updateNNSContract, spec 4.5),   *)
(* stated without blocks, transactions, probes or Notary deposits.         *)
(*                                                                         *)
(* The chain holds one NNS contract, identified by its NEF, or none.  The  *)
(* contract is only ever replaced by the local NEF of a committee node     *)
(* whose version is strictly greater.  Each node's orchestration ends at   *)
(* most once: in success only when the chain already runs its version or a *)
(* newer one, in the "same version, different checksum" error only when    *)
(* the chain's version equals its own, in a fatal error, or cancelled.     *)
(***************************************************************************)
EXTENDS Naturals

CONSTANTS Nodes, Nefs, Version, LocalNef, NoContract

VARIABLES
    chain,      \* NEF of the NNS contract on the chain, or NoContract
    status      \* per node: "running" or how its orchestration ended

vars == <<chain, status>>

Outcomes == {"running", "done", "failed", "inconsistent", "cancelled"}

Init ==
    /\ chain \in Nefs \cup {NoContract}
    /\ status = [n \in Nodes |-> "running"]

(* A committee node's update lands: the version strictly increases.        *)
Upgrade(n) ==
    /\ chain # NoContract
    /\ Version[chain] < Version[LocalNef[n]]
    /\ chain' = LocalNef[n]
    /\ UNCHANGED status

Ended(n, outcome) ==
    /\ status[n] = "running"
    /\ status' = [status EXCEPT ![n] = outcome]
    /\ UNCHANGED chain

(* Success: the chain runs the local version or a newer one.               *)
Succeed(n) ==
    /\ chain # NoContract
    /\ Version[chain] >= Version[LocalNef[n]]
    /\ Ended(n, "done")

(* The inconsistency error: the chain's version is the local one.          *)
Inconsistent(n) ==
    /\ chain # NoContract
    /\ Version[chain] = Version[LocalNef[n]]
    /\ Ended(n, "inconsistent")

Next ==
    \E n \in Nodes :
        \/ Upgrade(n)
        \/ Succeed(n)
        \/ Inconsistent(n)
        \/ Ended(n, "failed")
        \/ Ended(n, "cancelled")

(* A stuttering step is written first: it is the same formula, and most   *)
(* steps of an implementation leave this state unchanged.                 *)
Spec == Init /\ [][UNCHANGED vars \/ Next]_vars

=============================================================================
