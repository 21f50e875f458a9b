------------------------------ MODULE NNSDeploy ------------------------------
(***************************************************************************)
(* initNNSContract of pkg/morph/deploy/nns.go: every node runs a loop that *)
(* reads the contract with ID=1 and, when it is missing and the node holds *)
(* deployment authority (initCommitteeGroupKey is set), sends a deployment *)
(* transaction, remembering its ValidUntilBlock (VUB) so as not to send    *)
(* another one while the first may still be accepted.  Between iterations  *)
(* the loop waits for the next block of the node's blockchainMonitor.      *)
(*                                                                         *)
(* The chain is the environment: a block includes at most one transaction *)
(* of the pool, a transaction is valid up to its VUB, and a deployment     *)
(* creates a contract whose hash is determined by the sender (the NEF and  *)
(* the manifest name being the same everywhere).  The first contract ever  *)
(* created gets ID=1.                                                      *)
(***************************************************************************)
EXTENDS Naturals, FiniteSets

CONSTANTS
    MaxHeight,      \* the chain produces blocks up to this index (model bound)
    Nodes,          \* operator processes running initNNSContract
    Deployers,      \* nodes whose initCommitteeGroupKey is set
    VubIncrement,   \* blocks a sent transaction stays valid for
    MaxRestarts,    \* times a node's process may be restarted (model bound)
    AmbiguousSend,  \* a failed Deploy call may still have reached the pool
    NoContract,     \* ID=1 is not taken
    Foreign         \* ID=1 is taken by a contract that is not NameService

ASSUME DeployAssumption ==
    /\ MaxHeight \in Nat \ {0}
    /\ Deployers \subseteq Nodes
    /\ VubIncrement \in Nat \ {0}
    /\ MaxRestarts \in Nat
    /\ AmbiguousSend \in BOOLEAN
    /\ NoContract \notin Nodes \cup {Foreign}
    /\ Foreign \notin Nodes

VARIABLES
    chainHeight, delivered, height, newBlockSignal, subscribed, blockChOpen,
    listening, wpc, waitFrom, ctxDone,   \* see BlockchainMonitor
    nns,        \* the contract with ID=1: NoContract, Foreign, or its sender
    strays,     \* senders of NameService copies created with an ID other than 1
    pool,       \* transactions sent and still valid
    nsent,      \* per node: number of transactions sent (their identity)
    dpc,        \* per node: position in initNNSContract
    sentVub,    \* per node: sentTxValidUntilBlock
    groupKey,   \* per node: committeeGroupKey != nil
    mgmt,       \* per node: managementContract != nil (and the manifest co-signed)
    result,     \* per node: address returned by initNNSContract
    restarts    \* per node: restarts so far

(* Each node's blockchainMonitor and its waitForNextBlock.                  *)
Mon == INSTANCE BlockchainMonitor

monitorVars == <<delivered, height, newBlockSignal, subscribed, blockChOpen, listening>>
waitVars   == <<wpc, waitFrom, ctxDone>>
chainVars  == <<chainHeight, nns, strays, pool, nsent>>
loopVars   == <<dpc, sentVub, groupKey, mgmt, result, restarts>>
vars       == <<chainVars, monitorVars, waitVars, loopVars>>

Vubs == 0..MaxHeight + VubIncrement
(* A transaction records, besides its sender and VUB, its identity (seq)   *)
(* and the call of initNNSContract that sent it (call: the sender's        *)
(* restart count at the time); neither is read by the code.                *)
Tx   == [from : Nodes, vub : Vubs, seq : Nat, call : 0..MaxRestarts]
Addresses == Nodes \cup {NoContract, Foreign}

-----------------------------------------------------------------------------
(* The chain.                                                              *)

(* A transaction can still be included in the next block.                  *)
Valid(t, h) == t.vub >= h + 1

(* Executing the deployment sent by node s: a contract with the same hash  *)
(* already existing makes it fail, otherwise the contract is created and   *)
(* takes ID=1 when that ID is free.                                        *)
ExecDeploy(s) ==
    IF s = nns \/ s \in strays THEN UNCHANGED <<nns, strays>>
    ELSE IF nns = NoContract THEN nns' = s /\ UNCHANGED strays
    ELSE strays' = strays \cup {s} /\ UNCHANGED nns

(* The next block: empty, or holding one pool transaction that executes or *)
(* faults (for example, for lack of GAS).  Transactions whose VUB the new  *)
(* block reaches are dropped from the pool.                                *)
NewBlock ==
    /\ Mon!ChainAdvance
    /\ \/ UNCHANGED <<nns, strays>> /\ pool' = {t \in pool : Valid(t, chainHeight')}
       \/ \E t \in pool :
             /\ ExecDeploy(t.from) \/ UNCHANGED <<nns, strays>>
             /\ pool' = {u \in pool \ {t} : Valid(u, chainHeight')}
    /\ UNCHANGED nsent

-----------------------------------------------------------------------------
(* The loop of node n.                                                     *)

(* `continue`: the iteration ends and waitForNextBlock(ctx) starts.        *)
EndIteration(n) ==
    /\ Mon!BeginWait(n)
    /\ dpc' = [dpc EXCEPT ![n] = "iter"]

(* The contract with ID=1 is the NameService contract (nns.go:117-123).    *)
IsNNS(c) == c \in Nodes

(* Mutant: the relevance check of the earlier transaction is dropped.      *)
PrevTxIgnored(n) == FALSE

(* A deployment sent earlier may still be accepted: its VUB has not been   *)
(* passed by the monitor's current height (nns.go:147-157).                *)
PrevTxMayLand(n) == sentVub[n] > 0 /\ height[n] <= sentVub[n]

(* Top of an iteration, up to the decision to send (nns.go:102-157).       *)
ReadState(n) ==
    /\ dpc[n] = "iter" /\ wpc[n] = "idle"
    /\ \/ /\ ctxDone[n]
          /\ dpc' = [dpc EXCEPT ![n] = "cancelled"]
          /\ UNCHANGED <<wpc, waitFrom, sentVub, groupKey, result>>
       \/ /\ ~ctxDone[n]
          /\ \/ \* readNNSOnChainState fails
                EndIteration(n) /\ UNCHANGED <<sentVub, groupKey, result>>
             \/ /\ nns # NoContract /\ ~IsNNS(nns)
                /\ dpc' = [dpc EXCEPT ![n] = "failed"]
                /\ UNCHANGED <<wpc, waitFrom, sentVub, groupKey, result>>
             \/ /\ IsNNS(nns)
                /\ dpc' = [dpc EXCEPT ![n] = "done"]
                /\ result' = [result EXCEPT ![n] = nns]
                /\ UNCHANGED <<wpc, waitFrom, sentVub, groupKey>>
             \/ /\ nns = NoContract /\ n \notin Deployers
                /\ EndIteration(n) /\ UNCHANGED <<sentVub, groupKey, result>>
             \/ /\ nns = NoContract /\ n \in Deployers
                /\ ~groupKey[n]     \* initCommitteeGroupKey fails
                /\ EndIteration(n) /\ UNCHANGED <<sentVub, groupKey, result>>
             \/ /\ nns = NoContract /\ n \in Deployers
                /\ groupKey' = [groupKey EXCEPT ![n] = TRUE]
                /\ IF PrevTxMayLand(n)
                   THEN EndIteration(n)
                   ELSE dpc' = [dpc EXCEPT ![n] = "send"] /\ UNCHANGED <<wpc, waitFrom>>
                /\ UNCHANGED <<sentVub, result>>
    /\ UNCHANGED <<mgmt, chainVars>>

(* Mutant: the VUB is one block past what the actor grants.              *)
TxVubOffByOne == chainHeight + VubIncrement + 1

(* ValidUntilBlock the actor gives a transaction sent at the chain's       *)
(* current height.                                                         *)
TxVub == chainHeight + VubIncrement

(* managementContract.Deploy: the dry run fails when this node's contract  *)
(* already exists; otherwise the transaction is sent with VUB relative to  *)
(* the chain's current height, or the call fails (not enough GAS, RPC      *)
(* error) and sentTxValidUntilBlock is reset to 0.  With AmbiguousSend a   *)
(* failed call may have reached the pool anyway (lost response).           *)
DeployCall(n) ==
    LET tx == [from |-> n, vub |-> TxVub, seq |-> nsent[n] + 1, call |-> restarts[n]]
        Enter == /\ pool' = pool \cup {tx}
                 /\ nsent' = [nsent EXCEPT ![n] = @ + 1]
    IN \/ /\ nns # n /\ Enter
          /\ sentVub' = [sentVub EXCEPT ![n] = tx.vub]
       \/ /\ sentVub' = [sentVub EXCEPT ![n] = 0]
          /\ UNCHANGED <<pool, nsent>>
       \/ /\ AmbiguousSend /\ nns # n /\ Enter
          /\ sentVub' = [sentVub EXCEPT ![n] = 0]

(* Sending the deployment (nns.go:159-195): the management contract actor  *)
(* is built once, and the manifest co-signed with the group key then.      *)
SendDeploy(n) ==
    /\ dpc[n] = "send"
    /\ \/ /\ ~mgmt[n]      \* actor.NewSimple fails
          /\ UNCHANGED <<mgmt, sentVub, pool, nsent>>
       \/ /\ mgmt' = [mgmt EXCEPT ![n] = TRUE]
          /\ DeployCall(n)
    /\ EndIteration(n)
    /\ UNCHANGED <<nns, strays, chainHeight, groupKey, result, restarts>>

(* The node's process restarts and calls initNNSContract again with a new  *)
(* monitor and context: nothing of the previous run is remembered.         *)
Restart(n) ==
    /\ restarts[n] < MaxRestarts
    /\ restarts' = [restarts EXCEPT ![n] = @ + 1]
    /\ Mon!MonitorStarted(n)
    /\ wpc' = [wpc EXCEPT ![n] = "idle"]
    /\ ctxDone' = [ctxDone EXCEPT ![n] = FALSE]
    /\ dpc' = [dpc EXCEPT ![n] = "iter"]
    /\ sentVub' = [sentVub EXCEPT ![n] = 0]
    /\ groupKey' = [groupKey EXCEPT ![n] = FALSE]
    /\ mgmt' = [mgmt EXCEPT ![n] = FALSE]
    /\ result' = [result EXCEPT ![n] = NoContract]
    /\ UNCHANGED <<chainVars, waitFrom>>

LoopInit ==
    /\ dpc = [n \in Nodes |-> "iter"]
    /\ sentVub = [n \in Nodes |-> 0]
    /\ groupKey = [n \in Nodes |-> FALSE]
    /\ mgmt = [n \in Nodes |-> FALSE]
    /\ result = [n \in Nodes |-> NoContract]
    /\ restarts = [n \in Nodes |-> 0]

-----------------------------------------------------------------------------
Init ==
    /\ Mon!MonitorInit
    /\ Mon!WaitInit
    /\ LoopInit
    /\ nns \in {NoContract, Foreign}
    /\ strays = {}
    /\ pool = {}
    /\ nsent = [n \in Nodes |-> 0]

Next ==
    \/ NewBlock /\ UNCHANGED <<monitorVars, waitVars, loopVars>>
    \/ \E n \in Nodes :
          \/ Mon!ReceiveBlock(n) /\ UNCHANGED <<chainVars, waitVars, loopVars>>
          \/ Mon!WaitTick(n) /\ UNCHANGED <<chainVars, monitorVars, waitFrom, ctxDone, loopVars>>
          \/ Mon!WaitCancelled(n) /\ UNCHANGED <<chainVars, monitorVars, waitFrom, ctxDone, loopVars>>
          \/ Mon!CancelCtx(n) /\ UNCHANGED <<chainVars, monitorVars, wpc, waitFrom, loopVars>>
          \/ ReadState(n) /\ UNCHANGED <<monitorVars, ctxDone, restarts>>
          \/ SendDeploy(n) /\ UNCHANGED <<monitorVars, ctxDone>>
          \/ Restart(n)

Spec == Init /\ [][Next]_vars

-----------------------------------------------------------------------------
TypeOK ==
    /\ chainHeight \in Mon!Heights
    /\ delivered \in [Nodes -> Mon!Heights]
    /\ height \in [Nodes -> 0..MaxHeight + 1]
    /\ wpc \in [Nodes -> {"idle", "waiting"}]
    /\ waitFrom \in [Nodes -> 0..MaxHeight + 1]
    /\ ctxDone \in [Nodes -> BOOLEAN]
    /\ nns \in Addresses
    /\ strays \subseteq Nodes
    /\ pool \subseteq Tx
    /\ nsent \in [Nodes -> Nat]
    /\ dpc \in [Nodes -> {"iter", "send", "done", "failed", "cancelled"}]
    /\ sentVub \in [Nodes -> Vubs]
    /\ groupKey \in [Nodes -> BOOLEAN]
    /\ mgmt \in [Nodes -> BOOLEAN]
    /\ result \in [Nodes -> Addresses]
    /\ restarts \in [Nodes -> 0..MaxRestarts]

(* No duplicate deployment while one is pending (spec 4.4, 8): a node      *)
(* never has two deployment transactions that can both still be accepted.  *)
(* It rests on the monitor's height never being ahead of the chain, read   *)
(* after a wait, and on the VUB remembered across loop iterations.         *)
NoDuplicateDeploy ==
    \A t, u \in pool : t.from = u.from => t = u

(* The promise that one call of initNNSContract keeps whatever happens to  *)
(* the process: while a deployment it sent may still be accepted, the same *)
(* call never sends another one.  Duplicates come only from a restart,     *)
(* which starts a new call with sentTxValidUntilBlock = 0.                 *)
NoDuplicateInCall ==
    \A t, u \in pool : t.from = u.from /\ t.call = u.call => t = u

=============================================================================
