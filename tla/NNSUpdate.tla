------------------------------ MODULE NNSUpdate ------------------------------
(***************************************************************************)
(* updateNNSContract of pkg/morph/deploy/nns.go: every committee node runs *)
(* a loop that reads the NNS contract, compares its NEF checksum and then  *)
(* its version with the local ones and, when the local contract is newer,  *)
(* probes the 'update' call (MakeCall) and sends it through the Notary     *)
(* service (Notarize), remembering the VUB of the sent transaction.        *)
(* Notary deposit problems are handed to onNotaryDepositDeficiency.        *)
(*                                                                         *)
(* A contract is identified by its NEF; Version gives the version each NEF *)
(* reports.  The chain executes an update only when it raises the version  *)
(* (the contract's own check, which fails with "already updated").  A      *)
(* notarized transaction is modelled by its main transaction: collecting   *)
(* the committee's signatures is left to the Notary service.               *)
(***************************************************************************)
EXTENDS Naturals, FiniteSets

CONSTANTS
    MaxHeight,      \* the chain produces blocks up to this index (model bound)
    Nodes,          \* committee nodes running updateNNSContract
    Nefs,           \* NEF files of the contract
    Version,        \* version reported by each NEF
    LocalNef,       \* per node: its local NEF
    InitialNef,     \* NEF of the NNS contract on the chain at start
    VubIncrement,   \* blocks a sent transaction stays valid for
    NoContract,     \* the contract with ID=1 is missing
    LostNotaryResponse \* a failed Notarize call may still have reached the pool

ASSUME UpdateAssumption ==
    /\ MaxHeight \in Nat \ {0}
    /\ Version \in [Nefs -> Nat]
    /\ LocalNef \in [Nodes -> Nefs]
    /\ InitialNef \in Nefs
    /\ VubIncrement \in Nat \ {0}
    /\ NoContract \notin Nefs
    /\ LostNotaryResponse \in BOOLEAN

VARIABLES
    chainHeight, delivered, height, newBlockSignal, subscribed, blockChOpen,
    listening, wpc, waitFrom, ctxDone,   \* see BlockchainMonitor
    nnsNef,     \* NEF of the contract with ID=1, or NoContract
    nnsGroup,   \* the manifest of that contract carries the committee group
    pool,       \* update transactions sent and still valid
    nsent,      \* per node: number of transactions sent (their identity)
    deposit,    \* per node: its Notary deposit covers a request
    upc,        \* per node: position in updateNNSContract
    updVub,     \* per node: updateTxValidUntilBlock
    manifestGroup, \* per node: prm.localManifest carries the committee group
    jsonGroup      \* per node: jLocalManifest (its JSON encoding) carries it

Mon == INSTANCE BlockchainMonitor

monitorVars == <<delivered, height, newBlockSignal, subscribed, blockChOpen, listening>>
waitVars    == <<wpc, waitFrom, ctxDone>>
chainVars   == <<chainHeight, nnsNef, nnsGroup, pool, nsent, deposit>>
loopVars    == <<upc, updVub, manifestGroup, jsonGroup>>
vars        == <<chainVars, monitorVars, waitVars, loopVars>>

Vubs == 0..MaxHeight + VubIncrement
Tx   == [from : Nodes, nef : Nefs, group : BOOLEAN, vub : Vubs, seq : Nat]

(* Notary and RPC error classes: isErrNotEnoughGAS, isErrNotaryDepositExpires *)
(* and every other error.                                                 *)
ErrorClasses == {"lackOfGAS", "depositExpires", "other"}

-----------------------------------------------------------------------------
(* The chain.                                                              *)

Valid(t, h) == t.vub >= h + 1

(* The contract's update method fails when the NEF sent is not newer.      *)
AlreadyUpdated(nef) == Version[nnsNef] >= Version[nef]

(* The next block: empty, or holding one pool transaction that updates the *)
(* contract, or fails (already updated, or a fault).                       *)
NewBlock ==
    /\ Mon!ChainAdvance
    /\ \/ UNCHANGED <<nnsNef, nnsGroup>> /\ pool' = {t \in pool : Valid(t, chainHeight')}
       \/ \E t \in pool :
             /\ \/ ~AlreadyUpdated(t.nef) /\ nnsNef' = t.nef /\ nnsGroup' = t.group
                \/ UNCHANGED <<nnsNef, nnsGroup>>
             /\ pool' = {u \in pool \ {t} : Valid(u, chainHeight')}
    /\ UNCHANGED <<nsent, deposit>>

(* A node's Notary deposit runs low or reaches its expiry.                 *)
DepositRunsOut(n) ==
    /\ deposit[n]
    /\ deposit' = [deposit EXCEPT ![n] = FALSE]
    /\ UNCHANGED <<chainHeight, nnsNef, nnsGroup, pool, nsent>>

-----------------------------------------------------------------------------
(* The loop of node n.                                                     *)

EndIteration(n) ==
    /\ Mon!BeginWait(n)
    /\ upc' = [upc EXCEPT ![n] = "iter"]

(* Before the loop (nns.go:267-287): encoding the local NEF and manifest,  *)
(* building the committee Notary actor and reading the local version;      *)
(* any failure ends updateNNSContract with an error.  The manifest is      *)
(* encoded here, once, as it is before the loop sets the group in it.      *)
Prepare(n) ==
    /\ upc[n] = "prepare"
    /\ jsonGroup' = [jsonGroup EXCEPT ![n] = manifestGroup[n]]
    /\ upc' = [upc EXCEPT ![n] = "iter"] \/ upc' = [upc EXCEPT ![n] = "failed"]
    /\ UNCHANGED <<updVub, manifestGroup, chainVars, waitVars>>

(* readNNSOnChainState and the NEF checksum comparison (nns.go:292-318).   *)
ReadState(n) ==
    /\ upc[n] = "iter" /\ wpc[n] = "idle"
    /\ \/ /\ ctxDone[n]
          /\ upc' = [upc EXCEPT ![n] = "cancelled"]
          /\ UNCHANGED <<wpc, waitFrom>>
       \/ /\ ~ctxDone[n]
          /\ \/ EndIteration(n)        \* the read fails
             \/ /\ nnsNef = NoContract
                /\ upc' = [upc EXCEPT ![n] = "failed"]
                /\ UNCHANGED <<wpc, waitFrom>>
             \/ /\ nnsNef = LocalNef[n]
                /\ upc' = [upc EXCEPT ![n] = "done"]
                /\ UNCHANGED <<wpc, waitFrom>>
             \/ /\ nnsNef \notin {NoContract, LocalNef[n]}
                /\ upc' = [upc EXCEPT ![n] = "version"]
                /\ UNCHANGED <<wpc, waitFrom>>
    /\ UNCHANGED <<updVub, manifestGroup, jsonGroup, chainVars, ctxDone>>

(* localVersion.cmp(versionOnChain) == -1, the version being read from the *)
(* contract on the chain NOW, after the checksum was read (nns.go:320-329). *)
LocalIsBehind(n) == Version[LocalNef[n]] < Version[nnsNef]

(* Mutant: the checksums are compared again instead of the versions.      *)
SameVersionByChecksum(n) == LocalNef[n] # nnsNef

SameVersion(n) == Version[LocalNef[n]] = Version[nnsNef]

(* Mutant: every MakeCall error is taken for "already updated".            *)
ProbeSaysUpdatedAnyError(n, probeErr) == probeErr # "none"

(* isErrContractAlreadyUpdated on the MakeCall error (nns.go:350-356).     *)
ProbeSaysUpdated(n, probeErr) == probeErr = "alreadyUpdated"

(* Mutant: the relevance check of the earlier transaction is dropped.      *)
PrevUpdateIgnored(n) == FALSE

(* An update sent earlier may still be accepted (nns.go:358-368).          *)
PrevUpdateMayLand(n) == updVub[n] > 0 /\ height[n] <= updVub[n]

(* Error handling after MakeCall or Notarize (nns.go:374-393): lack of GAS *)
(* (of the Notary deposit) and an expiring deposit go to                   *)
(* onNotaryDepositDeficiency, which may top the deposit up; every error    *)
(* ends the iteration.                                                     *)
HandleError(n, class) ==
    /\ IF class = "other"
       THEN UNCHANGED deposit
       ELSE deposit' = [deposit EXCEPT ![n] = TRUE] \/ UNCHANGED deposit
    /\ EndIteration(n)

(* Outcomes of MakeCall: its dry run of 'update' fails with "already       *)
(* updated" when the chain already has this version or a newer one, and   *)
(* any RPC call can fail.                                                  *)
ProbeOutcomes(n) ==
    (IF AlreadyUpdated(LocalNef[n]) THEN {"alreadyUpdated"} ELSE {"none"})
        \cup ErrorClasses

(* Outcomes of Notarize: without deposit the request fails for lack of GAS. *)
NotarizeOutcomes(n) ==
    IF deposit[n] THEN {"none", "depositExpires", "other"}
    ELSE {"lackOfGAS", "depositExpires"}

(* Mutant: the VUB is one block past what the actor grants.              *)
TxVubOffByOne == chainHeight + VubIncrement + 1

(* ValidUntilBlock the actor gives a transaction sent at the chain's       *)
(* current height.                                                         *)
TxVub == chainHeight + VubIncrement

(* Reading the on-chain version and comparing it with the local one       *)
(* (nns.go:320-341): the loop returns when the local contract is not      *)
(* newer; otherwise it builds the extra arguments and sets the committee  *)
(* group in the local manifest.  Blocks may land before the next RPC.     *)
ReadVersion(n) ==
    /\ upc[n] = "version"
    /\ \/ EndIteration(n) /\ UNCHANGED manifestGroup  \* readContractOnChainVersion fails
       \/ /\ LocalIsBehind(n)
          /\ upc' = [upc EXCEPT ![n] = "done"]
          /\ UNCHANGED <<wpc, waitFrom, manifestGroup>>
       \/ /\ SameVersion(n)
          /\ upc' = [upc EXCEPT ![n] = "inconsistent"]
          /\ UNCHANGED <<wpc, waitFrom, manifestGroup>>
       \/ /\ ~LocalIsBehind(n) /\ ~SameVersion(n)
          /\ \/ EndIteration(n) /\ UNCHANGED manifestGroup  \* extra arguments fail
             \/ /\ manifestGroup' = [manifestGroup EXCEPT ![n] = TRUE]
                /\ upc' = [upc EXCEPT ![n] = "send"]
                /\ UNCHANGED <<wpc, waitFrom>>
    /\ UNCHANGED <<chainVars, updVub, jsonGroup, ctxDone>>

(* MakeCall's dry run of 'update' on the chain as it is now, and, when it  *)
(* succeeds, the relevance check of the earlier update and Notarize        *)
(* (nns.go:343-398).  "already updated" from the dry run is success.      *)
(* updateTxValidUntilBlock is set only when Notarize succeeds; with        *)
(* LostNotaryResponse, a request that failed with an RPC error may have    *)
(* reached the pool anyway.                                                *)
SendUpdate(n) ==
    /\ upc[n] = "send"
    /\ \E probeErr \in ProbeOutcomes(n) :
          \/ /\ ProbeSaysUpdated(n, probeErr)
             /\ upc' = [upc EXCEPT ![n] = "done"]
             /\ UNCHANGED <<wpc, waitFrom, updVub, pool, nsent, deposit>>
          \/ /\ ~ProbeSaysUpdated(n, probeErr) /\ probeErr \in ErrorClasses
             /\ HandleError(n, probeErr)
             /\ UNCHANGED <<updVub, pool, nsent>>
          \/ /\ probeErr = "none" /\ PrevUpdateMayLand(n)
             /\ EndIteration(n)
             /\ UNCHANGED <<updVub, pool, nsent, deposit>>
          \/ /\ probeErr = "none" /\ ~PrevUpdateMayLand(n)
             /\ \E res \in NotarizeOutcomes(n) :
                   LET tx == [from |-> n, nef |-> LocalNef[n], group |-> jsonGroup[n],
                              vub |-> TxVub, seq |-> nsent[n] + 1]
                       Enter == /\ pool' = pool \cup {tx}
                                /\ nsent' = [nsent EXCEPT ![n] = @ + 1]
                   IN \/ /\ res = "none" /\ Enter
                         /\ updVub' = [updVub EXCEPT ![n] = tx.vub]
                         /\ EndIteration(n)
                         /\ UNCHANGED deposit
                      \/ /\ res # "none"
                         /\ HandleError(n, res) /\ UNCHANGED <<updVub, pool, nsent>>
                      \/ /\ LostNotaryResponse /\ res = "other" /\ Enter
                         /\ HandleError(n, res) /\ UNCHANGED updVub
    /\ UNCHANGED <<chainHeight, nnsNef, nnsGroup, manifestGroup, jsonGroup, ctxDone>>

LoopInit ==
    /\ upc = [n \in Nodes |-> "prepare"]
    /\ updVub = [n \in Nodes |-> 0]
    /\ manifestGroup = [n \in Nodes |-> FALSE]
    /\ jsonGroup = [n \in Nodes |-> FALSE]

-----------------------------------------------------------------------------
Init ==
    /\ Mon!MonitorInit
    /\ Mon!WaitInit
    /\ LoopInit
    /\ nnsNef \in {InitialNef, NoContract}
    /\ nnsGroup = (nnsNef # NoContract)
    /\ pool = {}
    /\ nsent = [n \in Nodes |-> 0]
    /\ deposit \in [Nodes -> BOOLEAN]

Next ==
    \/ NewBlock /\ UNCHANGED <<monitorVars, waitVars, loopVars>>
    \/ \E n \in Nodes :
          \/ DepositRunsOut(n) /\ UNCHANGED <<monitorVars, waitVars, loopVars>>
          \/ Mon!ReceiveBlock(n) /\ UNCHANGED <<chainVars, waitVars, loopVars>>
          \/ Mon!WaitTick(n) /\ UNCHANGED <<chainVars, monitorVars, waitFrom, ctxDone, loopVars>>
          \/ Mon!WaitCancelled(n) /\ UNCHANGED <<chainVars, monitorVars, waitFrom, ctxDone, loopVars>>
          \/ Mon!CancelCtx(n) /\ UNCHANGED <<chainVars, monitorVars, wpc, waitFrom, loopVars>>
          \/ Prepare(n) /\ UNCHANGED monitorVars
          \/ ReadState(n) /\ UNCHANGED monitorVars
          \/ ReadVersion(n) /\ UNCHANGED monitorVars
          \/ SendUpdate(n) /\ UNCHANGED monitorVars

Spec == Init /\ [][Next]_vars

-----------------------------------------------------------------------------
TypeOK ==
    /\ chainHeight \in Mon!Heights
    /\ delivered \in [Nodes -> Mon!Heights]
    /\ height \in [Nodes -> 0..MaxHeight + 1]
    /\ wpc \in [Nodes -> {"idle", "waiting"}]
    /\ waitFrom \in [Nodes -> 0..MaxHeight + 1]
    /\ ctxDone \in [Nodes -> BOOLEAN]
    /\ nnsNef \in Nefs \cup {NoContract}
    /\ pool \subseteq Tx
    /\ nsent \in [Nodes -> Nat]
    /\ deposit \in [Nodes -> BOOLEAN]
    /\ upc \in [Nodes -> {"prepare", "iter", "version", "send", "done", "failed",
                          "inconsistent", "cancelled"}]
    /\ updVub \in [Nodes -> Vubs]
    /\ nnsGroup \in BOOLEAN
    /\ manifestGroup \in [Nodes -> BOOLEAN]
    /\ jsonGroup \in [Nodes -> BOOLEAN]

(* updateNNSContract returns nil only when the chain holds the local       *)
(* version or a newer one, and this stays so: the decision taken on a read *)
(* (checksum, version, dry run) is never invalidated by later blocks.      *)
UpdateSuccessSound ==
    \A n \in Nodes :
        upc[n] = "done" => nnsNef # NoContract /\ Version[nnsNef] >= Version[LocalNef[n]]

(* No duplicate update while one is pending: a node never has two update   *)
(* transactions that can both still be accepted.                           *)
NoDuplicateUpdate ==
    \A t, u \in pool : t.from = u.from => t = u

(* Spec 4.5, 7: the "same version, different NEF checksums" error reports  *)
(* a real inconsistency: it is raised only when another NEF of the same    *)
(* version as the local one exists.                                        *)
InconsistencyIsReal ==
    \A n \in Nodes :
        upc[n] = "inconsistent" =>
            \E m \in Nefs : m # LocalNef[n] /\ Version[m] = Version[LocalNef[n]]

(* The NNS contract keeps the committee group in its manifest: the local   *)
(* manifest "is extended with committee group" (doc of updateNNSContract)  *)
(* before it is sent in the update.                                        *)
UpdateKeepsGroup == nnsNef # NoContract => nnsGroup

-----------------------------------------------------------------------------
(* Refinement mapping to UpdateAbstract: the chain's contract is nnsNef,   *)
(* and a node whose loop has not returned is running.                      *)
UpdStatus ==
    [n \in Nodes |-> IF upc[n] \in {"prepare", "iter", "version", "send"} THEN "running" ELSE upc[n]]

Abs == INSTANCE UpdateAbstract WITH chain <- nnsNef, status <- UpdStatus

(* updateNNSContract implements the promise of spec 4.5 as UpdateAbstract  *)
(* states it: the contract is only replaced by a strictly newer local NEF, *)
(* and each node ends once, in success only when the chain runs its        *)
(* version or a newer one and in the inconsistency error only when the     *)
(* chain's version is its own, whatever blocks land between the reads.     *)
UpdateRefinesAbstract == Abs!Spec

=============================================================================
