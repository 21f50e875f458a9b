--------------------------- MODULE NNSUpdateProofs ---------------------------
(***************************************************************************)
(* Proofs about the update loop of NNSUpdate, for every value of the       *)
(* constants: the type invariant, that success is reported only when the   *)
(* chain runs the local version or a newer one, and that the loop          *)
(* implements the abstract update specification UpdateAbstract.           *)
(***************************************************************************)
EXTENDS NNSUpdate, TLAPS

USE UpdateAssumption

-----------------------------------------------------------------------------
(* The transaction node n notarizes.                                       *)
SentTx(n) == [from |-> n, nef |-> LocalNef[n], group |-> jsonGroup[n],
              vub |-> TxVub, seq |-> nsent[n] + 1]

(* The outcomes of SendUpdate: success only when the dry run of 'update'   *)
(* on the current chain says "already updated"; otherwise the iteration    *)
(* ends, perhaps with the transaction in the pool, whose VUB is remembered *)
(* when no earlier update may land and Notarize answered, and forgotten    *)
(* when the answer was lost.                                               *)
LEMMA SendUpdateCases ==
    ASSUME NEW n \in Nodes, SendUpdate(n)
    PROVE  /\ upc[n] = "send"
           /\ UNCHANGED <<chainHeight, nnsNef, nnsGroup, manifestGroup, jsonGroup, ctxDone>>
           /\ \/ /\ AlreadyUpdated(LocalNef[n])
                 /\ upc' = [upc EXCEPT ![n] = "done"]
                 /\ UNCHANGED <<wpc, waitFrom, updVub, pool, nsent, deposit>>
              \/ /\ EndIteration(n)
                 /\ deposit' \in {deposit, [deposit EXCEPT ![n] = TRUE]}
                 /\ \/ UNCHANGED <<updVub, pool, nsent>>
                    \/ /\ pool' = pool \cup {SentTx(n)}
                       /\ nsent' = [nsent EXCEPT ![n] = @ + 1]
                       /\ \/ ~PrevUpdateMayLand(n) /\ updVub' = [updVub EXCEPT ![n] = TxVub]
                          \/ LostNotaryResponse /\ UNCHANGED updVub
<1>1. upc[n] = "send"
      /\ UNCHANGED <<chainHeight, nnsNef, nnsGroup, manifestGroup, jsonGroup, ctxDone>>
  BY DEF SendUpdate
<1>2. PICK probeErr \in ProbeOutcomes(n) :
          \/ /\ ProbeSaysUpdated(n, probeErr)
             /\ upc' = [upc EXCEPT ![n] = "done"]
             /\ UNCHANGED <<wpc, waitFrom, updVub, pool, nsent, deposit>>
          \/ /\ ~ProbeSaysUpdated(n, probeErr) /\ probeErr \in ErrorClasses
             /\ HandleError(n, probeErr)
             /\ UNCHANGED <<updVub, pool, nsent>>
          \/ /\ probeErr = "none" /\ PrevUpdateMayLand(n)
             /\ EndIteration(n)
             /\ UNCHANGED <<updVub, pool, nsent, deposit>>
          \/ /\ probeErr = "none" /\ ~PrevUpdateMayLand(n)
             /\ \E res \in NotarizeOutcomes(n) :
                   \/ /\ res = "none" /\ pool' = pool \cup {SentTx(n)}
                      /\ nsent' = [nsent EXCEPT ![n] = @ + 1]
                      /\ updVub' = [updVub EXCEPT ![n] = TxVub]
                      /\ EndIteration(n)
                      /\ UNCHANGED deposit
                   \/ /\ res # "none"
                      /\ HandleError(n, res) /\ UNCHANGED <<updVub, pool, nsent>>
                   \/ /\ LostNotaryResponse /\ res = "other"
                      /\ pool' = pool \cup {SentTx(n)}
                      /\ nsent' = [nsent EXCEPT ![n] = @ + 1]
                      /\ HandleError(n, res) /\ UNCHANGED updVub
  BY DEF SendUpdate, SentTx
<1>3. ASSUME NEW c, HandleError(n, c)
      PROVE  EndIteration(n) /\ deposit' \in {deposit, [deposit EXCEPT ![n] = TRUE]}
  BY <1>3 DEF HandleError
<1>4. ProbeSaysUpdated(n, probeErr) => AlreadyUpdated(LocalNef[n])
  BY DEF ProbeSaysUpdated, ProbeOutcomes, ErrorClasses
<1> QED
  BY <1>1, <1>2, <1>3, <1>4

(* One step of the update loops, of a monitor or of the chain keeps every  *)
(* variable in its type.                                                   *)
LEMMA TypeOKStep == TypeOK /\ [Next]_vars => TypeOK'
<1> SUFFICES ASSUME TypeOK, [Next]_vars PROVE TypeOK'
  OBVIOUS
<1>1. CASE NewBlock /\ UNCHANGED <<monitorVars, waitVars, loopVars>>
  <2>1. chainHeight' \in Mon!Heights
    BY <1>1 DEF NewBlock, Mon!ChainAdvance, TypeOK, Mon!Heights
  <2>2. nnsNef' \in Nefs \cup {NoContract} /\ nnsGroup' \in BOOLEAN
    BY <1>1 DEF NewBlock, TypeOK, Tx
  <2>3. pool' \subseteq Tx
    BY <1>1 DEF NewBlock, TypeOK
  <2>4. QED
    BY <1>1, <2>1, <2>2, <2>3 DEF NewBlock, TypeOK, monitorVars, waitVars, loopVars
<1>2. ASSUME NEW n \in Nodes, DepositRunsOut(n) /\ UNCHANGED <<monitorVars, waitVars, loopVars>>
      PROVE TypeOK'
  BY <1>2 DEF DepositRunsOut, TypeOK, monitorVars, waitVars, loopVars
<1>3. ASSUME NEW n \in Nodes,
             Mon!ReceiveBlock(n) /\ UNCHANGED <<chainVars, waitVars, loopVars>>
      PROVE TypeOK'
  BY <1>3 DEF Mon!ReceiveBlock, TypeOK, Mon!Heights, chainVars, waitVars, loopVars
<1>4. ASSUME NEW n \in Nodes,
             \/ Mon!WaitTick(n) /\ UNCHANGED <<chainVars, monitorVars, waitFrom, ctxDone, loopVars>>
             \/ Mon!WaitCancelled(n) /\ UNCHANGED <<chainVars, monitorVars, waitFrom, ctxDone, loopVars>>
             \/ Mon!CancelCtx(n) /\ UNCHANGED <<chainVars, monitorVars, wpc, waitFrom, loopVars>>
      PROVE TypeOK'
  BY <1>4 DEF Mon!WaitTick, Mon!WaitCancelled, Mon!CancelCtx, TypeOK,
              chainVars, monitorVars, loopVars
<1>5. ASSUME NEW n \in Nodes, Prepare(n) /\ UNCHANGED monitorVars PROVE TypeOK'
  BY <1>5 DEF Prepare, TypeOK, chainVars, waitVars, monitorVars
<1>6. ASSUME NEW n \in Nodes, ReadState(n) /\ UNCHANGED monitorVars PROVE TypeOK'
  <2>1. /\ wpc' \in [Nodes -> {"idle", "waiting"}]
        /\ waitFrom' \in [Nodes -> 0..MaxHeight + 1]
    BY <1>6 DEF ReadState, EndIteration, Mon!BeginWait, TypeOK
  <2>2. upc' \in [Nodes -> {"prepare", "iter", "version", "send", "done", "failed",
                            "inconsistent", "cancelled"}]
    BY <1>6 DEF ReadState, EndIteration, TypeOK
  <2>3. QED
    BY <1>6, <2>1, <2>2 DEF ReadState, TypeOK, chainVars, monitorVars
<1>7. ASSUME NEW n \in Nodes, ReadVersion(n) /\ UNCHANGED monitorVars PROVE TypeOK'
  <2>1. /\ wpc' \in [Nodes -> {"idle", "waiting"}]
        /\ waitFrom' \in [Nodes -> 0..MaxHeight + 1]
    BY <1>7 DEF ReadVersion, EndIteration, Mon!BeginWait, TypeOK
  <2>2. upc' \in [Nodes -> {"prepare", "iter", "version", "send", "done", "failed",
                            "inconsistent", "cancelled"}]
    BY <1>7 DEF ReadVersion, EndIteration, TypeOK
  <2>3. manifestGroup' \in [Nodes -> BOOLEAN]
    BY <1>7 DEF ReadVersion, TypeOK
  <2>4. QED
    BY <1>7, <2>1, <2>2, <2>3 DEF ReadVersion, TypeOK, chainVars, monitorVars
<1>8. ASSUME NEW n \in Nodes, SendUpdate(n) /\ UNCHANGED monitorVars PROVE TypeOK'
  <2>1. /\ wpc' \in [Nodes -> {"idle", "waiting"}]
        /\ waitFrom' \in [Nodes -> 0..MaxHeight + 1]
    BY <1>8, SendUpdateCases DEF EndIteration, Mon!BeginWait, TypeOK
  <2>2. upc' \in [Nodes -> {"prepare", "iter", "version", "send", "done", "failed",
                            "inconsistent", "cancelled"}]
    BY <1>8, SendUpdateCases DEF EndIteration, TypeOK
  <2>3. deposit' \in [Nodes -> BOOLEAN]
    BY <1>8, SendUpdateCases DEF TypeOK
  <2>4. TxVub \in Vubs /\ SentTx(n) \in Tx
    BY DEF TxVub, TypeOK, Vubs, Mon!Heights, SentTx, Tx
  <2>5. pool' \subseteq Tx /\ nsent' \in [Nodes -> Nat] /\ updVub' \in [Nodes -> Vubs]
    BY <1>8, <2>4, SendUpdateCases DEF TypeOK
  <2>6. QED
    BY <1>8, <2>1, <2>2, <2>3, <2>5, SendUpdateCases DEF TypeOK, monitorVars
<1>9. CASE UNCHANGED vars
  BY <1>9 DEF vars, chainVars, monitorVars, waitVars, loopVars, TypeOK
<1>10. QED
  BY <1>1, <1>2, <1>3, <1>4, <1>5, <1>6, <1>7, <1>8, <1>9 DEF Next

(* Every behaviour of the update loops, the monitors and the chain keeps   *)
(* each variable in its type.                                              *)
THEOREM TypeCorrect == Spec => []TypeOK
<1>1. Init => TypeOK
  BY DEF Init, Mon!MonitorInit, Mon!WaitInit, LoopInit, TypeOK, Mon!Heights, Vubs
<1>2. TypeOK /\ [Next]_vars => TypeOK'
  BY TypeOKStep
<1>3. QED
  BY <1>1, <1>2, PTL DEF Spec

-----------------------------------------------------------------------------
(* The inductive invariant behind UpdateSuccessSound and the refinement.   *)
(* A node reads the version and sends only while the chain has the         *)
(* contract; every update transaction carries its sender's local NEF;      *)
(* transactions are sent only while the contract exists, and the chain     *)
(* never removes it.                                                       *)
Running == {"prepare", "iter", "version", "send"}

VersionHasContract ==
    \A n \in Nodes : upc[n] \in {"version", "send"} => nnsNef # NoContract

PoolFromLocal == \A t \in pool : t.nef = LocalNef[t.from]

PoolNeedsContract == pool # {} => nnsNef # NoContract

UInv ==
    /\ TypeOK
    /\ VersionHasContract
    /\ PoolFromLocal
    /\ PoolNeedsContract
    /\ UpdateSuccessSound

(* The chain at the new block: the contract is kept, or replaced by the    *)
(* NEF of a pool transaction with a strictly greater version.             *)
LEMMA ChainStep ==
    ASSUME UInv, NewBlock
    PROVE  \/ UNCHANGED nnsNef
           \/ \E t \in pool : /\ nnsNef # NoContract
                              /\ Version[nnsNef] < Version[t.nef]
                              /\ nnsNef' = t.nef
<1>1. CASE UNCHANGED nnsNef
  BY <1>1
<1>2. CASE nnsNef' # nnsNef
  <2>1. PICK t \in pool : ~AlreadyUpdated(t.nef) /\ nnsNef' = t.nef
    BY <1>2 DEF NewBlock
  <2>2. nnsNef \in Nefs /\ t.nef \in Nefs
    BY DEF UInv, PoolNeedsContract, TypeOK, Tx
  <2>3. QED
    BY <2>1, <2>2 DEF AlreadyUpdated, UInv, TypeOK
<1>3. QED
  BY <1>1, <1>2

(* What a step of the loop of node n may do: change upc[n] alone, leave    *)
(* the contract alone, end in success or inconsistency only on what the    *)
(* versions say, read the version and send only while the contract exists, *)
(* and send only its own local NEF, from the send stage.                   *)
LoopOutcome(n) ==
    /\ upc[n] \in Running
    /\ upc' = [upc EXCEPT ![n] = upc'[n]]
    /\ UNCHANGED <<nnsNef, nnsGroup>>
    /\ upc'[n] = "done" =>
          nnsNef # NoContract /\ Version[nnsNef] >= Version[LocalNef[n]]
    /\ upc'[n] = "inconsistent" =>
          nnsNef # NoContract /\ Version[nnsNef] = Version[LocalNef[n]]
    /\ upc'[n] \in {"version", "send"} => nnsNef # NoContract
    /\ pool' # pool => /\ upc[n] = "send"
                       /\ \E tx \in Tx : tx.from = n /\ tx.nef = LocalNef[n]
                                         /\ pool' = pool \cup {tx}

LEMMA PrepareOutcome ==
    ASSUME UInv, NEW n \in Nodes, Prepare(n)
    PROVE  LoopOutcome(n)
BY DEF UInv, TypeOK, Prepare, LoopOutcome, Running, chainVars

LEMMA ReadStateOutcome ==
    ASSUME UInv, NEW n \in Nodes, ReadState(n)
    PROVE  LoopOutcome(n)
<1>1. upc[n] = "iter" /\ UNCHANGED <<nnsNef, nnsGroup, pool>>
  BY DEF ReadState, chainVars
<1>2. upc' = [upc EXCEPT ![n] = upc'[n]]
  BY DEF UInv, TypeOK, ReadState, EndIteration
<1>3. upc'[n] = "done" => nnsNef = LocalNef[n]
  BY DEF UInv, TypeOK, ReadState, EndIteration
<1>4. upc'[n] \in {"version", "send"} => nnsNef # NoContract
  BY DEF UInv, TypeOK, ReadState, EndIteration
<1>5. upc'[n] # "inconsistent"
  BY DEF UInv, TypeOK, ReadState, EndIteration
<1>6. QED
  BY <1>1, <1>2, <1>3, <1>4, <1>5 DEF LoopOutcome, Running, UInv, TypeOK

LEMMA ReadVersionOutcome ==
    ASSUME UInv, NEW n \in Nodes, ReadVersion(n)
    PROVE  LoopOutcome(n)
<1>1. /\ upc[n] = "version" /\ nnsNef # NoContract
      /\ UNCHANGED <<nnsNef, nnsGroup, pool>>
  BY DEF UInv, VersionHasContract, ReadVersion, chainVars
<1>2. nnsNef \in Nefs /\ LocalNef[n] \in Nefs
  BY <1>1 DEF UInv, TypeOK
<1>3. /\ upc' = [upc EXCEPT ![n] = upc'[n]]
      /\ upc'[n] \in {"iter", "done", "inconsistent", "send"}
  BY DEF UInv, TypeOK, ReadVersion, EndIteration
<1>4. upc'[n] = "done" => Version[nnsNef] >= Version[LocalNef[n]]
  BY <1>2 DEF UInv, TypeOK, ReadVersion, EndIteration, LocalIsBehind
<1>5. upc'[n] = "inconsistent" => Version[nnsNef] = Version[LocalNef[n]]
  BY DEF UInv, TypeOK, ReadVersion, EndIteration, SameVersion
<1>6. QED
  BY <1>1, <1>3, <1>4, <1>5 DEF LoopOutcome, Running

LEMMA SendUpdateOutcome ==
    ASSUME UInv, NEW n \in Nodes, SendUpdate(n)
    PROVE  LoopOutcome(n)
<1>1. /\ upc[n] = "send" /\ nnsNef # NoContract
      /\ UNCHANGED <<nnsNef, nnsGroup>>
  BY SendUpdateCases DEF UInv, VersionHasContract
<1>2. /\ upc' = [upc EXCEPT ![n] = upc'[n]]
      /\ upc'[n] \in {"iter", "done"}
  BY SendUpdateCases DEF UInv, TypeOK, EndIteration
<1>3. upc'[n] = "done" => AlreadyUpdated(LocalNef[n])
  BY SendUpdateCases DEF UInv, TypeOK, EndIteration
<1>4. SentTx(n) \in Tx
  BY DEF TxVub, UInv, TypeOK, Vubs, Mon!Heights, SentTx, Tx
<1>5. pool' # pool => pool' = pool \cup {SentTx(n)}
  BY SendUpdateCases
<1>6. QED
  BY <1>1, <1>2, <1>3, <1>4, <1>5 DEF LoopOutcome, Running, AlreadyUpdated, SentTx

(* A block never adds update transactions to the pool.                     *)
LEMMA PoolShrinks ==
    ASSUME NewBlock
    PROVE  pool' \subseteq pool
BY DEF NewBlock

(* A step of the loop of one node keeps the inductive invariant.          *)
LEMMA LoopKeepsUInv ==
    ASSUME UInv, NEW n \in Nodes, LoopOutcome(n), TypeOK'
    PROVE  UInv'
<1>1. \A m \in Nodes \ {n} : upc'[m] = upc[m]
  BY DEF LoopOutcome, UInv, TypeOK
<1>2. VersionHasContract'
  BY <1>1 DEF LoopOutcome, UInv, VersionHasContract
<1>3. PoolFromLocal'
  BY DEF LoopOutcome, UInv, PoolFromLocal
<1>4. PoolNeedsContract'
  BY DEF LoopOutcome, UInv, PoolNeedsContract, VersionHasContract
<1>5. UpdateSuccessSound'
  BY <1>1 DEF LoopOutcome, UInv, UpdateSuccessSound
<1>6. QED
  BY <1>2, <1>3, <1>4, <1>5 DEF UInv

LEMMA UInvStep == UInv /\ [Next]_vars => UInv'
<1> SUFFICES ASSUME UInv, [Next]_vars PROVE UInv'
  OBVIOUS
<1>1. TypeOK'
  BY TypeOKStep DEF UInv
<1>2. CASE NewBlock /\ UNCHANGED <<monitorVars, waitVars, loopVars>>
  <2>1. pool' \subseteq pool
    BY <1>2, PoolShrinks
  <2>2. nnsNef # NoContract => nnsNef' # NoContract /\ Version[nnsNef'] >= Version[nnsNef]
    BY <1>2, ChainStep DEF UInv, TypeOK, Tx
  <2>3. VersionHasContract'
    BY <1>2, <2>2 DEF UInv, VersionHasContract, loopVars
  <2>4. UpdateSuccessSound'
    <3> SUFFICES ASSUME NEW n \in Nodes, upc'[n] = "done"
                 PROVE  nnsNef' # NoContract /\ Version[nnsNef'] >= Version[LocalNef[n]]
      BY DEF UpdateSuccessSound
    <3>1. upc[n] = "done"
      BY <1>2 DEF loopVars
    <3>2. nnsNef # NoContract /\ Version[nnsNef] >= Version[LocalNef[n]]
      BY <3>1 DEF UInv, UpdateSuccessSound
    <3>3. nnsNef' \in Nefs /\ nnsNef \in Nefs
      BY <1>1, <2>2, <3>2 DEF UInv, TypeOK
    <3>4. QED
      BY <2>2, <3>2, <3>3
  <2>5. PoolFromLocal' /\ PoolNeedsContract'
    BY <2>1, <2>2 DEF UInv, PoolFromLocal, PoolNeedsContract
  <2>6. QED
    BY <1>1, <2>3, <2>4, <2>5 DEF UInv
<1>3. ASSUME NEW n \in Nodes,
             \/ DepositRunsOut(n) /\ UNCHANGED <<monitorVars, waitVars, loopVars>>
             \/ Mon!ReceiveBlock(n) /\ UNCHANGED <<chainVars, waitVars, loopVars>>
             \/ Mon!WaitTick(n) /\ UNCHANGED <<chainVars, monitorVars, waitFrom, ctxDone, loopVars>>
             \/ Mon!WaitCancelled(n) /\ UNCHANGED <<chainVars, monitorVars, waitFrom, ctxDone, loopVars>>
             \/ Mon!CancelCtx(n) /\ UNCHANGED <<chainVars, monitorVars, wpc, waitFrom, loopVars>>
      PROVE UInv'
  <2>1. UNCHANGED <<nnsNef, pool, upc>>
    BY <1>3 DEF DepositRunsOut, chainVars, loopVars
  <2>2. QED
    BY <1>1, <2>1 DEF UInv, VersionHasContract, PoolFromLocal, PoolNeedsContract,
                      UpdateSuccessSound
<1>4. ASSUME NEW n \in Nodes,
             \/ Prepare(n) /\ UNCHANGED monitorVars
             \/ ReadState(n) /\ UNCHANGED monitorVars
             \/ ReadVersion(n) /\ UNCHANGED monitorVars
             \/ SendUpdate(n) /\ UNCHANGED monitorVars
      PROVE UInv'
  BY <1>1, <1>4, LoopKeepsUInv, PrepareOutcome, ReadStateOutcome, ReadVersionOutcome,
     SendUpdateOutcome
<1>5. CASE UNCHANGED vars
  BY <1>5 DEF vars, chainVars, monitorVars, waitVars, loopVars, UInv, TypeOK,
              VersionHasContract, PoolFromLocal, PoolNeedsContract, UpdateSuccessSound
<1>6. QED
  BY <1>2, <1>3, <1>4, <1>5 DEF Next

(* Spec 4.5 and scenario D of spec 8: updateNNSContract returns success    *)
(* only when the chain runs the local version or a newer one, and that     *)
(* stays true while other nodes' updates land, for any number of nodes,   *)
(* NEFs and blocks.                                                        *)
THEOREM UpdateSuccessSoundHolds == Spec => []UpdateSuccessSound
<1>1. Init => UInv
  BY DEF Init, Mon!MonitorInit, Mon!WaitInit, LoopInit, TypeOK, Mon!Heights, Vubs,
         UInv, VersionHasContract, PoolFromLocal, PoolNeedsContract, UpdateSuccessSound
<1>2. UInv /\ [Next]_vars => UInv'
  BY UInvStep
<1>3. UInv => UpdateSuccessSound
  BY DEF UInv
<1>4. QED
  BY <1>1, <1>2, <1>3, PTL DEF Spec

-----------------------------------------------------------------------------
(* Refinement: every step maps to a step of UpdateAbstract or a stutter.   *)

(* A step of the loop of node n: a node still in the loop maps to a        *)
(* stutter, a node that returns ends its abstract orchestration with the   *)
(* same outcome.                                                           *)
LEMMA LoopRefines ==
    ASSUME UInv, NEW n \in Nodes, LoopOutcome(n), TypeOK'
    PROVE  [UNCHANGED Abs!vars \/ Abs!Next]_Abs!vars
<1>1. \A m \in Nodes \ {n} : upc'[m] = upc[m]
  BY DEF LoopOutcome, UInv, TypeOK
<1>2. UNCHANGED nnsNef /\ upc[n] \in Running /\ UpdStatus[n] = "running"
  BY DEF LoopOutcome, UpdStatus, Running
<1>3. CASE upc'[n] \in Running
  <2>1. UpdStatus' = UpdStatus
    BY <1>1, <1>2, <1>3 DEF UpdStatus, Running
  <2>2. QED
    BY <1>2, <2>1 DEF Abs!vars
<1>4. CASE upc'[n] \notin Running
  <2>1. UpdStatus' = [UpdStatus EXCEPT ![n] = upc'[n]]
    BY <1>1, <1>4 DEF UpdStatus, Running, UInv, TypeOK
  <2>2. upc'[n] \in {"done", "failed", "inconsistent", "cancelled"}
    BY <1>4 DEF TypeOK, Running
  <2>3. \A x \in {"done", "failed", "inconsistent", "cancelled"} :
           upc'[n] = x => Abs!Ended(n, x)
    BY <1>2, <2>1 DEF Abs!Ended
  <2>4. CASE upc'[n] = "done"
    BY <2>3, <2>4 DEF LoopOutcome, Abs!Succeed, Abs!Next
  <2>5. CASE upc'[n] = "inconsistent"
    BY <2>3, <2>5 DEF LoopOutcome, Abs!Inconsistent, Abs!Next
  <2>6. CASE upc'[n] \in {"failed", "cancelled"}
    BY <2>3, <2>6 DEF Abs!Next
  <2>7. QED
    BY <2>2, <2>4, <2>5, <2>6
<1>5. QED
  BY <1>3, <1>4

(* A block maps to a stutter, or to the upgrade of the sender's NEF.       *)
LEMMA BlockRefines ==
    ASSUME UInv, NewBlock, UNCHANGED loopVars
    PROVE  [UNCHANGED Abs!vars \/ Abs!Next]_Abs!vars
<1>1. UpdStatus' = UpdStatus
  BY DEF UpdStatus, loopVars
<1>2. CASE UNCHANGED nnsNef
  BY <1>1, <1>2 DEF Abs!vars
<1>3. CASE nnsNef' # nnsNef
  <2>1. PICK t \in pool : /\ nnsNef # NoContract
                          /\ Version[nnsNef] < Version[t.nef]
                          /\ nnsNef' = t.nef
    BY <1>3, ChainStep
  <2>2. t.from \in Nodes /\ t.nef = LocalNef[t.from]
    BY DEF UInv, TypeOK, Tx, PoolFromLocal
  <2>3. Abs!Upgrade(t.from)
    BY <1>1, <2>1, <2>2 DEF Abs!Upgrade
  <2>4. QED
    BY <2>2, <2>3 DEF Abs!Next
<1>4. QED
  BY <1>2, <1>3

LEMMA StepRefines == UInv /\ [Next]_vars => [UNCHANGED Abs!vars \/ Abs!Next]_Abs!vars
<1> SUFFICES ASSUME UInv, [Next]_vars
             PROVE  [UNCHANGED Abs!vars \/ Abs!Next]_Abs!vars
  OBVIOUS
<1>1. TypeOK'
  BY TypeOKStep DEF UInv
<1>2. CASE NewBlock /\ UNCHANGED <<monitorVars, waitVars, loopVars>>
  BY <1>2, BlockRefines
<1>3. ASSUME NEW n \in Nodes,
             \/ DepositRunsOut(n) /\ UNCHANGED <<monitorVars, waitVars, loopVars>>
             \/ Mon!ReceiveBlock(n) /\ UNCHANGED <<chainVars, waitVars, loopVars>>
             \/ Mon!WaitTick(n) /\ UNCHANGED <<chainVars, monitorVars, waitFrom, ctxDone, loopVars>>
             \/ Mon!WaitCancelled(n) /\ UNCHANGED <<chainVars, monitorVars, waitFrom, ctxDone, loopVars>>
             \/ Mon!CancelCtx(n) /\ UNCHANGED <<chainVars, monitorVars, wpc, waitFrom, loopVars>>
      PROVE [UNCHANGED Abs!vars \/ Abs!Next]_Abs!vars
  <2>1. UNCHANGED <<nnsNef, upc>>
    BY <1>3 DEF DepositRunsOut, chainVars, loopVars
  <2>2. QED
    BY <2>1 DEF Abs!vars, UpdStatus
<1>4. ASSUME NEW n \in Nodes,
             \/ Prepare(n) /\ UNCHANGED monitorVars
             \/ ReadState(n) /\ UNCHANGED monitorVars
             \/ ReadVersion(n) /\ UNCHANGED monitorVars
             \/ SendUpdate(n) /\ UNCHANGED monitorVars
      PROVE [UNCHANGED Abs!vars \/ Abs!Next]_Abs!vars
  BY <1>1, <1>4, LoopRefines, PrepareOutcome, ReadStateOutcome, ReadVersionOutcome,
     SendUpdateOutcome
<1>5. CASE UNCHANGED vars
  BY <1>5 DEF vars, chainVars, loopVars, Abs!vars, UpdStatus
<1>6. QED
  BY <1>2, <1>3, <1>4, <1>5 DEF Next

(* updateNNSContract implements the abstract update specification: the     *)
(* contract is only replaced by a committee node's strictly newer NEF, and *)
(* each node ends once, in success only when the chain runs its version or *)
(* a newer one and in the inconsistency error only when the chain runs its *)
(* version, for every value of the constants.                              *)
THEOREM UpdateRefinement == Spec => UpdateRefinesAbstract
<1>1. Init => Abs!Init
  BY DEF Init, LoopInit, Abs!Init, UpdStatus
<1>2. Init => UInv
  BY DEF Init, Mon!MonitorInit, Mon!WaitInit, LoopInit, TypeOK, Mon!Heights, Vubs,
         UInv, VersionHasContract, PoolFromLocal, PoolNeedsContract, UpdateSuccessSound
<1>3. UInv /\ [Next]_vars => UInv'
  BY UInvStep
<1>4. UInv /\ [Next]_vars => [UNCHANGED Abs!vars \/ Abs!Next]_Abs!vars
  BY StepRefines
<1>5. QED
  BY <1>1, <1>2, <1>3, <1>4, PTL DEF Spec, UpdateRefinesAbstract, Abs!Spec

-----------------------------------------------------------------------------
(* The inductive invariant behind NoDuplicateUpdate.  A transaction stays  *)
(* in the pool only while it is valid; updateTxValidUntilBlock of its      *)
(* sender is its VUB; and no monitor is ahead of the chain, so that a      *)
(* height past that VUB means the transaction can no longer be accepted.   *)
PoolValid == \A t \in pool : Valid(t, chainHeight)

PoolMatchesVub == \A t \in pool : t.vub = updVub[t.from]

DupInv ==
    /\ TypeOK
    /\ Mon!MonitorNotAhead
    /\ PoolValid
    /\ PoolMatchesVub
    /\ NoDuplicateUpdate

(* When no Notarize answer is lost, SendUpdate either leaves the pool and   *)
(* updateTxValidUntilBlock alone, or, when no earlier update may still     *)
(* land, adds the transaction it notarized and remembers its VUB.          *)
LEMMA SendOutcome ==
    ASSUME ~LostNotaryResponse, NEW n \in Nodes, SendUpdate(n)
    PROVE  /\ UNCHANGED chainHeight
           /\ \/ UNCHANGED <<pool, updVub>>
              \/ /\ ~PrevUpdateMayLand(n)
                 /\ pool' = pool \cup {SentTx(n)}
                 /\ updVub' = [updVub EXCEPT ![n] = TxVub]
BY SendUpdateCases

(* A node that sends finds none of its transactions in the pool.           *)
LEMMA NoUpdateWhenExpired ==
    ASSUME TypeOK, Mon!MonitorNotAhead, PoolValid, PoolMatchesVub,
           NEW n \in Nodes, ~PrevUpdateMayLand(n)
    PROVE  \A t \in pool : t.from # n
BY DEF TypeOK, Mon!MonitorNotAhead, PoolValid, PoolMatchesVub, PrevUpdateMayLand,
       Valid, Tx, Vubs, Mon!Heights

LEMMA DupInvStep ==
    ASSUME ~LostNotaryResponse
    PROVE  DupInv /\ [Next]_vars => DupInv'
<1> SUFFICES ASSUME DupInv, [Next]_vars PROVE DupInv'
  OBVIOUS
<1>1. TypeOK'
  BY TypeOKStep DEF DupInv
<1>2. CASE NewBlock /\ UNCHANGED <<monitorVars, waitVars, loopVars>>
  <2>1. pool' \subseteq pool /\ PoolValid'
    BY <1>2 DEF NewBlock, PoolValid, Valid
  <2>2. Mon!MonitorNotAhead'
    BY <1>2 DEF DupInv, TypeOK, NewBlock, Mon!ChainAdvance, Mon!MonitorNotAhead,
                monitorVars, Mon!Heights
  <2> QED
    BY <1>1, <1>2, <2>1, <2>2 DEF DupInv, PoolMatchesVub, NoDuplicateUpdate, loopVars
<1>3. ASSUME NEW n \in Nodes,
             Mon!ReceiveBlock(n) /\ UNCHANGED <<chainVars, waitVars, loopVars>>
      PROVE DupInv'
  <2>1. Mon!MonitorNotAhead'
    BY <1>3 DEF DupInv, TypeOK, Mon!ReceiveBlock, Mon!MonitorNotAhead, chainVars,
                Mon!Heights
  <2> QED
    BY <1>1, <1>3, <2>1 DEF DupInv, PoolValid, PoolMatchesVub, NoDuplicateUpdate,
                            chainVars, loopVars
<1>4. ASSUME NEW n \in Nodes,
             \/ DepositRunsOut(n) /\ UNCHANGED <<monitorVars, waitVars, loopVars>>
             \/ Mon!WaitTick(n) /\ UNCHANGED <<chainVars, monitorVars, waitFrom, ctxDone, loopVars>>
             \/ Mon!WaitCancelled(n) /\ UNCHANGED <<chainVars, monitorVars, waitFrom, ctxDone, loopVars>>
             \/ Mon!CancelCtx(n) /\ UNCHANGED <<chainVars, monitorVars, wpc, waitFrom, loopVars>>
             \/ Prepare(n) /\ UNCHANGED monitorVars
             \/ ReadState(n) /\ UNCHANGED monitorVars
             \/ ReadVersion(n) /\ UNCHANGED monitorVars
      PROVE DupInv'
  <2>1. UNCHANGED <<chainHeight, pool, updVub, monitorVars>>
    BY <1>4 DEF DepositRunsOut, Prepare, ReadState, ReadVersion, chainVars, loopVars
  <2> QED
    BY <1>1, <2>1 DEF DupInv, Mon!MonitorNotAhead, PoolValid, PoolMatchesVub,
                      NoDuplicateUpdate, monitorVars
<1>5. ASSUME NEW n \in Nodes, SendUpdate(n) /\ UNCHANGED monitorVars
      PROVE DupInv'
  <2>1. Mon!MonitorNotAhead' /\ UNCHANGED chainHeight
    BY <1>5, SendOutcome DEF DupInv, Mon!MonitorNotAhead, monitorVars
  <2>2. CASE UNCHANGED <<pool, updVub>>
    BY <1>1, <2>1, <2>2 DEF DupInv, PoolValid, PoolMatchesVub, NoDuplicateUpdate
  <2>3. CASE /\ ~PrevUpdateMayLand(n)
             /\ pool' = pool \cup {SentTx(n)}
             /\ updVub' = [updVub EXCEPT ![n] = TxVub]
    <3>1. \A t \in pool : t.from # n
      BY <2>3, NoUpdateWhenExpired DEF DupInv
    <3>2. SentTx(n).from = n /\ SentTx(n).vub = TxVub
      BY DEF SentTx
    <3>3. PoolValid'
      BY <2>1, <2>3, <3>2 DEF DupInv, TypeOK, PoolValid, Valid, TxVub, Mon!Heights
    <3>4. PoolMatchesVub'
      BY <2>3, <3>1, <3>2 DEF DupInv, TypeOK, PoolMatchesVub, Tx
    <3>5. NoDuplicateUpdate'
      BY <2>3, <3>1, <3>2 DEF DupInv, NoDuplicateUpdate
    <3> QED
      BY <1>1, <2>1, <3>3, <3>4, <3>5 DEF DupInv
  <2> QED
    BY <1>5, <2>2, <2>3, SendOutcome
<1>6. CASE UNCHANGED vars
  BY <1>1, <1>6 DEF vars, chainVars, monitorVars, waitVars, loopVars, DupInv,
                    Mon!MonitorNotAhead, PoolValid, PoolMatchesVub, NoDuplicateUpdate
<1> QED
  BY <1>2, <1>3, <1>4, <1>5, <1>6 DEF Next

(* Spec 4.5 and 8: while an update transaction a node notarized can still  *)
(* be accepted, the node does not notarize another one, provided Notarize  *)
(* never fails after its request reached the pool: the relevance check of  *)
(* nns.go:358-368 on the monitor's height is then enough, for every number *)
(* of committee nodes, chain length and VUB increment, although the first  *)
(* height a monitor stores is a block count.  (With a lost answer the      *)
(* property fails: updateTxValidUntilBlock is set only on success.)        *)
THEOREM NoDuplicateUpdateHolds ==
    ASSUME ~LostNotaryResponse
    PROVE  Spec => []NoDuplicateUpdate
<1>1. Init => DupInv
  BY DEF Init, Mon!MonitorInit, Mon!WaitInit, LoopInit, DupInv, TypeOK, Mon!Heights,
         Vubs, Mon!MonitorNotAhead, PoolValid, PoolMatchesVub, NoDuplicateUpdate
<1>2. DupInv => NoDuplicateUpdate
  BY DEF DupInv
<1>3. DupInv /\ [Next]_vars => DupInv'
  BY DupInvStep
<1> QED
  BY <1>1, <1>2, <1>3, PTL DEF Spec

=============================================================================
