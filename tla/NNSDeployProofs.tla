--------------------------- MODULE NNSDeployProofs ---------------------------
(***************************************************************************)
(* Proofs about the deployment loop of NNSDeploy, for every value of the   *)
(* constants: the type invariant, and that one call of initNNSContract     *)
(* never has two deployment transactions pending at once when the Deploy   *)
(* call never loses its response, and hence, without restarts, a node      *)
(* never has two.                                                          *)
(***************************************************************************)
EXTENDS NNSDeploy, TLAPS

USE DeployAssumption

-----------------------------------------------------------------------------
(* One step of the deployment loop, of a monitor or of the chain keeps    *)
(* every variable in its type.                                             *)
LEMMA TypeOKStep == TypeOK /\ [Next]_vars => TypeOK'
<1> SUFFICES ASSUME TypeOK, [Next]_vars PROVE TypeOK'
  OBVIOUS
<1>1. CASE NewBlock /\ UNCHANGED <<monitorVars, waitVars, loopVars>>
  <2>1. chainHeight' \in Mon!Heights
    BY <1>1 DEF NewBlock, Mon!ChainAdvance, TypeOK, Mon!Heights
  <2>2. nns' \in Addresses /\ strays' \subseteq Nodes
    BY <1>1 DEF NewBlock, ExecDeploy, TypeOK, Tx, Addresses
  <2>3. pool' \subseteq Tx
    BY <1>1 DEF NewBlock, TypeOK
  <2>4. QED
    BY <1>1, <2>1, <2>2, <2>3 DEF NewBlock, TypeOK, monitorVars, waitVars, loopVars
<1>2. ASSUME NEW n \in Nodes,
             Mon!ReceiveBlock(n) /\ UNCHANGED <<chainVars, waitVars, loopVars>>
      PROVE TypeOK'
  BY <1>2 DEF Mon!ReceiveBlock, TypeOK, Mon!Heights, chainVars, waitVars, loopVars
<1>3. ASSUME NEW n \in Nodes,
             \/ Mon!WaitTick(n) /\ UNCHANGED <<chainVars, monitorVars, waitFrom, ctxDone, loopVars>>
             \/ Mon!WaitCancelled(n) /\ UNCHANGED <<chainVars, monitorVars, waitFrom, ctxDone, loopVars>>
             \/ Mon!CancelCtx(n) /\ UNCHANGED <<chainVars, monitorVars, wpc, waitFrom, loopVars>>
      PROVE TypeOK'
  BY <1>3 DEF Mon!WaitTick, Mon!WaitCancelled, Mon!CancelCtx, TypeOK,
              chainVars, monitorVars, loopVars
<1>4. ASSUME NEW n \in Nodes, ReadState(n) /\ UNCHANGED <<monitorVars, ctxDone, restarts>>
      PROVE TypeOK'
  <2>1. /\ wpc' \in [Nodes -> {"idle", "waiting"}]
        /\ waitFrom' \in [Nodes -> 0..MaxHeight + 1]
    BY <1>4 DEF ReadState, EndIteration, Mon!BeginWait, TypeOK
  <2>2. dpc' \in [Nodes -> {"iter", "send", "done", "failed", "cancelled"}]
    BY <1>4 DEF ReadState, EndIteration, TypeOK
  <2>3. groupKey' \in [Nodes -> BOOLEAN]
    BY <1>4 DEF ReadState, EndIteration, TypeOK
  <2>4. result' \in [Nodes -> Addresses]
    BY <1>4 DEF ReadState, EndIteration, TypeOK
  <2>5. QED
    BY <1>4, <2>1, <2>2, <2>3, <2>4 DEF ReadState, TypeOK, chainVars, monitorVars
<1>5. ASSUME NEW n \in Nodes, SendDeploy(n) /\ UNCHANGED <<monitorVars, ctxDone>>
      PROVE TypeOK'
  <2>1. TxVub \in Vubs
    BY DEF TxVub, TypeOK, Vubs, Mon!Heights
  <2>2. pool' \subseteq Tx /\ nsent' \in [Nodes -> Nat] /\ sentVub' \in [Nodes -> Vubs]
    BY <1>5, <2>1 DEF SendDeploy, DeployCall, TypeOK, Tx, Vubs
  <2>3. QED
    BY <1>5, <2>2 DEF SendDeploy, EndIteration, Mon!BeginWait, TypeOK, monitorVars
<1>6. ASSUME NEW n \in Nodes, Restart(n) PROVE TypeOK'
  <2>1. /\ delivered' \in [Nodes -> Mon!Heights]
        /\ height' \in [Nodes -> 0..MaxHeight + 1]
    BY <1>6 DEF Restart, Mon!MonitorStarted, TypeOK, Mon!Heights
  <2>2. /\ wpc' \in [Nodes -> {"idle", "waiting"}]
        /\ ctxDone' \in [Nodes -> BOOLEAN]
        /\ dpc' \in [Nodes -> {"iter", "send", "done", "failed", "cancelled"}]
        /\ restarts' \in [Nodes -> 0..MaxRestarts]
    BY <1>6 DEF Restart, TypeOK
  <2>3. /\ sentVub' \in [Nodes -> Vubs]
        /\ groupKey' \in [Nodes -> BOOLEAN]
        /\ mgmt' \in [Nodes -> BOOLEAN]
        /\ result' \in [Nodes -> Addresses]
    BY <1>6 DEF Restart, TypeOK, Vubs, Addresses
  <2>4. QED
    BY <1>6, <2>1, <2>2, <2>3 DEF Restart, TypeOK, chainVars
<1>7. CASE UNCHANGED vars
  BY <1>7 DEF vars, chainVars, monitorVars, waitVars, loopVars, TypeOK
<1>8. QED
  BY <1>1, <1>2, <1>3, <1>4, <1>5, <1>6, <1>7 DEF Next

(* Every behaviour of the deployment loops, the monitors and the chain    *)
(* keeps each variable in its type: heights stay within the chain's bound  *)
(* plus the count read at start, and VUBs within the chain's bound plus    *)
(* the actor's increment.                                                  *)
THEOREM TypeCorrect == Spec => []TypeOK
<1>1. Init => TypeOK
  BY DEF Init, Mon!MonitorInit, Mon!WaitInit, LoopInit, TypeOK, Mon!Heights,
         Addresses, Vubs
<1>2. TypeOK /\ [Next]_vars => TypeOK'
  BY TypeOKStep
<1>3. QED
  BY <1>1, <1>2, PTL DEF Spec

-----------------------------------------------------------------------------
(* The inductive invariant behind NoDuplicateInCall.  A transaction stays *)
(* in the pool only while it is valid; it was sent by the current call of  *)
(* its sender or by an earlier one; the VUB a call remembers is the VUB of *)
(* its transaction in the pool; a call about to send has none there; and   *)
(* no monitor is ahead of the chain, so that a height past the remembered  *)
(* VUB means the transaction can no longer be accepted.                    *)
PoolValid == \A t \in pool : Valid(t, chainHeight)

PoolFromPastCalls == \A t \in pool : t.call <= restarts[t.from]

ThisCall(t) == t.call = restarts[t.from]

PoolMatchesVub == \A t \in pool : ThisCall(t) => t.vub = sentVub[t.from]

SendingHasNoTx ==
    \A n \in Nodes : dpc[n] = "send" => \A t \in pool : t.from = n => ~ThisCall(t)

IInv ==
    /\ TypeOK
    /\ Mon!MonitorNotAhead
    /\ PoolValid
    /\ PoolFromPastCalls
    /\ PoolMatchesVub
    /\ SendingHasNoTx
    /\ NoDuplicateInCall

(* A call that decides to send finds none of its own transactions in the   *)
(* pool: a height past the VUB it remembers, with the monitor never ahead  *)
(* of the chain, means the transaction with that VUB is no longer valid.   *)
LEMMA NoTxWhenExpired ==
    ASSUME TypeOK, Mon!MonitorNotAhead, PoolValid, PoolMatchesVub,
           NEW n \in Nodes, ~PrevTxMayLand(n)
    PROVE  \A t \in pool : t.from = n => ~ThisCall(t)
BY DEF TypeOK, Mon!MonitorNotAhead, PoolValid, PoolMatchesVub, PrevTxMayLand,
       Valid, Tx, Vubs, Mon!Heights, ThisCall

(* A restart leaves the chain alone and gives the node a fresh call, with  *)
(* a monitor started at the chain's current height.                        *)
LEMMA RestartKeepsIInv ==
    ASSUME IInv, NEW n \in Nodes, Restart(n), TypeOK'
    PROVE  IInv'
<1>1. UNCHANGED <<chainHeight, pool>> /\ restarts'[n] = restarts[n] + 1
      /\ \A m \in Nodes \ {n} : restarts'[m] = restarts[m] /\ sentVub'[m] = sentVub[m]
                               /\ dpc'[m] = dpc[m]
  BY DEF Restart, chainVars, IInv, TypeOK
<1>2. \A t \in pool : t.from = n => t.call < restarts'[n]
  BY <1>1 DEF IInv, PoolFromPastCalls, TypeOK, Tx
<1>3. Mon!MonitorNotAhead'
  BY <1>1 DEF Restart, Mon!MonitorStarted, IInv, TypeOK, Mon!MonitorNotAhead,
              Mon!Heights
<1>4. PoolValid' /\ PoolFromPastCalls'
  BY <1>1 DEF IInv, TypeOK, Tx, PoolValid, PoolFromPastCalls
<1>5. PoolMatchesVub' /\ SendingHasNoTx'
  BY <1>1, <1>2 DEF IInv, TypeOK, Tx, PoolMatchesVub, SendingHasNoTx, ThisCall
<1>6. NoDuplicateInCall'
  BY <1>1 DEF IInv, NoDuplicateInCall
<1>7. QED
  BY <1>3, <1>4, <1>5, <1>6 DEF IInv

(* One step keeps the inductive invariant when a failed Deploy call never  *)
(* reaches the pool; restarts are allowed.                                 *)
LEMMA IInvStep ==
    ASSUME ~AmbiguousSend
    PROVE  IInv /\ [Next]_vars => IInv'
<1> SUFFICES ASSUME IInv, [Next]_vars PROVE IInv'
  OBVIOUS
<1>1. TypeOK'
  BY TypeOKStep DEF IInv
<1>2. CASE NewBlock /\ UNCHANGED <<monitorVars, waitVars, loopVars>>
  <2>1. pool' \subseteq pool /\ PoolValid'
    BY <1>2 DEF NewBlock, PoolValid, Valid
  <2>2. Mon!MonitorNotAhead'
    BY <1>2 DEF IInv, TypeOK, NewBlock, Mon!ChainAdvance, Mon!MonitorNotAhead,
                monitorVars, Mon!Heights
  <2>3. QED
    BY <1>1, <1>2, <2>1, <2>2 DEF IInv, PoolFromPastCalls, PoolMatchesVub, ThisCall,
                                  SendingHasNoTx, NoDuplicateInCall, loopVars
<1>3. ASSUME NEW n \in Nodes,
             Mon!ReceiveBlock(n) /\ UNCHANGED <<chainVars, waitVars, loopVars>>
      PROVE IInv'
  <2>1. Mon!MonitorNotAhead'
    BY <1>3 DEF IInv, TypeOK, Mon!ReceiveBlock, Mon!MonitorNotAhead, chainVars,
                Mon!Heights
  <2>2. QED
    BY <1>1, <1>3, <2>1 DEF IInv, PoolValid, PoolFromPastCalls, PoolMatchesVub,
                            ThisCall, SendingHasNoTx, NoDuplicateInCall, chainVars,
                            loopVars
<1>4. ASSUME NEW n \in Nodes,
             \/ Mon!WaitTick(n) /\ UNCHANGED <<chainVars, monitorVars, waitFrom, ctxDone, loopVars>>
             \/ Mon!WaitCancelled(n) /\ UNCHANGED <<chainVars, monitorVars, waitFrom, ctxDone, loopVars>>
             \/ Mon!CancelCtx(n) /\ UNCHANGED <<chainVars, monitorVars, wpc, waitFrom, loopVars>>
      PROVE IInv'
  BY <1>1, <1>4 DEF IInv, Mon!MonitorNotAhead, PoolValid, PoolFromPastCalls,
                    PoolMatchesVub, ThisCall, SendingHasNoTx, NoDuplicateInCall,
                    chainVars, monitorVars, loopVars
<1>5. ASSUME NEW n \in Nodes, ReadState(n) /\ UNCHANGED <<monitorVars, ctxDone, restarts>>
      PROVE IInv'
  <2>1. dpc'[n] = "send" => ~PrevTxMayLand(n)
    BY <1>5 DEF ReadState, EndIteration, IInv, TypeOK
  <2>2. \A m \in Nodes \ {n} : dpc'[m] = dpc[m]
    BY <1>5 DEF ReadState, EndIteration, IInv, TypeOK
  <2>3. SendingHasNoTx'
    BY <1>5, <2>1, <2>2, NoTxWhenExpired DEF ReadState, IInv, SendingHasNoTx,
                                             ThisCall, chainVars
  <2>4. QED
    BY <1>1, <1>5, <2>3 DEF ReadState, IInv, Mon!MonitorNotAhead, PoolValid,
                            PoolFromPastCalls, PoolMatchesVub, ThisCall,
                            NoDuplicateInCall, chainVars, monitorVars
<1>6. ASSUME NEW n \in Nodes, SendDeploy(n) /\ UNCHANGED <<monitorVars, ctxDone>>
      PROVE IInv'
  <2>1. dpc[n] = "send" /\ dpc' = [dpc EXCEPT ![n] = "iter"] /\ UNCHANGED restarts
    BY <1>6 DEF SendDeploy, EndIteration
  <2>2. \A t \in pool : t.from = n => ~ThisCall(t)
    BY <2>1 DEF IInv, SendingHasNoTx
  <2>3. Mon!MonitorNotAhead' /\ UNCHANGED chainHeight
    BY <1>6 DEF SendDeploy, IInv, Mon!MonitorNotAhead, monitorVars
  <2>4. SendingHasNoTx' <=>
          \A m \in Nodes \ {n} : dpc[m] = "send" =>
             \A t \in pool' : t.from = m => ~ThisCall(t)'
    BY <1>1, <2>1 DEF SendingHasNoTx, IInv, TypeOK
  <2>5. CASE UNCHANGED <<sentVub, pool>>
    BY <1>1, <2>1, <2>3, <2>4, <2>5 DEF IInv, PoolValid, PoolFromPastCalls,
                                        PoolMatchesVub, ThisCall, SendingHasNoTx,
                                        NoDuplicateInCall
  <2>6. CASE sentVub' = [sentVub EXCEPT ![n] = 0] /\ UNCHANGED pool
    <3>1. PoolMatchesVub'
      BY <2>1, <2>2, <2>6 DEF IInv, TypeOK, PoolMatchesVub, ThisCall, Tx
    <3>2. QED
      BY <1>1, <2>1, <2>3, <2>4, <2>6, <3>1 DEF IInv, PoolValid, PoolFromPastCalls,
                                                ThisCall, SendingHasNoTx,
                                                NoDuplicateInCall
  <2>7. CASE /\ pool' = pool \cup {[from |-> n, vub |-> TxVub, seq |-> nsent[n] + 1,
                                    call |-> restarts[n]]}
             /\ sentVub' = [sentVub EXCEPT ![n] = TxVub]
    <3>1. PoolValid'
      BY <2>3, <2>7 DEF IInv, TypeOK, PoolValid, Valid, TxVub, Mon!Heights
    <3>2. PoolFromPastCalls'
      BY <2>1, <2>7 DEF IInv, TypeOK, PoolFromPastCalls
    <3>3. PoolMatchesVub'
      BY <2>1, <2>2, <2>7 DEF IInv, TypeOK, PoolMatchesVub, ThisCall, Tx
    <3>4. SendingHasNoTx'
      BY <2>1, <2>4, <2>7 DEF IInv, SendingHasNoTx, ThisCall
    <3>5. NoDuplicateInCall'
      BY <2>1, <2>2, <2>7 DEF IInv, NoDuplicateInCall, ThisCall
    <3>6. QED
      BY <1>1, <2>3, <3>1, <3>2, <3>3, <3>4, <3>5 DEF IInv
  <2>8. QED
    BY <1>6, <2>5, <2>6, <2>7 DEF SendDeploy, DeployCall
<1>7. ASSUME NEW n \in Nodes, Restart(n) PROVE IInv'
  BY <1>1, <1>7, RestartKeepsIInv
<1>8. CASE UNCHANGED vars
  BY <1>1, <1>8 DEF vars, chainVars, monitorVars, waitVars, loopVars, IInv,
                    Mon!MonitorNotAhead, PoolValid, PoolFromPastCalls, PoolMatchesVub,
                    ThisCall, SendingHasNoTx, NoDuplicateInCall
<1>9. QED
  BY <1>2, <1>3, <1>4, <1>5, <1>6, <1>7, <1>8 DEF Next

LEMMA IInvInit == Init => IInv
BY DEF Init, Mon!MonitorInit, Mon!WaitInit, LoopInit, IInv, TypeOK, Mon!Heights,
       Addresses, Vubs, Mon!MonitorNotAhead, PoolValid, PoolFromPastCalls,
       PoolMatchesVub, SendingHasNoTx, NoDuplicateInCall

(* Spec 4.4 and 8 for one call of initNNSContract: while a deployment the  *)
(* call sent may still be accepted, the call sends no other, whatever the  *)
(* restarts of any process and the lag of the monitors, provided a failed  *)
(* Deploy call never reaches the pool (the run deploy_lost_response shows  *)
(* that this hypothesis is needed).                                        *)
THEOREM NoDuplicateInCallHolds ==
    ASSUME ~AmbiguousSend
    PROVE  Spec => []NoDuplicateInCall
<1>1. IInv /\ [Next]_vars => IInv'
  BY IInvStep
<1>2. IInv => NoDuplicateInCall
  BY DEF IInv
<1> QED
  BY IInvInit, <1>1, <1>2, PTL DEF Spec

(* Spec 4.4 and 8 for a process that is never restarted: a node never has  *)
(* two deployment transactions pending at once.  The run                   *)
(* deploy_restart_duplicate shows that with a restart this fails.          *)
THEOREM NoDuplicateDeployHolds ==
    ASSUME MaxRestarts = 0, ~AmbiguousSend
    PROVE  Spec => []NoDuplicateDeploy
<1>1. IInv /\ [Next]_vars => IInv'
  BY IInvStep
<1>2. IInv => NoDuplicateDeploy
  BY DEF IInv, TypeOK, Tx, NoDuplicateInCall, NoDuplicateDeploy
<1> QED
  BY IInvInit, <1>1, <1>2, PTL DEF Spec

=============================================================================
