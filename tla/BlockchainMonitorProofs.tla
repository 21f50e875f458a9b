------------------------ MODULE BlockchainMonitorProofs ------------------------
(***************************************************************************)
(* Proofs about the block-height monitor (BlockchainMonitor) for every     *)
(* chain bound and set of nodes: no monitor runs ahead of the chain, and   *)
(* the height a monitor reports never decreases.                           *)
(***************************************************************************)
EXTENDS BlockchainMonitor, TLAPS

USE MaxHeightAssumption

-----------------------------------------------------------------------------
(* The inductive invariant: the types, and every monitor's received index  *)
(* and reported height stay within one block of the chain.                 *)
MInv == TypeOK /\ MonitorNotAhead

LEMMA MInvInit == Init => MInv
BY DEF Init, MonitorInit, WaitInit, MInv, TypeOK, MonitorNotAhead, Heights

(* A listener step of node n changes only node n's monitor.                *)
LEMMA ListenerKeepsMInv ==
    ASSUME MInv, NEW n \in Nodes, Listener(n), UNCHANGED <<chainHeight, waitVars>>
    PROVE  MInv'
<1>1. CASE ReceiveBlock(n)
  <2>1. delivered[n] \in 0..chainHeight - 1 /\ chainHeight \in Heights
    BY <1>1 DEF ReceiveBlock, MInv, TypeOK, Heights
  <2>2. TypeOK'
    BY <1>1, <2>1 DEF ReceiveBlock, waitVars, MInv, TypeOK, Heights
  <2>3. MonitorNotAhead'
    <3> SUFFICES ASSUME NEW m \in Nodes
                 PROVE  delivered'[m] <= chainHeight' /\ height'[m] <= delivered'[m] + 1
      BY DEF MonitorNotAhead
    <3>1. chainHeight' = chainHeight
      BY <1>1
    <3>2. CASE m = n
      BY <1>1, <2>1, <3>1, <3>2 DEF ReceiveBlock, MInv, TypeOK, Heights
    <3>3. CASE m # n
      BY <1>1, <3>1, <3>3 DEF ReceiveBlock, MInv, TypeOK, MonitorNotAhead
    <3> QED
      BY <3>2, <3>3
  <2> QED
    BY <2>2, <2>3 DEF MInv
<1>2. CASE CloseBlockCh(n) \/ ListenerExit(n) \/ ConsumeSignal(n) \/ Stop(n)
  BY <1>2 DEF CloseBlockCh, ListenerExit, ConsumeSignal, Stop, waitVars,
              MInv, TypeOK, MonitorNotAhead
<1> QED
  BY <1>1, <1>2 DEF Listener

(* A caller step of node n changes only node n's wait.                     *)
LEMMA CallerKeepsMInv ==
    ASSUME MInv, NEW n \in Nodes, Caller(n), UNCHANGED <<chainHeight, monitorVars>>
    PROVE  MInv'
<1>1. CASE wpc[n] = "idle" /\ subscribed[n] /\ height[n] < MaxHeight
           /\ BeginWait(n) /\ UNCHANGED ctxDone
  BY <1>1 DEF BeginWait, monitorVars, MInv, TypeOK, MonitorNotAhead
<1>2. CASE (WaitTick(n) \/ WaitCancelled(n)) /\ UNCHANGED <<waitFrom, ctxDone>>
  BY <1>2 DEF WaitTick, WaitCancelled, monitorVars, MInv, TypeOK, MonitorNotAhead
<1>3. CASE CancelCtx(n) /\ UNCHANGED <<wpc, waitFrom>>
  BY <1>3 DEF CancelCtx, monitorVars, MInv, TypeOK, MonitorNotAhead
<1> QED
  BY <1>1, <1>2, <1>3 DEF Caller

LEMMA MInvStep == MInv /\ [Next]_vars => MInv'
<1> SUFFICES ASSUME MInv, [Next]_vars PROVE MInv'
  OBVIOUS
<1>1. CASE ChainAdvance /\ UNCHANGED <<monitorVars, waitVars>>
  BY <1>1 DEF ChainAdvance, monitorVars, waitVars, MInv, TypeOK, MonitorNotAhead,
              Heights
<1>2. CASE \E n \in Nodes : Listener(n) /\ UNCHANGED <<chainHeight, waitVars>>
  BY <1>2, ListenerKeepsMInv
<1>3. CASE \E n \in Nodes : Caller(n) /\ UNCHANGED <<chainHeight, monitorVars>>
  BY <1>3, CallerKeepsMInv
<1>4. CASE UNCHANGED vars
  BY <1>4 DEF vars, monitorVars, waitVars, MInv, TypeOK, MonitorNotAhead
<1> QED
  BY <1>1, <1>2, <1>3, <1>4 DEF Next

(* No monitor runs ahead of the chain: the index a listener received is a  *)
(* block the chain produced, and the height is at most one more, although  *)
(* newBlockchainMonitor stores a block count first.                         *)
THEOREM MonitorNotAheadHolds == Spec => []MonitorNotAhead
BY MInvInit, MInvStep, PTL DEF Spec, MInv

-----------------------------------------------------------------------------
(* The step form of HeightMonotonic: the listener stores delivered + 1,    *)
(* which is at least the height it replaces.                               *)
LEMMA HeightStep ==
    ASSUME MInv, [Next]_vars
    PROVE  [\A n \in Nodes : height'[n] >= height[n]]_height
<1>1. CASE \E n \in Nodes : ReceiveBlock(n) /\ UNCHANGED <<chainHeight, waitVars>>
  BY <1>1 DEF ReceiveBlock, MInv, TypeOK, MonitorNotAhead, Heights
<1>2. CASE ~\E n \in Nodes : ReceiveBlock(n) /\ UNCHANGED <<chainHeight, waitVars>>
  BY <1>2 DEF Next, Listener, Caller, vars, monitorVars, waitVars, BeginWait,
              WaitTick, WaitCancelled, CancelCtx, CloseBlockCh, ListenerExit,
              ConsumeSignal, Stop, ChainAdvance
<1> QED
  BY <1>1, <1>2

(* Spec 8: currentHeight never decreases, for every chain bound and every  *)
(* set of nodes, although the first stored value is a block count and      *)
(* every later one a block index.                                          *)
THEOREM HeightMonotonicHolds == Spec => HeightMonotonic
<1>1. MInv /\ [Next]_vars => [\A n \in Nodes : height'[n] >= height[n]]_height
  BY HeightStep
<1>2. Spec => []MInv
  BY MInvInit, MInvStep, PTL DEF Spec
<1> QED
  BY <1>1, <1>2, PTL DEF Spec, HeightMonotonic

=============================================================================
