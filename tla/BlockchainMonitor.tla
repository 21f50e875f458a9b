-------------------------- MODULE BlockchainMonitor --------------------------
(***************************************************************************)
(* The block-height monitor of pkg/morph/deploy/util.go (blockchainMonitor) *)
(* together with the chain it observes.                                    *)
(*                                                                         *)
(* Every node (an operator process) runs its own monitor.                  *)
(* newBlockchainMonitor reads the block COUNT of the chain, subscribes to  *)
(* new blocks and starts a listener goroutine that stores the INDEX of     *)
(* every received block into an atomic height and makes a non-blocking     *)
(* send into the single-slot channel chNewBlock.  waitForNextBlock records *)
(* the height at call time and polls it on a ticker until it grows or the  *)
(* context is done.  stop cancels the subscription.                        *)
(*                                                                         *)
(* Blocks are indexed from 0; the chain's block count is chainHeight + 1.  *)
(***************************************************************************)
EXTENDS Naturals

CONSTANTS
    MaxHeight,      \* the chain produces blocks up to this index (model bound)
    Nodes           \* operator processes, each with its own monitor

ASSUME MaxHeightAssumption == MaxHeight \in Nat \ {0}

VARIABLES
    chainHeight,    \* index of the latest block of the chain
    delivered,      \* per node: index of the latest block its listener received
    height,         \* per node: blockchainMonitor.height (atomic.Uint32)
    newBlockSignal, \* per node: chNewBlock holds a pending notification
    subscribed,     \* per node: the block subscription subID is active
    blockChOpen,    \* per node: the RPC client has not closed blockCh
    listening,      \* per node: the listener goroutine is running
    wpc,            \* per node: "idle" or "waiting" inside waitForNextBlock
    waitFrom,       \* per node: initialBlock of the current wait
    ctxDone         \* per node: the context of the caller is cancelled

monitorVars == <<delivered, height, newBlockSignal, subscribed, blockChOpen, listening>>
waitVars    == <<wpc, waitFrom, ctxDone>>

Heights == 0..MaxHeight

-----------------------------------------------------------------------------
(* The monitor of node n is (re)started (newBlockchainMonitor).            *)
(* GetBlockCount is read first and stored as the height, then the          *)
(* subscription is made: when the chain's latest block was produced        *)
(* between the two calls, the count read is one less and that block is     *)
(* never delivered.  Either way the listener waits for the block after     *)
(* the chain's current one.                                                *)
MonitorStarted(n) ==
    /\ delivered' = [delivered EXCEPT ![n] = chainHeight]
    /\ \E count \in {chainHeight + 1, chainHeight} \ {0} :
          height' = [height EXCEPT ![n] = count]
    /\ newBlockSignal' = [newBlockSignal EXCEPT ![n] = FALSE]
    /\ subscribed' = [subscribed EXCEPT ![n] = TRUE]
    /\ blockChOpen' = [blockChOpen EXCEPT ![n] = TRUE]
    /\ listening' = [listening EXCEPT ![n] = TRUE]

(* Mutant: the subscription is made before the block count is read, so a  *)
(* block counted at start is delivered again afterwards.                  *)
MonitorInitSubscribedFirst ==
    /\ chainHeight \in {0, 1}
    /\ delivered = [n \in Nodes |-> 0]
    /\ height = [n \in Nodes |-> chainHeight + 1]
    /\ newBlockSignal = [n \in Nodes |-> FALSE]
    /\ subscribed = [n \in Nodes |-> TRUE]
    /\ blockChOpen = [n \in Nodes |-> TRUE]
    /\ listening = [n \in Nodes |-> TRUE]

(* All monitors start when the chain is at genesis or one block later.     *)
MonitorInit ==
    /\ chainHeight \in {0, 1}
    /\ delivered = [n \in Nodes |-> chainHeight]
    /\ height \in [Nodes -> {chainHeight + 1, chainHeight} \ {0}]
    /\ newBlockSignal = [n \in Nodes |-> FALSE]
    /\ subscribed = [n \in Nodes |-> TRUE]
    /\ blockChOpen = [n \in Nodes |-> TRUE]
    /\ listening = [n \in Nodes |-> TRUE]

(* The chain produces its next block.                                      *)
ChainAdvance ==
    /\ chainHeight < MaxHeight
    /\ chainHeight' = chainHeight + 1

(* The listener goroutine of node n receives the next block of the         *)
(* subscription, stores its index and notifies chNewBlock without          *)
(* blocking: a full slot drops the notification.                           *)
ReceiveBlock(n) ==
    /\ listening[n] /\ subscribed[n] /\ blockChOpen[n]
    /\ delivered[n] < chainHeight
    /\ delivered' = [delivered EXCEPT ![n] = @ + 1]
    /\ height' = [height EXCEPT ![n] = delivered[n] + 1]
    /\ newBlockSignal' = [newBlockSignal EXCEPT ![n] = TRUE]
    /\ UNCHANGED <<subscribed, blockChOpen, listening>>

(* The RPC client closes blockCh (connection lost).                        *)
CloseBlockCh(n) ==
    /\ blockChOpen[n]
    /\ blockChOpen' = [blockChOpen EXCEPT ![n] = FALSE]
    /\ UNCHANGED <<delivered, height, newBlockSignal, subscribed, listening>>

(* The listener finds blockCh closed: it closes chNewBlock and exits.      *)
ListenerExit(n) ==
    /\ listening[n] /\ ~blockChOpen[n]
    /\ listening' = [listening EXCEPT ![n] = FALSE]
    /\ UNCHANGED <<delivered, height, newBlockSignal, subscribed, blockChOpen>>

(* stop: Unsubscribe either succeeds or fails with a logged warning.       *)
Stop(n) ==
    /\ subscribed[n]
    /\ \E ok \in BOOLEAN : subscribed' = [subscribed EXCEPT ![n] = ~ok]
    /\ UNCHANGED <<delivered, height, newBlockSignal, blockChOpen, listening>>

(* The owner of chNewBlock takes the pending notification.                 *)
ConsumeSignal(n) ==
    /\ newBlockSignal[n]
    /\ newBlockSignal' = [newBlockSignal EXCEPT ![n] = FALSE]
    /\ UNCHANGED <<delivered, height, subscribed, blockChOpen, listening>>

-----------------------------------------------------------------------------
(* waitForNextBlock: initialBlock := currentHeight() on entry; on every    *)
(* tick return if height > initialBlock; return at once when ctx is done.  *)
BeginWait(n) ==
    /\ wpc' = [wpc EXCEPT ![n] = "waiting"]
    /\ waitFrom' = [waitFrom EXCEPT ![n] = height[n]]

WaitReturns(n) == height[n] > waitFrom[n]

WaitTick(n) ==
    /\ wpc[n] = "waiting"
    /\ WaitReturns(n)
    /\ wpc' = [wpc EXCEPT ![n] = "idle"]

WaitCancelled(n) ==
    /\ wpc[n] = "waiting"
    /\ ctxDone[n]
    /\ wpc' = [wpc EXCEPT ![n] = "idle"]

CancelCtx(n) ==
    /\ ~ctxDone[n]
    /\ ctxDone' = [ctxDone EXCEPT ![n] = TRUE]

WaitInit ==
    /\ wpc = [n \in Nodes |-> "idle"]
    /\ waitFrom = [n \in Nodes |-> 0]
    /\ ctxDone = [n \in Nodes |-> FALSE]

-----------------------------------------------------------------------------
(* The monitor on its own, used by a caller that waits for blocks again    *)
(* and again (only while the bounded chain can still grow) and stops the   *)
(* monitor when it is done waiting: a stopped monitor must not be used.    *)
Caller(n) ==
    \/ /\ wpc[n] = "idle" /\ subscribed[n]
       /\ height[n] < MaxHeight
       /\ BeginWait(n) /\ UNCHANGED ctxDone
    \/ WaitTick(n) /\ UNCHANGED <<waitFrom, ctxDone>>
    \/ WaitCancelled(n) /\ UNCHANGED <<waitFrom, ctxDone>>
    \/ CancelCtx(n) /\ UNCHANGED <<wpc, waitFrom>>

Listener(n) ==
    \/ ReceiveBlock(n)
    \/ CloseBlockCh(n)
    \/ ListenerExit(n)
    \/ ConsumeSignal(n)
    \/ Stop(n) /\ wpc[n] = "idle"

vars == <<chainHeight, monitorVars, waitVars>>

Init == MonitorInit /\ WaitInit

Next ==
    \/ ChainAdvance /\ UNCHANGED <<monitorVars, waitVars>>
    \/ \E n \in Nodes :
          \/ Listener(n) /\ UNCHANGED <<chainHeight, waitVars>>
          \/ Caller(n) /\ UNCHANGED <<chainHeight, monitorVars>>

Spec == Init /\ [][Next]_vars

-----------------------------------------------------------------------------
TypeOK ==
    /\ chainHeight \in Heights
    /\ delivered \in [Nodes -> Heights]
    /\ height \in [Nodes -> 0..MaxHeight + 1]
    /\ newBlockSignal \in [Nodes -> BOOLEAN]
    /\ subscribed \in [Nodes -> BOOLEAN]
    /\ blockChOpen \in [Nodes -> BOOLEAN]
    /\ listening \in [Nodes -> BOOLEAN]
    /\ wpc \in [Nodes -> {"idle", "waiting"}]
    /\ waitFrom \in [Nodes -> 0..MaxHeight + 1]
    /\ ctxDone \in [Nodes -> BOOLEAN]

(* No monitor reports a height above the chain's block count: the count   *)
(* read at start may overestimate the latest index by one, every later    *)
(* value is the index of a block the chain has produced.  The deploy and  *)
(* update loops rely on this to decide that a sent transaction expired.   *)
MonitorNotAhead ==
    \A n \in Nodes :
        /\ delivered[n] <= chainHeight
        /\ height[n] <= delivered[n] + 1

(* Spec 8, monotonic height: currentHeight never decreases, although the   *)
(* first stored value is a block count and every later one a block index.  *)
HeightMonotonic == [][\A n \in Nodes : height'[n] >= height[n]]_height

=============================================================================
