---------------------------- MODULE TxGroupMonitor ----------------------------
(***************************************************************************)
(* transactionGroupMonitor of pkg/morph/deploy/util.go: an atomic pending  *)
(* flag, set by trackPendingTransactionsAsync before it starts a goroutine *)
(* that waits (WaitAny) until a transaction of the group is accepted, its  *)
(* VUB is passed or the context is done, and then calls reset() and       *)
(* cancels its derived context.                                            *)
(*                                                                         *)
(* The orchestrator using it is not in this repository's sources: it is    *)
(* modelled from the specification (4.2): it submits a group only when     *)
(* isPending() is false.  A group of alternative transactions is           *)
(* modelled by one transaction: the first accepted wins.                  *)
(***************************************************************************)
EXTENDS Naturals

CONSTANTS
    MaxHeight,      \* the chain produces blocks up to this index (model bound)
    VubIncrement,   \* blocks a submitted group stays valid for
    MaxTracks       \* groups the caller submits (model bound)

ASSUME TrackerAssumption ==
    /\ MaxHeight \in Nat \ {0}
    /\ VubIncrement \in Nat \ {0}
    /\ MaxTracks \in Nat

VARIABLES
    chainHeight,    \* index of the latest block
    pool,           \* submitted groups still valid: [track, vub]
    landed,         \* tracks whose group was accepted by a block
    pending,        \* transactionGroupMonitor.pending
    waiting,        \* tracks whose goroutine is inside WaitAny
    finishing,      \* tracks whose goroutine returned from WaitAny, before reset()
    ntracks,        \* groups submitted so far
    vubOf,          \* VUB of each submitted track
    ctxDone         \* the caller's context is cancelled

vars == <<chainHeight, pool, landed, pending, waiting, finishing, ntracks, vubOf, ctxDone>>

Tracks == 1..MaxTracks

-----------------------------------------------------------------------------
(* The chain: the next block accepts one group of the pool or none; groups *)
(* whose VUB it reaches leave the pool.                                    *)
NewBlock ==
    /\ chainHeight < MaxHeight
    /\ chainHeight' = chainHeight + 1
    /\ \/ UNCHANGED landed /\ pool' = {g \in pool : g.vub >= chainHeight' + 1}
       \/ \E g \in pool :
             /\ landed' = landed \cup {g.track}
             /\ pool' = {h \in pool \ {g} : h.vub >= chainHeight' + 1}
    /\ UNCHANGED <<pending, waiting, finishing, ntracks, vubOf, ctxDone>>

-----------------------------------------------------------------------------
(* trackPendingTransactionsAsync: the flag is stored before the goroutine  *)
(* is started; the caller submits only while isPending() is false.         *)
SubmitAndTrack ==
    /\ ~ctxDone /\ ~pending
    /\ ntracks < MaxTracks
    /\ chainHeight + VubIncrement < MaxHeight
    /\ LET k == ntracks + 1
           v == chainHeight + VubIncrement
       IN /\ pool' = pool \cup {[track |-> k, vub |-> v]}
          /\ vubOf' = [vubOf EXCEPT ![k] = v]
          /\ ntracks' = k
          /\ pending' = TRUE
          /\ waiting' = waiting \cup {k}
    /\ UNCHANGED <<chainHeight, landed, finishing, ctxDone>>

(* WaitAny of track k returns: a transaction of the group was accepted,    *)
(* the chain passed its VUB, or the derived context is done.               *)
WaitAnyReturns(k) ==
    /\ k \in waiting
    /\ k \in landed \/ chainHeight > vubOf[k] \/ ctxDone
    /\ waiting' = waiting \ {k}
    /\ finishing' = finishing \cup {k}
    /\ UNCHANGED <<chainHeight, pool, landed, pending, ntracks, vubOf, ctxDone>>

(* Mutant: the goroutine clears the flag before its wait has returned.     *)
GoroutineResetEarly(k) ==
    /\ k \in waiting \cup finishing
    /\ pending' = FALSE
    /\ finishing' = finishing \ {k}
    /\ UNCHANGED <<chainHeight, pool, landed, waiting, ntracks, vubOf, ctxDone>>

(* The goroutine then calls reset() (whatever track the flag now belongs   *)
(* to) and cancel().                                                       *)
GoroutineReset(k) ==
    /\ k \in finishing
    /\ pending' = FALSE
    /\ finishing' = finishing \ {k}
    /\ UNCHANGED <<chainHeight, pool, landed, waiting, ntracks, vubOf, ctxDone>>

CancelCtx ==
    /\ ~ctxDone
    /\ ctxDone' = TRUE
    /\ UNCHANGED <<chainHeight, pool, landed, pending, waiting, finishing, ntracks, vubOf>>

-----------------------------------------------------------------------------
Init ==
    /\ chainHeight = 0
    /\ pool = {}
    /\ landed = {}
    /\ pending = FALSE
    /\ waiting = {}
    /\ finishing = {}
    /\ ntracks = 0
    /\ vubOf = [k \in Tracks |-> 0]
    /\ ctxDone = FALSE

Next ==
    \/ NewBlock
    \/ SubmitAndTrack
    \/ CancelCtx
    \/ \E k \in Tracks : WaitAnyReturns(k) \/ GoroutineReset(k)

Spec == Init /\ [][Next]_vars

-----------------------------------------------------------------------------
TypeOK ==
    /\ chainHeight \in 0..MaxHeight
    /\ pool \subseteq [track : Tracks, vub : 0..MaxHeight + VubIncrement]
    /\ landed \subseteq Tracks
    /\ pending \in BOOLEAN
    /\ waiting \subseteq Tracks
    /\ finishing \subseteq Tracks
    /\ ntracks \in 0..MaxTracks
    /\ vubOf \in [Tracks -> 0..MaxHeight + VubIncrement]
    /\ ctxDone \in BOOLEAN

(* Spec 4.2 and 6: isPending() false means "safe to attempt a new          *)
(* submission": while the context is live, no group the caller submitted   *)
(* can still be accepted when the flag reads false.  A reset() before      *)
(* WaitAny has returned would break it.                                     *)
SafeToResubmit == (~pending /\ ~ctxDone) => pool = {}

=============================================================================
