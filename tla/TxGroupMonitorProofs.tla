------------------------- MODULE TxGroupMonitorProofs -------------------------
(***************************************************************************)
(* Proofs about transactionGroupMonitor (TxGroupMonitor), for every value  *)
(* of the constants: the type invariant, and that a false pending flag     *)
(* with a live context means no tracked group can still be accepted.       *)
(***************************************************************************)
EXTENDS TxGroupMonitor, TLAPS

USE TrackerAssumption

-----------------------------------------------------------------------------
(* The inductive invariant behind SafeToResubmit.  At most one group is in *)
(* the pool; it is the latest track, still valid, not yet accepted, and    *)
(* its goroutine is still inside WaitAny unless the context is done; a     *)
(* goroutine that has not reached reset() belongs to the latest track and  *)
(* keeps the flag set.                                                     *)
PoolSingle == \A g, h \in pool : g = h

PoolLive ==
    \A g \in pool :
        /\ g.track = ntracks
        /\ g.vub = vubOf[g.track]
        /\ g.vub >= chainHeight + 1
        /\ g.track \notin landed
        /\ g.track \in waiting \/ ctxDone

TracksActive ==
    /\ \A k \in waiting \cup finishing : k = ntracks /\ pending
    /\ waiting \cap finishing = {}

LandedSubmitted == landed \subseteq 1..ntracks

IInv ==
    /\ TypeOK
    /\ PoolSingle
    /\ PoolLive
    /\ TracksActive
    /\ LandedSubmitted

(* With the flag clear and the context live the pool is empty.             *)
LEMMA IInvSafe == IInv => SafeToResubmit
BY DEF IInv, PoolLive, TracksActive, SafeToResubmit

LEMMA IInvStep == IInv /\ [Next]_vars => IInv'
<1> SUFFICES ASSUME IInv, [Next]_vars PROVE IInv'
  OBVIOUS
<1>1. CASE NewBlock
  <2>1. chainHeight' \in 0..MaxHeight /\ chainHeight' = chainHeight + 1
    BY <1>1 DEF NewBlock, IInv, TypeOK
  <2>2. pool' \subseteq pool /\ \A g \in pool' : g.vub >= chainHeight' + 1
    BY <1>1 DEF NewBlock
  <2>3. UNCHANGED <<pending, waiting, finishing, ntracks, vubOf, ctxDone>>
    BY <1>1 DEF NewBlock
  <2>4. CASE UNCHANGED landed
    BY <2>1, <2>2, <2>3, <2>4 DEF IInv, TypeOK, PoolSingle, PoolLive, TracksActive,
                                  LandedSubmitted
  \* The accepted group was the only one in the pool.
  <2>5. CASE \E g \in pool : /\ landed' = landed \cup {g.track}
                             /\ pool' = {h \in pool \ {g} : h.vub >= chainHeight' + 1}
    <3>1. PICK g \in pool : /\ landed' = landed \cup {g.track}
                           /\ pool' = {h \in pool \ {g} : h.vub >= chainHeight' + 1}
      BY <2>5
    <3>2. pool' = {}
      BY <3>1 DEF IInv, PoolSingle
    <3>3. g.track = ntracks /\ g.track \in Tracks /\ ntracks \in Nat
      BY DEF IInv, PoolLive, TypeOK, Tracks
    <3>4. ntracks' = ntracks /\ ntracks \in 1..MaxTracks
      BY <2>3, <3>3 DEF Tracks
    <3>5. landed \subseteq 1..ntracks
      BY DEF IInv, LandedSubmitted
    <3>6. landed' \subseteq 1..ntracks
      BY <3>1, <3>3, <3>4, <3>5
    <3>7. LandedSubmitted' /\ landed' \subseteq Tracks
      BY <3>4, <3>6 DEF LandedSubmitted, Tracks
    <3> QED
      BY <2>1, <2>3, <3>2, <3>7 DEF IInv, TypeOK, PoolSingle, PoolLive, TracksActive
  <2>6. QED
    BY <1>1, <2>4, <2>5 DEF NewBlock
<1>2. CASE SubmitAndTrack
  <2>1. pool = {} /\ waiting = {} /\ finishing = {}
    BY <1>2 DEF SubmitAndTrack, IInv, PoolLive, TracksActive
  <2>2. TypeOK'
    BY <1>2 DEF SubmitAndTrack, IInv, TypeOK, Tracks
  <2>3. QED
    BY <1>2, <2>1, <2>2 DEF SubmitAndTrack, IInv, PoolSingle, PoolLive, TracksActive,
                            LandedSubmitted, TypeOK
<1>3. CASE CancelCtx
  BY <1>3 DEF CancelCtx, IInv, TypeOK, PoolSingle, PoolLive, TracksActive,
              LandedSubmitted
<1>4. ASSUME NEW k \in Tracks, WaitAnyReturns(k) PROVE IInv'
  <2>1. \A g \in pool : g.track = k => ctxDone
    <3> SUFFICES ASSUME NEW g \in pool, g.track = k PROVE ctxDone
      OBVIOUS
    <3>1. g.track \notin landed /\ g.vub = vubOf[k] /\ g.vub >= chainHeight + 1
      BY DEF IInv, PoolLive
    <3>2. g.vub \in Nat /\ chainHeight \in Nat
      BY DEF IInv, TypeOK
    <3>3. ~(chainHeight > vubOf[k])
      BY <3>1, <3>2
    <3> QED
      BY <1>4, <3>1, <3>3 DEF WaitAnyReturns
  <2>2. QED
    BY <1>4, <2>1 DEF WaitAnyReturns, IInv, TypeOK, PoolSingle, PoolLive, TracksActive,
                      LandedSubmitted
<1>5. ASSUME NEW k \in Tracks, GoroutineReset(k) PROVE IInv'
  <2>1. waiting = {}
    BY <1>5 DEF GoroutineReset, IInv, TracksActive
  <2>2. finishing' = {}
    BY <1>5 DEF GoroutineReset, IInv, TracksActive
  <2>3. QED
    BY <1>5, <2>1, <2>2 DEF GoroutineReset, IInv, TypeOK, PoolSingle, PoolLive, TracksActive,
                      LandedSubmitted
<1>6. CASE UNCHANGED vars
  BY <1>6 DEF vars, IInv, TypeOK, PoolSingle, PoolLive, TracksActive, LandedSubmitted
<1>7. QED
  BY <1>1, <1>2, <1>3, <1>4, <1>5, <1>6 DEF Next

(* Spec 4.2, 5 and 8: while the caller's context is live, isPending()      *)
(* reading false means no group the caller submitted can still be accepted *)
(* by a later block, for every chain length, VUB increment and number of   *)
(* tracks, when the caller submits only while the flag is clear.           *)
THEOREM SafeToResubmitHolds == Spec => []SafeToResubmit
<1>1. Init => IInv
  <2> SUFFICES ASSUME Init PROVE IInv
    OBVIOUS
  <2>1. TypeOK
    <3>1. vubOf \in [Tracks -> 0..MaxHeight + VubIncrement]
      BY DEF Init
    <3>2. chainHeight \in 0..MaxHeight /\ ntracks \in 0..MaxTracks
      BY DEF Init
    <3>3. pool \subseteq [track : Tracks, vub : 0..MaxHeight + VubIncrement]
      BY DEF Init
    <3>4. landed \subseteq Tracks /\ waiting \subseteq Tracks /\ finishing \subseteq Tracks
      BY DEF Init
    <3>5. pending \in BOOLEAN /\ ctxDone \in BOOLEAN
      BY DEF Init
    <3> QED
      BY <3>1, <3>2, <3>3, <3>4, <3>5 DEF TypeOK
  <2>2. LandedSubmitted
    BY DEF Init, LandedSubmitted
  <2> QED
    BY <2>1, <2>2 DEF Init, IInv, PoolSingle, PoolLive, TracksActive
<1>2. IInv /\ [Next]_vars => IInv'
  BY IInvStep
<1>3. QED
  BY <1>1, <1>2, IInvSafe, PTL DEF Spec

=============================================================================
