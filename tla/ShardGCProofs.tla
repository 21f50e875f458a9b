----------------------------- MODULE ShardGCProofs -----------------------------
(***************************************************************************)
(* Proofs about the shard garbage collector (ShardGC) for every number of  *)
(* handlers, events, objects and failures: a job is dropped by the pool    *)
(* only behind a cancelled handler of an earlier event.                    *)
(***************************************************************************)
EXTENDS ShardGC, FiniteSetTheorems, TLAPS

USE GCAssumption

-----------------------------------------------------------------------------
(* The inductive invariant.  The context generation is the number of       *)
(* events received; no job belongs to a later one; while listenEvents is   *)
(* submitting, the latest event's jobs in the pool are the handlers before *)
(* the one it is about to submit.                                          *)
GenIsSent ==
    /\ sent \in 0..MaxEvents
    /\ cur = sent
    /\ lpc = "submit" => cur \in 1..MaxEvents

JobsNotAhead == \A k \in jobs : k.gen <= cur

CurJobsSubmitted ==
    lpc = "submit" => \A k \in jobs : k.gen = cur => k.h < next

(* Every job whose context is not cancelled belongs to the latest event:   *)
(* the strengthening that DropOnlyBehindCancelled rests on.               *)
OnlyLatestLive ==
    \A j \in jobs : j.gen \notin cancelled => j.gen = cur

GCInv ==
    /\ TypeOK
    /\ GenIsSent
    /\ JobsNotAhead
    /\ CurJobsSubmitted
    /\ OnlyLatestLive

-----------------------------------------------------------------------------
(* The remover's steps touch none of the listener's variables, and the     *)
(* listener's none of the remover's.                                       *)
LEMMA RemoverKeepsGCInv ==
    ASSUME GCInv, UNCHANGED eventVars,
           \/ CollectGraves \/ DeleteBatch
           \/ \E o \in Objects : MarkGarbage(o)
    PROVE  GCInv'
<1>1. stored' \subseteq Objects /\ marked' \subseteq Objects /\ buf' \subseteq Objects
  BY DEF CollectGraves, DeleteBatch, MarkGarbage, GCInv, TypeOK
<1>2. rpc' \in {"idle", "delete"}
  BY DEF CollectGraves, DeleteBatch, MarkGarbage, GCInv, TypeOK
<1> QED
  BY <1>1, <1>2 DEF eventVars, GCInv, TypeOK, GenIsSent, JobsNotAhead,
                    CurJobsSubmitted, OnlyLatestLive

LEMMA ReceiveKeepsGCInv ==
    ASSUME GCInv, ReceiveEvent, UNCHANGED removeVars
    PROVE  GCInv'
<1>1. sent \in 0..MaxEvents - 1 /\ sent' = sent + 1 /\ cur' = sent' /\ next' = 1
  BY DEF ReceiveEvent, GCInv, GenIsSent
<1>2. cancelled' = cancelled \cup {cur} /\ jobs' = jobs /\ lpc' = "submit"
  BY DEF ReceiveEvent
<1>3. \A k \in jobs : k.gen \in cancelled'
  BY <1>2 DEF GCInv, OnlyLatestLive
<1>4. \A k \in jobs : k.gen < cur'
  BY <1>1 DEF GCInv, JobsNotAhead, GenIsSent, TypeOK, Job
<1>5. TypeOK'
  BY <1>1, <1>2 DEF ReceiveEvent, removeVars, GCInv, GenIsSent, TypeOK
<1>6. GenIsSent'
  BY <1>1, <1>2 DEF GenIsSent
<1>7. JobsNotAhead' /\ CurJobsSubmitted'
  <2>1. \A k \in jobs : k.gen \in Nat
    BY DEF GCInv, TypeOK, Job
  <2> QED
    BY <1>1, <1>2, <1>4, <2>1 DEF JobsNotAhead, CurJobsSubmitted
<1>8. OnlyLatestLive'
  BY <1>2, <1>3 DEF OnlyLatestLive
<1> QED
  BY <1>5, <1>6, <1>7, <1>8 DEF GCInv

LEMMA SubmitKeepsGCInv ==
    ASSUME GCInv, SubmitHandler, UNCHANGED removeVars
    PROVE  GCInv'
<1> DEFINE j == [gen |-> cur, h |-> next]
<1>1. j \in Job /\ lpc = "submit"
  BY DEF SubmitHandler, GCInv, GenIsSent, TypeOK, Job
<1>2. /\ jobs' \subseteq jobs \cup {j} /\ dropped' \subseteq dropped \cup {j}
      /\ UNCHANGED <<sent, cur, cancelled>>
  BY DEF SubmitHandler
<1>3. \/ next = NHandlers /\ lpc' = "recv" /\ next' = next
      \/ next < NHandlers /\ next' = next + 1 /\ lpc' = lpc
  BY DEF SubmitHandler, GCInv, TypeOK
<1>4. TypeOK'
  BY <1>1, <1>2, <1>3 DEF SubmitHandler, removeVars, GCInv, TypeOK
<1>5. CurJobsSubmitted'
  BY <1>1, <1>2, <1>3 DEF GCInv, CurJobsSubmitted, TypeOK, Job
<1> QED
  BY <1>1, <1>2, <1>3, <1>4, <1>5
     DEF GCInv, GenIsSent, JobsNotAhead, OnlyLatestLive

LEMMA GCInvStep == GCInv /\ [Next]_vars => GCInv'
<1> SUFFICES ASSUME GCInv, [Next]_vars PROVE GCInv'
  OBVIOUS
<1>1. CASE ReceiveEvent /\ UNCHANGED removeVars
  BY <1>1, ReceiveKeepsGCInv
<1>2. CASE SubmitHandler /\ UNCHANGED removeVars
  BY <1>2, SubmitKeepsGCInv
<1>3. CASE (CloseChannel \/ ListenerStops) /\ UNCHANGED removeVars
  BY <1>3 DEF CloseChannel, ListenerStops, removeVars, GCInv, TypeOK, GenIsSent,
              JobsNotAhead, CurJobsSubmitted, OnlyLatestLive
<1>4. CASE \E k \in jobs : JobReturns(k) /\ UNCHANGED removeVars
  BY <1>4 DEF JobReturns, removeVars, GCInv, TypeOK, GenIsSent,
              JobsNotAhead, CurJobsSubmitted, OnlyLatestLive
<1>5. CASE (CollectGraves \/ DeleteBatch \/ \E o \in Objects : MarkGarbage(o))
           /\ UNCHANGED eventVars
  BY <1>5, RemoverKeepsGCInv
<1>6. CASE UNCHANGED vars
  BY <1>6 DEF vars, eventVars, removeVars, GCInv, TypeOK, GenIsSent,
              JobsNotAhead, CurJobsSubmitted, OnlyLatestLive
<1> QED
  BY <1>1, <1>2, <1>3, <1>4, <1>5, <1>6 DEF Next

LEMMA GCInvInit == Init => GCInv
BY DEF Init, GCInv, TypeOK, GenIsSent, JobsNotAhead, CurJobsSubmitted, OnlyLatestLive

LEMMA GCInvHolds == Spec => []GCInv
BY GCInvInit, GCInvStep, PTL DEF Spec

(* gc.init sizes the pool to the handler count, and a job that the pool    *)
(* holds is either a cancelled handler of an earlier event or a handler of *)
(* the latest one; the type invariant holds for every number of handlers,  *)
(* events and objects.                                                     *)
THEOREM TypeCorrect == Spec => []TypeOK
BY GCInvHolds, PTL DEF GCInv

-----------------------------------------------------------------------------
(* Handlers 1..n of one event are at most n jobs.                          *)
LEMMA HandlersBound ==
    ASSUME NEW c, NEW n \in Nat,
           NEW T \in SUBSET {[gen |-> c, h |-> i] : i \in 1..n}
    PROVE  IsFiniteSet(T) /\ Cardinality(T) <= n
<1> DEFINE S == {[gen |-> c, h |-> i] : i \in 1..n}
           f == [i \in 1..n |-> [gen |-> c, h |-> i]]
<1>1. f \in Surjection(1..n, S)
  BY DEF Surjection
<1>2. IsFiniteSet(S) /\ Cardinality(S) <= n
  BY <1>1, FS_NatSurjection, FS_SurjCardinalityBound DEF ExistsSurjection
<1>3. IsFiniteSet(T) /\ Cardinality(T) <= Cardinality(S)
  BY <1>2, FS_Subset
<1>4. Cardinality(T) \in Nat /\ Cardinality(S) \in Nat
  BY <1>2, <1>3, FS_CardinalityType
<1> QED
  BY <1>2, <1>3, <1>4

(* When the pool refuses a job of the latest event, it holds a job of an   *)
(* earlier one: the latest event's jobs are fewer than the handlers.       *)
LEMMA FullPoolHoldsOlderJob ==
    ASSUME GCInv, lpc = "submit", ~(Cardinality(jobs) < PoolCapacity)
    PROVE  \E k \in jobs : k.gen # cur /\ k.gen \in cancelled
<1> SUFFICES ASSUME \A k \in jobs : k.gen = cur \/ k.gen \notin cancelled
             PROVE  FALSE
  OBVIOUS
<1>1. \A k \in jobs : k.gen = cur
  BY DEF GCInv, OnlyLatestLive
<1>2. next \in 1..NHandlers
  BY DEF GCInv, TypeOK
<1>3. jobs \in SUBSET {[gen |-> cur, h |-> i] : i \in 1..(next - 1)}
  <2> SUFFICES ASSUME NEW k \in jobs
               PROVE  k \in {[gen |-> cur, h |-> i] : i \in 1..(next - 1)}
    OBVIOUS
  <2>1. k \in Job /\ k.gen = cur /\ k.h < next
    BY <1>1 DEF GCInv, TypeOK, CurJobsSubmitted
  <2> QED
    BY <2>1, <1>2 DEF Job
<1>4. IsFiniteSet(jobs) /\ Cardinality(jobs) <= next - 1
  <2>1. next - 1 \in Nat
    BY <1>2
  <2> QED
    BY <1>3, <2>1, HandlersBound
<1>5. Cardinality(jobs) \in Nat
  BY <1>4, FS_CardinalityType
<1> QED
  BY <1>2, <1>4, <1>5 DEF PoolCapacity

(* The step form of DropOnlyBehindCancelled.                               *)
LEMMA DropStep ==
    ASSUME GCInv, [Next]_vars
    PROVE  \A j \in dropped' \ dropped :
              \E k \in jobs : k.gen # j.gen /\ k.gen \in cancelled
<1>1. CASE SubmitHandler
  <2> DEFINE j0 == [gen |-> cur, h |-> next]
  <2>1. CASE Cardinality(jobs) < PoolCapacity
    BY <1>1, <2>1 DEF SubmitHandler
  <2>2. CASE ~(Cardinality(jobs) < PoolCapacity)
    <3>1. dropped' \ dropped \subseteq {j0} /\ lpc = "submit"
      BY <1>1, <2>2 DEF SubmitHandler
    <3> QED
      BY <3>1, <2>2, FullPoolHoldsOlderJob
  <2> QED
    BY <2>1, <2>2
<1>2. CASE ~SubmitHandler
  <2>1. dropped' = dropped
    BY <1>2 DEF Next, vars, eventVars, ReceiveEvent, CloseChannel, ListenerStops,
                JobReturns
  <2> QED
    BY <2>1
<1> QED
  BY <1>1, <1>2

(* listenEvents loses a handler's Submit to a full pool only while a       *)
(* handler of an earlier, already cancelled event is still in the pool,    *)
(* for every number of handlers and events.                                *)
THEOREM DropOnlyBehindCancelledHolds == Spec => DropOnlyBehindCancelled
<1>1. GCInv /\ [Next]_vars =>
        [\A j \in dropped' \ dropped :
            \E k \in jobs : k.gen # j.gen /\ k.gen \in cancelled]_vars
  BY DropStep
<1> QED
  BY <1>1, GCInvHolds, PTL DEF Spec, DropOnlyBehindCancelled

=============================================================================
