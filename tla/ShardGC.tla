-------------------------------- MODULE ShardGC --------------------------------
(***************************************************************************)
(* The shard garbage collector of pkg/local_object_storage/shard/gc.go.    *)
(*                                                                         *)
(* listenEvents receives external events from an unbuffered channel; for  *)
(* an event type with handlers it cancels the context given to the         *)
(* handlers of the previous event, makes a new one and submits every       *)
(* handler, in order, to a worker pool sized (by init) to the number of    *)
(* handlers; a full pool makes Submit fail, which is logged.  tickRemover  *)
(* calls removeGarbage on a timer: it collects the GC-marked graves of the *)
(* metabase and deletes those objects in one batch.                        *)
(*                                                                         *)
(* There is one event type (eventType has no other constant).  A handler   *)
(* job is identified by the event (its generation) and its index; it runs *)
(* until it returns, which a cancelled context makes it do.  The metabase  *)
(* and the pool implementation are the environment.                        *)
(***************************************************************************)
EXTENDS Naturals, FiniteSets

CONSTANTS
    NHandlers,      \* handlers registered for the event type
    MaxEvents,      \* events sent on the channel (model bound)
    Objects,        \* objects of the shard
    MaxFailures     \* failed metabase or delete calls (model bound)

ASSUME GCAssumption ==
    /\ NHandlers \in Nat \ {0}
    /\ MaxEvents \in Nat
    /\ MaxFailures \in Nat

VARIABLES
    chOpen,         \* the event channel is open
    sent,           \* events sent so far
    lpc,            \* listenEvents: "recv", "submit" or "stopped"
    cur,            \* generation of the latest event (its context)
    next,           \* index of the next handler to submit
    cancelled,      \* generations whose context was cancelled
    jobs,           \* handler jobs running in the worker pool
    dropped,        \* handler jobs whose Submit failed
    stored,         \* objects present in the shard
    marked,         \* objects whose grave carries the GC mark
    rpc,            \* removeGarbage: "idle" or "delete"
    buf,            \* addresses collected by removeGarbage
    failures        \* failed calls so far

eventVars  == <<chOpen, sent, lpc, cur, next, cancelled, jobs, dropped>>
removeVars == <<stored, marked, rpc, buf, failures>>
vars == <<eventVars, removeVars>>

Job == [gen : 1..MaxEvents, h : 1..NHandlers]

(* Mutant: the pool is sized one short of the handler count.              *)
PoolCapacityOneShort == NHandlers - 1

(* gc.init: the worker pool is sized to the number of registered handlers. *)
PoolCapacity == NHandlers

-----------------------------------------------------------------------------
(* listenEvents.                                                           *)

(* An event arrives: v.cancelFunc() and a fresh context for its handlers.  *)
ReceiveEvent ==
    /\ lpc = "recv" /\ chOpen /\ sent < MaxEvents
    /\ sent' = sent + 1
    /\ cancelled' = cancelled \cup {cur}
    /\ cur' = sent + 1
    /\ next' = 1
    /\ lpc' = "submit"
    /\ UNCHANGED <<chOpen, jobs, dropped>>

(* Mutant: the loop over the handlers runs one step too far.              *)
SubmitHandlerPastEnd ==
    /\ lpc = "submit"
    /\ LET j == [gen |-> cur, h |-> next]
       IN IF Cardinality(jobs) < PoolCapacity
          THEN jobs' = jobs \cup {j} /\ UNCHANGED dropped
          ELSE dropped' = dropped \cup {j} /\ UNCHANGED jobs
    /\ IF next = NHandlers + 1
       THEN lpc' = "recv" /\ UNCHANGED next
       ELSE next' = next + 1 /\ UNCHANGED lpc
    /\ UNCHANGED <<chOpen, sent, cur, cancelled>>

(* gc.workerPool.Submit of handler number next: it fails when the pool is  *)
(* full.                                                                   *)
SubmitHandler ==
    /\ lpc = "submit"
    /\ LET j == [gen |-> cur, h |-> next]
       IN IF Cardinality(jobs) < PoolCapacity
          THEN jobs' = jobs \cup {j} /\ UNCHANGED dropped
          ELSE dropped' = dropped \cup {j} /\ UNCHANGED jobs
    /\ IF next = NHandlers
       THEN lpc' = "recv" /\ UNCHANGED next
       ELSE next' = next + 1 /\ UNCHANGED lpc
    /\ UNCHANGED <<chOpen, sent, cur, cancelled>>

(* The channel is closed: the listener stops.                              *)
CloseChannel ==
    /\ chOpen
    /\ chOpen' = FALSE
    /\ UNCHANGED <<sent, lpc, cur, next, cancelled, jobs, dropped>>

ListenerStops ==
    /\ lpc = "recv" /\ ~chOpen
    /\ lpc' = "stopped"
    /\ UNCHANGED <<chOpen, sent, cur, next, cancelled, jobs, dropped>>

(* A handler returns (at once when its context is cancelled).              *)
JobReturns(j) ==
    /\ j \in jobs
    /\ jobs' = jobs \ {j}
    /\ UNCHANGED <<chOpen, sent, lpc, cur, next, cancelled, dropped>>

-----------------------------------------------------------------------------
(* tickRemover and removeGarbage.                                          *)

(* Another component inhumes an object with the GC mark.                   *)
MarkGarbage(o) ==
    /\ o \in stored \ marked
    /\ marked' = marked \cup {o}
    /\ UNCHANGED <<stored, rpc, buf, failures>>

(* Mutant: the batch is dropped when it is not empty.                      *)
CollectGravesInverted ==
    /\ rpc = "idle"
    /\ \/ /\ failures < MaxFailures
          /\ failures' = failures + 1
          /\ UNCHANGED <<rpc, buf>>
       \/ /\ buf' = marked
          /\ rpc' = IF marked # {} THEN "idle" ELSE "delete"
          /\ UNCHANGED failures
    /\ UNCHANGED <<stored, marked>>

(* The timer fires: IterateOverGraveyard collects the graves with the GC   *)
(* mark, or fails; an empty batch ends the call.                           *)
CollectGraves ==
    /\ rpc = "idle"
    /\ \/ /\ failures < MaxFailures
          /\ failures' = failures + 1
          /\ UNCHANGED <<rpc, buf>>
       \/ /\ buf' = marked
          /\ rpc' = IF marked = {} THEN "idle" ELSE "delete"
          /\ UNCHANGED failures
    /\ UNCHANGED <<stored, marked>>

(* s.Delete of the batch: done, or it fails and is logged.                 *)
DeleteBatch ==
    /\ rpc = "delete"
    /\ \/ stored' = stored \ buf /\ UNCHANGED failures
       \/ failures < MaxFailures /\ failures' = failures + 1 /\ UNCHANGED stored
    /\ rpc' = "idle"
    /\ UNCHANGED <<marked, buf>>

-----------------------------------------------------------------------------
Init ==
    /\ chOpen = TRUE
    /\ sent = 0
    /\ lpc = "recv"
    /\ cur = 0
    /\ next = 1
    /\ cancelled = {}
    /\ jobs = {}
    /\ dropped = {}
    /\ stored = Objects
    /\ marked = {}
    /\ rpc = "idle"
    /\ buf = {}
    /\ failures = 0

Next ==
    \/ (ReceiveEvent \/ SubmitHandler \/ CloseChannel \/ ListenerStops) /\ UNCHANGED removeVars
    \/ \E j \in jobs : JobReturns(j) /\ UNCHANGED removeVars
    \/ (CollectGraves \/ DeleteBatch \/ \E o \in Objects : MarkGarbage(o)) /\ UNCHANGED eventVars

(* The timer keeps firing and a running goroutine keeps running.           *)
Fairness ==
    /\ WF_vars(CollectGraves /\ UNCHANGED eventVars)
    /\ WF_vars(DeleteBatch /\ UNCHANGED eventVars)

Spec == Init /\ [][Next]_vars /\ Fairness

-----------------------------------------------------------------------------
TypeOK ==
    /\ lpc \in {"recv", "submit", "stopped"}
    /\ cur \in 0..MaxEvents /\ next \in 1..NHandlers
    /\ jobs \subseteq Job /\ dropped \subseteq Job
    /\ cancelled \subseteq 0..MaxEvents
    /\ stored \subseteq Objects /\ marked \subseteq Objects /\ buf \subseteq Objects
    /\ rpc \in {"idle", "delete"}

(* A Submit of listenEvents fails only while the pool is held by handlers  *)
(* of an earlier event whose context was already cancelled: with the pool  *)
(* sized to the handler count, the handlers of one event never crowd each  *)
(* other out, and only a cancelled handler that has not yet returned can   *)
(* make the latest event's handler be dropped.                            *)
DropOnlyBehindCancelled ==
    [][\A j \in dropped' \ dropped :
          \E k \in jobs : k.gen # j.gen /\ k.gen \in cancelled]_vars

(* Every object that gets the GC mark is eventually removed from the shard *)
(* by the remover, once the failures of the metabase and of Delete stop.   *)
GarbageRemoved == \A o \in Objects : o \in marked ~> o \notin stored

=============================================================================
