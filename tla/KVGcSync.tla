------------------------------ MODULE KVGcSync ------------------------------
(***************************************************************************)
(* The synchronisation of components/kv/kv.c between the threads that call *)
(* the store and the collection tasks that kv_trigger_gc starts:           *)
(* g_kv_mgr.lock, gc_trigger, gc_waiter and gc_sem.                        *)
(*                                                                         *)
(* kv_item_set reads gc_trigger, increments gc_waiter and waits on gc_sem  *)
(* before it takes the lock, and the collection task looks at gc_waiter    *)
(* after it has released it, so these steps interleave freely; the         *)
(* increment is a load and a store.  What is done to the flash under the   *)
(* lock is the subject of module KVStore.                                  *)
(***************************************************************************)
EXTENDS Integers, FiniteSets

CONSTANTS
  Callers,       \* the threads that use the store
  Tasks,         \* identities for collection tasks that exist at one time
  None,          \* the lock is free
  WaiterMod,     \* gc_waiter is a uint8_t: 256
  SemMax,        \* SEM_VALUE_MAX: sem_post beyond it fails
  MaxSpawnFails  \* how often amp_thread_create may fail

ASSUME SyncAssumption ==
  /\ None \notin Callers \union Tasks
  /\ Callers \intersect Tasks = {}
  /\ MaxSpawnFails \in Nat /\ SemMax \in Nat
  /\ WaiterMod \in Nat \ {0}

VARIABLES
  lock,         \* who holds g_kv_mgr.lock
  gc_trigger,   \* a collection has been requested
  gc_waiter,    \* number of callers counted as waiting for it
  gc_sem,       \* value of the semaphore
  cpc,          \* where each caller is
  reg,          \* the value of gc_waiter each caller has loaded
  gpc,          \* where each collection task is
  spawnFails    \* number of failed thread creations

vars == <<lock, gc_trigger, gc_waiter, gc_sem, cpc, reg, gpc, spawnFails>>

Go(t, from, to) == cpc[t] = from /\ cpc' = [cpc EXCEPT ![t] = to]
Run(g, from, to) == gpc[g] = from /\ gpc' = [gpc EXCEPT ![g] = to]

Acquire(p) == lock = None /\ lock' = p
Release    == lock' = None
-----------------------------------------------------------------------------
(* The callers.                                                            *)

\* kv_item_set tests gc_trigger without the lock.
SetBegin(t) ==
  /\ Go(t, "idle", IF gc_trigger THEN "load" ELSE "lock")
  /\ UNCHANGED <<lock, gc_trigger, gc_waiter, gc_sem, reg, gpc, spawnFails>>

\* gc_waiter++ 
WaiterLoad(t) ==
  /\ Go(t, "load", "store")
  /\ reg' = [reg EXCEPT ![t] = gc_waiter]
  /\ UNCHANGED <<lock, gc_trigger, gc_waiter, gc_sem, gpc, spawnFails>>

WaiterStoreWide(t) ==      \* seeded fault: a counter without a width
  /\ Go(t, "store", "wait")
  /\ gc_waiter' = reg[t] + 1
  /\ reg' = [reg EXCEPT ![t] = 0]
  /\ UNCHANGED <<lock, gc_trigger, gc_sem, gpc, spawnFails>>

WaiterStore(t) ==
  /\ Go(t, "store", "wait")
  /\ gc_waiter' = (reg[t] + 1) % WaiterMod
  /\ reg' = [reg EXCEPT ![t] = 0]
  /\ UNCHANGED <<lock, gc_trigger, gc_sem, gpc, spawnFails>>

SemWait(t) ==
  /\ gc_sem > 0
  /\ Go(t, "wait", "lock")
  /\ gc_sem' = gc_sem - 1
  /\ UNCHANGED <<lock, gc_trigger, gc_waiter, reg, gpc, spawnFails>>

SetLock(t) ==
  /\ Acquire(t)
  /\ Go(t, "lock", "set")
  /\ UNCHANGED <<gc_trigger, gc_waiter, gc_sem, reg, gpc, spawnFails>>

\* The store had room enough, or a collection is under way already.
SetReturn(t) ==
  /\ Go(t, "set", "idle")
  /\ Release
  /\ UNCHANGED <<gc_trigger, gc_waiter, gc_sem, reg, gpc, spawnFails>>

TriggerAgain(t) ==         \* seeded fault: a pending request is not noticed
  /\ cpc[t] = "set"
  /\ gc_waiter' = 0 /\ gc_trigger' = TRUE
  /\ \E g \in Tasks : Run(g, "off", "start")
  /\ UNCHANGED <<lock, gc_sem, cpc, reg, spawnFails>>

\* kv_calc_position calls kv_trigger_gc, which starts the task and does not
\* look at whether it could be started.
TriggerGc(t) ==
  /\ cpc[t] = "set" /\ ~gc_trigger
  /\ gc_waiter' = 0 /\ gc_trigger' = TRUE
  /\ \/ (\E g \in Tasks : Run(g, "off", "start")) /\ UNCHANGED spawnFails
     \/ /\ spawnFails < MaxSpawnFails /\ spawnFails' = spawnFails + 1
        /\ UNCHANGED gpc
  /\ UNCHANGED <<lock, gc_sem, cpc, reg>>

\* kv_item_get, kv_item_delete and kv_item_delete_by_prefix only take the lock.
OtherBegin(t) ==
  /\ Acquire(t)
  /\ Go(t, "idle", "other")
  /\ UNCHANGED <<gc_trigger, gc_waiter, gc_sem, reg, gpc, spawnFails>>

OtherReturn(t) ==
  /\ Go(t, "other", "idle")
  /\ Release
  /\ UNCHANGED <<gc_trigger, gc_waiter, gc_sem, reg, gpc, spawnFails>>
-----------------------------------------------------------------------------
(* kv_gc_task.                                                             *)

GcLock(g) ==
  /\ Acquire(g)
  /\ Run(g, "start", "collect")
  /\ UNCHANGED <<gc_trigger, gc_waiter, gc_sem, cpc, reg, spawnFails>>

GcDoneKept(g) ==           \* seeded fault: the request is not cleared
  /\ Run(g, "collect", "unlock")
  /\ UNCHANGED <<lock, gc_trigger, gc_waiter, gc_sem, cpc, reg, spawnFails>>

GcDone(g) ==
  /\ Run(g, "collect", "unlock")
  /\ gc_trigger' = FALSE
  /\ UNCHANGED <<lock, gc_waiter, gc_sem, cpc, reg, spawnFails>>

GcUnlock(g) ==
  /\ Run(g, "unlock", "check")
  /\ Release
  /\ UNCHANGED <<gc_trigger, gc_waiter, gc_sem, cpc, reg, spawnFails>>

GcCheck(g) ==
  /\ Run(g, "check", IF gc_waiter > 0 THEN "post" ELSE "off")
  /\ UNCHANGED <<lock, gc_trigger, gc_waiter, gc_sem, cpc, reg, spawnFails>>

\* kv_sem_post_all posts the semaphore once.  Tokens may pile up: a task that
\* is late with its test and its successor can both post for the same caller.
GcPost(g) ==
  /\ Run(g, "post", "off")
  /\ gc_sem' = IF gc_sem < SemMax THEN gc_sem + 1 ELSE gc_sem
  /\ UNCHANGED <<lock, gc_trigger, gc_waiter, cpc, reg, spawnFails>>
-----------------------------------------------------------------------------
(* kv_init, which runs before there are callers, may request a collection. *)
Init ==
  /\ lock = None /\ gc_waiter = 0 /\ gc_sem = 0
  /\ cpc = [t \in Callers |-> "idle"] /\ reg = [t \in Callers |-> 0]
  /\ \/ gc_trigger = FALSE /\ gpc = [g \in Tasks |-> "off"]
     \/ /\ gc_trigger = TRUE
        /\ \E g \in Tasks : gpc = [h \in Tasks |-> IF h = g THEN "start" ELSE "off"]
  /\ spawnFails = 0

Within(t) ==   \* the steps of a call that has begun
  \/ WaiterLoad(t) \/ WaiterStore(t) \/ SemWait(t) \/ SetLock(t) \/ SetReturn(t)
  \/ OtherReturn(t)

Collector(g) == GcDone(g) \/ GcUnlock(g) \/ GcCheck(g) \/ GcPost(g)

Next ==
  \/ \E t \in Callers : SetBegin(t) \/ Within(t) \/ TriggerGc(t) \/ OtherBegin(t)
  \/ \E g \in Tasks : GcLock(g) \/ Collector(g)

Spec == Init /\ [][Next]_vars

(* A thread that can run is scheduled; the mutex does not starve a thread  *)
(* that keeps asking for it.                                               *)
FairSpec ==
  /\ Spec
  /\ \A t \in Callers : WF_vars(Within(t)) /\ SF_vars(SetLock(t))
  /\ \A g \in Tasks : WF_vars(Collector(g)) /\ SF_vars(GcLock(g))
-----------------------------------------------------------------------------
(* Properties. *)

CallerPC == {"idle", "load", "store", "wait", "lock", "set", "other"}
TaskPC   == {"off", "start", "collect", "unlock", "check", "post"}

\* Every variable keeps its type; gc_waiter is a uint8_t.
TypeOK ==
  /\ lock \in Callers \union Tasks \union {None}
  /\ gc_trigger \in BOOLEAN
  /\ gc_waiter \in 0 .. (WaiterMod - 1) /\ gc_sem \in 0 .. SemMax
  /\ cpc \in [Callers -> CallerPC] /\ reg \in [Callers -> 0 .. (WaiterMod - 1)]
  /\ gpc \in [Tasks -> TaskPC]
  /\ spawnFails \in 0 .. MaxSpawnFails

\* Of all the collection tasks that kv_trigger_gc has started at most one has
\* still to collect, although a new one may be started while older ones are
\* on their way out; and then the request is still posted.
OneCollector ==
  \A g, h \in Tasks :
    gpc[g] \in {"start", "collect"} =>
      /\ gc_trigger
      /\ gpc[h] \in {"start", "collect"} => g = h

\* A posted request has a task that will serve and clear it, unless the task
\* could not be started.
TriggerServed ==
  gc_trigger /\ spawnFails = 0 => \E g \in Tasks : gpc[g] \in {"start", "collect"}

\* A request is eventually served, so kv_item_set finds room again, unless
\* the task that should serve it could not be started.
CollectionEnds == gc_trigger ~> (~gc_trigger \/ spawnFails > 0)

\* A caller blocked in kv_sem_wait is eventually woken.
WaitersWake == \A t \in Callers : (cpc[t] = "wait") ~> (cpc[t] # "wait")
=============================================================================
