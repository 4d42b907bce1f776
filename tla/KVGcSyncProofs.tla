--------------------------- MODULE KVGcSyncProofs ---------------------------
(***************************************************************************)
(* Proofs about KVGcSync, for any number of callers and collection tasks.  *)
(***************************************************************************)
EXTENDS KVGcSync, TLAPS

(***************************************************************************)
(* OneCollector alone is not inductive: TriggerGc starts a task because    *)
(* gc_trigger is FALSE, so the invariant must say that a task with work    *)
(* left keeps gc_trigger TRUE (its first conjunct does); GcDone clears     *)
(* gc_trigger, which needs the uniqueness to know that no other task still *)
(* relies on it.  TriggerServed rides along with the same case split.      *)
(***************************************************************************)
SyncInv == TypeOK /\ OneCollector /\ TriggerServed

LEMMA SyncInit == Init => SyncInv
<1> SUFFICES ASSUME Init PROVE SyncInv
  OBVIOUS
<1> USE SyncAssumption DEF Init
<1>1. TypeOK
  <2>1. gc_trigger \in BOOLEAN
    BY Zenon
  <2>2. gpc \in [Tasks -> TaskPC]
    BY SMT DEF TaskPC
  <2>3. /\ lock \in Callers \union Tasks \union {None}
        /\ gc_waiter \in 0 .. (WaiterMod - 1) /\ gc_sem \in 0 .. SemMax
        /\ cpc \in [Callers -> CallerPC] /\ reg \in [Callers -> 0 .. (WaiterMod - 1)]
        /\ spawnFails \in 0 .. MaxSpawnFails
    BY SMT DEF CallerPC
  <2> QED
    BY <2>1, <2>2, <2>3 DEF TypeOK
<1>2. OneCollector
  BY SMT DEF OneCollector
<1>3. TriggerServed
  BY SMT DEF TriggerServed
<1> QED
  BY <1>1, <1>2, <1>3 DEF SyncInv

\* A step that moves no task between the phases counted and leaves gc_trigger
\* and spawnFails alone keeps both properties.
LEMMA SameTasks ==
  ASSUME SyncInv, UNCHANGED <<gpc, gc_trigger, spawnFails>>
  PROVE  OneCollector' /\ TriggerServed'
BY DEF SyncInv, OneCollector, TriggerServed

LEMMA CallerStep ==
  ASSUME SyncInv, NEW t \in Callers, SetBegin(t) \/ Within(t) \/ OtherBegin(t)
  PROVE  SyncInv'
<1> USE SyncAssumption DEF SyncInv
<1>1. TypeOK'
  <2> USE DEF TypeOK, CallerPC, TaskPC, Go, Acquire, Release
  <2>1. CASE SetBegin(t)
    BY <2>1 DEF SetBegin
  <2>2. CASE WaiterLoad(t)
    BY <2>2 DEF WaiterLoad
  <2>3. CASE WaiterStore(t)
    <3>1. (reg[t] + 1) % WaiterMod \in 0 .. (WaiterMod - 1)
      BY SMT
    <3> QED
      BY <2>3, <3>1 DEF WaiterStore
  <2>4. CASE SemWait(t)
    BY <2>4 DEF SemWait
  <2>5. CASE SetLock(t)
    BY <2>5 DEF SetLock
  <2>6. CASE SetReturn(t)
    BY <2>6 DEF SetReturn
  <2>7. CASE OtherReturn(t)
    BY <2>7 DEF OtherReturn
  <2>8. CASE OtherBegin(t)
    BY <2>8 DEF OtherBegin
  <2> QED
    BY <2>1, <2>2, <2>3, <2>4, <2>5, <2>6, <2>7, <2>8 DEF Within
<1>2. UNCHANGED <<gpc, gc_trigger, spawnFails>>
  BY DEF SetBegin, Within, WaiterLoad, WaiterStore, SemWait, SetLock, SetReturn,
         OtherBegin, OtherReturn
<1> QED
  BY <1>1, <1>2, SameTasks

LEMMA TriggerStep ==
  ASSUME SyncInv, NEW t \in Callers, TriggerGc(t)
  PROVE  SyncInv'
<1> USE SyncAssumption DEF SyncInv, TriggerGc, Run
<1>1. TypeOK'
  BY DEF TypeOK, CallerPC, TaskPC
<1>2. OneCollector'
  BY DEF TypeOK, OneCollector
<1>3. TriggerServed'
  BY DEF TypeOK, TriggerServed
<1> QED
  BY <1>1, <1>2, <1>3

LEMMA CollectorStep ==
  ASSUME SyncInv, NEW g \in Tasks, GcLock(g) \/ Collector(g)
  PROVE  SyncInv'
<1> USE SyncAssumption DEF SyncInv, Run, Acquire, Release
<1>1. CASE GcLock(g)
  BY <1>1 DEF GcLock, TypeOK, CallerPC, TaskPC, OneCollector, TriggerServed
<1>2. CASE GcDone(g)
  <2>1. TypeOK'
    BY <1>2 DEF GcDone, TypeOK, CallerPC, TaskPC
  <2>2. OneCollector'
    BY <1>2 DEF GcDone, TypeOK, OneCollector
  <2>3. TriggerServed'
    BY <1>2 DEF GcDone, TriggerServed
  <2> QED
    BY <2>1, <2>2, <2>3
<1>3. CASE GcUnlock(g)
  BY <1>3 DEF GcUnlock, TypeOK, CallerPC, TaskPC, OneCollector, TriggerServed
<1>4. CASE GcCheck(g)
  BY <1>4 DEF GcCheck, TypeOK, CallerPC, TaskPC, OneCollector, TriggerServed
<1>5. CASE GcPost(g)
  BY <1>5 DEF GcPost, TypeOK, CallerPC, TaskPC, OneCollector, TriggerServed
<1> QED
  BY <1>1, <1>2, <1>3, <1>4, <1>5 DEF Collector

LEMMA SyncNext == SyncInv /\ [Next]_vars => SyncInv'
<1> SUFFICES ASSUME SyncInv, [Next]_vars PROVE SyncInv'
  OBVIOUS
<1>1. CASE UNCHANGED vars
  BY <1>1 DEF vars, SyncInv, TypeOK, OneCollector, TriggerServed
<1>2. ASSUME NEW t \in Callers, SetBegin(t) \/ Within(t) \/ TriggerGc(t) \/ OtherBegin(t)
      PROVE  SyncInv'
  BY <1>2, CallerStep, TriggerStep
<1>3. ASSUME NEW g \in Tasks, GcLock(g) \/ Collector(g)
      PROVE  SyncInv'
  BY <1>3, CollectorStep
<1> QED
  BY <1>1, <1>2, <1>3 DEF Next

\* kv_trigger_gc never has two collections pending, however the callers, the
\* tasks that end and failed thread creations interleave.
THEOREM AtMostOneCollector == Spec => []OneCollector
<1>1. SyncInv => OneCollector
  BY DEF SyncInv
<1> QED
  BY <1>1, SyncInit, SyncNext, PTL DEF Spec

\* As long as every collection task could be created, a request that
\* kv_item_set sees in gc_trigger has a task that will clear it.
THEOREM RequestsAreServed == Spec => []TriggerServed
<1>1. SyncInv => TriggerServed
  BY DEF SyncInv
<1> QED
  BY <1>1, SyncInit, SyncNext, PTL DEF Spec

\* The variables keep their types, the uint8_t gc_waiter included.
THEOREM SyncTypes == Spec => []TypeOK
<1>1. SyncInv => TypeOK
  BY DEF SyncInv
<1> QED
  BY <1>1, SyncInit, SyncNext, PTL DEF Spec
=============================================================================
