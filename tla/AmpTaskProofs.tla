--------------------------- MODULE AmpTaskProofs ---------------------------
(***************************************************************************)
(* Proofs about AmpTask, for any number of timers, wraps, drivers, update  *)
(* threads, engine restarts and any length of the queue.                   *)
(***************************************************************************)
EXTENDS AmpTask, TLAPS, FiniteSetTheorems, SequenceTheorems, SequenceLemmas

\* The queue holds an expiry of timer i at position k.
ExpiryAt(i, k) == k \in DOMAIN mq.msgs /\ mq.msgs[k].type = "expiry" /\ mq.msgs[k].of = i

(***************************************************************************)
(* TypeOK needs that a timer whose handler runs, or that can be cleared,   *)
(* has a slot: the message of TimerSend is made of it.  A walk deletes     *)
(* timers of the list, which must not be unused: hence ListExact, which    *)
(* rests on what the script is doing with the timer that is not listed.    *)
(***************************************************************************)
InList == js \in {"linking", "cancel"}

BusyInv ==
    /\ busy # NoTimer <=> InList
    /\ js = "linking" => timer[busy].os \in {"armed", "fired"}
    /\ js = "cancel" => timer[busy].os # "unused"

WalkInv == ~torn => \A u \in Updaters : walk[u] \subseteq link

TypeInv ==
    /\ TypeOK /\ ListExact /\ WalkInv /\ BusyInv
    /\ \A i \in Timers : /\ timer[i].os # "unused" => timer[i].slot \in Slots
                         /\ handler[i] # 0 => timer[i].os # "unused"
    /\ \A s \in Slots : heap[s] # NoTimer => timer[heap[s]].os # "unused"

UpdaterStep(u) ==
    \/ Upgrade(u) \/ ClearNode(u) \/ TestUpdateDone(u) \/ CreateDownload(u)
    \/ Downloaded(u) \/ ExitCall(u) \/ EngineGone(u) \/ Restart(u)

Restarting == {u \in Updaters : updater[u][1] = "restart"}

(***************************************************************************)
(* OneEngineTask is inductive once the set it counts is known to be        *)
(* finite.                                                                 *)
(***************************************************************************)
EngineInv == IsFiniteSet(Restarting) /\ OneEngineTask

(***************************************************************************)
(* UnclearedTimersSound rests on how often a one-shot timer is heard of:   *)
(* it is armed, or its handler is about to send, or one expiry is queued,  *)
(* or timer_action runs its callback; never two of these.                  *)
(***************************************************************************)
Awaited(i) == timer[i].os = "armed" \/ handler[i] # 0 \/ \E k \in DOMAIN mq.msgs : ExpiryAt(i, k)

WrapKept == \A i \in Timers : Awaited(i) => heap[timer[i].slot] = i

WrapOwned ==
    /\ \A s \in Slots : heap[s] # NoTimer => timer[heap[s]].slot = s
    /\ \A k \in DOMAIN mq.msgs : mq.msgs[k].type = "expiry" =>
          timer[mq.msgs[k].of].slot = mq.msgs[k].slot /\ timer[mq.msgs[k].of].os # "unused"

HeardOnce ==
    \A i \in Timers : ~timer[i].repeat =>
        /\ timer[i].os = "armed" => handler[i] = 0
        /\ timer[i].os = "armed" \/ handler[i] # 0 => \A k \in DOMAIN mq.msgs : ~ExpiryAt(i, k)
        /\ \A j, k \in DOMAIN mq.msgs : ExpiryAt(i, j) /\ ExpiryAt(i, k) => j = k

CallbackAlone ==
    js \in {"script", "linking"} /\ cur # NoSlot =>
        /\ heap[cur] # NoTimer
        /\ ~timer[heap[cur]].repeat => ~Awaited(heap[cur])

TimersInv == ~app.clears => js # "cancel" /\ WrapKept /\ WrapOwned /\ HeardOnce /\ CallbackAlone

-----------------------------------------------------------------------------
(* The operators the steps are made of.                                    *)

\* amp_queue_send leaves the queue as it was or puts one message at its end.
LEMMA QueueSend ==
  ASSUME mq \in MsgQueue, Len(mq.msgs) <= QMax, NEW q, NEW m \in Message, amp_queue_send(q, m)
  PROVE  /\ mq' \in MsgQueue /\ Len(mq'.msgs) <= QMax /\ mq'.up = mq.up
         /\ \/ mq' = mq
            \/ /\ DOMAIN mq'.msgs = 1 .. Len(mq.msgs) + 1 /\ DOMAIN mq.msgs = 1 .. Len(mq.msgs)
               /\ Len(mq.msgs) \in Nat
               /\ \A k \in 1 .. Len(mq.msgs) : mq'.msgs[k] = mq.msgs[k]
               /\ mq'.msgs[Len(mq.msgs) + 1] = m
<1>1. CASE UNCHANGED mq
  BY <1>1
<1>2. CASE Accept(m)
  <2>1. mq.msgs \in Seq(Message)
    BY DEF MsgQueue
  <2>2. /\ Append(mq.msgs, m) \in Seq(Message) /\ Len(Append(mq.msgs, m)) = Len(mq.msgs) + 1
        /\ DOMAIN Append(mq.msgs, m) = 1 .. Len(mq.msgs) + 1 /\ DOMAIN mq.msgs = 1 .. Len(mq.msgs)
        /\ Len(mq.msgs) \in Nat
        /\ \A k \in 1 .. Len(mq.msgs) : Append(mq.msgs, m)[k] = mq.msgs[k]
        /\ Append(mq.msgs, m)[Len(mq.msgs) + 1] = m
    BY <2>1, AppendElements
  <2>3. /\ mq'.msgs = Append(mq.msgs, m) /\ mq'.up = mq.up /\ Len(mq.msgs) < QMax
        /\ mq' = [mq EXCEPT !.msgs = Append(mq.msgs, m)]
    BY <1>2 DEF Accept, MsgQueue
  <2>4. mq' \in MsgQueue
    BY <2>2, <2>3, Zenon DEF MsgQueue
  <2>5. Len(mq'.msgs) <= QMax
    BY <2>2, <2>3, TaskAssumption
  <2> QED
    BY <2>2, <2>3, <2>4, <2>5
<1> QED
  BY <1>1, <1>2 DEF amp_queue_send

\* A queue just created or deleted.
LEMMA EmptyQueue ==
  ASSUME NEW x, x \in {[up |-> TRUE, msgs |-> <<>>], [up |-> FALSE, msgs |-> <<>>]}
  PROVE  x \in MsgQueue /\ Len(x.msgs) <= QMax /\ DOMAIN x.msgs = {}
<1>1. <<>> \in Seq(Message) /\ Len(<<>>) = 0
  BY EmptySeq
<1>2. x.msgs = <<>>
  OBVIOUS
<1>3. [up |-> TRUE, msgs |-> <<>>] \in MsgQueue
  BY <1>1, TRUE \in BOOLEAN, Zenon DEF MsgQueue
<1>4. [up |-> FALSE, msgs |-> <<>>] \in MsgQueue
  BY <1>1, FALSE \in BOOLEAN, Zenon DEF MsgQueue
<1>5. x \in MsgQueue
  BY <1>3, <1>4, Zenon
<1>6. Len(x.msgs) <= QMax
  BY <1>1, <1>2, TaskAssumption
<1>7. DOMAIN x.msgs = {}
  BY <1>2
<1> QED
  BY <1>5, <1>6, <1>7

\* Yield takes the first message and keeps the others.
LEMMA QueueTake ==
  ASSUME mq \in MsgQueue, Len(mq.msgs) <= QMax, mq.msgs # <<>>, mq' = [mq EXCEPT !.msgs = Tail(@)]
  PROVE  /\ mq' \in MsgQueue /\ Len(mq'.msgs) <= QMax /\ mq'.up = mq.up
         /\ Head(mq.msgs) \in Message /\ 1 \in DOMAIN mq.msgs /\ Head(mq.msgs) = mq.msgs[1]
         /\ \A k \in DOMAIN mq'.msgs : k \in Nat \ {0} /\ k + 1 \in DOMAIN mq.msgs /\ mq'.msgs[k] = mq.msgs[k + 1]
<1>1. mq.msgs \in Seq(Message) /\ Len(mq.msgs) \in Nat
  BY LenProperties DEF MsgQueue
<1>2. /\ Tail(mq.msgs) \in Seq(Message) /\ Head(mq.msgs) \in Message
      /\ 1 \in DOMAIN mq.msgs /\ Head(mq.msgs) = mq.msgs[1]
      /\ \A k \in DOMAIN Tail(mq.msgs) : k + 1 \in DOMAIN mq.msgs /\ Tail(mq.msgs)[k] = mq.msgs[k + 1]
  BY <1>1, TailElements
<1>3. Len(Tail(mq.msgs)) = Len(mq.msgs) - 1 /\ DOMAIN Tail(mq.msgs) = 1 .. Len(Tail(mq.msgs))
  BY <1>1, <1>2, HeadTailProperties, LenProperties
<1>4. mq'.msgs = Tail(mq.msgs) /\ mq'.up = mq.up
  BY DEF MsgQueue
<1>5. mq' \in MsgQueue
  BY <1>2, Zenon DEF MsgQueue
<1>6. Len(mq'.msgs) <= QMax
  BY <1>1, <1>3, <1>4, TaskAssumption
<1> QED
  BY <1>1, <1>2, <1>3, <1>4, <1>5, <1>6

-----------------------------------------------------------------------------
(* Types.                                                                  *)

LEMMA TypeInit == Init => TypeInv
<1> SUFFICES ASSUME Init PROVE TypeInv
  OBVIOUS
<1> USE TaskAssumption
<1>1. mq \in MsgQueue /\ Len(mq.msgs) <= QMax
  BY EmptyQueue DEF Init
<1>2. Unused \in OsTimer
  <2>1. 0 \in 0 .. MaxEngines
    OBVIOUS
  <2> QED
    BY <2>1, Zenon DEF Unused, OsTimer
<1>3. timer \in [Timers -> OsTimer]
  BY <1>2 DEF Init
<1>4. torn = FALSE /\ torn \in BOOLEAN /\ update_done \in BOOLEAN /\ app \in Apps
  BY Zenon DEF Init
<1>5. /\ engine \in 0 .. MaxEngines /\ js \in EngineAt
      /\ cur \in Slots \cup {NoSlot} /\ busy \in Timers \cup {NoTimer}
      /\ heap \in [Slots -> Timers \cup {NoTimer}]
      /\ link \subseteq Timers /\ walk \in [Updaters -> SUBSET Timers]
      /\ handler \in [Timers -> 0 .. MaxEngines]
      /\ driver \in [Drivers -> 0 .. MaxEngines]
      /\ updater \in [Updaters -> UpdaterAt \X (0 .. MaxEngines)]
      /\ exitSem \in Nat /\ faults \subseteq {"wrap", "timer"}
  BY DEF Init, EngineAt, UpdaterAt
<1>6. \A i \in Timers : timer[i].os = "unused" /\ handler[i] = 0
  BY DEF Init, Unused
<1>7. \A s \in Slots : heap[s] = NoTimer
  BY DEF Init
<1>8. ListExact /\ WalkInv
  BY <1>6 DEF Init, ListExact, WalkInv
<1>9. BusyInv
  BY DEF Init, BusyInv, InList
<1>10. TypeOK
  BY <1>1, <1>3, <1>4, <1>5, Zenon DEF TypeOK
<1> QED
  BY <1>6, <1>7, <1>8, <1>9, <1>10 DEF TypeInv

\* What the application may do does not change, and the flags stay flags.
LEMMA Flags ==
  ASSUME TypeOK, [Next]_vars
  PROVE  app' = app /\ torn' \in BOOLEAN /\ update_done' \in BOOLEAN
<1>a. app \in Apps /\ torn \in BOOLEAN /\ update_done \in BOOLEAN
  BY DEF TypeOK
<1>1. CASE UNCHANGED vars
  BY <1>a, <1>1, Zenon DEF vars, list, update
<1>2. CASE Boot \/ Yield \/ ScriptEnd \/ Deinit \/ ClearTimer
  BY <1>a, <1>2, Zenon DEF Boot, Yield, ScriptEnd, Deinit, ClearTimer, list, update
<1>3. ASSUME NEW s \in Slots, NEW repeat \in BOOLEAN, SetTimer(s, repeat)
      PROVE  app' = app /\ torn' \in BOOLEAN /\ update_done' \in BOOLEAN
  BY <1>a, <1>3, Zenon DEF SetTimer, list, update
<1>4. CASE LinkTimer
  BY <1>a, <1>4, Zenon DEF LinkTimer, Access, update
<1>5. ASSUME NEW s \in Slots, UnlinkTimer(s)
      PROVE  app' = app /\ torn' \in BOOLEAN /\ update_done' \in BOOLEAN
  BY <1>a, <1>5, Zenon DEF UnlinkTimer, Access, update
<1>6. ASSUME NEW i \in Timers, Expire(i) \/ TimerSend(i)
      PROVE  app' = app /\ torn' \in BOOLEAN /\ update_done' \in BOOLEAN
  BY <1>a, <1>6, Zenon DEF Expire, TimerSend, list, update
<1>7. ASSUME NEW d \in Drivers, ScheduleCall(d) \/ DriverSend(d)
      PROVE  app' = app /\ torn' \in BOOLEAN /\ update_done' \in BOOLEAN
  BY <1>a, <1>7, Zenon DEF ScheduleCall, DriverSend, list, update
<1>8. ASSUME NEW u \in Updaters, UpdaterStep(u)
      PROVE  app' = app /\ torn' \in BOOLEAN /\ update_done' \in BOOLEAN
  <2>1. CASE ClearNode(u)
    BY <1>a, <2>1, Zenon DEF ClearNode, Access, update
  <2>2. CASE Upgrade(u) \/ TestUpdateDone(u) \/ CreateDownload(u)
    BY <1>a, <2>2, Zenon DEF Upgrade, TestUpdateDone, CreateDownload, list
  <2>3. CASE Downloaded(u) \/ ExitCall(u) \/ EngineGone(u) \/ Restart(u)
    BY <1>a, <2>3, Zenon DEF Downloaded, ExitCall, EngineGone, Restart, list
  <2> QED
    BY <1>8, <2>1, <2>2, <2>3 DEF UpdaterStep
<1> QED
  BY <1>1, <1>2, <1>3, <1>4, <1>5, <1>6, <1>7, <1>8, Zenon DEF Next, UpdaterStep

\* The steps that touch neither timers nor their list.
LEMMA ListSame ==
  ASSUME TypeInv, UNCHANGED <<timer, busy, list>>
  PROVE  ListExact' /\ WalkInv'
BY DEF TypeInv, ListExact, WalkInv, list

\* The steps of the engine task that touch no timer.
LEMMA EngineTypes ==
  ASSUME TypeInv, Boot \/ Yield \/ ScriptEnd \/ Deinit,
         app' = app, torn' \in BOOLEAN, update_done' \in BOOLEAN
  PROVE  TypeInv'
<1> USE TaskAssumption
<1>a. UNCHANGED <<busy, timer, link, walk, torn, handler, driver, updater>>
  BY DEF Boot, Yield, ScriptEnd, Deinit, list, senders, update
<1>l. ListExact' /\ WalkInv'
  BY <1>a, ListSame DEF list
<1>m. BusyInv' /\ js' \in EngineAt
  <2>1. js \notin {"linking", "cancel"} /\ js' \in EngineAt \ {"linking", "cancel"}
    BY DEF Boot, Yield, ScriptEnd, Deinit, Runs, EngineAt, TypeInv, TypeOK
  <2> QED
    BY <1>a, <2>1 DEF TypeInv, BusyInv, InList
<1>1. CASE Boot
  <2>1. mq' \in MsgQueue /\ Len(mq'.msgs) <= QMax
    BY <1>1, EmptyQueue DEF Boot
  <2>2. engine' \in 0 .. MaxEngines /\ cur' \in Slots \cup {NoSlot} /\ UNCHANGED <<heap, exitSem, faults>>
    BY <1>1 DEF Boot, TypeInv, TypeOK, update
  <2> QED
    BY <1>a, <1>l, <1>m, <2>1, <2>2 DEF TypeInv, TypeOK
<1>2. CASE Yield
  <2>1. mq' \in MsgQueue /\ Len(mq'.msgs) <= QMax /\ Head(mq.msgs) \in Message
    BY <1>2, QueueTake DEF Yield, TypeInv, TypeOK
  <2>2. Head(mq.msgs).type = "expiry" => Head(mq.msgs).slot \in Slots
    BY <2>1 DEF Message, Call, Exit
  <2>3. cur' \in Slots \cup {NoSlot}
    BY <1>2, <2>2 DEF Yield, TypeInv, TypeOK
  <2>4. UNCHANGED <<engine, heap, exitSem, faults>>
    BY <1>2 DEF Yield, update
  <2> QED
    BY <1>a, <1>l, <1>m, <2>1, <2>3, <2>4 DEF TypeInv, TypeOK
<1>3. CASE ScriptEnd
  <2>1. heap' \in [Slots -> Timers \cup {NoTimer}]
    BY <1>3 DEF ScriptEnd, TypeInv, TypeOK
  <2>2. faults' \subseteq {"wrap", "timer"}
    BY <1>3 DEF ScriptEnd, TypeInv, TypeOK
  <2>3. UNCHANGED <<mq, engine, exitSem>> /\ cur' = NoSlot
    BY <1>3 DEF ScriptEnd, update
  <2>4. \A s \in Slots : heap'[s] \in {heap[s], NoTimer}
    BY <1>3 DEF ScriptEnd, TypeInv, TypeOK
  <2> QED
    BY <1>a, <1>l, <1>m, <2>1, <2>2, <2>3, <2>4 DEF TypeInv, TypeOK
<1>4. CASE Deinit
  <2>1. mq' \in MsgQueue /\ Len(mq'.msgs) <= QMax
    BY <1>4, EmptyQueue DEF Deinit
  <2>2. UNCHANGED <<engine, cur, heap, faults>> /\ exitSem' \in Nat
    BY <1>4 DEF Deinit, TypeInv, TypeOK
  <2> QED
    BY <1>a, <1>l, <1>m, <2>1, <2>2 DEF TypeInv, TypeOK
<1> QED
  BY <1>1, <1>2, <1>3, <1>4

\* What SetTimer does to the timer it picks, and to no other.
LEMMA SetTimerDef ==
  ASSUME TypeInv, NEW s \in Slots, NEW repeat \in BOOLEAN, SetTimer(s, repeat)
  PROVE  \E i \in Timers, os \in {"armed", "failed"} :
           /\ timer[i].os = "unused" /\ heap[s] = NoTimer /\ js = "script"
           /\ heap' = [heap EXCEPT ![s] = i]
           /\ timer' \in [Timers -> OsTimer]
           /\ timer'[i].os = os /\ timer'[i].slot = s
           /\ \A j \in Timers \ {i} : timer'[j] = timer[j]
           /\ \/ os = "armed" /\ js' = "linking" /\ busy' = i
              \/ os = "failed" /\ js' = js /\ busy' = busy
<1>1. PICK i \in Timers, os \in {"armed", "failed"} :
        /\ timer[i].os = "unused" /\ heap' = [heap EXCEPT ![s] = i]
        /\ timer' = [timer EXCEPT ![i] = [os |-> os, slot |-> s, repeat |-> repeat, engine |-> engine]]
        /\ \/ os = "armed" /\ js' = "linking" /\ busy' = i
           \/ os = "failed" /\ js' = js /\ busy' = busy
  BY Zenon DEF SetTimer
<1> DEFINE t == [os |-> os, slot |-> s, repeat |-> repeat, engine |-> engine]
<1>2. engine \in 0 .. MaxEngines /\ timer \in [Timers -> OsTimer]
  BY DEF TypeInv, TypeOK
<1>3. t \in OsTimer /\ t.os = os /\ t.slot = s
  BY <1>2, Zenon DEF OsTimer
<1> HIDE DEF t
<1>4. timer' = [timer EXCEPT ![i] = t]
  BY <1>1 DEF t
<1>5. heap[s] = NoTimer /\ js = "script"
  BY DEF SetTimer, Runs
<1>6. timer' \in [Timers -> OsTimer] /\ timer'[i] = t /\ \A j \in Timers \ {i} : timer'[j] = timer[j]
  BY <1>2, <1>3, <1>4
<1> QED
  BY <1>1, <1>3, <1>5, <1>6, Zenon

\* What a change of the OS state of a timer does to all of them.
LEMMA OsSet ==
  ASSUME timer \in [Timers -> OsTimer], NEW i \in Timers,
         NEW st \in {"unused", "armed", "fired", "failed", "deleted"},
         timer' = [timer EXCEPT ![i].os = st]
  PROVE  /\ timer' \in [Timers -> OsTimer]
         /\ \A j \in Timers \ {i} : timer'[j] = timer[j]
         /\ timer'[i].slot = timer[i].slot /\ timer'[i].repeat = timer[i].repeat
         /\ timer'[i].engine = timer[i].engine /\ timer'[i].os = st
<1> DEFINE t == [timer[i] EXCEPT !.os = st]
<1>1. timer[i] \in OsTimer
  OBVIOUS
<1>2. /\ t \in OsTimer
      /\ t.slot = timer[i].slot /\ t.repeat = timer[i].repeat /\ t.engine = timer[i].engine /\ t.os = st
  BY <1>1 DEF OsTimer
<1>3. timer' = [timer EXCEPT ![i] = t]
  OBVIOUS
<1> HIDE DEF t
<1> QED
  BY <1>2, <1>3

LEMMA ExpireDef ==
  ASSUME TypeInv, NEW i \in Timers, Expire(i)
  PROVE  /\ timer[i].os = "armed" /\ handler[i] = 0
         /\ timer' \in [Timers -> OsTimer] /\ \A j \in Timers \ {i} : timer'[j] = timer[j]
         /\ timer'[i].slot = timer[i].slot /\ timer'[i].repeat = timer[i].repeat
         /\ timer'[i].os = IF timer[i].repeat THEN "armed" ELSE "fired"
         /\ handler' \in [Timers -> 0 .. MaxEngines] /\ \A j \in Timers \ {i} : handler'[j] = handler[j]
<1> DEFINE st == IF timer[i].repeat THEN "armed" ELSE "fired"
<1>1. st \in {"unused", "armed", "fired", "failed", "deleted"} /\ timer' = [timer EXCEPT ![i].os = st]
      /\ timer \in [Timers -> OsTimer]
  BY DEF Expire, TypeInv, TypeOK
<1> HIDE DEF st
<1>2. /\ timer' \in [Timers -> OsTimer] /\ \A j \in Timers \ {i} : timer'[j] = timer[j]
      /\ timer'[i].slot = timer[i].slot /\ timer'[i].repeat = timer[i].repeat /\ timer'[i].os = st
  BY <1>1, OsSet
<1>3. handler' \in [Timers -> 0 .. MaxEngines] /\ \A j \in Timers \ {i} : handler'[j] = handler[j]
  BY TaskAssumption DEF Expire, TypeInv, TypeOK
<1>4. timer[i].os = "armed" /\ handler[i] = 0
  BY DEF Expire
<1> QED
  BY <1>2, <1>3, <1>4 DEF st

LEMMA ClearTimerDef ==
  ASSUME TypeInv, ClearTimer
  PROVE  /\ busy \in Timers /\ timer[busy].os # "unused" /\ timer[busy].slot \in Slots
         /\ timer' \in [Timers -> OsTimer] /\ \A j \in Timers \ {busy} : timer'[j] = timer[j]
         /\ timer'[busy].slot = timer[busy].slot
         /\ timer'[busy].os = IF timer[busy].os = "failed" THEN "failed" ELSE "deleted"
         /\ heap' = [heap EXCEPT ![timer[busy].slot] = NoTimer]
         /\ faults' \subseteq {"wrap", "timer"}
<1> DEFINE st == IF timer[busy].os = "failed" THEN timer[busy].os ELSE "deleted"
<1>1. busy \in Timers /\ timer[busy].os # "unused"
  BY DEF ClearTimer, Runs, TypeInv, TypeOK, BusyInv, InList
<1>2. st \in {"unused", "armed", "fired", "failed", "deleted"} /\ timer' = [timer EXCEPT ![busy].os = st]
      /\ timer \in [Timers -> OsTimer]
  BY DEF ClearTimer, TypeInv, TypeOK
<1>3. st = IF timer[busy].os = "failed" THEN "failed" ELSE "deleted"
  OBVIOUS
<1> HIDE DEF st
<1>4. /\ timer' \in [Timers -> OsTimer] /\ \A j \in Timers \ {busy} : timer'[j] = timer[j]
      /\ timer'[busy].slot = timer[busy].slot /\ timer'[busy].os = st
  BY <1>1, <1>2, OsSet
<1>5. heap' = [heap EXCEPT ![timer[busy].slot] = NoTimer]
  BY DEF ClearTimer
<1>6. faults' \subseteq {"wrap", "timer"}
  BY DEF ClearTimer, TypeInv, TypeOK
<1>7. timer[busy].slot \in Slots
  BY <1>1 DEF TypeInv
<1> QED
  BY <1>1, <1>3, <1>4, <1>5, <1>6, <1>7

\* A walk deletes a timer of the list, which is not the one the script is at.
LEMMA ClearNodeDef ==
  ASSUME TypeInv, NEW u \in Updaters, ClearNode(u)
  PROVE  \E i \in Timers :
           /\ i \in link /\ i # busy /\ timer[i].os \in {"armed", "fired"}
           /\ timer' \in [Timers -> OsTimer] /\ \A j \in Timers \ {i} : timer'[j] = timer[j]
           /\ timer'[i].slot = timer[i].slot /\ timer'[i].repeat = timer[i].repeat
           /\ timer'[i].os = "deleted"
           /\ walk' = [v \in Updaters |-> walk[v] \ {i}]
           /\ link' \subseteq Timers /\ (~torn' => link' = link \ {i})
<1>a. ~torn /\ link \in SUBSET Timers /\ timer \in [Timers -> OsTimer]
  BY DEF ClearNode, Is, TypeInv, TypeOK
<1>1. PICK i \in walk[u] :
        /\ timer' = [timer EXCEPT ![i].os = "deleted"]
        /\ walk' = [v \in Updaters |-> walk[v] \ {i}]
        /\ Access(link \ {i}, \E v \in Updaters \ {u} : i \in Held(v), Walkers # {u})
  BY Zenon DEF ClearNode
<1>2. i \in link /\ i # busy /\ timer[i].os \in {"armed", "fired"} /\ i \in Timers
  BY <1>a DEF TypeInv, WalkInv, ListExact
<1>3. link' \subseteq Timers /\ (~torn' => link' = link \ {i})
  <2>1. link \ {i} \in SUBSET Timers
    BY <1>a
  <2> QED
    BY <1>1, <2>1, Zenon DEF Access
<1>4. /\ timer' \in [Timers -> OsTimer] /\ \A j \in Timers \ {i} : timer'[j] = timer[j]
      /\ timer'[i].slot = timer[i].slot /\ timer'[i].repeat = timer[i].repeat /\ timer'[i].os = "deleted"
  <2>1. "deleted" \in {"unused", "armed", "fired", "failed", "deleted"}
    OBVIOUS
  <2> QED
    BY <1>1, <1>2, <1>a, <2>1, OsSet
<1> QED
  BY <1>1, <1>2, <1>3, <1>4

LEMMA SetTimerTypes ==
  ASSUME TypeInv, NEW s \in Slots, NEW repeat \in BOOLEAN, SetTimer(s, repeat),
         app' = app, torn' \in BOOLEAN, update_done' \in BOOLEAN
  PROVE  TypeInv'
<1> USE TaskAssumption
<1>1. UNCHANGED <<mq, engine, cur, link, walk, torn, handler, driver, updater, exitSem, faults>>
  BY DEF SetTimer, list, senders, update
<1>2. PICK i \in Timers, os \in {"armed", "failed"} :
         /\ timer[i].os = "unused" /\ heap' = [heap EXCEPT ![s] = i] /\ js = "script"
         /\ timer' \in [Timers -> OsTimer]
         /\ timer'[i].os = os /\ timer'[i].slot = s
         /\ \A j \in Timers \ {i} : timer'[j] = timer[j]
         /\ \/ os = "armed" /\ js' = "linking" /\ busy' = i
            \/ os = "failed" /\ js' = js /\ busy' = busy
  BY SetTimerDef
<1>3. busy = NoTimer /\ NoTimer \notin Timers
  BY <1>2 DEF TypeInv, BusyInv, InList, Timers, NoTimer
<1>4. heap' \in [Slots -> Timers \cup {NoTimer}] /\ js' \in EngineAt /\ busy' \in Timers \cup {NoTimer}
  BY <1>2, <1>3 DEF TypeInv, TypeOK, EngineAt
<1>5. \A j \in Timers : /\ timer'[j].os # "unused" => timer'[j].slot \in Slots
                        /\ handler[j] # 0 => timer'[j].os # "unused"
  BY <1>2 DEF TypeInv
<1>6. \A z \in Slots : heap'[z] # NoTimer => timer'[heap'[z]].os # "unused"
  <2>1. \A z \in Slots : heap'[z] = i \/ heap'[z] = heap[z]
    BY <1>2 DEF TypeInv, TypeOK
  <2>2. \A z \in Slots : heap[z] # NoTimer => heap[z] \in Timers /\ timer[heap[z]].os # "unused"
    BY DEF TypeInv, TypeOK
  <2> QED
    BY <1>2, <2>1, <2>2
<1>7. ListExact' /\ WalkInv'
  BY <1>1, <1>2, <1>3 DEF TypeInv, ListExact, WalkInv
<1>8. BusyInv'
  BY <1>2, <1>3 DEF BusyInv, InList
<1> QED
  BY <1>1, <1>2, <1>4, <1>5, <1>6, <1>7, <1>8 DEF TypeInv, TypeOK

LEMMA LinkTypes ==
  ASSUME TypeInv, LinkTimer \/ (\E s \in Slots : UnlinkTimer(s)),
         app' = app, torn' \in BOOLEAN, update_done' \in BOOLEAN
  PROVE  TypeInv'
<1> USE TaskAssumption
<1>1. UNCHANGED <<mq, engine, cur, heap, timer, handler, driver, updater, exitSem, faults>> /\ ~torn
  BY DEF LinkTimer, UnlinkTimer, Runs, senders, update
<1>2. ASSUME js' \in EngineAt, busy' \in Timers \cup {NoTimer}, link' \subseteq Timers,
             walk' \in [Updaters -> SUBSET Timers], ListExact', WalkInv', BusyInv'
      PROVE  TypeInv'
  BY <1>1, <1>2 DEF TypeInv, TypeOK
<1>a. /\ link \in SUBSET Timers /\ walk \in [Updaters -> SUBSET Timers] /\ NoTimer \notin Timers
      /\ link = {j \in Timers : timer[j].os \in {"armed", "fired"}} \ {busy}
      /\ \A v \in Updaters : walk[v] \subseteq link
  BY <1>1 DEF TypeInv, TypeOK, ListExact, WalkInv, Timers, NoTimer
<1>3. CASE LinkTimer
  <2>1. busy \in Timers /\ timer[busy].os \in {"armed", "fired"}
    BY <1>3 DEF LinkTimer, Runs, TypeInv, TypeOK, BusyInv, InList
  <2>2. js' = "script" /\ busy' = NoTimer
    BY <1>3 DEF LinkTimer
  <2>3. link' \subseteq Timers /\ (~torn' => link' = link \cup {busy})
    <3>1. link \cup {busy} \in SUBSET Timers
      BY <1>a, <2>1
    <3> QED
      BY <1>3, <3>1, Zenon DEF LinkTimer, Access
  <2>4. walk' = [v \in Updaters |-> walk'[v]] /\ \A v \in Updaters : walk'[v] \subseteq walk[v] \cup {busy}
    BY <1>3 DEF LinkTimer
  <2>5. walk' \in [Updaters -> SUBSET Timers]
    <3>1. \A v \in Updaters : walk'[v] \in SUBSET Timers
      BY <1>a, <2>1, <2>4
    <3> QED
      BY <2>4, <3>1
  <2>6. ListExact' /\ WalkInv'
    BY <1>1, <1>a, <2>1, <2>2, <2>3, <2>4 DEF ListExact, WalkInv
  <2>7. BusyInv' /\ js' \in EngineAt
    BY <2>2 DEF BusyInv, InList, EngineAt
  <2> QED
    BY <1>2, <2>2, <2>3, <2>5, <2>6, <2>7
<1>4. ASSUME NEW s \in Slots, UnlinkTimer(s) PROVE TypeInv'
  <2>1. PICK i \in Timers : i = heap[s] /\ timer[i].os # "unused"
    BY <1>4 DEF UnlinkTimer, TypeInv, TypeOK
  <2>2. js = "script" /\ js' = "cancel" /\ busy' = i
    BY <1>4, <2>1 DEF UnlinkTimer, Runs
  <2>3. link' \subseteq Timers /\ (~torn' => link' = link \ {i})
    <3>1. link \ {i} \in SUBSET Timers
      BY <1>a
    <3> QED
      BY <1>4, <2>1, <3>1, Zenon DEF UnlinkTimer, Access
  <2>4. walk' = [v \in Updaters |-> walk[v] \ {i}]
    BY <1>4, <2>1 DEF UnlinkTimer
  <2>5. walk' \in [Updaters -> SUBSET Timers]
    <3>1. \A v \in Updaters : walk[v] \ {i} \in SUBSET Timers
      BY <1>a
    <3> QED
      BY <2>4, <3>1
  <2>6. busy = NoTimer
    BY <2>2 DEF TypeInv, BusyInv, InList
  <2>7. ListExact'
    BY <1>1, <1>a, <2>2, <2>3, <2>6 DEF ListExact
  <2>8. WalkInv'
    BY <1>a, <2>3, <2>4 DEF WalkInv
  <2>9. BusyInv' /\ js' \in EngineAt
    BY <1>1, <1>a, <2>1, <2>2 DEF BusyInv, InList, EngineAt
  <2> QED
    BY <1>2, <2>1, <2>2, <2>3, <2>5, <2>7, <2>8, <2>9
<1> QED
  BY <1>3, <1>4

LEMMA ClearTypes ==
  ASSUME TypeInv, ClearTimer, app' = app, torn' \in BOOLEAN, update_done' \in BOOLEAN
  PROVE  TypeInv'
<1> USE TaskAssumption
<1>1. UNCHANGED <<mq, engine, cur, link, walk, torn, handler, driver, updater, exitSem>>
      /\ js' = "script" /\ busy' = NoTimer /\ ~torn
  BY DEF ClearTimer, Runs, list, senders, update
<1>2. /\ busy \in Timers /\ timer[busy].os # "unused" /\ timer[busy].slot \in Slots
      /\ timer' \in [Timers -> OsTimer] /\ \A j \in Timers \ {busy} : timer'[j] = timer[j]
      /\ timer'[busy].slot = timer[busy].slot
      /\ timer'[busy].os \in {"failed", "deleted"}
      /\ heap' = [heap EXCEPT ![timer[busy].slot] = NoTimer]
      /\ faults' \subseteq {"wrap", "timer"}
  BY ClearTimerDef
<1>3. heap' \in [Slots -> Timers \cup {NoTimer}]
  BY <1>2 DEF TypeInv, TypeOK
<1>4. \A j \in Timers : /\ timer'[j].os # "unused" => timer'[j].slot \in Slots
                        /\ handler[j] # 0 => timer'[j].os # "unused"
  BY <1>2 DEF TypeInv
<1>5. \A z \in Slots : heap'[z] # NoTimer => timer'[heap'[z]].os # "unused"
  <2>1. \A z \in Slots : heap'[z] = NoTimer \/ heap'[z] = heap[z]
    BY <1>2 DEF TypeInv, TypeOK
  <2>2. \A z \in Slots : heap[z] # NoTimer => heap[z] \in Timers /\ timer[heap[z]].os # "unused"
    BY DEF TypeInv, TypeOK
  <2> QED
    BY <1>2, <2>1, <2>2
<1>6. ListExact'
  <2>1. link = {j \in Timers : timer[j].os \in {"armed", "fired"}} \ {busy} /\ NoTimer \notin Timers
    BY <1>1 DEF TypeInv, ListExact, Timers, NoTimer
  <2> QED
    BY <1>1, <1>2, <2>1 DEF ListExact
<1>7. WalkInv' /\ BusyInv' /\ js' \in EngineAt /\ busy' \in Timers \cup {NoTimer}
  BY <1>1 DEF TypeInv, WalkInv, BusyInv, InList, EngineAt
<1> QED
  BY <1>1, <1>2, <1>3, <1>4, <1>5, <1>6, <1>7 DEF TypeInv, TypeOK

LEMMA ExpireTypes ==
  ASSUME TypeInv, NEW i \in Timers, Expire(i), app' = app, torn' \in BOOLEAN, update_done' \in BOOLEAN
  PROVE  TypeInv'
<1> USE TaskAssumption
<1>1. UNCHANGED <<mq, engine, js, cur, busy, heap, link, walk, torn, driver, updater, exitSem, faults>>
  BY DEF Expire, list, update
<1>2. /\ timer[i].os = "armed"
      /\ timer' \in [Timers -> OsTimer] /\ \A j \in Timers \ {i} : timer'[j] = timer[j]
      /\ timer'[i].slot = timer[i].slot
      /\ timer'[i].os \in {"armed", "fired"}
      /\ handler' \in [Timers -> 0 .. MaxEngines] /\ \A j \in Timers \ {i} : handler'[j] = handler[j]
  BY ExpireDef
<1>3. \A j \in Timers : /\ timer'[j].os # "unused" => timer'[j].slot \in Slots
                        /\ handler'[j] # 0 => timer'[j].os # "unused"
  BY <1>2 DEF TypeInv
<1>4. \A j \in Timers : /\ timer'[j].os \in {"armed", "fired"} <=> timer[j].os \in {"armed", "fired"}
                        /\ timer[j].os # "unused" => timer'[j].os # "unused"
  BY <1>2
<1>5. \A z \in Slots : heap[z] # NoTimer => heap[z] \in Timers /\ timer'[heap[z]].os # "unused"
  BY <1>4 DEF TypeInv, TypeOK
<1>6. ListExact' /\ WalkInv'
  BY <1>1, <1>4 DEF TypeInv, ListExact, WalkInv
<1>7. BusyInv'
  <2>1. js \in {"linking", "cancel"} => busy \in Timers
    BY DEF TypeInv, TypeOK, BusyInv, InList
  <2> QED
    BY <1>1, <1>4, <2>1 DEF TypeInv, BusyInv, InList
<1> QED
  BY <1>1, <1>2, <1>3, <1>5, <1>6, <1>7 DEF TypeInv, TypeOK

\* The senders change the queue and their own place only.
LEMMA SenderTypes ==
  ASSUME TypeInv,
         \/ \E i \in Timers : TimerSend(i)
         \/ \E d \in Drivers : ScheduleCall(d) \/ DriverSend(d),
         app' = app, torn' \in BOOLEAN, update_done' \in BOOLEAN
  PROVE  TypeInv'
<1> USE TaskAssumption
<1>a. UNCHANGED <<engine, js, cur, busy, heap, timer, link, walk, torn, updater, exitSem, faults>>
  BY DEF TimerSend, ScheduleCall, DriverSend, list, update
<1>l. ListExact' /\ WalkInv' /\ BusyInv'
  BY <1>a, ListSame DEF list, TypeInv, BusyInv, InList
<1>c. mq \in MsgQueue /\ Len(mq.msgs) <= QMax
  BY DEF TypeInv, TypeOK
<1>1. ASSUME NEW i \in Timers, TimerSend(i) PROVE TypeInv'
  <2>1. Expiry(i) \in Message
    <3>1. timer[i].slot \in Slots
      BY <1>1 DEF TimerSend, TypeInv
    <3> QED
      BY <3>1 DEF Expiry, Message
  <2>2. mq' \in MsgQueue /\ Len(mq'.msgs) <= QMax
    BY <1>1, <1>c, <2>1, QueueSend DEF TimerSend
  <2>3. /\ handler' \in [Timers -> 0 .. MaxEngines] /\ UNCHANGED driver
        /\ \A j \in Timers : handler'[j] # 0 => handler[j] # 0
    BY <1>1 DEF TimerSend, TypeInv, TypeOK
  <2> QED
    BY <1>a, <1>l, <2>2, <2>3 DEF TypeInv, TypeOK
<1>2. ASSUME NEW d \in Drivers, ScheduleCall(d) PROVE TypeInv'
  <2>1. driver' \in [Drivers -> 0 .. MaxEngines] /\ UNCHANGED <<mq, handler>>
    BY <1>2 DEF ScheduleCall, TypeInv, TypeOK
  <2> QED
    BY <1>a, <1>l, <2>1 DEF TypeInv, TypeOK
<1>3. ASSUME NEW d \in Drivers, DriverSend(d) PROVE TypeInv'
  <2>1. mq' \in MsgQueue /\ Len(mq'.msgs) <= QMax
    BY <1>3, <1>c, QueueSend DEF DriverSend, Message
  <2>2. driver' \in [Drivers -> 0 .. MaxEngines] /\ UNCHANGED handler
    BY <1>3 DEF DriverSend, TypeInv, TypeOK
  <2> QED
    BY <1>a, <1>l, <2>1, <2>2 DEF TypeInv, TypeOK
<1> QED
  BY <1>1, <1>2, <1>3

\* Who is about to restart the engine knows that it is gone.
LEMMA RestartsTheDead ==
  ASSUME TypeInv, EngineInv, NEW u \in Restarting
  PROVE  js = "down"
<1>1. IsFiniteSet(Restarting) /\ Cardinality(Restarting) \in Nat /\ exitSem \in Nat
  BY FS_CardinalityType DEF EngineInv, TypeInv, TypeOK
<1>2. Cardinality(Restarting) # 0
  BY <1>1, FS_EmptySet
<1>3. /\ exitSem + Cardinality(Restarting) <= 1
      /\ exitSem + Cardinality(Restarting) = 1 => js = "down"
  BY DEF EngineInv, OneEngineTask, Restarting
<1> QED
  BY <1>1, <1>2, <1>3

\* apppack_upgrade and download_work.
LEMMA UpdaterTypes ==
  ASSUME TypeInv, EngineInv, NEW u \in Updaters, UpdaterStep(u),
         app' = app, torn' \in BOOLEAN, update_done' \in BOOLEAN
  PROVE  TypeInv'
<1> USE TaskAssumption
<1> DEFINE UpdaterPC == UpdaterAt \X (0 .. MaxEngines)
<1>a. UNCHANGED <<engine, cur, busy, heap, handler, driver, faults>>
  BY DEF UpdaterStep, Upgrade, ClearNode, TestUpdateDone, CreateDownload, Downloaded, ExitCall, EngineGone,
         Restart, senders
<1>c. updater' \in [Updaters -> UpdaterPC]
  <2>1. updater \in [Updaters -> UpdaterPC] /\ engine \in 0 .. MaxEngines
    BY DEF TypeInv, TypeOK
  <2>2. \/ UNCHANGED updater
        \/ \E x \in UpdaterPC : updater' = [updater EXCEPT ![u] = x]
    <3>1. /\ <<"download", 0>> \in UpdaterPC /\ <<"wait", 0>> \in UpdaterPC /\ <<"restart", 0>> \in UpdaterPC
          /\ <<"idle", 0>> \in UpdaterPC /\ <<"tested", engine>> \in UpdaterPC
          /\ <<"clear", 0>> \in UpdaterPC /\ <<"claim", 0>> \in UpdaterPC
      BY <2>1 DEF UpdaterAt
    <3> HIDE DEF UpdaterPC
    <3>2. CASE Downloaded(u)
      <4>1. CASE mq.up
        BY <3>1, <3>2, <4>1 DEF Downloaded
      <4>2. CASE ~mq.up
        BY <3>1, <3>2, <4>2 DEF Downloaded
      <4> QED
        BY <4>1, <4>2
    <3>3. CASE Upgrade(u)
      BY <3>1, <3>3 DEF Upgrade
    <3>4. CASE ExitCall(u) \/ EngineGone(u) \/ Restart(u)
      BY <3>1, <3>4 DEF ExitCall, EngineGone, Restart
    <3>5. CASE ClearNode(u)
      BY <3>5 DEF ClearNode, update
    <3>6. CASE TestUpdateDone(u)
      <4>1. CASE update_done
        BY <3>1, <3>6, <4>1, Zenon DEF TestUpdateDone
      <4>2. CASE ~update_done
        BY <3>1, <3>6, <4>2, Zenon DEF TestUpdateDone
      <4> QED
        BY <4>1, <4>2
    <3>7. CASE CreateDownload(u)
      BY <3>1, <3>7, Zenon DEF CreateDownload
    <3> QED
      BY <3>2, <3>3, <3>4, <3>5, <3>6, <3>7 DEF UpdaterStep
  <2> HIDE DEF UpdaterPC
  <2> QED
    BY <2>1, <2>2
<1>d. mq' \in MsgQueue /\ Len(mq'.msgs) <= QMax
  <2>1. mq \in MsgQueue /\ Len(mq.msgs) <= QMax
    BY DEF TypeInv, TypeOK
  <2>2. CASE ExitCall(u)
    BY <2>1, <2>2, QueueSend DEF ExitCall, Message
  <2>3. CASE ~ExitCall(u)
    BY <2>1, <2>3 DEF UpdaterStep, Upgrade, ClearNode, TestUpdateDone, CreateDownload, Downloaded, EngineGone, Restart
  <2> QED
    BY <2>2, <2>3
<1>1. CASE ClearNode(u)
  <2>1. UNCHANGED <<js, exitSem>> /\ ~torn
    BY <1>1 DEF ClearNode, Is, update
  <2>2. PICK i \in Timers :
           /\ i \in link /\ i # busy /\ timer[i].os \in {"armed", "fired"}
           /\ timer' \in [Timers -> OsTimer] /\ \A j \in Timers \ {i} : timer'[j] = timer[j]
           /\ timer'[i].slot = timer[i].slot /\ timer'[i].os = "deleted"
           /\ walk' = [v \in Updaters |-> walk[v] \ {i}]
           /\ link' \subseteq Timers /\ (~torn' => link' = link \ {i})
    BY <1>1, ClearNodeDef
  <2>3. walk' \in [Updaters -> SUBSET Timers]
    <3>1. \A v \in Updaters : walk[v] \ {i} \in SUBSET Timers
      BY DEF TypeInv, TypeOK
    <3> QED
      BY <2>2, <3>1
  <2>4. ListExact'
    <3>1. link = {j \in Timers : timer[j].os \in {"armed", "fired"}} \ {busy}
      BY <2>1 DEF TypeInv, ListExact
    <3> QED
      BY <1>a, <2>2, <3>1 DEF ListExact
  <2>5. WalkInv'
    BY <2>1, <2>2 DEF TypeInv, WalkInv
  <2>6. BusyInv'
    <3>1. js \in {"linking", "cancel"} => busy \in Timers \ {i}
      BY <2>2 DEF TypeInv, TypeOK, BusyInv, InList
    <3> QED
      BY <1>a, <2>1, <2>2, <3>1 DEF TypeInv, BusyInv, InList
  <2>7. \A j \in Timers : /\ timer'[j].os # "unused" => timer'[j].slot \in Slots
                          /\ handler[j] # 0 => timer'[j].os # "unused"
    BY <2>2 DEF TypeInv
  <2>8. \A s \in Slots : heap[s] # NoTimer => heap[s] \in Timers /\ timer'[heap[s]].os # "unused"
    BY <2>2 DEF TypeInv, TypeOK
  <2> QED
    BY <1>a, <1>c, <1>d, <2>1, <2>2, <2>3, <2>4, <2>5, <2>6, <2>7, <2>8 DEF TypeInv, TypeOK
<1>2. CASE Upgrade(u)
  <2>1. UNCHANGED <<js, exitSem, timer, link, torn>> /\ walk' = [walk EXCEPT ![u] = link]
    BY <1>2 DEF Upgrade
  <2>2. walk' \in [Updaters -> SUBSET Timers] /\ WalkInv'
    BY <2>1 DEF TypeInv, TypeOK, WalkInv
  <2>3. ListExact' /\ BusyInv'
    BY <1>a, <2>1 DEF TypeInv, ListExact, BusyInv, InList
  <2> QED
    BY <1>a, <1>c, <1>d, <2>1, <2>2, <2>3 DEF TypeInv, TypeOK
<1>3. CASE ~ClearNode(u) /\ ~Upgrade(u)
  <2>1. UNCHANGED <<timer, link, walk, torn>> /\ exitSem' \in Nat
    BY <1>3 DEF UpdaterStep, TestUpdateDone, CreateDownload, Downloaded, ExitCall, EngineGone, Restart, TypeInv,
                TypeOK, list
  <2>2. ListExact' /\ WalkInv'
    BY <1>a, <2>1, ListSame DEF list
  <2>3. js' \in EngineAt /\ BusyInv'
    <3>1. CASE Restart(u)
      <4>1. js = "down"
        BY <3>1, RestartsTheDead DEF Restart, Is, Restarting
      <4>2. js' \in {"boot", "dead"}
        BY <3>1 DEF Restart
      <4> QED
        BY <1>a, <2>1, <4>1, <4>2 DEF TypeInv, BusyInv, InList, EngineAt
    <3>2. CASE ~Restart(u)
      <4>1. js' = js
        BY <1>3, <3>2 DEF UpdaterStep, TestUpdateDone, CreateDownload, Downloaded, ExitCall, EngineGone
      <4> QED
        BY <1>a, <2>1, <4>1 DEF TypeInv, TypeOK, BusyInv, InList
    <3> QED
      BY <3>1, <3>2
  <2> QED
    BY <1>a, <1>c, <1>d, <2>1, <2>2, <2>3 DEF TypeInv, TypeOK
<1> QED
  BY <1>1, <1>2, <1>3

LEMMA TypeStep == TypeInv /\ EngineInv /\ [Next]_vars => TypeInv'
<1> SUFFICES ASSUME TypeInv, EngineInv, [Next]_vars PROVE TypeInv'
  OBVIOUS
<1>a. app' = app /\ torn' \in BOOLEAN /\ update_done' \in BOOLEAN
  BY Flags DEF TypeInv
<1>1. CASE UNCHANGED vars
  <2>1. ListExact' /\ WalkInv' /\ BusyInv'
    BY <1>1, ListSame DEF vars, TypeInv, BusyInv, InList
  <2> QED
    BY <1>1, <1>a, <2>1 DEF vars, list, senders, update, TypeInv, TypeOK
<1> QED
  BY <1>1, <1>a, EngineTypes, SetTimerTypes, LinkTypes, ClearTypes, ExpireTypes, SenderTypes, UpdaterTypes, Zenon
     DEF Next, UpdaterStep

-----------------------------------------------------------------------------
(* One engine task.                                                        *)

LEMMA EngineInit == Init => EngineInv
<1> SUFFICES ASSUME Init PROVE EngineInv
  OBVIOUS
<1>1. Restarting = {}
  BY DEF Init, Restarting
<1>2. IsFiniteSet({}) /\ Cardinality({}) = 0
  BY FS_EmptySet
<1>3. IsFiniteSet(Restarting) /\ exitSem + Cardinality(Restarting) = 0
  BY <1>1, <1>2 DEF Init
<1> QED
  BY <1>3 DEF EngineInv, OneEngineTask, Restarting

\* A step that moves no token and leaves the engine gone when it is gone.
LEMMA EngineFrame ==
  ASSUME EngineInv, Restarting' = Restarting, exitSem' = exitSem,
         js = "down" /\ ~mq.up => js' = "down" /\ ~mq'.up
  PROVE  EngineInv'
<1>1. /\ IsFiniteSet(Restarting) /\ exitSem + Cardinality(Restarting) <= 1
      /\ exitSem + Cardinality(Restarting) = 1 => js = "down" /\ ~mq.up
  BY DEF EngineInv, OneEngineTask, Restarting
<1>2. /\ IsFiniteSet(Restarting') /\ exitSem' + Cardinality(Restarting') <= 1
      /\ exitSem' + Cardinality(Restarting') = 1 => js' = "down" /\ ~mq'.up
  BY <1>1
<1> QED
  BY <1>2 DEF EngineInv, OneEngineTask, Restarting

LEMMA EngineStep == TypeInv /\ EngineInv /\ [Next]_vars => EngineInv'
<1> SUFFICES ASSUME TypeInv, EngineInv, [Next]_vars PROVE EngineInv'
  OBVIOUS
<1>a. /\ exitSem \in Nat /\ IsFiniteSet(Restarting) /\ Cardinality(Restarting) \in Nat
      /\ exitSem + Cardinality(Restarting) <= 1
      /\ exitSem + Cardinality(Restarting) = 1 => js = "down" /\ ~mq.up
      /\ updater \in [Updaters -> UpdaterAt \X (0 .. MaxEngines)]
      /\ mq \in MsgQueue /\ Len(mq.msgs) <= QMax
  BY FS_CardinalityType DEF TypeInv, TypeOK, EngineInv, OneEngineTask, Restarting
<1>1. CASE Boot \/ Yield \/ ScriptEnd
  <2>1. js # "down" /\ UNCHANGED <<updater, exitSem>>
    BY <1>1 DEF Boot, Yield, ScriptEnd, Runs, update
  <2>2. Restarting' = Restarting
    BY <2>1 DEF Restarting
  <2> QED
    BY <2>1, <2>2, EngineFrame
<1>2. CASE Deinit
  <2>1. js = "exit" /\ js' = "down" /\ ~mq'.up /\ exitSem' = exitSem + 1 /\ UNCHANGED updater
    BY <1>2 DEF Deinit, Runs
  <2>2. exitSem + Cardinality(Restarting) = 0
    BY <1>a, <2>1
  <2>3. Restarting' = Restarting
    BY <2>1 DEF Restarting
  <2>4. exitSem' + Cardinality(Restarting') = 1
    BY <1>a, <2>1, <2>2, <2>3
  <2> QED
    BY <1>a, <2>1, <2>3, <2>4 DEF EngineInv, OneEngineTask, Restarting
<1>3. ASSUME \/ \E s \in Slots : (\E repeat \in BOOLEAN : SetTimer(s, repeat)) \/ UnlinkTimer(s)
             \/ LinkTimer \/ ClearTimer
      PROVE  EngineInv'
  <2>1. UNCHANGED <<updater, exitSem, mq>> /\ js # "down"
    BY <1>3 DEF SetTimer, UnlinkTimer, LinkTimer, ClearTimer, Runs, update
  <2>2. Restarting' = Restarting
    BY <2>1 DEF Restarting
  <2> QED
    BY <2>1, <2>2, EngineFrame
<1>4. ASSUME NEW i \in Timers, Expire(i) \/ TimerSend(i) PROVE EngineInv'
  <2>1. UNCHANGED <<updater, exitSem, js>>
    BY <1>4 DEF Expire, TimerSend, update
  <2>2. mq'.up = mq.up
    <3>1. CASE Expire(i)
      BY <3>1 DEF Expire
    <3>2. CASE TimerSend(i)
      <4>1. Expiry(i) \in Message
        <5>1. timer[i].slot \in Slots
          BY <3>2 DEF TimerSend, TypeInv
        <5> QED
          BY <5>1 DEF Expiry, Message
      <4> QED
        BY <1>a, <3>2, <4>1, QueueSend DEF TimerSend
    <3> QED
      BY <1>4, <3>1, <3>2
  <2>3. Restarting' = Restarting
    BY <2>1 DEF Restarting
  <2> QED
    BY <2>1, <2>2, <2>3, EngineFrame
<1>5. ASSUME NEW d \in Drivers, ScheduleCall(d) \/ DriverSend(d) PROVE EngineInv'
  <2>1. UNCHANGED <<updater, exitSem, js>>
    BY <1>5 DEF ScheduleCall, DriverSend, update
  <2>2. mq'.up = mq.up
    BY <1>5, <1>a, QueueSend DEF ScheduleCall, DriverSend, Message
  <2>3. Restarting' = Restarting
    BY <2>1 DEF Restarting
  <2> QED
    BY <2>1, <2>2, <2>3, EngineFrame
<1>6. ASSUME NEW u \in Updaters,
             \/ Upgrade(u) \/ ClearNode(u) \/ TestUpdateDone(u) \/ CreateDownload(u)
             \/ Downloaded(u) \/ ExitCall(u)
      PROVE  EngineInv'
  <2>1. UNCHANGED <<exitSem, js>>
    BY <1>6 DEF Upgrade, ClearNode, TestUpdateDone, CreateDownload, Downloaded, ExitCall, update
  <2>2. mq'.up = mq.up
    <3>1. CASE ExitCall(u)
      BY <3>1, <1>a, QueueSend DEF ExitCall, Message
    <3>2. CASE ~ExitCall(u)
      BY <1>6, <3>2 DEF Upgrade, ClearNode, TestUpdateDone, CreateDownload, Downloaded
    <3> QED
      BY <3>1, <3>2
  <2>3. Restarting' = Restarting
    <3>1. CASE ClearNode(u)
      BY <3>1 DEF ClearNode, update, Restarting
    <3>2. CASE ~ClearNode(u)
      <4>1. \A v \in Updaters \ {u} : updater'[v] = updater[v]
        BY <1>6, <1>a, <3>2 DEF Upgrade, TestUpdateDone, CreateDownload, Downloaded, ExitCall
      <4>2. updater[u][1] # "restart" /\ updater'[u][1] # "restart"
        BY <1>6, <1>a, <3>2 DEF Upgrade, TestUpdateDone, CreateDownload, Downloaded, ExitCall, Is
      <4> QED
        BY <4>1, <4>2 DEF Restarting
    <3> QED
      BY <3>1, <3>2
  <2> QED
    BY <2>1, <2>2, <2>3, EngineFrame
<1>7. ASSUME NEW u \in Updaters, EngineGone(u) PROVE EngineInv'
  <2>1. exitSem > 0 /\ exitSem' = exitSem - 1 /\ UNCHANGED <<js, mq>>
    BY <1>7 DEF EngineGone
  <2>2. u \notin Restarting /\ Restarting' = Restarting \cup {u}
    BY <1>7, <1>a DEF EngineGone, Is, Restarting
  <2>3. IsFiniteSet(Restarting') /\ Cardinality(Restarting') = Cardinality(Restarting) + 1
    BY <1>a, <2>2, FS_AddElement
  <2>4. exitSem' + Cardinality(Restarting') = exitSem + Cardinality(Restarting)
    BY <1>a, <2>1, <2>3
  <2> QED
    BY <1>a, <2>1, <2>3, <2>4 DEF EngineInv, OneEngineTask, Restarting
<1>8. ASSUME NEW u \in Updaters, Restart(u) PROVE EngineInv'
  <2>1. UNCHANGED exitSem
    BY <1>8 DEF Restart
  <2>2. u \in Restarting /\ Restarting' = Restarting \ {u}
    BY <1>8, <1>a DEF Restart, Is, Restarting
  <2>3. IsFiniteSet(Restarting') /\ Cardinality(Restarting') = Cardinality(Restarting) - 1
    BY <1>a, <2>2, FS_RemoveElement
  <2>4. Cardinality(Restarting) # 0
    BY <1>a, <2>2, FS_EmptySet
  <2>5. exitSem' + Cardinality(Restarting') = 0
    BY <1>a, <2>1, <2>3, <2>4
  <2> QED
    BY <2>3, <2>5 DEF EngineInv, OneEngineTask, Restarting
<1>9. CASE UNCHANGED vars
  <2>1. UNCHANGED <<updater, exitSem, js, mq>>
    BY <1>9 DEF vars, update
  <2>2. Restarting' = Restarting
    BY <2>1 DEF Restarting
  <2> QED
    BY <2>1, <2>2, EngineFrame
<1> QED
  BY <1>1, <1>2, <1>3, <1>4, <1>5, <1>6, <1>7, <1>8, <1>9, Zenon DEF Next

\* However many threads update the application at once, there is one engine
\* task: whoever restarts it has taken the only token of jse_task_exit_sem.
THEOREM AtMostOneEngine == Spec => []OneEngineTask
<1>1. EngineInv => OneEngineTask
  BY DEF EngineInv
<1> QED
  BY <1>1, TypeInit, TypeStep, EngineInit, EngineStep, PTL DEF Spec

\* Every variable keeps its type; the queue never holds more than
\* AMP_MSGQ_MAX_NUM messages.
THEOREM TaskTypes == Spec => []TypeOK
<1>1. TypeInv => TypeOK
  BY DEF TypeInv
<1> QED
  BY <1>1, TypeInit, TypeStep, EngineInit, EngineStep, PTL DEF Spec

\* Until two threads meet in g_timer_list it holds the timers that exist, but
\* for the one a script is just setting or clearing: timer_list_clear misses no
\* other and deletes none twice, for any number of walks, scripts and expiries.
THEOREM ListIsExact == Spec => []ListExact
<1>1. TypeInv => ListExact
  BY DEF TypeInv
<1> QED
  BY <1>1, TypeInit, TypeStep, EngineInit, EngineStep, PTL DEF Spec

-----------------------------------------------------------------------------
(* Timers that no script clears.                                           *)

\* A message in the queue is one of the three kinds.
LEMMA QueuedExpiry ==
  ASSUME TypeInv, NEW k \in DOMAIN mq.msgs, mq.msgs[k].type = "expiry"
  PROVE  mq.msgs[k].slot \in Slots /\ mq.msgs[k].of \in Timers
<1>1. mq.msgs[k] \in Message
  BY ElementOfSeq, LenProperties DEF TypeInv, TypeOK, MsgQueue
<1> QED
  BY <1>1 DEF Message, Call, Exit

LEMMA TimersInit == Init => TimersInv
<1> SUFFICES ASSUME Init PROVE TimersInv
  OBVIOUS
<1>1. /\ \A i \in Timers : timer[i].os = "unused" /\ handler[i] = 0
      /\ \A s \in Slots : heap[s] = NoTimer
      /\ DOMAIN mq.msgs = {} /\ cur = NoSlot /\ js # "cancel"
  BY DEF Init, Unused
<1> QED
  BY <1>1 DEF TimersInv, WrapKept, WrapOwned, HeardOnce, CallbackAlone, Awaited, ExpiryAt

\* A step that changes no timer, no wrap and no handler, adds no expiry and
\* starts no callback of a timer.
LEMMA TimersFrame ==
  ASSUME TypeInv, TimersInv, UNCHANGED <<app, heap, timer, handler>>,
         \A k \in DOMAIN mq'.msgs : mq'.msgs[k].type = "expiry" => k \in DOMAIN mq.msgs /\ mq'.msgs[k] = mq.msgs[k],
         js' = "cancel" => js = "cancel",
         js' \in {"script", "linking"} /\ cur' # NoSlot => js \in {"script", "linking"} /\ cur' = cur
  PROVE  TimersInv'
<1> SUFFICES ASSUME ~app.clears PROVE js' # "cancel" /\ WrapKept' /\ WrapOwned' /\ HeardOnce' /\ CallbackAlone'
  BY DEF TimersInv
<1>a. js # "cancel" /\ WrapKept /\ WrapOwned /\ HeardOnce /\ CallbackAlone
  BY DEF TimersInv
<1>1. \A i, k : ExpiryAt(i, k)' => ExpiryAt(i, k)
  BY DEF ExpiryAt
<1>2. \A i \in Timers : Awaited(i)' => Awaited(i)
  BY <1>1 DEF Awaited, ExpiryAt
<1>3. WrapKept'
  BY <1>2, <1>a DEF WrapKept
<1>4. WrapOwned'
  BY <1>a DEF WrapOwned
<1>5. HeardOnce'
  <2> SUFFICES ASSUME NEW i \in Timers, ~timer[i].repeat
               PROVE  /\ timer[i].os = "armed" => handler[i] = 0
                      /\ timer[i].os = "armed" \/ handler[i] # 0 => \A k \in DOMAIN mq'.msgs : ~ExpiryAt(i, k)'
                      /\ \A j, k \in DOMAIN mq'.msgs : ExpiryAt(i, j)' /\ ExpiryAt(i, k)' => j = k
    BY DEF HeardOnce
  <2>1. \A k \in DOMAIN mq'.msgs : ExpiryAt(i, k)' => k \in DOMAIN mq.msgs /\ ExpiryAt(i, k)
    BY <1>1 DEF ExpiryAt
  <2> QED
    BY <1>a, <2>1 DEF HeardOnce
<1>6. CallbackAlone'
  <2>1. CASE js' \in {"script", "linking"} /\ cur' # NoSlot
    <3>1. js \in {"script", "linking"} /\ cur' = cur /\ cur # NoSlot
      BY <2>1
    <3>2. heap[cur] # NoTimer /\ (~timer[heap[cur]].repeat => ~Awaited(heap[cur])) /\ heap[cur] \in Timers
      BY <1>a, <3>1 DEF CallbackAlone, TypeInv, TypeOK
    <3>3. PICK i \in Timers : i = heap[cur]
      BY <3>2
    <3>4. heap'[cur'] = i /\ i # NoTimer /\ (~timer'[i].repeat => ~Awaited(i)')
      BY <1>2, <3>1, <3>2, <3>3
    <3> QED
      BY <3>4 DEF CallbackAlone, Awaited, ExpiryAt
  <2>2. CASE ~(js' \in {"script", "linking"} /\ cur' # NoSlot)
    BY <2>2 DEF CallbackAlone
  <2> QED
    BY <2>1, <2>2
<1> QED
  BY <1>a, <1>3, <1>4, <1>5, <1>6

\* amp_task_yield takes the expiry of a timer and runs its callback: for a
\* one-shot timer that was the only sign of it.
LEMMA YieldTimers ==
  ASSUME TypeInv, TimersInv, Yield
  PROVE  TimersInv'
<1> SUFFICES ASSUME ~app.clears PROVE js' # "cancel" /\ WrapKept' /\ WrapOwned' /\ HeardOnce' /\ CallbackAlone'
  BY DEF TimersInv, Yield
<1>a. js # "cancel" /\ WrapKept /\ WrapOwned /\ HeardOnce /\ CallbackAlone
  BY DEF TimersInv
<1> DEFINE m == Head(mq.msgs)
<1>b. /\ 1 \in DOMAIN mq.msgs /\ m = mq.msgs[1]
      /\ \A k \in DOMAIN mq'.msgs : k \in Nat \ {0} /\ k + 1 \in DOMAIN mq.msgs /\ mq'.msgs[k] = mq.msgs[k + 1]
  BY QueueTake DEF Yield, TypeInv, TypeOK
<1>c. UNCHANGED <<heap, timer, handler>> /\ js' # "cancel"
  BY DEF Yield, Runs, senders
<1>1. \A i \in Timers : \A k \in DOMAIN mq'.msgs : ExpiryAt(i, k)' => ExpiryAt(i, k + 1) /\ k + 1 \in DOMAIN mq.msgs
  BY <1>b DEF ExpiryAt
<1>2. \A i \in Timers : Awaited(i)' => Awaited(i)
  BY <1>1, <1>c DEF Awaited
<1>3. WrapKept'
  BY <1>2, <1>a, <1>c DEF WrapKept
<1>4. WrapOwned'
  BY <1>a, <1>b, <1>c DEF WrapOwned
<1>5. HeardOnce'
  <2> SUFFICES ASSUME NEW i \in Timers, ~timer[i].repeat
               PROVE  /\ timer[i].os = "armed" => handler[i] = 0
                      /\ timer[i].os = "armed" \/ handler[i] # 0 => \A k \in DOMAIN mq'.msgs : ~ExpiryAt(i, k)'
                      /\ \A j, k \in DOMAIN mq'.msgs : ExpiryAt(i, j)' /\ ExpiryAt(i, k)' => j = k
    BY <1>c DEF HeardOnce
  <2>1. timer[i].os = "armed" => handler[i] = 0
    BY <1>a DEF HeardOnce
  <2>2. timer[i].os = "armed" \/ handler[i] # 0 => \A k \in DOMAIN mq'.msgs : ~ExpiryAt(i, k)'
    BY <1>1, <1>a DEF HeardOnce
  <2>3. ASSUME NEW j \in DOMAIN mq'.msgs, NEW k \in DOMAIN mq'.msgs, ExpiryAt(i, j)', ExpiryAt(i, k)'
        PROVE  j = k
    <3>1. j + 1 = k + 1
      BY <1>1, <1>a, <2>3 DEF HeardOnce
    <3> QED
      BY <1>b, <3>1
  <2> QED
    BY <2>1, <2>2, <2>3
<1>6. CallbackAlone'
  <2>1. CASE js' \in {"script", "linking"} /\ cur' # NoSlot
    <3>1. m.type = "expiry" /\ cur' = m.slot /\ heap[m.slot] # NoTimer
      BY <2>1 DEF Yield, Runs
    <3>2. PICK i \in Timers : i = m.of
      BY <1>b, <3>1, QueuedExpiry
    <3>3. ExpiryAt(i, 1) /\ timer[i].slot = m.slot
      BY <1>a, <1>b, <3>1, <3>2 DEF ExpiryAt, WrapOwned
    <3>4. heap'[cur'] = i /\ heap'[cur'] # NoTimer
      BY <1>a, <1>b, <1>c, <3>1, <3>3 DEF WrapKept, Awaited
    <3>5. ~timer'[i].repeat => ~Awaited(i)'
      <4> SUFFICES ASSUME ~timer[i].repeat PROVE ~Awaited(i)'
        BY <1>c
      <4>1. timer[i].os # "armed" /\ handler[i] = 0
        BY <1>a, <1>b, <3>3 DEF HeardOnce
      <4>2. ASSUME NEW k \in DOMAIN mq'.msgs, ExpiryAt(i, k)' PROVE FALSE
        <5>1. k + 1 = 1
          BY <1>1, <1>a, <1>b, <3>3, <4>2 DEF HeardOnce
        <5> QED
          BY <1>b, <5>1
      <4> QED
        BY <1>c, <4>1, <4>2 DEF Awaited
    <3> QED
      BY <3>4, <3>5 DEF CallbackAlone, Awaited, ExpiryAt
  <2>2. CASE ~(js' \in {"script", "linking"} /\ cur' # NoSlot)
    BY <2>2 DEF CallbackAlone
  <2> QED
    BY <2>1, <2>2
<1> QED
  BY <1>c, <1>3, <1>4, <1>5, <1>6

\* timer_action frees the wrap of a one-shot timer after its callback.
LEMMA ScriptEndTimers ==
  ASSUME TypeInv, TimersInv, ScriptEnd
  PROVE  TimersInv'
<1> SUFFICES ASSUME ~app.clears PROVE js' # "cancel" /\ WrapKept' /\ WrapOwned' /\ HeardOnce' /\ CallbackAlone'
  BY DEF TimersInv, ScriptEnd
<1>a. js # "cancel" /\ WrapKept /\ WrapOwned /\ HeardOnce /\ CallbackAlone
  BY DEF TimersInv
<1>b. UNCHANGED <<mq, timer, handler>> /\ js' = "yield" /\ js = "script"
  BY DEF ScriptEnd, Runs, senders
<1>c. /\ heap \in [Slots -> Timers \cup {NoTimer}] /\ NoTimer \notin Timers
      /\ \A i \in Timers : timer[i].os # "unused" => timer[i].slot \in Slots
      /\ \A i \in Timers : handler[i] # 0 => timer[i].os # "unused"
  BY TaskAssumption DEF TypeInv, TypeOK, Timers, NoTimer
<1>1. \A i \in Timers : Awaited(i)' <=> Awaited(i)
  BY <1>b DEF Awaited, ExpiryAt
<1>2. \A s \in Slots : \/ heap'[s] = heap[s]
                       \/ heap'[s] = NoTimer /\ s = cur /\ heap[cur] # NoTimer /\ cur # NoSlot /\ ~timer[heap[cur]].repeat
  BY <1>c DEF ScriptEnd
<1>3. WrapKept'
  <2> SUFFICES ASSUME NEW i \in Timers, Awaited(i) PROVE heap'[timer[i].slot] = i
    BY <1>1, <1>b DEF WrapKept
  <2>1. heap[timer[i].slot] = i
    BY <1>a DEF WrapKept
  <2>2. timer[i].slot \in Slots
    <3>1. timer[i].os # "unused"
      BY <1>a, <1>c DEF Awaited, WrapOwned, ExpiryAt
    <3> QED
      BY <1>c, <3>1
  <2>3. CASE timer[i].slot = cur /\ cur # NoSlot
    <3>1. timer[i].repeat
      BY <1>a, <1>b, <2>1, <2>3 DEF CallbackAlone
    <3> QED
      BY <1>2, <2>1, <2>2, <2>3, <3>1
  <2>4. CASE ~(timer[i].slot = cur /\ cur # NoSlot)
    BY <1>2, <2>1, <2>2, <2>4
  <2> QED
    BY <2>3, <2>4
<1>4. WrapOwned'
  BY <1>a, <1>b, <1>2 DEF WrapOwned
<1>5. HeardOnce'
  BY <1>a, <1>b DEF HeardOnce, ExpiryAt
<1>6. CallbackAlone'
  BY <1>b DEF CallbackAlone
<1> QED
  BY <1>b, <1>3, <1>4, <1>5, <1>6

\* setTimeout and setInterval take memory that no queued expiry points to.
LEMMA SetTimerTimers ==
  ASSUME TypeInv, TimersInv, NEW s \in Slots, NEW repeat \in BOOLEAN, SetTimer(s, repeat)
  PROVE  TimersInv'
<1> SUFFICES ASSUME ~app.clears PROVE js' # "cancel" /\ WrapKept' /\ WrapOwned' /\ HeardOnce' /\ CallbackAlone'
  BY DEF TimersInv, SetTimer
<1>a. js # "cancel" /\ WrapKept /\ WrapOwned /\ HeardOnce /\ CallbackAlone
  BY DEF TimersInv
<1>b. UNCHANGED <<mq, handler, cur>> /\ js = "script" /\ js' \in {"script", "linking"}
  BY DEF SetTimer, Runs, senders
<1>c. PICK i \in Timers, os \in {"armed", "failed"} :
        /\ timer[i].os = "unused" /\ heap[s] = NoTimer
        /\ heap' = [heap EXCEPT ![s] = i]
        /\ timer'[i].os = os /\ timer'[i].slot = s
        /\ \A j \in Timers \ {i} : timer'[j] = timer[j]
  BY SetTimerDef
<1>d. /\ heap \in [Slots -> Timers \cup {NoTimer}] /\ NoTimer \notin Timers
      /\ \A z \in Slots : heap[z] # NoTimer => heap[z] \in Timers /\ timer[heap[z]].os # "unused"
      /\ \A j \in Timers : timer[j].os # "unused" => timer[j].slot \in Slots
      /\ \A j \in Timers : handler[j] # 0 => timer[j].os # "unused"
      /\ cur \in Slots \cup {NoSlot}
  <2>1. NoTimer \notin Timers
    BY TaskAssumption DEF Timers, NoTimer
  <2> QED
    BY <2>1 DEF TypeInv, TypeOK
<1>1. \A k \in DOMAIN mq.msgs : mq.msgs[k].type = "expiry" => mq.msgs[k].of \in Timers \ {i}
  BY <1>a, <1>c, QueuedExpiry DEF WrapOwned
<1>2. handler[i] = 0 /\ \A k \in DOMAIN mq.msgs : ~ExpiryAt(i, k)
  BY <1>c, <1>d, <1>1 DEF ExpiryAt
<1>3. \A j, k : ExpiryAt(j, k)' <=> ExpiryAt(j, k)
  BY <1>b DEF ExpiryAt
<1>4. ASSUME NEW j \in Timers \ {i} PROVE Awaited(j)' <=> Awaited(j)
  <2>1. timer'[j] = timer[j] /\ handler'[j] = handler[j] /\ DOMAIN mq'.msgs = DOMAIN mq.msgs
    BY <1>b, <1>c
  <2> QED
    BY <1>3, <2>1 DEF Awaited
<1>5. WrapKept'
  <2> SUFFICES ASSUME NEW j \in Timers, Awaited(j)' PROVE heap'[timer'[j].slot] = j
    BY DEF WrapKept
  <2>1. CASE j = i
    BY <1>c, <1>d, <2>1
  <2>2. CASE j # i
    <3>1. Awaited(j) /\ timer'[j].slot = timer[j].slot
      BY <1>4, <1>c, <2>2
    <3>2. heap[timer[j].slot] = j
      BY <1>a, <3>1 DEF WrapKept
    <3>3. timer[j].slot \in Slots
      BY <1>a, <1>d, <3>1 DEF Awaited, WrapOwned, ExpiryAt
    <3>4. timer[j].slot # s
      BY <1>c, <1>d, <3>2
    <3> QED
      BY <1>c, <1>d, <3>1, <3>2, <3>3, <3>4
  <2> QED
    BY <2>1, <2>2
<1>6. WrapOwned'
  <2>1. ASSUME NEW z \in Slots, heap'[z] # NoTimer PROVE timer'[heap'[z]].slot = z
    <3>1. CASE z = s
      BY <1>c, <1>d, <3>1
    <3>2. CASE z # s
      <4>1. heap'[z] = heap[z]
        BY <1>c, <1>d, <3>2
      <4> QED
        BY <1>a, <1>c, <1>d, <2>1, <4>1 DEF WrapOwned
    <3> QED
      BY <3>1, <3>2
  <2>2. \A k \in DOMAIN mq.msgs : mq.msgs[k].type = "expiry" =>
           timer'[mq.msgs[k].of].slot = mq.msgs[k].slot /\ timer'[mq.msgs[k].of].os # "unused"
    BY <1>1, <1>a, <1>c DEF WrapOwned
  <2> QED
    BY <1>b, <2>1, <2>2 DEF WrapOwned
<1>7. HeardOnce'
  <2> SUFFICES ASSUME NEW j \in Timers, ~timer'[j].repeat
               PROVE  /\ timer'[j].os = "armed" => handler[j] = 0
                      /\ timer'[j].os = "armed" \/ handler[j] # 0 => \A k \in DOMAIN mq.msgs : ~ExpiryAt(j, k)
                      /\ \A l, k \in DOMAIN mq.msgs : ExpiryAt(j, l) /\ ExpiryAt(j, k) => l = k
    BY <1>b, <1>3 DEF HeardOnce
  <2>1. CASE j = i
    BY <1>2, <2>1
  <2>2. CASE j # i
    BY <1>a, <1>c, <2>2 DEF HeardOnce
  <2> QED
    BY <2>1, <2>2
<1>8. CallbackAlone'
  <2>1. CASE js \in {"script", "linking"} /\ cur # NoSlot
    <3>1. heap[cur] # NoTimer /\ (~timer[heap[cur]].repeat => ~Awaited(heap[cur])) /\ cur \in Slots
      BY <1>a, <1>d, <2>1 DEF CallbackAlone
    <3>2. PICK j \in Timers \ {i} : j = heap[cur]
      BY <1>c, <1>d, <3>1
    <3>3. heap'[cur'] = j /\ j # NoTimer /\ (~timer'[j].repeat => ~Awaited(j)')
      BY <1>4, <1>b, <1>c, <1>d, <3>1, <3>2
    <3> QED
      BY <3>3 DEF CallbackAlone, Awaited, ExpiryAt
  <2>2. CASE ~(js \in {"script", "linking"} /\ cur # NoSlot)
    BY <1>b, <2>2 DEF CallbackAlone
  <2> QED
    BY <2>1, <2>2
<1> QED
  BY <1>b, <1>5, <1>6, <1>7, <1>8

\* The timer service starts the handler of an armed timer.
LEMMA ExpireTimers ==
  ASSUME TypeInv, TimersInv, NEW i \in Timers, Expire(i)
  PROVE  TimersInv'
<1> SUFFICES ASSUME ~app.clears PROVE js' # "cancel" /\ WrapKept' /\ WrapOwned' /\ HeardOnce' /\ CallbackAlone'
  BY DEF TimersInv, Expire
<1>a. js # "cancel" /\ WrapKept /\ WrapOwned /\ HeardOnce /\ CallbackAlone
  BY DEF TimersInv
<1>b. UNCHANGED <<mq, heap, js, cur>>
  BY DEF Expire
<1>c. /\ timer[i].os = "armed" /\ handler[i] = 0
      /\ \A j \in Timers \ {i} : timer'[j] = timer[j] /\ handler'[j] = handler[j]
      /\ timer'[i].slot = timer[i].slot /\ timer'[i].repeat = timer[i].repeat
      /\ timer'[i].os = IF timer[i].repeat THEN "armed" ELSE "fired"
  BY ExpireDef
<1>d. \A z \in Slots : heap[z] # NoTimer => heap[z] \in Timers /\ timer[heap[z]].os # "unused"
  BY DEF TypeInv, TypeOK
<1>e. cur \in Slots \cup {NoSlot}
  BY DEF TypeInv, TypeOK
<1>1. \A j, k : ExpiryAt(j, k)' <=> ExpiryAt(j, k)
  BY <1>b DEF ExpiryAt
<1>2. \A j \in Timers : Awaited(j)' => Awaited(j)
  BY <1>1, <1>b, <1>c DEF Awaited
<1>3. \A j \in Timers : timer'[j].slot = timer[j].slot /\ timer'[j].repeat = timer[j].repeat
                        /\ (timer[j].os # "unused" => timer'[j].os # "unused")
  BY <1>c
<1>4. WrapKept'
  BY <1>2, <1>3, <1>a, <1>b DEF WrapKept
<1>5. WrapOwned'
  BY <1>3, <1>a, <1>b, <1>d, QueuedExpiry DEF WrapOwned
<1>6. HeardOnce'
  <2> SUFFICES ASSUME NEW j \in Timers, ~timer[j].repeat
               PROVE  /\ timer'[j].os = "armed" => handler'[j] = 0
                      /\ timer'[j].os = "armed" \/ handler'[j] # 0 => \A k \in DOMAIN mq.msgs : ~ExpiryAt(j, k)
                      /\ \A l, k \in DOMAIN mq.msgs : ExpiryAt(j, l) /\ ExpiryAt(j, k) => l = k
    BY <1>b, <1>1, <1>3 DEF HeardOnce
  <2>1. CASE j = i
    BY <1>a, <1>c, <2>1 DEF HeardOnce
  <2>2. CASE j # i
    BY <1>a, <1>c, <2>2 DEF HeardOnce
  <2> QED
    BY <2>1, <2>2
<1>7. CallbackAlone'
  <2>1. CASE js \in {"script", "linking"} /\ cur # NoSlot
    <3>1. heap[cur] # NoTimer /\ (~timer[heap[cur]].repeat => ~Awaited(heap[cur])) /\ cur \in Slots
      BY <1>a, <1>e, <2>1 DEF CallbackAlone
    <3>2. PICK j \in Timers : j = heap[cur]
      BY <1>d, <3>1
    <3>3. heap'[cur'] = j /\ j # NoTimer /\ (~timer'[j].repeat => ~Awaited(j)')
      BY <1>2, <1>3, <1>b, <3>1, <3>2
    <3> QED
      BY <3>3 DEF CallbackAlone, Awaited, ExpiryAt
  <2>2. CASE ~(js \in {"script", "linking"} /\ cur # NoSlot)
    BY <1>b, <2>2 DEF CallbackAlone
  <2> QED
    BY <2>1, <2>2
<1> QED
  BY <1>a, <1>b, <1>4, <1>5, <1>6, <1>7

\* The handler of a timer puts its expiry into the queue, or loses it.
LEMMA TimerSendTimers ==
  ASSUME TypeInv, TimersInv, NEW i \in Timers, TimerSend(i)
  PROVE  TimersInv'
<1> SUFFICES ASSUME ~app.clears PROVE js' # "cancel" /\ WrapKept' /\ WrapOwned' /\ HeardOnce' /\ CallbackAlone'
  BY DEF TimersInv, TimerSend
<1>a. js # "cancel" /\ WrapKept /\ WrapOwned /\ HeardOnce /\ CallbackAlone
  BY DEF TimersInv
<1>b. UNCHANGED <<heap, timer, js, cur>> /\ handler[i] # 0
  BY DEF TimerSend
<1>c. /\ handler'[i] = 0 /\ \A j \in Timers \ {i} : handler'[j] = handler[j]
      /\ timer[i].os # "unused" /\ timer[i].slot \in Slots
      /\ cur \in Slots \cup {NoSlot}
      /\ \A z \in Slots : heap[z] # NoTimer => heap[z] \in Timers
  BY DEF TimerSend, TypeInv, TypeOK
<1> DEFINE x == Expiry(i)
<1>d. x \in Message /\ x.type = "expiry" /\ x.of = i /\ x.slot = timer[i].slot
  BY <1>c DEF Expiry, Message
<1>e. amp_queue_send(handler[i], x) /\ mq \in MsgQueue /\ Len(mq.msgs) <= QMax
  BY DEF TimerSend, TypeInv, TypeOK
<1> HIDE DEF x
<1>f. \/ mq' = mq
      \/ /\ DOMAIN mq'.msgs = 1 .. Len(mq.msgs) + 1 /\ DOMAIN mq.msgs = 1 .. Len(mq.msgs)
         /\ Len(mq.msgs) \in Nat
         /\ \A k \in 1 .. Len(mq.msgs) : mq'.msgs[k] = mq.msgs[k]
         /\ mq'.msgs[Len(mq.msgs) + 1] = x
  BY <1>d, <1>e, QueueSend
<1>1. \A k \in DOMAIN mq'.msgs : \/ k \in DOMAIN mq.msgs /\ mq'.msgs[k] = mq.msgs[k]
                                 \/ k \notin DOMAIN mq.msgs /\ mq'.msgs[k] = x /\ k = Len(mq.msgs) + 1
  BY <1>f
<1>2. \A j \in Timers : \A k \in DOMAIN mq'.msgs :
         ExpiryAt(j, k)' => \/ k \in DOMAIN mq.msgs /\ ExpiryAt(j, k)
                            \/ j = i /\ k = Len(mq.msgs) + 1
  BY <1>1, <1>d DEF ExpiryAt
<1>3. \A j \in Timers : Awaited(j)' => Awaited(j)
  BY <1>2, <1>b, <1>c DEF Awaited
<1>4. WrapKept'
  BY <1>3, <1>a, <1>b DEF WrapKept
<1>5. WrapOwned'
  <2>1. ASSUME NEW k \in DOMAIN mq'.msgs, mq'.msgs[k].type = "expiry"
        PROVE  timer[mq'.msgs[k].of].slot = mq'.msgs[k].slot /\ timer[mq'.msgs[k].of].os # "unused"
    BY <1>1, <1>a, <1>c, <1>d, <2>1 DEF WrapOwned
  <2> QED
    BY <1>a, <1>b, <2>1 DEF WrapOwned
<1>6. HeardOnce'
  <2> SUFFICES ASSUME NEW j \in Timers, ~timer[j].repeat
               PROVE  /\ timer[j].os = "armed" => handler'[j] = 0
                      /\ timer[j].os = "armed" \/ handler'[j] # 0 => \A k \in DOMAIN mq'.msgs : ~ExpiryAt(j, k)'
                      /\ \A l, k \in DOMAIN mq'.msgs : ExpiryAt(j, l)' /\ ExpiryAt(j, k)' => l = k
    BY <1>b DEF HeardOnce
  <2>1. CASE j = i
    <3>1. timer[i].os # "armed" /\ \A k \in DOMAIN mq.msgs : ~ExpiryAt(i, k)
      BY <1>a, <1>b, <2>1 DEF HeardOnce
    <3> QED
      BY <1>2, <1>c, <2>1, <3>1
  <2>2. CASE j # i
    <3>1. \A k \in DOMAIN mq'.msgs : ExpiryAt(j, k)' => k \in DOMAIN mq.msgs /\ ExpiryAt(j, k)
      BY <1>2, <2>2
    <3>2. handler'[j] = handler[j]
      BY <1>c, <2>2
    <3> QED
      BY <1>a, <3>1, <3>2 DEF HeardOnce
  <2> QED
    BY <2>1, <2>2
<1>7. CallbackAlone'
  <2>1. CASE js \in {"script", "linking"} /\ cur # NoSlot
    <3>1. heap[cur] # NoTimer /\ (~timer[heap[cur]].repeat => ~Awaited(heap[cur])) /\ cur \in Slots
      BY <1>a, <1>c, <2>1 DEF CallbackAlone
    <3>2. PICK j \in Timers : j = heap[cur]
      BY <1>c, <3>1
    <3>3. heap'[cur'] = j /\ j # NoTimer /\ (~timer'[j].repeat => ~Awaited(j)')
      BY <1>3, <1>b, <3>1, <3>2
    <3> QED
      BY <3>3 DEF CallbackAlone, Awaited, ExpiryAt
  <2>2. CASE ~(js \in {"script", "linking"} /\ cur # NoSlot)
    BY <1>b, <2>2 DEF CallbackAlone
  <2> QED
    BY <2>1, <2>2
<1> QED
  BY <1>a, <1>b, <1>4, <1>5, <1>6, <1>7

\* timer_list_clear deletes timers, but frees no wrap.
LEMMA ClearNodeTimers ==
  ASSUME TypeInv, TimersInv, NEW u \in Updaters, ClearNode(u)
  PROVE  TimersInv'
<1> SUFFICES ASSUME ~app.clears PROVE js' # "cancel" /\ WrapKept' /\ WrapOwned' /\ HeardOnce' /\ CallbackAlone'
  BY DEF TimersInv, ClearNode
<1>a. js # "cancel" /\ WrapKept /\ WrapOwned /\ HeardOnce /\ CallbackAlone
  BY DEF TimersInv
<1>b. UNCHANGED <<mq, heap, handler, js, cur>>
  BY DEF ClearNode, senders
<1>c. \A j \in Timers : /\ timer'[j].slot = timer[j].slot
                        /\ timer'[j].repeat = timer[j].repeat
                        /\ timer'[j].os \in {timer[j].os, "deleted"}
  BY ClearNodeDef
<1>d. /\ \A z \in Slots : heap[z] # NoTimer => heap[z] \in Timers
      /\ cur \in Slots \cup {NoSlot}
  BY DEF TypeInv, TypeOK
<1>1. \A j, k : ExpiryAt(j, k)' <=> ExpiryAt(j, k)
  BY <1>b DEF ExpiryAt
<1>2. \A j \in Timers : Awaited(j)' => Awaited(j)
  BY <1>1, <1>b, <1>c DEF Awaited
<1>3. WrapKept'
  BY <1>2, <1>a, <1>b, <1>c DEF WrapKept
<1>4. WrapOwned'
  BY <1>a, <1>b, <1>c, <1>d, QueuedExpiry DEF WrapOwned
<1>5. HeardOnce'
  <2> SUFFICES ASSUME NEW j \in Timers, ~timer[j].repeat
               PROVE  /\ timer'[j].os = "armed" => handler[j] = 0
                      /\ timer'[j].os = "armed" \/ handler[j] # 0 => \A k \in DOMAIN mq.msgs : ~ExpiryAt(j, k)
                      /\ \A l, k \in DOMAIN mq.msgs : ExpiryAt(j, l) /\ ExpiryAt(j, k) => l = k
    BY <1>b, <1>1, <1>c DEF HeardOnce
  <2> QED
    BY <1>a, <1>c DEF HeardOnce
<1>6. CallbackAlone'
  <2>1. CASE js \in {"script", "linking"} /\ cur # NoSlot
    <3>1. heap[cur] # NoTimer /\ (~timer[heap[cur]].repeat => ~Awaited(heap[cur])) /\ cur \in Slots
      BY <1>a, <1>d, <2>1 DEF CallbackAlone
    <3>2. PICK j \in Timers : j = heap[cur]
      BY <1>d, <3>1
    <3>3. heap'[cur'] = j /\ j # NoTimer /\ (~timer'[j].repeat => ~Awaited(j)')
      BY <1>2, <1>b, <1>c, <3>1, <3>2
    <3> QED
      BY <3>3 DEF CallbackAlone, Awaited, ExpiryAt
  <2>2. CASE ~(js \in {"script", "linking"} /\ cur # NoSlot)
    BY <1>b, <2>2 DEF CallbackAlone
  <2> QED
    BY <2>1, <2>2
<1> QED
  BY <1>a, <1>b, <1>3, <1>4, <1>5, <1>6

LEMMA TimersStep == TypeInv /\ TimersInv /\ [Next]_vars => TimersInv'
<1> SUFFICES ASSUME TypeInv, TimersInv, [Next]_vars PROVE TimersInv'
  OBVIOUS
<1>a. mq \in MsgQueue /\ Len(mq.msgs) <= QMax
  BY DEF TypeInv, TypeOK
<1>1. CASE Boot \/ Deinit
  <2>1. DOMAIN mq'.msgs = {}
    BY <1>1, EmptyQueue DEF Boot, Deinit
  <2>2. UNCHANGED <<app, heap, timer, handler>> /\ (js' = "script" => cur' = NoSlot) /\ js' \in {"script", "down"}
    BY <1>1 DEF Boot, Deinit, senders
  <2> QED
    BY <2>1, <2>2, TimersFrame
<1>2. CASE ClearTimer \/ (\E s \in Slots : UnlinkTimer(s))
  <2>1. app.clears \/ js = "cancel"
    BY <1>2 DEF ClearTimer, UnlinkTimer, Runs
  <2>2. app' = app
    BY <1>2 DEF ClearTimer, UnlinkTimer
  <2> QED
    BY <2>1, <2>2 DEF TimersInv
<1>6. CASE LinkTimer
  <2>1. UNCHANGED <<app, mq, heap, timer, handler, cur>> /\ js = "linking" /\ js' = "script"
    BY <1>6 DEF LinkTimer, Runs, senders
  <2> QED
    BY <2>1, TimersFrame
<1>3. ASSUME NEW d \in Drivers, ScheduleCall(d) \/ DriverSend(d) PROVE TimersInv'
  <2>1. UNCHANGED <<app, heap, timer, handler, js, cur>>
    BY <1>3 DEF ScheduleCall, DriverSend
  <2>2. \A k \in DOMAIN mq'.msgs : mq'.msgs[k].type = "expiry" => k \in DOMAIN mq.msgs /\ mq'.msgs[k] = mq.msgs[k]
    <3>1. CASE ScheduleCall(d)
      BY <3>1 DEF ScheduleCall
    <3>2. CASE DriverSend(d)
      <4>1. Call \in Message /\ Call.type # "expiry"
        BY DEF Call, Message
      <4>2. \/ mq' = mq
            \/ /\ DOMAIN mq'.msgs = 1 .. Len(mq.msgs) + 1 /\ DOMAIN mq.msgs = 1 .. Len(mq.msgs)
               /\ Len(mq.msgs) \in Nat
               /\ \A k \in 1 .. Len(mq.msgs) : mq'.msgs[k] = mq.msgs[k]
               /\ mq'.msgs[Len(mq.msgs) + 1] = Call
        BY <1>a, <3>2, <4>1, QueueSend DEF DriverSend
      <4> QED
        BY <4>1, <4>2
    <3> QED
      BY <1>3, <3>1, <3>2
  <2> QED
    BY <2>1, <2>2, TimersFrame
<1>4. ASSUME NEW u \in Updaters, UpdaterStep(u), ~ClearNode(u) PROVE TimersInv'
  <2>1. UNCHANGED <<app, heap, timer, handler, cur>> /\ js' \in {js, "boot", "dead"}
    BY <1>4 DEF UpdaterStep, Upgrade, TestUpdateDone, CreateDownload, Downloaded, ExitCall, EngineGone, Restart, senders
  <2>2. \A k \in DOMAIN mq'.msgs : mq'.msgs[k].type = "expiry" => k \in DOMAIN mq.msgs /\ mq'.msgs[k] = mq.msgs[k]
    <3>1. CASE ~ExitCall(u)
      BY <1>4, <3>1 DEF UpdaterStep, Upgrade, TestUpdateDone, CreateDownload, Downloaded, EngineGone, Restart
    <3>2. CASE ExitCall(u)
      <4>1. Exit \in Message /\ Exit.type # "expiry"
        BY DEF Exit, Message
      <4>2. \/ mq' = mq
            \/ /\ DOMAIN mq'.msgs = 1 .. Len(mq.msgs) + 1 /\ DOMAIN mq.msgs = 1 .. Len(mq.msgs)
               /\ Len(mq.msgs) \in Nat
               /\ \A k \in 1 .. Len(mq.msgs) : mq'.msgs[k] = mq.msgs[k]
               /\ mq'.msgs[Len(mq.msgs) + 1] = Exit
        BY <1>a, <3>2, <4>1, QueueSend DEF ExitCall
      <4> QED
        BY <4>1, <4>2
    <3> QED
      BY <3>1, <3>2
  <2> QED
    BY <2>1, <2>2, TimersFrame
<1>5. CASE UNCHANGED vars
  BY <1>5, TimersFrame DEF vars, senders
<1> QED
  BY <1>1, <1>2, <1>3, <1>4, <1>5, <1>6, YieldTimers, ScriptEndTimers, SetTimerTimers, ExpireTimers,
     TimerSendTimers, ClearNodeTimers, Zenon DEF Next, UpdaterStep

\* As long as scripts clear no timer, timer_action always finds the wrap that
\* setTimeout or setInterval left for it: never freed memory, never another
\* timer's, through expiries under way, full queues and restarts of the engine.
THEOREM UnclearedTimersAreSound == Spec => []UnclearedTimersSound
<1>1. TypeInv /\ TimersInv => UnclearedTimersSound
  <2> SUFFICES ASSUME TypeInv, TimersInv, ~app.clears PROVE LiveTimersKept /\ ExpiryFindsItsTimer
    BY DEF UnclearedTimersSound
  <2>1. WrapKept /\ WrapOwned
    BY DEF TimersInv
  <2>2. LiveTimersKept
    BY <2>1 DEF LiveTimersKept, WrapKept, Awaited
  <2>3. DOMAIN mq.msgs = 1 .. Len(mq.msgs)
    BY LenProperties DEF TypeInv, TypeOK, MsgQueue
  <2>4. ASSUME NEW k \in DOMAIN mq.msgs, mq.msgs[k].type = "expiry" PROVE heap[mq.msgs[k].slot] = mq.msgs[k].of
    <3>1. PICK i \in Timers : i = mq.msgs[k].of
      BY <2>4, QueuedExpiry
    <3>2. Awaited(i) /\ timer[i].slot = mq.msgs[k].slot
      BY <2>1, <2>4, <3>1 DEF Awaited, ExpiryAt, WrapOwned
    <3> QED
      BY <2>1, <3>1, <3>2 DEF WrapKept
  <2> QED
    BY <2>2, <2>3, <2>4 DEF ExpiryFindsItsTimer
<1> QED
  BY <1>1, TypeInit, TypeStep, EngineInit, EngineStep, TimersInit, TimersStep, PTL DEF Spec
=============================================================================
