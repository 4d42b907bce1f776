------------------------------ MODULE AmpTask ------------------------------
(***************************************************************************)
(* The task that runs the JavaScript engine (main/amp_task.c and           *)
(* amp_task_main of main/amp_engine.c), the timers of JavaScript           *)
(* (addons/utils/systimer/module_systimer.c) and the application update    *)
(* that stops and restarts the engine (services/app_mgr/app_mgr.c).        *)
(*                                                                         *)
(* The engine task takes callbacks from one bounded queue.  Driver         *)
(* threads and the timer service put them there; an update thread asks     *)
(* the engine to exit through the same queue and waits on a semaphore.     *)
(***************************************************************************)
EXTENDS Naturals, Sequences, FiniteSets, SequencesExt

CONSTANTS
    Slots,        \* the memory blocks malloc hands out for a timer_wrap_t
    MaxTimers,    \* bound: how many timers scripts create in all
    Drivers,      \* threads that call amp_task_schedule_call
    Updaters,     \* update requests, each with its download_work thread
    QMax,         \* AMP_MSGQ_MAX_NUM
    MaxEngines,   \* bound: how many times the engine is started
    Apps          \* what the application and its cloud may do: see app

ASSUME TaskAssumption ==
    /\ MaxTimers \in Nat /\ QMax \in Nat \ {0} /\ MaxEngines \in Nat
    /\ "none" \notin Slots
    /\ Apps \subseteq [updaters : SUBSET Updaters, drivers : SUBSET Drivers,
                       slots : SUBSET Slots, timers : Nat, clears : BOOLEAN]

Timers == 1 .. MaxTimers
NoTimer == 0
NoSlot == "none"

VARIABLES
    app,     \* who asks for updates, which drivers call back, how much memory
             \* is left for wraps, how many timers the scripts set and whether
             \* they clear any; never changes
    mq,      \* amp_task_mq: whether the handle is not NULL, and what is queued
    engine,  \* how many times amp_task_init has created the queue
    js,      \* where the engine task is
    cur,     \* the timer_wrap_t whose timer_action runs the script, or NoSlot
    busy,    \* the timer the script is setting or clearing, or NoTimer
    heap,    \* per slot the timer whose live wrap it holds, or NoTimer
    timer,   \* per timer its handle: OS state, slot, repeat, engine
    link,    \* g_timer_list, in the order of the timers
    walk,    \* per update request the nodes its timer_list_clear has yet to visit
    torn,    \* two threads met in the list, or freed memory was followed
    handler, \* per timer the engine whose queue its running handler has read, 0 if none
    driver,  \* the same for the driver threads
    updater, \* per update request <<where it is, the queue it has read>>
    update_done,
    exitSem, \* jse_task_exit_sem
    faults   \* history: what has been freed twice

list == <<link, walk, torn>>
senders == <<handler, driver>>
update == <<updater, update_done, exitSem>>
vars == <<app, mq, engine, js, cur, busy, heap, timer, list, senders, update, faults>>

(* A queued message: a driver's callback, the expiry of a timer, or the    *)
(* request to exit.  The field of is history: the timer that expired.      *)
Call == [type |-> "call"]
Exit == [type |-> "exit"]
Expiry(i) == [type |-> "expiry", slot |-> timer[i].slot, of |-> i]
Message == {Call, Exit} \cup [type : {"expiry"}, slot : Slots, of : Timers]

MsgQueue == [up : BOOLEAN, msgs : Seq(Message)]

OsTimer == [os : {"unused", "armed", "fired", "failed", "deleted"},
            slot : Slots \cup {NoSlot}, repeat : BOOLEAN, engine : 0 .. MaxEngines]

Unused == [os |-> "unused", slot |-> NoSlot, repeat |-> FALSE, engine |-> 0]

EngineAt == {"boot", "script", "linking", "cancel", "yield", "exit", "down", "dead"}
UpdaterAt == {"idle", "clear", "claim", "download", "tested", "wait", "restart"}

TypeOK ==
    /\ app \in Apps
    /\ mq \in MsgQueue /\ Len(mq.msgs) <= QMax
    /\ engine \in 0 .. MaxEngines /\ js \in EngineAt
    /\ cur \in Slots \cup {NoSlot} /\ busy \in Timers \cup {NoTimer}
    /\ heap \in [Slots -> Timers \cup {NoTimer}]
    /\ timer \in [Timers -> OsTimer]
    /\ link \subseteq Timers /\ walk \in [Updaters -> SUBSET Timers] /\ torn \in BOOLEAN
    /\ handler \in [Timers -> 0 .. MaxEngines]
    /\ driver \in [Drivers -> 0 .. MaxEngines]
    /\ updater \in [Updaters -> UpdaterAt \X (0 .. MaxEngines)] /\ update_done \in BOOLEAN
    /\ exitSem \in Nat
    /\ faults \subseteq {"wrap", "timer"}

Init ==
    /\ app \in Apps
    /\ mq = [up |-> FALSE, msgs |-> <<>>] /\ engine = 0
    /\ js = "boot" /\ cur = NoSlot /\ busy = NoTimer
    /\ heap = [s \in Slots |-> NoTimer]
    /\ timer = [i \in Timers |-> Unused]
    /\ link = {} /\ walk = [u \in Updaters |-> {}] /\ torn = FALSE
    /\ handler = [i \in Timers |-> 0] /\ driver = [d \in Drivers |-> 0]
    /\ updater = [u \in Updaters |-> <<"idle", 0>>] /\ update_done = TRUE
    /\ exitSem = 0 /\ faults = {}

-----------------------------------------------------------------------------
(* Where a thread is.  Once the list is torn the memory of the program is  *)
(* no longer what the model says, and the model stops.                     *)
Runs(at) == ~torn /\ js = at
Is(u, at) == ~torn /\ updater[u][1] = at

(* The queue of the adapter.  q is the engine whose queue the caller read  *)
(* from amp_task_mq before the call.  With a handle that has been deleted  *)
(* meanwhile the call fails, or reaches the next queue when that one got   *)
(* the same handle.  At a full queue the call waits for room (Linux: the   *)
(* step is not taken) or fails (haas100).                                  *)
AcceptAnyway(m) ==         \* seeded fault: the queue has no bound
    mq' = [mq EXCEPT !.msgs = Append(@, m)]

Accept(m) == Len(mq.msgs) < QMax /\ mq' = [mq EXCEPT !.msgs = Append(@, m)]

amp_queue_send(q, m) ==
    LET valid == mq.up /\ q = engine
    IN  \/ valid /\ Accept(m)
        \/ valid /\ Len(mq.msgs) = QMax /\ UNCHANGED mq
        \/ ~valid /\ UNCHANGED mq
        \/ ~valid /\ mq.up /\ Accept(m)

-----------------------------------------------------------------------------
(* The engine task                                                         *)

(* amp_task_main up to the application script, which runs as a callback    *)
(* does.                                                                   *)
Boot ==
    /\ Runs("boot") /\ engine < MaxEngines
    /\ mq' = [up |-> TRUE, msgs |-> <<>>] /\ engine' = engine + 1
    /\ js' = "script" /\ cur' = NoSlot
    /\ UNCHANGED <<app, busy, heap, timer, list, senders, update, faults>>

YieldPeeks ==             \* seeded fault: the message stays in the queue
    /\ Runs("yield") /\ mq.msgs # <<>>
    /\ UNCHANGED mq
    /\ LET m == Head(mq.msgs)
       IN  \/ /\ m.type = "exit"
              /\ js' = "exit" /\ UNCHANGED <<cur>>
           \/ /\ m.type = "call"
              /\ js' = "script" /\ cur' = NoSlot
           \/ /\ m.type = "expiry" /\ heap[m.slot] = NoTimer
              /\ UNCHANGED <<js, cur>>
           \/ /\ m.type = "expiry" /\ heap[m.slot] # NoTimer
              /\ js' = "script" /\ cur' = m.slot
    /\ UNCHANGED <<app, engine, busy, heap, timer, list, senders, update, faults>>

(* amp_task_yield takes one message.  timer_action looks at the magic of   *)
(* its argument: memory that has been freed and not handed out again does  *)
(* not hold it.                                                            *)
Yield ==
    /\ Runs("yield") /\ mq.msgs # <<>>
    /\ mq' = [mq EXCEPT !.msgs = Tail(@)]
    /\ LET m == Head(mq.msgs)
       IN  \/ /\ m.type = "exit"
              /\ js' = "exit" /\ UNCHANGED <<cur>>
           \/ /\ m.type = "call"
              /\ js' = "script" /\ cur' = NoSlot
           \/ /\ m.type = "expiry" /\ heap[m.slot] = NoTimer
              /\ UNCHANGED <<js, cur>>
           \/ /\ m.type = "expiry" /\ heap[m.slot] # NoTimer
              /\ js' = "script" /\ cur' = m.slot
    /\ UNCHANGED <<app, engine, busy, heap, timer, list, senders, update, faults>>

(* g_timer_list has no lock.  A walker that removes node after node holds  *)
(* pointers to the node it is at and to the next one; a script that adds   *)
(* or removes a node meanwhile may leave pointers that no longer agree.    *)
Walkers == {u \in Updaters : walk[u] # {}}
Held(u) == {i \in walk[u] : Cardinality({j \in walk[u] : j < i}) < 2}

(* An access of the list makes it l, or tears it, and then it may hold     *)
(* anything: it must when a walker is left with a pointer to freed memory, *)
(* it may when another thread is inside or freed memory is read.           *)
Access(l, must, risk) ==
    \/ ~must /\ torn' = FALSE /\ link' = l
    \/ (must \/ risk) /\ torn' = TRUE /\ link' \in SUBSET Timers

(* setTimeout, setInterval up to amp_timer_start: it may fail, the wrap is *)
(* kept all the same.  A started timer is not in the list yet.             *)
SetTimer(s, repeat) ==
    /\ Runs("script") /\ s \in app.slots /\ heap[s] = NoTimer
    /\ \E i \in Timers :
        /\ i <= app.timers
        /\ timer[i].os = "unused" /\ \A j \in 1 .. i - 1 : timer[j].os # "unused"
        /\ heap' = [heap EXCEPT ![s] = i]
        /\ \E os \in {"armed", "failed"} :
            /\ timer' = [timer EXCEPT ![i] = [os |-> os, slot |-> s, repeat |-> repeat,
                                              engine |-> engine]]
            /\ \/ os = "armed" /\ js' = "linking" /\ busy' = i
               \/ os = "failed" /\ UNCHANGED <<js, busy>>
    /\ UNCHANGED <<app, mq, engine, cur, list, senders, update, faults>>

(* The end of amp_task_timer_action: dlist_add_tail.  A walk that has      *)
(* already read the end of the list does not see the new node.             *)
LinkTimer ==
    /\ Runs("linking")
    /\ walk' = [u \in Updaters |-> IF Cardinality(walk[u]) > 1
                                   THEN walk[u] \cup {busy} ELSE walk[u]]
    /\ Access(link \cup {busy}, FALSE, Walkers # {})
    /\ js' = "script" /\ busy' = NoTimer
    /\ UNCHANGED <<app, mq, engine, cur, heap, timer, senders, update, faults>>

UnlinkTimerNot(s) ==       \* seeded fault: the node stays in the list
    /\ app.clears /\ Runs("script")
    /\ heap[s] # NoTimer /\ timer[heap[s]].engine = engine
    /\ js' = "cancel" /\ busy' = heap[s]
    /\ UNCHANGED <<app, mq, engine, cur, heap, timer, list, senders, update, faults>>

(* clearTimeout, clearInterval with a handle the script has got from       *)
(* setTimeout or setInterval: clear_timer, and the loop of                 *)
(* amp_task_cancel_timer.  After the node has been freed the loop reads    *)
(* its next pointer.                                                       *)
UnlinkTimer(s) ==
    /\ app.clears /\ Runs("script")
    /\ heap[s] # NoTimer /\ timer[heap[s]].engine = engine
    /\ LET i == heap[s]
       IN  /\ js' = "cancel" /\ busy' = i
           /\ walk' = [u \in Updaters |-> walk[u] \ {i}]
           /\ Access(link \ {i}, \E u \in Updaters : i \in Held(u),
                     timer[i].os # "failed" /\ (Walkers # {} \/ i \in link))
    /\ UNCHANGED <<app, mq, engine, cur, heap, timer, senders, update, faults>>

(* The rest of amp_task_cancel_timer and of clear_timer.                   *)
ClearTimer ==
    /\ Runs("cancel")
    /\ timer' = [timer EXCEPT ![busy].os = IF @ = "failed" THEN @ ELSE "deleted"]
    /\ faults' = IF timer[busy].os = "deleted" THEN faults \cup {"timer"} ELSE faults
    /\ heap' = [heap EXCEPT ![timer[busy].slot] = NoTimer]
    /\ js' = "script" /\ busy' = NoTimer
    /\ UNCHANGED <<app, mq, engine, cur, list, senders, update>>

ScriptEndFreesAll ==       \* seeded fault: repeat is not looked at
    /\ Runs("script")
    /\ js' = "yield" /\ cur' = NoSlot
    /\ \/ cur = NoSlot /\ UNCHANGED <<heap, faults>>
       \/ /\ cur # NoSlot /\ heap[cur] # NoTimer
          /\ heap' = [heap EXCEPT ![cur] = NoTimer]
          /\ UNCHANGED faults
       \/ /\ cur # NoSlot /\ heap[cur] = NoTimer
          /\ faults' \in {faults, faults \cup {"wrap"}} /\ UNCHANGED heap
    /\ UNCHANGED <<app, mq, engine, busy, timer, list, senders, update>>

(* The callback returns.  timer_action then reads repeat and frees the     *)
(* wrap of a one-shot timer.  When the script has cleared the timer in its *)
(* own callback, repeat is read from freed memory and may have any value.  *)
ScriptEnd ==
    /\ Runs("script")
    /\ js' = "yield" /\ cur' = NoSlot
    /\ \/ cur = NoSlot /\ UNCHANGED <<heap, faults>>
       \/ /\ cur # NoSlot /\ heap[cur] # NoTimer
          /\ heap' = IF timer[heap[cur]].repeat THEN heap ELSE [heap EXCEPT ![cur] = NoTimer]
          /\ UNCHANGED faults
       \/ /\ cur # NoSlot /\ heap[cur] = NoTimer
          /\ faults' \in {faults, faults \cup {"wrap"}} /\ UNCHANGED heap
    /\ UNCHANGED <<app, mq, engine, busy, timer, list, senders, update>>

DeinitSilent ==            \* seeded fault: the semaphore is not posted
    /\ Runs("exit")
    /\ mq' = [up |-> FALSE, msgs |-> <<>>]
    /\ js' = "down" /\ exitSem' = exitSem
    /\ UNCHANGED <<app, engine, cur, busy, heap, timer, list, senders, updater, update_done, faults>>

(* The end of amp_task_main: amp_task_deinit, then the semaphore.          *)
Deinit ==
    /\ Runs("exit")
    /\ mq' = [up |-> FALSE, msgs |-> <<>>]
    /\ js' = "down" /\ exitSem' = exitSem + 1
    /\ UNCHANGED <<app, engine, cur, busy, heap, timer, list, senders, updater, update_done, faults>>

-----------------------------------------------------------------------------
(* The timer service: the handler tests amp_task_mq, then sends.           *)
Expire(i) ==
    /\ ~torn /\ timer[i].os = "armed" /\ handler[i] = 0
    /\ timer' = [timer EXCEPT ![i].os = IF timer[i].repeat THEN "armed" ELSE "fired"]
    /\ handler' = [handler EXCEPT ![i] = IF mq.up THEN engine ELSE 0]
    /\ UNCHANGED <<app, mq, engine, js, cur, busy, heap, list, driver, update, faults>>

TimerSend(i) ==
    /\ ~torn /\ handler[i] # 0
    /\ amp_queue_send(handler[i], Expiry(i))
    /\ handler' = [handler EXCEPT ![i] = 0]
    /\ UNCHANGED <<app, engine, js, cur, busy, heap, timer, list, driver, update, faults>>

(* amp_task_schedule_call                                                  *)
ScheduleCall(d) ==
    /\ ~torn /\ d \in app.drivers /\ driver[d] = 0 /\ mq.up
    /\ driver' = [driver EXCEPT ![d] = engine]
    /\ UNCHANGED <<app, mq, engine, js, cur, busy, heap, timer, list, handler, update, faults>>

DriverSend(d) ==
    /\ ~torn /\ driver[d] # 0
    /\ amp_queue_send(driver[d], Call)
    /\ driver' = [driver EXCEPT ![d] = 0]
    /\ UNCHANGED <<app, engine, js, cur, busy, heap, timer, list, handler, update, faults>>

-----------------------------------------------------------------------------
(* apppack_upgrade, in the thread that asks for the update: timer_list_clear *)
(* first, even when another download is in progress.                       *)
Upgrade(u) ==
    /\ u \in app.updaters /\ Is(u, "idle") /\ engine < MaxEngines
    /\ updater' = [updater EXCEPT ![u] = <<"clear", 0>>]
    /\ walk' = [walk EXCEPT ![u] = link]
    /\ UNCHANGED <<app, mq, engine, js, cur, busy, heap, timer, link, torn, senders,
                   update_done, exitSem, faults>>

(* One node of the walk: the timer is stopped and deleted, the node freed. *)
ClearNode(u) ==
    /\ Is(u, "clear")
    /\ \E i \in walk[u] :
        /\ \A j \in walk[u] : i <= j
        /\ timer' = [timer EXCEPT ![i].os = "deleted"]
        /\ walk' = [v \in Updaters |-> walk[v] \ {i}]
        /\ Access(link \ {i}, \E v \in Updaters \ {u} : i \in Held(v), Walkers # {u})
    /\ UNCHANGED <<app, mq, engine, js, cur, busy, heap, senders, update, faults>>

(* The test of update_done, which no lock keeps together with what follows. *)
TestUpdateDone(u) ==
    /\ Is(u, "clear") /\ walk[u] = {}
    /\ updater' = [updater EXCEPT ![u] = <<IF update_done THEN "claim" ELSE "idle", 0>>]
    /\ UNCHANGED <<app, mq, engine, js, cur, busy, heap, timer, list, senders,
                   update_done, exitSem, faults>>

(* The creation of the download_work thread may fail.                      *)
CreateDownload(u) ==
    /\ Is(u, "claim")
    /\ \/ update_done' = FALSE /\ updater' = [updater EXCEPT ![u] = <<"download", 0>>]
       \/ update_done' = TRUE /\ updater' = [updater EXCEPT ![u] = <<"idle", 0>>]
    /\ UNCHANGED <<app, mq, engine, js, cur, busy, heap, timer, list, senders, exitSem, faults>>

(* download_work: when the download ends, well or not, the engine has to   *)
(* exit.  amp_task_exit_call returns at once when there is no queue; its   *)
(* result is ignored.                                                      *)
Downloaded(u) ==
    /\ Is(u, "download")
    /\ update_done' = TRUE
    /\ updater' = [updater EXCEPT ![u] = IF mq.up THEN <<"tested", engine>> ELSE <<"wait", 0>>]
    /\ UNCHANGED <<app, mq, engine, js, cur, busy, heap, timer, list, senders, exitSem, faults>>

ExitCall(u) ==
    /\ Is(u, "tested")
    /\ amp_queue_send(updater[u][2], Exit)
    /\ updater' = [updater EXCEPT ![u] = <<"wait", 0>>]
    /\ UNCHANGED <<app, engine, js, cur, busy, heap, timer, list, senders, update_done,
                   exitSem, faults>>

EngineGoneTimed(u) ==      \* seeded fault: the wait may time out
    /\ Is(u, "wait")
    /\ exitSem' = IF exitSem > 0 THEN exitSem - 1 ELSE 0
    /\ updater' = [updater EXCEPT ![u] = <<"restart", 0>>]
    /\ UNCHANGED <<app, mq, engine, js, cur, busy, heap, timer, list, senders, update_done, faults>>

EngineGone(u) ==
    /\ Is(u, "wait") /\ exitSem > 0
    /\ exitSem' = exitSem - 1
    /\ updater' = [updater EXCEPT ![u] = <<"restart", 0>>]
    /\ UNCHANGED <<app, mq, engine, js, cur, busy, heap, timer, list, senders, update_done, faults>>

(* The new thread runs amp_task_main, unless its creation fails.           *)
Restart(u) ==
    /\ Is(u, "restart")
    /\ js' \in {"boot", "dead"}
    /\ updater' = [updater EXCEPT ![u] = <<"idle", 0>>]
    /\ UNCHANGED <<app, mq, engine, cur, busy, heap, timer, list, senders, update_done,
                   exitSem, faults>>

-----------------------------------------------------------------------------
Next ==
    \/ Boot \/ Yield \/ ScriptEnd \/ Deinit
    \/ \E s \in Slots : \E repeat \in BOOLEAN : SetTimer(s, repeat)
    \/ LinkTimer
    \/ \E s \in Slots : UnlinkTimer(s)
    \/ ClearTimer
    \/ \E i \in Timers : Expire(i) \/ TimerSend(i)
    \/ \E d \in Drivers : ScheduleCall(d) \/ DriverSend(d)
    \/ \E u \in Updaters :
         \/ Upgrade(u) \/ ClearNode(u) \/ TestUpdateDone(u) \/ CreateDownload(u)
         \/ Downloaded(u) \/ ExitCall(u) \/ EngineGone(u) \/ Restart(u)

Spec == Init /\ [][Next]_vars

(* Threads that can run do run, scripts end, and a sender blocked on a     *)
(* full queue is served in turn.                                           *)
FairSpec ==
    /\ Spec
    /\ WF_vars(Boot) /\ WF_vars(Yield)
    /\ WF_vars(LinkTimer) /\ WF_vars(ClearTimer)
    /\ WF_vars(ScriptEnd) /\ WF_vars(Deinit)
    /\ \A u \in Updaters : /\ WF_vars(Downloaded(u)) /\ SF_vars(ExitCall(u))
                           /\ WF_vars(EngineGone(u)) /\ WF_vars(Restart(u))

-----------------------------------------------------------------------------
(* There is never a second engine task: a token of the exit semaphore, or  *)
(* a thread about to restart the engine, means that the last one is gone   *)
(* and that nobody else restarts it.                                       *)
OneEngineTask ==
    LET restarting == {u \in Updaters : updater[u][1] = "restart"}
    IN  /\ exitSem + Cardinality(restarting) <= 1
        /\ exitSem + Cardinality(restarting) = 1 => js = "down" /\ ~mq.up

(* The wrap of a timer that can still expire, or whose handler is about to *)
(* send, is not freed under it.                                            *)
LiveTimersKept ==
    \A i \in Timers : timer[i].os = "armed" \/ handler[i] # 0 => heap[timer[i].slot] = i

(* A queued expiry finds its own timer, or memory that timer_action sees   *)
(* has been cleared; never a wrap that another timer has got since.        *)
ExpiryFindsItsTimer ==
    \A k \in 1 .. Len(mq.msgs) :
        LET m == mq.msgs[k]
        IN  m.type = "expiry" => heap[m.slot] \in {NoTimer, m.of}

(* The timers of an application that clears none are sound: whenever       *)
(* timer_action runs it finds what setTimeout or setInterval left for it.  *)
UnclearedTimersSound == ~app.clears => LiveTimersKept /\ ExpiryFindsItsTimer

(* A timer may be cleared at any time: timer_action sees that it has been  *)
(* cleared, it is not taken for another one, and nothing is freed twice.   *)
ClearedTimersSeen == ExpiryFindsItsTimer /\ faults = {}

(* As long as nobody has met anybody else in g_timer_list, it holds the    *)
(* timers that exist, but for the one that the script is just setting or   *)
(* clearing: that one is all timer_list_clear can miss, and it deletes     *)
(* none twice, however walks, scripts and expiries alternate.              *)
ListExact ==
    ~torn => link = {i \in Timers : timer[i].os \in {"armed", "fired"}} \ {busy}

(* A request to exit that is in the queue ends the engine, some update     *)
(* thread wakes up, and it restarts the engine or fails to create its task; *)
(* unless the list is torn first.  (A request that finds the queue full    *)
(* and is dropped is not in the queue: the engine then simply goes on.)    *)
AcceptedExitRestarts == Contains(mq.msgs, Exit) ~> (js \in {"boot", "dead"} \/ torn)

(* The expiry of a one-shot timer that is in the queue is taken from it,   *)
(* unless the list is torn first.                                          *)
ExpiryServed ==
    \A i \in Timers :
        (~timer[i].repeat /\ Contains(mq.msgs, Expiry(i))) ~> (~Contains(mq.msgs, Expiry(i)) \/ torn)
=============================================================================
