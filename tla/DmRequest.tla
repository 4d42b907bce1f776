----------------------------- MODULE DmRequest -----------------------------
(***************************************************************************)
(* A request of the linkkit device model and its answer                    *)
(* (components/linkkit/dev_model): threads that report, the cache of       *)
(* requests that wait for an answer, and the thread that yields, which     *)
(* reads the answers, times requests out and dispatches the events to the  *)
(* application from a bounded queue.                                       *)
(*                                                                         *)
(* What is done under the mutex of the cache or of the queue is one step,  *)
(* but for dm_msg_cache_tick, which holds that of the cache for its loop   *)
(* (ypc = "fade") and takes that of the queue for every node it times out. *)
(* dm_msg_cache_insert looks at dmc_list_size before it takes the mutex.   *)
(* IOT_Linkkit_Report holds the linkkit mutex, and iotx_dm_post_property   *)
(* that of dm_api.c, from the first step to the last: they are one lock.   *)
(***************************************************************************)
EXTENDS Naturals, Sequences, FiniteSets, SequencesExt

CONSTANTS
    Callers,     \* threads that call IOT_Linkkit_Report or IOT_Linkkit_TriggerEvent
    NoOne,       \* the lock is free
    CacheMax,    \* CONFIG_MSGCACHE_QUEUE_MAXLEN
    QueueMax,    \* CONFIG_DISPATCH_QUEUE_MAXLEN
    MaxId        \* bound: how many requests are made

ASSUME DmAssumption ==
    /\ NoOne \notin Callers
    /\ CacheMax \in Nat \ {0} /\ QueueMax \in Nat \ {0} /\ MaxId \in Nat

Ids == 1 .. MaxId

\* A message of the queue that answers no request: a service call, a property
\* set, an answer of another kind.
Down == 0

VARIABLES
    lock,      \* who holds the linkkit mutex
    pc, msgid, \* where each caller is, and request.msgid
    report_id, \* g_report_id
    dmc_list,  \* the cached nodes: msgid, and whether their time is over
    dmc_size,  \* dmc_list_size
    msg_list,  \* the messages of dm_ipc.c, by the request they answer
    ypc, yid,  \* where the yielding thread is, and the id of the answer it has
    count,     \* messages dispatched by this iotx_dm_dispatch
    cloud,     \* requests the cloud has got and may answer
    got,       \* history: events the application has had for each request
    lost,      \* history: requests whose event found no room or no memory
    failed     \* history: requests whose caller was told of a failure

caller == <<lock, pc, msgid, report_id>>
cache  == <<dmc_list, dmc_size>>
yield  == <<ypc, yid, count>>
vars   == <<caller, cache, yield, msg_list, cloud, got, lost, failed>>

Init ==
    /\ lock = NoOne /\ pc = [c \in Callers |-> "idle"] /\ msgid = [c \in Callers |-> 0]
    /\ report_id = 0
    /\ dmc_list = <<>> /\ dmc_size = 0 /\ msg_list = <<>>
    /\ ypc = "read" /\ yid = 0 /\ count = 0 /\ cloud = {}
    /\ got = [i \in Ids |-> 0] /\ lost = {} /\ failed = {}

CacheNode == [id : Ids, old : BOOLEAN]

Cached == {dmc_list[n].id : n \in DOMAIN dmc_list}

\* Whether the mutex of the cache is free for a caller.
CacheFree == ypc # "fade"
------------------------------------------------------------------------------
(* The calling threads. *)

\* Seeded fault: the request is made without the linkkit mutex.
ReportUnlocked(c) ==
    /\ pc[c] = "idle" /\ report_id < MaxId
    /\ lock' = c
    /\ report_id' = report_id + 1
    /\ msgid' = [msgid EXCEPT ![c] = report_id + 1]
    /\ \E next \in {"check", "send"} : pc' = [pc EXCEPT ![c] = next]
    /\ UNCHANGED <<cache, yield, msg_list, cloud, got, lost, failed>>

\* The request takes the next id.  It is cached, unless the application has
\* not asked for answers to this kind of request.
Report(c) ==
    /\ pc[c] = "idle" /\ lock = NoOne /\ report_id < MaxId
    /\ lock' = c
    /\ report_id' = report_id + 1
    /\ msgid' = [msgid EXCEPT ![c] = report_id + 1]
    /\ \E next \in {"check", "send"} : pc' = [pc EXCEPT ![c] = next]
    /\ UNCHANGED <<cache, yield, msg_list, cloud, got, lost, failed>>

\* The test of dm_msg_cache_insert, and the allocation.  That the request was
\* not cached is not told to anyone: it is sent all the same.
CheckRoom(c) ==
    /\ pc[c] = "check"
    /\ \/ dmc_size < CacheMax /\ pc' = [pc EXCEPT ![c] = "insert"]
       \/ pc' = [pc EXCEPT ![c] = "send"]
    /\ UNCHANGED <<lock, msgid, report_id, cache, yield, msg_list, cloud, got, lost, failed>>

Insert(c) ==
    /\ pc[c] = "insert" /\ CacheFree
    /\ dmc_list' = Append(dmc_list, [id |-> msgid[c], old |-> FALSE])
    /\ dmc_size' = dmc_size + 1
    /\ pc' = [pc EXCEPT ![c] = "send"]
    /\ UNCHANGED <<lock, msgid, report_id, yield, msg_list, cloud, got, lost, failed>>

Return(c) ==
    /\ pc' = [pc EXCEPT ![c] = "idle"] /\ msgid' = [msgid EXCEPT ![c] = 0]
    /\ lock' = NoOne
    /\ UNCHANGED report_id

SendOk(c) ==
    /\ pc[c] = "send"
    /\ cloud' = cloud \cup {msgid[c]}
    /\ Return(c)
    /\ UNCHANGED <<cache, yield, msg_list, got, lost, failed>>

\* A publish may fail after its data has left.
SendFails(c) ==
    /\ pc[c] = "send"
    /\ cloud' \in {cloud, cloud \cup {msgid[c]}}
    /\ pc' = [pc EXCEPT ![c] = "undo"]
    /\ UNCHANGED <<lock, msgid, report_id, cache, yield, msg_list, got, lost, failed>>

\* Seeded fault: the node stays in the list.
RemoveNothing(i) == UNCHANGED cache

\* dm_msg_cache_remove: the first node with this id, if there is one.
CacheRemove(i) ==
    \/ i \notin Cached /\ UNCHANGED cache
    \/ \E n \in DOMAIN dmc_list :
          /\ dmc_list[n].id = i /\ \A m \in 1 .. n - 1 : dmc_list[m].id # i
          /\ dmc_list' = RemoveAt(dmc_list, n)
          /\ dmc_size' = dmc_size - 1

Undo(c) ==
    /\ pc[c] = "undo" /\ CacheFree
    /\ CacheRemove(msgid[c])
    /\ failed' = failed \cup {msgid[c]}
    /\ Return(c)
    /\ UNCHANGED <<yield, msg_list, cloud, got, lost>>

CallerStep(c) == CheckRoom(c) \/ Insert(c) \/ SendOk(c) \/ SendFails(c) \/ Undo(c)
------------------------------------------------------------------------------
(* The yielding thread: IOT_Linkkit_Yield again and again. *)

\* _dm_msg_send_to_user: the event of a request is queued; it is lost when
\* there is no memory, and always when the queue is full.
SendToUser(i) ==
    \/ Len(msg_list) < QueueMax /\ msg_list' = Append(msg_list, i) /\ UNCHANGED lost
    \/ UNCHANGED msg_list /\ lost' = lost \cup {i}

\* An answer comes in and its request is searched.
ReadReply(i) ==
    /\ ypc = "read" /\ i \in cloud
    /\ cloud' = cloud \ {i}
    /\ yid' = i
    /\ ypc' = IF i \in Cached THEN "reply" ELSE "remove"
    /\ UNCHANGED <<caller, cache, count, msg_list, got, lost, failed>>

DeliverReply ==
    /\ ypc = "reply"
    /\ SendToUser(yid)
    /\ ypc' = "remove"
    /\ UNCHANGED <<caller, cache, yid, count, cloud, got, failed>>

\* The request is forgotten whether or not its event could be queued.
RemoveReplied ==
    /\ ypc = "remove"
    /\ CacheRemove(yid)
    /\ ypc' = "read" /\ yid' = 0
    /\ UNCHANGED <<caller, count, msg_list, cloud, got, lost, failed>>

ReadDown ==
    /\ ypc = "read" /\ Len(msg_list) < QueueMax
    /\ msg_list' = Append(msg_list, Down)
    /\ UNCHANGED <<caller, cache, yield, cloud, got, lost, failed>>

\* The time of iotx_dm_yield is over.
ReadEnd ==
    /\ ypc = "read"
    /\ ypc' = "tick"
    /\ UNCHANGED <<caller, cache, yid, count, msg_list, cloud, got, lost, failed>>

\* Seeded fault: the loop ends before the last node.
TimeOverButLast(list) == Len(list) > 1 /\ Head(list).old

\* DM_MSG_CACHE_TIMEOUT_MS_DEFAULT are over for a node.  The list is in the
\* order of ctime: such nodes are the first ones.
TimeOver(list) == list # <<>> /\ Head(list).old

\* dm_msg_cache_tick: an event for every request whose time is over.
\* dmc_list_size is left as it is: the place of the request is not given back.
FadeOut ==
    /\ ypc \in {"tick", "fade"} /\ TimeOver(dmc_list)
    /\ SendToUser(Head(dmc_list).id)
    /\ dmc_list' = Tail(dmc_list)
    /\ ypc' = "fade"
    /\ UNCHANGED <<caller, dmc_size, yid, count, cloud, got, failed>>

TickEnd ==
    /\ ypc \in {"tick", "fade"} /\ ~TimeOver(dmc_list)
    /\ ypc' = "dispatch" /\ count' = 0
    /\ UNCHANGED <<caller, cache, yid, msg_list, cloud, got, lost, failed>>

\* One message of iotx_dm_dispatch, at most QueueMax of them in one call.
Dispatch ==
    /\ ypc = "dispatch" /\ msg_list # <<>> /\ count < QueueMax
    /\ msg_list' = Tail(msg_list) /\ count' = count + 1
    /\ got' = [i \in Ids |-> IF i = Head(msg_list) THEN got[i] + 1 ELSE got[i]]
    /\ UNCHANGED <<caller, cache, ypc, yid, cloud, lost, failed>>

DispatchEnd ==
    /\ ypc = "dispatch" /\ (msg_list = <<>> \/ count = QueueMax)
    /\ ypc' = "read" /\ count' = 0
    /\ UNCHANGED <<caller, cache, yid, msg_list, cloud, got, lost, failed>>

YieldStep ==
    \/ DeliverReply \/ RemoveReplied \/ ReadEnd \/ FadeOut \/ TickEnd
    \/ Dispatch \/ DispatchEnd

\* Ten seconds go by for the nodes up to n.  dm_msg_cache_tick reads the clock
\* before its loop: what goes by meanwhile is for the next one.
Age ==
    \E n \in DOMAIN dmc_list :
        /\ ypc # "fade" /\ ~dmc_list[n].old
        /\ dmc_list' = [m \in DOMAIN dmc_list |->
                          [dmc_list[m] EXCEPT !.old = dmc_list[m].old \/ m <= n]]
        /\ UNCHANGED <<caller, dmc_size, yield, msg_list, cloud, got, lost, failed>>
------------------------------------------------------------------------------
Next ==
    \/ \E c \in Callers : Report(c) \/ CallerStep(c)
    \/ \E i \in Ids : ReadReply(i)
    \/ ReadDown \/ YieldStep \/ Age

Spec == Init /\ [][Next]_vars

\* A call that has begun goes on, the yielding thread goes on (whether anything
\* comes in while it reads is up to the network), and time passes.
FairSpec ==
    /\ Spec
    /\ \A c \in Callers : WF_vars(CallerStep(c))
    /\ WF_vars(YieldStep) /\ WF_vars(Age)
------------------------------------------------------------------------------
(* Properties. *)

\* Every variable keeps its type; neither the size counter nor the queue of
\* dm_ipc.c goes beyond its maximum.
DmTypeOK ==
    /\ lock \in Callers \cup {NoOne}
    /\ pc \in [Callers -> {"idle", "check", "insert", "send", "undo"}]
    /\ msgid \in [Callers -> 0 .. MaxId] /\ report_id \in 0 .. MaxId
    /\ dmc_list \in Seq(CacheNode) /\ dmc_size \in 0 .. CacheMax
    /\ msg_list \in Seq(Ids \cup {Down}) /\ Len(msg_list) <= QueueMax
    /\ ypc \in {"read", "reply", "remove", "tick", "fade", "dispatch"}
    /\ yid \in 0 .. MaxId /\ count \in 0 .. QueueMax
    /\ cloud \subseteq Ids /\ got \in [Ids -> 0 .. MaxId]
    /\ lost \subseteq Ids /\ failed \subseteq Ids

EventsOf(i) == got[i] + Cardinality({n \in DOMAIN msg_list : msg_list[n] = i})

\* The application hears of a request once at the most: an answer that comes
\* after the time-out, and the time-out of a request whose answer has just been
\* queued, are kept from it; and while the request waits it has heard nothing.
OneEvent ==
    \A i \in Ids :
        /\ EventsOf(i) <= 1
        /\ i \in Cached /\ ~(ypc = "remove" /\ yid = i) => EventsOf(i) = 0

\* No more than CONFIG_MSGCACHE_QUEUE_MAXLEN requests are cached although the
\* size is tested before the mutex is taken: the callers exclude each other.
CacheBounded == Len(dmc_list) <= CacheMax

\* Every cached request ends in an event for the application, in a failure its
\* caller is told, or in an event the full queue or the memory had no place for.
Answered == \A i \in Ids : i \in Cached ~> (got[i] = 1 \/ i \in failed \/ i \in lost)
=============================================================================
