-------------------------- MODULE DmRequestProofs --------------------------
(***************************************************************************)
(* Proofs about DmRequest, for any number of callers and of requests and   *)
(* any size of the cache and of the queue.                                 *)
(***************************************************************************)
EXTENDS DmRequest, TLAPS, FiniteSetTheorems, SequenceTheorems, SequenceLemmas

(***************************************************************************)
(* A caller has the linkkit mutex from the first step of its request to    *)
(* the last, so its id is the latest.                                      *)
(***************************************************************************)
CallerAlone ==
    \A c \in Callers : pc[c] # "idle" => lock = c /\ msgid[c] = report_id /\ report_id # 0

(***************************************************************************)
(* The room of the cache: the counter is never below the length of the     *)
(* list (above it, once a request was timed out), and a caller that has    *)
(* passed the test still finds the room it tested for.                     *)
(***************************************************************************)
Adding(c) == pc[c] \in {"check", "insert"}

RoomKept ==
    /\ Len(dmc_list) <= dmc_size
    /\ \A c \in Callers : pc[c] = "insert" => dmc_size < CacheMax

(***************************************************************************)
(* The type of every variable but got, and what its bounds rest on.        *)
(***************************************************************************)
CallerTypes ==
    /\ lock \in Callers \cup {NoOne}
    /\ pc \in [Callers -> {"idle", "check", "insert", "send", "undo"}]
    /\ msgid \in [Callers -> 0 .. MaxId] /\ report_id \in 0 .. MaxId

CacheTypes ==
    /\ dmc_list \in Seq(CacheNode) /\ dmc_size \in 0 .. CacheMax

OtherTypes ==
    /\ msg_list \in Seq(Ids \cup {Down}) /\ Len(msg_list) <= QueueMax
    /\ ypc \in {"read", "reply", "remove", "tick", "fade", "dispatch"}
    /\ yid \in 0 .. MaxId /\ count \in 0 .. QueueMax
    /\ cloud \subseteq Ids
    /\ lost \subseteq Ids /\ failed \subseteq Ids
    /\ ypc = "reply" => yid \in Ids

TypeInv == CallerTypes /\ CacheTypes /\ OtherTypes /\ CallerAlone /\ RoomKept

(***************************************************************************)
(* The application has had, or will have, an event for request i.          *)
(***************************************************************************)
Queued(i) == \E n \in DOMAIN msg_list : msg_list[n] = i
Heard(i)  == got[i] # 0 \/ Queued(i)

(***************************************************************************)
(* OneEvent is not inductive: an answer that has been read must be for a   *)
(* request without an event (AnswerNew), which stays so since only the     *)
(* yielding thread sends events; and the request a caller is about to add  *)
(* must be known nowhere (AddedNew), so that no id comes back.             *)
(***************************************************************************)
QueuedOnce == \A m, n \in DOMAIN msg_list : msg_list[m] \in Ids /\ msg_list[m] = msg_list[n] => m = n

Once ==
    /\ got \in [Ids -> {0, 1}] /\ QueuedOnce
    /\ \A i \in Ids : got[i] = 1 => ~Queued(i)

CachedOnce == \A m, n \in DOMAIN dmc_list : dmc_list[m].id = dmc_list[n].id => m = n

CachedNew == \A i \in Cached : ~(ypc = "remove" /\ yid = i) => ~Heard(i)

AnswerNew == ypc = "reply" => ~Heard(yid)

Known(i) == i \in Cached \/ Heard(i) \/ i \in cloud \/ yid = i

KnownIds == \A i \in Ids : Known(i) => i <= report_id

AddedNew == \A c \in Callers : Adding(c) => ~Known(report_id)

EventInv == Once /\ CachedOnce /\ CachedNew /\ AnswerNew /\ KnownIds /\ AddedNew

-----------------------------------------------------------------------------
(* The operators the steps are made of.                                    *)

\* The cache is a sequence of nodes with ids of requests.
LEMMA CachedIds ==
  ASSUME dmc_list \in Seq(CacheNode)
  PROVE  /\ Len(dmc_list) \in Nat /\ DOMAIN dmc_list = 1 .. Len(dmc_list)
         /\ \A n \in DOMAIN dmc_list : dmc_list[n] \in CacheNode /\ dmc_list[n].id \in Ids
         /\ Cached \subseteq Ids
<1>1. /\ Len(dmc_list) \in Nat /\ DOMAIN dmc_list = 1 .. Len(dmc_list)
      /\ \A n \in DOMAIN dmc_list : dmc_list[n] \in CacheNode
  BY LenProperties, ElementOfSeq
<1>2. \A n \in DOMAIN dmc_list : dmc_list[n].id \in Ids
  BY <1>1 DEF CacheNode
<1> QED
  BY <1>1, <1>2 DEF Cached

\* A request that is removed is cached no more, the others are, and the length
\* and the size go down together.
LEMMA CacheRemoved ==
  ASSUME dmc_list \in Seq(CacheNode), NEW i, CacheRemove(i)
  PROVE  /\ dmc_list' \in Seq(CacheNode)
         /\ \/ Len(dmc_list') = Len(dmc_list) /\ dmc_size' = dmc_size
            \/ /\ Len(dmc_list') = Len(dmc_list) - 1 /\ dmc_size' = dmc_size - 1
               /\ Len(dmc_list) > 0
         /\ CachedOnce => CachedOnce' /\ Cached' = Cached \ {i}
<1>0. /\ Len(dmc_list) \in Nat /\ DOMAIN dmc_list = 1 .. Len(dmc_list)
  BY CachedIds
<1>1. CASE i \notin Cached /\ UNCHANGED cache
  BY <1>1 DEF cache, CachedOnce, Cached
<1>2. CASE \E n \in DOMAIN dmc_list :
             /\ dmc_list[n].id = i /\ \A m \in 1 .. n - 1 : dmc_list[m].id # i
             /\ dmc_list' = RemoveAt(dmc_list, n)
             /\ dmc_size' = dmc_size - 1
  <2>1. PICK n \in DOMAIN dmc_list : /\ dmc_list[n].id = i /\ dmc_list' = RemoveAt(dmc_list, n)
                                     /\ dmc_size' = dmc_size - 1
    BY <1>2
  <2>2. n \in 1 .. Len(dmc_list)
    BY <1>0
  <2>3. /\ dmc_list' \in Seq(CacheNode) /\ Len(dmc_list') = Len(dmc_list) - 1
        /\ DOMAIN dmc_list' = 1 .. Len(dmc_list) - 1
        /\ \A k \in 1 .. Len(dmc_list) - 1 :
             dmc_list'[k] = IF k <= n - 1 THEN dmc_list[k] ELSE dmc_list[k + 1]
    BY <2>1, <2>2, RemoveAtIndex
  <2>4. ASSUME CachedOnce PROVE CachedOnce'
    <3> SUFFICES ASSUME NEW j \in 1 .. Len(dmc_list) - 1, NEW k \in 1 .. Len(dmc_list) - 1,
                        dmc_list'[j].id = dmc_list'[k].id
                 PROVE  j = k
      BY <2>3 DEF CachedOnce
    <3> DEFINE f(x) == IF x <= n - 1 THEN x ELSE x + 1
    <3>1. f(j) \in DOMAIN dmc_list /\ f(k) \in DOMAIN dmc_list
      BY <1>0, <2>2
    <3>2. dmc_list'[j] = dmc_list[f(j)] /\ dmc_list'[k] = dmc_list[f(k)]
      BY <2>3
    <3>3. f(j) = f(k)
      BY <2>4, <3>1, <3>2 DEF CachedOnce
    <3> QED
      BY <2>2, <3>3
  <2>5. ASSUME CachedOnce PROVE Cached' = Cached \ {i}
    <3>1. ASSUME NEW x \in Cached' PROVE x \in Cached \ {i}
      <4>1. PICK k \in 1 .. Len(dmc_list) - 1 : x = dmc_list'[k].id
        BY <2>3 DEF Cached
      <4>2. PICK j \in DOMAIN dmc_list : dmc_list'[k] = dmc_list[j] /\ j # n
        BY <1>0, <2>2, <2>3
      <4>3. dmc_list[j].id # i
        BY <2>1, <2>5, <4>2 DEF CachedOnce
      <4> QED
        BY <4>1, <4>2, <4>3 DEF Cached
    <3>2. ASSUME NEW x \in Cached \ {i} PROVE x \in Cached'
      <4>1. PICK j \in DOMAIN dmc_list : x = dmc_list[j].id /\ j # n
        BY <2>1 DEF Cached
      <4>2. PICK k \in DOMAIN dmc_list' : dmc_list'[k] = dmc_list[j]
        BY <2>1, <2>2, <4>1, RemoveAtElements
      <4> QED
        BY <4>1, <4>2 DEF Cached
    <3> QED
      BY <3>1, <3>2
  <2>6. Len(dmc_list) > 0
    BY <1>0, <2>2
  <2> QED
    BY <2>1, <2>3, <2>4, <2>5, <2>6
<1> QED
  BY <1>1, <1>2 DEF CacheRemove

\* The same for the first node, which dm_msg_cache_tick takes out.
LEMMA CacheFaded ==
  ASSUME dmc_list \in Seq(CacheNode), dmc_list # <<>>, dmc_list' = Tail(dmc_list)
  PROVE  /\ dmc_list' \in Seq(CacheNode) /\ Len(dmc_list') = Len(dmc_list) - 1
         /\ Len(dmc_list) \in Nat \ {0}
         /\ Head(dmc_list).id \in Cached
         /\ CachedOnce => CachedOnce' /\ Cached' = Cached \ {Head(dmc_list).id}
<1>0. Len(dmc_list) \in Nat /\ DOMAIN dmc_list = 1 .. Len(dmc_list)
  BY CachedIds
<1>1. /\ dmc_list' \in Seq(CacheNode) /\ 1 \in DOMAIN dmc_list /\ Head(dmc_list) = dmc_list[1]
      /\ \A k \in DOMAIN dmc_list' : k + 1 \in DOMAIN dmc_list /\ dmc_list'[k] = dmc_list[k + 1]
  BY TailElements
<1>2. Len(dmc_list') = Len(dmc_list) - 1 /\ DOMAIN dmc_list' = 1 .. Len(dmc_list) - 1
  <2>1. Len(dmc_list') = Len(dmc_list) - 1
    BY HeadTailProperties
  <2> QED
    BY <1>1, <2>1, LenProperties
<1>3. Len(dmc_list) \in Nat \ {0}
  BY <1>0, <1>1
<1>4. Head(dmc_list).id \in Cached
  BY <1>1 DEF Cached
<1>5. ASSUME CachedOnce PROVE CachedOnce'
  <2> SUFFICES ASSUME NEW j \in DOMAIN dmc_list', NEW k \in DOMAIN dmc_list',
                      dmc_list'[j].id = dmc_list'[k].id
               PROVE  j = k
    BY DEF CachedOnce
  <2>1. j + 1 = k + 1
    BY <1>1, <1>5 DEF CachedOnce
  <2> QED
    BY <1>2, <2>1
<1>6. ASSUME CachedOnce PROVE Cached' = Cached \ {Head(dmc_list).id}
  <2>1. ASSUME NEW x \in Cached' PROVE x \in Cached \ {Head(dmc_list).id}
    <3>1. PICK k \in DOMAIN dmc_list' : x = dmc_list'[k].id
      BY DEF Cached
    <3>2. k + 1 \in DOMAIN dmc_list /\ x = dmc_list[k + 1].id /\ k + 1 # 1
      BY <1>1, <1>2, <3>1
    <3> QED
      BY <1>1, <1>6, <3>2 DEF Cached, CachedOnce
  <2>2. ASSUME NEW x \in Cached \ {Head(dmc_list).id} PROVE x \in Cached'
    <3>1. PICK j \in DOMAIN dmc_list : x = dmc_list[j].id /\ j # 1
      BY <1>1 DEF Cached
    <3>2. j - 1 \in DOMAIN dmc_list' /\ (j - 1) + 1 = j
      BY <1>0, <1>2, <3>1
    <3> QED
      BY <1>1, <3>1, <3>2 DEF Cached
  <2> QED
    BY <2>1, <2>2
<1> QED
  BY <1>1, <1>2, <1>3, <1>4, <1>5, <1>6

\* A request that is inserted is cached besides the others.
LEMMA CacheInserted ==
  ASSUME dmc_list \in Seq(CacheNode), NEW i \in Ids,
         dmc_list' = Append(dmc_list, [id |-> i, old |-> FALSE])
  PROVE  /\ dmc_list' \in Seq(CacheNode) /\ Len(dmc_list') = Len(dmc_list) + 1
         /\ Cached' = Cached \cup {i}
         /\ CachedOnce /\ i \notin Cached => CachedOnce'
<1> DEFINE x == [id |-> i, old |-> FALSE]
<1>1. x \in CacheNode
  BY FALSE \in BOOLEAN, Zenon DEF CacheNode
<1>2. x.id = i
  OBVIOUS
<1> HIDE DEF x
<1>3. /\ dmc_list' \in Seq(CacheNode) /\ Len(dmc_list') = Len(dmc_list) + 1
      /\ DOMAIN dmc_list' = 1 .. Len(dmc_list) + 1 /\ DOMAIN dmc_list = 1 .. Len(dmc_list)
      /\ Len(dmc_list) \in Nat
      /\ \A k \in 1 .. Len(dmc_list) : dmc_list'[k] = dmc_list[k]
      /\ dmc_list'[Len(dmc_list) + 1] = x
  <2>1. dmc_list' = Append(dmc_list, x)
    BY DEF x
  <2> QED
    BY <1>1, <2>1, AppendElements
<1>4. Cached' = Cached \cup {i}
  <2>1. ASSUME NEW y \in Cached' PROVE y \in Cached \cup {i}
    <3>1. PICK k \in 1 .. Len(dmc_list) + 1 : y = dmc_list'[k].id
      BY <1>3 DEF Cached
    <3>2. k \in 1 .. Len(dmc_list) \/ k = Len(dmc_list) + 1
      BY <1>3
    <3> QED
      BY <1>2, <1>3, <3>1, <3>2 DEF Cached
  <2>2. ASSUME NEW y \in Cached \cup {i} PROVE y \in Cached'
    <3>1. CASE y = i
      <4>1. Len(dmc_list) + 1 \in DOMAIN dmc_list'
        BY <1>3
      <4> QED
        BY <1>2, <1>3, <3>1, <4>1 DEF Cached
    <3>2. CASE y \in Cached
      <4>1. PICK k \in 1 .. Len(dmc_list) : y = dmc_list[k].id
        BY <1>3, <3>2 DEF Cached
      <4>2. k \in DOMAIN dmc_list' /\ dmc_list'[k] = dmc_list[k]
        BY <1>3
      <4> QED
        BY <4>1, <4>2 DEF Cached
    <3> QED
      BY <3>1, <3>2
  <2> QED
    BY <2>1, <2>2
<1>5. ASSUME CachedOnce, i \notin Cached PROVE CachedOnce'
  <2> SUFFICES ASSUME NEW j \in 1 .. Len(dmc_list) + 1, NEW k \in 1 .. Len(dmc_list) + 1,
                      dmc_list'[j].id = dmc_list'[k].id
               PROVE  j = k
    BY <1>3 DEF CachedOnce
  <2>1. \A l \in 1 .. Len(dmc_list) : dmc_list[l].id # i
    BY <1>3, <1>5 DEF Cached
  <2>2. \A l \in 1 .. Len(dmc_list) + 1 : l \in 1 .. Len(dmc_list) \/ l = Len(dmc_list) + 1
    BY <1>3
  <2>3. CASE j \in 1 .. Len(dmc_list) /\ k \in 1 .. Len(dmc_list)
    BY <1>3, <1>5, <2>3 DEF CachedOnce
  <2>4. CASE j = Len(dmc_list) + 1 \/ k = Len(dmc_list) + 1
    BY <1>2, <1>3, <2>1, <2>2, <2>4
  <2> QED
    BY <2>2, <2>3, <2>4
<1> QED
  BY <1>3, <1>4, <1>5

\* An event is put at the end of the queue, or is lost.
LEMMA EventSent ==
  ASSUME OtherTypes, QueueMax \in Nat, NEW i \in Ids, SendToUser(i)
  PROVE  /\ msg_list' \in Seq(Ids \cup {Down}) /\ Len(msg_list') <= QueueMax
         /\ lost' \subseteq Ids
         /\ \A j \in Ids : Queued(j)' => Queued(j) \/ j = i
         /\ QueuedOnce /\ ~Queued(i) => QueuedOnce'
<1>1. CASE UNCHANGED msg_list /\ lost' = lost \cup {i}
  BY <1>1 DEF OtherTypes, Queued, QueuedOnce
<1>2. CASE Len(msg_list) < QueueMax /\ msg_list' = Append(msg_list, i) /\ UNCHANGED lost
  <2>1. msg_list \in Seq(Ids \cup {Down}) /\ i \in Ids \cup {Down}
    BY DEF OtherTypes
  <2>2. /\ msg_list' \in Seq(Ids \cup {Down}) /\ Len(msg_list') = Len(msg_list) + 1
        /\ DOMAIN msg_list' = 1 .. Len(msg_list) + 1 /\ DOMAIN msg_list = 1 .. Len(msg_list)
        /\ Len(msg_list) \in Nat
        /\ \A k \in 1 .. Len(msg_list) : msg_list'[k] = msg_list[k]
        /\ msg_list'[Len(msg_list) + 1] = i
    BY <1>2, <2>1, AppendElements
  <2>3. Len(msg_list') <= QueueMax /\ lost' \subseteq Ids
    BY <1>2, <2>2 DEF OtherTypes
  <2>4. \A l \in 1 .. Len(msg_list) + 1 : l \in 1 .. Len(msg_list) \/ l = Len(msg_list) + 1
    BY <2>2
  <2>5. \A j \in Ids : Queued(j)' => Queued(j) \/ j = i
    BY <2>2, <2>4 DEF Queued
  <2>6. ASSUME QueuedOnce, ~Queued(i) PROVE QueuedOnce'
    <3> SUFFICES ASSUME NEW j \in 1 .. Len(msg_list) + 1, NEW k \in 1 .. Len(msg_list) + 1,
                        msg_list'[j] \in Ids, msg_list'[j] = msg_list'[k]
                 PROVE  j = k
      BY <2>2 DEF QueuedOnce
    <3>1. \A l \in 1 .. Len(msg_list) : msg_list[l] # i
      BY <2>2, <2>6 DEF Queued
    <3>2. CASE j \in 1 .. Len(msg_list) /\ k \in 1 .. Len(msg_list)
      BY <2>2, <2>6, <3>2 DEF QueuedOnce
    <3>3. CASE j = Len(msg_list) + 1 \/ k = Len(msg_list) + 1
      BY <2>2, <2>4, <3>1, <3>3
    <3> QED
      BY <2>4, <3>2, <3>3
  <2> QED
    BY <2>2, <2>3, <2>5, <2>6
<1> QED
  BY <1>1, <1>2 DEF SendToUser
-----------------------------------------------------------------------------
(* Types and the room of the cache.                                        *)

LEMMA TypeInit == Init => TypeInv
<1> SUFFICES ASSUME Init PROVE TypeInv
  OBVIOUS
<1> USE DmAssumption
<1>1. <<>> \in Seq(CacheNode) /\ <<>> \in Seq(Ids \cup {Down}) /\ Len(<<>>) = 0
  BY EmptySeq
<1>2. CallerTypes /\ CallerAlone
  BY DEF Init, CallerTypes, CallerAlone
<1>3. CacheTypes /\ OtherTypes
  BY <1>1 DEF Init, CacheTypes, OtherTypes
<1>4. RoomKept
  BY <1>1 DEF Init, RoomKept
<1> QED
  BY <1>2, <1>3, <1>4 DEF TypeInv

\* While one caller makes a request the others make none.
LEMMA OthersIdle ==
  ASSUME TypeInv, NEW c \in Callers, pc[c] # "idle"
  PROVE  /\ lock = c /\ msgid[c] = report_id /\ report_id \in Ids
         /\ \A d \in Callers : d # c => pc[d] = "idle"
<1>1. lock = c /\ msgid[c] = report_id /\ report_id # 0 /\ \A d \in Callers : d # c => pc[d] = "idle"
  BY DEF TypeInv, CallerAlone
<1>2. report_id \in Ids
  BY <1>1, DmAssumption DEF TypeInv, CallerTypes, Ids
<1> QED
  BY <1>1, <1>2

\* The room of the cache when it is left alone.
LEMMA RoomSame ==
  ASSUME TypeInv, UNCHANGED <<dmc_list, dmc_size>>,
         \A c \in Callers : pc'[c] = "insert" => dmc_size < CacheMax
  PROVE  CacheTypes' /\ RoomKept'
BY DEF TypeInv, CacheTypes, RoomKept

LEMMA ReportTypes ==
  ASSUME TypeInv, NEW c \in Callers, Report(c)
  PROVE  TypeInv'
<1> USE DmAssumption
<1>1. \A d \in Callers : pc[d] = "idle"
  BY DEF TypeInv, CallerAlone, Report
<1>2. /\ UNCHANGED <<cache, yield, msg_list, cloud, got, lost, failed>>
      /\ report_id < MaxId /\ report_id' = report_id + 1 /\ lock' = c
      /\ msgid' = [msgid EXCEPT ![c] = report_id + 1]
  BY DEF Report
<1>3. PICK next \in {"check", "send"} : pc' = [pc EXCEPT ![c] = next]
  BY DEF Report
<1>4. CallerTypes'
  BY <1>2, <1>3 DEF TypeInv, CallerTypes
<1>5. CallerAlone'
  BY <1>1, <1>2, <1>3 DEF TypeInv, CallerTypes, CallerAlone
<1>6. CacheTypes' /\ OtherTypes'
  BY <1>2 DEF TypeInv, CacheTypes, OtherTypes, cache, yield
<1>7. RoomKept'
  <2>1. \A d \in Callers : pc'[d] # "insert"
    BY <1>1, <1>3 DEF TypeInv, CallerTypes
  <2>2. UNCHANGED <<dmc_list, dmc_size>>
    BY <1>2 DEF cache
  <2> QED
    BY <2>1, <2>2 DEF TypeInv, RoomKept
<1> QED
  BY <1>4, <1>5, <1>6, <1>7 DEF TypeInv

\* A caller goes on with its request, or returns.
LEMMA CallerGoesOn ==
  ASSUME TypeInv, NEW c \in Callers, pc[c] # "idle", NEW l \in {"insert", "send", "undo"},
         pc' = [pc EXCEPT ![c] = l], UNCHANGED <<lock, msgid, report_id>>
  PROVE  /\ CallerTypes' /\ CallerAlone'
         /\ pc'[c] = l /\ \A d \in Callers : d # c => pc'[d] = "idle"
<1>1. lock = c /\ msgid[c] = report_id /\ \A d \in Callers : d # c => pc[d] = "idle"
  BY OthersIdle
<1> QED
  BY <1>1 DEF TypeInv, CallerTypes, CallerAlone

LEMMA CallerReturns ==
  ASSUME TypeInv, NEW c \in Callers, pc[c] # "idle", Return(c)
  PROVE  /\ CallerTypes' /\ CallerAlone' /\ UNCHANGED report_id
         /\ \A d \in Callers : pc'[d] = "idle"
<1>1. lock = c /\ msgid[c] = report_id /\ \A d \in Callers : d # c => pc[d] = "idle"
  BY OthersIdle
<1> QED
  BY <1>1, DmAssumption DEF TypeInv, CallerTypes, CallerAlone, Return

LEMMA CallerTypesKept ==
  ASSUME TypeInv, NEW c \in Callers, CallerStep(c)
  PROVE  TypeInv'
<1> USE DmAssumption
<1>1. CASE CheckRoom(c)
  <2>1. PICK l \in {"insert", "send"} : pc' = [pc EXCEPT ![c] = l] /\ (l = "insert" => dmc_size < CacheMax)
    BY <1>1 DEF CheckRoom
  <2>2. /\ pc[c] = "check"
        /\ UNCHANGED <<lock, msgid, report_id, cache, yield, msg_list, cloud, got, lost, failed>>
    BY <1>1 DEF CheckRoom
  <2>3. /\ CallerTypes' /\ CallerAlone'
        /\ pc'[c] = l /\ \A d \in Callers : d # c => pc'[d] = "idle"
    BY <2>1, <2>2, CallerGoesOn
  <2>4. OtherTypes'
    BY <2>2 DEF TypeInv, OtherTypes, yield
  <2>5. CacheTypes' /\ RoomKept'
    BY <2>1, <2>2, <2>3, RoomSame DEF cache
  <2> QED
    BY <2>3, <2>4, <2>5 DEF TypeInv
<1>2. CASE Insert(c)
  <2>1. /\ pc[c] = "insert" /\ pc' = [pc EXCEPT ![c] = "send"]
        /\ dmc_list' = Append(dmc_list, [id |-> msgid[c], old |-> FALSE])
        /\ dmc_size' = dmc_size + 1
        /\ UNCHANGED <<lock, msgid, report_id, yield, msg_list, cloud, got, lost, failed>>
    BY <1>2 DEF Insert
  <2>2. /\ CallerTypes' /\ CallerAlone' /\ msgid[c] \in Ids
        /\ pc'[c] = "send" /\ \A d \in Callers : d # c => pc'[d] = "idle"
    BY <2>1, CallerGoesOn, OthersIdle
  <2>3. OtherTypes'
    BY <2>1 DEF TypeInv, OtherTypes, yield
  <2>4. dmc_list' \in Seq(CacheNode) /\ Len(dmc_list') = Len(dmc_list) + 1
    BY <2>1, <2>2, CacheInserted DEF TypeInv, CacheTypes
  <2>5. Len(dmc_list) \in Nat /\ dmc_size \in Nat
    BY CachedIds DEF TypeInv, CacheTypes
  <2>6. dmc_size < CacheMax /\ Len(dmc_list) <= dmc_size
    BY <2>1 DEF TypeInv, RoomKept
  <2>7. dmc_size' \in 0 .. CacheMax /\ Len(dmc_list') <= dmc_size'
    BY <2>1, <2>4, <2>5, <2>6
  <2>8. CacheTypes'
    BY <2>4, <2>7 DEF CacheTypes
  <2>9. RoomKept'
    BY <2>2, <2>7 DEF RoomKept
  <2> QED
    BY <2>2, <2>3, <2>8, <2>9 DEF TypeInv
<1>3. CASE SendOk(c)
  <2>1. /\ pc[c] = "send" /\ Return(c) /\ cloud' = cloud \cup {msgid[c]}
        /\ UNCHANGED <<cache, yield, msg_list, got, lost, failed>>
    BY <1>3 DEF SendOk
  <2>2. /\ CallerTypes' /\ CallerAlone' /\ UNCHANGED report_id /\ msgid[c] \in Ids
        /\ \A d \in Callers : pc'[d] = "idle"
    BY <2>1, CallerReturns, OthersIdle
  <2>3. OtherTypes'
    BY <2>1, <2>2 DEF TypeInv, OtherTypes, yield
  <2>4. CacheTypes' /\ RoomKept'
    BY <2>1, <2>2, RoomSame DEF cache
  <2> QED
    BY <2>2, <2>3, <2>4 DEF TypeInv
<1>4. CASE SendFails(c)
  <2>1. /\ pc[c] = "send" /\ pc' = [pc EXCEPT ![c] = "undo"]
        /\ cloud' \in {cloud, cloud \cup {msgid[c]}}
        /\ UNCHANGED <<lock, msgid, report_id, cache, yield, msg_list, got, lost, failed>>
    BY <1>4 DEF SendFails
  <2>2. /\ CallerTypes' /\ CallerAlone' /\ msgid[c] \in Ids
        /\ pc'[c] = "undo" /\ \A d \in Callers : d # c => pc'[d] = "idle"
    BY <2>1, CallerGoesOn, OthersIdle
  <2>3. OtherTypes'
    BY <2>1, <2>2 DEF TypeInv, OtherTypes, yield
  <2>4. CacheTypes' /\ RoomKept'
    BY <2>1, <2>2, RoomSame DEF cache
  <2> QED
    BY <2>2, <2>3, <2>4 DEF TypeInv
<1>5. CASE Undo(c)
  <2>1. /\ pc[c] = "undo" /\ CacheRemove(msgid[c]) /\ Return(c) /\ failed' = failed \cup {msgid[c]}
        /\ UNCHANGED <<yield, msg_list, cloud, got, lost>>
    BY <1>5 DEF Undo
  <2>2. /\ CallerTypes' /\ CallerAlone' /\ UNCHANGED report_id /\ msgid[c] \in Ids
        /\ \A d \in Callers : pc'[d] = "idle"
    BY <2>1, CallerReturns, OthersIdle
  <2>3. OtherTypes'
    BY <2>1, <2>2 DEF TypeInv, OtherTypes, yield
  <2>4. /\ dmc_list' \in Seq(CacheNode)
        /\ \/ Len(dmc_list') = Len(dmc_list) /\ dmc_size' = dmc_size
           \/ /\ Len(dmc_list') = Len(dmc_list) - 1 /\ dmc_size' = dmc_size - 1
              /\ Len(dmc_list) > 0
    BY <2>1, CacheRemoved DEF TypeInv, CacheTypes
  <2>5. Len(dmc_list) \in Nat /\ dmc_size \in 0 .. CacheMax /\ Len(dmc_list) <= dmc_size
    BY CachedIds DEF TypeInv, CacheTypes, RoomKept
  <2>6. dmc_size' \in 0 .. CacheMax /\ Len(dmc_list') <= dmc_size'
    BY <2>4, <2>5
  <2>7. CacheTypes' /\ RoomKept'
    BY <2>2, <2>4, <2>6 DEF CacheTypes, RoomKept
  <2> QED
    BY <2>2, <2>3, <2>7 DEF TypeInv
<1> QED
  BY <1>1, <1>2, <1>3, <1>4, <1>5 DEF CallerStep

\* The steps of the yielding thread that leave the cache alone.
LEMMA YieldTypes ==
  ASSUME TypeInv,
         \/ \E i \in Ids : ReadReply(i)
         \/ DeliverReply \/ ReadDown \/ ReadEnd \/ TickEnd \/ Dispatch \/ DispatchEnd
  PROVE  TypeInv'
<1> USE DmAssumption
<1>1. UNCHANGED <<caller, cache>>
  BY DEF ReadReply, DeliverReply, ReadDown, ReadEnd, TickEnd, Dispatch, DispatchEnd
<1>2. CallerTypes' /\ CallerAlone'
  BY <1>1 DEF TypeInv, CallerTypes, CallerAlone, caller
<1>3. CacheTypes' /\ RoomKept'
  BY <1>1 DEF TypeInv, CacheTypes, RoomKept, caller, cache
<1>4. OtherTypes'
  <2>0. msg_list \in Seq(Ids \cup {Down}) /\ Len(msg_list) <= QueueMax /\ QueueMax \in Nat
    BY DEF TypeInv, OtherTypes
  <2>1. CASE \E i \in Ids : ReadReply(i)
    BY <2>1 DEF ReadReply, TypeInv, OtherTypes, Ids
  <2>2. CASE DeliverReply
    <3>1. yid \in Ids /\ SendToUser(yid)
      BY <2>2 DEF DeliverReply, TypeInv, OtherTypes
    <3>2. msg_list' \in Seq(Ids \cup {Down}) /\ Len(msg_list') <= QueueMax /\ lost' \subseteq Ids
      BY <2>0, <3>1, EventSent DEF TypeInv
    <3> QED
      BY <2>2, <3>2 DEF DeliverReply, TypeInv, OtherTypes
  <2>3. CASE ReadDown
    <3>1. Down \in Ids \cup {Down} /\ msg_list' = Append(msg_list, Down) /\ Len(msg_list) < QueueMax
      BY <2>3 DEF ReadDown
    <3>2. msg_list' \in Seq(Ids \cup {Down}) /\ Len(msg_list') = Len(msg_list) + 1 /\ Len(msg_list) \in Nat
      BY <2>0, <3>1, AppendElements
    <3>3. Len(msg_list') <= QueueMax
      BY <2>0, <3>1, <3>2
    <3> QED
      BY <2>3, <3>2, <3>3 DEF ReadDown, TypeInv, OtherTypes, yield
  <2>4. CASE ReadEnd \/ TickEnd \/ DispatchEnd
    BY <2>4 DEF ReadEnd, TickEnd, DispatchEnd, TypeInv, OtherTypes
  <2>5. CASE Dispatch
    <3>1. msg_list # <<>> /\ msg_list' = Tail(msg_list) /\ count < QueueMax /\ count' = count + 1
      BY <2>5 DEF Dispatch
    <3>2. msg_list' \in Seq(Ids \cup {Down}) /\ Len(msg_list') = Len(msg_list) - 1 /\ Len(msg_list) \in Nat
      BY <2>0, <3>1, HeadTailProperties, LenProperties
    <3>3. Len(msg_list') <= QueueMax
      BY <2>0, <3>2
    <3>4. count' \in 0 .. QueueMax
      BY <3>1 DEF TypeInv, OtherTypes
    <3> QED
      BY <2>5, <3>2, <3>3, <3>4 DEF Dispatch, TypeInv, OtherTypes
  <2> QED
    BY <2>1, <2>2, <2>3, <2>4, <2>5
<1> QED
  BY <1>2, <1>3, <1>4 DEF TypeInv

LEMMA RemoveRepliedTypes ==
  ASSUME TypeInv, RemoveReplied
  PROVE  TypeInv'
<1> USE DmAssumption
<1>1. /\ CacheRemove(yid) /\ ypc' = "read" /\ yid' = 0
      /\ UNCHANGED <<caller, count, msg_list, cloud, got, lost, failed>>
  BY DEF RemoveReplied
<1>2. CallerTypes' /\ CallerAlone'
  BY <1>1 DEF TypeInv, CallerTypes, CallerAlone, caller
<1>3. OtherTypes'
  BY <1>1 DEF TypeInv, OtherTypes
<1>4. /\ dmc_list' \in Seq(CacheNode)
      /\ \/ Len(dmc_list') = Len(dmc_list) /\ dmc_size' = dmc_size
         \/ /\ Len(dmc_list') = Len(dmc_list) - 1 /\ dmc_size' = dmc_size - 1
            /\ Len(dmc_list) > 0
  BY <1>1, CacheRemoved DEF TypeInv, CacheTypes
<1>5. Len(dmc_list) \in Nat /\ dmc_size \in 0 .. CacheMax /\ Len(dmc_list) <= dmc_size
  BY CachedIds DEF TypeInv, CacheTypes, RoomKept
<1>6. dmc_size' \in 0 .. CacheMax /\ Len(dmc_list') <= dmc_size' /\ dmc_size' <= dmc_size
  BY <1>4, <1>5
<1>7. UNCHANGED pc
  BY <1>1 DEF caller
<1>8. CacheTypes'
  BY <1>4, <1>6 DEF CacheTypes
<1>9. RoomKept'
  <2>1. \A c \in Callers : pc[c] = "insert" => dmc_size' < CacheMax
    BY <1>5, <1>6 DEF TypeInv, RoomKept
  <2> QED
    BY <1>6, <1>7, <2>1 DEF RoomKept
<1> QED
  BY <1>2, <1>3, <1>8, <1>9 DEF TypeInv

LEMMA FadeOutTypes ==
  ASSUME TypeInv, FadeOut
  PROVE  TypeInv'
<1> USE DmAssumption
<1>1. /\ dmc_list # <<>> /\ dmc_list' = Tail(dmc_list)
      /\ SendToUser(Head(dmc_list).id) /\ ypc' = "fade"
      /\ UNCHANGED <<caller, dmc_size, yid, count, cloud, got, failed>>
  BY DEF FadeOut, TimeOver
<1>2. CallerTypes' /\ CallerAlone'
  BY <1>1 DEF TypeInv, CallerTypes, CallerAlone, caller
<1>3. /\ dmc_list' \in Seq(CacheNode) /\ Len(dmc_list') = Len(dmc_list) - 1
      /\ Len(dmc_list) \in Nat \ {0} /\ Head(dmc_list).id \in Ids
  BY <1>1, CacheFaded, CachedIds DEF TypeInv, CacheTypes
<1>4. msg_list' \in Seq(Ids \cup {Down}) /\ Len(msg_list') <= QueueMax /\ lost' \subseteq Ids
  BY <1>1, <1>3, EventSent DEF TypeInv
<1>5. OtherTypes'
  BY <1>1, <1>4 DEF TypeInv, OtherTypes
<1>6. UNCHANGED <<pc, dmc_size>>
  BY <1>1 DEF caller
<1>7. CacheTypes'
  BY <1>3, <1>6 DEF TypeInv, CacheTypes
<1>8. Len(dmc_list') <= dmc_size
  BY <1>3 DEF TypeInv, CacheTypes, RoomKept
<1>9. RoomKept'
  BY <1>6, <1>8 DEF TypeInv, RoomKept
<1> QED
  BY <1>2, <1>5, <1>7, <1>9 DEF TypeInv

\* Time changes no id of the cache.
LEMMA Aged ==
  ASSUME dmc_list \in Seq(CacheNode), Age
  PROVE  /\ dmc_list' \in Seq(CacheNode) /\ Len(dmc_list') = Len(dmc_list)
         /\ DOMAIN dmc_list' = DOMAIN dmc_list
         /\ \A m \in DOMAIN dmc_list : dmc_list'[m].id = dmc_list[m].id
         /\ UNCHANGED <<caller, dmc_size, yield, msg_list, cloud, got, lost, failed>>
<1>1. PICK n \in DOMAIN dmc_list :
        dmc_list' = [m \in DOMAIN dmc_list |-> [dmc_list[m] EXCEPT !.old = dmc_list[m].old \/ m <= n]]
  BY Zenon DEF Age
<1>2. /\ Len(dmc_list) \in Nat /\ DOMAIN dmc_list = 1 .. Len(dmc_list)
      /\ \A m \in DOMAIN dmc_list : dmc_list[m] \in CacheNode
  BY CachedIds
<1>3. ASSUME NEW m \in DOMAIN dmc_list
      PROVE  dmc_list'[m] \in CacheNode /\ dmc_list'[m].id = dmc_list[m].id
  <2>1. dmc_list'[m] = [dmc_list[m] EXCEPT !.old = dmc_list[m].old \/ m <= n]
    BY <1>1, Zenon
  <2>2. (dmc_list[m].old \/ m <= n) \in BOOLEAN
    BY Zenon
  <2>3. dmc_list[m] \in CacheNode
    BY <1>2
  <2> QED
    BY <2>1, <2>2, <2>3, Zenon DEF CacheNode
<1>4. DOMAIN dmc_list' = DOMAIN dmc_list
  BY <1>1, Zenon
<1>5. dmc_list' = [m \in DOMAIN dmc_list |-> dmc_list'[m]]
  BY <1>1, <1>4, Zenon
<1>6. dmc_list' \in [1 .. Len(dmc_list) -> CacheNode]
  BY <1>2, <1>3, <1>5
<1>7. dmc_list' \in Seq(CacheNode) /\ Len(dmc_list') = Len(dmc_list)
  BY <1>2, <1>6, LenProperties
<1>8. UNCHANGED <<caller, dmc_size, yield, msg_list, cloud, got, lost, failed>>
  BY Zenon DEF Age
<1> QED
  BY <1>3, <1>4, <1>7, <1>8

LEMMA AgeTypes ==
  ASSUME TypeInv, Age
  PROVE  TypeInv'
<1>1. /\ dmc_list' \in Seq(CacheNode) /\ Len(dmc_list') = Len(dmc_list)
      /\ UNCHANGED <<caller, dmc_size, yield, msg_list, cloud, got, lost, failed>>
  BY Aged DEF TypeInv, CacheTypes
<1>2. CallerTypes' /\ CallerAlone'
  BY <1>1 DEF TypeInv, CallerTypes, CallerAlone, caller
<1>3. CacheTypes' /\ OtherTypes'
  BY <1>1 DEF TypeInv, CacheTypes, OtherTypes, yield
<1>4. RoomKept'
  BY <1>1 DEF TypeInv, RoomKept, caller
<1> QED
  BY <1>2, <1>3, <1>4 DEF TypeInv

LEMMA TypeNext == TypeInv /\ [Next]_vars => TypeInv'
<1> SUFFICES ASSUME TypeInv, [Next]_vars PROVE TypeInv'
  OBVIOUS
<1>1. CASE UNCHANGED vars
  BY <1>1 DEF vars, caller, cache, yield, TypeInv, CallerTypes, CacheTypes, OtherTypes, CallerAlone,
              RoomKept
<1>2. CASE Next
  <2>1. CASE \E c \in Callers : Report(c) \/ CallerStep(c)
    BY <2>1, ReportTypes, CallerTypesKept
  <2>2. CASE RemoveReplied \/ FadeOut \/ Age
    BY <2>2, RemoveRepliedTypes, FadeOutTypes, AgeTypes
  <2> QED
    BY <1>2, <2>1, <2>2, YieldTypes DEF Next, YieldStep
<1> QED
  BY <1>1, <1>2

\* The cache never holds more than CONFIG_MSGCACHE_QUEUE_MAXLEN requests.
THEOREM CacheIsBounded == Spec => []CacheBounded
<1>1. TypeInv => CacheBounded
  <2> SUFFICES ASSUME TypeInv PROVE Len(dmc_list) <= CacheMax
    BY DEF CacheBounded
  <2>1. Len(dmc_list) \in Nat
    BY CachedIds DEF TypeInv, CacheTypes
  <2> QED
    BY <2>1, DmAssumption DEF TypeInv, CacheTypes, RoomKept
<1> QED
  BY <1>1, TypeInit, TypeNext, PTL DEF Spec
-----------------------------------------------------------------------------
(* One event for a request.                                                *)

LEMMA EventInit == Init => EventInv
<1> SUFFICES ASSUME Init PROVE EventInv
  OBVIOUS
<1>1. DOMAIN msg_list = {} /\ DOMAIN dmc_list = {} /\ Cached = {}
  BY DEF Init, Cached
<1>2. Once /\ CachedOnce
  BY <1>1 DEF Init, Once, QueuedOnce, Queued, CachedOnce
<1>3. CachedNew /\ AnswerNew
  BY <1>1 DEF Init, CachedNew, AnswerNew
<1>4. \A i \in Ids : ~Known(i)
  BY <1>1 DEF Init, Known, Heard, Queued, Ids
<1>5. KnownIds /\ AddedNew
  BY <1>4 DEF Init, KnownIds, AddedNew, Adding
<1> QED
  BY <1>2, <1>3, <1>5 DEF EventInv

\* Steps that leave the events alone.
LEMMA EventsSame ==
  ASSUME EventInv, UNCHANGED <<got, msg_list>>
  PROVE  Once' /\ \A i : Heard(i)' <=> Heard(i)
BY DEF EventInv, Once, QueuedOnce, Queued, Heard

\* Steps that leave the cache alone.
LEMMA CacheSame ==
  ASSUME EventInv, UNCHANGED dmc_list
  PROVE  CachedOnce' /\ Cached' = Cached
BY DEF EventInv, CachedOnce, Cached

\* Steps that make no id known.
LEMMA KnownLess ==
  ASSUME TypeInv, EventInv, UNCHANGED report_id, \A c \in Callers : Adding(c)' => Adding(c),
         \A i \in Ids : Known(i)' => Known(i)
  PROVE  KnownIds' /\ AddedNew'
<1>1. KnownIds'
  BY DEF EventInv, KnownIds
<1>2. \A c \in Callers : Adding(c) => report_id \in Ids
  BY OthersIdle DEF Adding
<1> QED
  BY <1>1, <1>2 DEF EventInv, AddedNew

LEMMA ReportEvents ==
  ASSUME TypeInv, EventInv, NEW c \in Callers, Report(c)
  PROVE  EventInv'
<1>1. /\ UNCHANGED <<cache, yield, msg_list, cloud, got, lost, failed>>
      /\ report_id < MaxId /\ report_id' = report_id + 1
  BY DEF Report
<1>2. UNCHANGED <<dmc_list, ypc, yid>>
  BY <1>1 DEF cache, yield
<1>3. Once' /\ CachedOnce' /\ Cached' = Cached /\ \A i : Heard(i)' <=> Heard(i)
  BY <1>1, <1>2, EventsSame, CacheSame
<1>4. CachedNew' /\ AnswerNew'
  BY <1>2, <1>3 DEF EventInv, CachedNew, AnswerNew
<1>5. \A i \in Ids : Known(i)' => Known(i)
  BY <1>1, <1>2, <1>3 DEF Known
<1>6. report_id \in Nat /\ report_id' \in Ids
  BY <1>1, DmAssumption DEF TypeInv, CallerTypes, Ids
<1>7. \A i \in Ids : Known(i)' => i <= report_id
  BY <1>5 DEF EventInv, KnownIds
<1>8. KnownIds'
  BY <1>1, <1>6, <1>7 DEF KnownIds, Ids
<1>9. \A i \in Ids : i = report_id' => ~Known(i)'
  BY <1>1, <1>6, <1>7 DEF Ids
<1>10. AddedNew'
  BY <1>6, <1>9 DEF AddedNew, Known, Heard, Queued, Cached
<1> QED
  BY <1>3, <1>4, <1>8, <1>10 DEF EventInv

LEMMA InsertEvents ==
  ASSUME TypeInv, EventInv, NEW c \in Callers, Insert(c)
  PROVE  EventInv'
<1>1. /\ pc[c] = "insert" /\ pc' = [pc EXCEPT ![c] = "send"]
      /\ dmc_list' = Append(dmc_list, [id |-> msgid[c], old |-> FALSE])
      /\ UNCHANGED <<lock, msgid, report_id, yield, msg_list, cloud, got>>
  BY DEF Insert
<1>2. /\ msgid[c] = report_id /\ report_id \in Ids
      /\ \A d \in Callers : d # c => pc[d] = "idle"
  BY <1>1, OthersIdle
<1>3. ~Known(report_id)
  BY <1>1 DEF EventInv, AddedNew, Adding
<1>4. Once' /\ \A i : Heard(i)' <=> Heard(i)
  BY <1>1, EventsSame
<1>5. CachedOnce' /\ Cached' = Cached \cup {report_id}
  BY <1>1, <1>2, <1>3, CacheInserted DEF TypeInv, CacheTypes, EventInv, Known
<1>6. UNCHANGED <<ypc, yid>>
  BY <1>1 DEF yield
<1>7. CachedNew' /\ AnswerNew'
  BY <1>3, <1>4, <1>5, <1>6 DEF EventInv, CachedNew, AnswerNew, Known
<1>8. \A i \in Ids : Known(i)' => Known(i) \/ i = report_id
  BY <1>1, <1>4, <1>5, <1>6 DEF Known
<1>9. KnownIds'
  BY <1>1, <1>8, DmAssumption DEF EventInv, KnownIds, TypeInv, CallerTypes
<1>10. \A d \in Callers : ~Adding(d)'
  BY <1>1, <1>2 DEF Adding, TypeInv, CallerTypes
<1>11. AddedNew'
  BY <1>10 DEF AddedNew
<1> QED
  BY <1>4, <1>5, <1>7, <1>9, <1>11 DEF EventInv

LEMMA SendEvents ==
  ASSUME TypeInv, EventInv, NEW c \in Callers, SendOk(c) \/ SendFails(c)
  PROVE  EventInv'
<1>1. /\ pc[c] = "send" /\ cloud' \in {cloud, cloud \cup {msgid[c]}}
      /\ pc' = [pc EXCEPT ![c] = "idle"] \/ pc' = [pc EXCEPT ![c] = "undo"]
      /\ UNCHANGED <<report_id, cache, yield, msg_list, got>>
  BY DEF SendOk, SendFails, Return
<1>2. /\ msgid[c] = report_id /\ report_id \in Ids
      /\ \A d \in Callers : d # c => pc[d] = "idle"
  BY <1>1, OthersIdle
<1>3. UNCHANGED <<dmc_list, ypc, yid>>
  BY <1>1 DEF cache, yield
<1>4. Once' /\ CachedOnce' /\ Cached' = Cached /\ \A i : Heard(i)' <=> Heard(i)
  BY <1>1, <1>3, EventsSame, CacheSame
<1>5. CachedNew' /\ AnswerNew'
  BY <1>3, <1>4 DEF EventInv, CachedNew, AnswerNew
<1>6. \A i \in Ids : Known(i)' => Known(i) \/ i = report_id
  BY <1>1, <1>2, <1>3, <1>4 DEF Known
<1>7. KnownIds'
  BY <1>1, <1>6, DmAssumption DEF EventInv, KnownIds, TypeInv, CallerTypes
<1>8. \A d \in Callers : ~Adding(d)'
  BY <1>1, <1>2 DEF Adding, TypeInv, CallerTypes
<1>9. AddedNew'
  BY <1>8 DEF AddedNew
<1> QED
  BY <1>4, <1>5, <1>7, <1>9 DEF EventInv

LEMMA CallerEvents ==
  ASSUME TypeInv, EventInv, NEW c \in Callers, CheckRoom(c) \/ Undo(c)
  PROVE  EventInv'
<1>1. UNCHANGED <<report_id, yield, msg_list, cloud, got>>
  BY DEF CheckRoom, Undo, Return
<1>2. UNCHANGED <<ypc, yid>>
  BY <1>1 DEF yield
<1>3. Once' /\ \A i : Heard(i)' <=> Heard(i)
  BY <1>1, EventsSame
<1>4. CachedOnce' /\ Cached' \subseteq Cached
  <2>1. CASE CheckRoom(c)
    BY <2>1, CacheSame DEF CheckRoom, cache
  <2>2. CASE Undo(c)
    BY <2>2, CacheRemoved DEF Undo, TypeInv, CacheTypes, EventInv
  <2> QED
    BY <2>1, <2>2
<1>5. CachedNew' /\ AnswerNew'
  BY <1>2, <1>3, <1>4 DEF EventInv, CachedNew, AnswerNew
<1>6. \A i \in Ids : Known(i)' => Known(i)
  BY <1>1, <1>2, <1>3, <1>4 DEF Known
<1>7. \A d \in Callers : Adding(d)' => Adding(d)
  BY DEF CheckRoom, Undo, Return, Adding, TypeInv, CallerTypes
<1>8. KnownIds' /\ AddedNew'
  BY <1>1, <1>6, <1>7, KnownLess
<1> QED
  BY <1>3, <1>4, <1>5, <1>8 DEF EventInv

\* The steps of the yielding thread and of the clock: what they do to the cache
\* and to the events is all that counts.
LEMMA YieldEvents ==
  ASSUME TypeInv, EventInv, UNCHANGED caller, Once', CachedOnce', CachedNew', AnswerNew',
         \A i \in Ids : Known(i)' => Known(i)
  PROVE  EventInv'
<1>1. UNCHANGED <<pc, report_id>>
  BY DEF caller
<1>2. KnownIds' /\ AddedNew'
  BY <1>1, KnownLess DEF Adding
<1> QED
  BY <1>2 DEF EventInv

LEMMA ReadEvents ==
  ASSUME TypeInv, EventInv,
         \/ \E i \in Ids : ReadReply(i)
         \/ RemoveReplied \/ ReadEnd \/ TickEnd \/ DispatchEnd \/ Age
  PROVE  EventInv'
<1>1. UNCHANGED <<caller, msg_list, got>>
  BY DEF ReadReply, RemoveReplied, ReadEnd, TickEnd, DispatchEnd, Age
<1>2. Once' /\ \A i : Heard(i)' <=> Heard(i)
  BY <1>1, EventsSame
<1>3. CASE \E i \in Ids : ReadReply(i)
  <2>1. PICK i \in Ids : ReadReply(i)
    BY <1>3
  <2>2. /\ ypc = "read" /\ i \in cloud /\ cloud' = cloud \ {i} /\ yid' = i
        /\ ypc' = IF i \in Cached THEN "reply" ELSE "remove"
    BY <2>1 DEF ReadReply
  <2>3. CachedOnce' /\ Cached' = Cached
    BY <2>1, CacheSame DEF ReadReply, cache
  <2>4. \A j \in Cached : ~Heard(j)
    BY <2>2 DEF EventInv, CachedNew
  <2>5. CachedNew' /\ AnswerNew'
    BY <1>2, <2>2, <2>3, <2>4 DEF CachedNew, AnswerNew
  <2>6. \A j \in Ids : Known(j)' => Known(j)
    BY <1>2, <2>2, <2>3 DEF Known
  <2> QED
    BY <1>1, <1>2, <2>3, <2>5, <2>6, YieldEvents
<1>4. CASE RemoveReplied
  <2>1. /\ ypc = "remove" /\ CacheRemove(yid) /\ ypc' = "read" /\ yid' = 0 /\ UNCHANGED cloud
    BY <1>4 DEF RemoveReplied
  <2>2. CachedOnce' /\ Cached' = Cached \ {yid}
    BY <2>1, CacheRemoved DEF TypeInv, CacheTypes, EventInv
  <2>3. CachedNew' /\ AnswerNew'
    BY <1>2, <2>1, <2>2 DEF EventInv, CachedNew, AnswerNew
  <2>4. \A j \in Ids : Known(j)' => Known(j)
    BY <1>2, <2>1, <2>2 DEF Known, Ids
  <2> QED
    BY <1>1, <1>2, <2>2, <2>3, <2>4, YieldEvents
<1>5. CASE ReadEnd \/ TickEnd \/ DispatchEnd
  <2>1. ypc # "remove" /\ ypc' # "reply" /\ ypc' # "remove" /\ UNCHANGED <<yid, cloud, cache>>
    BY <1>5 DEF ReadEnd, TickEnd, DispatchEnd
  <2>2. CachedOnce' /\ Cached' = Cached
    BY <2>1, CacheSame DEF cache
  <2>3. CachedNew' /\ AnswerNew'
    BY <1>2, <2>1, <2>2 DEF EventInv, CachedNew, AnswerNew
  <2>4. \A j \in Ids : Known(j)' => Known(j)
    BY <1>2, <2>1, <2>2 DEF Known
  <2> QED
    BY <1>1, <1>2, <2>2, <2>3, <2>4, YieldEvents
<1>6. CASE Age
  <2>1. /\ DOMAIN dmc_list' = DOMAIN dmc_list
        /\ \A m \in DOMAIN dmc_list : dmc_list'[m].id = dmc_list[m].id
        /\ UNCHANGED <<yield, cloud>>
    BY <1>6, Aged DEF TypeInv, CacheTypes
  <2>2. CachedOnce' /\ Cached' = Cached
    BY <2>1 DEF EventInv, CachedOnce, Cached
  <2>3. CachedNew' /\ AnswerNew'
    BY <1>2, <2>1, <2>2 DEF EventInv, CachedNew, AnswerNew, yield
  <2>4. \A j \in Ids : Known(j)' => Known(j)
    BY <1>2, <2>1, <2>2 DEF Known, yield
  <2> QED
    BY <1>1, <1>2, <2>2, <2>3, <2>4, YieldEvents
<1> QED
  BY <1>3, <1>4, <1>5, <1>6

\* An event for a request that has none is the first and only one.
LEMMA FirstEvent ==
  ASSUME TypeInv, EventInv, NEW i \in Ids, ~Heard(i), SendToUser(i), UNCHANGED got
  PROVE  Once' /\ \A j \in Ids : Heard(j)' => Heard(j) \/ j = i
<1>1. /\ QueuedOnce' /\ \A j \in Ids : Queued(j)' => Queued(j) \/ j = i
  BY EventSent, DmAssumption DEF TypeInv, EventInv, Once, Heard
<1>2. got[i] = 0 /\ got' = got
  BY DEF Heard
<1>3. Once'
  BY <1>1, <1>2 DEF EventInv, Once
<1> QED
  BY <1>1, <1>2, <1>3 DEF Heard

LEMMA DeliverEvents ==
  ASSUME TypeInv, EventInv, DeliverReply
  PROVE  EventInv'
<1>1. /\ ypc = "reply" /\ SendToUser(yid) /\ ypc' = "remove"
      /\ UNCHANGED <<caller, cache, yid, cloud, got>>
  BY DEF DeliverReply
<1>2. yid \in Ids /\ ~Heard(yid)
  BY <1>1 DEF TypeInv, OtherTypes, EventInv, AnswerNew
<1>3. Once' /\ \A j \in Ids : Heard(j)' => Heard(j) \/ j = yid
  BY <1>1, <1>2, FirstEvent
<1>4. CachedOnce' /\ Cached' = Cached /\ Cached \subseteq Ids
  BY <1>1, CacheSame, CachedIds DEF cache, TypeInv, CacheTypes
<1>5. CachedNew' /\ AnswerNew'
  BY <1>1, <1>3, <1>4 DEF EventInv, CachedNew, AnswerNew
<1>6. \A j \in Ids : Known(j)' => Known(j)
  BY <1>1, <1>3, <1>4 DEF Known
<1> QED
  BY <1>1, <1>3, <1>4, <1>5, <1>6, YieldEvents

LEMMA FadeOutEvents ==
  ASSUME TypeInv, EventInv, FadeOut
  PROVE  EventInv'
<1> DEFINE i == Head(dmc_list).id
<1>1. /\ ypc \in {"tick", "fade"} /\ dmc_list # <<>> /\ dmc_list' = Tail(dmc_list)
      /\ SendToUser(i) /\ ypc' = "fade" /\ UNCHANGED <<caller, yid, cloud, got>>
  BY DEF FadeOut, TimeOver
<1>2. i \in Cached /\ CachedOnce' /\ Cached' = Cached \ {i} /\ Cached \subseteq Ids
  BY <1>1, CacheFaded, CachedIds DEF TypeInv, CacheTypes, EventInv
<1> HIDE DEF i
<1>3. i \in Ids /\ ~Heard(i)
  BY <1>1, <1>2 DEF EventInv, CachedNew
<1>4. Once' /\ \A j \in Ids : Heard(j)' => Heard(j) \/ j = i
  BY <1>1, <1>3, FirstEvent
<1>5. CachedNew' /\ AnswerNew'
  BY <1>1, <1>2, <1>4 DEF EventInv, CachedNew, AnswerNew
<1>6. \A j \in Ids : Known(j)' => Known(j)
  BY <1>1, <1>2, <1>4 DEF Known
<1> QED
  BY <1>1, <1>2, <1>4, <1>5, <1>6, YieldEvents

LEMMA ReadDownEvents ==
  ASSUME TypeInv, EventInv, ReadDown
  PROVE  EventInv'
<1>1. msg_list' = Append(msg_list, Down) /\ UNCHANGED <<caller, cache, yield, cloud, got>>
  BY DEF ReadDown
<1>2. msg_list \in Seq(Ids \cup {Down}) /\ Down \notin Ids
  BY DEF TypeInv, OtherTypes, Down, Ids
<1>3. /\ DOMAIN msg_list' = 1 .. Len(msg_list) + 1 /\ DOMAIN msg_list = 1 .. Len(msg_list)
      /\ Len(msg_list) \in Nat
      /\ \A k \in 1 .. Len(msg_list) : msg_list'[k] = msg_list[k]
      /\ msg_list'[Len(msg_list) + 1] = Down
  BY <1>1, <1>2, AppendElements
<1>4. \A l \in 1 .. Len(msg_list) + 1 : l \in 1 .. Len(msg_list) \/ l = Len(msg_list) + 1
  BY <1>3
<1>5. \A j \in Ids : Queued(j)' => Queued(j)
  BY <1>2, <1>3, <1>4 DEF Queued
<1>6. QueuedOnce'
  BY <1>2, <1>3, <1>4 DEF EventInv, Once, QueuedOnce
<1>7. Once' /\ \A j \in Ids : Heard(j)' => Heard(j)
  BY <1>1, <1>5, <1>6 DEF EventInv, Once, Heard
<1>8. CachedOnce' /\ Cached' = Cached /\ Cached \subseteq Ids /\ UNCHANGED <<ypc, yid>>
  BY <1>1, CacheSame, CachedIds DEF cache, yield, TypeInv, CacheTypes
<1>9. CachedNew' /\ AnswerNew'
  BY <1>7, <1>8 DEF EventInv, CachedNew, AnswerNew, TypeInv, OtherTypes
<1>10. \A j \in Ids : Known(j)' => Known(j)
  BY <1>1, <1>7, <1>8 DEF Known
<1> QED
  BY <1>1, <1>7, <1>8, <1>9, <1>10, YieldEvents

LEMMA DispatchEvents ==
  ASSUME TypeInv, EventInv, Dispatch
  PROVE  EventInv'
<1>1. /\ ypc = "dispatch" /\ msg_list # <<>> /\ msg_list' = Tail(msg_list)
      /\ got' = [i \in Ids |-> IF i = Head(msg_list) THEN got[i] + 1 ELSE got[i]]
      /\ UNCHANGED <<caller, cache, ypc, yid, cloud>>
  BY DEF Dispatch
<1>2. msg_list \in Seq(Ids \cup {Down})
  BY DEF TypeInv, OtherTypes
<1>3. /\ 1 \in DOMAIN msg_list /\ Head(msg_list) = msg_list[1]
      /\ \A k \in DOMAIN msg_list' : k + 1 \in DOMAIN msg_list /\ msg_list'[k] = msg_list[k + 1]
  BY <1>1, <1>2, TailElements
<1>4. \A k \in DOMAIN msg_list' : k \in Nat \ {0}
  <2>1. msg_list' \in Seq(Ids \cup {Down})
    BY <1>1, <1>2, HeadTailProperties
  <2> QED
    BY <2>1, LenProperties
<1>5. \A j \in Ids : Queued(j)' => Queued(j)
  BY <1>3 DEF Queued
<1>6. QueuedOnce'
  <2> SUFFICES ASSUME NEW j \in DOMAIN msg_list', NEW k \in DOMAIN msg_list',
                      msg_list'[j] \in Ids, msg_list'[j] = msg_list'[k]
               PROVE  j = k
    BY DEF QueuedOnce
  <2>1. j + 1 = k + 1
    BY <1>3 DEF EventInv, Once, QueuedOnce
  <2> QED
    BY <1>4, <2>1
<1>7. ASSUME NEW j \in Ids, j = Head(msg_list) PROVE got[j] = 0 /\ ~Queued(j)'
  <2>1. Queued(j)
    BY <1>3, <1>7 DEF Queued
  <2>2. got[j] = 0
    BY <2>1 DEF EventInv, Once
  <2>3. ASSUME NEW k \in DOMAIN msg_list', msg_list'[k] = j PROVE FALSE
    <3>1. k + 1 = 1
      BY <1>3, <1>7, <2>3 DEF EventInv, Once, QueuedOnce
    <3> QED
      BY <1>4, <3>1
  <2> QED
    BY <2>2, <2>3 DEF Queued
<1>8. got \in [Ids -> {0, 1}]
  BY DEF EventInv, Once
<1>9. got' \in [Ids -> {0, 1}]
  BY <1>1, <1>7, <1>8
<1>10. \A j \in Ids : got'[j] = 1 => ~Queued(j)'
  BY <1>1, <1>5, <1>7, <1>8 DEF EventInv, Once
<1>11. \A j \in Ids : Heard(j)' => Heard(j)
  BY <1>1, <1>3, <1>5 DEF Heard, Queued
<1>12. Once'
  BY <1>6, <1>9, <1>10 DEF Once
<1>13. CachedOnce' /\ Cached' = Cached /\ Cached \subseteq Ids
  BY <1>1, CacheSame, CachedIds DEF cache, TypeInv, CacheTypes
<1>14. CachedNew' /\ AnswerNew'
  BY <1>1, <1>11, <1>13 DEF EventInv, CachedNew, AnswerNew
<1>15. \A j \in Ids : Known(j)' => Known(j)
  BY <1>1, <1>11, <1>13 DEF Known
<1> QED
  BY <1>1, <1>12, <1>13, <1>14, <1>15, YieldEvents

LEMMA EventNext == TypeInv /\ EventInv /\ [Next]_vars => EventInv'
<1> SUFFICES ASSUME TypeInv, EventInv, [Next]_vars PROVE EventInv'
  OBVIOUS
<1>1. CASE UNCHANGED vars
  <2>1. UNCHANGED <<caller, cache, yield, msg_list, cloud, got>>
    BY <1>1 DEF vars
  <2>2. Once' /\ CachedOnce' /\ Cached' = Cached /\ \A i : Heard(i)' <=> Heard(i)
    BY <2>1, EventsSame, CacheSame DEF cache
  <2>3. CachedNew' /\ AnswerNew'
    BY <2>1, <2>2 DEF EventInv, CachedNew, AnswerNew, yield
  <2>4. \A j \in Ids : Known(j)' => Known(j)
    BY <2>1, <2>2 DEF Known, yield
  <2> QED
    BY <2>1, <2>2, <2>3, <2>4, YieldEvents
<1>2. CASE \E c \in Callers : Report(c) \/ CallerStep(c)
  BY <1>2, ReportEvents, InsertEvents, SendEvents, CallerEvents DEF CallerStep
<1>3. CASE Next
  BY <1>2, <1>3, ReadEvents, DeliverEvents, FadeOutEvents, ReadDownEvents, DispatchEvents
     DEF Next, YieldStep
<1> QED
  BY <1>1, <1>3

\* The type of every variable, with the bounds of the size counter and of the
\* queue of dm_ipc.c.
THEOREM DmTypes == Spec => []DmTypeOK
<1>1. TypeInv /\ EventInv => DmTypeOK
  <2> SUFFICES ASSUME TypeInv, EventInv PROVE DmTypeOK
    OBVIOUS
  <2>1. got \in [Ids -> 0 .. MaxId]
    BY DmAssumption DEF EventInv, Once, Ids
  <2> QED
    BY <2>1 DEF TypeInv, CallerTypes, CacheTypes, OtherTypes, DmTypeOK
<1> QED
  BY <1>1, TypeInit, TypeNext, EventInit, EventNext, PTL DEF Spec

\* The application has at most one event for a request, whatever the order of
\* its answer, its time-out and the end of its send.
THEOREM OneEventEach == Spec => []OneEvent
<1>1. TypeInv /\ EventInv => OneEvent
  <2> SUFFICES ASSUME TypeInv, EventInv, NEW i \in Ids
               PROVE  /\ EventsOf(i) <= 1
                      /\ i \in Cached /\ ~(ypc = "remove" /\ yid = i) => EventsOf(i) = 0
    BY DEF OneEvent
  <2> DEFINE Places == {n \in DOMAIN msg_list : msg_list[n] = i}
  <2>1. got[i] \in {0, 1}
    BY DEF EventInv, Once
  <2>2. ~Queued(i) => Cardinality(Places) = 0
    <3>1. ~Queued(i) => Places = {}
      BY DEF Queued
    <3> QED
      BY <3>1, FS_EmptySet
  <2>3. Queued(i) => Cardinality(Places) = 1 /\ got[i] = 0
    <3>1. ASSUME Queued(i) PROVE \E n \in DOMAIN msg_list : Places = {n}
      <4>1. PICK n \in DOMAIN msg_list : msg_list[n] = i
        BY <3>1 DEF Queued
      <4>2. \A m \in DOMAIN msg_list : msg_list[m] = i => m = n
        BY <4>1 DEF EventInv, Once, QueuedOnce
      <4>3. Places = {n}
        BY <4>1, <4>2
      <4> QED
        BY <4>3
    <3>2. Queued(i) => got[i] = 0
      BY <2>1 DEF EventInv, Once
    <3> QED
      BY <3>1, <3>2, FS_Singleton
  <2>4. EventsOf(i) = got[i] + Cardinality(Places)
    BY DEF EventsOf
  <2> HIDE DEF Places
  <2>5. EventsOf(i) <= 1 /\ (~Heard(i) => EventsOf(i) = 0)
    BY <2>1, <2>2, <2>3, <2>4 DEF Heard
  <2>6. i \in Cached /\ ~(ypc = "remove" /\ yid = i) => ~Heard(i)
    BY DEF EventInv, CachedNew
  <2> QED
    BY <2>5, <2>6
<1> QED
  BY <1>1, TypeInit, TypeNext, EventInit, EventNext, PTL DEF Spec
=============================================================================
