----------------------------- MODULE KVMapProofs -----------------------------
(***************************************************************************)
(* What KVStoreProofs does not say, about the meaning of the items.  With  *)
(* two blocks one of them is always left for the collector.  Until the     *)
(* power fails the store is the map of KVMap, for any number of blocks and *)
(* any geometry.  And wherever and however often the power fails, kv_init  *)
(* leaves at most one item of each key, never an old or a torn one, and,   *)
(* as long as the collector has its block, loses none outside the copying. *)
(***************************************************************************)
EXTENDS KVStoreProofs, KVRecovery

-----------------------------------------------------------------------------
(* The reserved block of a store of two blocks.                            *)

LEMMA ReserveStep ==
  ASSUME NB = KV_RESERVED_BLOCKS + 1, StoreInv, ReserveInv, Next
  PROVE  ReserveInv'
<1> USE Geometry DEF StoreInv, LayoutInv, ReserveInv, ReserveHeld, Booting, Scanning, Calling, Deleting, Formatting,
        KV_RESERVED_BLOCKS
<1>0. clean \in Int
  BY DEF TypeOK
<1>1. ASSUME NEW k \in Keys, NEW v \in Vals, ItemSet(k, v) PROVE ReserveInv'
  BY <1>1 DEF ItemSet
<1>2. ASSUME NEW k \in Keys, ItemDelete(k) PROVE ReserveInv'
  BY <1>2 DEF ItemDelete
<1>3. ASSUME NEW K \in Prefixes, DeleteByPrefix(K) PROVE ReserveInv'
  BY <1>3 DEF DeleteByPrefix, ram
<1>4. CASE GcStart
  BY <1>4 DEF GcStart
<1>5. CASE CalcFull \/ CalcSkip \/ CalcTake
  BY <1>5 DEF CalcFull, CalcSkip, CalcTake
<1>6. CASE ItemStore
  BY <1>6 DEF ItemStore
<1>7. CASE ItemDel
  BY <1>7 DEF ItemDel, ram, regs, ControlOk
<1>8. CASE ItemDelDirty
  BY <1>8 DEF ItemDelDirty, regs, ControlOk
<1>9. CASE Ack
  BY <1>9 DEF Ack, Return, ram
<1>10. CASE SkipGarbage
  BY <1>10 DEF SkipGarbage, OnCell, InBlock, Walks
<1>11. CASE PrefixItem
  BY <1>11 DEF PrefixItem, OnLive, OnCell, InBlock, ram
<1>12. CASE PrefixNextBlock
  BY <1>12 DEF PrefixNextBlock, OnEnd, InBlock, Return
<1>13. CASE BlockErase
  BY <1>13 DEF BlockErase, ram, regs
<1>14. CASE BlockFormat
  BY <1>0, <1>14 DEF BlockFormat, regs, ControlOk
<1>15. CASE GcCopy
  BY <1>15 DEF GcCopy, OnLive, OnCell, InBlock
<1>16. CASE GcCopied
  BY <1>16 DEF GcCopied, OnEnd, InBlock
<1>17. CASE GcMark
  BY <1>0, <1>17 DEF GcMark, Return
<1>18. CASE ScanHeader
  BY <1>18 DEF ScanHeader
<1>19. CASE ScanItem
  <2>1. pc = "scan" /\ ((pc' = pc /\ ret' = ret) \/ (pc' = "del" /\ ret' = "scan"))
    BY <1>19, Zenon DEF ScanItem, OnLive, OnCell, InBlock
  <2> QED
    BY <2>1
<1>20. CASE ScanEnd
  BY <1>20 DEF ScanEnd
<1>21. CASE ScanNext
  BY <1>21 DEF ScanNext
<1>22. CASE UncleanBlock
  <2>1. pc = "unclean" /\ (pc' = pc \/ (pc' = "erase" /\ ret' = "unclean"))
    BY <1>22 DEF UncleanBlock
  <2> QED
    BY <2>1
<1>23. CASE UncleanDone
  BY <1>23 DEF UncleanDone
<1>24. CASE ChooseWritePos
  <2>1. clean \in Nat /\ clean # 0
    BY <1>24, CountedFinite DEF ChooseWritePos, CountOk
  <2>2. pc' = "idle" /\ (clean' = clean \/ (clean = NB /\ clean' = clean - 1))
    BY <1>24 DEF ChooseWritePos, Return
  <2> QED
    BY <2>1, <2>2
<1>25. CASE PowerFail
  BY <1>25 DEF PowerFail, PowerOn
<1> QED
  BY <1>1, <1>2, <1>3, <1>4, <1>5, <1>6, <1>7, <1>8, <1>9, <1>10, <1>11, <1>12, <1>13, <1>14,
     <1>15, <1>16, <1>17, <1>18, <1>19, <1>20, <1>21, <1>22, <1>23, <1>24, <1>25
     DEF Next, Operation, Progress

LEMMA ReserveAlways ==
  ASSUME NB = KV_RESERVED_BLOCKS + 1
  PROVE  Spec => []ReserveInv
<1>1. Init => ReserveInv
  BY DEF Init, ReserveInv, ReserveHeld, Booting, Scanning
<1>2. StoreInv /\ ReserveInv /\ [Next]_vars => ReserveInv'
  <2>1. StoreInv /\ ReserveInv /\ UNCHANGED vars => ReserveInv'
    BY DEF vars, ReserveInv, ReserveHeld, Booting, Scanning, Calling
  <2> QED
    BY <2>1, ReserveStep
<1> QED
  BY <1>1, <1>2, BookkeepingIsExact, PTL DEF Spec

\* In a store of two blocks one is CLEAN whenever no operation of kv.c is under
\* way, so that kv_gc_task always has a block to collect into, also after any
\* number of power failures.
THEOREM ReserveIsKept ==
  ASSUME NB = KV_RESERVED_BLOCKS + 1
  PROVE  Spec => []Reserved
<1>1. ReserveInv => Reserved
  BY DEF ReserveInv, ReserveHeld, Reserved, Booting, Scanning, Calling, Deleting, Formatting
<1> QED
  BY <1>1, ReserveAlways, PTL
-----------------------------------------------------------------------------
(* The map of KVMap.                                                       *)

\* The map and the call under way, as KVMap sees them.
Dict == [k \in Keys |-> Lookup(k)]
Req  == [keys |-> IF pc \in {"calc", "store", "ack"} \/ (pc \in {"del", "dirty"} /\ ret = "ack")
                    THEN {op.key} ELSE op.sel,
         val  |-> op.val]

Stepped == [Map!Next]_Map!vars

LEMMA MapUnchanged ==
  ASSUME Dict' = Dict, Req' = Req, crashes' = crashes
  PROVE  Stepped
<1> QED
  BY DEF Stepped, Map!vars, Dict, Req

\* Nothing is promised once the power has failed.
LEMMA MapDown ==
  ASSUME crashes' # 0
  PROVE  Stepped
<1> QED
  BY DEF Stepped, Map!Next, Map!PowerFail

LEMMA MapCall ==
  ASSUME Dict' = Dict, Req = [keys |-> {}, val |-> NoVal],
         \/ \E k \in Keys, v \in Vals : Req' = [keys |-> {k}, val |-> v]
         \/ \E K \in SUBSET Keys : Req' = [keys |-> K, val |-> NoVal]
  PROVE  Stepped
<1>1. ASSUME NEW k \in Keys, NEW v \in Vals, Req' = [keys |-> {k}, val |-> v] PROVE Map!Serve
  <2>1. Map!Call({k}, v)
    BY <1>1 DEF Map!Call, Map!Idle, Dict, Req
  <2> QED
    BY <2>1 DEF Map!Serve
<1>2. ASSUME NEW K \in SUBSET Keys, Req' = [keys |-> K, val |-> NoVal] PROVE Map!Serve
  <2>1. Map!Call(K, NoVal)
    BY <1>2 DEF Map!Call, Map!Idle, Dict, Req
  <2> QED
    BY <2>1 DEF Map!Serve
<1> QED
  BY <1>1, <1>2, MapDown DEF Stepped, Map!Next

LEMMA MapApply ==
  ASSUME NEW k \in Req.keys, k \in Keys, Dict' = [Dict EXCEPT ![k] = Req.val], Req' = Req
  PROVE  Stepped
<1>1. Map!Apply(k)
  BY DEF Map!Apply, Dict, Req
<1>2. Map!Serve
  BY <1>1 DEF Map!Serve
<1> QED
  BY <1>2, MapDown DEF Stepped, Map!Next

LEMMA MapReturn ==
  ASSUME Dict' = Dict, Req' = [keys |-> {}, val |-> NoVal],
         (\A k \in Req.keys : Dict[k] = Req.val) \/ (\A k \in Req.keys : Dict[k] # Req.val)
  PROVE  Stepped
<1>1. CASE \A k \in Req.keys : Dict[k] = Req.val
  <2>1. Map!Succeed
    BY <1>1 DEF Map!Succeed, Map!Idle, Dict, Req
  <2> QED
    BY <2>1, MapDown DEF Stepped, Map!Next, Map!Serve
<1>2. CASE \A k \in Req.keys : Dict[k] # Req.val
  <2>1. Map!Fail
    BY <1>2 DEF Map!Fail, Map!Idle, Dict, Req
  <2> QED
    BY <2>1, MapDown DEF Stepped, Map!Next, Map!Serve
<1> QED
  BY <1>1, <1>2

LEMMA ChooseOne == \A v : (CHOOSE x \in {v} : TRUE) = v
  OBVIOUS

\* The value of a key is that of its only item.
LEMMA OneValue ==
  ASSUME Single, NEW k \in Keys
  PROVE  /\ Updating(k) => Lookup(k) = op.val
         /\ ~Updating(k) /\ Seen(k) = {} => Lookup(k) = NoVal
         /\ \A p \in Seen(k) : ~Updating(k) => Lookup(k) = CellAt(p).val
<1>1. Visible(k) = {CellAt(p).val : p \in Seen(k)}
  BY DEF Visible, Seen, Shown
<1>2. ASSUME NEW p \in Seen(k), ~Updating(k) PROVE Lookup(k) = CellAt(p).val
  <2>1. Seen(k) = {p}
    BY <1>2 DEF Single
  <2>2. Visible(k) = {CellAt(p).val}
    BY <1>1, <2>1
  <2> QED
    BY <1>2, <2>2, ChooseOne DEF Lookup, Updating
<1> QED
  BY <1>1, <1>2 DEF Lookup, Updating

LEMMA OneValueNext ==
  ASSUME Single', NEW k \in Keys
  PROVE  /\ Updating(k)' => Lookup(k)' = op'.val
         /\ ~Updating(k)' /\ Seen(k)' = {} => Lookup(k)' = NoVal
         /\ \A p \in Seen(k)' : ~Updating(k)' => Lookup(k)' = CellAt(p)'.val
<1>1. Visible(k)' = {CellAt(p)'.val : p \in Seen(k)'}
  BY DEF Visible, Seen, Shown
<1>2. ASSUME NEW p \in Seen(k)', ~Updating(k)' PROVE Lookup(k)' = CellAt(p)'.val
  <2>1. Seen(k)' = {p}
    BY <1>2 DEF Single
  <2>2. Visible(k)' = {CellAt(p)'.val}
    BY <1>1, <2>1
  <2> QED
    BY <1>2, <2>2, ChooseOne DEF Lookup, Updating
<1> QED
  BY <1>1, <1>2 DEF Lookup, Updating

\* A step that neither writes the log nor shows or hides a block with items
\* leaves the map as it is.
LEMMA SeenFrame ==
  ASSUME log' = log, \A b \in Blocks : Empty(log[b]) \/ (Shown(b)' <=> Shown(b))
  PROVE  /\ \A k : Seen(k)' = Seen(k)
         /\ \A p : CellAt(p)' = CellAt(p)
<1>1. \A p : CellAt(p)' = CellAt(p)
  BY DEF CellAt
<1>2. ASSUME NEW k, NEW p \in Pos PROVE p \in Seen(k)' <=> p \in Seen(k)
  <2>1. p[1] \in Blocks /\ p[2] \in Offs
    BY DEF Pos
  <2>2. IsLive(p[1], p[2], k)' <=> IsLive(p[1], p[2], k)
    BY DEF IsLive
  <2>3. Empty(log[p[1]]) => ~IsLive(p[1], p[2], k)
    BY <2>1 DEF Empty, IsLive, Erased
  <2> QED
    BY <2>1, <2>2, <2>3 DEF Seen
<1>3. ASSUME NEW k PROVE Seen(k)' = Seen(k)
  BY <1>2 DEF Seen
<1> QED
  BY <1>1, <1>3

LEMMA SingleFrame ==
  ASSUME Single, \A k : Seen(k)' = Seen(k), \A k : \A p \in Seen(k) : CellAt(p)' = CellAt(p),
         \A k \in Keys : ~Updating(k) /\ ~Updating(k)'
  PROVE  Single' /\ Dict' = Dict
<1>1. Single'
  BY DEF Single
<1>2. ASSUME NEW k \in Keys PROVE Lookup(k)' = Lookup(k)
  <2>1. CASE Seen(k) = {}
    BY <1>1, <2>1, OneValue, OneValueNext
  <2>2. ASSUME NEW p \in Seen(k) PROVE Lookup(k)' = Lookup(k)
    <3>1. Lookup(k) = CellAt(p).val
      BY <2>2, OneValue
    <3>2. Lookup(k)' = CellAt(p)'.val
      BY <2>2, <1>1, OneValueNext
    <3> QED
      BY <3>1, <3>2
  <2> QED
    BY <2>1, <2>2
<1> QED
  BY <1>1, <1>2 DEF Dict

\* Nothing is stored in an empty flash.
LEMMA SeenNothing ==
  ASSUME \A b \in Blocks : Empty(log[b])
  PROVE  \A k : Seen(k) = {}
<1> QED
  BY DEF Empty, Seen, IsLive, Erased, Pos

LEMMA SeenNothingNext ==
  ASSUME \A b \in Blocks : Empty(log'[b])
  PROVE  \A k : Seen(k)' = {}
<1> QED
  BY DEF Empty, Seen, IsLive, Erased, Pos

\* The log does not change, so the cells stay apart.
LEMMA ApartFrame ==
  ASSUME Apart, log' = log
  PROVE  Apart'
BY DEF Apart

\* When an operation returns, nothing but the map is left to say.
LEMMA Returned ==
  ASSUME Single', Apart', pc' = "idle", op' = NoOp
  PROVE  Whole' /\ Req' = [keys |-> {}, val |-> NoVal]
<1> USE DEF Booting, Scanning, Collecting, Copying, Prefixing, Calling, Deleting, Formatting
<1>1. BootEmpty' /\ Cleared' /\ Copied'
  BY DEF BootEmpty, Cleared, Copied
<1>2. CallOk'
  BY DEF CallOk
<1>3. Req' = [keys |-> {}, val |-> NoVal]
  BY DEF Req, NoOp
<1> QED
  BY <1>1, <1>2, <1>3 DEF Whole

LEMMA IdleReq ==
  ASSUME Whole, pc = "idle" \/ Booting \/ Collecting
  PROVE  op = NoOp /\ Req = [keys |-> {}, val |-> NoVal]
<1>1. op = NoOp
  BY DEF Whole, CallOk
<1>2. pc \notin {"calc", "store", "ack"} /\ ~(pc \in {"del", "dirty"} /\ ret = "ack")
  BY DEF Booting, Scanning, Collecting, Calling, Deleting, Formatting
<1> QED
  BY <1>1, <1>2 DEF Req, NoOp

\* The steps of kv_init on an empty flash.
LEMMA BootMap ==
  ASSUME Whole, Booting, \A b \in Blocks : Empty(log'[b]), pc' # "del", Booting' \/ pc' = "idle",
         op' = op, crashes' = crashes
  PROVE  Whole' /\ Stepped
<1> USE DEF Booting, Scanning, Collecting, Copying, Prefixing, Calling, Deleting, Formatting
<1>1. op = NoOp /\ Req = [keys |-> {}, val |-> NoVal]
  BY IdleReq
<1>2. (\A k : Seen(k) = {}) /\ (\A k : Seen(k)' = {})
  BY SeenNothing, SeenNothingNext DEF Whole, BootEmpty
<1>3. \A k \in Keys : ~Updating(k) /\ ~Updating(k)'
  BY DEF Updating
<1>4. Single' /\ Dict' = Dict
  BY <1>2, <1>3, SingleFrame DEF Whole
<1>5. Apart'
  BY DEF Apart, Empty
<1>6. BootEmpty' /\ Cleared' /\ Copied'
  BY DEF BootEmpty, Cleared, Copied
<1>7. CallOk'
  BY <1>1 DEF CallOk
<1>8. Req' = Req
  BY <1>1 DEF Req, NoOp
<1> QED
  BY <1>4, <1>5, <1>6, <1>7, <1>8, MapUnchanged DEF Whole

LEMMA BootSteps ==
  ASSUME StoreInv, Whole, Booting,
         \/ ScanHeader \/ ScanEnd \/ ScanNext \/ UncleanBlock \/ UncleanDone \/ ChooseWritePos
         \/ BlockErase \/ BlockFormat \/ ItemDelDirty
  PROVE  Whole' /\ Stepped
<1> USE DEF Booting, Scanning, Calling, Deleting, Formatting
<1>0. \A b \in Blocks : Empty(log[b])
  BY DEF Whole, BootEmpty
<1>1. CASE ScanHeader
  <2>1. log' = log /\ op' = op /\ crashes' = crashes
    BY <1>1 DEF ScanHeader, flash, hist
  <2>2. Booting' /\ pc' # "del"
    BY <1>1 DEF ScanHeader
  <2> QED
    BY <1>0, <2>1, <2>2, BootMap
<1>2. CASE ScanEnd
  BY <1>0, <1>2, BootMap DEF ScanEnd, OnEnd, InBlock, flash, hist
<1>3. CASE ScanNext
  BY <1>0, <1>3, BootMap DEF ScanNext, flash, hist
<1>4. CASE UncleanBlock
  <2>1. pc = "unclean" /\ (pc' = pc \/ (pc' = "erase" /\ ret' = "unclean"))
    BY <1>4 DEF UncleanBlock
  <2>2. log' = log /\ op' = op /\ crashes' = crashes
    BY <1>4 DEF UncleanBlock, hist
  <2> QED
    BY <1>0, <2>1, <2>2, BootMap
<1>5. CASE UncleanDone
  BY <1>0, <1>5, BootMap DEF UncleanDone, flash, hist
<1>6. CASE ChooseWritePos
  <2>1. log' = log /\ pc' = "idle" /\ op' = NoOp /\ crashes' = crashes
    BY <1>6 DEF ChooseWritePos, Return
  <2>2. op = NoOp
    BY IdleReq
  <2> QED
    BY <1>0, <2>1, <2>2, BootMap
<1>7. CASE BlockErase
  <2>1. pc' = "format" /\ ret' = ret /\ op' = op /\ crashes' = crashes
    BY <1>7 DEF BlockErase, regs, hist
  <2>2. \A b \in Blocks : Empty(log'[b])
    BY <1>0, <1>7 DEF BlockErase, Empty, StoreInv, LayoutInv, TypeOK
  <2> QED
    BY <1>7, <2>1, <2>2, BootMap DEF BlockErase
<1>8. CASE BlockFormat
  <2>1. pc = "format" /\ pc' = ret /\ log' = log /\ op' = op /\ crashes' = crashes
    BY <1>8 DEF BlockFormat, regs, hist
  <2> QED
    BY <1>0, <2>1, BootMap
<1>9. CASE ItemDelDirty
  <2>1. pc = "dirty" /\ pc' = ret /\ log' = log /\ op' = op /\ crashes' = crashes
    BY <1>9 DEF ItemDelDirty, regs, hist
  <2> QED
    BY <1>0, <2>1, BootMap
<1> QED
  BY <1>1, <1>2, <1>3, <1>4, <1>5, <1>6, <1>7, <1>8, <1>9

\* kv_init meets no item.
LEMMA BootNoItem ==
  ASSUME StoreInv, Whole, Booting
  PROVE  ~SkipGarbage /\ ~ScanItem /\ ~ItemDel
<1> USE DEF StoreInv, LayoutInv
<1>0. \A b \in Blocks : Empty(log[b])
  BY DEF Whole, BootEmpty
<1>1. ~OnCell("scan")
  <2> SUFFICES ASSUME OnCell("scan") PROVE FALSE
    OBVIOUS
  <2>1. cur[1] \in Blocks /\ cur[2] \in Offs /\ Here # Erased
    BY WalkOn DEF Walks
  <2> QED
    BY <1>0, <2>1 DEF Empty, Here
<1>2. pc # "prefix" /\ pc # "gccopy"
  BY DEF Booting, Scanning, Calling, Deleting, Formatting
<1>3. ~SkipGarbage /\ ~ScanItem
  BY <1>1, <1>2 DEF SkipGarbage, ScanItem, OnLive, OnCell, InBlock, Walks
<1>4. ~ItemDel
  <2> SUFFICES ASSUME pc = "del" PROVE FALSE
    BY DEF ItemDel
  <2>1. IsItem(op.old)
    BY DEF ControlOk
  <2> QED
    BY <1>0, <2>1 DEF IsItem, Empty, Erased, Pos
<1> QED
  BY <1>3, <1>4

\* kv_item_search finds an item of the key, or there is none.
LEMMA SearchSeen ==
  ASSUME StoreInv, pc = "idle", NEW k \in Keys
  PROVE  \/ Search(k) = NoPos /\ Seen(k) = {}
         \/ Search(k) \in Seen(k)
<1>1. Seen(k) = Found(k)
  BY DEF Seen, Found, Shown, Moved
<1>2. CASE Found(k) = {}
  BY <1>1, <1>2 DEF Search
<1>3. CASE Found(k) # {}
  <2>1. Found(k) \in SUBSET Pos
    BY DEF Found
  <2>2. \E p \in Found(k) : \A q \in Found(k) \ {p} : Before(p, q)
    BY <1>3, <2>1, LexMin
  <2>3. Search(k) \in Found(k)
    BY <1>3, <2>2 DEF Search
  <2> QED
    BY <1>1, <2>3
<1> QED
  BY <1>2, <1>3

\* A search shows and hides nothing.
LEMMA SearchMap ==
  ASSUME StoreInv, Whole, pc = "idle", NEW p, SearchEffects(p), log' = log, ~Moved',
         \A k \in Keys : ~Updating(k)'
  PROVE  /\ \A k : Seen(k)' = Seen(k)
         /\ \A q : CellAt(q)' = CellAt(q)
         /\ Single' /\ Dict' = Dict /\ Apart'
<1>1. \A b \in Blocks : state'[b] = "CLEAN" <=> state[b] = "CLEAN"
  BY SearchQuiet DEF StoreInv
<1>2. \A b \in Blocks : Shown(b)' <=> Shown(b)
  BY <1>1 DEF Shown, Moved
<1>3. (\A k : Seen(k)' = Seen(k)) /\ (\A q : CellAt(q)' = CellAt(q))
  BY <1>2, SeenFrame
<1>4. \A k \in Keys : ~Updating(k)
  BY DEF Updating
<1>5. Single' /\ Dict' = Dict
  BY <1>3, <1>4, SingleFrame DEF Whole
<1> QED
  BY <1>3, <1>5, ApartFrame DEF Whole

\* The operation goes on with a search behind it.
LEMMA Called ==
  ASSUME Single', Apart', pc' \in {"calc", "store"} \/ Calling({"del"}, "ack")', CallOk'
  PROVE  Whole'
<1> USE DEF Booting, Scanning, Collecting, Copying, Prefixing, Calling, Deleting, Formatting
<1>1. BootEmpty' /\ Cleared' /\ Copied'
  BY DEF BootEmpty, Cleared, Copied
<1> QED
  BY <1>1 DEF Whole

LEMMA ItemSetMap ==
  ASSUME StoreInv, Whole, NEW k \in Keys, NEW v \in Vals, ItemSet(k, v)
  PROVE  Whole' /\ Stepped
<1> USE DEF Calling, Deleting, Formatting
<1> DEFINE p == Search(k)
<1>1. pc = "idle" /\ SearchEffects(p) /\ log' = log /\ crashes' = crashes
  BY DEF ItemSet
<1>2. op = NoOp /\ Req = [keys |-> {}, val |-> NoVal]
  BY <1>1, IdleReq
<1>3. CASE pc' = "idle"
  <2>1. op' = op
    BY <1>3 DEF ItemSet, regs
  <2>2. Single' /\ Dict' = Dict /\ Apart'
    BY <1>1, <1>3, SearchMap DEF Moved, Updating
  <2>3. Whole' /\ Req' = Req
    BY <1>2, <1>3, <2>1, <2>2, Returned
  <2> QED
    BY <1>1, <2>2, <2>3, MapUnchanged
<1>4. CASE pc' # "idle"
  <2>1. /\ pc' \in {"calc", "store"} /\ StoredVal(p) # v
        /\ op' = [NoOp EXCEPT !.key = k, !.val = v, !.old = p]
    BY <1>1, <1>4 DEF ItemSet
  <2>2. op'.key = k /\ op'.val = v /\ op'.old = p
    BY <2>1 DEF NoOp
  <2>3. /\ \A i : Seen(i)' = Seen(i)
        /\ \A q : CellAt(q)' = CellAt(q)
        /\ Single' /\ Dict' = Dict /\ Apart'
    BY <1>1, <2>1, SearchMap DEF Moved, Updating
  <2>4. (p = NoPos /\ Seen(k) = {}) \/ (p \in Seen(k) /\ p # NoPos)
    <3>1. Seen(k) \subseteq Pos /\ NoPos \notin Pos
      BY NoOpType DEF Seen
    <3> QED
      BY <1>1, <3>1, SearchSeen
  <2>5. (p = NoPos /\ Seen(k) = {}) \/ (p \in Seen(k) /\ CellAt(p).val # v)
    BY <2>1, <2>4 DEF StoredVal
  <2> HIDE DEF p
  <2>6. CallOk'
    BY <2>1, <2>2, <2>3, <2>5 DEF CallOk, Booting, Scanning, Collecting, Prefixing
  <2>7. Req' = [keys |-> {k}, val |-> v]
    BY <2>1, <2>2 DEF Req
  <2> QED
    BY <1>1, <1>2, <2>1, <2>3, <2>6, <2>7, Called, MapCall
<1> QED
  BY <1>3, <1>4

LEMMA ItemDeleteMap ==
  ASSUME StoreInv, Whole, NEW k \in Keys, ItemDelete(k)
  PROVE  Whole' /\ Stepped
<1> USE DEF Calling, Deleting, Formatting
<1> DEFINE p == Search(k)
<1>1. pc = "idle" /\ SearchEffects(p) /\ log' = log /\ crashes' = crashes
  BY DEF ItemDelete
<1>2. op = NoOp /\ Req = [keys |-> {}, val |-> NoVal]
  BY <1>1, IdleReq
<1>3. CASE p = NoPos
  <2>1. op' = op /\ pc' = pc
    BY <1>3 DEF ItemDelete
  <2>2. Single' /\ Dict' = Dict /\ Apart'
    BY <1>1, <2>1, SearchMap DEF Moved, Updating
  <2>3. Whole' /\ Req' = Req
    BY <1>1, <1>2, <2>1, <2>2, Returned
  <2> QED
    BY <1>1, <2>2, <2>3, MapUnchanged
<1>4. CASE p # NoPos
  <2>1. pc' = "del" /\ ret' = "ack" /\ op' = [NoOp EXCEPT !.key = k, !.old = p]
    BY <1>4 DEF ItemDelete
  <2>2. op'.key = k /\ op'.val = NoVal /\ op'.old = p
    BY <2>1 DEF NoOp
  <2>3. /\ \A i : Seen(i)' = Seen(i)
        /\ \A q : CellAt(q)' = CellAt(q)
        /\ Single' /\ Dict' = Dict /\ Apart'
    BY <1>1, <2>1, <2>2, SearchMap DEF Moved, Updating
  <2>4. p \in Seen(k) /\ CellAt(p).key = k
    BY <1>1, <1>4, SearchSeen DEF Seen, IsLive, CellAt
  <2> HIDE DEF p
  <2>5. CallOk'
    BY <2>1, <2>2, <2>3, <2>4 DEF CallOk, Booting, Scanning, Collecting, Prefixing
  <2>6. Req' = [keys |-> {k}, val |-> NoVal] /\ {k} \in SUBSET Keys
    BY <2>1, <2>2 DEF Req
  <2> QED
    BY <1>1, <1>2, <2>1, <2>3, <2>5, <2>6, Called, MapCall
<1> QED
  BY <1>3, <1>4

LEMMA DeleteByPrefixMap ==
  ASSUME StoreInv, Whole, NEW K \in Prefixes, DeleteByPrefix(K)
  PROVE  Whole' /\ Stepped
<1> USE Geometry DEF Calling, Deleting, Formatting
<1>1. /\ pc = "idle" /\ pc' = "prefix" /\ cur' = <<0, BHdr>> /\ op' = [NoOp EXCEPT !.sel = K]
      /\ log' = log /\ state' = state /\ wpos' = wpos /\ crashes' = crashes
  BY DEF DeleteByPrefix, flash, ram
<1>2. op'.sel = K /\ op'.val = NoVal /\ K \in SUBSET Keys
  BY <1>1, KVAssumption DEF NoOp
<1>3. Req = [keys |-> {}, val |-> NoVal] /\ Req' = [keys |-> K, val |-> NoVal]
  BY <1>1, <1>2, IdleReq DEF Req
<1>4. \A b \in Blocks : Shown(b)' <=> Shown(b)
  BY <1>1 DEF Shown, Moved
<1>5. (\A k : Seen(k)' = Seen(k)) /\ (\A q : CellAt(q)' = CellAt(q))
  BY <1>1, <1>4, SeenFrame
<1>6. Single' /\ Dict' = Dict
  BY <1>1, <1>5, SingleFrame DEF Whole, Updating
<1>7. CallOk'
  BY <1>1, <1>2 DEF CallOk, Booting, Scanning, Collecting, Prefixing
<1>8. Cleared'
  <2>1. \A q \in Pos : q[1] > 0 \/ (q[1] = 0 /\ q[2] >= BHdr)
    BY KVAssumption DEF Pos, Blocks, Offs
  <2> QED
    BY <1>1, <2>1 DEF Cleared, Seen
<1>9. BootEmpty' /\ Copied' /\ Apart'
  BY <1>1, ApartFrame DEF Whole, BootEmpty, Copied, Copying, Booting, Scanning
<1> QED
  BY <1>1, <1>2, <1>3, <1>6, <1>7, <1>8, <1>9, MapCall DEF Whole

\* kv_calc_position outside a collection: a CLEAN block is empty.
LEMMA CalcEmpty ==
  ASSUME StoreInv, pc = "calc", NEW b \in Blocks, state[b] = "CLEAN"
  PROVE  Empty(log[b])
<1>1. Uncounted = {} /\ ~Collecting
  BY DEF StoreInv, LayoutInv, UncleanOk, Uncounted, Scanning, Collecting, Calling, Deleting, Formatting
<1> QED
  BY <1>1 DEF StoreInv, LayoutInv, CleanEmpty

LEMMA CalcFullMap ==
  ASSUME StoreInv, Whole, CalcFull
  PROVE  Whole' /\ Stepped
<1>1. /\ pc = "calc" /\ pc' = "idle" /\ op' = NoOp /\ crashes' = crashes
      /\ log' = log /\ state' = state /\ wpos' = wpos
  BY DEF CalcFull, Return, flash
<1>2. \A b \in Blocks : Shown(b)' <=> Shown(b)
  BY <1>1 DEF Shown, Moved
<1>3. (\A k : Seen(k)' = Seen(k)) /\ (\A q : CellAt(q)' = CellAt(q))
  BY <1>1, <1>2, SeenFrame
<1>4. \A k \in Keys : ~Updating(k) /\ ~Updating(k)'
  BY <1>1 DEF Updating
<1>5. Single' /\ Dict' = Dict
  BY <1>3, <1>4, SingleFrame DEF Whole
<1>6. Whole' /\ Req' = [keys |-> {}, val |-> NoVal]
  BY <1>1, <1>5, Returned, ApartFrame DEF Whole
<1>7. op.key \in Keys /\ op.val \in Vals /\ op.val # NoVal
  BY <1>1, KVAssumption DEF StoreInv, LayoutInv, ControlOk, TypeOK
<1>8. Lookup(op.key) # op.val
  BY <1>1, <1>4, <1>7, OneValue DEF Whole, CallOk
<1>9. \A k \in Req.keys : Dict[k] # Req.val
  BY <1>1, <1>7, <1>8 DEF Req, Dict
<1> QED
  BY <1>1, <1>5, <1>6, <1>9, MapReturn

LEMMA CalcMap ==
  ASSUME StoreInv, Whole, CalcSkip \/ CalcTake
  PROVE  Whole' /\ Stepped
<1> USE DEF Calling, Deleting, Formatting
<1>1. /\ pc = "calc" /\ pc' \in {"calc", "store"} /\ op' = op /\ crashes' = crashes /\ log' = log
  BY DEF CalcSkip, CalcTake, flash, regs, hist
<1>2. \A b \in Blocks : (state'[b] # state[b]) => state[b] = "CLEAN"
  BY DEF CalcSkip, CalcTake, ram, SetBlockState, StoreInv, LayoutInv, TypeOK
<1>3. \A b \in Blocks : Empty(log[b]) \/ (Shown(b)' <=> Shown(b))
  BY <1>1, <1>2, CalcEmpty DEF Shown, Moved
<1>4. (\A k : Seen(k)' = Seen(k)) /\ (\A q : CellAt(q)' = CellAt(q))
  BY <1>1, <1>3, SeenFrame
<1>5. \A k \in Keys : ~Updating(k) /\ ~Updating(k)'
  BY <1>1 DEF Updating
<1>6. Single' /\ Dict' = Dict /\ Apart'
  BY <1>1, <1>4, <1>5, SingleFrame, ApartFrame DEF Whole
<1>7. CallOk'
  BY <1>1, <1>4 DEF Whole, CallOk, Booting, Scanning, Collecting, Prefixing
<1>8. Req' = Req
  BY <1>1 DEF Req
<1> QED
  BY <1>1, <1>6, <1>7, <1>8, Called, MapUnchanged

LEMMA AckMap ==
  ASSUME StoreInv, Whole, Ack
  PROVE  Whole' /\ Stepped
<1>1. /\ pc = "ack" /\ pc' = "idle" /\ op' = NoOp /\ crashes' = crashes
      /\ log' = log /\ state' = state /\ wpos' = wpos
  BY DEF Ack, Return, flash, ram
<1>2. \A b \in Blocks : Shown(b)' <=> Shown(b)
  BY <1>1 DEF Shown, Moved
<1>3. (\A k : Seen(k)' = Seen(k)) /\ (\A q : CellAt(q)' = CellAt(q))
  BY <1>1, <1>2, SeenFrame
<1>4. \A k \in Keys : ~Updating(k) /\ ~Updating(k)'
  BY <1>1 DEF Updating
<1>5. Single' /\ Dict' = Dict
  BY <1>3, <1>4, SingleFrame DEF Whole
<1>6. Whole' /\ Req' = [keys |-> {}, val |-> NoVal]
  BY <1>1, <1>5, Returned, ApartFrame DEF Whole
<1>7. op.key \in Keys
  BY DEF StoreInv, LayoutInv, TypeOK
<1>8. Lookup(op.key) = op.val
  BY <1>1, <1>4, <1>7, OneValue DEF Whole, CallOk
<1>9. \A k \in Req.keys : Dict[k] = Req.val
  BY <1>1, <1>7, <1>8 DEF Req, Dict
<1> QED
  BY <1>1, <1>5, <1>6, <1>9, MapReturn

\* A cell is written behind the others.
LEMMA Programmed ==
  ASSUME StoreInv, Apart, Writing, NEW c, log' = [log EXCEPT ![wpos[1]][wpos[2]] = c]
  PROVE  /\ wpos \in Pos /\ log[wpos[1]][wpos[2]] = Erased
         /\ log'[wpos[1]][wpos[2]] = c
         /\ \A q \in Pos : q # wpos => log'[q[1]][q[2]] = log[q[1]][q[2]]
         /\ Apart'
<1> USE Geometry
<1>1. /\ wpos \in Pos /\ wpos[1] \in Blocks /\ wpos[2] \in Offs
      /\ log[wpos[1]] \in BlockLog /\ Packed(log[wpos[1]], wpos[2])
      /\ wpos = <<wpos[1], wpos[2]>>
  BY WritingFits DEF StoreInv, Pos
<1>2. log[wpos[1]][wpos[2]] = Erased
  BY <1>1, PackedEnd
<1>3. /\ log'[wpos[1]][wpos[2]] = c
      /\ \A b \in Blocks, o \in Offs : b # wpos[1] \/ o # wpos[2] => log'[b][o] = log[b][o]
  BY <1>1 DEF StoreInv, LayoutInv, TypeOK, BlockLog
<1>4. \A q \in Pos : q[1] \in Blocks /\ q[2] \in Offs /\ q = <<q[1], q[2]>>
  BY DEF Pos
<1>5. \A q \in Pos : q # wpos => log'[q[1]][q[2]] = log[q[1]][q[2]]
  BY <1>1, <1>3, <1>4, ZenonT(40)
<1>6. Apart'
  <2> SUFFICES ASSUME NEW b \in Blocks, NEW o \in Offs, NEW x \in Offs,
                      log'[b][o] # Erased, log'[b][x] # Erased, o < x
               PROVE  o + CellLen(log'[b][o]) <= x
    BY DEF Apart, CellLen
  <2>1. CASE b # wpos[1] \/ (o # wpos[2] /\ x # wpos[2])
    BY <1>3, <2>1 DEF Apart
  <2>2. CASE b = wpos[1] /\ x = wpos[2]
    <3>1. log'[b][o] = log[b][o]
      BY <1>3, <2>2
    <3> QED
      BY <1>1, <2>2, <3>1 DEF Packed
  <2>3. CASE b = wpos[1] /\ o = wpos[2]
    <3>1. log[b][x] # Erased /\ log[b] \in BlockLog
      BY <1>1, <1>3, <2>3
    <3>2. x + CellLen(log[b][x]) <= wpos[2] /\ CellLen(log[b][x]) \in Nat
      BY <1>1, <2>3, <3>1, CellLenBound DEF Packed, BlockLog
    <3> QED
      BY <2>3, <3>2
  <2> QED
    BY <2>1, <2>2, <2>3
<1> QED
  BY <1>1, <1>2, <1>3, <1>5, <1>6

LEMMA Appended ==
  ASSUME StoreInv, Apart, Writing, log' = [log EXCEPT ![wpos[1]][wpos[2]] = Written]
  PROVE  /\ wpos \in Pos /\ log[wpos[1]][wpos[2]] = Erased
         /\ log'[wpos[1]][wpos[2]] = Written /\ Written \in Item
         /\ \A q \in Pos : q # wpos => log'[q[1]][q[2]] = log[q[1]][q[2]]
         /\ Apart'
<1>1. Written \in Item
  BY WritingFits DEF StoreInv
<1> QED
  BY <1>1, Programmed

\* The new item is added to those of its key.
LEMMA Stored ==
  ASSUME StoreInv, Whole, ItemStore, NEW k, k = op.key, NEW n, n = wpos
  PROVE  /\ n \in Pos /\ k \in Keys /\ op.val \in Vals /\ op.val # NoVal
         /\ Seen(k)' = Seen(k) \union {n}
         /\ \A i : i # k => Seen(i)' = Seen(i)
         /\ \A i : n \notin Seen(i)
         /\ \A q \in Pos : q # n => CellAt(q)' = CellAt(q)
         /\ CellAt(n)' = NewItem(k, op.val, op.old)
         /\ \/ op.old = NoPos /\ Seen(k) = {}
            \/ op.old \in Seen(k) /\ op.old # NoPos /\ Seen(k) = {op.old}
         /\ Apart'
<1> USE DEF Calling, Deleting, Formatting
<1>1. /\ pc = "store" /\ pc' = (IF op.old = NoPos THEN "ack" ELSE "del") /\ ret' = "ack"
      /\ op' = op /\ crashes' = crashes /\ state' = state /\ cur' = cur
      /\ log' = [log EXCEPT ![wpos[1]][wpos[2]] = Written]
  BY DEF ItemStore, Program, Written, hist
<1>2. k \in Keys /\ op.val \in Vals /\ op.val # NoVal
  BY <1>1, KVAssumption DEF StoreInv, LayoutInv, ControlOk, TypeOK
<1>3. /\ wpos \in Pos /\ log[wpos[1]][wpos[2]] = Erased
      /\ log'[wpos[1]][wpos[2]] = Written
      /\ \A q \in Pos : q # wpos => log'[q[1]][q[2]] = log[q[1]][q[2]]
      /\ Apart'
  BY <1>1, Appended DEF Whole, Writing
<1>4. Written.kind = "item" /\ Written.state = "NORMAL" /\ Written.key = k /\ Written.val = op.val
  BY <1>1 DEF Written, NewItem
<1>5. state[wpos[1]] # "CLEAN"
  BY <1>1 DEF StoreInv, LayoutInv, WritePosOk, Booting, Scanning, Collecting
<1>6. \A b : Shown(b)' <=> Shown(b)
  BY <1>1 DEF Shown, Moved
<1>7. \A i : wpos \notin Seen(i) /\ (wpos \in Seen(i)' <=> i = k)
  BY <1>3, <1>4, <1>5, <1>6 DEF Seen, IsLive, Erased, Shown
<1>8. \A i : \A q \in Pos : q # wpos => (q \in Seen(i)' <=> q \in Seen(i))
  BY <1>3, <1>6 DEF Seen, IsLive
<1>9. \A q \in Pos : q # wpos => CellAt(q)' = CellAt(q)
  BY <1>3 DEF CellAt
<1>10. CellAt(n)' = NewItem(k, op.val, op.old)
  BY <1>1, <1>3 DEF CellAt, Written
<1>11. \A i : Seen(i) \subseteq Pos /\ Seen(i)' \subseteq Pos
  BY DEF Seen
<1>12. Seen(k)' = Seen(k) \cup {wpos}
  BY <1>3, <1>7, <1>8, <1>11
<1>13. ASSUME NEW i, i # k PROVE Seen(i)' = Seen(i)
  <2>1. \A q \in Pos : q \in Seen(i)' <=> q \in Seen(i)
    BY <1>13, <1>7, <1>8
  <2> QED
    BY <1>11, <2>1
<1>14. ~Updating(k)
  BY <1>1 DEF Updating
<1>15. \/ op.old = NoPos /\ Seen(k) = {}
       \/ op.old \in Seen(k) /\ op.old # NoPos /\ Seen(k) = {op.old}
  <2>1. (op.old = NoPos /\ Seen(k) = {}) \/ op.old \in Seen(k)
    BY <1>1 DEF Whole, CallOk
  <2>2. \A p, q \in Seen(k) : p = q
    BY <1>2, <1>14 DEF Whole, Single
  <2>3. NoPos \notin Pos
    BY NoOpType
  <2> QED
    BY <2>1, <2>2, <2>3, <1>11
<1> QED
  BY <1>2, <1>3, <1>7, <1>9, <1>10, <1>12, <1>13, <1>15

LEMMA ItemStoreMap ==
  ASSUME StoreInv, Whole, ItemStore
  PROVE  Whole' /\ Stepped
<1> USE DEF Calling, Deleting, Formatting
<1>k. PICK k : k = op.key
  OBVIOUS
<1>n. PICK n : n = wpos
  OBVIOUS
<1>1. /\ pc = "store" /\ pc' = (IF op.old = NoPos THEN "ack" ELSE "del") /\ ret' = "ack"
      /\ op' = op /\ crashes' = crashes /\ state' = state /\ cur' = cur
  BY DEF ItemStore, hist
<1>2. /\ k \in Keys /\ op.val \in Vals /\ op.val # NoVal
      /\ Seen(k)' = Seen(k) \union {n}
      /\ \A i : i # k => Seen(i)' = Seen(i)
      /\ \A i : n \notin Seen(i)
      /\ \A q \in Pos : q # n => CellAt(q)' = CellAt(q)
      /\ CellAt(n)' = NewItem(k, op.val, op.old)
      /\ \/ op.old = NoPos /\ Seen(k) = {}
         \/ op.old \in Seen(k) /\ op.old # NoPos /\ Seen(k) = {op.old}
      /\ Apart'
  BY <1>k, <1>n, Stored
<1>11. \A i : Seen(i) \subseteq Pos
  BY DEF Seen
<1>14. \A i \in Keys : ~Updating(i) /\ (i # k => ~Updating(i)')
  BY <1>k, <1>1 DEF Updating
<1>17. CellAt(n)'.val = op.val
  BY <1>2 DEF NewItem
<1>18. Updating(k)' <=> op.old # NoPos
  BY <1>k, <1>1, <1>2 DEF Updating
<1>19. Single'
  <2> SUFFICES ASSUME NEW i \in Keys
               PROVE  IF Updating(i)'
                        THEN \E z \in Seen(i)' : z # op'.old /\ CellAt(z)'.val = op'.val /\ Seen(i)' = {op'.old, z}
                        ELSE \A p, q \in Seen(i)' : p = q
    BY DEF Single
  <2>1. CASE i # k
    BY <1>2, <1>14, <2>1 DEF Whole, Single
  <2>2. CASE i = k /\ op.old = NoPos
    BY <1>2, <1>18, <2>2
  <2>3. CASE i = k /\ op.old # NoPos
    <3>2. n \in Seen(i)' /\ n # op'.old /\ CellAt(n)'.val = op'.val /\ Seen(i)' = {op'.old, n}
      BY <1>1, <1>2, <1>17, <2>3
    <3> QED
      BY <1>18, <2>3, <3>2
  <2> QED
    BY <2>1, <2>2, <2>3
<1>20. \A i \in Keys : i # k => Lookup(i)' = Lookup(i)
  <2> SUFFICES ASSUME NEW i \in Keys, i # k PROVE Lookup(i)' = Lookup(i)
    OBVIOUS
  <2>1. ~Updating(i) /\ ~Updating(i)' /\ Seen(i)' = Seen(i)
    BY <1>2, <1>14
  <2>2. CASE Seen(i) = {}
    BY <1>19, <2>1, <2>2, OneValue, OneValueNext DEF Whole
  <2>3. ASSUME NEW q \in Seen(i) PROVE Lookup(i)' = Lookup(i)
    <3>1. CellAt(q)' = CellAt(q)
      BY <1>2, <1>11
    <3>2. Lookup(i) = CellAt(q).val
      BY <2>1, OneValue DEF Whole
    <3>3. Lookup(i)' = CellAt(q)'.val
      BY <1>19, <2>1, OneValueNext
    <3> QED
      BY <3>1, <3>2, <3>3
  <2> QED
    BY <2>2, <2>3
<1>21. Lookup(k)' = op.val
  <2>1. CASE op.old # NoPos
    BY <1>1, <1>2, <1>18, <1>19, <2>1, OneValueNext
  <2>2. CASE op.old = NoPos
    <3>2. n \in Seen(k)'
      BY <1>2
    <3>3. Lookup(k)' = CellAt(n)'.val
      BY <1>2, <1>18, <1>19, <2>2, <3>2, OneValueNext
    <3> QED
      BY <1>17, <3>3
  <2> QED
    BY <2>1, <2>2
<1>22. Dict' = [Dict EXCEPT ![k] = op.val]
  BY <1>2, <1>20, <1>21 DEF Dict
<1>23. Req.keys = {k} /\ Req.val = op.val /\ Req' = Req
  BY <1>k, <1>1 DEF Req
<1>24. Stepped
  BY <1>1, <1>2, <1>22, <1>23, MapApply
<1>25. BootEmpty' /\ Cleared' /\ Copied'
  BY <1>1 DEF BootEmpty, Cleared, Copied, Booting, Scanning, Collecting, Copying, Prefixing
<1>26. CallOk'
  <2>1. CASE op.old = NoPos
    <3>1. n \in Seen(k)' /\ CellAt(n)'.val = op.val
      BY <1>2, <1>17
    <3> QED
      BY <1>k, <1>1, <1>2, <2>1, <3>1 DEF CallOk, Booting, Scanning, Collecting, Prefixing
  <2>2. CASE op.old # NoPos
    <3>1. op.old \in Seen(k) /\ op.old \in Pos /\ op.old # n
      BY <1>2, <1>11, <2>2
    <3>2. op'.old \in Seen(k)' /\ CellAt(op.old)' = CellAt(op.old) /\ CellAt(op.old).key = k
      BY <1>1, <1>2, <3>1 DEF Seen, IsLive, CellAt
    <3>3. pc' = "del" /\ op'.key = k /\ CellAt(op.old)'.key = k
      BY <1>k, <1>1, <2>2, <3>2
    <3> QED
      BY <1>1, <3>2, <3>3 DEF CallOk, Booting, Scanning, Collecting, Prefixing
  <2> QED
    BY <2>1, <2>2
<1> QED
  BY <1>2, <1>19, <1>24, <1>25, <1>26 DEF Whole

\* kv_item_del changes one byte of one item.
LEMMA MarkedCell ==
  ASSUME StoreInv, ItemDel, NEW o, o = op.old
  PROVE  /\ o \in Pos /\ CellAt(o) \in Item
         /\ CellAt(o)' = [CellAt(o) EXCEPT !.state = "DELETE"] /\ CellAt(o)'.state = "DELETE"
         /\ \A q \in Pos : q # o => CellAt(q)' = CellAt(q)
         /\ \A b \in Blocks : Empty(log[b])' <=> Empty(log[b])
         /\ Apart => Apart'
<1> USE Geometry
<1>1. pc = "del" /\ log' = [log EXCEPT ![o[1]][o[2]].state = "DELETE"] /\ IsItem(o)
  BY DEF ItemDel, StoreInv, LayoutInv, ControlOk
<1>2. /\ o \in Pos /\ o[1] \in Blocks /\ o[2] \in Offs /\ o = <<o[1], o[2]>>
      /\ CellAt(o).kind = "item" /\ CellAt(o) \in Cell
  BY <1>1 DEF IsItem, Pos, CellAt, StoreInv, LayoutInv, TypeOK
<1>4. CellAt(o) \in Item
  BY <1>2, CellLenBound
<1>5. PICK c : c = [CellAt(o) EXCEPT !.state = "DELETE"]
  OBVIOUS
<1>6. /\ c.state = "DELETE" /\ c.kind = "item" /\ c.val = CellAt(o).val /\ c # Erased
      /\ CellLen(c) = CellLen(CellAt(o))
  BY <1>2, <1>4, <1>5 DEF Item, Erased, CellLen
<1>7. /\ log'[o[1]][o[2]] = c
      /\ \A b \in Blocks, x \in Offs : b # o[1] \/ x # o[2] => log'[b][x] = log[b][x]
  BY <1>1, <1>2, <1>5 DEF CellAt, StoreInv, LayoutInv, TypeOK
<1>8. \A q \in Pos : q[1] \in Blocks /\ q[2] \in Offs /\ q = <<q[1], q[2]>>
  BY DEF Pos
<1>9. \A q \in Pos : q # o => log'[q[1]][q[2]] = log[q[1]][q[2]]
  BY <1>2, <1>7, <1>8, ZenonT(40)
<1>12. \A b \in Blocks, x \in Offs : /\ (log'[b][x] # Erased) = (log[b][x] # Erased)
                                     /\ CellLen(log'[b][x]) = CellLen(log[b][x])
  <2> SUFFICES ASSUME NEW b \in Blocks, NEW x \in Offs
               PROVE  /\ (log'[b][x] # Erased) = (log[b][x] # Erased)
                      /\ CellLen(log'[b][x]) = CellLen(log[b][x])
    OBVIOUS
  <2>1. CASE b # o[1] \/ x # o[2]
    BY <1>7, <2>1
  <2>2. CASE b = o[1] /\ x = o[2]
    BY <1>2, <1>6, <1>7, <2>2 DEF CellAt, Erased
  <2> QED
    BY <2>1, <2>2
<1>13. Apart => Apart'
  BY <1>12 DEF Apart, CellLen
<1>14. \A b \in Blocks : Empty(log[b])' <=> Empty(log[b])
  BY <1>12 DEF Empty
<1>15. \A q \in Pos : q # o => CellAt(q)' = CellAt(q)
  BY <1>9 DEF CellAt
<1>16. CellAt(o)' = c
  BY <1>7 DEF CellAt
<1> QED
  BY <1>2, <1>4, <1>5, <1>6, <1>13, <1>14, <1>15, <1>16

\* An item is marked as deleted.
LEMMA Marked ==
  ASSUME StoreInv, Whole, ItemDel, ~Booting
  PROVE  /\ op.old \in Pos /\ op.old \in Seen(CellAt(op.old).key) /\ CellAt(op.old).key \in Keys
         /\ \A i : Seen(i)' = Seen(i) \ {op.old}
         /\ \A q \in Pos : q # op.old => CellAt(q)' = CellAt(q)
         /\ Apart'
<1>o. PICK o : o = op.old
  OBVIOUS
<1>1. /\ pc = "del" /\ state' = state /\ wpos' = wpos /\ pc' \in {"dirty", ret}
      /\ ret \in {"ack", "prefix"}
  BY DEF ItemDel, ram, StoreInv, LayoutInv, ControlOk, Booting, Scanning, Calling, Deleting
<1>2. o \in Seen(CellAt(o).key)
  BY <1>o, <1>1 DEF Whole, CallOk
<1>3. /\ o \in Pos /\ CellAt(o) \in Item /\ CellAt(o)'.state = "DELETE"
      /\ \A q \in Pos : q # o => CellAt(q)' = CellAt(q)
      /\ Apart'
  BY <1>o, MarkedCell DEF Whole
<1>4. CellAt(o).key \in Keys
  BY <1>3 DEF Item
<1>10. \A b : Shown(b)' <=> Shown(b)
  BY <1>1 DEF Shown, Moved
<1>11. ASSUME NEW i PROVE Seen(i)' = Seen(i) \ {o}
  <2>1. o \notin Seen(i)'
    BY <1>3 DEF Seen, IsLive, CellAt
  <2>2. \A q \in Pos : q # o => (q \in Seen(i)' <=> q \in Seen(i))
    BY <1>3, <1>10 DEF Seen, IsLive, CellAt
  <2>3. Seen(i) \subseteq Pos /\ Seen(i)' \subseteq Pos
    BY DEF Seen
  <2> QED
    BY <2>1, <2>2, <2>3
<1> QED
  BY <1>o, <1>2, <1>3, <1>4, <1>11

LEMMA ItemDelMap ==
  ASSUME StoreInv, Whole, ItemDel, ~Booting
  PROVE  Whole' /\ Stepped
<1> USE DEF Calling, Deleting, Formatting
<1>1. /\ pc = "del" /\ pc' \in {"dirty", ret} /\ ret' = ret /\ op' = op /\ cur' = cur
      /\ crashes' = crashes /\ ret \in {"ack", "prefix"}
  BY DEF ItemDel, regs, hist, StoreInv, LayoutInv, ControlOk, Booting, Scanning
<1>2. /\ op.old \in Pos /\ op.old \in Seen(CellAt(op.old).key) /\ CellAt(op.old).key \in Keys
      /\ \A i : Seen(i)' = Seen(i) \ {op.old}
      /\ \A q \in Pos : q # op.old => CellAt(q)' = CellAt(q)
      /\ Apart'
  BY Marked
<1>3. PICK k \in Keys : k = CellAt(op.old).key
  BY <1>2
<1>4. \A i : i # k => op.old \notin Seen(i)
  BY <1>3 DEF Seen, IsLive, CellAt
<1>5. \A i : i # k => Seen(i)' = Seen(i)
  BY <1>2, <1>4
<1>6. \A i : ~Updating(i)'
  BY <1>1 DEF Updating
<1>7. \A i \in Keys : i # k => ~Updating(i)
  BY <1>1, <1>3 DEF Whole, CallOk, Updating
<1>8. Single'
  <2> SUFFICES ASSUME NEW i \in Keys, NEW p \in Seen(i)', NEW q \in Seen(i)' PROVE p = q
    BY <1>6 DEF Single
  <2>1. p \in Seen(i) /\ q \in Seen(i) /\ p # op.old /\ q # op.old
    BY <1>2
  <2> QED
    BY <2>1 DEF Whole, Single
<1>9. \A i \in Keys : i # k => Lookup(i)' = Lookup(i)
  <2> SUFFICES ASSUME NEW i \in Keys, i # k PROVE Lookup(i)' = Lookup(i)
    OBVIOUS
  <2>1. ~Updating(i) /\ ~Updating(i)' /\ Seen(i)' = Seen(i)
    BY <1>5, <1>6, <1>7
  <2>2. CASE Seen(i) = {}
    BY <1>8, <2>1, <2>2, OneValue, OneValueNext DEF Whole
  <2>3. ASSUME NEW q \in Seen(i) PROVE Lookup(i)' = Lookup(i)
    <3>1. CellAt(q)' = CellAt(q)
      BY <1>2, <1>4 DEF Seen
    <3>2. Lookup(i) = CellAt(q).val
      BY <2>1, OneValue DEF Whole
    <3>3. Lookup(i)' = CellAt(q)'.val
      BY <1>8, <2>1, OneValueNext
    <3> QED
      BY <3>1, <3>2, <3>3
  <2> QED
    BY <2>2, <2>3
<1>10. BootEmpty' /\ Copied'
  BY <1>1 DEF BootEmpty, Copied, Booting, Scanning, Copying
<1>11. CASE Updating(k)
  <2>1. PICK n \in Seen(k) : n # op.old /\ CellAt(n).val = op.val /\ Seen(k) = {op.old, n}
    BY <1>11 DEF Whole, Single
  <2>2. Seen(k)' = {n} /\ CellAt(n)' = CellAt(n)
    BY <1>2, <2>1 DEF Seen
  <2>3. Lookup(k)' = op.val /\ Lookup(k) = op.val
    BY <1>6, <1>8, <1>11, <2>1, <2>2, OneValue, OneValueNext DEF Whole
  <2>4. Dict' = Dict
    BY <1>9, <2>3 DEF Dict
  <2>5. ret = "ack" /\ k = op.key /\ op.val # NoVal
    BY <1>11 DEF Updating
  <2>6. Req' = Req
    BY <1>1, <2>5 DEF Req
  <2>7. Cleared'
    BY <1>1, <2>5 DEF Cleared, Prefixing
  <2>8. CallOk'
    BY <1>1, <2>1, <2>2, <2>5 DEF CallOk, Booting, Scanning, Collecting, Prefixing
  <2> QED
    BY <1>1, <1>2, <1>8, <1>10, <2>4, <2>6, <2>7, <2>8, MapUnchanged DEF Whole
<1>12. CASE ~Updating(k)
  <2>1. Seen(k) = {op.old}
    BY <1>2, <1>3, <1>12 DEF Whole, Single
  <2>2. Seen(k)' = {}
    BY <1>2, <2>1
  <2>3. Lookup(k)' = NoVal
    BY <1>6, <1>8, <2>2, OneValueNext
  <2>4. op.val = NoVal
    BY <1>1, <1>3, <1>12 DEF Whole, CallOk, Updating, Prefixing
  <2>5. Dict' = [Dict EXCEPT ![k] = op.val]
    BY <1>9, <2>3, <2>4 DEF Dict
  <2>6. k \in Req.keys /\ Req.val = op.val /\ Req' = Req
    BY <1>1, <1>3 DEF Req, Whole, CallOk
  <2>7. Stepped
    BY <1>1, <2>5, <2>6, MapApply
  <2>8. Cleared'
    BY <1>1, <1>2 DEF Whole, Cleared, Prefixing
  <2>9. CallOk'
    <3>1. ret = "ack" => op.key = k
      BY <1>1, <1>3 DEF Whole, CallOk
    <3> QED
      BY <1>1, <2>2, <2>4, <3>1 DEF CallOk, Booting, Scanning, Collecting, Prefixing
  <2> QED
    BY <1>2, <1>8, <1>10, <2>7, <2>8, <2>9 DEF Whole
<1> QED
  BY <1>11, <1>12

LEMMA ItemDelDirtyMap ==
  ASSUME StoreInv, Whole, ItemDelDirty, ~Booting
  PROVE  Whole' /\ Stepped
<1> USE DEF Calling, Deleting, Formatting
<1>1. /\ pc = "dirty" /\ pc' = ret /\ ret' = ret /\ op' = op /\ cur' = cur /\ log' = log /\ wpos' = wpos
      /\ crashes' = crashes /\ ret \in {"ack", "prefix"}
  BY DEF ItemDelDirty, regs, hist, StoreInv, LayoutInv, ControlOk, Booting, Scanning
<1>2. \A b \in Blocks : state'[b] = "CLEAN" <=> state[b] = "CLEAN"
  BY <1>1 DEF ItemDelDirty, SetBlockState, StoreInv, LayoutInv, TypeOK, ControlOk
<1>3. \A b \in Blocks : Shown(b)' <=> Shown(b)
  BY <1>1, <1>2 DEF Shown, Moved
<1>4. (\A k : Seen(k)' = Seen(k)) /\ (\A q : CellAt(q)' = CellAt(q))
  BY <1>1, <1>3, SeenFrame
<1>5. Single' /\ Dict' = Dict /\ Apart'
  BY <1>1, <1>4, SingleFrame, ApartFrame DEF Whole, Updating
<1>6. BootEmpty' /\ Copied'
  BY <1>1 DEF BootEmpty, Copied, Booting, Scanning, Copying
<1>7. CallOk'
  BY <1>1, <1>4 DEF Whole, CallOk, Booting, Scanning, Collecting, Prefixing
<1>8. Cleared'
  BY <1>1, <1>4 DEF Whole, Cleared, Prefixing
<1>9. Req' = Req
  BY <1>1 DEF Req
<1> QED
  BY <1>1, <1>5, <1>6, <1>7, <1>8, <1>9, MapUnchanged DEF Whole

\* A traversal that steps over a cell leaves that cell behind, and no other.
LEMMA Beyond ==
  ASSUME StoreInv, Apart, NEW w \in Walks, OnCell(w), NEW p \in Pos, p[1] = cur[1], CellAt(p) # Erased
  PROVE  /\ p[2] < cur[2] + CellLen(Here) <=> (p[2] < cur[2] \/ p = cur)
         /\ p[2] >= cur[2] + CellLen(Here) <=> (p[2] >= cur[2] /\ p # cur)
<1> USE Geometry
<1>1. /\ cur[1] \in Blocks /\ cur[2] \in Offs /\ cur \in Pos /\ cur = <<cur[1], cur[2]>>
      /\ Here \in Cell /\ Here # Erased /\ CellLen(Here) \in Nat
  BY WalkOn DEF StoreInv
<1>2. p[1] \in Blocks /\ p[2] \in Offs /\ p = <<p[1], p[2]>>
  BY DEF Pos
<1>3. CellLen(Here) > 0
  BY <1>1, CellLenBound
<1>4. p = cur <=> p[2] = cur[2]
  BY <1>1, <1>2
<1>5. cur[2] < p[2] => cur[2] + CellLen(Here) <= p[2]
  BY <1>1, <1>2 DEF Apart, Here, CellAt
<1>6. p[2] \in Nat /\ cur[2] \in Nat
  BY <1>1, <1>2
<1> QED
  BY <1>1, <1>3, <1>4, <1>5, <1>6

\* A step of a traversal that writes no cell and takes no block from CLEAN.
LEMMA WalkFrame ==
  ASSUME Whole, log' = log, pc' \notin {"format", "gcmark"}, pc \notin {"format", "gcmark"},
         \A b \in Blocks : state'[b] = "CLEAN" <=> state[b] = "CLEAN",
         \A k \in Keys : ~Updating(k) /\ ~Updating(k)'
  PROVE  /\ \A k : Seen(k)' = Seen(k)
         /\ \A q : CellAt(q)' = CellAt(q)
         /\ Single' /\ Dict' = Dict /\ Apart'
<1>1. \A b \in Blocks : Shown(b)' <=> Shown(b)
  BY DEF Shown, Moved
<1>2. (\A k : Seen(k)' = Seen(k)) /\ (\A q : CellAt(q)' = CellAt(q))
  BY <1>1, SeenFrame
<1> QED
  BY <1>2, SingleFrame, ApartFrame DEF Whole

LEMMA SkipGarbageMap ==
  ASSUME StoreInv, Whole, SkipGarbage, ~Booting
  PROVE  Whole' /\ Stepped
<1> USE DEF Calling, Deleting, Formatting
<1>1. PICK w \in Walks : OnCell(w)
  BY DEF SkipGarbage
<1>2. pc = w /\ w \in {"prefix", "gccopy"}
  BY <1>1 DEF OnCell, InBlock, Walks, Booting, Scanning
<1>3. /\ pc' = pc /\ ret' = ret /\ op' = op /\ log' = log /\ wpos' = wpos /\ crashes' = crashes
      /\ IsGarbage(Here)
  BY DEF SkipGarbage, hist
<1>4. cur' = <<cur[1], cur[2] + CellLen(Here)>>
  BY DEF SkipGarbage, Onward
<1>5. \A b \in Blocks : state'[b] = "CLEAN" <=> state[b] = "CLEAN"
  BY DEF SkipGarbage, SetBlockState, StoreInv, LayoutInv, TypeOK
<1>6. \A k \in Keys : ~Updating(k) /\ ~Updating(k)'
  BY <1>2, <1>3 DEF Updating
<1>7. /\ \A k : Seen(k)' = Seen(k)
      /\ \A q : CellAt(q)' = CellAt(q)
      /\ Single' /\ Dict' = Dict /\ Apart'
  BY <1>2, <1>3, <1>5, <1>6, WalkFrame
<1>8. \A k, p : IsLive(p[1], p[2], k) => p # cur /\ CellAt(p) # Erased
  BY <1>3 DEF IsLive, IsGarbage, Here, CellAt, Erased
<1>9. BootEmpty'
  BY <1>2, <1>3 DEF BootEmpty, Booting, Scanning
<1>10. CallOk'
  BY <1>2, <1>3 DEF Whole, CallOk, Booting, Scanning, Collecting, Prefixing
<1>11. Cleared'
  <2> SUFFICES ASSUME pc = "prefix", NEW k \in op.sel, NEW p \in Seen(k)
               PROVE  p[1] > cur'[1] \/ (p[1] = cur'[1] /\ p[2] >= cur'[2])
    BY <1>2, <1>3, <1>7 DEF Cleared, Prefixing
  <2>1. p[1] > cur[1] \/ (p[1] = cur[1] /\ p[2] >= cur[2])
    BY DEF Whole, Cleared, Prefixing
  <2>2. p \in Pos /\ p # cur /\ CellAt(p) # Erased
    BY <1>8 DEF Seen
  <2>3. p[1] = cur[1] /\ p[2] >= cur[2] => p[2] >= cur[2] + CellLen(Here)
    BY <1>1, <2>2, Beyond DEF Whole
  <2> QED
    BY <1>4, <2>1, <2>3
<1>12. Copied'
  <2> SUFFICES ASSUME pc = "gccopy" PROVE Copied'
    BY <1>2, <1>3 DEF Copied, Copying
  <2>1. \A k : Copies(k)' = Copies(k)
    BY <1>3 DEF Copies, IsLive
  <2>2. ASSUME NEW k PROVE Source(k)' = Source(k)
    <3>1. ASSUME NEW p \in Pos, p[1] = cur[1], IsLive(p[1], p[2], k)
          PROVE  p[2] < cur[2] + CellLen(Here) <=> p[2] < cur[2]
      BY <1>1, <1>8, <3>1, Beyond DEF Whole
    <3>2. \A p : IsLive(p[1], p[2], k)' <=> IsLive(p[1], p[2], k)
      BY <1>3 DEF IsLive
    <3>3. \A p \in Pos : p \in Source(k)' <=> p \in Source(k)
      BY <1>3, <1>4, <3>1, <3>2 DEF Source
    <3> QED
      BY <3>3 DEF Source
  <2>3. Copying
    BY DEF Copying
  <2> QED
    BY <1>7, <2>1, <2>2, <2>3 DEF Whole, Copied
<1>13. Req' = Req
  BY <1>3 DEF Req
<1> QED
  BY <1>3, <1>7, <1>9, <1>10, <1>11, <1>12, <1>13, MapUnchanged DEF Whole

\* kv_item_delete_by_prefix meets a live item.
LEMMA PrefixItemMap ==
  ASSUME StoreInv, Whole, PrefixItem
  PROVE  Whole' /\ Stepped
<1> USE DEF Calling, Deleting, Formatting
<1>c. PICK c : c = cur
  OBVIOUS
<1>1. /\ OnLive("prefix") /\ OnCell("prefix") /\ pc = "prefix" /\ "prefix" \in Walks
      /\ log' = log /\ wpos' = wpos /\ state' = state /\ crashes' = crashes
      /\ cur' = <<cur[1], cur[2] + CellLen(Here)>>
  BY DEF PrefixItem, OnLive, OnCell, InBlock, flash, ram, hist, Onward, Walks
<1>2. /\ \/ pc' = pc /\ op' = op /\ ret' = ret /\ Here.key \notin op.sel
         \/ pc' = "del" /\ ret' = "prefix" /\ op' = [op EXCEPT !.old = c] /\ Here.key \in op.sel
  BY <1>c DEF PrefixItem
<1>3. op.val = NoVal
  BY <1>1 DEF Whole, CallOk, Prefixing
<1>4. /\ op'.val = op.val /\ op'.key = op.key /\ op'.sel = op.sel
      /\ pc' = "del" => op'.old = c
  BY <1>1, <1>2 DEF StoreInv, LayoutInv, TypeOK
<1>5. /\ \A k : Seen(k)' = Seen(k)
      /\ \A q : CellAt(q)' = CellAt(q)
      /\ Single' /\ Dict' = Dict /\ Apart'
  BY <1>1, <1>2, WalkFrame DEF Updating
<1>6. c \in Pos /\ c[1] = cur[1] /\ Here \in Item /\ Here = CellAt(c) /\ Here.kind = "item" /\ ~IsGarbage(Here)
  BY <1>c, <1>1, LiveHere DEF StoreInv, IsItem, Here, CellAt, OnLive
<1>7. c \in Seen(Here.key)
  <2>1. Here.state = "NORMAL"
    BY <1>6 DEF Item, IsGarbage
  <2>2. Here # Erased
    BY <1>6 DEF Erased
  <2>3. unclean = {}
    BY <1>1 DEF StoreInv, LayoutInv, UncleanOk, Scanning
  <2>4. c[1] \in Blocks /\ c[2] \in Offs
    BY <1>6 DEF Pos
  <2>5. state[c[1]] # "CLEAN"
    BY <1>1, <1>6, <2>2, <2>3, <2>4
       DEF StoreInv, LayoutInv, CleanEmpty, Uncounted, Scanning, Collecting, Empty, CellAt
  <2> QED
    BY <1>6, <2>1, <2>5 DEF Seen, IsLive, Shown, CellAt
<1>8. BootEmpty' /\ Copied'
  BY <1>1, <1>2 DEF BootEmpty, Booting, Scanning, Copied, Copying
<1>9. CallOk'
  BY <1>1, <1>2, <1>3, <1>4, <1>5, <1>6, <1>7 DEF CallOk, Booting, Scanning, Collecting, Prefixing
<1>10. Cleared'
  <2> SUFFICES ASSUME NEW k \in op.sel, NEW p \in Seen(k)
               PROVE  \/ pc' = "del" /\ p = op'.old
                      \/ p[1] > cur'[1]
                      \/ p[1] = cur'[1] /\ p[2] >= cur'[2]
    BY <1>4, <1>5 DEF Cleared
  <2>1. p[1] > cur[1] \/ (p[1] = cur[1] /\ p[2] >= cur[2])
    BY <1>1 DEF Whole, Cleared, Prefixing
  <2>2. p \in Pos /\ CellAt(p) # Erased /\ CellAt(p).key = k
    BY DEF Seen, IsLive, CellAt, Erased
  <2>3. p[1] = cur[1] /\ p[2] >= cur[2] /\ p # c => p[2] >= cur[2] + CellLen(Here)
    BY <1>c, <1>1, <2>2, Beyond DEF Whole
  <2>4. p = c => pc' = "del" /\ op'.old = c
    BY <1>2, <1>4, <1>6, <2>2
  <2> QED
    BY <1>1, <2>1, <2>3, <2>4
<1>11. Req' = Req
  BY <1>1, <1>2, <1>4 DEF Req
<1> QED
  BY <1>1, <1>5, <1>8, <1>9, <1>10, <1>11, MapUnchanged DEF Whole

LEMMA PrefixNextBlockMap ==
  ASSUME StoreInv, Whole, PrefixNextBlock
  PROVE  Whole' /\ Stepped /\ (cur[1] + 1 = NB => \A k \in op.sel : Seen(k) = {})
<1> USE Geometry DEF Calling, Deleting, Formatting
<1>1. /\ OnEnd("prefix") /\ pc = "prefix" /\ "prefix" \in Walks
      /\ log' = log /\ wpos' = wpos /\ state' = state /\ crashes' = crashes
  BY DEF PrefixNextBlock, OnEnd, InBlock, flash, Walks
<1>2. \/ cur[1] + 1 = NB /\ pc' = "idle" /\ op' = NoOp
      \/ cur[1] + 1 # NB /\ cur' = <<cur[1] + 1, BHdr>> /\ pc' = pc /\ ret' = ret /\ op' = op
  BY DEF PrefixNextBlock, Return
<1>3. op.val = NoVal /\ op.sel \subseteq Keys
  BY <1>1 DEF Whole, CallOk, Prefixing, StoreInv, LayoutInv, TypeOK
<1>4. /\ \A k : Seen(k)' = Seen(k)
      /\ \A q : CellAt(q)' = CellAt(q)
      /\ Single' /\ Dict' = Dict /\ Apart'
  BY <1>1, <1>2, WalkFrame DEF Updating
<1>5. cur[1] \in Blocks /\ cur[2] \in Offs /\ log[cur[1]] \in BlockLog /\ Packed(log[cur[1]], cur[2])
  BY <1>1, WalkEnd DEF StoreInv
<1>6. ASSUME NEW k \in op.sel, NEW p \in Seen(k) PROVE p[1] > cur[1] /\ p \in Pos /\ p[1] \in Blocks /\ p[2] \in Offs
  <2>1. p[1] > cur[1] \/ (p[1] = cur[1] /\ p[2] >= cur[2])
    BY <1>1 DEF Whole, Cleared, Prefixing
  <2>2. p \in Pos /\ p[1] \in Blocks /\ p[2] \in Offs /\ log[p[1]][p[2]] # Erased
    BY DEF Seen, IsLive, Erased, Pos
  <2>3. p[1] = cur[1] => p[2] + CellLen(log[cur[1]][p[2]]) <= cur[2] /\ CellLen(log[cur[1]][p[2]]) > 0
                         /\ CellLen(log[cur[1]][p[2]]) \in Nat
    BY <1>5, <2>2, CellLenBound DEF Packed, BlockLog
  <2>4. p[2] \in Nat /\ cur[2] \in Nat
    BY <1>5, <2>2
  <2> QED
    BY <2>1, <2>2, <2>3, <2>4
<1>7. CASE cur[1] + 1 = NB
  <2>1. pc' = "idle" /\ op' = NoOp
    BY <1>2, <1>7
  <2>2. \A k \in op.sel : Seen(k) = {}
    <3> SUFFICES ASSUME NEW k \in op.sel, NEW p \in Seen(k) PROVE FALSE
      OBVIOUS
    <3>1. p[1] > cur[1] /\ p[1] \in Blocks
      BY <1>6
    <3> QED
      BY <1>5, <1>7, <3>1, KVAssumption DEF Blocks
  <2>3. \A k \in op.sel : Lookup(k) = NoVal
    BY <1>1, <1>3, <2>2, OneValue DEF Whole, Updating
  <2>4. \A k \in Req.keys : Dict[k] = Req.val
    BY <1>1, <1>3, <2>3 DEF Req, Dict
  <2> QED
    BY <1>1, <1>4, <2>1, <2>2, <2>4, Returned, MapReturn
<1>8. CASE cur[1] + 1 # NB
  <2>1. cur' = <<cur[1] + 1, BHdr>> /\ pc' = pc /\ ret' = ret /\ op' = op
    BY <1>2, <1>8
  <2>2. BootEmpty' /\ Copied'
    BY <1>1, <2>1 DEF BootEmpty, Booting, Scanning, Copied, Copying
  <2>3. CallOk'
    BY <1>1, <1>3, <2>1 DEF CallOk, Booting, Scanning, Collecting, Prefixing
  <2>4. Cleared'
    <3> SUFFICES ASSUME NEW k \in op.sel, NEW p \in Seen(k)
                 PROVE  p[1] > cur'[1] \/ (p[1] = cur'[1] /\ p[2] >= cur'[2])
      BY <1>4, <2>1 DEF Cleared
    <3>1. p[1] > cur[1] /\ p[1] \in Blocks /\ p[2] \in Offs
      BY <1>6
    <3>2. p[2] >= BHdr
      BY <3>1, KVAssumption DEF Offs
    <3>3. p[1] \in Nat /\ cur[1] \in Nat
      BY <1>5, <3>1
    <3> QED
      BY <2>1, <3>1, <3>2, <3>3
  <2>5. Req' = Req
    BY <2>1 DEF Req
  <2> QED
    BY <1>1, <1>4, <1>8, <2>2, <2>3, <2>4, <2>5, MapUnchanged DEF Whole
<1> QED
  BY <1>7, <1>8

LEMMA GcStartMap ==
  ASSUME StoreInv, Whole, GcStart
  PROVE  Whole' /\ Stepped
<1> USE Geometry DEF Calling, Deleting, Formatting
<1>1. /\ pc = "idle" /\ pc' \in {"idle", "gccopy"} /\ log' = log /\ state' = state /\ op' = op /\ crashes' = crashes
  BY DEF GcStart, flash, hist
<1>2. op = NoOp /\ Req = [keys |-> {}, val |-> NoVal]
  BY <1>1, IdleReq
<1>3. /\ \A k : Seen(k)' = Seen(k)
      /\ \A q : CellAt(q)' = CellAt(q)
      /\ Single' /\ Dict' = Dict /\ Apart'
  BY <1>1, WalkFrame DEF Updating
<1>4. CASE pc' = "idle"
  BY <1>1, <1>2, <1>3, <1>4, Returned, MapUnchanged
<1>5. CASE pc' = "gccopy"
  <2>1. PICK d \in CleanBlocks, s \in DirtyBlocks : wpos' = <<d, BHdr>> /\ cur' = <<s, BHdr>>
    BY <1>1, <1>5 DEF GcStart
  <2>2. d \in Blocks /\ state[d] = "CLEAN"
    BY DEF CleanBlocks
  <2>3. Uncounted = {} /\ ~Collecting
    BY <1>1 DEF StoreInv, LayoutInv, UncleanOk, Uncounted, Scanning, Collecting
  <2>4. Empty(log[d])
    BY <2>2, <2>3 DEF StoreInv, LayoutInv, CleanEmpty
  <2>5. \A p \in Pos : p[2] \in Offs /\ ~(p[2] < BHdr)
    BY KVAssumption DEF Pos, Offs
  <2>6. \A k : Copies(k)' = {}
    <3> SUFFICES ASSUME NEW k, NEW p \in Copies(k)' PROVE FALSE
      OBVIOUS
    <3>1. p \in Pos /\ p[1] = d /\ log[p[1]][p[2]].kind = "item"
      BY <1>1, <2>1 DEF Copies, IsLive
    <3>2. p[2] \in Offs
      BY <2>5, <3>1
    <3>3. log[d][p[2]] = Erased
      BY <2>4, <3>2 DEF Empty
    <3> QED
      BY <3>1, <3>3 DEF Erased
  <2>7. \A k : Source(k)' = {}
    BY <1>5, <2>1, <2>5 DEF Source
  <2>8. Copied'
    BY <2>6, <2>7 DEF Copied
  <2>9. BootEmpty' /\ Cleared'
    BY <1>5 DEF BootEmpty, Booting, Scanning, Cleared, Prefixing
  <2>10. CallOk'
    BY <1>1, <1>2, <1>5 DEF CallOk, Booting, Scanning, Collecting, Prefixing
  <2>11. Req' = Req
    BY <1>1, <1>5 DEF Req
  <2> QED
    BY <1>1, <1>3, <2>8, <2>9, <2>10, <2>11, MapUnchanged DEF Whole
<1> QED
  BY <1>1, <1>4, <1>5

\* What the collector copies is not shown before its source is erased.
LEMMA GcCopyMap ==
  ASSUME StoreInv, Whole, GcCopy
  PROVE  /\ Whole' /\ Stepped
         /\ \A k : Seen(k)' = Seen(k)
         /\ \A k : \A q \in Seen(k) : CellAt(q)' = CellAt(q)
<1> USE Geometry DEF Calling, Deleting, Formatting
<1>c. PICK c : c = cur
  OBVIOUS
<1>n. PICK n : n = wpos
  OBVIOUS
<1>i. PICK i : i = Here.key
  OBVIOUS
<1>1. /\ OnLive("gccopy") /\ OnCell("gccopy") /\ pc = "gccopy" /\ "gccopy" \in Walks /\ Writing /\ Written = Here
      /\ pc' = pc /\ ret' = ret /\ op' = op /\ state' = state /\ crashes' = crashes
      /\ log' = [log EXCEPT ![wpos[1]][wpos[2]] = Written]
      /\ cur' = <<cur[1], cur[2] + CellLen(Here)>>
  BY DEF GcCopy, OnLive, OnCell, InBlock, Walks, Writing, Written, Program, Onward, hist
<1>2. /\ n \in Pos /\ log[n[1]][n[2]] = Erased /\ log'[n[1]][n[2]] = Here
      /\ \A q \in Pos : q # n => log'[q[1]][q[2]] = log[q[1]][q[2]]
      /\ Apart'
  BY <1>n, <1>1, Appended DEF Whole
<1>3. wpos'[1] = n[1]
  BY <1>n, <1>1, WritingFits DEF StoreInv, GcCopy, Program
<1>4. /\ c \in Pos /\ c[1] \in Blocks /\ c[2] \in Nat /\ Here \in Item /\ Here = CellAt(c)
      /\ Here.kind = "item" /\ ~IsGarbage(Here) /\ CellLen(Here) \in Nat /\ CellLen(Here) > 0
  BY <1>c, <1>1, LiveHere, WalkOn, CellLenBound DEF StoreInv, IsItem, Here, CellAt, OnLive, Cell
<1>5. Here.state = "NORMAL" /\ i \in Keys
  BY <1>i, <1>4 DEF Item, IsGarbage
<1>6. state[n[1]] = "CLEAN" /\ c[1] # n[1] /\ state[c[1]] # "CLEAN"
  BY <1>c, <1>n, <1>1 DEF StoreInv, LayoutInv, CollectOk, Collecting
<1>7. \A b : (Shown(b) <=> state[b] # "CLEAN") /\ (Shown(b)' <=> state[b] # "CLEAN")
  BY <1>1 DEF Shown, Moved
<1>8. \A k : \A q \in Pos : q # n => (IsLive(q[1], q[2], k)' <=> IsLive(q[1], q[2], k)) /\ CellAt(q)' = CellAt(q)
  BY <1>2 DEF IsLive, CellAt
<1>9. \A k : n \notin Seen(k) /\ n \notin Seen(k)'
  BY <1>6, <1>7 DEF Seen
<1>10. ASSUME NEW k PROVE Seen(k)' = Seen(k)
  <2>1. \A q \in Pos : q \in Seen(k)' <=> q \in Seen(k)
    BY <1>7, <1>8, <1>9 DEF Seen
  <2> QED
    BY <2>1 DEF Seen
<1>11. \A k : \A q \in Seen(k) : CellAt(q)' = CellAt(q)
  BY <1>8, <1>9 DEF Seen
<1>12. Single' /\ Dict' = Dict
  BY <1>1, <1>10, <1>11, SingleFrame DEF Whole, Updating
<1>13. c \in Seen(i)
  BY <1>i, <1>4, <1>5, <1>6, <1>7 DEF Seen, IsLive, CellAt
<1>14. \A k : Source(k) \subseteq Seen(k) /\ c \notin Source(k)
  BY <1>c, <1>1, <1>4, <1>6, <1>7 DEF Source, Seen
<1>15. Source(i) = {}
  <2>1. \A p, q \in Seen(i) : p = q
    BY <1>1, <1>5 DEF Whole, Single, Updating
  <2> QED
    BY <1>13, <1>14, <2>1
<1>16. Copying
  BY <1>1 DEF Copying
<1>17. Copies(i) = {}
  BY <1>5, <1>15, <1>16 DEF Whole, Copied
<1>18. ASSUME NEW k, NEW p \in Pos PROVE p \in Source(k)' <=> (p \in Source(k) \/ (p = c /\ k = i))
  <2>1. p \in Source(k)' <=> p[1] = c[1] /\ IsLive(p[1], p[2], k)' /\ p[2] < cur[2] + CellLen(Here)
    BY <1>c, <1>1 DEF Source
  <2>2. p[1] = c[1] => (IsLive(p[1], p[2], k)' <=> IsLive(p[1], p[2], k))
    BY <1>6, <1>8
  <2>3. p[1] = c[1] /\ IsLive(p[1], p[2], k) => (p[2] < cur[2] + CellLen(Here) <=> (p[2] < cur[2] \/ p = c))
    <3>1. IsLive(p[1], p[2], k) => CellAt(p) # Erased
      BY DEF IsLive, CellAt, Erased
    <3> QED
      BY <1>c, <1>1, <3>1, Beyond DEF Whole
  <2>4. IsLive(c[1], c[2], k) <=> k = i
    BY <1>i, <1>4, <1>5 DEF IsLive, CellAt
  <2>5. p \in Source(k) <=> p[1] = c[1] /\ IsLive(p[1], p[2], k) /\ p[2] < cur[2]
    BY <1>c, <1>1 DEF Source
  <2> QED
    BY <2>1, <2>2, <2>3, <2>4, <2>5
<1>19. ASSUME NEW k, NEW q \in Pos PROVE q \in Copies(k)' <=> (q \in Copies(k) \/ (q = n /\ k = i))
  <2>1. q \in Copies(k)' <=> q[1] = n[1] /\ IsLive(q[1], q[2], k)'
    BY <1>3 DEF Copies
  <2>2. q \in Copies(k) <=> q[1] = n[1] /\ IsLive(q[1], q[2], k)
    BY <1>n DEF Copies
  <2>3. IsLive(n[1], n[2], k)' <=> k = i
    BY <1>i, <1>2, <1>4, <1>5 DEF IsLive
  <2>4. ~IsLive(n[1], n[2], k)
    BY <1>2 DEF IsLive, Erased
  <2> QED
    BY <1>8, <2>1, <2>2, <2>3, <2>4
<1>20. \A k : /\ Source(k) \subseteq Pos /\ Source(k)' \subseteq Pos
              /\ Copies(k) \subseteq Pos /\ Copies(k)' \subseteq Pos
  BY DEF Source, Copies
<1>21. Source(i)' = {c} /\ Copies(i)' = {n}
  BY <1>2, <1>4, <1>15, <1>17, <1>18, <1>19, <1>20
<1>22. ASSUME NEW k, k # i PROVE Source(k)' = Source(k) /\ Copies(k)' = Copies(k)
  <2>1. \A p \in Pos : (p \in Source(k)' <=> p \in Source(k)) /\ (p \in Copies(k)' <=> p \in Copies(k))
    BY <1>18, <1>19, <1>22
  <2> QED
    BY <1>20, <2>1
<1>23. CellAt(n)' = Here /\ CellAt(c)' = Here
  BY <1>2, <1>4, <1>6, <1>8 DEF CellAt
<1>24. \A k : \A q \in Source(k) \cup Copies(k) : CellAt(q)' = CellAt(q)
  <2>1. \A k : n \notin Source(k) /\ n \notin Copies(k)
    BY <1>2, <1>9, <1>14 DEF Copies, IsLive, Erased
  <2>2. ASSUME NEW k, NEW q \in Source(k) \cup Copies(k) PROVE CellAt(q)' = CellAt(q)
    <3>1. q \in Pos /\ q # n
      BY <1>20, <2>1, <2>2
    <3> QED
      BY <1>8, <3>1
  <2> QED
    BY <2>2
<1>25. Copied'
  <2> SUFFICES ASSUME NEW k \in Keys
               PROVE  /\ \A p \in Source(k)' : \E q \in Copies(k)' : CellAt(q)'.val = CellAt(p)'.val
                      /\ \A q \in Copies(k)' : \E p \in Source(k)' : CellAt(q)'.val = CellAt(p)'.val
                      /\ \A p, q \in Copies(k)' : p = q
    BY DEF Copied
  <2>1. CASE k = i
    BY <1>21, <1>23, <2>1
  <2>2. CASE k # i
    <3>1. Source(k)' = Source(k) /\ Copies(k)' = Copies(k)
      BY <1>22, <2>2
    <3>2. /\ \A p \in Source(k) : \E q \in Copies(k) : CellAt(q).val = CellAt(p).val
          /\ \A q \in Copies(k) : \E p \in Source(k) : CellAt(q).val = CellAt(p).val
          /\ \A p, q \in Copies(k) : p = q
      BY <1>16 DEF Whole, Copied
    <3> QED
      BY <1>24, <3>1, <3>2
  <2> QED
    BY <2>1, <2>2
<1>26. BootEmpty' /\ Cleared'
  BY <1>1 DEF BootEmpty, Booting, Scanning, Cleared, Prefixing
<1>27. CallOk'
  <2>1. op = NoOp
    BY <1>1, IdleReq DEF Collecting
  <2> QED
    BY <1>1, <2>1 DEF CallOk, Booting, Scanning, Collecting, Prefixing
<1>28. Req' = Req
  BY <1>1 DEF Req
<1> QED
  BY <1>1, <1>2, <1>10, <1>11, <1>12, <1>25, <1>26, <1>27, <1>28, MapUnchanged DEF Whole

LEMMA GcCopiedMap ==
  ASSUME StoreInv, Whole, GcCopied
  PROVE  Whole' /\ Stepped
<1> USE Geometry DEF Calling, Deleting, Formatting
<1>1. /\ OnEnd("gccopy") /\ pc = "gccopy" /\ "gccopy" \in Walks /\ pc' = "erase" /\ ret' = "gcmark"
      /\ op' = op /\ cur' = cur /\ log' = log /\ wpos' = wpos /\ state' = state /\ crashes' = crashes
  BY DEF GcCopied, OnEnd, InBlock, Walks, flash, hist
<1>2. /\ \A k : Seen(k)' = Seen(k)
      /\ \A q : CellAt(q)' = CellAt(q)
      /\ Single' /\ Dict' = Dict /\ Apart'
  BY <1>1, WalkFrame DEF Updating
<1>3. cur[1] \in Blocks /\ cur[2] \in Offs /\ log[cur[1]] \in BlockLog /\ Packed(log[cur[1]], cur[2])
  BY <1>1, WalkEnd DEF StoreInv
<1>4. ASSUME NEW k PROVE Source(k)' = Source(k) /\ Copies(k)' = Copies(k)
  <2>1. Copies(k)' = Copies(k)
    BY <1>1 DEF Copies, IsLive
  <2>2. ASSUME NEW p \in Pos, p[1] = cur[1], IsLive(p[1], p[2], k) PROVE p[2] < cur[2]
    <3>1. p[2] \in Offs /\ log[cur[1]][p[2]] # Erased
      BY <2>2 DEF Pos, IsLive, Erased
    <3>2. /\ p[2] + CellLen(log[cur[1]][p[2]]) <= cur[2] /\ CellLen(log[cur[1]][p[2]]) > 0
          /\ CellLen(log[cur[1]][p[2]]) \in Nat
      BY <1>3, <3>1, CellLenBound DEF Packed, BlockLog
    <3>3. p[2] \in Nat /\ cur[2] \in Nat
      BY <1>3, <3>1
    <3> QED
      BY <3>2, <3>3
  <2>3. \A p : IsLive(p[1], p[2], k)' <=> IsLive(p[1], p[2], k)
    BY <1>1 DEF IsLive
  <2>4. \A p \in Pos : p \in Source(k)' <=> p \in Source(k)
    BY <1>1, <2>2, <2>3 DEF Source
  <2> QED
    BY <2>1, <2>4 DEF Source
<1>5. Copied'
  <2>1. Copying
    BY <1>1 DEF Copying
  <2> QED
    BY <1>2, <1>4, <2>1 DEF Whole, Copied
<1>6. BootEmpty' /\ Cleared'
  BY <1>1 DEF BootEmpty, Booting, Scanning, Cleared, Prefixing
<1>7. op = NoOp /\ Req = [keys |-> {}, val |-> NoVal]
  BY <1>1, IdleReq DEF Collecting
<1>8. CallOk'
  BY <1>1, <1>7 DEF CallOk, Booting, Scanning, Collecting, Prefixing
<1>9. Req' = Req
  BY <1>1 DEF Req
<1> QED
  BY <1>1, <1>2, <1>5, <1>6, <1>8, <1>9, MapUnchanged DEF Whole

\* Before a collected block is erased every item of it has its copy, and only these.
LEMMA Handover ==
  ASSUME StoreInv, Whole, Calling({"erase"}, "gcmark"), NEW k \in Keys
  PROVE  /\ \A p, q \in Handed(k) : p = q
         /\ \A p \in Handed(k) : \E q \in Seen(k) : CellAt(q).val = CellAt(p).val
         /\ \A p \in Seen(k) : \E q \in Handed(k) : CellAt(q).val = CellAt(p).val
<1> USE DEF Calling, Deleting, Formatting
<1>1. Copying /\ Collecting /\ ~Updating(k) /\ pc = "erase"
  BY DEF Copying, Collecting, Updating
<1>2. state[cur[1]] # "CLEAN"
  BY <1>1 DEF StoreInv, LayoutInv, CursorOk
<1>3. \A p : p \in Source(k) <=> p \in Seen(k) /\ p[1] = cur[1]
  BY <1>1, <1>2 DEF Source, Seen, Shown, Moved
<1>4. /\ \A p, q \in Seen(k) : p = q
      /\ \A p \in Source(k) : \E q \in Copies(k) : CellAt(q).val = CellAt(p).val
      /\ \A q \in Copies(k) : \E p \in Source(k) : CellAt(q).val = CellAt(p).val
      /\ \A p, q \in Copies(k) : p = q
  BY <1>1 DEF Whole, Single, Copied
<1>5. \A p : p \in Handed(k) <=> (p \in Seen(k) /\ p[1] # cur[1]) \/ p \in Copies(k)
  BY DEF Handed
<1>6. ASSUME NEW p \in Seen(k), p[1] # cur[1] PROVE Copies(k) = {}
  BY <1>3, <1>4, <1>6
<1> QED
  BY <1>3, <1>4, <1>5, <1>6

\* The erase of the collected block shows the copies in its place.
LEMMA EraseSeen ==
  ASSUME StoreInv, Whole, BlockErase, ~Booting
  PROVE  \A k : /\ Seen(k)' = Handed(k)
                /\ \A p \in Seen(k)' : CellAt(p)' = CellAt(p)
<1> USE DEF Calling, Deleting, Formatting
<1>1. /\ pc = "erase" /\ ret = "gcmark" /\ pc' = "format" /\ ret' = ret
      /\ state' = state /\ wpos' = wpos
      /\ log' = [log EXCEPT ![cur[1]] = [o \in Offs |-> Erased]]
  BY DEF BlockErase, ram, regs, StoreInv, LayoutInv, ControlOk, Booting
<1>2. Collecting
  BY <1>1 DEF Collecting
<1>3. cur[1] \in Blocks /\ cur[1] # wpos[1] /\ state[cur[1]] # "CLEAN"
  BY <1>1, <1>2 DEF StoreInv, LayoutInv, CursorOk, CollectOk
<1>4. /\ \A b \in Blocks : b # cur[1] => log'[b] = log[b]
      /\ \A o \in Offs : log'[cur[1]][o] = Erased
  BY <1>1, <1>3 DEF StoreInv, LayoutInv, TypeOK
<1>5. \A p \in Pos : p[1] \in Blocks /\ p[2] \in Offs
  BY DEF Pos
<1>6. \A b : (Shown(b) <=> state[b] # "CLEAN") /\ (Shown(b)' <=> state[b] # "CLEAN" \/ b = wpos[1])
  BY <1>1 DEF Shown, Moved
<1>7. ASSUME NEW k, NEW p \in Pos
      PROVE  /\ p \in Seen(k)' <=> p \in Handed(k)
             /\ p \in Seen(k)' => CellAt(p)' = CellAt(p)
  <2>2. p[1] # cur[1] => CellAt(p)' = CellAt(p) /\ (IsLive(p[1], p[2], k)' <=> IsLive(p[1], p[2], k))
    BY <1>4, <1>5 DEF CellAt, IsLive
  <2>3. p[1] = cur[1] => ~IsLive(p[1], p[2], k)'
    <3>1. p[1] = cur[1] => log'[p[1]][p[2]] = Erased
      BY <1>4, <1>5
    <3> QED
      BY <3>1 DEF IsLive, Erased
  <2>4. p \in Seen(k)' <=> IsLive(p[1], p[2], k)' /\ (state[p[1]] # "CLEAN" \/ p[1] = wpos[1])
    BY <1>6 DEF Seen
  <2>5. p \in Seen(k) <=> IsLive(p[1], p[2], k) /\ state[p[1]] # "CLEAN"
    BY <1>6 DEF Seen
  <2>6. p \in Copies(k) <=> IsLive(p[1], p[2], k) /\ p[1] = wpos[1]
    BY DEF Copies
  <2> QED
    BY <1>3, <2>2, <2>3, <2>4, <2>5, <2>6 DEF Handed
<1>8. \A k : Handed(k) \subseteq Pos /\ Seen(k)' \subseteq Pos
  BY DEF Seen, Copies, Handed
<1> QED
  BY <1>7, <1>8

LEMMA BlockEraseMap ==
  ASSUME StoreInv, Whole, BlockErase, ~Booting
  PROVE  Whole' /\ Stepped
<1> USE DEF Calling, Deleting, Formatting
<1>1. /\ pc = "erase" /\ ret = "gcmark" /\ pc' = "format" /\ ret' = ret /\ op' = op /\ cur' = cur
      /\ state' = state /\ wpos' = wpos /\ crashes' = crashes
      /\ log' = [log EXCEPT ![cur[1]] = [o \in Offs |-> Erased]]
  BY DEF BlockErase, ram, regs, hist, StoreInv, LayoutInv, ControlOk, Booting
<1>2. Collecting
  BY <1>1 DEF Collecting
<1>3. cur[1] \in Blocks
  BY <1>1 DEF StoreInv, LayoutInv, CursorOk
<1>4. /\ \A b \in Blocks : b # cur[1] => log'[b] = log[b]
      /\ \A o \in Offs : log'[cur[1]][o] = Erased
  BY <1>1, <1>3 DEF StoreInv, LayoutInv, TypeOK
<1>9. \A k \in Keys : ~Updating(k) /\ ~Updating(k)'
  BY <1>1 DEF Updating
<1>10. ASSUME NEW k \in Keys
       PROVE  /\ \A p, q \in Seen(k)' : p = q
              /\ \A p \in Seen(k)' : \E q \in Seen(k) : CellAt(q).val = CellAt(p)'.val
              /\ \A p \in Seen(k) : \E q \in Seen(k)' : CellAt(q)'.val = CellAt(p).val
  <2>1. Calling({"erase"}, "gcmark")
    BY <1>1
  <2>2. Seen(k)' = Handed(k) /\ \A p \in Seen(k)' : CellAt(p)' = CellAt(p)
    BY EraseSeen
  <2> HIDE DEF Calling
  <2> QED
    BY <2>1, <2>2, Handover
<1>12. Single'
  BY <1>9, <1>10 DEF Single
<1>13. ASSUME NEW k \in Keys PROVE Lookup(k)' = Lookup(k)
  <2>1. CASE Seen(k) = {}
    <3>3. Seen(k)' = {}
      BY <1>10, <2>1
    <3> QED
      BY <1>9, <1>12, <2>1, <3>3, OneValue, OneValueNext DEF Whole
  <2>2. ASSUME NEW p \in Seen(k) PROVE Lookup(k)' = Lookup(k)
    <3>1. Lookup(k) = CellAt(p).val
      BY <1>9, OneValue DEF Whole
    <3>3. PICK q \in Seen(k)' : CellAt(q)'.val = CellAt(p).val
      BY <1>10
    <3>4. Lookup(k)' = CellAt(q)'.val
      BY <1>9, <1>12, OneValueNext
    <3> QED
      BY <3>1, <3>3, <3>4
  <2> QED
    BY <2>1, <2>2
<1>14. Dict' = Dict
  BY <1>13 DEF Dict
<1>15. Apart'
  <2> SUFFICES ASSUME NEW b \in Blocks, NEW o \in Offs, NEW x \in Offs,
                      log'[b][o] # Erased, log'[b][x] # Erased, o < x
               PROVE  o + CellLen(log'[b][o]) <= x
    BY DEF Apart, CellLen
  <2>1. b # cur[1] /\ log'[b] = log[b]
    BY <1>4
  <2> QED
    BY <2>1 DEF Whole, Apart
<1>16. BootEmpty' /\ Cleared' /\ Copied'
  BY <1>1 DEF BootEmpty, Booting, Scanning, Cleared, Prefixing, Copied, Copying
<1>17. op = NoOp
  BY <1>2, IdleReq
<1>18. CallOk'
  BY <1>1, <1>17 DEF CallOk, Booting, Scanning, Collecting, Prefixing
<1>19. Req' = Req
  BY <1>1 DEF Req
<1> QED
  BY <1>1, <1>12, <1>14, <1>15, <1>16, <1>18, <1>19, MapUnchanged DEF Whole

LEMMA BlockFormatMap ==
  ASSUME StoreInv, Whole, BlockFormat, ~Booting
  PROVE  Whole' /\ Stepped
<1> USE DEF Calling, Deleting, Formatting
<1>1. /\ pc = "format" /\ ret = "gcmark" /\ pc' = "gcmark" /\ ret' = ret /\ op' = op
      /\ wpos' = wpos /\ log' = log /\ crashes' = crashes /\ state' = [state EXCEPT ![cur[1]] = "CLEAN"]
  BY DEF BlockFormat, SetBlockState, regs, hist, StoreInv, LayoutInv, ControlOk, Booting
<1>2. Empty(log[cur[1]]) /\ \A b \in Blocks : b # cur[1] => state'[b] = state[b]
  BY <1>1 DEF StoreInv, LayoutInv, CleanEmpty, TypeOK
<1>3. \A b \in Blocks : Empty(log[b]) \/ (Shown(b)' <=> Shown(b))
  BY <1>1, <1>2 DEF Shown, Moved
<1>4. (\A k : Seen(k)' = Seen(k)) /\ (\A q : CellAt(q)' = CellAt(q))
  BY <1>1, <1>3, SeenFrame
<1>5. Single' /\ Dict' = Dict /\ Apart'
  BY <1>1, <1>4, SingleFrame, ApartFrame DEF Whole, Updating
<1>6. BootEmpty' /\ Cleared' /\ Copied'
  BY <1>1 DEF BootEmpty, Booting, Scanning, Cleared, Prefixing, Copied, Copying
<1>7. op = NoOp
  BY <1>1, IdleReq DEF Collecting
<1>8. CallOk'
  BY <1>1, <1>7 DEF CallOk, Booting, Scanning, Collecting, Prefixing
<1>9. Req' = Req
  BY <1>1 DEF Req
<1> QED
  BY <1>1, <1>5, <1>6, <1>8, <1>9, MapUnchanged DEF Whole

LEMMA GcMarkMap ==
  ASSUME StoreInv, Whole, GcMark
  PROVE  Whole' /\ Stepped
<1>1. /\ pc = "gcmark" /\ ret = "gcmark" /\ pc' = "idle" /\ op' = NoOp
      /\ wpos' = wpos /\ log' = log /\ crashes' = crashes /\ state' = [state EXCEPT ![wpos[1]] = "USED"]
  BY DEF GcMark, Return, SetBlockState, hist, Whole, CallOk
<1>2. wpos[1] \in Blocks
  BY <1>1 DEF StoreInv, LayoutInv, WritePosOk, Booting, Scanning, Calling, Deleting, Formatting, Pos
<1>3. \A b \in Blocks : Shown(b)' <=> Shown(b)
  BY <1>1, <1>2 DEF Shown, Moved, StoreInv, LayoutInv, TypeOK
<1>4. (\A k : Seen(k)' = Seen(k)) /\ (\A q : CellAt(q)' = CellAt(q))
  BY <1>1, <1>3, SeenFrame
<1>5. Single' /\ Dict' = Dict /\ Apart'
  BY <1>1, <1>4, SingleFrame, ApartFrame DEF Whole, Updating
<1>6. Req = [keys |-> {}, val |-> NoVal]
  BY <1>1, IdleReq DEF Collecting
<1> QED
  BY <1>1, <1>5, <1>6, Returned, MapUnchanged
-----------------------------------------------------------------------------

\* The steps that belong to kv_init alone.
LEMMA BootOnly ==
  ScanHeader \/ ScanItem \/ ScanEnd \/ ScanNext \/ UncleanBlock \/ UncleanDone \/ ChooseWritePos => Booting
BY DEF ScanHeader, ScanItem, ScanEnd, ScanNext, UncleanBlock, UncleanDone, ChooseWritePos,
       OnLive, OnCell, OnEnd, InBlock, Booting, Scanning

\* Outside recovery every step keeps what is known of the items and is a step
\* of the map or none.
LEMMA RunSteps ==
  ASSUME StoreInv, Whole, ~Booting, Operation \/ Progress
  PROVE  Whole' /\ Stepped
<1>1. CASE Operation
  <2>1. ASSUME NEW k \in Keys, NEW v \in Vals, ItemSet(k, v) PROVE Whole' /\ Stepped
    BY <2>1, ItemSetMap
  <2>2. ASSUME NEW k \in Keys, ItemDelete(k) PROVE Whole' /\ Stepped
    BY <2>2, ItemDeleteMap
  <2>3. ASSUME NEW K \in Prefixes, DeleteByPrefix(K) PROVE Whole' /\ Stepped
    BY <2>3, DeleteByPrefixMap
  <2>4. CASE GcStart
    BY <2>4, GcStartMap
  <2> QED
    BY <1>1, <2>1, <2>2, <2>3, <2>4 DEF Operation
<1>2. CASE CalcFull \/ CalcSkip \/ CalcTake \/ ItemStore \/ Ack
  BY <1>2, CalcFullMap, CalcMap, ItemStoreMap, AckMap
<1>3. CASE PrefixItem \/ PrefixNextBlock \/ GcCopy \/ GcCopied \/ GcMark
  BY <1>3, PrefixItemMap, PrefixNextBlockMap, GcCopyMap, GcCopiedMap, GcMarkMap
<1>4. CASE ItemDel \/ ItemDelDirty \/ SkipGarbage \/ BlockErase \/ BlockFormat
  BY <1>4, ItemDelMap, ItemDelDirtyMap, SkipGarbageMap, BlockEraseMap, BlockFormatMap
<1>5. ~(ScanHeader \/ ScanItem \/ ScanEnd \/ ScanNext \/ UncleanBlock \/ UncleanDone \/ ChooseWritePos)
  BY BootOnly
<1> QED
  BY <1>1, <1>2, <1>3, <1>4, <1>5 DEF Progress

\* The steps kv_init has no part in.
LEMMA RunOnly ==
  \/ CalcFull \/ CalcSkip \/ CalcTake \/ ItemStore \/ Ack \/ PrefixItem \/ PrefixNextBlock
  \/ GcCopy \/ GcCopied \/ GcMark
  => ~Booting
BY DEF CalcFull, CalcSkip, CalcTake, ItemStore, Ack, PrefixItem, PrefixNextBlock, GcCopy, GcCopied, GcMark,
       OnLive, OnCell, OnEnd, InBlock, Booting, Scanning, Calling, Deleting, Formatting

LEMMA WholeStutter ==
  ASSUME Whole, UNCHANGED vars
  PROVE  Whole'
<1>1. UNCHANGED <<log, state, wpos, pc, ret, op, cur>>
  BY DEF vars
<1>2. \A k, b, o : IsLive(b, o, k)' = IsLive(b, o, k) /\ Shown(b)' = Shown(b) /\ Updating(k)' = Updating(k)
  BY <1>1 DEF IsLive, Shown, Moved, Updating
<1>3. \A k, q : Seen(k)' = Seen(k) /\ CellAt(q)' = CellAt(q)
  BY <1>1, <1>2 DEF Seen, CellAt
<1>4. \A k : Source(k)' = Source(k) /\ Copies(k)' = Copies(k)
  BY <1>1, <1>2 DEF Source, Copies
<1>5. Single'
  BY <1>1, <1>2, <1>3 DEF Whole, Single
<1>6. BootEmpty' /\ Apart'
  BY <1>1 DEF Whole, BootEmpty, Apart, Booting, Scanning, Calling, Empty
<1>7. CallOk'
  BY <1>1, <1>3 DEF Whole, CallOk, Booting, Scanning, Collecting, Prefixing, Calling
<1>8. Cleared'
  BY <1>1, <1>3 DEF Whole, Cleared, Prefixing, Calling
<1>9. Copied'
  BY <1>1, <1>3, <1>4 DEF Whole, Copied, Copying, Calling
<1> QED
  BY <1>5, <1>6, <1>7, <1>8, <1>9 DEF Whole

\* Every step keeps the invariant and is a step of the map or none.
LEMMA MapNext ==
  ASSUME StoreInv, MapInv, [Next]_vars
  PROVE  MapInv' /\ Stepped
<1>1. CASE crashes # 0
  <2>1. crashes' # 0
    <3>1. crashes' = crashes \/ crashes' = crashes + 1
      BY DEF Next, Operation, Progress, vars, hist, ItemSet, ItemDelete, DeleteByPrefix, GcStart,
             CalcFull, CalcSkip, CalcTake, ItemStore, ItemDel, ItemDelDirty, Ack, SkipGarbage,
             PrefixItem, PrefixNextBlock, BlockErase, BlockFormat, GcCopy, GcCopied, GcMark,
             ScanHeader, ScanItem, ScanEnd, ScanNext, UncleanBlock, UncleanDone, ChooseWritePos, PowerFail
    <3> QED
      BY <1>1, <3>1 DEF StoreInv, LayoutInv, TypeOK
  <2> QED
    BY <2>1, MapDown DEF MapInv
<1>2. CASE crashes = 0 /\ PowerFail
  <2>1. crashes' # 0
    BY <1>2 DEF PowerFail
  <2> QED
    BY <2>1, MapDown DEF MapInv
<1>3. CASE crashes = 0 /\ UNCHANGED vars
  <2>1. Whole'
    BY <1>3, WholeStutter DEF MapInv
  <2>2. Dict' = Dict /\ Req' = Req /\ crashes' = crashes
    BY <1>3 DEF vars, Dict, Req, Lookup, Visible, Moved, IsLive, CellAt
  <2> QED
    BY <2>1, <2>2, MapUnchanged DEF MapInv
<1>4. CASE crashes = 0 /\ (Operation \/ Progress)
  <2> SUFFICES Whole' /\ Stepped
    BY DEF MapInv
  <2>0. Whole
    BY <1>4 DEF MapInv
  <2>1. CASE ~Booting
    BY <1>4, <2>0, <2>1, RunSteps
  <2>2. CASE Booting /\ (ScanItem \/ ItemDel \/ SkipGarbage)
    BY <2>0, <2>2, BootNoItem
  <2>3. CASE Booting /\ \/ ScanHeader \/ ScanEnd \/ ScanNext \/ UncleanBlock \/ UncleanDone \/ ChooseWritePos
                        \/ BlockErase \/ BlockFormat \/ ItemDelDirty
    BY <2>0, <2>3, BootSteps
  <2>4. Booting => ~Operation
    BY DEF Operation, ItemSet, ItemDelete, DeleteByPrefix, GcStart, Booting, Scanning, Calling, Deleting, Formatting
  <2>5. Booting => ~(CalcFull \/ CalcSkip \/ CalcTake \/ ItemStore \/ Ack \/ PrefixItem \/ PrefixNextBlock
                     \/ GcCopy \/ GcCopied \/ GcMark)
    BY RunOnly
  <2> QED
    BY <1>4, <2>1, <2>2, <2>3, <2>4, <2>5 DEF Progress
<1> QED
  BY <1>1, <1>2, <1>3, <1>4 DEF Next

LEMMA MapStart ==
  ASSUME Init
  PROVE  MapInv /\ Map!Init
<1> USE DEF Booting, Scanning, Collecting, Copying, Prefixing, Calling, Deleting, Formatting
<1>1. /\ log = [b \in Blocks |-> [o \in Offs |-> Erased]]
      /\ pc = "scan" /\ op = NoOp /\ crashes = 0
  BY DEF Init
<1>2. \A b \in Blocks : Empty(log[b])
  BY <1>1 DEF Empty
<1>3. \A k : Seen(k) = {}
  BY <1>2, SeenNothing
<1>4. \A k \in Keys : ~Updating(k)
  BY <1>1 DEF Updating
<1>5. Single
  BY <1>3, <1>4 DEF Single
<1>6. BootEmpty /\ Cleared /\ Copied
  BY <1>1, <1>2 DEF BootEmpty, Cleared, Copied
<1>7. CallOk
  BY <1>1 DEF CallOk
<1>8. Apart
  BY <1>2 DEF Apart, Empty
<1>9. Whole
  BY <1>5, <1>6, <1>7, <1>8 DEF Whole
<1>10. Dict = [k \in Keys |-> NoVal]
  BY <1>3, <1>4, <1>5, OneValue DEF Dict
<1>11. Req = [keys |-> {}, val |-> NoVal]
  BY <1>1, <1>9, IdleReq
<1> QED
  BY <1>1, <1>9, <1>10, <1>11 DEF MapInv, Map!Init, Map!Idle, Dict, Req

\* As long as the power stays on kv.c is the map of kv_api.h, whatever the
\* geometry, the keys and the values: a call changes the keys it names in one
\* step each, a call refused for lack of space changes nothing, and neither a
\* search, nor the choice of a block, nor any step of a collection changes
\* what kv_item_get returns.
THEOREM StoreIsMap == Spec => ImplementsMap
<1>1. Init => MapInv /\ Map!Init
  BY MapStart
<1>2. StoreInv /\ MapInv /\ [Next]_vars => MapInv' /\ [Map!Next]_Map!vars
  BY MapNext DEF Stepped
<1> QED
  BY <1>1, <1>2, BookkeepingIsExact, PTL DEF Spec, ImplementsMap, Map!Spec
-----------------------------------------------------------------------------
(* Recovery: the headers on the flash and those in RAM.                    *)

\* Outside recovery the headers on the flash are those in RAM, but for a block
\* between its erase and its format.
LEMMA RunHeaders ==
  ASSUME StoreInv, HeaderOk, ~Booting
  PROVE  /\ \A b \in Blocks : state[b] # NoState
         /\ \A b \in Blocks : pc = "format" /\ b = cur[1] => hdr[b] = NoState
         /\ \A b \in Blocks : ~(pc = "format" /\ b = cur[1]) => hdr[b] = state[b]
         /\ pc \in Formatting => ret = "gcmark"
         /\ Uncounted = {} /\ unclean = {}
<1> USE DEF StoreInv, LayoutInv, Booting, Scanning, Calling, Deleting, Formatting
<1>1. Unread = {}
  BY DEF Unread
<1>2. \A b \in Blocks : state[b] # NoState
  BY <1>1 DEF HeadersRead
<1>3. \A b \in Blocks : pc = "format" /\ b = cur[1] => hdr[b] = NoState
  BY DEF HeaderOk
<1>4. \A b \in Blocks : ~(pc = "format" /\ b = cur[1]) => hdr[b] = state[b]
  BY <1>1 DEF HeaderOk
<1>5. pc \in Formatting => ret = "gcmark"
  BY DEF ControlOk
<1>6. unclean = {}
  BY DEF UncleanOk
<1>7. Uncounted = {}
  BY <1>6 DEF Uncounted
<1> QED
  BY <1>2, <1>3, <1>4, <1>5, <1>6, <1>7

\* Outside recovery the blocks whose items are read are those kv_init would keep.
LEMMA ShownKept ==
  ASSUME StoreInv, HeaderOk, SpareOk, CallOk, ~Booting, NEW b \in Blocks, ~Empty(log[b])
  PROVE  Shown(b) <=> ~Doomed(b)
<1> USE DEF Formatting
<1>1. /\ \A c \in Blocks : state[c] # NoState
      /\ \A c \in Blocks : pc = "format" /\ c = cur[1] => hdr[c] = NoState
      /\ \A c \in Blocks : ~(pc = "format" /\ c = cur[1]) => hdr[c] = state[c]
      /\ pc \in Formatting => ret = "gcmark"
      /\ Uncounted = {}
  BY RunHeaders
<1>2. state[b] = "CLEAN" => Collecting /\ b = wpos[1]
  BY <1>1 DEF StoreInv, LayoutInv, CleanEmpty
<1>3. CASE ~Collecting
  <2>1. pc \notin {"format", "gcmark"}
    BY <1>1, <1>3 DEF Collecting, Calling
  <2> QED
    BY <1>1, <1>2, <1>3, <2>1 DEF Shown, Moved, Doomed, NoState
<1>4. CASE Collecting /\ pc \notin {"format", "gcmark"}
  <2>1. Sole
    BY <1>4 DEF SpareOk, Booting, Collecting
  <2>2. state[b] = "CLEAN" => Doomed(b)
    BY <1>1, <1>4, <2>1 DEF Sole, Doomed, Spare
  <2> QED
    BY <1>1, <1>4, <2>2 DEF Shown, Moved, Doomed, NoState
<1>5. CASE Collecting /\ pc = "format"
  <2>1. cur[1] \in Blocks /\ cur[1] # wpos[1] /\ hdr[cur[1]] = NoState /\ Moved
    BY <1>1, <1>5 DEF StoreInv, LayoutInv, CursorOk, CollectOk, Moved
  <2>2. b # cur[1]
    BY <1>5 DEF StoreInv, LayoutInv, CleanEmpty
  <2>3. hdr[b] = state[b] /\ hdr[b] # NoState /\ Spare(cur[1])
    BY <1>1, <2>1, <2>2 DEF Spare
  <2>4. ~Doomed(b)
    BY <2>1, <2>2, <2>3 DEF Doomed
  <2> QED
    BY <1>2, <2>1, <2>4 DEF Shown
<1>6. CASE pc = "gcmark"
  <2>1. cur[1] \in Blocks /\ cur[1] # wpos[1] /\ state[cur[1]] = "CLEAN" /\ Moved
    BY <1>6 DEF SpareOk, CallOk, Moved
  <2>2. hdr[b] = state[b] /\ hdr[b] # NoState /\ Spare(cur[1])
    BY <1>1, <1>6, <2>1 DEF Spare
  <2>3. ~Doomed(b)
    BY <1>2, <2>1, <2>2 DEF Doomed
  <2> QED
    BY <1>2, <2>1, <2>3 DEF Shown
<1> QED
  BY <1>3, <1>4, <1>5, <1>6

\* Outside recovery the items that count are those a power failure would leave.
LEMMA SeenKept ==
  ASSUME StoreInv, RunInv, ~Booting
  PROVE  \A k : Seen(k) = Kept(k)
<1> SUFFICES ASSUME NEW k, NEW p \in Pos PROVE p \in Seen(k) <=> p \in Kept(k)
  BY DEF Seen, Kept
<1>1. p[1] \in Blocks /\ p[2] \in Offs
  BY DEF Pos
<1>2. IsLive(p[1], p[2], k) => ~Empty(log[p[1]])
  BY <1>1 DEF IsLive, Empty, Erased
<1> QED
  BY <1>1, <1>2, ShownKept DEF Seen, Kept, RunInv, Whole
-----------------------------------------------------------------------------
(* The headers.                                                            *)

\* Every write of a header goes to the flash and to block_info alike.
LEMMA HeaderStep ==
  ASSUME StoreInv, HeaderOk, Next
  PROVE  HeaderOk'
<1> USE Geometry DEF StoreInv, LayoutInv, Unread, Calling, Deleting, Formatting, Scanning, NoState
<1>0. /\ pc = "format" \/ Calling({"erase"}, "next") => hdr[cur[1]] = NoState
      /\ \A b \in Blocks : b \notin Unread /\ ~(pc = "format" /\ b = cur[1]) => hdr[b] = state[b]
  BY DEF HeaderOk
<1>a. pc' = "format" \/ Calling({"erase"}, "next")' => hdr'[cur'[1]] = NoState
  <2>1. CASE BlockErase
    BY <2>1 DEF BlockErase, regs, CursorOk, TypeOK
  <2>2. CASE ScanHeader
    BY <2>2 DEF ScanHeader, flash
  <2>3. CASE ~BlockErase /\ ~ScanHeader
    <3>1. pc' # "format"
      BY <2>3 DEF Next, Operation, Progress, ItemSet, ItemDelete, DeleteByPrefix, GcStart, Return, ControlOk,
             CalcFull, CalcSkip, CalcTake, ItemStore, ItemDel, ItemDelDirty, Ack, SkipGarbage,
             OnCell, OnLive, OnEnd, InBlock, Walks,
             PrefixItem, PrefixNextBlock, BlockFormat, GcCopy, GcCopied, GcMark,
             ScanItem, ScanEnd, ScanNext, UncleanBlock, UncleanDone, ChooseWritePos, PowerFail, PowerOn
    <3>2. ~(pc' = "erase" /\ ret' = "next")
      BY <2>3 DEF Next, Operation, Progress, ItemSet, ItemDelete, DeleteByPrefix, GcStart, Return, ControlOk,
             CalcFull, CalcSkip, CalcTake, ItemStore, ItemDel, ItemDelDirty, Ack, SkipGarbage,
             OnCell, OnLive, OnEnd, InBlock, Walks,
             PrefixItem, PrefixNextBlock, BlockFormat, GcCopy, GcCopied, GcMark,
             ScanItem, ScanEnd, ScanNext, UncleanBlock, UncleanDone, ChooseWritePos, PowerFail, PowerOn
    <3> QED
      BY <3>1, <3>2
  <2> QED
    BY <2>1, <2>2, <2>3
<1>b. ASSUME NEW b \in Blocks, b \notin Unread', ~(pc' = "format" /\ b = cur'[1])
      PROVE  hdr'[b] = state'[b]
  <2>1. ASSUME NEW k \in Keys, NEW v \in Vals, ItemSet(k, v) PROVE hdr'[b] = state'[b]
    BY <1>0, <2>1 DEF ItemSet, SearchEffects, Swept
  <2>2. ASSUME NEW k \in Keys, ItemDelete(k) PROVE hdr'[b] = state'[b]
    BY <1>0, <2>2 DEF ItemDelete, SearchEffects, Swept
  <2>3. ASSUME NEW K \in Prefixes, DeleteByPrefix(K) PROVE hdr'[b] = state'[b]
    BY <1>0, <2>3 DEF DeleteByPrefix, ram, flash
  <2>4. CASE GcStart \/ CalcFull \/ CalcSkip \/ Ack
    BY <1>0, <2>4 DEF GcStart, CalcFull, CalcSkip, Ack, ram, flash
  <2>7. CASE CalcTake
    BY <1>0, <2>7 DEF CalcTake, SetBlockState, TypeOK, regs
  <2>8. CASE ItemStore
    BY <1>0, <2>8 DEF ItemStore
  <2>9. CASE ItemDel
    BY <1>0, <1>b, <2>9 DEF ItemDel, ram, regs, ControlOk, CursorOk
  <2>10. CASE ItemDelDirty
    BY <1>0, <1>b, <2>10 DEF ItemDelDirty, SetBlockState, TypeOK, regs, ControlOk, CursorOk
  <2>12. CASE SkipGarbage
    <3>1. pc # "format" /\ pc' = pc /\ ret' = ret /\ cur'[1] = cur[1] /\ cur[2] # 0
      BY <2>12 DEF SkipGarbage, OnCell, InBlock, Onward, Walks
    <3>2. b \notin Unread
      BY <1>b, <2>12, <3>1 DEF SkipGarbage, OnCell, InBlock, Onward, Walks
    <3> QED
      BY <1>0, <2>12, <3>1, <3>2 DEF SkipGarbage, SetBlockState, TypeOK
  <2>13. CASE PrefixItem
    BY <1>0, <2>13 DEF PrefixItem, OnLive, OnCell, InBlock, ram, flash
  <2>14. CASE PrefixNextBlock
    BY <1>0, <2>14 DEF PrefixNextBlock, OnEnd, InBlock, flash
  <2>15. CASE BlockErase
    BY <1>0, <1>b, <2>15 DEF BlockErase, ram, regs, TypeOK
  <2>16. CASE BlockFormat
    BY <1>0, <1>b, <2>16 DEF BlockFormat, SetBlockState, TypeOK, regs, CursorOk, ControlOk, Blocks
  <2>17. CASE GcCopy
    BY <1>0, <2>17 DEF GcCopy, OnLive, OnCell, InBlock
  <2>18. CASE GcCopied
    BY <1>0, <2>18 DEF GcCopied, OnEnd, InBlock, flash
  <2>19. CASE GcMark
    BY <1>0, <2>19 DEF GcMark, SetBlockState, TypeOK
  <2>20. CASE ScanHeader
    <3>1. pc = "scan" /\ cur[2] = 0 /\ cur[1] \in Blocks /\ hdr' = hdr
      BY <2>20 DEF ScanHeader, CursorOk, flash
    <3>2. CASE hdr[cur[1]] = NoState
      BY <1>0, <1>b, <2>20, <3>1, <3>2 DEF ScanHeader, Blocks
    <3>3. CASE hdr[cur[1]] # NoState
      BY <1>0, <1>b, <2>20, <3>1, <3>3, SMTT(20) DEF ScanHeader, TypeOK, Blocks
    <3> QED
      BY <3>2, <3>3
  <2>21. CASE ScanItem
    <3>1. pc = "scan" /\ cur[2] # 0
      BY <2>21 DEF ScanItem, OnLive, OnCell, InBlock
    <3>2. state' = state /\ hdr' = hdr /\ cur'[1] = cur[1]
      BY <2>21 DEF ScanItem, Onward, ram, flash
    <3>3. (pc' = pc /\ ret' = ret) \/ (pc' = "del" /\ ret' = "scan")
      BY <2>21, Zenon DEF ScanItem
    <3> QED
      BY <1>0, <1>b, <3>1, <3>2, <3>3
  <2>22. CASE ScanEnd
    BY <1>0, <1>b, <2>22 DEF ScanEnd, OnEnd, InBlock, flash
  <2>23. CASE ScanNext
    <3>1. pc = "next" /\ cur[1] \in Blocks /\ state' = state /\ hdr' = hdr
      BY <2>23 DEF ScanNext, ram, CursorOk, flash
    <3> QED
      BY <1>0, <1>b, <2>23, <3>1 DEF ScanNext, Blocks
  <2>24. CASE UncleanBlock
    <3>1. /\ pc = "unclean"
          /\ \/ hdr' = hdr /\ state' = state
             \/ \E c : hdr' = [hdr EXCEPT ![c] = "DIRTY"] /\ state' = [state EXCEPT ![c] = "DIRTY"]
      BY <2>24 DEF UncleanBlock, SetBlockState
    <3> QED
      BY <1>0, <3>1 DEF TypeOK
  <2>25. CASE UncleanDone
    BY <1>0, <2>25 DEF UncleanDone, ram, flash
  <2>26. CASE ChooseWritePos
    BY <1>0, <2>26 DEF ChooseWritePos, SetBlockState, TypeOK
  <2>27. CASE PowerFail
    BY <1>b, <2>27 DEF PowerFail, PowerOn, Blocks
  <2> QED
    BY <2>1, <2>2, <2>3, <2>4, <2>7, <2>8, <2>9, <2>10, <2>12, <2>13, <2>14,
       <2>15, <2>16, <2>17, <2>18, <2>19, <2>20, <2>21, <2>22, <2>23, <2>24, <2>25, <2>26, <2>27
       DEF Next, Operation, Progress
<1> QED
  BY <1>a, <1>b DEF HeaderOk
-----------------------------------------------------------------------------
(* The spare blocks.                                                       *)

\* With at most one block counted as CLEAN there is at most one.
LEMMA FewClean ==
  ASSUME StoreInv, Uncounted = {}, clean <= KV_RESERVED_BLOCKS
  PROVE  Sole
<1> SUFFICES ASSUME NEW b \in Blocks, NEW c \in Blocks, state[b] = "CLEAN", state[c] = "CLEAN", b # c
             PROVE  FALSE
  BY DEF Sole
<1>1. IsFiniteSet(Counted) /\ Cardinality(Counted) \in Nat /\ clean = Cardinality(Counted)
  BY CountedFinite DEF StoreInv, LayoutInv, CountOk
<1>2. {b} \union {c} \in SUBSET Counted
  BY DEF Counted
<1>3. IsFiniteSet({b}) /\ Cardinality({b}) = 1
  BY FS_Singleton
<1>4. Cardinality({b} \union {c}) = 1 + 1
  BY <1>3, FS_AddElement
<1>5. Cardinality({b} \union {c}) <= Cardinality(Counted)
  BY <1>1, <1>2, FS_Subset
<1> QED
  BY <1>1, <1>4, <1>5 DEF KV_RESERVED_BLOCKS

\* A block that is CLEAN has room for every item.
LEMMA CleanHasRoom ==
  ASSUME StoreInv, pc = "calc", NEW b \in Blocks, state[b] = "CLEAN", NEW v \in Vals
  PROVE  HasRoom(b, ItemLen[v])
<1>1. Empty(log[b]) /\ log[b] \in BlockLog
  BY CalcEmpty, BlockLogs DEF StoreInv, LayoutInv
<1>2. b \notin Unmeasured
  BY DEF Unmeasured, Scanning, Calling, Deleting, Formatting
<1>3. Packed(log[b], BSize - space[b]) /\ Packed(log[b], BHdr)
  BY <1>1, <1>2, EmptyPacked DEF StoreInv, LayoutInv, SpaceExact
<1>4. BSize - space[b] = BHdr
  BY <1>1, <1>3, PackedUnique
<1>5. space[b] \in Nat
  BY SpaceNat DEF StoreInv, LayoutInv
<1>6. ItemLen[v] \in Nat /\ ItemLen[v] <= ItemMax /\ ItemMax \in Nat /\ BHdr + ItemMax < BSize /\ BHdr \in Nat /\ BSize \in Nat
  BY KVAssumption
<1> QED
  BY <1>4, <1>5, <1>6 DEF HasRoom

\* The CLEAN blocks after a step of the write path or the collector.
LEMMA SpareFrame ==
  ASSUME SpareOk, \A b \in Blocks : state'[b] = "CLEAN" => state[b] = "CLEAN", ~Booting, pc # "gcmark",
         gc_trigger' => gc_trigger, Collecting' => gc_trigger', pc' \notin {"gcmark", "calc"}
  PROVE  SpareOk'
<1>1. gc_trigger' => Sole'
  BY DEF SpareOk, Sole
<1> QED
  BY <1>1 DEF SpareOk

\* During recovery nothing is said about the spare blocks.
LEMMA SpareBoot ==
  ASSUME Booting', ~Collecting'
  PROVE  SpareOk'
BY DEF SpareOk, Booting, Collecting, Scanning, Calling, Deleting, Formatting

\* kv_calc_position requests a collection only when it has found every other block full.
LEMMA CalcSpare ==
  ASSUME StoreInv, SpareOk, CalcFull \/ CalcSkip \/ CalcTake
  PROVE  SpareOk'
<1> USE Geometry DEF Booting, Scanning, Collecting, Calling, Deleting, Formatting
<1>0. /\ pc = "calc" /\ ~Booting /\ wpos[1] \in Blocks /\ state[wpos[1]] # "CLEAN"
      /\ op.val \in Vals /\ cur[1] \in Nat /\ cur[1] <= NB
  <2>1. pc = "calc"
    BY DEF CalcFull, CalcSkip, CalcTake
  <2>2. wpos \in Pos /\ state[wpos[1]] # "CLEAN" /\ op.val \in Vals
    BY <2>1 DEF StoreInv, LayoutInv, WritePosOk, ControlOk
  <2>3. cur \in (0 .. NB) \X (0 .. BSize)
    BY DEF StoreInv, LayoutInv, TypeOK
  <2> QED
    BY <2>1, <2>2, <2>3 DEF Pos
<1>1. \A b \in Visited : state[b] # "CLEAN"
  BY <1>0 DEF SpareOk
<1>2. CASE CalcFull
  <2>1. pc' = "idle" /\ state' = state /\ cur[1] = wpos[1]
    BY <1>2 DEF CalcFull, Return
  <2>2. \A b \in Blocks : b # wpos[1] => b \in Visited
    BY <1>0, <2>1 DEF Visited, Blocks
  <2>3. Sole'
    BY <1>0, <1>1, <2>1, <2>2 DEF Sole
  <2> QED
    BY <2>1, <2>3 DEF SpareOk
<1>3. CASE CalcSkip
  <2>1. /\ pc' = "calc" /\ state' = state /\ wpos' = wpos /\ cur' = <<CalcIndex + 1, 0>> /\ gc_trigger' = gc_trigger
        /\ cur[1] # wpos[1] /\ ~HasRoom(CalcIndex, ItemLen[op.val])
    BY <1>0, <1>3 DEF CalcSkip, ram
  <2>2. CalcIndex \in Blocks /\ CalcIndex \in Nat
    BY <1>0 DEF CalcIndex, Blocks
  <2>3. state[CalcIndex] # "CLEAN"
    BY <1>0, <2>1, <2>2, CleanHasRoom
  <2>4. ASSUME NEW b \in Blocks, b \in Visited' PROVE b \in Visited \/ b = CalcIndex
    <3>1. IF CalcIndex + 1 > wpos[1] THEN b > wpos[1] /\ b < CalcIndex + 1
                                     ELSE b > wpos[1] \/ b < CalcIndex + 1
      BY <2>1, <2>4 DEF Visited
    <3>2. b \in Nat /\ wpos[1] \in Nat
      BY <1>0 DEF Blocks
    <3>3. CASE cur[1] = NB
      BY <1>0, <3>1, <3>2, <3>3 DEF Visited, CalcIndex, Blocks
    <3>4. CASE cur[1] # NB
      BY <1>0, <2>1, <3>1, <3>2, <3>4 DEF Visited, CalcIndex, Blocks
    <3> QED
      BY <3>3, <3>4
  <2>5. \A b \in Visited' : b \in Blocks
    BY DEF Visited
  <2>6. \A b \in Visited' : state'[b] # "CLEAN"
    BY <1>1, <2>1, <2>3, <2>4, <2>5
  <2> QED
    BY <1>0, <2>1, <2>6 DEF SpareOk, Sole
<1>4. CASE CalcTake
  <2>1. pc' = "store" /\ gc_trigger' = gc_trigger /\ (state' = state \/ state' = [state EXCEPT ![CalcIndex] = "USED"])
    BY <1>4 DEF CalcTake, SetBlockState
  <2>2. \A b \in Blocks : state'[b] = "CLEAN" => state[b] = "CLEAN"
    BY <2>1 DEF StoreInv, LayoutInv, TypeOK
  <2> QED
    BY <1>0, <2>1, <2>2, SpareFrame
<1> QED
  BY <1>2, <1>3, <1>4

\* The test for a nearly full write block requests one when no other block is CLEAN.
LEMMA ItemSetSpare ==
  ASSUME StoreInv, SpareOk, NEW k \in Keys, NEW v \in Vals, ItemSet(k, v)
  PROVE  SpareOk'
<1> USE Geometry DEF Booting, Scanning, Collecting, Calling, Deleting, Formatting
<1>1. pc = "idle" /\ SearchEffects(Search(k)) /\ wpos' = wpos
  BY DEF ItemSet
<1>2. \A b \in Blocks : state'[b] = "CLEAN" <=> state[b] = "CLEAN"
  BY <1>1, SearchQuiet DEF StoreInv
<1>3. Uncounted = {}
  BY <1>1 DEF StoreInv, LayoutInv, UncleanOk, Uncounted
<1>4. wpos[1] \in Blocks /\ state[wpos[1]] # "CLEAN"
  BY <1>1 DEF StoreInv, LayoutInv, WritePosOk, Pos
<1>5. gc_trigger => Sole
  BY <1>1 DEF SpareOk
<1>6. Sole => Sole'
  BY <1>2 DEF Sole
<1>7. CASE pc' = "idle" /\ gc_trigger' = gc_trigger
  BY <1>5, <1>6, <1>7 DEF SpareOk
<1>8. CASE pc' = "store" /\ (gc_trigger' => gc_trigger \/ clean <= KV_RESERVED_BLOCKS)
  BY <1>3, <1>5, <1>6, <1>8, FewClean DEF SpareOk
<1>9. CASE pc' = "calc" /\ gc_trigger' = gc_trigger /\ cur' = <<wpos[1] + 1, 0>>
  <2>1. \A b \in Visited' : FALSE
    BY <1>1, <1>4, <1>9 DEF Visited, Blocks
  <2> QED
    BY <1>5, <1>6, <1>9, <2>1 DEF SpareOk
<1>10. CASE pc' = "idle" /\ NB <= KV_RESERVED_BLOCKS + 1
  <2>1. \A b \in Blocks : b = 0 \/ b = 1
    BY <1>10 DEF KV_RESERVED_BLOCKS, Blocks
  <2>2. Sole
    BY <1>4, <2>1 DEF Sole
  <2> QED
    BY <1>6, <1>10, <2>2 DEF SpareOk
<1>11. \/ pc' = "idle" /\ gc_trigger' = gc_trigger
       \/ pc' = "store" /\ (gc_trigger' => gc_trigger \/ clean <= KV_RESERVED_BLOCKS)
       \/ pc' = "calc" /\ gc_trigger' = gc_trigger /\ cur' = <<wpos[1] + 1, 0>>
       \/ pc' = "idle" /\ NB <= KV_RESERVED_BLOCKS + 1
  BY <1>1 DEF ItemSet
<1> QED
  BY <1>7, <1>8, <1>9, <1>10, <1>11

\* When a collection begins, its destination is the only CLEAN block.
LEMMA SpareStep ==
  ASSUME StoreInv, SpareOk, Next
  PROVE  SpareOk'
<1> USE Geometry DEF Booting, Scanning, Collecting, Calling, Deleting, Formatting
<1>0. /\ pc \in Formatting => ret \in {"gcmark", "next", "unclean", "choose"}
      /\ pc \in Deleting => ret \in {"ack", "prefix", "scan"}
      /\ pc = "dirty" => state[op.old[1]] = "USED"
  BY DEF StoreInv, LayoutInv, ControlOk
<1>t. state \in [Blocks -> BlockState \union {NoState}]
  BY DEF StoreInv, LayoutInv, TypeOK
<1>1. ASSUME NEW k \in Keys, NEW v \in Vals, ItemSet(k, v) PROVE SpareOk'
  BY <1>1, ItemSetSpare
<1>2. ASSUME NEW k \in Keys, ItemDelete(k) PROVE SpareOk'
  <2>1. pc = "idle" /\ gc_trigger' = gc_trigger /\ (pc' = pc \/ (pc' = "del" /\ ret' = "ack"))
    BY <1>2 DEF ItemDelete
  <2>2. \A b \in Blocks : state'[b] = "CLEAN" <=> state[b] = "CLEAN"
    BY <1>2, SearchQuiet DEF StoreInv, ItemDelete
  <2> QED
    BY <2>1, <2>2, SpareFrame
<1>3. ASSUME NEW K \in Prefixes, DeleteByPrefix(K) PROVE SpareOk'
  BY <1>3, SpareFrame DEF DeleteByPrefix, ram
<1>4. CASE GcStart
  BY <1>4, SpareFrame DEF GcStart
<1>5. CASE CalcFull \/ CalcSkip \/ CalcTake
  BY <1>5, CalcSpare
<1>6. CASE ItemStore
  BY <1>6, SpareFrame DEF ItemStore
<1>7. CASE ItemDel
  <2>1. pc = "del" /\ state' = state /\ gc_trigger' = gc_trigger /\ pc' \in {"dirty", ret} /\ ret' = ret
    BY <1>7 DEF ItemDel, ram, regs
  <2> QED
    BY <1>0, <2>1, SpareFrame, SpareBoot
<1>8. CASE ItemDelDirty
  <2>1. /\ pc = "dirty" /\ state' = [state EXCEPT ![op.old[1]] = "DIRTY"] /\ gc_trigger' = gc_trigger
        /\ pc' = ret /\ ret' = ret
    BY <1>8 DEF ItemDelDirty, regs, SetBlockState
  <2>2. \A b \in Blocks : state'[b] = "CLEAN" => state[b] = "CLEAN"
    BY <1>t, <2>1
  <2> QED
    BY <1>0, <2>1, <2>2, SpareFrame, SpareBoot
<1>9. CASE Ack
  BY <1>9, SpareFrame DEF Ack, Return, ram
<1>10. CASE SkipGarbage
  <2>1. /\ pc \in Walks /\ gc_trigger' = gc_trigger /\ pc' = pc /\ ret' = ret
        /\ state' = state \/ state' = [state EXCEPT ![cur[1]] = "DIRTY"]
    BY <1>10 DEF SkipGarbage, SetBlockState, OnCell, InBlock
  <2>2. \A b \in Blocks : state'[b] = "CLEAN" => state[b] = "CLEAN"
    BY <1>t, <2>1
  <2>3. pc = "gccopy" => gc_trigger
    BY DEF SpareOk
  <2> QED
    BY <2>1, <2>2, <2>3, SpareFrame, SpareBoot DEF Walks
<1>11. CASE PrefixItem
  BY <1>11, SpareFrame DEF PrefixItem, OnLive, OnCell, InBlock, ram
<1>12. CASE PrefixNextBlock
  BY <1>12, SpareFrame DEF PrefixNextBlock, OnEnd, InBlock, Return
<1>13. CASE BlockErase
  <2>1. pc = "erase" /\ pc' = "format" /\ ret' = ret /\ state' = state /\ gc_trigger' = gc_trigger
    BY <1>13 DEF BlockErase, ram, regs
  <2>2. CASE ret = "gcmark"
    BY <2>1, <2>2, SpareFrame DEF SpareOk
  <2>3. CASE ret # "gcmark"
    BY <1>0, <2>1, <2>3, SpareBoot
  <2> QED
    BY <2>2, <2>3
<1>14. CASE BlockFormat
  <2>1. /\ pc = "format" /\ pc' = ret /\ ret' = ret /\ gc_trigger' = gc_trigger /\ wpos' = wpos /\ cur' = cur
        /\ state' = [state EXCEPT ![cur[1]] = "CLEAN"]
    BY <1>14 DEF BlockFormat, regs, SetBlockState
  <2>2. CASE ret = "gcmark"
    <3>1. cur[1] \in Blocks /\ cur[1] # wpos[1] /\ gc_trigger
      BY <2>1, <2>2 DEF StoreInv, LayoutInv, CursorOk, CollectOk, SpareOk
    <3> QED
      BY <1>t, <2>1, <2>2, <3>1 DEF SpareOk
  <2>3. CASE ret # "gcmark"
    BY <1>0, <2>1, <2>3, SpareBoot
  <2> QED
    BY <2>2, <2>3
<1>15. CASE GcCopy
  BY <1>15, SpareFrame DEF GcCopy, OnLive, OnCell, InBlock, SpareOk
<1>16. CASE GcCopied
  BY <1>16, SpareFrame DEF GcCopied, OnEnd, InBlock, SpareOk
<1>17. CASE GcMark
  BY <1>17 DEF GcMark, Return, SpareOk
<1>18. CASE ScanHeader \/ ScanEnd \/ ScanNext \/ UncleanBlock \/ UncleanDone \/ PowerFail
  <2>1. Booting' /\ ~Collecting'
    BY <1>18 DEF ScanHeader, ScanEnd, ScanNext, UncleanBlock, UncleanDone, PowerFail, PowerOn, OnEnd, InBlock
  <2> QED
    BY <2>1, SpareBoot
<1>19. CASE ScanItem
  <2>1. pc = "scan" /\ ((pc' = pc /\ ret' = ret) \/ (pc' = "del" /\ ret' = "scan"))
    BY <1>19, Zenon DEF ScanItem, OnLive, OnCell, InBlock
  <2> QED
    BY <2>1, SpareBoot
<1>20. CASE ChooseWritePos
  <2>1. pc = "choose" /\ pc' = "idle" /\ (gc_trigger' => clean' < KV_RESERVED_BLOCKS + 1)
    BY <1>20 DEF ChooseWritePos, Return
  <2>2. Uncounted = {} /\ clean \in Int
    BY <2>1 DEF StoreInv, LayoutInv, UncleanOk, Uncounted, TypeOK
  <2>3. CASE clean = NB /\ state' = [state EXCEPT ![0] = "USED"] /\ clean' = clean - 1
    <3>1. clean' < KV_RESERVED_BLOCKS + 1 => \A b \in Blocks : b = 0 \/ b = 1
      BY <2>3 DEF KV_RESERVED_BLOCKS, Blocks
    <3>2. 0 \in Blocks /\ state'[0] = "USED"
      BY <1>t, <2>3 DEF Blocks
    <3>3. gc_trigger' => Sole'
      BY <2>1, <3>1, <3>2 DEF Sole
    <3> QED
      BY <2>1, <3>3 DEF SpareOk
  <2>4. CASE state' = state /\ clean' = clean
    <3>1. gc_trigger' => Sole
      BY <2>1, <2>2, <2>4, FewClean DEF KV_RESERVED_BLOCKS
    <3> QED
      BY <2>1, <2>4, <3>1 DEF SpareOk, Sole
  <2> QED
    BY <1>20, <2>3, <2>4 DEF ChooseWritePos, SetBlockState
<1> QED
  BY <1>1, <1>2, <1>3, <1>4, <1>5, <1>6, <1>7, <1>8, <1>9, <1>10, <1>11, <1>12, <1>13, <1>14,
     <1>15, <1>16, <1>17, <1>18, <1>19, <1>20
     DEF Next, Operation, Progress
-----------------------------------------------------------------------------
(* The values of the items while no recovery is under way.                 *)

Quiet == (Operation \/ Progress) /\ ~(ItemStore \/ ItemDel \/ GcCopy \/ BlockErase)

\* A step that writes no item and erases none leaves the items that are read as
\* they are, and begins no update.
LEMMA QuietSeen ==
  ASSUME StoreInv, Whole, ~Booting, Quiet
  PROVE  /\ log' = log
         /\ \A k : Seen(k)' = Seen(k)
         /\ \A p : CellAt(p)' = CellAt(p)
         /\ \A k \in Keys : ~Updating(k)'
<1> USE DEF Calling, Deleting, Formatting
<1>0. /\ pc = "dirty" => state[op.old[1]] = "USED" /\ ret \in {"ack", "prefix"}
      /\ pc = "format" => ret = "gcmark"
      /\ state \in [Blocks -> BlockState \union {NoState}]
  BY DEF StoreInv, LayoutInv, ControlOk, TypeOK, Booting, Scanning
<1> SUFFICES /\ log' = log
             /\ \A b \in Blocks : Empty(log[b]) \/ (Shown(b)' <=> Shown(b))
             /\ \A k \in Keys : ~Updating(k)'
  BY SeenFrame
<1>q. ASSUME log' = log, \A b \in Blocks : state'[b] = "CLEAN" <=> state[b] = "CLEAN",
             pc \notin {"format", "gcmark"}, pc' \notin {"format", "gcmark", "del"}
      PROVE  /\ log' = log
             /\ \A b \in Blocks : Empty(log[b]) \/ (Shown(b)' <=> Shown(b))
             /\ \A k \in Keys : ~Updating(k)'
  BY <1>q DEF Shown, Moved, Updating
<1>1. ASSUME NEW k \in Keys, NEW v \in Vals, ItemSet(k, v)
      PROVE  /\ log' = log
             /\ \A b \in Blocks : Empty(log[b]) \/ (Shown(b)' <=> Shown(b))
             /\ \A i \in Keys : ~Updating(i)'
  <2>1. pc = "idle" /\ SearchEffects(Search(k)) /\ log' = log /\ pc' \in {"idle", "store", "calc"}
    BY <1>1 DEF ItemSet
  <2>2. \A b \in Blocks : state'[b] = "CLEAN" <=> state[b] = "CLEAN"
    BY <2>1, SearchQuiet DEF StoreInv
  <2> QED
    BY <1>q, <2>1, <2>2
<1>2. ASSUME NEW k \in Keys, ItemDelete(k)
      PROVE  /\ log' = log
             /\ \A b \in Blocks : Empty(log[b]) \/ (Shown(b)' <=> Shown(b))
             /\ \A i \in Keys : ~Updating(i)'
  <2>1. pc = "idle" /\ SearchEffects(Search(k)) /\ log' = log
    BY <1>2 DEF ItemDelete
  <2>2. \A b \in Blocks : state'[b] = "CLEAN" <=> state[b] = "CLEAN"
    BY <2>1, SearchQuiet DEF StoreInv
  <2>3. pc' = "idle" \/ (pc' = "del" /\ op'.val = NoVal)
    BY <1>2, <2>1 DEF ItemDelete, NoOp
  <2> QED
    BY <2>1, <2>2, <2>3 DEF Shown, Moved, Updating
<1>3. CASE (\E K \in Prefixes : DeleteByPrefix(K)) \/ GcStart \/ CalcFull \/ CalcSkip \/ Ack
  BY <1>3, <1>q DEF DeleteByPrefix, GcStart, CalcFull, CalcSkip, Ack, Return, ram, flash
<1>4. CASE CalcTake
  <2>1. /\ pc = "calc" /\ pc' = "store" /\ log' = log
        /\ state' = state \/ (state[CalcIndex] = "CLEAN" /\ state' = [state EXCEPT ![CalcIndex] = "USED"])
    BY <1>4 DEF CalcTake, SetBlockState
  <2> QED
    BY <1>0, <2>1, CalcEmpty DEF Shown, Moved, Updating
<1>5. CASE ItemDelDirty
  <2>1. pc = "dirty" /\ pc' = ret /\ log' = log /\ state' = [state EXCEPT ![op.old[1]] = "DIRTY"]
    BY <1>5 DEF ItemDelDirty, SetBlockState
  <2> QED
    BY <1>0, <1>q, <2>1
<1>6. CASE SkipGarbage
  <2>1. /\ pc \in Walks /\ pc' = pc /\ log' = log
        /\ state' = state \/ (state[cur[1]] = "USED" /\ state' = [state EXCEPT ![cur[1]] = "DIRTY"])
    BY <1>6 DEF SkipGarbage, SetBlockState, OnCell, InBlock
  <2> QED
    BY <1>0, <1>q, <2>1 DEF Walks
<1>7. CASE PrefixItem
  <2>1. pc = "prefix" /\ (pc' = "prefix" \/ (pc' = "del" /\ ret' = "prefix")) /\ log' = log /\ state' = state
    BY <1>7 DEF PrefixItem, OnLive, OnCell, InBlock, flash, ram
  <2> QED
    BY <2>1 DEF Shown, Moved, Updating
<1>8. CASE PrefixNextBlock \/ GcCopied
  BY <1>8, <1>q DEF PrefixNextBlock, GcCopied, OnEnd, InBlock, Return, flash
<1>9. CASE BlockFormat
  <2>1. /\ pc = "format" /\ ret = "gcmark" /\ pc' = "gcmark" /\ ret' = "gcmark" /\ log' = log /\ wpos' = wpos
        /\ state' = [state EXCEPT ![cur[1]] = "CLEAN"]
    BY <1>0, <1>9 DEF BlockFormat, SetBlockState, regs
  <2>2. Empty(log[cur[1]])
    BY <2>1 DEF StoreInv, LayoutInv, CleanEmpty
  <2> QED
    BY <1>0, <2>1, <2>2 DEF Shown, Moved, Updating
<1>10. CASE GcMark
  <2>1. pc = "gcmark" /\ ret = "gcmark" /\ pc' = "idle" /\ log' = log /\ state' = [state EXCEPT ![wpos[1]] = "USED"]
    BY <1>10 DEF GcMark, Return, SetBlockState, Whole, CallOk
  <2> QED
    BY <1>0, <2>1 DEF Shown, Moved, Updating
<1>11. ~(ScanHeader \/ ScanItem \/ ScanEnd \/ ScanNext \/ UncleanBlock \/ UncleanDone \/ ChooseWritePos)
  BY BootOnly
<1> QED
  BY <1>1, <1>2, <1>3, <1>4, <1>5, <1>6, <1>7, <1>8, <1>9, <1>10, <1>11 DEF Quiet, Operation, Progress

\* What such a step has to show: that the values a read may return are right.
LEMMA QuietValues ==
  ASSUME Sound, ~Booting, log' = log, \A k : Seen(k)' = Seen(k), \A p : CellAt(p)' = CellAt(p),
         \A k \in Keys : ~Updating(k)',
         \A k \in Keys : \A p \in Seen(k) : CellAt(p).val \in want'[k],
         \A k \in Keys : Seen(k) = {} => NoVal \in want'[k],
         pc' \in {"calc", "store"} \/ Calling({"del"}, "ack")' => op'.val \in want'[op'.key],
         Prefixing' => \A k \in op'.sel : NoVal \in want'[k]
  PROVE  Sound' /\ Wanted'
<1>1. Sound'
  BY DEF Sound
<1>2. Wanted'
  BY DEF Wanted
<1> QED
  BY <1>1, <1>2

\* The values of the items, one lemma for each operation that begins or ends.
LEMMA SetValues ==
  ASSUME StoreInv, RunInv, NEW k \in Keys, NEW v \in Vals, ItemSet(k, v)
  PROVE  Sound' /\ Wanted'
<1> USE DEF Calling, Deleting, Formatting
<1>1. pc = "idle" /\ ~Booting
  BY DEF ItemSet, Booting, Scanning
<1>2. Quiet
  BY <1>1 DEF Quiet, Operation, ItemStore, ItemDel, GcCopy, BlockErase, OnLive, OnCell, InBlock
<1>3. Whole /\ Sound /\ Wanted
  BY <1>1 DEF RunInv
<1>4. /\ log' = log
      /\ \A i : Seen(i)' = Seen(i)
      /\ \A p : CellAt(p)' = CellAt(p)
      /\ \A i \in Keys : ~Updating(i)'
  BY <1>1, <1>2, <1>3, QuietSeen
<1>5. /\ \A i \in Keys : \A p \in Seen(i) : CellAt(p).val \in want[i]
      /\ \A i \in Keys : Seen(i) = {} => NoVal \in want[i]
      /\ want \in [Keys -> SUBSET (Vals \union {NoVal})]
  BY <1>1, <1>3 DEF Wanted, StoreInv, LayoutInv, TypeOK
<1>6. CASE StoredVal(Search(k)) = v /\ pc' = pc /\ want' = [want EXCEPT ![k] = {v}]
  <2>1. Search(k) # NoPos
    BY <1>6, KVAssumption DEF StoredVal
  <2>2. Search(k) \in Seen(k) /\ CellAt(Search(k)).val = v
    BY <1>1, <1>6, <2>1, SearchSeen DEF StoredVal
  <2>3. \A p, q \in Seen(k) : p = q
    BY <1>1, <1>3 DEF Whole, Single, Updating
  <2>4. \A p \in Seen(k) : CellAt(p).val = v
    BY <2>2, <2>3
  <2>5. /\ \A i \in Keys : \A p \in Seen(i) : CellAt(p).val \in want'[i]
        /\ \A i \in Keys : Seen(i) = {} => NoVal \in want'[i]
    BY <1>5, <1>6, <2>2, <2>4
  <2>6. pc' = "idle"
    BY <1>1, <1>6
  <2> QED
    BY <1>1, <1>3, <1>4, <2>5, <2>6, QuietValues DEF Prefixing
<1>7. CASE pc' \in {"store", "calc"} /\ op'.key = k /\ op'.val = v /\ want' = [want EXCEPT ![k] = @ \union {v}]
  <2>1. /\ \A i \in Keys : \A p \in Seen(i) : CellAt(p).val \in want'[i]
        /\ \A i \in Keys : Seen(i) = {} => NoVal \in want'[i]
        /\ v \in want'[k]
    BY <1>5, <1>7
  <2> QED
    BY <1>1, <1>3, <1>4, <1>7, <2>1, QuietValues DEF Prefixing
<1>8. CASE pc' = pc /\ want' = want
  <2>1. pc' = "idle"
    BY <1>1, <1>8
  <2> QED
    BY <1>1, <1>3, <1>4, <1>5, <1>8, <2>1, QuietValues DEF Prefixing
<1>9. NoOp.key = AnyKey /\ NoOp \in [key : Keys, val : Vals \union {NoVal}, old : Pos \union {NoPos}, sel : SUBSET Keys]
  BY NoOpType DEF NoOp
<1>10. \A p : [NoOp EXCEPT !.key = k, !.val = v, !.old = p].key = k /\ [NoOp EXCEPT !.key = k, !.val = v, !.old = p].val = v
  BY DEF NoOp
<1> QED
  BY <1>6, <1>7, <1>8, <1>10 DEF ItemSet

LEMMA DeleteValues ==
  ASSUME StoreInv, RunInv, NEW k \in Keys, ItemDelete(k)
  PROVE  Sound' /\ Wanted'
<1> USE DEF Calling, Deleting, Formatting
<1>1. pc = "idle" /\ ~Booting
  BY DEF ItemDelete, Booting, Scanning
<1>2. Quiet
  BY <1>1 DEF Quiet, Operation, ItemStore, ItemDel, GcCopy, BlockErase, OnLive, OnCell, InBlock
<1>3. Whole /\ Sound /\ Wanted
  BY <1>1 DEF RunInv
<1>4. /\ log' = log
      /\ \A i : Seen(i)' = Seen(i)
      /\ \A p : CellAt(p)' = CellAt(p)
      /\ \A i \in Keys : ~Updating(i)'
  BY <1>1, <1>2, <1>3, QuietSeen
<1>5. /\ \A i \in Keys : \A p \in Seen(i) : CellAt(p).val \in want[i]
      /\ \A i \in Keys : Seen(i) = {} => NoVal \in want[i]
      /\ want \in [Keys -> SUBSET (Vals \union {NoVal})]
  BY <1>1, <1>3 DEF Wanted, StoreInv, LayoutInv, TypeOK
<1>6. CASE pc' = pc /\ want' = want
  <2>1. pc' = "idle"
    BY <1>1, <1>6
  <2> QED
    BY <1>1, <1>3, <1>4, <1>5, <1>6, <2>1, QuietValues DEF Prefixing
<1>7. CASE pc' = "del" /\ ret' = "ack" /\ op'.key = k /\ op'.val = NoVal /\ want' = [want EXCEPT ![k] = @ \union {NoVal}]
  <2>1. /\ \A i \in Keys : \A p \in Seen(i) : CellAt(p).val \in want'[i]
        /\ \A i \in Keys : Seen(i) = {} => NoVal \in want'[i]
        /\ NoVal \in want'[k]
    BY <1>5, <1>7
  <2> QED
    BY <1>1, <1>3, <1>4, <1>7, <2>1, QuietValues DEF Prefixing
<1>10. \A p : [NoOp EXCEPT !.key = k, !.old = p].key = k /\ [NoOp EXCEPT !.key = k, !.old = p].val = NoVal
  BY DEF NoOp
<1> QED
  BY <1>6, <1>7, <1>10 DEF ItemDelete

LEMMA PrefixValues ==
  ASSUME StoreInv, RunInv, NEW K \in Prefixes, DeleteByPrefix(K)
  PROVE  Sound' /\ Wanted'
<1> USE DEF Calling, Deleting, Formatting
<1>1. pc = "idle" /\ ~Booting /\ pc' = "prefix" /\ want' = [k \in Keys |-> IF k \in K THEN want[k] \union {NoVal} ELSE want[k]]
  BY DEF DeleteByPrefix, Booting, Scanning
<1>2. Quiet
  BY <1>1 DEF Quiet, Operation, ItemStore, ItemDel, GcCopy, BlockErase, OnLive, OnCell, InBlock
<1>3. Whole /\ Sound /\ Wanted
  BY <1>1 DEF RunInv
<1>4. /\ log' = log
      /\ \A i : Seen(i)' = Seen(i)
      /\ \A p : CellAt(p)' = CellAt(p)
      /\ \A i \in Keys : ~Updating(i)'
  BY <1>1, <1>2, <1>3, QuietSeen
<1>5. /\ \A i \in Keys : \A p \in Seen(i) : CellAt(p).val \in want[i]
      /\ \A i \in Keys : Seen(i) = {} => NoVal \in want[i]
  BY <1>1, <1>3 DEF Wanted
<1>6. op'.sel = K /\ K \subseteq Keys
  BY KVAssumption DEF DeleteByPrefix, NoOp
<1>7. /\ \A i \in Keys : \A p \in Seen(i) : CellAt(p).val \in want'[i]
      /\ \A i \in Keys : Seen(i) = {} => NoVal \in want'[i]
      /\ \A i \in op'.sel : NoVal \in want'[i]
  BY <1>1, <1>5, <1>6
<1> QED
  BY <1>1, <1>3, <1>4, <1>7, QuietValues

LEMMA CallValues ==
  ASSUME StoreInv, RunInv, CalcFull \/ CalcSkip \/ CalcTake \/ Ack
  PROVE  Sound' /\ Wanted'
<1> USE DEF Calling, Deleting, Formatting
<1>1. pc \in {"calc", "ack"} /\ ~Booting
  BY DEF CalcFull, CalcSkip, CalcTake, Ack, Booting, Scanning
<1>2. Quiet
  BY <1>1 DEF Quiet, Progress, ItemStore, ItemDel, GcCopy, BlockErase, OnLive, OnCell, InBlock
<1>3. Whole /\ Sound /\ Wanted
  BY <1>1 DEF RunInv
<1>4. /\ log' = log
      /\ \A i : Seen(i)' = Seen(i)
      /\ \A p : CellAt(p)' = CellAt(p)
      /\ \A i \in Keys : ~Updating(i)'
  BY <1>1, <1>2, <1>3, QuietSeen
<1>5. /\ \A i \in Keys : \A p \in Seen(i) : CellAt(p).val \in want[i]
      /\ \A i \in Keys : Seen(i) = {} => NoVal \in want[i]
      /\ pc = "calc" => op.val \in want[op.key]
      /\ want \in [Keys -> SUBSET (Vals \union {NoVal})]
      /\ op.key \in Keys /\ \A p, q \in Seen(op.key) : p = q
  BY <1>1, <1>3 DEF Wanted, StoreInv, LayoutInv, TypeOK, Whole, Single, Updating
<1>6. CASE CalcSkip \/ CalcTake
  <2>1. pc = "calc" /\ pc' \in {"calc", "store"} /\ op' = op /\ want' = want
    BY <1>6 DEF CalcSkip, CalcTake, regs, hist
  <2> QED
    BY <1>1, <1>3, <1>4, <1>5, <2>1, QuietValues DEF Prefixing
<1>7. CASE CalcFull
  <2>1. pc = "calc" /\ pc' = "idle" /\ want' = [want EXCEPT ![op.key] = {StoredVal(op.old)}]
    BY <1>7 DEF CalcFull, Return
  <2>2. \/ op.old = NoPos /\ Seen(op.key) = {} /\ StoredVal(op.old) = NoVal
        \/ op.old \in Seen(op.key) /\ StoredVal(op.old) = CellAt(op.old).val
    <3>1. (op.old = NoPos /\ Seen(op.key) = {}) \/ op.old \in Seen(op.key)
      BY <1>3, <2>1 DEF Whole, CallOk
    <3>2. NoPos \notin Seen(op.key)
      BY NoOpType DEF Seen
    <3> QED
      BY <3>1, <3>2 DEF StoredVal
  <2>3. /\ \A i \in Keys : \A p \in Seen(i) : CellAt(p).val \in want'[i]
        /\ \A i \in Keys : Seen(i) = {} => NoVal \in want'[i]
    BY <1>5, <2>1, <2>2
  <2> QED
    BY <1>1, <1>3, <1>4, <2>1, <2>3, QuietValues DEF Prefixing
<1>8. CASE Ack
  <2>1. pc = "ack" /\ pc' = "idle" /\ want' = [want EXCEPT ![op.key] = {op.val}]
    BY <1>8 DEF Ack, Return
  <2>2. IF op.val = NoVal THEN Seen(op.key) = {} ELSE \E p \in Seen(op.key) : CellAt(p).val = op.val
    BY <1>3, <2>1 DEF Whole, CallOk
  <2>3. /\ \A i \in Keys : \A p \in Seen(i) : CellAt(p).val \in want'[i]
        /\ \A i \in Keys : Seen(i) = {} => NoVal \in want'[i]
    BY <1>5, <2>1, <2>2
  <2> QED
    BY <1>1, <1>3, <1>4, <2>1, <2>3, QuietValues DEF Prefixing
<1> QED
  BY <1>6, <1>7, <1>8

\* Traversals, marks of blocks and the steps around a collection change no item.
LEMMA WalkValues ==
  ASSUME StoreInv, RunInv, ~Booting,
         \/ GcStart \/ ItemDelDirty \/ SkipGarbage \/ PrefixItem \/ PrefixNextBlock
         \/ BlockFormat \/ GcCopied \/ GcMark
  PROVE  Sound' /\ Wanted'
<1> USE DEF Calling, Deleting, Formatting
<1>2. Quiet
  <2>1. pc \notin {"store", "del", "erase"}
    BY DEF GcStart, ItemDelDirty, SkipGarbage, PrefixItem, PrefixNextBlock, BlockFormat, GcCopied, GcMark,
           OnLive, OnCell, OnEnd, InBlock, Walks
  <2>2. ~GcCopy
    <3>1. GcCopy => pc = "gccopy" /\ ~IsEnd(log[cur[1]], cur[2]) /\ ~IsGarbage(Here)
      BY DEF GcCopy, OnLive, OnCell, InBlock
    <3>2. ~(pc = "gccopy" /\ ~IsEnd(log[cur[1]], cur[2]) /\ ~IsGarbage(Here))
      BY DEF GcStart, ItemDelDirty, SkipGarbage, PrefixItem, PrefixNextBlock, BlockFormat, GcCopied, GcMark,
             OnLive, OnCell, OnEnd, InBlock
    <3> QED
      BY <3>1, <3>2
  <2> QED
    BY <2>1, <2>2 DEF Quiet, Operation, Progress, ItemStore, ItemDel, BlockErase
<1>3. Whole /\ Sound /\ Wanted
  BY DEF RunInv
<1>4. /\ log' = log
      /\ \A i : Seen(i)' = Seen(i)
      /\ \A p : CellAt(p)' = CellAt(p)
      /\ \A i \in Keys : ~Updating(i)'
  BY <1>2, <1>3, QuietSeen
<1>5. /\ \A i \in Keys : \A p \in Seen(i) : CellAt(p).val \in want[i]
      /\ \A i \in Keys : Seen(i) = {} => NoVal \in want[i]
      /\ Prefixing => \A i \in op.sel : NoVal \in want[i]
  BY <1>3 DEF Wanted
<1>6. CASE GcStart \/ BlockFormat \/ GcCopied \/ GcMark
  <2>1. want' = want /\ pc' \notin {"calc", "store", "del", "dirty", "prefix"}
    BY <1>6 DEF GcStart, BlockFormat, GcCopied, GcMark, Return, hist, StoreInv, LayoutInv, ControlOk
  <2> QED
    BY <1>3, <1>4, <1>5, <2>1, QuietValues DEF Prefixing
<1>7. CASE ItemDelDirty
  <2>1. /\ want' = want /\ pc = "dirty" /\ ret \in {"ack", "prefix"} /\ pc' = ret /\ ret' = ret /\ op' = op
    BY <1>7 DEF ItemDelDirty, hist, regs, StoreInv, LayoutInv, ControlOk, Booting, Scanning
  <2> QED
    BY <1>3, <1>4, <1>5, <2>1, QuietValues DEF Prefixing
<1>8. CASE SkipGarbage
  <2>1. want' = want /\ pc \in {"prefix", "gccopy"} /\ pc' = pc /\ op' = op
    BY <1>8 DEF SkipGarbage, hist, OnCell, InBlock, Walks, Booting, Scanning
  <2> QED
    BY <1>3, <1>4, <1>5, <2>1, QuietValues DEF Prefixing
<1>9. CASE PrefixItem
  <2>1. /\ want' = want /\ pc = "prefix" /\ (pc' = "prefix" \/ (pc' = "del" /\ ret' = "prefix"))
        /\ op' = op \/ op' = [op EXCEPT !.old = cur]
    BY <1>9 DEF PrefixItem, hist, OnLive, OnCell, InBlock
  <2>2. op'.sel = op.sel
    BY <2>1 DEF StoreInv, LayoutInv, TypeOK
  <2> QED
    BY <1>3, <1>4, <1>5, <2>1, <2>2, QuietValues DEF Prefixing
<1>10. CASE PrefixNextBlock
  <2>0. pc = "prefix"
    BY <1>10 DEF PrefixNextBlock, OnEnd, InBlock
  <2>1. CASE cur[1] + 1 # NB
    <3>1. want' = want /\ pc' = "prefix" /\ op' = op
      BY <1>10, <2>0, <2>1 DEF PrefixNextBlock
    <3> QED
      BY <1>3, <1>4, <1>5, <2>0, <3>1, QuietValues DEF Prefixing
  <2>2. CASE cur[1] + 1 = NB
    <3>1. want' = [k \in Keys |-> IF k \in op.sel THEN {NoVal} ELSE want[k]] /\ pc' = "idle"
      BY <1>10, <2>2 DEF PrefixNextBlock, Return
    <3>2. \A k \in op.sel : Seen(k) = {}
      BY <1>3, <1>10, <2>2, PrefixNextBlockMap
    <3>3. /\ \A i \in Keys : \A p \in Seen(i) : CellAt(p).val \in want'[i]
          /\ \A i \in Keys : Seen(i) = {} => NoVal \in want'[i]
      BY <1>5, <3>1, <3>2
    <3> QED
      BY <1>3, <1>4, <3>1, <3>3, QuietValues DEF Prefixing
  <2> QED
    BY <2>1, <2>2
<1> QED
  BY <1>6, <1>7, <1>8, <1>9, <1>10

\* An update names the item it replaces.
LEMMA StoreValues ==
  ASSUME StoreInv, RunInv, ItemStore
  PROVE  Sound' /\ Wanted'
<1> USE DEF Calling, Deleting, Formatting
<1>k. PICK k : k = op.key
  OBVIOUS
<1>n. PICK n : n = wpos
  OBVIOUS
<1>1. /\ pc = "store" /\ ~Booting /\ ret' = "ack" /\ op' = op /\ want' = want
      /\ pc' = "ack" \/ pc' = "del"
  BY DEF ItemStore, hist, Booting, Scanning
<1>2. Whole /\ Sound /\ Wanted
  BY <1>1 DEF RunInv
<1>3. /\ n \in Pos /\ k \in Keys
      /\ Seen(k)' = Seen(k) \union {n}
      /\ \A i : i # k => Seen(i)' = Seen(i)
      /\ \A i : n \notin Seen(i)
      /\ \A q \in Pos : q # n => CellAt(q)' = CellAt(q)
      /\ CellAt(n)' = NewItem(k, op.val, op.old)
      /\ Seen(k) = {} \/ Seen(k) = {op.old}
  BY <1>k, <1>n, <1>2, Stored
<1>4. CellAt(n)'.crc /\ CellAt(n)'.val = op.val /\ CellAt(n)'.origin_off = op.old
  BY <1>3 DEF NewItem
<1>5. \A i : Seen(i) \subseteq Pos
  BY DEF Seen
<1>6. Sound'
  <2>1. ASSUME NEW p \in Pos, CellAt(p)'.kind = "item", CellAt(p)'.state = "NORMAL" PROVE CellAt(p)'.crc
    BY <1>1, <1>2, <1>3, <1>4, <2>1 DEF Sound
  <2>2. ASSUME NEW i \in Keys, Updating(i)', NEW p \in Seen(i)', p # op'.old PROVE CellAt(p)'.origin_off = op'.old
    <3>1. i = k
      BY <1>k, <1>1, <2>2 DEF Updating
    <3>2. p = n
      BY <1>1, <1>3, <2>2, <3>1
    <3> QED
      BY <1>1, <1>4, <3>2
  <2> QED
    BY <2>1, <2>2 DEF Sound
<1>7. /\ \A i \in Keys : \A p \in Seen(i) : CellAt(p).val \in want[i]
      /\ \A i \in Keys : Seen(i) = {} => NoVal \in want[i]
      /\ op.val \in want[k]
  BY <1>k, <1>1, <1>2 DEF Wanted
<1>8. ASSUME NEW i \in Keys, NEW p \in Seen(i)' PROVE CellAt(p)'.val \in want[i]
  <2>1. CASE p = n
    <3>1. i = k
      BY <1>3, <2>1
    <3> QED
      BY <1>4, <1>7, <2>1, <3>1
  <2>2. CASE p # n
    <3>1. p \in Seen(i) /\ CellAt(p)' = CellAt(p)
      BY <1>3, <1>5, <2>2
    <3> QED
      BY <1>7, <3>1
  <2> QED
    BY <2>1, <2>2
<1>9. ASSUME NEW i \in Keys, Seen(i)' = {} PROVE NoVal \in want[i]
  BY <1>3, <1>7, <1>9
<1>10. Wanted'
  BY <1>k, <1>1, <1>7, <1>8, <1>9 DEF Wanted, Prefixing
<1> QED
  BY <1>6, <1>10

LEMMA DelValues ==
  ASSUME StoreInv, RunInv, ItemDel, ~Booting
  PROVE  Sound' /\ Wanted'
<1> USE DEF Calling, Deleting, Formatting
<1>o. PICK o : o = op.old
  OBVIOUS
<1>1. /\ pc = "del" /\ ret \in {"ack", "prefix"} /\ op' = op /\ want' = want /\ ret' = ret
      /\ pc' = "dirty" \/ pc' = ret
      /\ log' = [log EXCEPT ![op.old[1]][op.old[2]].state = "DELETE"]
  BY DEF ItemDel, hist, regs, Booting, Scanning, StoreInv, LayoutInv, ControlOk
<1>2. Whole /\ Sound /\ Wanted
  BY DEF RunInv
<1>3. /\ o \in Pos /\ o \in Seen(CellAt(o).key) /\ CellAt(o).key \in Keys
      /\ \A i : Seen(i)' = Seen(i) \ {o}
      /\ \A q \in Pos : q # o => CellAt(q)' = CellAt(q)
  BY <1>o, <1>2, Marked
<1>4. CellAt(o)'.state = "DELETE"
  BY <1>o, MarkedCell
<1>5. \A i : Seen(i) \subseteq Pos
  BY DEF Seen
<1>6. Sound'
  <2>1. ASSUME NEW p \in Pos, CellAt(p)'.kind = "item", CellAt(p)'.state = "NORMAL" PROVE CellAt(p)'.crc
    <3>1. p # o
      BY <1>4, <2>1
    <3> QED
      BY <1>2, <1>3, <2>1, <3>1 DEF Sound
  <2>2. \A i \in Keys : ~Updating(i)'
    BY <1>1 DEF Updating
  <2> QED
    BY <2>1, <2>2 DEF Sound
<1>7. /\ \A i \in Keys : \A p \in Seen(i) : CellAt(p).val \in want[i]
      /\ \A i \in Keys : Seen(i) = {} => NoVal \in want[i]
      /\ ret = "ack" => op.val \in want[op.key]
      /\ ret = "prefix" => \A i \in op.sel : NoVal \in want[i]
  BY <1>1, <1>2 DEF Wanted, Prefixing
<1>8. ASSUME NEW i \in Keys, NEW p \in Seen(i)' PROVE CellAt(p)'.val \in want[i]
  <2>1. p \in Seen(i) /\ CellAt(p)' = CellAt(p)
    BY <1>3, <1>5
  <2> QED
    BY <1>7, <2>1
<1>9. ASSUME NEW i \in Keys, Seen(i)' = {} PROVE NoVal \in want[i]
  <2>1. CASE Seen(i) = {}
    BY <1>7, <2>1
  <2>2. CASE Seen(i) # {}
    <3>1. Seen(i) = {o}
      BY <1>3, <1>9, <2>2
    <3>2. CellAt(o).key = i
      BY <3>1 DEF Seen, IsLive, CellAt
    <3>3. CASE ret = "ack"
      <4>1. op.key = i
        BY <1>o, <1>1, <1>2, <3>2, <3>3 DEF Whole, CallOk
      <4>2. op.val = NoVal
        <5> SUFFICES ASSUME op.val # NoVal PROVE FALSE
          OBVIOUS
        <5>1. Updating(i)
          BY <1>1, <3>3, <4>1 DEF Updating
        <5>2. \E z \in Seen(i) : z # op.old
          BY <1>2, <5>1 DEF Whole, Single
        <5> QED
          BY <1>o, <3>1, <5>2
      <4> QED
        BY <1>7, <3>3, <4>1, <4>2
    <3>4. CASE ret = "prefix"
      BY <1>o, <1>1, <1>2, <1>7, <3>2, <3>4 DEF Whole, CallOk
    <3> QED
      BY <1>1, <3>3, <3>4
  <2> QED
    BY <2>1, <2>2
<1>10. Wanted'
  BY <1>1, <1>7, <1>8, <1>9 DEF Wanted, Prefixing
<1> QED
  BY <1>6, <1>10

LEMMA CopyValues ==
  ASSUME StoreInv, RunInv, GcCopy
  PROVE  Sound' /\ Wanted'
<1> USE DEF Calling, Deleting, Formatting
<1>n. PICK n : n = wpos
  OBVIOUS
<1>1. /\ pc = "gccopy" /\ ~Booting /\ pc' = pc /\ want' = want /\ OnLive("gccopy") /\ "gccopy" \in Walks
      /\ Writing /\ Written = Here /\ log' = [log EXCEPT ![wpos[1]][wpos[2]] = Written]
  BY DEF GcCopy, hist, Booting, Scanning, OnLive, OnCell, InBlock, Writing, Written, Program, Walks
<1>2. Whole /\ Sound /\ Wanted
  BY <1>1 DEF RunInv
<1>3. /\ \A k : Seen(k)' = Seen(k)
      /\ \A k : \A q \in Seen(k) : CellAt(q)' = CellAt(q)
  BY <1>2, GcCopyMap
<1>4. /\ n \in Pos /\ CellAt(n)' = Here
      /\ \A q \in Pos : q # n => CellAt(q)' = CellAt(q)
  BY <1>n, <1>1, <1>2, Appended DEF Whole, CellAt
<1>5. cur \in Pos /\ Here = CellAt(cur) /\ Here.kind = "item" /\ Here \in Item /\ ~IsGarbage(Here)
  BY <1>1, LiveHere DEF StoreInv, IsItem, Here, CellAt, OnLive
<1>6. Here.crc
  <2>1. Here.state = "NORMAL"
    BY <1>5 DEF Item, IsGarbage
  <2> QED
    BY <1>1, <1>2, <1>5, <2>1 DEF Sound
<1>7. Sound'
  <2>1. ASSUME NEW p \in Pos, CellAt(p)'.kind = "item", CellAt(p)'.state = "NORMAL" PROVE CellAt(p)'.crc
    BY <1>1, <1>2, <1>4, <1>6, <2>1 DEF Sound
  <2>2. \A i \in Keys : ~Updating(i)'
    BY <1>1 DEF Updating
  <2> QED
    BY <2>1, <2>2 DEF Sound
<1>8. Wanted'
  BY <1>1, <1>2, <1>3 DEF Wanted, Prefixing
<1> QED
  BY <1>7, <1>8

\* The copies take the place of the items of the collected block.
LEMMA EraseValues ==
  ASSUME StoreInv, RunInv, BlockErase, ~Booting
  PROVE  Sound' /\ Wanted'
<1>1. /\ pc = "erase" /\ ret = "gcmark" /\ pc' = "format" /\ want' = want
      /\ log' = [log EXCEPT ![cur[1]] = [o \in Offs |-> Erased]]
  BY DEF BlockErase, ram, regs, hist, StoreInv, LayoutInv, ControlOk, Booting, Formatting, Calling
<1>2. Whole /\ Sound /\ Wanted
  BY DEF RunInv
<1>3. \A p \in Pos : CellAt(p)' = CellAt(p) \/ CellAt(p)' = Erased
  BY <1>1 DEF CellAt, Pos, StoreInv, LayoutInv, TypeOK
<1>4. Sound'
  <2>1. ASSUME NEW p \in Pos, CellAt(p)'.kind = "item", CellAt(p)'.state = "NORMAL" PROVE CellAt(p)'.crc
    <3>1. CellAt(p)' = CellAt(p)
      BY <1>3, <2>1 DEF Erased
    <3> QED
      BY <1>2, <2>1, <3>1 DEF Sound
  <2>2. \A i \in Keys : ~Updating(i)'
    BY <1>1 DEF Updating
  <2> QED
    BY <2>1, <2>2 DEF Sound
<1>5. Calling({"erase"}, "gcmark")
  BY <1>1 DEF Calling
<1>6. ASSUME NEW k \in Keys
      PROVE  /\ \A p \in Seen(k)' : \E q \in Seen(k) : CellAt(q).val = CellAt(p)'.val
             /\ Seen(k)' = {} => Seen(k) = {}
  <2>1. Seen(k)' = Handed(k) /\ \A p \in Seen(k)' : CellAt(p)' = CellAt(p)
    BY <1>2, EraseSeen
  <2> QED
    BY <1>2, <1>5, <2>1, Handover
<1>7. /\ \A i \in Keys : \A p \in Seen(i) : CellAt(p).val \in want[i]
      /\ \A i \in Keys : Seen(i) = {} => NoVal \in want[i]
  BY <1>2 DEF Wanted
<1>8. Wanted'
  BY <1>1, <1>6, <1>7 DEF Wanted, Prefixing, Calling, Deleting
<1> QED
  BY <1>4, <1>8

\* Outside recovery every live item is whole and has a value that was promised.
LEMMA RunValues ==
  ASSUME StoreInv, RunInv, ~Booting, Operation \/ Progress
  PROVE  Sound' /\ Wanted'
<1>1. ~(ScanHeader \/ ScanItem \/ ScanEnd \/ ScanNext \/ UncleanBlock \/ UncleanDone \/ ChooseWritePos)
  BY BootOnly
<1> QED
  BY <1>1, SetValues, DeleteValues, PrefixValues, CallValues, WalkValues, StoreValues, DelValues, CopyValues,
     EraseValues DEF Operation, Progress
-----------------------------------------------------------------------------
(* The recovery scan and what it leaves.                                   *)

\* Nothing is doomed or saved when the flash does not change.
LEMMA KeptFrame ==
  ASSUME hdr' = hdr, log' = log
  PROVE  /\ \A k : Kept(k)' = Kept(k)
         /\ \A b : Full(b)' <=> Full(b)
         /\ \A b : (Doomed(b)' <=> Doomed(b)) /\ (Spare(b)' <=> Spare(b))
         /\ \A p : CellAt(p)' = CellAt(p)
<1>1. \A b : (Doomed(b)' <=> Doomed(b)) /\ (Full(b)' <=> Full(b)) /\ (Spare(b)' <=> Spare(b))
  BY DEF Doomed, Spare, Full, Empty
<1>2. \A k : Kept(k)' = Kept(k)
  BY <1>1 DEF Kept, IsLive
<1>3. \A p : CellAt(p)' = CellAt(p)
  BY DEF CellAt
<1> QED
  BY <1>1, <1>2, <1>3

\* Marking a block DIRTY that was USED dooms and saves nothing.
LEMMA DirtyFrame ==
  ASSUME hdr \in [Blocks -> BlockState \union {NoState}], NEW b \in Blocks, hdr[b] = "USED",
         hdr' = [hdr EXCEPT ![b] = "DIRTY"], log' = log
  PROVE  /\ \A k : Kept(k)' = Kept(k)
         /\ \A c \in Blocks : (Full(c)' <=> Full(c)) /\ (Doomed(c)' <=> Doomed(c)) /\ (Spare(c)' <=> Spare(c))
         /\ \A p : CellAt(p)' = CellAt(p)
<1>1. \A c \in Blocks : /\ (hdr'[c] = "CLEAN" <=> hdr[c] = "CLEAN")
                        /\ (hdr'[c] = NoState <=> hdr[c] = NoState)
  BY DEF NoState
<1>2. \A c \in Blocks : (Doomed(c)' <=> Doomed(c)) /\ (Full(c)' <=> Full(c)) /\ (Spare(c)' <=> Spare(c))
  BY <1>1 DEF Doomed, Spare, Full, Empty
<1>3. ASSUME NEW k PROVE Kept(k)' = Kept(k)
  <2>1. \A p \in Pos : p \in Kept(k)' <=> p \in Kept(k)
    BY <1>2 DEF Kept, IsLive, Pos
  <2> QED
    BY <2>1 DEF Kept
<1>4. \A p : CellAt(p)' = CellAt(p)
  BY DEF CellAt
<1> QED
  BY <1>2, <1>3, <1>4

\* A step of kv_init that loses no place ahead of the scan keeps the invariant
\* when it takes items away and adds none.
LEMMA BootFrame ==
  ASSUME BootInv, Booting, want' = want,
         \A k \in Keys : Kept(k)' \subseteq Kept(k),
         \A k \in Keys : \A p \in Kept(k)' : CellAt(p)' = CellAt(p) /\ ~Condemned(p) /\ (Ahead(p) => Ahead(p)'),
         \A b \in Blocks : Full(b)' => Full(b),
         \A b \in unclean' : ~Empty(log'[b]),
         Calling({"erase"}, "unclean")' => Spare(cur[1])'
  PROVE  BootInv'
<1>1. \A b, c \in Blocks : Full(b)' /\ Full(c)' => b = c
  BY DEF BootInv
<1>2. ASSUME NEW k \in Keys, NEW p \in Kept(k)', NEW q \in Kept(k)'
      PROVE  p = q \/ Tied(p, q)' \/ Tied(q, p)'
  <2>1. p = q \/ Tied(p, q) \/ Tied(q, p)
    BY DEF BootInv
  <2>2. CellAt(p)' = CellAt(p) /\ CellAt(q)' = CellAt(q) /\ ~Condemned(p) /\ ~Condemned(q)
        /\ (Ahead(p) => Ahead(p)') /\ (Ahead(q) => Ahead(q)')
    OBVIOUS
  <2> QED
    BY <2>1, <2>2 DEF Tied
<1>3. ASSUME NEW k \in Keys, NEW p \in Kept(k)'
      PROVE  /\ CellAt(p)'.crc \/ Ahead(p)' \/ Condemned(p)'
             /\ CellAt(p)'.crc => CellAt(p)'.val \in want'[k]
  BY DEF BootInv
<1> QED
  BY <1>1, <1>2, <1>3 DEF BootInv, Empty

\* The same when the flash does not change.
LEMMA BootStill ==
  ASSUME BootInv, Booting, want' = want, hdr' = hdr, log' = log, pc # "del",
         \A k \in Keys : \A p \in Kept(k) : Ahead(p) => Ahead(p)',
         \A b \in unclean' : ~Empty(log[b]),
         Calling({"erase"}, "unclean")' => Spare(cur[1])'
  PROVE  BootInv'
<1>1. \A p : ~Condemned(p)
  BY DEF Condemned, Calling
<1> QED
  BY <1>1, KeptFrame, BootFrame

\* The scan goes on to the next block when it has passed every item of this one.
LEMMA ScanBoot ==
  ASSUME StoreInv, HeaderOk, BootInv, ScanHeader \/ ScanEnd \/ ScanNext
  PROVE  BootInv'
<1> USE Geometry DEF Calling, Deleting, Formatting
<1>1. /\ Booting /\ want' = want /\ hdr' = hdr /\ log' = log /\ pc \in {"scan", "next"} /\ cur[1] \in Blocks
      /\ pc' \in {"scan", "next", "unclean"} \/ (pc' = "erase" /\ ret' = "next")
  BY DEF ScanHeader, ScanEnd, ScanNext, hist, flash, OnEnd, InBlock, Booting, Scanning, StoreInv, LayoutInv, CursorOk
<1>2. \A b \in unclean : ~Empty(log[b])
  BY <1>1 DEF BootInv
<1>3. \A k : \A p \in Kept(k) : p \in Pos /\ p[1] \in Blocks /\ p[2] \in Offs /\ log[p[1]][p[2]] # Erased /\ ~Doomed(p[1])
  BY DEF Kept, Pos, IsLive, Erased
<1>4. CASE ScanHeader
  <2>1. pc = "scan" /\ cur[2] = 0 /\ unclean' = unclean
    BY <1>4 DEF ScanHeader
  <2>2. \A k : \A p \in Kept(k) : Ahead(p) => Ahead(p)'
    <3> SUFFICES ASSUME NEW k, NEW p \in Kept(k), Ahead(p) PROVE Ahead(p)'
      OBVIOUS
    <3>1. p[1] > cur[1] \/ p[1] = cur[1]
      BY <2>1 DEF Ahead, Scanning
    <3>2. CASE hdr[cur[1]] = NoState
      <4>1. pc' = "erase" /\ ret' = "next" /\ cur' = cur
        BY <1>4, <3>2 DEF ScanHeader
      <4>2. p[1] # cur[1]
        BY <1>3, <3>2 DEF Doomed
      <4> QED
        BY <3>1, <4>1, <4>2 DEF Ahead
    <3>3. CASE hdr[cur[1]] # NoState
      <4>1. pc' = "scan" /\ cur' = <<cur[1], BHdr>>
        BY <1>4, <2>1, <3>3 DEF ScanHeader
      <4>2. p[2] >= BHdr
        BY <1>3 DEF Offs
      <4> QED
        BY <3>1, <4>1, <4>2 DEF Ahead, Scanning
    <3> QED
      BY <3>2, <3>3
  <2> QED
    BY <1>1, <1>2, <2>1, <2>2, BootStill
<1>5. CASE ScanEnd
  <2>1. pc = "scan" /\ pc' = "next" /\ cur' = cur /\ OnEnd("scan") /\ "scan" \in Walks
    BY <1>5 DEF ScanEnd, OnEnd, InBlock, Walks
  <2>2. /\ cur[2] \in Offs /\ cur[2] \in Nat /\ log[cur[1]] \in BlockLog /\ Packed(log[cur[1]], cur[2])
        /\ SpaceFrom(cur[2]) = BSize - cur[2]
    BY <2>1, WalkEnd DEF StoreInv
  <2>3. \A k : \A p \in Kept(k) : Ahead(p) => Ahead(p)'
    <3> SUFFICES ASSUME NEW k, NEW p \in Kept(k), Ahead(p) PROVE Ahead(p)'
      OBVIOUS
    <3>1. p[1] > cur[1] \/ (p[1] = cur[1] /\ p[2] >= cur[2])
      BY <2>1 DEF Ahead, Scanning
    <3>2. p[1] = cur[1] => /\ p[2] + CellLen(log[cur[1]][p[2]]) <= cur[2] /\ CellLen(log[cur[1]][p[2]]) > 0
                           /\ CellLen(log[cur[1]][p[2]]) \in Nat
      BY <1>3, <2>2, CellLenBound DEF Packed, BlockLog
    <3>3. p[2] \in Nat
      BY <1>3
    <3>4. p[1] > cur[1]
      BY <2>2, <3>1, <3>2, <3>3
    <3> QED
      BY <2>1, <3>4 DEF Ahead
  <2>4. ASSUME NEW b \in unclean' PROVE ~Empty(log[b])
    <3>1. b \in unclean \/ (b = cur[1] /\ space'[b] # BSize - BHdr)
      BY <1>5 DEF ScanEnd
    <3>2. CASE b = cur[1] /\ space'[b] # BSize - BHdr
      <4>1. space'[b] = BSize - cur[2]
        BY <1>1, <1>5, <2>2, <3>2 DEF ScanEnd, StoreInv, LayoutInv, TypeOK
      <4>2. cur[2] # BHdr
        BY <3>2, <4>1
      <4> QED
        BY <2>2, <3>2, <4>2, EmptyPacked, PackedUnique
    <3> QED
      BY <1>2, <3>1, <3>2
  <2> QED
    BY <1>1, <2>1, <2>3, <2>4, BootStill
<1>6. CASE ScanNext
  <2>1. /\ pc = "next" /\ unclean' = unclean
        /\ \/ cur[1] + 1 = NB /\ pc' = "unclean"
           \/ pc' = "scan" /\ cur' = <<cur[1] + 1, 0>>
    BY <1>6 DEF ScanNext
  <2>2. \A k : \A p \in Kept(k) : Ahead(p) => Ahead(p)'
    <3> SUFFICES ASSUME NEW k, NEW p \in Kept(k), Ahead(p) PROVE Ahead(p)'
      OBVIOUS
    <3>1. p[1] > cur[1] /\ p[1] \in Blocks
      BY <1>3, <2>1 DEF Ahead, Scanning
    <3>2. cur[1] + 1 # NB
      BY <1>1, <3>1 DEF Blocks
    <3>3. p[1] > cur[1] + 1 \/ (p[1] = cur[1] + 1 /\ p[2] >= 0)
      <4>1. p[2] \in Nat
        BY <1>3
      <4> QED
        BY <1>1, <3>1, <4>1 DEF Blocks
    <3> QED
      BY <2>1, <3>2, <3>3 DEF Ahead, Scanning
  <2> QED
    BY <1>1, <1>2, <2>1, <2>2, BootStill
<1> QED
  BY <1>4, <1>5, <1>6

\* The cells the scan has still to come to, when it goes on to the next cell.
LEMMA AheadOnward ==
  ASSUME StoreInv, Apart, OnCell("scan"), Onward, pc' = "scan" \/ Calling({"del"}, "scan")',
         NEW k, NEW p \in Kept(k), Ahead(p), p # cur
  PROVE  Ahead(p)'
<1>1. "scan" \in Walks /\ pc = "scan" /\ cur' = <<cur[1], cur[2] + CellLen(Here)>>
  BY DEF Walks, OnCell, InBlock, Onward
<1>2. p \in Pos /\ CellAt(p) # Erased
  BY DEF Kept, IsLive, Erased, CellAt
<1>3. p[1] > cur[1] \/ (p[1] = cur[1] /\ p[2] >= cur[2])
  BY <1>1 DEF Ahead, Scanning, Calling
<1>4. p[1] > cur[1] \/ (p[1] = cur[1] /\ p[2] >= cur[2] + CellLen(Here))
  BY <1>1, <1>2, <1>3, Beyond
<1>5. Scanning'
  BY DEF Scanning, Calling, Deleting
<1> QED
  BY <1>1, <1>4, <1>5 DEF Ahead

\* The scan marks a USED block DIRTY where it passes or makes garbage.
LEMMA DirtyStep ==
  ASSUME StoreInv, HeaderOk, Booting, SkipGarbage \/ ItemDelDirty
  PROVE  /\ log' = log /\ want' = want /\ gcCut' = gcCut /\ unclean' = unclean /\ pc' = "scan"
         /\ \A k : Kept(k)' = Kept(k)
         /\ \A c \in Blocks : (Full(c)' <=> Full(c)) /\ (Doomed(c)' <=> Doomed(c)) /\ (Spare(c)' <=> Spare(c))
         /\ \A p : CellAt(p)' = CellAt(p)
<1> USE DEF Calling, Deleting, Formatting
<1>1. /\ log' = log /\ want' = want /\ gcCut' = gcCut /\ unclean' = unclean /\ pc' = "scan"
      /\ \/ hdr' = hdr
         \/ \E b \in Blocks : b \notin Unread /\ pc # "format" /\ state[b] = "USED" /\ hdr' = [hdr EXCEPT ![b] = "DIRTY"]
  <2>1. CASE SkipGarbage
    <3>1. OnCell("scan") /\ pc = "scan" /\ cur[2] # 0 /\ cur[1] \in Blocks
      BY <2>1 DEF SkipGarbage, OnCell, InBlock, Walks, Booting, Scanning, StoreInv, LayoutInv, CursorOk
    <3>2. cur[1] \in Nat
      BY <3>1, Geometry
    <3>3. cur[1] \notin Unread
      BY <3>1, <3>2 DEF Unread
    <3> QED
      BY <2>1, <3>1, <3>3 DEF SkipGarbage, SetBlockState, hist
  <2>2. CASE ItemDelDirty
    <3>1. /\ pc = "dirty" /\ ret = "scan" /\ pc' = "scan" /\ hdr' = [hdr EXCEPT ![op.old[1]] = "DIRTY"]
          /\ want' = want /\ gcCut' = gcCut /\ unclean' = unclean /\ log' = log
          /\ state[op.old[1]] = "USED" /\ op.old[1] \in Blocks
      BY <2>2 DEF ItemDelDirty, SetBlockState, regs, hist, Booting, Scanning, StoreInv, LayoutInv, ControlOk, Pos
    <3>2. op.old[1] \notin Unread
      BY <3>1 DEF Unread, Scanning, StoreInv, LayoutInv, CursorOk, NoState
    <3> QED
      BY <3>1, <3>2
  <2> QED
    BY <2>1, <2>2
<1>2. CASE hdr' = hdr
  BY <1>1, <1>2, KeptFrame
<1>3. CASE hdr' # hdr
  <2>1. PICK b \in Blocks : b \notin Unread /\ pc # "format" /\ state[b] = "USED" /\ hdr' = [hdr EXCEPT ![b] = "DIRTY"]
    BY <1>1, <1>3
  <2>2. hdr[b] = "USED"
    BY <2>1 DEF HeaderOk
  <2> QED
    BY <1>1, <2>1, <2>2, DirtyFrame DEF StoreInv, LayoutInv, TypeOK
<1> QED
  BY <1>2, <1>3

\* The scan passes garbage.
LEMMA SkipBoot ==
  ASSUME StoreInv, HeaderOk, Apart, BootInv, Booting, SkipGarbage
  PROVE  BootInv'
<1>1. OnCell("scan") /\ pc = "scan" /\ Onward /\ IsGarbage(Here)
  BY DEF SkipGarbage, OnCell, InBlock, Walks, Booting, Scanning, Calling, Deleting, Formatting
<1>2. /\ log' = log /\ want' = want /\ unclean' = unclean /\ pc' = "scan"
      /\ \A k : Kept(k)' = Kept(k)
      /\ \A b \in Blocks : Full(b)' <=> Full(b)
      /\ \A p : CellAt(p)' = CellAt(p)
  BY DirtyStep
<1>3. \A k : cur \notin Kept(k)
  BY <1>1 DEF Kept, IsLive, IsGarbage, Here
<1>4. \A k : \A p \in Kept(k) : Ahead(p) => Ahead(p)'
  <2> SUFFICES ASSUME NEW k, NEW p \in Kept(k), Ahead(p) PROVE Ahead(p)'
    OBVIOUS
  <2> QED
    BY <1>1, <1>2, <1>3, AheadOnward
<1>5. (\A p : ~Condemned(p)) /\ ~Calling({"erase"}, "unclean")'
  BY <1>1, <1>2 DEF Condemned, Calling
<1>6. \A b \in unclean' : ~Empty(log'[b])
  BY <1>2 DEF BootInv
<1> QED
  BY <1>2, <1>4, <1>5, <1>6, BootFrame

\* The item the scan deletes is the one it was about to delete.
LEMMA DelBoot ==
  ASSUME StoreInv, BootInv, Booting, ItemDel
  PROVE  BootInv'
<1> USE DEF Calling, Deleting, Formatting
<1>o. PICK o : o = op.old
  OBVIOUS
<1>1. /\ pc = "del" /\ ret = "scan" /\ ret' = ret /\ (pc' = "dirty" \/ pc' = "scan") /\ hdr' = hdr
      /\ want' = want /\ unclean' = unclean /\ cur' = cur /\ op' = op
  BY DEF ItemDel, regs, ram, hist, Booting, Scanning
<1>2. /\ o \in Pos /\ CellAt(o)'.state = "DELETE"
      /\ \A q \in Pos : q # o => CellAt(q)' = CellAt(q)
      /\ \A b \in Blocks : Empty(log[b])' <=> Empty(log[b])
  BY <1>o, MarkedCell
<1>3. \A b : Doomed(b)' <=> Doomed(b)
  BY <1>1 DEF Doomed, Spare
<1>4. ASSUME NEW k, NEW p \in Kept(k)' PROVE p \in Kept(k) /\ p \in Pos /\ p # o
  <2>1. p \in Pos /\ IsLive(p[1], p[2], k)' /\ ~Doomed(p[1])'
    BY DEF Kept
  <2>2. p # o
    BY <1>2, <2>1 DEF IsLive, CellAt
  <2>3. IsLive(p[1], p[2], k)
    BY <1>2, <2>1, <2>2 DEF IsLive, CellAt
  <2> QED
    BY <1>3, <2>1, <2>2, <2>3 DEF Kept
<1>5. \A k \in Keys : \A p \in Kept(k)' : CellAt(p)' = CellAt(p) /\ ~Condemned(p) /\ (Ahead(p) => Ahead(p)')
  <2>1. \A p : Ahead(p) => Ahead(p)'
    BY <1>1 DEF Ahead, Scanning
  <2> QED
    BY <1>o, <1>2, <1>4, <2>1 DEF Condemned
<1>6. \A b \in Blocks : Full(b)' => Full(b)
  BY <1>1, <1>2 DEF Full
<1>7. \A b \in unclean' : ~Empty(log'[b])
  <2>1. \A b \in unclean : b \in Blocks /\ ~Empty(log[b])
    BY DEF BootInv, StoreInv, LayoutInv, TypeOK
  <2> QED
    BY <1>1, <1>2, <2>1
<1> QED
  BY <1>1, <1>4, <1>5, <1>6, <1>7, BootFrame

LEMMA DirtyBoot ==
  ASSUME StoreInv, HeaderOk, BootInv, Booting, ItemDelDirty
  PROVE  BootInv'
<1>1. pc = "dirty" /\ ret = "scan" /\ ret' = ret /\ cur' = cur
  BY DEF ItemDelDirty, regs, Booting, Scanning, Calling, Deleting, Formatting
<1>2. /\ log' = log /\ want' = want /\ unclean' = unclean /\ pc' = "scan"
      /\ \A k : Kept(k)' = Kept(k)
      /\ \A b \in Blocks : Full(b)' <=> Full(b)
      /\ \A p : CellAt(p)' = CellAt(p)
  BY DirtyStep
<1>3. \A p : ~Condemned(p) /\ (Ahead(p) => Ahead(p)')
  BY <1>1, <1>2 DEF Condemned, Ahead, Scanning, Calling, Deleting
<1>4. ~Calling({"erase"}, "unclean")'
  BY <1>2 DEF Calling
<1>5. \A b \in unclean' : ~Empty(log'[b])
  BY <1>2 DEF BootInv
<1> QED
  BY <1>2, <1>3, <1>4, <1>5, BootFrame

\* A block that kv_init is going to erase has no items that count, or there is no
\* CLEAN block at all.
LEMMA EraseSpare ==
  ASSUME StoreInv, HeaderOk, BootInv, Booting, pc = "erase"
  PROVE  (\A c \in Blocks : hdr[c] # "CLEAN") \/ Spare(cur[1])
<1> USE Geometry DEF Calling, Deleting, Formatting
<1>1. ret \in {"next", "unclean", "choose"}
  BY DEF Booting, Scanning
<1>2. CASE ret = "next"
  BY <1>2 DEF HeaderOk, Spare
<1>3. CASE ret = "unclean"
  BY <1>3 DEF BootInv
<1>4. CASE ret = "choose"
  <2>1. Counted = {} /\ unclean = {} /\ Unread = {}
    BY <1>4 DEF StoreInv, LayoutInv, CountOk, UncleanOk, Unread, Scanning
  <2>2. Uncounted = {}
    BY <1>4, <2>1 DEF Uncounted, Scanning
  <2>3. \A c \in Blocks : state[c] # "CLEAN"
    BY <2>1, <2>2 DEF Counted
  <2> QED
    BY <2>1, <2>3 DEF HeaderOk
<1> QED
  BY <1>1, <1>2, <1>3, <1>4

\* An erase by kv_init takes away only items that did not count.
LEMMA EraseBoot ==
  ASSUME StoreInv, HeaderOk, BootInv, Booting, BlockErase
  PROVE  BootInv'
<1> USE Geometry DEF Calling, Deleting, Formatting
<1>b. PICK b : b = cur[1]
  OBVIOUS
<1>1. /\ pc = "erase" /\ pc' = "format" /\ ret' = ret /\ ret \in {"next", "unclean", "choose"}
      /\ want' = want /\ unclean' = unclean /\ cur' = cur /\ b \in Blocks
      /\ hdr' = [hdr EXCEPT ![b] = NoState] /\ log' = [log EXCEPT ![b] = [o \in Offs |-> Erased]]
  BY <1>b DEF BlockErase, ram, regs, hist, Booting, Scanning, StoreInv, LayoutInv, CursorOk
<1>2. /\ hdr'[b] = NoState /\ \A c \in Blocks : c # b => hdr'[c] = hdr[c] /\ log'[c] = log[c]
      /\ \A o \in Offs : log'[b][o] = Erased
  BY <1>1 DEF StoreInv, LayoutInv, TypeOK
<1>3. (\A c \in Blocks : hdr[c] # "CLEAN") \/ Spare(b)
  BY <1>b, <1>1, EraseSpare
<1>4. ASSUME NEW k, NEW p \in Kept(k)' PROVE p \in Kept(k) /\ CellAt(p)' = CellAt(p)
  <2>1. p \in Pos /\ p[1] \in Blocks /\ p[2] \in Offs /\ IsLive(p[1], p[2], k)' /\ ~Doomed(p[1])'
    BY DEF Kept, Pos
  <2>2. p[1] # b
    BY <1>2, <2>1 DEF Doomed
  <2>3. hdr'[p[1]] = hdr[p[1]] /\ log'[p[1]] = log[p[1]]
    BY <1>2, <2>1, <2>2
  <2>4. ~Doomed(p[1])
    BY <1>1, <1>3, <2>1, <2>2, <2>3 DEF Doomed
  <2> QED
    BY <2>1, <2>3, <2>4 DEF Kept, IsLive, CellAt
<1>5. \A p : ~Condemned(p) /\ (Ahead(p) => Ahead(p)')
  BY <1>1 DEF Condemned, Ahead, Scanning
<1>6. \A c \in Blocks : Full(c)' => Full(c)
  BY <1>2 DEF Full, NoState, Empty
<1>7. \A c \in unclean' : ~Empty(log'[c])
  <2>1. \A c \in unclean : c \in Blocks /\ ~Empty(log[c])
    BY DEF BootInv, StoreInv, LayoutInv, TypeOK
  <2>2. b \notin unclean
    BY <1>b, <1>1 DEF StoreInv, LayoutInv, UncleanOk, TypeOK
  <2> QED
    BY <1>1, <1>2, <2>1, <2>2
<1> QED
  BY <1>1, <1>4, <1>5, <1>6, <1>7, BootFrame

\* The header of the erased block saves nothing.
LEMMA FormatBoot ==
  ASSUME StoreInv, HeaderOk, BootInv, Booting, BlockFormat
  PROVE  BootInv'
<1> USE Geometry DEF Calling, Deleting, Formatting
<1>b. PICK b : b = cur[1]
  OBVIOUS
<1>1. /\ pc = "format" /\ pc' = ret /\ ret' = ret /\ ret \in {"next", "unclean", "choose"}
      /\ want' = want /\ unclean' = unclean /\ cur' = cur /\ b \in Blocks /\ log' = log
      /\ hdr' = [hdr EXCEPT ![b] = "CLEAN"] /\ hdr[b] = NoState /\ Empty(log[b])
  BY <1>b DEF BlockFormat, SetBlockState, regs, hist, Booting, Scanning, StoreInv, LayoutInv, CursorOk,
              CleanEmpty, HeaderOk
<1>2. hdr'[b] = "CLEAN" /\ \A c \in Blocks : c # b => hdr'[c] = hdr[c]
  BY <1>1 DEF StoreInv, LayoutInv, TypeOK
<1>3. \A c \in Blocks : Spare(c)' <=> Spare(c)
  BY <1>1, <1>2 DEF Spare
<1>4. ASSUME NEW k, NEW p \in Kept(k)' PROVE p \in Kept(k) /\ CellAt(p)' = CellAt(p)
  <2>1. p \in Pos /\ p[1] \in Blocks /\ p[2] \in Offs /\ IsLive(p[1], p[2], k)' /\ ~Doomed(p[1])'
    BY DEF Kept, Pos
  <2>2. p[1] # b
    <3>1. p[1] = b => log'[p[1]][p[2]] = Erased
      BY <1>1, <2>1 DEF Empty
    <3> QED
      BY <3>1, <2>1 DEF IsLive, Erased
  <2>3. hdr'[p[1]] = hdr[p[1]]
    BY <1>2, <2>1, <2>2
  <2>4. ~Doomed(p[1])
    BY <1>3, <2>1, <2>3 DEF Doomed
  <2> QED
    BY <1>1, <2>1, <2>4 DEF Kept, IsLive, CellAt
<1>5. \A p : ~Condemned(p) /\ (Ahead(p) => Ahead(p)')
  BY <1>1 DEF Condemned, Ahead, Scanning
<1>6. \A c \in Blocks : Full(c)' => Full(c)
  BY <1>1, <1>2 DEF Full, Empty
<1>7. \A c \in unclean' : ~Empty(log'[c])
  BY <1>1 DEF BootInv
<1> QED
  BY <1>1, <1>4, <1>5, <1>6, <1>7, BootFrame

\* With enough CLEAN blocks there is one besides those that hold data.
LEMMA AnotherClean ==
  ASSUME StoreInv, HeaderOk, pc = "unclean", ReserveMet
  PROVE  \E c \in Blocks : c \notin unclean /\ hdr[c] = "CLEAN" /\ Empty(log[c])
<1> USE DEF Calling, Deleting, Formatting, Scanning
<1>1. Cardinality(Counted) >= 1
  BY DEF ReserveMet, KV_RESERVED_BLOCKS, StoreInv, LayoutInv, CountOk
<1>2. Counted # {}
  BY <1>1, FS_EmptySet
<1>3. PICK c \in Blocks : c \notin Uncounted /\ state[c] = "CLEAN"
  BY <1>2 DEF Counted
<1>4. c \notin unclean /\ Empty(log[c])
  BY <1>3 DEF Uncounted, StoreInv, LayoutInv, CleanEmpty, Collecting
<1>5. hdr[c] = "CLEAN"
  BY <1>3 DEF HeaderOk, Unread
<1> QED
  BY <1>4, <1>5

\* The second pass keeps a CLEAN block with data only when it was not doomed.
LEMMA UncleanBoot ==
  ASSUME StoreInv, HeaderOk, BootInv, UncleanBlock \/ UncleanDone
  PROVE  BootInv'
<1> USE Geometry DEF Calling, Deleting, Formatting
<1>1. pc = "unclean" /\ Booting /\ want' = want /\ log' = log
  BY DEF UncleanBlock, UncleanDone, Booting, hist, flash
<1>2. \A b \in Blocks : hdr[b] = state[b]
  BY <1>1 DEF HeaderOk, Unread, Scanning
<1>3. \A b \in unclean : b \in Blocks /\ hdr[b] = "CLEAN" /\ ~Empty(log[b])
  BY <1>1, <1>2 DEF BootInv, StoreInv, LayoutInv, UncleanOk, TypeOK
<1>4. \A p : ~Ahead(p) /\ ~Condemned(p)
  BY <1>1 DEF Ahead, Condemned, Scanning
<1>5. CASE UncleanDone
  <2>1. hdr' = hdr /\ unclean' = unclean /\ ~(pc' = "erase" /\ ret' = "unclean")
    BY <1>1, <1>5 DEF UncleanDone, flash
  <2> QED
    BY <1>1, <1>3, <1>4, <2>1, BootStill
<1>6. CASE UncleanBlock
  <2>1. PICK b \in unclean : /\ unclean' = unclean \ {b}
                             /\ IF ReserveMet THEN hdr' = [hdr EXCEPT ![b] = "DIRTY"] /\ pc' = pc
                                ELSE cur' = <<b, 0>> /\ ret' = "unclean" /\ pc' = "erase" /\ hdr' = hdr
    BY <1>6 DEF UncleanBlock, SetBlockState
  <2>2. CASE ~ReserveMet
    <3>1. hdr' = hdr /\ cur'[1] = b
      BY <2>1, <2>2
    <3>2. Spare(cur[1])'
      BY <1>3, <3>1 DEF Spare
    <3> QED
      BY <1>1, <1>3, <1>4, <2>1, <3>1, <3>2, BootStill
  <2>3. CASE ReserveMet
    <3>1. PICK c \in Blocks : c \notin unclean /\ hdr[c] = "CLEAN"
      BY <1>1, <2>3, AnotherClean
    <3>2. hdr'[b] = "DIRTY" /\ \A d \in Blocks : d # b => hdr'[d] = hdr[d]
      BY <1>3, <2>1, <2>3 DEF StoreInv, LayoutInv, TypeOK
    <3>3. ASSUME NEW k, NEW p \in Kept(k)' PROVE p \in Kept(k) /\ CellAt(p)' = CellAt(p)
      <4>1. p \in Pos /\ p[1] \in Blocks /\ IsLive(p[1], p[2], k)' /\ ~Doomed(p[1])'
        BY DEF Kept, Pos
      <4>2. Spare(b) /\ Spare(c) /\ b # c /\ b \in Blocks
        BY <1>3, <3>1 DEF Spare
      <4>3. ~Doomed(p[1])
        BY <1>3, <3>2, <4>1, <4>2 DEF Doomed, NoState
      <4> QED
        BY <1>1, <4>1, <4>3 DEF Kept, IsLive, CellAt
    <3>4. \A d \in Blocks : Full(d)' => Full(d)
      BY <1>1, <3>2 DEF Full, Empty
    <3>5. \A d \in unclean' : ~Empty(log'[d])
      BY <1>1, <1>3, <2>1
    <3> QED
      BY <1>1, <1>4, <2>1, <2>3, <3>3, <3>4, <3>5, BootFrame
  <2> QED
    BY <2>2, <2>3
<1> QED
  BY <1>5, <1>6

\* The scan comes to an item: it is torn, or what it replaces is still there, or it stays.
LEMMA ScanItemBoot ==
  ASSUME StoreInv, Apart, BootInv, ScanItem
  PROVE  BootInv'
<1> USE DEF Calling, Deleting, Formatting
<1>c. PICK c : c = cur
  OBVIOUS
<1>1. /\ OnLive("scan") /\ OnCell("scan") /\ pc = "scan" /\ Booting /\ want' = want /\ log' = log /\ hdr' = hdr
      /\ Onward /\ unclean' = unclean /\ "scan" \in Walks
  BY DEF ScanItem, OnLive, OnCell, InBlock, Booting, Scanning, hist, flash, Walks
<1>2. /\ \A k : Kept(k)' = Kept(k)
      /\ \A b : Full(b)' <=> Full(b)
      /\ \A p : CellAt(p)' = CellAt(p)
  BY <1>1, KeptFrame
<1>3. \A p : ~Condemned(p)
  BY <1>1 DEF Condemned
<1>4. op \in [key : Keys, val : Vals \union {NoVal}, old : Pos \union {NoPos}, sel : SUBSET Keys]
  BY DEF StoreInv, LayoutInv, TypeOK
<1>5. \/ ~CellAt(c).crc /\ pc' = "del" /\ ret' = "scan" /\ op'.old = c
      \/ Superseded(CellAt(c), c) /\ pc' = "del" /\ ret' = "scan" /\ op'.old = CellAt(c).origin_off
      \/ CellAt(c).crc /\ ~Superseded(CellAt(c), c) /\ pc' = "scan"
  <2>1. Here = CellAt(c)
    BY <1>c DEF Here, CellAt
  <2>2. \A x : [op EXCEPT !.old = x].old = x
    BY <1>4
  <2> QED
    BY <1>c, <1>1, <2>1, <2>2 DEF ScanItem
<1>6. ASSUME NEW k, NEW p \in Kept(k), Ahead(p), p # c PROVE Ahead(p)'
  BY <1>c, <1>1, <1>5, <1>6, AheadOnward
<1>7. ASSUME NEW k \in Keys, NEW p \in Kept(k), NEW q \in Kept(k), p # q, Tied(p, q) PROVE Tied(p, q)'
  <2>1. CellAt(p).origin_off = q /\ CellAt(q).crc /\ Ahead(p)
    BY <1>3, <1>7 DEF Tied
  <2>2. CASE p # c
    BY <1>2, <1>6, <2>1, <2>2 DEF Tied
  <2>3. CASE p = c
    <3>1. q \in Pos /\ IsLive(q[1], q[2], k) /\ CellAt(c).key = k
      BY <2>3 DEF Kept, IsLive, CellAt
    <3>2. CellAt(c).crc => Superseded(CellAt(c), c)
      BY <1>7, <2>1, <2>3, <3>1, NoOpType DEF Superseded
    <3>3. Condemned(p)' \/ Condemned(q)'
      BY <1>5, <2>1, <2>3, <3>2 DEF Condemned
    <3> QED
      BY <1>2, <2>1, <3>3 DEF Tied
  <2> QED
    BY <2>2, <2>3
<1>8. ASSUME NEW k \in Keys, NEW p \in Kept(k) PROVE CellAt(p).crc \/ Ahead(p)' \/ Condemned(p)'
  <2>1. CellAt(p).crc \/ Ahead(p)
    BY <1>1, <1>3 DEF BootInv
  <2>2. CASE p = c /\ ~CellAt(p).crc
    BY <1>5, <2>2 DEF Condemned, Superseded
  <2> QED
    BY <1>6, <2>1, <2>2
<1>9. /\ \A b, d \in Blocks : Full(b) /\ Full(d) => b = d
      /\ \A b \in unclean : ~Empty(log[b])
      /\ \A k \in Keys : \A p, q \in Kept(k) : p = q \/ Tied(p, q) \/ Tied(q, p)
      /\ \A k \in Keys : \A p \in Kept(k) : CellAt(p).crc => CellAt(p).val \in want[k]
  BY <1>1 DEF BootInv
<1>10. pc' # "erase"
  BY <1>5
<1>11. \A b, d \in Blocks : Full(b)' /\ Full(d)' => b = d
  BY <1>2, <1>9
<1>12. \A b \in unclean' : ~Empty(log'[b])
  BY <1>1, <1>9
<1>13. \A k \in Keys : \A p, q \in Kept(k)' : p = q \/ Tied(p, q)' \/ Tied(q, p)'
  BY <1>2, <1>7, <1>9
<1>14. \A k \in Keys : \A p \in Kept(k)' : /\ CellAt(p)'.crc \/ Ahead(p)' \/ Condemned(p)'
                                           /\ CellAt(p)'.crc => CellAt(p)'.val \in want'[k]
  BY <1>1, <1>2, <1>8, <1>9
<1> QED
  BY <1>10, <1>11, <1>12, <1>13, <1>14 DEF BootInv, Empty

\* What kv_item_get returns, in terms of the items a search finds.
LEMMA SearchFound ==
  ASSUME NEW k
  PROVE  /\ Found(k) = {} => Value(k) = NoVal
         /\ Found(k) # {} => Search(k) \in Found(k) /\ Value(k) = CellAt(Search(k)).val
<1>1. CASE Found(k) = {}
  BY <1>1 DEF Search, Value, StoredVal
<1>2. CASE Found(k) # {}
  <2>1. Found(k) \in SUBSET Pos
    BY DEF Found
  <2>2. \E p \in Found(k) : \A q \in Found(k) \ {p} : Before(p, q)
    BY <1>2, <2>1, LexMin
  <2>3. Search(k) \in Found(k)
    BY <1>2, <2>2 DEF Search
  <2>4. Search(k) # NoPos
    BY <2>1, <2>3, NoOpType
  <2> QED
    BY <1>2, <2>3, <2>4 DEF Value, StoredVal
<1> QED
  BY <1>1, <1>2

\* At the end of kv_init the items that count are those kv_item_search reads.
LEMMA Recovered ==
  ASSUME StoreInv, HeaderOk, BootInv, pc = "choose"
  PROVE  /\ \A b \in Blocks : state[b] = "CLEAN" => Empty(log[b])
         /\ \A k : Found(k) = Kept(k)
         /\ \A k \in Keys : \A p, q \in Found(k) : p = q
         /\ \A k \in Keys : \A p \in Found(k) : CellAt(p).crc /\ CellAt(p).val \in want[k]
<1> USE DEF Calling, Deleting, Formatting, Scanning
<1>1. Booting /\ unclean = {} /\ Unread = {}
  BY DEF Booting, StoreInv, LayoutInv, UncleanOk, Unread
<1>2. Uncounted = {}
  BY <1>1 DEF Uncounted
<1>3. \A b \in Blocks : state[b] # NoState /\ hdr[b] = state[b]
  BY <1>1 DEF StoreInv, HeadersRead, HeaderOk
<1>4. \A b \in Blocks : state[b] = "CLEAN" => Empty(log[b])
  BY <1>2 DEF StoreInv, LayoutInv, CleanEmpty, Collecting
<1>5. ASSUME NEW k PROVE Found(k) = Kept(k)
  <2>1. ASSUME NEW p \in Pos, IsLive(p[1], p[2], k) PROVE state[p[1]] # "CLEAN" /\ ~Doomed(p[1])
    <3>1. p[1] \in Blocks /\ p[2] \in Offs /\ log[p[1]][p[2]] # Erased
      BY <2>1 DEF Pos, IsLive, Erased
    <3>2. state[p[1]] # "CLEAN"
      BY <1>4, <3>1 DEF Empty
    <3> QED
      BY <1>3, <3>1, <3>2 DEF Doomed
  <2> QED
    BY <2>1 DEF Found, Kept
<1>6. \A p : ~Ahead(p) /\ ~Condemned(p)
  BY DEF Ahead, Condemned
<1>7. \A p, q : ~Tied(p, q)
  BY <1>6 DEF Tied
<1> QED
  BY <1>1, <1>4, <1>5, <1>6, <1>7 DEF BootInv

\* When kv_init ends, the items satisfy what every operation relies on.
LEMMA ChooseRun ==
  ASSUME StoreInv, HeaderOk, Apart, BootInv, ChooseWritePos
  PROVE  Whole' /\ Sound' /\ Wanted'
<1> USE DEF Calling, Deleting, Formatting
<1>1. /\ pc = "choose" /\ pc' = "idle" /\ op' = NoOp /\ log' = log
      /\ want' = [k \in Keys |-> {Value(k)}]
      /\ state' = state \/ state' = [state EXCEPT ![0] = "USED"]
  BY DEF ChooseWritePos, SetBlockState, Return
<1>2. /\ \A b \in Blocks : state[b] = "CLEAN" => Empty(log[b])
      /\ \A k \in Keys : \A p, q \in Found(k) : p = q
      /\ \A k \in Keys : \A p \in Found(k) : CellAt(p).crc /\ CellAt(p).val \in want[k]
  BY <1>1, Recovered
<1>3. \A b \in Blocks : Empty(log[b]) \/ (state'[b] # "CLEAN" /\ state[b] # "CLEAN")
  BY <1>1, <1>2 DEF StoreInv, LayoutInv, TypeOK
<1>4. \A p : CellAt(p)' = CellAt(p)
  BY <1>1 DEF CellAt
<1>5. ASSUME NEW k, NEW p \in Pos, IsLive(p[1], p[2], k)
      PROVE  p \in Found(k) /\ p \in Seen(k)'
  <2>1. p[1] \in Blocks /\ p[2] \in Offs /\ log[p[1]][p[2]] # Erased
    BY <1>5 DEF Pos, IsLive, Erased
  <2>2. state'[p[1]] # "CLEAN" /\ state[p[1]] # "CLEAN"
    BY <1>3, <2>1 DEF Empty
  <2> QED
    BY <1>1, <1>5, <2>2 DEF Found, Seen, Shown, IsLive
<1>6. ASSUME NEW k PROVE Seen(k)' = Found(k)
  <2>1. \A p \in Seen(k)' : p \in Pos /\ IsLive(p[1], p[2], k)
    BY <1>1 DEF Seen, IsLive
  <2>2. \A p \in Found(k) : p \in Pos /\ IsLive(p[1], p[2], k)
    BY DEF Found
  <2> QED
    BY <1>5, <2>1, <2>2
<1>7. \A k \in Keys : ~Updating(k)'
  BY <1>1 DEF Updating
<1>8. Single'
  BY <1>2, <1>6, <1>7 DEF Single
<1>9. Apart'
  BY <1>1, ApartFrame
<1>10. Whole'
  BY <1>1, <1>8, <1>9, Returned
<1>11. Sound'
  <2>1. ASSUME NEW p \in Pos, CellAt(p).kind = "item", CellAt(p).state = "NORMAL" PROVE CellAt(p).crc
    <3>1. CellAt(p) \in Item
      <4>1. CellAt(p) \in Cell
        BY DEF CellAt, Pos, StoreInv, LayoutInv, TypeOK
      <4> QED
        BY <2>1, <4>1 DEF Cell, Erased, Junk
    <3>2. CellAt(p).key \in Keys /\ IsLive(p[1], p[2], CellAt(p).key)
      BY <2>1, <3>1 DEF Item, IsLive, CellAt
    <3> QED
      BY <1>2, <1>5, <3>2
  <2> QED
    BY <1>4, <1>7, <2>1 DEF Sound
<1>12. Wanted'
  <2>1. ASSUME NEW k \in Keys, NEW p \in Seen(k)' PROVE CellAt(p)'.val \in want'[k]
    <3>1. p \in Found(k) /\ Search(k) = p
      BY <1>2, <1>6, SearchFound
    <3> QED
      BY <1>1, <1>4, <3>1, SearchFound
  <2>2. ASSUME NEW k \in Keys, Seen(k)' = {} PROVE NoVal \in want'[k]
    BY <1>1, <1>6, <2>2, SearchFound
  <2>3. ~Prefixing' /\ pc' \notin {"calc", "store", "del"}
    BY <1>1 DEF Prefixing
  <2> QED
    BY <2>1, <2>2, <2>3 DEF Wanted
<1> QED
  BY <1>10, <1>11, <1>12

\* The cells stay apart while kv_init repairs them and when the power fails.
LEMMA ApartStep ==
  ASSUME StoreInv, Apart, Booting, Operation \/ Progress
  PROVE  Apart'
<1> USE DEF Calling, Deleting, Formatting
<1>1. CASE ItemDel
  BY <1>1, MarkedCell
<1>2. CASE BlockErase
  <2>1. cur[1] \in Blocks /\ log' = [log EXCEPT ![cur[1]] = [o \in Offs |-> Erased]]
    BY <1>2 DEF BlockErase, StoreInv, LayoutInv, CursorOk
  <2>2. /\ \A b \in Blocks : b # cur[1] => log'[b] = log[b]
        /\ \A o \in Offs : log'[cur[1]][o] = Erased
    BY <2>1 DEF StoreInv, LayoutInv, TypeOK
  <2> SUFFICES ASSUME NEW b \in Blocks, NEW o \in Offs, NEW x \in Offs,
                      log'[b][o] # Erased, log'[b][x] # Erased, o < x
               PROVE  o + CellLen(log'[b][o]) <= x
    BY DEF Apart, CellLen
  <2>3. b # cur[1] /\ log'[b] = log[b]
    BY <2>2
  <2> QED
    BY <2>3 DEF Apart
<1>3. CASE \/ ItemDelDirty \/ SkipGarbage \/ BlockFormat
           \/ ScanHeader \/ ScanItem \/ ScanEnd \/ ScanNext \/ UncleanBlock \/ UncleanDone \/ ChooseWritePos
  <2>1. log' = log
    BY <1>3 DEF ItemDelDirty, SkipGarbage, BlockFormat, ScanHeader, ScanItem, ScanEnd, ScanNext, UncleanBlock,
                UncleanDone, ChooseWritePos, flash
  <2> QED
    BY <2>1, ApartFrame
<1>4. ~Operation
  BY DEF Operation, ItemSet, ItemDelete, DeleteByPrefix, GcStart, Booting, Scanning
<1> QED
  BY <1>1, <1>2, <1>3, <1>4, RunOnly DEF Progress

\* A torn write is behind every cell of its block.
LEMMA ApartFail ==
  ASSUME StoreInv, Apart, PowerFail
  PROVE  Apart'
<1>1. CASE log' = log
  BY <1>1, ApartFrame
<1>2. CASE Writing /\ \E c : log' = [log EXCEPT ![wpos[1]][wpos[2]] = c]
  BY <1>2, Programmed
<1> QED
  BY <1>1, <1>2 DEF PowerFail, flash

\* kv_init goes on until it has chosen the write position.
LEMMA BootStays ==
  ASSUME StoreInv, Booting, Operation \/ Progress, ~ChooseWritePos
  PROVE  Booting'
<1> USE DEF Calling, Deleting, Formatting, Booting, Scanning
<1>1. ~Operation
  BY DEF Operation, ItemSet, ItemDelete, DeleteByPrefix, GcStart
<1>2. CASE ItemDel \/ ItemDelDirty \/ SkipGarbage \/ BlockErase \/ BlockFormat
  <2>1. pc \in {"del", "dirty"} => ret = "scan"
    OBVIOUS
  <2> QED
    BY <1>2 DEF ItemDel, ItemDelDirty, SkipGarbage, BlockErase, BlockFormat, regs, OnCell, InBlock, Walks
<1>3. CASE \/ ScanHeader \/ ScanItem \/ ScanEnd \/ ScanNext \/ UncleanBlock \/ UncleanDone
  BY <1>3 DEF ScanHeader, ScanItem, ScanEnd, ScanNext, UncleanBlock, UncleanDone, OnLive, OnCell, OnEnd, InBlock
<1> QED
  BY <1>1, <1>2, <1>3, RunOnly DEF Progress

\* No operation begins a recovery.
LEMMA RunStays ==
  ASSUME StoreInv, ~Booting, Operation \/ Progress
  PROVE  ~Booting'
<1> USE DEF Calling, Deleting, Formatting, Booting, Scanning
<1>1. CASE Operation
  <2>1. pc = "idle"
    BY <1>1 DEF Operation, ItemSet, ItemDelete, DeleteByPrefix, GcStart
  <2>2. pc' \in {"idle", "calc", "store", "prefix", "gccopy"} \/ (pc' = "del" /\ ret' = "ack")
    <3>1. ASSUME NEW k \in Keys, NEW v \in Vals, ItemSet(k, v) PROVE pc' \in {"idle", "calc", "store"}
      BY <2>1, <3>1 DEF ItemSet
    <3>2. ASSUME NEW k \in Keys, ItemDelete(k) PROVE pc' = "idle" \/ (pc' = "del" /\ ret' = "ack")
      BY <2>1, <3>2 DEF ItemDelete
    <3>3. ASSUME NEW K \in Prefixes, DeleteByPrefix(K) PROVE pc' = "prefix"
      BY <3>3 DEF DeleteByPrefix
    <3>4. CASE GcStart
      BY <2>1, <3>4 DEF GcStart
    <3> QED
      BY <1>1, <3>1, <3>2, <3>3, <3>4 DEF Operation
  <2> QED
    BY <2>2
<1>2. CASE CalcFull \/ CalcSkip \/ CalcTake \/ ItemStore \/ Ack
  BY <1>2 DEF CalcFull, CalcSkip, CalcTake, ItemStore, Ack, Return, regs
<1>3. CASE ItemDel \/ ItemDelDirty \/ SkipGarbage \/ BlockErase \/ BlockFormat
  <2>1. pc \in {"del", "dirty"} => ret \in {"ack", "prefix"}
    BY DEF StoreInv, LayoutInv, ControlOk
  <2>2. pc \in {"erase", "format"} => ret = "gcmark"
    BY DEF StoreInv, LayoutInv, ControlOk
  <2> QED
    BY <1>3, <2>1, <2>2 DEF ItemDel, ItemDelDirty, SkipGarbage, BlockErase, BlockFormat, regs
<1>4. CASE PrefixItem \/ PrefixNextBlock \/ GcCopy \/ GcCopied \/ GcMark
  BY <1>4 DEF PrefixItem, PrefixNextBlock, GcCopy, GcCopied, GcMark, Return, OnLive, OnCell, OnEnd, InBlock
<1> QED
  BY <1>1, <1>2, <1>3, <1>4, BootOnly DEF Progress

\* Every step of kv_init keeps what recovery relies on.
LEMMA BootSteady ==
  ASSUME StoreInv, HeaderOk, Apart, BootInv, Booting, Operation \/ Progress, ~ChooseWritePos
  PROVE  BootInv'
<1>1. ~Operation
  BY DEF Operation, ItemSet, ItemDelete, DeleteByPrefix, GcStart, Booting, Scanning, Calling, Deleting, Formatting
<1>2. CASE ItemDel \/ ItemDelDirty \/ SkipGarbage \/ BlockErase \/ BlockFormat
  BY <1>2, DelBoot, DirtyBoot, SkipBoot, EraseBoot, FormatBoot
<1>3. CASE ScanHeader \/ ScanItem \/ ScanEnd \/ ScanNext \/ UncleanBlock \/ UncleanDone
  BY <1>3, ScanBoot, ScanItemBoot, UncleanBoot
<1> QED
  BY <1>1, <1>2, <1>3, RunOnly DEF Progress
-----------------------------------------------------------------------------
(* What a power failure leaves.                                            *)

\* What kv_init has to start from after a power failure.
LEMMA FailBoot ==
  ASSUME PowerFail,
         \A b, c \in Blocks : Full(b)' /\ Full(c)' => b = c,
         \A k \in Keys : \A p, q \in Kept(k)' :
            \/ p = q
            \/ CellAt(p)'.origin_off = q /\ CellAt(q)'.crc
            \/ CellAt(q)'.origin_off = p /\ CellAt(p)'.crc,
         \A k \in Keys : \A p \in Kept(k)' : CellAt(p)'.crc => CellAt(p)'.val \in want[k]
  PROVE  BootInv'
<1>1. pc' = "scan" /\ cur' = <<0, 0>> /\ unclean' = {} /\ want' = want
  BY DEF PowerFail, PowerOn
<1>2. \A k : \A p \in Kept(k)' : Ahead(p)'
  <2> SUFFICES ASSUME NEW k, NEW p \in Kept(k)' PROVE Ahead(p)'
    OBVIOUS
  <2>1. p \in Pos
    BY DEF Kept
  <2>2. p[1] \in Nat /\ p[2] \in Nat
    BY <2>1, Geometry DEF Pos
  <2> QED
    BY <1>1, <2>2 DEF Ahead, Scanning
<1>3. \A k \in Keys : \A p, q \in Kept(k)' : p = q \/ Tied(p, q)' \/ Tied(q, p)'
  BY <1>2 DEF Tied
<1>4. ~Calling({"erase"}, "unclean")'
  BY <1>1 DEF Calling
<1> QED
  BY <1>1, <1>2, <1>3, <1>4 DEF BootInv

\* Outside recovery the only CLEAN block with data is the destination of a collection.
LEMMA FullRun ==
  ASSUME StoreInv, HeaderOk, ~Booting, NEW b \in Blocks, Full(b)
  PROVE  Collecting /\ b = wpos[1]
<1>1. hdr[b] = "CLEAN" /\ ~Empty(log[b])
  BY DEF Full
<1>2. state[b] = "CLEAN" /\ b \notin Uncounted
  BY <1>1, RunHeaders DEF NoState
<1> QED
  BY <1>1, <1>2 DEF StoreInv, LayoutInv, CleanEmpty

\* Two items of a key are an update and what it replaces.
LEMMA SeenPairs ==
  ASSUME StoreInv, RunInv, ~Booting, NEW k \in Keys, NEW p \in Seen(k), NEW q \in Seen(k)
  PROVE  /\ CellAt(p).crc /\ CellAt(p).val \in want[k]
         /\ \/ p = q
            \/ CellAt(p).origin_off = q /\ CellAt(q).crc
            \/ CellAt(q).origin_off = p /\ CellAt(p).crc
<1>1. Single /\ Sound /\ Wanted
  BY DEF RunInv, Whole
<1>2. \A x \in Seen(k) : CellAt(x).crc /\ CellAt(x).val \in want[k]
  BY <1>1 DEF Sound, Wanted, Seen, IsLive, CellAt
<1>3. CASE ~Updating(k)
  BY <1>1, <1>2, <1>3 DEF Single
<1>4. CASE Updating(k)
  <2>1. PICK n \in Seen(k) : n # op.old /\ Seen(k) = {op.old, n}
    BY <1>1, <1>4 DEF Single
  <2>2. CellAt(n).origin_off = op.old
    BY <1>1, <1>4, <2>1 DEF Sound
  <2> QED
    BY <1>2, <2>1, <2>2
<1> QED
  BY <1>3, <1>4

\* The power fails between two writes.
LEMMA StopFail ==
  ASSUME StoreInv, RunInv, ~Booting, PowerFail, UNCHANGED flash
  PROVE  BootInv'
<1>1. hdr' = hdr /\ log' = log
  BY DEF flash
<1>2. /\ \A k : Kept(k)' = Seen(k)
      /\ \A b : Full(b)' <=> Full(b)
      /\ \A p : CellAt(p)' = CellAt(p)
  BY <1>1, KeptFrame, SeenKept
<1>3. \A b, c \in Blocks : Full(b)' /\ Full(c)' => b = c
  BY <1>2, FullRun DEF RunInv
<1> QED
  BY <1>2, <1>3, SeenPairs, FailBoot

\* A torn item is the update of what the store was going to delete, or a copy
\* in the block that will be formatted.
LEMMA TornItem ==
  ASSUME StoreInv, RunInv, ~Booting, Writing, NEW w, w = wpos, NEW c \in {Junk, [Written EXCEPT !.crc = FALSE]},
         log' = [log EXCEPT ![w[1]][w[2]] = c], hdr' = hdr
  PROVE  /\ w \in Pos
         /\ \A q \in Pos : q # w => CellAt(q)' = CellAt(q)
         /\ \A k : \A p \in Kept(k)' : p = w \/ p \in Seen(k)
         /\ \A k : w \in Kept(k)' =>
              /\ pc = "store" /\ k = op.key /\ ~CellAt(w)'.crc
              /\ \A q \in Seen(k) : CellAt(w)'.origin_off = q
         /\ \A k : Seen(k) \subseteq Kept(k)' \ {w}
         /\ \A b \in Blocks : Full(b)' => b = w[1]
<1> USE DEF Calling, Deleting, Formatting
<1>1. /\ w \in Pos /\ log[w[1]][w[2]] = Erased /\ log'[w[1]][w[2]] = c
      /\ \A q \in Pos : q # w => log'[q[1]][q[2]] = log[q[1]][q[2]]
  BY Programmed DEF RunInv
<1>2. /\ CellAt(w)' = c /\ CellAt(w) = Erased
      /\ \A q \in Pos : q # w => CellAt(q)' = CellAt(q)
  BY <1>1 DEF CellAt
<1>3. \A b : Doomed(b)' <=> Doomed(b)
  BY DEF Doomed, Spare
<1>4. Written \in Item
  BY WritingFits DEF StoreInv
<1>5. ASSUME NEW k, NEW p \in Kept(k)', p # w PROVE p \in Seen(k)
  <2>1. p \in Kept(k)
    BY <1>1, <1>3, <1>5 DEF Kept, IsLive
  <2> QED
    BY <2>1, SeenKept
<1>6. ASSUME NEW k, NEW p \in Seen(k) PROVE p \in Kept(k)' /\ p # w
  <2>1. p \in Kept(k) /\ p \in Pos /\ IsLive(p[1], p[2], k) /\ ~Doomed(p[1])
    BY SeenKept DEF Kept
  <2>2. p # w
    BY <1>1, <2>1 DEF IsLive, Erased
  <2> QED
    BY <1>1, <1>3, <2>1, <2>2 DEF Kept, IsLive
<1>7. ASSUME NEW k, w \in Kept(k)' PROVE c = [Written EXCEPT !.crc = FALSE] /\ c.key = k /\ ~Doomed(w[1])
  <2>1. c.kind = "item" /\ c.key = k /\ ~Doomed(w[1])
    BY <1>1, <1>3, <1>7 DEF Kept, IsLive
  <2> QED
    BY <2>1 DEF Junk
<1>8. pc = "store" \/ (pc = "gccopy" /\ Collecting)
  BY DEF Writing, OnLive, OnCell, InBlock, Collecting
<1>9. w[1] \in Blocks /\ hdr[w[1]] = state[w[1]]
  BY <1>1, <1>8, RunHeaders DEF RunInv, Pos
<1>10. pc = "gccopy" => Doomed(w[1])
  <2> SUFFICES ASSUME pc = "gccopy" PROVE Doomed(w[1])
    OBVIOUS
  <2>1. Collecting /\ Sole /\ state[w[1]] = "CLEAN"
    BY DEF Collecting, RunInv, SpareOk, StoreInv, LayoutInv, CollectOk
  <2>2. \A b \in Blocks : hdr[b] = state[b] /\ state[b] # NoState
    BY RunHeaders DEF RunInv
  <2> QED
    BY <1>9, <2>1, <2>2 DEF Doomed, Spare, Sole
<1>11. ASSUME NEW k, w \in Kept(k)'
       PROVE  /\ pc = "store" /\ k = op.key /\ ~CellAt(w)'.crc
              /\ \A q \in Seen(k) : CellAt(w)'.origin_off = q
  <2>1. pc = "store" /\ c = [Written EXCEPT !.crc = FALSE] /\ c.key = k
    BY <1>7, <1>8, <1>10, <1>11
  <2>2. c = [NewItem(op.key, op.val, op.old) EXCEPT !.crc = FALSE]
    BY <2>1 DEF Written
  <2>3. c.key = op.key /\ c.crc = FALSE /\ c.origin_off = op.old
    BY <2>2 DEF NewItem
  <2>4. k = op.key /\ k \in Keys
    BY <2>1, <2>3 DEF StoreInv, LayoutInv, TypeOK
  <2>5. \A q \in Seen(k) : q = op.old
    <3>1. ~Updating(k)
      BY <2>1 DEF Updating
    <3>2. \A x, y \in Seen(k) : x = y
      BY <2>4, <3>1 DEF RunInv, Whole, Single
    <3>3. Seen(k) = {} \/ op.old \in Seen(k)
      BY <2>1, <2>4 DEF RunInv, Whole, CallOk
    <3> QED
      BY <3>2, <3>3
  <2> QED
    BY <1>2, <2>1, <2>3, <2>4, <2>5
<1>12. ASSUME NEW b \in Blocks, Full(b)', b # w[1] PROVE FALSE
  <2>1. \A o \in Offs : log'[b][o] = log[b][o]
    <3> TAKE o \in Offs
    <3>1. <<b, o>> \in Pos /\ <<b, o>> # w
      BY <1>12 DEF Pos
    <3>2. log'[<<b, o>>[1]][<<b, o>>[2]] = log[<<b, o>>[1]][<<b, o>>[2]]
      BY <1>1, <3>1
    <3> QED
      BY <3>2
  <2>2. Full(b)
    BY <1>12, <2>1 DEF Full, Empty
  <2> QED
    BY <1>12, <2>2, FullRun DEF RunInv
<1> QED
  BY <1>1, <1>2, <1>5, <1>6, <1>11, <1>12

\* The power fails during the write of an item.
LEMMA TornFail ==
  ASSUME StoreInv, RunInv, ~Booting, PowerFail, Writing, hdr' = hdr,
         NEW c \in {Junk, [Written EXCEPT !.crc = FALSE]}, log' = [log EXCEPT ![wpos[1]][wpos[2]] = c]
  PROVE  BootInv'
<1>w. PICK w : w = wpos
  OBVIOUS
<1>1. /\ \A q \in Pos : q # w => CellAt(q)' = CellAt(q)
      /\ \A k : \A p \in Kept(k)' : p = w \/ p \in Seen(k)
      /\ \A k : w \in Kept(k)' => ~CellAt(w)'.crc /\ \A q \in Seen(k) : CellAt(w)'.origin_off = q
      /\ \A k : Seen(k) \subseteq Kept(k)' \ {w}
      /\ \A b \in Blocks : Full(b)' => b = w[1]
  BY <1>w, TornItem
<1>2. \A k : \A p \in Seen(k) : CellAt(p)' = CellAt(p)
  BY <1>1 DEF Seen
<1>3. ASSUME NEW k \in Keys, NEW p \in Kept(k)', NEW q \in Kept(k)'
      PROVE  \/ p = q
             \/ CellAt(p)'.origin_off = q /\ CellAt(q)'.crc
             \/ CellAt(q)'.origin_off = p /\ CellAt(p)'.crc
  <2>1. CASE p \in Seen(k) /\ q \in Seen(k)
    BY <1>2, <2>1, SeenPairs
  <2>2. CASE p = w /\ q \in Seen(k)
    BY <1>1, <1>2, <2>2, SeenPairs
  <2>3. CASE q = w /\ p \in Seen(k)
    BY <1>1, <1>2, <2>3, SeenPairs
  <2> QED
    BY <1>1, <2>1, <2>2, <2>3
<1>4. ASSUME NEW k \in Keys, NEW p \in Kept(k)', CellAt(p)'.crc PROVE CellAt(p)'.val \in want[k]
  BY <1>1, <1>2, <1>4, SeenPairs
<1> QED
  BY <1>1, <1>3, <1>4, FailBoot

\* Without its header the collected block is formatted, and its items are in the
\* destination.
LEMMA EraseFail ==
  ASSUME StoreInv, RunInv, ~Booting, PowerFail, pc = "erase", hdr' = [hdr EXCEPT ![cur[1]] = NoState], log' = log
  PROVE  BootInv'
<1>b. PICK b : b = cur[1]
  OBVIOUS
<1>1. Calling({"erase"}, "gcmark") /\ Collecting
  BY RunHeaders DEF RunInv, Calling, Formatting, Collecting
<1>2. b \in Blocks /\ hdr'[b] = NoState /\ \A c \in Blocks : c # b => hdr'[c] = hdr[c]
  BY <1>b DEF StoreInv, LayoutInv, CursorOk, TypeOK, Formatting
<1>3. \A p : CellAt(p)' = CellAt(p)
  BY DEF CellAt
<1>4. ASSUME NEW k, NEW p \in Kept(k)' PROVE p \in Handed(k)
  <2>1. p \in Pos /\ p[1] \in Blocks /\ p[2] \in Offs /\ IsLive(p[1], p[2], k) /\ ~Doomed(p[1])'
    BY DEF Kept, IsLive, Pos
  <2>2. p[1] # b
    BY <1>2, <2>1 DEF Doomed
  <2>3. CASE p[1] = wpos[1]
    BY <2>1, <2>3 DEF Handed, Copies
  <2>4. CASE p[1] # wpos[1]
    <3>1. ~Empty(log[p[1]])
      BY <2>1 DEF Empty, IsLive, Erased
    <3>2. p[1] \notin Uncounted
      BY RunHeaders DEF RunInv
    <3>3. state[p[1]] # "CLEAN"
      BY <2>1, <2>4, <3>1, <3>2 DEF StoreInv, LayoutInv, CleanEmpty
    <3>4. p \in Seen(k)
      BY <2>1, <3>3 DEF Seen, Shown
    <3> QED
      BY <1>b, <2>2, <3>4 DEF Handed
  <2> QED
    BY <2>3, <2>4
<1>5. \A c \in Blocks : Full(c)' => Full(c)
  BY <1>2 DEF Full, NoState, Empty
<1>6. \A c, d \in Blocks : Full(c)' /\ Full(d)' => c = d
  BY <1>5, FullRun DEF RunInv
<1>7. ASSUME NEW k \in Keys, NEW p \in Kept(k)'
      PROVE  CellAt(p)'.val \in want[k] /\ \A q \in Kept(k)' : p = q
  <2>1. /\ \A x, y \in Handed(k) : x = y
        /\ \A x \in Handed(k) : \E y \in Seen(k) : CellAt(y).val = CellAt(x).val
    BY <1>1, Handover DEF RunInv
  <2>2. PICK y \in Seen(k) : CellAt(y).val = CellAt(p).val
    BY <1>4, <2>1
  <2>3. CellAt(y).val \in want[k]
    BY SeenPairs
  <2> QED
    BY <1>3, <1>4, <2>1, <2>2, <2>3
<1> QED
  BY <1>6, <1>7, FailBoot

\* The power fails during recovery.
LEMMA AgainFail ==
  ASSUME StoreInv, HeaderOk, BootInv, Booting, PowerFail
  PROVE  BootInv'
<1> USE DEF Calling, Deleting, Formatting
<1>0. ~Writing
  BY DEF Writing, OnLive, OnCell, InBlock, Booting, Scanning
<1>1. log' = log
  BY <1>0 DEF PowerFail, flash
<1>2. \A p : CellAt(p)' = CellAt(p)
  BY <1>1 DEF CellAt
<1>3. (\A k : Kept(k)' \subseteq Kept(k)) /\ (\A c \in Blocks : Full(c)' => Full(c))
  <2>1. CASE hdr' = hdr
    BY <1>1, <2>1, KeptFrame
  <2>2. CASE hdr' # hdr
    <3>b. PICK b : b = cur[1]
      OBVIOUS
    <3>1. pc = "erase" /\ b \in Blocks /\ hdr' = [hdr EXCEPT ![b] = NoState]
      BY <1>0, <2>2, <3>b DEF PowerFail, flash, StoreInv, LayoutInv, CursorOk
    <3>2. hdr'[b] = NoState /\ \A c \in Blocks : c # b => hdr'[c] = hdr[c]
      BY <3>1 DEF StoreInv, LayoutInv, TypeOK
    <3>3. (\A c \in Blocks : hdr[c] # "CLEAN") \/ Spare(b)
      BY <3>b, <3>1, EraseSpare
    <3>4. ASSUME NEW k, NEW p \in Kept(k)' PROVE p \in Kept(k)
      <4>1. p \in Pos /\ p[1] \in Blocks /\ IsLive(p[1], p[2], k) /\ ~Doomed(p[1])'
        BY <1>1 DEF Kept, Pos, IsLive
      <4>2. p[1] # b
        BY <3>2, <4>1 DEF Doomed
      <4>3. ~Doomed(p[1])
        BY <3>1, <3>2, <3>3, <4>1, <4>2 DEF Doomed
      <4> QED
        BY <4>1, <4>3 DEF Kept
    <3>5. \A c \in Blocks : Full(c)' => Full(c)
      BY <1>1, <3>2 DEF Full, NoState, Empty
    <3> QED
      BY <3>4, <3>5
  <2> QED
    BY <2>1, <2>2
<1>4. \A c, d \in Blocks : Full(c)' /\ Full(d)' => c = d
  BY <1>3 DEF BootInv
<1>5. ASSUME NEW k \in Keys, NEW p \in Kept(k)', NEW q \in Kept(k)'
      PROVE  /\ CellAt(p)'.crc => CellAt(p)'.val \in want[k]
             /\ \/ p = q
                \/ CellAt(p)'.origin_off = q /\ CellAt(q)'.crc
                \/ CellAt(q)'.origin_off = p /\ CellAt(p)'.crc
  <2>1. p \in Kept(k) /\ q \in Kept(k)
    BY <1>3
  <2> QED
    BY <1>2, <2>1 DEF BootInv, Tied
<1> QED
  BY <1>4, <1>5, FailBoot

\* A power failure leaves a flash that kv_init can repair.
LEMMA FailStep ==
  ASSUME StoreInv, RunInv, BootInv, PowerFail
  PROVE  BootInv'
<1>1. CASE Booting
  BY <1>1, AgainFail DEF RunInv
<1>2. CASE ~Booting
  <2>1. CASE UNCHANGED flash
    BY <1>2, <2>1, StopFail
  <2>2. CASE Writing /\ UNCHANGED hdr
             /\ \E c \in {Junk, [Written EXCEPT !.crc = FALSE]} : log' = [log EXCEPT ![wpos[1]][wpos[2]] = c]
    BY <1>2, <2>2, TornFail
  <2>3. CASE pc = "erase" /\ hdr' = [hdr EXCEPT ![cur[1]] = NoState] /\ UNCHANGED log
    BY <1>2, <2>3, EraseFail
  <2> QED
    BY <2>1, <2>2, <2>3 DEF PowerFail
<1> QED
  BY <1>1, <1>2
-----------------------------------------------------------------------------
(* The invariant of recovery and what it gives.                            *)

LEMMA RecoveryStart ==
  ASSUME Init
  PROVE  RunInv /\ BootInv
<1> USE DEF Calling, Deleting, Formatting, Scanning
<1>1. /\ hdr = [b \in Blocks |-> NoState] /\ log = [b \in Blocks |-> [o \in Offs |-> Erased]]
      /\ pc = "scan" /\ cur = <<0, 0>> /\ unclean = {} /\ gc_trigger = FALSE
  BY DEF Init
<1>2. Booting
  BY <1>1 DEF Booting
<1>3. \A b \in Blocks : Empty(log[b]) /\ hdr[b] = NoState
  BY <1>1 DEF Empty
<1>4. HeaderOk
  BY <1>1, Geometry DEF HeaderOk, Unread, Blocks
<1>5. Apart
  BY <1>3 DEF Apart, Empty
<1>6. SpareOk
  BY <1>1 DEF SpareOk, Collecting
<1>7. \A k : Kept(k) = {}
  BY <1>3 DEF Kept, Doomed, Pos
<1>8. BootInv
  BY <1>1, <1>3, <1>7 DEF BootInv, Full
<1> QED
  BY <1>2, <1>4, <1>5, <1>6, <1>8 DEF RunInv, Sound, Wanted

LEMMA RecoveryStutter ==
  ASSUME RunInv, BootInv, UNCHANGED vars
  PROVE  RunInv' /\ BootInv'
<1>1. UNCHANGED <<hdr, log, state, space, clean, wpos, gc_trigger, pc, ret, op, cur, unclean, want>>
  BY DEF vars
<1>2. (Booting' <=> Booting) /\ (Collecting' <=> Collecting) /\ (Prefixing' <=> Prefixing) /\ Unread' = Unread
      /\ Visited' = Visited /\ (Sole' <=> Sole) /\ \A k : Updating(k)' <=> Updating(k)
  BY <1>1 DEF Booting, Scanning, Collecting, Prefixing, Unread, Calling, Visited, Sole, Updating
<1>3. \A k, q : Seen(k)' = Seen(k) /\ CellAt(q)' = CellAt(q) /\ Kept(k)' = Kept(k)
  BY <1>1 DEF Seen, CellAt, Kept, IsLive, Shown, Moved, Doomed, Spare
<1>4. \A q : (Ahead(q)' <=> Ahead(q)) /\ (Condemned(q)' <=> Condemned(q))
  BY <1>1 DEF Ahead, Condemned, Scanning, Calling
<1>5. \A p, q : Tied(p, q)' <=> Tied(p, q)
  BY <1>3, <1>4 DEF Tied
<1>6. HeaderOk' /\ SpareOk'
  BY <1>1, <1>2 DEF RunInv, HeaderOk, SpareOk, Calling
<1>7. Sound' /\ Wanted'
  BY <1>1, <1>2, <1>3 DEF RunInv, Sound, Wanted, Calling
<1>8. Apart' /\ (~Booting' => Whole')
  BY <1>1, <1>2, WholeStutter, ApartFrame DEF RunInv
<1>9. \A b : (Full(b)' <=> Full(b)) /\ (Empty(log[b])' <=> Empty(log[b])) /\ (Spare(b)' <=> Spare(b))
  BY <1>1 DEF Full, Empty, Spare
<1>10. BootInv'
  BY <1>1, <1>2, <1>3, <1>4, <1>5, <1>9 DEF BootInv, Calling
<1> QED
  BY <1>6, <1>7, <1>8, <1>10 DEF RunInv

\* Every step keeps the invariant of recovery.
LEMMA RecoveryStep ==
  ASSUME StoreInv, RunInv, BootInv, Next
  PROVE  RunInv' /\ BootInv'
<1>1. HeaderOk' /\ SpareOk'
  BY HeaderStep, SpareStep DEF RunInv
<1>2. CASE PowerFail
  <2>1. Booting'
    BY <1>2 DEF PowerFail, PowerOn, Booting, Scanning
  <2>2. Apart' /\ BootInv'
    BY <1>2, ApartFail, FailStep DEF RunInv
  <2> QED
    BY <1>1, <2>1, <2>2 DEF RunInv, Sound, Wanted
<1>3. CASE ~Booting /\ (Operation \/ Progress)
  <2>1. ~Booting'
    BY <1>3, RunStays
  <2>2. Whole' /\ Apart'
    BY <1>3, RunSteps DEF RunInv, Whole
  <2>3. Sound' /\ Wanted'
    BY <1>3, RunValues
  <2> QED
    BY <1>1, <2>1, <2>2, <2>3 DEF RunInv, BootInv
<1>4. CASE Booting /\ ChooseWritePos
  <2>1. ~Booting'
    BY <1>4 DEF ChooseWritePos, Return, Booting, Scanning, Calling, Deleting, Formatting
  <2>2. Whole' /\ Apart' /\ Sound' /\ Wanted'
    BY <1>4, ChooseRun DEF RunInv, Whole
  <2> QED
    BY <1>1, <2>1, <2>2 DEF RunInv, BootInv
<1>5. CASE Booting /\ (Operation \/ Progress) /\ ~ChooseWritePos
  <2>1. Booting'
    BY <1>5, BootStays
  <2>2. Apart' /\ BootInv'
    BY <1>5, ApartStep, BootSteady DEF RunInv
  <2> QED
    BY <1>1, <2>1, <2>2 DEF RunInv, Sound, Wanted
<1> QED
  BY <1>2, <1>3, <1>4, <1>5 DEF Next

\* At every step of every operation, of every collection and of every recovery the
\* items on the flash are those RunInv and BootInv describe, wherever the power fails:
\* kv_item_set leaves at most an update and what it replaces, linked by origin_off, and
\* the scan of kv_init has still to come to what it must delete.
THEOREM RecoveryIsSound == Spec => []RecoveryInv
<1>1. Init => RunInv /\ BootInv
  BY RecoveryStart
<1>2. StoreInv /\ RunInv /\ BootInv /\ [Next]_vars => RunInv' /\ BootInv'
  BY RecoveryStep, RecoveryStutter
<1> QED
  BY <1>1, <1>2, BookkeepingIsExact, PTL DEF Spec, RecoveryInv

\* Between operations a search finds one good item with a promised value, or none.
LEMMA IdleFound ==
  ASSUME StoreInv, RunInv, pc = "idle", NEW k \in Keys
  PROVE  /\ ~Booting /\ Found(k) = Seen(k)
         /\ \A p, q \in Found(k) : p = q
         /\ \A p \in Found(k) : CellAt(p).crc /\ CellAt(p).val \in want[k]
<1>1. ~Booting
  BY DEF Booting, Scanning, Calling, Deleting, Formatting
<1>2. Found(k) = Seen(k)
  BY DEF Seen, Found, Shown, Moved
<1>3. ~Updating(k) /\ Single
  BY <1>1 DEF Updating, RunInv, Whole
<1> QED
  BY <1>1, <1>2, <1>3, SeenPairs DEF Single

\* Between operations kv_item_search finds at most one live item of a key, wherever
\* the power failed before: kv_init deletes what an interrupted update left behind
\* and formats or keeps as a whole what an interrupted collection left.
THEOREM OneItemPerKey == Spec => []OneCopy
<1>1. StoreInv /\ RunInv => OneCopy
  <2> SUFFICES ASSUME StoreInv, RunInv, pc = "idle", NEW k \in Keys PROVE Cardinality(Found(k)) <= 1
    BY DEF OneCopy
  <2>1. \A p, q \in Found(k) : p = q
    BY IdleFound
  <2>2. CASE Found(k) = {}
    BY <2>2, FS_EmptySet
  <2>3. CASE Found(k) # {}
    <3>1. PICK p : p \in Found(k)
      BY <2>3
    <3>2. Found(k) = {p}
      BY <2>1, <3>1
    <3> QED
      BY <3>2, FS_Singleton
  <2> QED
    BY <2>2, <2>3
<1> QED
  BY <1>1, BookkeepingIsExact, RecoveryIsSound, PTL DEF RecoveryInv

\* When kv_init is done, and between operations, kv_item_get returns a value that
\* the callers were promised or no value, and never one whose write was torn: no
\* power failure, not even one during a collection, brings back what was
\* overwritten or deleted.
THEOREM NothingComesBack == Spec => []NoStale
<1>1. StoreInv /\ RunInv /\ BootInv => NoStale
  <2> SUFFICES ASSUME StoreInv, RunInv, BootInv, pc \in {"choose", "idle"}, NEW k \in Keys
               PROVE  /\ Value(k) \in want[k] \union {NoVal}
                      /\ \A p \in Found(k) : CellAt(p).crc
    BY DEF NoStale
  <2>1. \A p \in Found(k) : CellAt(p).crc /\ CellAt(p).val \in want[k]
    BY IdleFound, Recovered DEF RunInv
  <2> QED
    BY <2>1, SearchFound
<1> QED
  BY <1>1, BookkeepingIsExact, RecoveryIsSound, PTL DEF RecoveryInv
-----------------------------------------------------------------------------
(* Nothing is lost as long as the collector's block is there.              *)

\* What a step of kv_init has to keep so that nothing is lost.
LEMMA LossFrame ==
  ASSUME LossInv, Booting, want' = want, ~gcCut' => ~gcCut, Booting',
         \E b \in Blocks : Spare(b)',
         ~Calling(Formatting, "choose")',
         ~gcCut => /\ ~Calling(Formatting, "unclean")'
                   /\ \A b \in Blocks : hdr'[b] = "CLEAN" /\ Doomed(b)' => Empty(log'[b])
                   /\ \A k \in Keys : \A p \in Kept(k) : CellAt(p).crc => \E q \in Kept(k)' : CellAt(q)'.crc
                   /\ \A k \in Keys : \A p \in Kept(k)' : Condemned(p)' /\ CellAt(p)'.crc =>
                        \E q \in Kept(k)' : q # p /\ CellAt(q)'.crc
  PROVE  LossInv'
<1>1. CASE gcCut'
  BY <1>1 DEF LossInv
<1>2. CASE ~gcCut'
  <2>1. \A k \in Keys : NoVal \in want[k] \/ \E p \in Kept(k) : CellAt(p).crc
    BY <1>2 DEF LossInv
  <2>2. \A k \in Keys : NoVal \in want'[k] \/ \E p \in Kept(k)' : CellAt(p)'.crc
    BY <1>2, <2>1
  <2>3. \A b \in Blocks : hdr'[b] = "CLEAN" /\ Doomed(b)' => Empty(log[b])'
    BY <1>2 DEF Empty
  <2> QED
    BY <1>2, <2>2, <2>3 DEF LossInv
<1> QED
  BY <1>1, <1>2

\* The same when neither a header nor an item changes and nothing is to be deleted.
LEMMA LossStill ==
  ASSUME LossInv, Booting, want' = want, gcCut' = gcCut, Booting', log' = log, pc' # "del",
         \A b \in Blocks : (hdr'[b] = "CLEAN" <=> hdr[b] = "CLEAN") /\ (Doomed(b)' <=> Doomed(b)) /\ (Spare(b)' <=> Spare(b)),
         \A k : Kept(k)' = Kept(k),
         ~Calling(Formatting, "choose")', ~gcCut => ~Calling(Formatting, "unclean")'
  PROVE  LossInv'
<1>1. \A p : CellAt(p)' = CellAt(p) /\ ~Condemned(p)'
  BY DEF CellAt, Condemned, Calling
<1>2. \E b \in Blocks : Spare(b)'
  BY DEF LossInv
<1>3. ~gcCut => \A b \in Blocks : hdr'[b] = "CLEAN" /\ Doomed(b)' => Empty(log'[b])
  BY DEF LossInv
<1> QED
  BY <1>1, <1>2, <1>3, LossFrame

\* kv_init finds a CLEAN block unless it has none: the first block is not formatted.
LEMMA SpareCounts ==
  ASSUME StoreInv, HeaderOk, pc = "unclean", unclean = {}, NEW b \in Blocks, Spare(b)
  PROVE  clean # 0
<1> USE DEF Calling, Deleting, Formatting, Scanning
<1>1. Unread = {} /\ Uncounted = {}
  BY DEF Unread, Uncounted
<1>2. state[b] = "CLEAN"
  BY <1>1 DEF StoreInv, HeadersRead, HeaderOk, Spare
<1>3. Counted # {}
  BY <1>1, <1>2 DEF Counted
<1>4. Cardinality(Counted) # 0
  BY <1>3, CountedFinite, FS_EmptySet
<1> QED
  BY <1>4 DEF StoreInv, LayoutInv, CountOk

\* With a spare block left kv_init does not format the first block.
LEMMA ScanLoss ==
  ASSUME StoreInv, HeaderOk, LossInv, ScanHeader \/ ScanEnd \/ ScanNext \/ UncleanDone
  PROVE  LossInv'
<1> USE DEF Calling, Deleting, Formatting
<1>1. Booting /\ want' = want /\ gcCut' = gcCut /\ hdr' = hdr /\ log' = log /\ ~ChooseWritePos
  BY BootOnly DEF ScanHeader, ScanEnd, ScanNext, UncleanDone, ChooseWritePos, hist, flash, OnEnd, InBlock
<1>2. Booting'
  BY <1>1, BootStays DEF Progress
<1>3. pc' # "del" /\ ~(pc' \in Formatting /\ ret' = "unclean")
  BY DEF ScanHeader, ScanEnd, ScanNext, UncleanDone
<1>4. ~(pc' \in Formatting /\ ret' = "choose")
  <2>1. CASE ScanHeader \/ ScanEnd \/ ScanNext
    BY <2>1 DEF ScanHeader, ScanEnd, ScanNext
  <2>2. CASE UncleanDone
    <3>1. PICK b \in Blocks : Spare(b)
      BY <1>1 DEF LossInv
    <3>2. clean # 0
      BY <2>2, <3>1, SpareCounts DEF UncleanDone
    <3> QED
      BY <2>2, <3>2 DEF UncleanDone
  <2> QED
    BY <2>1, <2>2
<1>5. /\ \A k : Kept(k)' = Kept(k)
      /\ \A b : (Doomed(b)' <=> Doomed(b)) /\ (Spare(b)' <=> Spare(b))
  BY <1>1, KeptFrame
<1> QED
  BY <1>1, <1>2, <1>3, <1>4, <1>5, LossStill

LEMMA DirtyLoss ==
  ASSUME StoreInv, HeaderOk, LossInv, Booting, SkipGarbage \/ ItemDelDirty
  PROVE  LossInv'
<1> USE DEF Calling, Deleting, Formatting
<1>1. /\ log' = log /\ want' = want /\ gcCut' = gcCut /\ pc' = "scan"
      /\ \A k : Kept(k)' = Kept(k)
      /\ \A c \in Blocks : (Full(c)' <=> Full(c)) /\ (Doomed(c)' <=> Doomed(c)) /\ (Spare(c)' <=> Spare(c))
      /\ \A p : CellAt(p)' = CellAt(p)
  BY DirtyStep
<1>2. Booting' /\ \A p : ~Condemned(p)'
  BY <1>1 DEF Booting, Scanning, Condemned
<1>3. \E b \in Blocks : Spare(b)'
  BY <1>1 DEF LossInv
<1>4. ASSUME ~gcCut, NEW b \in Blocks, hdr'[b] = "CLEAN", Doomed(b)' PROVE Empty(log'[b])
  <2>1. CASE Full(b)
    BY <1>1, <1>4, <2>1 DEF LossInv, Full
  <2>2. CASE ~Full(b)
    BY <1>1, <1>4, <2>2 DEF Full, Empty
  <2> QED
    BY <2>1, <2>2
<1> QED
  BY <1>1, <1>2, <1>3, <1>4, LossFrame

\* The scan deletes a good item only for the good one that replaced it.
LEMMA ScanItemLoss ==
  ASSUME StoreInv, HeaderOk, LossInv, ScanItem
  PROVE  LossInv'
<1> USE DEF Calling, Deleting, Formatting
<1>c. PICK c : c = cur
  OBVIOUS
<1>1. /\ OnLive("scan") /\ pc = "scan" /\ cur[2] # 0 /\ Booting /\ want' = want /\ gcCut' = gcCut
      /\ log' = log /\ hdr' = hdr /\ "scan" \in Walks
  BY DEF ScanItem, OnLive, OnCell, InBlock, Booting, Scanning, hist, flash, Walks
<1>2. /\ \A k : Kept(k)' = Kept(k)
      /\ \A b : (Doomed(b)' <=> Doomed(b)) /\ (Spare(b)' <=> Spare(b))
      /\ \A p : CellAt(p)' = CellAt(p)
  BY <1>1, KeptFrame
<1>3. Booting' /\ pc' \in {"scan", "del"}
  BY <1>1 DEF ScanItem, Booting, Scanning
<1>4. c \in Pos /\ c[1] \in Blocks /\ c[2] \in Offs /\ CellAt(c) = Here /\ Here \in Item /\ Here # Erased /\ ~IsGarbage(Here)
  <2>1. OnCell("scan") /\ Here \in Item /\ ~IsGarbage(Here)
    BY <1>1, LiveHere DEF StoreInv, OnLive
  <2>2. cur \in Pos /\ cur[1] \in Blocks /\ cur[2] \in Offs /\ Here # Erased
    BY <1>1, <2>1, WalkOn DEF StoreInv
  <2> QED
    BY <1>c, <2>1, <2>2 DEF Here, CellAt
<1>5. \/ ~CellAt(c).crc /\ pc' = "del" /\ op'.old = c
      \/ Superseded(CellAt(c), c) /\ pc' = "del" /\ op'.old = CellAt(c).origin_off
      \/ pc' = "scan"
  <2>1. op \in [key : Keys, val : Vals \union {NoVal}, old : Pos \union {NoPos}, sel : SUBSET Keys]
    BY DEF StoreInv, LayoutInv, TypeOK
  <2>2. \A x : [op EXCEPT !.old = x].old = x
    BY <2>1
  <2> QED
    BY <1>c, <1>1, <1>4, <2>2 DEF ScanItem
<1>6. ASSUME ~gcCut, NEW k \in Keys, NEW p \in Kept(k), Condemned(p)', CellAt(p).crc
      PROVE  \E q \in Kept(k) : q # p /\ CellAt(q).crc
  <2>1. Superseded(CellAt(c), c) /\ p = CellAt(c).origin_off
    BY <1>5, <1>6 DEF Condemned
  <2>2. CellAt(c).crc /\ c # p /\ IsLive(p[1], p[2], CellAt(c).key) /\ IsLive(p[1], p[2], k)
    BY <1>6, <2>1 DEF Superseded, Kept
  <2>3. CellAt(c).key = k
    BY <2>2 DEF IsLive
  <2>4. IsLive(c[1], c[2], k)
    BY <1>4, <2>3 DEF IsLive, IsGarbage, Item, CellAt
  <2>5. hdr[c[1]] # NoState
    <3>1. c[1] \in Nat
      BY <1>4, Geometry
    <3>2. c[1] \notin Unread
      BY <1>c, <1>1, <3>1 DEF Unread
    <3> QED
      BY <1>1, <1>4, <3>2 DEF HeaderOk, StoreInv, HeadersRead
  <2>6. ~Empty(log[c[1]])
    BY <1>4 DEF Empty, CellAt
  <2>7. ~Doomed(c[1])
    BY <1>1, <1>4, <1>6, <2>5, <2>6 DEF LossInv, Doomed
  <2>8. c \in Kept(k)
    BY <1>4, <2>4, <2>7 DEF Kept
  <2> QED
    BY <2>2, <2>8
<1>7. \E b \in Blocks : Spare(b)'
  BY <1>1, <1>2 DEF LossInv
<1>8. ~gcCut => \A b \in Blocks : hdr'[b] = "CLEAN" /\ Doomed(b)' => Empty(log'[b])
  BY <1>1, <1>2 DEF LossInv
<1> QED
  BY <1>1, <1>2, <1>3, <1>6, <1>7, <1>8, LossFrame

\* When the scan deletes a good item, another good one of its key stays.
LEMMA DelLoss ==
  ASSUME StoreInv, LossInv, Booting, ItemDel
  PROVE  LossInv'
<1> USE DEF Calling, Deleting, Formatting
<1>o. PICK o : o = op.old
  OBVIOUS
<1>1. /\ pc = "del" /\ ret = "scan" /\ ret' = ret /\ pc' \in {"dirty", "scan"} /\ hdr' = hdr
      /\ want' = want /\ gcCut' = gcCut /\ Condemned(o)
  BY <1>o DEF ItemDel, regs, ram, hist, Booting, Scanning, Condemned
<1>2. /\ \A q \in Pos : q # o => CellAt(q)' = CellAt(q)
      /\ \A b \in Blocks : Empty(log[b])' <=> Empty(log[b])
  BY <1>o, MarkedCell
<1>3. \A b : (Doomed(b)' <=> Doomed(b)) /\ (Spare(b)' <=> Spare(b))
  BY <1>1 DEF Doomed, Spare
<1>4. Booting' /\ \A p : ~Condemned(p)'
  BY <1>1 DEF Booting, Scanning, Condemned
<1>5. ASSUME NEW k, NEW p \in Kept(k), p # o PROVE p \in Kept(k)' /\ CellAt(p)' = CellAt(p)
  <2>1. p \in Pos /\ IsLive(p[1], p[2], k) /\ ~Doomed(p[1])
    BY DEF Kept
  <2>2. CellAt(p)' = CellAt(p)
    BY <1>2, <1>5, <2>1
  <2> QED
    BY <1>3, <2>1, <2>2 DEF Kept, IsLive, CellAt
<1>6. ASSUME ~gcCut, NEW k \in Keys, NEW p \in Kept(k), CellAt(p).crc PROVE \E q \in Kept(k)' : CellAt(q)'.crc
  <2>1. CASE p # o
    BY <1>5, <1>6, <2>1
  <2>2. CASE p = o
    <3>1. PICK q \in Kept(k) : q # p /\ CellAt(q).crc
      BY <1>1, <1>6, <2>2 DEF LossInv
    <3> QED
      BY <1>5, <2>2, <3>1
  <2> QED
    BY <2>1, <2>2
<1>7. \E b \in Blocks : Spare(b)'
  BY <1>3 DEF LossInv
<1>8. ~gcCut => \A b \in Blocks : hdr'[b] = "CLEAN" /\ Doomed(b)' => Empty(log'[b])
  BY <1>1, <1>2, <1>3 DEF LossInv
<1> QED
  BY <1>1, <1>4, <1>6, <1>7, <1>8, LossFrame

\* Only blocks without a header are formatted.
LEMMA FormatsUnread ==
  ASSUME StoreInv, HeaderOk, LossInv, Booting, ~gcCut, pc \in Formatting
  PROVE  ret = "next" /\ cur[1] \in Blocks /\ hdr[cur[1]] = NoState
BY DEF Calling, Deleting, Formatting, Booting, Scanning, LossInv, HeaderOk, StoreInv, LayoutInv, CursorOk

LEMMA EraseLoss ==
  ASSUME StoreInv, HeaderOk, LossInv, Booting, BlockErase
  PROVE  LossInv'
<1> USE DEF Calling, Deleting, Formatting
<1>b. PICK b : b = cur[1]
  OBVIOUS
<1>1. /\ pc = "erase" /\ pc' = "format" /\ ret' = ret /\ ret \in {"next", "unclean", "choose"}
      /\ want' = want /\ gcCut' = gcCut /\ b \in Blocks
      /\ hdr' = [hdr EXCEPT ![b] = NoState] /\ log' = [log EXCEPT ![b] = [o \in Offs |-> Erased]]
  BY <1>b DEF BlockErase, ram, regs, hist, Booting, Scanning, StoreInv, LayoutInv, CursorOk
<1>2. /\ hdr'[b] = NoState /\ \A c \in Blocks : c # b => hdr'[c] = hdr[c] /\ log'[c] = log[c]
  BY <1>1 DEF StoreInv, LayoutInv, TypeOK
<1>3. Booting' /\ \A p : ~Condemned(p)'
  BY <1>1 DEF Booting, Condemned
<1>4. \E c \in Blocks : Spare(c)'
  BY <1>1, <1>2 DEF Spare
<1>5. ret # "choose"
  BY <1>1 DEF LossInv
<1>6. ASSUME ~gcCut
      PROVE  /\ ret # "unclean"
             /\ \A c \in Blocks : hdr'[c] = "CLEAN" /\ Doomed(c)' => Empty(log'[c])
             /\ \A k : \A p \in Kept(k) : p \in Kept(k)' /\ CellAt(p)' = CellAt(p)
  <2>1. ret = "next" /\ hdr[b] = NoState
    BY <1>b, <1>1, <1>6, FormatsUnread
  <2>2. hdr' = hdr
    BY <1>1, <2>1 DEF StoreInv, LayoutInv, TypeOK
  <2>3. \A c : Doomed(c)' <=> Doomed(c)
    BY <2>2 DEF Doomed, Spare
  <2>4. ASSUME NEW c \in Blocks, hdr'[c] = "CLEAN", Doomed(c)' PROVE Empty(log'[c])
    <3>1. c # b /\ hdr[c] = "CLEAN" /\ Doomed(c)
      BY <2>1, <2>2, <2>3, <2>4 DEF NoState
    <3> QED
      BY <1>2, <1>6, <3>1 DEF LossInv
  <2>5. ASSUME NEW k, NEW p \in Kept(k) PROVE p \in Kept(k)' /\ CellAt(p)' = CellAt(p)
    <3>1. p \in Pos /\ p[1] \in Blocks /\ IsLive(p[1], p[2], k) /\ ~Doomed(p[1])
      BY DEF Kept, Pos
    <3>2. p[1] # b
      BY <2>1, <3>1 DEF Doomed
    <3>3. log'[p[1]] = log[p[1]]
      BY <1>2, <3>1, <3>2
    <3> QED
      BY <2>3, <3>1, <3>3 DEF Kept, IsLive, CellAt
  <2> QED
    BY <2>1, <2>4, <2>5
<1>7. ~gcCut => \A k \in Keys : \A p \in Kept(k) : CellAt(p).crc => \E q \in Kept(k)' : CellAt(q)'.crc
  BY <1>6
<1> QED
  BY <1>1, <1>3, <1>4, <1>5, <1>6, <1>7, LossFrame

LEMMA FormatLoss ==
  ASSUME StoreInv, HeaderOk, LossInv, Booting, BlockFormat
  PROVE  LossInv'
<1> USE DEF Calling, Deleting, Formatting
<1>b. PICK b : b = cur[1]
  OBVIOUS
<1>1. /\ pc = "format" /\ pc' = ret /\ ret' = ret /\ ret \in {"next", "unclean", "choose"}
      /\ want' = want /\ gcCut' = gcCut /\ b \in Blocks /\ log' = log
      /\ hdr' = [hdr EXCEPT ![b] = "CLEAN"] /\ Empty(log[b])
  BY <1>b DEF BlockFormat, SetBlockState, regs, hist, Booting, Scanning, StoreInv, LayoutInv, CursorOk, CleanEmpty
<1>2. hdr'[b] = "CLEAN" /\ \A c \in Blocks : c # b => hdr'[c] = hdr[c]
  BY <1>1 DEF StoreInv, LayoutInv, TypeOK
<1>3. Booting' /\ (\A p : ~Condemned(p)') /\ pc' \notin Formatting
  BY <1>1 DEF Booting, Condemned
<1>4. \E c \in Blocks : Spare(c)'
  BY <1>1, <1>2 DEF Spare
<1>5. ASSUME ~gcCut
      PROVE  /\ \A c \in Blocks : hdr'[c] = "CLEAN" /\ Doomed(c)' => Empty(log'[c])
             /\ \A k : \A p \in Kept(k) : p \in Kept(k)' /\ CellAt(p)' = CellAt(p)
  <2>1. hdr[b] = NoState
    BY <1>b, <1>1, <1>5, FormatsUnread
  <2>2. \A c \in Blocks : Spare(c)' <=> Spare(c)
    BY <1>2, <2>1 DEF Spare
  <2>3. \A c \in Blocks : c # b => (Doomed(c)' <=> Doomed(c))
    BY <1>2, <2>2 DEF Doomed
  <2>4. ASSUME NEW c \in Blocks, hdr'[c] = "CLEAN", Doomed(c)' PROVE Empty(log'[c])
    <3>1. CASE c = b
      BY <1>1, <3>1
    <3>2. CASE c # b
      BY <1>1, <1>2, <1>5, <2>3, <2>4, <3>2 DEF LossInv
    <3> QED
      BY <3>1, <3>2
  <2>5. ASSUME NEW k, NEW p \in Kept(k) PROVE p \in Kept(k)' /\ CellAt(p)' = CellAt(p)
    <3>1. p \in Pos /\ p[1] \in Blocks /\ IsLive(p[1], p[2], k) /\ ~Doomed(p[1])
      BY DEF Kept, Pos
    <3>2. p[1] # b
      BY <2>1, <3>1 DEF Doomed
    <3>3. ~Doomed(p[1])'
      BY <2>3, <3>1, <3>2
    <3> QED
      BY <1>1, <3>1, <3>3 DEF Kept, IsLive, CellAt
  <2> QED
    BY <2>4, <2>5
<1>6. ~gcCut => \A k \in Keys : \A p \in Kept(k) : CellAt(p).crc => \E q \in Kept(k)' : CellAt(q)'.crc
  BY <1>5
<1> QED
  BY <1>1, <1>3, <1>4, <1>5, <1>6, LossFrame

\* A CLEAN block with data is formatted only when it is the only spare one.
LEMMA UncleanKept ==
  ASSUME StoreInv, HeaderOk, BootInv, LossInv, ~gcCut, pc = "unclean", NEW b \in unclean
  PROVE  ReserveMet
<1> USE DEF Calling, Deleting, Formatting, Scanning
<1>1. Booting /\ Unread = {} /\ Uncounted = unclean
  BY DEF Booting, Unread, Uncounted
<1>2. \A c \in Blocks : hdr[c] = state[c] /\ state[c] # NoState
  BY <1>1 DEF HeaderOk, StoreInv, HeadersRead
<1>3. \A c \in unclean : c \in Blocks /\ Full(c)
  BY <1>1, <1>2 DEF BootInv, StoreInv, LayoutInv, UncleanOk, TypeOK, Full
<1>4. ~Doomed(b)
  BY <1>1, <1>3 DEF LossInv, Full
<1>5. PICK c \in Blocks \ {b} : Spare(c)
  BY <1>2, <1>3, <1>4 DEF Doomed, Full
<1>6. c \notin unclean
  BY <1>1, <1>3, <1>5 DEF BootInv
<1>7. c \in Counted
  BY <1>1, <1>2, <1>5, <1>6 DEF Counted, Spare
<1>8. Cardinality(Counted) # 0 /\ Cardinality(Counted) \in Nat
  BY <1>7, CountedFinite, FS_EmptySet
<1> QED
  BY <1>8 DEF ReserveMet, KV_RESERVED_BLOCKS, StoreInv, LayoutInv, CountOk

\* A CLEAN block with data is kept.
LEMMA UncleanLoss ==
  ASSUME StoreInv, HeaderOk, BootInv, LossInv, UncleanBlock
  PROVE  LossInv'
<1> USE DEF Calling, Deleting, Formatting
<1>1. /\ pc = "unclean" /\ Booting /\ want' = want /\ gcCut' = gcCut /\ log' = log
      /\ pc' \in {"unclean", "erase"} /\ (pc' = "erase" => ret' = "unclean")
  BY DEF UncleanBlock, Booting, hist
<1>2. Booting' /\ \A p : ~Condemned(p)'
  BY <1>1 DEF Booting, Condemned
<1>3. PICK b \in unclean : IF ReserveMet THEN hdr' = [hdr EXCEPT ![b] = "DIRTY"] /\ pc' = pc ELSE hdr' = hdr
  BY DEF UncleanBlock, SetBlockState
<1>4. CASE ~ReserveMet
  <2>1. gcCut
    BY <1>1, <1>4, UncleanKept
  <2>2. \E c \in Blocks : Spare(c)'
    BY <1>1, <1>3, <1>4 DEF LossInv, Spare
  <2> QED
    BY <1>1, <1>2, <2>1, <2>2, LossFrame
<1>5. CASE ReserveMet
  <2>1. PICK c \in Blocks : c \notin unclean /\ hdr[c] = "CLEAN" /\ Empty(log[c])
    BY <1>1, <1>5, AnotherClean
  <2>2. hdr'[b] = "DIRTY" /\ \A d \in Blocks : d # b => hdr'[d] = hdr[d]
    BY <1>3, <1>5 DEF StoreInv, LayoutInv, TypeOK
  <2>3. Spare(c)' /\ hdr'[c] = "CLEAN"
    BY <2>1, <2>2 DEF Spare
  <2>4. \A d \in Blocks : hdr'[d] = "CLEAN" /\ Doomed(d)' => Empty(log'[d])
    <3> SUFFICES ASSUME NEW d \in Blocks, hdr'[d] = "CLEAN", Doomed(d)' PROVE Empty(log'[d])
      OBVIOUS
    <3>1. d = c
      BY <2>1, <2>3 DEF Doomed, NoState
    <3> QED
      BY <1>1, <2>1, <3>1
  <2>5. ASSUME NEW k, NEW p \in Kept(k) PROVE p \in Kept(k)' /\ CellAt(p)' = CellAt(p)
    <3>1. p \in Pos /\ p[1] \in Blocks /\ p[2] \in Offs /\ IsLive(p[1], p[2], k) /\ ~Doomed(p[1])
      BY DEF Kept, Pos
    <3>2. p[1] # c
      BY <2>1, <3>1 DEF IsLive, Empty, Erased
    <3>3. ~Doomed(p[1])'
      BY <2>1, <2>2, <2>3, <3>1, <3>2 DEF Doomed, NoState
    <3> QED
      BY <1>1, <3>1, <3>3 DEF Kept, IsLive, CellAt
  <2>6. \A k \in Keys : \A p \in Kept(k) : CellAt(p).crc => \E q \in Kept(k)' : CellAt(q)'.crc
    BY <2>5
  <2>7. pc' = "unclean"
    BY <1>1, <1>3, <1>5
  <2> QED
    BY <1>1, <1>2, <2>1, <2>3, <2>4, <2>6, <2>7, LossFrame
<1> QED
  BY <1>4, <1>5

\* Outside recovery the collector's block is the spare one.
LEMMA RunSpare ==
  ASSUME StoreInv, HeaderOk, ReserveHeld, ~Booting
  PROVE  \E b \in Blocks : Spare(b)
<1>1. Cardinality(Counted) >= 1
  BY DEF ReserveHeld, KV_RESERVED_BLOCKS, StoreInv, LayoutInv, CountOk
<1>2. Counted # {}
  BY <1>1, FS_EmptySet
<1>3. PICK b \in Blocks : state[b] = "CLEAN"
  BY <1>2 DEF Counted
<1> QED
  BY <1>3, RunHeaders DEF Spare

\* Outside the copying a power failure leaves every item that was read.
LEMMA RunFail ==
  ASSUME StoreInv, RunInv, ~Booting, PowerFail, ~gcCut'
  PROVE  /\ hdr' = hdr
         /\ \A k : \A p \in Seen(k) : p \in Kept(k)' /\ CellAt(p)' = CellAt(p)
         /\ \A b \in Blocks : hdr'[b] = "CLEAN" /\ Doomed(b)' => Empty(log'[b])
<1>w. PICK w : w = wpos
  OBVIOUS
<1>1. pc # "gccopy" /\ pc # "erase"
  BY RunHeaders DEF PowerFail, RunInv, Formatting
<1>2. \A b \in Blocks : ~(pc = "format" /\ b = cur[1]) => hdr[b] = state[b]
  BY RunHeaders DEF RunInv
<1>3. CASE UNCHANGED flash
  <2>1. hdr' = hdr /\ log' = log
    BY <1>3 DEF flash
  <2>2. /\ \A k : Kept(k)' = Seen(k)
        /\ \A b : Doomed(b)' <=> Doomed(b)
        /\ \A p : CellAt(p)' = CellAt(p)
    BY <2>1, KeptFrame, SeenKept
  <2>3. ASSUME NEW b \in Blocks, hdr[b] = "CLEAN", Doomed(b), ~Empty(log[b]) PROVE FALSE
    <3>1. Collecting /\ b = wpos[1]
      BY <2>3, FullRun DEF RunInv, Full
    <3>2. Shown(b)
      BY <1>1, <3>1 DEF Collecting, Calling, Formatting, Shown, Moved, RunInv, Whole, CallOk
    <3> QED
      BY <2>3, <3>2, ShownKept DEF RunInv, Whole
  <2> QED
    BY <2>1, <2>2, <2>3
<1>4. CASE /\ Writing /\ UNCHANGED hdr
           /\ \E c \in {Junk, [Written EXCEPT !.crc = FALSE]} : log' = [log EXCEPT ![wpos[1]][wpos[2]] = c]
  <2>1. pc = "store" /\ hdr' = hdr
    BY <1>1, <1>4 DEF Writing, OnLive, OnCell, InBlock
  <2>2. PICK c \in {Junk, [Written EXCEPT !.crc = FALSE]} : log' = [log EXCEPT ![w[1]][w[2]] = c]
    BY <1>w, <1>4
  <2>3. /\ w \in Pos
        /\ \A q \in Pos : q # w => CellAt(q)' = CellAt(q)
        /\ \A k : Seen(k) \subseteq Kept(k)' \ {w}
        /\ \A b \in Blocks : Full(b)' => b = w[1]
    BY <1>w, <1>4, <2>1, <2>2, TornItem
  <2>4. \A k : \A p \in Seen(k) : p \in Kept(k)' /\ CellAt(p)' = CellAt(p)
    BY <2>3 DEF Seen
  <2>5. w[1] \in Blocks /\ hdr[w[1]] # "CLEAN"
    BY <1>w, <1>2, <2>1, <2>3 DEF StoreInv, LayoutInv, WritePosOk, Collecting, Calling, Formatting, Pos
  <2>6. \A b \in Blocks : hdr'[b] = "CLEAN" => Empty(log'[b])
    BY <2>1, <2>3, <2>5 DEF Full, Empty
  <2> QED
    BY <2>1, <2>4, <2>6
<1> QED
  BY <1>1, <1>3, <1>4 DEF PowerFail

\* A power failure outside the copying takes nothing away.
LEMMA FailLoss ==
  ASSUME StoreInv, RunInv, LossInv, ReserveHeld, PowerFail
  PROVE  LossInv'
<1>1. pc' = "scan" /\ want' = want /\ (gcCut => gcCut')
  BY DEF PowerFail, PowerOn
<1>2. /\ Booting' /\ ~Calling(Formatting, "choose")' /\ ~Calling(Formatting, "unclean")'
      /\ \A p : ~Condemned(p)'
  BY <1>1 DEF Booting, Scanning, Calling, Formatting, Condemned
<1>3. PICK b \in Blocks : Spare(b)
  BY RunSpare DEF LossInv, RunInv
<1>4. hdr' = hdr \/ (pc = "erase" /\ cur[1] \in Blocks /\ hdr' = [hdr EXCEPT ![cur[1]] = NoState])
  BY DEF PowerFail, flash, StoreInv, LayoutInv, CursorOk, Formatting
<1>5. Spare(b)'
  BY <1>3, <1>4 DEF Spare, StoreInv, LayoutInv, TypeOK
<1>6. CASE Booting
  <2>1. ~Writing /\ log' = log
    BY <1>6 DEF Writing, OnLive, OnCell, InBlock, Booting, Scanning, Calling, Deleting, Formatting, PowerFail, flash
  <2>2. ASSUME ~gcCut PROVE hdr' = hdr
    <3>1. pc = "erase" => hdr[cur[1]] = NoState
      BY <1>6, <2>2, FormatsUnread DEF Formatting, RunInv
    <3> QED
      BY <1>4, <3>1 DEF StoreInv, LayoutInv, TypeOK
  <2>3. ASSUME ~gcCut
        PROVE  /\ \A c \in Blocks : hdr'[c] = "CLEAN" /\ Doomed(c)' => Empty(log'[c])
               /\ \A k \in Keys : \A p \in Kept(k) : CellAt(p).crc => \E q \in Kept(k)' : CellAt(q)'.crc
    <3>1. /\ \A k : Kept(k)' = Kept(k)
          /\ \A c : Doomed(c)' <=> Doomed(c)
          /\ \A p : CellAt(p)' = CellAt(p)
      BY <2>1, <2>2, <2>3, KeptFrame
    <3>2. \A c \in Blocks : hdr[c] = "CLEAN" /\ Doomed(c) => Empty(log[c])
      BY <1>6, <2>3 DEF LossInv
    <3> QED
      BY <2>1, <2>2, <2>3, <3>1, <3>2
  <2> QED
    BY <1>1, <1>2, <1>5, <1>6, <2>3, LossFrame
<1>7. CASE ~Booting /\ gcCut'
  BY <1>2, <1>5, <1>7 DEF LossInv
<1>8. CASE ~Booting /\ ~gcCut'
  <2>1. /\ \A k : \A p \in Seen(k) : p \in Kept(k)' /\ CellAt(p)' = CellAt(p)
        /\ \A c \in Blocks : hdr'[c] = "CLEAN" /\ Doomed(c)' => Empty(log'[c])
    BY <1>8, RunFail
  <2>2. ASSUME NEW k \in Keys PROVE NoVal \in want'[k] \/ \E p \in Kept(k)' : CellAt(p)'.crc
    <3>1. CASE Seen(k) = {}
      BY <1>1, <1>8, <3>1 DEF RunInv, Wanted
    <3>2. ASSUME NEW p \in Seen(k) PROVE p \in Kept(k)' /\ CellAt(p)'.crc
      BY <1>8, <2>1, SeenPairs
    <3> QED
      BY <3>1, <3>2
  <2>3. \A c \in Blocks : hdr'[c] = "CLEAN" /\ Doomed(c)' => Empty(log[c])'
    BY <2>1 DEF Empty
  <2> QED
    BY <1>2, <1>5, <2>2, <2>3 DEF LossInv
<1> QED
  BY <1>6, <1>7, <1>8

\* Every step keeps it as long as the collector has its block.
LEMMA LossStep ==
  ASSUME StoreInv, RunInv, BootInv, LossInv, ReserveHeld, Next
  PROVE  LossInv'
<1>1. CASE PowerFail
  BY <1>1, FailLoss
<1>2. CASE (~Booting /\ (Operation \/ Progress)) \/ ChooseWritePos
  <2>1. ~Booting'
    <3>1. CASE ChooseWritePos
      BY <3>1 DEF ChooseWritePos, Return, Booting, Scanning, Calling, Deleting, Formatting
    <3> QED
      BY <1>2, <3>1, RunStays
  <2>2. ~gcCut'
    <3>1. CASE ChooseWritePos
      BY <3>1 DEF ChooseWritePos
    <3>2. CASE ~Booting /\ Operation
      BY <3>2 DEF Operation, ItemSet, ItemDelete, DeleteByPrefix, GcStart, hist, LossInv
    <3>3. CASE ~Booting /\ Progress /\ ~ChooseWritePos
      BY <3>3 DEF LossInv, Progress, CalcFull, CalcSkip, CalcTake, ItemStore, ItemDel, ItemDelDirty, Ack, SkipGarbage,
             PrefixItem, PrefixNextBlock, BlockErase, BlockFormat, GcCopy, GcCopied, GcMark,
             ScanHeader, ScanItem, ScanEnd, ScanNext, UncleanBlock, UncleanDone, hist
    <3> QED
      BY <1>2, <3>1, <3>2, <3>3
  <2>3. ~Calling(Formatting, "choose")'
    BY <2>1 DEF Booting
  <2> QED
    BY <2>1, <2>2, <2>3 DEF LossInv
<1>3. CASE Booting /\ (Operation \/ Progress) /\ ~ChooseWritePos
  <2>1. ~Operation
    BY <1>3 DEF Operation, ItemSet, ItemDelete, DeleteByPrefix, GcStart, Booting, Scanning, Calling, Deleting, Formatting
  <2>2. HeaderOk
    BY DEF RunInv
  <2>3. CASE ItemDel \/ ItemDelDirty \/ SkipGarbage \/ BlockErase \/ BlockFormat
    BY <1>3, <2>2, <2>3, DelLoss, DirtyLoss, EraseLoss, FormatLoss
  <2>4. CASE ScanHeader \/ ScanItem \/ ScanEnd \/ ScanNext \/ UncleanBlock \/ UncleanDone
    BY <2>2, <2>4, ScanLoss, ScanItemLoss, UncleanLoss
  <2> QED
    BY <1>3, <2>1, <2>3, <2>4, RunOnly DEF Progress
<1> QED
  BY <1>1, <1>2, <1>3 DEF Next

LEMMA LossStutter ==
  ASSUME LossInv, UNCHANGED vars
  PROVE  LossInv'
<1>1. UNCHANGED <<hdr, log, pc, ret, op, cur, want, gcCut>>
  BY DEF vars
<1>2. /\ \A k : Kept(k)' = Kept(k)
      /\ \A b : (Doomed(b)' <=> Doomed(b)) /\ (Spare(b)' <=> Spare(b))
      /\ \A p : CellAt(p)' = CellAt(p)
  BY <1>1, KeptFrame
<1>3. (Booting' <=> Booting) /\ \A q : Condemned(q)' <=> Condemned(q)
  BY <1>1 DEF Condemned, Booting, Scanning, Calling
<1>4. \A b : Empty(log[b])' <=> Empty(log[b])
  BY <1>1 DEF Empty
<1> QED
  BY <1>1, <1>2, <1>3, <1>4 DEF LossInv, Calling

LEMMA LossStart ==
  ASSUME Init
  PROVE  LossInv
<1>1. /\ hdr = [b \in Blocks |-> NoState] /\ pc = "scan" /\ gcCut = FALSE /\ want = [k \in Keys |-> {NoVal}]
  BY DEF Init
<1>2. 0 \in Blocks
  BY KVAssumption DEF Blocks
<1>3. \A b \in Blocks : Spare(b) /\ hdr[b] # "CLEAN"
  BY <1>1 DEF Spare, NoState
<1>4. ~Calling(Formatting, "choose") /\ ~Calling(Formatting, "unclean") /\ \A p : ~Condemned(p)
  BY <1>1 DEF Calling, Formatting, Condemned
<1> QED
  BY <1>1, <1>2, <1>3, <1>4 DEF LossInv

\* As long as the collector's block is there whenever kv_init is not running,
\* recovery gives back every value that was acknowledged, unless the power failed
\* during the copying of a collection.  The theorem holds for any number of blocks:
\* what kv_init can lose otherwise is the first block, which it formats when none
\* is CLEAN.
THEOREM NothingIsLostWithReserve == Spec /\ []ReserveHeld => []DurableOutsideGc
<1>1. Init => LossInv
  BY LossStart
<1>2. StoreInv /\ RunInv /\ BootInv /\ LossInv /\ ReserveHeld /\ [Next]_vars => LossInv'
  BY LossStep, LossStutter
<1>3. StoreInv /\ RunInv /\ BootInv /\ LossInv => DurableOutsideGc
  <2> SUFFICES ASSUME StoreInv, RunInv, BootInv, LossInv, ~gcCut, pc \in {"choose", "idle"}, NEW k \in Keys
               PROVE  Value(k) \in want[k]
    BY DEF DurableOutsideGc, Durable
  <2>1. \A p \in Found(k) : CellAt(p).crc /\ CellAt(p).val \in want[k]
    BY IdleFound, Recovered DEF RunInv
  <2>2. CASE Found(k) # {}
    BY <2>1, <2>2, SearchFound
  <2>3. CASE Found(k) = {}
    <3>1. CASE pc = "idle"
      <4>1. ~Booting /\ Seen(k) = {}
        BY <2>3, <3>1, IdleFound
      <4>2. NoVal \in want[k]
        BY <4>1 DEF RunInv, Wanted
      <4> QED
        BY <2>3, <4>2, SearchFound
    <3>2. CASE pc = "choose"
      <4>1. Booting /\ Kept(k) = {}
        BY <2>3, <3>2, Recovered DEF RunInv, Booting
      <4>2. NoVal \in want[k]
        BY <4>1 DEF LossInv
      <4> QED
        BY <2>3, <4>2, SearchFound
    <3> QED
      BY <3>1, <3>2
  <2> QED
    BY <2>2, <2>3
<1> QED
  BY <1>1, <1>2, <1>3, BookkeepingIsExact, RecoveryIsSound, PTL DEF Spec, RecoveryInv

\* In a store of two blocks nothing that was acknowledged is lost by any number of
\* power failures that hit kv_item_store, kv_item_del, kv_block_format or kv_init
\* itself, anything but the copying of kv_gc_task.
THEOREM NothingIsLost ==
  ASSUME NB = KV_RESERVED_BLOCKS + 1
  PROVE  Spec => []DurableOutsideGc
<1>1. ReserveInv => ReserveHeld
  BY DEF ReserveInv
<1> QED
  BY <1>1, ReserveAlways, NothingIsLostWithReserve, PTL
=============================================================================
