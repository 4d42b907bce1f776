------------------------------ MODULE KVStore ------------------------------
(***************************************************************************)
(* The flash key-value store of components/kv/kv.c: an append-only log per *)
(* erase block, a RAM copy of the block headers, garbage collection into   *)
(* one reserved block, and the recovery pass of kv_init.                   *)
(*                                                                         *)
(* Every public operation holds g_kv_mgr.lock from its search to its       *)
(* return, so only one operation is in progress at a time; `pc' is the     *)
(* point it has reached and each action performs at most one write to the  *)
(* flash (the header marks of a search are idempotent and share a step).   *)
(* The power may fail between any two of them, and in the middle   *)
(* of a write or an erase.  The waiting for a running collection that      *)
(* precedes the lock is the subject of module KVGcSync: here a set may     *)
(* start while a collection is requested, because the code tests           *)
(* gc_trigger before it takes the lock.                                    *)
(***************************************************************************)
EXTENDS Integers, FiniteSets

CONSTANTS
  Keys,         \* the keys applications use
  Vals,         \* the values they store
  NoVal,        \* "the key is not stored"
  Prefixes,     \* the sets of keys a prefix may select
  NB,           \* KV_BLOCK_NUMS
  BSize,        \* KV_BLOCK_SIZE, in units of the write alignment
  BHdr,         \* KV_BLOCK_HDR_SIZE
  IHdr,         \* KV_ITEM_HDR_SIZE
  ItemLen,      \* aligned length of an item, by its value
  ItemMax,      \* KV_ITEM_MAX_LEN
  MaxCrashes    \* how many power failures a behaviour may contain

(* kv_init refuses KV_BLOCK_NUMS <= KV_RESERVED_BLOCKS; an item is longer  *)
(* than its header and a maximal one fits in an empty block.               *)
ASSUME KVAssumption ==
  /\ Keys # {} /\ NoVal \notin Vals
  /\ Prefixes \subseteq SUBSET Keys
  /\ NB \in Nat /\ NB > 1
  /\ BHdr \in Nat \ {0} /\ IHdr \in Nat \ {0} /\ BSize \in Nat
  /\ ItemMax \in Nat /\ BHdr + ItemMax < BSize
  /\ ItemLen \in [Vals -> Nat]
  /\ \A v \in Vals : IHdr < ItemLen[v] /\ ItemLen[v] <= ItemMax
  /\ MaxCrashes \in Nat

KV_RESERVED_BLOCKS == 1

Blocks == 0 .. (NB - 1)
Offs   == BHdr .. (BSize - 1)
Pos    == Blocks \X Offs
NoPos  == <<0, 0>>          \* offset 0 holds a block header, never an item
AnyKey == CHOOSE k \in Keys : TRUE

(***************************************************************************)
(* A cell of a block's log is erased (reads as 0xFF), an item, or the      *)
(* unreadable header that an interrupted write leaves.                     *)
(***************************************************************************)
Erased == [kind |-> "erased"]
Junk   == [kind |-> "junk"]
Item   == [kind : {"item"}, key : Keys, val : Vals, state : {"NORMAL", "DELETE"},
           crc : BOOLEAN, origin_off : Pos \union {NoPos}]
Cell   == Item \union {Erased, Junk}

BlockState == {"CLEAN", "USED", "DIRTY"}
NoState    == "NONE"  \* no valid header on flash; not yet scanned in RAM

CellLen(c) == IF c.kind = "item" THEN ItemLen[c.val] ELSE IHdr

VARIABLES
  hdr,         \* flash: the state in each block's header
  log,         \* flash: the cell that starts at each offset of each block
  state,       \* RAM: block_info[].state
  space,       \* RAM: block_info[].space
  clean,       \* RAM: clean_blk_nums
  wpos,        \* RAM: write_pos as <<block, offset>>
  gc_trigger,  \* RAM: a collection has been requested
  pc,          \* where the operation that holds the lock is
  ret,         \* where kv_item_del or kv_block_format returns to
  op,          \* the key, value and superseded position it works on
  cur,         \* the <<block, offset>> its traversal has reached
  unclean,     \* kv_init: the blocks of unclean[]
  want,        \* history: the values a later read of each key may return
  gcCut,       \* history: power failed while a collection held two copies
  crashes      \* number of power failures so far

flash == <<hdr, log>>
ram   == <<state, space, clean, wpos, gc_trigger>>
regs  == <<ret, op, cur, unclean>>
hist  == <<want, gcCut, crashes>>
vars  == <<hdr, log, state, space, clean, wpos, gc_trigger, pc, ret, op, cur,
           unclean, want, gcCut, crashes>>
-----------------------------------------------------------------------------
(* Reading the log.                                                        *)

CellAt(p) == log[p[1]][p[2]]

IsLive(b, o, k) ==
  /\ log[b][o].kind = "item"
  /\ log[b][o].state = "NORMAL"
  /\ log[b][o].key = k

\* What kv_item_traverse reads as the end of L, the log of a block: the first erased
\* cell that ends the chain of items, or the tail too short for a header.
IsEnd(L, o) == o + IHdr < BSize => L[o] = Erased

\* kv_item_search: the first live item of the key, by block and then by
\* offset, in the blocks that are not CLEAN.
Found(k) == {p \in Pos : state[p[1]] # "CLEAN" /\ IsLive(p[1], p[2], k)}

Before(p, q) == p[1] < q[1] \/ (p[1] = q[1] /\ p[2] < q[2])

Search(k) ==
  IF Found(k) = {} THEN NoPos
  ELSE CHOOSE p \in Found(k) : \A q \in Found(k) \ {p} : Before(p, q)

\* What kv_item_get returns.
StoredVal(p) == IF p = NoPos THEN NoVal ELSE CellAt(p).val
Value(k)     == StoredVal(Search(k))

(***************************************************************************)
(* The side effects of the traversals of a search that ends at position p  *)
(* (NoPos: nowhere): a USED block in which a deleted item or junk was      *)
(* passed becomes DIRTY, and the free space of a block that was read to    *)
(* its end is recomputed.                                                  *)
(***************************************************************************)
Passed(b, o, p) == state[b] # "CLEAN" /\ (p = NoPos \/ Before(<<b, o>>, p))

IsGarbage(c) == c.kind = "junk" \/ (c.kind = "item" /\ c.state = "DELETE")

Swept(f, p) ==
  [b \in Blocks |->
     IF state[b] = "USED" /\ \E o \in Offs : Passed(b, o, p) /\ IsGarbage(log[b][o])
       THEN "DIRTY" ELSE f[b]]

Ends(L)   == {BHdr} \union {o + CellLen(L[o]) : o \in {x \in Offs : L[x] # Erased}}
LogEnd(L) == CHOOSE e \in Ends(L) : IsEnd(L, e)

SpaceAsNew(e) == BSize - BHdr              \* seeded fault: not recomputed
SpaceFrom(e) == IF BSize > e THEN BSize - e ELSE IHdr

Measured(p) ==
  [b \in Blocks |-> IF state[b] # "CLEAN" /\ (p = NoPos \/ b < p[1])
                      THEN SpaceFrom(LogEnd(log[b])) ELSE space[b]]

SearchEffects(p) ==
  /\ hdr'   = Swept(hdr, p)
  /\ state' = Swept(state, p)
  /\ space' = Measured(p)
-----------------------------------------------------------------------------
(* Helpers of the write path.                                              *)

HasRoomOrFull(b, n) == space[b] >= n       \* seeded fault: not strict
HasRoom(b, n) == space[b] > n

NextBlock(b) == IF b + 1 = NB THEN 0 ELSE b + 1

NewItemUnlinked(k, v, p) ==                \* seeded fault: origin_off not filled in
  [kind |-> "item", key |-> k, val |-> v, state |-> "NORMAL", crc |-> TRUE,
   origin_off |-> NoPos]

NewItem(k, v, p) ==
  [kind |-> "item", key |-> k, val |-> v, state |-> "NORMAL", crc |-> TRUE,
   origin_off |-> p]

\* The flash write of a cell at write_pos, the advance of write_pos, and the
\* block whose space is charged: write_pos >> KV_BLOCK_SIZE_BITS afterwards.
Program(c) ==
  LET end == wpos[2] + CellLen(c)
      idx == IF end < BSize THEN wpos[1] ELSE wpos[1] + 1
  IN /\ log' = [log EXCEPT ![wpos[1]][wpos[2]] = c]
     /\ wpos' = IF end < BSize THEN <<wpos[1], end>> ELSE <<idx, end - BSize>>
     /\ space' = [space EXCEPT ![idx] = @ - CellLen(c)]

\* kv_set_block_state
SetBlockState(b, s) ==
  /\ hdr'   = [hdr EXCEPT ![b] = s]
  /\ state' = [state EXCEPT ![b] = s]

\* The operation returns and its locals are gone.
NoOp   == [key |-> AnyKey, val |-> NoVal, old |-> NoPos, sel |-> {}]
Return == /\ pc' = "idle" /\ ret' = "idle" /\ op' = NoOp /\ cur' = NoPos
          /\ unclean' = {}
-----------------------------------------------------------------------------
(***************************************************************************)
(* kv_item_set.  The search and the first test of kv_calc_position need no *)
(* write of their own.                                                     *)
(***************************************************************************)
ItemSet(k, v) ==
  LET p == Search(k)
      n == ItemLen[v]
      b == wpos[1]
  IN
  /\ pc = "idle"
  /\ SearchEffects(p)
  /\ \/ /\ StoredVal(p) = v                         \* nothing to update
        /\ want' = [want EXCEPT ![k] = {v}]
        /\ UNCHANGED <<log, clean, wpos, gc_trigger, pc, regs, gcCut, crashes>>
     \/ /\ StoredVal(p) # v
        /\ \/ /\ HasRoom(b, n)
              /\ op' = [NoOp EXCEPT !.key = k, !.val = v, !.old = p]
              /\ gc_trigger' = (gc_trigger \/ (space[b] - n < ItemMax /\ clean <= KV_RESERVED_BLOCKS))
              /\ want' = [want EXCEPT ![k] = @ \union {v}]
              /\ pc' = "store"
              /\ UNCHANGED cur
           \/ /\ ~HasRoom(b, n) /\ NB > KV_RESERVED_BLOCKS + 1
              /\ op' = [NoOp EXCEPT !.key = k, !.val = v, !.old = p]
              /\ cur' = <<wpos[1] + 1, 0>>
              /\ want' = [want EXCEPT ![k] = @ \union {v}]
              /\ pc' = "calc"
              /\ UNCHANGED gc_trigger
           \/ /\ ~HasRoom(b, n) /\ NB <= KV_RESERVED_BLOCKS + 1  \* KV_ERR_NO_SPACE
              /\ gc_trigger' = TRUE
              /\ UNCHANGED <<pc, op, cur, want>>
        /\ UNCHANGED <<log, clean, wpos, ret, unclean, gcCut, crashes>>

\* The loop of kv_calc_position over the other blocks, with i in cur[1]: it
\* ends when i is back at the write block or block i has room.
CalcIndex == IF cur[1] = NB THEN 0 ELSE cur[1]

CalcFull ==                                           \* KV_ERR_NO_SPACE
  /\ pc = "calc" /\ cur[1] = wpos[1]
  /\ gc_trigger' = TRUE
  /\ want' = [want EXCEPT ![op.key] = {StoredVal(op.old)}]
  /\ Return
  /\ UNCHANGED <<flash, state, space, clean, wpos, gcCut, crashes>>

CalcSkip ==
  /\ pc = "calc" /\ cur[1] # wpos[1]
  /\ ~HasRoom(CalcIndex, ItemLen[op.val])
  /\ cur' = <<CalcIndex + 1, 0>>
  /\ UNCHANGED <<flash, ram, pc, ret, op, unclean, hist>>

CalcTake ==
  LET i == CalcIndex IN
  /\ pc = "calc" /\ cur[1] # wpos[1]
  /\ HasRoom(i, ItemLen[op.val])
  /\ wpos' = <<i, BSize - space[i]>>
  /\ IF state[i] = "CLEAN"
       THEN SetBlockState(i, "USED") /\ clean' = clean - 1
       ELSE UNCHANGED <<hdr, state, clean>>
  /\ pc' = "store"
  /\ UNCHANGED <<log, space, gc_trigger, regs, hist>>

ItemStoreOnly ==                           \* seeded fault: the old item stays
  /\ pc = "store"
  /\ Program(NewItem(op.key, op.val, op.old))
  /\ pc' = "ack" /\ ret' = "ack"
  /\ UNCHANGED <<hdr, state, clean, gc_trigger, op, cur, unclean, hist>>

\* kv_item_store writes the item; an update goes on to delete the old one.
ItemStore ==
  /\ pc = "store"
  /\ Program(NewItem(op.key, op.val, op.old))
  /\ pc' = IF op.old = NoPos THEN "ack" ELSE "del"
  /\ ret' = "ack"
  /\ UNCHANGED <<hdr, state, clean, gc_trigger, op, cur, unclean, hist>>

\* kv_item_del marks the item at op.old, then its block if it was USED.
ItemDel ==
  LET b == op.old[1] IN
  /\ pc = "del"
  /\ log' = [log EXCEPT ![b][op.old[2]].state = "DELETE"]
  /\ pc' = IF state[b] = "USED" THEN "dirty" ELSE ret
  /\ UNCHANGED <<hdr, ram, regs, hist>>

ItemDelDirty ==
  /\ pc = "dirty"
  /\ SetBlockState(op.old[1], "DIRTY")
  /\ pc' = ret
  /\ UNCHANGED <<log, space, clean, wpos, gc_trigger, regs, hist>>

\* A set or a delete returns KV_OK to its caller.
Ack ==
  /\ pc = "ack"
  /\ want' = [want EXCEPT ![op.key] = {op.val}]
  /\ Return
  /\ UNCHANGED <<flash, ram, gcCut, crashes>>

\* kv_item_delete
ItemDelete(k) ==
  LET p == Search(k) IN
  /\ pc = "idle"
  /\ SearchEffects(p)
  /\ IF p = NoPos
       THEN UNCHANGED <<pc, ret, op, want>>
       ELSE /\ op' = [NoOp EXCEPT !.key = k, !.old = p]
            /\ want' = [want EXCEPT ![k] = @ \union {NoVal}]
            /\ pc' = "del" /\ ret' = "ack"
  /\ UNCHANGED <<log, clean, wpos, gc_trigger, cur, unclean, gcCut, crashes>>

\* kv_item_delete_by_prefix traverses every block and deletes what matches.
DeleteByPrefix(K) ==
  /\ pc = "idle"
  /\ op' = [NoOp EXCEPT !.sel = K]
  /\ cur' = <<0, BHdr>>
  /\ want' = [k \in Keys |-> IF k \in K THEN want[k] \union {NoVal} ELSE want[k]]
  /\ pc' = "prefix"
  /\ UNCHANGED <<flash, ram, ret, unclean, gcCut, crashes>>
-----------------------------------------------------------------------------
(***************************************************************************)
(* kv_item_traverse, one cell at a time, for the three callers that change *)
(* the store while they walk: the prefix delete, the collector and the     *)
(* recovery scan.                                                          *)
(***************************************************************************)
Walks  == {"prefix", "gccopy", "scan"}
Here   == log[cur[1]][cur[2]]
Stay   == cur' = cur                       \* seeded fault: pos not advanced
Onward == cur' = <<cur[1], cur[2] + CellLen(Here)>>

InBlock(walk) == pc = walk /\ cur[2] # 0
OnCell(walk)  == InBlock(walk) /\ ~IsEnd(log[cur[1]], cur[2])
OnLive(walk)  == OnCell(walk) /\ ~IsGarbage(Here)
OnEnd(walk)   == InBlock(walk) /\ IsEnd(log[cur[1]], cur[2])

\* Deleted items and junk are stepped over; they make a USED block DIRTY.
SkipGarbage ==
  /\ \E walk \in Walks : OnCell(walk)
  /\ IsGarbage(Here)
  /\ Onward
  /\ IF state[cur[1]] = "USED" THEN SetBlockState(cur[1], "DIRTY")
                               ELSE UNCHANGED <<hdr, state>>
  /\ UNCHANGED <<log, space, clean, wpos, gc_trigger, pc, ret, op, unclean, hist>>

\* __item_del_by_prefix_cb
PrefixItem ==
  /\ OnLive("prefix")
  /\ Onward
  /\ IF Here.key \in op.sel
       THEN op' = [op EXCEPT !.old = cur] /\ ret' = "prefix" /\ pc' = "del"
       ELSE UNCHANGED <<op, ret, pc>>
  /\ UNCHANGED <<flash, ram, unclean, hist>>

PrefixNextBlock ==
  /\ OnEnd("prefix")
  /\ space' = [space EXCEPT ![cur[1]] = SpaceFrom(cur[2])]
  /\ IF cur[1] + 1 = NB
       THEN /\ Return
            /\ want' = [k \in Keys |-> IF k \in op.sel THEN {NoVal} ELSE want[k]]
       ELSE cur' = <<cur[1] + 1, BHdr>> /\ UNCHANGED <<pc, ret, op, unclean, want>>
  /\ UNCHANGED <<flash, state, clean, wpos, gc_trigger, gcCut, crashes>>
-----------------------------------------------------------------------------
(* kv_block_format of block cur[1]: an erase and the write of the header.  *)

BlockErase ==
  /\ pc = "erase"
  /\ hdr' = [hdr EXCEPT ![cur[1]] = NoState]
  /\ log' = [log EXCEPT ![cur[1]] = [o \in Offs |-> Erased]]
  /\ pc' = "format"
  /\ UNCHANGED <<ram, regs, hist>>

BlockFormatUncounted ==                    \* seeded fault: clean_blk_nums kept
  /\ pc = "format"
  /\ SetBlockState(cur[1], "CLEAN")
  /\ space' = [space EXCEPT ![cur[1]] = BSize - BHdr]
  /\ pc' = ret
  /\ UNCHANGED <<log, clean, wpos, gc_trigger, regs, hist>>

BlockFormat ==
  /\ pc = "format"
  /\ SetBlockState(cur[1], "CLEAN")
  /\ space' = [space EXCEPT ![cur[1]] = BSize - BHdr]
  /\ clean' = clean + 1
  /\ pc' = ret
  /\ UNCHANGED <<log, wpos, gc_trigger, regs, hist>>
-----------------------------------------------------------------------------
(***************************************************************************)
(* kv_gc_task.  The copies go to the first CLEAN block; the source is the  *)
(* first DIRTY block after the write block, which comes last itself.       *)
(***************************************************************************)
CleanBlocks == {b \in Blocks : state[b] = "CLEAN"}
DirtyBlocks == {b \in Blocks : state[b] = "DIRTY"}
Distance(b) == IF b > wpos[1] THEN b - wpos[1] ELSE b + NB - wpos[1]

GcStart ==
  /\ pc = "idle" /\ gc_trigger
  /\ \/ /\ clean = 0 \/ CleanBlocks = {} \/ DirtyBlocks = {}
        /\ gc_trigger' = FALSE
        /\ UNCHANGED <<wpos, cur, pc>>
     \/ /\ clean # 0 /\ CleanBlocks # {} /\ DirtyBlocks # {}
        /\ \E d \in CleanBlocks, s \in DirtyBlocks :
             /\ \A b \in CleanBlocks : d <= b
             /\ \A b \in DirtyBlocks : Distance(s) <= Distance(b)
             /\ wpos' = <<d, BHdr>>
             /\ cur' = <<s, BHdr>>
        /\ pc' = "gccopy"
        /\ UNCHANGED gc_trigger
  /\ UNCHANGED <<flash, state, space, clean, ret, op, unclean, hist>>

\* __item_gc_cb
GcCopy ==
  /\ OnLive("gccopy")
  /\ Program(Here)
  /\ Onward
  /\ UNCHANGED <<hdr, state, clean, gc_trigger, pc, ret, op, unclean, hist>>

GcCopied ==
  /\ OnEnd("gccopy")
  /\ space' = [space EXCEPT ![cur[1]] = SpaceFrom(cur[2])]
  /\ pc' = "erase" /\ ret' = "gcmark"
  /\ UNCHANGED <<flash, state, clean, wpos, gc_trigger, op, cur, unclean, hist>>

GcMarkUncounted ==                         \* seeded fault: clean_blk_nums kept
  /\ pc = "gcmark"
  /\ SetBlockState(wpos[1], "USED")
  /\ gc_trigger' = FALSE
  /\ Return
  /\ UNCHANGED <<log, space, clean, wpos, hist>>

GcMarkForgotten ==                         \* seeded fault: the block stays CLEAN
  /\ pc = "gcmark"
  /\ clean' = clean - 1
  /\ gc_trigger' = FALSE
  /\ Return
  /\ UNCHANGED <<flash, state, space, wpos, hist>>

GcMark ==
  /\ pc = "gcmark"
  /\ SetBlockState(wpos[1], "USED")
  /\ clean' = clean - 1
  /\ gc_trigger' = FALSE
  /\ Return
  /\ UNCHANGED <<log, space, wpos, hist>>
-----------------------------------------------------------------------------
(***************************************************************************)
(* kv_init.  kv_init_internal scans the blocks in order: a block without a *)
(* valid header is formatted, the others are traversed with                *)
(* __item_recovery_cb.  cur[2] = 0 stands for "header not read yet".       *)
(***************************************************************************)
ScanHeader ==
  /\ pc = "scan" /\ cur[2] = 0
  /\ IF hdr[cur[1]] = NoState
       THEN pc' = "erase" /\ ret' = "next" /\ UNCHANGED <<cur, state>>
       ELSE /\ state' = [state EXCEPT ![cur[1]] = hdr[cur[1]]]
            /\ cur' = <<cur[1], BHdr>>
            /\ UNCHANGED <<pc, ret>>
  /\ UNCHANGED <<flash, space, clean, wpos, gc_trigger, op, unclean, hist>>

\* __item_recovery_cb: an item that fails its crc is deleted; a good one
\* deletes what is left at its origin_off if that is a live item of its key.
OriginIgnored(c, p) == FALSE               \* seeded fault: origin_off not followed

Superseded(c, p) ==
  /\ c.crc /\ c.origin_off # NoPos /\ c.origin_off # p
  /\ IsLive(c.origin_off[1], c.origin_off[2], c.key)

ScanItem ==
  /\ OnLive("scan")
  /\ Onward
  /\ \/ /\ ~Here.crc
        /\ op' = [op EXCEPT !.old = cur] /\ ret' = "scan" /\ pc' = "del"
     \/ /\ Superseded(Here, cur)
        /\ op' = [op EXCEPT !.old = Here.origin_off] /\ ret' = "scan" /\ pc' = "del"
     \/ /\ Here.crc /\ ~Superseded(Here, cur)
        /\ UNCHANGED <<op, ret, pc>>
  /\ UNCHANGED <<flash, ram, unclean, hist>>

\* A CLEAN block that holds data is left for the second pass.
ScanEnd ==
  LET b == cur[1] IN
  /\ OnEnd("scan")
  /\ space' = [space EXCEPT ![b] = SpaceFrom(cur[2])]
  /\ LET empty == space'[b] = BSize - BHdr IN
       /\ unclean' = IF state[b] = "CLEAN" /\ ~empty THEN unclean \union {b} ELSE unclean
       /\ clean' = IF state[b] = "CLEAN" /\ empty THEN clean + 1 ELSE clean
  /\ pc' = "next"
  /\ UNCHANGED <<flash, state, wpos, gc_trigger, ret, op, cur, hist>>

ScanNext ==
  /\ pc = "next"
  /\ IF cur[1] + 1 = NB THEN pc' = "unclean" /\ UNCHANGED cur
                        ELSE pc' = "scan" /\ cur' = <<cur[1] + 1, 0>>
  /\ UNCHANGED <<flash, ram, ret, op, unclean, hist>>

SparesLeft == clean > KV_RESERVED_BLOCKS   \* seeded fault: not met by the reserve
ReserveMet == clean >= KV_RESERVED_BLOCKS

\* The second pass, from the last unclean block to the first: the block is
\* kept as DIRTY when enough clean blocks exist, and formatted when not.
UncleanBlock ==
  \E b \in unclean :
    /\ pc = "unclean"
    /\ \A c \in unclean : c <= b
    /\ unclean' = unclean \ {b}
    /\ IF ReserveMet
         THEN SetBlockState(b, "DIRTY") /\ UNCHANGED <<pc, ret, cur>>
         ELSE /\ cur' = <<b, 0>> /\ ret' = "unclean" /\ pc' = "erase"
              /\ UNCHANGED <<hdr, state>>
    /\ UNCHANGED <<log, space, clean, wpos, gc_trigger, op, hist>>

\* Without any clean block the first block is formatted.
UncleanDone ==
  /\ pc = "unclean" /\ unclean = {}
  /\ IF clean = 0 THEN pc' = "erase" /\ ret' = "choose" /\ cur' = <<0, 0>>
                  ELSE pc' = "choose" /\ UNCHANGED <<ret, cur>>
  /\ UNCHANGED <<flash, ram, op, unclean, hist>>

\* The write position is chosen, and a collection requested when the write
\* block is nearly full.
WriteBlocks == {b \in Blocks : state[b] \in {"USED", "DIRTY"} /\ state[NextBlock(b)] = "CLEAN"}

ChooseWritePos ==
  /\ pc = "choose"
  /\ \/ /\ clean = NB
        /\ wpos' = <<0, BHdr>>
        /\ SetBlockState(0, "USED")
        /\ clean' = clean - 1
     \/ /\ clean # NB
        /\ wpos' = IF WriteBlocks = {} THEN NoPos
                   ELSE LET b == CHOOSE x \in WriteBlocks : \A y \in WriteBlocks : x <= y
                        IN <<b, BSize - space[b]>>
        /\ UNCHANGED <<hdr, state, clean>>
  /\ gc_trigger' = (space[wpos'[1]] < ItemMax /\ clean' < KV_RESERVED_BLOCKS + 1)
  /\ want' = [k \in Keys |-> {Value(k)}]
  /\ gcCut' = FALSE
  /\ Return
  /\ UNCHANGED <<log, space, crashes>>
-----------------------------------------------------------------------------
(***************************************************************************)
(* The power fails and comes back: the RAM is lost and kv_init starts.  An *)
(* item being written may be left with an unreadable header or a body that *)
(* fails its crc; an erase being done leaves no valid header.  State bytes *)
(* are single programmed bytes.                                            *)
(***************************************************************************)
Writing == pc = "store" \/ OnLive("gccopy")
Written == IF pc = "store" THEN NewItem(op.key, op.val, op.old) ELSE Here

PowerOn ==
  /\ pc' = "scan" /\ ret' = "idle" /\ op' = NoOp /\ cur' = <<0, 0>> /\ unclean' = {}
  /\ state' = [b \in Blocks |-> NoState]
  /\ space' = [b \in Blocks |-> 0]
  /\ clean' = 0 /\ wpos' = NoPos /\ gc_trigger' = FALSE

PowerFail ==
  /\ crashes < MaxCrashes
  /\ crashes' = crashes + 1
  /\ \/ UNCHANGED flash
     \/ /\ Writing
        /\ \E c \in {Junk, [Written EXCEPT !.crc = FALSE]} :
              log' = [log EXCEPT ![wpos[1]][wpos[2]] = c]
        /\ UNCHANGED hdr
     \/ /\ pc = "erase"
        /\ hdr' = [hdr EXCEPT ![cur[1]] = NoState]
        /\ UNCHANGED log
  /\ gcCut' = (gcCut \/ pc = "gccopy" \/ (pc = "erase" /\ ret = "gcmark"))
  /\ PowerOn
  /\ UNCHANGED want

\* A flash that has never been used: no header is valid.
Init ==
  /\ hdr = [b \in Blocks |-> NoState]
  /\ log = [b \in Blocks |-> [o \in Offs |-> Erased]]
  /\ state = [b \in Blocks |-> NoState]
  /\ space = [b \in Blocks |-> 0]
  /\ clean = 0 /\ wpos = NoPos /\ gc_trigger = FALSE
  /\ pc = "scan" /\ ret = "idle" /\ op = NoOp /\ cur = <<0, 0>> /\ unclean = {}
  /\ want = [k \in Keys |-> {NoVal}]
  /\ gcCut = FALSE /\ crashes = 0

Operation ==
  \/ \E k \in Keys, v \in Vals : ItemSet(k, v)
  \/ \E k \in Keys : ItemDelete(k)
  \/ \E K \in Prefixes : DeleteByPrefix(K)
  \/ GcStart

Progress ==
  \/ CalcFull \/ CalcSkip \/ CalcTake \/ ItemStore \/ ItemDel \/ ItemDelDirty \/ Ack
  \/ SkipGarbage \/ PrefixItem \/ PrefixNextBlock
  \/ BlockErase \/ BlockFormat
  \/ GcCopy \/ GcCopied \/ GcMark
  \/ ScanHeader \/ ScanItem \/ ScanEnd \/ ScanNext
  \/ UncleanBlock \/ UncleanDone \/ ChooseWritePos

Next == Operation \/ Progress \/ PowerFail

Spec == Init /\ [][Next]_vars
FairSpec == Spec /\ WF_vars(Progress)
-----------------------------------------------------------------------------
(* Properties. *)

PCs == {"idle", "calc", "store", "del", "dirty", "ack", "prefix", "gccopy", "erase",
        "format", "gcmark", "scan", "next", "unclean", "choose"}

\* Every variable keeps its type.  The block a cell is written in, the offset
\* of write_pos and the free space of kv_mgr_t.block_info stay inside the flash.
TypeOK ==
  /\ hdr \in [Blocks -> BlockState \union {NoState}]
  /\ log \in [Blocks -> [Offs -> Cell]]
  /\ state \in [Blocks -> BlockState \union {NoState}]
  /\ space \in [Blocks -> 0 .. BSize]
  /\ clean \in Int
  /\ wpos \in Pos \union {NoPos}
  /\ gc_trigger \in BOOLEAN
  /\ pc \in PCs /\ ret \in PCs
  /\ op \in [key : Keys, val : Vals \union {NoVal}, old : Pos \union {NoPos}, sel : SUBSET Keys]
  /\ cur \in (0 .. NB) \X (0 .. BSize)
  /\ unclean \subseteq Blocks
  /\ want \in [Keys -> SUBSET (Vals \union {NoVal})]
  /\ gcCut \in BOOLEAN
  /\ crashes \in 0 .. MaxCrashes

\* Once kv_init has recovered, and between operations ever after, kv_item_get
\* returns the last acknowledged value of a key, or that of an operation the
\* power failure cut short.
Durable == pc \in {"choose", "idle"} => \A k \in Keys : Value(k) \in want[k]

\* The same when no power failure hit the copying of kv_gc_task: wherever else
\* kv_item_store, kv_item_del, kv_block_format or kv_init itself is cut, the
\* recovery loses nothing.
DurableOutsideGc == ~gcCut => Durable

\* No power failure, one during a collection included, makes kv_item_get
\* return a superseded or deleted value, or one whose write was torn.
NoStale ==
  pc \in {"choose", "idle"} =>
    \A k \in Keys : /\ Value(k) \in want[k] \union {NoVal}
                    /\ \A p \in Found(k) : CellAt(p).crc

\* Between operations a key has at most one live item in the blocks that
\* kv_item_search reads, although an update writes the new item before it
\* deletes the old one and a collection copies items before it erases them.
OneCopy == pc = "idle" => \A k \in Keys : Cardinality(Found(k)) <= 1

\* clean_blk_nums counts the CLEAN blocks and these are empty: a collection
\* and kv_calc_position may take any of them as a place to write.
CleanExact ==
  pc = "idle" => /\ clean = Cardinality(CleanBlocks)
                 /\ \A b \in CleanBlocks, o \in Offs : log[b][o] = Erased

\* kv_item_store and __item_gc_cb only program erased flash, behind every
\* cell of the block, and leave its last unit free (so that write_pos
\* never reaches the next block).
WriteErased ==
  Writing => /\ log[wpos[1]][wpos[2]] = Erased
             /\ wpos[2] + CellLen(Written) < BSize
             /\ \A o \in Offs : log[wpos[1]][o] # Erased => o + CellLen(log[wpos[1]][o]) <= wpos[2]

\* KV_RESERVED_BLOCKS blocks stay CLEAN for the collector between operations.
Reserved == pc = "idle" => clean >= KV_RESERVED_BLOCKS

(***************************************************************************)
(* What kv_item_get would return in the middle of an operation: an update  *)
(* counts from the moment its item is on the flash, and between the erase  *)
(* of the collected block and GcMark the items are in the block that is    *)
(* still marked CLEAN.                                                     *)
(***************************************************************************)
Moved == pc \in {"format", "gcmark"} /\ ret = "gcmark"

Visible(k) ==
  {CellAt(p).val : p \in {q \in Pos :
     IsLive(q[1], q[2], k) /\ (state[q[1]] # "CLEAN" \/ (Moved /\ q[1] = wpos[1]))}}

Lookup(k) ==
  IF pc = "del" /\ ret = "ack" /\ op.val # NoVal /\ k = op.key THEN op.val
  ELSE IF Visible(k) = {} THEN NoVal ELSE CHOOSE v \in Visible(k) : TRUE

Map == INSTANCE KVMap WITH
  dict <- [k \in Keys |-> Lookup(k)],
  req  <- [keys |-> IF pc \in {"calc", "store", "ack"} \/ (pc \in {"del", "dirty"} /\ ret = "ack")
                      THEN {op.key} ELSE op.sel,
           val  |-> op.val],
  up   <- crashes = 0

\* As long as the power stays on, the store is the map of kv_api.h: neither a
\* collection nor a change of the write block in kv_calc_position alters what
\* is read, and a call that fails for lack of space has changed nothing.
ImplementsMap == Map!Spec

\* Every operation that takes the lock returns, and kv_init comes to an end.
Returns == (pc # "idle") ~> (pc = "idle")
============================================================================
