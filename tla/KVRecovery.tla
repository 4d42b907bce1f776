----------------------------- MODULE KVRecovery -----------------------------
(***************************************************************************)
(* The invariants of KVStore about what its items mean: which live items   *)
(* count while an operation, a collection or a recovery is under way, and  *)
(* how their values relate to what the callers were promised.              *)
(***************************************************************************)
EXTENDS KVLayout

(***************************************************************************)
(* With two blocks nothing but the collector and kv_init changes           *)
(* clean_blk_nums: the loop of kv_calc_position is compiled out.  The      *)
(* collector then has its block whenever kv_init is not running.           *)
(***************************************************************************)
ReserveHeld == ~Booting => clean >= KV_RESERVED_BLOCKS

ReserveInv ==
  /\ pc # "calc"
  /\ ReserveHeld
  /\ pc = "gcmark" => clean >= KV_RESERVED_BLOCKS + 1

(***************************************************************************)
(* The live items of a key that count: those kv_item_search reads, and     *)
(* between the erase of a collected block and the mark of the other the    *)
(* copies in that other.                                                   *)
(***************************************************************************)
Shown(b) == state[b] # "CLEAN" \/ (Moved /\ b = wpos[1])
Seen(k)  == {q \in Pos : IsLive(q[1], q[2], k) /\ Shown(q[1])}

\* kv_item_set between the write of the new item and the mark of the old one.
Updating(k) == pc = "del" /\ ret = "ack" /\ op.val # NoVal /\ k = op.key

Single ==
  \A k \in Keys :
    IF Updating(k)
      THEN \E n \in Seen(k) : n # op.old /\ CellAt(n).val = op.val /\ Seen(k) = {op.old, n}
      ELSE \A p, q \in Seen(k) : p = q

\* kv_init finds a flash that has never been used.
BootEmpty == Booting => \A b \in Blocks : Empty(log[b])

\* What the operation under way knows about the items of its key.
CallOk ==
  /\ pc = "idle" \/ Booting \/ Collecting => op = NoOp
  /\ Prefixing => op.val = NoVal
  /\ pc = "gcmark" => ret = "gcmark"
  /\ pc \in {"calc", "store"} =>
       \/ op.old = NoPos /\ Seen(op.key) = {}
       \/ op.old \in Seen(op.key) /\ CellAt(op.old).val # op.val
  /\ pc = "del" => op.old \in Seen(CellAt(op.old).key)
  /\ pc = "del" /\ ret = "ack" => CellAt(op.old).key = op.key
  /\ pc = "del" /\ ret = "prefix" => CellAt(op.old).key \in op.sel
  /\ pc = "ack" \/ Calling({"dirty"}, "ack") =>
       IF op.val = NoVal THEN Seen(op.key) = {} ELSE \E p \in Seen(op.key) : CellAt(p).val = op.val

\* The prefix delete leaves nothing it selects behind its cursor.
Cleared ==
  Prefixing =>
    \A k \in op.sel : \A p \in Seen(k) :
      \/ pc = "del" /\ p = op.old
      \/ p[1] > cur[1]
      \/ p[1] = cur[1] /\ p[2] >= cur[2]

\* The collector has copied the live items of its block up to its cursor, and
\* nothing else.
Copying   == pc = "gccopy" \/ Calling({"erase"}, "gcmark")
Source(k) == {p \in Pos : p[1] = cur[1] /\ IsLive(p[1], p[2], k) /\ (pc = "gccopy" => p[2] < cur[2])}
Copies(k) == {p \in Pos : p[1] = wpos[1] /\ IsLive(p[1], p[2], k)}
Handed(k) == {p \in Seen(k) : p[1] # cur[1]} \union Copies(k)

Copied ==
  Copying =>
    \A k \in Keys :
      /\ \A p \in Source(k) : \E q \in Copies(k) : CellAt(q).val = CellAt(p).val
      /\ \A q \in Copies(k) : \E p \in Source(k) : CellAt(q).val = CellAt(p).val
      /\ \A p, q \in Copies(k) : p = q

\* No cell begins inside another: a traversal meets every cell of its block.
Apart ==
  \A b \in Blocks : \A o, x \in Offs :
    log[b][o] # Erased /\ log[b][x] # Erased /\ o < x => o + CellLen(log[b][o]) <= x

\* Until the power fails for the first time.
Whole  == Single /\ BootEmpty /\ CallOk /\ Cleared /\ Copied /\ Apart
MapInv == crashes = 0 => Whole
-----------------------------------------------------------------------------
(***************************************************************************)
(* What a power failure leaves.  A block without a header is formatted by  *)
(* kv_init; so is the only spare block, whatever it holds, because the     *)
(* copies in it may be incomplete.  The items of the other blocks count.   *)
(***************************************************************************)
Spare(b)  == hdr[b] \in {"CLEAN", NoState}
Doomed(b) == hdr[b] = NoState \/ (hdr[b] = "CLEAN" /\ \A c \in Blocks \ {b} : ~Spare(c))
Full(b)   == hdr[b] = "CLEAN" /\ ~Empty(log[b])
Kept(k)   == {p \in Pos : IsLive(p[1], p[2], k) /\ ~Doomed(p[1])}

\* The headers on the flash are those in RAM.
HeaderOk ==
  /\ pc = "format" \/ Calling({"erase"}, "next") => hdr[cur[1]] = NoState
  /\ \A b \in Blocks \ Unread : ~(pc = "format" /\ b = cur[1]) => hdr[b] = state[b]

\* A collection is only requested when no more than its destination is CLEAN.
Sole == \A b, c \in Blocks : state[b] = "CLEAN" /\ state[c] = "CLEAN" => b = c

\* The blocks kv_calc_position has found full.
Visited ==
  {b \in Blocks : IF cur[1] > wpos[1] THEN b > wpos[1] /\ b < cur[1]
                                     ELSE b > wpos[1] \/ b < cur[1]}

SpareOk ==
  /\ ~Booting /\ gc_trigger /\ pc # "gcmark" => Sole
  /\ Collecting => gc_trigger
  /\ pc = "gcmark" => cur[1] \in Blocks /\ cur[1] # wpos[1] /\ state[cur[1]] = "CLEAN"
  /\ pc = "calc" => \A b \in Visited : state[b] # "CLEAN"

\* Outside recovery no live item is torn, and an update refers to what it replaces.
Sound ==
  ~Booting =>
    /\ \A p \in Pos : CellAt(p).kind = "item" /\ CellAt(p).state = "NORMAL" => CellAt(p).crc
    /\ \A k \in Keys : Updating(k) =>
         \A n \in Seen(k) : n # op.old => CellAt(n).origin_off = op.old

\* The values that a read may return, in terms of the items.
Wanted ==
  ~Booting =>
    /\ \A k \in Keys : \A p \in Seen(k) : CellAt(p).val \in want[k]
    /\ \A k \in Keys : Seen(k) = {} => NoVal \in want[k]
    /\ pc \in {"calc", "store"} \/ Calling({"del"}, "ack") => op.val \in want[op.key]
    /\ Prefixing => \A k \in op.sel : NoVal \in want[k]

RunInv == HeaderOk /\ Apart /\ SpareOk /\ Sound /\ Wanted /\ (~Booting => Whole)

(***************************************************************************)
(* Recovery.  The scan has still to come to p.                             *)
(***************************************************************************)
Ahead(p) ==
  \/ Scanning /\ (p[1] > cur[1] \/ (p[1] = cur[1] /\ p[2] >= cur[2]))
  \/ (pc = "next" \/ Calling(Formatting, "next")) /\ p[1] > cur[1]

Condemned(p) == Calling({"del"}, "scan") /\ p = op.old

\* n is the update of o, and the scan will remove one of them or is about to.
Tied(n, o) ==
  /\ CellAt(n).origin_off = o /\ CellAt(o).crc
  /\ Ahead(n) \/ Condemned(n) \/ Condemned(o)

BootInv ==
  Booting =>
    /\ \A b, c \in Blocks : Full(b) /\ Full(c) => b = c
    /\ \A b \in unclean : ~Empty(log[b])
    /\ Calling({"erase"}, "unclean") => Spare(cur[1])
    /\ \A k \in Keys : \A p, q \in Kept(k) : p = q \/ Tied(p, q) \/ Tied(q, p)
    /\ \A k \in Keys : \A p \in Kept(k) : CellAt(p).crc \/ Ahead(p) \/ Condemned(p)
    /\ \A k \in Keys : \A p \in Kept(k) : CellAt(p).crc => CellAt(p).val \in want[k]

\* Wherever the power fails during kv_item_store, kv_item_del, kv_gc_task,
\* kv_block_format or kv_init, what is on the flash can be repaired: two live items
\* of a key that will be kept are an update and what it replaces, linked by origin_off,
\* and as long as kv_init has not removed one of them it has still to come to it.
RecoveryInv == RunInv /\ BootInv

(***************************************************************************)
(* Nothing is lost when the power did not fail during the copying, as long *)
(* as a block is left CLEAN whenever kv_init is not running.               *)
(***************************************************************************)
LossInv ==
  /\ Booting => \E b \in Blocks : Spare(b)
  /\ ~Calling(Formatting, "choose")
  /\ ~Booting => ~gcCut
  /\ Booting /\ ~gcCut =>
       /\ ~Calling(Formatting, "unclean")
       /\ \A b \in Blocks : hdr[b] = "CLEAN" /\ Doomed(b) => Empty(log[b])
       /\ \A k \in Keys : NoVal \in want[k] \/ \E p \in Kept(k) : CellAt(p).crc
       /\ \A k \in Keys : \A p \in Kept(k) : Condemned(p) /\ CellAt(p).crc =>
            \E q \in Kept(k) : q # p /\ CellAt(q).crc
=============================================================================
