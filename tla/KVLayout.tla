------------------------------ MODULE KVLayout ------------------------------
(***************************************************************************)
(* The inductive invariant of KVStore: how the cells of a block are laid   *)
(* out, which blocks' RAM bookkeeping agrees with the flash at each point  *)
(* of each operation, and where the cursor and write_pos stand.            *)
(***************************************************************************)
EXTENDS KVStore

Empty(L)  == \A o \in Offs : L[o] = Erased
IsItem(p) == p \in Pos /\ log[p[1]][p[2]].kind = "item"

\* The cells of the log L of a block are written one behind the other and end at e: every
\* cell but the last is followed by another.
Packed(L, e) ==
  /\ e \in Offs /\ e \in Ends(L)
  /\ \A x \in Ends(L) : x # e => x \in Offs /\ L[x] # Erased
  /\ \A o \in Offs : L[o] # Erased => o + IHdr < BSize /\ o + CellLen(L[o]) <= e

\* kv_item_del and kv_block_format are shared: these are their callers.
Calling(sub, caller) == pc \in sub /\ ret = caller
Deleting   == {"del", "dirty"}
Formatting == {"erase", "format"}

Scanning   == pc = "scan" \/ Calling(Deleting, "scan")
Prefixing  == pc = "prefix" \/ Calling(Deleting, "prefix")
Booting    == \/ Scanning \/ pc \in {"next", "unclean", "choose"}
              \/ \E r \in {"next", "unclean", "choose"} : Calling(Formatting, r)
Collecting == pc \in {"gccopy", "gcmark"} \/ Calling(Formatting, "gcmark")

\* Blocks whose block_info[].space is not meaningful: not yet scanned by
\* kv_init, or erased and about to be formatted.
Unmeasured ==
  {b \in Blocks : \/ (Scanning \/ Calling(Formatting, "next")) /\ b >= cur[1]
                  \/ pc = "next" /\ b > cur[1]
                  \/ pc = "format" /\ b = cur[1]}

\* CLEAN blocks that clean_blk_nums does not count yet.
Uncounted ==
  unclean \union {b \in Blocks : b = cur[1] /\ (Scanning \/ Calling(Formatting, "unclean"))}

Counted == {b \in Blocks : state[b] = "CLEAN"} \ Uncounted

\* Where control may be, and what kv_item_del and kv_block_format return to.
ControlOk ==
  /\ pc \in Deleting => ret \in {"ack", "prefix", "scan"} /\ op.old \in Pos
  /\ pc = "del" => IsItem(op.old)
  /\ pc = "dirty" => state[op.old[1]] = "USED"
  /\ pc \in Formatting => ret \in {"gcmark", "next", "unclean", "choose"}
  /\ pc \in {"calc", "store"} => op.val \in Vals /\ (op.old = NoPos \/ IsItem(op.old))

\* The cursor of a traversal is at the start of its block or behind a cell.
CursorOk ==
  /\ pc \in Walks \union Formatting \union {"next"} \/ Calling(Deleting, "prefix") \/ Scanning
       => cur[1] \in Blocks
  /\ Prefixing \/ pc = "gccopy" => cur[2] \in Ends(log[cur[1]])
  /\ Scanning => cur[2] = 0 \/ cur[2] \in Ends(log[cur[1]])
  /\ Calling(Deleting, "scan") => cur[2] # 0
  /\ Scanning \/ Calling(Formatting, "next") =>
       \A b \in Blocks : b > cur[1] \/ (b = cur[1] /\ (cur[2] = 0 \/ pc \in Formatting)) => state[b] = NoState
  /\ pc = "next" => \A b \in Blocks : b > cur[1] => state[b] = NoState
  /\ pc \in Formatting /\ ret # "unclean" => state[cur[1]] # "CLEAN"

\* kv_init notes the CLEAN blocks that hold data while it scans.
UncleanOk ==
  /\ \A b \in unclean : state[b] = "CLEAN"
  /\ Scanning \/ Calling(Formatting, "next") => \A b \in unclean : b < cur[1]
  /\ pc = "next" => \A b \in unclean : b <= cur[1]
  /\ Calling(Formatting, "unclean") => cur[1] \notin unclean
  /\ unclean # {} => \/ Scanning \/ pc \in {"next", "unclean"}
                     \/ Calling(Formatting, "next") \/ Calling(Formatting, "unclean")

PackedLogs == \A b \in Blocks : \E e \in Offs : Packed(log[b], e)

SpaceExact == \A b \in Blocks \ Unmeasured : Packed(log[b], BSize - space[b])

WritePosOk ==
  /\ ~Booting => /\ wpos \in Pos /\ Packed(log[wpos[1]], wpos[2])
                 /\ ~Collecting => state[wpos[1]] # "CLEAN"
  /\ pc = "store" => wpos[2] + ItemLen[op.val] < BSize

\* The destination of a collection never overtakes its source.
CollectOk ==
  Collecting =>
    /\ state[wpos[1]] = "CLEAN"
    /\ pc # "gcmark" => cur[1] # wpos[1]
    /\ pc = "gccopy" => wpos[2] <= cur[2] /\ state[cur[1]] # "CLEAN"

CleanEmpty ==
  /\ pc = "format" => Empty(log[cur[1]])
  /\ \A b \in Blocks :
       state[b] = "CLEAN" =>
         \/ Empty(log[b]) \/ b \in Uncounted
         \/ Collecting /\ b = wpos[1]

CountOk ==
  /\ clean = Cardinality(Counted)
  /\ pc = "choose" => clean # 0
  /\ Calling(Formatting, "choose") => Counted = {}

(* The RAM headers, the space of each block, clean_blk_nums and write_pos  *)
(* describe the flash at every step of every operation.                    *)
LayoutInv ==
  /\ TypeOK /\ ControlOk /\ CursorOk /\ UncleanOk /\ PackedLogs /\ SpaceExact
  /\ WritePosOk /\ CollectOk /\ CleanEmpty /\ CountOk

\* Blocks whose header kv_init has not read yet.
Unread ==
  {b \in Blocks : \/ Scanning /\ (b > cur[1] \/ (b = cur[1] /\ cur[2] = 0))
                  \/ Calling(Formatting, "next") /\ b >= cur[1]
                  \/ pc = "next" /\ b > cur[1]}

HeadersRead == \A b \in Blocks \ Unread : state[b] # NoState

\* At every step of every operation of kv.c the RAM tables of kv_mgr_t (state, space,
\* clean_blk_nums, write_pos) describe what is on the flash, and kv_init rebuilds them
\* from the headers it has read.
StoreInv == LayoutInv /\ HeadersRead
=============================================================================
