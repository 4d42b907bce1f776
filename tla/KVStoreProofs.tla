---------------------------- MODULE KVStoreProofs ----------------------------
(***************************************************************************)
(* Proofs about KVStore, for any number of blocks, any geometry and any    *)
(* number of power failures: LayoutInv is inductive.                       *)
(***************************************************************************)
EXTENDS KVLayout, TLAPS, FiniteSetTheorems, WellFoundedInduction

-----------------------------------------------------------------------------
(* Orders.                                                                 *)

\* A non-empty set of naturals has a least element.
LEMMA NatMin ==
  ASSUME NEW S \in SUBSET Nat, S # {}
  PROVE  \E m \in S : \A x \in S : m <= x
<1>1. IsWellFoundedOn(OpToRel(<, Nat), Nat)
  BY NatLessThanWellFounded
<1>2. PICK m \in S : \A y \in S : ~(<<y, m>> \in OpToRel(<, Nat))
  BY <1>1, WFMin
<1>3. \A y \in S : ~(y < m)
  BY <1>2 DEF OpToRel
<1> QED
  BY <1>3

\* A non-empty set of naturals with an upper bound has a greatest element.
LEMMA NatMax ==
  ASSUME NEW n \in Nat, NEW S \in SUBSET (0 .. n), S # {}
  PROVE  \E m \in S : \A x \in S : x <= m
<1> DEFINE T == {n - x : x \in S}
<1>1. T \in SUBSET Nat /\ T # {}
  <2>1. \A x \in S : x \in 0 .. n /\ n - x \in Nat
    BY SMT
  <2>2. T \subseteq Nat
    BY <2>1
  <2>3. T # {}
    BY Zenon
  <2> QED
    BY <2>2, <2>3
<1>2. PICK t \in T : \A y \in T : t <= y
  BY <1>1, NatMin
<1>3. PICK m \in S : t = n - m
  OBVIOUS
<1>4. ASSUME NEW x \in S PROVE x <= m
  <2>1. n - x \in T
    OBVIOUS
  <2>2. t <= n - x
    BY <2>1, <1>2
  <2> HIDE DEF T
  <2> QED
    BY <2>2, <1>3
<1> QED
  BY <1>4
-----------------------------------------------------------------------------
(* The log of one block.                                                   *)

BlockLog == [Offs -> Cell]

LEMMA Geometry ==
  /\ BHdr \in Offs /\ BHdr \in Nat /\ BHdr > 0 /\ BSize \in Nat /\ IHdr \in Nat /\ IHdr > 0
  /\ Offs \subseteq Nat /\ NB \in Nat /\ NB > 1 /\ Blocks \subseteq Nat
  /\ \A o \in Offs : o > 0 /\ o < BSize
BY KVAssumption DEF Offs, Blocks

LEMMA Complement ==
  ASSUME NEW n \in Offs
  PROVE  /\ BSize - (BSize - n) = n /\ BSize - n \in 0 .. BSize
         /\ (BSize - n = BSize - BHdr) <=> n = BHdr
<1>1. n \in Nat /\ n < BSize /\ BSize \in Nat /\ BHdr \in Nat
  BY Geometry
<1> QED
  BY <1>1

LEMMA CellLenBound ==
  ASSUME NEW c \in Cell
  PROVE  /\ CellLen(c) \in Nat /\ CellLen(c) >= IHdr /\ CellLen(c) > 0
         /\ c.kind = "item" => c \in Item /\ CellLen(c) = ItemLen[c.val] /\ CellLen(c) > IHdr
         /\ c.kind # "item" => c \in {Erased, Junk} /\ CellLen(c) = IHdr
<1>1. CASE c \in Item
  <2>1. c.kind = "item" /\ c.val \in Vals
    BY <1>1 DEF Item
  <2>2. ItemLen[c.val] \in Nat /\ IHdr < ItemLen[c.val] /\ IHdr \in Nat
    BY <2>1, KVAssumption
  <2> QED
    BY <1>1, <2>1, <2>2 DEF CellLen
<1>2. CASE c \in {Erased, Junk}
  <2>1. c.kind # "item"
    BY <1>2 DEF Erased, Junk
  <2> QED
    BY <1>2, <2>1, Geometry DEF CellLen
<1> QED
  BY <1>1, <1>2 DEF Cell

LEMMA EmptyPacked ==
  ASSUME NEW L \in BlockLog, Empty(L)
  PROVE  Packed(L, BHdr) /\ Ends(L) = {BHdr}
<1>1. Ends(L) = {BHdr}
  BY DEF Ends, Empty
<1> QED
  BY <1>1, Geometry DEF Packed, Empty

\* The end of a packed log is erased, and it is where every traversal ends.
LEMMA PackedEnd ==
  ASSUME NEW L \in BlockLog, NEW e, Packed(L, e)
  PROVE  /\ L[e] = Erased /\ IsEnd(L, e) /\ e \in Offs /\ BHdr <= e
         /\ \A x \in Ends(L) : x \in Offs /\ x <= e
         /\ \A x \in Ends(L) : IsEnd(L, x) => x = e
         /\ LogEnd(L) = e
<1> USE Geometry
<1>1. e \in Offs /\ e \in Nat
  BY DEF Packed
<1>2. L[e] = Erased
  <2>1. SUFFICES ASSUME L[e] # Erased PROVE FALSE
    OBVIOUS
  <2>2. e + CellLen(L[e]) <= e
    BY <2>1, <1>1 DEF Packed
  <2>3. L[e] \in Cell
    BY <1>1 DEF BlockLog
  <2>4. CellLen(L[e]) \in Nat /\ CellLen(L[e]) > 0
    BY <2>3, CellLenBound
  <2> QED
    BY <2>2, <2>4, <1>1
<1>3. IsEnd(L, e)
  BY <1>2 DEF IsEnd
<1>4. ASSUME NEW x \in Ends(L), IsEnd(L, x) PROVE x = e
  <2> SUFFICES ASSUME x # e PROVE FALSE
    OBVIOUS
  <2>1. x \in Offs /\ L[x] # Erased
    BY DEF Packed
  <2>2. x + IHdr < BSize
    BY <2>1 DEF Packed
  <2> QED
    BY <2>1, <2>2, <1>4 DEF IsEnd
<1>5. \A x \in Ends(L) : x \in Offs
  BY <1>1 DEF Packed
<1>6. BHdr <= e
  BY <1>1, KVAssumption DEF Offs
<1>7. ASSUME NEW x \in Ends(L) PROVE x <= e
  <2>1. CASE x = BHdr
    BY <2>1, <1>6
  <2>2. CASE x # BHdr
    <3>1. PICK o \in Offs : L[o] # Erased /\ x = o + CellLen(L[o])
      BY <2>2 DEF Ends
    <3> QED
      BY <3>1 DEF Packed
  <2> QED
    BY <2>1, <2>2
<1>8. LogEnd(L) = e
  <2>1. e \in Ends(L)
    BY DEF Packed
  <2> QED
    BY <2>1, <1>3, <1>4 DEF LogEnd
<1> QED
  BY <1>1, <1>2, <1>3, <1>4, <1>5, <1>6, <1>7, <1>8

LEMMA PackedUnique ==
  ASSUME NEW L \in BlockLog, NEW e, NEW f, Packed(L, e), Packed(L, f)
  PROVE  e = f
BY PackedEnd

\* Writing a cell at the end of a packed log packs it up to the cell's end.
LEMMA PackedGrow ==
  ASSUME NEW L \in BlockLog, NEW e, Packed(L, e), NEW c \in Cell, c # Erased,
         e + CellLen(c) < BSize,
         NEW M, M = [L EXCEPT ![e] = c]
  PROVE  M \in BlockLog /\ Packed(M, e + CellLen(c))
<1> USE Geometry
<1>1. e \in Offs /\ e \in Nat /\ L[e] = Erased
  BY PackedEnd
<1>2. CellLen(c) \in Nat /\ CellLen(c) >= IHdr
  BY CellLenBound
<1>3. M \in BlockLog
  BY <1>1 DEF BlockLog
<1>4. M[e] = c /\ \A o \in Offs : o # e => M[o] = L[o]
  BY <1>1 DEF BlockLog
<1>5. Ends(M) = Ends(L) \union {e + CellLen(c)}
  <2>1. Ends(M) \subseteq Ends(L) \union {e + CellLen(c)}
    BY <1>1, <1>4 DEF Ends
  <2>2. Ends(L) \subseteq Ends(M)
    BY <1>1, <1>4 DEF Ends
  <2>3. e + CellLen(c) \in Ends(M)
    BY <1>1, <1>4 DEF Ends
  <2> QED
    BY <2>1, <2>2, <2>3
<1>6. e + CellLen(c) \in Offs
  BY <1>1, <1>2, KVAssumption DEF Offs
<1>7. ASSUME NEW x \in Ends(M), x # e + CellLen(c) PROVE x \in Offs /\ M[x] # Erased
  <2>1. x \in Ends(L)
    BY <1>7, <1>5
  <2>2. CASE x = e
    BY <2>2, <1>1, <1>4
  <2>3. CASE x # e
    BY <2>1, <2>3, <1>4 DEF Packed
  <2> QED
    BY <2>2, <2>3
<1>8. ASSUME NEW o \in Offs, M[o] # Erased
      PROVE  o + IHdr < BSize /\ o + CellLen(M[o]) <= e + CellLen(c)
  <2>1. CASE o = e
    BY <2>1, <1>1, <1>2, <1>4, KVAssumption
  <2>2. CASE o # e
    <3>1. L[o] # Erased /\ M[o] = L[o]
      BY <2>2, <1>4, <1>8
    <3>2. o + IHdr < BSize /\ o + CellLen(L[o]) <= e
      BY <3>1 DEF Packed
    <3>3. CellLen(L[o]) \in Nat
      BY CellLenBound DEF BlockLog
    <3> QED
      BY <3>1, <3>2, <3>3, <1>1, <1>2
  <2> QED
    BY <2>1, <2>2
<1> QED
  BY <1>3, <1>5, <1>6, <1>7, <1>8 DEF Packed

\* Deleting an item, or any change that keeps the extent of the cells, keeps
\* the log packed.
LEMMA PackedDelete ==
  ASSUME NEW L \in BlockLog, NEW o \in Offs, L[o].kind = "item",
         NEW M, M = [L EXCEPT ![o].state = "DELETE"]
  PROVE  /\ M \in BlockLog /\ Ends(M) = Ends(L) /\ (Empty(M) <=> Empty(L))
         /\ \A e : Packed(L, e) => Packed(M, e)
         /\ M[o].kind = "item"
         /\ \A x \in Offs : M[x].kind = L[x].kind
<1>1. L[o] \in Item
  BY CellLenBound DEF BlockLog
<1>2. M[o] = [L[o] EXCEPT !.state = "DELETE"] /\ \A x \in Offs : x # o => M[x] = L[x]
  BY DEF BlockLog
<1>3. M[o] \in Item /\ M[o].val = L[o].val /\ M[o].kind = "item"
  BY <1>1, <1>2 DEF Item
<1>4. M[o] # Erased /\ L[o] # Erased
  BY <1>3 DEF Erased
<1>5. CellLen(M[o]) = CellLen(L[o])
  BY <1>3 DEF CellLen
<1>6. M \in BlockLog
  BY <1>2, <1>3 DEF BlockLog, Cell
<1>7. \A x \in Offs : (M[x] = Erased <=> L[x] = Erased) /\ CellLen(M[x]) = CellLen(L[x])
  BY <1>2, <1>4, <1>5
<1>8. Ends(M) = Ends(L)
  BY <1>7 DEF Ends
<1>9. Empty(M) <=> Empty(L)
  BY <1>7 DEF Empty
<1>10. ASSUME NEW e, Packed(L, e) PROVE Packed(M, e)
  BY <1>7, <1>8, <1>10 DEF Packed
<1> QED
  BY <1>2, <1>3, <1>6, <1>8, <1>9, <1>10

\* A packed log that ends where it starts is empty.
LEMMA PackedAtStart ==
  ASSUME NEW L \in BlockLog, Packed(L, BHdr)
  PROVE  Empty(L)
<1> SUFFICES ASSUME NEW o \in Offs, L[o] # Erased PROVE FALSE
  BY DEF Empty
<1>1. o + CellLen(L[o]) <= BHdr
  BY DEF Packed
<1>2. CellLen(L[o]) \in Nat /\ CellLen(L[o]) > 0
  BY CellLenBound DEF BlockLog
<1>3. BHdr <= o /\ o \in Nat
  BY KVAssumption DEF Offs
<1> QED
  BY <1>1, <1>2, <1>3, KVAssumption
-----------------------------------------------------------------------------
(* kv_item_search.                                                         *)

LEMMA LexMin ==
  ASSUME NEW S \in SUBSET Pos, S # {}
  PROVE  \E p \in S : \A q \in S \ {p} : Before(p, q)
<1> DEFINE Bs == {p[1] : p \in S}
<1>1. Bs \in SUBSET Nat /\ Bs # {}
  BY Geometry DEF Pos
<1>2. PICK b \in Bs : \A x \in Bs : b <= x
  BY <1>1, NatMin
<1> DEFINE Os == {o \in Offs : <<b, o>> \in S}
<1>3. Os \in SUBSET Nat /\ Os # {}
  <2>1. PICK p \in S : p[1] = b
    BY <1>2
  <2>2. p = <<b, p[2]>> /\ p[2] \in Offs
    BY <2>1 DEF Pos
  <2>3. p[2] \in Os
    BY <2>2
  <2> QED
    BY <2>3, Geometry
<1>4. PICK o \in Os : \A x \in Os : o <= x
  BY <1>3, NatMin
<1>5. <<b, o>> \in S
  BY <1>4
<1>6. ASSUME NEW q \in S \ {<<b, o>>} PROVE Before(<<b, o>>, q)
  <2>1. q = <<q[1], q[2]>> /\ q[1] \in Blocks /\ q[2] \in Offs /\ q \in S
    BY DEF Pos
  <2>2. q[1] \in Bs /\ b <= q[1]
    BY <2>1, <1>2
  <2>3. b \in Nat /\ q[1] \in Nat /\ o \in Nat /\ q[2] \in Nat
    BY <1>1, <1>3, <1>2, <1>4, <2>1, Geometry
  <2>4. CASE q[1] = b
    <3>1. q[2] \in Os
      BY <2>1, <2>4
    <3>2. o <= q[2] /\ o # q[2]
      BY <3>1, <1>4, <2>1, <2>4
    <3> QED
      BY <3>2, <2>3, <2>4 DEF Before
  <2>5. CASE q[1] # b
    BY <2>5, <2>2, <2>3 DEF Before
  <2> QED
    BY <2>4, <2>5
<1> QED
  BY <1>5, <1>6

LEMMA SearchFinds ==
  ASSUME TypeOK, NEW k \in Keys
  PROVE  /\ Search(k) \in Pos \union {NoPos}
         /\ Search(k) = NoPos \/ IsItem(Search(k))
         /\ StoredVal(Search(k)) \in Vals \union {NoVal}
<1>1. Found(k) \in SUBSET Pos
  BY DEF Found
<1>2. CASE Found(k) = {}
  BY <1>2 DEF Search, StoredVal
<1>3. CASE Found(k) # {}
  <2>1. \E p \in Found(k) : \A q \in Found(k) \ {p} : Before(p, q)
    BY <1>1, <1>3, LexMin
  <2>2. Search(k) \in Found(k)
    BY <1>3, <2>1 DEF Search
  <2>3. Search(k) \in Pos /\ IsLive(Search(k)[1], Search(k)[2], k)
    BY <2>2 DEF Found
  <2>4. IsItem(Search(k))
    BY <2>3 DEF IsItem, IsLive
  <2>5. CellAt(Search(k)) \in Cell
    BY <2>3 DEF TypeOK, Pos, CellAt
  <2>6. CellAt(Search(k)) \in Item
    BY <2>4, <2>5, CellLenBound DEF IsItem, CellAt
  <2>7. CellAt(Search(k)).val \in Vals
    BY <2>6 DEF Item
  <2> QED
    BY <2>3, <2>4, <2>7 DEF StoredVal
<1> QED
  BY <1>2, <1>3
-----------------------------------------------------------------------------
(* Facts about single states.                                              *)

LEMMA BlockLogs ==
  ASSUME TypeOK, NEW b \in Blocks
  PROVE  log[b] \in BlockLog
BY DEF TypeOK, BlockLog

LEMMA SpaceNat ==
  ASSUME TypeOK, NEW b \in Blocks
  PROVE  space[b] \in Nat /\ space[b] <= BSize
BY Geometry DEF TypeOK

\* Between and inside operations the space of a block is what its log leaves.
LEMMA SpaceIsRest ==
  ASSUME LayoutInv, NEW b \in Blocks, b \notin Unmeasured
  PROVE  LogEnd(log[b]) = BSize - space[b] /\ SpaceFrom(LogEnd(log[b])) = space[b]
<1>1. Packed(log[b], BSize - space[b])
  BY DEF LayoutInv, SpaceExact
<1>2. LogEnd(log[b]) = BSize - space[b] /\ BSize - space[b] \in Offs
  BY <1>1, PackedEnd, BlockLogs DEF LayoutInv
<1>3. space[b] \in Nat /\ BSize \in Nat
  BY Geometry DEF LayoutInv, TypeOK
<1> QED
  BY <1>2, <1>3, Geometry DEF SpaceFrom

LEMMA BlocksFinite == IsFiniteSet(Blocks) /\ Cardinality(Blocks) = NB
<1>1. NB - 1 \in Int /\ 0 \in Int /\ NB \in Nat /\ NB > 1
  BY Geometry
<1>2. IsFiniteSet(0 .. (NB - 1)) /\ Cardinality(0 .. (NB - 1)) = IF 0 > NB - 1 THEN 0 ELSE NB - 1 - 0 + 1
  BY <1>1, FS_Interval
<1> QED
  BY <1>1, <1>2 DEF Blocks

LEMMA CountedFinite == IsFiniteSet(Counted) /\ Cardinality(Counted) \in Nat
<1>1. Counted \subseteq Blocks
  BY DEF Counted
<1>2. IsFiniteSet(Counted)
  BY <1>1, BlocksFinite, FS_Subset
<1> QED
  BY <1>2, FS_CardinalityType
-----------------------------------------------------------------------------
(* The steps.  One lemma per action.                                       *)

LEMMA NoOpType ==
  /\ NoOp \in [key : Keys, val : Vals \union {NoVal}, old : Pos \union {NoPos}, sel : SUBSET Keys]
  /\ NoOp.old = NoPos /\ NoPos \notin Pos
BY KVAssumption, Geometry DEF NoOp, AnyKey, NoPos, Pos

LEMMA LayoutInit == Init => LayoutInv
<1> SUFFICES ASSUME Init PROVE LayoutInv
  OBVIOUS
<1> USE KVAssumption, Geometry DEF Init
<1>1. TypeOK
  <2>1. gc_trigger \in BOOLEAN /\ gcCut \in BOOLEAN
    BY Zenon
  <2>2. 0 \in 0 .. NB /\ 0 \in 0 .. BSize
    BY SMT
  <2>3. log \in [Blocks -> [Offs -> Cell]]
    BY DEF Cell
  <2>4. want \in [Keys -> SUBSET (Vals \union {NoVal})]
    BY SMT
  <2> QED
    BY NoOpType, <2>1, <2>2, <2>3, <2>4 DEF TypeOK, PCs, BlockState
<1> USE DEF Calling, Deleting, Formatting, Scanning, Prefixing, Booting, Collecting
<1>2. ControlOk /\ UncleanOk
  BY DEF ControlOk, UncleanOk
<1>3. CursorOk
  BY DEF CursorOk, Walks, Blocks
<1>4. PackedLogs
  <2>1. \A b \in Blocks : Empty(log[b])
    BY DEF Empty
  <2> QED
    BY <2>1, <1>1, BlockLogs, EmptyPacked DEF PackedLogs
<1>5. SpaceExact
  BY DEF SpaceExact, Unmeasured, Blocks
<1>6. WritePosOk /\ CollectOk /\ CleanEmpty
  BY DEF WritePosOk, CollectOk, CleanEmpty, NoState
<1>7. CountOk
  <2>1. Counted = {}
    BY DEF Counted, NoState
  <2> QED
    BY <2>1, FS_EmptySet DEF CountOk
<1> QED
  BY <1>1, <1>2, <1>3, <1>4, <1>5, <1>6, <1>7 DEF LayoutInv

LEMMA AckStep ==
  ASSUME LayoutInv, Ack
  PROVE  LayoutInv'
<1> USE KVAssumption, Geometry DEF LayoutInv, Ack, Return, flash, ram
<1>1. TypeOK'
  BY NoOpType DEF TypeOK, PCs, NoPos
<1> USE DEF Calling, Deleting, Formatting, Scanning, Prefixing, Booting, Collecting
<1>2. ControlOk'
  BY DEF ControlOk
<1>3. UncleanOk'
  BY DEF UncleanOk
<1>4. CursorOk'
  BY DEF CursorOk, Walks
<1>5. PackedLogs'
  BY DEF PackedLogs
<1>6. SpaceExact'
  BY DEF SpaceExact, Unmeasured
<1>7. WritePosOk'
  BY DEF WritePosOk
<1>8. CollectOk'
  BY DEF CollectOk
<1>9. CleanEmpty'
  BY DEF CleanEmpty, Uncounted, UncleanOk
<1>10. CountOk'
  <2>1. Counted' = Counted
    BY DEF Counted, Uncounted, UncleanOk
  <2> QED
    BY <2>1 DEF CountOk
<1> QED
  BY <1>1, <1>2, <1>3, <1>4, <1>5, <1>6, <1>7, <1>8, <1>9, <1>10 DEF LayoutInv

LEMMA DeleteByPrefixStep ==
  ASSUME LayoutInv, NEW K \in Prefixes, DeleteByPrefix(K)
  PROVE  LayoutInv'
<1> USE KVAssumption, Geometry DEF LayoutInv, DeleteByPrefix, flash, ram
<1>1. TypeOK'
  <2>1. op' \in [key : Keys, val : Vals \union {NoVal}, old : Pos \union {NoPos}, sel : SUBSET Keys]
    BY DEF NoOp, AnyKey
  <2>2. cur' \in (0 .. NB) \X (0 .. BSize)
    BY SMT
  <2> QED
    BY <2>1, <2>2 DEF TypeOK, PCs
<1> USE DEF Calling, Deleting, Formatting, Scanning, Prefixing, Booting, Collecting
<1>2. ControlOk'
  BY DEF ControlOk
<1>3. UncleanOk'
  BY DEF UncleanOk
<1>4. CursorOk'
  BY DEF CursorOk, Walks, Ends, Blocks
<1>5. PackedLogs'
  BY DEF PackedLogs
<1>6. SpaceExact'
  BY DEF SpaceExact, Unmeasured
<1>7. WritePosOk'
  BY DEF WritePosOk
<1>8. CollectOk'
  BY DEF CollectOk
<1>9. CleanEmpty'
  BY DEF CleanEmpty, Uncounted, UncleanOk
<1>10. CountOk'
  <2>1. Counted' = Counted
    BY DEF Counted, Uncounted, UncleanOk
  <2> QED
    BY <2>1 DEF CountOk
<1> QED
  BY <1>1, <1>2, <1>3, <1>4, <1>5, <1>6, <1>7, <1>8, <1>9, <1>10 DEF LayoutInv

LEMMA ItemDelDirtyStep ==
  ASSUME LayoutInv, ItemDelDirty
  PROVE  LayoutInv'
<1> USE KVAssumption, Geometry DEF LayoutInv, ItemDelDirty, SetBlockState, regs, hist
<1>0. /\ op.old[1] \in Blocks /\ state[op.old[1]] = "USED"
      /\ \A b \in Blocks : /\ state'[b] = "CLEAN" <=> state[b] = "CLEAN"
                           /\ state'[b] = NoState <=> state[b] = NoState
  BY DEF TypeOK, ControlOk, Deleting, Pos, NoState
<1>1. TypeOK'
  BY <1>0 DEF TypeOK, PCs, BlockState, ControlOk, Deleting
<1> USE DEF Calling, Deleting, Formatting, Scanning, Prefixing, Booting, Collecting
<1>2. ControlOk'
  BY DEF ControlOk
<1>3. UncleanOk'
  BY <1>0 DEF UncleanOk, ControlOk, TypeOK
<1>4. CursorOk'
  BY <1>0 DEF CursorOk, Walks, ControlOk
<1>5. PackedLogs'
  BY DEF PackedLogs
<1>6. SpaceExact'
  BY DEF SpaceExact, Unmeasured, ControlOk
<1>7. WritePosOk'
  BY <1>0 DEF WritePosOk, Pos, ControlOk
<1>8. CollectOk'
  BY <1>0 DEF CollectOk, ControlOk
<1>9. CleanEmpty'
  BY <1>0 DEF CleanEmpty, Uncounted, ControlOk
<1>10. CountOk'
  <2>1. Counted' = Counted
    BY <1>0 DEF Counted, Uncounted, ControlOk
  <2> QED
    BY <2>1 DEF CountOk, ControlOk
<1> QED
  BY <1>1, <1>2, <1>3, <1>4, <1>5, <1>6, <1>7, <1>8, <1>9, <1>10 DEF LayoutInv

LEMMA ItemDelStep ==
  ASSUME LayoutInv, ItemDel
  PROVE  LayoutInv'
<1> USE KVAssumption, Geometry DEF LayoutInv, ItemDel, ram, regs, hist
<1> DEFINE B == op.old[1]
           O == op.old[2]
<1>a. B \in Blocks /\ O \in Offs /\ log[B][O].kind = "item" /\ log[B] \in BlockLog
  BY BlockLogs DEF ControlOk, IsItem, Pos
<1>b. log'[B] = [log[B] EXCEPT ![O].state = "DELETE"] /\ \A b \in Blocks : b # B => log'[b] = log[b]
  BY <1>a DEF TypeOK
<1>c. /\ log'[B] \in BlockLog /\ Ends(log'[B]) = Ends(log[B])
      /\ Empty(log'[B]) <=> Empty(log[B])
      /\ \A e : Packed(log[B], e) => Packed(log'[B], e)
      /\ \A x \in Offs : log'[B][x].kind = log[B][x].kind
  BY <1>a, <1>b, PackedDelete
<1>d. \A b \in Blocks : /\ Ends(log'[b]) = Ends(log[b])
                        /\ Empty(log'[b]) <=> Empty(log[b])
                        /\ \A e : Packed(log[b], e) => Packed(log'[b], e)
  BY <1>a, <1>b, <1>c
<1>1. TypeOK'
  <2>1. log' \in [Blocks -> [Offs -> Cell]]
    BY <1>a, <1>b, <1>c DEF TypeOK, BlockLog
  <2> QED
    BY <2>1 DEF TypeOK, PCs, ControlOk, Deleting
<1> USE DEF Calling, Deleting, Formatting, Scanning, Prefixing, Booting, Collecting
<1>2. ControlOk'
  BY DEF ControlOk
<1>3. UncleanOk'
  BY DEF UncleanOk, ControlOk
<1>4. CursorOk'
  BY <1>d DEF CursorOk, Walks, ControlOk
<1>5. PackedLogs'
  BY <1>d DEF PackedLogs
<1>6. SpaceExact'
  <2>1. Unmeasured' = Unmeasured
    BY DEF Unmeasured, ControlOk
  <2> QED
    BY <1>d, <2>1 DEF SpaceExact
<1>7. WritePosOk'
  BY <1>d DEF WritePosOk, ControlOk, Pos
<1>8. CollectOk'
  BY DEF CollectOk, ControlOk
<1>9. CleanEmpty'
  BY <1>d DEF CleanEmpty, Uncounted, ControlOk
<1>10. CountOk'
  <2>1. Counted' = Counted
    BY DEF Counted, Uncounted, ControlOk
  <2> QED
    BY <2>1 DEF CountOk, ControlOk
<1> QED
  BY <1>1, <1>2, <1>3, <1>4, <1>5, <1>6, <1>7, <1>8, <1>9, <1>10 DEF LayoutInv

\* Program, used by kv_item_store and __item_gc_cb, appends to a packed log.
LEMMA ProgramAppends ==
  ASSUME LayoutInv, wpos \in Pos, Packed(log[wpos[1]], wpos[2]),
         NEW c \in Cell, c # Erased, wpos[2] + CellLen(c) < BSize, Program(c)
  PROVE  /\ log' \in [Blocks -> [Offs -> Cell]]
         /\ \A b \in Blocks : b # wpos[1] => log'[b] = log[b]
         /\ Packed(log'[wpos[1]], wpos[2] + CellLen(c))
         /\ wpos' = <<wpos[1], wpos[2] + CellLen(c)>> /\ wpos' \in Pos
         /\ space' = [space EXCEPT ![wpos[1]] = space[wpos[1]] - CellLen(c)]
         /\ \A p : IsItem(p) => p \in Pos /\ log'[p[1]][p[2]].kind = "item"
<1> USE KVAssumption, Geometry
<1>1. wpos[1] \in Blocks /\ wpos[2] \in Offs /\ wpos[2] \in Nat
  BY DEF Pos
<1>2. log[wpos[1]] \in BlockLog
  BY <1>1, BlockLogs DEF LayoutInv
<1>3. CellLen(c) \in Nat
  BY CellLenBound
<1>4. log' = [log EXCEPT ![wpos[1]][wpos[2]] = c]
  BY DEF Program
<1>5. /\ log'[wpos[1]] = [log[wpos[1]] EXCEPT ![wpos[2]] = c]
      /\ \A b \in Blocks : b # wpos[1] => log'[b] = log[b]
      /\ DOMAIN log' = Blocks
  BY <1>1, <1>4 DEF LayoutInv, TypeOK
<1>6. log'[wpos[1]] \in BlockLog /\ Packed(log'[wpos[1]], wpos[2] + CellLen(c))
  BY <1>2, <1>5, PackedGrow
<1>7. log' \in [Blocks -> [Offs -> Cell]]
  BY <1>1, <1>4, <1>5, <1>6 DEF LayoutInv, TypeOK, BlockLog
<1>8. /\ wpos' = <<wpos[1], wpos[2] + CellLen(c)>>
      /\ space' = [space EXCEPT ![wpos[1]] = space[wpos[1]] - CellLen(c)]
  BY DEF Program
<1>9. wpos' \in Pos
  BY <1>1, <1>3, <1>8 DEF Pos, Offs
<1>10. ASSUME NEW p, IsItem(p) PROVE p \in Pos /\ log'[p[1]][p[2]].kind = "item"
  <2>1. p \in Pos /\ p[1] \in Blocks /\ p[2] \in Offs /\ log[p[1]][p[2]].kind = "item"
    BY <1>10 DEF IsItem, Pos
  <2>2. log[wpos[1]][wpos[2]] = Erased
    BY <1>2, PackedEnd
  <2>3. p[1] # wpos[1] \/ p[2] # wpos[2]
    BY <2>1, <2>2 DEF Erased
  <2>4. log'[p[1]][p[2]] = log[p[1]][p[2]]
    BY <1>2, <1>5, <2>1, <2>3 DEF BlockLog
  <2> QED
    BY <2>1, <2>4
<1> QED
  BY <1>5, <1>6, <1>7, <1>8, <1>9, <1>10

LEMMA ItemStoreStep ==
  ASSUME LayoutInv, ItemStore
  PROVE  LayoutInv'
<1> USE KVAssumption, Geometry DEF LayoutInv, ItemStore, hist
<1> DEFINE c == NewItem(op.key, op.val, op.old)
<1>a. c \in Item /\ c \in Cell /\ c # Erased /\ CellLen(c) = ItemLen[op.val] /\ CellLen(c) \in Nat
  BY DEF NewItem, Item, Cell, Erased, CellLen, ControlOk, TypeOK
<1>b. wpos \in Pos /\ Packed(log[wpos[1]], wpos[2]) /\ wpos[2] + CellLen(c) < BSize /\ ~Booting /\ ~Collecting
  BY <1>a DEF WritePosOk, Booting, Collecting, Scanning, Calling, Deleting, Formatting
<1>c. /\ log' \in [Blocks -> [Offs -> Cell]]
      /\ \A b \in Blocks : b # wpos[1] => log'[b] = log[b]
      /\ Packed(log'[wpos[1]], wpos[2] + CellLen(c))
      /\ wpos' = <<wpos[1], wpos[2] + CellLen(c)>> /\ wpos' \in Pos
      /\ space' = [space EXCEPT ![wpos[1]] = space[wpos[1]] - CellLen(c)]
      /\ \A p : IsItem(p) => p \in Pos /\ log'[p[1]][p[2]].kind = "item"
  BY <1>a, <1>b, ProgramAppends
<1> HIDE DEF c
<1>d. Unmeasured = {} /\ Unmeasured' = {}
  BY DEF Unmeasured, Scanning, Calling, Deleting, Formatting
<1>e. wpos[1] \in Blocks /\ wpos[2] \in Nat /\ space[wpos[1]] = BSize - wpos[2]
  <2>1. wpos[1] \in Blocks /\ wpos[2] \in Offs
    BY <1>b DEF Pos
  <2>2. log[wpos[1]] \in BlockLog /\ space[wpos[1]] \in Nat
    BY <2>1, BlockLogs, SpaceNat
  <2>3. LogEnd(log[wpos[1]]) = wpos[2]
    BY <1>b, <2>2, PackedEnd
  <2>4. LogEnd(log[wpos[1]]) = BSize - space[wpos[1]]
    BY <1>d, <2>1, SpaceIsRest
  <2> QED
    BY <2>1, <2>2, <2>3, <2>4
<1>1. TypeOK'
  <2>1. space' \in [Blocks -> 0 .. BSize]
    BY <1>a, <1>b, <1>c, <1>e DEF TypeOK
  <2> QED
    BY <1>c, <2>1 DEF TypeOK, PCs
<1> USE DEF Calling, Deleting, Formatting, Scanning, Prefixing, Booting, Collecting
<1>2. ControlOk'
  BY <1>c DEF ControlOk, TypeOK, IsItem
<1>3. UncleanOk'
  BY DEF UncleanOk
<1>4. CursorOk'
  BY DEF CursorOk, Walks
<1>5. PackedLogs'
  BY <1>c DEF PackedLogs, Pos
<1>6. SpaceExact'
  <2> SUFFICES ASSUME NEW b \in Blocks PROVE Packed(log'[b], BSize - space'[b])
    BY <1>d DEF SpaceExact
  <2>1. CASE b = wpos[1]
    <3>1. BSize - space'[b] = wpos[2] + CellLen(c)
      BY <2>1, <1>a, <1>c, <1>e DEF TypeOK
    <3> QED
      BY <2>1, <3>1, <1>c
  <2>2. CASE b # wpos[1]
    BY <2>2, <1>c, <1>d DEF SpaceExact, TypeOK
  <2> QED
    BY <2>1, <2>2
<1>7. WritePosOk'
  <2>1. wpos'[1] = wpos[1] /\ wpos'[2] = wpos[2] + CellLen(c)
    BY <1>c
  <2> QED
    BY <1>b, <1>c, <2>1 DEF WritePosOk
<1>8. CollectOk'
  BY DEF CollectOk
<1>9. CleanEmpty'
  BY <1>b, <1>c DEF CleanEmpty, Uncounted, UncleanOk, WritePosOk
<1>10. CountOk'
  <2>1. Counted' = Counted
    BY DEF Counted, Uncounted, UncleanOk
  <2> QED
    BY <2>1 DEF CountOk
<1> QED
  BY <1>1, <1>2, <1>3, <1>4, <1>5, <1>6, <1>7, <1>8, <1>9, <1>10 DEF LayoutInv

LEMMA PrefixItemStep ==
  ASSUME LayoutInv, PrefixItem
  PROVE  LayoutInv'
<1> USE KVAssumption, Geometry DEF LayoutInv, PrefixItem, OnLive, OnCell, InBlock, Onward, flash, ram, hist
<1>a. cur[1] \in Blocks /\ cur[2] \in Ends(log[cur[1]]) /\ log[cur[1]] \in BlockLog
  BY BlockLogs DEF CursorOk, Prefixing, Walks
<1>b. PICK e \in Offs : Packed(log[cur[1]], e)
  BY <1>a DEF PackedLogs
<1>c. cur[2] \in Offs
  BY <1>a, <1>b, PackedEnd
<1>d. Here \in Cell /\ Here # Erased /\ cur = <<cur[1], cur[2]>> /\ cur \in Pos
  BY <1>a, <1>c DEF Here, BlockLog, IsEnd, TypeOK, Pos
<1>e. IsItem(cur)
  BY <1>a, <1>c, <1>d DEF IsItem, Here, IsGarbage, Cell, Item, Junk
<1>f. CellLen(Here) \in Nat /\ cur[2] + CellLen(Here) \in Ends(log[cur[1]])
  BY <1>a, <1>c, <1>d, CellLenBound DEF Ends, Here
<1>g. cur[2] + CellLen(Here) \in Offs
  BY <1>a, <1>b, <1>f, PackedEnd
<1>h. cur' = <<cur[1], cur[2] + CellLen(Here)>> /\ cur'[1] = cur[1] /\ cur'[2] = cur[2] + CellLen(Here)
  OBVIOUS
<1>1. TypeOK'
  <2>1. cur' \in (0 .. NB) \X (0 .. BSize)
    BY <1>a, <1>g, <1>h DEF Blocks, Offs
  <2>2. op' \in [key : Keys, val : Vals \union {NoVal}, old : Pos \union {NoPos}, sel : SUBSET Keys]
    BY <1>d, SMTT(20) DEF TypeOK
  <2> QED
    BY <2>1, <2>2 DEF TypeOK, PCs
<1> USE DEF Calling, Deleting, Formatting, Scanning, Prefixing, Booting, Collecting
<1>2. ControlOk'
  <2>1. CASE Here.key \in op.sel
    <3>1. op'.old = cur
      BY <2>1 DEF TypeOK
    <3> QED
      BY <1>d, <1>e, <2>1, <3>1 DEF ControlOk, IsItem
  <2>2. CASE Here.key \notin op.sel
    BY <2>2 DEF ControlOk
  <2> QED
    BY <2>1, <2>2
<1>3. UncleanOk'
  BY DEF UncleanOk
<1>4. CursorOk'
  BY <1>a, <1>f, <1>h DEF CursorOk, Walks
<1>5. PackedLogs'
  BY DEF PackedLogs
<1>6. SpaceExact'
  BY DEF SpaceExact, Unmeasured
<1>7. WritePosOk'
  BY DEF WritePosOk
<1>8. CollectOk'
  BY DEF CollectOk
<1>9. CleanEmpty'
  BY DEF CleanEmpty, Uncounted, UncleanOk
<1>10. CountOk'
  <2>1. Counted' = Counted
    BY DEF Counted, Uncounted, UncleanOk
  <2> QED
    BY <2>1 DEF CountOk
<1> QED
  BY <1>1, <1>2, <1>3, <1>4, <1>5, <1>6, <1>7, <1>8, <1>9, <1>10 DEF LayoutInv

LEMMA PrefixNextBlockStep ==
  ASSUME LayoutInv, PrefixNextBlock
  PROVE  LayoutInv'
<1> USE KVAssumption, Geometry DEF LayoutInv, PrefixNextBlock, OnEnd, InBlock, flash
<1>a. cur[1] \in Blocks /\ cur[2] \in Ends(log[cur[1]]) /\ log[cur[1]] \in BlockLog
  BY BlockLogs DEF CursorOk, Prefixing, Walks
<1>b. cur[1] \notin Unmeasured
  BY DEF Unmeasured, Scanning, Calling, Deleting, Formatting
<1>c. space' = space
  <2>1. Packed(log[cur[1]], BSize - space[cur[1]])
    BY <1>a, <1>b DEF SpaceExact
  <2>2. cur[2] = LogEnd(log[cur[1]])
    BY <1>a, <2>1, PackedEnd
  <2>3. SpaceFrom(cur[2]) = space[cur[1]]
    BY <1>a, <1>b, <2>2, SpaceIsRest
  <2> QED
    BY <1>a, <2>3 DEF TypeOK
<1>d. cur[1] + 1 # NB => cur' = <<cur[1] + 1, BHdr>> /\ cur'[1] = cur[1] + 1 /\ cur'[2] = BHdr /\ cur'[1] \in Blocks
  BY <1>a DEF Blocks
<1>1. TypeOK'
  <2>1. want' \in [Keys -> SUBSET (Vals \union {NoVal})]
    BY DEF TypeOK
  <2>2. cur' \in (0 .. NB) \X (0 .. BSize)
    BY <1>d DEF Return, NoPos, Blocks
  <2> QED
    BY <1>c, <2>1, <2>2, NoOpType DEF TypeOK, PCs, Return
<1> USE DEF Calling, Deleting, Formatting, Scanning, Prefixing, Booting, Collecting
<1>2. ControlOk'
  BY DEF ControlOk, Return
<1>3. UncleanOk'
  BY DEF UncleanOk, Return
<1>4. CursorOk'
  BY <1>d DEF CursorOk, Walks, Ends, Return
<1>5. PackedLogs'
  BY DEF PackedLogs
<1>6. SpaceExact'
  BY <1>c DEF SpaceExact, Unmeasured, Return
<1>7. WritePosOk'
  BY DEF WritePosOk, Return
<1>8. CollectOk'
  BY DEF CollectOk, Return
<1>9. CleanEmpty'
  BY DEF CleanEmpty, Uncounted, UncleanOk, Return
<1>10. CountOk'
  <2>1. Counted' = Counted
    BY DEF Counted, Uncounted, UncleanOk, Return
  <2> QED
    BY <2>1 DEF CountOk, Return
<1> QED
  BY <1>1, <1>2, <1>3, <1>4, <1>5, <1>6, <1>7, <1>8, <1>9, <1>10 DEF LayoutInv

OpType == [key : Keys, val : Vals \union {NoVal}, old : Pos \union {NoPos}, sel : SUBSET Keys]

LEMMA OpOfCall ==
  ASSUME NEW k \in Keys, NEW v \in Vals, NEW p \in Pos \union {NoPos}
  PROVE  [NoOp EXCEPT !.key = k, !.val = v, !.old = p] \in OpType
BY NoOpType DEF OpType, NoOp

LEMMA OpOfDelete ==
  ASSUME NEW k \in Keys, NEW p \in Pos \union {NoPos}
  PROVE  [NoOp EXCEPT !.key = k, !.old = p] \in OpType
BY NoOpType DEF OpType, NoOp

\* A search changes no space and marks no block CLEAN or not CLEAN.
LEMMA SearchQuiet ==
  ASSUME LayoutInv, pc = "idle", NEW p, SearchEffects(p)
  PROVE  /\ space' = space
         /\ hdr' \in [Blocks -> BlockState \union {NoState}]
         /\ state' \in [Blocks -> BlockState \union {NoState}]
         /\ \A b \in Blocks : state'[b] = "CLEAN" <=> state[b] = "CLEAN"
<1>1. space' = space
  <2>1. \A b \in Blocks : b \notin Unmeasured
    BY DEF Unmeasured, Scanning, Calling, Deleting, Formatting
  <2>2. \A b \in Blocks : SpaceFrom(LogEnd(log[b])) = space[b]
    BY <2>1, SpaceIsRest
  <2>3. space' = [b \in Blocks |-> space[b]]
    BY <2>2 DEF SearchEffects, Measured
  <2> QED
    BY <2>3 DEF LayoutInv, TypeOK
<1>2. hdr' \in [Blocks -> BlockState \union {NoState}] /\ state' \in [Blocks -> BlockState \union {NoState}]
  BY DEF LayoutInv, TypeOK, SearchEffects, Swept, BlockState
<1>3. \A b \in Blocks : state'[b] = "CLEAN" <=> state[b] = "CLEAN"
  BY DEF SearchEffects, Swept
<1> QED
  BY <1>1, <1>2, <1>3

LEMMA ItemDeleteStep ==
  ASSUME LayoutInv, NEW k \in Keys, ItemDelete(k)
  PROVE  LayoutInv'
<1> USE KVAssumption, Geometry DEF LayoutInv, ItemDelete
<1>a. pc = "idle" /\ SearchEffects(Search(k))
  OBVIOUS
<1>b. /\ space' = space
      /\ hdr' \in [Blocks -> BlockState \union {NoState}]
      /\ state' \in [Blocks -> BlockState \union {NoState}]
      /\ \A b \in Blocks : state'[b] = "CLEAN" <=> state[b] = "CLEAN"
  BY <1>a, SearchQuiet
<1>c. /\ Search(k) \in Pos \union {NoPos}
      /\ Search(k) = NoPos \/ IsItem(Search(k))
      /\ StoredVal(Search(k)) \in Vals \union {NoVal}
  BY SearchFinds
<1>d. log' = log /\ clean' = clean /\ wpos' = wpos /\ unclean' = unclean /\ unclean = {} /\ gcCut' = gcCut /\ crashes' = crashes
  BY DEF regs, UncleanOk, Scanning, Calling, Deleting, Formatting
<1>e. \/ Search(k) = NoPos /\ UNCHANGED <<pc, ret, op, want>>
      \/ /\ Search(k) # NoPos /\ op' = [NoOp EXCEPT !.key = k, !.old = Search(k)]
         /\ want' = [want EXCEPT ![k] = @ \union {NoVal}]
         /\ pc' = "del" /\ ret' = "ack"
  BY DEF ItemDelete
<1>f. op' = op \/ op'.old = Search(k)
  BY <1>e DEF NoOp
<1> HIDE DEF ItemDelete
<1>g. cur' = cur /\ gc_trigger' = gc_trigger
  BY DEF ItemDelete
<1>1. TypeOK'
  <2>1. op' \in [key : Keys, val : Vals \union {NoVal}, old : Pos \union {NoPos}, sel : SUBSET Keys]
    <3>1. op \in OpType /\ [NoOp EXCEPT !.key = k, !.old = Search(k)] \in OpType
      BY <1>c, OpOfDelete DEF TypeOK, OpType
    <3> QED
      BY <1>e, <3>1 DEF OpType
  <2>2. want' \in [Keys -> SUBSET (Vals \union {NoVal})]
    BY <1>e DEF TypeOK
  <2> QED
    BY <1>b, <1>d, <1>e, <1>g, <2>1, <2>2 DEF TypeOK, PCs
<1> USE DEF Calling, Deleting, Formatting, Scanning, Prefixing, Booting, Collecting
<1>2. ControlOk'
  <2>1. CASE Search(k) = NoPos
    BY <2>1, <1>a, <1>e DEF ControlOk
  <2>2. CASE Search(k) # NoPos
    <3>1. op'.old = Search(k) /\ Search(k) \in Pos /\ IsItem(Search(k)) /\ IsItem(op.old)'
      BY <2>2, <1>c, <1>d, <1>e DEF NoOp, IsItem
    <3> QED
      BY <2>2, <1>e, <3>1 DEF ControlOk
  <2> QED
    BY <2>1, <2>2
<1>3. UncleanOk'
  BY <1>d, <1>e DEF UncleanOk
<1>4. CursorOk'
  BY <1>a, <1>d, <1>e, <1>g DEF CursorOk, Walks
<1>5. PackedLogs'
  BY <1>d DEF PackedLogs
<1>6. SpaceExact'
  BY <1>a, <1>b, <1>d, <1>e DEF SpaceExact, Unmeasured
<1>7. WritePosOk'
  BY <1>a, <1>b, <1>d, <1>e DEF WritePosOk, Pos
<1>8. CollectOk'
  BY <1>a, <1>e DEF CollectOk
<1>9. CleanEmpty'
  BY <1>a, <1>b, <1>d, <1>e DEF CleanEmpty, Uncounted
<1>10. CountOk'
  <2>1. Counted' = Counted
    BY <1>a, <1>b, <1>d, <1>e DEF Counted, Uncounted
  <2> QED
    BY <1>a, <1>d, <1>e, <2>1 DEF CountOk
<1> QED
  BY <1>1, <1>2, <1>3, <1>4, <1>5, <1>6, <1>7, <1>8, <1>9, <1>10 DEF LayoutInv

LEMMA ItemSetStep ==
  ASSUME LayoutInv, NEW k \in Keys, NEW v \in Vals, ItemSet(k, v)
  PROVE  LayoutInv'
<1> USE KVAssumption, Geometry DEF LayoutInv, ItemSet
<1>a. pc = "idle" /\ SearchEffects(Search(k))
  OBVIOUS
<1>b. /\ space' = space
      /\ hdr' \in [Blocks -> BlockState \union {NoState}]
      /\ state' \in [Blocks -> BlockState \union {NoState}]
      /\ \A b \in Blocks : state'[b] = "CLEAN" <=> state[b] = "CLEAN"
  BY <1>a, SearchQuiet
<1>c. /\ Search(k) \in Pos \union {NoPos}
      /\ Search(k) = NoPos \/ IsItem(Search(k))
      /\ StoredVal(Search(k)) \in Vals \union {NoVal}
  BY SearchFinds
<1>d. log' = log /\ clean' = clean /\ wpos' = wpos /\ unclean' = unclean /\ unclean = {} /\ gcCut' = gcCut /\ crashes' = crashes
  BY DEF regs, UncleanOk, Scanning, Calling, Deleting, Formatting
<1>e. wpos \in Pos /\ wpos[1] \in Blocks /\ wpos[2] \in Nat /\ space[wpos[1]] = BSize - wpos[2]
  <2>1. wpos \in Pos /\ Packed(log[wpos[1]], wpos[2])
    BY <1>a DEF WritePosOk, Booting, Scanning, Calling, Deleting, Formatting
  <2>2. wpos[1] \in Blocks /\ wpos[2] \in Offs /\ wpos[1] \notin Unmeasured
    BY <1>a, <2>1 DEF Pos, Unmeasured, Scanning, Calling, Deleting, Formatting
  <2>3. LogEnd(log[wpos[1]]) = wpos[2]
    BY <2>1, <2>2, BlockLogs, PackedEnd
  <2>4. LogEnd(log[wpos[1]]) = BSize - space[wpos[1]] /\ space[wpos[1]] \in Nat
    BY <2>2, SpaceIsRest, SpaceNat
  <2> QED
    BY <2>1, <2>2, <2>3, <2>4
<1> DEFINE ToStore == /\ HasRoom(wpos[1], ItemLen[v])
                      /\ op' = [NoOp EXCEPT !.key = k, !.val = v, !.old = Search(k)]
                      /\ pc' = "store" /\ UNCHANGED cur
           ToCalc  == /\ op' = [NoOp EXCEPT !.key = k, !.val = v, !.old = Search(k)]
                      /\ pc' = "calc" /\ cur' = <<wpos[1] + 1, 0>>
           Back    == UNCHANGED <<pc, op, cur>>
<1>f. ret' = ret /\ (ToStore \/ ToCalc \/ Back)
  BY DEF regs
<1>g. want' \in [Keys -> SUBSET (Vals \union {NoVal})] /\ gc_trigger' \in BOOLEAN
  <2>1. want' \in [Keys -> SUBSET (Vals \union {NoVal})]
    BY DEF TypeOK, regs
  <2>2. gc_trigger' \in BOOLEAN
    BY DEF TypeOK, regs
  <2> QED
    BY <2>1, <2>2
<1> HIDE DEF ItemSet
<1>1. TypeOK'
  <2>1. op' \in [key : Keys, val : Vals \union {NoVal}, old : Pos \union {NoPos}, sel : SUBSET Keys]
    <3>1. op \in OpType /\ [NoOp EXCEPT !.key = k, !.val = v, !.old = Search(k)] \in OpType
      BY <1>c, OpOfCall, ZenonT(20) DEF TypeOK, OpType
    <3> QED
      BY <1>f, <3>1 DEF OpType
  <2>2. cur' \in (0 .. NB) \X (0 .. BSize)
    <3>1. cur \in (0 .. NB) \X (0 .. BSize)
      BY DEF TypeOK
    <3>2. wpos[1] + 1 \in 0 .. NB /\ 0 \in 0 .. BSize
      BY <1>e, SMT DEF Blocks
    <3> QED
      BY <1>f, <3>1, <3>2
  <2> QED
    BY <1>b, <1>d, <1>f, <1>g, <2>1, <2>2 DEF TypeOK, PCs
<1> USE DEF Calling, Deleting, Formatting, Scanning, Prefixing, Booting, Collecting
<1>2. ControlOk'
  <2>1. CASE Back
    BY <2>1, <1>a DEF ControlOk
  <2>2. CASE ToStore \/ ToCalc
    <3>1. op'.val = v /\ op'.old = Search(k) /\ (op'.old = NoPos \/ IsItem(op.old)')
      BY <2>2, <1>c, <1>d DEF NoOp, IsItem
    <3> QED
      BY <2>2, <3>1 DEF ControlOk
  <2> QED
    BY <1>f, <2>1, <2>2
<1>3. UncleanOk'
  BY <1>d, <1>f DEF UncleanOk
<1>4. CursorOk'
  BY <1>a, <1>d, <1>f DEF CursorOk, Walks
<1>5. PackedLogs'
  BY <1>d DEF PackedLogs
<1>6. SpaceExact'
  BY <1>a, <1>b, <1>d, <1>f DEF SpaceExact, Unmeasured
<1>7. WritePosOk'
  <2>1. pc' = "store" => wpos'[2] + ItemLen[op'.val] < BSize
    <3>1. SUFFICES ASSUME ToStore PROVE wpos[2] + ItemLen[op'.val] < BSize
      BY <1>a, <1>d, <1>f
    <3>2. op'.val = v /\ ItemLen[v] \in Nat /\ space[wpos[1]] > ItemLen[v]
      BY <3>1 DEF NoOp, HasRoom
    <3> QED
      BY <3>2, <1>e
  <2>2. Packed(log[wpos[1]], wpos[2]) /\ state[wpos[1]] # "CLEAN"
    BY <1>a DEF WritePosOk
  <2> QED
    BY <1>a, <1>b, <1>d, <1>e, <1>f, <2>1, <2>2 DEF WritePosOk
<1>8. CollectOk'
  BY <1>a, <1>f DEF CollectOk
<1>9. CleanEmpty'
  BY <1>a, <1>b, <1>d, <1>f DEF CleanEmpty, Uncounted
<1>10. CountOk'
  <2>1. Counted' = Counted
    BY <1>a, <1>b, <1>d, <1>f DEF Counted, Uncounted
  <2> QED
    BY <1>a, <1>d, <1>f, <2>1 DEF CountOk
<1> QED
  BY <1>1, <1>2, <1>3, <1>4, <1>5, <1>6, <1>7, <1>8, <1>9, <1>10 DEF LayoutInv

LEMMA CalcFullStep ==
  ASSUME LayoutInv, CalcFull
  PROVE  LayoutInv'
<1> USE KVAssumption, Geometry DEF LayoutInv, CalcFull, Return, flash
<1>1. TypeOK'
  <2>1. StoredVal(op.old) \in Vals \union {NoVal}
    <3>1. CASE op.old = NoPos
      BY <3>1 DEF StoredVal
    <3>2. CASE IsItem(op.old)
      <4>a. op.old[1] \in Blocks /\ op.old[2] \in Offs
        BY <3>2 DEF IsItem, Pos
      <4>b. log[op.old[1]] \in BlockLog
        BY <4>a, BlockLogs
      <4>1. CellAt(op.old) \in Cell /\ CellAt(op.old).kind = "item"
        BY <3>2, <4>a, <4>b DEF IsItem, CellAt, BlockLog
      <4>2. CellAt(op.old).val \in Vals
        BY <4>1, CellLenBound DEF Item
      <4> QED
        BY <4>2 DEF StoredVal
    <3> QED
      BY <3>1, <3>2 DEF ControlOk
  <2>2. want' \in [Keys -> SUBSET (Vals \union {NoVal})]
    BY <2>1 DEF TypeOK
  <2>3. gc_trigger' \in BOOLEAN
    BY Zenon
  <2>4. cur' \in (0 .. NB) \X (0 .. BSize)
    BY DEF NoPos
  <2> QED
    BY <2>2, <2>3, <2>4, NoOpType DEF TypeOK, PCs
<1> USE DEF Calling, Deleting, Formatting, Scanning, Prefixing, Booting, Collecting
<1>2. ControlOk'
  BY DEF ControlOk
<1>3. UncleanOk'
  BY DEF UncleanOk
<1>4. CursorOk'
  BY DEF CursorOk, Walks
<1>5. PackedLogs'
  BY DEF PackedLogs
<1>6. SpaceExact'
  BY DEF SpaceExact, Unmeasured
<1>7. WritePosOk'
  BY DEF WritePosOk
<1>8. CollectOk'
  BY DEF CollectOk
<1>9. CleanEmpty'
  BY DEF CleanEmpty, Uncounted, UncleanOk
<1>10. CountOk'
  <2>1. Counted' = Counted
    BY DEF Counted, Uncounted, UncleanOk
  <2> QED
    BY <2>1 DEF CountOk
<1> QED
  BY <1>1, <1>2, <1>3, <1>4, <1>5, <1>6, <1>7, <1>8, <1>9, <1>10 DEF LayoutInv

LEMMA CalcSkipStep ==
  ASSUME LayoutInv, CalcSkip
  PROVE  LayoutInv'
<1> USE KVAssumption, Geometry DEF LayoutInv, CalcSkip, flash, ram, hist
<1>a. CalcIndex \in Blocks
  BY DEF CalcIndex, TypeOK, Blocks
<1>b. Unmeasured = {} /\ Unmeasured' = {} /\ unclean = {} /\ ~Booting /\ ~Collecting /\ Uncounted = {} /\ Uncounted' = {}
  BY DEF Unmeasured, Scanning, Calling, Deleting, Formatting, UncleanOk, Booting, Collecting, Uncounted
<1>1. TypeOK'
  <2>1. cur' \in (0 .. NB) \X (0 .. BSize)
    BY <1>a DEF Blocks
  <2> QED
    BY <2>1 DEF TypeOK, PCs
<1> USE DEF Calling, Deleting, Formatting, Scanning, Prefixing, Booting, Collecting
<1>2. ControlOk'
  BY DEF ControlOk, IsItem
<1>3. UncleanOk'
  BY DEF UncleanOk
<1>4. CursorOk'
  BY DEF CursorOk, Walks
<1>5. PackedLogs'
  BY DEF PackedLogs
<1>6. SpaceExact'
  BY DEF SpaceExact, Unmeasured
<1>7. WritePosOk'
  BY DEF WritePosOk
<1>8. CollectOk'
  BY DEF CollectOk
<1>9. CleanEmpty'
  BY DEF CleanEmpty, Uncounted, UncleanOk
<1>10. CountOk'
  <2>1. Counted' = Counted
    BY DEF Counted, Uncounted, UncleanOk
  <2> QED
    BY <2>1 DEF CountOk
<1> QED
  BY <1>1, <1>2, <1>3, <1>4, <1>5, <1>6, <1>7, <1>8, <1>9, <1>10 DEF LayoutInv

LEMMA CalcTakeStep ==
  ASSUME LayoutInv, CalcTake
  PROVE  LayoutInv'
<1> USE KVAssumption, Geometry DEF LayoutInv, CalcTake, hist
<1>a. CalcIndex \in Blocks
  BY DEF CalcIndex, TypeOK, Blocks
<1>b. Unmeasured = {} /\ Unmeasured' = {} /\ unclean = {} /\ ~Booting /\ ~Collecting /\ Uncounted = {} /\ Uncounted' = {}
  BY DEF Unmeasured, Scanning, Calling, Deleting, Formatting, UncleanOk, Booting, Collecting, Uncounted, regs
<1> DEFINE i == CalcIndex
<1>c. Packed(log[i], BSize - space[i]) /\ BSize - space[i] \in Offs /\ space[i] \in Nat
  <2>1. Packed(log[i], BSize - space[i])
    BY <1>a, <1>b DEF SpaceExact
  <2> QED
    BY <2>1, <1>a, BlockLogs, PackedEnd, SpaceNat
<1>d. wpos' = <<i, BSize - space[i]>> /\ wpos' \in Pos /\ wpos'[1] = i /\ wpos'[2] = BSize - space[i]
  BY <1>a, <1>c DEF Pos
<1>e. log' = log /\ space' = space /\ op' = op /\ cur' = cur /\ ret' = ret /\ unclean' = unclean /\ pc = "calc" /\ pc' = "store"
  BY DEF regs
<1>f. \/ state[i] = "CLEAN" /\ state' = [state EXCEPT ![i] = "USED"] /\ hdr' = [hdr EXCEPT ![i] = "USED"] /\ clean' = clean - 1
      \/ state[i] # "CLEAN" /\ state' = state /\ hdr' = hdr /\ clean' = clean
  BY DEF SetBlockState
<1>g. space[i] > ItemLen[op.val] /\ op.val \in Vals /\ ItemLen[op.val] \in Nat
  BY DEF HasRoom, ControlOk
<1>h. gc_trigger' = gc_trigger /\ want' = want /\ gcCut' = gcCut /\ crashes' = crashes
  OBVIOUS
<1> HIDE DEF CalcTake, i
<1>j. i \in Blocks
  BY <1>a DEF i
<1>k. state'[i] # "CLEAN" /\ \A b \in Blocks : state'[b] = "CLEAN" => state[b] = "CLEAN"
  BY <1>f, <1>j DEF TypeOK
<1>1. TypeOK'
  BY <1>d, <1>e, <1>f, <1>h, <1>j DEF TypeOK, PCs, BlockState
<1> USE DEF Calling, Deleting, Formatting, Scanning, Prefixing, Booting, Collecting
<1>2. ControlOk'
  BY <1>e DEF ControlOk, IsItem
<1>3. UncleanOk'
  BY <1>b, <1>e DEF UncleanOk
<1>4. CursorOk'
  BY <1>e DEF CursorOk, Walks
<1>5. PackedLogs'
  BY <1>e DEF PackedLogs
<1>6. SpaceExact'
  BY <1>b, <1>e DEF SpaceExact
<1>7. WritePosOk'
  <2>1. wpos'[2] + ItemLen[op'.val] < BSize
    BY <1>c, <1>d, <1>e, <1>g
  <2> QED
    BY <2>1, <1>c, <1>d, <1>e, <1>k DEF WritePosOk
<1>8. CollectOk'
  BY <1>e DEF CollectOk
<1>9. CleanEmpty'
  BY <1>b, <1>e, <1>k DEF CleanEmpty
<1>10. CountOk'
  <2>1. CASE state[i] = "CLEAN"
    <3>a. state'[i] = "USED" /\ \A b \in Blocks : b # i => state'[b] = state[b]
      BY <2>1, <1>f, <1>j DEF TypeOK
    <3>1. i \in Counted /\ Counted' = Counted \ {i}
      BY <2>1, <3>a, <1>b, <1>j DEF Counted
    <3>2. Cardinality(Counted \ {i}) = Cardinality(Counted) - 1
      BY <3>1, CountedFinite, FS_RemoveElement
    <3> QED
      BY <2>1, <1>e, <1>f, <3>1, <3>2 DEF CountOk
  <2>2. CASE state[i] # "CLEAN"
    <3>1. Counted' = Counted
      BY <2>2, <1>b, <1>f DEF Counted
    <3> QED
      BY <2>2, <1>e, <1>f, <3>1 DEF CountOk
  <2> QED
    BY <2>1, <2>2
<1> QED
  BY <1>1, <1>2, <1>3, <1>4, <1>5, <1>6, <1>7, <1>8, <1>9, <1>10 DEF LayoutInv

LEMMA BlockEraseStep ==
  ASSUME LayoutInv, BlockErase
  PROVE  LayoutInv'
<1> USE KVAssumption, Geometry DEF LayoutInv, BlockErase, ram, regs, hist
<1>a. cur[1] \in Blocks
  BY DEF CursorOk, Formatting
<1>b. log'[cur[1]] = [o \in Offs |-> Erased] /\ (\A b \in Blocks : b # cur[1] => log'[b] = log[b]) /\ DOMAIN log' = Blocks
  BY <1>a DEF TypeOK
<1>c. log'[cur[1]] \in BlockLog /\ Empty(log'[cur[1]]) /\ Packed(log'[cur[1]], BHdr)
  <2>1. log'[cur[1]] \in BlockLog /\ Empty(log'[cur[1]])
    BY <1>b DEF BlockLog, Empty, Cell
  <2> QED
    BY <2>1, EmptyPacked
<1>1. TypeOK'
  <2>1. log' \in [Blocks -> [Offs -> Cell]]
    BY <1>a, <1>b, <1>c DEF TypeOK, BlockLog
  <2>2. hdr' \in [Blocks -> BlockState \union {NoState}]
    BY DEF TypeOK
  <2> QED
    BY <2>1, <2>2 DEF TypeOK, PCs
<1> USE DEF Calling, Deleting, Formatting, Scanning, Prefixing, Booting, Collecting
<1>2. ControlOk'
  BY DEF ControlOk
<1>3. UncleanOk'
  BY DEF UncleanOk
<1>4. CursorOk'
  BY DEF CursorOk, Walks
<1>5. PackedLogs'
  BY <1>b, <1>c DEF PackedLogs
<1>6. SpaceExact'
  <2>1. \A b \in Blocks : b \notin Unmeasured' => b # cur[1] /\ b \notin Unmeasured
    BY DEF Unmeasured
  <2> QED
    BY <1>b, <2>1 DEF SpaceExact
<1>7. WritePosOk'
  <2>1. ~Booting' => ret = "gcmark"
    BY DEF ControlOk
  <2>2. ret = "gcmark" => wpos \in Pos /\ Packed(log[wpos[1]], wpos[2]) /\ cur[1] # wpos[1]
    BY DEF WritePosOk, CollectOk
  <2> QED
    BY <1>b, <2>1, <2>2 DEF WritePosOk, Pos
<1>8. CollectOk'
  BY DEF CollectOk
<1>9. CleanEmpty'
  BY <1>b, <1>c DEF CleanEmpty, Uncounted
<1>10. CountOk'
  <2>1. Counted' = Counted
    BY DEF Counted, Uncounted
  <2> QED
    BY <2>1 DEF CountOk
<1> QED
  BY <1>1, <1>2, <1>3, <1>4, <1>5, <1>6, <1>7, <1>8, <1>9, <1>10 DEF LayoutInv

\* A traversal that stands on a cell can step over it, inside the block.
LEMMA WalkOn ==
  ASSUME LayoutInv, NEW w \in Walks, OnCell(w)
  PROVE  /\ cur[1] \in Blocks /\ cur[2] \in Offs /\ cur \in Pos /\ cur = <<cur[1], cur[2]>>
         /\ cur[2] \in Ends(log[cur[1]]) /\ log[cur[1]] \in BlockLog
         /\ Here \in Cell /\ Here # Erased /\ CellLen(Here) \in Nat
         /\ cur[2] + CellLen(Here) \in Ends(log[cur[1]])
         /\ cur[2] + CellLen(Here) \in Offs /\ cur[2] + CellLen(Here) \in Nat
<1> USE DEF LayoutInv, OnCell, InBlock
<1>1. cur[1] \in Blocks /\ cur[2] \in Ends(log[cur[1]])
  BY DEF CursorOk, Prefixing, Scanning, Walks
<1>2. log[cur[1]] \in BlockLog
  BY <1>1, BlockLogs
<1>3. PICK e \in Offs : Packed(log[cur[1]], e)
  BY <1>1 DEF PackedLogs
<1>4. \A x \in Ends(log[cur[1]]) : x \in Offs
  BY <1>2, <1>3, PackedEnd
<1>5. cur[2] \in Offs /\ cur = <<cur[1], cur[2]>> /\ cur \in Pos
  BY <1>1, <1>4 DEF TypeOK, Pos
<1>6. Here \in Cell /\ Here # Erased
  BY <1>2, <1>5 DEF Here, BlockLog, IsEnd
<1>7. CellLen(Here) \in Nat
  BY <1>6, CellLenBound
<1>8. cur[2] + CellLen(Here) \in Ends(log[cur[1]])
  BY <1>5, <1>6 DEF Ends, Here
<1> QED
  BY <1>1, <1>2, <1>4, <1>5, <1>6, <1>7, <1>8, Geometry

\* A traversal that has come to its end has found the end of the log.
LEMMA WalkEnd ==
  ASSUME LayoutInv, NEW w \in Walks, OnEnd(w)
  PROVE  /\ cur[1] \in Blocks /\ cur[2] \in Offs /\ log[cur[1]] \in BlockLog
         /\ Packed(log[cur[1]], cur[2]) /\ SpaceFrom(cur[2]) = BSize - cur[2]
<1> USE DEF LayoutInv, OnEnd, InBlock
<1>1. cur[1] \in Blocks /\ cur[2] \in Ends(log[cur[1]])
  BY DEF CursorOk, Prefixing, Scanning, Walks
<1>2. log[cur[1]] \in BlockLog
  BY <1>1, BlockLogs
<1>3. PICK e \in Offs : Packed(log[cur[1]], e)
  BY <1>1 DEF PackedLogs
<1>4. cur[2] = e
  BY <1>1, <1>2, <1>3, PackedEnd
<1> QED
  BY <1>1, <1>2, <1>3, <1>4, Geometry DEF SpaceFrom

\* An item that is not garbage is a live item.
LEMMA LiveHere ==
  ASSUME LayoutInv, NEW w \in Walks, OnLive(w)
  PROVE  OnCell(w) /\ Here \in Item /\ Here.kind = "item" /\ IsItem(cur)
<1>1. OnCell(w) /\ ~IsGarbage(Here)
  BY DEF OnLive
<1>2. Here \in Cell /\ Here # Erased /\ cur \in Pos
  BY <1>1, WalkOn
<1>3. Here \in Item
  BY <1>1, <1>2 DEF Cell, IsGarbage, Junk
<1>4. Here.kind = "item"
  BY <1>3 DEF Item
<1> QED
  BY <1>1, <1>2, <1>3, <1>4 DEF IsItem, Here

LEMMA SkipGarbageStep ==
  ASSUME LayoutInv, SkipGarbage
  PROVE  LayoutInv'
<1> USE KVAssumption, Geometry DEF LayoutInv, hist
<1>a. PICK w \in Walks : OnCell(w)
  BY DEF SkipGarbage
<1>b. /\ cur[1] \in Blocks /\ cur[2] \in Offs /\ cur \in Pos
      /\ cur[2] + CellLen(Here) \in Ends(log[cur[1]]) /\ CellLen(Here) \in Nat
      /\ cur[2] + CellLen(Here) \in Offs
  BY <1>a, WalkOn
<1>c. cur' = <<cur[1], cur[2] + CellLen(Here)>> /\ cur'[1] = cur[1] /\ cur'[2] = cur[2] + CellLen(Here)
  BY DEF SkipGarbage, Onward
<1>d. /\ hdr' \in [Blocks -> BlockState \union {NoState}] /\ state' \in [Blocks -> BlockState \union {NoState}]
      /\ \A b \in Blocks : state'[b] = "CLEAN" <=> state[b] = "CLEAN"
      /\ \A b \in Blocks : b # cur[1] => state'[b] = state[b]
  BY <1>b DEF SkipGarbage, SetBlockState, TypeOK, BlockState
<1>e. UNCHANGED <<log, space, clean, wpos, gc_trigger, pc, ret, op, unclean, want, gcCut, crashes>>
  BY DEF SkipGarbage
<1>f. pc \in Walks /\ cur[2] # 0
  BY <1>a DEF OnCell, InBlock
<1>g. cur'[2] \in Nat /\ cur'[2] # 0 /\ cur'[2] >= cur[2] /\ cur[2] \in Nat
  <2>1. cur[2] \in Nat /\ cur[2] > 0
    BY <1>b DEF Offs
  <2>2. \A m, n \in Nat : m > 0 => m + n \in Nat /\ m + n # 0 /\ m + n >= m
    BY SMT
  <2> QED
    BY <2>1, <2>2, <1>b, <1>c
<1>1. TypeOK'
  <2>1. cur' \in (0 .. NB) \X (0 .. BSize)
    BY <1>b, <1>c DEF Blocks, Offs
  <2> QED
    BY <1>d, <1>e, <2>1 DEF TypeOK
<1> USE DEF Calling, Deleting, Formatting, Scanning, Prefixing, Booting, Collecting
<1>2. ControlOk'
  BY <1>e, <1>f DEF ControlOk, Walks
<1>3. UncleanOk'
  <2>1. \A b \in unclean : b \in Blocks
    BY DEF TypeOK
  <2> QED
    BY <1>c, <1>d, <1>e, <1>f, <2>1 DEF UncleanOk, Walks
<1>4. CursorOk'
  BY <1>b, <1>c, <1>d, <1>e, <1>f, <1>g DEF CursorOk, Walks
<1>5. PackedLogs'
  BY <1>e DEF PackedLogs
<1>6. SpaceExact'
  <2>1. Unmeasured' = Unmeasured
    BY <1>c, <1>e DEF Unmeasured
  <2> QED
    BY <1>e, <2>1 DEF SpaceExact
<1>7. WritePosOk'
  BY <1>d, <1>e DEF WritePosOk, Pos
<1>8. CollectOk'
  <2>1. pc = "gccopy" => wpos[2] \in Nat /\ wpos[1] \in Blocks
    BY DEF WritePosOk, Pos, Offs
  <2>2. \A i, j, k \in Nat : i <= j /\ k >= j => i <= k
    BY SMT
  <2>3. pc = "gccopy" => wpos[2] <= cur'[2]
    BY <1>g, <2>1, <2>2 DEF CollectOk
  <2> QED
    BY <1>b, <1>c, <1>d, <1>e, <1>f, <2>1, <2>3 DEF CollectOk, Walks
<1>9. CleanEmpty'
  BY <1>c, <1>d, <1>e, <1>f DEF CleanEmpty, Uncounted, Walks
<1>10. CountOk'
  <2>1. Counted' = Counted
    BY <1>c, <1>d, <1>e DEF Counted, Uncounted
  <2> QED
    BY <1>e, <1>f, <2>1 DEF CountOk, Walks
<1> QED
  BY <1>1, <1>2, <1>3, <1>4, <1>5, <1>6, <1>7, <1>8, <1>9, <1>10 DEF LayoutInv

LEMMA BlockFormatStep ==
  ASSUME LayoutInv, BlockFormat
  PROVE  LayoutInv'
<1> USE KVAssumption, Geometry DEF LayoutInv, regs, hist
<1>a. cur[1] \in Blocks /\ pc = "format" /\ Empty(log[cur[1]]) /\ ret \in {"gcmark", "next", "unclean", "choose"}
  BY DEF BlockFormat, CursorOk, CleanEmpty, ControlOk, Formatting
<1>b. log[cur[1]] \in BlockLog /\ Packed(log[cur[1]], BHdr)
  BY <1>a, BlockLogs, EmptyPacked
<1>c. /\ state' = [state EXCEPT ![cur[1]] = "CLEAN"] /\ hdr' = [hdr EXCEPT ![cur[1]] = "CLEAN"]
      /\ space' = [space EXCEPT ![cur[1]] = BSize - BHdr] /\ clean' = clean + 1 /\ pc' = ret
      /\ UNCHANGED <<log, wpos, gc_trigger, ret, op, cur, unclean, want, gcCut, crashes>>
  BY DEF BlockFormat, SetBlockState
<1>d. /\ state'[cur[1]] = "CLEAN" /\ space'[cur[1]] = BSize - BHdr
      /\ \A b \in Blocks : b # cur[1] => state'[b] = state[b] /\ space'[b] = space[b]
  BY <1>a, <1>c DEF TypeOK
<1>1. TypeOK'
  <2>1. BSize - BHdr \in 0 .. BSize
    BY SMT DEF Offs
  <2>2. space' \in [Blocks -> 0 .. BSize]
    BY <1>a, <1>c, <2>1 DEF TypeOK
  <2>3. state' \in [Blocks -> BlockState \union {NoState}] /\ hdr' \in [Blocks -> BlockState \union {NoState}]
    BY <1>a, <1>c DEF TypeOK, BlockState
  <2>4. clean' \in Int
    BY <1>c DEF TypeOK
  <2> QED
    BY <1>a, <1>c, <2>2, <2>3, <2>4 DEF TypeOK, PCs
<1> USE DEF Calling, Deleting, Formatting, Scanning, Prefixing, Booting, Collecting
<1>2. ControlOk'
  BY <1>a, <1>c DEF ControlOk
<1>3. UncleanOk'
  <2>1. \A b \in unclean : b \in Blocks /\ b # cur[1]
    BY <1>a DEF TypeOK, UncleanOk, CursorOk
  <2>2. unclean # {} => ret \in {"next", "unclean"}
    BY <1>a DEF UncleanOk
  <2>3. ret = "next" => \A b \in unclean : b < cur[1]
    BY <1>a DEF UncleanOk
  <2>4. \A b \in unclean : b <= cur[1] \/ ret # "next"
    <3>1. \A i, j \in Blocks : i < j => i <= j
      BY SMT DEF Blocks
    <3> QED
      BY <1>a, <2>1, <2>3, <3>1
  <2> QED
    BY <1>a, <1>c, <1>d, <2>1, <2>2, <2>4 DEF UncleanOk
<1>4. CursorOk'
  BY <1>a, <1>c, <1>d DEF CursorOk, Walks
<1>5. PackedLogs'
  BY <1>c DEF PackedLogs
<1>6. SpaceExact'
  <2> SUFFICES ASSUME NEW b \in Blocks, b \notin Unmeasured' PROVE Packed(log[b], BSize - space'[b])
    BY <1>c DEF SpaceExact
  <2>1. CASE b = cur[1]
    <3>1. BSize - (BSize - BHdr) = BHdr
      BY SMT
    <3> QED
      BY <2>1, <3>1, <1>b, <1>d
  <2>2. CASE b # cur[1]
    <3>1. b \notin Unmeasured
      BY <2>2, <1>a, <1>c DEF Unmeasured, Blocks
    <3> QED
      BY <2>2, <3>1, <1>d DEF SpaceExact
  <2> QED
    BY <2>1, <2>2
<1>7. WritePosOk'
  <2>1. ret # "gcmark" => Booting'
    BY <1>a, <1>c
  <2>2. ret = "gcmark" => ~Booting /\ Collecting'
    BY <1>a, <1>c
  <2> QED
    BY <1>a, <1>c, <2>1, <2>2 DEF WritePosOk
<1>8. CollectOk'
  <2>1. ret = "gcmark" => state[wpos[1]] = "CLEAN" /\ wpos[1] \in Blocks
    BY <1>a DEF CollectOk, WritePosOk, Pos
  <2>2. ret = "gcmark" => state'[wpos[1]] = "CLEAN"
    BY <1>d, <2>1
  <2> QED
    BY <1>a, <1>c, <2>2 DEF CollectOk
<1>9. CleanEmpty'
  <2>1. \A b \in Uncounted : b = cur[1] \/ b \in Uncounted'
    BY <1>a, <1>c DEF Uncounted
  <2>2. Collecting => Collecting'
    BY <1>a, <1>c
  <2> QED
    BY <1>a, <1>c, <1>d, <2>1, <2>2 DEF CleanEmpty
<1>10. CountOk'
  <2>1. cur[1] \notin Counted
    BY <1>a DEF Counted, Uncounted, CursorOk
  <2>2. cur[1] \notin Uncounted'
    BY <1>a, <1>c DEF Uncounted, UncleanOk, CursorOk, TypeOK
  <2>3. \A b \in Blocks : b # cur[1] => (b \in Uncounted' <=> b \in Uncounted)
    BY <1>a, <1>c DEF Uncounted
  <2>4. Counted' = Counted \union {cur[1]}
    BY <1>a, <1>d, <2>2, <2>3 DEF Counted
  <2>5. Cardinality(Counted \union {cur[1]}) = Cardinality(Counted) + 1 /\ Cardinality(Counted) \in Nat
    BY <2>1, CountedFinite, FS_AddElement
  <2>6. clean' = Cardinality(Counted') /\ clean' # 0
    BY <1>c, <2>4, <2>5 DEF CountOk
  <2> QED
    BY <1>a, <1>c, <2>6 DEF CountOk
<1> QED
  BY <1>1, <1>2, <1>3, <1>4, <1>5, <1>6, <1>7, <1>8, <1>9, <1>10 DEF LayoutInv

LEMMA GcStartStep ==
  ASSUME LayoutInv, GcStart
  PROVE  LayoutInv'
<1> USE KVAssumption, Geometry DEF LayoutInv, GcStart, flash, hist
<1>a. pc = "idle" /\ UNCHANGED <<log, hdr, state, space, clean, ret, op, unclean, want, gcCut, crashes>>
  OBVIOUS
<1>b. unclean = {} /\ Uncounted = {} /\ Unmeasured = {} /\ wpos \in Pos /\ Packed(log[wpos[1]], wpos[2]) /\ state[wpos[1]] # "CLEAN"
  BY <1>a DEF UncleanOk, Uncounted, Unmeasured, WritePosOk, Calling, Deleting, Formatting, Scanning, Prefixing, Booting, Collecting
<1>c. \/ pc' = "idle" /\ gc_trigger' = FALSE /\ wpos' = wpos /\ cur' = cur
      \/ /\ pc' = "gccopy" /\ gc_trigger' = gc_trigger
         /\ \E d \in CleanBlocks, s \in DirtyBlocks : wpos' = <<d, BHdr>> /\ cur' = <<s, BHdr>>
  BY <1>a
<1>d. pc' = "gccopy" => /\ cur' \in Pos /\ cur'[1] \in Blocks /\ cur'[2] = BHdr /\ state[cur'[1]] = "DIRTY"
                       /\ wpos' \in Pos /\ wpos'[1] \in Blocks /\ wpos'[2] = BHdr /\ state[wpos'[1]] = "CLEAN"
  BY <1>c DEF CleanBlocks, DirtyBlocks, Pos
<1>e. pc' = "gccopy" => Packed(log[wpos'[1]], BHdr)
  <2>1. \A b \in Blocks : state[b] = "CLEAN" => Empty(log[b])
    BY <1>a, <1>b DEF CleanEmpty, Calling, Formatting, Collecting
  <2>2. \A b \in Blocks : state[b] = "CLEAN" => Packed(log[b], BHdr)
    BY <2>1, BlockLogs, EmptyPacked
  <2> QED
    BY <1>d, <2>2
<1>f. pc' \in {"idle", "gccopy"}
  BY <1>c
<1> HIDE DEF GcStart
<1>1. TypeOK'
  <2>1. cur' \in (0 .. NB) \X (0 .. BSize)
    <3>1. Pos \subseteq (0 .. NB) \X (0 .. BSize)
      BY DEF Pos, Blocks, Offs
    <3> QED
      BY <1>c, <1>d, <3>1 DEF TypeOK
  <2>2. gc_trigger' \in BOOLEAN
    BY <1>c, Zenon DEF TypeOK
  <2>3. wpos' \in Pos \union {NoPos}
    BY <1>b, <1>c, <1>d
  <2> QED
    BY <1>a, <1>f, <2>1, <2>2, <2>3 DEF TypeOK, PCs
<1> USE DEF Calling, Deleting, Formatting, Scanning, Prefixing, Booting, Collecting
<1>2. ControlOk'
  BY <1>a, <1>f DEF ControlOk
<1>3. UncleanOk'
  BY <1>a, <1>b, <1>f DEF UncleanOk
<1>4. CursorOk'
  <2>1. BHdr \in Ends(log[cur'[1]])
    BY DEF Ends
  <2> QED
    BY <1>a, <1>d, <1>f, <2>1 DEF CursorOk, Walks
<1>5. PackedLogs'
  BY <1>a DEF PackedLogs
<1>6. SpaceExact'
  BY <1>a, <1>b, <1>f DEF SpaceExact, Unmeasured
<1>7. WritePosOk'
  BY <1>a, <1>b, <1>c, <1>d, <1>e DEF WritePosOk
<1>8. CollectOk'
  BY <1>a, <1>d, <1>f DEF CollectOk
<1>9. CleanEmpty'
  BY <1>a, <1>b, <1>f DEF CleanEmpty, Uncounted
<1>10. CountOk'
  <2>1. Counted' = Counted
    BY <1>a, <1>b, <1>f DEF Counted, Uncounted
  <2> QED
    BY <1>a, <1>f, <2>1 DEF CountOk
<1> QED
  BY <1>1, <1>2, <1>3, <1>4, <1>5, <1>6, <1>7, <1>8, <1>9, <1>10 DEF LayoutInv

LEMMA GcCopiedStep ==
  ASSUME LayoutInv, GcCopied
  PROVE  LayoutInv'
<1> USE KVAssumption, Geometry DEF LayoutInv, GcCopied, flash, hist
<1>a. pc = "gccopy" /\ pc' = "erase" /\ ret' = "gcmark" /\ UNCHANGED <<log, hdr, state, clean, wpos, gc_trigger, op, cur, unclean, want, gcCut, crashes>>
  BY DEF OnEnd, InBlock
<1>b. /\ cur[1] \in Blocks /\ cur[2] \in Offs /\ log[cur[1]] \in BlockLog
      /\ Packed(log[cur[1]], cur[2]) /\ SpaceFrom(cur[2]) = BSize - cur[2]
  BY WalkEnd DEF Walks
<1>c. /\ space'[cur[1]] = BSize - cur[2] /\ \A b \in Blocks : b # cur[1] => space'[b] = space[b]
      /\ BSize - cur[2] \in 0 .. BSize
  BY <1>b DEF TypeOK, Offs
<1>d. space' \in [Blocks -> 0 .. BSize]
  BY <1>b, <1>c DEF TypeOK
<1>e. unclean = {} /\ Unmeasured = {} /\ Uncounted = {} /\ Unmeasured' = {} /\ Uncounted' = {}
  BY <1>a DEF UncleanOk, Uncounted, Unmeasured, Calling, Deleting, Formatting, Scanning, Prefixing, Booting, Collecting
<1> HIDE DEF GcCopied
<1>1. TypeOK'
  BY <1>a, <1>d DEF TypeOK, PCs
<1> USE DEF Calling, Deleting, Formatting, Scanning, Prefixing, Booting, Collecting
<1>2. ControlOk'
  BY <1>a DEF ControlOk
<1>3. UncleanOk'
  BY <1>a, <1>e DEF UncleanOk
<1>4. CursorOk'
  BY <1>a, <1>b DEF CursorOk, Walks, CollectOk
<1>5. PackedLogs'
  BY <1>a DEF PackedLogs
<1>6. SpaceExact'
  <2>1. BSize - (BSize - cur[2]) = cur[2]
    BY <1>b, Complement
  <2>2. \A b \in Blocks : Packed(log[b], BSize - space'[b])
    BY <1>b, <1>c, <1>e, <2>1 DEF SpaceExact
  <2> QED
    BY <1>a, <2>2 DEF SpaceExact
<1>7. WritePosOk'
  BY <1>a DEF WritePosOk
<1>8. CollectOk'
  BY <1>a DEF CollectOk
<1>9. CleanEmpty'
  BY <1>a, <1>e DEF CleanEmpty
<1>10. CountOk'
  <2>1. Counted' = Counted
    BY <1>a, <1>e DEF Counted
  <2> QED
    BY <1>a, <2>1 DEF CountOk
<1> QED
  BY <1>1, <1>2, <1>3, <1>4, <1>5, <1>6, <1>7, <1>8, <1>9, <1>10 DEF LayoutInv

LEMMA GcMarkStep ==
  ASSUME LayoutInv, GcMark
  PROVE  LayoutInv'
<1> USE KVAssumption, Geometry DEF LayoutInv, GcMark, SetBlockState, Return, flash, hist
<1>a. /\ pc = "gcmark" /\ pc' = "idle" /\ ret' = "idle" /\ op' = NoOp /\ cur' = NoPos /\ unclean' = {} /\ clean' = clean - 1
      /\ gc_trigger' = FALSE /\ UNCHANGED <<log, space, wpos, want, gcCut, crashes>>
  OBVIOUS
<1>b. /\ wpos \in Pos /\ wpos[1] \in Blocks /\ Packed(log[wpos[1]], wpos[2]) /\ state[wpos[1]] = "CLEAN"
  BY <1>a DEF WritePosOk, CollectOk, Pos, Calling, Deleting, Formatting, Scanning, Prefixing, Booting, Collecting
<1>c. /\ state'[wpos[1]] = "USED" /\ \A b \in Blocks : b # wpos[1] => state'[b] = state[b]
      /\ hdr' \in [Blocks -> BlockState \union {NoState}] /\ state' \in [Blocks -> BlockState \union {NoState}]
  BY <1>b DEF TypeOK, BlockState
<1>d. unclean = {} /\ Unmeasured = {} /\ Uncounted = {} /\ Unmeasured' = {} /\ Uncounted' = {}
  BY <1>a DEF UncleanOk, Uncounted, Unmeasured, Calling, Deleting, Formatting, Scanning, Prefixing, Booting, Collecting
<1> HIDE DEF GcMark, SetBlockState, Return
<1>1. TypeOK'
  <2>1. cur' \in (0 .. NB) \X (0 .. BSize) /\ clean' \in Int
    BY <1>a DEF NoPos, TypeOK
  <2>2. gc_trigger' \in BOOLEAN
    BY <1>a, Zenon
  <2> QED
    BY <1>a, <1>c, <2>1, <2>2, NoOpType DEF TypeOK, PCs
<1> USE DEF Calling, Deleting, Formatting, Scanning, Prefixing, Booting, Collecting
<1>2. ControlOk'
  BY <1>a DEF ControlOk
<1>3. UncleanOk'
  BY <1>a DEF UncleanOk
<1>4. CursorOk'
  BY <1>a DEF CursorOk, Walks
<1>5. PackedLogs'
  BY <1>a DEF PackedLogs
<1>6. SpaceExact'
  BY <1>a, <1>d DEF SpaceExact
<1>7. WritePosOk'
  BY <1>a, <1>b, <1>c DEF WritePosOk
<1>8. CollectOk'
  BY <1>a DEF CollectOk
<1>9. CleanEmpty'
  BY <1>a, <1>b, <1>c, <1>d DEF CleanEmpty
<1>10. CountOk'
  <2>1. Counted' = Counted \ {wpos[1]} /\ wpos[1] \in Counted
    BY <1>b, <1>c, <1>d DEF Counted
  <2>2. Cardinality(Counted \ {wpos[1]}) = Cardinality(Counted) - 1
    BY <2>1, CountedFinite, FS_RemoveElement
  <2> QED
    BY <1>a, <2>1, <2>2 DEF CountOk
<1> QED
  BY <1>1, <1>2, <1>3, <1>4, <1>5, <1>6, <1>7, <1>8, <1>9, <1>10 DEF LayoutInv

LEMMA ScanNextStep ==
  ASSUME LayoutInv, ScanNext
  PROVE  LayoutInv'
<1> USE KVAssumption, Geometry DEF LayoutInv, ScanNext, flash, ram, hist
<1>a. /\ pc = "next" /\ cur[1] \in Blocks
      /\ UNCHANGED <<log, hdr, state, space, clean, wpos, gc_trigger, ret, op, unclean, want, gcCut, crashes>>
  BY DEF CursorOk
<1>b. \/ cur[1] + 1 = NB /\ pc' = "unclean" /\ cur' = cur
      \/ cur[1] + 1 # NB /\ pc' = "scan" /\ cur' = <<cur[1] + 1, 0>>
  OBVIOUS
<1>c. pc' = "scan" => cur'[1] = cur[1] + 1 /\ cur'[2] = 0 /\ cur'[1] \in Blocks /\ cur' \in (0 .. NB) \X (0 .. BSize)
  BY <1>a, <1>b DEF Blocks
<1>d. pc' \in {"unclean", "scan"}
  BY <1>b
<1>e. \A b \in Blocks : b >= cur[1] + 1 <=> b > cur[1]
  BY <1>a DEF Blocks
<1>f. \A b \in Blocks : b > cur[1] => state[b] = NoState
  BY <1>a DEF CursorOk
<1>g. pc' = "unclean" => \A b \in Blocks : ~(b > cur[1])
  BY <1>a, <1>b DEF Blocks
<1> HIDE DEF ScanNext
<1>1. TypeOK'
  <2>1. cur' \in (0 .. NB) \X (0 .. BSize)
    BY <1>b, <1>c DEF TypeOK
  <2> QED
    BY <1>a, <1>d, <2>1 DEF TypeOK, PCs
<1> USE DEF Calling, Deleting, Formatting, Scanning, Prefixing, Booting, Collecting
<1>2. ControlOk'
  BY <1>a, <1>d DEF ControlOk
<1>3. UncleanOk'
  <2>1. \A b \in unclean : b \in Blocks /\ b <= cur[1] /\ state[b] = "CLEAN"
    BY <1>a DEF UncleanOk, TypeOK
  <2>2. pc' = "scan" => \A b \in unclean : b < cur'[1]
    BY <1>a, <1>c, <2>1 DEF Blocks
  <2> QED
    BY <1>a, <1>d, <2>1, <2>2 DEF UncleanOk
<1>4. CursorOk'
  <2>1. pc' = "scan" => \A b \in Blocks : b > cur'[1] \/ b = cur'[1] => state[b] = NoState
    BY <1>a, <1>c, <1>f DEF Blocks
  <2> QED
    BY <1>a, <1>c, <1>d, <2>1 DEF CursorOk, Walks
<1>5. PackedLogs'
  BY <1>a DEF PackedLogs
<1>6. SpaceExact'
  <2>1. Unmeasured' = Unmeasured
    BY <1>a, <1>c, <1>d, <1>e, <1>g DEF Unmeasured
  <2> QED
    BY <1>a, <2>1 DEF SpaceExact
<1>7. WritePosOk'
  BY <1>a, <1>d DEF WritePosOk
<1>8. CollectOk'
  BY <1>a, <1>d DEF CollectOk
<1>9. CleanEmpty'
  <2>1. \A b \in Uncounted : b \in Uncounted'
    BY <1>a DEF Uncounted
  <2> QED
    BY <1>a, <1>d, <2>1 DEF CleanEmpty
<1>10. CountOk'
  <2>1. \A b \in Uncounted' : b \in Uncounted \/ (b \in Blocks /\ state[b] = NoState)
    <3>1. pc' = "scan" => state[cur'[1]] = NoState
      BY <1>a, <1>c, <1>f DEF Blocks
    <3> QED
      BY <1>a, <1>d, <3>1 DEF Uncounted
  <2>2. \A b \in Uncounted : b \in Uncounted'
    BY <1>a DEF Uncounted
  <2>3. Counted' = Counted
    BY <1>a, <2>1, <2>2 DEF Counted, NoState
  <2> QED
    BY <1>a, <1>d, <2>3 DEF CountOk
<1> QED
  BY <1>1, <1>2, <1>3, <1>4, <1>5, <1>6, <1>7, <1>8, <1>9, <1>10 DEF LayoutInv

LEMMA UncleanDoneStep ==
  ASSUME LayoutInv, UncleanDone
  PROVE  LayoutInv'
<1> USE KVAssumption, Geometry DEF LayoutInv, UncleanDone, flash, ram, hist
<1>a. /\ pc = "unclean" /\ unclean = {}
      /\ UNCHANGED <<log, hdr, state, space, clean, wpos, gc_trigger, op, unclean, want, gcCut, crashes>>
  OBVIOUS
<1>b. \/ clean = 0 /\ pc' = "erase" /\ ret' = "choose" /\ cur' = <<0, 0>>
      \/ clean # 0 /\ pc' = "choose" /\ ret' = ret /\ cur' = cur
  OBVIOUS
<1>c. Uncounted = {} /\ Uncounted' = {} /\ Unmeasured = {} /\ Unmeasured' = {}
  BY <1>a, <1>b DEF UncleanOk, Uncounted, Unmeasured, Calling, Deleting, Formatting, Scanning, Prefixing, Booting, Collecting
<1>d. Counted' = Counted /\ clean = Cardinality(Counted)
  BY <1>a, <1>c DEF Counted, CountOk
<1>e. clean = 0 => Counted = {}
  BY <1>d, CountedFinite, FS_EmptySet
<1>f. pc' = "erase" => /\ cur'[1] = 0 /\ cur'[1] \in Blocks /\ cur' \in (0 .. NB) \X (0 .. BSize) /\ state[cur'[1]] # "CLEAN"
                      /\ Counted' = {} /\ ret' = "choose"
  BY <1>b, <1>c, <1>d, <1>e DEF Blocks, Counted
<1>g. pc' = "choose" => clean # 0
  BY <1>b
<1>h. pc' \in {"erase", "choose"}
  BY <1>b
<1> HIDE DEF UncleanDone
<1>1. TypeOK'
  <2>1. cur' \in (0 .. NB) \X (0 .. BSize)
    BY <1>b, <1>f DEF TypeOK
  <2>2. ret' \in PCs
    BY <1>b DEF TypeOK, PCs
  <2> QED
    BY <1>a, <1>h, <2>1, <2>2 DEF TypeOK, PCs
<1> USE DEF Calling, Deleting, Formatting, Scanning, Prefixing, Booting, Collecting
<1>2. ControlOk'
  BY <1>f, <1>h DEF ControlOk
<1>3. UncleanOk'
  BY <1>a DEF UncleanOk
<1>4. CursorOk'
  BY <1>a, <1>f, <1>h DEF CursorOk, Walks
<1>5. PackedLogs'
  BY <1>a DEF PackedLogs
<1>6. SpaceExact'
  BY <1>a, <1>c DEF SpaceExact
<1>7. WritePosOk'
  BY <1>a, <1>f, <1>h DEF WritePosOk
<1>8. CollectOk'
  BY <1>a, <1>f, <1>h DEF CollectOk
<1>9. CleanEmpty'
  BY <1>a, <1>c, <1>h DEF CleanEmpty
<1>10. CountOk'
  BY <1>a, <1>d, <1>f, <1>g, <1>h DEF CountOk
<1> QED
  BY <1>1, <1>2, <1>3, <1>4, <1>5, <1>6, <1>7, <1>8, <1>9, <1>10 DEF LayoutInv

LEMMA ScanHeaderStep ==
  ASSUME LayoutInv, ScanHeader
  PROVE  LayoutInv'
<1> USE KVAssumption, Geometry DEF LayoutInv, ScanHeader, flash, hist
<1>a. /\ pc = "scan" /\ cur[2] = 0 /\ cur[1] \in Blocks
      /\ UNCHANGED <<log, hdr, space, clean, wpos, gc_trigger, op, unclean, want, gcCut, crashes>>
  BY DEF CursorOk, Scanning
<1>b. \/ pc' = "erase" /\ ret' = "next" /\ cur' = cur /\ state' = state
      \/ pc' = "scan" /\ ret' = ret /\ cur' = <<cur[1], BHdr>> /\ state' = [state EXCEPT ![cur[1]] = hdr[cur[1]]]
  OBVIOUS
<1>c. cur'[1] = cur[1] /\ pc' \in {"erase", "scan"} /\ (pc' = "erase" => ret' = "next") /\ (pc' = "scan" => cur'[2] = BHdr)
  BY <1>b
<1>d. /\ state' \in [Blocks -> BlockState \union {NoState}]
      /\ \A b \in Blocks : b # cur[1] => state'[b] = state[b]
      /\ pc' = "erase" => state' = state
  BY <1>a, <1>b DEF TypeOK
<1>e. \A b \in Blocks : b > cur[1] \/ b = cur[1] => state[b] = NoState
  BY <1>a DEF CursorOk, Scanning
<1>f. \A b \in unclean : b \in Blocks /\ b < cur[1] /\ state[b] = "CLEAN" /\ b # cur[1]
  BY <1>a DEF UncleanOk, TypeOK, Scanning, Blocks
<1> HIDE DEF ScanHeader
<1>1. TypeOK'
  <2>1. cur' \in (0 .. NB) \X (0 .. BSize)
    BY <1>a, <1>b DEF TypeOK, Blocks, Offs
  <2>2. ret' \in PCs
    BY <1>b DEF TypeOK, PCs
  <2> QED
    BY <1>a, <1>c, <1>d, <2>1, <2>2 DEF TypeOK, PCs
<1> USE DEF Calling, Deleting, Formatting, Scanning, Prefixing, Booting, Collecting
<1>2. ControlOk'
  BY <1>c DEF ControlOk
<1>3. UncleanOk'
  BY <1>a, <1>c, <1>d, <1>f DEF UncleanOk
<1>4. CursorOk'
  <2>1. BHdr \in Ends(log[cur[1]])
    BY DEF Ends
  <2>2. \A b \in Blocks : b > cur[1] => b # cur[1]
    BY <1>a
  <2>3. state[cur[1]] = NoState /\ NoState # "CLEAN"
    BY <1>a, <1>e DEF NoState
  <2>4. \A b \in Blocks : b > cur[1] => state'[b] = NoState
    BY <1>d, <1>e, <2>2
  <2> QED
    BY <1>a, <1>c, <1>d, <2>1, <2>3, <2>4 DEF CursorOk, Walks
<1>5. PackedLogs'
  BY <1>a DEF PackedLogs
<1>6. SpaceExact'
  <2>1. Unmeasured' = Unmeasured
    BY <1>a, <1>c DEF Unmeasured
  <2> QED
    BY <1>a, <2>1 DEF SpaceExact
<1>7. WritePosOk'
  BY <1>a, <1>c DEF WritePosOk
<1>8. CollectOk'
  BY <1>a, <1>c DEF CollectOk
<1>9. CleanEmpty'
  <2>1. \A b \in Blocks : b # cur[1] => (b \in Uncounted <=> b \in Uncounted')
    BY <1>a, <1>c DEF Uncounted
  <2>2. pc' = "scan" => cur[1] \in Uncounted'
    BY <1>a, <1>c DEF Uncounted
  <2>3. state[cur[1]] # "CLEAN"
    BY <1>a, <1>e DEF NoState
  <2> QED
    BY <1>a, <1>c, <1>d, <2>1, <2>2, <2>3 DEF CleanEmpty
<1>10. CountOk'
  <2>1. \A b \in Blocks : b # cur[1] => (b \in Uncounted <=> b \in Uncounted')
    BY <1>a, <1>c DEF Uncounted
  <2>2. pc' = "scan" => cur[1] \in Uncounted'
    BY <1>a, <1>c DEF Uncounted
  <2>3. state[cur[1]] # "CLEAN"
    BY <1>a, <1>e DEF NoState
  <2>4. Counted' = Counted
    BY <1>a, <1>c, <1>d, <2>1, <2>2, <2>3 DEF Counted
  <2> QED
    BY <1>a, <1>c, <2>4 DEF CountOk
<1> QED
  BY <1>1, <1>2, <1>3, <1>4, <1>5, <1>6, <1>7, <1>8, <1>9, <1>10 DEF LayoutInv

LEMMA ScanItemStep ==
  ASSUME LayoutInv, ScanItem
  PROVE  LayoutInv'
<1> USE KVAssumption, Geometry DEF LayoutInv, ScanItem, Onward, flash, ram, hist
<1>a. /\ pc = "scan" /\ cur[2] # 0 /\ OnCell("scan")
      /\ UNCHANGED <<log, hdr, state, space, clean, wpos, gc_trigger, unclean, want, gcCut, crashes>>
  BY DEF OnLive, OnCell, InBlock
<1>b. /\ cur[1] \in Blocks /\ cur \in Pos /\ CellLen(Here) \in Nat
      /\ cur[2] + CellLen(Here) \in Ends(log[cur[1]]) /\ cur[2] + CellLen(Here) \in Offs
  BY <1>a, WalkOn DEF Walks
<1>c. Here \in Item /\ IsItem(cur)
  BY LiveHere DEF Walks
<1>d. cur' = <<cur[1], cur[2] + CellLen(Here)>> /\ cur'[1] = cur[1] /\ cur'[2] = cur[2] + CellLen(Here) /\ cur'[2] # 0
  BY <1>b
<1>e. \/ pc' = "scan" /\ ret' = ret /\ op' = op
      \/ \E p \in Pos : IsItem(p) /\ op' = [op EXCEPT !.old = p] /\ ret' = "scan" /\ pc' = "del"
  <2>1. CASE Superseded(Here, cur)
    <3>1. Here.origin_off \in Pos
      BY <1>c, <2>1 DEF Superseded, Item
    <3>2. IsItem(Here.origin_off)
      BY <2>1, <3>1 DEF Superseded, IsLive, IsItem
    <3> QED
      BY <1>a, <1>b, <1>c, <2>1, <3>1, <3>2
  <2>2. CASE ~Superseded(Here, cur)
    BY <1>a, <1>b, <1>c, <2>2
  <2> QED
    BY <2>1, <2>2
<1>f. /\ pc' \in {"scan", "del"} /\ op' \in OpType
      /\ pc' = "del" => ret' = "scan" /\ op'.old \in Pos /\ IsItem(op'.old)
  BY <1>e, SMTT(20) DEF TypeOK, OpType
<1> HIDE DEF ScanItem
<1>1. TypeOK'
  <2>1. cur' \in (0 .. NB) \X (0 .. BSize)
    BY <1>b, <1>d, SMTT(20) DEF TypeOK, Blocks, Offs
  <2>2. ret' \in PCs
    BY <1>e DEF TypeOK, PCs
  <2> QED
    BY <1>a, <1>f, <2>1, <2>2 DEF TypeOK, PCs, OpType
<1> USE DEF Calling, Deleting, Formatting, Scanning, Prefixing, Booting, Collecting
<1>2. ControlOk'
  <2>1. pc' = "del" => IsItem(op.old)'
    BY <1>a, <1>f DEF IsItem
  <2> QED
    BY <1>a, <1>f, <2>1 DEF ControlOk
<1>3. UncleanOk'
  BY <1>a, <1>d, <1>f DEF UncleanOk
<1>4. CursorOk'
  BY <1>a, <1>b, <1>d, <1>f DEF CursorOk, Walks
<1>5. PackedLogs'
  BY <1>a DEF PackedLogs
<1>6. SpaceExact'
  <2>1. Unmeasured' = Unmeasured
    BY <1>a, <1>d, <1>f DEF Unmeasured
  <2> QED
    BY <1>a, <2>1 DEF SpaceExact
<1>7. WritePosOk'
  BY <1>a, <1>f DEF WritePosOk
<1>8. CollectOk'
  BY <1>a, <1>f DEF CollectOk
<1>9. CleanEmpty'
  <2>1. Uncounted' = Uncounted
    BY <1>a, <1>d, <1>f DEF Uncounted
  <2> QED
    BY <1>a, <1>f, <2>1 DEF CleanEmpty
<1>10. CountOk'
  <2>1. Counted' = Counted
    BY <1>a, <1>d, <1>f DEF Counted, Uncounted
  <2> QED
    BY <1>a, <1>f, <2>1 DEF CountOk
<1> QED
  BY <1>1, <1>2, <1>3, <1>4, <1>5, <1>6, <1>7, <1>8, <1>9, <1>10 DEF LayoutInv

LEMMA ScanEndStep ==
  ASSUME LayoutInv, ScanEnd
  PROVE  LayoutInv'
<1> USE KVAssumption, Geometry DEF LayoutInv, ScanEnd, flash, hist
<1>a. /\ pc = "scan" /\ pc' = "next" /\ OnEnd("scan") /\ cur[2] # 0
      /\ UNCHANGED <<log, hdr, state, wpos, gc_trigger, ret, op, cur, want, gcCut, crashes>>
  BY DEF OnEnd, InBlock
<1>b. /\ cur[1] \in Blocks /\ cur[2] \in Offs /\ log[cur[1]] \in BlockLog
      /\ Packed(log[cur[1]], cur[2]) /\ SpaceFrom(cur[2]) = BSize - cur[2]
  BY <1>a, WalkEnd DEF Walks
<1>c. /\ space'[cur[1]] = BSize - cur[2] /\ \A b \in Blocks : b # cur[1] => space'[b] = space[b]
      /\ BSize - cur[2] \in 0 .. BSize
  BY <1>b DEF TypeOK, Offs
<1>d. space' \in [Blocks -> 0 .. BSize]
  BY <1>b, <1>c DEF TypeOK
<1> DEFINE new == state[cur[1]] = "CLEAN" /\ cur[2] = BHdr
<1>e. /\ new => Empty(log[cur[1]]) /\ unclean' = unclean /\ clean' = clean + 1
      /\ ~new => clean' = clean
      /\ unclean' = IF state[cur[1]] = "CLEAN" /\ ~new THEN unclean \union {cur[1]} ELSE unclean
  <2>1. (BSize - cur[2] = BSize - BHdr) <=> cur[2] = BHdr
    BY <1>b, Complement
  <2>2. new => Empty(log[cur[1]])
    BY <1>b, PackedAtStart
  <2> QED
    BY <1>c, <2>1, <2>2
<1>f. \A b \in unclean : b \in Blocks /\ b < cur[1] /\ state[b] = "CLEAN" /\ b # cur[1]
  BY <1>a DEF UncleanOk, TypeOK, Scanning, Blocks
<1> HIDE DEF ScanEnd, new
<1>1. TypeOK'
  <2>1. clean' \in Int
    BY <1>e DEF TypeOK
  <2>2. unclean' \subseteq Blocks
    BY <1>b, <1>e DEF TypeOK
  <2> QED
    BY <1>a, <1>d, <2>1, <2>2 DEF TypeOK, PCs
<1> USE DEF Calling, Deleting, Formatting, Scanning, Prefixing, Booting, Collecting
<1>2. ControlOk'
  BY <1>a DEF ControlOk
<1>3. UncleanOk'
  <2>1. \A b \in unclean' : b \in Blocks /\ b <= cur[1] /\ state[b] = "CLEAN"
    BY <1>b, <1>e, <1>f DEF Blocks
  <2> QED
    BY <1>a, <2>1 DEF UncleanOk
<1>4. CursorOk'
  BY <1>a, <1>b DEF CursorOk, Walks
<1>5. PackedLogs'
  BY <1>a DEF PackedLogs
<1>6. SpaceExact'
  <2>1. BSize - (BSize - cur[2]) = cur[2]
    BY <1>b, Complement
  <2>2. \A b \in Blocks : b \notin Unmeasured' => b = cur[1] \/ b \notin Unmeasured
    BY <1>a, <1>b DEF Unmeasured, Blocks
  <2>3. \A b \in Blocks : b \notin Unmeasured' => Packed(log[b], BSize - space'[b])
    BY <1>b, <1>c, <2>1, <2>2 DEF SpaceExact
  <2> QED
    BY <1>a, <2>3 DEF SpaceExact
<1>7. WritePosOk'
  BY <1>a DEF WritePosOk
<1>8. CollectOk'
  BY <1>a DEF CollectOk
<1>9. CleanEmpty'
  <2>1. \A b \in Blocks : b # cur[1] /\ b \in Uncounted => b \in Uncounted'
    BY <1>a, <1>e DEF Uncounted
  <2>2. state[cur[1]] = "CLEAN" => Empty(log[cur[1]]) \/ cur[1] \in Uncounted'
    BY <1>e DEF Uncounted
  <2> QED
    BY <1>a, <2>1, <2>2 DEF CleanEmpty
<1>10. CountOk'
  <2>1. Uncounted = unclean \union {cur[1]} /\ Uncounted' = unclean'
    BY <1>a, <1>b DEF Uncounted
  <2>2. cur[1] \notin Counted
    BY <2>1 DEF Counted
  <2>3. CASE new
    <3>1. Counted' = Counted \union {cur[1]}
      BY <1>a, <1>b, <1>e, <1>f, <2>1, <2>3 DEF Counted, new
    <3>2. Cardinality(Counted \union {cur[1]}) = Cardinality(Counted) + 1
      BY <2>2, CountedFinite, FS_AddElement
    <3> QED
      BY <1>a, <1>e, <2>3, <3>1, <3>2 DEF CountOk
  <2>4. CASE ~new
    <3>1. Counted' = Counted
      BY <1>a, <1>b, <1>e, <1>f, <2>1, <2>4 DEF Counted
    <3> QED
      BY <1>a, <1>e, <2>4, <3>1 DEF CountOk
  <2> QED
    BY <2>3, <2>4
<1> QED
  BY <1>1, <1>2, <1>3, <1>4, <1>5, <1>6, <1>7, <1>8, <1>9, <1>10 DEF LayoutInv

LEMMA UncleanBlockStep ==
  ASSUME LayoutInv, UncleanBlock
  PROVE  LayoutInv'
<1> USE KVAssumption, Geometry DEF LayoutInv, UncleanBlock, hist
<1>a. PICK x \in unclean : /\ unclean' = unclean \ {x}
                          /\ \/ SetBlockState(x, "DIRTY") /\ pc' = "unclean" /\ ret' = ret /\ cur' = cur
                             \/ cur' = <<x, 0>> /\ ret' = "unclean" /\ pc' = "erase" /\ hdr' = hdr /\ state' = state
  OBVIOUS
<1>b. pc = "unclean" /\ UNCHANGED <<log, space, clean, wpos, gc_trigger, op, want, gcCut, crashes>>
  OBVIOUS
<1>c. x \in Blocks /\ state[x] = "CLEAN" /\ unclean \subseteq Blocks /\ \A b \in unclean : state[b] = "CLEAN"
  BY DEF UncleanOk, TypeOK
<1>d. /\ hdr' \in [Blocks -> BlockState \union {NoState}] /\ state' \in [Blocks -> BlockState \union {NoState}]
      /\ \A b \in Blocks : b # x => state'[b] = state[b]
      /\ pc' = "unclean" => state'[x] = "DIRTY"
      /\ pc' = "erase" => state' = state
  BY <1>a, <1>c DEF SetBlockState, TypeOK, BlockState
<1>e. /\ pc' \in {"unclean", "erase"}
      /\ pc' = "erase" => cur'[1] = x /\ cur' = <<x, 0>> /\ ret' = "unclean"
      /\ pc' = "unclean" => cur' = cur /\ ret' = ret
  BY <1>a
<1>f. Uncounted = unclean /\ Unmeasured = {} /\ Unmeasured' = {}
  BY <1>b, <1>e DEF Uncounted, Unmeasured, Calling, Deleting, Formatting, Scanning, Prefixing, Booting, Collecting
<1>g. Uncounted' = unclean' \union {b \in Blocks : b = x /\ pc' = "erase"}
  BY <1>b, <1>e DEF Uncounted, Calling, Deleting, Formatting, Scanning, Prefixing, Booting, Collecting
<1> HIDE DEF UncleanBlock
<1>1. TypeOK'
  <2>1. cur' \in (0 .. NB) \X (0 .. BSize)
    BY <1>c, <1>e, SMTT(20) DEF TypeOK, Blocks
  <2>2. ret' \in PCs
    BY <1>e DEF TypeOK, PCs
  <2>3. unclean' \subseteq Blocks
    BY <1>a, <1>c
  <2> QED
    BY <1>b, <1>d, <1>e, <2>1, <2>2, <2>3 DEF TypeOK, PCs
<1> USE DEF Calling, Deleting, Formatting, Scanning, Prefixing, Booting, Collecting
<1>2. ControlOk'
  BY <1>e DEF ControlOk
<1>3. UncleanOk'
  <2>1. \A b \in unclean' : b # x /\ b \in Blocks /\ state'[b] = "CLEAN"
    BY <1>a, <1>c, <1>d
  <2> QED
    BY <1>e, <2>1 DEF UncleanOk
<1>4. CursorOk'
  BY <1>c, <1>e DEF CursorOk, Walks
<1>5. PackedLogs'
  BY <1>b DEF PackedLogs
<1>6. SpaceExact'
  BY <1>b, <1>f DEF SpaceExact
<1>7. WritePosOk'
  BY <1>b, <1>e DEF WritePosOk
<1>8. CollectOk'
  BY <1>e DEF CollectOk
<1>9. CleanEmpty'
  BY <1>a, <1>b, <1>c, <1>d, <1>e, <1>f, <1>g DEF CleanEmpty
<1>10. CountOk'
  <2>1. Counted' = Counted
    BY <1>a, <1>b, <1>c, <1>d, <1>e, <1>f, <1>g DEF Counted
  <2> QED
    BY <1>b, <1>e, <2>1 DEF CountOk
<1> QED
  BY <1>1, <1>2, <1>3, <1>4, <1>5, <1>6, <1>7, <1>8, <1>9, <1>10 DEF LayoutInv

\* The item that is being written fits behind the last cell of the write block.
LEMMA WritingFits ==
  ASSUME LayoutInv, Writing
  PROVE  /\ wpos \in Pos /\ wpos[1] \in Blocks /\ wpos[2] \in Offs
         /\ log[wpos[1]] \in BlockLog /\ Packed(log[wpos[1]], wpos[2])
         /\ Written \in Item /\ CellLen(Written) \in Nat /\ IHdr < CellLen(Written)
         /\ wpos[2] + CellLen(Written) < BSize
<1> USE KVAssumption, Geometry DEF LayoutInv
<1>1. wpos \in Pos /\ Packed(log[wpos[1]], wpos[2])
  BY DEF Writing, OnLive, OnCell, InBlock, WritePosOk, Booting, Scanning, Calling, Deleting, Formatting
<1>2. wpos[1] \in Blocks /\ wpos[2] \in Offs
  BY <1>1 DEF Pos
<1>3. log[wpos[1]] \in BlockLog
  BY <1>2, BlockLogs
<1>4. Written \in Item /\ wpos[2] + CellLen(Written) < BSize
  <2>1. CASE pc = "store"
    <3>1. Written = NewItem(op.key, op.val, op.old) /\ Written \in Item
      BY <2>1 DEF Written, NewItem, Item, ControlOk, TypeOK
    <3>2. CellLen(Written) = ItemLen[op.val]
      BY <3>1 DEF NewItem, CellLen
    <3> QED
      BY <2>1, <3>1, <3>2 DEF WritePosOk
  <2>2. CASE pc # "store"
    <3>1. pc = "gccopy" /\ OnLive("gccopy") /\ Written = Here
      BY <2>2 DEF Writing, Written, OnLive, OnCell, InBlock
    <3>2. OnCell("gccopy") /\ Here \in Item
      BY <3>1, LiveHere DEF Walks
    <3>3. cur[2] \in Offs /\ CellLen(Here) \in Nat /\ cur[2] + CellLen(Here) \in Offs
      BY <3>2, WalkOn DEF Walks
    <3>4. wpos[2] <= cur[2]
      BY <3>1 DEF CollectOk, Collecting
    <3>5. \A i, j, k \in Nat : i <= j /\ j + k < BSize => i + k < BSize
      BY SMT
    <3> QED
      BY <1>2, <3>1, <3>2, <3>3, <3>4, <3>5
  <2> QED
    BY <2>1, <2>2
<1>5. CellLen(Written) \in Nat /\ IHdr < CellLen(Written)
  BY <1>4 DEF CellLen, Item
<1> QED
  BY <1>1, <1>2, <1>3, <1>4, <1>5

LEMMA GcCopyStep ==
  ASSUME LayoutInv, GcCopy
  PROVE  LayoutInv'
<1> USE KVAssumption, Geometry DEF LayoutInv, hist
<1>a. /\ pc = "gccopy" /\ pc' = "gccopy" /\ Writing /\ Written = Here /\ OnLive("gccopy") /\ OnCell("gccopy") /\ Program(Here)
      /\ UNCHANGED <<hdr, state, clean, gc_trigger, ret, op, unclean, want, gcCut, crashes>>
  BY DEF GcCopy, Writing, Written, OnLive, OnCell, InBlock
<1>b. /\ wpos \in Pos /\ wpos[1] \in Blocks /\ wpos[2] \in Offs /\ Packed(log[wpos[1]], wpos[2])
      /\ Here \in Item /\ CellLen(Here) \in Nat /\ wpos[2] + CellLen(Here) < BSize
  BY <1>a, WritingFits
<1>c. /\ log' \in [Blocks -> [Offs -> Cell]]
      /\ \A b \in Blocks : b # wpos[1] => log'[b] = log[b]
      /\ Packed(log'[wpos[1]], wpos[2] + CellLen(Here))
      /\ wpos' = <<wpos[1], wpos[2] + CellLen(Here)>> /\ wpos' \in Pos
      /\ space' = [space EXCEPT ![wpos[1]] = space[wpos[1]] - CellLen(Here)]
  <2>1. Here \in Cell /\ Here # Erased
    BY <1>b DEF Cell, Item, Erased
  <2> QED
    BY <1>a, <1>b, <2>1, ProgramAppends
<1>d. /\ cur[1] \in Blocks /\ cur[2] \in Offs /\ cur[2] + CellLen(Here) \in Ends(log[cur[1]])
      /\ cur[2] + CellLen(Here) \in Offs
  BY <1>a, WalkOn DEF Walks
<1>e. cur' = <<cur[1], cur[2] + CellLen(Here)>> /\ cur'[1] = cur[1] /\ cur'[2] = cur[2] + CellLen(Here)
  BY DEF GcCopy, Onward
<1>f. /\ unclean = {} /\ Unmeasured = {} /\ Uncounted = {} /\ Unmeasured' = {} /\ Uncounted' = {}
  BY <1>a DEF UncleanOk, Uncounted, Unmeasured, Calling, Deleting, Formatting, Scanning, Prefixing, Booting, Collecting
<1>g. state[wpos[1]] = "CLEAN" /\ cur[1] # wpos[1] /\ wpos[2] <= cur[2] /\ state[cur[1]] # "CLEAN"
  BY <1>a DEF CollectOk, Collecting
<1>h. space[wpos[1]] = BSize - wpos[2]
  <2>1. log[wpos[1]] \in BlockLog /\ space[wpos[1]] \in Nat
    BY <1>b, BlockLogs, SpaceNat
  <2>2. LogEnd(log[wpos[1]]) = wpos[2]
    BY <1>b, <2>1, PackedEnd
  <2>3. LogEnd(log[wpos[1]]) = BSize - space[wpos[1]]
    BY <1>b, <1>f, SpaceIsRest
  <2> QED
    BY <1>b, <2>1, <2>2, <2>3
<1>i. space'[wpos[1]] = BSize - (wpos[2] + CellLen(Here)) /\ \A b \in Blocks : b # wpos[1] => space'[b] = space[b]
  <2>1. \A i, j \in Nat : (BSize - i) - j = BSize - (i + j)
    BY SMT
  <2>2. space'[wpos[1]] = space[wpos[1]] - CellLen(Here) /\ \A b \in Blocks : b # wpos[1] => space'[b] = space[b]
    BY <1>b, <1>c DEF TypeOK
  <2>3. wpos[2] \in Nat
    BY <1>b
  <2>4. (BSize - wpos[2]) - CellLen(Here) = BSize - (wpos[2] + CellLen(Here))
    BY <1>b, <2>1, <2>3
  <2> QED
    BY <1>h, <2>2, <2>4
<1>j. wpos'[1] = wpos[1] /\ wpos'[2] = wpos[2] + CellLen(Here) /\ wpos[2] + CellLen(Here) \in Offs
  BY <1>b, <1>c, SMTT(20) DEF Offs
<1>1. TypeOK'
  <2>1. space' \in [Blocks -> 0 .. BSize]
    <3>1. space'[wpos[1]] \in 0 .. BSize
      BY <1>i, <1>j, Complement
    <3> QED
      BY <1>b, <1>c, <3>1 DEF TypeOK
  <2>2. cur' \in (0 .. NB) \X (0 .. BSize)
    BY <1>d, <1>e DEF Blocks, Offs
  <2> QED
    BY <1>a, <1>c, <2>1, <2>2 DEF TypeOK
<1> USE DEF Calling, Deleting, Formatting, Scanning, Prefixing, Booting, Collecting
<1>2. ControlOk'
  BY <1>a DEF ControlOk
<1>3. UncleanOk'
  BY <1>a, <1>f DEF UncleanOk
<1>4. CursorOk'
  BY <1>a, <1>c, <1>d, <1>e, <1>g DEF CursorOk, Walks
<1>5. PackedLogs'
  BY <1>b, <1>c, <1>j DEF PackedLogs
<1>6. SpaceExact'
  <2>1. BSize - space'[wpos[1]] = wpos[2] + CellLen(Here)
    BY <1>i, <1>j, Complement
  <2>2. \A b \in Blocks : Packed(log'[b], BSize - space'[b])
    BY <1>c, <1>f, <1>i, <2>1 DEF SpaceExact
  <2> QED
    BY <2>2 DEF SpaceExact
<1>7. WritePosOk'
  BY <1>a, <1>c, <1>j DEF WritePosOk
<1>8. CollectOk'
  <2>1. \A i, j, k \in Nat : i <= j => i + k <= j + k
    BY SMT
  <2>2. wpos'[2] <= cur'[2]
    BY <1>b, <1>d, <1>e, <1>g, <1>j, <2>1, ZenonT(20)
  <2> QED
    BY <1>a, <1>e, <1>g, <1>j, <2>2 DEF CollectOk
<1>9. CleanEmpty'
  BY <1>a, <1>c, <1>f, <1>j DEF CleanEmpty
<1>10. CountOk'
  <2>1. Counted' = Counted
    BY <1>a, <1>f DEF Counted
  <2> QED
    BY <1>a, <2>1 DEF CountOk
<1> QED
  BY <1>1, <1>2, <1>3, <1>4, <1>5, <1>6, <1>7, <1>8, <1>9, <1>10 DEF LayoutInv

LEMMA PowerFailStep ==
  ASSUME LayoutInv, PowerFail
  PROVE  LayoutInv'
<1> USE KVAssumption, Geometry DEF LayoutInv, hist
<1>a. /\ pc' = "scan" /\ ret' = "idle" /\ op' = NoOp /\ cur' = <<0, 0>> /\ unclean' = {}
      /\ state' = [b \in Blocks |-> NoState] /\ space' = [b \in Blocks |-> 0]
      /\ clean' = 0 /\ wpos' = NoPos /\ gc_trigger' = FALSE /\ want' = want
      /\ crashes < MaxCrashes /\ crashes' = crashes + 1
  BY DEF PowerFail, PowerOn
<1>b. gcCut' \in BOOLEAN
  BY Zenon DEF PowerFail
<1>c. hdr' \in [Blocks -> BlockState \union {NoState}]
  BY DEF PowerFail, flash, TypeOK
<1>d. log' \in [Blocks -> [Offs -> Cell]] /\ \A b \in Blocks : \E e \in Offs : Packed(log'[b], e)
  <2>1. CASE UNCHANGED log
    BY <2>1 DEF TypeOK, PackedLogs
  <2>2. CASE log' # log
    <3>1. PICK c \in {Junk, [Written EXCEPT !.crc = FALSE]} : Writing /\ log' = [log EXCEPT ![wpos[1]][wpos[2]] = c]
      BY <2>2 DEF PowerFail, flash
    <3>2. /\ wpos[1] \in Blocks /\ wpos[2] \in Offs /\ log[wpos[1]] \in BlockLog /\ Packed(log[wpos[1]], wpos[2])
          /\ Written \in Item /\ CellLen(Written) \in Nat /\ IHdr < CellLen(Written) /\ wpos[2] + CellLen(Written) < BSize
      BY <3>1, WritingFits
    <3>3. c \in Cell /\ c # Erased /\ CellLen(c) \in Nat /\ CellLen(c) <= CellLen(Written)
      <4>1. CASE c = Junk
        BY <3>2, <4>1 DEF Junk, Erased, Cell, CellLen
      <4>2. CASE c = [Written EXCEPT !.crc = FALSE]
        <5>1. c \in Item /\ c.val = Written.val
          BY <3>2, <4>2 DEF Item
        <5>2. CellLen(c) = CellLen(Written)
          BY <3>2, <5>1 DEF CellLen, Item
        <5> QED
          BY <3>2, <5>1, <5>2 DEF Item, Erased, Cell
      <4> QED
        BY <3>1, <4>1, <4>2
    <3>4. wpos[2] + CellLen(c) < BSize /\ wpos[2] + CellLen(c) \in Offs
      BY <3>2, <3>3 DEF Offs
    <3>5. log'[wpos[1]] = [log[wpos[1]] EXCEPT ![wpos[2]] = c] /\ \A b \in Blocks : b # wpos[1] => log'[b] = log[b]
      BY <3>1, <3>2 DEF TypeOK
    <3>6. log'[wpos[1]] \in BlockLog /\ Packed(log'[wpos[1]], wpos[2] + CellLen(c))
      BY <3>2, <3>3, <3>4, <3>5, PackedGrow
    <3>7. log' \in [Blocks -> [Offs -> Cell]]
      BY <3>1, <3>2, <3>5, <3>6 DEF TypeOK, BlockLog
    <3> QED
      BY <3>4, <3>5, <3>6, <3>7 DEF PackedLogs
  <2> QED
    BY <2>1, <2>2
<1>e. \A b \in Blocks : state'[b] = NoState /\ NoState # "CLEAN"
  BY <1>a DEF NoState
<1>f. 0 \in Blocks /\ cur'[1] = 0 /\ cur'[2] = 0 /\ \A b \in Blocks : b >= 0
  BY <1>a DEF Blocks
<1>1. TypeOK'
  <2>1. crashes' \in 0 .. MaxCrashes
    BY <1>a DEF TypeOK
  <2>2. cur' \in (0 .. NB) \X (0 .. BSize)
    BY <1>a
  <2>3. gc_trigger' \in BOOLEAN
    BY <1>a, Zenon
  <2>4. state' \in [Blocks -> BlockState \union {NoState}] /\ space' \in [Blocks -> 0 .. BSize]
    BY <1>a
  <2> QED
    BY <1>a, <1>b, <1>c, <1>d, <2>1, <2>2, <2>3, <2>4, NoOpType DEF TypeOK, PCs
<1> USE DEF Calling, Deleting, Formatting, Scanning, Prefixing, Booting, Collecting
<1>2. ControlOk'
  BY <1>a DEF ControlOk
<1>3. UncleanOk'
  BY <1>a DEF UncleanOk
<1>4. CursorOk'
  BY <1>a, <1>e, <1>f DEF CursorOk, Walks
<1>5. PackedLogs'
  BY <1>d DEF PackedLogs
<1>6. SpaceExact'
  BY <1>a, <1>f DEF SpaceExact, Unmeasured
<1>7. WritePosOk'
  BY <1>a DEF WritePosOk
<1>8. CollectOk'
  BY <1>a DEF CollectOk
<1>9. CleanEmpty'
  BY <1>a, <1>e DEF CleanEmpty
<1>10. CountOk'
  <2>1. Counted' = {}
    BY <1>e DEF Counted
  <2> QED
    BY <1>a, <2>1, FS_EmptySet DEF CountOk
<1> QED
  BY <1>1, <1>2, <1>3, <1>4, <1>5, <1>6, <1>7, <1>8, <1>9, <1>10 DEF LayoutInv

\* With a CLEAN block and one that is not, some block in use precedes a CLEAN one.
LEMMA WriteBlockExists ==
  ASSUME TypeOK, \A b \in Blocks : state[b] # NoState, CleanBlocks # {}, CleanBlocks # Blocks
  PROVE  WriteBlocks # {}
<1> DEFINE Busy == Blocks \ CleanBlocks
<1>1. CleanBlocks \in SUBSET Nat /\ CleanBlocks \subseteq Blocks
  BY Geometry DEF CleanBlocks
<1>2. Busy \in SUBSET (0 .. (NB - 1)) /\ Busy # {} /\ NB - 1 \in Nat
  <2>1. NB - 1 \in Nat
    BY Geometry
  <2>2. Busy # {}
    BY <1>1
  <2>3. Busy \in SUBSET (0 .. (NB - 1))
    BY DEF Blocks
  <2> QED
    BY <2>1, <2>2, <2>3
<1>3. \A b \in Busy : state[b] \in {"USED", "DIRTY"}
  BY DEF TypeOK, BlockState, CleanBlocks
<1>4. \A b \in CleanBlocks : state[b] = "CLEAN"
  BY DEF CleanBlocks
<1>5. PICK c \in CleanBlocks : \A x \in CleanBlocks : c <= x
  BY <1>1, NatMin
<1>6. PICK m \in Busy : \A x \in Busy : x <= m
  BY <1>2, NatMax
<1>7. CASE c = 0
  <2>1. CASE m + 1 = NB
    BY <1>3, <1>4, <1>6, <1>7, <2>1 DEF WriteBlocks, NextBlock
  <2>2. CASE m + 1 # NB
    <3>1. m + 1 \in Blocks /\ ~(m + 1 <= m)
      BY <1>6, <2>2, Geometry DEF Blocks
    <3>2. m + 1 \in CleanBlocks
      BY <1>6, <3>1
    <3> QED
      BY <1>3, <1>4, <1>6, <2>2, <3>2 DEF WriteBlocks, NextBlock
  <2> QED
    BY <2>1, <2>2
<1>8. CASE c # 0
  <2>1. c - 1 \in Blocks /\ ~(c <= c - 1) /\ (c - 1) + 1 = c /\ c # NB
    BY <1>1, <1>5, <1>8, Geometry DEF Blocks
  <2>2. c - 1 \in Busy
    BY <1>5, <2>1
  <2> HIDE DEF Busy
  <2>3. state[c - 1] \in {"USED", "DIRTY"} /\ state[NextBlock(c - 1)] = "CLEAN"
    BY <1>3, <1>4, <2>1, <2>2 DEF NextBlock
  <2> QED
    BY <2>1, <2>3 DEF WriteBlocks
<1> QED
  BY <1>7, <1>8

LEMMA ChooseWritePosStep ==
  ASSUME LayoutInv, HeadersRead, ChooseWritePos
  PROVE  LayoutInv'
<1> USE KVAssumption, Geometry DEF LayoutInv, hist
<1>a. /\ pc = "choose" /\ pc' = "idle" /\ ret' = "idle" /\ op' = NoOp /\ cur' = NoPos /\ unclean' = {}
      /\ gcCut' = FALSE /\ UNCHANGED <<log, space, crashes>>
  BY DEF ChooseWritePos, Return
<1>b. /\ unclean = {} /\ Uncounted = {} /\ Uncounted' = {} /\ Unmeasured = {} /\ Unmeasured' = {} /\ Unread = {}
      /\ Counted = CleanBlocks /\ clean = Cardinality(CleanBlocks) /\ CleanBlocks # {}
  <2>1. unclean = {} /\ Uncounted = {} /\ Uncounted' = {} /\ Unmeasured = {} /\ Unmeasured' = {} /\ Unread = {}
    BY <1>a DEF UncleanOk, Uncounted, Unmeasured, Unread, Calling, Deleting, Formatting, Scanning, Prefixing, Booting, Collecting
  <2>2. Counted = CleanBlocks
    BY <2>1 DEF Counted, CleanBlocks
  <2>3. clean = Cardinality(CleanBlocks) /\ clean # 0
    BY <1>a, <2>2 DEF CountOk
  <2> QED
    BY <2>1, <2>2, <2>3, FS_EmptySet
<1>c. \A b \in Blocks : state[b] # NoState /\ Packed(log[b], BSize - space[b])
  BY <1>b DEF HeadersRead, SpaceExact
<1>d. \A b \in CleanBlocks : b \in Blocks /\ Empty(log[b]) /\ Packed(log[b], BHdr)
  <2>1. \A b \in CleanBlocks : b \in Blocks /\ Empty(log[b])
    BY <1>a, <1>b DEF CleanEmpty, CleanBlocks, Calling, Deleting, Formatting, Scanning, Prefixing, Booting, Collecting
  <2> QED
    BY <2>1, BlockLogs, EmptyPacked
<1>e. \/ /\ wpos' = <<0, BHdr>> /\ 0 \in CleanBlocks /\ SetBlockState(0, "USED") /\ clean' = clean - 1
      \/ /\ \E b \in Blocks : wpos' = <<b, BSize - space[b]>> /\ state[b] # "CLEAN"
         /\ UNCHANGED <<hdr, state, clean>>
  <2>1. IsFiniteSet(Blocks) /\ CleanBlocks \subseteq Blocks
    BY BlocksFinite DEF CleanBlocks
  <2>2. CASE clean = NB
    <3>1. CleanBlocks = Blocks
      BY <1>b, <2>1, <2>2, BlocksFinite, FS_Subset
    <3>2. 0 \in CleanBlocks
      BY <3>1 DEF Blocks
    <3> QED
      BY <2>2, <3>2 DEF ChooseWritePos
  <2>3. CASE clean # NB
    <3>1. CleanBlocks # Blocks
      BY <1>b, <2>3, BlocksFinite
    <3>2. WriteBlocks # {}
      BY <1>b, <1>c, <3>1, WriteBlockExists
    <3>3. WriteBlocks \in SUBSET Nat
      BY DEF WriteBlocks
    <3>4. \E b \in WriteBlocks : \A y \in WriteBlocks : b <= y
      BY <3>2, <3>3, NatMin
    <3> DEFINE w == CHOOSE x \in WriteBlocks : \A y \in WriteBlocks : x <= y
    <3>5. w \in WriteBlocks
      BY <3>4
    <3>6. wpos' = <<w, BSize - space[w]>> /\ UNCHANGED <<hdr, state, clean>>
      BY <2>3, <3>2 DEF ChooseWritePos
    <3> HIDE DEF w
    <3> QED
      BY <3>5, <3>6 DEF WriteBlocks
  <2> QED
    BY <2>2, <2>3
<1>f. /\ wpos' \in Pos /\ wpos'[1] \in Blocks /\ Packed(log[wpos'[1]], wpos'[2]) /\ state'[wpos'[1]] # "CLEAN"
      /\ \A b \in Blocks : state'[b] = "CLEAN" => state[b] = "CLEAN"
      /\ hdr' \in [Blocks -> BlockState \union {NoState}] /\ state' \in [Blocks -> BlockState \union {NoState}]
  <2>1. CASE wpos' = <<0, BHdr>> /\ 0 \in CleanBlocks /\ SetBlockState(0, "USED")
    <3>1. 0 \in Blocks /\ Packed(log[0], BHdr)
      BY <1>d, <2>1
    <3>2. /\ hdr' \in [Blocks -> BlockState \union {NoState}] /\ state' \in [Blocks -> BlockState \union {NoState}]
          /\ state'[0] = "USED" /\ \A b \in Blocks : b # 0 => state'[b] = state[b]
      BY <2>1, <3>1 DEF SetBlockState, TypeOK, BlockState
    <3> QED
      BY <2>1, <3>1, <3>2 DEF Pos
  <2>2. CASE /\ \E b \in Blocks : wpos' = <<b, BSize - space[b]>> /\ state[b] # "CLEAN"
             /\ UNCHANGED <<hdr, state, clean>>
    <3>1. PICK b \in Blocks : wpos' = <<b, BSize - space[b]>> /\ state[b] # "CLEAN"
      BY <2>2
    <3>2. Packed(log[b], BSize - space[b]) /\ BSize - space[b] \in Offs
      BY <1>c DEF Packed
    <3>3. hdr' \in [Blocks -> BlockState \union {NoState}] /\ state' \in [Blocks -> BlockState \union {NoState}]
      BY <2>2 DEF TypeOK
    <3> QED
      BY <2>2, <3>1, <3>2, <3>3 DEF Pos
  <2> QED
    BY <1>e, <2>1, <2>2
<1>g. clean' \in Int /\ clean' = Cardinality(Counted')
  <2>1. CASE wpos' = <<0, BHdr>> /\ 0 \in CleanBlocks /\ SetBlockState(0, "USED") /\ clean' = clean - 1
    <3>1. Counted' = CleanBlocks \ {0}
      BY <1>b, <2>1 DEF Counted, CleanBlocks, SetBlockState, TypeOK
    <3>2. IsFiniteSet(CleanBlocks)
      BY <1>b, CountedFinite
    <3>3. Cardinality(CleanBlocks \ {0}) = Cardinality(CleanBlocks) - 1 /\ Cardinality(CleanBlocks) \in Nat
      BY <2>1, <3>2, FS_RemoveElement, FS_CardinalityType
    <3> QED
      BY <1>b, <2>1, <3>1, <3>3
  <2>2. CASE UNCHANGED <<hdr, state, clean>>
    <3>1. Counted' = Counted
      BY <1>b, <2>2 DEF Counted
    <3> QED
      BY <2>2, <3>1 DEF CountOk, TypeOK
  <2> QED
    BY <1>e, <2>1, <2>2
<1>1. TypeOK'
  <2>1. want' \in [Keys -> SUBSET (Vals \union {NoVal})]
    <3>1. \A k \in Keys : Value(k) \in Vals \union {NoVal}
      BY SearchFinds DEF Value
    <3>2. want' = [k \in Keys |-> {Value(k)}]
      BY DEF ChooseWritePos
    <3> QED
      BY <3>1, <3>2
  <2>2. gcCut' \in BOOLEAN
    BY <1>a, Zenon
  <2>3. gc_trigger' \in BOOLEAN
    BY Zenon DEF ChooseWritePos
  <2>4. cur' \in (0 .. NB) \X (0 .. BSize)
    BY <1>a DEF NoPos
  <2> QED
    BY <1>a, <1>f, <1>g, <2>1, <2>2, <2>3, <2>4, NoOpType DEF TypeOK, PCs
<1> USE DEF Calling, Deleting, Formatting, Scanning, Prefixing, Booting, Collecting
<1>2. ControlOk'
  BY <1>a DEF ControlOk
<1>3. UncleanOk'
  BY <1>a DEF UncleanOk
<1>4. CursorOk'
  BY <1>a DEF CursorOk, Walks
<1>5. PackedLogs'
  BY <1>a DEF PackedLogs
<1>6. SpaceExact'
  BY <1>a, <1>c DEF SpaceExact
<1>7. WritePosOk'
  BY <1>a, <1>f DEF WritePosOk
<1>8. CollectOk'
  BY <1>a DEF CollectOk
<1>9. CleanEmpty'
  BY <1>a, <1>d, <1>f DEF CleanEmpty, CleanBlocks
<1>10. CountOk'
  BY <1>a, <1>g DEF CountOk
<1> QED
  BY <1>1, <1>2, <1>3, <1>4, <1>5, <1>6, <1>7, <1>8, <1>9, <1>10 DEF LayoutInv

\* Every block whose header kv_init has read has a state.
LEMMA HeadersStep ==
  ASSUME LayoutInv, HeadersRead, Next
  PROVE  HeadersRead'
<1> USE Geometry DEF LayoutInv, Unread, Calling, Deleting, Formatting, Scanning, NoState
<1> SUFFICES ASSUME NEW b \in Blocks, b \notin Unread', state'[b] = NoState
             PROVE  FALSE
  BY DEF HeadersRead
<1>0. b \notin Unread => state[b] # NoState
  BY DEF HeadersRead
<1>1. ASSUME NEW k \in Keys, NEW v \in Vals, ItemSet(k, v) PROVE FALSE
  BY <1>0, <1>1 DEF ItemSet, SearchEffects, Swept
<1>2. ASSUME NEW k \in Keys, ItemDelete(k) PROVE FALSE
  BY <1>0, <1>2 DEF ItemDelete, SearchEffects, Swept
<1>3. ASSUME NEW K \in Prefixes, DeleteByPrefix(K) PROVE FALSE
  BY <1>0, <1>3 DEF DeleteByPrefix, ram
<1>4. CASE GcStart
  BY <1>0, <1>4 DEF GcStart
<1>5. CASE CalcFull
  BY <1>0, <1>5 DEF CalcFull, Return
<1>6. CASE CalcSkip
  BY <1>0, <1>6 DEF CalcSkip, ram
<1>7. CASE CalcTake
  BY <1>0, <1>7 DEF CalcTake, SetBlockState, TypeOK, regs
<1>8. CASE ItemStore
  BY <1>0, <1>8 DEF ItemStore
<1>9. CASE ItemDel
  BY <1>0, <1>9 DEF ItemDel, ram, regs, ControlOk, CursorOk
<1>10. CASE ItemDelDirty
  BY <1>0, <1>10 DEF ItemDelDirty, SetBlockState, TypeOK, regs, ControlOk, CursorOk
<1>11. CASE Ack
  BY <1>0, <1>11 DEF Ack, Return, ram
<1>12. CASE SkipGarbage
  BY <1>0, <1>12 DEF SkipGarbage, OnCell, InBlock, Onward, SetBlockState, TypeOK, Walks
<1>13. CASE PrefixItem
  BY <1>0, <1>13 DEF PrefixItem, OnLive, OnCell, InBlock, ram
<1>14. CASE PrefixNextBlock
  BY <1>0, <1>14 DEF PrefixNextBlock, OnEnd, InBlock, Return
<1>15. CASE BlockErase
  BY <1>0, <1>15 DEF BlockErase, ram, regs
<1>16. CASE BlockFormat
  BY <1>0, <1>16 DEF BlockFormat, SetBlockState, TypeOK, regs, CursorOk, ControlOk, Blocks
<1>17. CASE GcCopy
  BY <1>0, <1>17 DEF GcCopy, OnLive, OnCell, InBlock
<1>18. CASE GcCopied
  BY <1>0, <1>18 DEF GcCopied, OnEnd, InBlock
<1>19. CASE GcMark
  BY <1>0, <1>19 DEF GcMark, Return, SetBlockState, TypeOK
<1>20. CASE ScanHeader
  <2>1. pc = "scan" /\ cur[2] = 0 /\ cur[1] \in Blocks
    BY <1>20 DEF ScanHeader, CursorOk
  <2> QED
    BY <1>0, <1>20, <2>1, SMTT(20) DEF ScanHeader, flash, TypeOK, Blocks
<1>21. CASE ScanItem
  <2>1. pc = "scan" /\ cur[2] # 0
    BY <1>21 DEF ScanItem, OnLive, OnCell, InBlock
  <2>2. state' = state /\ cur'[1] = cur[1]
    BY <1>21 DEF ScanItem, Onward, ram
  <2>3. (pc' = pc /\ ret' = ret) \/ (pc' = "del" /\ ret' = "scan")
    BY <1>21, Zenon DEF ScanItem
  <2> QED
    BY <1>0, <2>1, <2>2, <2>3
<1>22. CASE ScanEnd
  BY <1>0, <1>22 DEF ScanEnd, OnEnd, InBlock
<1>23. CASE ScanNext
  <2>1. pc = "next" /\ cur[1] \in Blocks /\ state' = state
    BY <1>23 DEF ScanNext, ram, CursorOk
  <2> QED
    BY <1>0, <1>23, <2>1 DEF ScanNext, Blocks
<1>24. CASE UncleanBlock
  <2>1. pc = "unclean" /\ (state'[b] = state[b] \/ state'[b] = "DIRTY")
    BY <1>24 DEF UncleanBlock, SetBlockState, TypeOK
  <2> QED
    BY <1>0, <2>1
<1>25. CASE UncleanDone
  BY <1>0, <1>25 DEF UncleanDone, ram
<1>26. CASE ChooseWritePos
  BY <1>0, <1>26 DEF ChooseWritePos, SetBlockState, TypeOK
<1>27. CASE PowerFail
  BY <1>27 DEF PowerFail, PowerOn, Blocks
<1> QED
  BY <1>1, <1>2, <1>3, <1>4, <1>5, <1>6, <1>7, <1>8, <1>9, <1>10, <1>11, <1>12, <1>13, <1>14,
     <1>15, <1>16, <1>17, <1>18, <1>19, <1>20, <1>21, <1>22, <1>23, <1>24, <1>25, <1>26, <1>27
     DEF Next, Operation, Progress

LEMMA LayoutNext ==
  ASSUME LayoutInv, HeadersRead, Next
  PROVE  LayoutInv'
<1>1. CASE Operation
  BY <1>1, ItemSetStep, ItemDeleteStep, DeleteByPrefixStep, GcStartStep DEF Operation
<1>2. CASE Progress
  BY <1>2, CalcFullStep, CalcSkipStep, CalcTakeStep, ItemStoreStep, ItemDelStep, ItemDelDirtyStep,
     AckStep, SkipGarbageStep, PrefixItemStep, PrefixNextBlockStep, BlockEraseStep, BlockFormatStep,
     GcCopyStep, GcCopiedStep, GcMarkStep, ScanHeaderStep, ScanItemStep, ScanEndStep, ScanNextStep,
     UncleanBlockStep, UncleanDoneStep, ChooseWritePosStep DEF Progress
<1>3. CASE PowerFail
  BY <1>3, PowerFailStep
<1> QED
  BY <1>1, <1>2, <1>3 DEF Next

LEMMA LayoutStutter ==
  ASSUME StoreInv, UNCHANGED vars
  PROVE  StoreInv'
<1> USE DEF StoreInv, LayoutInv, vars
<1>1. TypeOK'
  BY DEF TypeOK
<1>2. ControlOk' /\ CursorOk' /\ UncleanOk' /\ PackedLogs' /\ SpaceExact' /\ WritePosOk'
  BY DEF ControlOk, CursorOk, UncleanOk, PackedLogs, SpaceExact, WritePosOk, IsItem, Unmeasured,
     Scanning, Prefixing, Booting, Collecting, Calling
<1>3. CollectOk' /\ CleanEmpty' /\ CountOk' /\ HeadersRead'
  BY DEF CollectOk, CleanEmpty, CountOk, HeadersRead, Unread, Counted, Uncounted,
     Scanning, Collecting, Calling
<1> QED
  BY <1>1, <1>2, <1>3

\* The RAM tables of kv_mgr_t describe the flash at every step of every operation of
\* kv.c, whatever the geometry and wherever the power fails: no write goes over an item,
\* no count drifts, kv_init rebuilds all of it.
THEOREM BookkeepingIsExact == Spec => []StoreInv
<1>1. Init => StoreInv
  <2>1. Init => HeadersRead
    BY Geometry DEF Init, HeadersRead, Unread, Scanning, Blocks
  <2> QED
    BY <2>1, LayoutInit DEF StoreInv
<1>2. StoreInv /\ [Next]_vars => StoreInv'
  BY LayoutNext, HeadersStep, LayoutStutter DEF StoreInv
<1> QED
  BY <1>1, <1>2, PTL DEF Spec

\* Every variable of the store keeps its type: in particular write_pos and the space of
\* each block stay inside the flash.
THEOREM StoreTypes == Spec => []TypeOK
<1>1. StoreInv => TypeOK
  BY DEF StoreInv, LayoutInv
<1> QED
  BY <1>1, BookkeepingIsExact, PTL

\* kv_item_store and __item_gc_cb program only erased flash, behind every cell of the block.
THEOREM WritesGoToErasedFlash == Spec => []WriteErased
<1>1. StoreInv => WriteErased
  <2> SUFFICES ASSUME LayoutInv, Writing PROVE WriteErased
    BY DEF StoreInv, WriteErased
  <2>1. /\ log[wpos[1]] \in BlockLog /\ Packed(log[wpos[1]], wpos[2])
        /\ wpos[2] + CellLen(Written) < BSize
    BY WritingFits
  <2>2. log[wpos[1]][wpos[2]] = Erased
    BY <2>1, PackedEnd
  <2> QED
    BY <2>1, <2>2 DEF WriteErased, Packed
<1> QED
  BY <1>1, BookkeepingIsExact, PTL

\* Between operations clean_blk_nums counts the CLEAN blocks and these are empty.
THEOREM CleanBlocksAreCounted == Spec => []CleanExact
<1>1. StoreInv => CleanExact
  <2> SUFFICES ASSUME LayoutInv, pc = "idle" PROVE CleanExact
    BY DEF StoreInv, CleanExact
  <2> USE DEF LayoutInv, Calling, Deleting, Formatting, Scanning, Collecting
  <2>1. unclean = {} /\ Uncounted = {}
    BY DEF UncleanOk, Uncounted
  <2>2. Counted = CleanBlocks
    BY <2>1 DEF Counted, CleanBlocks
  <2>3. \A b \in CleanBlocks : Empty(log[b])
    BY <2>1 DEF CleanEmpty, CleanBlocks
  <2> QED
    BY <2>2, <2>3 DEF CleanExact, CountOk, Empty
<1> QED
  BY <1>1, BookkeepingIsExact, PTL

=============================================================================
