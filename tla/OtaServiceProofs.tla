-------------------------- MODULE OtaServiceProofs --------------------------
(***************************************************************************)
(* Proofs about OtaService, for any images, sizes of the partition, of the *)
(* cache and of a block, and any number of tries.                          *)
(***************************************************************************)
EXTENDS OtaService, TLAPS, SequenceTheorems

(***************************************************************************)
(* OtaTypeOK needs that the image of a download exists, and that a try     *)
(* that broke was taken from the tries that are left.                      *)
(***************************************************************************)
Named == {"init", "request", "recv", "verify", "arm", "armed"}
Trying == {"request", "recv"}

TypeInv ==
  /\ OtaTypeOK
  /\ svc.pc \in Named => svc.prm.img \in Images
  /\ msg.pc = "save" => msg.img \in Images
  /\ svc.pc \in {"idle", "start", "header", "init"} => breaks = 0
  /\ svc.pc \in Trying => dl.j > 0 /\ breaks + dl.j <= RetryCnt

(***************************************************************************)
(* The partition is only written while no parameters are "ready".  A       *)
(* service that is under way finds none: the message that started it has   *)
(* erased them, ota_hal_rollback only writes "done", and the service       *)
(* itself ends with them.                                                  *)
(***************************************************************************)
NoneReady ==
  svc.pc \notin {"idle", "reboot"} \/ (svc.pc = "idle" /\ msg.pc # "idle") => prm.st # "ready"

ArmedIntact ==
  svc.pc \in {"arm", "armed"} /\ ~svc.prm.diff => InPartition(svc.prm.img)

ReadyInv == NoneReady /\ ArmedIntact /\ ReadyImageIntact

(***************************************************************************)
(* Up to the first break after data has come, what is hashed is the start  *)
(* of the image, and the offsets of the download agree with it.            *)
(***************************************************************************)
HashIsPrefix ==
  /\ Len(hal.hash) <= ImgLen[svc.prm.img]
  /\ \A i \in 1 .. Len(hal.hash) : hal.hash[i] = <<svc.prm.img, i - 1>>

RequestInPlace ==
  /\ dl.rx_size = 0 /\ dl.off_size = Len(hal.hash)
  /\ breaks = 0 \/ dl.j = RetryCnt => dl.off_size = 0

RecvInPlace ==
  /\ dl.base + dl.rx_size = Len(hal.hash)
  /\ breaks = 0 => dl.base = 0
  /\ dl.off_size = IF dl.rx_size = 0 THEN dl.base ELSE dl.rx_size

PlaceInv ==
  breaks <= 1 =>
    /\ svc.pc \in {"request", "recv", "verify"} => HashIsPrefix
    /\ svc.pc = "request" => RequestInPlace
    /\ svc.pc = "recv" => RecvInPlace

(***************************************************************************)
(* Until then, and while no write fails, the cache is held to the last     *)
(* unit: ota_hal_write counts the same units as the download.              *)
(***************************************************************************)
CacheInv ==
  /\ CacheHeldInUse
  /\ svc.pc \in Trying /\ breaks <= 1 /\ ~wfail =>
       hal.held /\ hal.total = Len(hal.hash) /\ hal.fw = ImgLen[svc.prm.img]

-----------------------------------------------------------------------------
(* Types.                                                                  *)

\* The parameters a step makes anew.
LEMMA Params ==
  /\ NoPrm \in BootParam /\ Torn \in BootParam
  /\ \A u \in Images : Prm("announced", u) \in BootParam
<1>1. <<>> \in Seq(Units)
  BY EmptySeq
<1>2. 0 \in 0 .. 1 /\ FALSE \in BOOLEAN
  OBVIOUS
<1> QED
  BY <1>1, <1>2, Zenon DEF NoPrm, Torn, Prm, BootParam

\* The parameters a step makes of others.
LEMMA ParamsChanged ==
  ASSUME NEW p \in BootParam, OtaTypeOK
  PROVE  /\ [p EXCEPT !.boots = 1] \in BootParam
         /\ [p EXCEPT !.st = "done", !.boots = 0] \in BootParam
         /\ [p EXCEPT !.diff = hal.diff] \in BootParam
         /\ Armed(p) \in BootParam
<1>1. 0 \in 0 .. 1 /\ 1 \in 0 .. 1
  OBVIOUS
<1>2. hal.diff \in BOOLEAN /\ hal.crc \in Seq(Units)
  BY Zenon DEF OtaTypeOK, HalState
<1>3. [p EXCEPT !.diff = hal.diff] \in BootParam
  BY <1>2, Zenon DEF BootParam
<1>4. Armed(p) \in BootParam
  BY <1>2, Zenon DEF BootParam, Armed
<1> QED
  BY <1>1, <1>3, <1>4, Zenon DEF BootParam

\* The state after a restart, and the state the device is in at first.
Fresh ==
  /\ hal = NoHal /\ dl = NoDl /\ upgrading = FALSE
  /\ svc = [pc |-> "idle", prm |-> NoPrm]
  /\ msg = [pc |-> "idle", img |-> NoImage]
  /\ ini = [pc |-> "boot", prm |-> NoPrm]
  /\ breaks = 0 /\ wfail = FALSE /\ wild = FALSE

LEMMA FreshTypes ==
  Fresh /\ prm \in BootParam /\ part \in [Offsets -> Units \union {Blank}] => TypeInv
<1> SUFFICES ASSUME Fresh, prm \in BootParam, part \in [Offsets -> Units \union {Blank}]
             PROVE  TypeInv
  OBVIOUS
<1> USE OtaAssumption
<1>1. <<>> \in Seq(Units) /\ Len(<<>>) = 0
  BY EmptySeq
<1>2. 0 \in Nat /\ 0 \in 0 .. PartLen /\ 0 \in 0 .. RetryCnt /\ FALSE \in BOOLEAN
  OBVIOUS
<1>3. NoHal \in HalState
  BY <1>1, <1>2, Zenon DEF NoHal, HalState
<1>4. NoDl \in DlState
  BY <1>2, Zenon DEF NoDl, DlState
<1>5. Len(NoHal.buf) <= CacheSize
  BY <1>1 DEF NoHal
<1>6. upgrading \in BOOLEAN /\ wfail \in BOOLEAN /\ wild \in BOOLEAN
  BY <1>2, Zenon DEF Fresh
<1>7. svc \in SvcState /\ msg \in MsgState /\ ini \in IniState
  BY Params, Zenon DEF Fresh, SvcState, MsgState, IniState
<1>8. OtaTypeOK
  BY <1>2, <1>3, <1>4, <1>5, <1>6, <1>7, Zenon DEF OtaTypeOK, Fresh
<1>9. svc.pc = "idle" /\ msg.pc = "idle" /\ breaks = 0
  BY DEF Fresh
<1> QED
  BY <1>8, <1>9 DEF TypeInv, Named, Trying

LEMMA TypeInit == Init => TypeInv
<1> SUFFICES ASSUME Init PROVE TypeInv
  OBVIOUS
<1>1. Fresh
  BY Zenon DEF Init, Fresh
<1>2. prm \in BootParam /\ part \in [Offsets -> Units \union {Blank}]
  BY Params DEF Init
<1> QED
  BY <1>1, <1>2, FreshTypes

LEMMA RestartTypes ==
  ASSUME TypeInv, Reset, UNCHANGED prm, part' \in [Offsets -> Units \union {Blank}]
  PROVE  TypeInv'
<1>1. Fresh'
  BY Zenon DEF Reset, Fresh
<1>2. prm' \in BootParam
  BY DEF TypeInv, OtaTypeOK
<1>3. (Fresh /\ prm \in BootParam /\ part \in [Offsets -> Units \union {Blank}] => TypeInv)'
  BY FreshTypes, PTL
<1> QED
  BY <1>1, <1>2, <1>3

\* Goto moves the service thread and keeps its copy of the parameters.
LEMMA GotoMoves ==
  ASSUME NEW l \in {"start", "header", "init", "request", "recv", "verify", "armed", "clear", "reboot"},
         svc \in SvcState, Goto(l)
  PROVE  svc' \in SvcState /\ svc'.pc = l /\ svc'.prm = svc.prm
BY DEF Goto, SvcState

\* A step that leaves the download alone.
LEMMA TypesKept ==
  ASSUME TypeInv, UNCHANGED <<part, hal, dl, breaks, wfail, wild, upgrading>>,
         prm' \in BootParam, svc' \in SvcState, msg' \in MsgState, ini' \in IniState
  PROVE  OtaTypeOK'
<1>1. upgrading' \in BOOLEAN /\ wfail' \in BOOLEAN /\ wild' \in BOOLEAN
  BY Zenon DEF TypeInv, OtaTypeOK
<1>2. part' \in [Offsets -> Units \union {Blank}] /\ hal' \in HalState /\ dl' \in DlState
  BY DEF TypeInv, OtaTypeOK
<1>3. Len(hal'.buf) <= CacheSize /\ breaks' \in 0 .. RetryCnt
  BY DEF TypeInv, OtaTypeOK
<1> QED
  BY <1>1, <1>2, <1>3, Zenon DEF OtaTypeOK

\* ota_update_parameter writes parameters, or leaves torn ones or none.
LEMMA WriteParamTypes ==
  ASSUME NEW p \in BootParam, WriteParam(p)
  PROVE  prm' \in BootParam
BY Params DEF WriteParam

LEMMA InitTypes ==
  ASSUME TypeInv, ServiceInit
  PROVE  TypeInv'
<1> USE OtaAssumption
<1>1. UNCHANGED <<part, hal, dl, upgrading, svc, msg, breaks, wfail, wild>>
  BY DEF ServiceInit, BootLoader, RollbackRead, RollbackErase, RollbackWrite
<1>2. svc' \in SvcState /\ msg' \in MsgState
  BY <1>1 DEF TypeInv, OtaTypeOK
<1>3. prm \in BootParam /\ ini \in IniState /\ ini.prm \in BootParam
  BY DEF TypeInv, OtaTypeOK, IniState
<1>4. prm' \in BootParam /\ ini' \in IniState
  <2>1. CASE BootLoader
    <3>1. prm' \in BootParam
      BY <2>1, <1>3, ParamsChanged DEF BootLoader, TypeInv
    <3> QED
      BY <2>1, <1>3, <3>1 DEF BootLoader, IniState
  <2>2. CASE RollbackRead
    BY <2>2, <1>3 DEF RollbackRead, IniState
  <2>3. CASE RollbackErase
    BY <2>3, <1>3, Params DEF RollbackErase, EraseParam, IniState
  <2>4. CASE RollbackWrite
    <3>1. [ini.prm EXCEPT !.st = "done", !.boots = 0] \in BootParam
      BY <1>3, ParamsChanged DEF TypeInv
    <3>2. prm' \in BootParam
      BY <2>4, <3>1, WriteParamTypes DEF RollbackWrite
    <3> QED
      BY <2>4, <3>2, Params DEF RollbackWrite, IniState
  <2> QED
    BY <2>1, <2>2, <2>3, <2>4 DEF ServiceInit
<1>5. OtaTypeOK'
  BY <1>1, <1>2, <1>4, TypesKept
<1> QED
  BY <1>1, <1>5 DEF TypeInv

LEMMA MessageTypes ==
  ASSUME TypeInv, Message \/ \E u \in Images : Announce(u)
  PROVE  TypeInv'
<1> USE OtaAssumption
<1>1. UNCHANGED <<part, hal, dl, upgrading, ini, breaks, wfail, wild>>
  BY DEF Message, SaveParam, OnUpgrade, Announce
<1>2. ini' \in IniState
  BY <1>1 DEF TypeInv, OtaTypeOK
<1>3. prm \in BootParam /\ svc \in SvcState /\ msg \in MsgState
  BY DEF TypeInv, OtaTypeOK
<1>4. CASE \E u \in Images : Announce(u)
  <2>1. PICK u \in Images : Announce(u)
    BY <1>4
  <2>2. prm' \in BootParam /\ msg' \in MsgState /\ msg'.img \in Images /\ UNCHANGED svc
    BY <2>1, Params DEF Announce, EraseParam, MsgState
  <2>3. OtaTypeOK'
    BY <1>1, <1>2, <1>3, <2>2, TypesKept
  <2> QED
    BY <1>1, <2>2, <2>3 DEF TypeInv
<1>5. CASE SaveParam
  <2>1. prm' \in BootParam
    <3>1. Prm("announced", msg.img) \in BootParam
      BY <1>5, Params DEF SaveParam, TypeInv
    <3> QED
      BY <1>5, <3>1, WriteParamTypes DEF SaveParam
  <2>2. msg' \in MsgState /\ msg'.pc = "upgrade" /\ UNCHANGED svc
    BY <1>5, <1>3 DEF SaveParam, MsgState
  <2>3. OtaTypeOK'
    BY <1>1, <1>2, <1>3, <2>1, <2>2, TypesKept
  <2> QED
    BY <1>1, <2>2, <2>3 DEF TypeInv
<1>6. CASE OnUpgrade
  <2>1. msg' \in MsgState /\ msg'.pc = "idle" /\ UNCHANGED prm
    BY <1>6, <1>3 DEF OnUpgrade, MsgState
  <2>2. /\ svc' \in SvcState /\ svc'.prm = svc.prm
        /\ svc'.pc = svc.pc \/ (svc.pc = "idle" /\ svc'.pc = "start")
    <3>1. CASE svc.pc = "idle"
      <4>1. Goto("start")
        BY <1>6, <3>1 DEF OnUpgrade, At, Goto
      <4> QED
        BY <1>3, <3>1, <4>1, GotoMoves
    <3>2. CASE svc.pc # "idle"
      BY <1>3, <1>6, <3>2 DEF OnUpgrade, At
    <3> QED
      BY <3>1, <3>2
  <2>3. OtaTypeOK'
    BY <1>1, <1>2, <1>3, <2>1, <2>2, TypesKept
  <2> QED
    BY <1>1, <2>1, <2>2, <2>3 DEF TypeInv, Named, Trying
<1> QED
  BY <1>4, <1>5, <1>6 DEF Message

\* The units that come in are those of the image behind what was asked for.
LEMMA ReceivedUnits ==
  ASSUME TypeInv, At("recv"), NEW n \in 1 .. BlockSize, n <= FileSize - dl.rx_size
  PROVE  /\ svc.prm.img \in Images /\ ImgLen[svc.prm.img] \in 1 .. PartLen
         /\ dl.base + dl.rx_size + n <= ImgLen[svc.prm.img]
         /\ dl.base \in Nat /\ dl.rx_size \in Nat
         /\ Received(n) \in Seq(Units) /\ Len(Received(n)) = n
         /\ \A i \in 1 .. n : Received(n)[i] = <<svc.prm.img, dl.base + dl.rx_size + i - 1>>
<1> USE OtaAssumption
<1>1. svc.prm.img \in Images
  BY DEF TypeInv, At, Named
<1>2. ImgLen[svc.prm.img] \in 1 .. PartLen
  BY <1>1
<1>3. dl.base \in 0 .. PartLen /\ dl.rx_size \in 0 .. PartLen
  BY DEF TypeInv, OtaTypeOK, DlState
<1>4. dl.base + dl.rx_size + n <= ImgLen[svc.prm.img]
  BY <1>2, <1>3 DEF FileSize
<1>5. \A i \in 1 .. n : dl.base + dl.rx_size + i - 1 \in Offsets
  BY <1>2, <1>3, <1>4 DEF Offsets
<1>6. \A i \in 1 .. n : <<svc.prm.img, dl.base + dl.rx_size + i - 1>> \in Units
  <2>1. \A u \in Images, o \in Offsets : <<u, o>> \in Units
    BY DEF Units
  <2> QED
    BY <1>1, <1>5, <2>1, Zenon
<1>7. n \in Nat
  OBVIOUS
<1>8. Received(n) \in [1 .. n -> Units]
  BY <1>6 DEF Received
<1>9. Received(n) \in Seq(Units) /\ Len(Received(n)) = n
  BY <1>7, <1>8, IsASeq, LenProperties
<1>10. \A i \in 1 .. n : Received(n)[i] = <<svc.prm.img, dl.base + dl.rx_size + i - 1>>
  BY DEF Received
<1> QED
  BY <1>1, <1>2, <1>3, <1>4, <1>9, <1>10

\* ota_hal_write never fills the cache beyond its size.
LEMMA CacheUnits ==
  ASSUME TypeInv, NEW d \in Seq(Units), Len(d) \in 1 .. BlockSize
  PROVE  /\ Filled(d) \in Seq(Units) /\ Len(Filled(d)) <= CacheSize
         /\ Kept(d) \in Seq(Units) /\ Len(Kept(d)) <= CacheSize
         /\ Flushed(d) \in Seq(Units) /\ Final(d) \in Seq(Units) /\ Len(Flushed(d)) \in Nat
         /\ Flushed(d) \o Final(d) \in Seq(Units) /\ Len(Flushed(d) \o Final(d)) \in Nat
<1> USE OtaAssumption
<1>1. hal.buf \in Seq(Units) /\ Len(hal.buf) \in 0 .. CacheSize
  BY LenProperties DEF TypeInv, OtaTypeOK, HalState
<1>2. ToCopy(d) \in 0 .. Len(d) /\ ToCopy(d) <= CacheSize - Len(hal.buf)
  <2>1. CacheSize \in Nat /\ Len(d) \in Nat /\ CacheSize - Len(hal.buf) \in Nat
    BY <1>1
  <2>2. CASE Len(d) <= CacheSize - Len(hal.buf)
    <3>1. ToCopy(d) = Len(d)
      BY <2>2 DEF ToCopy
    <3> QED
      BY <2>1, <2>2, <3>1
  <2>3. CASE ~(Len(d) <= CacheSize - Len(hal.buf))
    <3>1. ToCopy(d) = CacheSize - Len(hal.buf)
      BY <2>3 DEF ToCopy
    <3> QED
      BY <2>1, <2>3, <3>1
  <2> QED
    BY <2>2, <2>3
<1>3. SubSeq(d, 1, ToCopy(d)) \in Seq(Units) /\ Len(SubSeq(d, 1, ToCopy(d))) = ToCopy(d)
  BY <1>2, SubSeqProperties
<1>4. Filled(d) \in Seq(Units) /\ Len(Filled(d)) <= CacheSize
  <2>1. Filled(d) \in Seq(Units) /\ Len(Filled(d)) = Len(hal.buf) + ToCopy(d)
    BY <1>1, <1>3, ConcatProperties DEF Filled
  <2> QED
    BY <1>1, <1>2, <2>1
<1>5. ToCopy(d) < Len(d) =>
        /\ SubSeq(d, ToCopy(d) + 1, Len(d)) \in Seq(Units)
        /\ Len(SubSeq(d, ToCopy(d) + 1, Len(d))) = Len(d) - ToCopy(d)
  <2> SUFFICES ASSUME ToCopy(d) < Len(d)
               PROVE  /\ SubSeq(d, ToCopy(d) + 1, Len(d)) \in Seq(Units)
                      /\ Len(SubSeq(d, ToCopy(d) + 1, Len(d))) = Len(d) - ToCopy(d)
    OBVIOUS
  <2>1. /\ Len(d) \in Nat /\ ToCopy(d) + 1 \in 1 .. Len(d) + 1 /\ Len(d) \in ToCopy(d) + 1 - 1 .. Len(d)
        /\ ToCopy(d) \in Nat
    BY <1>2
  <2> QED
    BY <2>1, SubSeqProperties
<1>6. Kept(d) \in Seq(Units) /\ Len(Kept(d)) <= CacheSize
  BY <1>2, <1>4, <1>5 DEF Kept
<1>7. <<>> \in Seq(Units)
  BY EmptySeq
<1>8. Flushed(d) \in Seq(Units) /\ Final(d) \in Seq(Units)
  BY <1>4, <1>6, <1>7 DEF Flushed, Final
<1>9. Flushed(d) \o Final(d) \in Seq(Units)
  BY <1>8, ConcatProperties
<1>10. Len(Flushed(d) \o Final(d)) \in Nat /\ Len(Flushed(d)) \in Nat
  BY <1>8, <1>9, LenProperties
<1> QED
  BY <1>4, <1>6, <1>8, <1>9, <1>10

\* Flash holds units, or nothing, also after it was programmed.
LEMMA Programmed ==
  ASSUME TypeInv, NEW s \in Seq(Units), NEW off \in Nat
  PROVE  Program(off, s) \in [Offsets -> Units \union {Blank}]
<1>1. \A i \in DOMAIN s : s[i] \in Units
  BY ElementOfSeq, LenProperties
<1>2. part \in [Offsets -> Units \union {Blank}]
  BY DEF TypeInv, OtaTypeOK
<1> QED
  BY <1>1, <1>2 DEF Program

\* The fields of the cache and the download after a write.
LEMMA HalWritten ==
  ASSUME TypeInv, NEW d \in Seq(Units), Len(d) \in 1 .. BlockSize, Write(d)
  PROVE  /\ hal' \in HalState /\ Len(hal'.buf) <= CacheSize
         /\ hal'.hash = hal.hash \o d /\ hal'.total = hal.total + Len(d) /\ hal'.fw = hal.fw
         /\ hal'.held = (hal.held /\ ~Last(d))
         /\ part' \in [Offsets -> Units \union {Blank}]
<1> USE OtaAssumption
<1> DEFINE out == Flushed(d) \o Final(d)
<1>1. hal \in HalState /\ hal.crc \in Seq(Units) /\ hal.hash \in Seq(Units) /\ hal.total \in Nat
  BY DEF TypeInv, OtaTypeOK, HalState
<1>2. Kept(d) \in Seq(Units) /\ Len(Kept(d)) <= CacheSize /\ out \in Seq(Units)
  BY CacheUnits
<1>3. hal.crc \o out \in Seq(Units) /\ hal.hash \o d \in Seq(Units)
  BY <1>1, <1>2, ConcatProperties
<1>4. hal.total + Len(d) \in Nat
  BY <1>1
<1>5. (hal.held /\ ~Last(d)) \in BOOLEAN /\ TRUE \in BOOLEAN
  BY Zenon
<1>6. IsPatch(d) \in BOOLEAN
  <2>1. hal.diff \in BOOLEAN
    BY <1>1, Zenon DEF HalState
  <2> QED
    BY <2>1, Zenon DEF IsPatch
<1>7. hal' = [hal EXCEPT !.buf = Kept(d), !.total = hal.total + Len(d),
                         !.held = hal.held /\ ~Last(d),
                         !.crc = hal.crc \o out, !.hash = hal.hash \o d,
                         !.header = TRUE, !.diff = IsPatch(d)]
  BY Zenon DEF Write
<1>8. hal' \in HalState
  BY <1>1, <1>2, <1>3, <1>4, <1>5, <1>6, <1>7, Zenon DEF HalState
<1>9. /\ hal'.buf = Kept(d) /\ hal'.hash = hal.hash \o d /\ hal'.total = hal.total + Len(d)
      /\ hal'.fw = hal.fw
  BY <1>1, <1>7 DEF HalState
<1>10. hal'.held = (hal.held /\ ~Last(d))
  BY <1>1, <1>7, Zenon DEF HalState
<1>11. part' \in [Offsets -> Units \union {Blank}]
  <2>1. dl.offset \in Nat
    BY DEF TypeInv, OtaTypeOK, DlState
  <2>2. part' = Program(dl.offset, out)
    BY DEF Write
  <2> QED
    BY <1>2, <2>1, <2>2, Programmed
<1> QED
  BY <1>2, <1>8, <1>9, <1>10, <1>11, Zenon

\* The end of a try takes one from the tries that are left.
LEMMA EndTryTypes ==
  ASSUME TypeInv, svc.pc \in Trying, NEW off \in 0 .. PartLen, EndTry(off)
  PROVE  /\ dl' \in DlState /\ svc' \in SvcState /\ upgrading' \in BOOLEAN
         /\ dl'.j = dl.j - 1 /\ dl'.rx_size = 0 /\ dl'.off_size = dl.off_size
         /\ dl'.base = dl.base
         /\ svc'.prm = svc.prm
         /\ svc'.pc = (IF dl.j = 1 THEN "clear" ELSE "request")
         /\ breaks' = (IF dl.rx_size > 0 THEN breaks + 1 ELSE breaks)
         /\ breaks' \in 0 .. RetryCnt
         /\ svc'.pc \in Trying => dl'.j > 0 /\ breaks' + dl'.j <= RetryCnt
<1> USE OtaAssumption
<1>1. /\ dl \in DlState /\ dl.j \in 1 .. RetryCnt /\ breaks \in 0 .. RetryCnt
      /\ breaks + dl.j <= RetryCnt /\ svc \in SvcState /\ dl.rx_size \in Nat
  BY DEF TypeInv, OtaTypeOK, DlState
<1>2. dl.j - 1 \in 0 .. RetryCnt /\ 0 \in 0 .. PartLen
  BY <1>1
<1>3. dl' = [dl EXCEPT !.j = dl.j - 1, !.rx_size = 0, !.offset = off]
  BY DEF EndTry
<1>4. dl' \in DlState
  BY <1>1, <1>2, <1>3, Zenon DEF DlState
<1>5. /\ dl'.j = dl.j - 1 /\ dl'.rx_size = 0 /\ dl'.off_size = dl.off_size
      /\ dl'.base = dl.base
  BY <1>1, <1>3 DEF DlState
<1>6. upgrading' \in BOOLEAN
  BY Zenon DEF EndTry
<1>7. breaks' = (IF dl.rx_size > 0 THEN breaks + 1 ELSE breaks)
  BY DEF EndTry
<1>8. breaks' \in 0 .. RetryCnt /\ breaks' + dl'.j <= RetryCnt
  BY <1>1, <1>5, <1>7
<1>9. /\ svc' \in SvcState /\ svc'.prm = svc.prm
      /\ svc'.pc = (IF dl.j = 1 THEN "clear" ELSE "request")
  BY <1>1, GotoMoves DEF EndTry
<1>10. svc'.pc \in Trying => dl'.j > 0
  BY <1>1, <1>5, <1>9 DEF Trying
<1> QED
  BY <1>4, <1>5, <1>6, <1>7, <1>8, <1>9, <1>10

LEMMA BreakTypes ==
  ASSUME TypeInv, Break
  PROVE  TypeInv'
<1>1. /\ svc.pc \in Trying /\ dl.offset \in 0 .. PartLen /\ EndTry(dl.offset)
      /\ UNCHANGED <<prm, part, hal, msg, ini, wfail, wild>>
  BY DEF Break, At, Trying, TypeInv, OtaTypeOK, DlState
<1>2. /\ dl' \in DlState /\ svc' \in SvcState /\ upgrading' \in BOOLEAN
      /\ svc'.prm = svc.prm /\ svc'.pc \in {"clear", "request"}
      /\ breaks' \in 0 .. RetryCnt
      /\ svc'.pc \in Trying => dl'.j > 0 /\ breaks' + dl'.j <= RetryCnt
  BY <1>1, EndTryTypes
<1>3. wfail' \in BOOLEAN /\ wild' \in BOOLEAN
  BY <1>1, Zenon DEF TypeInv, OtaTypeOK
<1>4. /\ prm' \in BootParam /\ part' \in [Offsets -> Units \union {Blank}]
      /\ hal' \in HalState /\ Len(hal'.buf) <= CacheSize /\ msg' \in MsgState /\ ini' \in IniState
  BY <1>1 DEF TypeInv, OtaTypeOK
<1>5. OtaTypeOK'
  BY <1>2, <1>3, <1>4, Zenon DEF OtaTypeOK
<1> QED
  BY <1>1, <1>2, <1>5 DEF TypeInv, Named, Trying

\* What a block that is received and written does to the download.
LEMMA Reception ==
  ASSUME TypeInv, NEW n \in 1 .. BlockSize, Receive(n)
  PROVE  /\ Received(n) \in Seq(Units) /\ Len(Received(n)) = n /\ svc.prm.img \in Images
         /\ \A i \in 1 .. n : Received(n)[i] = <<svc.prm.img, dl.base + dl.rx_size + i - 1>>
         /\ ImgLen[svc.prm.img] \in 1 .. PartLen
         /\ dl.base + dl.rx_size + n <= ImgLen[svc.prm.img]
         /\ svc.pc = "recv" /\ Write(Received(n))
         /\ UNCHANGED <<prm, msg, ini, breaks, wfail>>
         /\ svc' \in SvcState /\ svc'.prm = svc.prm
         /\ svc'.pc = (IF dl.rx_size + n = FileSize THEN "verify" ELSE "recv")
         /\ dl' \in DlState /\ dl'.rx_size = dl.rx_size + n /\ dl'.off_size = dl.rx_size + n
         /\ dl'.base = dl.base /\ dl'.j = dl.j
<1> USE OtaAssumption
<1>1. At("recv") /\ n <= FileSize - dl.rx_size /\ Write(Received(n))
  BY DEF Receive
<1>2. /\ Received(n) \in Seq(Units) /\ Len(Received(n)) = n /\ svc.prm.img \in Images
      /\ \A i \in 1 .. n : Received(n)[i] = <<svc.prm.img, dl.base + dl.rx_size + i - 1>>
      /\ ImgLen[svc.prm.img] \in 1 .. PartLen
      /\ dl.base + dl.rx_size + n <= ImgLen[svc.prm.img]
      /\ dl.base \in Nat /\ dl.rx_size \in Nat
  BY <1>1, ReceivedUnits
<1>3. /\ svc' \in SvcState /\ svc'.prm = svc.prm
      /\ svc'.pc = (IF dl.rx_size + n = FileSize THEN "verify" ELSE "recv")
  BY GotoMoves DEF Receive, TypeInv, OtaTypeOK
<1> DEFINE out == Flushed(Received(n)) \o Final(Received(n))
<1>4. Len(out) \in Nat
  BY <1>2, CacheUnits
<1>5. dl \in DlState /\ dl.offset \in Nat
  BY DEF TypeInv, OtaTypeOK, DlState
<1>6. dl' = [dl EXCEPT !.offset = dl.offset + Len(out),
                       !.rx_size = dl.rx_size + n, !.off_size = dl.rx_size + n]
  BY <1>1, <1>2 DEF Write
<1>7. dl.offset + Len(out) <= PartLen
  BY <1>1 DEF Write, Fits
<1>8. dl.offset + Len(out) \in 0 .. PartLen /\ dl.rx_size + n \in 0 .. PartLen
  <2>1. /\ ImgLen[svc.prm.img] \in 1 .. PartLen /\ dl.base \in Nat /\ dl.rx_size \in Nat
        /\ dl.base + dl.rx_size + n <= ImgLen[svc.prm.img]
    BY <1>2
  <2>2. dl.rx_size + n \in 0 .. PartLen
    BY <2>1
  <2> HIDE DEF out
  <2>3. dl.offset + Len(out) \in 0 .. PartLen
    BY <1>4, <1>5, <1>7
  <2> QED
    BY <2>2, <2>3
<1>9. dl' \in DlState
  BY <1>5, <1>6, <1>8, Zenon DEF DlState
<1>10. /\ dl'.rx_size = dl.rx_size + n /\ dl'.off_size = dl.rx_size + n
       /\ dl'.base = dl.base /\ dl'.j = dl.j
  BY <1>5, <1>6 DEF DlState
<1>11. UNCHANGED <<prm, msg, ini, breaks, wfail>>
  BY DEF Receive
<1>12. svc.pc = "recv"
  BY <1>1 DEF At
<1> QED
  BY <1>1, <1>2, <1>3, <1>9, <1>10, <1>11, <1>12

LEMMA ReceiveTypes ==
  ASSUME TypeInv, NEW n \in 1 .. BlockSize, Receive(n)
  PROVE  TypeInv'
<1> USE OtaAssumption
<1>1. /\ Received(n) \in Seq(Units) /\ Len(Received(n)) \in 1 .. BlockSize /\ svc.prm.img \in Images
      /\ svc.pc = "recv" /\ Write(Received(n)) /\ UNCHANGED <<prm, msg, ini, breaks, wfail>>
      /\ svc' \in SvcState /\ svc'.prm = svc.prm /\ svc'.pc \in {"verify", "recv"}
      /\ dl' \in DlState /\ dl'.j = dl.j
  BY Reception
<1>2. hal' \in HalState /\ Len(hal'.buf) <= CacheSize /\ part' \in [Offsets -> Units \union {Blank}]
  BY <1>1, HalWritten
<1>3. upgrading' \in BOOLEAN /\ wild' \in BOOLEAN
  BY Zenon DEF Receive
<1>4. wfail' \in BOOLEAN
  BY <1>1, Zenon DEF TypeInv, OtaTypeOK
<1>5. prm' \in BootParam /\ msg' \in MsgState /\ ini' \in IniState /\ breaks' \in 0 .. RetryCnt
  BY <1>1 DEF TypeInv, OtaTypeOK
<1>6. OtaTypeOK'
  BY <1>1, <1>2, <1>3, <1>4, <1>5, Zenon DEF OtaTypeOK
<1> QED
  BY <1>1, <1>6 DEF TypeInv, Named, Trying

\* What a failed write leaves of the cache, the partition and the try.
LEMMA FailedWrite ==
  ASSUME TypeInv, NEW n \in 1 .. BlockSize, WriteFails(n)
  PROVE  /\ svc.pc \in Trying /\ \E off \in 0 .. PartLen : EndTry(off)
         /\ svc.prm.img \in Images
         /\ hal' \in HalState /\ Len(hal'.buf) <= CacheSize /\ hal'.hash = hal.hash
         /\ part' \in [Offsets -> Units \union {Blank}]
<1> USE OtaAssumption
<1> DEFINE d == Received(n)
<1>1. /\ svc.pc = "recv" /\ At("recv") /\ n <= FileSize - dl.rx_size
      /\ FlushFails(d) \/ LastFails(d)
  BY DEF WriteFails, At
<1>2. d \in Seq(Units) /\ Len(d) \in 1 .. BlockSize /\ svc.prm.img \in Images
  BY <1>1, ReceivedUnits
<1>3. /\ Filled(d) \in Seq(Units) /\ Len(Filled(d)) <= CacheSize
      /\ Kept(d) \in Seq(Units) /\ Len(Kept(d)) <= CacheSize
      /\ Flushed(d) \in Seq(Units) /\ Final(d) \in Seq(Units) /\ Len(Flushed(d)) \in Nat
  BY <1>2, CacheUnits
<1>4. hal \in HalState /\ hal.total \in Nat /\ hal.crc \in Seq(Units) /\ dl.offset \in 0 .. PartLen
  BY DEF TypeInv, OtaTypeOK, HalState, DlState
<1>5. IsPatch(d) \in BOOLEAN /\ TRUE \in BOOLEAN /\ FALSE \in BOOLEAN
  <2>1. hal.diff \in BOOLEAN
    BY <1>4, Zenon DEF HalState
  <2> QED
    BY <2>1, Zenon DEF IsPatch
<1> HIDE DEF d
<1>6. CASE FlushFails(d)
  <2>1. /\ hal' = [hal EXCEPT !.held = FALSE, !.header = TRUE, !.diff = IsPatch(d), !.buf = Filled(d)]
        /\ EndTry(dl.offset) /\ UNCHANGED part
    BY <1>6, Zenon DEF FlushFails
  <2>2. hal' \in HalState
    BY <1>3, <1>4, <1>5, <2>1, Zenon DEF HalState
  <2>3. hal'.buf = Filled(d) /\ hal'.hash = hal.hash
    BY <1>4, <2>1 DEF HalState
  <2>4. part' \in [Offsets -> Units \union {Blank}]
    BY <2>1 DEF TypeInv, OtaTypeOK
  <2> QED
    BY <1>1, <1>2, <1>3, <1>4, <2>1, <2>2, <2>3, <2>4 DEF Trying
<1>7. CASE LastFails(d)
  <2> DEFINE crc == hal.crc \o Flushed(d) \o Final(d)
             total == hal.total + Len(d)
  <2>1. crc \in Seq(Units) /\ total \in Nat
    <3>1. hal.crc \o Flushed(d) \in Seq(Units)
      BY <1>3, <1>4, ConcatProperties
    <3> QED
      BY <1>2, <1>3, <1>4, <3>1, ConcatProperties
  <2>2. /\ hal' = [hal EXCEPT !.held = FALSE, !.header = TRUE, !.diff = IsPatch(d), !.buf = Kept(d),
                              !.total = total, !.crc = crc]
        /\ Fits(dl.offset, Flushed(d)) /\ part' = Program(dl.offset, Flushed(d))
        /\ EndTry(dl.offset + Len(Flushed(d)))
    BY <1>7, Zenon DEF LastFails
  <2> HIDE DEF crc, total
  <2>3. hal' \in HalState
    BY <1>3, <1>4, <1>5, <2>1, <2>2, Zenon DEF HalState
  <2>4. hal'.buf = Kept(d) /\ hal'.hash = hal.hash
    BY <1>4, <2>2 DEF HalState
  <2>5. part' \in [Offsets -> Units \union {Blank}]
    BY <1>3, <1>4, <2>2, Programmed
  <2>6. dl.offset + Len(Flushed(d)) \in 0 .. PartLen
    BY <1>3, <1>4, <2>2 DEF Fits
  <2> QED
    BY <1>1, <1>2, <1>3, <2>2, <2>3, <2>4, <2>5, <2>6 DEF Trying
<1> QED
  BY <1>1, <1>6, <1>7

LEMMA WriteFailsTypes ==
  ASSUME TypeInv, NEW n \in 1 .. BlockSize, WriteFails(n)
  PROVE  TypeInv'
<1> USE OtaAssumption
<1>1. /\ svc.pc \in Trying /\ svc.prm.img \in Images
      /\ hal' \in HalState /\ Len(hal'.buf) <= CacheSize
      /\ part' \in [Offsets -> Units \union {Blank}]
  BY FailedWrite
<1>2. PICK off \in 0 .. PartLen : EndTry(off)
  BY FailedWrite
<1>3. /\ dl' \in DlState /\ svc' \in SvcState /\ upgrading' \in BOOLEAN
      /\ svc'.prm = svc.prm /\ svc'.pc \in {"clear", "request"}
      /\ breaks' \in 0 .. RetryCnt
      /\ svc'.pc \in Trying => dl'.j > 0 /\ breaks' + dl'.j <= RetryCnt
  BY <1>1, <1>2, EndTryTypes
<1>4. wfail' \in BOOLEAN /\ wild' \in BOOLEAN
  BY Zenon DEF WriteFails
<1>5. prm' \in BootParam /\ msg' \in MsgState /\ ini' \in IniState /\ UNCHANGED msg
  BY DEF WriteFails, TypeInv, OtaTypeOK
<1>6. OtaTypeOK'
  BY <1>1, <1>3, <1>4, <1>5, Zenon DEF OtaTypeOK
<1> QED
  BY <1>1, <1>3, <1>5, <1>6 DEF TypeInv, Named, Trying

\* ota_int erases the partition and starts the count of the tries, or fails.
LEMMA PartitionErased ==
  ASSUME TypeInv, InitPartition, svc'.pc = "request"
  PROVE  /\ svc' \in SvcState /\ svc'.prm = svc.prm /\ svc.pc = "init"
         /\ part' = [o \in Offsets |-> Blank]
         /\ hal' \in HalState /\ hal'.buf = hal.buf /\ hal'.hash = <<>> /\ hal'.total = 0
         /\ hal'.held = TRUE /\ hal'.fw = ImgLen[svc.prm.img]
         /\ dl' \in DlState /\ dl'.j = RetryCnt /\ dl'.rx_size = 0 /\ dl'.off_size = 0
<1> USE OtaAssumption
<1>1. svc \in SvcState /\ svc.pc = "init" /\ svc.prm.img \in Images /\ hal \in HalState
  BY DEF TypeInv, OtaTypeOK, InitPartition, At, Named
<1>2. ~Goto("clear")
  BY <1>1, GotoMoves
<1>3. /\ part' = [o \in Offsets |-> Blank]
      /\ hal' = [hal EXCEPT !.held = TRUE, !.total = 0, !.fw = ImgLen[svc.prm.img],
                            !.crc = <<>>, !.hash = <<>>, !.header = FALSE, !.diff = FALSE]
      /\ dl' = [NoDl EXCEPT !.j = RetryCnt]
      /\ Goto("request")
  BY <1>2, Zenon DEF InitPartition
<1>4. svc' \in SvcState /\ svc'.prm = svc.prm
  BY <1>1, <1>3, GotoMoves
<1>5. ImgLen[svc.prm.img] \in 0 .. PartLen /\ 0 \in Nat /\ 0 \in 0 .. PartLen /\ RetryCnt \in 0 .. RetryCnt
  BY <1>1
<1>6. <<>> \in Seq(Units)
  BY EmptySeq
<1>7. hal' \in HalState
  BY <1>1, <1>3, <1>5, <1>6, TRUE \in BOOLEAN, FALSE \in BOOLEAN, Zenon DEF HalState
<1>8. /\ hal'.buf = hal.buf /\ hal'.hash = <<>> /\ hal'.total = 0
      /\ hal'.held = TRUE /\ hal'.fw = ImgLen[svc.prm.img]
  BY <1>1, <1>3, Zenon DEF HalState
<1>9. dl' = [j |-> RetryCnt, offset |-> 0, off_size |-> 0, rx_size |-> 0, base |-> 0]
  BY <1>3 DEF NoDl
<1>10. dl' \in DlState
  BY <1>5, <1>9, Zenon DEF DlState
<1>11. dl'.j = RetryCnt /\ dl'.rx_size = 0 /\ dl'.off_size = 0
  BY <1>9
<1> QED
  BY <1>1, <1>3, <1>4, <1>7, <1>8, <1>10, <1>11, Zenon

\* A try that starts asks for what is behind off_size, the first one for all.
LEMMA Requested ==
  ASSUME TypeInv, Request
  PROVE  /\ svc.pc = "request" /\ svc' \in SvcState /\ svc'.pc = "recv" /\ svc'.prm = svc.prm
         /\ dl' \in DlState /\ dl'.j = dl.j /\ dl'.rx_size = dl.rx_size /\ dl'.off_size = dl.off_size
         /\ dl'.base = (IF dl.j = RetryCnt THEN 0 ELSE dl.off_size)
         /\ UNCHANGED <<prm, part, hal, msg, ini, breaks, wfail, wild>>
<1> USE OtaAssumption
<1>1. svc.pc = "request" /\ svc \in SvcState /\ dl \in DlState
  BY DEF TypeInv, OtaTypeOK, Request, At
<1>2. svc' \in SvcState /\ svc'.pc = "recv" /\ svc'.prm = svc.prm
  BY <1>1, GotoMoves DEF Request
<1>3. dl' = [dl EXCEPT !.base = IF dl.j = RetryCnt THEN 0 ELSE dl.off_size]
  BY DEF Request
<1>4. 0 \in 0 .. PartLen
  OBVIOUS
<1>5. dl' \in DlState
  BY <1>1, <1>3, <1>4, Zenon DEF DlState
<1> QED
  BY <1>1, <1>2, <1>3, <1>5 DEF Request, DlState

\* The steps of the service thread that leave the download alone.
Quiet == ReadParam \/ DownloadHeader \/ Verify \/ ArmErase \/ ArmWrite \/ Clear

LEMMA QuietTypes ==
  ASSUME TypeInv, Quiet
  PROVE  TypeInv'
<1>1. UNCHANGED <<part, hal, dl, upgrading, msg, ini, breaks, wfail, wild>>
  BY DEF Quiet, ReadParam, DownloadHeader, Verify, ArmErase, ArmWrite, Clear
<1>2. prm \in BootParam /\ svc \in SvcState /\ svc.prm \in BootParam /\ msg' \in MsgState /\ ini' \in IniState
  BY <1>1 DEF TypeInv, OtaTypeOK, SvcState
<1>3. /\ prm' \in BootParam /\ svc' \in SvcState
      /\ svc'.pc \in Named => svc'.prm.img \in Images
      /\ svc'.pc \notin Trying
      /\ svc'.pc \in {"idle", "start", "header", "init"} => svc.pc \in {"idle", "start", "header", "init"}
  <2>1. CASE ReadParam
    BY <1>2, <2>1 DEF ReadParam, SvcState, Named, Trying, At
  <2>2. CASE DownloadHeader
    <3>1. svc.pc = "header" /\ UNCHANGED prm
      BY <2>2 DEF DownloadHeader, At
    <3>2. CASE svc.prm.img \in Images /\ Goto("init")
      BY <1>2, <3>1, <3>2, GotoMoves DEF Named, Trying
    <3>3. CASE Goto("clear")
      BY <1>2, <3>1, <3>3, GotoMoves DEF Named, Trying
    <3> QED
      BY <2>2, <3>2, <3>3 DEF DownloadHeader
  <2>3. CASE Verify
    <3>1. svc.pc = "verify" /\ UNCHANGED prm /\ svc.prm.img \in Images
      BY <2>3 DEF Verify, At, TypeInv, Named
    <3>2. CASE svc' = [pc |-> "arm", prm |-> [svc.prm EXCEPT !.diff = hal.diff]]
      <4>1. [svc.prm EXCEPT !.diff = hal.diff] \in BootParam
        BY <1>2, ParamsChanged DEF TypeInv
      <4>2. svc' \in SvcState
        BY <3>2, <4>1 DEF SvcState
      <4>3. svc'.pc = "arm" /\ svc'.prm.img = svc.prm.img
        BY <1>2, <3>2 DEF BootParam
      <4> QED
        BY <1>2, <3>1, <4>2, <4>3 DEF Named, Trying
    <3>3. CASE Goto("clear")
      BY <1>2, <3>1, <3>3, GotoMoves DEF Named, Trying
    <3> QED
      BY <2>3, <3>2, <3>3 DEF Verify
  <2>4. CASE ArmErase
    BY <1>2, <2>4, GotoMoves, Params DEF ArmErase, EraseParam, At, TypeInv, Named, Trying
  <2>5. CASE ArmWrite
    <3>1. prm' \in BootParam
      BY <1>2, <2>5, ParamsChanged, WriteParamTypes DEF ArmWrite, TypeInv
    <3> QED
      BY <1>2, <2>5, <3>1, GotoMoves DEF ArmWrite, Named, Trying
  <2>6. CASE Clear
    BY <1>2, <2>6, GotoMoves, Params DEF Clear, EraseParam, Named, Trying
  <2> QED
    BY <2>1, <2>2, <2>3, <2>4, <2>5, <2>6 DEF Quiet
<1>4. OtaTypeOK'
  BY <1>1, <1>2, <1>3, TypesKept
<1> QED
  BY <1>1, <1>3, <1>4 DEF TypeInv

LEMMA DownloadTypes ==
  ASSUME TypeInv, InitPartition \/ Request \/ Stop
  PROVE  TypeInv'
<1> USE OtaAssumption
<1>1. UNCHANGED <<prm, msg, ini, breaks, wfail, wild>>
  BY DEF InitPartition, Request, Stop
<1>2. wfail' \in BOOLEAN /\ wild' \in BOOLEAN
  BY <1>1, Zenon DEF TypeInv, OtaTypeOK
<1>3. prm' \in BootParam /\ msg' \in MsgState /\ ini' \in IniState /\ breaks' \in 0 .. RetryCnt
  BY <1>1 DEF TypeInv, OtaTypeOK
<1>4. /\ svc \in SvcState /\ hal \in HalState /\ dl \in DlState /\ Len(hal.buf) <= CacheSize
      /\ part \in [Offsets -> Units \union {Blank}]
  BY DEF TypeInv, OtaTypeOK
<1>5. upgrading \in BOOLEAN
  BY Zenon DEF TypeInv, OtaTypeOK
<1>6. CASE InitPartition
  <2>1. upgrading' \in BOOLEAN
    BY <1>5, <1>6, Zenon DEF InitPartition
  <2>2. CASE svc'.pc = "request"
    <3>1. /\ svc' \in SvcState /\ svc'.prm = svc.prm /\ svc.pc = "init"
          /\ part' = [o \in Offsets |-> Blank]
          /\ hal' \in HalState /\ hal'.buf = hal.buf
          /\ dl' \in DlState /\ dl'.j = RetryCnt
      BY <1>6, <2>2, PartitionErased
    <3>2. part' \in [Offsets -> Units \union {Blank}] /\ Len(hal'.buf) <= CacheSize
      BY <1>4, <3>1
    <3>3. OtaTypeOK'
      BY <1>2, <1>3, <2>1, <3>1, <3>2, Zenon DEF OtaTypeOK
    <3>4. svc.prm.img \in Images /\ breaks = 0
      BY <3>1 DEF TypeInv, Named
    <3> QED
      BY <1>1, <2>2, <3>1, <3>3, <3>4 DEF TypeInv, Trying
  <2>3. CASE svc'.pc # "request"
    <3>1. ~Goto("request")
      BY <1>4, <2>3, GotoMoves
    <3>2. Goto("clear") /\ UNCHANGED <<part, hal, dl>>
      BY <1>6, <3>1, Zenon DEF InitPartition
    <3>3. svc' \in SvcState /\ svc'.pc = "clear"
      BY <1>4, <3>2, GotoMoves
    <3>4. OtaTypeOK'
      BY <1>2, <1>3, <1>4, <2>1, <3>2, <3>3, Zenon DEF OtaTypeOK
    <3> QED
      BY <1>1, <3>3, <3>4 DEF TypeInv, Named, Trying
  <2> QED
    BY <2>2, <2>3
<1>7. CASE Request
  <2>1. /\ svc.pc = "request" /\ svc' \in SvcState /\ svc'.pc = "recv" /\ svc'.prm = svc.prm
        /\ dl' \in DlState /\ dl'.j = dl.j /\ UNCHANGED <<part, hal>>
    BY <1>7, Requested
  <2>2. upgrading' \in BOOLEAN
    BY <1>7, Zenon DEF Request
  <2>3. OtaTypeOK'
    BY <1>2, <1>3, <1>4, <2>1, <2>2, Zenon DEF OtaTypeOK
  <2> QED
    BY <1>1, <2>1, <2>3 DEF TypeInv, Named, Trying
<1>8. CASE Stop
  <2>1. UNCHANGED <<part, hal, dl, svc>>
    BY <1>8 DEF Stop
  <2>2. upgrading' \in BOOLEAN
    BY <1>8, Zenon DEF Stop
  <2>3. OtaTypeOK'
    BY <1>2, <1>3, <1>4, <2>1, <2>2, Zenon DEF OtaTypeOK
  <2> QED
    BY <1>1, <2>1, <2>3 DEF TypeInv
<1> QED
  BY <1>6, <1>7, <1>8

\* A restart: by a power failure, by a fault, or by the service itself.
Restart == PowerFail \/ WildWrite \/ Reboot

LEMMA RestartParts ==
  ASSUME TypeInv, Restart
  PROVE  /\ Reset /\ UNCHANGED prm /\ part' \in [Offsets -> Units \union {Blank}]
         /\ svc.pc # "init" => UNCHANGED part
<1>1. part \in [Offsets -> Units \union {Blank}]
  BY DEF TypeInv, OtaTypeOK
<1>2. [o \in Offsets |-> IF o = 0 THEN Blank ELSE part[o]] \in [Offsets -> Units \union {Blank}]
  BY <1>1
<1> QED
  BY <1>1, <1>2 DEF Restart, PowerFail, WildWrite, Reboot, At

\* The cases of a step, by what they leave alone.
LEMMA NextCases ==
  ASSUME Next
  PROVE  \/ Restart \/ ServiceInit \/ (Message \/ \E u \in Images : Announce(u))
         \/ Quiet \/ (InitPartition \/ Request \/ Stop) \/ Break
         \/ \E n \in 1 .. BlockSize : Receive(n) \/ WriteFails(n)
BY DEF Next, Restart, Quiet, Service

LEMMA TypeNext == TypeInv /\ [Next]_vars => TypeInv'
<1> SUFFICES ASSUME TypeInv, [Next]_vars PROVE TypeInv'
  OBVIOUS
<1>1. CASE Restart
  BY <1>1, RestartParts, RestartTypes
<1>2. CASE \E n \in 1 .. BlockSize : Receive(n) \/ WriteFails(n)
  BY <1>2, ReceiveTypes, WriteFailsTypes
<1>3. CASE UNCHANGED vars
  <2>1. OtaTypeOK'
    <3>1. upgrading' \in BOOLEAN /\ wfail' \in BOOLEAN /\ wild' \in BOOLEAN
      BY <1>3, Zenon DEF vars, TypeInv, OtaTypeOK
    <3> QED
      BY <1>3, <3>1, Zenon DEF vars, TypeInv, OtaTypeOK
  <2> QED
    BY <1>3, <2>1 DEF vars, TypeInv
<1> QED
  BY <1>1, <1>2, <1>3, NextCases, InitTypes, MessageTypes, QuietTypes, DownloadTypes, BreakTypes

\* The types of the OTA agent, with the bounds of the cache, of the offsets
\* and of the tries of ota_download_start, hold in every behaviour.
THEOREM OtaTypes == Spec => []OtaTypeOK
<1>1. TypeInv => OtaTypeOK
  BY DEF TypeInv
<1> QED
  BY <1>1, TypeInit, TypeNext, PTL DEF Spec
-----------------------------------------------------------------------------
(* The image the boot loader is told to install.                           *)

\* Steps that leave the partition alone and arm nothing new.
LEMMA ReadyKept ==
  ASSUME ReadyInv, UNCHANGED part,
         prm'.st = "ready" => prm.st = "ready" /\ prm'.diff = prm.diff /\ prm'.img = prm.img
  PROVE  ReadyImageIntact'
BY DEF ReadyInv, ReadyImageIntact, InPartition

\* What ota_update_parameter leaves is "ready" only if it was meant to be.
LEMMA WrittenReady ==
  ASSUME NEW p, WriteParam(p), prm'.st = "ready"
  PROVE  prm' = p
BY DEF WriteParam, Torn, NoPrm, Prm

LEMMA ReadyInit == Init => ReadyInv
BY DEF Init, ReadyInv, NoneReady, ArmedIntact, ReadyImageIntact, NoPrm, Prm

LEMMA ReadyRestart ==
  ASSUME TypeInv, ReadyInv, Restart
  PROVE  ReadyInv'
<1>1. Reset /\ UNCHANGED prm /\ (svc.pc # "init" => UNCHANGED part)
  BY RestartParts
<1>2. svc'.pc = "idle" /\ msg'.pc = "idle"
  BY <1>1 DEF Reset
<1>3. ReadyImageIntact'
  <2>1. CASE svc.pc = "init"
    <3>1. prm.st # "ready"
      BY <2>1 DEF ReadyInv, NoneReady
    <3> QED
      BY <1>1, <3>1 DEF ReadyImageIntact
  <2>2. CASE svc.pc # "init"
    BY <1>1, <2>2, ReadyKept
  <2> QED
    BY <2>1, <2>2
<1> QED
  BY <1>2, <1>3 DEF ReadyInv, NoneReady, ArmedIntact

LEMMA ReadyServiceInit ==
  ASSUME TypeInv, ReadyInv, ServiceInit
  PROVE  ReadyInv'
<1>1. UNCHANGED <<part, svc, msg>>
  BY DEF ServiceInit, BootLoader, RollbackRead, RollbackErase, RollbackWrite
<1>2. prm'.st = "ready" => prm.st = "ready" /\ prm'.diff = prm.diff /\ prm'.img = prm.img
  <2>1. prm \in BootParam /\ ini.prm \in BootParam
    BY DEF TypeInv, OtaTypeOK, IniState
  <2>2. CASE BootLoader
    BY <2>1, <2>2 DEF BootLoader, BootParam
  <2>3. CASE RollbackRead
    BY <2>3 DEF RollbackRead
  <2>4. CASE RollbackErase
    BY <2>4 DEF RollbackErase, EraseParam, NoPrm, Prm
  <2>5. CASE RollbackWrite
    <3>1. [ini.prm EXCEPT !.st = "done", !.boots = 0].st = "done"
      BY <2>1 DEF BootParam
    <3> QED
      BY <2>5, <3>1, WrittenReady DEF RollbackWrite
  <2> QED
    BY <2>2, <2>3, <2>4, <2>5 DEF ServiceInit
<1>3. ReadyImageIntact'
  BY <1>1, <1>2, ReadyKept
<1> QED
  BY <1>1, <1>2, <1>3 DEF ReadyInv, NoneReady, ArmedIntact, InPartition

LEMMA ReadyMessage ==
  ASSUME TypeInv, ReadyInv, Message \/ \E u \in Images : Announce(u)
  PROVE  ReadyInv'
<1>1. UNCHANGED part
  BY DEF Message, SaveParam, OnUpgrade, Announce
<1>2. /\ prm'.st # "ready" \/ UNCHANGED prm
      /\ svc' = svc \/ (svc.pc = "idle" /\ svc'.pc = "start" /\ msg.pc = "upgrade")
  <2>1. CASE \E u \in Images : Announce(u)
    BY <2>1 DEF Announce, EraseParam, NoPrm, Prm
  <2>2. CASE SaveParam
    BY <2>2, WrittenReady DEF SaveParam, Prm
  <2>3. CASE OnUpgrade
    <3>1. svc \in SvcState
      BY DEF TypeInv, OtaTypeOK
    <3>2. CASE svc.pc = "idle"
      <4>1. Goto("start")
        BY <2>3, <3>2 DEF OnUpgrade, At, Goto
      <4> QED
        BY <2>3, <3>1, <3>2, <4>1, GotoMoves DEF OnUpgrade
    <3>3. CASE svc.pc # "idle"
      BY <2>3, <3>3 DEF OnUpgrade, At
    <3> QED
      BY <3>2, <3>3
  <2> QED
    BY <2>1, <2>2, <2>3 DEF Message
<1>3. ReadyImageIntact'
  BY <1>1, <1>2, ReadyKept
<1>4. prm'.st = "ready" => UNCHANGED <<prm, msg, svc>> \/ msg'.pc = "idle"
  BY <1>2, WrittenReady DEF Message, SaveParam, OnUpgrade, Announce, EraseParam, NoPrm, Prm
<1>5. NoneReady'
  BY <1>2, <1>4 DEF ReadyInv, NoneReady
<1>6. ArmedIntact'
  BY <1>1, <1>2 DEF ReadyInv, ArmedIntact, InPartition
<1> QED
  BY <1>3, <1>5, <1>6 DEF ReadyInv

LEMMA ReadyQuiet ==
  ASSUME TypeInv, ReadyInv, Quiet
  PROVE  ReadyInv'
<1>1. UNCHANGED <<part, msg>>
  BY DEF Quiet, ReadParam, DownloadHeader, Verify, ArmErase, ArmWrite, Clear
<1>2. svc \in SvcState /\ svc.prm \in BootParam
  BY DEF TypeInv, OtaTypeOK, SvcState
<1>3. svc.pc \in {"start", "header", "verify", "arm", "armed", "clear"} /\ prm.st # "ready"
  <2>1. svc.pc \in {"start", "header", "verify", "arm", "armed", "clear"}
    BY DEF Quiet, ReadParam, DownloadHeader, Verify, ArmErase, ArmWrite, Clear, At
  <2> QED
    BY <2>1 DEF ReadyInv, NoneReady
<1>4. CASE ReadParam \/ DownloadHeader
  <2>1. UNCHANGED prm /\ svc'.pc \in {"header", "init", "clear"}
    BY <1>2, <1>4, GotoMoves DEF ReadParam, DownloadHeader
  <2> QED
    BY <1>3, <2>1 DEF ReadyInv, NoneReady, ArmedIntact, ReadyImageIntact
<1>5. CASE Verify
  <2>1. UNCHANGED prm
    BY <1>5 DEF Verify
  <2>2. CASE hal.hash = Image(svc.prm.img) /\ (hal.diff \/ InPartition(svc.prm.img))
    <3>1. svc' = [pc |-> "arm", prm |-> [svc.prm EXCEPT !.diff = hal.diff]]
      BY <1>5, <2>2 DEF Verify
    <3>2. svc'.pc = "arm" /\ svc'.prm.img = svc.prm.img /\ svc'.prm.diff = hal.diff
      BY <1>2, <3>1, Zenon DEF BootParam
    <3>3. ~svc'.prm.diff => InPartition(svc.prm.img)
      BY <2>2, <3>2, Zenon
    <3>4. ArmedIntact'
      BY <1>1, <3>2, <3>3 DEF ArmedIntact, InPartition
    <3> QED
      BY <1>3, <2>1, <3>2, <3>4 DEF ReadyInv, NoneReady, ReadyImageIntact
  <2>3. CASE ~(hal.hash = Image(svc.prm.img) /\ (hal.diff \/ InPartition(svc.prm.img)))
    <3>1. svc'.pc = "clear"
      BY <1>2, <1>5, <2>3, GotoMoves DEF Verify
    <3> QED
      BY <1>3, <2>1, <3>1 DEF ReadyInv, NoneReady, ArmedIntact, ReadyImageIntact
  <2> QED
    BY <2>2, <2>3
<1>6. CASE ArmErase
  <2>1. svc'.pc = "armed" /\ svc'.prm = svc.prm /\ svc.pc = "arm"
    BY <1>2, <1>6, GotoMoves DEF ArmErase, At
  <2>2. prm'.st # "ready"
    BY <1>6 DEF ArmErase, EraseParam, NoPrm, Prm
  <2> QED
    BY <1>1, <2>1, <2>2 DEF ReadyInv, NoneReady, ArmedIntact, ReadyImageIntact, InPartition
<1>7. CASE ArmWrite
  <2>1. svc'.pc = "reboot" /\ svc.pc = "armed" /\ svc.prm.img \in Images
    BY <1>2, <1>7, GotoMoves DEF ArmWrite, At, TypeInv, Named
  <2>2. Armed(svc.prm).diff = svc.prm.diff /\ Armed(svc.prm).img = svc.prm.img
    BY <1>2, Zenon DEF Armed, BootParam
  <2>3. prm'.st = "ready" => prm'.diff = svc.prm.diff /\ prm'.img = svc.prm.img
    BY <1>7, <2>2, WrittenReady DEF ArmWrite
  <2>4. ReadyImageIntact'
    BY <1>1, <2>1, <2>3 DEF ReadyInv, ArmedIntact, ReadyImageIntact, InPartition
  <2> QED
    BY <2>1, <2>4 DEF ReadyInv, NoneReady, ArmedIntact
<1>8. CASE Clear
  <2>1. svc'.pc = "reboot" /\ prm'.st # "ready"
    BY <1>2, <1>8, GotoMoves DEF Clear, EraseParam, NoPrm, Prm
  <2> QED
    BY <2>1 DEF ReadyInv, NoneReady, ArmedIntact, ReadyImageIntact
<1> QED
  BY <1>4, <1>5, <1>6, <1>7, <1>8 DEF Quiet

\* While an image is downloaded no parameters are "ready".
LEMMA ReadyDownload ==
  ASSUME TypeInv, ReadyInv,
         \/ InitPartition \/ Request \/ Stop \/ Break
         \/ \E n \in 1 .. BlockSize : Receive(n) \/ WriteFails(n)
  PROVE  ReadyInv'
<1>1. UNCHANGED prm /\ svc.pc \in {"init", "request", "recv"}
  BY DEF InitPartition, Request, Stop, Break, Receive, WriteFails, At
<1>2. svc'.pc \in {"clear", "request", "recv", "verify"}
  <2>1. svc \in SvcState
    BY DEF TypeInv, OtaTypeOK
  <2>2. CASE InitPartition
    BY <2>1, <2>2, GotoMoves DEF InitPartition
  <2>3. CASE Request
    BY <2>3, Requested
  <2>4. CASE Stop
    BY <2>4 DEF Stop, At
  <2>5. CASE \E off : EndTry(off)
    BY <2>1, <2>5, GotoMoves DEF EndTry
  <2>6. CASE \E n \in 1 .. BlockSize : Receive(n)
    BY <2>6, Reception
  <2> QED
    BY <2>2, <2>3, <2>4, <2>5, <2>6 DEF Break, WriteFails, FlushFails, LastFails
<1>3. prm.st # "ready"
  BY <1>1 DEF ReadyInv, NoneReady
<1> QED
  BY <1>1, <1>2, <1>3 DEF ReadyInv, NoneReady, ArmedIntact, ReadyImageIntact

LEMMA ReadyNext == TypeInv /\ ReadyInv /\ [Next]_vars => ReadyInv'
<1> SUFFICES ASSUME TypeInv, ReadyInv, [Next]_vars PROVE ReadyInv'
  OBVIOUS
<1>1. CASE UNCHANGED vars
  BY <1>1 DEF vars, ReadyInv, NoneReady, ArmedIntact, ReadyImageIntact, InPartition
<1> QED
  BY <1>1, NextCases, ReadyRestart, ReadyServiceInit, ReadyMessage, ReadyQuiet, ReadyDownload

\* ota_hal_boot arms a whole image only when it is in the OTA partition, and
\* the partition is not written again before the parameters are erased.
THEOREM ReadyImages == Spec => []ReadyImageIntact
<1>1. ReadyInv => ReadyImageIntact
  BY DEF ReadyInv
<1> QED
  BY <1>1, TypeInit, TypeNext, ReadyInit, ReadyNext, PTL DEF Spec
-----------------------------------------------------------------------------
(* The place of a download, and the cache.                                 *)

\* The steps after which no try is under way.
LEMMA Elsewhere ==
  ASSUME TypeInv, PlaceInv, CacheInv,
         svc'.pc \notin {"request", "recv", "verify"}, UNCHANGED <<breaks, wfail, wild>>
  PROVE  PlaceInv' /\ CacheInv'
BY DEF PlaceInv, CacheInv, CacheHeldInUse, Trying

\* The steps that leave the download and the service thread alone.
LEMMA PlaceKept ==
  ASSUME TypeInv, PlaceInv, CacheInv, UNCHANGED <<hal, dl, svc, breaks, wfail, wild>>
  PROVE  PlaceInv' /\ CacheInv'
BY DEF PlaceInv, HashIsPrefix, RequestInPlace, RecvInPlace, CacheInv, CacheHeldInUse

LEMMA PlaceInit == Init => PlaceInv /\ CacheInv
BY DEF Init, PlaceInv, CacheInv, CacheHeldInUse, Trying

LEMMA PlaceRestart ==
  ASSUME TypeInv, Restart
  PROVE  PlaceInv' /\ CacheInv'
<1>1. svc'.pc = "idle" /\ ~wild'
  BY RestartParts DEF Reset
<1> QED
  BY <1>1 DEF PlaceInv, CacheInv, CacheHeldInUse, Trying

LEMMA PlaceMessage ==
  ASSUME TypeInv, PlaceInv, CacheInv, ServiceInit \/ Message \/ \E u \in Images : Announce(u)
  PROVE  PlaceInv' /\ CacheInv'
<1>1. UNCHANGED <<hal, dl, breaks, wfail, wild>>
  BY DEF ServiceInit, BootLoader, RollbackRead, RollbackErase, RollbackWrite,
         Message, SaveParam, OnUpgrade, Announce
<1>2. CASE OnUpgrade /\ svc.pc = "idle"
  <2>1. Goto("start")
    BY <1>2 DEF OnUpgrade, At, Goto
  <2>2. svc'.pc = "start"
    BY <2>1, GotoMoves DEF TypeInv, OtaTypeOK
  <2> QED
    BY <1>1, <2>2, Elsewhere
<1>3. CASE ~(OnUpgrade /\ svc.pc = "idle")
  <2>1. UNCHANGED svc
    BY <1>3 DEF ServiceInit, BootLoader, RollbackRead, RollbackErase, RollbackWrite,
                Message, SaveParam, OnUpgrade, Announce, At
  <2> QED
    BY <1>1, <2>1, PlaceKept
<1> QED
  BY <1>2, <1>3

LEMMA PlaceQuiet ==
  ASSUME TypeInv, PlaceInv, CacheInv, Quiet
  PROVE  PlaceInv' /\ CacheInv'
<1>1. svc \in SvcState /\ UNCHANGED <<breaks, wfail, wild>>
  BY DEF TypeInv, OtaTypeOK, Quiet, ReadParam, DownloadHeader, Verify, ArmErase, ArmWrite, Clear
<1>2. svc'.pc \notin {"request", "recv", "verify"}
  BY <1>1, GotoMoves DEF Quiet, ReadParam, DownloadHeader, Verify, ArmErase, ArmWrite, Clear
<1> QED
  BY <1>1, <1>2, Elsewhere

LEMMA PlaceInitPartition ==
  ASSUME TypeInv, PlaceInv, CacheInv, InitPartition
  PROVE  PlaceInv' /\ CacheInv'
<1> USE OtaAssumption
<1>1. UNCHANGED <<breaks, wfail, wild>> /\ svc \in SvcState
  BY DEF InitPartition, TypeInv, OtaTypeOK
<1>2. CASE svc'.pc # "request"
  <2>1. ~Goto("request")
    BY <1>1, <1>2, GotoMoves
  <2>2. Goto("clear")
    BY <2>1, Zenon DEF InitPartition
  <2>3. svc'.pc = "clear"
    BY <1>1, <2>2, GotoMoves
  <2> QED
    BY <1>1, <2>3, Elsewhere
<1>3. CASE svc'.pc = "request"
  <2>1. /\ svc'.prm = svc.prm /\ svc.pc = "init"
        /\ hal'.hash = <<>> /\ hal'.total = 0 /\ hal'.fw = ImgLen[svc.prm.img]
        /\ dl'.rx_size = 0 /\ dl'.off_size = 0
    BY <1>3, PartitionErased
  <2>2. hal'.held = TRUE
    BY <1>3, PartitionErased
  <2>3. Len(hal'.hash) = 0
    BY <2>1, EmptySeq
  <2>4. ImgLen[svc.prm.img] \in 1 .. PartLen
    BY <2>1 DEF TypeInv, Named
  <2>5. HashIsPrefix' /\ RequestInPlace'
    BY <2>1, <2>3, <2>4 DEF HashIsPrefix, RequestInPlace
  <2>6. CacheHeldInUse'
    BY <1>1 DEF CacheInv, CacheHeldInUse
  <2>7. hal'.total = Len(hal'.hash) /\ hal'.fw = ImgLen[svc'.prm.img]
    BY <2>1, <2>3
  <2>8. PlaceInv'
    BY <1>3, <2>5 DEF PlaceInv
  <2> QED
    BY <2>2, <2>6, <2>7, <2>8, Zenon DEF CacheInv
<1> QED
  BY <1>2, <1>3

LEMMA PlaceRequest ==
  ASSUME TypeInv, PlaceInv, CacheInv, Request
  PROVE  PlaceInv' /\ CacheInv'
<1> USE OtaAssumption
<1>1. /\ svc.pc = "request" /\ svc'.pc = "recv" /\ svc'.prm = svc.prm
      /\ dl'.rx_size = dl.rx_size /\ dl'.off_size = dl.off_size
      /\ dl'.base = (IF dl.j = RetryCnt THEN 0 ELSE dl.off_size)
      /\ UNCHANGED <<hal, breaks, wfail, wild>>
  BY Requested
<1>2. dl.off_size \in Nat /\ breaks \in Nat
  BY DEF TypeInv, OtaTypeOK, DlState
<1>3. breaks <= 1 => HashIsPrefix' /\ RecvInPlace'
  BY <1>1, <1>2 DEF PlaceInv, HashIsPrefix, RequestInPlace, RecvInPlace
<1>4. PlaceInv'
  BY <1>1, <1>3 DEF PlaceInv
<1>5. CacheInv'
  BY <1>1 DEF CacheInv, CacheHeldInUse, Trying
<1> QED
  BY <1>4, <1>5

\* Once data has come the number of tries that broke goes up with the break.
LEMMA PlaceEndTry ==
  ASSUME TypeInv, PlaceInv, svc.pc \in Trying, NEW off \in 0 .. PartLen, EndTry(off),
         hal'.hash = hal.hash
  PROVE  /\ PlaceInv' /\ svc'.prm = svc.prm /\ svc'.pc \in {"clear", "request"}
         /\ breaks \in Nat /\ breaks' \in {breaks, breaks + 1}
<1> USE OtaAssumption
<1>1. /\ dl'.j = dl.j - 1 /\ dl'.rx_size = 0 /\ dl'.off_size = dl.off_size
      /\ svc'.prm = svc.prm /\ svc'.pc \in {"clear", "request"}
      /\ breaks' = (IF dl.rx_size > 0 THEN breaks + 1 ELSE breaks)
  BY EndTryTypes
<1>2. /\ breaks \in Nat /\ dl.rx_size \in Nat /\ dl.off_size \in Nat /\ dl.base \in Nat
      /\ dl.j \in 1 .. RetryCnt
  BY DEF TypeInv, OtaTypeOK, DlState
<1>3. ASSUME breaks' <= 1 PROVE HashIsPrefix'
  <2>1. breaks <= 1
    BY <1>1, <1>2, <1>3
  <2>2. HashIsPrefix
    BY <2>1 DEF PlaceInv, Trying
  <2> QED
    BY <1>1, <2>2 DEF HashIsPrefix
<1>4. ASSUME breaks' <= 1 PROVE RequestInPlace'
  <2>1. breaks <= 1
    BY <1>1, <1>2, <1>4
  <2>2. CASE svc.pc = "request"
    BY <1>1, <1>2, <2>1, <2>2 DEF PlaceInv, RequestInPlace
  <2>3. CASE svc.pc = "recv"
    <3>1. RecvInPlace
      BY <2>1, <2>3 DEF PlaceInv
    <3>2. CASE dl.rx_size = 0
      BY <1>1, <1>2, <2>1, <3>1, <3>2 DEF RequestInPlace, RecvInPlace
    <3>3. CASE dl.rx_size > 0
      <4>1. breaks = 0 /\ breaks' = 1
        BY <1>1, <1>2, <1>4, <3>3
      <4> QED
        BY <1>1, <1>2, <3>1, <3>3, <4>1 DEF RequestInPlace, RecvInPlace
    <3> QED
      BY <1>2, <3>2, <3>3
  <2> QED
    BY <2>2, <2>3 DEF Trying
<1>5. PlaceInv'
  BY <1>1, <1>3, <1>4 DEF PlaceInv
<1> QED
  BY <1>1, <1>2, <1>5

LEMMA PlaceBreak ==
  ASSUME TypeInv, PlaceInv, CacheInv, Break
  PROVE  PlaceInv' /\ CacheInv'
<1>1. /\ svc.pc \in Trying /\ dl.offset \in 0 .. PartLen /\ EndTry(dl.offset)
      /\ UNCHANGED <<hal, wfail, wild>>
  BY DEF Break, At, Trying, TypeInv, OtaTypeOK, DlState
<1>2. /\ PlaceInv' /\ svc'.prm = svc.prm /\ breaks \in Nat /\ breaks' \in {breaks, breaks + 1}
  BY <1>1, PlaceEndTry
<1>3. breaks' <= 1 => breaks <= 1
  BY <1>2
<1>4. CacheHeldInUse'
  BY <1>1, <1>2 DEF CacheInv, CacheHeldInUse
<1>5. CacheInv'
  BY <1>1, <1>2, <1>3, <1>4 DEF CacheInv, Trying
<1> QED
  BY <1>2, <1>5

LEMMA PlaceWriteFails ==
  ASSUME TypeInv, PlaceInv, CacheInv, NEW n \in 1 .. BlockSize, WriteFails(n)
  PROVE  PlaceInv' /\ CacheInv'
<1>1. svc.pc \in Trying /\ hal'.hash = hal.hash
  BY FailedWrite
<1>2. PICK off \in 0 .. PartLen : EndTry(off)
  BY FailedWrite
<1>3. PlaceInv'
  BY <1>1, <1>2, PlaceEndTry
<1>4. CacheInv'
  <2>1. wfail'
    BY DEF WriteFails
  <2> QED
    BY <2>1, Zenon DEF CacheInv, CacheHeldInUse
<1> QED
  BY <1>3, <1>4

LEMMA PlaceReceive ==
  ASSUME TypeInv, PlaceInv, CacheInv, NEW n \in 1 .. BlockSize, Receive(n)
  PROVE  PlaceInv' /\ CacheInv'
<1> USE OtaAssumption
<1> DEFINE d == Received(n)
<1>1. /\ d \in Seq(Units) /\ Len(d) = n /\ svc.prm.img \in Images
      /\ \A i \in 1 .. n : d[i] = <<svc.prm.img, dl.base + dl.rx_size + i - 1>>
  BY Reception
<1>2. /\ ImgLen[svc.prm.img] \in Nat
      /\ dl.base + dl.rx_size + n <= ImgLen[svc.prm.img]
      /\ svc.pc = "recv" /\ Write(d) /\ UNCHANGED <<breaks, wfail>>
      /\ svc'.prm = svc.prm
      /\ svc'.pc = (IF dl.rx_size + n = FileSize THEN "verify" ELSE "recv")
      /\ dl'.rx_size = dl.rx_size + n /\ dl'.off_size = dl.rx_size + n
      /\ dl'.base = dl.base
  BY Reception
<1>3. Len(d) \in 1 .. BlockSize /\ n \in Nat \ {0}
  BY <1>1
<1>4. hal'.hash = hal.hash \o d /\ hal'.total = hal.total + n /\ hal'.fw = hal.fw
  BY <1>1, <1>2, <1>3, HalWritten
<1>5. hal'.held = (hal.held /\ ~Last(d))
  BY <1>1, <1>2, <1>3, HalWritten
<1>6. /\ hal.hash \in Seq(Units) /\ Len(hal.hash) \in Nat /\ dl.base \in Nat /\ dl.rx_size \in Nat
      /\ breaks \in Nat /\ hal.total \in Nat
  <2>1. hal.hash \in Seq(Units) /\ hal.total \in Nat
    BY DEF TypeInv, OtaTypeOK, HalState
  <2>2. dl.base \in Nat /\ dl.rx_size \in Nat /\ breaks \in Nat
    BY DEF TypeInv, OtaTypeOK, DlState
  <2> QED
    BY <2>1, <2>2, LenProperties
<1> HIDE DEF d
<1>7. /\ Len(hal'.hash) = Len(hal.hash) + n
      /\ \A i \in 1 .. Len(hal.hash) + n :
           hal'.hash[i] = IF i <= Len(hal.hash) THEN hal.hash[i] ELSE d[i - Len(hal.hash)]
  <2>1. hal.hash \in Seq(Units) /\ d \in Seq(Units) /\ Len(d) = n
    BY <1>1, <1>6
  <2>2. ASSUME NEW s \in Seq(Units), NEW t \in Seq(Units)
        PROVE  /\ Len(s \o t) = Len(s) + Len(t)
               /\ \A i \in 1 .. Len(s) + Len(t) : (s \o t)[i] = IF i <= Len(s) THEN s[i] ELSE t[i - Len(s)]
    BY ConcatProperties
  <2>3. hal'.hash = hal.hash \o d
    BY <1>4
  <2>4. Len(hal'.hash) = Len(hal.hash) + Len(d)
    BY <2>1, <2>2, <2>3
  <2>5. \A i \in 1 .. Len(hal.hash) + Len(d) :
          hal'.hash[i] = IF i <= Len(hal.hash) THEN hal.hash[i] ELSE d[i - Len(hal.hash)]
    BY <2>1, <2>2, <2>3
  <2> QED
    BY <2>1, <2>4, <2>5
<1>8. ASSUME breaks <= 1 PROVE HashIsPrefix' /\ RecvInPlace'
  <2>1. HashIsPrefix /\ dl.base + dl.rx_size = Len(hal.hash) /\ (breaks = 0 => dl.base = 0)
    BY <1>2, <1>8 DEF PlaceInv, RecvInPlace
  <2>2. Len(hal'.hash) <= ImgLen[svc'.prm.img] /\ dl'.base + dl'.rx_size = Len(hal'.hash)
    BY <1>2, <1>3, <1>6, <1>7, <2>1
  <2>3. ASSUME NEW i \in 1 .. Len(hal'.hash) PROVE hal'.hash[i] = <<svc'.prm.img, i - 1>>
    <3>1. CASE i <= Len(hal.hash)
      <4>1. i \in 1 .. Len(hal.hash)
        BY <1>6, <3>1
      <4>2. hal.hash[i] = <<svc.prm.img, i - 1>>
        BY <2>1, <4>1 DEF HashIsPrefix
      <4> QED
        BY <1>2, <1>7, <3>1, <4>2
    <3>2. CASE ~(i <= Len(hal.hash))
      <4>1. i - Len(hal.hash) \in 1 .. n
        BY <1>3, <1>6, <1>7, <3>2
      <4>2. d[i - Len(hal.hash)] = <<svc.prm.img, dl.base + dl.rx_size + (i - Len(hal.hash)) - 1>>
        BY <1>1, <4>1
      <4>3. dl.base + dl.rx_size + (i - Len(hal.hash)) - 1 = i - 1
        BY <1>6, <2>1
      <4>4. hal'.hash[i] = d[i - Len(hal.hash)]
        BY <1>7, <3>2
      <4> QED
        BY <1>2, <4>2, <4>3, <4>4
    <3> QED
      BY <3>1, <3>2
  <2>4. RecvInPlace'
    BY <1>2, <1>3, <1>6, <2>1, <2>2 DEF RecvInPlace
  <2> QED
    BY <2>2, <2>3, <2>4 DEF HashIsPrefix
<1>9. PlaceInv'
  BY <1>2, <1>8 DEF PlaceInv
<1>10. ASSUME breaks <= 1, ~wfail
       PROVE  /\ hal.held
              /\ svc'.pc = "recv" => hal'.held
              /\ hal'.total = Len(hal'.hash) /\ hal'.fw = ImgLen[svc'.prm.img]
  <2>1. hal.held
    BY <1>2, <1>10, Zenon DEF CacheInv, Trying
  <2>2. hal.total = Len(hal.hash) /\ hal.fw = ImgLen[svc.prm.img]
    BY <1>2, <1>10 DEF CacheInv, Trying
  <2>3. dl.base + dl.rx_size = Len(hal.hash)
    BY <1>2, <1>10 DEF PlaceInv, RecvInPlace
  <2>4. hal'.total = Len(hal'.hash) /\ hal'.fw = ImgLen[svc'.prm.img]
    BY <1>2, <1>4, <1>7, <2>2
  <2>5. svc'.pc = "recv" => ~Last(d)
    <3> SUFFICES ASSUME svc'.pc = "recv" PROVE ~Last(d)
      OBVIOUS
    <3>1. dl.rx_size + n # ImgLen[svc.prm.img] - dl.base
      BY <1>2 DEF FileSize
    <3>2. hal.total + n # hal.fw
      BY <1>2, <1>3, <1>6, <2>2, <2>3, <3>1
    <3> QED
      BY <1>1, <3>2 DEF Last
  <2> QED
    BY <1>5, <2>1, <2>4, <2>5, Zenon
<1>11. CacheHeldInUse'
  <2>1. wild' => wild \/ ~hal.held
    BY Zenon DEF Receive
  <2>2. wild => breaks > 1 \/ wfail
    BY DEF CacheInv, CacheHeldInUse
  <2>3. breaks > 1 \/ breaks <= 1
    BY <1>6
  <2>4. ~hal.held => breaks > 1 \/ wfail
    BY <1>10, <2>3, Zenon
  <2> QED
    BY <1>2, <2>1, <2>2, <2>4, Zenon DEF CacheHeldInUse
<1>12. svc'.pc \in Trying => svc'.pc = "recv"
  BY <1>2 DEF Trying
<1>13. breaks' = breaks /\ wfail' = wfail
  BY <1>2
<1>14. CacheInv'
  BY <1>10, <1>11, <1>12, <1>13, Zenon DEF CacheInv
<1> QED
  BY <1>9, <1>14

LEMMA PlaceNext == TypeInv /\ PlaceInv /\ CacheInv /\ [Next]_vars => PlaceInv' /\ CacheInv'
<1> SUFFICES ASSUME TypeInv, PlaceInv, CacheInv, [Next]_vars PROVE PlaceInv' /\ CacheInv'
  OBVIOUS
<1>1. CASE Stop \/ UNCHANGED vars
  <2>1. UNCHANGED <<hal, dl, svc, breaks, wfail, wild>>
    BY <1>1 DEF Stop, vars
  <2> QED
    BY <2>1, PlaceKept
<1>2. CASE \E n \in 1 .. BlockSize : Receive(n) \/ WriteFails(n)
  BY <1>2, PlaceReceive, PlaceWriteFails
<1> QED
  BY <1>1, <1>2, NextCases, PlaceRestart, PlaceMessage, PlaceQuiet, PlaceInitPartition,
     PlaceRequest, PlaceBreak

\* A sequence whose elements are those of an image, as far as it goes.
LEMMA PrefixOfImage ==
  ASSUME TypeInv, svc.prm.img \in Images, HashIsPrefix
  PROVE  hal.hash = SubSeq(Image(svc.prm.img), 1, Len(hal.hash))
<1> USE OtaAssumption
<1> DEFINE u == svc.prm.img
           m == Len(hal.hash)
<1>1. hal.hash \in Seq(Units)
  BY DEF TypeInv, OtaTypeOK, HalState
<1>2. m \in Nat /\ m <= ImgLen[u] /\ ImgLen[u] \in 1 .. PartLen
  BY <1>1, LenProperties DEF HashIsPrefix
<1>3. \A i \in 1 .. m : Image(u)[i] = <<u, i - 1>> /\ i - 1 \in Offsets
  <2> HIDE DEF u, m
  <2> SUFFICES ASSUME NEW i \in 1 .. m PROVE Image(u)[i] = <<u, i - 1>> /\ i - 1 \in Offsets
    OBVIOUS
  <2>1. i \in 1 .. ImgLen[u] /\ i - 1 \in Offsets
    BY <1>2 DEF Offsets
  <2> QED
    BY <2>1 DEF Image
<1>4. \A i \in 1 .. m : Image(u)[i] \in Units
  <2>1. \A o \in Offsets : <<u, o>> \in Units
    BY DEF Units
  <2> QED
    BY <1>3, <2>1
<1>5. /\ SubSeq(Image(u), 1, m) \in Seq(Units) /\ Len(SubSeq(Image(u), 1, m)) = m
      /\ \A i \in 1 .. m : SubSeq(Image(u), 1, m)[i] = Image(u)[i]
  <2> HIDE DEF u, m
  <2>1. m \in Int /\ 1 \in Int
    BY <1>2
  <2>2. /\ SubSeq(Image(u), 1, m) \in Seq(Units)
        /\ Len(SubSeq(Image(u), 1, m)) = IF 1 <= m THEN m - 1 + 1 ELSE 0
        /\ \A i \in 1 .. m - 1 + 1 : SubSeq(Image(u), 1, m)[i] = Image(u)[1 + i - 1]
    BY <1>4, <2>1, SubSeqProperties
  <2>3. Len(SubSeq(Image(u), 1, m)) = m
    BY <1>2, <2>2
  <2>4. ASSUME NEW i \in 1 .. m PROVE SubSeq(Image(u), 1, m)[i] = Image(u)[i]
    <3>1. i \in 1 .. m - 1 + 1 /\ 1 + i - 1 = i
      BY <1>2
    <3> QED
      BY <2>2, <3>1
  <2> QED
    BY <2>2, <2>3, <2>4
<1>6. \A i \in 1 .. m : hal.hash[i] = SubSeq(Image(u), 1, m)[i]
  BY <1>3, <1>5 DEF HashIsPrefix
<1> QED
  BY <1>1, <1>5, <1>6, SeqEqual

\* A try after a broken one goes on where that one broke, as long as data was
\* lost once only: what is hashed is the start of the image.
THEOREM DownloadsResume == Spec => []ResumesInPlace
<1>1. TypeInv /\ PlaceInv => ResumesInPlace
  <2> SUFFICES ASSUME TypeInv, PlaceInv, svc.pc \in {"request", "recv", "verify"}, breaks <= 1
               PROVE  hal.hash = SubSeq(Image(svc.prm.img), 1, Len(hal.hash))
    BY DEF ResumesInPlace
  <2>1. svc.prm.img \in Images
    BY DEF TypeInv, Named
  <2>2. HashIsPrefix
    BY DEF PlaceInv
  <2> QED
    BY <2>1, <2>2, PrefixOfImage
<1> QED
  BY <1>1, TypeInit, TypeNext, PlaceInit, PlaceNext, PTL DEF Spec

\* ota_hal_write copies to the cache only while it is allocated, unless data
\* was lost twice or a write has failed.
THEOREM CacheHeld == Spec => []CacheHeldInUse
<1>1. CacheInv => CacheHeldInUse
  BY DEF CacheInv
<1> QED
  BY <1>1, TypeInit, TypeNext, PlaceInit, PlaceNext, PTL DEF Spec
=============================================================================
