----------------------------- MODULE OtaService -----------------------------
(***************************************************************************)
(* The OTA agent of components/ota on the main device: the upgrade message *)
(* of the cloud (ota_sevice_parse_msg), the service thread that downloads, *)
(* verifies and arms an image (ota_service_start), the write cache of the  *)
(* OTA partition (ota_hal_write), the parameter partition, and             *)
(* ota_hal_rollback when the service comes up.                             *)
(*                                                                         *)
(* The connection may break in any try, the power may fail at any step, a  *)
(* message may arrive at any moment, and flash writes may fail.  An image  *)
(* is a sequence of units (a part of OTA_FLASH_WRITE_CACHE_SIZE bytes).    *)
(***************************************************************************)
EXTENDS Integers, Sequences

CONSTANTS
  Images,      \* the images the cloud may announce
  Diffs,       \* the ones that are patches ("BSDIFF40")
  ImgLen,      \* the size of each image
  PartLen,     \* the size of the OTA partition
  CacheSize,   \* OTA_FLASH_WRITE_CACHE_SIZE
  BlockSize,   \* OTA_DOWNLOAD_BLOCK_SIZE
  RetryCnt,    \* OTA_DOWNLOAD_RETRY_CNT
  Blank,       \* an erased unit of flash
  NoImage      \* parameters that name no image

ASSUME OtaAssumption ==
  /\ Diffs \subseteq Images /\ NoImage \notin Images
  /\ PartLen \in Nat /\ CacheSize \in Nat \ {0} /\ RetryCnt \in Nat \ {0}
  /\ BlockSize \in 1 .. CacheSize
  /\ ImgLen \in [Images -> 1 .. PartLen]
  /\ Blank \notin Images \X Nat

VARIABLES
  prm,    \* the parameter partition, an ota_boot_param_t
  part,   \* the OTA partition
  hal,    \* ota_hal_plat.c and ota_hal_ctrl.c: cache, counters, crc and hash
  dl,     \* the locals of ota_download_start
  upgrading,   \* ota_upgrading
  svc,    \* where the service thread is, and its copy of the parameters
  msg,    \* the message being handled by the MQTT thread
  ini,    \* ota_service_init: where it is and the parameters it has read
  breaks, \* history: tries of this download that broke after data had come
  wfail,  \* history: a write to the OTA partition has failed
  wild    \* history: data was copied to the released cache

vars == <<prm, part, hal, dl, upgrading, svc, msg, ini, breaks, wfail, wild>>

Offsets  == 0 .. PartLen - 1
Image(u) == [i \in 1 .. ImgLen[u] |-> <<u, i - 1>>]
Units    == {<<u, i>> : u \in Images, i \in Offsets}

(* An ota_boot_param_t: "announced" by a message, "ready" to be booted,    *)
(* "done" once its upg_flag is 0 again; "torn" has a wrong param_crc.      *)
BootParam ==
  [st : {"erased", "torn", "announced", "ready", "done"}, img : Images \union {NoImage},
   diff : BOOLEAN, crc : Seq(Units), boots : 0 .. 1]
Prm(st, u) == [st |-> st, img |-> u, diff |-> FALSE, crc |-> <<>>, boots |-> 0]
NoPrm == Prm("erased", NoImage)
Torn  == Prm("torn", NoImage)

(* ota_update_parameter programs the erased sector and returns 0 whatever  *)
(* happened: the parameters may be torn, by a failed write or by another   *)
(* thread's write in between, or missing.                                  *)
WriteParam(p) == prm' \in {p, Torn, NoPrm}
EraseParam    == prm' = NoPrm

At(pc) == svc.pc = pc
Goto(pc) == svc' = [svc EXCEPT !.pc = pc]
-----------------------------------------------------------------------------
(* The power comes up: RAM is lost, the boot loader may count the boot of  *)
(* an armed image, and ota_service_init starts.                            *)

HalState ==
  [held : BOOLEAN, buf : Seq(Units), total : Nat, fw : 0 .. PartLen, crc : Seq(Units),
   hash : Seq(Units), header : BOOLEAN, diff : BOOLEAN]
DlState ==
  [j : 0 .. RetryCnt, offset : 0 .. PartLen, off_size : 0 .. PartLen, rx_size : 0 .. PartLen,
   base : 0 .. PartLen]
SvcState ==
  [pc : {"idle", "start", "header", "init", "request", "recv", "verify", "arm", "armed",
         "clear", "reboot"}, prm : BootParam]
MsgState == [pc : {"idle", "save", "upgrade"}, img : Images \union {NoImage}]
IniState == [pc : {"boot", "read", "erase", "write", "up"}, prm : BootParam]

NoHal == [held |-> FALSE, buf |-> <<>>, total |-> 0, fw |-> 0, crc |-> <<>>,
          hash |-> <<>>, header |-> FALSE, diff |-> FALSE]
NoDl  == [j |-> 0, offset |-> 0, off_size |-> 0, rx_size |-> 0, base |-> 0]

Reset ==
  /\ hal' = NoHal /\ dl' = NoDl /\ upgrading' = FALSE
  /\ svc' = [pc |-> "idle", prm |-> NoPrm]
  /\ msg' = [pc |-> "idle", img |-> NoImage]
  /\ ini' = [pc |-> "boot", prm |-> NoPrm]
  /\ breaks' = 0 /\ wfail' = FALSE /\ wild' = FALSE

\* An erase of the OTA partition that was under way is left half done.
PowerFail ==
  /\ Reset
  /\ part' \in IF At("init") THEN {part, [o \in Offsets |-> IF o = 0 THEN Blank ELSE part[o]]} ELSE {part}
  /\ UNCHANGED prm

BootLoader ==
  /\ ini.pc = "boot"
  /\ prm' \in {prm} \union (IF prm.st = "ready" THEN {[prm EXCEPT !.boots = 1]} ELSE {})
  /\ ini' = [ini EXCEPT !.pc = "read"]
  /\ UNCHANGED <<part, hal, dl, upgrading, svc, msg, breaks, wfail, wild>>

(* ota_hal_rollback.  The upgrade topic is subscribed before it runs.      *)
RollbackRead ==
  /\ ini.pc = "read"
  /\ \/ /\ prm.boots # 0 \/ prm.st = "torn"
        /\ ini' = [pc |-> "erase", prm |-> prm]
     \/ /\ prm.boots = 0
        /\ ini' = [ini EXCEPT !.pc = "up"]
  /\ UNCHANGED <<prm, part, hal, dl, upgrading, svc, msg, breaks, wfail, wild>>

RollbackErase ==
  /\ ini.pc = "erase"
  /\ EraseParam
  /\ ini' = [ini EXCEPT !.pc = "write"]
  /\ UNCHANGED <<part, hal, dl, upgrading, svc, msg, breaks, wfail, wild>>

RollbackWrite ==
  /\ ini.pc = "write"
  /\ WriteParam([ini.prm EXCEPT !.st = "done", !.boots = 0])
  /\ ini' = [pc |-> "up", prm |-> NoPrm]
  /\ UNCHANGED <<part, hal, dl, upgrading, svc, msg, breaks, wfail, wild>>
-----------------------------------------------------------------------------
(* The MQTT thread: ota_sevice_parse_msg.  A message that does not parse   *)
(* or is not newer changes nothing.                                        *)

Announce(u) ==
  /\ msg.pc = "idle" /\ ini.pc # "boot"
  /\ EraseParam
  /\ msg' = [pc |-> "save", img |-> u]
  /\ UNCHANGED <<part, hal, dl, upgrading, svc, ini, breaks, wfail, wild>>

SaveParam ==
  /\ msg.pc = "save"
  /\ WriteParam(Prm("announced", msg.img))
  /\ msg' = [msg EXCEPT !.pc = "upgrade"]
  /\ UNCHANGED <<part, hal, dl, upgrading, svc, ini, breaks, wfail, wild>>

\* The application's on_upgrade starts the service unless it is running.
OnUpgrade ==
  /\ msg.pc = "upgrade"
  /\ msg' = [pc |-> "idle", img |-> NoImage]
  /\ svc' = IF At("idle") THEN [svc EXCEPT !.pc = "start"] ELSE svc
  /\ UNCHANGED <<prm, part, hal, dl, upgrading, ini, breaks, wfail, wild>>

\* ota_service_deinit, called while data is being received.
Stop ==
  /\ At("recv") /\ upgrading
  /\ upgrading' = FALSE
  /\ UNCHANGED <<prm, part, hal, dl, svc, msg, ini, breaks, wfail, wild>>
-----------------------------------------------------------------------------
(* The service thread: ota_service_start.                                  *)

\* ota_read_parameter does not refuse parameters whose crc is wrong.
ReadParam ==
  /\ At("start")
  /\ svc' = [pc |-> "header", prm |-> prm]
  /\ UNCHANGED <<prm, part, hal, dl, upgrading, msg, ini, breaks, wfail, wild>>

\* ota_download_image_header, with retries of its own.
DownloadHeader ==
  /\ At("header")
  /\ \/ svc.prm.img \in Images /\ Goto("init")
     \/ Goto("clear")
  /\ UNCHANGED <<prm, part, hal, dl, upgrading, msg, ini, breaks, wfail, wild>>

\* ota_int: the cache is allocated and the whole partition erased.
InitPartition ==
  /\ At("init")
  /\ \/ /\ part' = [o \in Offsets |-> Blank]
        /\ hal' = [hal EXCEPT !.held = TRUE, !.total = 0, !.fw = ImgLen[svc.prm.img],
                              !.crc = <<>>, !.hash = <<>>, !.header = FALSE, !.diff = FALSE]
        /\ dl' = [NoDl EXCEPT !.j = RetryCnt]
        /\ Goto("request")
     \/ Goto("clear") /\ UNCHANGED <<part, hal, dl>>
  /\ UNCHANGED <<prm, upgrading, msg, ini, breaks, wfail, wild>>

RequestAll ==              \* seeded fault: every try asks for the whole image
  /\ At("request")
  /\ dl' = [dl EXCEPT !.base = 0]
  /\ upgrading' = TRUE
  /\ Goto("recv")
  /\ UNCHANGED <<prm, part, hal, msg, ini, breaks, wfail, wild>>

\* A new connection; after the first try the rest is asked for by a Range.
Request ==
  /\ At("request")
  /\ dl' = [dl EXCEPT !.base = IF dl.j = RetryCnt THEN 0 ELSE dl.off_size]
  /\ upgrading' = TRUE
  /\ Goto("recv")
  /\ UNCHANGED <<prm, part, hal, msg, ini, breaks, wfail, wild>>

EndTryUncounted(off) ==    \* seeded fault: tries are not counted
  /\ dl' = [dl EXCEPT !.rx_size = 0, !.offset = off]
  /\ Goto("request")
  /\ upgrading' = FALSE
  /\ breaks' = breaks

\* The end of a try that failed, with the flash offset at off.  off_size keeps
\* what the last try received.
EndTry(off) ==
  /\ dl' = [dl EXCEPT !.j = dl.j - 1, !.rx_size = 0, !.offset = off]
  /\ Goto(IF dl.j = 1 THEN "clear" ELSE "request")
  /\ upgrading' = FALSE
  /\ breaks' = IF dl.rx_size > 0 THEN breaks + 1 ELSE breaks

BreakReleases ==           \* seeded fault: the cache is released with the connection
  /\ At("request") \/ At("recv")
  /\ EndTry(dl.offset)
  /\ hal' = [hal EXCEPT !.held = FALSE]
  /\ UNCHANGED <<prm, part, msg, ini, wfail, wild>>

\* The connection cannot be made, breaks, times out, or the download was stopped.
Break ==
  /\ At("request") \/ At("recv")
  /\ EndTry(dl.offset)
  /\ UNCHANGED <<prm, part, hal, msg, ini, wfail, wild>>

FileSize == ImgLen[svc.prm.img] - dl.base   \* Content-Length of this reply

\* amp_hal_flash_write moves the offset; it refuses to leave the partition.
Fits(off, s) == off + Len(s) <= PartLen
Program(off, s) ==
  [o \in Offsets |-> IF o - off + 1 \in DOMAIN s THEN s[o - off + 1] ELSE part[o]]

(* ota_hal_write of the units d: they go to the cache, a full cache goes   *)
(* to the flash, the rest to the start of the cache, and with the last     *)
(* unit of the image the cache is written once more and released.  The     *)
(* length of the cache is only set when a rest is left.                    *)
CopyAll(d) == Len(d)       \* seeded fault: the free space is not looked at
ToCopy(d) == IF Len(d) <= CacheSize - Len(hal.buf) THEN Len(d) ELSE CacheSize - Len(hal.buf)
Filled(d) == hal.buf \o SubSeq(d, 1, ToCopy(d))
Flushed(d) == IF Len(Filled(d)) = CacheSize THEN Filled(d) ELSE <<>>
Kept(d) == IF ToCopy(d) < Len(d) THEN SubSeq(d, ToCopy(d) + 1, Len(d)) ELSE Filled(d)
Last(d) == hal.total + Len(d) = hal.fw
Final(d) == IF Last(d) THEN Kept(d) ELSE <<>>

\* ota_write looks at the start of the first data for the kind of the image.
IsPatch(d) == IF hal.header THEN hal.diff ELSE d[1][1] \in Diffs /\ d[1][2] = 0

Write(d) ==
  LET out == Flushed(d) \o Final(d) IN
  /\ Fits(dl.offset, out)
  /\ part' = Program(dl.offset, out)
  /\ hal' = [hal EXCEPT !.buf = Kept(d), !.total = hal.total + Len(d),
                        !.held = hal.held /\ ~Last(d),
                        !.crc = hal.crc \o out, !.hash = hal.hash \o d,
                        !.header = TRUE, !.diff = IsPatch(d)]
  /\ dl' = [dl EXCEPT !.offset = dl.offset + Len(out),
                      !.rx_size = dl.rx_size + Len(d), !.off_size = dl.rx_size + Len(d)]

Received(n) == [i \in 1 .. n |-> <<svc.prm.img, dl.base + dl.rx_size + i - 1>>]

\* A block is received and written.  Writing through the released cache may
\* go unnoticed, and may also end in a fault (WildWrite).
Receive(n) ==
  /\ At("recv") /\ upgrading
  /\ n <= FileSize - dl.rx_size
  /\ Write(Received(n))
  /\ wild' = (wild \/ ~hal.held)
  /\ Goto(IF dl.rx_size + n = FileSize THEN "verify" ELSE "recv")
  /\ upgrading' = (dl.rx_size + n # FileSize)
  /\ UNCHANGED <<prm, msg, ini, breaks, wfail>>

WildWrite ==
  /\ At("recv") /\ upgrading /\ ~hal.held
  /\ Reset
  /\ UNCHANGED <<prm, part>>

(* A flash write fails, the cache is released and the try is over.  When   *)
(* it is that of the full cache, nothing of d has been counted; when it is *)
(* the last one, the full cache before it is in the flash, and the crc is  *)
(* that of what should have been written.                                  *)
FlushFails(d) ==
  /\ Flushed(d) # <<>>
  /\ hal' = [hal EXCEPT !.held = FALSE, !.header = TRUE, !.diff = IsPatch(d), !.buf = Filled(d)]
  /\ EndTry(dl.offset)
  /\ UNCHANGED part

LastFails(d) ==
  /\ Final(d) # <<>> /\ Fits(dl.offset, Flushed(d))
  /\ part' = Program(dl.offset, Flushed(d))
  /\ hal' = [hal EXCEPT !.held = FALSE, !.header = TRUE, !.diff = IsPatch(d), !.buf = Kept(d),
                        !.total = hal.total + Len(d), !.crc = hal.crc \o Flushed(d) \o Final(d)]
  /\ EndTry(dl.offset + Len(Flushed(d)))

WriteFails(n) ==
  /\ At("recv") /\ upgrading
  /\ n <= FileSize - dl.rx_size
  /\ FlushFails(Received(n)) \/ LastFails(Received(n))
  /\ wfail' = TRUE
  /\ wild' = (wild \/ ~hal.held)
  /\ UNCHANGED <<prm, msg, ini>>

\* ota_verify: the hash of what was received and, but for a patch, the digest
\* of what is in the partition.
InPartition(u) == \A i \in 1 .. ImgLen[u] : part[i - 1] = Image(u)[i]

VerifyHashOnly ==          \* seeded fault: the partition is not checked
  /\ At("verify")
  /\ IF hal.hash = Image(svc.prm.img)
       THEN svc' = [pc |-> "arm", prm |-> [svc.prm EXCEPT !.diff = hal.diff]]
       ELSE Goto("clear")
  /\ UNCHANGED <<prm, part, hal, dl, upgrading, msg, ini, breaks, wfail, wild>>

Verify ==
  /\ At("verify")
  /\ IF hal.hash = Image(svc.prm.img) /\ (hal.diff \/ InPartition(svc.prm.img))
       THEN svc' = [pc |-> "arm", prm |-> [svc.prm EXCEPT !.diff = hal.diff]]
       ELSE Goto("clear")
  /\ UNCHANGED <<prm, part, hal, dl, upgrading, msg, ini, breaks, wfail, wild>>

\* ota_hal_boot saves the parameters with the crc of what was written.  They
\* arm the image unless their upg_flag is 0.
Armed(p) ==
  [p EXCEPT !.st = IF p.st = "done" /\ ~p.diff THEN "done" ELSE "ready", !.crc = hal.crc]

ArmErase ==
  /\ At("arm")
  /\ EraseParam /\ Goto("armed")
  /\ UNCHANGED <<part, hal, dl, upgrading, msg, ini, breaks, wfail, wild>>

ArmWrite ==
  /\ At("armed")
  /\ WriteParam(Armed(svc.prm))
  /\ Goto("reboot")
  /\ UNCHANGED <<part, hal, dl, upgrading, msg, ini, breaks, wfail, wild>>

\* ota_clear after any failure.
Clear ==
  /\ At("clear")
  /\ EraseParam /\ Goto("reboot")
  /\ UNCHANGED <<part, hal, dl, upgrading, msg, ini, breaks, wfail, wild>>

\* on_boot or ota_reboot, after a success and after a failure.
Reboot == At("reboot") /\ Reset /\ UNCHANGED <<prm, part>>
-----------------------------------------------------------------------------
Init ==
  /\ prm = NoPrm /\ part = [o \in Offsets |-> Blank]
  /\ hal = NoHal /\ dl = NoDl /\ upgrading = FALSE
  /\ svc = [pc |-> "idle", prm |-> NoPrm]
  /\ msg = [pc |-> "idle", img |-> NoImage]
  /\ ini = [pc |-> "boot", prm |-> NoPrm]
  /\ breaks = 0 /\ wfail = FALSE /\ wild = FALSE

ServiceInit == BootLoader \/ RollbackRead \/ RollbackErase \/ RollbackWrite

Message == SaveParam \/ OnUpgrade

Service ==
  \/ ReadParam \/ DownloadHeader \/ InitPartition \/ Request \/ Break \/ WildWrite
  \/ \E n \in 1 .. BlockSize : Receive(n) \/ WriteFails(n)
  \/ Verify \/ ArmErase \/ ArmWrite \/ Clear \/ Reboot

Next ==
  \/ PowerFail \/ ServiceInit \/ Message \/ Service \/ Stop
  \/ \E u \in Images : Announce(u)

Spec == Init /\ [][Next]_vars

(* Threads that can run are scheduled; a request and a receive end by an   *)
(* answer or by their time-out.                                            *)
FairSpec == Spec /\ WF_vars(ServiceInit) /\ WF_vars(Message) /\ WF_vars(Service)
-----------------------------------------------------------------------------
(* Properties. *)

\* Every variable keeps its type; the cache and the flash offset keep their
\* bounds, and no more tries are made than OTA_DOWNLOAD_RETRY_CNT.
OtaTypeOK ==
  /\ prm \in BootParam
  /\ part \in [Offsets -> Units \union {Blank}]
  /\ hal \in HalState /\ Len(hal.buf) <= CacheSize
  /\ dl \in DlState
  /\ upgrading \in BOOLEAN /\ wfail \in BOOLEAN /\ wild \in BOOLEAN
  /\ svc \in SvcState /\ msg \in MsgState /\ ini \in IniState
  /\ breaks \in 0 .. RetryCnt

\* The boot loader is told to install an image that is not a patch only when
\* exactly the announced image is in the OTA partition, whatever power
\* failures, broken connections, failed writes and later messages came.
ReadyImageIntact ==
  prm.st = "ready" /\ ~prm.diff => prm.img \in Images /\ InPartition(prm.img)

\* A download that breaks once after data has come, however often it breaks
\* before, goes on where it broke: what is hashed is a prefix of the image.
ResumesInPlace ==
  svc.pc \in {"request", "recv", "verify"} /\ breaks <= 1 =>
    hal.hash = SubSeq(Image(svc.prm.img), 1, Len(hal.hash))

\* The cache is written to only while it is allocated, unless the download
\* broke twice or a flash write has failed.
CacheHeldInUse == wild => breaks > 1 \/ wfail

\* A service that has been started ends, in a restart of the device.
ServiceEnds == (svc.pc # "idle") ~> (svc.pc = "idle")

\* The crc the boot loader is given is that of the image in the partition
\* (ota_agent.h: "Download file CRC").
BootCrc == prm.st = "ready" => prm.crc = Image(prm.img)
=============================================================================
