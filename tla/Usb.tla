--------------------------------- MODULE Usb ---------------------------------
(***************************************************************************)
(* The USB device: the endpoint driver of drivers/usb/synopsys_otg.c with  *)
(* the loader of shell/usbloader.c on top of it, a command of the shell    *)
(* that consumes an upload, and, from how the driver uses them, the        *)
(* controller (registers and interrupts) and a host like the ones of       *)
(* scripts/ (external).                                                    *)
(*                                                                         *)
(* dev is what the driver and the loader keep:                             *)
(*   in, out, ep2: endpoint_state of EP 0 IN, EP 0 OUT and EP 2 OUT;       *)
(*   setup, cb: ep0.setup_packet and ep0.data_out_stage_callback;          *)
(*   cb2: ep2.out_transfer_done is set;                                    *)
(*   cap, xfer, count, waiting: loader_xfer_recv_size, loader_xfer_size,   *)
(*   loader_xfer_recv_count, usbloader_is_waiting_xfer;                    *)
(*   wait: should_wait_for_cmd_handler, the waiting mode of request 4;     *)
(*   ktrw: ktrw_recv_count;  bug: the BUG() that stopped the system.       *)
(* Operators named after functions of the driver map dev and the registers *)
(* to dev and the registers.  Packets and buffers are counted in bytes of  *)
(* which a packet has very few.  EP 1 IN has no user in the source.        *)
(***************************************************************************)
EXTENDS Integers, FiniteSets, FiniteSetsExt

CONSTANTS
  EP0Max,     \* EP0_MAX_PACKET_SIZE (64)
  BulkMax,    \* BULK_EP_MAX_PACKET_SIZE (512), also the rounding of sizes
  DmaSize,    \* DMA_BUFFER_SIZE (0x1000)
  HwLimit,    \* the first length that DOEPTSIZ cannot hold (0x80000)
  UploadSize, \* UPLOADSZ
  UploadMax,  \* UPLOADSZ_MAX
  RecvCap,    \* bytes of ktrw_recv_data
  Requests,   \* the control requests the host makes: [in, op, len, arg]
  LinesMax,   \* lines of input that stdin_buf holds
  Uploads,    \* lengths of the data the host uploads after a request "upload"
  Unruly      \* the host may abandon a control transfer and start another

ASSUME UsbAssumption ==
  /\ EP0Max \in Nat \ {0} /\ BulkMax \in Nat \ {0}
  /\ DmaSize \in Nat \ {0} /\ DmaSize % EP0Max = 0
  /\ HwLimit \in Nat /\ HwLimit > BulkMax /\ HwLimit % BulkMax = 0
  /\ UploadSize \in Nat \ {0} /\ UploadSize % BulkMax = 0
  /\ UploadMax \in Nat /\ UploadMax >= UploadSize
  /\ RecvCap \in Nat /\ Uploads \subseteq Nat /\ Unruly \in BOOLEAN

ASSUME LinesAssumption == LinesMax \in Nat \ {0}

\* The requests are well formed: the direction and the length that
\* ep0_device_request and ktrw_recv look at (an upload, a discard, the modes and
\* the requests without a data stage have wLength 0, the others have data), and
\* a size for the buffer that is not zero.
ASSUME RequestsAssumption ==
  \A r \in Requests :
    /\ r.in \in BOOLEAN /\ r.len \in Nat /\ r.arg \in Nat
    /\ r.op \in {"answer", "plain", "upload", "discard", "wait", "nowait", "stdin", "resize",
                "vendor", "bad"}
    /\ r.op = "answer" => r.in
    /\ r.in => r.op \in {"answer", "bad"}
    /\ r.op \in {"plain", "upload", "discard", "wait", "nowait"} => r.len = 0
    /\ r.op \in {"stdin", "resize", "vendor"} => r.len > 0
    /\ r.op = "resize" => r.arg > 0

VARIABLES
  dev,    \* the driver and the loader, see above
  reg,    \* controller: in0 (armed packet or -1), out0, left0, stall, dma0,
          \* on2, left2, pkts2, addr2
  int,    \* pending interrupts: [in0, out0, out2, reset]
  usb,    \* the handler task: [pc, daint]
  host,   \* the host: the control transfer [stage, req, cnt], the upload [bulk, up,
          \* sent] and, as a record, have: bytes uploaded and not discarded
  mem,    \* the upload buffer: which byte of the last upload is where, or 0
  shell,  \* the shell: [pc, lines], lines in stdin_buf, and, as a record, careful: the
          \* line or command was written in waiting mode to a shell that had nothing to do
  iter    \* the handler task is in the queue of command_handler_iter

vars == <<dev, reg, int, usb, host, mem, shell, iter>>

ZLP == -1
Idle == [size |-> 0, done |-> 0, flight |-> 0]
NotReceiving == [size |-> 0, done |-> 0, recv |-> FALSE]
NoRequest == [in |-> FALSE, op |-> "none", len |-> 0, arg |-> 0]
Fresh == [i \in 1..UploadMax |-> 0]

Init ==
  /\ dev = [in |-> Idle, out |-> NotReceiving, ep2 |-> NotReceiving,
            setup |-> NoRequest, cb |-> "none", cb2 |-> FALSE,
            cap |-> UploadSize, xfer |-> UploadSize, count |-> 0, waiting |-> FALSE,
            wait |-> FALSE, ktrw |-> 0, bug |-> "none"]
  /\ reg = [in0 |-> -1, out0 |-> "off", left0 |-> 0, stall |-> {}, dma0 |-> NoRequest,
            on2 |-> FALSE, left2 |-> 0, pkts2 |-> 0, addr2 |-> 0]
  /\ int = [in0 |-> FALSE, out0 |-> {}, out2 |-> FALSE, reset |-> FALSE]
  /\ usb = [pc |-> "idle", daint |-> {}]
  /\ host = [stage |-> "idle", req |-> NoRequest, cnt |-> 0,
             bulk |-> FALSE, up |-> 0, sent |-> 0, have |-> 0]
  /\ mem = Fresh
  /\ shell = [pc |-> "idle", lines |-> 0, careful |-> FALSE]
  /\ iter = FALSE

Running == dev.bug = "none"

------------------------------------------------------------------------------
(* The driver as functions of s = [d |-> dev, r |-> reg].                  *)

Bug(s, cond, name) == [s EXCEPT !.d.bug = IF @ = "none" /\ cond THEN name ELSE @]

\* ep_in_send_compute_xfer: EP 0 sends one packet at a time.
InXfer(e) == IF e.size = ZLP THEN 0 ELSE Min({e.size - e.done, EP0Max})
InDmaLeft(e) == DmaSize - (e.done % DmaSize)

ep_in_send(s) ==
  LET e == s.d.in
      t == Bug(Bug(Bug(s, e.flight # 0, "send 1"),
                   e.size # ZLP /\ e.done >= e.size, "send 2"),
               InXfer(e) > InDmaLeft(e) \/ InDmaLeft(e) < EP0Max, "xfin bd")
  IN  [t EXCEPT !.d.in.flight = InXfer(e), !.r.in0 = InXfer(e)]

ep_in_send_data(s, n) ==
  LET e == s.d.in
      t == Bug(s, e.size # e.done \/ e.flight # 0, "send 4")
  IN  ep_in_send([t EXCEPT !.d.in.size = IF n = 0 THEN ZLP ELSE n, !.d.in.done = 0])

\* ep_out_recv_compute_xfer and ep_out_recv for EP 0 OUT: the next packet is
\* received behind the data that is already there.
ep0_out_recv(s) ==
  LET e == IF s.d.out.recv THEN s.d.out ELSE NotReceiving
      t == Bug(Bug(s, e.done > DmaSize, "dmaoff"), EP0Max > DmaSize - e.done, "dmao bd")
  IN  [t EXCEPT !.d.out = e,
                !.r.out0 = IF e.recv THEN "data" ELSE "setup",
                !.r.left0 = EP0Max]

ep0_out_recv_data(s, n) ==
  LET t == Bug(s, s.d.out.recv, "recv 4")
  IN  [t EXCEPT !.d.out = [size |-> IF n = 0 THEN ZLP ELSE n, done |-> 0, recv |-> TRUE]]

\* ep_out_recv_compute_xfer for EP 2 in direct DMA mode, where the DMA buffer
\* is the transfer buffer: whole packets, below the limit of DOEPTSIZ.
Bulk(e) ==
  LET left == e.size - e.done
      x == IF left > HwLimit - 1 THEN HwLimit - BulkMax ELSE left
      pkts == (x + BulkMax - 1) \div BulkMax
  IN  [n |-> pkts * BulkMax, pkts |-> pkts, left |-> left]

\* ep_out_recv for EP 2 OUT.
ep2_out_recv(s) ==
  LET b == Bulk(s.d.ep2)
      t == Bug(Bug(s, ~s.d.ep2.recv, "recv 2"), b.n > b.left, "dmao bd")
  IN  [t EXCEPT !.r.on2 = TRUE, !.r.left2 = b.n % HwLimit, !.r.pkts2 = b.pkts,
                !.r.addr2 = s.d.ep2.done]

\* usb_out_transfer_dma and ep_out_recv_data_dma, with usbloader_xfer_done_cb.
usb_out_transfer_dma(s, n) ==
  LET t == Bug(Bug(s, s.d.cb2, "cb set"),
               s.d.ep2.recv \/ n = 0 \/ n % BulkMax # 0, "recv 5")
  IN  ep2_out_recv([t EXCEPT !.d.cb2 = TRUE,
                             !.d.ep2 = [size |-> n, done |-> 0, recv |-> TRUE]])

ep_stall(s, dir) == [s EXCEPT !.r.stall = @ \cup {dir}]

------------------------------------------------------------------------------
(* The requests: ep0_setup_stage and the data stage callbacks.  Each       *)
(* returns [ok, s].                                                        *)

Answer(ok, s) == [ok |-> ok, s |-> s]
DataStage(s, cb) == ep0_out_recv_data([s EXCEPT !.d.cb = cb], s.d.setup.len)

\* Mutation: a second upload may be started while one is in progress.
BeginUpload_Twice(s) ==
  Answer(TRUE, usb_out_transfer_dma([s EXCEPT !.d.count = 0, !.d.waiting = TRUE], s.d.xfer))

\* bRequest 1 without data.
BeginUpload(s) ==
  IF s.d.waiting THEN Answer(FALSE, s)
  ELSE Answer(TRUE, usb_out_transfer_dma([s EXCEPT !.d.count = 0, !.d.waiting = TRUE], s.d.xfer))

\* Mutation: the answer is not cut to what the host asked for.
BeginDataIn_Long(s) == Answer(TRUE, ep_in_send_data(s, s.d.setup.arg))

\* ep0_begin_data_in_stage: an answer of arg bytes (a descriptor, the output
\* buffer, the state of the command), cut to wLength.
BeginDataIn(s) == Answer(TRUE, ep_in_send_data(s, Min({s.d.setup.arg, s.d.setup.len})))

\* plain: a request that succeeds and changes nothing modelled here, such as
\* SET_CONFIGURATION.  wait, nowait: request 4 with wValue 0, and with 1 or
\* 0xffff, which differ in the mode of stdout (module Console).
ep0_setup_stage(s) ==
  LET q == s.d.setup IN
  IF q.len > DmaSize THEN Answer(FALSE, s) ELSE
  CASE q.op = "answer"  -> BeginDataIn(s)
    [] q.op = "plain"   -> Answer(TRUE, s)
    [] q.op = "upload"  -> BeginUpload(s)
    [] q.op = "discard" -> Answer(TRUE, [s EXCEPT !.d.count = IF s.d.waiting THEN @ ELSE 0])
    [] q.op = "wait"    -> Answer(TRUE, [s EXCEPT !.d.wait = TRUE])
    [] q.op = "nowait"  -> Answer(TRUE, [s EXCEPT !.d.wait = FALSE])
    [] q.op = "stdin"   -> Answer(TRUE, DataStage(s, "stdin"))
    [] q.op = "resize"  -> IF s.d.waiting THEN Answer(FALSE, s)
                           ELSE Answer(TRUE, DataStage(s, "resize"))
    [] q.op = "vendor"  -> IF q.len > RecvCap - s.d.ktrw THEN Answer(FALSE, s)
                           ELSE Answer(TRUE, DataStage(s, "vendor"))
    [] OTHER            -> Answer(FALSE, s)

RoundUp(n) == ((n + BulkMax - 1) \div BulkMax) * BulkMax

\* Mutation: the size is accepted and the buffer is not reallocated for it.
reallocate_loader_xfer_data_SameBuffer(s) ==
  LET n == RoundUp(s.d.setup.arg) IN
  IF n > UploadMax THEN Answer(FALSE, s)
  ELSE Answer(TRUE, usb_out_transfer_dma(
                      [s EXCEPT !.d.count = 0, !.d.waiting = TRUE, !.d.xfer = n], n))

\* reallocate_loader_xfer_data with resize_loader_xfer_data.
reallocate_loader_xfer_data(s) ==
  LET n == RoundUp(s.d.setup.arg) IN
  IF n > UploadMax THEN Answer(FALSE, s)
  ELSE Answer(TRUE, usb_out_transfer_dma(
                      [s EXCEPT !.d.count = 0, !.d.waiting = TRUE,
                                !.d.cap = Max({@, n}), !.d.xfer = n], n))

\* ktrw_recv_done.
ktrw_recv_done(s) ==
  IF RecvCap - s.d.ktrw < s.d.out.size THEN Answer(FALSE, s)
  ELSE Answer(TRUE, [s EXCEPT !.d.ktrw = @ + s.d.out.size])

DataCallback(s) ==
  CASE s.d.cb = "resize" -> reallocate_loader_xfer_data(s)
    [] s.d.cb = "vendor" -> ktrw_recv_done(s)
    [] OTHER -> Answer(FALSE, Bug(s, TRUE, "no do cb"))

\* The end of the SETUP stage in ep0_out_interrupt.
AfterSetup(a) ==
  LET q == a.s.d.setup IN
  IF a.ok THEN IF q.in \/ q.len > 0 THEN a.s ELSE ep_in_send_data(a.s, 0)
  ELSE ep_stall(a.s, IF ~q.in /\ q.len > 0 THEN "out" ELSE "in")

\* The end of the DATA OUT stage.
AfterData(a) ==
  LET t == [a.s EXCEPT !.d.cb = "none"] IN
  IF a.ok THEN ep_in_send_data(t, 0) ELSE ep_stall(t, "in")

------------------------------------------------------------------------------
(* The interrupts of the endpoints.                                        *)

\* ep_in_send_done: the endpoint after a packet, whether the transfer is over,
\* and how it goes on: an empty packet ends a transfer of whole packets.
InAfter(e) == [size |-> IF e.size = ZLP THEN 0 ELSE e.size,
               done |-> e.done + e.flight, flight |-> 0]
InNeedsZlp(e) == e.size > 0 /\ e.size % EP0Max = 0
InFinished(e) == e.done = e.size /\ ~InNeedsZlp(e)
InNext(e) == IF e.done = e.size THEN [e EXCEPT !.size = ZLP, !.done = 0] ELSE e

\* Mutation: STATUS OUT is requested and the endpoint is not enabled for it.
BeginStatusOut_NotArmed(s) == ep0_out_recv_data(s, 0)

\* An IN control transfer goes on to STATUS OUT, which ep0_out_interrupt will
\* not arm: it is armed here.
BeginStatusOut(s) == ep0_out_recv(ep0_out_recv_data(s, 0))

ep0_in_interrupt(s) ==
  LET e == InAfter(s.d.in)
      t == [s EXCEPT !.d.in = e]
      partial == e.done = 0 \/ e.done % EP0Max # 0
  IN  CASE ~InFinished(e) -> ep_in_send([t EXCEPT !.d.in = InNext(e)])
        [] InFinished(e) /\ ~t.d.setup.in -> t
        [] InFinished(e) /\ t.d.setup.in ->
             IF t.d.setup.len > e.done /\ ~partial THEN ep_in_send_data(t, 0)
             ELSE BeginStatusOut(t)

\* ep_out_recv_setup_done and the start of a control transfer.  The two bits of
\* DOEPINT(0), packet stored and SETUP phase over, are taken to come together:
\* the first alone only keeps the packet (setup_packet_pending) for the second.
SetupDone(s) ==
  LET t == Bug(s, s.d.out.recv, "recv 3")
  IN  [t EXCEPT !.d.out = NotReceiving, !.d.setup = s.r.dma0, !.d.cb = "none",
                !.r.dma0 = NoRequest]

\* ep_out_recv_data_done for EP 0: one packet, after which left0 is what was
\* not received of it.
Out0After(s) ==
  LET e == s.d.out
      size == IF e.size = ZLP THEN 0 ELSE e.size
      done == e.done + (EP0Max - s.r.left0)
      t == Bug(s, ~e.recv, "recv 6")
  IN  [t EXCEPT !.d.out = [size |-> size, done |-> done,
                           recv |-> ~(done >= size \/ s.r.left0 # 0)]]

\* The completion of a packet of the DATA OUT or the STATUS OUT stage, up to
\* the callback.
WrongLength(t) == IF t.d.setup.in THEN t.d.out.done # 0 \/ t.d.out.size # 0
                  ELSE t.d.out.done # t.d.out.size

\* Mutation: usbloader_xfer_done_cb leaves usbloader_is_waiting_xfer set.
XferDone_StillWaiting(s) == [s EXCEPT !.d.count = IF s.d.waiting THEN s.d.ep2.done ELSE @]

\* usbloader_xfer_done_cb.
XferDone(s) ==
  IF s.d.waiting THEN [s EXCEPT !.d.count = s.d.ep2.done, !.d.waiting = FALSE] ELSE s

\* Mutation: an empty packet behind whole packets is not counted.
ep2_out_interrupt_NoZlp(s) ==
  LET e == s.d.ep2
      got == Bulk(e).n - s.r.left2
      over == e.done + got >= e.size \/ (s.r.left2 # 0 /\ got % BulkMax # 0)
      t == [s EXCEPT !.d.ep2.done = e.done + got, !.d.ep2.recv = ~over]
  IN  IF ~over THEN ep2_out_recv(t) ELSE XferDone([t EXCEPT !.d.cb2 = FALSE])

\* ep2_out_interrupt with ep_out_recv_data_done: the transfer is over when all
\* data is there or a packet was short; whole packets with space left over were
\* followed by an empty one if one more packet was counted.
ep2_out_interrupt(s) ==
  LET e == s.d.ep2
      b == Bulk(e)
      got == b.n - s.r.left2
      short == /\ s.r.left2 # 0
               /\ got > 0 /\ got % BulkMax = 0 =>
                    b.pkts - s.r.pkts2 = got \div BulkMax + 1
      over == e.done + got >= e.size \/ short
      t == [Bug(s, ~e.recv, "recv 6") EXCEPT !.d.ep2.done = e.done + got,
                                             !.d.ep2.recv = ~over]
  IN  IF ~over THEN ep2_out_recv(t)
      ELSE XferDone([Bug(t, ~t.d.cb2, "no 1i cb") EXCEPT !.d.cb2 = FALSE])

\* usb_reset.  EP 2 OUT is reset with the function for IN endpoints, its
\* callback stays, and EP 0 OUT is not reset at all.
usb_reset(s) ==
  ep0_out_recv([s EXCEPT !.d.in = Idle, !.d.ep2 = NotReceiving,
                         !.r.in0 = -1, !.r.stall = {}, !.r.on2 = FALSE])

------------------------------------------------------------------------------
(* The handler task: usb_main, usb_handler, usb_ep_interrupt.              *)

Cur == [d |-> dev, r |-> reg]
Becomes(s) == dev' = s.d /\ reg' = s.r
Goto(pc) == usb' = [usb EXCEPT !.pc = pc]
environment == <<host, mem, shell, iter>>

HandlerReset ==
  /\ Running /\ usb.pc = "idle" /\ int.reset
  /\ Becomes(usb_reset(Cur))
  /\ int' = [int EXCEPT !.in0 = FALSE, !.out0 = {}, !.reset = FALSE]
  /\ UNCHANGED <<usb, environment>>

\* usb_ep_interrupt reads DAINT once.
HandlerStart ==
  /\ Running /\ usb.pc = "idle" /\ ~int.reset
  /\ LET d == (IF int.in0 THEN {"in0"} ELSE {}) \cup (IF int.out0 # {} THEN {"out0"} ELSE {})
              \cup (IF int.out2 THEN {"out2"} ELSE {})
     IN  d # {} /\ usb' = [pc |-> "in0", daint |-> d]
  /\ UNCHANGED <<dev, reg, int, environment>>

Ep0In ==
  /\ Running /\ usb.pc = "in0"
  /\ Goto("out0")
  /\ IF "in0" \in usb.daint
     THEN int' = [int EXCEPT !.in0 = FALSE] /\ Becomes(ep0_in_interrupt(Cur))
     ELSE UNCHANGED <<int, dev, reg>>
  /\ UNCHANGED environment

Ep0OutNone ==
  /\ Running /\ usb.pc = "out0" /\ "out0" \notin usb.daint
  /\ Goto("out2")
  /\ UNCHANGED <<dev, reg, int, environment>>

\* ep0_out_interrupt reads and acknowledges DOEPINT(0).
Out0(what) ==
  /\ Running /\ usb.pc = "out0" /\ "out0" \in usb.daint
  /\ what
  /\ int' = [int EXCEPT !.out0 = {}]
  /\ UNCHANGED <<host, iter>>

\* A SETUP packet; data that came with it is dropped.
Ep0OutSetup ==
  /\ Out0("setup" \in int.out0)
  /\ Becomes(SetupDone(Cur))
  /\ Goto("request")
  /\ UNCHANGED <<mem, shell>>

\* ep0_setup_stage, with interrupts enabled.
Ep0Request ==
  /\ Running /\ usb.pc = "request"
  /\ Becomes(ep0_out_recv(AfterSetup(ep0_setup_stage(Cur))))
  /\ host' = [host EXCEPT !.have = IF dev.setup.op = "discard" /\ ~dev.waiting THEN 0 ELSE @]
  /\ Goto("out2")
  /\ UNCHANGED <<int, mem, shell, iter>>

\* The zero-length OUT DATA after an OUT control transfer.
Ep0OutStatusDone ==
  /\ Out0("setup" \notin int.out0 /\ "status" \in int.out0)
  /\ Becomes(ep0_out_recv(Cur))
  /\ Goto("out2")
  /\ UNCHANGED <<mem, shell>>

IsStdin(t) == ~t.d.out.recv /\ ~t.d.setup.in /\ ~WrongLength(t) /\ t.d.cb = "stdin"

\* A data packet, up to the return of the callback.
Ep0OutData ==
  LET t == Out0After(Cur) IN
  /\ Out0(int.out0 = {"data"})
  /\ ~IsStdin(t)
  /\ Becomes(ep0_out_recv(
       CASE t.d.out.recv -> t
         [] ~t.d.out.recv /\ WrongLength(t) -> ep_stall(t, "out")
         [] ~t.d.out.recv /\ ~WrongLength(t) /\ t.d.setup.in -> t
         [] OTHER -> AfterData(DataCallback(t))))
  /\ mem' = IF dev'.cap > dev.cap THEN Fresh ELSE mem
  /\ Goto("out2")
  /\ UNCHANGED shell

\* usb_write_stdin: queue the line, which is lost when stdin_buf is full, ...
Ep0OutStdin ==
  LET t == Out0After(Cur) IN
  /\ Out0(int.out0 = {"data"})
  /\ IsStdin(t)
  /\ Becomes(t)
  /\ shell' = [shell EXCEPT !.lines = Min({@ + 1, LinesMax}),
                            !.careful = dev.wait /\ shell.pc = "idle" /\ shell.lines = 0]
  /\ Goto("event")
  /\ UNCHANGED mem

\* Mutation: the write does not wait for the command in either mode.
StdinWait_Not ==
  /\ Running /\ usb.pc = "event"
  /\ iter' = FALSE
  /\ Goto("waiting")
  /\ UNCHANGED <<dev, reg, int, host, mem, shell>>

\* ... wait for the end of a command in waiting mode, ...
StdinWait ==
  /\ Running /\ usb.pc = "event"
  /\ iter' = dev.wait
  /\ Goto("waiting")
  /\ UNCHANGED <<dev, reg, int, host, mem, shell>>

\* ... and let the transfer go on to STATUS IN.
StdinReturn ==
  /\ Running /\ usb.pc = "waiting" /\ ~iter
  /\ Becomes(ep0_out_recv(AfterData(Answer(TRUE, Cur))))
  /\ Goto("out2")
  /\ UNCHANGED <<int, environment>>

Ep2Out ==
  /\ Running /\ usb.pc = "out2"
  /\ Goto("idle")
  /\ IF "out2" \in usb.daint
     THEN int' = [int EXCEPT !.out2 = FALSE] /\ Becomes(ep2_out_interrupt(Cur))
     ELSE UNCHANGED <<int, dev, reg>>
  /\ UNCHANGED environment

Handler == \/ HandlerReset \/ HandlerStart \/ Ep0In \/ Ep0OutNone \/ Ep0OutSetup
           \/ Ep0Request \/ Ep0OutStatusDone \/ Ep0OutData \/ Ep0OutStdin
           \/ StdinWait \/ StdinReturn \/ Ep2Out

------------------------------------------------------------------------------
(* The shell executes the lines: ramdisk_cmd or modload_cmd, which read    *)
(* the upload and then discard it, and command_main.                       *)

ShellStart ==
  /\ Running /\ shell.pc = "idle" /\ shell.lines > 0
  /\ shell' = [shell EXCEPT !.pc = "run", !.lines = @ - 1]
  /\ UNCHANGED <<dev, reg, int, usb, host, mem, iter>>

\* An upload that was begun meanwhile will set the count again.
ShellEnd ==
  /\ Running /\ shell.pc = "run"
  /\ dev' = [dev EXCEPT !.count = 0]
  /\ host' = [host EXCEPT !.have = IF dev.waiting THEN @ ELSE 0]
  /\ iter' = FALSE
  /\ shell' = [shell EXCEPT !.pc = "idle", !.careful = FALSE]
  /\ UNCHANGED <<reg, int, usb, mem>>

------------------------------------------------------------------------------
(* The host and the controller (external).  SETUP packets are always       *)
(* accepted by an endpoint that is enabled; data only if it was enabled    *)
(* for data, otherwise the controller answers NAK and the host tries again.*)

NothingPending == ~int.in0 /\ int.out0 = {} /\ ~int.out2 /\ ~int.reset /\ usb.pc = "idle"
HostQuiet == host.stage = "idle" /\ ~host.bulk

\* A bus reset, from a host that has nothing under way.
HostReset ==
  /\ Running /\ ~int.reset
  /\ NothingPending /\ (Unruly \/ HostQuiet)
  /\ int' = [int EXCEPT !.reset = TRUE]
  /\ host' = [host EXCEPT !.stage = "idle", !.bulk = FALSE]
  /\ UNCHANGED <<dev, reg, usb, mem, shell, iter>>

FirstStage(r) == IF r.in THEN "datain" ELSE IF r.len > 0 THEN "dataout" ELSE "statusin"

HostSetup(r) ==
  /\ Running /\ ~int.reset /\ reg.out0 # "off"
  /\ host.stage = "idle" \/ Unruly
  /\ r.op = "stdin" => ~host.bulk
  /\ reg' = [reg EXCEPT !.dma0 = r, !.stall = {}, !.out0 = "off"]
  /\ int' = [int EXCEPT !.out0 = @ \cup {"setup"}]
  /\ host' = [host EXCEPT !.stage = FirstStage(r), !.req = r, !.cnt = 0]
  /\ UNCHANGED <<dev, usb, mem, shell, iter>>

\* A handshake STALL ends the transfer for the host.
HostStalled ==
  /\ Running
  /\ \/ host.stage \in {"datain", "statusin"} /\ "in" \in reg.stall
     \/ host.stage \in {"dataout", "statusout"} /\ "out" \in reg.stall
  /\ host' = [host EXCEPT !.stage = "idle", !.req = NoRequest, !.cnt = 0]
  /\ UNCHANGED <<dev, reg, int, usb, mem, shell, iter>>

\* A packet from EP 0 IN; a short one, or the last of len bytes, is the end.
HostIn ==
  /\ Running /\ host.stage = "datain" /\ "in" \notin reg.stall /\ reg.in0 >= 0
  /\ LET got == host.cnt + reg.in0 IN
     host' = [host EXCEPT !.cnt = got,
                          !.stage = IF reg.in0 < EP0Max \/ got >= host.req.len
                                    THEN "statusout" ELSE @]
  /\ reg' = [reg EXCEPT !.in0 = -1]
  /\ int' = [int EXCEPT !.in0 = TRUE]
  /\ UNCHANGED <<dev, usb, mem, shell, iter>>

\* The empty packet of STATUS OUT, or a packet of DATA OUT.
HostOut ==
  /\ Running /\ host.stage \in {"statusout", "dataout"}
  /\ "out" \notin reg.stall /\ reg.out0 = "data"
  /\ LET n == IF host.stage = "statusout" THEN 0 ELSE Min({EP0Max, host.req.len - host.cnt})
         got == host.cnt + n
     IN  /\ reg' = [reg EXCEPT !.left0 = EP0Max - n, !.out0 = "off"]
         /\ host' = IF host.stage = "statusout"
                    THEN [host EXCEPT !.stage = "idle", !.req = NoRequest, !.cnt = 0]
                    ELSE [host EXCEPT !.cnt = got, !.stage = IF got = host.req.len
                                                             THEN "statusin" ELSE @]
  /\ int' = [int EXCEPT !.out0 = @ \cup {"data"}]
  /\ UNCHANGED <<dev, usb, mem, shell, iter>>

\* The empty packet of STATUS IN.  After DATA OUT the controller also reports
\* the status phase on EP 0 OUT.
HostStatusIn ==
  /\ Running /\ host.stage = "statusin" /\ "in" \notin reg.stall /\ reg.in0 >= 0
  /\ reg.out0 # "off"
  /\ reg' = [reg EXCEPT !.in0 = -1, !.out0 = IF host.req.len > 0 THEN "off" ELSE @]
  /\ int' = [int EXCEPT !.in0 = TRUE,
                        !.out0 = IF host.req.len > 0 THEN @ \cup {"status"} ELSE @]
  /\ \/ /\ host.req.op \in {"upload", "resize"}
        /\ \E u \in IF host.req.op = "resize" THEN {host.req.arg}
                    ELSE {x \in Uploads : x < dev.xfer} :
             host' = [host EXCEPT !.stage = "idle", !.bulk = TRUE, !.up = u, !.sent = 0,
                                  !.have = 0, !.req = NoRequest, !.cnt = 0]
        /\ mem' = Fresh
     \/ /\ host.req.op \notin {"upload", "resize"}
        /\ mem' = mem
        /\ host' = [host EXCEPT !.stage = "idle", !.req = NoRequest, !.cnt = 0]
  /\ UNCHANGED <<dev, usb, shell, iter>>

\* A packet of an upload.  The host ends an upload whose length the device
\* does not know with a short or an empty packet.
HostBulk ==
  /\ Running /\ host.bulk /\ reg.on2
  /\ LET n == Min({BulkMax, host.up - host.sent})
         sent == host.sent + n
         over == /\ sent = host.up
                 /\ n < BulkMax \/ host.up = dev.xfer
     IN  /\ mem' = [i \in 1..UploadMax |->
                      IF i - reg.addr2 \in 1..n THEN host.sent + i - reg.addr2
                      ELSE mem[i]]
         /\ reg' = [reg EXCEPT !.left2 = @ - n, !.pkts2 = @ - 1, !.addr2 = @ + n,
                               !.on2 = n = BulkMax /\ reg.pkts2 > 1]
         /\ int' = [int EXCEPT !.out2 = @ \/ n < BulkMax \/ reg.pkts2 = 1]
         /\ host' = [host EXCEPT !.sent = sent, !.bulk = ~over,
                                 !.have = IF over THEN host.up ELSE @]
  /\ UNCHANGED <<dev, usb, shell, iter>>

HostControl == HostStalled \/ HostIn \/ HostOut \/ HostStatusIn

------------------------------------------------------------------------------
Next == \/ Handler \/ ShellStart \/ ShellEnd \/ HostControl \/ HostBulk
        \/ HostReset \/ \E r \in Requests : HostSetup(r)

Spec == Init /\ [][Next]_vars

\* The states in which Handler has a step, and what such a step does.
HandlerReady ==
  /\ Running
  /\ usb.pc = "idle" => int.reset \/ int.in0 \/ int.out0 # {} \/ int.out2
  /\ usb.pc = "waiting" => ~iter
HandlerMoves == usb' # usb \/ (int.reset /\ ~int'.reset)

\* The handler task (weak fairness, with the enabling condition written out) and
\* the shell are scheduled again and again, a command returns, and the host goes
\* on with the control transfer and the upload that it began.
FairSpec == /\ Spec
            /\ []<>~HandlerReady \/ []<><<HandlerMoves>>_vars
            /\ WF_vars(ShellStart) /\ WF_vars(ShellEnd)
            /\ WF_vars(HostControl) /\ WF_vars(HostBulk)

------------------------------------------------------------------------------
Endpoint == [size : {ZLP} \cup 0..(DmaSize + UploadMax), done : 0..(DmaSize + UploadMax),
             recv : BOOLEAN]

\* The fields of the driver, of the controller and of the tasks keep their types.
TypeOK ==
  /\ dev.in.size \in {ZLP} \cup 0..DmaSize /\ dev.in.done \in 0..DmaSize
  /\ dev.in.flight \in 0..EP0Max
  /\ dev.out \in Endpoint /\ dev.ep2 \in Endpoint
  /\ dev.cb \in {"none", "stdin", "resize", "vendor"}
  /\ dev.cap \in 0..UploadMax /\ dev.xfer \in 1..UploadMax
  /\ dev.count \in 0..UploadMax /\ dev.ktrw \in 0..RecvCap /\ dev.wait \in BOOLEAN
  /\ reg.in0 \in -1..EP0Max /\ reg.out0 \in {"off", "setup", "data"}
  /\ reg.stall \subseteq {"in", "out"} /\ reg.left2 \in 0..UploadMax
  /\ int.out0 \subseteq {"setup", "data", "status"}
  /\ usb.pc \in {"idle", "in0", "out0", "request", "event", "waiting", "out2"}
  /\ usb.daint \subseteq {"in0", "out0", "out2"}
  /\ host.stage \in {"idle", "datain", "statusout", "dataout", "statusin"}
  /\ mem \in [1..UploadMax -> 0..UploadMax]
  /\ shell.pc \in {"idle", "run"} /\ shell.lines \in 0..LinesMax
  /\ shell.careful \in BOOLEAN

\* A host that finishes what it begins never drives the driver into one of its
\* BUG() checks: whatever the order of packets, interrupts, bulk data and
\* commands, no endpoint is given a transfer while it has one.
NoBug == dev.bug = "none"

\* The three records of an upload in progress agree: EP 2 OUT receives, the
\* driver has a callback for it, and the loader rejects another upload.
UploadFlags == /\ dev.cb2 <=> dev.waiting
               /\ dev.waiting <=> dev.ep2.recv

\* The controller never writes beyond the buffer that the loader allocated,
\* although the size of a transfer and the size of the buffer change apart.
BulkInBuffer == TypeOK /\ (reg.on2 => reg.addr2 + reg.left2 <= dev.cap)

\* When the host has seen the end of DATA IN it has the answer, cut to what it
\* asked for: no packet is missing, repeated or taken for the end.
InExact == host.stage = "statusout" => host.cnt = Min({host.req.arg, host.req.len})

\* A command that the host wrote in waiting mode (request 4 with wValue 0, off at
\* start) while the shell had nothing to do finds exactly the data uploaded
\* before, in order, and finds it until it is done: the interrupt of the upload
\* was handled, and no upload, discard or change of the mode gets in while it
\* runs.  Without the mode the write returns at once and nothing is promised.
CommandSeesUpload ==
  shell.pc = "run" /\ shell.careful =>
    /\ ~dev.waiting
    /\ dev.count = host.have
    /\ \A i \in 1..host.have : mem[i] = i

\* An answer of whole packets that is as long as the host asked for: the driver
\* sends an empty packet that the host does not want before it enables EP 0 OUT
\* for the status, which the host wants to send.
ExactFit == /\ host.req.op = "answer"
            /\ host.req.arg >= host.req.len /\ host.req.len % EP0Max = 0
\* The command was over before the handler task began to wait for its end.
MissedEnd == usb.pc = "waiting" /\ iter /\ shell.pc = "idle" /\ shell.lines = 0

\* Every control transfer comes to an end, by a status stage or a STALL, except
\* in the two mutual waits named above.
ControlEnds == host.stage # "idle" ~> (host.stage = "idle" \/ ExactFit \/ MissedEnd)

\* Every upload that the loader has begun to wait for is reported to it,
\* wherever its last packet falls in the hardware's transfers.
UploadEnds == dev.waiting ~> ~dev.waiting

\* A SETUP packet is accepted at any time: data of an incomplete DATA OUT stage
\* is discarded (ep_out_recv_setup_done).
SetupAccepted == dev.bug # "recv 3"
==============================================================================
