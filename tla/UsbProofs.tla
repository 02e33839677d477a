------------------------------ MODULE UsbProofs -------------------------------
(***************************************************************************)
(* The safety properties of Usb for every size of packets and buffers and  *)
(* every set of requests, with a host that finishes what it begins.        *)
(*                                                                         *)
(* First what the functions of the driver compute where none of their      *)
(* BUG() checks strikes (Send, BulkRecv, TransferDma, ...), then the       *)
(* inductive invariant IInv: Phase lists where a control transfer can be,  *)
(* with driver, controller and host side by side; Daint what a pass of the *)
(* handler has yet to serve; BulkInv where the hardware and the host are   *)
(* in an upload, and that ep2_out_interrupt will see its end (Over); Meet  *)
(* what the two pipes know of each other, such as that a command is        *)
(* written after the upload it uses.  One lemma per action follows.        *)
(***************************************************************************)
EXTENDS Usb, TLAPS

------------------------------------------------------------------------------
(* Numbers.                                                                *)

\* Min and Max of the library on two numbers.
LEMMA MinOf ==
  ASSUME NEW a \in Int, NEW b \in Int
  PROVE  Min({a, b}) = IF a <= b THEN a ELSE b
<1>1. Min({a, b}) = CHOOSE x \in {a, b} : \A y \in {a, b} : x <= y
  BY Zenon DEF Min
<1>2. \E x \in {a, b} : \A y \in {a, b} : x <= y
  OBVIOUS
<1>3. Min({a, b}) \in {a, b} /\ \A y \in {a, b} : Min({a, b}) <= y
  BY <1>1, <1>2, Zenon
<1> QED
  BY <1>3

\* The larger of two numbers.
LEMMA MaxOf ==
  ASSUME NEW a \in Int, NEW b \in Int
  PROVE  Max({a, b}) = IF a >= b THEN a ELSE b
<1>1. Max({a, b}) = CHOOSE x \in {a, b} : \A y \in {a, b} : x >= y
  BY Zenon DEF Max
<1>2. \E x \in {a, b} : \A y \in {a, b} : x >= y
  OBVIOUS
<1>3. Max({a, b}) \in {a, b} /\ \A y \in {a, b} : Max({a, b}) >= y
  BY <1>1, <1>2, Zenon
<1> QED
  BY <1>3

\* A multiple of B strictly between -B and B is zero.
LEMMA SmallMultiple ==
  ASSUME NEW B \in Nat \ {0}, NEW q \in Int, -B < B * q, B * q < B
  PROVE  q = 0
<1>1. q >= 1 => B * q >= B
  OBVIOUS
<1>2. q <= -1 => B * q <= -B
  OBVIOUS
<1> QED
  BY <1>1, <1>2

\* Quotient and remainder are unique.
LEMMA DivUnique ==
  ASSUME NEW B \in Nat \ {0}, NEW q \in Int, NEW r \in 0..(B - 1), NEW n, n = B * q + r
  PROVE  n % B = r /\ n \div B = q
<1>1. n \in Int
  OBVIOUS
<1>2. n = B * (n \div B) + (n % B) /\ n % B \in 0..(B - 1) /\ n \div B \in Int
  BY <1>1
<1>3. PICK k \in Int : k = q - (n \div B)
  BY <1>2
<1>4. B * k = (n % B) - r
  BY <1>2, <1>3
<1>5. k = 0
  BY <1>2, <1>4, SmallMultiple
<1> QED
  BY <1>2, <1>3, <1>5

\* Multiples, by the remainder and by the quotient.
LEMMA Multiple ==
  ASSUME NEW B \in Nat \ {0}, NEW n \in Int, n % B = 0
  PROVE  \E q \in Int : n = B * q
OBVIOUS

\* ... and back.
LEMMA IsMultiple ==
  ASSUME NEW B \in Nat \ {0}, NEW q \in Int, NEW n, n = B * q
  PROVE  n % B = 0 /\ n \div B = q
<1>1. n = B * q + 0 /\ 0 \in 0..(B - 1)
  OBVIOUS
<1> QED
  BY <1>1, DivUnique

\* Multiples of B are closed under addition and subtraction, and at least B apart.
LEMMA Multiples ==
  ASSUME NEW B \in Nat \ {0}, NEW a \in Int, NEW b \in Int, a % B = 0, b % B = 0
  PROVE  /\ (a + b) % B = 0 /\ (a - b) % B = 0
         /\ a < b => a + B <= b
<1>1. PICK p \in Int : a = B * p
  BY Multiple
<1>2. PICK q \in Int : b = B * q
  BY Multiple
<1>3. a + b = B * (p + q) /\ a - b = B * (p - q) /\ p + q \in Int /\ p - q \in Int
  BY <1>1, <1>2
<1>4. (a + b) % B = 0 /\ (a - b) % B = 0
  BY <1>3, IsMultiple
<1>5. ASSUME a < b PROVE a + B <= b
  <2>1. q - p >= 1
    <3>1. B * (q - p) > 0 /\ q - p \in Int
      BY <1>1, <1>2, <1>5
    <3>2. q - p <= 0 => B * (q - p) <= 0
      BY <3>1
    <3> QED
      BY <3>1, <3>2
  <2>2. B * (q - p) >= B
    BY <2>1
  <2> QED
    BY <1>1, <1>2, <2>2
<1> QED
  BY <1>4, <1>5

\* Rounding up to a multiple of B.
LEMMA Rounding ==
  ASSUME NEW B \in Nat \ {0}, NEW n \in Nat, NEW m, m = (n + B - 1) \div B
  PROVE  /\ m \in Nat /\ m * B \in n..(n + B - 1) /\ (m * B) % B = 0
         /\ n % B = 0 => m * B = n
         /\ n > 0 => m >= 1
<1>0. n + B - 1 \in Nat
  OBVIOUS
<1>1. PICK k \in Nat : k = n + B - 1
  BY <1>0
<1>2. k = B * (k \div B) + (k % B) /\ k % B \in 0..(B - 1) /\ k \div B \in Int
  OBVIOUS
<1>3. m \in Int /\ m * B \in n..(n + B - 1)
  BY <1>1, <1>2
<1>4. m >= 0
  <2>1. m < 0 => m * B < 0
    BY <1>3
  <2> QED
    BY <1>3, <2>1
<1>5. (m * B) % B = 0
  <2>1. m * B = B * m
    BY <1>3
  <2> QED
    BY <1>3, <2>1, IsMultiple
<1>6. ASSUME n % B = 0 PROVE m * B = n
  <2>1. PICK x \in Int : x = m * B
    BY <1>3
  <2>2. x % B = 0 /\ n \in Int
    BY <1>5, <2>1
  <2>3. n < x => n + B <= x
    BY <1>6, <2>2, Multiples
  <2> QED
    BY <1>3, <2>1, <2>3
<1>7. ASSUME n > 0 PROVE m >= 1
  <2>1. m = 0 => m * B = 0
    OBVIOUS
  <2> QED
    BY <1>3, <1>4, <1>7, <2>1
<1> QED
  BY <1>3, <1>4, <1>5, <1>6, <1>7

\* A remainder of a small number.
LEMMA SmallMod ==
  ASSUME NEW H \in Nat \ {0}, NEW n \in 0..(H - 1)
  PROVE  n % H = n
OBVIOUS

------------------------------------------------------------------------------
(* The functions of the driver, where none of their checks strikes.        *)

InState  == [size : Int, done : Int, flight : Int]
OutState == [size : Int, done : Int, recv : BOOLEAN]
Request  == Requests \cup {NoRequest}

\* The fields of driver and controller.
DevFields ==
  [in : InState, out : OutState, ep2 : OutState, setup : Request,
   cb : {"none", "stdin", "resize", "vendor"}, cb2 : BOOLEAN,
   cap : Int, xfer : Int, count : Int, waiting : BOOLEAN, wait : BOOLEAN, ktrw : Int, bug : {"none"}]
RegFields ==
  [in0 : Int, out0 : {"off", "setup", "data"}, left0 : Int,
   stall : SUBSET {"in", "out"}, dma0 : Request, on2 : BOOLEAN, left2 : Int, pkts2 : Int, addr2 : Int]

\* The argument and the result of a function of the driver.
St(d, r) == [d |-> d, r |-> r]

\* A changed state is put together from its changed parts.
LEMMA Parts ==
  ASSUME NEW d, NEW r, NEW s, s = St(d, r)
  PROVE  s.d = d /\ s.r = r /\ s \in [d : {d}, r : {r}]
BY DEF St

\* A check that does not strike changes nothing.
LEMMA NoCheck ==
  ASSUME NEW d \in DevFields, NEW r, NEW c, ~c, NEW n
  PROVE  Bug(St(d, r), c, n) = St(d, r)
<1>1. [d EXCEPT !.bug = d.bug] = d
  BY DEF DevFields
<1>2. [St(d, r) EXCEPT !.d = d] = St(d, r)
  BY DEF St
<1>3. St(d, r).d = d
  BY DEF St
<1> QED
  BY <1>1, <1>2, <1>3, Zenon DEF Bug

\* EP 0 OUT has room for a packet behind whole packets.
LEMMA Room ==
  ASSUME NEW n \in Int, n % EP0Max = 0, n < DmaSize
  PROVE  n + EP0Max <= DmaSize
<1>1. EP0Max \in Nat \ {0} /\ DmaSize \in Int /\ DmaSize % EP0Max = 0
  BY UsbAssumption DEF UsbAssumption
<1> QED
  BY <1>1, Multiples

\* A packet fits into the DMA buffer.
LEMMA PacketFits == EP0Max <= DmaSize
<1>1. 0 % EP0Max = 0
  BY UsbAssumption, SmallMod DEF UsbAssumption
<1> QED
  BY <1>1, Room, UsbAssumption DEF UsbAssumption

\* The size of the next packet.
Packet(e) == IF e.size = ZLP THEN 0
             ELSE IF e.size - e.done <= EP0Max THEN e.size - e.done ELSE EP0Max

\* Packet is what ep_in_send_compute_xfer computes.
LEMMA PacketOf ==
  ASSUME NEW e \in InState
  PROVE  InXfer(e) = Packet(e) /\ Packet(e) \in Int
BY UsbAssumption, MinOf DEF UsbAssumption, InXfer, Packet, InState

\* What ep_in_send may be asked to send.
Sendable(e) ==
  /\ e \in InState /\ e.flight = 0
  /\ \/ e.size = ZLP /\ e.done = 0
     \/ /\ 0 <= e.done /\ e.done < e.size /\ e.size <= DmaSize
        /\ e.done % EP0Max = 0

Flying(e) == [size |-> e.size, done |-> e.done, flight |-> Packet(e)]

\* The fields of an endpoint with a packet in flight.
LEMMA FlyingType ==
  ASSUME NEW e \in InState
  PROVE  /\ Flying(e) \in InState /\ Flying(e) = [e EXCEPT !.flight = Packet(e)]
         /\ Flying(e).size = e.size /\ Flying(e).done = e.done /\ Flying(e).flight = Packet(e)
<1>1. Packet(e) \in Int
  BY PacketOf
<1> QED
  BY <1>1 DEF Flying, InState

\* ep_in_send with data or an empty packet to send.
LEMMA Send ==
  ASSUME NEW d \in DevFields, NEW r \in RegFields, Sendable(d.in)
  PROVE  ep_in_send(St(d, r)) = St([d EXCEPT !.in = Flying(d.in)],
                                   [r EXCEPT !.in0 = Packet(d.in)])
<1> DEFINE s == St(d, r)
<1>0. PICK e : e = d.in
  OBVIOUS
<1>1. e \in InState /\ InXfer(e) = Packet(e) /\ Packet(e) \in Int
  BY <1>0, PacketOf DEF Sendable
<1>2. ~(e.flight # 0) /\ ~(e.size # ZLP /\ e.done >= e.size)
  BY <1>0, <1>1 DEF InState, Sendable
<1>3. ~(InXfer(e) > InDmaLeft(e) \/ InDmaLeft(e) < EP0Max)
  <2>1. 0 <= e.done /\ e.done < DmaSize
    BY <1>0, <1>1, UsbAssumption DEF UsbAssumption, InState, Sendable
  <2>2. InDmaLeft(e) = DmaSize - e.done
    BY <1>1, <2>1, UsbAssumption, SmallMod DEF InDmaLeft, UsbAssumption, InState
  <2>3. e.done % EP0Max = 0
    BY <1>0, UsbAssumption, SmallMod DEF UsbAssumption, Sendable
  <2>4. e.done + EP0Max <= DmaSize
    BY <1>1, <2>1, <2>3, Room DEF InState
  <2>5. Packet(e) <= EP0Max
    BY <1>1, UsbAssumption DEF Packet, InState, UsbAssumption
  <2> QED
    BY <1>1, <2>2, <2>4, <2>5, UsbAssumption DEF UsbAssumption, InState
<1>4. s.d.in = e
  BY <1>0 DEF St
<1>5. ep_in_send(s) = [s EXCEPT !.d.in.flight = Packet(e), !.r.in0 = Packet(e)]
  <2>1. Bug(s, e.flight # 0, "send 1") = s
    BY <1>2, NoCheck
  <2>2. Bug(s, e.size # ZLP /\ e.done >= e.size, "send 2") = s
    BY <1>2, NoCheck
  <2>3. Bug(s, InXfer(e) > InDmaLeft(e) \/ InDmaLeft(e) < EP0Max, "xfin bd") = s
    BY <1>3, NoCheck
  <2> HIDE DEF s
  <2> QED
    BY <1>1, <1>4, <2>1, <2>2, <2>3, Zenon DEF ep_in_send
<1>6. [d.in EXCEPT !.flight = Packet(e)] = Flying(e)
  BY <1>0, <1>1, FlyingType
<1>7. PICK x, y : x = Packet(e) /\ y = Flying(e)
  OBVIOUS
<1>8. [s EXCEPT !.d.in.flight = x, !.r.in0 = x] = St([d EXCEPT !.in = y], [r EXCEPT !.in0 = x])
  <2>1. PICK u : u = s
    OBVIOUS
  <2>2. u.d = d /\ u.r = r /\ u \in [d : {d}, r : {r}]
    BY <2>1, Parts
  <2>3. PICK t : t = [u EXCEPT !.d.in.flight = x, !.r.in0 = x]
    OBVIOUS
  <2>4. t.d = [u.d EXCEPT !.in = [u.d.in EXCEPT !.flight = x]] /\ t.r = [u.r EXCEPT !.in0 = x]
    BY <2>2, <2>3
  <2>5. t = [d |-> t.d, r |-> t.r]
    BY <2>2, <2>3
  <2>6. t = St([d EXCEPT !.in = [d.in EXCEPT !.flight = x]], [r EXCEPT !.in0 = x])
    BY <2>2, <2>4, <2>5, Zenon DEF St
  <2> QED
    BY <1>6, <1>7, <2>1, <2>3, <2>6, Zenon
<1> QED
  BY <1>0, <1>5, <1>7, <1>8, Zenon

\* The size field of a transfer of n bytes.
Sized(n) == IF n = 0 THEN ZLP ELSE n

\* A size, or the mark of an empty transfer, is a number.
LEMMA SizedType == ASSUME NEW n \in Nat PROVE Sized(n) \in Int
BY DEF Sized, ZLP

\* The state of EP 0 IN when a transfer of n bytes begins.
Begun(n) == [size |-> Sized(n), done |-> 0, flight |-> IF n <= EP0Max THEN n ELSE EP0Max]

\* The fields of an endpoint whose transfer begins.
LEMMA BegunType ==
  ASSUME NEW n \in Nat
  PROVE  /\ Begun(n) \in InState
         /\ Begun(n).size = Sized(n) /\ Begun(n).done = 0
         /\ Begun(n).flight = IF n <= EP0Max THEN n ELSE EP0Max
<1>1. Sized(n) \in Int
  BY SizedType
<1> QED
  BY <1>1, UsbAssumption DEF Begun, InState, UsbAssumption

\* ep_in_send_data of n bytes on an idle endpoint.
LEMMA SendData ==
  ASSUME NEW d \in DevFields, NEW r \in RegFields, d.in.flight = 0, d.in.size = d.in.done,
         NEW n \in 0..DmaSize
  PROVE  ep_in_send_data(St(d, r), n) = St([d EXCEPT !.in = Begun(n)],
                                           [r EXCEPT !.in0 = Begun(n).flight])
<1>0. n \in Nat
  BY UsbAssumption DEF UsbAssumption
<1>1. PICK z : z = Sized(n)
  OBVIOUS
<1>2. PICK e : e = [size |-> z, done |-> 0, flight |-> 0]
  OBVIOUS
<1>3. PICK c : c = [d EXCEPT !.in = e]
  OBVIOUS
<1>4. z \in Int /\ e \in InState
  BY <1>0, <1>1, <1>2, SizedType DEF InState
<1>5. c \in DevFields /\ c.in = e
  BY <1>3, <1>4 DEF DevFields
<1>6. Sendable(e)
  <2>1. 0 % EP0Max = 0
    BY UsbAssumption, SmallMod DEF UsbAssumption
  <2>2. e.size = z /\ e.done = 0 /\ e.flight = 0
    BY <1>2
  <2>3. z = -1 \/ (z = n /\ 0 < n)
    BY <1>0, <1>1 DEF Sized, ZLP
  <2> QED
    BY <1>4, <2>1, <2>2, <2>3, UsbAssumption DEF Sendable, UsbAssumption, ZLP
<1>7. ep_in_send_data(St(d, r), n) = ep_in_send(St(c, r))
  <2>1. Bug(St(d, r), d.in.size # d.in.done \/ d.in.flight # 0, "send 4") = St(d, r)
    BY NoCheck
  <2>2. St(d, r).d.in = d.in
    BY DEF St
  <2>3. ep_in_send_data(St(d, r), n) = ep_in_send([St(d, r) EXCEPT !.d.in.size = z, !.d.in.done = 0])
    BY <1>1, <2>1, <2>2, Zenon DEF ep_in_send_data, Sized
  <2>4. [[d.in EXCEPT !.size = z] EXCEPT !.done = 0] = e
    <3>1. d.in \in InState
      BY DEF DevFields
    <3>2. PICK f : f = d.in
      OBVIOUS
    <3>3. [f EXCEPT !.size = z] \in InState
      BY <1>4, <3>1, <3>2 DEF InState
    <3>4. PICK g : g = [f EXCEPT !.size = z]
      OBVIOUS
    <3>5. g.size = z /\ g.flight = 0 /\ g \in InState
      BY <3>1, <3>2, <3>3, <3>4 DEF InState
    <3>6. [g EXCEPT !.done = 0] = [size |-> z, done |-> 0, flight |-> 0]
      BY <3>5 DEF InState
    <3> QED
      BY <1>2, <3>2, <3>4, <3>6, Zenon
  <2>5. [St(d, r) EXCEPT !.d.in.size = z, !.d.in.done = 0] = St(c, r)
    <3>1. PICK u : u = St(d, r)
      OBVIOUS
    <3>2. u.d = d /\ u.r = r /\ u \in [d : {d}, r : {r}]
      BY <3>1, Parts
    <3>3. PICK t : t = [u EXCEPT !.d.in.size = z, !.d.in.done = 0]
      OBVIOUS
    <3>4. t.d.in = [[u.d.in EXCEPT !.size = z] EXCEPT !.done = 0] /\ t.r = u.r
      BY <3>2, <3>3 DEF DevFields
    <3>5. t.d = [d EXCEPT !.in = t.d.in]
      BY <3>2, <3>3 DEF DevFields
    <3>6. t = [d |-> t.d, r |-> t.r]
      BY <3>2, <3>3
    <3>7. t.d.in = e
      BY <2>4, <3>2, <3>4, Zenon
    <3>8. t.d = c
      BY <1>3, <3>5, <3>7, Zenon
    <3>9. t = St(c, r)
      BY <3>2, <3>4, <3>6, <3>8, Zenon DEF St
    <3> QED
      BY <3>1, <3>3, <3>9, Zenon
  <2> QED
    BY <2>3, <2>5
<1>8. ep_in_send(St(c, r)) = St([c EXCEPT !.in = Flying(e)], [r EXCEPT !.in0 = Packet(e)])
  BY <1>5, <1>6, Send
<1>9. Packet(e) = Begun(n).flight /\ Flying(e) = Begun(n)
  <2>1. e.size = z /\ e.done = 0
    BY <1>2
  <2>2. Packet(e) = IF n <= EP0Max THEN n ELSE EP0Max
    BY <1>0, <1>1, <2>1, UsbAssumption DEF Packet, Sized, ZLP, UsbAssumption
  <2> QED
    BY <1>1, <2>1, <2>2, <1>0, BegunType, Zenon DEF Flying, Begun
<1>10. PICK y : y = Begun(n)
  OBVIOUS
<1>11. [c EXCEPT !.in = y] = [d EXCEPT !.in = y]
  BY <1>3 DEF DevFields
<1> QED
  BY <1>7, <1>8, <1>9, <1>10, <1>11

\* ep_out_recv on EP 0 when no data is expected: the next packet is a SETUP.
LEMMA RecvSetup ==
  ASSUME NEW d \in DevFields, NEW r \in RegFields, ~d.out.recv
  PROVE  ep0_out_recv(St(d, r)) = St([d EXCEPT !.out = NotReceiving],
                                     [r EXCEPT !.out0 = "setup", !.left0 = EP0Max])
<1>1. ~(0 > DmaSize) /\ ~(EP0Max > DmaSize - 0)
  BY PacketFits, UsbAssumption DEF UsbAssumption
<1>2. /\ Bug(St(d, r), 0 > DmaSize, "dmaoff") = St(d, r)
      /\ Bug(St(d, r), EP0Max > DmaSize - 0, "dmao bd") = St(d, r)
  BY <1>1, NoCheck
<1>3. NotReceiving.done = 0 /\ NotReceiving.recv = FALSE /\ St(d, r).d.out = d.out
  BY DEF NotReceiving, St
<1>4. ep0_out_recv(St(d, r)) = [St(d, r) EXCEPT !.d.out = NotReceiving, !.r.out0 = "setup",
                                                !.r.left0 = EP0Max]
  BY <1>2, <1>3, Zenon DEF ep0_out_recv
<1>5. PICK e, y : e = NotReceiving /\ y = EP0Max
  OBVIOUS
<1>6. [St(d, r) EXCEPT !.d.out = e, !.r.out0 = "setup", !.r.left0 = y]
        = St([d EXCEPT !.out = e], [r EXCEPT !.out0 = "setup", !.left0 = y])
  <2>1. PICK u : u = St(d, r)
    OBVIOUS
  <2>2. u.d = d /\ u.r = r /\ u \in [d : {d}, r : {r}]
    BY <2>1, Parts
  <2>3. PICK t : t = [u EXCEPT !.d.out = e, !.r.out0 = "setup", !.r.left0 = y]
    OBVIOUS
  <2>4. t.d = [u.d EXCEPT !.out = e] /\ t.r = [u.r EXCEPT !.out0 = "setup", !.left0 = y]
    BY <2>2, <2>3
  <2>5. t = [d |-> t.d, r |-> t.r]
    BY <2>2, <2>3
  <2>6. t = St([d EXCEPT !.out = e], [r EXCEPT !.out0 = "setup", !.left0 = y])
    BY <2>2, <2>4, <2>5, Zenon DEF St
  <2> QED
    BY <2>1, <2>3, <2>6, Zenon
<1> QED
  BY <1>4, <1>5, <1>6, Zenon

\* ... and when data is expected behind whole packets: a data packet.
LEMMA RecvData ==
  ASSUME NEW d \in DevFields, NEW r \in RegFields, d.out.recv,
         d.out.done \in 0..(DmaSize - 1), d.out.done % EP0Max = 0
  PROVE  ep0_out_recv(St(d, r)) = St(d, [r EXCEPT !.out0 = "data", !.left0 = EP0Max])
<1>0. PICK e : e = d.out
  OBVIOUS
<1>1. ~(e.done > DmaSize) /\ ~(EP0Max > DmaSize - e.done)
  <2>1. e.done \in Int /\ e.done < DmaSize /\ DmaSize \in Int /\ EP0Max \in Int
    BY <1>0, UsbAssumption DEF UsbAssumption
  <2>2. e.done + EP0Max <= DmaSize
    BY <1>0, <2>1, Room
  <2> QED
    BY <2>1, <2>2
<1>2. /\ Bug(St(d, r), e.done > DmaSize, "dmaoff") = St(d, r)
      /\ Bug(St(d, r), EP0Max > DmaSize - e.done, "dmao bd") = St(d, r)
  BY <1>1, NoCheck
<1>3. St(d, r).d.out = e /\ e.recv
  BY <1>0 DEF St
<1>4. ep0_out_recv(St(d, r)) = [St(d, r) EXCEPT !.d.out = e, !.r.out0 = "data",
                                                !.r.left0 = EP0Max]
  BY <1>2, <1>3, Zenon DEF ep0_out_recv
<1>5. PICK y : y = EP0Max
  OBVIOUS
<1>6. [d EXCEPT !.out = e] = d
  BY <1>0 DEF DevFields
<1>7. [St(d, r) EXCEPT !.d.out = e, !.r.out0 = "data", !.r.left0 = y]
        = St(d, [r EXCEPT !.out0 = "data", !.left0 = y])
  <2>1. PICK u : u = St(d, r)
    OBVIOUS
  <2>2. u.d = d /\ u.r = r /\ u \in [d : {d}, r : {r}]
    BY <2>1, Parts
  <2>3. PICK t : t = [u EXCEPT !.d.out = e, !.r.out0 = "data", !.r.left0 = y]
    OBVIOUS
  <2>4. t.d = [u.d EXCEPT !.out = e] /\ t.r = [u.r EXCEPT !.out0 = "data", !.left0 = y]
    BY <2>2, <2>3
  <2>5. t = [d |-> t.d, r |-> t.r]
    BY <2>2, <2>3
  <2>6. t = St([d EXCEPT !.out = e], [r EXCEPT !.out0 = "data", !.left0 = y])
    BY <2>2, <2>4, <2>5, Zenon DEF St
  <2> QED
    BY <1>6, <2>1, <2>3, <2>6, Zenon
<1> QED
  BY <1>4, <1>5, <1>7, Zenon

\* ep_out_recv_data on EP 0 when nothing is expected.
LEMMA ExpectData ==
  ASSUME NEW d \in DevFields, NEW r \in RegFields, ~d.out.recv, NEW n
  PROVE  ep0_out_recv_data(St(d, r), n) =
           St([d EXCEPT !.out = [size |-> Sized(n), done |-> 0, recv |-> TRUE]], r)
<1>1. Bug(St(d, r), d.out.recv, "recv 4") = St(d, r)
  BY NoCheck
<1>2. St(d, r).d.out.recv = d.out.recv
  BY DEF St
<1>3. PICK e : e = [size |-> Sized(n), done |-> 0, recv |-> TRUE]
  OBVIOUS
<1>4. ep0_out_recv_data(St(d, r), n) = [St(d, r) EXCEPT !.d.out = e]
  BY <1>1, <1>2, <1>3, Zenon DEF ep0_out_recv_data, Sized
<1>5. [St(d, r) EXCEPT !.d.out = e] = St([d EXCEPT !.out = e], r)
  BY DEF St
<1> QED
  BY <1>3, <1>4, <1>5, Zenon

------------------------------------------------------------------------------
(* EP 2 OUT.                                                               *)

\* A transfer in whole packets of which something is left.
Aligned(e) ==
  /\ e \in OutState /\ 0 <= e.done /\ e.done < e.size
  /\ e.size % BulkMax = 0 /\ e.done % BulkMax = 0

\* What the hardware is given is whole packets, not empty, within the transfer
\* and below the limit of DOEPTSIZ.
LEMMA BulkOf ==
  ASSUME NEW e, Aligned(e)
  PROVE  /\ Bulk(e).n \in Nat /\ Bulk(e).pkts \in Nat
         /\ Bulk(e).n = Bulk(e).pkts * BulkMax /\ Bulk(e).pkts >= 1
         /\ 0 < Bulk(e).n /\ Bulk(e).n <= e.size - e.done /\ Bulk(e).n < HwLimit
         /\ Bulk(e).n % BulkMax = 0
         /\ Bulk(e).left = e.size - e.done
<1>1. PICK left : left = e.size - e.done
  OBVIOUS
<1>2. PICK x : x = IF left > HwLimit - 1 THEN HwLimit - BulkMax ELSE left
  OBVIOUS
<1>3. PICK k : k = (x + BulkMax - 1) \div BulkMax
  OBVIOUS
<1>4. Bulk(e) = [n |-> k * BulkMax, pkts |-> k, left |-> left]
  BY <1>1, <1>2, <1>3, Zenon DEF Bulk
<1>5. /\ BulkMax \in Nat \ {0} /\ HwLimit \in Nat /\ HwLimit > BulkMax
      /\ HwLimit % BulkMax = 0
  BY UsbAssumption DEF UsbAssumption
<1>6. left \in Nat /\ left > 0 /\ left % BulkMax = 0
  <2>1. e.size \in Int /\ e.done \in Int
    BY DEF Aligned, OutState
  <2>2. (e.size - e.done) % BulkMax = 0
    BY <1>5, <2>1, Multiples DEF Aligned
  <2> QED
    BY <1>1, <2>1, <2>2 DEF Aligned
<1>7. x \in Nat /\ 0 < x /\ x <= left /\ x < HwLimit /\ x % BulkMax = 0
  <2>1. BulkMax % BulkMax = 0
    <3>1. BulkMax = BulkMax * 1
      BY <1>5
    <3> QED
      BY <1>5, <3>1, IsMultiple
  <2>2. (HwLimit - BulkMax) % BulkMax = 0
    <3>1. HwLimit \in Int /\ BulkMax \in Int
      BY <1>5
    <3> QED
      BY <1>5, <2>1, <3>1, Multiples
  <2> QED
    BY <1>2, <1>5, <1>6, <2>2
<1>8. k \in Nat /\ k * BulkMax = x /\ k >= 1
  BY <1>3, <1>5, <1>7, Rounding
<1> QED
  BY <1>1, <1>4, <1>7, <1>8

\* ep_out_recv for EP 2.
LEMMA BulkRecv ==
  ASSUME NEW d \in DevFields, NEW r \in RegFields, d.ep2.recv, Aligned(d.ep2)
  PROVE  ep2_out_recv(St(d, r)) =
           St(d, [r EXCEPT !.on2 = TRUE, !.left2 = Bulk(d.ep2).n, !.pkts2 = Bulk(d.ep2).pkts,
                           !.addr2 = d.ep2.done])
<1>1. PICK b : b = Bulk(d.ep2)
  OBVIOUS
<1>2. b.n \in Nat /\ b.n < HwLimit /\ b.n <= b.left /\ b.left = d.ep2.size - d.ep2.done
  BY <1>1, BulkOf
<1>3. ~(~d.ep2.recv) /\ ~(b.n > b.left)
  <2>1. b.left \in Int
    BY <1>2 DEF Aligned, OutState
  <2> QED
    BY <1>2, <2>1
<1>4. /\ Bug(St(d, r), ~d.ep2.recv, "recv 2") = St(d, r)
      /\ Bug(St(d, r), b.n > b.left, "dmao bd") = St(d, r)
  BY <1>3, NoCheck
<1>5. b.n % HwLimit = b.n
  BY <1>2, SmallMod, UsbAssumption DEF UsbAssumption
<1>6. St(d, r).d.ep2 = d.ep2
  BY DEF St
<1>7. PICK x, y, z : x = b.n /\ y = b.pkts /\ z = d.ep2.done
  OBVIOUS
<1>8. ep2_out_recv(St(d, r)) = [St(d, r) EXCEPT !.r.on2 = TRUE, !.r.left2 = x, !.r.pkts2 = y,
                                                !.r.addr2 = z]
  BY <1>1, <1>4, <1>5, <1>6, <1>7, Zenon DEF ep2_out_recv
<1>9. [St(d, r) EXCEPT !.r.on2 = TRUE, !.r.left2 = x, !.r.pkts2 = y, !.r.addr2 = z]
        = St(d, [r EXCEPT !.on2 = TRUE, !.left2 = x, !.pkts2 = y, !.addr2 = z])
  <2>1. PICK u : u = St(d, r)
    OBVIOUS
  <2>2. u.d = d /\ u.r = r /\ u \in [d : {d}, r : {r}]
    BY <2>1, Parts
  <2>3. PICK t : t = [u EXCEPT !.r.on2 = TRUE, !.r.left2 = x, !.r.pkts2 = y, !.r.addr2 = z]
    OBVIOUS
  <2>4. t.d = u.d /\ t.r = [u.r EXCEPT !.on2 = TRUE, !.left2 = x, !.pkts2 = y, !.addr2 = z]
    BY <2>2, <2>3
  <2>5. t = [d |-> t.d, r |-> t.r]
    BY <2>2, <2>3
  <2>6. t = St(d, [r EXCEPT !.on2 = TRUE, !.left2 = x, !.pkts2 = y, !.addr2 = z])
    BY <2>2, <2>4, <2>5, Zenon DEF St
  <2> QED
    BY <2>1, <2>3, <2>6, Zenon
<1> QED
  BY <1>1, <1>7, <1>8, <1>9, Zenon

\* The state of EP 2 OUT when a transfer of n bytes begins.
Awaiting(n) == [size |-> n, done |-> 0, recv |-> TRUE]

\* Such a transfer is in whole packets and has something left.
LEMMA AwaitingType ==
  ASSUME NEW n \in Nat, n > 0, n % BulkMax = 0
  PROVE  /\ Awaiting(n) \in OutState /\ Aligned(Awaiting(n))
         /\ Awaiting(n).size = n /\ Awaiting(n).done = 0 /\ Awaiting(n).recv = TRUE
<1>1. 0 % BulkMax = 0
  BY UsbAssumption, SmallMod DEF UsbAssumption
<1> QED
  BY <1>1 DEF Awaiting, OutState, Aligned

\* usb_out_transfer_dma on an idle EP 2 OUT.
LEMMA TransferDma ==
  ASSUME NEW d \in DevFields, NEW r \in RegFields, ~d.cb2, ~d.ep2.recv,
         NEW n \in Nat, n > 0, n % BulkMax = 0
  PROVE  usb_out_transfer_dma(St(d, r), n) =
           St([d EXCEPT !.cb2 = TRUE, !.ep2 = Awaiting(n)],
              [r EXCEPT !.on2 = TRUE, !.left2 = Bulk(Awaiting(n)).n,
                        !.pkts2 = Bulk(Awaiting(n)).pkts, !.addr2 = 0])
<1>1. PICK e : e = Awaiting(n)
  OBVIOUS
<1>2. e \in OutState /\ Aligned(e) /\ e.done = 0 /\ e.recv = TRUE
  BY <1>1, AwaitingType
<1>3. PICK c : c = [d EXCEPT !.cb2 = TRUE, !.ep2 = e]
  OBVIOUS
<1>4. c \in DevFields /\ c.ep2 = e
  BY <1>2, <1>3 DEF DevFields
<1>5. /\ Bug(St(d, r), d.cb2, "cb set") = St(d, r)
      /\ Bug(St(d, r), d.ep2.recv \/ n = 0 \/ n % BulkMax # 0, "recv 5") = St(d, r)
  <2>1. ~(d.ep2.recv \/ n = 0 \/ n % BulkMax # 0)
    OBVIOUS
  <2> QED
    BY <2>1, NoCheck
<1>6. St(d, r).d.cb2 = d.cb2 /\ St(d, r).d.ep2.recv = d.ep2.recv
  BY DEF St
<1>7. usb_out_transfer_dma(St(d, r), n) = ep2_out_recv([St(d, r) EXCEPT !.d.cb2 = TRUE, !.d.ep2 = e])
  BY <1>1, <1>5, <1>6, Zenon DEF usb_out_transfer_dma, Awaiting
<1>8. [St(d, r) EXCEPT !.d.cb2 = TRUE, !.d.ep2 = e] = St(c, r)
  <2>1. PICK u : u = St(d, r)
    OBVIOUS
  <2>2. u.d = d /\ u.r = r /\ u \in [d : {d}, r : {r}]
    BY <2>1, Parts
  <2>3. PICK t : t = [u EXCEPT !.d.cb2 = TRUE, !.d.ep2 = e]
    OBVIOUS
  <2>4. t.d = [u.d EXCEPT !.cb2 = TRUE, !.ep2 = e] /\ t.r = u.r
    BY <2>2, <2>3
  <2>5. t = [d |-> t.d, r |-> t.r]
    BY <2>2, <2>3
  <2>6. t = St([d EXCEPT !.cb2 = TRUE, !.ep2 = e], r)
    BY <2>2, <2>4, <2>5, Zenon DEF St
  <2> QED
    BY <1>3, <2>1, <2>3, <2>6, Zenon
<1>9. ep2_out_recv(St(c, r)) = St(c, [r EXCEPT !.on2 = TRUE, !.left2 = Bulk(e).n,
                                               !.pkts2 = Bulk(e).pkts, !.addr2 = 0])
  <2>1. c.ep2.recv /\ Aligned(c.ep2)
    BY <1>2, <1>4
  <2> QED
    BY <1>2, <1>4, <2>1, BulkRecv
<1> QED
  BY <1>1, <1>3, <1>7, <1>8, <1>9

------------------------------------------------------------------------------
(* The control pipe.                                                       *)

\* The values that the fields take; no BUG() has struck.
InStates == [size : {ZLP} \cup 0..DmaSize, done : 0..DmaSize, flight : 0..EP0Max]
DevStates ==
  [in : InStates, out : Endpoint, ep2 : Endpoint, setup : Request,
   cb : {"none", "stdin", "resize", "vendor"}, cb2 : BOOLEAN,
   cap : 0..UploadMax, xfer : 1..UploadMax, count : 0..UploadMax, waiting : BOOLEAN,
   wait : BOOLEAN, ktrw : 0..RecvCap, bug : {"none"}]
RegStates ==
  [in0 : -1..EP0Max, out0 : {"off", "setup", "data"}, left0 : 0..EP0Max,
   stall : SUBSET {"in", "out"}, dma0 : Request,
   on2 : BOOLEAN, left2 : 0..UploadMax, pkts2 : Int, addr2 : Int]
IntStates == [in0 : BOOLEAN, out0 : SUBSET {"setup", "data", "status"},
              out2 : BOOLEAN, reset : BOOLEAN]
UsbStates == [pc : {"idle", "in0", "out0", "request", "event", "waiting", "out2"},
              daint : SUBSET {"in0", "out0", "out2"}]
HostStates == [stage : {"idle", "datain", "statusout", "dataout", "statusin"}, req : Request,
               cnt : Int, bulk : BOOLEAN, up : Int, sent : Int, have : Int]
ShellStates == [pc : {"idle", "run"}, lines : 0..LinesMax, careful : BOOLEAN]

Fields ==
  /\ dev \in DevStates /\ reg \in RegStates /\ int \in IntStates /\ usb \in UsbStates
  /\ host \in HostStates /\ shell \in ShellStates
  /\ mem \in [1..UploadMax -> 0..UploadMax]

\* EP 0 IN has nothing to send and nothing to report.
InRest ==
  /\ dev.in.size = dev.in.done /\ dev.in.flight = 0
  /\ reg.in0 = -1 /\ ~int.in0

\* An empty packet is to be sent, or was sent, on EP 0 IN.
InEmpty == dev.in.size = ZLP /\ dev.in.done = 0 /\ dev.in.flight = 0

\* The host has taken the empty packet of STATUS IN and the driver does not yet
\* know; the host may begin another transfer meanwhile.
InTaken == InEmpty /\ reg.in0 = -1 /\ int.in0 /\ ~dev.setup.in

InQuiet == InRest \/ InTaken

\* The handler is between two requests.
Passing == usb.pc \in {"idle", "in0", "out0", "out2"}
InCommand == usb.pc \in {"event", "waiting"}

\* EP 0 OUT waits for a SETUP packet (or was never enabled).
OutRest == ~dev.out.recv /\ int.out0 = {}

\* The driver serves the request of the host.
Serves == dev.setup = host.req /\ host.req \in Requests

\* The length of the answer.
AnswerLen == IF host.req.arg <= host.req.len THEN host.req.arg ELSE host.req.len

\* No control transfer is under way.
Between ==
  /\ host.stage = "idle" /\ Passing /\ InQuiet /\ OutRest
  /\ reg.out0 \in {"off", "setup"}

\* The host is done, and the interrupt of its STATUS IN after DATA OUT, ...
StatusDone ==
  /\ host.stage = "idle" /\ Passing /\ InQuiet
  /\ ~dev.out.recv /\ int.out0 = {"status"} /\ reg.out0 = "off"

\* ... or of its STATUS OUT, is to be handled.
StatusOutDone ==
  /\ host.stage = "idle" /\ Passing /\ InRest /\ dev.setup.in
  /\ dev.out.recv /\ dev.out.size = ZLP /\ dev.out.done = 0
  /\ int.out0 = {"data"} /\ reg.out0 = "off" /\ reg.left0 = EP0Max

\* A SETUP packet has arrived, ...
SetupArrived ==
  /\ Passing /\ InQuiet /\ ~dev.out.recv
  /\ int.out0 = {"setup"} /\ reg.out0 = "off" /\ reg.stall = {}
  /\ host.req \in Requests /\ reg.dma0 = host.req
  /\ host.stage = FirstStage(host.req) /\ host.cnt = 0

\* ... and is about to be looked at.
Requested ==
  /\ usb.pc = "request" /\ InRest /\ OutRest
  /\ reg.out0 = "off" /\ reg.stall = {} /\ Serves
  /\ host.stage = FirstStage(host.req) /\ host.cnt = 0

\* The request was refused.
Stalled ==
  /\ Passing /\ InRest /\ OutRest /\ reg.out0 = "setup"
  /\ \/ host.stage \in {"datain", "statusin"} /\ "in" \in reg.stall
     \/ host.stage = "dataout" /\ "out" \in reg.stall

\* DATA IN: the driver answers.
Answering ==
  /\ Passing /\ OutRest /\ reg.out0 = "setup" /\ reg.stall = {}
  /\ Serves /\ host.req.in /\ host.req.op = "answer" /\ host.req.len <= DmaSize

\* The packet of data that EP 0 IN has is the one behind the first done bytes.
InData ==
  /\ dev.in.size = AnswerLen /\ dev.in.done < dev.in.size
  /\ dev.in.done % EP0Max = 0 /\ dev.in.flight = Packet(dev.in)

\* A packet is ready for the host: one with data, ...
SendingData ==
  /\ Answering /\ ~int.in0 /\ reg.in0 = dev.in.flight
  /\ host.stage = "datain" /\ InData /\ dev.in.done = host.cnt

\* ... the empty one at the end that the host waits for, ...
SendingEmpty ==
  /\ Answering /\ ~int.in0 /\ reg.in0 = dev.in.flight
  /\ host.stage = "datain" /\ InEmpty /\ host.cnt = AnswerLen
  /\ AnswerLen = 0 \/ AnswerLen < host.req.len

\* ... or one that it does not want.
SendingMore ==
  /\ Answering /\ ~int.in0 /\ reg.in0 = dev.in.flight
  /\ host.stage = "statusout" /\ InEmpty /\ host.cnt = AnswerLen

\* The host has taken a packet of data and expects another, ...
SentPart ==
  /\ Answering /\ int.in0 /\ reg.in0 = -1 /\ InData
  /\ host.stage = "datain" /\ host.cnt = dev.in.done + dev.in.flight
  /\ dev.in.flight = EP0Max /\ host.cnt < host.req.len

\* ... or has taken the last one, ...
SentLast ==
  /\ Answering /\ int.in0 /\ reg.in0 = -1 /\ InData
  /\ host.stage = "statusout" /\ host.cnt = dev.in.done + dev.in.flight
  /\ host.cnt = AnswerLen

\* ... or the empty one.
SentEmpty ==
  /\ Answering /\ int.in0 /\ reg.in0 = -1 /\ InEmpty
  /\ host.stage = "statusout" /\ host.cnt = AnswerLen

\* STATUS OUT: EP 0 OUT waits for the empty packet.
StatusOut ==
  /\ Passing /\ InRest /\ Serves /\ host.req.in
  /\ host.stage = "statusout" /\ host.cnt = AnswerLen
  /\ dev.out.recv /\ dev.out.size = ZLP /\ dev.out.done = 0
  /\ int.out0 = {} /\ reg.out0 = "data" /\ reg.stall = {}

\* DATA OUT: what is to come, and which callback is to be called.
Receiving ==
  /\ Passing /\ InRest /\ reg.stall = {}
  /\ Serves /\ ~host.req.in /\ host.req.len \in 1..DmaSize
  /\ host.req.op \in {"stdin", "resize", "vendor"} /\ dev.cb = host.req.op
  /\ dev.out.recv /\ dev.out.size = host.req.len
  /\ dev.out.done < dev.out.size /\ dev.out.done % EP0Max = 0

\* EP 0 OUT waits for the next packet, ...
DataOut ==
  /\ Receiving /\ host.stage = "dataout" /\ host.cnt = dev.out.done
  /\ int.out0 = {} /\ reg.out0 = "data"

\* ... or has received it.
DataArrived ==
  /\ Receiving /\ int.out0 = {"data"} /\ reg.out0 = "off"
  /\ reg.left0 \in 0..EP0Max
  /\ host.cnt = dev.out.done + (EP0Max - reg.left0)
  /\ host.cnt <= host.req.len
  /\ reg.left0 # 0 => host.cnt = host.req.len
  /\ host.stage = IF host.cnt = host.req.len THEN "statusin" ELSE "dataout"

\* usb_write_stdin is waiting for the command.
InStdin ==
  /\ InCommand /\ InRest /\ OutRest
  /\ reg.out0 = "off" /\ reg.stall = {}
  /\ Serves /\ host.req.op = "stdin" /\ host.stage = "statusin"

\* STATUS IN: the empty packet is ready.
StatusIn ==
  /\ Passing /\ OutRest /\ InEmpty /\ reg.in0 = 0 /\ ~int.in0
  /\ reg.out0 = "setup" /\ reg.stall = {}
  /\ Serves /\ ~host.req.in /\ host.stage = "statusin"

Phase == \/ Between \/ StatusDone \/ StatusOutDone \/ SetupArrived \/ Requested
         \/ Stalled \/ SendingData \/ SendingEmpty \/ SendingMore
         \/ SentPart \/ SentLast \/ SentEmpty
         \/ StatusOut \/ DataOut \/ DataArrived \/ InStdin \/ StatusIn

\* What a pass of the handler has read of DAINT is still pending, and EP 0 IN is
\* served before what came later on EP 0 OUT.
Daint ==
  /\ usb.pc = "in0" /\ "in0" \in usb.daint => int.in0
  /\ usb.pc \in {"in0", "out0"} /\ "out0" \in usb.daint => int.out0 # {}
  /\ usb.pc = "in0" /\ "out0" \in usb.daint /\ int.in0 => "in0" \in usb.daint
  /\ usb.pc = "out0" /\ "out0" \in usb.daint => ~int.in0
  /\ usb.pc # "idle" /\ "out2" \in usb.daint => int.out2

\* A reset is handled before anything else happens.
Reset == int.reset => /\ host.stage = "idle" /\ ~host.bulk /\ usb.pc = "idle"
                      /\ ~int.in0 /\ int.out0 = {} /\ ~dev.waiting

\* A command that was written with care runs only while usb_write_stdin waits.
Commands ==
  shell.careful => InCommand /\ dev.wait /\ (usb.pc = "waiting" => iter)

------------------------------------------------------------------------------
(* The bulk pipe.                                                          *)

\* The sizes of the loader.
Sizes == dev.xfer <= dev.cap /\ dev.xfer % BulkMax = 0

\* The first n bytes of the upload are where they belong.
InOrder(n) == \A i \in 1..n : mem[i] = i

\* What ep2_out_interrupt will find that the hardware received.
Got == Bulk(dev.ep2).n - reg.left2

\* It will find that the transfer is over.
Short ==
  /\ reg.left2 # 0
  /\ Got > 0 /\ Got % BulkMax = 0 =>
       Bulk(dev.ep2).pkts - reg.pkts2 = Got \div BulkMax + 1
Over == dev.ep2.done + Got >= dev.ep2.size \/ Short

\* An upload is expected: where the hardware is in it.
Expecting ==
  dev.waiting =>
    /\ Aligned(dev.ep2) /\ dev.ep2.size = dev.xfer
    /\ reg.addr2 = dev.ep2.done + Got /\ reg.left2 \in 0..Bulk(dev.ep2).n
    /\ reg.on2 => ~int.out2 /\ reg.pkts2 >= 1 /\ reg.left2 = reg.pkts2 * BulkMax
    /\ ~reg.on2 => int.out2
    /\ int.out2 /\ host.bulk => reg.left2 = 0 /\ reg.addr2 < dev.xfer
    /\ int.out2 /\ ~host.bulk => Over /\ reg.addr2 = host.have /\ InOrder(host.have)

\* ... and where the host is.
Uploading ==
  host.bulk =>
    /\ dev.waiting /\ host.up \in 0..dev.xfer
    /\ host.sent \in 0..host.up /\ host.sent < dev.xfer
    /\ host.sent = reg.addr2 /\ host.sent % BulkMax = 0
    /\ InOrder(host.sent)

\* No upload is expected: the loader has what the host believes it has.
Uploaded ==
  ~dev.waiting => /\ ~reg.on2 /\ ~int.out2
                  /\ dev.count = host.have /\ InOrder(host.have)

BulkInv == UploadFlags /\ Sizes /\ Expecting /\ Uploading /\ Uploaded

------------------------------------------------------------------------------
(* Where the pipes meet.                                                   *)

\* The host has yet to take the empty packet that grants its upload.
Granting == /\ host.stage = "statusin" /\ reg.in0 = 0
            /\ host.req.op \in {"upload", "resize"}

\* The upload that is granted has been set up.
Granted ==
  Granting => /\ dev.waiting /\ reg.on2 /\ reg.addr2 = 0 /\ ~host.bulk
              /\ host.req.op = "resize" => dev.xfer = RoundUp(host.req.arg)

\* An upload that is expected is granted, under way or delivered.
AwaitHost == dev.waiting => host.bulk \/ int.out2 \/ Granting

\* A new size is received only while no upload is expected.
ResizeOK == dev.out.recv /\ ~dev.setup.in /\ dev.cb = "resize" => ~dev.waiting

\* A command is written after the upload was delivered, and the interrupt of the
\* upload is served in the pass that takes the SETUP packet.
CommandAfterUpload ==
  host.stage # "idle" /\ host.req.op = "stdin" /\ dev.waiting =>
    /\ ~host.bulk
    /\ \/ /\ Passing /\ int.out0 = {"setup"}
          /\ usb.pc \in {"in0", "out0"} /\ "out0" \in usb.daint => "out2" \in usb.daint
       \/ usb.pc \in {"request", "out2"} /\ "out2" \in usb.daint

Meet == Granted /\ AwaitHost /\ ResizeOK /\ CommandAfterUpload

IInv == Fields /\ Phase /\ Daint /\ Reset /\ Commands /\ BulkInv /\ Meet

------------------------------------------------------------------------------
(* What a step leaves alone.                                               *)

ctl == <<dev.in, dev.out, dev.setup, dev.cb, reg.in0, reg.out0, reg.left0, reg.stall, reg.dma0,
         int.in0, int.out0, host.stage, host.req, host.cnt>>
blk == <<dev.ep2, dev.cb2, dev.cap, dev.xfer, dev.count, dev.waiting, reg.on2, reg.left2,
         reg.pkts2, reg.addr2, int.out2, host.bulk, host.up, host.sent, host.have, mem>>

\* The phases only depend on the state of the control pipe.
LEMMA PhaseKept ==
  ASSUME Phase, UNCHANGED ctl, Passing' <=> Passing, InCommand' <=> InCommand,
         (usb'.pc = "request") <=> usb.pc = "request"
  PROVE  Phase'
<1>1. /\ dev'.in = dev.in /\ dev'.out = dev.out /\ dev'.setup = dev.setup /\ dev'.cb = dev.cb
      /\ reg'.in0 = reg.in0 /\ reg'.out0 = reg.out0 /\ reg'.left0 = reg.left0
      /\ reg'.stall = reg.stall /\ reg'.dma0 = reg.dma0
      /\ int'.in0 = int.in0 /\ int'.out0 = int.out0
      /\ host'.stage = host.stage /\ host'.req = host.req /\ host'.cnt = host.cnt
  BY DEF ctl
<1>3. InRest' <=> InRest
  BY <1>1 DEF InRest
<1>4. InEmpty' <=> InEmpty
  BY <1>1 DEF InEmpty
<1>5. InQuiet' <=> InQuiet
  BY <1>1, <1>3, <1>4 DEF InQuiet, InTaken
<1>6. OutRest' <=> OutRest
  BY <1>1 DEF OutRest
<1>7. Serves' <=> Serves
  BY <1>1 DEF Serves
<1>8. AnswerLen' = AnswerLen
  BY <1>1 DEF AnswerLen
<1>9. Answering => Answering'
  BY <1>1, <1>6, <1>7 DEF Answering
<1>10. InData => InData'
  BY <1>1, <1>8 DEF InData
<1>11. Receiving => Receiving'
  BY <1>1, <1>3, <1>7 DEF Receiving
<1>12. Between \/ StatusDone \/ StatusOutDone => Phase'
  BY <1>1, <1>3, <1>5, <1>6 DEF Phase, Between, StatusDone, StatusOutDone
<1>13. SetupArrived \/ Requested \/ Stalled => Phase'
  BY <1>1, <1>3, <1>5, <1>6, <1>7 DEF Phase, SetupArrived, Requested, Stalled
<1>14. SendingData \/ SendingEmpty \/ SendingMore => Phase'
  BY <1>1, <1>4, <1>8, <1>9, <1>10 DEF Phase, SendingData, SendingEmpty, SendingMore
<1>15. SentPart \/ SentLast \/ SentEmpty => Phase'
  BY <1>1, <1>4, <1>8, <1>9, <1>10 DEF Phase, SentPart, SentLast, SentEmpty
<1>16. StatusOut \/ DataOut \/ DataArrived => Phase'
  BY <1>1, <1>3, <1>7, <1>8, <1>11 DEF Phase, StatusOut, DataOut, DataArrived
<1>17. InStdin \/ StatusIn => Phase'
  BY <1>1, <1>3, <1>4, <1>6, <1>7 DEF Phase, InStdin, StatusIn
<1> QED
  BY <1>12, <1>13, <1>14, <1>15, <1>16, <1>17 DEF Phase

\* The upload only depends on the state of the bulk pipe.
LEMMA BulkKept ==
  ASSUME BulkInv, UNCHANGED blk
  PROVE  BulkInv'
<1>1. /\ dev'.ep2 = dev.ep2 /\ dev'.cb2 = dev.cb2 /\ dev'.cap = dev.cap /\ dev'.xfer = dev.xfer
      /\ dev'.count = dev.count /\ dev'.waiting = dev.waiting
      /\ reg'.on2 = reg.on2 /\ reg'.left2 = reg.left2 /\ reg'.pkts2 = reg.pkts2
      /\ reg'.addr2 = reg.addr2 /\ int'.out2 = int.out2
      /\ host'.bulk = host.bulk /\ host'.up = host.up /\ host'.sent = host.sent
      /\ host'.have = host.have /\ mem' = mem
  BY DEF blk
<1>2. UploadFlags' /\ Sizes'
  BY <1>1 DEF BulkInv, UploadFlags, Sizes
<1>3. Got' = Got
  BY <1>1 DEF Got
<1>4. Over' <=> Over
  BY <1>1, <1>3 DEF Over, Short
<1>5. Expecting'
  BY <1>1, <1>3, <1>4 DEF BulkInv, Expecting, InOrder
<1>6. Uploading' /\ Uploaded'
  BY <1>1 DEF BulkInv, Uploading, Uploaded, InOrder
<1> QED
  BY <1>2, <1>5, <1>6 DEF BulkInv

\* The values of the fields fit the functions of the driver.
LEMMA Loose ==
  /\ \A d \in DevStates : d \in DevFields
  /\ \A r \in RegStates : r \in RegFields
  /\ Cur = St(dev, reg)
<1>1. InStates \subseteq InState /\ Endpoint \subseteq OutState
  BY UsbAssumption DEF InStates, InState, Endpoint, OutState, ZLP, UsbAssumption
<1>2. /\ (0..UploadMax) \subseteq Int /\ (1..UploadMax) \subseteq Int /\ (0..RecvCap) \subseteq Int
      /\ (-1..EP0Max) \subseteq Int /\ (0..EP0Max) \subseteq Int
  BY UsbAssumption DEF UsbAssumption
<1>3. \A d \in DevStates : d \in DevFields
  BY <1>1, <1>2 DEF DevStates, DevFields
<1>4. \A r \in RegStates : r \in RegFields
  BY <1>2 DEF RegStates, RegFields
<1> QED
  BY <1>3, <1>4 DEF Cur, St

------------------------------------------------------------------------------
(* Steps of the shell, and steps that only move the handler on.            *)

\* A step of the shell alone.
LEMMA ShellOnly ==
  ASSUME IInv, UNCHANGED <<dev, reg, int, usb, host, mem>>, shell' \in ShellStates, Commands'
  PROVE  IInv'
<1>1. Fields'
  BY DEF IInv, Fields
<1>2. Phase'
  <2>1. UNCHANGED ctl /\ (Passing' <=> Passing) /\ (InCommand' <=> InCommand)
    BY DEF ctl, Passing, InCommand
  <2> QED
    BY <2>1, PhaseKept DEF IInv
<1>3. BulkInv'
  <2>1. UNCHANGED blk
    BY DEF blk
  <2> QED
    BY <2>1, BulkKept DEF IInv
<1>4. Daint' /\ Reset'
  BY DEF IInv, Daint, Reset
<1>5. Meet'
  BY DEF IInv, Meet, Granted, Granting, AwaitHost, ResizeOK, CommandAfterUpload, Passing
<1> QED
  BY <1>1, <1>2, <1>3, <1>4, <1>5 DEF IInv

\* The shell takes a line.
LEMMA ShellStartInv ==
  ASSUME IInv, ShellStart
  PROVE  IInv'
<1>1. /\ shell \in ShellStates /\ shell.lines > 0
      /\ shell' = [shell EXCEPT !.pc = "run", !.lines = shell.lines - 1]
      /\ UNCHANGED <<dev, reg, int, usb, host, mem, iter>> /\ Commands
  BY DEF IInv, Fields, ShellStart
<1>2. PICK n \in 0..LinesMax : n = shell.lines - 1
  BY <1>1, LinesAssumption DEF ShellStates, LinesAssumption
<1>3. shell' = [shell EXCEPT !.pc = "run", !.lines = n]
  BY <1>1, <1>2, Zenon
<1>4. shell'.careful = shell.careful /\ shell' \in ShellStates
  BY <1>1, <1>2, <1>3 DEF ShellStates
<1>5. Commands'
  BY <1>1, <1>4 DEF Commands, InCommand
<1> QED
  BY <1>1, <1>4, <1>5, ShellOnly

\* While a line is written or waited for, no upload is expected.
LEMMA NoUploadInStdin ==
  ASSUME IInv, InCommand
  PROVE  InStdin /\ ~dev.waiting
<1>1. InStdin
  BY DEF IInv, Phase, Passing, InCommand, Between, StatusDone, StatusOutDone, SetupArrived, Requested,
     Stalled, SendingData, SendingEmpty, SendingMore, SentPart, SentLast, SentEmpty, Answering,
     StatusOut, DataOut, DataArrived, Receiving, StatusIn
<1> QED
  BY <1>1 DEF IInv, Meet, CommandAfterUpload, InStdin, InCommand, Passing

\* A command ends and discards the upload, or only the count while another
\* upload is expected.
LEMMA ShellEndInv ==
  ASSUME IInv, ShellEnd
  PROVE  IInv'
<1>1. /\ Fields
      /\ dev' = [dev EXCEPT !.count = 0]
      /\ host' = [host EXCEPT !.have = IF dev.waiting THEN @ ELSE 0]
      /\ iter' = FALSE /\ shell' = [shell EXCEPT !.pc = "idle", !.careful = FALSE]
      /\ UNCHANGED <<reg, int, usb, mem>>
  BY DEF IInv, ShellEnd
<1>2. PICK h \in Int : h = IF dev.waiting THEN host.have ELSE 0
  BY <1>1 DEF Fields, HostStates
<1>3. host' = [host EXCEPT !.have = h]
  BY <1>1, <1>2, Zenon
<1>4. /\ dev' \in DevStates /\ dev'.count = 0
      /\ dev'.in = dev.in /\ dev'.out = dev.out /\ dev'.setup = dev.setup /\ dev'.cb = dev.cb
      /\ dev'.ep2 = dev.ep2 /\ dev'.cb2 = dev.cb2 /\ dev'.cap = dev.cap
      /\ dev'.xfer = dev.xfer /\ dev'.waiting = dev.waiting
  <2>1. 0 \in 0..UploadMax
    BY UsbAssumption DEF UsbAssumption
  <2> QED
    BY <1>1, <2>1 DEF Fields, DevStates
<1>5. /\ host' \in HostStates /\ host'.have = h
      /\ host'.stage = host.stage /\ host'.req = host.req /\ host'.cnt = host.cnt
      /\ host'.bulk = host.bulk /\ host'.up = host.up /\ host'.sent = host.sent
  BY <1>1, <1>3 DEF Fields, HostStates
<1>6. ~shell'.careful /\ shell' \in ShellStates
  BY <1>1 DEF Fields, ShellStates
<1>7. Fields'
  BY <1>1, <1>4, <1>5, <1>6 DEF Fields
<1>8. Phase'
  <2>1. UNCHANGED ctl /\ (Passing' <=> Passing) /\ (InCommand' <=> InCommand)
    BY <1>1, <1>4, <1>5 DEF ctl, Passing, InCommand
  <2> QED
    BY <1>1, <2>1, PhaseKept DEF IInv
<1>9. BulkInv'
  <2>1. UploadFlags' /\ Sizes'
    BY <1>4 DEF IInv, BulkInv, UploadFlags, Sizes
  <2>2. CASE ~dev.waiting
    <3>1. ~host.bulk
      BY <2>2 DEF IInv, BulkInv, Uploading
    <3>2. Expecting' /\ Uploading'
      BY <1>4, <1>5, <2>2, <3>1 DEF Expecting, Uploading
    <3>3. Uploaded'
      BY <1>1, <1>2, <1>4, <1>5, <2>2 DEF IInv, BulkInv, Uploaded, InOrder
    <3> QED
      BY <2>1, <3>2, <3>3 DEF BulkInv
  <2>3. CASE dev.waiting
    <3>1. host'.have = host.have
      BY <1>2, <1>5, <2>3
    <3>2. Got' = Got
      BY <1>1, <1>4 DEF Got
    <3>3. Over' <=> Over
      BY <1>1, <1>4, <3>2 DEF Over, Short
    <3>4. Expecting'
      BY <1>1, <1>4, <1>5, <3>1, <3>2, <3>3 DEF IInv, BulkInv, Expecting, InOrder
    <3>5. Uploading' /\ Uploaded'
      BY <1>1, <1>4, <1>5, <2>3 DEF IInv, BulkInv, Uploading, Uploaded, InOrder
    <3> QED
      BY <2>1, <3>4, <3>5 DEF BulkInv
  <2> QED
    BY <2>2, <2>3
<1>10. Daint' /\ Reset' /\ Commands'
  BY <1>1, <1>4, <1>5, <1>6 DEF IInv, Daint, Reset, Commands
<1>11. Meet'
  BY <1>1, <1>4, <1>5 DEF IInv, Meet, Granted, Granting, AwaitHost, ResizeOK,
     CommandAfterUpload, Passing
<1> QED
  BY <1>7, <1>8, <1>9, <1>10, <1>11 DEF IInv

\* usb_write_stdin begins to wait, if it is to.
LEMMA StdinWaitInv ==
  ASSUME IInv, StdinWait
  PROVE  IInv'
<1>1. /\ Fields /\ usb.pc = "event" /\ iter' = dev.wait /\ usb' = [usb EXCEPT !.pc = "waiting"]
      /\ UNCHANGED <<dev, reg, int, host, mem, shell>>
  BY DEF IInv, StdinWait, Goto
<1>2. usb' \in UsbStates /\ usb'.pc = "waiting" /\ usb'.daint = usb.daint
  BY <1>1 DEF Fields, UsbStates
<1>3. InCommand /\ ~Passing /\ InCommand' /\ ~Passing' /\ ~dev.waiting
  BY <1>1, <1>2, NoUploadInStdin DEF InCommand, Passing
<1>4. Fields'
  BY <1>1, <1>2 DEF Fields
<1>5. Phase'
  <2>1. UNCHANGED ctl
    BY <1>1 DEF ctl
  <2> QED
    BY <1>1, <1>2, <1>3, <2>1, PhaseKept DEF IInv
<1>6. BulkInv'
  <2>1. UNCHANGED blk
    BY <1>1 DEF blk
  <2> QED
    BY <2>1, BulkKept DEF IInv
<1>7. Daint' /\ Reset' /\ Commands'
  BY <1>1, <1>2, <1>3 DEF IInv, Daint, Reset, Commands
<1>8. Meet'
  BY <1>1, <1>2, <1>3 DEF IInv, Meet, Granted, Granting, AwaitHost, ResizeOK,
     CommandAfterUpload
<1> QED
  BY <1>4, <1>5, <1>6, <1>7, <1>8 DEF IInv

\* The handler moves on and changes nothing else.
LEMMA HandlerMovesOn ==
  ASSUME IInv, UNCHANGED <<dev, reg, int, host, mem, shell, iter>>, Passing, Passing',
         ~int.reset, usb' \in UsbStates, Daint', CommandAfterUpload'
  PROVE  IInv'
<1>1. Fields'
  BY DEF IInv, Fields
<1>2. ~InCommand /\ ~InCommand' /\ usb.pc # "request" /\ usb'.pc # "request"
  BY DEF InCommand, Passing
<1>3. Phase'
  <2>1. UNCHANGED ctl
    BY DEF ctl
  <2> QED
    BY <1>2, <2>1, PhaseKept DEF IInv
<1>4. BulkInv'
  <2>1. UNCHANGED blk
    BY DEF blk
  <2> QED
    BY <2>1, BulkKept DEF IInv
<1>5. Reset' /\ Commands'
  BY <1>2 DEF IInv, Reset, Commands
<1>6. Meet'
  BY DEF IInv, Meet, Granted, Granting, AwaitHost, ResizeOK
<1> QED
  BY <1>1, <1>3, <1>4, <1>5, <1>6 DEF IInv

\* usb_ep_interrupt reads DAINT.
LEMMA HandlerStartInv ==
  ASSUME IInv, HandlerStart
  PROVE  IInv'
<1> DEFINE b == (IF int.in0 THEN {"in0"} ELSE {}) \cup (IF int.out0 # {} THEN {"out0"} ELSE {})
                \cup (IF int.out2 THEN {"out2"} ELSE {})
<1>1. /\ usb.pc = "idle" /\ ~int.reset /\ usb' = [pc |-> "in0", daint |-> b]
      /\ UNCHANGED <<dev, reg, int, host, mem, shell, iter>>
  BY DEF HandlerStart, environment
<1>2. /\ "in0" \in b <=> int.in0
      /\ "out0" \in b <=> int.out0 # {}
      /\ "out2" \in b <=> int.out2
      /\ b \subseteq {"in0", "out0", "out2"}
  OBVIOUS
<1> HIDE DEF b
<1>3. usb' \in UsbStates /\ usb'.pc = "in0" /\ usb'.daint = b
  BY <1>1, <1>2 DEF UsbStates
<1>4. Passing /\ Passing'
  BY <1>1, <1>3 DEF Passing
<1>5. Daint'
  BY <1>1, <1>2, <1>3 DEF Daint
<1>6. CommandAfterUpload'
  <2>1. SUFFICES ASSUME host.stage # "idle", host.req.op = "stdin", dev.waiting
                 PROVE  CommandAfterUpload'
    BY <1>1 DEF CommandAfterUpload
  <2>2. ~host.bulk /\ int.out0 = {"setup"}
    BY <1>1, <2>1 DEF IInv, Meet, CommandAfterUpload
  <2>3. int.out2
    BY <2>1, <2>2 DEF IInv, Meet, AwaitHost, Granting
  <2> QED
    BY <1>1, <1>2, <1>3, <1>4, <2>2, <2>3 DEF CommandAfterUpload
<1> QED
  BY <1>1, <1>3, <1>4, <1>5, <1>6, HandlerMovesOn

\* Nothing is pending for EP 0 OUT.
LEMMA Ep0OutNoneInv ==
  ASSUME IInv, Ep0OutNone
  PROVE  IInv'
<1>1. /\ Fields /\ usb.pc = "out0" /\ "out0" \notin usb.daint /\ usb' = [usb EXCEPT !.pc = "out2"]
      /\ UNCHANGED <<dev, reg, int, host, mem, shell, iter>>
  BY DEF IInv, Ep0OutNone, Goto, environment
<1>2. usb' \in UsbStates /\ usb'.pc = "out2" /\ usb'.daint = usb.daint
  BY <1>1 DEF Fields, UsbStates
<1>3. Passing /\ Passing' /\ ~int.reset
  BY <1>1, <1>2 DEF Passing, IInv, Reset
<1>4. Daint'
  BY <1>1, <1>2 DEF IInv, Daint
<1>5. CommandAfterUpload'
  BY <1>1, <1>2, <1>3 DEF IInv, Meet, CommandAfterUpload
<1> QED
  BY <1>1, <1>2, <1>3, <1>4, <1>5, HandlerMovesOn

\* Nothing is pending for EP 0 IN.
LEMMA Ep0InNoneInv ==
  ASSUME IInv, Ep0In, "in0" \notin usb.daint
  PROVE  IInv'
<1>1. /\ Fields /\ usb.pc = "in0" /\ usb' = [usb EXCEPT !.pc = "out0"]
      /\ UNCHANGED <<dev, reg, int, host, mem, shell, iter>>
  BY DEF IInv, Ep0In, Goto, environment
<1>2. usb' \in UsbStates /\ usb'.pc = "out0" /\ usb'.daint = usb.daint
  BY <1>1 DEF Fields, UsbStates
<1>3. Passing /\ Passing' /\ ~int.reset
  BY <1>1, <1>2 DEF Passing, IInv, Reset
<1>4. Daint'
  BY <1>1, <1>2 DEF IInv, Daint
<1>5. CommandAfterUpload'
  BY <1>1, <1>2, <1>3 DEF IInv, Meet, CommandAfterUpload
<1> QED
  BY <1>1, <1>2, <1>3, <1>4, <1>5, HandlerMovesOn

\* Nothing is pending for EP 2 OUT.
LEMMA Ep2OutNoneInv ==
  ASSUME IInv, Ep2Out, "out2" \notin usb.daint
  PROVE  IInv'
<1>1. /\ Fields /\ usb.pc = "out2" /\ usb' = [usb EXCEPT !.pc = "idle"]
      /\ UNCHANGED <<dev, reg, int, host, mem, shell, iter>>
  BY DEF IInv, Ep2Out, Goto, environment
<1>2. usb' \in UsbStates /\ usb'.pc = "idle" /\ usb'.daint = usb.daint
  BY <1>1 DEF Fields, UsbStates
<1>3. Passing /\ Passing' /\ ~int.reset
  BY <1>1, <1>2 DEF Passing, IInv, Reset
<1>4. Daint'
  BY <1>1, <1>2 DEF IInv, Daint
<1>5. CommandAfterUpload'
  BY <1>1, <1>2, <1>3 DEF IInv, Meet, CommandAfterUpload
<1> QED
  BY <1>1, <1>2, <1>3, <1>4, <1>5, HandlerMovesOn

------------------------------------------------------------------------------
(* EP 0 IN: ep0_in_interrupt.                                              *)

\* The functions of a state that is put together again.
LEMMA StParts ==
  ASSUME NEW d, NEW r
  PROVE  St(d, r).d = d /\ St(d, r).r = r
BY DEF St

\* STATUS OUT is armed.
LEMMA StatusOutArmed ==
  ASSUME NEW d \in DevFields, NEW r \in RegFields, ~d.out.recv
  PROVE  BeginStatusOut(St(d, r)) =
           St([d EXCEPT !.out = [size |-> ZLP, done |-> 0, recv |-> TRUE]],
              [r EXCEPT !.out0 = "data", !.left0 = EP0Max])
<1>1. PICK e : e = [size |-> ZLP, done |-> 0, recv |-> TRUE]
  OBVIOUS
<1>2. e \in OutState /\ e.recv = TRUE /\ e.done = 0
  BY <1>1 DEF OutState, ZLP
<1>3. PICK c : c = [d EXCEPT !.out = e]
  OBVIOUS
<1>4. c \in DevFields /\ c.out = e
  BY <1>2, <1>3 DEF DevFields
<1>5. ep0_out_recv_data(St(d, r), 0) = St(c, r)
  <2>1. Sized(0) = ZLP
    BY DEF Sized
  <2> QED
    BY <1>1, <1>3, <2>1, ExpectData, Zenon
<1>6. ep0_out_recv(St(c, r)) = St(c, [r EXCEPT !.out0 = "data", !.left0 = EP0Max])
  <2>1. 0 \in 0..(DmaSize - 1) /\ 0 % EP0Max = 0
    BY UsbAssumption, SmallMod DEF UsbAssumption
  <2>2. c.out.recv /\ c.out.done = 0
    BY <1>2, <1>4
  <2> QED
    BY <1>4, <2>1, <2>2, RecvData
<1> QED
  BY <1>1, <1>3, <1>5, <1>6, Zenon DEF BeginStatusOut

\* The interrupt, by how the transfer goes on.
LEMMA InInterrupt ==
  ASSUME NEW d \in DevFields, NEW r \in RegFields, NEW e \in InState, e = InAfter(d.in)
  PROVE  /\ ~InFinished(e) =>
              ep0_in_interrupt(St(d, r)) = ep_in_send(St([d EXCEPT !.in = InNext(e)], r))
         /\ InFinished(e) /\ ~d.setup.in =>
              ep0_in_interrupt(St(d, r)) = St([d EXCEPT !.in = e], r)
         /\ InFinished(e) /\ d.setup.in /\ (e.done = 0 \/ e.done % EP0Max # 0) =>
              ep0_in_interrupt(St(d, r)) = BeginStatusOut(St([d EXCEPT !.in = e], r))
<1>1. PICK c : c = [d EXCEPT !.in = e]
  OBVIOUS
<1>2. c \in DevFields /\ c.setup = d.setup /\ c.in = e
  BY <1>1 DEF DevFields
<1>3. St(d, r).d.in = d.in
  BY DEF St
<1>4. [St(d, r) EXCEPT !.d.in = e] = St(c, r)
  BY <1>1 DEF St
<1>5. PICK f : f = InNext(e)
  OBVIOUS
<1>6. [St(c, r) EXCEPT !.d.in = f] = St([d EXCEPT !.in = f], r)
  <2>1. PICK u : u = St(c, r)
    OBVIOUS
  <2>2. u.d = c /\ u.r = r /\ u \in [d : {c}, r : {r}]
    BY <2>1, Parts
  <2>3. PICK t : t = [u EXCEPT !.d.in = f]
    OBVIOUS
  <2>4. t.d = [u.d EXCEPT !.in = f] /\ t.r = u.r
    BY <2>2, <2>3
  <2>5. t = [d |-> t.d, r |-> t.r]
    BY <2>2, <2>3
  <2>6. t = St([c EXCEPT !.in = f], r)
    BY <2>2, <2>4, <2>5, Zenon DEF St
  <2>7. [c EXCEPT !.in = f] = [d EXCEPT !.in = f]
    BY <1>1 DEF DevFields
  <2> QED
    BY <2>7, <2>1, <2>3, <2>6, Zenon
<1>7. St(c, r).d.setup = d.setup
  BY <1>2 DEF St
<1>8. ep0_in_interrupt(St(d, r)) =
        CASE ~InFinished(e) -> ep_in_send([St(c, r) EXCEPT !.d.in = InNext(e)])
          [] InFinished(e) /\ ~d.setup.in -> St(c, r)
          [] InFinished(e) /\ d.setup.in ->
               IF d.setup.len > e.done /\ ~(e.done = 0 \/ e.done % EP0Max # 0)
               THEN ep_in_send_data(St(c, r), 0) ELSE BeginStatusOut(St(c, r))
  BY <1>3, <1>4, <1>7, Zenon DEF ep0_in_interrupt
<1>9. PICK x, y, z : /\ x = ep_in_send([St(c, r) EXCEPT !.d.in = InNext(e)])
                     /\ y = ep_in_send_data(St(c, r), 0) /\ z = BeginStatusOut(St(c, r))
  OBVIOUS
<1>10. PICK p, q, v, w : p = InFinished(e) /\ q = d.setup.in /\ v = (e.done = 0 \/ e.done % EP0Max # 0)
                         /\ w = (d.setup.len > e.done)
  OBVIOUS
<1>11. ep0_in_interrupt(St(d, r)) =
        CASE ~p -> x
          [] p /\ ~q -> St(c, r)
          [] p /\ q -> IF w /\ ~v THEN y ELSE z
  BY <1>8, <1>9, <1>10, Zenon
<1>12. /\ ~p => ep0_in_interrupt(St(d, r)) = x
       /\ p /\ ~q => ep0_in_interrupt(St(d, r)) = St(c, r)
       /\ p /\ q /\ v => ep0_in_interrupt(St(d, r)) = z
  BY <1>11
<1> QED
  BY <1>1, <1>5, <1>6, <1>9, <1>10, <1>12, Zenon

\* A step of the control pipe while no command runs and no reset is pending.
LEMMA ControlPass ==
  ASSUME IInv, Fields', Phase', Daint', UNCHANGED blk, ~int.reset, ~int'.reset, ~InCommand,
         UNCHANGED <<shell, iter>>, Meet'
  PROVE  IInv'
<1>1. BulkInv'
  BY BulkKept DEF IInv
<1>2. Reset'
  BY DEF Reset
<1>3. Commands'
  BY DEF IInv, Commands
<1> QED
  BY <1>1, <1>2, <1>3 DEF IInv

\* The phases in which EP 0 IN has reported a packet.
LEMMA InPhases ==
  ASSUME Phase, int.in0
  PROVE  \/ InTaken /\ (Between \/ StatusDone \/ SetupArrived)
         \/ SentPart \/ SentLast \/ SentEmpty
BY DEF Phase, Between, StatusDone, StatusOutDone, SetupArrived, Requested, Stalled, SendingData,
   SendingEmpty, SendingMore, StatusOut, DataOut, DataArrived, Receiving, InStdin, StatusIn,
   InQuiet, InRest

\* The endpoint after an empty packet.
LEMMA AfterEmpty ==
  ASSUME NEW e \in InState, e.size = ZLP, e.done = 0, e.flight = 0
  PROVE  InAfter(e) = Idle /\ Idle \in InStates /\ Idle \in InState /\ InFinished(Idle)
         /\ Idle.size = 0 /\ Idle.done = 0 /\ Idle.flight = 0
<1>1. InAfter(e) = Idle
  BY DEF InAfter, Idle
<1>2. Idle \in InStates /\ Idle \in InState
  BY UsbAssumption DEF Idle, InStates, InState, UsbAssumption
<1>3. Idle.size = 0 /\ Idle.done = 0 /\ Idle.flight = 0
  BY DEF Idle
<1>4. InFinished(Idle)
  BY <1>3 DEF InFinished, InNeedsZlp
<1> QED
  BY <1>1, <1>2, <1>3, <1>4

\* The request of an answer.
LEMMA AnswerOf ==
  ASSUME Fields, Serves
  PROVE  /\ host.req.in \in BOOLEAN /\ host.req.len \in Nat /\ host.req.arg \in Nat
         /\ AnswerLen \in Nat /\ AnswerLen <= host.req.len /\ AnswerLen <= host.req.arg
         /\ dev.setup = host.req /\ host.cnt \in Int
<1>1. /\ host.req.in \in BOOLEAN /\ host.req.len \in Nat /\ host.req.arg \in Nat
  BY RequestsAssumption DEF Serves, RequestsAssumption
<1> QED
  BY <1>1 DEF AnswerLen, Serves, Fields, HostStates

\* The packet in the middle of an answer.
LEMMA DataOf ==
  ASSUME Fields, Answering, InData
  PROVE  /\ dev.in \in InState /\ dev.in.size \in 1..DmaSize /\ dev.in.done \in 0..(DmaSize - 1)
         /\ dev.in.size # ZLP
         /\ dev.in.flight = IF dev.in.size - dev.in.done <= EP0Max THEN dev.in.size - dev.in.done
                            ELSE EP0Max
         /\ InAfter(dev.in) = [size |-> dev.in.size, done |-> dev.in.done + dev.in.flight, flight |-> 0]
         /\ AnswerLen \in 1..DmaSize /\ host.req.len \in 1..DmaSize
         /\ dev.in.done + dev.in.flight \in 1..AnswerLen
<1>1. AnswerLen \in Nat /\ AnswerLen <= host.req.len /\ host.req.len <= DmaSize /\ host.req.len \in Nat
  BY AnswerOf DEF Answering
<1>2. dev.in \in InStates /\ dev.in.done \in Nat
  BY UsbAssumption DEF Fields, DevStates, InStates, UsbAssumption
<1>3. dev.in \in InState
  BY <1>2, UsbAssumption DEF InStates, InState, UsbAssumption, ZLP
<1>4. dev.in.size = AnswerLen /\ dev.in.done < dev.in.size /\ dev.in.flight = Packet(dev.in)
  BY DEF InData
<1>5. dev.in.size \in 1..DmaSize /\ dev.in.done \in 0..(DmaSize - 1) /\ dev.in.size # ZLP
  BY <1>1, <1>2, <1>4, UsbAssumption DEF UsbAssumption, ZLP
<1>6. InAfter(dev.in) = [size |-> dev.in.size, done |-> dev.in.done + dev.in.flight, flight |-> 0]
  BY <1>5 DEF InAfter
<1> QED
  BY <1>1, <1>2, <1>3, <1>4, <1>5, <1>6, UsbAssumption DEF Packet, UsbAssumption

\* What Ep0In does besides the driver's state.
LEMMA Ep0InFrame ==
  ASSUME IInv, Ep0In, "in0" \in usb.daint
  PROVE  /\ Fields /\ int.in0 /\ Passing /\ Passing' /\ ~int.reset /\ ~int'.reset /\ ~InCommand
         /\ usb' \in UsbStates /\ usb'.pc = "out0" /\ usb'.daint = usb.daint /\ usb.pc = "in0"
         /\ int' \in IntStates /\ int'.in0 = FALSE /\ int'.out0 = int.out0 /\ int'.out2 = int.out2
         /\ UNCHANGED <<host, mem, shell, iter>>
         /\ dev' = ep0_in_interrupt(St(dev, reg)).d /\ reg' = ep0_in_interrupt(St(dev, reg)).r
         /\ Daint'
<1>1. /\ Fields /\ usb.pc = "in0" /\ usb' = [usb EXCEPT !.pc = "out0"]
      /\ int' = [int EXCEPT !.in0 = FALSE] /\ UNCHANGED <<host, mem, shell, iter>>
      /\ dev' = ep0_in_interrupt(St(dev, reg)).d /\ reg' = ep0_in_interrupt(St(dev, reg)).r
  BY Loose DEF IInv, Ep0In, Goto, environment, Becomes
<1>2. usb' \in UsbStates /\ usb'.pc = "out0" /\ usb'.daint = usb.daint
  BY <1>1 DEF Fields, UsbStates
<1>3. /\ int' \in IntStates /\ int'.in0 = FALSE /\ int'.out0 = int.out0 /\ int'.out2 = int.out2
      /\ int'.reset = int.reset
  BY <1>1 DEF Fields, IntStates
<1>4. int.in0 /\ Passing /\ Passing' /\ ~int.reset /\ ~InCommand
  BY <1>1, <1>2 DEF IInv, Daint, Passing, Reset, InCommand
<1>5. Daint'
  BY <1>1, <1>2, <1>3 DEF IInv, Daint
<1> QED
  BY <1>1, <1>2, <1>3, <1>4, <1>5

\* What is left to show once the new state of EP 0 is known.
LEMMA Ep0InRest ==
  ASSUME IInv, Ep0In, "in0" \in usb.daint, dev' \in DevStates, reg' \in RegStates, Phase',
         dev'.ep2 = dev.ep2, dev'.cb2 = dev.cb2, dev'.cap = dev.cap, dev'.xfer = dev.xfer,
         dev'.count = dev.count, dev'.waiting = dev.waiting,
         reg'.on2 = reg.on2, reg'.left2 = reg.left2, reg'.pkts2 = reg.pkts2,
         reg'.addr2 = reg.addr2,
         reg.in0 = -1, reg'.in0 = -1 \/ host.stage # "statusin",
         \/ dev'.out = dev.out /\ dev'.cb = dev.cb /\ dev'.setup = dev.setup
         \/ dev'.setup.in
  PROVE  IInv'
<1>1. /\ Fields /\ ~int.reset /\ ~int'.reset /\ ~InCommand
      /\ Passing /\ Passing' /\ usb.pc = "in0" /\ usb'.pc = "out0" /\ usb'.daint = usb.daint
      /\ usb' \in UsbStates /\ int' \in IntStates
      /\ int'.out0 = int.out0 /\ int'.out2 = int.out2
      /\ UNCHANGED <<host, mem, shell, iter>> /\ Daint'
  BY Ep0InFrame
<1>2. Fields'
  BY <1>1 DEF Fields
<1>3. UNCHANGED blk
  BY <1>1 DEF blk
<1>4. Granted'
  BY <1>1 DEF Granted, Granting
<1>5. AwaitHost'
  BY <1>1 DEF IInv, Meet, AwaitHost, Granting
<1>6. ResizeOK'
  BY DEF IInv, Meet, ResizeOK
<1>7. CommandAfterUpload'
  BY <1>1 DEF IInv, Meet, CommandAfterUpload
<1>8. Meet'
  BY <1>4, <1>5, <1>6, <1>7 DEF Meet
<1> QED
  BY <1>1, <1>2, <1>3, <1>8, ControlPass

\* The host has taken the empty packet of STATUS IN.
LEMMA Ep0InTaken ==
  ASSUME IInv, Ep0In, "in0" \in usb.daint, InTaken, Between \/ StatusDone \/ SetupArrived
  PROVE  IInv'
<1>1. /\ Fields /\ Passing' /\ int'.in0 = FALSE /\ int'.out0 = int.out0
      /\ UNCHANGED <<host, mem, shell, iter>>
      /\ dev' = ep0_in_interrupt(St(dev, reg)).d /\ reg' = ep0_in_interrupt(St(dev, reg)).r
  BY Ep0InFrame
<1>2. dev \in DevFields /\ reg \in RegFields /\ dev.in \in InState
  <2>1. dev \in DevFields /\ reg \in RegFields
    BY <1>1, Loose DEF Fields
  <2> QED
    BY <2>1 DEF DevFields
<1>3. /\ InAfter(dev.in) = Idle /\ Idle \in InStates /\ Idle \in InState /\ InFinished(Idle)
      /\ Idle.size = 0 /\ Idle.done = 0 /\ Idle.flight = 0
  BY <1>2, AfterEmpty DEF InTaken, InEmpty
<1>4. ep0_in_interrupt(St(dev, reg)) = St([dev EXCEPT !.in = Idle], reg)
  BY <1>2, <1>3, InInterrupt DEF InTaken
<1>5. dev' = [dev EXCEPT !.in = Idle] /\ reg' = reg
  BY <1>1, <1>4, StParts
<1>6. PICK v : v = Idle
  OBVIOUS
<1>7. /\ dev' \in DevStates /\ dev'.in = v /\ dev'.out = dev.out /\ dev'.setup = dev.setup
      /\ dev'.cb = dev.cb /\ dev'.ep2 = dev.ep2 /\ dev'.cb2 = dev.cb2 /\ dev'.cap = dev.cap
      /\ dev'.xfer = dev.xfer /\ dev'.count = dev.count /\ dev'.waiting = dev.waiting
  BY <1>1, <1>3, <1>5, <1>6 DEF Fields, DevStates
<1>8. InQuiet'
  BY <1>1, <1>3, <1>5, <1>6, <1>7 DEF InQuiet, InRest, InTaken
<1>9. Phase'
  BY <1>1, <1>5, <1>7, <1>8 DEF Phase, Between, StatusDone, SetupArrived, OutRest
<1> QED
  BY <1>1, <1>5, <1>7, <1>9, Ep0InRest DEF InTaken, Fields

\* EP 0 IN sends again: the driver's state.
LEMMA SendsAgain ==
  ASSUME NEW f \in InStates, Sendable(f), Fields, ~InFinished(InAfter(dev.in)),
         InAfter(dev.in) \in InState, InNext(InAfter(dev.in)) = f,
         dev' = ep0_in_interrupt(St(dev, reg)).d, reg' = ep0_in_interrupt(St(dev, reg)).r
  PROVE  /\ dev' \in DevStates /\ dev'.in = Flying(f) /\ dev'.out = dev.out
         /\ dev'.setup = dev.setup
         /\ dev'.cb = dev.cb /\ dev'.ep2 = dev.ep2 /\ dev'.cb2 = dev.cb2 /\ dev'.cap = dev.cap
         /\ dev'.xfer = dev.xfer /\ dev'.count = dev.count /\ dev'.waiting = dev.waiting
         /\ reg' \in RegStates /\ reg'.in0 = Packet(f) /\ reg'.out0 = reg.out0
         /\ reg'.left0 = reg.left0
         /\ reg'.stall = reg.stall /\ reg'.dma0 = reg.dma0 /\ reg'.on2 = reg.on2
         /\ reg'.left2 = reg.left2 /\ reg'.pkts2 = reg.pkts2 /\ reg'.addr2 = reg.addr2
<1>1. dev \in DevFields /\ reg \in RegFields
  BY Loose DEF Fields
<1>2. PICK c : c = [dev EXCEPT !.in = f]
  OBVIOUS
<1>3. c \in DevFields /\ c.in = f
  BY <1>1, <1>2 DEF DevFields, Sendable
<1>4. ep0_in_interrupt(St(dev, reg)) = ep_in_send(St(c, reg))
  BY <1>1, <1>2, InInterrupt
<1>5. ep_in_send(St(c, reg)) = St([c EXCEPT !.in = Flying(f)], [reg EXCEPT !.in0 = Packet(f)])
  BY <1>1, <1>3, Send
<1>6. Packet(f) \in 0..EP0Max /\ Flying(f) \in InStates
  <2>1. Packet(f) \in 0..EP0Max
    BY UsbAssumption DEF Packet, Sendable, InState, UsbAssumption
  <2>2. f.size \in {ZLP} \cup 0..DmaSize /\ f.done \in 0..DmaSize
    BY DEF InStates
  <2> QED
    BY <2>1, <2>2 DEF Flying, InStates
<1>7. PICK x, y : x = Packet(f) /\ y = Flying(f)
  OBVIOUS
<1>8. dev' = [c EXCEPT !.in = y] /\ reg' = [reg EXCEPT !.in0 = x]
  BY <1>4, <1>5, <1>7, StParts
<1>9. dev \in DevStates /\ reg \in RegStates /\ x \in -1..EP0Max /\ y \in InStates
  BY <1>6, <1>7, UsbAssumption DEF Fields, UsbAssumption
<1>10. dev' = [dev EXCEPT !.in = y]
  BY <1>2, <1>8, <1>9 DEF DevStates
<1>11. /\ dev' \in DevStates /\ dev'.in = y /\ dev'.out = dev.out /\ dev'.setup = dev.setup
      /\ dev'.cb = dev.cb /\ dev'.ep2 = dev.ep2 /\ dev'.cb2 = dev.cb2 /\ dev'.cap = dev.cap
      /\ dev'.xfer = dev.xfer /\ dev'.count = dev.count /\ dev'.waiting = dev.waiting
  BY <1>9, <1>10 DEF DevStates
<1>12. /\ reg' \in RegStates /\ reg'.in0 = x /\ reg'.out0 = reg.out0 /\ reg'.left0 = reg.left0
       /\ reg'.stall = reg.stall /\ reg'.dma0 = reg.dma0 /\ reg'.on2 = reg.on2
       /\ reg'.left2 = reg.left2 /\ reg'.pkts2 = reg.pkts2 /\ reg'.addr2 = reg.addr2
  BY <1>8, <1>9 DEF RegStates
<1> QED
  BY <1>7, <1>11, <1>12

\* STATUS OUT begins: the driver's state.
LEMMA BeginsStatusOut ==
  ASSUME NEW e \in InStates, Fields, e = InAfter(dev.in), e.size = e.done, e.flight = 0,
         InFinished(e), dev.setup.in, e.done = 0 \/ e.done % EP0Max # 0, ~dev.out.recv,
         dev' = ep0_in_interrupt(St(dev, reg)).d, reg' = ep0_in_interrupt(St(dev, reg)).r
  PROVE  /\ dev' \in DevStates /\ dev'.in = e /\ dev'.setup = dev.setup
         /\ dev'.out.size = ZLP /\ dev'.out.done = 0 /\ dev'.out.recv = TRUE
         /\ dev'.ep2 = dev.ep2 /\ dev'.cb2 = dev.cb2 /\ dev'.cap = dev.cap
         /\ dev'.xfer = dev.xfer /\ dev'.count = dev.count /\ dev'.waiting = dev.waiting
         /\ reg' \in RegStates /\ reg'.in0 = reg.in0 /\ reg'.out0 = "data"
         /\ reg'.stall = reg.stall /\ reg'.on2 = reg.on2
         /\ reg'.left2 = reg.left2 /\ reg'.pkts2 = reg.pkts2 /\ reg'.addr2 = reg.addr2
<1>1. dev \in DevFields /\ reg \in RegFields /\ dev \in DevStates /\ reg \in RegStates
  BY Loose DEF Fields
<1>2. e \in InState
  BY UsbAssumption DEF InStates, InState, UsbAssumption, ZLP
<1>3. PICK c : c = [dev EXCEPT !.in = e]
  OBVIOUS
<1>4. c \in DevFields /\ c.out = dev.out
  BY <1>1, <1>2, <1>3 DEF DevFields
<1>5. ep0_in_interrupt(St(dev, reg)) = BeginStatusOut(St(c, reg))
  BY <1>1, <1>2, <1>3, InInterrupt
<1>6. PICK o, y : o = [size |-> ZLP, done |-> 0, recv |-> TRUE] /\ y = EP0Max
  OBVIOUS
<1>7. BeginStatusOut(St(c, reg)) = St([c EXCEPT !.out = o], [reg EXCEPT !.out0 = "data", !.left0 = y])
  BY <1>1, <1>4, <1>6, StatusOutArmed
<1>8. o \in Endpoint /\ o.size = ZLP /\ o.done = 0 /\ o.recv = TRUE /\ y \in 0..EP0Max
  BY <1>6, UsbAssumption DEF Endpoint, UsbAssumption
<1>9. dev' = [c EXCEPT !.out = o] /\ reg' = [reg EXCEPT !.out0 = "data", !.left0 = y]
  BY <1>5, <1>7, StParts
<1>10. /\ dev' \in DevStates /\ dev'.in = e /\ dev'.setup = dev.setup /\ dev'.out = o
       /\ dev'.ep2 = dev.ep2 /\ dev'.cb2 = dev.cb2 /\ dev'.cap = dev.cap
       /\ dev'.xfer = dev.xfer /\ dev'.count = dev.count /\ dev'.waiting = dev.waiting
  BY <1>1, <1>3, <1>8, <1>9 DEF DevStates
<1>11. /\ reg' \in RegStates /\ reg'.in0 = reg.in0 /\ reg'.out0 = "data"
       /\ reg'.stall = reg.stall /\ reg'.on2 = reg.on2
       /\ reg'.left2 = reg.left2 /\ reg'.pkts2 = reg.pkts2 /\ reg'.addr2 = reg.addr2
  BY <1>1, <1>8, <1>9 DEF RegStates
<1> QED
  BY <1>8, <1>10, <1>11

\* What the phases of an answer say of the state behind Ep0In, which sends again.
LEMMA AnswerGoesOn ==
  ASSUME IInv, Ep0In, "in0" \in usb.daint, Answering, reg.in0 = -1, InAfter(dev.in) \in InState,
         ~InFinished(InAfter(dev.in)),
         NEW f \in InStates, Sendable(f), InNext(InAfter(dev.in)) = f,
         \/ /\ host.stage = "datain" /\ f.size = AnswerLen /\ f.done = host.cnt
            /\ f.done < f.size /\ f.done % EP0Max = 0
         \/ /\ host.stage = "datain" /\ f.size = ZLP /\ host.cnt = AnswerLen
            /\ AnswerLen = 0 \/ AnswerLen < host.req.len
         \/ host.stage = "statusout" /\ f.size = ZLP /\ host.cnt = AnswerLen
  PROVE  IInv'
<1>1. /\ Fields /\ Passing' /\ int'.in0 = FALSE /\ int'.out0 = int.out0
      /\ UNCHANGED <<host, mem, shell, iter>>
      /\ dev' = ep0_in_interrupt(St(dev, reg)).d /\ reg' = ep0_in_interrupt(St(dev, reg)).r
  BY Ep0InFrame
<1>2. /\ dev' \in DevStates /\ dev'.in = Flying(f) /\ dev'.out = dev.out
      /\ dev'.setup = dev.setup
      /\ dev'.cb = dev.cb /\ dev'.ep2 = dev.ep2 /\ dev'.cb2 = dev.cb2 /\ dev'.cap = dev.cap
      /\ dev'.xfer = dev.xfer /\ dev'.count = dev.count /\ dev'.waiting = dev.waiting
      /\ reg' \in RegStates /\ reg'.in0 = Packet(f) /\ reg'.out0 = reg.out0
      /\ reg'.left0 = reg.left0
      /\ reg'.stall = reg.stall /\ reg'.dma0 = reg.dma0 /\ reg'.on2 = reg.on2
      /\ reg'.left2 = reg.left2 /\ reg'.pkts2 = reg.pkts2 /\ reg'.addr2 = reg.addr2
  BY <1>1, SendsAgain
<1>3. /\ dev'.in.size = f.size /\ dev'.in.done = f.done /\ dev'.in.flight = Packet(f)
      /\ reg'.in0 = dev'.in.flight
  BY <1>2, FlyingType DEF Sendable
<1>4. Answering' /\ AnswerLen' = AnswerLen
  BY <1>1, <1>2 DEF Answering, OutRest, Serves, AnswerLen
<1>5. CASE /\ host.stage = "datain" /\ f.size = AnswerLen /\ f.done = host.cnt
           /\ f.done < f.size /\ f.done % EP0Max = 0
  <2>1. InData'
    BY <1>3, <1>4, <1>5 DEF InData, Packet
  <2>2. SendingData'
    BY <1>1, <1>3, <1>4, <1>5, <2>1 DEF SendingData
  <2>3. Phase'
    BY <2>2 DEF Phase
  <2> QED
    BY <1>2, <1>5, <2>3, Ep0InRest
<1>6. CASE f.size = ZLP
  <2>1. InEmpty'
    BY <1>3, <1>6 DEF InEmpty, Sendable, Packet, ZLP, InState
  <2>2. SendingEmpty' \/ SendingMore'
    <3>1. AnswerLen \in Nat
      BY <1>1, AnswerOf DEF Answering
    <3>2. f.size # AnswerLen
      BY <1>6, <3>1 DEF ZLP
    <3> QED
      BY <1>1, <1>3, <1>4, <2>1, <3>2 DEF SendingEmpty, SendingMore
  <2>3. Phase'
    BY <2>2 DEF Phase
  <2>4. host.stage # "statusin"
    OBVIOUS
  <2> QED
    BY <1>2, <2>3, <2>4, Ep0InRest
<1> QED
  BY <1>5, <1>6

\* The endpoint after a packet of data of which the host has taken n bytes so far.
LEMMA AfterPacket ==
  ASSUME NEW e \in InState, NEW n \in 1..DmaSize, NEW m \in 1..DmaSize,
         e.size = m, e.done = n, e.flight = 0, n <= m
  PROVE  /\ e \in InStates
         /\ InFinished(e) <=> n = m /\ n % EP0Max # 0
         /\ n < m => InNext(e) = e
         /\ n = m => InNext(e) = [size |-> ZLP, done |-> 0, flight |-> 0]
<1>1. n \in Int /\ m \in Int /\ DmaSize \in Nat /\ EP0Max \in Nat \ {0} /\ m > 0
  BY UsbAssumption DEF UsbAssumption
<1>3. e \in InStates
  BY <1>1 DEF InState, InStates
<1>4. InFinished(e) <=> n = m /\ n % EP0Max # 0
  BY <1>1 DEF InFinished, InNeedsZlp
<1>5. n < m => InNext(e) = e
  BY <1>1 DEF InNext
<1>6. n = m => InNext(e) = [size |-> ZLP, done |-> 0, flight |-> 0]
  BY DEF InNext, InState, ZLP
<1> QED
  BY <1>3, <1>4, <1>5, <1>6

\* An empty packet may be sent.
LEMMA EmptySendable ==
  ASSUME NEW f, f = [size |-> ZLP, done |-> 0, flight |-> 0]
  PROVE  f \in InStates /\ Sendable(f) /\ f.size = ZLP /\ f.done = 0
<1>1. f.size = ZLP /\ f.done = 0 /\ f.flight = 0
  OBVIOUS
<1>2. f \in InStates /\ f \in InState
  BY UsbAssumption DEF InStates, InState, UsbAssumption, ZLP
<1> QED
  BY <1>1, <1>2 DEF Sendable

\* The host expects another packet.
LEMMA Ep0InPart ==
  ASSUME IInv, Ep0In, "in0" \in usb.daint, SentPart
  PROVE  IInv'
<1>1. Fields /\ Answering /\ InData /\ reg.in0 = -1
  BY Ep0InFrame DEF SentPart
<1>2. PICK n : n = host.cnt
  OBVIOUS
<1>3. PICK m : m = AnswerLen
  OBVIOUS
<1>4. PICK e : e = [size |-> m, done |-> n, flight |-> 0]
  OBVIOUS
<1>5. /\ InAfter(dev.in) = e /\ m \in 1..DmaSize /\ n \in 1..m
      /\ dev.in.done \in Nat /\ n = dev.in.done + EP0Max /\ dev.in.done % EP0Max = 0
      /\ host.stage = "datain" /\ n < host.req.len /\ host.req.len \in Nat
  BY <1>1, <1>2, <1>3, <1>4, DataOf DEF SentPart, InData
<1>6. n \in 1..DmaSize /\ n <= m /\ n \in Int /\ DmaSize \in Int /\ EP0Max \in Nat \ {0}
  BY <1>5, UsbAssumption DEF UsbAssumption
<1>0. e.size = m /\ e.done = n /\ e.flight = 0 /\ e \in InState
  BY <1>4, <1>5, <1>6 DEF InState
<1>7. n % EP0Max = 0
  <2>1. EP0Max % EP0Max = 0
    <3>1. EP0Max = EP0Max * 1
      BY <1>6
    <3> QED
      BY <1>6, <3>1, IsMultiple
  <2>2. dev.in.done \in Int /\ EP0Max \in Int
    BY <1>5, <1>6
  <2> QED
    BY <1>5, <1>6, <2>1, <2>2, Multiples
<1>8. e \in InState /\ e \in InStates /\ ~InFinished(e)
  BY <1>0, <1>5, <1>6, <1>7, AfterPacket
<1>9. CASE n < m
  <2>1. InNext(e) = e
    BY <1>0, <1>5, <1>6, <1>9, AfterPacket
  <2>3. Sendable(e)
    BY <1>0, <1>5, <1>6, <1>7, <1>8, <1>9 DEF Sendable
  <2> QED
    BY <1>0, <1>1, <1>2, <1>3, <1>5, <1>7, <1>8, <1>9, <2>1, <2>3, AnswerGoesOn
<1>10. CASE n = m
  <2>1. PICK f : f = [size |-> ZLP, done |-> 0, flight |-> 0]
    OBVIOUS
  <2>2. InNext(e) = f
    BY <1>0, <1>5, <1>6, <1>10, <2>1, AfterPacket
  <2>3. f \in InStates /\ Sendable(f) /\ f.size = ZLP
    BY <2>1, EmptySendable
  <2>4. /\ host.stage = "datain" /\ f.size = ZLP /\ host.cnt = AnswerLen
        /\ AnswerLen < host.req.len
    BY <1>2, <1>3, <1>5, <1>10, <2>3
  <2> QED
    BY <1>1, <1>5, <1>8, <2>2, <2>3, <2>4, AnswerGoesOn
<1> QED
  BY <1>6, <1>5, <1>9, <1>10

\* DATA IN is over for the driver too, which goes on to STATUS OUT.
LEMMA Ep0InEnds ==
  ASSUME IInv, Ep0In, "in0" \in usb.daint, Answering, reg.in0 = -1,
         NEW e \in InStates, e = InAfter(dev.in), e.size = e.done, e.flight = 0,
         InFinished(e), e.done = 0 \/ e.done % EP0Max # 0,
         host.stage = "statusout", host.cnt = AnswerLen
  PROVE  IInv'
<1>1. /\ Fields /\ Passing' /\ int'.in0 = FALSE /\ int'.out0 = int.out0
      /\ UNCHANGED <<host, mem, shell, iter>>
      /\ dev' = ep0_in_interrupt(St(dev, reg)).d /\ reg' = ep0_in_interrupt(St(dev, reg)).r
  BY Ep0InFrame
<1>2. dev.setup.in /\ ~dev.out.recv
  BY DEF Answering, Serves, OutRest
<1>3. /\ dev' \in DevStates /\ dev'.in = e /\ dev'.setup = dev.setup
      /\ dev'.out.size = ZLP /\ dev'.out.done = 0 /\ dev'.out.recv = TRUE
      /\ dev'.ep2 = dev.ep2 /\ dev'.cb2 = dev.cb2 /\ dev'.cap = dev.cap
      /\ dev'.xfer = dev.xfer /\ dev'.count = dev.count /\ dev'.waiting = dev.waiting
      /\ reg' \in RegStates /\ reg'.in0 = reg.in0 /\ reg'.out0 = "data"
      /\ reg'.stall = reg.stall /\ reg'.on2 = reg.on2
      /\ reg'.left2 = reg.left2 /\ reg'.pkts2 = reg.pkts2 /\ reg'.addr2 = reg.addr2
  BY <1>1, <1>2, BeginsStatusOut
<1>4. StatusOut'
  <2>1. InRest'
    BY <1>1, <1>3 DEF InRest
  <2>2. Serves' /\ AnswerLen' = AnswerLen
    BY <1>1, <1>3 DEF Answering, Serves, AnswerLen
  <2> QED
    BY <1>1, <1>3, <2>1, <2>2 DEF StatusOut, Answering, OutRest
<1>5. Phase'
  BY <1>4 DEF Phase
<1> QED
  BY <1>2, <1>3, <1>5, Ep0InRest

\* The host has taken the last packet of data.
LEMMA Ep0InLast ==
  ASSUME IInv, Ep0In, "in0" \in usb.daint, SentLast
  PROVE  IInv'
<1>1. Fields /\ Answering /\ InData /\ reg.in0 = -1
  BY Ep0InFrame DEF SentLast
<1>2. PICK n : n = AnswerLen
  OBVIOUS
<1>3. PICK e : e = [size |-> n, done |-> n, flight |-> 0]
  OBVIOUS
<1>4. /\ InAfter(dev.in) = e /\ n \in 1..DmaSize /\ host.cnt = AnswerLen
      /\ host.stage = "statusout"
  BY <1>1, <1>2, <1>3, DataOf DEF SentLast, InData
<1>5. n <= n
  BY <1>4, UsbAssumption DEF UsbAssumption
<1>0. e.size = n /\ e.done = n /\ e.flight = 0 /\ e \in InState
  BY <1>3, <1>4 DEF InState
<1>6. e \in InState /\ e \in InStates /\ (InFinished(e) <=> n % EP0Max # 0)
  BY <1>0, <1>4, <1>5, AfterPacket
<1>7. CASE n % EP0Max = 0
  <2>1. PICK f : f = [size |-> ZLP, done |-> 0, flight |-> 0]
    OBVIOUS
  <2>2. InNext(e) = f
    BY <1>0, <1>4, <1>5, <2>1, AfterPacket
  <2>3. f \in InStates /\ Sendable(f) /\ f.size = ZLP
    BY <2>1, EmptySendable
  <2> QED
    BY <1>1, <1>4, <1>6, <1>7, <2>2, <2>3, AnswerGoesOn
<1>8. CASE n % EP0Max # 0
  BY <1>0, <1>1, <1>4, <1>6, <1>8, Ep0InEnds
<1> QED
  BY <1>7, <1>8

\* The host has taken the empty packet.
LEMMA Ep0InEmpty ==
  ASSUME IInv, Ep0In, "in0" \in usb.daint, SentEmpty
  PROVE  IInv'
<1>1. Fields /\ Answering /\ InEmpty /\ reg.in0 = -1 /\ host.stage = "statusout" /\ host.cnt = AnswerLen
  BY Ep0InFrame DEF SentEmpty
<1>2. dev.in \in InState
  <2>1. dev \in DevFields
    BY <1>1, Loose DEF Fields
  <2> QED
    BY <2>1 DEF DevFields
<1>3. PICK e : e = Idle
  OBVIOUS
<1>4. /\ InAfter(dev.in) = e /\ e \in InStates /\ InFinished(e)
      /\ e.size = 0 /\ e.done = 0 /\ e.flight = 0
  BY <1>1, <1>2, <1>3, AfterEmpty DEF InEmpty
<1> QED
  BY <1>1, <1>4, Ep0InEnds

\* ep0_in_interrupt.
LEMMA Ep0InInv ==
  ASSUME IInv, Ep0In
  PROVE  IInv'
<1>1. CASE "in0" \notin usb.daint
  BY <1>1, Ep0InNoneInv
<1>2. CASE "in0" \in usb.daint
  <2>1. Phase /\ int.in0
    BY <1>2, Ep0InFrame DEF IInv
  <2> QED
    BY <1>2, <2>1, InPhases, Ep0InTaken, Ep0InPart, Ep0InLast, Ep0InEmpty
<1> QED
  BY <1>1, <1>2

------------------------------------------------------------------------------
(* EP 0 OUT: a SETUP packet.                                               *)

\* The phases in which EP 0 OUT has reported a packet, after EP 0 IN was served.
LEMMA OutPhases ==
  ASSUME Phase, int.out0 # {}, ~int.in0
  PROVE  InRest /\ (StatusDone \/ StatusOutDone \/ SetupArrived \/ DataArrived)
BY DEF Phase, Between, StatusDone, StatusOutDone, SetupArrived, Requested, Stalled, SendingData,
   SendingEmpty, SendingMore, SentPart, SentLast, SentEmpty, Answering, OutRest,
   StatusOut, DataOut, DataArrived, Receiving, InStdin, StatusIn, InQuiet, InTaken

\* What the actions of EP 0 OUT have in common.
LEMMA Out0Frame ==
  ASSUME IInv, Out0(TRUE), NEW pc, Goto(pc), pc \in {"request", "event", "out2"}
  PROVE  /\ Fields /\ usb.pc = "out0" /\ "out0" \in usb.daint
         /\ ~int.in0 /\ ~int.reset /\ int.out0 # {} /\ Passing /\ ~InCommand
         /\ usb' \in UsbStates /\ usb'.pc = pc /\ usb'.daint = usb.daint
         /\ int' \in IntStates /\ int'.out0 = {} /\ int'.in0 = FALSE /\ int'.out2 = int.out2
         /\ int'.reset = FALSE
         /\ UNCHANGED <<host, iter>> /\ Daint'
<1>1. /\ Fields /\ usb.pc = "out0" /\ "out0" \in usb.daint
      /\ usb' = [usb EXCEPT !.pc = pc] /\ int' = [int EXCEPT !.out0 = {}] /\ UNCHANGED <<host, iter>>
  BY DEF IInv, Out0, Goto
<1>2. usb' \in UsbStates /\ usb'.pc = pc /\ usb'.daint = usb.daint
  BY <1>1 DEF Fields, UsbStates
<1>3. /\ int' \in IntStates /\ int'.out0 = {} /\ int'.in0 = int.in0 /\ int'.out2 = int.out2
      /\ int'.reset = int.reset
  BY <1>1 DEF Fields, IntStates
<1>4. /\ ~int.in0 /\ ~int.reset /\ int.out0 # {} /\ Passing /\ ~InCommand
      /\ int.in0 \in BOOLEAN /\ int.reset \in BOOLEAN
  BY <1>1 DEF IInv, Daint, Passing, Reset, InCommand, Fields, IntStates
<1>5. Daint'
  BY <1>1, <1>2, <1>3 DEF IInv, Daint
<1> QED
  BY <1>1, <1>2, <1>3, <1>4, <1>5

\* ep_out_recv_setup_done.
LEMMA SetupTaken ==
  ASSUME NEW d \in DevFields, NEW r \in RegFields, ~d.out.recv
  PROVE  SetupDone(St(d, r)) =
           St([d EXCEPT !.out = NotReceiving, !.setup = r.dma0, !.cb = "none"],
              [r EXCEPT !.dma0 = NoRequest])
<1>1. Bug(St(d, r), d.out.recv, "recv 3") = St(d, r)
  BY NoCheck
<1>2. St(d, r).d.out.recv = d.out.recv /\ St(d, r).r.dma0 = r.dma0
  BY DEF St
<1>3. PICK x, y, z : x = NotReceiving /\ y = r.dma0 /\ z = NoRequest
  OBVIOUS
<1>4. SetupDone(St(d, r)) = [St(d, r) EXCEPT !.d.out = x, !.d.setup = y, !.d.cb = "none",
                                             !.r.dma0 = z]
  BY <1>1, <1>2, <1>3, Zenon DEF SetupDone
<1>5. [St(d, r) EXCEPT !.d.out = x, !.d.setup = y, !.d.cb = "none", !.r.dma0 = z]
        = St([d EXCEPT !.out = x, !.setup = y, !.cb = "none"], [r EXCEPT !.dma0 = z])
  <2>1. PICK u : u = St(d, r)
    OBVIOUS
  <2>2. u.d = d /\ u.r = r /\ u \in [d : {d}, r : {r}]
    BY <2>1, Parts
  <2>3. PICK t : t = [u EXCEPT !.d.out = x, !.d.setup = y, !.d.cb = "none", !.r.dma0 = z]
    OBVIOUS
  <2>4. t.d = [u.d EXCEPT !.out = x, !.setup = y, !.cb = "none"] /\ t.r = [u.r EXCEPT !.dma0 = z]
    BY <2>2, <2>3
  <2>5. t = [d |-> t.d, r |-> t.r]
    BY <2>2, <2>3
  <2>6. t = St([d EXCEPT !.out = x, !.setup = y, !.cb = "none"], [r EXCEPT !.dma0 = z])
    BY <2>2, <2>4, <2>5, Zenon DEF St
  <2> QED
    BY <2>1, <2>3, <2>6, Zenon
<1> QED
  BY <1>3, <1>4, <1>5, Zenon

\* The fields of an endpoint that does not receive.
LEMMA NotReceivingType ==
  /\ NotReceiving \in Endpoint /\ NotReceiving \in OutState
  /\ NotReceiving.size = 0 /\ NotReceiving.done = 0 /\ NotReceiving.recv = FALSE
BY UsbAssumption DEF NotReceiving, Endpoint, OutState, UsbAssumption

\* A SETUP packet is taken.
LEMMA Ep0OutSetupInv ==
  ASSUME IInv, Ep0OutSetup
  PROVE  IInv'
<1>1. /\ Out0(TRUE) /\ "setup" \in int.out0 /\ Becomes(SetupDone(Cur)) /\ Goto("request")
      /\ UNCHANGED <<mem, shell>>
  BY DEF Ep0OutSetup, Out0
<1>2. /\ Fields /\ "setup" \in int.out0 /\ usb.pc = "out0" /\ "out0" \in usb.daint
      /\ ~int.in0 /\ ~int.reset /\ int.out0 # {} /\ Passing /\ ~InCommand
      /\ usb' \in UsbStates /\ usb'.pc = "request" /\ usb'.daint = usb.daint
      /\ int' \in IntStates /\ int'.out0 = {} /\ int'.in0 = FALSE /\ int'.out2 = int.out2
      /\ int'.reset = FALSE
      /\ UNCHANGED <<host, iter>> /\ Daint'
  BY <1>1, Out0Frame
<1>3. InRest /\ SetupArrived
  <2>1. InRest /\ (StatusDone \/ StatusOutDone \/ SetupArrived \/ DataArrived)
    BY <1>2, OutPhases DEF IInv
  <2> QED
    BY <1>2, <2>1 DEF StatusDone, StatusOutDone, DataArrived
<1>4. PICK x, y, z : x = NotReceiving /\ y = reg.dma0 /\ z = NoRequest
  OBVIOUS
<1>5. dev' = [dev EXCEPT !.out = x, !.setup = y, !.cb = "none"] /\ reg' = [reg EXCEPT !.dma0 = z]
  <2>1. dev \in DevFields /\ reg \in RegFields /\ ~dev.out.recv
    BY <1>2, <1>3, Loose DEF Fields, SetupArrived
  <2>2. SetupDone(Cur) = St([dev EXCEPT !.out = x, !.setup = y, !.cb = "none"], [reg EXCEPT !.dma0 = z])
    BY <1>4, <2>1, SetupTaken, Loose
  <2> QED
    BY <1>1, <2>2, StParts DEF Becomes
<1>6. x \in Endpoint /\ ~x.recv /\ y \in Request /\ z \in Request /\ y = host.req
  BY <1>2, <1>3, <1>4, NotReceivingType DEF Fields, RegStates, Request, SetupArrived
<1>7. /\ dev' \in DevStates /\ dev'.in = dev.in /\ dev'.out = x /\ dev'.setup = y
      /\ dev'.ep2 = dev.ep2 /\ dev'.cb2 = dev.cb2 /\ dev'.cap = dev.cap
      /\ dev'.xfer = dev.xfer /\ dev'.count = dev.count /\ dev'.waiting = dev.waiting
  BY <1>2, <1>5, <1>6 DEF Fields, DevStates
<1>8. /\ reg' \in RegStates /\ reg'.in0 = reg.in0 /\ reg'.out0 = reg.out0
      /\ reg'.stall = reg.stall /\ reg'.on2 = reg.on2
      /\ reg'.left2 = reg.left2 /\ reg'.pkts2 = reg.pkts2 /\ reg'.addr2 = reg.addr2
  BY <1>2, <1>5, <1>6 DEF Fields, RegStates
<1>9. Phase'
  <2>1. InRest' /\ OutRest' /\ Serves'
    BY <1>2, <1>3, <1>6, <1>7, <1>8 DEF InRest, OutRest, Serves, SetupArrived
  <2>2. Requested'
    BY <1>2, <1>3, <1>8, <2>1 DEF Requested, SetupArrived
  <2> QED
    BY <2>2 DEF Phase
<1>10. Meet'
  <2>1. Granted'
    BY <1>2, <1>3, <1>8 DEF Granted, Granting, InRest
  <2>2. AwaitHost'
    BY <1>2, <1>3, <1>7 DEF IInv, Meet, AwaitHost, Granting, InRest
  <2>3. ResizeOK'
    BY <1>6, <1>7 DEF ResizeOK
  <2>4. CommandAfterUpload'
    BY <1>2, <1>7 DEF IInv, Meet, CommandAfterUpload
  <2> QED
    BY <2>1, <2>2, <2>3, <2>4 DEF Meet
<1>11. Fields' /\ UNCHANGED blk
  BY <1>1, <1>2, <1>7, <1>8 DEF Fields, blk
<1> QED
  BY <1>1, <1>2, <1>9, <1>10, <1>11, ControlPass

------------------------------------------------------------------------------
(* EP 0 OUT: ep0_setup_stage and how the SETUP stage ends.                 *)

\* What ep0_setup_stage answers to a request.
LEMMA SetupStage ==
  ASSUME NEW d \in DevFields, NEW s, s.d = d, d.setup \in Requests
  PROVE  \/ ep0_setup_stage(s) = Answer(FALSE, s) /\ d.setup.op # "discard"
         \/ ep0_setup_stage(s) = Answer(TRUE, [s EXCEPT !.d.wait = TRUE]) /\ d.setup.op = "wait"
         \/ ep0_setup_stage(s) = Answer(TRUE, [s EXCEPT !.d.wait = FALSE]) /\ d.setup.op = "nowait"
         \/ ep0_setup_stage(s) = BeginDataIn(s) /\ d.setup.op = "answer" /\ d.setup.len <= DmaSize
         \/ ep0_setup_stage(s) = Answer(TRUE, s) /\ d.setup.op = "plain"
         \/ ep0_setup_stage(s) = BeginUpload(s) /\ d.setup.op = "upload" /\ ~d.waiting
         \/ /\ ep0_setup_stage(s) = Answer(TRUE, [s EXCEPT !.d.count = IF d.waiting THEN @ ELSE 0])
            /\ d.setup.op = "discard"
         \/ /\ ep0_setup_stage(s) = Answer(TRUE, DataStage(s, d.setup.op))
            /\ d.setup.op \in {"stdin", "resize", "vendor"} /\ d.setup.len <= DmaSize
            /\ d.setup.op = "resize" => ~d.waiting
<1>1. PICK q : q = d.setup
  OBVIOUS
<1>2. /\ q.len \in Nat /\ (q.op = "discard" => q.len = 0)
      /\ q.op \in {"answer", "plain", "upload", "discard", "wait", "nowait", "stdin", "resize",
                  "vendor", "bad"}
  BY <1>1, RequestsAssumption DEF RequestsAssumption
<1>3. PICK no, a, p, u, c, e, f, g, w, x :
        /\ no = Answer(FALSE, s) /\ a = BeginDataIn(s) /\ p = Answer(TRUE, s) /\ u = BeginUpload(s)
        /\ c = Answer(TRUE, [s EXCEPT !.d.count = IF d.waiting THEN @ ELSE 0])
        /\ e = Answer(TRUE, DataStage(s, "stdin")) /\ f = Answer(TRUE, DataStage(s, "resize"))
        /\ g = Answer(TRUE, DataStage(s, "vendor"))
        /\ w = Answer(TRUE, [s EXCEPT !.d.wait = TRUE])
        /\ x = Answer(TRUE, [s EXCEPT !.d.wait = FALSE])
  OBVIOUS
<1>4. ep0_setup_stage(s) =
        IF q.len > DmaSize THEN no ELSE
        CASE q.op = "answer"  -> a
          [] q.op = "plain"   -> p
          [] q.op = "upload"  -> u
          [] q.op = "discard" -> c
          [] q.op = "wait"    -> w
          [] q.op = "nowait"  -> x
          [] q.op = "stdin"   -> e
          [] q.op = "resize"  -> IF d.waiting THEN no ELSE f
          [] q.op = "vendor"  -> IF q.len > RecvCap - d.ktrw THEN no ELSE g
          [] OTHER            -> no
  BY <1>1, <1>3, Zenon DEF ep0_setup_stage
<1>5. d.waiting => u = no
  BY <1>3 DEF BeginUpload
<1>6. DmaSize \in Nat
  BY UsbAssumption DEF UsbAssumption
<1>7. PICK A : A = ep0_setup_stage(s)
  OBVIOUS
<1>8. \/ A = no /\ q.op # "discard"
      \/ A = a /\ q.op = "answer" /\ q.len <= DmaSize
      \/ A = p /\ q.op = "plain"
      \/ A = u /\ q.op = "upload"
      \/ A = c /\ q.op = "discard"
      \/ A = w /\ q.op = "wait"
      \/ A = x /\ q.op = "nowait"
      \/ A = e /\ q.op = "stdin" /\ q.len <= DmaSize
      \/ A = f /\ q.op = "resize" /\ q.len <= DmaSize /\ ~d.waiting
      \/ A = g /\ q.op = "vendor" /\ q.len <= DmaSize
  BY <1>2, <1>4, <1>6, <1>7
<1>9. CASE A = no /\ q.op # "discard"
  BY <1>1, <1>3, <1>7, <1>9
<1>10. CASE A = u /\ q.op = "upload"
  BY <1>1, <1>3, <1>5, <1>7, <1>10
<1>11. CASE A = e /\ q.op = "stdin" /\ q.len <= DmaSize
  BY <1>1, <1>3, <1>7, <1>11
<1>12. CASE A = f /\ q.op = "resize" /\ q.len <= DmaSize /\ ~d.waiting
  BY <1>1, <1>3, <1>7, <1>12
<1>13. CASE A = g /\ q.op = "vendor" /\ q.len <= DmaSize
  BY <1>1, <1>3, <1>7, <1>13
<1>14. CASE A = a /\ q.op = "answer" /\ q.len <= DmaSize
  BY <1>1, <1>3, <1>7, <1>14
<1>15. CASE A = p /\ q.op = "plain"
  BY <1>1, <1>3, <1>7, <1>15
<1>16. CASE A = c /\ q.op = "discard"
  BY <1>1, <1>3, <1>7, <1>16
<1>17. CASE A = w /\ q.op = "wait"
  BY <1>1, <1>3, <1>7, <1>17, Zenon
<1>18. CASE A = x /\ q.op = "nowait"
  BY <1>1, <1>3, <1>7, <1>18, Zenon
<1> QED
  BY <1>8, <1>9, <1>10, <1>11, <1>12, <1>13, <1>14, <1>15, <1>16, <1>17, <1>18

\* The loader and EP 2 OUT stay as they are.
LoaderKept ==
  /\ dev'.ep2 = dev.ep2 /\ dev'.cb2 = dev.cb2 /\ dev'.cap = dev.cap /\ dev'.xfer = dev.xfer
  /\ dev'.count = dev.count /\ dev'.waiting = dev.waiting
Ep2Kept ==
  /\ reg'.on2 = reg.on2 /\ reg'.left2 = reg.left2 /\ reg'.pkts2 = reg.pkts2
  /\ reg'.addr2 = reg.addr2

\* What Ep0Request does besides the driver's state.
LEMMA RequestFrame ==
  ASSUME IInv, Ep0Request
  PROVE  /\ Fields /\ Requested /\ ~int.reset /\ ~InCommand
         /\ usb' \in UsbStates /\ usb'.pc = "out2" /\ usb'.daint = usb.daint /\ Passing'
         /\ UNCHANGED <<int, mem, shell, iter>>
         /\ host' \in HostStates /\ host'.stage = host.stage /\ host'.req = host.req
         /\ host'.cnt = host.cnt /\ host'.bulk = host.bulk /\ host'.up = host.up
         /\ host'.sent = host.sent
         /\ host'.have = IF host.req.op = "discard" /\ ~dev.waiting THEN 0 ELSE host.have
         /\ dev' = ep0_out_recv(AfterSetup(ep0_setup_stage(St(dev, reg)))).d
         /\ reg' = ep0_out_recv(AfterSetup(ep0_setup_stage(St(dev, reg)))).r
         /\ Daint' /\ dev \in DevFields /\ reg \in RegFields
         /\ dev.setup = host.req /\ host.req \in Requests
<1>1. /\ Fields /\ usb.pc = "request" /\ usb' = [usb EXCEPT !.pc = "out2"]
      /\ host' = [host EXCEPT !.have = IF dev.setup.op = "discard" /\ ~dev.waiting THEN 0 ELSE @]
      /\ UNCHANGED <<int, mem, shell, iter>>
      /\ dev' = ep0_out_recv(AfterSetup(ep0_setup_stage(St(dev, reg)))).d
      /\ reg' = ep0_out_recv(AfterSetup(ep0_setup_stage(St(dev, reg)))).r
  BY Loose DEF IInv, Ep0Request, Goto, Becomes
<1>2. Requested /\ ~InCommand
  BY <1>1 DEF IInv, Phase, Passing, InCommand, Between, StatusDone, StatusOutDone, SetupArrived,
     Stalled, SendingData, SendingEmpty, SendingMore, SentPart, SentLast, SentEmpty, Answering,
     StatusOut, DataOut, DataArrived, Receiving, InStdin, StatusIn
<1>3. usb' \in UsbStates /\ usb'.pc = "out2" /\ usb'.daint = usb.daint
  BY <1>1 DEF Fields, UsbStates
<1>4. dev.setup = host.req /\ host.req \in Requests /\ dev \in DevFields /\ reg \in RegFields
  BY <1>1, <1>2, Loose DEF Requested, Serves, Fields
<1>5. /\ host' \in HostStates /\ host'.stage = host.stage /\ host'.req = host.req
      /\ host'.cnt = host.cnt /\ host'.bulk = host.bulk /\ host'.up = host.up
      /\ host'.sent = host.sent
      /\ host'.have = IF host.req.op = "discard" /\ ~dev.waiting THEN 0 ELSE host.have
  <2>1. PICK h \in Int : h = IF dev.setup.op = "discard" /\ ~dev.waiting THEN 0 ELSE host.have
    BY <1>1 DEF Fields, HostStates
  <2>2. host' = [host EXCEPT !.have = h]
    BY <1>1, <2>1, Zenon
  <2> QED
    BY <1>1, <1>4, <2>1, <2>2 DEF Fields, HostStates
<1>6. Daint'
  BY <1>1, <1>3 DEF IInv, Daint
<1>7. ~int.reset /\ Passing'
  BY <1>1, <1>3 DEF IInv, Reset, Passing
<1> QED
  BY <1>1, <1>2, <1>3, <1>4, <1>5, <1>6, <1>7

\* What is left to show once the outcome of the request is known.
LEMMA RequestRest ==
  ASSUME IInv, Ep0Request, dev' \in DevStates, reg' \in RegStates, Phase', BulkInv',
         Granted', AwaitHost', ResizeOK', dev'.waiting /\ host.req.op = "stdin" => dev.waiting
  PROVE  IInv'
<1>1. /\ Fields /\ ~int.reset /\ ~InCommand /\ usb.pc = "request"
      /\ usb' \in UsbStates /\ usb'.pc = "out2" /\ usb'.daint = usb.daint
      /\ UNCHANGED <<int, mem, shell, iter>>
      /\ host' \in HostStates /\ host'.stage = host.stage /\ host'.req = host.req
      /\ host'.bulk = host.bulk /\ Daint'
  BY RequestFrame DEF Requested
<1>2. Fields'
  BY <1>1 DEF Fields
<1>3. CommandAfterUpload'
  BY <1>1 DEF IInv, Meet, CommandAfterUpload, Passing
<1>4. Reset' /\ Commands'
  BY <1>1 DEF IInv, Reset, Commands
<1> QED
  BY <1>1, <1>2, <1>3, <1>4 DEF IInv, Meet

\* ... and it does not concern the loader.
LEMMA RequestControl ==
  ASSUME IInv, Ep0Request, dev' \in DevStates, reg' \in RegStates, Phase', LoaderKept, Ep2Kept,
         host.req.op # "discard", reg'.in0 # 0 \/ host.req.op \notin {"upload", "resize"},
         dev'.out.recv /\ dev'.cb = "resize" => ~dev.waiting
  PROVE  IInv'
<1>1. /\ Requested /\ UNCHANGED <<int, mem>>
      /\ host'.stage = host.stage /\ host'.req = host.req
      /\ host'.bulk = host.bulk /\ host'.up = host.up
      /\ host'.sent = host.sent /\ host'.have = host.have
  BY RequestFrame
<1>2. BulkInv'
  <2>1. UNCHANGED blk
    BY <1>1 DEF blk, LoaderKept, Ep2Kept
  <2> QED
    BY <2>1, BulkKept DEF IInv
<1>3. ~Granting /\ ~Granting'
  BY <1>1 DEF Granting, Requested, InRest
<1>4. Granted' /\ AwaitHost'
  BY <1>1, <1>3 DEF IInv, Meet, Granted, AwaitHost, LoaderKept
<1>5. ResizeOK'
  BY DEF ResizeOK, LoaderKept
<1> QED
  BY <1>2, <1>4, <1>5, RequestRest DEF LoaderKept

\* ep_stall.
LEMMA Stalling ==
  ASSUME NEW d, NEW r, NEW dir
  PROVE  ep_stall(St(d, r), dir) = St(d, [r EXCEPT !.stall = r.stall \cup {dir}])
<1>1. PICK u : u = St(d, r)
  OBVIOUS
<1>2. u.d = d /\ u.r = r /\ u \in [d : {d}, r : {r}]
  BY <1>1, Parts
<1>3. PICK x : x = r.stall \cup {dir}
  OBVIOUS
<1>4. ep_stall(u, dir) = [u EXCEPT !.r.stall = x]
  BY <1>2, <1>3, Zenon DEF ep_stall
<1>5. PICK t : t = [u EXCEPT !.r.stall = x]
  OBVIOUS
<1>6. t.d = u.d /\ t.r = [u.r EXCEPT !.stall = x]
  BY <1>2, <1>5
<1>7. t = [d |-> t.d, r |-> t.r]
  BY <1>2, <1>5
<1> QED
  BY <1>1, <1>2, <1>3, <1>4, <1>5, <1>6, <1>7, Zenon DEF St

\* The end of the SETUP stage.
LEMMA AfterSetupOf ==
  ASSUME NEW d, NEW r, NEW q, q = d.setup
  PROVE  /\ AfterSetup(Answer(FALSE, St(d, r))) =
              ep_stall(St(d, r), IF ~q.in /\ q.len > 0 THEN "out" ELSE "in")
         /\ q.in \/ q.len > 0 => AfterSetup(Answer(TRUE, St(d, r))) = St(d, r)
         /\ ~(q.in \/ q.len > 0) =>
              AfterSetup(Answer(TRUE, St(d, r))) = ep_in_send_data(St(d, r), 0)
<1>1. PICK s : s = St(d, r)
  OBVIOUS
<1>2. s.d.setup = q
  BY <1>1 DEF St
<1>3. /\ Answer(TRUE, s).ok = TRUE /\ Answer(TRUE, s).s = s
      /\ Answer(FALSE, s).ok = FALSE /\ Answer(FALSE, s).s = s
  BY DEF Answer
<1>4. AfterSetup(Answer(FALSE, s)) = ep_stall(s, IF ~q.in /\ q.len > 0 THEN "out" ELSE "in")
  BY <1>2, <1>3, Zenon DEF AfterSetup
<1>5. AfterSetup(Answer(TRUE, s)) = IF q.in \/ q.len > 0 THEN s ELSE ep_in_send_data(s, 0)
  BY <1>2, <1>3, Zenon DEF AfterSetup
<1> QED
  BY <1>1, <1>4, <1>5, Zenon

\* The request is refused.
LEMMA RequestRefused ==
  ASSUME IInv, Ep0Request, ep0_setup_stage(St(dev, reg)) = Answer(FALSE, St(dev, reg)),
         host.req.op # "discard"
  PROVE  IInv'
<1>1. /\ Fields /\ Requested /\ Passing' /\ UNCHANGED int
      /\ host'.stage = host.stage
      /\ dev \in DevFields /\ reg \in RegFields /\ dev.setup = host.req /\ host.req \in Requests
      /\ dev' = ep0_out_recv(AfterSetup(ep0_setup_stage(St(dev, reg)))).d
      /\ reg' = ep0_out_recv(AfterSetup(ep0_setup_stage(St(dev, reg)))).r
  BY RequestFrame
<1>2. PICK dir : dir = IF ~host.req.in /\ host.req.len > 0 THEN "out" ELSE "in"
  OBVIOUS
<1>3. PICK z : z = reg.stall \cup {dir}
  OBVIOUS
<1>4. PICK c : c = [reg EXCEPT !.stall = z]
  OBVIOUS
<1>5. z \subseteq {"in", "out"} /\ c \in RegFields
  <2>1. z \subseteq {"in", "out"}
    BY <1>1, <1>2, <1>3 DEF RegFields
  <2> QED
    BY <1>1, <1>4, <2>1 DEF RegFields
<1>6. AfterSetup(ep0_setup_stage(St(dev, reg))) = St(dev, c)
  <2>1. AfterSetup(Answer(FALSE, St(dev, reg))) = ep_stall(St(dev, reg), dir)
    BY <1>1, <1>2, AfterSetupOf
  <2>2. ep_stall(St(dev, reg), dir) = St(dev, c)
    BY <1>3, <1>4, Stalling
  <2> QED
    BY <2>1, <2>2, Zenon
<1>7. PICK x, y : x = NotReceiving /\ y = EP0Max
  OBVIOUS
<1>8. ~dev.out.recv
  BY <1>1 DEF Requested, OutRest
<1>9. dev' = [dev EXCEPT !.out = x] /\ reg' = [c EXCEPT !.out0 = "setup", !.left0 = y]
  <2>1. ep0_out_recv(St(dev, c)) = St([dev EXCEPT !.out = x], [c EXCEPT !.out0 = "setup", !.left0 = y])
    BY <1>1, <1>5, <1>7, <1>8, RecvSetup
  <2>2. PICK a, b : a = [dev EXCEPT !.out = x] /\ b = [c EXCEPT !.out0 = "setup", !.left0 = y]
    OBVIOUS
  <2>3. dev' = St(a, b).d /\ reg' = St(a, b).r
    BY <1>1, <1>6, <2>1, <2>2, Zenon
  <2> QED
    BY <2>2, <2>3, StParts, Zenon
<1>10. x \in Endpoint /\ ~x.recv /\ y \in 0..EP0Max
  BY <1>7, NotReceivingType, UsbAssumption DEF UsbAssumption
<1>11. /\ dev' \in DevStates /\ dev'.in = dev.in /\ dev'.out = x /\ LoaderKept
  BY <1>1, <1>9, <1>10 DEF Fields, DevStates, LoaderKept
<1>12. /\ reg' \in RegStates /\ reg'.in0 = reg.in0 /\ reg'.out0 = "setup" /\ reg'.stall = z /\ Ep2Kept
  BY <1>1, <1>4, <1>5, <1>9, <1>10 DEF Fields, RegStates, Ep2Kept
<1>13. Phase'
  <2>1. InRest' /\ OutRest'
    BY <1>1, <1>10, <1>11, <1>12 DEF InRest, OutRest, Requested
  <2>2. dir \in z /\ host.stage = FirstStage(host.req)
    BY <1>1, <1>3 DEF Requested
  <2>3. \/ host.stage \in {"datain", "statusin"} /\ "in" \in z
        \/ host.stage = "dataout" /\ "out" \in z
    BY <1>2, <2>2 DEF FirstStage
  <2>4. Stalled'
    BY <1>1, <1>12, <2>1, <2>3 DEF Stalled
  <2> QED
    BY <2>4 DEF Phase
<1>14. reg'.in0 = -1 /\ ~dev'.out.recv
  BY <1>1, <1>10, <1>11, <1>12 DEF Requested, InRest
<1>15. reg'.in0 # 0
  BY <1>14
<1> QED
  BY <1>11, <1>12, <1>13, <1>14, <1>15, RequestControl

\* STATUS IN is granted: an empty packet is sent and EP 0 OUT waits for a SETUP packet.
LEMMA GrantStatus ==
  ASSUME NEW d \in DevFields, NEW r \in RegFields, ~d.out.recv, d.in.size = d.in.done,
         d.in.flight = 0
  PROVE  ep0_out_recv(ep_in_send_data(St(d, r), 0)) =
           St([d EXCEPT !.in = Begun(0), !.out = NotReceiving],
              [r EXCEPT !.in0 = 0, !.out0 = "setup", !.left0 = EP0Max])
<1>1. PICK v : v = Begun(0)
  OBVIOUS
<1>2. v \in InState /\ v.flight = 0 /\ 0 \in 0..DmaSize
  BY <1>1, BegunType, UsbAssumption DEF UsbAssumption
<1>3. PICK c, b : c = [d EXCEPT !.in = v] /\ b = [r EXCEPT !.in0 = 0]
  OBVIOUS
<1>4. c \in DevFields /\ c.out = d.out /\ b \in RegFields
  BY <1>2, <1>3 DEF DevFields, RegFields
<1>5. ep_in_send_data(St(d, r), 0) = St(c, b)
  <2>1. ep_in_send_data(St(d, r), 0) = St([d EXCEPT !.in = v], [r EXCEPT !.in0 = v.flight])
    BY <1>1, <1>2, SendData
  <2> QED
    BY <1>2, <1>3, <2>1
<1>6. PICK x, y : x = NotReceiving /\ y = EP0Max
  OBVIOUS
<1>7. ep0_out_recv(St(c, b)) = St([c EXCEPT !.out = x], [b EXCEPT !.out0 = "setup", !.left0 = y])
  BY <1>4, <1>6, RecvSetup
<1>8. /\ [c EXCEPT !.out = x] = [d EXCEPT !.in = v, !.out = x]
      /\ [b EXCEPT !.out0 = "setup", !.left0 = y] = [r EXCEPT !.in0 = 0, !.out0 = "setup", !.left0 = y]
  BY <1>3 DEF DevFields, RegFields
<1> QED
  BY <1>1, <1>5, <1>6, <1>7, <1>8

\* The fields of an endpoint that sends an empty packet.
LEMMA BegunEmpty ==
  Begun(0) \in InStates /\ Begun(0).size = ZLP /\ Begun(0).done = 0 /\ Begun(0).flight = 0
<1>1. Begun(0) \in InState /\ Begun(0).size = Sized(0) /\ Begun(0).done = 0 /\ Begun(0).flight = 0
  BY BegunType, UsbAssumption DEF UsbAssumption
<1>2. Sized(0) = ZLP
  BY DEF Sized
<1> QED
  BY <1>1, <1>2, UsbAssumption DEF InState, InStates, UsbAssumption

\* A request without data is accepted; it may have changed the loader.
LEMMA RequestGranted ==
  ASSUME IInv, Ep0Request, NEW d \in DevStates, NEW r \in RegStates,
         ep0_setup_stage(St(dev, reg)) = Answer(TRUE, St(d, r)),
         d.in = dev.in, d.out = dev.out, d.setup = dev.setup, r.stall = reg.stall,
         ~host.req.in, host.req.len = 0
  PROVE  /\ dev' \in DevStates /\ reg' \in RegStates /\ reg'.in0 = 0 /\ ~dev'.out.recv
         /\ dev'.ep2 = d.ep2 /\ dev'.cb2 = d.cb2 /\ dev'.cap = d.cap /\ dev'.xfer = d.xfer
         /\ dev'.count = d.count /\ dev'.waiting = d.waiting
         /\ reg'.on2 = r.on2 /\ reg'.left2 = r.left2 /\ reg'.pkts2 = r.pkts2
         /\ reg'.addr2 = r.addr2
         /\ Phase'
<1>1. /\ Fields /\ Requested /\ Passing' /\ UNCHANGED int
      /\ host'.stage = host.stage /\ host'.req = host.req
      /\ dev.setup = host.req /\ host.req \in Requests
      /\ dev' = ep0_out_recv(AfterSetup(ep0_setup_stage(St(dev, reg)))).d
      /\ reg' = ep0_out_recv(AfterSetup(ep0_setup_stage(St(dev, reg)))).r
  BY RequestFrame
<1>2. d \in DevFields /\ r \in RegFields /\ ~d.out.recv /\ d.in.size = d.in.done /\ d.in.flight = 0
  BY <1>1, Loose DEF Requested, InRest, OutRest
<1>3. AfterSetup(Answer(TRUE, St(d, r))) = ep_in_send_data(St(d, r), 0)
  <2>1. ~(host.req.in \/ host.req.len > 0)
    OBVIOUS
  <2> QED
    BY <1>1, <2>1, AfterSetupOf
<1>4. PICK v, x, y : v = Begun(0) /\ x = NotReceiving /\ y = EP0Max
  OBVIOUS
<1>5. PICK a, b : a = [d EXCEPT !.in = v, !.out = x]
                  /\ b = [r EXCEPT !.in0 = 0, !.out0 = "setup", !.left0 = y]
  OBVIOUS
<1>6. ep0_out_recv(ep_in_send_data(St(d, r), 0)) = St(a, b)
  BY <1>2, <1>4, <1>5, GrantStatus
<1>7. dev' = St(a, b).d /\ reg' = St(a, b).r
  BY <1>1, <1>3, <1>6, Zenon
<1>8. dev' = a /\ reg' = b
  BY <1>7, StParts
<1>9. /\ v \in InStates /\ v.size = ZLP /\ v.done = 0 /\ v.flight = 0
      /\ x \in Endpoint /\ ~x.recv /\ y \in 0..EP0Max /\ 0 \in -1..EP0Max
  BY <1>4, BegunEmpty, NotReceivingType, UsbAssumption DEF UsbAssumption
<1>10. /\ dev' \in DevStates /\ dev'.in = v /\ dev'.out = x /\ dev'.setup = d.setup
       /\ dev'.ep2 = d.ep2 /\ dev'.cb2 = d.cb2 /\ dev'.cap = d.cap /\ dev'.xfer = d.xfer
       /\ dev'.count = d.count /\ dev'.waiting = d.waiting
  BY <1>5, <1>8, <1>9 DEF DevStates
<1>11. /\ reg' \in RegStates /\ reg'.in0 = 0 /\ reg'.out0 = "setup" /\ reg'.stall = r.stall
       /\ reg'.on2 = r.on2 /\ reg'.left2 = r.left2 /\ reg'.pkts2 = r.pkts2
       /\ reg'.addr2 = r.addr2
  BY <1>5, <1>8, <1>9 DEF RegStates
<1>12. Phase'
  <2>1. InEmpty' /\ OutRest' /\ Serves'
    BY <1>1, <1>9, <1>10 DEF InEmpty, OutRest, Serves, Requested
  <2>2. host.stage = "statusin"
    BY <1>1 DEF Requested, FirstStage
  <2>3. StatusIn'
    BY <1>1, <1>11, <2>1, <2>2 DEF StatusIn, Requested, InRest
  <2> QED
    BY <2>3 DEF Phase
<1> QED
  BY <1>9, <1>10, <1>11, <1>12

\* A request that has no effect.
LEMMA RequestPlain ==
  ASSUME IInv, Ep0Request, ep0_setup_stage(St(dev, reg)) = Answer(TRUE, St(dev, reg)),
         host.req.op = "plain"
  PROVE  IInv'
<1>1. dev \in DevStates /\ reg \in RegStates /\ host.req \in Requests
  BY RequestFrame DEF Fields
<1>2. ~host.req.in /\ host.req.len = 0
  BY <1>1, RequestsAssumption DEF RequestsAssumption
<1>3. /\ dev' \in DevStates /\ reg' \in RegStates /\ ~dev'.out.recv /\ Phase'
      /\ LoaderKept /\ Ep2Kept
  BY <1>1, <1>2, RequestGranted DEF LoaderKept, Ep2Kept
<1> QED
  BY <1>3, RequestControl

\* The waiting mode is set or cleared.
LEMMA RequestMode ==
  ASSUME IInv, Ep0Request, host.req.op \in {"wait", "nowait"}, NEW b \in BOOLEAN,
         ep0_setup_stage(St(dev, reg)) = Answer(TRUE, [St(dev, reg) EXCEPT !.d.wait = b])
  PROVE  IInv'
<1>1. dev \in DevStates /\ reg \in RegStates /\ host.req \in Requests
  BY RequestFrame DEF Fields
<1>2. ~host.req.in /\ host.req.len = 0
  BY <1>1, RequestsAssumption DEF RequestsAssumption
<1>3. PICK d : d = [dev EXCEPT !.wait = b]
  OBVIOUS
<1>4. [St(dev, reg) EXCEPT !.d.wait = b] = St(d, reg)
  <2>1. PICK u : u = St(dev, reg)
    OBVIOUS
  <2>2. u.d = dev /\ u.r = reg /\ u \in [d : {dev}, r : {reg}]
    BY <2>1, Parts
  <2>3. PICK t : t = [u EXCEPT !.d.wait = b]
    OBVIOUS
  <2>4. t.d = [u.d EXCEPT !.wait = b] /\ t.r = u.r
    BY <2>2, <2>3
  <2>5. t = [d |-> t.d, r |-> t.r]
    BY <2>2, <2>3
  <2> QED
    BY <1>3, <2>1, <2>2, <2>3, <2>4, <2>5, Zenon DEF St
<1>5. /\ d \in DevStates /\ d.in = dev.in /\ d.out = dev.out /\ d.setup = dev.setup
      /\ d.ep2 = dev.ep2 /\ d.cb2 = dev.cb2 /\ d.cap = dev.cap /\ d.xfer = dev.xfer
      /\ d.count = dev.count /\ d.waiting = dev.waiting
  BY <1>1, <1>3 DEF DevStates
<1>6. ep0_setup_stage(St(dev, reg)) = Answer(TRUE, St(d, reg))
  BY <1>4, Zenon
<1>7. /\ dev' \in DevStates /\ reg' \in RegStates /\ ~dev'.out.recv /\ Phase'
      /\ LoaderKept /\ Ep2Kept
  BY <1>1, <1>2, <1>5, <1>6, RequestGranted DEF LoaderKept, Ep2Kept
<1> QED
  BY <1>7, RequestControl

\* The upload is discarded, unless one is in progress.
LEMMA RequestDiscard ==
  ASSUME IInv, Ep0Request, host.req.op = "discard",
         ep0_setup_stage(St(dev, reg)) =
           Answer(TRUE, [St(dev, reg) EXCEPT !.d.count = IF dev.waiting THEN @ ELSE 0])
  PROVE  IInv'
<1>1. /\ Fields /\ Requested /\ dev \in DevStates /\ reg \in RegStates /\ host.req \in Requests
      /\ UNCHANGED <<int, mem>>
      /\ host'.stage = host.stage /\ host'.req = host.req
      /\ host'.bulk = host.bulk /\ host'.up = host.up /\ host'.sent = host.sent
      /\ host'.have = IF ~dev.waiting THEN 0 ELSE host.have
  BY RequestFrame DEF Fields
<1>2. ~host.req.in /\ host.req.len = 0
  BY <1>1, RequestsAssumption DEF RequestsAssumption
<1>3. PICK n : n = IF dev.waiting THEN dev.count ELSE 0
  OBVIOUS
<1>4. PICK d : d = [dev EXCEPT !.count = n]
  OBVIOUS
<1>5. [St(dev, reg) EXCEPT !.d.count = IF dev.waiting THEN @ ELSE 0] = St(d, reg)
  <2>1. PICK u : u = St(dev, reg)
    OBVIOUS
  <2>2. u.d = dev /\ u.r = reg /\ u \in [d : {dev}, r : {reg}]
    BY <2>1, Parts
  <2>3. [u EXCEPT !.d.count = IF dev.waiting THEN @ ELSE 0] = [u EXCEPT !.d.count = n]
    BY <1>3, <2>2, Zenon
  <2>4. PICK t : t = [u EXCEPT !.d.count = n]
    OBVIOUS
  <2>5. t.d = [u.d EXCEPT !.count = n] /\ t.r = u.r
    BY <2>2, <2>4
  <2>6. t = [d |-> t.d, r |-> t.r]
    BY <2>2, <2>4
  <2> QED
    BY <1>4, <2>1, <2>2, <2>3, <2>4, <2>5, <2>6, Zenon DEF St
<1>6. /\ d \in DevStates /\ d.in = dev.in /\ d.out = dev.out /\ d.setup = dev.setup
      /\ d.ep2 = dev.ep2 /\ d.cb2 = dev.cb2 /\ d.cap = dev.cap /\ d.xfer = dev.xfer
      /\ d.count = n /\ d.waiting = dev.waiting
  <2>1. n \in 0..UploadMax
    BY <1>1, <1>3, UsbAssumption DEF DevStates, UsbAssumption
  <2> QED
    BY <1>1, <1>4, <2>1 DEF DevStates
<1>7. ep0_setup_stage(St(dev, reg)) = Answer(TRUE, St(d, reg))
  BY <1>5, Zenon
<1>8. /\ dev' \in DevStates /\ reg' \in RegStates /\ ~dev'.out.recv /\ Phase'
      /\ dev'.ep2 = dev.ep2 /\ dev'.cb2 = dev.cb2 /\ dev'.cap = dev.cap /\ dev'.xfer = dev.xfer
      /\ dev'.count = n /\ dev'.waiting = dev.waiting /\ Ep2Kept
  BY <1>1, <1>2, <1>6, <1>7, RequestGranted DEF Ep2Kept
<1>9. ~Granting /\ ~Granting'
  BY <1>1 DEF Granting, Requested, InRest
<1>10. BulkInv'
  <2>1. CASE dev.waiting
    <3>1. UNCHANGED blk
      BY <1>1, <1>3, <1>8, <2>1 DEF blk, Ep2Kept
    <3> QED
      BY <3>1, BulkKept DEF IInv
  <2>2. CASE ~dev.waiting
    <3>1. UploadFlags' /\ Sizes'
      BY <1>8 DEF IInv, BulkInv, UploadFlags, Sizes
    <3>2. Expecting' /\ Uploading'
      BY <1>1, <1>8, <2>2 DEF IInv, BulkInv, Expecting, Uploading
    <3>3. Uploaded'
      BY <1>1, <1>3, <1>8, <2>2 DEF IInv, BulkInv, Uploaded, InOrder, Ep2Kept
    <3> QED
      BY <3>1, <3>2, <3>3 DEF BulkInv
  <2> QED
    BY <2>1, <2>2
<1>11. Granted' /\ AwaitHost' /\ ResizeOK'
  BY <1>1, <1>8, <1>9 DEF IInv, Meet, Granted, AwaitHost, ResizeOK
<1> QED
  BY <1>8, <1>10, <1>11, RequestRest

\* usb_out_transfer_dma, field by field.
Transferred(d, r, n, c, b) ==
  /\ usb_out_transfer_dma(St(d, r), n) = St(c, b)
  /\ c.ep2 = Awaiting(n) /\ c.cb2 = TRUE /\ c.in = d.in /\ c.out = d.out
  /\ c.setup = d.setup /\ c.cb = d.cb /\ c.cap = d.cap /\ c.xfer = d.xfer
  /\ c.count = d.count /\ c.waiting = d.waiting
  /\ b.on2 = TRUE /\ b.left2 = Bulk(Awaiting(n)).n /\ b.pkts2 = Bulk(Awaiting(n)).pkts
  /\ b.addr2 = 0 /\ b.in0 = r.in0 /\ b.stall = r.stall

\* An idle EP 2 OUT with an idle loader can be given a transfer.
LEMMA TransferStates ==
  ASSUME NEW d \in DevStates, NEW r \in RegStates, ~d.cb2, ~d.ep2.recv,
         NEW n \in 1..UploadMax, n % BulkMax = 0
  PROVE  \E c \in DevStates, b \in RegStates : Transferred(d, r, n, c, b)
<1>1. n \in Nat /\ n > 0 /\ UploadMax \in Nat /\ DmaSize \in Nat
  BY UsbAssumption DEF UsbAssumption
<1>2. PICK e : e = Awaiting(n)
  OBVIOUS
<1>3. e \in OutState /\ Aligned(e) /\ e.size = n /\ e.done = 0 /\ e.recv = TRUE
  BY <1>1, <1>2, AwaitingType
<1>4. e \in Endpoint
  BY <1>1, <1>3 DEF OutState, Endpoint
<1>5. PICK k, m : k = Bulk(e).n /\ m = Bulk(e).pkts
  OBVIOUS
<1>6. k \in 0..UploadMax /\ m \in Int
  <2>1. k \in Nat /\ m \in Nat /\ k <= e.size - e.done
    BY <1>3, <1>5, BulkOf
  <2> QED
    BY <1>1, <1>3, <2>1
<1>7. PICK c, b : /\ c = [d EXCEPT !.cb2 = TRUE, !.ep2 = e]
                  /\ b = [r EXCEPT !.on2 = TRUE, !.left2 = k, !.pkts2 = m, !.addr2 = 0]
  OBVIOUS
<1>8. usb_out_transfer_dma(St(d, r), n) = St(c, b)
  <2>1. d \in DevFields /\ r \in RegFields
    BY Loose
  <2>2. usb_out_transfer_dma(St(d, r), n) =
          St([d EXCEPT !.cb2 = TRUE, !.ep2 = Awaiting(n)],
             [r EXCEPT !.on2 = TRUE, !.left2 = Bulk(Awaiting(n)).n,
                       !.pkts2 = Bulk(Awaiting(n)).pkts, !.addr2 = 0])
    BY <1>1, <2>1, TransferDma, Zenon
  <2> QED
    BY <1>2, <1>5, <1>7, <2>2, Zenon
<1>9. /\ c \in DevStates
      /\ c.ep2 = e /\ c.cb2 = TRUE /\ c.in = d.in /\ c.out = d.out
      /\ c.setup = d.setup /\ c.cb = d.cb /\ c.cap = d.cap /\ c.xfer = d.xfer
      /\ c.count = d.count /\ c.waiting = d.waiting
  BY <1>4, <1>7 DEF DevStates
<1>10. /\ b \in RegStates /\ b.on2 = TRUE /\ b.left2 = k /\ b.pkts2 = m
       /\ b.addr2 = 0 /\ b.in0 = r.in0 /\ b.stall = r.stall
  <2>1. PICK h : h = [r EXCEPT !.on2 = TRUE, !.left2 = k]
    OBVIOUS
  <2>2. h \in RegStates /\ b = [h EXCEPT !.pkts2 = m, !.addr2 = 0]
    BY <1>6, <1>7, <2>1 DEF RegStates
  <2>3. PICK i \in Int, j \in Int : i = m /\ j = 0
    BY <1>6
  <2>4. b = [h EXCEPT !.pkts2 = i, !.addr2 = j]
    BY <2>2, <2>3, Zenon
  <2>5. [h EXCEPT !.pkts2 = i] \in RegStates
    BY <2>2 DEF RegStates
  <2>6. PICK g : g = [h EXCEPT !.pkts2 = i]
    OBVIOUS
  <2>7. g \in RegStates
    BY <2>5, <2>6, Zenon
  <2>8. [g EXCEPT !.addr2 = j] \in RegStates
    BY <2>7 DEF RegStates
  <2>9. b \in RegStates
    BY <2>4, <2>6, <2>8, Zenon
  <2>10. /\ b.on2 = TRUE /\ b.left2 = k /\ b.pkts2 = m
        /\ b.addr2 = 0 /\ b.in0 = r.in0 /\ b.stall = r.stall
    BY <1>7 DEF RegStates
  <2> QED
    BY <2>9, <2>10
<1>11. Transferred(d, r, n, c, b)
  BY <1>2, <1>5, <1>8, <1>9, <1>10 DEF Transferred
<1> QED
  BY <1>9, <1>10, <1>11

\* An upload of n bytes begins while none is in progress.
LEMMA UploadBegins ==
  ASSUME NEW n \in 1..UploadMax, n % BulkMax = 0, dev'.xfer = n, n <= dev'.cap,
         dev'.ep2 = Awaiting(n), dev'.cb2 = TRUE, dev'.waiting = TRUE,
         reg'.on2 = TRUE, reg'.left2 = Bulk(Awaiting(n)).n, reg'.pkts2 = Bulk(Awaiting(n)).pkts,
         reg'.addr2 = 0, int'.out2 = FALSE, host'.bulk = FALSE
  PROVE  BulkInv'
<1>1. n \in Nat /\ n > 0
  BY UsbAssumption DEF UsbAssumption
<1>2. PICK e : e = Awaiting(n)
  OBVIOUS
<1>3. e \in OutState /\ Aligned(e) /\ e.size = n /\ e.done = 0 /\ e.recv = TRUE
  BY <1>1, <1>2, AwaitingType
<1>4. Bulk(e).n \in Nat /\ Bulk(e).pkts >= 1 /\ Bulk(e).n = Bulk(e).pkts * BulkMax
  BY <1>3, BulkOf
<1>5. UploadFlags' /\ Sizes'
  BY <1>2, <1>3 DEF UploadFlags, Sizes
<1>6. Got' = 0
  BY <1>2, <1>4 DEF Got
<1>7. Expecting'
  BY <1>2, <1>3, <1>4, <1>6 DEF Expecting
<1>8. Uploading' /\ Uploaded'
  BY DEF Uploading, Uploaded
<1> QED
  BY <1>5, <1>7, <1>8 DEF BulkInv

\* While no upload is expected, EP 2 OUT is idle.
LEMMA NoneExpected ==
  ASSUME IInv, ~dev.waiting
  PROVE  /\ ~dev.cb2 /\ ~dev.ep2.recv /\ int.out2 = FALSE /\ host.bulk = FALSE
         /\ dev.xfer \in 1..UploadMax /\ dev.xfer % BulkMax = 0 /\ dev.xfer <= dev.cap
BY DEF IInv, BulkInv, UploadFlags, Uploaded, Uploading, Sizes, Fields, IntStates, HostStates, DevStates

\* An upload is requested.
LEMMA RequestUpload ==
  ASSUME IInv, Ep0Request, host.req.op = "upload", ~dev.waiting,
         ep0_setup_stage(St(dev, reg)) = BeginUpload(St(dev, reg))
  PROVE  IInv'
<1>1. /\ Fields /\ Requested /\ dev \in DevStates /\ reg \in RegStates /\ host.req \in Requests
      /\ UNCHANGED <<int, mem>>
      /\ host'.stage = host.stage /\ host'.req = host.req /\ host'.bulk = host.bulk
  BY RequestFrame DEF Fields
<1>2. ~host.req.in /\ host.req.len = 0
  BY <1>1, RequestsAssumption DEF RequestsAssumption
<1>3. /\ ~dev.cb2 /\ ~dev.ep2.recv /\ int.out2 = FALSE /\ host.bulk = FALSE
      /\ dev.xfer \in 1..UploadMax /\ dev.xfer % BulkMax = 0 /\ dev.xfer <= dev.cap
  BY NoneExpected
<1>4. PICK d : d = [dev EXCEPT !.count = 0, !.waiting = TRUE]
  OBVIOUS
<1>5. /\ d \in DevStates /\ d.in = dev.in /\ d.out = dev.out /\ d.setup = dev.setup
      /\ d.ep2 = dev.ep2 /\ d.cb2 = dev.cb2 /\ d.cap = dev.cap /\ d.xfer = dev.xfer
      /\ d.waiting = TRUE
  <2>1. 0 \in 0..UploadMax
    BY UsbAssumption DEF UsbAssumption
  <2> QED
    BY <1>1, <1>4, <2>1 DEF DevStates
<1>6. PICK n : n = dev.xfer
  OBVIOUS
<1>7. PICK c \in DevStates, b \in RegStates : Transferred(d, reg, n, c, b)
  <2>1. ~d.cb2 /\ ~d.ep2.recv /\ n \in 1..UploadMax /\ n % BulkMax = 0
    BY <1>3, <1>5, <1>6
  <2> QED
    BY <1>1, <1>5, <2>1, TransferStates
<1>8. ep0_setup_stage(St(dev, reg)) = Answer(TRUE, St(c, b))
  <2>1. PICK u : u = St(dev, reg)
    OBVIOUS
  <2>2. u.d = dev /\ u.r = reg /\ u \in [d : {dev}, r : {reg}]
    BY <2>1, Parts
  <2>3. PICK t : t = [u EXCEPT !.d.count = 0, !.d.waiting = TRUE]
    OBVIOUS
  <2>4. t.d = [u.d EXCEPT !.count = 0, !.waiting = TRUE] /\ t.r = u.r
    BY <2>2, <2>3
  <2>5. t = [d |-> t.d, r |-> t.r]
    BY <2>2, <2>3
  <2>6. t = St(d, reg)
    BY <1>4, <2>2, <2>4, <2>5, Zenon DEF St
  <2>7. BeginUpload(u) = Answer(TRUE, usb_out_transfer_dma(t, n))
    BY <1>6, <2>2, <2>3, Zenon DEF BeginUpload
  <2> QED
    BY <1>7, <2>1, <2>6, <2>7, Zenon DEF Transferred
<1>9. /\ dev' \in DevStates /\ reg' \in RegStates /\ reg'.in0 = 0 /\ ~dev'.out.recv
      /\ dev'.ep2 = c.ep2 /\ dev'.cb2 = c.cb2 /\ dev'.cap = c.cap /\ dev'.xfer = c.xfer
      /\ dev'.count = c.count /\ dev'.waiting = c.waiting
      /\ reg'.on2 = b.on2 /\ reg'.left2 = b.left2 /\ reg'.pkts2 = b.pkts2
      /\ reg'.addr2 = b.addr2
      /\ Phase'
  <2>1. c.in = dev.in /\ c.out = dev.out /\ c.setup = dev.setup /\ b.stall = reg.stall
    BY <1>5, <1>7 DEF Transferred
  <2> QED
    BY <1>2, <1>8, <2>1, RequestGranted
<1>10. BulkInv'
  <2>1. /\ n \in 1..UploadMax /\ n % BulkMax = 0 /\ dev'.xfer = n /\ n <= dev'.cap
        /\ dev'.ep2 = Awaiting(n) /\ dev'.cb2 = TRUE /\ dev'.waiting = TRUE
        /\ reg'.on2 = TRUE /\ reg'.left2 = Bulk(Awaiting(n)).n
        /\ reg'.pkts2 = Bulk(Awaiting(n)).pkts
        /\ reg'.addr2 = 0 /\ int'.out2 = FALSE /\ host'.bulk = FALSE
    BY <1>1, <1>3, <1>5, <1>6, <1>7, <1>9 DEF Transferred
  <2> QED
    BY <2>1, UploadBegins
<1>11. host.stage = "statusin"
  BY <1>1, <1>2 DEF Requested, FirstStage
<1>12. Granted' /\ AwaitHost' /\ ResizeOK'
  BY <1>1, <1>3, <1>5, <1>7, <1>9, <1>11 DEF Transferred, Granted, Granting, AwaitHost, ResizeOK
<1> QED
  BY <1>9, <1>10, <1>12, RequestRest

\* An answer is requested.
LEMMA RequestAnswer ==
  ASSUME IInv, Ep0Request, host.req.op = "answer", host.req.len <= DmaSize,
         ep0_setup_stage(St(dev, reg)) = BeginDataIn(St(dev, reg))
  PROVE  IInv'
<1>1. /\ Fields /\ Requested /\ dev \in DevStates /\ reg \in RegStates /\ host.req \in Requests
      /\ UNCHANGED <<int, mem>> /\ Passing' /\ dev \in DevFields /\ reg \in RegFields
      /\ host'.stage = host.stage /\ host'.req = host.req /\ host'.cnt = host.cnt
      /\ dev.setup = host.req
      /\ dev' = ep0_out_recv(AfterSetup(ep0_setup_stage(St(dev, reg)))).d
      /\ reg' = ep0_out_recv(AfterSetup(ep0_setup_stage(St(dev, reg)))).r
  BY RequestFrame DEF Fields
<1>2. host.req.in /\ host.req.len \in Nat /\ host.req.arg \in Nat
  BY <1>1, RequestsAssumption DEF RequestsAssumption
<1>3. PICK n : n = AnswerLen
  OBVIOUS
<1>4. n \in 0..DmaSize /\ n \in Nat /\ n <= host.req.len
  BY <1>2, <1>3, UsbAssumption DEF AnswerLen, UsbAssumption
<1>5. PICK v : v = Begun(n)
  OBVIOUS
<1>6. /\ v \in InState /\ v.size = Sized(n) /\ v.done = 0
      /\ v.flight = IF n <= EP0Max THEN n ELSE EP0Max
  BY <1>4, <1>5, BegunType
<1>7. v \in InStates /\ v.flight \in 0..EP0Max
  BY <1>4, <1>6, UsbAssumption DEF InState, InStates, Sized, UsbAssumption
<1>8. PICK f : f = v.flight
  OBVIOUS
<1>9. PICK c, b : c = [dev EXCEPT !.in = v] /\ b = [reg EXCEPT !.in0 = f]
  OBVIOUS
<1>10. ep0_setup_stage(St(dev, reg)) = Answer(TRUE, St(c, b))
  <2>1. Min({host.req.arg, host.req.len}) = n
    BY <1>2, <1>3, MinOf DEF AnswerLen
  <2>2. St(dev, reg).d.setup = host.req
    BY <1>1 DEF St
  <2>3. dev.in.flight = 0 /\ dev.in.size = dev.in.done
    BY <1>1 DEF Requested, InRest
  <2>4. ep_in_send_data(St(dev, reg), n) = St(c, b)
    BY <1>1, <1>4, <1>5, <1>8, <1>9, <2>3, SendData
  <2> QED
    BY <2>1, <2>2, <2>4, Zenon DEF BeginDataIn
<1>11. c \in DevFields /\ c.setup = host.req /\ c.out = dev.out /\ b \in RegFields /\ ~c.out.recv
  BY <1>1, <1>6, <1>7, <1>8, <1>9, UsbAssumption DEF DevFields, RegFields, Requested, OutRest, UsbAssumption
<1>12. AfterSetup(Answer(TRUE, St(c, b))) = St(c, b)
  BY <1>2, <1>11, AfterSetupOf
<1>13. PICK x, y : x = NotReceiving /\ y = EP0Max
  OBVIOUS
<1>14. PICK d, r : d = [c EXCEPT !.out = x] /\ r = [b EXCEPT !.out0 = "setup", !.left0 = y]
  OBVIOUS
<1>15. ep0_out_recv(St(c, b)) = St(d, r)
  BY <1>11, <1>13, <1>14, RecvSetup
<1>16. dev' = St(d, r).d /\ reg' = St(d, r).r
  BY <1>1, <1>10, <1>12, <1>15, Zenon
<1>17. dev' = d /\ reg' = r
  BY <1>16, StParts
<1>18. x \in Endpoint /\ ~x.recv /\ y \in 0..EP0Max /\ f \in -1..EP0Max
  BY <1>7, <1>8, <1>13, NotReceivingType, UsbAssumption DEF UsbAssumption
<1>19. /\ dev' \in DevStates /\ dev'.in = v /\ dev'.out = x /\ dev'.setup = dev.setup /\ LoaderKept
  BY <1>1, <1>7, <1>9, <1>14, <1>17, <1>18 DEF DevStates, LoaderKept
<1>20. /\ reg' \in RegStates /\ reg'.in0 = f /\ reg'.out0 = "setup" /\ reg'.stall = reg.stall /\ Ep2Kept
  BY <1>1, <1>9, <1>14, <1>17, <1>18 DEF RegStates, Ep2Kept
<1>21. Answering' /\ AnswerLen' = n
  BY <1>1, <1>2, <1>3, <1>18, <1>19, <1>20 DEF Answering, AnswerLen, OutRest, Serves, Requested
<1>22. host.stage = "datain" /\ host.cnt = 0 /\ ~int.in0
  BY <1>1, <1>2 DEF Requested, FirstStage, InRest
<1>23. Phase'
  <2>1. CASE n = 0
    <3>1. v.size = ZLP /\ v.flight = 0
      BY <1>6, <2>1, UsbAssumption DEF Sized, UsbAssumption
    <3>2. SendingEmpty'
      BY <1>1, <1>6, <1>8, <1>19, <1>20, <1>21, <1>22, <2>1, <3>1 DEF SendingEmpty, InEmpty
    <3> QED
      BY <3>2 DEF Phase
  <2>2. CASE n # 0
    <3>1. v.size = n /\ 0 % EP0Max = 0 /\ n > 0
      BY <1>4, <1>6, <2>2, UsbAssumption, SmallMod DEF Sized, UsbAssumption
    <3>2. v.flight = Packet(v)
      BY <1>4, <1>6, <3>1, UsbAssumption DEF Packet, ZLP, UsbAssumption
    <3>3. InData'
      BY <1>6, <1>19, <1>21, <3>1, <3>2 DEF InData
    <3>4. SendingData'
      BY <1>1, <1>6, <1>8, <1>19, <1>20, <1>21, <1>22, <3>3 DEF SendingData
    <3> QED
      BY <3>4 DEF Phase
  <2> QED
    BY <2>1, <2>2
<1> QED
  BY <1>18, <1>19, <1>20, <1>23, RequestControl

\* A request with data for the device is accepted.
LEMMA RequestData ==
  ASSUME IInv, Ep0Request, host.req.op \in {"stdin", "resize", "vendor"}, host.req.len <= DmaSize,
         host.req.op = "resize" => ~dev.waiting,
         ep0_setup_stage(St(dev, reg)) = Answer(TRUE, DataStage(St(dev, reg), host.req.op))
  PROVE  IInv'
<1>1. /\ Fields /\ Requested /\ dev \in DevStates /\ reg \in RegStates /\ host.req \in Requests
      /\ UNCHANGED <<int, mem>> /\ Passing' /\ dev \in DevFields /\ reg \in RegFields
      /\ host'.stage = host.stage /\ host'.req = host.req /\ host'.cnt = host.cnt
      /\ dev.setup = host.req
      /\ dev' = ep0_out_recv(AfterSetup(ep0_setup_stage(St(dev, reg)))).d
      /\ reg' = ep0_out_recv(AfterSetup(ep0_setup_stage(St(dev, reg)))).r
  BY RequestFrame DEF Fields
<1>2. host.req.in = FALSE /\ host.req.len \in Nat /\ host.req.len > 0
  BY <1>1, RequestsAssumption DEF RequestsAssumption
<1>3. PICK n, k : n = host.req.len /\ k = host.req.op
  OBVIOUS
<1>4. PICK d : d = [dev EXCEPT !.cb = k]
  OBVIOUS
<1>5. /\ d \in DevStates /\ d \in DevFields /\ d.out = dev.out /\ ~d.out.recv
      /\ d.cb = k /\ d.setup = host.req
  <2>1. d \in DevStates /\ d.out = dev.out /\ d.cb = k /\ d.setup = dev.setup
    BY <1>1, <1>3, <1>4 DEF DevStates
  <2> QED
    BY <1>1, <2>1, Loose DEF Requested, OutRest
<1>6. PICK e : e = [size |-> n, done |-> 0, recv |-> TRUE]
  OBVIOUS
<1>7. e \in Endpoint /\ e \in OutState /\ e.size = n /\ e.done = 0 /\ e.recv = TRUE
  BY <1>2, <1>3, <1>6, UsbAssumption DEF Endpoint, OutState, UsbAssumption
<1>8. PICK c : c = [d EXCEPT !.out = e]
  OBVIOUS
<1>9. c \in DevFields /\ c.out = e /\ c.setup = host.req
  BY <1>5, <1>7, <1>8 DEF DevFields
<1>10. ep0_setup_stage(St(dev, reg)) = Answer(TRUE, St(c, reg))
  <2>1. PICK u : u = St(dev, reg)
    OBVIOUS
  <2>2. u.d = dev /\ u.r = reg /\ u \in [d : {dev}, r : {reg}]
    BY <2>1, Parts
  <2>3. PICK t : t = [u EXCEPT !.d.cb = k]
    OBVIOUS
  <2>4. t.d = [u.d EXCEPT !.cb = k] /\ t.r = u.r
    BY <2>2, <2>3
  <2>5. t = [d |-> t.d, r |-> t.r]
    BY <2>2, <2>3
  <2>6. t = St(d, reg)
    BY <1>4, <2>2, <2>4, <2>5, Zenon DEF St
  <2>7. DataStage(u, k) = ep0_out_recv_data(t, n)
    BY <1>1, <1>3, <2>2, <2>3, Zenon DEF DataStage
  <2>8. Sized(n) = n
    BY <1>2, <1>3 DEF Sized
  <2>9. ep0_out_recv_data(St(d, reg), n) = St(c, reg)
    BY <1>1, <1>5, <1>6, <1>8, <2>8, ExpectData
  <2> QED
    BY <1>3, <2>1, <2>6, <2>7, <2>9, Zenon
<1>11. AfterSetup(Answer(TRUE, St(c, reg))) = St(c, reg)
  BY <1>2, <1>9, AfterSetupOf
<1>12. PICK y : y = EP0Max
  OBVIOUS
<1>13. PICK r : r = [reg EXCEPT !.out0 = "data", !.left0 = y]
  OBVIOUS
<1>14. 0 % EP0Max = 0 /\ 0 \in 0..(DmaSize - 1) /\ y \in 0..EP0Max
  BY <1>12, UsbAssumption, SmallMod DEF UsbAssumption
<1>15. ep0_out_recv(St(c, reg)) = St(c, r)
  BY <1>1, <1>7, <1>9, <1>12, <1>13, <1>14, RecvData
<1>16. dev' = St(c, r).d /\ reg' = St(c, r).r
  BY <1>1, <1>10, <1>11, <1>15, Zenon
<1>17. dev' = c /\ reg' = r
  BY <1>16, StParts
<1>18. /\ dev' \in DevStates /\ dev'.in = dev.in /\ dev'.out = e /\ dev'.setup = dev.setup
       /\ dev'.cb = k /\ LoaderKept
  <2>1. /\ d \in DevStates /\ d.in = dev.in /\ d.ep2 = dev.ep2 /\ d.cb2 = dev.cb2 /\ d.cap = dev.cap
        /\ d.xfer = dev.xfer /\ d.count = dev.count /\ d.waiting = dev.waiting
    BY <1>1, <1>4, <1>5 DEF DevStates
  <2>2. /\ c \in DevStates /\ c.in = d.in /\ c.out = e /\ c.setup = d.setup /\ c.cb = d.cb
        /\ c.ep2 = d.ep2 /\ c.cb2 = d.cb2 /\ c.cap = d.cap
        /\ c.xfer = d.xfer /\ c.count = d.count /\ c.waiting = d.waiting
    BY <1>7, <1>8, <2>1 DEF DevStates
  <2> QED
    BY <1>1, <1>5, <1>17, <2>1, <2>2 DEF LoaderKept
<1>19. /\ reg' \in RegStates /\ reg'.in0 = reg.in0 /\ reg'.out0 = "data" /\ reg'.stall = reg.stall
       /\ Ep2Kept
  BY <1>1, <1>13, <1>14, <1>17 DEF RegStates, Ep2Kept
<1>20. Phase'
  <2>1. InRest' /\ Serves'
    BY <1>1, <1>18, <1>19 DEF InRest, Serves, Requested
  <2>5. n \in 1..DmaSize /\ 0 < n
    BY <1>2, <1>3, UsbAssumption DEF UsbAssumption
  <2>6. /\ dev'.out.recv /\ dev'.out.size = n /\ dev'.out.done = 0
        /\ dev'.out.done < dev'.out.size /\ dev'.out.done % EP0Max = 0
    BY <1>7, <1>14, <1>18, <2>5
  <2>2. Receiving'
    BY <1>1, <1>2, <1>3, <1>18, <1>19, <2>1, <2>5, <2>6 DEF Receiving, Requested
  <2>3. host.stage = "dataout" /\ host.cnt = 0 /\ int.out0 = {}
    BY <1>1, <1>2 DEF Requested, FirstStage, OutRest
  <2>4. DataOut'
    BY <1>1, <1>7, <1>18, <1>19, <2>2, <2>3 DEF DataOut
  <2> QED
    BY <2>4 DEF Phase
<1>21. reg'.in0 = -1
  BY <1>1, <1>19 DEF Requested, InRest
<1>22. reg'.in0 # 0 /\ (dev'.cb = "resize" => ~dev.waiting)
  BY <1>3, <1>18, <1>21
<1> QED
  BY <1>18, <1>19, <1>20, <1>22, RequestControl

\* ep0_setup_stage, and the SETUP stage is over.
LEMMA Ep0RequestInv ==
  ASSUME IInv, Ep0Request
  PROVE  IInv'
<1>1. dev \in DevFields /\ dev.setup = host.req /\ host.req \in Requests
  BY RequestFrame
<1>2. PICK s : s = St(dev, reg)
  OBVIOUS
<1>3. s.d = dev
  BY <1>2, StParts
<1>4. \/ ep0_setup_stage(s) = Answer(FALSE, s) /\ dev.setup.op # "discard"
      \/ ep0_setup_stage(s) = Answer(TRUE, [s EXCEPT !.d.wait = TRUE]) /\ dev.setup.op = "wait"
      \/ ep0_setup_stage(s) = Answer(TRUE, [s EXCEPT !.d.wait = FALSE]) /\ dev.setup.op = "nowait"
      \/ ep0_setup_stage(s) = BeginDataIn(s) /\ dev.setup.op = "answer" /\ dev.setup.len <= DmaSize
      \/ ep0_setup_stage(s) = Answer(TRUE, s) /\ dev.setup.op = "plain"
      \/ ep0_setup_stage(s) = BeginUpload(s) /\ dev.setup.op = "upload" /\ ~dev.waiting
      \/ /\ ep0_setup_stage(s) = Answer(TRUE, [s EXCEPT !.d.count = IF dev.waiting THEN @ ELSE 0])
         /\ dev.setup.op = "discard"
      \/ /\ ep0_setup_stage(s) = Answer(TRUE, DataStage(s, dev.setup.op))
         /\ dev.setup.op \in {"stdin", "resize", "vendor"} /\ dev.setup.len <= DmaSize
         /\ dev.setup.op = "resize" => ~dev.waiting
  BY <1>1, <1>3, SetupStage, Zenon
<1>5. CASE ep0_setup_stage(s) = Answer(FALSE, s) /\ dev.setup.op # "discard"
  BY <1>1, <1>2, <1>5, RequestRefused, Zenon
<1>6. CASE ep0_setup_stage(s) = BeginDataIn(s) /\ dev.setup.op = "answer" /\ dev.setup.len <= DmaSize
  BY <1>1, <1>2, <1>6, RequestAnswer, Zenon
<1>7. CASE ep0_setup_stage(s) = Answer(TRUE, s) /\ dev.setup.op = "plain"
  BY <1>1, <1>2, <1>7, RequestPlain, Zenon
<1>8. CASE ep0_setup_stage(s) = BeginUpload(s) /\ dev.setup.op = "upload" /\ ~dev.waiting
  BY <1>1, <1>2, <1>8, RequestUpload, Zenon
<1>9. CASE /\ ep0_setup_stage(s) = Answer(TRUE, [s EXCEPT !.d.count = IF dev.waiting THEN @ ELSE 0])
           /\ dev.setup.op = "discard"
  BY <1>1, <1>2, <1>9, RequestDiscard, Zenon
<1>10. CASE /\ ep0_setup_stage(s) = Answer(TRUE, DataStage(s, dev.setup.op))
            /\ dev.setup.op \in {"stdin", "resize", "vendor"} /\ dev.setup.len <= DmaSize
            /\ dev.setup.op = "resize" => ~dev.waiting
  BY <1>1, <1>2, <1>10, RequestData, Zenon
<1>11. CASE ep0_setup_stage(s) = Answer(TRUE, [s EXCEPT !.d.wait = TRUE]) /\ dev.setup.op = "wait"
  <2>1. host.req.op \in {"wait", "nowait"} /\ TRUE \in BOOLEAN
    BY <1>1, <1>11
  <2>2. ep0_setup_stage(St(dev, reg)) = Answer(TRUE, [St(dev, reg) EXCEPT !.d.wait = TRUE])
    BY <1>2, <1>11, Zenon
  <2> QED
    BY <2>1, <2>2, RequestMode, Zenon
<1>12. CASE ep0_setup_stage(s) = Answer(TRUE, [s EXCEPT !.d.wait = FALSE]) /\ dev.setup.op = "nowait"
  <2>1. host.req.op \in {"wait", "nowait"} /\ FALSE \in BOOLEAN
    BY <1>1, <1>12
  <2>2. ep0_setup_stage(St(dev, reg)) = Answer(TRUE, [St(dev, reg) EXCEPT !.d.wait = FALSE])
    BY <1>2, <1>12, Zenon
  <2> QED
    BY <2>1, <2>2, RequestMode, Zenon
<1> QED
  BY <1>4, <1>5, <1>6, <1>7, <1>8, <1>9, <1>10, <1>11, <1>12, Zenon

------------------------------------------------------------------------------
(* EP 0 OUT: the DATA and the STATUS stage.                                *)

\* What is left to show for a step of EP 0 OUT that does not concern the loader.
LEMMA Out0Control ==
  ASSUME IInv, Out0(TRUE), Goto("out2"), UNCHANGED <<mem, shell>>,
         dev' \in DevStates, reg' \in RegStates, LoaderKept, Ep2Kept, Phase',
         reg.in0 = -1, reg'.in0 # 0 \/ host.req.op \notin {"upload", "resize"},
         dev'.out.recv /\ ~dev'.setup.in /\ dev'.cb = "resize" => ~dev.waiting,
         "setup" \notin int.out0
  PROVE  IInv'
<1>1. /\ Fields /\ usb.pc = "out0" /\ "out0" \in usb.daint
      /\ ~int.in0 /\ ~int.reset /\ int.out0 # {} /\ Passing /\ ~InCommand
      /\ usb' \in UsbStates /\ usb'.pc = "out2" /\ usb'.daint = usb.daint
      /\ int' \in IntStates /\ int'.out0 = {} /\ int'.in0 = FALSE /\ int'.out2 = int.out2
      /\ int'.reset = FALSE
      /\ UNCHANGED <<host, iter>> /\ Daint'
  BY Out0Frame
<1>2. Fields' /\ UNCHANGED blk
  BY <1>1 DEF Fields, blk, LoaderKept, Ep2Kept
<1>3. ~Granting /\ ~Granting'
  <2>1. reg.in0 # 0
    OBVIOUS
  <2> QED
    BY <1>1, <2>1 DEF Granting
<1>4. Meet'
  <2>1. Granted' /\ AwaitHost'
    BY <1>1, <1>3 DEF IInv, Meet, Granted, AwaitHost, LoaderKept
  <2>2. ResizeOK'
    BY DEF ResizeOK, LoaderKept
  <2>3. CommandAfterUpload'
    BY <1>1 DEF IInv, Meet, CommandAfterUpload, LoaderKept
  <2> QED
    BY <2>1, <2>2, <2>3 DEF Meet
<1> QED
  BY <1>1, <1>2, <1>4, ControlPass

\* EP 0 OUT is enabled for the next SETUP packet: the new state.
Rearmed(d, r, c, b) ==
  /\ ep0_out_recv(St(d, r)) = St(c, b)
  /\ c.in = d.in /\ ~c.out.recv /\ c.setup = d.setup /\ c.cb = d.cb
  /\ c.ep2 = d.ep2 /\ c.cb2 = d.cb2 /\ c.cap = d.cap /\ c.xfer = d.xfer
  /\ c.count = d.count /\ c.waiting = d.waiting
  /\ b.in0 = r.in0 /\ b.out0 = "setup" /\ b.stall = r.stall
  /\ b.on2 = r.on2 /\ b.left2 = r.left2 /\ b.pkts2 = r.pkts2 /\ b.addr2 = r.addr2

\* EP 0 OUT that does not receive data is enabled for a SETUP packet.
LEMMA Rearm ==
  ASSUME NEW d \in DevStates, NEW r \in RegStates, ~d.out.recv
  PROVE  \E c \in DevStates, b \in RegStates : Rearmed(d, r, c, b)
<1>1. PICK x, y : x = NotReceiving /\ y = EP0Max
  OBVIOUS
<1>2. x \in Endpoint /\ ~x.recv /\ y \in 0..EP0Max
  BY <1>1, NotReceivingType, UsbAssumption DEF UsbAssumption
<1>3. PICK c, b : c = [d EXCEPT !.out = x] /\ b = [r EXCEPT !.out0 = "setup", !.left0 = y]
  OBVIOUS
<1>4. ep0_out_recv(St(d, r)) = St(c, b)
  <2>1. d \in DevFields /\ r \in RegFields
    BY Loose
  <2> QED
    BY <1>1, <1>3, <2>1, RecvSetup
<1>5. /\ c \in DevStates /\ c.in = d.in /\ c.out = x /\ c.setup = d.setup /\ c.cb = d.cb
      /\ c.ep2 = d.ep2 /\ c.cb2 = d.cb2 /\ c.cap = d.cap /\ c.xfer = d.xfer
      /\ c.count = d.count /\ c.waiting = d.waiting
  BY <1>2, <1>3 DEF DevStates
<1>6. /\ b \in RegStates /\ b.in0 = r.in0 /\ b.out0 = "setup" /\ b.stall = r.stall
      /\ b.on2 = r.on2 /\ b.left2 = r.left2 /\ b.pkts2 = r.pkts2 /\ b.addr2 = r.addr2
  BY <1>2, <1>3 DEF RegStates
<1>7. Rearmed(d, r, c, b)
  BY <1>2, <1>4, <1>5, <1>6 DEF Rearmed
<1> QED
  BY <1>5, <1>6, <1>7

\* The status phase after an OUT control transfer.
LEMMA Ep0OutStatusDoneInv ==
  ASSUME IInv, Ep0OutStatusDone
  PROVE  IInv'
<1>1. /\ Out0(TRUE) /\ "setup" \notin int.out0 /\ "status" \in int.out0
      /\ Becomes(ep0_out_recv(Cur)) /\ Goto("out2") /\ UNCHANGED <<mem, shell>>
  BY DEF Ep0OutStatusDone, Out0
<1>2. /\ Fields /\ ~int.in0 /\ int.out0 # {}
      /\ usb'.pc = "out2" /\ int'.out0 = {} /\ int'.in0 = FALSE
      /\ UNCHANGED <<host, iter>>
  BY <1>1, Out0Frame
<1>3. InRest /\ StatusDone
  <2>1. InRest /\ (StatusDone \/ StatusOutDone \/ SetupArrived \/ DataArrived)
    BY <1>2, OutPhases DEF IInv
  <2> QED
    BY <1>1, <2>1 DEF SetupArrived, StatusOutDone, DataArrived
<1>4. PICK c \in DevStates, b \in RegStates : Rearmed(dev, reg, c, b)
  BY <1>2, <1>3, Rearm DEF Fields, StatusDone
<1>5. dev' = c /\ reg' = b
  <2>1. Cur = St(dev, reg)
    BY Loose
  <2>2. dev' = St(c, b).d /\ reg' = St(c, b).r
    BY <1>1, <1>4, <2>1, Zenon DEF Becomes, Rearmed
  <2> QED
    BY <2>2, StParts
<1>6. /\ dev' \in DevStates /\ reg' \in RegStates /\ LoaderKept /\ Ep2Kept /\ ~dev'.out.recv
      /\ reg'.in0 = reg.in0 /\ dev'.in = dev.in /\ reg'.out0 = "setup"
  BY <1>4, <1>5 DEF Rearmed, LoaderKept, Ep2Kept
<1>7. Phase'
  <2>1. InRest' /\ OutRest' /\ Passing'
    BY <1>2, <1>3, <1>6 DEF InRest, OutRest, Passing
  <2>2. Between'
    BY <1>2, <1>3, <1>6, <2>1 DEF Between, StatusDone, InQuiet
  <2> QED
    BY <2>2 DEF Phase
<1>8. reg.in0 = -1 /\ reg'.in0 = -1
  BY <1>3, <1>6 DEF InRest
<1>9. reg'.in0 # 0
  BY <1>8
<1> QED
  BY <1>1, <1>6, <1>7, <1>8, <1>9, Out0Control

\* The state of EP 0 OUT after a packet.
PacketDone(d, r) ==
  LET size == IF d.out.size = ZLP THEN 0 ELSE d.out.size
      done == d.out.done + (EP0Max - r.left0)
  IN  [size |-> size, done |-> done, recv |-> ~(done >= size \/ r.left0 # 0)]

\* PacketDone is what ep_out_recv_data_done computes.
LEMMA Out0AfterOf ==
  ASSUME NEW d \in DevFields, NEW r, d.out.recv
  PROVE  Out0After(St(d, r)) = St([d EXCEPT !.out = PacketDone(d, r)], r)
<1>1. ~(~d.out.recv)
  OBVIOUS
<1>2. Bug(St(d, r), ~d.out.recv, "recv 6") = St(d, r)
  BY <1>1, NoCheck
<1>3. St(d, r).d.out = d.out /\ St(d, r).r.left0 = r.left0
  BY DEF St
<1>4. PICK o : o = PacketDone(d, r)
  OBVIOUS
<1>5. Out0After(St(d, r)) = [St(d, r) EXCEPT !.d.out = o]
  BY <1>2, <1>3, <1>4, Zenon DEF Out0After, PacketDone
<1>6. [St(d, r) EXCEPT !.d.out = o] = St([d EXCEPT !.out = o], r)
  <2>1. PICK u : u = St(d, r)
    OBVIOUS
  <2>2. u.d = d /\ u.r = r /\ u \in [d : {d}, r : {r}]
    BY <2>1, Parts
  <2>3. PICK t : t = [u EXCEPT !.d.out = o]
    OBVIOUS
  <2>4. t.d = [u.d EXCEPT !.out = o] /\ t.r = u.r
    BY <2>2, <2>3
  <2>5. t = [d |-> t.d, r |-> t.r]
    BY <2>2, <2>3
  <2>6. t = St([d EXCEPT !.out = o], r)
    BY <2>2, <2>4, <2>5, Zenon DEF St
  <2> QED
    BY <2>1, <2>3, <2>6, Zenon
<1> QED
  BY <1>4, <1>5, <1>6, Zenon

\* The state of the driver after a packet, where o is the new state of EP 0 OUT.
Arrived(c, o) ==
  /\ Out0After(Cur) = St(c, reg)
  /\ c.out = o /\ c.in = dev.in /\ c.setup = dev.setup /\ c.cb = dev.cb
  /\ c.ep2 = dev.ep2 /\ c.cb2 = dev.cb2 /\ c.cap = dev.cap /\ c.xfer = dev.xfer
  /\ c.count = dev.count /\ c.waiting = dev.waiting /\ c.ktrw = dev.ktrw /\ c.wait = dev.wait

\* The driver after a packet of DATA OUT.
LEMMA Arrives ==
  ASSUME Fields, dev.out.recv, PacketDone(dev, reg) \in Endpoint
  PROVE  \E c \in DevStates : Arrived(c, PacketDone(dev, reg))
<1>1. PICK o \in Endpoint : o = PacketDone(dev, reg)
  OBVIOUS
<1>2. PICK c : c = [dev EXCEPT !.out = o]
  OBVIOUS
<1>3. Out0After(Cur) = St(c, reg)
  <2>1. dev \in DevFields /\ Cur = St(dev, reg)
    BY Loose DEF Fields
  <2> QED
    BY <1>1, <1>2, <2>1, Out0AfterOf
<1>4. /\ c \in DevStates /\ c.out = o /\ c.in = dev.in /\ c.setup = dev.setup /\ c.cb = dev.cb
      /\ c.ep2 = dev.ep2 /\ c.cb2 = dev.cb2 /\ c.cap = dev.cap /\ c.xfer = dev.xfer
      /\ c.count = dev.count /\ c.waiting = dev.waiting /\ c.ktrw = dev.ktrw /\ c.wait = dev.wait
  BY <1>1, <1>2 DEF Fields, DevStates
<1> QED
  BY <1>1, <1>3, <1>4 DEF Arrived

\* The end of the DATA OUT stage, when the callback agreed ...
Concluded(d, r, c, b) ==
  /\ ep0_out_recv(AfterData(Answer(TRUE, St(d, r)))) = St(c, b)
  /\ c.in.size = ZLP /\ c.in.done = 0 /\ c.in.flight = 0
  /\ ~c.out.recv /\ c.setup = d.setup
  /\ c.ep2 = d.ep2 /\ c.cb2 = d.cb2 /\ c.cap = d.cap /\ c.xfer = d.xfer
  /\ c.count = d.count /\ c.waiting = d.waiting
  /\ b.in0 = 0 /\ b.out0 = "setup" /\ b.stall = r.stall
  /\ b.on2 = r.on2 /\ b.left2 = r.left2 /\ b.pkts2 = r.pkts2 /\ b.addr2 = r.addr2

\* ... and when it did not.
Rejected(d, r, c, b) ==
  /\ ep0_out_recv(AfterData(Answer(FALSE, St(d, r)))) = St(c, b)
  /\ c.in = d.in /\ ~c.out.recv /\ c.setup = d.setup
  /\ c.ep2 = d.ep2 /\ c.cb2 = d.cb2 /\ c.cap = d.cap /\ c.xfer = d.xfer
  /\ c.count = d.count /\ c.waiting = d.waiting
  /\ b.in0 = r.in0 /\ b.out0 = "setup" /\ "in" \in b.stall
  /\ b.on2 = r.on2 /\ b.left2 = r.left2 /\ b.pkts2 = r.pkts2 /\ b.addr2 = r.addr2

\* The callback is forgotten.
LEMMA AfterDataOf ==
  ASSUME NEW d, NEW r, NEW e, e = [d EXCEPT !.cb = "none"]
  PROVE  /\ AfterData(Answer(TRUE, St(d, r))) = ep_in_send_data(St(e, r), 0)
         /\ AfterData(Answer(FALSE, St(d, r))) = ep_stall(St(e, r), "in")
<1>1. PICK s : s = St(d, r)
  OBVIOUS
<1>2. s.d = d /\ s.r = r /\ s \in [d : {d}, r : {r}]
  BY <1>1, Parts
<1>3. PICK t : t = [s EXCEPT !.d.cb = "none"]
  OBVIOUS
<1>4. t.d = [s.d EXCEPT !.cb = "none"] /\ t.r = s.r
  BY <1>2, <1>3
<1>5. t = [d |-> t.d, r |-> t.r]
  BY <1>2, <1>3
<1>6. t = St(e, r)
  BY <1>2, <1>4, <1>5, Zenon DEF St
<1>7. /\ Answer(TRUE, s).ok = TRUE /\ Answer(TRUE, s).s = s
      /\ Answer(FALSE, s).ok = FALSE /\ Answer(FALSE, s).s = s
  BY DEF Answer
<1>8. AfterData(Answer(TRUE, s)) = ep_in_send_data(t, 0)
  BY <1>3, <1>7, Zenon DEF AfterData
<1>9. AfterData(Answer(FALSE, s)) = ep_stall(t, "in")
  BY <1>3, <1>7, Zenon DEF AfterData
<1> QED
  BY <1>1, <1>6, <1>8, <1>9, Zenon

\* The callback of the data stage is forgotten.
LEMMA Forget ==
  ASSUME NEW d \in DevStates, NEW e, e = [d EXCEPT !.cb = "none"]
  PROVE  /\ e \in DevStates /\ e.in = d.in /\ e.out = d.out /\ e.setup = d.setup
         /\ e.ep2 = d.ep2 /\ e.cb2 = d.cb2 /\ e.cap = d.cap /\ e.xfer = d.xfer
         /\ e.count = d.count /\ e.waiting = d.waiting
BY DEF DevStates

\* An accepted data stage: STATUS IN is begun.
LEMMA Conclude ==
  ASSUME NEW d \in DevStates, NEW r \in RegStates, ~d.out.recv, d.in.size = d.in.done,
         d.in.flight = 0
  PROVE  \E c \in DevStates, b \in RegStates : Concluded(d, r, c, b)
<1>1. PICK e : e = [d EXCEPT !.cb = "none"]
  OBVIOUS
<1>2. /\ e \in DevStates /\ e.in = d.in /\ e.out = d.out /\ e.setup = d.setup
      /\ e.ep2 = d.ep2 /\ e.cb2 = d.cb2 /\ e.cap = d.cap /\ e.xfer = d.xfer
      /\ e.count = d.count /\ e.waiting = d.waiting
  BY <1>1, Forget
<1>3. PICK v, x, y : v = Begun(0) /\ x = NotReceiving /\ y = EP0Max
  OBVIOUS
<1>4. PICK c, b : c = [e EXCEPT !.in = v, !.out = x]
                  /\ b = [r EXCEPT !.in0 = 0, !.out0 = "setup", !.left0 = y]
  OBVIOUS
<1>5. ep0_out_recv(AfterData(Answer(TRUE, St(d, r)))) = St(c, b)
  <2>1. e \in DevFields /\ r \in RegFields
    BY <1>2, Loose
  <2>2. ep0_out_recv(ep_in_send_data(St(e, r), 0)) = St(c, b)
    BY <1>2, <1>3, <1>4, <2>1, GrantStatus
  <2> QED
    BY <1>1, <2>2, AfterDataOf, Zenon
<1>6. /\ v \in InStates /\ v.size = ZLP /\ v.done = 0 /\ v.flight = 0
      /\ x \in Endpoint /\ ~x.recv /\ y \in 0..EP0Max /\ 0 \in -1..EP0Max
  BY <1>3, BegunEmpty, NotReceivingType, UsbAssumption DEF UsbAssumption
<1>7. /\ c \in DevStates /\ c.in = v /\ c.out = x /\ c.setup = e.setup
      /\ c.ep2 = e.ep2 /\ c.cb2 = e.cb2 /\ c.cap = e.cap /\ c.xfer = e.xfer
      /\ c.count = e.count /\ c.waiting = e.waiting
  BY <1>2, <1>4, <1>6 DEF DevStates
<1>8. /\ b \in RegStates /\ b.in0 = 0 /\ b.out0 = "setup" /\ b.stall = r.stall
      /\ b.on2 = r.on2 /\ b.left2 = r.left2 /\ b.pkts2 = r.pkts2 /\ b.addr2 = r.addr2
  BY <1>4, <1>6 DEF RegStates
<1>9. Concluded(d, r, c, b)
  BY <1>2, <1>5, <1>6, <1>7, <1>8 DEF Concluded
<1> QED
  BY <1>7, <1>8, <1>9

\* A rejected data stage: EP 0 IN is stalled.
LEMMA Reject ==
  ASSUME NEW d \in DevStates, NEW r \in RegStates, ~d.out.recv
  PROVE  \E c \in DevStates, b \in RegStates : Rejected(d, r, c, b)
<1>1. PICK e : e = [d EXCEPT !.cb = "none"]
  OBVIOUS
<1>2. /\ e \in DevStates /\ e.in = d.in /\ e.out = d.out /\ e.setup = d.setup
      /\ e.ep2 = d.ep2 /\ e.cb2 = d.cb2 /\ e.cap = d.cap /\ e.xfer = d.xfer
      /\ e.count = d.count /\ e.waiting = d.waiting
  BY <1>1, Forget
<1>3. PICK z : z = r.stall \cup {"in"}
  OBVIOUS
<1>4. PICK f : f = [r EXCEPT !.stall = z]
  OBVIOUS
<1>5. /\ f \in RegStates /\ f.stall = z /\ f.in0 = r.in0
      /\ f.on2 = r.on2 /\ f.left2 = r.left2 /\ f.pkts2 = r.pkts2 /\ f.addr2 = r.addr2
  <2>1. z \in SUBSET {"in", "out"}
    BY <1>3 DEF RegStates
  <2> QED
    BY <1>4, <2>1 DEF RegStates
<1>6. ep_stall(St(e, r), "in") = St(e, f)
  BY <1>3, <1>4, Stalling
<1>7. PICK c \in DevStates, b \in RegStates : Rearmed(e, f, c, b)
  BY <1>2, <1>5, Rearm
<1>8. ep0_out_recv(AfterData(Answer(FALSE, St(d, r)))) = St(c, b)
  <2>1. ep0_out_recv(St(e, f)) = St(c, b)
    BY <1>7 DEF Rearmed
  <2> QED
    BY <1>1, <1>6, <2>1, AfterDataOf, Zenon
<1>9. Rejected(d, r, c, b)
  BY <1>2, <1>3, <1>5, <1>7, <1>8 DEF Rejected, Rearmed
<1> QED
  BY <1>9

\* What follows a packet, in Ep0OutData.
Arm(t) ==
  CASE t.d.out.recv -> t
    [] ~t.d.out.recv /\ WrongLength(t) -> ep_stall(t, "out")
    [] ~t.d.out.recv /\ ~WrongLength(t) /\ t.d.setup.in -> t
    [] OTHER -> AfterData(DataCallback(t))

\* Which of its cases the data packet is.
LEMMA Arms ==
  ASSUME NEW t
  PROVE  /\ t.d.out.recv => Arm(t) = t
         /\ ~t.d.out.recv /\ ~WrongLength(t) /\ t.d.setup.in => Arm(t) = t
         /\ ~t.d.out.recv /\ ~WrongLength(t) /\ ~t.d.setup.in => Arm(t) = AfterData(DataCallback(t))
<1>1. PICK x, y : x = ep_stall(t, "out") /\ y = AfterData(DataCallback(t))
  OBVIOUS
<1>2. PICK w : w = WrongLength(t)
  OBVIOUS
<1>3. Arm(t) = CASE t.d.out.recv -> t
                 [] ~t.d.out.recv /\ w -> x
                 [] ~t.d.out.recv /\ ~w /\ t.d.setup.in -> t
                 [] OTHER -> y
  BY <1>1, <1>2, Zenon DEF Arm
<1>4. /\ t.d.out.recv => Arm(t) = t
      /\ ~t.d.out.recv /\ ~w /\ t.d.setup.in => Arm(t) = t
      /\ ~t.d.out.recv /\ ~w /\ ~t.d.setup.in => Arm(t) = y
  BY <1>3
<1> QED
  BY <1>1, <1>2, <1>4, Zenon

\* What Ep0OutData does besides the driver's state.
LEMMA OutDataFrame ==
  ASSUME IInv, Ep0OutData
  PROVE  /\ Out0(TRUE) /\ Goto("out2") /\ UNCHANGED shell /\ int.out0 = {"data"}
         /\ "setup" \notin int.out0
         /\ ~IsStdin(Out0After(Cur))
         /\ dev' = ep0_out_recv(Arm(Out0After(Cur))).d
         /\ reg' = ep0_out_recv(Arm(Out0After(Cur))).r
         /\ mem' = IF dev'.cap > dev.cap THEN Fresh ELSE mem
         /\ Fields /\ InRest /\ reg.in0 = -1 /\ (StatusOutDone \/ DataArrived)
         /\ usb'.pc = "out2" /\ Passing' /\ int'.out0 = {} /\ int'.in0 = FALSE
         /\ UNCHANGED <<host, iter>>
<1>1. /\ Out0(TRUE) /\ Goto("out2") /\ UNCHANGED shell /\ int.out0 = {"data"}
      /\ ~IsStdin(Out0After(Cur))
      /\ dev' = ep0_out_recv(Arm(Out0After(Cur))).d
      /\ reg' = ep0_out_recv(Arm(Out0After(Cur))).r
      /\ mem' = IF dev'.cap > dev.cap THEN Fresh ELSE mem
  BY DEF Ep0OutData, Out0, Becomes, Arm
<1>2. /\ Fields /\ ~int.in0 /\ usb'.pc = "out2" /\ int'.out0 = {} /\ int'.in0 = FALSE
      /\ UNCHANGED <<host, iter>>
  BY <1>1, Out0Frame
<1>3. InRest /\ (StatusOutDone \/ DataArrived)
  <2>1. InRest /\ (StatusDone \/ StatusOutDone \/ SetupArrived \/ DataArrived)
    BY <1>1, <1>2, OutPhases DEF IInv
  <2> QED
    BY <1>1, <2>1 DEF SetupArrived, StatusDone
<1> QED
  BY <1>1, <1>2, <1>3 DEF InRest, Passing

\* STATUS OUT is over.
LEMMA OutDataStatus ==
  ASSUME IInv, Ep0OutData, StatusOutDone
  PROVE  IInv'
<1>1. /\ Out0(TRUE) /\ Goto("out2") /\ UNCHANGED shell
      /\ "setup" \notin int.out0
      /\ dev' = ep0_out_recv(Arm(Out0After(Cur))).d
      /\ reg' = ep0_out_recv(Arm(Out0After(Cur))).r
      /\ mem' = IF dev'.cap > dev.cap THEN Fresh ELSE mem
      /\ Fields /\ InRest /\ reg.in0 = -1
      /\ Passing' /\ int'.out0 = {} /\ int'.in0 = FALSE
      /\ UNCHANGED <<host, iter>>
  BY OutDataFrame
<1>2. PICK o : o = PacketDone(dev, reg)
  OBVIOUS
<1>3. o.size = 0 /\ o.done = 0 /\ o.recv = FALSE /\ o \in Endpoint
  <2>1. dev.out.size = ZLP /\ dev.out.done = 0 /\ reg.left0 = EP0Max
    BY DEF StatusOutDone
  <2>2. EP0Max \in Nat /\ DmaSize \in Nat /\ UploadMax \in Nat
    BY UsbAssumption DEF UsbAssumption
  <2>3. o.size = 0 /\ o.done = 0
    BY <1>2, <2>1, <2>2 DEF PacketDone
  <2>4. o.recv = ~(o.done >= o.size \/ reg.left0 # 0)
    BY <1>2, <2>1 DEF PacketDone
  <2>8. o.done >= o.size
    BY <2>3
  <2>5. o.recv = FALSE
    BY <2>4, <2>8, Zenon
  <2>6. o = [size |-> o.size, done |-> o.done, recv |-> o.recv]
    BY <1>2 DEF PacketDone
  <2>9. 0 \in {ZLP} \cup 0..(DmaSize + UploadMax) /\ 0 \in 0..(DmaSize + UploadMax)
    BY <2>2
  <2>10. o \in [size : {ZLP} \cup 0..(DmaSize + UploadMax), done : 0..(DmaSize + UploadMax), recv : BOOLEAN]
    BY <2>3, <2>5, <2>6, <2>9
  <2>7. o \in Endpoint
    BY <2>10 DEF Endpoint
  <2> QED
    BY <2>3, <2>5, <2>7
<1>4. PICK d \in DevStates : Arrived(d, o)
  BY <1>1, <1>2, <1>3, Arrives DEF StatusOutDone
<1>5. PICK t : t = Out0After(Cur)
  OBVIOUS
<1>6. t = St(d, reg) /\ t.d = d
  BY <1>4, <1>5, StParts DEF Arrived
<1>7. Arm(t) = t
  <2>1. ~t.d.out.recv /\ t.d.setup.in /\ ~WrongLength(t)
    BY <1>3, <1>4, <1>6 DEF Arrived, StatusOutDone, WrongLength
  <2> QED
    BY <2>1, Arms
<1>8. PICK c \in DevStates, b \in RegStates : Rearmed(d, reg, c, b)
  <2>1. reg \in RegStates /\ ~d.out.recv
    BY <1>1, <1>3, <1>4 DEF Fields, Arrived
  <2> QED
    BY <2>1, Rearm
<1>9. dev' = c /\ reg' = b
  <2>1. dev' = St(c, b).d /\ reg' = St(c, b).r
    BY <1>1, <1>5, <1>6, <1>7, <1>8, Zenon DEF Rearmed
  <2> QED
    BY <2>1, StParts
<1>10. /\ dev' \in DevStates /\ reg' \in RegStates /\ LoaderKept /\ Ep2Kept /\ ~dev'.out.recv
       /\ reg'.in0 = reg.in0 /\ dev'.in = dev.in /\ reg'.out0 = "setup" /\ dev'.cap = dev.cap
  BY <1>4, <1>8, <1>9 DEF Rearmed, Arrived, LoaderKept, Ep2Kept
<1>11. Phase'
  <2>1. InRest' /\ OutRest'
    BY <1>1, <1>10 DEF InRest, OutRest
  <2>2. Between'
    BY <1>1, <1>10, <2>1 DEF Between, StatusOutDone, InQuiet
  <2> QED
    BY <2>2 DEF Phase
<1>12. mem' = mem
  BY <1>1, <1>10 DEF Fields, DevStates
<1>13. reg'.in0 # 0
  BY <1>1, <1>10
<1> QED
  BY <1>1, <1>10, <1>11, <1>12, <1>13, Out0Control

\* The state of EP 0 OUT after a packet of data.
LEMMA DataPacket ==
  ASSUME Fields, DataArrived
  PROVE  /\ PacketDone(dev, reg).size = host.req.len /\ PacketDone(dev, reg).done = host.cnt
         /\ PacketDone(dev, reg).recv = (host.cnt < host.req.len)
         /\ PacketDone(dev, reg) \in Endpoint
         /\ host.req.len \in 1..DmaSize /\ host.cnt \in 0..host.req.len
         /\ host.cnt < host.req.len => host.cnt % EP0Max = 0
         /\ dev.out.recv /\ dev.setup = host.req /\ host.req \in Requests
         /\ ~host.req.in /\ dev.cb = host.req.op /\ host.req.op \in {"stdin", "resize", "vendor"}
         /\ reg.stall = {} /\ InRest
<1>1. /\ host.req.len \in 1..DmaSize /\ dev.out.recv /\ dev.out.size = host.req.len
      /\ dev.out.done < dev.out.size /\ dev.out.done % EP0Max = 0
      /\ reg.left0 \in 0..EP0Max /\ host.cnt = dev.out.done + (EP0Max - reg.left0)
      /\ host.cnt <= host.req.len /\ (reg.left0 # 0 => host.cnt = host.req.len)
      /\ dev.setup = host.req /\ host.req \in Requests
      /\ ~host.req.in /\ dev.cb = host.req.op /\ host.req.op \in {"stdin", "resize", "vendor"}
      /\ reg.stall = {} /\ InRest
  BY DEF DataArrived, Receiving, Serves
<1>2. dev.out.done \in Nat /\ EP0Max \in Nat \ {0} /\ DmaSize \in Nat /\ UploadMax \in Nat
  BY UsbAssumption DEF Fields, DevStates, Endpoint, UsbAssumption
<1>3. host.cnt \in 0..host.req.len
  BY <1>1, <1>2
<1>4. host.cnt < host.req.len => host.cnt % EP0Max = 0
  <2>1. SUFFICES ASSUME host.cnt < host.req.len PROVE host.cnt % EP0Max = 0
    OBVIOUS
  <2>2. host.cnt = dev.out.done + EP0Max
    BY <1>1, <1>2, <2>1
  <2>3. EP0Max % EP0Max = 0
    <3>1. EP0Max = EP0Max * 1
      BY <1>2
    <3> QED
      BY <1>2, <3>1, IsMultiple
  <2>4. dev.out.done \in Int /\ EP0Max \in Int
    BY <1>2
  <2> QED
    BY <1>1, <1>2, <2>2, <2>3, <2>4, Multiples
<1>5. PICK o : o = PacketDone(dev, reg)
  OBVIOUS
<1>6. o.size = host.req.len /\ o.done = host.cnt /\ o.recv = (host.cnt < host.req.len)
  <2>1. dev.out.size # ZLP
    BY <1>1, <1>2 DEF ZLP
  <2>2. o.size = host.req.len /\ o.done = host.cnt
    BY <1>1, <1>5, <2>1 DEF PacketDone
  <2>3. o.recv = ~(host.cnt >= host.req.len \/ reg.left0 # 0)
    BY <1>1, <1>5, <2>1 DEF PacketDone
  <2> QED
    BY <1>1, <1>3, <2>2, <2>3
<1>7. o \in Endpoint
  <2>1. o = [size |-> o.size, done |-> o.done, recv |-> o.recv]
    BY <1>5 DEF PacketDone
  <2>2. o.size \in {ZLP} \cup 0..(DmaSize + UploadMax) /\ o.done \in 0..(DmaSize + UploadMax)
    BY <1>1, <1>2, <1>3, <1>6
  <2>3. o.recv \in BOOLEAN
    BY <1>6
  <2> QED
    BY <2>1, <2>2, <2>3 DEF Endpoint
<1> QED
  BY <1>1, <1>3, <1>4, <1>5, <1>6, <1>7

\* More data is to come.
LEMMA OutDataMore ==
  ASSUME IInv, Ep0OutData, DataArrived, host.cnt < host.req.len
  PROVE  IInv'
<1>1. /\ Out0(TRUE) /\ Goto("out2") /\ UNCHANGED shell
      /\ "setup" \notin int.out0
      /\ dev' = ep0_out_recv(Arm(Out0After(Cur))).d
      /\ reg' = ep0_out_recv(Arm(Out0After(Cur))).r
      /\ mem' = IF dev'.cap > dev.cap THEN Fresh ELSE mem
      /\ Fields /\ InRest /\ reg.in0 = -1
      /\ Passing' /\ int'.out0 = {} /\ int'.in0 = FALSE
      /\ UNCHANGED <<host, iter>>
  BY OutDataFrame
<1>2. PICK o : o = PacketDone(dev, reg)
  OBVIOUS
<1>3. /\ o.size = host.req.len /\ o.done = host.cnt /\ o.recv = TRUE /\ o \in Endpoint
      /\ host.req.len \in 1..DmaSize /\ host.cnt \in 0..host.req.len /\ host.cnt % EP0Max = 0
      /\ dev.out.recv /\ dev.setup = host.req /\ host.req \in Requests
      /\ ~host.req.in /\ dev.cb = host.req.op /\ host.req.op \in {"stdin", "resize", "vendor"}
      /\ reg.stall = {}
  BY <1>1, <1>2, DataPacket
<1>4. PICK d \in DevStates : Arrived(d, o)
  BY <1>1, <1>2, <1>3, Arrives
<1>5. PICK t : t = Out0After(Cur)
  OBVIOUS
<1>6. t = St(d, reg) /\ t.d = d
  BY <1>4, <1>5, StParts DEF Arrived
<1>7. Arm(t) = t
  <2>1. t.d.out.recv
    BY <1>3, <1>4, <1>6 DEF Arrived
  <2> QED
    BY <2>1, Arms
<1>8. PICK y : y = EP0Max
  OBVIOUS
<1>9. PICK b : b = [reg EXCEPT !.out0 = "data", !.left0 = y]
  OBVIOUS
<1>10. ep0_out_recv(St(d, reg)) = St(d, b)
  <2>1. d \in DevFields /\ reg \in RegFields
    BY <1>1, Loose DEF Fields
  <2>2. d.out.recv /\ d.out.done \in 0..(DmaSize - 1) /\ d.out.done % EP0Max = 0
    BY <1>3, <1>4, UsbAssumption DEF Arrived, UsbAssumption
  <2> QED
    BY <1>8, <1>9, <2>1, <2>2, RecvData
<1>11. dev' = d /\ reg' = b
  <2>1. dev' = St(d, b).d /\ reg' = St(d, b).r
    BY <1>1, <1>5, <1>6, <1>7, <1>10, Zenon
  <2> QED
    BY <2>1, StParts
<1>12. /\ dev' \in DevStates /\ LoaderKept /\ dev'.out = o /\ dev'.in = dev.in /\ dev'.cb = dev.cb
       /\ dev'.setup = dev.setup /\ dev'.cap = dev.cap
  BY <1>4, <1>11 DEF Arrived, LoaderKept
<1>13. /\ reg' \in RegStates /\ Ep2Kept /\ reg'.in0 = reg.in0 /\ reg'.out0 = "data"
       /\ reg'.stall = reg.stall
  <2>1. y \in 0..EP0Max
    BY <1>8, UsbAssumption DEF UsbAssumption
  <2> QED
    BY <1>1, <1>9, <1>11, <2>1 DEF Fields, RegStates, Ep2Kept
<1>14. Phase'
  <2>1. InRest' /\ Serves'
    BY <1>1, <1>3, <1>12, <1>13 DEF InRest, Serves
  <2>2. Receiving'
    BY <1>1, <1>3, <1>12, <1>13, <2>1 DEF Receiving
  <2>3. host.stage = "dataout"
    BY <1>3 DEF DataArrived
  <2>4. DataOut'
    BY <1>1, <1>3, <1>12, <1>13, <2>2, <2>3 DEF DataOut
  <2> QED
    BY <2>4 DEF Phase
<1>15. mem' = mem
  BY <1>1, <1>12 DEF Fields, DevStates
<1>16. reg'.in0 # 0
  BY <1>1, <1>13
<1>17. dev'.cb = "resize" => ~dev.waiting
  BY <1>3, <1>12 DEF IInv, Meet, ResizeOK
<1> QED
  BY <1>1, <1>12, <1>13, <1>14, <1>15, <1>16, <1>17, Out0Control

\* All data is there: the callback is called.
Finished(d) ==
  /\ Arrived(d, PacketDone(dev, reg))
  /\ ~d.out.recv /\ d.out.size = host.req.len /\ d.cb \in {"resize", "vendor"}
  /\ d.cb = host.req.op /\ d.setup = host.req /\ host.req \in Requests /\ ~host.req.in
  /\ d.in.size = d.in.done /\ d.in.flight = 0 /\ host.stage = "statusin" /\ reg.stall = {}
  /\ Arm(Out0After(Cur)) = AfterData(DataCallback(St(d, reg)))

\* The last packet of DATA OUT leads to the callback.
LEMMA LastPacket ==
  ASSUME IInv, Ep0OutData, DataArrived, host.cnt = host.req.len
  PROVE  \E d \in DevStates : Finished(d)
<1>1. ~IsStdin(Out0After(Cur)) /\ Fields /\ InRest
  BY OutDataFrame
<1>2. PICK o : o = PacketDone(dev, reg)
  OBVIOUS
<1>3. /\ o.size = host.req.len /\ o.done = host.cnt /\ o.recv = FALSE /\ o \in Endpoint
      /\ dev.out.recv /\ dev.setup = host.req /\ host.req \in Requests
      /\ ~host.req.in /\ dev.cb = host.req.op /\ host.req.op \in {"stdin", "resize", "vendor"}
      /\ reg.stall = {}
  <2>1. host.req.len \in 1..DmaSize /\ DmaSize \in Nat
    BY <1>1, DataPacket, UsbAssumption DEF UsbAssumption
  <2>2. ~(host.cnt < host.req.len)
    BY <2>1
  <2>3. o.recv = (host.cnt < host.req.len)
    BY <1>1, <1>2, DataPacket
  <2>5. (host.cnt < host.req.len) = FALSE
    BY <2>1
  <2>4. o.recv = FALSE
    BY <2>3, <2>5, Zenon
  <2> QED
    BY <1>1, <1>2, <2>4, DataPacket
<1>4. PICK d \in DevStates : Arrived(d, o)
  BY <1>1, <1>2, <1>3, Arrives
<1>5. PICK t : t = Out0After(Cur)
  OBVIOUS
<1>6. t = St(d, reg) /\ t.d = d
  BY <1>4, <1>5, StParts DEF Arrived
<1>7. ~t.d.out.recv /\ ~t.d.setup.in /\ ~WrongLength(t) /\ t.d.cb = host.req.op
  BY <1>3, <1>4, <1>6 DEF Arrived, WrongLength
<1>8. host.req.op # "stdin"
  BY <1>1, <1>5, <1>7 DEF IsStdin
<1>9. Arm(t) = AfterData(DataCallback(t))
  BY <1>7, Arms
<1>10. host.stage = "statusin"
  BY DEF DataArrived
<1>11. Arm(Out0After(Cur)) = AfterData(DataCallback(St(d, reg)))
  BY <1>5, <1>6, <1>9, Zenon
<1>12. /\ ~d.out.recv /\ d.out.size = host.req.len /\ d.cb = host.req.op /\ d.setup = host.req
       /\ d.in.size = d.in.done /\ d.in.flight = 0
  BY <1>1, <1>3, <1>4 DEF Arrived, InRest
<1>13. Finished(d)
  BY <1>2, <1>3, <1>4, <1>8, <1>10, <1>11, <1>12 DEF Finished
<1> QED
  BY <1>13

\* The callback rejects the data.
LEMMA OutDataRejected ==
  ASSUME IInv, Ep0OutData, NEW d \in DevStates, Finished(d),
         DataCallback(St(d, reg)) = Answer(FALSE, St(d, reg))
  PROVE  IInv'
<1>1. /\ Out0(TRUE) /\ Goto("out2") /\ UNCHANGED shell
      /\ "setup" \notin int.out0
      /\ dev' = ep0_out_recv(Arm(Out0After(Cur))).d
      /\ reg' = ep0_out_recv(Arm(Out0After(Cur))).r
      /\ mem' = IF dev'.cap > dev.cap THEN Fresh ELSE mem
      /\ Fields /\ InRest /\ reg.in0 = -1
      /\ Passing' /\ int'.out0 = {} /\ int'.in0 = FALSE
      /\ UNCHANGED <<host, iter>>
  BY OutDataFrame
<1>2. PICK c \in DevStates, b \in RegStates : Rejected(d, reg, c, b)
  <2>1. ~d.out.recv /\ reg \in RegStates
    BY <1>1 DEF Finished, Fields
  <2> QED
    BY <2>1, Reject
<1>3. dev' = c /\ reg' = b
  <2>1. dev' = St(c, b).d /\ reg' = St(c, b).r
    BY <1>1, <1>2, Zenon DEF Rejected, Finished
  <2> QED
    BY <2>1, StParts
<1>4. /\ dev' \in DevStates /\ reg' \in RegStates /\ LoaderKept /\ Ep2Kept /\ ~dev'.out.recv
      /\ reg'.in0 = reg.in0 /\ dev'.in = dev.in /\ reg'.out0 = "setup" /\ "in" \in reg'.stall
      /\ dev'.cap = dev.cap
  BY <1>2, <1>3 DEF Rejected, Finished, Arrived, LoaderKept, Ep2Kept
<1>5. Phase'
  <2>1. InRest' /\ OutRest'
    BY <1>1, <1>4 DEF InRest, OutRest
  <2>2. Stalled'
    BY <1>1, <1>4, <2>1 DEF Stalled, Finished
  <2> QED
    BY <2>2 DEF Phase
<1>6. mem' = mem
  BY <1>1, <1>4 DEF Fields, DevStates
<1>7. reg'.in0 # 0
  BY <1>1, <1>4
<1> QED
  BY <1>1, <1>4, <1>5, <1>6, <1>7, Out0Control

\* The callback accepts the data with the new state of driver d and controller r:
\* STATUS IN follows.
LEMMA OutDataAccepted ==
  ASSUME IInv, Ep0OutData, NEW e \in DevStates, Finished(e),
         NEW d \in DevStates, NEW r \in RegStates,
         d.in = e.in, d.out = e.out, d.setup = e.setup, r.stall = reg.stall,
         DataCallback(St(e, reg)) = Answer(TRUE, St(d, r))
  PROVE  /\ dev' \in DevStates /\ reg' \in RegStates /\ reg'.in0 = 0 /\ ~dev'.out.recv
         /\ dev'.ep2 = d.ep2 /\ dev'.cb2 = d.cb2 /\ dev'.cap = d.cap /\ dev'.xfer = d.xfer
         /\ dev'.count = d.count /\ dev'.waiting = d.waiting
         /\ reg'.on2 = r.on2 /\ reg'.left2 = r.left2 /\ reg'.pkts2 = r.pkts2
         /\ reg'.addr2 = r.addr2
         /\ Phase'
<1>1. /\ dev' = ep0_out_recv(Arm(Out0After(Cur))).d
      /\ reg' = ep0_out_recv(Arm(Out0After(Cur))).r
      /\ Passing' /\ int'.out0 = {} /\ int'.in0 = FALSE
      /\ UNCHANGED <<host, iter>>
  BY OutDataFrame
<1>2. PICK c \in DevStates, b \in RegStates : Concluded(d, r, c, b)
  BY Conclude DEF Finished
<1>3. dev' = c /\ reg' = b
  <2>1. dev' = St(c, b).d /\ reg' = St(c, b).r
    BY <1>1, <1>2, Zenon DEF Concluded, Finished
  <2> QED
    BY <2>1, StParts
<1>4. /\ dev' \in DevStates /\ reg' \in RegStates /\ reg'.in0 = 0 /\ ~dev'.out.recv
      /\ dev'.ep2 = d.ep2 /\ dev'.cb2 = d.cb2 /\ dev'.cap = d.cap /\ dev'.xfer = d.xfer
      /\ dev'.count = d.count /\ dev'.waiting = d.waiting
      /\ reg'.on2 = r.on2 /\ reg'.left2 = r.left2 /\ reg'.pkts2 = r.pkts2
      /\ reg'.addr2 = r.addr2 /\ reg'.out0 = "setup" /\ reg'.stall = {}
      /\ dev'.in.size = ZLP /\ dev'.in.done = 0 /\ dev'.in.flight = 0
      /\ dev'.setup = host.req
  BY <1>2, <1>3 DEF Concluded, Finished
<1>5. StatusIn'
  BY <1>1, <1>4 DEF StatusIn, OutRest, InEmpty, Serves, Finished
<1> QED
  BY <1>4, <1>5 DEF Phase

\* ktrw_recv_done.
LEMMA OutDataVendor ==
  ASSUME IInv, Ep0OutData, NEW d \in DevStates, Finished(d), d.cb = "vendor"
  PROVE  IInv'
<1>1. /\ Out0(TRUE) /\ Goto("out2") /\ UNCHANGED shell
      /\ "setup" \notin int.out0
      /\ mem' = IF dev'.cap > dev.cap THEN Fresh ELSE mem
      /\ Fields /\ reg.in0 = -1
  BY OutDataFrame
<1>2. PICK s : s = St(d, reg)
  OBVIOUS
<1>3. s.d = d /\ s.r = reg /\ s \in [d : {d}, r : {reg}]
  BY <1>2, Parts
<1>4. DataCallback(s) = ktrw_recv_done(s)
  <2>1. PICK x, y, z : /\ x = reallocate_loader_xfer_data(s) /\ y = ktrw_recv_done(s)
                       /\ z = Answer(FALSE, Bug(s, TRUE, "no do cb"))
    OBVIOUS
  <2>2. DataCallback(s) = CASE s.d.cb = "resize" -> x [] s.d.cb = "vendor" -> y [] OTHER -> z
    BY <2>1, Zenon DEF DataCallback
  <2>3. DataCallback(s) = y
    BY <1>3, <2>2
  <2> QED
    BY <2>1, <2>3
<1>5. CASE RecvCap - d.ktrw < d.out.size
  <2>1. DataCallback(s) = Answer(FALSE, s)
    BY <1>3, <1>4, <1>5, Zenon DEF ktrw_recv_done
  <2> QED
    BY <1>2, <2>1, OutDataRejected
<1>6. CASE ~(RecvCap - d.ktrw < d.out.size)
  <2>1. PICK k : k = d.ktrw + d.out.size
    OBVIOUS
  <2>2. k \in 0..RecvCap
    <3>1. d.ktrw \in 0..RecvCap /\ d.out.size \in Nat /\ RecvCap \in Nat
      BY UsbAssumption, RequestsAssumption DEF DevStates, Finished, UsbAssumption, RequestsAssumption
    <3> QED
      BY <1>6, <2>1, <3>1
  <2>3. PICK t : t = [s EXCEPT !.d.ktrw = k]
    OBVIOUS
  <2>4. PICK c : c = [d EXCEPT !.ktrw = k]
    OBVIOUS
  <2>5. t = St(c, reg)
    <3>1. t.d = [s.d EXCEPT !.ktrw = k] /\ t.r = s.r
      BY <1>3, <2>3
    <3>2. t = [d |-> t.d, r |-> t.r]
      BY <1>3, <2>3
    <3> QED
      BY <1>3, <2>4, <3>1, <3>2, Zenon DEF St
  <2>6. DataCallback(s) = Answer(TRUE, t)
    <3>1. ktrw_recv_done(s) = Answer(TRUE, [s EXCEPT !.d.ktrw = s.d.ktrw + s.d.out.size])
      BY <1>3, <1>6, Zenon DEF ktrw_recv_done
    <3> QED
      BY <1>3, <1>4, <2>1, <2>3, <3>1, Zenon
  <2>7. /\ c \in DevStates /\ c.in = d.in /\ c.out = d.out /\ c.setup = d.setup
        /\ c.ep2 = d.ep2 /\ c.cb2 = d.cb2 /\ c.cap = d.cap /\ c.xfer = d.xfer
        /\ c.count = d.count /\ c.waiting = d.waiting
    BY <2>2, <2>4 DEF DevStates
  <2>8. DataCallback(St(d, reg)) = Answer(TRUE, St(c, reg))
    BY <1>2, <2>5, <2>6, Zenon
  <2>9. /\ dev' \in DevStates /\ reg' \in RegStates /\ reg'.in0 = 0 /\ ~dev'.out.recv
        /\ dev'.ep2 = c.ep2 /\ dev'.cb2 = c.cb2 /\ dev'.cap = c.cap /\ dev'.xfer = c.xfer
        /\ dev'.count = c.count /\ dev'.waiting = c.waiting
        /\ reg'.on2 = reg.on2 /\ reg'.left2 = reg.left2 /\ reg'.pkts2 = reg.pkts2
        /\ reg'.addr2 = reg.addr2
        /\ Phase'
    <3>1. reg \in RegStates
      BY <1>1 DEF Fields
    <3> QED
      BY <2>7, <2>8, <3>1, OutDataAccepted
  <2>10. LoaderKept /\ Ep2Kept /\ dev'.cap = dev.cap
    BY <2>7, <2>9 DEF Finished, Arrived, LoaderKept, Ep2Kept
  <2>11. mem' = mem
    BY <1>1, <2>10 DEF Fields, DevStates
  <2>12. host.req.op \notin {"upload", "resize"}
    BY DEF Finished
  <2> QED
    BY <1>1, <2>9, <2>10, <2>11, <2>12, Out0Control
<1> QED
  BY <1>5, <1>6

\* The size of the loader's buffer is set, and an upload begins.
LEMMA OutDataResize ==
  ASSUME IInv, Ep0OutData, NEW d \in DevStates, Finished(d), d.cb = "resize",
         dev.out.recv, dev.setup = host.req, dev.cb = host.req.op
  PROVE  IInv'
<1>1. /\ Out0(TRUE) /\ Goto("out2") /\ UNCHANGED shell /\ int.out0 = {"data"}
      /\ mem' = IF dev'.cap > dev.cap THEN Fresh ELSE mem
      /\ Fields /\ usb'.pc = "out2"
  BY OutDataFrame
<1>2. PICK s : s = St(d, reg)
  OBVIOUS
<1>3. s.d = d /\ s.r = reg /\ s \in [d : {d}, r : {reg}]
  BY <1>2, Parts
<1>4. DataCallback(s) = reallocate_loader_xfer_data(s)
  <2>1. PICK x, y, z : /\ x = reallocate_loader_xfer_data(s) /\ y = ktrw_recv_done(s)
                       /\ z = Answer(FALSE, Bug(s, TRUE, "no do cb"))
    OBVIOUS
  <2>2. DataCallback(s) = CASE s.d.cb = "resize" -> x [] s.d.cb = "vendor" -> y [] OTHER -> z
    BY <2>1, Zenon DEF DataCallback
  <2>3. DataCallback(s) = x
    BY <1>3, <2>2
  <2> QED
    BY <2>1, <2>3
<1>5. PICK n : n = RoundUp(d.setup.arg)
  OBVIOUS
<1>6. n \in Nat /\ n > 0 /\ n % BulkMax = 0
  <2>1. BulkMax \in Nat \ {0} /\ d.setup.arg \in Nat /\ d.setup.arg > 0
    BY UsbAssumption, RequestsAssumption DEF Finished, UsbAssumption, RequestsAssumption
  <2>2. PICK a \in Nat : a = d.setup.arg
    BY <2>1
  <2>3. PICK m : m = (a + BulkMax - 1) \div BulkMax
    OBVIOUS
  <2>4. m \in Nat /\ m * BulkMax \in a..(a + BulkMax - 1) /\ (m * BulkMax) % BulkMax = 0
    BY <2>1, <2>3, Rounding
  <2>5. n = m * BulkMax
    BY <1>5, <2>2, <2>3 DEF RoundUp
  <2> QED
    BY <2>1, <2>2, <2>4, <2>5
<1>7. UploadMax \in Nat
  BY UsbAssumption DEF UsbAssumption
<1>8. CASE n > UploadMax
  <2>1. DataCallback(s) = Answer(FALSE, s)
    BY <1>3, <1>4, <1>5, <1>8, Zenon DEF reallocate_loader_xfer_data
  <2> QED
    BY <1>2, <2>1, OutDataRejected
<1>9. CASE ~(n > UploadMax)
  <2>1. n \in 1..UploadMax
    BY <1>6, <1>7, <1>9
  <2>2. ~dev.waiting
    BY DEF IInv, Meet, ResizeOK, Finished
  <2>3. /\ ~dev.cb2 /\ ~dev.ep2.recv /\ int.out2 = FALSE /\ host.bulk = FALSE
    BY <2>2, NoneExpected
  <2>4. PICK m : m = IF dev.cap >= n THEN dev.cap ELSE n
    OBVIOUS
  <2>5. m \in 0..UploadMax /\ n <= m
    BY <1>1, <1>7, <2>1, <2>4 DEF Fields, DevStates
  <2>6. Max({d.cap, n}) = m
    <3>1. d.cap = dev.cap /\ d.cap \in Int /\ n \in Int
      BY <1>6, <1>7 DEF Finished, Arrived, DevStates
    <3> QED
      BY <2>4, <3>1, MaxOf
  <2>7. PICK e : e = [d EXCEPT !.count = 0, !.waiting = TRUE, !.cap = m, !.xfer = n]
    OBVIOUS
  <2>8. /\ e \in DevStates /\ e.in = d.in /\ e.out = d.out /\ e.setup = d.setup /\ e.cb = d.cb
        /\ e.ep2 = d.ep2 /\ e.cb2 = d.cb2 /\ e.cap = m /\ e.xfer = n /\ e.waiting = TRUE
    <3>1. 0 \in 0..UploadMax
      BY <1>7
    <3> QED
      BY <2>1, <2>5, <2>7, <3>1 DEF DevStates
  <2>9. PICK c \in DevStates, b \in RegStates : Transferred(e, reg, n, c, b)
    <3>1. ~e.cb2 /\ ~e.ep2.recv /\ reg \in RegStates
      BY <1>1, <2>3, <2>8 DEF Finished, Arrived, Fields
    <3> QED
      BY <1>6, <2>1, <2>8, <3>1, TransferStates
  <2>10. DataCallback(s) = Answer(TRUE, St(c, b))
    <3>1. PICK t : t = [s EXCEPT !.d.count = 0, !.d.waiting = TRUE, !.d.cap = m, !.d.xfer = n]
      OBVIOUS
    <3>2. t.d = [s.d EXCEPT !.count = 0, !.waiting = TRUE, !.cap = m, !.xfer = n] /\ t.r = s.r
      BY <1>3, <3>1
    <3>3. t = [d |-> t.d, r |-> t.r]
      BY <1>3, <3>1
    <3>4. t = St(e, reg)
      BY <1>3, <2>7, <3>2, <3>3, Zenon DEF St
    <3>5. [s EXCEPT !.d.count = 0, !.d.waiting = TRUE, !.d.cap = Max({@, n}), !.d.xfer = n] = t
      BY <1>3, <2>6, <3>1
    <3>6. reallocate_loader_xfer_data(s) = Answer(TRUE, usb_out_transfer_dma(t, n))
      BY <1>3, <1>5, <1>9, <3>5, Zenon DEF reallocate_loader_xfer_data
    <3>7. usb_out_transfer_dma(St(e, reg), n) = St(c, b)
      BY <2>9 DEF Transferred
    <3> QED
      BY <1>4, <3>4, <3>6, <3>7, Zenon
  <2>11. /\ dev' \in DevStates /\ reg' \in RegStates /\ reg'.in0 = 0 /\ ~dev'.out.recv
         /\ dev'.ep2 = c.ep2 /\ dev'.cb2 = c.cb2 /\ dev'.cap = c.cap /\ dev'.xfer = c.xfer
         /\ dev'.count = c.count /\ dev'.waiting = c.waiting
         /\ reg'.on2 = b.on2 /\ reg'.left2 = b.left2 /\ reg'.pkts2 = b.pkts2
         /\ reg'.addr2 = b.addr2
         /\ Phase'
    <3>1. c.in = d.in /\ c.out = d.out /\ c.setup = d.setup /\ b.stall = reg.stall
      BY <2>8, <2>9 DEF Transferred
    <3> QED
      BY <1>2, <2>10, <3>1, OutDataAccepted
  <2>12. /\ usb.pc = "out0" /\ ~int.reset /\ Passing /\ ~InCommand
         /\ usb' \in UsbStates /\ usb'.pc = "out2" /\ usb'.daint = usb.daint
         /\ int' \in IntStates /\ int'.out0 = {} /\ int'.in0 = FALSE /\ int'.out2 = int.out2
         /\ int'.reset = FALSE
         /\ UNCHANGED <<host, iter>> /\ Daint'
    BY <1>1, Out0Frame
  <2>13. /\ dev'.xfer = n /\ n <= dev'.cap
         /\ dev'.ep2 = Awaiting(n) /\ dev'.cb2 = TRUE /\ dev'.waiting = TRUE
         /\ reg'.on2 = TRUE /\ reg'.left2 = Bulk(Awaiting(n)).n
         /\ reg'.pkts2 = Bulk(Awaiting(n)).pkts
         /\ reg'.addr2 = 0 /\ int'.out2 = FALSE /\ host'.bulk = FALSE
    BY <2>3, <2>5, <2>8, <2>9, <2>11, <2>12 DEF Transferred
  <2>14. BulkInv'
    BY <1>6, <2>1, <2>13, UploadBegins
  <2>15. host.stage = "statusin" /\ host.req.op = "resize" /\ d.setup = host.req
    BY DEF Finished
  <2>16. Meet'
    <3>1. Granting'
      BY <2>11, <2>12, <2>15 DEF Granting
    <3>2. Granted' /\ AwaitHost'
      BY <1>5, <2>12, <2>13, <2>15, <3>1 DEF Granted, AwaitHost
    <3>3. ResizeOK' /\ CommandAfterUpload'
      BY <2>11, <2>12, <2>15 DEF ResizeOK, CommandAfterUpload
    <3> QED
      BY <3>2, <3>3 DEF Meet
  <2>17. mem' \in [1..UploadMax -> 0..UploadMax]
    <3>1. Fresh \in [1..UploadMax -> 0..UploadMax]
      BY <1>7 DEF Fresh
    <3> QED
      BY <1>1, <3>1 DEF Fields
  <2>18. Fields'
    BY <1>1, <2>11, <2>12, <2>17 DEF Fields
  <2>19. Reset' /\ Commands'
    BY <1>1, <2>12 DEF Reset, Commands, InCommand, IInv
  <2> QED
    BY <2>11, <2>12, <2>14, <2>16, <2>18, <2>19 DEF IInv
<1> QED
  BY <1>8, <1>9

\* A packet of the DATA OUT or the STATUS OUT stage.
LEMMA Ep0OutDataInv ==
  ASSUME IInv, Ep0OutData
  PROVE  IInv'
<1>1. Fields /\ (StatusOutDone \/ DataArrived)
  BY OutDataFrame
<1>2. CASE StatusOutDone
  BY <1>2, OutDataStatus
<1>3. CASE DataArrived
  <2>1. /\ host.req.len \in 1..DmaSize /\ host.cnt \in 0..host.req.len
        /\ dev.out.recv /\ dev.setup = host.req /\ dev.cb = host.req.op
    BY <1>1, <1>3, DataPacket
  <2>2. CASE host.cnt < host.req.len
    BY <1>3, <2>2, OutDataMore
  <2>3. CASE host.cnt = host.req.len
    <3>1. PICK d \in DevStates : Finished(d)
      BY <1>3, <2>3, LastPacket
    <3>2. d.cb \in {"resize", "vendor"}
      BY <3>1 DEF Finished
    <3> QED
      BY <2>1, <3>1, <3>2, OutDataVendor, OutDataResize
  <2>4. DmaSize \in Nat
    BY UsbAssumption DEF UsbAssumption
  <2> QED
    BY <2>1, <2>2, <2>3, <2>4
<1> QED
  BY <1>1, <1>2, <1>3

------------------------------------------------------------------------------
(* usb_write_stdin.                                                        *)

\* The line is written.
LEMMA Ep0OutStdinInv ==
  ASSUME IInv, Ep0OutStdin
  PROVE  IInv'
<1>1. /\ Out0(TRUE) /\ Goto("event") /\ UNCHANGED mem /\ int.out0 = {"data"}
      /\ IsStdin(Out0After(Cur))
      /\ dev' = Out0After(Cur).d /\ reg' = Out0After(Cur).r
      /\ shell' = [shell EXCEPT !.lines = Min({@ + 1, LinesMax}),
                                !.careful = dev.wait /\ shell.pc = "idle" /\ shell.lines = 0]
  BY DEF Ep0OutStdin, Out0, Becomes
<1>2. /\ Fields /\ usb.pc = "out0" /\ "out0" \in usb.daint /\ ~int.in0 /\ ~int.reset
      /\ int.out0 # {} /\ Passing /\ ~InCommand
      /\ usb' \in UsbStates /\ usb'.pc = "event" /\ usb'.daint = usb.daint
      /\ int' \in IntStates /\ int'.out0 = {} /\ int'.in0 = FALSE /\ int'.out2 = int.out2
      /\ int'.reset = FALSE
      /\ UNCHANGED <<host, iter>> /\ Daint'
  BY <1>1, Out0Frame
<1>3. InRest /\ (StatusOutDone \/ DataArrived)
  <2>1. InRest /\ (StatusDone \/ StatusOutDone \/ SetupArrived \/ DataArrived)
    BY <1>1, <1>2, OutPhases DEF IInv
  <2> QED
    BY <1>1, <2>1 DEF SetupArrived, StatusDone
<1>4. PICK o : o = PacketDone(dev, reg)
  OBVIOUS
<1>5. dev.out.recv /\ o \in Endpoint /\ DataArrived
  <2>1. CASE DataArrived
    BY <1>2, <1>4, <2>1, DataPacket
  <2>2. CASE StatusOutDone
    <3>1. dev.setup.in /\ dev.out.recv
      BY <2>2 DEF StatusOutDone
    <3>2. Out0After(Cur).d.setup = dev.setup
      <4>1. dev \in DevFields /\ Cur = St(dev, reg)
        BY <1>2, Loose DEF Fields
      <4>2. PICK c : c = [dev EXCEPT !.out = o]
        OBVIOUS
      <4>3. Out0After(Cur) = St(c, reg)
        BY <1>4, <3>1, <4>1, <4>2, Out0AfterOf
      <4>4. c.setup = dev.setup
        BY <4>1, <4>2 DEF DevFields
      <4> QED
        BY <4>3, <4>4, StParts
    <3> QED
      BY <1>1, <3>1, <3>2 DEF IsStdin
  <2> QED
    BY <1>3, <2>1, <2>2
<1>6. /\ o.size = host.req.len /\ o.recv = (host.cnt < host.req.len)
      /\ host.req.len \in 1..DmaSize /\ host.cnt \in 0..host.req.len
      /\ dev.setup = host.req /\ host.req \in Requests
      /\ ~host.req.in /\ dev.cb = host.req.op /\ reg.stall = {}
  BY <1>2, <1>4, <1>5, DataPacket
<1>7. PICK d \in DevStates : Arrived(d, o)
  BY <1>2, <1>4, <1>5, Arrives
<1>8. dev' = d /\ reg' = reg
  <2>1. dev' = St(d, reg).d /\ reg' = St(d, reg).r
    BY <1>1, <1>7, Zenon DEF Arrived
  <2> QED
    BY <2>1, StParts
<1>9. /\ dev' \in DevStates /\ dev'.out = o /\ dev'.in = dev.in /\ dev'.setup = dev.setup
      /\ dev'.cb = dev.cb /\ dev'.wait = dev.wait /\ LoaderKept /\ Ep2Kept /\ reg' \in RegStates
  BY <1>2, <1>7, <1>8 DEF Arrived, LoaderKept, Ep2Kept, Fields
<1>10. ~dev'.out.recv /\ host.req.op = "stdin"
  BY <1>1, <1>6, <1>9 DEF IsStdin
<1>11. host.stage = "statusin" /\ reg.out0 = "off"
  <2>1. ~(host.cnt < host.req.len)
    BY <1>6, <1>9, <1>10
  <2>2. DmaSize \in Nat
    BY UsbAssumption DEF UsbAssumption
  <2>3. host.cnt = host.req.len
    BY <1>6, <2>1, <2>2
  <2> QED
    BY <1>5, <2>3 DEF DataArrived
<1>12. Phase'
  <2>1. InRest' /\ OutRest' /\ Serves'
    BY <1>2, <1>3, <1>6, <1>8, <1>9, <1>10 DEF InRest, OutRest, Serves
  <2>2. InStdin'
    BY <1>2, <1>6, <1>8, <1>10, <1>11, <2>1 DEF InStdin, InCommand
  <2> QED
    BY <2>2 DEF Phase
<1>13. PICK n \in 0..LinesMax : n = Min({shell.lines + 1, LinesMax})
  <2>1. shell.lines \in 0..LinesMax /\ LinesMax \in Nat
    BY <1>2, LinesAssumption DEF Fields, ShellStates, LinesAssumption
  <2>2. PICK l \in Int : l = shell.lines + 1
    BY <2>1
  <2>3. Min({l, LinesMax}) = IF l <= LinesMax THEN l ELSE LinesMax
    BY <2>1, MinOf
  <2> QED
    BY <2>1, <2>2, <2>3
<1>14. shell' \in ShellStates /\ (shell'.careful => dev.wait)
  <2>1. PICK k \in BOOLEAN : k = (dev.wait /\ shell.pc = "idle" /\ shell.lines = 0)
    OBVIOUS
  <2>2. shell' = [shell EXCEPT !.lines = n, !.careful = k]
    BY <1>1, <1>13, <2>1, Zenon
  <2>3. shell' \in ShellStates /\ shell'.careful = k
    BY <1>2, <2>2 DEF Fields, ShellStates
  <2> QED
    BY <2>1, <2>3
<1>15. ~dev.waiting
  BY <1>1, <1>2, <1>10, <1>11 DEF IInv, Meet, CommandAfterUpload
<1>16. Fields' /\ UNCHANGED blk
  BY <1>1, <1>2, <1>9, <1>14 DEF Fields, blk, LoaderKept, Ep2Kept
<1>17. BulkInv'
  BY <1>16, BulkKept DEF IInv
<1>18. Commands' /\ Reset'
  BY <1>2, <1>9, <1>14 DEF Commands, InCommand, Reset
<1>19. Meet'
  BY <1>2, <1>9, <1>10, <1>15 DEF Meet, Granted, Granting, AwaitHost, ResizeOK, CommandAfterUpload, LoaderKept
<1> QED
  BY <1>2, <1>12, <1>16, <1>17, <1>18, <1>19 DEF IInv

\* The command is over.
LEMMA StdinReturnInv ==
  ASSUME IInv, StdinReturn
  PROVE  IInv'
<1>1. /\ Fields /\ usb.pc = "waiting" /\ ~iter /\ usb' = [usb EXCEPT !.pc = "out2"]
      /\ dev' = ep0_out_recv(AfterData(Answer(TRUE, Cur))).d
      /\ reg' = ep0_out_recv(AfterData(Answer(TRUE, Cur))).r
      /\ UNCHANGED <<int, host, mem, shell, iter>>
  BY DEF IInv, StdinReturn, Goto, Becomes, environment
<1>2. InStdin /\ ~dev.waiting /\ InCommand
  BY <1>1, NoUploadInStdin DEF InCommand
<1>3. usb' \in UsbStates /\ usb'.pc = "out2" /\ usb'.daint = usb.daint
  BY <1>1 DEF Fields, UsbStates
<1>4. PICK c \in DevStates, b \in RegStates : Concluded(dev, reg, c, b)
  BY <1>1, <1>2, Conclude DEF Fields, InStdin, InRest, OutRest
<1>5. dev' = c /\ reg' = b
  <2>1. Cur = St(dev, reg)
    BY Loose
  <2>2. dev' = St(c, b).d /\ reg' = St(c, b).r
    BY <1>1, <1>4, <2>1, Zenon DEF Concluded
  <2> QED
    BY <2>2, StParts
<1>6. /\ dev' \in DevStates /\ reg' \in RegStates /\ reg'.in0 = 0 /\ ~dev'.out.recv
      /\ dev'.in.size = ZLP /\ dev'.in.done = 0 /\ dev'.in.flight = 0 /\ dev'.setup = dev.setup
      /\ reg'.out0 = "setup" /\ reg'.stall = reg.stall
      /\ LoaderKept /\ Ep2Kept
  BY <1>4, <1>5 DEF Concluded, LoaderKept, Ep2Kept
<1>7. ~host.req.in
  BY <1>2, RequestsAssumption DEF InStdin, Serves, RequestsAssumption
<1>8. Phase'
  <2>1. StatusIn'
    BY <1>1, <1>2, <1>3, <1>6, <1>7 DEF StatusIn, InStdin, Passing, OutRest, InEmpty, Serves, InRest
  <2> QED
    BY <2>1 DEF Phase
<1>9. Fields' /\ UNCHANGED blk
  BY <1>1, <1>3, <1>6 DEF Fields, blk, LoaderKept, Ep2Kept
<1>10. BulkInv'
  BY <1>9, BulkKept DEF IInv
<1>11. Daint' /\ Reset' /\ Commands'
  BY <1>1, <1>2, <1>3 DEF IInv, Daint, Reset, Commands, InStdin
<1>12. Meet'
  BY <1>1, <1>2, <1>6 DEF Meet, Granted, Granting, AwaitHost, ResizeOK, CommandAfterUpload, LoaderKept,
     InStdin
<1> QED
  BY <1>8, <1>9, <1>10, <1>11, <1>12 DEF IInv

------------------------------------------------------------------------------
(* A bus reset.                                                            *)

\* With nothing to report, no transfer is under way.
LEMMA IdlePhases ==
  ASSUME Phase, host.stage = "idle", int.out0 = {}
  PROVE  Between
BY DEF Phase, Between, StatusDone, StatusOutDone, SetupArrived, Requested, Stalled, SendingData,
   SendingEmpty, SendingMore, SentPart, SentLast, SentEmpty, StatusOut, DataOut, DataArrived,
   InStdin, StatusIn, FirstStage

\* usb_reset, while EP 0 OUT expects nothing.
LEMMA ResetOf ==
  ASSUME NEW d \in DevStates, NEW r \in RegStates, ~d.out.recv
  PROVE  \E c \in DevStates, b \in RegStates :
           /\ usb_reset(St(d, r)) = St(c, b)
           /\ c.in = Idle /\ ~c.out.recv /\ c.setup = d.setup /\ c.cb = d.cb
           /\ ~c.ep2.recv /\ c.cb2 = d.cb2 /\ c.cap = d.cap /\ c.xfer = d.xfer
           /\ c.count = d.count /\ c.waiting = d.waiting
           /\ b.in0 = -1 /\ b.out0 = "setup" /\ b.on2 = FALSE
<1>1. PICK x, y, z : x = Idle /\ y = NotReceiving /\ z = -1
  OBVIOUS
<1>2. x \in InStates /\ y \in Endpoint /\ ~y.recv /\ z \in -1..EP0Max
  BY <1>1, NotReceivingType, UsbAssumption DEF Idle, InStates, UsbAssumption
<1>3. PICK e, f : /\ e = [d EXCEPT !.in = x, !.ep2 = y]
                  /\ f = [r EXCEPT !.in0 = z, !.stall = {}, !.on2 = FALSE]
  OBVIOUS
<1>4. /\ e \in DevStates /\ e.in = x /\ e.ep2 = y /\ e.out = d.out /\ e.setup = d.setup
      /\ e.cb = d.cb /\ e.cb2 = d.cb2 /\ e.cap = d.cap /\ e.xfer = d.xfer
      /\ e.count = d.count /\ e.waiting = d.waiting
  BY <1>2, <1>3 DEF DevStates
<1>5. f \in RegStates /\ f.in0 = z /\ f.on2 = FALSE
  BY <1>2, <1>3 DEF RegStates
<1>6. PICK c \in DevStates, b \in RegStates : Rearmed(e, f, c, b)
  BY <1>4, <1>5, Rearm
<1>7. usb_reset(St(d, r)) = St(c, b)
  <2>1. PICK u : u = St(d, r)
    OBVIOUS
  <2>2. u.d = d /\ u.r = r /\ u \in [d : {d}, r : {r}]
    BY <2>1, Parts
  <2>3. PICK t : t = [u EXCEPT !.d.in = x, !.d.ep2 = y, !.r.in0 = z, !.r.stall = {}, !.r.on2 = FALSE]
    OBVIOUS
  <2>4. /\ t.d = [u.d EXCEPT !.in = x, !.ep2 = y]
        /\ t.r = [u.r EXCEPT !.in0 = z, !.stall = {}, !.on2 = FALSE]
    BY <2>2, <2>3
  <2>5. t = [d |-> t.d, r |-> t.r]
    BY <2>2, <2>3
  <2>6. t = St(e, f)
    BY <1>3, <2>2, <2>4, <2>5, Zenon DEF St
  <2>7. usb_reset(u) = ep0_out_recv(t)
    BY <1>1, <2>3, Zenon DEF usb_reset
  <2> QED
    BY <1>6, <2>1, <2>6, <2>7, Zenon DEF Rearmed
<1>8. /\ c.in = Idle /\ ~c.out.recv /\ c.setup = d.setup /\ c.cb = d.cb
      /\ ~c.ep2.recv /\ c.cb2 = d.cb2 /\ c.cap = d.cap /\ c.xfer = d.xfer
      /\ c.count = d.count /\ c.waiting = d.waiting
      /\ b.in0 = -1 /\ b.out0 = "setup" /\ b.on2 = FALSE
  BY <1>1, <1>2, <1>4, <1>5, <1>6 DEF Rearmed
<1> QED
  BY <1>7, <1>8

\* The driver handles a reset.
LEMMA HandlerResetInv ==
  ASSUME IInv, HandlerReset
  PROVE  IInv'
<1>1. /\ Fields /\ usb.pc = "idle" /\ int.reset
      /\ dev' = usb_reset(Cur).d /\ reg' = usb_reset(Cur).r
      /\ int' = [int EXCEPT !.in0 = FALSE, !.out0 = {}, !.reset = FALSE]
      /\ UNCHANGED <<usb, host, mem, shell, iter>>
  BY DEF IInv, HandlerReset, Becomes, environment
<1>2. host.stage = "idle" /\ ~host.bulk /\ ~int.in0 /\ int.out0 = {} /\ ~dev.waiting
  BY <1>1 DEF IInv, Reset
<1>3. Between
  BY <1>2, IdlePhases DEF IInv
<1>4. /\ int' \in IntStates /\ int'.in0 = FALSE /\ int'.out0 = {} /\ int'.reset = FALSE
      /\ int'.out2 = int.out2
  BY <1>1 DEF Fields, IntStates
<1>5. PICK c \in DevStates, b \in RegStates :
        /\ usb_reset(St(dev, reg)) = St(c, b)
        /\ c.in = Idle /\ ~c.out.recv /\ c.setup = dev.setup /\ c.cb = dev.cb
        /\ ~c.ep2.recv /\ c.cb2 = dev.cb2 /\ c.cap = dev.cap /\ c.xfer = dev.xfer
        /\ c.count = dev.count /\ c.waiting = dev.waiting
        /\ b.in0 = -1 /\ b.out0 = "setup" /\ b.on2 = FALSE
  <2>1. dev \in DevStates /\ reg \in RegStates /\ ~dev.out.recv
    BY <1>1, <1>3 DEF Fields, Between, OutRest
  <2> QED
    BY <2>1, ResetOf
<1>6. dev' = c /\ reg' = b
  <2>1. Cur = St(dev, reg)
    BY Loose
  <2>2. dev' = St(c, b).d /\ reg' = St(c, b).r
    BY <1>1, <1>5, <2>1, Zenon
  <2> QED
    BY <2>2, StParts
<1>7. Idle.size = 0 /\ Idle.done = 0 /\ Idle.flight = 0
  BY DEF Idle
<1>8. Fields'
  BY <1>1, <1>4, <1>5, <1>6 DEF Fields
<1>9. Phase'
  <2>1. InRest' /\ OutRest' /\ Passing'
    BY <1>1, <1>4, <1>5, <1>6, <1>7 DEF InRest, OutRest, Passing
  <2>2. Between'
    BY <1>1, <1>2, <1>5, <1>6, <2>1 DEF Between, InQuiet
  <2> QED
    BY <2>2 DEF Phase
<1>10. BulkInv'
  <2>1. UploadFlags' /\ Sizes'
    BY <1>2, <1>5, <1>6 DEF IInv, BulkInv, UploadFlags, Sizes
  <2>2. Expecting' /\ Uploading'
    BY <1>1, <1>2, <1>5, <1>6 DEF Expecting, Uploading
  <2>3. Uploaded'
    BY <1>1, <1>2, <1>4, <1>5, <1>6 DEF IInv, BulkInv, Uploaded, InOrder
  <2> QED
    BY <2>1, <2>2, <2>3 DEF BulkInv
<1>11. Daint' /\ Reset' /\ Commands'
  BY <1>1, <1>4 DEF IInv, Daint, Reset, Commands, InCommand
<1>12. Meet'
  BY <1>1, <1>2, <1>5, <1>6 DEF Meet, Granted, Granting, AwaitHost, ResizeOK, CommandAfterUpload
<1> QED
  BY <1>8, <1>9, <1>10, <1>11, <1>12 DEF IInv

\* A host that has nothing under way resets the bus.
LEMMA HostResetInv ==
  ASSUME IInv, HostReset, ~Unruly
  PROVE  IInv'
<1>1. /\ Fields /\ usb.pc = "idle" /\ ~int.in0 /\ int.out0 = {} /\ ~int.out2
      /\ host.stage = "idle" /\ ~host.bulk
      /\ int' = [int EXCEPT !.reset = TRUE]
      /\ host' = [host EXCEPT !.stage = "idle", !.bulk = FALSE]
      /\ UNCHANGED <<dev, reg, usb, mem, shell, iter>>
  BY DEF IInv, HostReset, NothingPending, HostQuiet
<1>2. /\ int' \in IntStates /\ int'.in0 = int.in0 /\ int'.out0 = int.out0 /\ int'.out2 = int.out2
  BY <1>1 DEF Fields, IntStates
<1>3. /\ host' \in HostStates /\ host'.stage = host.stage /\ host'.req = host.req
      /\ host'.cnt = host.cnt /\ host'.bulk = host.bulk /\ host'.up = host.up
      /\ host'.sent = host.sent /\ host'.have = host.have
  BY <1>1 DEF Fields, HostStates
<1>4. ~dev.waiting
  BY <1>1 DEF IInv, Meet, AwaitHost, Granting
<1>5. Fields' /\ UNCHANGED blk /\ UNCHANGED ctl
  BY <1>1, <1>2, <1>3 DEF Fields, blk, ctl
<1>6. BulkInv'
  BY <1>5, BulkKept DEF IInv
<1>7. Phase'
  <2>1. (Passing' <=> Passing) /\ (InCommand' <=> InCommand)
    BY <1>1 DEF Passing, InCommand
  <2> QED
    BY <1>1, <1>5, <2>1, PhaseKept DEF IInv
<1>8. Daint' /\ Reset' /\ Commands'
  BY <1>1, <1>2, <1>3, <1>4 DEF IInv, Daint, Reset, Commands, InCommand
<1>9. Meet'
  BY <1>1, <1>3, <1>4 DEF Meet, Granted, Granting, AwaitHost, ResizeOK, CommandAfterUpload
<1> QED
  BY <1>5, <1>6, <1>7, <1>8, <1>9 DEF IInv

------------------------------------------------------------------------------
(* The host: control transfers.                                            *)

\* A step of the host on the control pipe.
LEMMA HostPass ==
  ASSUME IInv, UNCHANGED <<dev, usb, mem, shell, iter>>, Ep2Kept,
         reg' \in RegStates, int' \in IntStates, host' \in HostStates,
         int'.out2 = int.out2, int'.reset = int.reset, ~int.reset,
         UNCHANGED <<host.bulk, host.up, host.sent, host.have>>,
         Phase', Daint', ~Granting, ~Granting', CommandAfterUpload'
  PROVE  IInv'
<1>1. Fields' /\ UNCHANGED blk
  BY DEF IInv, Fields, blk, Ep2Kept
<1>2. BulkInv'
  BY <1>1, BulkKept DEF IInv
<1>3. Reset' /\ Commands'
  BY DEF IInv, Reset, Commands, InCommand
<1>4. Meet'
  BY DEF IInv, Meet, Granted, AwaitHost, ResizeOK
<1> QED
  BY <1>1, <1>2, <1>3, <1>4 DEF IInv

\* The host's record of a control transfer changes.
HostAt(h, g, q, n) == [h EXCEPT !.stage = g, !.req = q, !.cnt = n]
Stages == {"idle", "datain", "statusout", "dataout", "statusin"}

\* The fields of that record.
LEMMA HostOf ==
  ASSUME NEW h \in HostStates, NEW g \in Stages, NEW q \in Request, NEW n \in Int
  PROVE  /\ HostAt(h, g, q, n) \in HostStates /\ HostAt(h, g, q, n).stage = g
         /\ HostAt(h, g, q, n).req = q /\ HostAt(h, g, q, n).cnt = n
         /\ HostAt(h, g, q, n).bulk = h.bulk /\ HostAt(h, g, q, n).up = h.up
         /\ HostAt(h, g, q, n).sent = h.sent /\ HostAt(h, g, q, n).have = h.have
BY DEF HostStates, Stages, HostAt

\* A SETUP packet, from a host that has finished its last transfer.
LEMMA HostSetupInv ==
  ASSUME IInv, NEW r \in Requests, HostSetup(r), ~Unruly
  PROVE  IInv'
<1>1. /\ Fields /\ ~int.reset /\ reg.out0 # "off" /\ host.stage = "idle"
      /\ (r.op = "stdin" => ~host.bulk)
      /\ reg' = [reg EXCEPT !.dma0 = r, !.stall = {}, !.out0 = "off"]
      /\ int' = [int EXCEPT !.out0 = @ \cup {"setup"}]
      /\ host' = [host EXCEPT !.stage = FirstStage(r), !.req = r, !.cnt = 0]
      /\ UNCHANGED <<dev, usb, mem, shell, iter>>
  BY DEF IInv, HostSetup
<1>2. Between
  BY <1>1 DEF IInv, Phase, StatusDone, StatusOutDone, SetupArrived, Requested, Stalled, SendingData,
     SendingEmpty, SendingMore, SentPart, SentLast, SentEmpty, StatusOut, DataOut, DataArrived,
     InStdin, StatusIn
<1>3. reg.in0 = -1 /\ int.out0 = {} /\ Passing /\ InQuiet /\ ~dev.out.recv
  BY <1>2 DEF Between, InQuiet, InRest, InTaken, OutRest
<1>4. /\ reg' \in RegStates /\ reg'.in0 = reg.in0 /\ reg'.dma0 = r /\ reg'.stall = {}
      /\ reg'.out0 = "off" /\ Ep2Kept
  <2>1. r \in Request
    BY DEF Request
  <2> QED
    BY <1>1, <2>1 DEF Fields, RegStates, Ep2Kept
<1>5. /\ int' \in IntStates /\ int'.in0 = int.in0 /\ int'.out2 = int.out2 /\ int'.reset = int.reset
      /\ int'.out0 = {"setup"}
  <2>1. PICK z : z = int.out0 \cup {"setup"}
    OBVIOUS
  <2>2. int' = [int EXCEPT !.out0 = z] /\ z = {"setup"}
    BY <1>1, <1>3, <2>1
  <2> QED
    BY <1>1, <2>2 DEF Fields, IntStates
<1>6. PICK g : g = FirstStage(r)
  OBVIOUS
<1>7. g \in {"datain", "dataout", "statusin"}
  BY <1>6 DEF FirstStage
<1>8. /\ host' \in HostStates /\ host'.stage = g /\ host'.req = r /\ host'.cnt = 0
      /\ host'.bulk = host.bulk /\ host'.up = host.up /\ host'.sent = host.sent
      /\ host'.have = host.have
  <2>1. r \in Request /\ host' = HostAt(host, g, r, 0)
    BY <1>1, <1>6, Zenon DEF Request, HostAt
  <2>2. host \in HostStates /\ 0 \in Int /\ g \in Stages
    BY <1>1, <1>7 DEF Fields, Stages
  <2> QED
    BY <2>1, <2>2, HostOf
<1>9. Phase'
  <2>1. Passing' /\ InQuiet'
    BY <1>1, <1>3, <1>4, <1>5 DEF Passing, InQuiet, InRest, InTaken, InEmpty
  <2>2. SetupArrived'
    BY <1>1, <1>3, <1>4, <1>5, <1>6, <1>8, <2>1 DEF SetupArrived
  <2> QED
    BY <2>2 DEF Phase
<1>10. Daint'
  BY <1>1, <1>3, <1>5 DEF IInv, Daint
<1>11. ~Granting /\ ~Granting'
  <2>1. reg.in0 # 0 /\ reg'.in0 # 0
    BY <1>3, <1>4
  <2> QED
    BY <2>1 DEF Granting
<1>12. CommandAfterUpload'
  <2>1. dev.waiting /\ ~host.bulk => int.out2
    BY <1>11 DEF IInv, Meet, AwaitHost
  <2>2. ~(usb.pc \in {"in0", "out0"} /\ "out0" \in usb.daint)
    BY <1>3 DEF IInv, Daint
  <2>3. Passing'
    BY <1>1, <1>3 DEF Passing
  <2> QED
    BY <1>1, <1>5, <1>8, <2>1, <2>2, <2>3 DEF CommandAfterUpload
<1> QED
  BY <1>1, <1>4, <1>5, <1>8, <1>9, <1>10, <1>11, <1>12, HostPass

\* While a transfer is under way no reset is pending.
LEMMA NoReset ==
  ASSUME IInv, host.stage # "idle"
  PROVE  ~int.reset
BY DEF IInv, Reset

\* The host gives a transfer up that the driver refuses.
LEMMA HostStalledInv ==
  ASSUME IInv, HostStalled
  PROVE  IInv'
<1>1. /\ Fields
      /\ \/ host.stage \in {"datain", "statusin"} /\ "in" \in reg.stall
         \/ host.stage \in {"dataout", "statusout"} /\ "out" \in reg.stall
      /\ host' = [host EXCEPT !.stage = "idle", !.req = NoRequest, !.cnt = 0]
      /\ UNCHANGED <<dev, reg, int, usb, mem, shell, iter>>
  BY DEF IInv, HostStalled
<1>2. Stalled
  BY <1>1 DEF IInv, Phase, Between, StatusDone, StatusOutDone, SetupArrived, Requested, SendingData,
     SendingEmpty, SendingMore, SentPart, SentLast, SentEmpty, Answering, StatusOut, DataOut,
     DataArrived, Receiving, InStdin, StatusIn
<1>3. /\ host' \in HostStates /\ host'.stage = "idle"
      /\ host'.bulk = host.bulk /\ host'.up = host.up /\ host'.sent = host.sent
      /\ host'.have = host.have
  <2>1. PICK n : n = NoRequest
    OBVIOUS
  <2>2. n \in Request /\ host' = HostAt(host, "idle", n, 0)
    BY <1>1, <2>1, Zenon DEF Request, HostAt
  <2>3. host \in HostStates /\ 0 \in Int /\ "idle" \in Stages
    BY <1>1 DEF Fields, Stages
  <2> QED
    BY <2>2, <2>3, HostOf
<1>4. Phase'
  <2>1. InRest' /\ OutRest' /\ Passing'
    BY <1>1, <1>2 DEF Stalled, InRest, OutRest, Passing
  <2>2. Between'
    BY <1>1, <1>2, <1>3, <2>1 DEF Between, Stalled, InQuiet
  <2> QED
    BY <2>2 DEF Phase
<1>5. Daint'
  BY <1>1 DEF IInv, Daint
<1>6. ~Granting /\ ~Granting'
  <2>1. reg.in0 = -1
    BY <1>2 DEF Stalled, InRest
  <2>2. reg.in0 # 0
    BY <2>1
  <2> QED
    BY <1>1, <2>2 DEF Granting
<1>7. CommandAfterUpload'
  BY <1>3 DEF CommandAfterUpload
<1>8. ~int.reset
  BY <1>1, NoReset
<1> QED
  BY <1>1, <1>3, <1>4, <1>5, <1>6, <1>7, <1>8, HostPass DEF Ep2Kept, Fields

\* The host takes a packet of the answer.
LEMMA HostInInv ==
  ASSUME IInv, HostIn
  PROVE  IInv'
<1>1. PICK got : got = host.cnt + reg.in0
  OBVIOUS
<1>2. PICK g : g = IF reg.in0 < EP0Max \/ got >= host.req.len THEN "statusout" ELSE "datain"
  OBVIOUS
<1>3. /\ Fields /\ host.stage = "datain" /\ "in" \notin reg.stall /\ reg.in0 >= 0
      /\ host' = [host EXCEPT !.cnt = got, !.stage = g]
      /\ reg' = [reg EXCEPT !.in0 = -1] /\ int' = [int EXCEPT !.in0 = TRUE]
      /\ UNCHANGED <<dev, usb, mem, shell, iter>>
  BY <1>1, <1>2 DEF IInv, HostIn
<1>4. SendingData \/ SendingEmpty
  <2>1. reg.in0 # -1
    BY <1>3
  <2> QED
    BY <1>3, <2>1 DEF IInv, Phase, Between, StatusDone, StatusOutDone, SetupArrived, Requested, Stalled,
       SendingMore, SentPart, SentLast, SentEmpty, StatusOut, DataOut, DataArrived, Receiving,
       InStdin, StatusIn, InQuiet, InRest, InTaken
<1>5. Answering /\ reg.in0 = dev.in.flight /\ ~int.in0 /\ Serves /\ OutRest
  BY <1>4 DEF SendingData, SendingEmpty, Answering
<1>6. /\ reg' \in RegStates /\ reg'.in0 = -1 /\ reg'.out0 = reg.out0 /\ reg'.stall = reg.stall /\ Ep2Kept
  <2>1. PICK z : z = -1
    OBVIOUS
  <2>2. z \in -1..EP0Max /\ reg' = [reg EXCEPT !.in0 = z]
    BY <1>3, <2>1, UsbAssumption DEF UsbAssumption
  <2> QED
    BY <1>3, <2>1, <2>2 DEF Fields, RegStates, Ep2Kept
<1>7. /\ int' \in IntStates /\ int'.in0 = TRUE /\ int'.out0 = int.out0 /\ int'.out2 = int.out2
      /\ int'.reset = int.reset
  BY <1>3 DEF Fields, IntStates
<1>8. got \in Int /\ g \in {"datain", "statusout"}
  BY <1>1, <1>2, <1>3, UsbAssumption DEF Fields, HostStates, RegStates, UsbAssumption
<1>9. /\ host' \in HostStates /\ host'.stage = g /\ host'.req = host.req /\ host'.cnt = got
      /\ host'.bulk = host.bulk /\ host'.up = host.up /\ host'.sent = host.sent
      /\ host'.have = host.have
  BY <1>3, <1>8 DEF Fields, HostStates
<1>10. Answering' /\ AnswerLen' = AnswerLen
  BY <1>3, <1>5, <1>6, <1>7, <1>9 DEF Answering, AnswerLen, Passing, OutRest, Serves
<1>11. Phase'
  <2>1. CASE SendingEmpty
    <3>1. InEmpty /\ dev.in.flight = 0 /\ host.cnt = AnswerLen
      BY <2>1 DEF SendingEmpty, InEmpty
    <3>2. AnswerLen \in Nat /\ EP0Max \in Nat \ {0}
      BY <1>3, <1>5, AnswerOf, UsbAssumption DEF UsbAssumption
    <3>3. got = AnswerLen /\ g = "statusout"
      BY <1>1, <1>2, <1>5, <3>1, <3>2
    <3>4. InEmpty'
      BY <1>3, <3>1 DEF InEmpty
    <3>5. SentEmpty'
      BY <1>6, <1>7, <1>9, <1>10, <3>3, <3>4 DEF SentEmpty
    <3> QED
      BY <3>5 DEF Phase
  <2>2. CASE SendingData
    <3>1. InData /\ dev.in.done = host.cnt
      BY <2>2 DEF SendingData
    <3>2. InData'
      BY <1>3, <1>10, <3>1 DEF InData
    <3>3. /\ dev.in.size \in 1..DmaSize /\ dev.in.done \in 0..(DmaSize - 1)
          /\ dev.in.flight = IF dev.in.size - dev.in.done <= EP0Max THEN dev.in.size - dev.in.done
                             ELSE EP0Max
      BY <1>3, <1>5, <3>1, DataOf
    <3>4. dev.in.size = AnswerLen /\ AnswerLen <= host.req.len /\ host.req.len \in Nat
      BY <1>3, <1>5, <3>1, AnswerOf DEF InData
    <3>5. EP0Max \in Nat \ {0} /\ DmaSize \in Nat
      BY UsbAssumption DEF UsbAssumption
    <3>6. got = dev.in.done + dev.in.flight
      BY <1>1, <1>5, <3>1
    <3>7. CASE g = "statusout"
      <4>1. reg.in0 < EP0Max \/ got >= host.req.len
        BY <1>2, <3>7
      <4>2. got = AnswerLen
        BY <1>5, <3>3, <3>4, <3>5, <3>6, <4>1
      <4>3. SentLast'
        BY <1>3, <1>6, <1>7, <1>9, <1>10, <3>2, <3>6, <3>7, <4>2 DEF SentLast
      <4> QED
        BY <4>3 DEF Phase
    <3>8. CASE g = "datain"
      <4>1. ~(reg.in0 < EP0Max \/ got >= host.req.len)
        BY <1>2, <3>8
      <4>2. dev.in.flight = EP0Max /\ got < host.req.len
        BY <1>5, <1>8, <3>3, <3>4, <3>5, <3>6, <4>1
      <4>3. SentPart'
        BY <1>3, <1>6, <1>7, <1>9, <1>10, <3>2, <3>6, <3>8, <4>2 DEF SentPart
      <4> QED
        BY <4>3 DEF Phase
    <3> QED
      BY <1>8, <3>7, <3>8
  <2> QED
    BY <1>4, <2>1, <2>2
<1>12. Daint'
  BY <1>3, <1>5, <1>7 DEF IInv, Daint, OutRest
<1>13. ~Granting /\ ~Granting'
  BY <1>3, <1>8, <1>9 DEF Granting
<1>14. CommandAfterUpload'
  BY <1>5, <1>9 DEF CommandAfterUpload, Answering
<1>15. ~int.reset
  BY <1>3, NoReset
<1> QED
  BY <1>3, <1>6, <1>7, <1>9, <1>11, <1>12, <1>13, <1>14, <1>15, HostPass

\* The host sends a packet on EP 0 OUT.
LEMMA HostOutInv ==
  ASSUME IInv, HostOut
  PROVE  IInv'
<1>1. PICK n : n = IF host.stage = "statusout" THEN 0 ELSE Min({EP0Max, host.req.len - host.cnt})
  OBVIOUS
<1>2. PICK got, left : got = host.cnt + n /\ left = EP0Max - n
  OBVIOUS
<1>3. PICK g : g = IF got = host.req.len THEN "statusin" ELSE host.stage
  OBVIOUS
<1>4. /\ Fields /\ host.stage \in {"statusout", "dataout"}
      /\ "out" \notin reg.stall /\ reg.out0 = "data"
      /\ reg' = [reg EXCEPT !.left0 = left, !.out0 = "off"]
      /\ host' = IF host.stage = "statusout"
                 THEN [host EXCEPT !.stage = "idle", !.req = NoRequest, !.cnt = 0]
                 ELSE [host EXCEPT !.cnt = got, !.stage = g]
      /\ int' = [int EXCEPT !.out0 = @ \cup {"data"}]
      /\ UNCHANGED <<dev, usb, mem, shell, iter>>
  BY <1>1, <1>2, <1>3 DEF IInv, HostOut
<1>5. StatusOut \/ DataOut
  BY <1>4 DEF IInv, Phase, Between, StatusDone, StatusOutDone, SetupArrived, Requested, Stalled,
     SendingData, SendingEmpty, SendingMore, SentPart, SentLast, SentEmpty, Answering, DataArrived,
     InStdin, StatusIn
<1>6. Passing /\ InRest /\ Serves /\ int.out0 = {} /\ reg.stall = {} /\ dev.out.recv
  BY <1>5 DEF StatusOut, DataOut, Receiving
<1>7. reg.in0 = -1 /\ ~int.in0
  BY <1>6 DEF InRest
<1>8. /\ int' \in IntStates /\ int'.in0 = int.in0 /\ int'.out2 = int.out2 /\ int'.reset = int.reset
      /\ int'.out0 = {"data"}
  <2>1. PICK z : z = int.out0 \cup {"data"}
    OBVIOUS
  <2>2. int' = [int EXCEPT !.out0 = z] /\ z = {"data"}
    BY <1>4, <1>6, <2>1
  <2> QED
    BY <1>4, <2>2 DEF Fields, IntStates
<1>9. /\ host \in HostStates /\ 0 \in Int /\ "idle" \in Stages
      /\ EP0Max \in Nat \ {0} /\ DmaSize \in Nat
  BY <1>4, UsbAssumption DEF Fields, Stages, UsbAssumption
<1>10. ASSUME left \in 0..EP0Max
       PROVE  /\ reg' \in RegStates /\ reg'.in0 = reg.in0 /\ reg'.out0 = "off" /\ reg'.left0 = left
              /\ reg'.stall = reg.stall /\ Ep2Kept
  BY <1>4, <1>10 DEF Fields, RegStates, Ep2Kept
<1>11. Daint' /\ Passing'
  BY <1>4, <1>6, <1>7, <1>8 DEF IInv, Daint, Passing
<1>12. ~int.reset
  BY <1>4, NoReset
<1>13. CASE StatusOut
  <2>1. host.stage = "statusout" /\ host.req.in /\ dev.out.size = ZLP /\ dev.out.done = 0
    BY <1>13 DEF StatusOut
  <2>2. n = 0 /\ left = EP0Max /\ left \in 0..EP0Max
    BY <1>1, <1>2, <1>9, <2>1
  <2>3. PICK q : q = NoRequest
    OBVIOUS
  <2>4. q \in Request /\ host' = HostAt(host, "idle", q, 0)
    BY <1>4, <2>1, <2>3, Zenon DEF Request, HostAt
  <2>5. /\ host' \in HostStates /\ host'.stage = "idle"
        /\ host'.bulk = host.bulk /\ host'.up = host.up /\ host'.sent = host.sent
        /\ host'.have = host.have
    BY <1>9, <2>4, HostOf
  <2>6. Phase'
    <3>1. InRest'
      BY <1>4, <1>6, <1>8, <1>10, <2>2 DEF InRest
    <3>2. StatusOutDone'
      BY <1>4, <1>6, <1>8, <1>10, <1>11, <2>1, <2>2, <2>5, <3>1 DEF StatusOutDone, Serves
    <3> QED
      BY <3>2 DEF Phase
  <2>7. ~Granting /\ ~Granting'
    BY <2>1, <2>5 DEF Granting
  <2>8. CommandAfterUpload'
    BY <2>5 DEF CommandAfterUpload
  <2> QED
    BY <1>4, <1>8, <1>10, <1>11, <1>12, <2>2, <2>5, <2>6, <2>7, <2>8, HostPass
<1>14. CASE DataOut
  <2>1. /\ Receiving /\ host.stage = "dataout" /\ host.cnt = dev.out.done
        /\ host.req.len \in 1..DmaSize /\ dev.out.size = host.req.len /\ dev.out.done < dev.out.size
    BY <1>14 DEF DataOut, Receiving
  <2>2. host.cnt \in Nat /\ host.cnt < host.req.len /\ host.req.len \in Int
    BY <1>4, <1>9, <2>1, UsbAssumption DEF Fields, DevStates, Endpoint, UsbAssumption
  <2>3. n = IF EP0Max <= host.req.len - host.cnt THEN EP0Max ELSE host.req.len - host.cnt
    <3>1. EP0Max \in Int /\ host.req.len - host.cnt \in Int
      BY <1>9, <2>2
    <3>2. n = Min({EP0Max, host.req.len - host.cnt})
      BY <1>1, <2>1
    <3> QED
      BY <3>1, <3>2, MinOf
  <2>4. /\ left \in 0..EP0Max /\ got \in Int /\ got = dev.out.done + (EP0Max - left)
        /\ got <= host.req.len /\ (left # 0 => got = host.req.len)
    BY <1>2, <1>9, <2>1, <2>2, <2>3
  <2>5. g \in {"statusin", "dataout"} /\ g = IF got = host.req.len THEN "statusin" ELSE "dataout"
    BY <1>3, <2>1
  <2>6. /\ host' \in HostStates /\ host'.stage = g /\ host'.req = host.req /\ host'.cnt = got
        /\ host'.bulk = host.bulk /\ host'.up = host.up /\ host'.sent = host.sent
        /\ host'.have = host.have
    BY <1>4, <1>9, <2>1, <2>4, <2>5 DEF HostStates
  <2>7. /\ reg' \in RegStates /\ reg'.in0 = reg.in0 /\ reg'.out0 = "off" /\ reg'.left0 = left
        /\ reg'.stall = reg.stall /\ Ep2Kept
    BY <1>10, <2>4
  <2>8. Phase'
    <3>1. InRest' /\ Serves'
      BY <1>4, <1>6, <1>8, <2>6, <2>7 DEF InRest, Serves
    <3>2. Receiving'
      BY <1>4, <1>11, <2>1, <2>6, <2>7, <3>1 DEF Receiving
    <3>3. DataArrived'
      BY <1>4, <1>8, <2>4, <2>5, <2>6, <2>7, <3>2 DEF DataArrived
    <3> QED
      BY <3>3 DEF Phase
  <2>9. ~Granting /\ ~Granting'
    <3>1. reg.in0 # 0 /\ reg'.in0 # 0
      BY <1>7, <2>7
    <3> QED
      BY <3>1 DEF Granting
  <2>10. CommandAfterUpload'
    BY <1>4, <1>6, <1>8, <2>1, <2>6 DEF IInv, Meet, CommandAfterUpload
  <2> QED
    BY <1>4, <1>8, <1>11, <1>12, <2>6, <2>7, <2>8, <2>9, <2>10, HostPass
<1> QED
  BY <1>5, <1>13, <1>14

\* An upload is granted to the host.
LEMMA UploadGranted ==
  ASSUME IInv, Granting, StatusIn, NEW u \in Nat, u <= dev.xfer,
         UNCHANGED dev, Ep2Kept, int'.out2 = int.out2,
         host'.bulk = TRUE, host'.up = u, host'.sent = 0
  PROVE  BulkInv'
<1>1. dev.waiting /\ reg.on2 /\ reg.addr2 = 0
  BY DEF IInv, Meet, Granted
<1>2. /\ Expecting /\ UploadFlags /\ Sizes /\ ~int.out2 /\ dev.xfer \in 1..UploadMax
  BY <1>1 DEF IInv, BulkInv, Expecting, Fields, DevStates
<1>3. UploadFlags' /\ Sizes'
  BY <1>2 DEF UploadFlags, Sizes
<1>4. Expecting'
  <2>1. Got' = Got
    BY DEF Got, Ep2Kept
  <2> QED
    BY <1>1, <1>2, <2>1 DEF Expecting, Ep2Kept
<1>5. Uploading'
  <2>1. 0 % BulkMax = 0 /\ UploadMax \in Nat
    BY UsbAssumption, SmallMod DEF UsbAssumption
  <2>2. 0 \in 0..u /\ u \in 0..dev.xfer /\ 0 < dev.xfer
    BY <1>2, <2>1
  <2>3. InOrder(0)'
    BY DEF InOrder
  <2>4. dev'.waiting /\ reg'.addr2 = 0
    BY <1>1 DEF Ep2Kept
  <2> QED
    BY <2>1, <2>2, <2>3, <2>4 DEF Uploading
<1>6. Uploaded'
  BY <1>1 DEF Uploaded
<1> QED
  BY <1>3, <1>4, <1>5, <1>6 DEF BulkInv

\* The host takes the empty packet of STATUS IN.
LEMMA HostStatusInInv ==
  ASSUME IInv, HostStatusIn
  PROVE  IInv'
<1>1. PICK o, z : /\ o = IF host.req.len > 0 THEN "off" ELSE reg.out0
                  /\ z = IF host.req.len > 0 THEN int.out0 \cup {"status"} ELSE int.out0
  OBVIOUS
<1>2. /\ Fields /\ host.stage = "statusin" /\ "in" \notin reg.stall /\ reg.in0 >= 0
      /\ reg' = [reg EXCEPT !.in0 = -1, !.out0 = o]
      /\ int' = [int EXCEPT !.in0 = TRUE, !.out0 = z]
      /\ UNCHANGED <<dev, usb, shell, iter>>
  BY <1>1 DEF IInv, HostStatusIn
<1>3. StatusIn
  <2>1. reg.in0 # -1
    BY <1>2
  <2> QED
    BY <1>2, <2>1 DEF IInv, Phase, Between, StatusDone, StatusOutDone, SetupArrived, Requested, Stalled,
       SendingData, SendingEmpty, SendingMore, SentPart, SentLast, SentEmpty, StatusOut, DataOut,
       DataArrived, Receiving, InStdin, InQuiet, InRest, InTaken
<1>4. /\ Passing /\ OutRest /\ InEmpty /\ reg.in0 = 0 /\ ~int.in0 /\ reg.out0 = "setup"
      /\ Serves /\ ~host.req.in /\ int.out0 = {} /\ ~dev.out.recv
  BY <1>3 DEF StatusIn, OutRest
<1>5. /\ reg' \in RegStates /\ reg'.in0 = -1 /\ reg'.out0 = o /\ Ep2Kept
  <2>1. PICK w : w = -1
    OBVIOUS
  <2>2. w \in -1..EP0Max /\ reg' = [reg EXCEPT !.in0 = w, !.out0 = o] /\ o \in {"off", "setup"}
    BY <1>1, <1>2, <1>4, <2>1, UsbAssumption DEF UsbAssumption
  <2> QED
    BY <1>2, <2>1, <2>2 DEF Fields, RegStates, Ep2Kept
<1>6. /\ int' \in IntStates /\ int'.in0 = TRUE /\ int'.out0 = z /\ int'.out2 = int.out2
      /\ int'.reset = int.reset /\ z \in {{}, {"status"}}
  <2>1. z \in {{}, {"status"}}
    BY <1>1, <1>4
  <2>2. z \in SUBSET {"setup", "data", "status"}
    BY <2>1
  <2> QED
    BY <1>2, <2>1, <2>2 DEF Fields, IntStates
<1>7. ASSUME host'.stage = "idle" PROVE Phase'
  <2>1. InQuiet' /\ Passing' /\ ~dev'.out.recv
    <3>1. InTaken'
      BY <1>2, <1>4, <1>5, <1>6 DEF InTaken, InEmpty, Serves
    <3> QED
      BY <1>2, <1>4, <3>1 DEF InQuiet, Passing
  <2>2. CASE host.req.len > 0
    <3>1. StatusDone'
      BY <1>1, <1>4, <1>5, <1>6, <1>7, <2>1, <2>2 DEF StatusDone
    <3> QED
      BY <3>1 DEF Phase
  <2>3. CASE ~(host.req.len > 0)
    <3>1. Between'
      BY <1>1, <1>4, <1>5, <1>6, <1>7, <2>1, <2>3 DEF Between, OutRest
    <3> QED
      BY <3>1 DEF Phase
  <2> QED
    BY <2>2, <2>3
<1>8. Daint'
  BY <1>2, <1>4, <1>6 DEF IInv, Daint
<1>9. ~int.reset
  BY <1>2, NoReset
<1>10. host \in HostStates /\ 0 \in Int /\ "idle" \in Stages
  BY <1>2 DEF Fields, Stages
<1>11. PICK q : q = NoRequest
  OBVIOUS
<1>12. q \in Request
  BY <1>11 DEF Request
<1>13. CASE host.req.op \notin {"upload", "resize"}
  <2>1. mem' = mem /\ host' = HostAt(host, "idle", q, 0)
    BY <1>11, <1>13, Zenon DEF HostStatusIn, HostAt
  <2>2. /\ host' \in HostStates /\ host'.stage = "idle"
        /\ host'.bulk = host.bulk /\ host'.up = host.up /\ host'.sent = host.sent
        /\ host'.have = host.have
    BY <1>10, <1>12, <2>1, HostOf
  <2>3. ~Granting /\ ~Granting' /\ CommandAfterUpload'
    BY <1>13, <2>2 DEF Granting, CommandAfterUpload
  <2> QED
    BY <1>2, <1>5, <1>6, <1>7, <1>8, <1>9, <2>1, <2>2, <2>3, HostPass
<1>14. CASE host.req.op \in {"upload", "resize"}
  <2>1. Granting
    BY <1>2, <1>4, <1>14 DEF Granting
  <2>2. dev.xfer \in Nat /\ dev.waiting
    BY <1>2, <2>1, UsbAssumption DEF Fields, DevStates, UsbAssumption, IInv, Meet, Granted
  <2>3. PICK u \in Nat : /\ u <= dev.xfer
                         /\ host' = [host EXCEPT !.stage = "idle", !.bulk = TRUE, !.up = u, !.sent = 0,
                                                 !.have = 0, !.req = q, !.cnt = 0]
    <3>1. PICK u \in IF host.req.op = "resize" THEN {host.req.arg} ELSE {x \in Uploads : x < dev.xfer} :
            host' = [host EXCEPT !.stage = "idle", !.bulk = TRUE, !.up = u, !.sent = 0,
                                 !.have = 0, !.req = q, !.cnt = 0]
      BY <1>11, <1>14 DEF HostStatusIn
    <3>2. CASE host.req.op = "resize"
      <4>1. u = host.req.arg /\ dev.xfer = RoundUp(host.req.arg)
        BY <2>1, <3>1, <3>2 DEF IInv, Meet, Granted
      <4>2. u \in Nat /\ BulkMax \in Nat \ {0}
        BY <1>2, <1>4, <4>1, AnswerOf, UsbAssumption DEF UsbAssumption
      <4>3. PICK m : m = (u + BulkMax - 1) \div BulkMax
        OBVIOUS
      <4>4. m * BulkMax \in u..(u + BulkMax - 1)
        BY <4>2, <4>3, Rounding
      <4>5. dev.xfer = m * BulkMax
        BY <4>1, <4>3 DEF RoundUp
      <4>6. u <= dev.xfer
        BY <4>2, <4>4, <4>5
      <4> QED
        BY <3>1, <4>2, <4>6
    <3>3. CASE host.req.op # "resize"
      <4>1. u \in Nat /\ u <= dev.xfer
        BY <2>2, <3>1, <3>3, UsbAssumption DEF UsbAssumption
      <4> QED
        BY <3>1, <4>1
    <3> QED
      BY <3>2, <3>3
  <2>4. /\ host' \in HostStates /\ host'.stage = "idle" /\ host'.bulk = TRUE /\ host'.up = u
        /\ host'.sent = 0
    <3>1. PICK i \in Int, v \in Int : i = 0 /\ v = u
      OBVIOUS
    <3>2. PICK h : h = HostAt(host, "idle", q, i)
      OBVIOUS
    <3>3. h \in HostStates /\ h.stage = "idle"
      BY <1>10, <1>12, <3>2, HostOf
    <3>4. PICK k : k = [h EXCEPT !.bulk = TRUE, !.up = v]
      OBVIOUS
    <3>5. k \in HostStates /\ k.stage = "idle" /\ k.bulk = TRUE /\ k.up = u
      BY <3>1, <3>3, <3>4 DEF HostStates
    <3>6. PICK j : j = [k EXCEPT !.sent = i]
      OBVIOUS
    <3>7. j \in HostStates /\ j.stage = "idle" /\ j.bulk = TRUE /\ j.up = u /\ j.sent = 0
      BY <3>1, <3>5, <3>6 DEF HostStates
    <3>8. PICK l : l = [j EXCEPT !.have = i]
      OBVIOUS
    <3>9. l \in HostStates /\ l.stage = "idle" /\ l.bulk = TRUE /\ l.up = u /\ l.sent = 0
      BY <3>7, <3>8 DEF HostStates
    <3>10. host' = l
      BY <1>10, <2>3, <3>1, <3>2, <3>4, <3>6, <3>8 DEF HostStates, HostAt
    <3> QED
      BY <3>9, <3>10
  <2>5. BulkInv'
    BY <1>2, <1>3, <1>5, <1>6, <2>1, <2>3, <2>4, UploadGranted
  <2>6. Meet'
    BY <1>2, <2>4 DEF IInv, Meet, Granted, Granting, AwaitHost, ResizeOK, CommandAfterUpload
  <2>7. mem' \in [1..UploadMax -> 0..UploadMax]
    <3>1. mem' = Fresh
      BY <1>14 DEF HostStatusIn
    <3> QED
      BY <3>1, UsbAssumption DEF Fresh, UsbAssumption
  <2>8. Fields'
    BY <1>2, <1>5, <1>6, <2>4, <2>7 DEF Fields
  <2>9. Reset' /\ Commands'
    BY <1>2, <1>6, <1>9 DEF IInv, Reset, Commands, InCommand
  <2>10. Phase'
    BY <1>7, <2>4
  <2> QED
    BY <1>8, <2>5, <2>6, <2>8, <2>9, <2>10 DEF IInv
<1> QED
  BY <1>13, <1>14

------------------------------------------------------------------------------
(* EP 2 OUT: ep2_out_interrupt.                                            *)

\* The state of EP 2 OUT after what the hardware has received.
BulkNext(recv) == [size |-> dev.ep2.size, done |-> dev.ep2.done + Got, recv |-> recv]

\* A change of EP 2 OUT, field by field.
Ep2At(s, k, p) == [s EXCEPT !.d.ep2.done = k, !.d.ep2.recv = p]

\* The change as one of the whole endpoint.
LEMMA Ep2Of ==
  ASSUME NEW d \in DevFields, NEW r, NEW k \in Int, NEW p \in BOOLEAN, NEW e,
         e = [size |-> d.ep2.size, done |-> k, recv |-> p]
  PROVE  Ep2At(St(d, r), k, p) = St([d EXCEPT !.ep2 = e], r)
<1>1. PICK u : u = St(d, r)
  OBVIOUS
<1>2. u.d = d /\ u.r = r /\ u \in [d : {d}, r : {r}]
  BY <1>1, Parts
<1>3. PICK t : t = [u EXCEPT !.d.ep2.done = k, !.d.ep2.recv = p]
  OBVIOUS
<1>4. t.d = [u.d EXCEPT !.ep2.done = k, !.ep2.recv = p] /\ t.r = u.r
  BY <1>2, <1>3
<1>5. t = [d |-> t.d, r |-> t.r]
  BY <1>2, <1>3
<1>6. PICK q : q = d.ep2
  OBVIOUS
<1>7. q \in OutState /\ e = [size |-> q.size, done |-> k, recv |-> p]
  BY <1>6 DEF DevFields
<1>8. e = [q EXCEPT !.done = k, !.recv = p]
  <2>1. PICK f : f = [q EXCEPT !.done = k, !.recv = p]
    OBVIOUS
  <2>2. f \in OutState /\ f.size = q.size /\ f.done = k /\ f.recv = p
    BY <1>7, <2>1 DEF OutState
  <2>3. f = [size |-> f.size, done |-> f.done, recv |-> f.recv]
    BY <2>2 DEF OutState
  <2> QED
    BY <1>7, <2>1, <2>2, <2>3, Zenon
<1>9. [d EXCEPT !.ep2.done = k, !.ep2.recv = p] = [d EXCEPT !.ep2 = [q EXCEPT !.done = k, !.recv = p]]
  BY <1>6 DEF DevFields
<1>10. t = St([d EXCEPT !.ep2 = e], r)
  BY <1>2, <1>4, <1>5, <1>8, <1>9, Zenon DEF St
<1> QED
  BY <1>1, <1>3, <1>10, Zenon DEF Ep2At

\* ep2_out_interrupt with what it computes first as parameters.
GotOf(s) == Bulk(s.d.ep2).n - s.r.left2
OverOf(s) ==
  \/ s.d.ep2.done + GotOf(s) >= s.d.ep2.size
  \/ /\ s.r.left2 # 0
     /\ GotOf(s) > 0 /\ GotOf(s) % BulkMax = 0 =>
          Bulk(s.d.ep2).pkts - s.r.pkts2 = GotOf(s) \div BulkMax + 1
Ep2Step(s, got, over) ==
  LET t == Ep2At(Bug(s, ~s.d.ep2.recv, "recv 6"), s.d.ep2.done + got, ~over)
  IN  IF ~over THEN ep2_out_recv(t)
      ELSE XferDone([Bug(t, ~t.d.cb2, "no 1i cb") EXCEPT !.d.cb2 = FALSE])

\* Ep2Step is ep2_out_interrupt.
LEMMA Ep2Steps ==
  ASSUME NEW s
  PROVE  ep2_out_interrupt(s) = Ep2Step(s, GotOf(s), OverOf(s))
BY Zenon DEF ep2_out_interrupt, Ep2Step, Ep2At, GotOf, OverOf

\* The interrupt, by whether the transfer is over.
LEMMA Ep2Interrupt ==
  ASSUME Fields, dev.ep2.recv, Got \in Int
  PROVE  /\ ~Over => ep2_out_interrupt(Cur) = ep2_out_recv(St([dev EXCEPT !.ep2 = BulkNext(TRUE)], reg))
         /\ Over /\ dev.cb2 =>
              ep2_out_interrupt(Cur) =
                XferDone(St([dev EXCEPT !.ep2 = BulkNext(FALSE), !.cb2 = FALSE], reg))
<1>1. dev \in DevFields /\ reg \in RegFields /\ Cur = St(dev, reg)
  BY Loose DEF Fields
<1>2. PICK s : s = Cur
  OBVIOUS
<1>3. s.d = dev /\ s.r = reg /\ s \in [d : {dev}, r : {reg}]
  BY <1>1, <1>2, Parts
<1>4. PICK v : v = OverOf(s)
  OBVIOUS
<1>5. GotOf(s) = Got /\ (OverOf(s) <=> Over)
  BY <1>3 DEF GotOf, OverOf, Got, Over, Short
<1>6. v <=> Over
  BY <1>4, <1>5
<1>7. Bug(s, ~dev.ep2.recv, "recv 6") = s
  <2>1. ~(~dev.ep2.recv)
    OBVIOUS
  <2> QED
    BY <1>1, <1>2, <2>1, NoCheck
<1>8. PICK k : k = dev.ep2.done + Got
  OBVIOUS
<1>9. k \in Int
  BY <1>1, <1>8 DEF DevFields, OutState
<1>10. PICK p : p = ~v
  OBVIOUS
<1>11. PICK t : t = Ep2At(s, k, p)
  OBVIOUS
<1>12. ep2_out_interrupt(s) =
         IF p THEN ep2_out_recv(t)
         ELSE XferDone([Bug(t, ~t.d.cb2, "no 1i cb") EXCEPT !.d.cb2 = FALSE])
  <2>1. ep2_out_interrupt(s) = Ep2Step(s, Got, v)
    BY <1>4, <1>5, Ep2Steps
  <2> QED
    BY <1>3, <1>7, <1>8, <1>10, <1>11, <2>1, Zenon DEF Ep2Step
<1>13. PICK e : e = [size |-> dev.ep2.size, done |-> k, recv |-> p]
  OBVIOUS
<1>14. PICK c : c = [dev EXCEPT !.ep2 = e]
  OBVIOUS
<1>15. ASSUME p \in BOOLEAN PROVE t = St(c, reg)
  BY <1>1, <1>2, <1>9, <1>11, <1>13, <1>14, <1>15, Ep2Of
<1>16. ASSUME ~Over
       PROVE  ep2_out_interrupt(Cur) = ep2_out_recv(St([dev EXCEPT !.ep2 = BulkNext(TRUE)], reg))
  <2>1. p = TRUE
    BY <1>6, <1>10, <1>16
  <2>2. e = BulkNext(TRUE)
    BY <1>8, <1>13, <2>1, Zenon DEF BulkNext
  <2>3. t = St(c, reg)
    BY <1>15, <2>1
  <2>4. ep2_out_interrupt(s) = ep2_out_recv(t)
    BY <1>12, <2>1, Zenon
  <2> QED
    BY <1>2, <1>14, <2>2, <2>3, <2>4, Zenon
<1>17. ASSUME Over, dev.cb2
       PROVE  ep2_out_interrupt(Cur) =
                XferDone(St([dev EXCEPT !.ep2 = BulkNext(FALSE), !.cb2 = FALSE], reg))
  <2>1. p = FALSE
    BY <1>6, <1>10, <1>17
  <2>2. e = BulkNext(FALSE)
    BY <1>8, <1>13, <2>1, Zenon DEF BulkNext
  <2>3. t = St(c, reg) /\ c \in DevFields /\ c.cb2 = dev.cb2
    <3>1. t = St(c, reg)
      BY <1>15, <2>1
    <3>2. e \in OutState
      BY <1>1, <1>9, <1>13, <2>1 DEF DevFields, OutState
    <3> QED
      BY <1>1, <1>14, <3>1, <3>2 DEF DevFields
  <2>4. t.d = c /\ t.r = reg /\ t \in [d : {c}, r : {reg}]
    BY <2>3, Parts
  <2>5. Bug(t, ~t.d.cb2, "no 1i cb") = t
    <3>1. ~(~t.d.cb2)
      BY <1>17, <2>3, <2>4
    <3> QED
      BY <2>3, <3>1, NoCheck
  <2>6. [t EXCEPT !.d.cb2 = FALSE] = St([dev EXCEPT !.ep2 = e, !.cb2 = FALSE], reg)
    <3>1. PICK w : w = [t EXCEPT !.d.cb2 = FALSE]
      OBVIOUS
    <3>2. w.d = [t.d EXCEPT !.cb2 = FALSE] /\ w.r = t.r
      BY <2>4, <3>1
    <3>3. w = [d |-> w.d, r |-> w.r]
      BY <2>4, <3>1
    <3>4. [c EXCEPT !.cb2 = FALSE] = [dev EXCEPT !.ep2 = e, !.cb2 = FALSE]
      BY <1>1, <1>14 DEF DevFields
    <3>5. w = St([dev EXCEPT !.ep2 = e, !.cb2 = FALSE], reg)
      BY <2>4, <3>2, <3>3, <3>4, Zenon DEF St
    <3> QED
      BY <3>1, <3>5, Zenon
  <2>7. ep2_out_interrupt(s) = XferDone([t EXCEPT !.d.cb2 = FALSE])
    BY <1>12, <2>1, <2>5, Zenon
  <2> QED
    BY <1>2, <2>2, <2>6, <2>7, Zenon
<1> QED
  BY <1>16, <1>17

\* usbloader_xfer_done_cb, while an upload is expected.
LEMMA XferDoneOf ==
  ASSUME NEW d, NEW r, d.waiting, NEW e, e = [d EXCEPT !.count = d.ep2.done, !.waiting = FALSE]
  PROVE  XferDone(St(d, r)) = St(e, r)
<1>1. PICK u : u = St(d, r)
  OBVIOUS
<1>2. u.d = d /\ u.r = r /\ u \in [d : {d}, r : {r}]
  BY <1>1, Parts
<1>3. PICK k : k = d.ep2.done
  OBVIOUS
<1>4. PICK t : t = [u EXCEPT !.d.count = k, !.d.waiting = FALSE]
  OBVIOUS
<1>5. t.d = [u.d EXCEPT !.count = k, !.waiting = FALSE] /\ t.r = u.r
  BY <1>2, <1>4
<1>6. t = [d |-> t.d, r |-> t.r]
  BY <1>2, <1>4
<1>7. t = St(e, r)
  BY <1>2, <1>3, <1>5, <1>6, Zenon DEF St
<1>8. XferDone(u) = t
  BY <1>2, <1>3, <1>4, Zenon DEF XferDone
<1> QED
  BY <1>1, <1>7, <1>8, Zenon

\* What holds when EP 2 OUT has reported: the transfer is over if and only if the
\* host has sent everything.
LEMMA Reported ==
  ASSUME IInv, int.out2
  PROVE  /\ dev.waiting /\ dev.cb2 /\ dev.ep2.recv /\ ~reg.on2 /\ Aligned(dev.ep2)
         /\ dev.ep2.size = dev.xfer /\ reg.addr2 = dev.ep2.done + Got
         /\ Got \in 0..(dev.ep2.size - dev.ep2.done) /\ Got \in Nat
         /\ dev.ep2.done \in Nat /\ dev.xfer \in 1..UploadMax /\ dev.xfer <= dev.cap
         /\ dev.xfer % BulkMax = 0
         /\ host.bulk => ~Over /\ Got = Bulk(dev.ep2).n /\ reg.addr2 < dev.xfer
         /\ ~host.bulk => Over /\ reg.addr2 = host.have /\ InOrder(host.have)
<1>1. /\ dev.waiting /\ dev.cb2 /\ dev.ep2.recv /\ Fields
  BY DEF IInv, BulkInv, Uploaded, UploadFlags
<1>2. /\ ~reg.on2 /\ Aligned(dev.ep2) /\ dev.ep2.size = dev.xfer
      /\ reg.addr2 = dev.ep2.done + Got /\ reg.left2 \in 0..Bulk(dev.ep2).n
      /\ host.bulk => reg.left2 = 0 /\ reg.addr2 < dev.xfer
      /\ ~host.bulk => Over /\ reg.addr2 = host.have /\ InOrder(host.have)
  BY <1>1 DEF IInv, BulkInv, Expecting
<1>3. /\ Bulk(dev.ep2).n \in Nat /\ Bulk(dev.ep2).n <= dev.ep2.size - dev.ep2.done
  BY <1>2, BulkOf
<1>4. dev.ep2.done \in Nat /\ dev.ep2.size \in Int
  BY <1>2 DEF Aligned, OutState
<1>5. Got \in 0..(dev.ep2.size - dev.ep2.done) /\ Got \in Nat
  BY <1>2, <1>3, <1>4 DEF Got
<1>6. dev.xfer \in 1..UploadMax /\ dev.xfer <= dev.cap /\ dev.xfer % BulkMax = 0
  BY <1>1 DEF IInv, BulkInv, Sizes, Fields, DevStates
<1>7. ASSUME host.bulk PROVE ~Over /\ Got = Bulk(dev.ep2).n
  <2>1. reg.left2 = 0 /\ reg.addr2 < dev.xfer
    BY <1>2, <1>7
  <2>2. Got = Bulk(dev.ep2).n
    BY <1>3, <2>1 DEF Got
  <2>3. ~Short
    BY <2>1 DEF Short
  <2>4. ~(dev.ep2.done + Got >= dev.ep2.size)
    BY <1>2, <1>4, <1>5, <2>1
  <2> QED
    BY <2>2, <2>3, <2>4 DEF Over
<1> QED
  BY <1>1, <1>2, <1>4, <1>5, <1>6, <1>7

\* What is left to show for a step of EP 2 OUT.
LEMMA Ep2Rest ==
  ASSUME IInv, Ep2Out, "out2" \in usb.daint,
         dev' \in DevStates, reg' \in RegStates, BulkInv',
         dev'.in = dev.in, dev'.out = dev.out, dev'.setup = dev.setup, dev'.cb = dev.cb,
         reg'.in0 = reg.in0, reg'.out0 = reg.out0, reg'.left0 = reg.left0,
         reg'.stall = reg.stall, reg'.dma0 = reg.dma0,
         dev'.waiting => host.bulk
  PROVE  IInv'
<1>1. /\ Fields /\ usb.pc = "out2" /\ usb' = [usb EXCEPT !.pc = "idle"]
      /\ int' = [int EXCEPT !.out2 = FALSE] /\ UNCHANGED <<host, mem, shell, iter>>
  BY DEF IInv, Ep2Out, Goto, environment
<1>2. usb' \in UsbStates /\ usb'.pc = "idle"
  BY <1>1 DEF Fields, UsbStates
<1>3. /\ int' \in IntStates /\ int'.in0 = int.in0 /\ int'.out0 = int.out0 /\ int'.reset = int.reset
      /\ int'.out2 = FALSE
  BY <1>1 DEF Fields, IntStates
<1>4. int.out2 /\ ~int.reset
  BY <1>1 DEF IInv, Daint, Reset
<1>5. Fields'
  BY <1>1, <1>2, <1>3 DEF Fields
<1>6. Phase'
  <2>1. UNCHANGED ctl
    BY <1>1, <1>3 DEF ctl
  <2>2. Passing /\ Passing' /\ ~InCommand /\ ~InCommand'
    BY <1>1, <1>2 DEF Passing, InCommand
  <2> QED
    BY <1>1, <1>2, <2>1, <2>2, PhaseKept DEF IInv
<1>7. Daint' /\ Reset' /\ Commands'
  BY <1>1, <1>2, <1>3, <1>4 DEF IInv, Daint, Reset, Commands, InCommand
<1>8. Meet'
  <2>1. dev.waiting /\ ~reg.on2
    BY <1>4, Reported
  <2>2. ~Granting
    BY <2>1 DEF IInv, Meet, Granted
  <2>3. ~Granting'
    BY <1>1, <2>2 DEF Granting
  <2>4. Granted' /\ AwaitHost'
    BY <1>1, <2>3 DEF Granted, AwaitHost
  <2>5. ResizeOK'
    BY <2>1 DEF IInv, Meet, ResizeOK
  <2>6. CommandAfterUpload'
    BY <1>1, <2>1 DEF IInv, Meet, CommandAfterUpload
  <2> QED
    BY <2>4, <2>5, <2>6 DEF Meet
<1> QED
  BY <1>5, <1>6, <1>7, <1>8 DEF IInv

\* The hardware is given the next part of the upload.
LEMMA Ep2OutMore ==
  ASSUME IInv, Ep2Out, "out2" \in usb.daint, int.out2, host.bulk
  PROVE  IInv'
<1>1. /\ Fields /\ dev' = ep2_out_interrupt(Cur).d /\ reg' = ep2_out_interrupt(Cur).r
      /\ int' = [int EXCEPT !.out2 = FALSE] /\ UNCHANGED <<host, mem>>
  BY DEF IInv, Ep2Out, Becomes, environment
<1>2. /\ dev.waiting /\ dev.cb2 /\ dev.ep2.recv /\ Aligned(dev.ep2)
      /\ dev.ep2.size = dev.xfer /\ reg.addr2 = dev.ep2.done + Got
      /\ Got \in Nat /\ dev.ep2.done \in Nat
      /\ dev.xfer \in 1..UploadMax /\ dev.xfer <= dev.cap /\ dev.xfer % BulkMax = 0
      /\ ~Over /\ Got = Bulk(dev.ep2).n /\ reg.addr2 < dev.xfer
  BY Reported
<1>3. PICK e : e = BulkNext(TRUE)
  OBVIOUS
<1>4. e.size = dev.xfer /\ e.done = reg.addr2 /\ e.recv = TRUE /\ e \in OutState /\ Aligned(e)
  <2>1. e.size = dev.xfer /\ e.done = reg.addr2 /\ e.recv = TRUE
    BY <1>2, <1>3 DEF BulkNext
  <2>2. e \in OutState
    <3>1. e = [size |-> e.size, done |-> e.done, recv |-> e.recv]
      BY <1>3 DEF BulkNext
    <3>2. e.size \in Int /\ e.done \in Int
      BY <1>2, <2>1
    <3> QED
      BY <2>1, <3>1, <3>2 DEF OutState
  <2>3. reg.addr2 % BulkMax = 0
    <3>1. Bulk(dev.ep2).n % BulkMax = 0 /\ Bulk(dev.ep2).n \in Int /\ dev.ep2.done % BulkMax = 0
      BY <1>2, BulkOf DEF Aligned
    <3>2. BulkMax \in Nat \ {0} /\ dev.ep2.done \in Int
      BY <1>2, UsbAssumption DEF UsbAssumption
    <3> QED
      BY <1>2, <3>1, <3>2, Multiples
  <2> QED
    BY <1>2, <2>1, <2>2, <2>3 DEF Aligned
<1>5. e \in Endpoint
  BY <1>2, <1>4, UsbAssumption DEF Endpoint, OutState, UsbAssumption
<1>6. PICK c : c = [dev EXCEPT !.ep2 = e]
  OBVIOUS
<1>7. /\ c \in DevStates /\ c.ep2 = e /\ c.in = dev.in /\ c.out = dev.out /\ c.setup = dev.setup
      /\ c.cb = dev.cb /\ c.cb2 = dev.cb2 /\ c.cap = dev.cap /\ c.xfer = dev.xfer
      /\ c.count = dev.count /\ c.waiting = dev.waiting
  BY <1>1, <1>5, <1>6 DEF Fields, DevStates
<1>8. PICK k, m, a : k = Bulk(e).n /\ m = Bulk(e).pkts /\ a = e.done
  OBVIOUS
<1>9. k \in 0..UploadMax /\ m \in Int /\ a \in Int /\ k = m * BulkMax /\ m >= 1
  <2>1. k \in Nat /\ m \in Nat /\ k <= e.size - e.done /\ k = m * BulkMax /\ m >= 1
    BY <1>4, <1>8, BulkOf
  <2> QED
    BY <1>2, <1>4, <1>8, <2>1, UsbAssumption DEF OutState, UsbAssumption
<1>10. PICK b : b = [reg EXCEPT !.on2 = TRUE, !.left2 = k, !.pkts2 = m, !.addr2 = a]
  OBVIOUS
<1>11. /\ b \in RegStates /\ b.on2 = TRUE /\ b.left2 = k /\ b.pkts2 = m /\ b.addr2 = a
       /\ b.in0 = reg.in0 /\ b.out0 = reg.out0 /\ b.left0 = reg.left0
       /\ b.stall = reg.stall /\ b.dma0 = reg.dma0
  <2>1. PICK h : h = [reg EXCEPT !.on2 = TRUE, !.left2 = k]
    OBVIOUS
  <2>2. /\ h \in RegStates /\ h.on2 = TRUE /\ h.left2 = k
        /\ h.in0 = reg.in0 /\ h.out0 = reg.out0 /\ h.left0 = reg.left0
        /\ h.stall = reg.stall /\ h.dma0 = reg.dma0
    BY <1>1, <1>9, <2>1 DEF Fields, RegStates
  <2>3. PICK i \in Int, j \in Int : i = m /\ j = a
    BY <1>9
  <2>4. PICK g : g = [h EXCEPT !.pkts2 = i]
    OBVIOUS
  <2>5. /\ g \in RegStates /\ g.on2 = TRUE /\ g.left2 = k /\ g.pkts2 = i
        /\ g.in0 = reg.in0 /\ g.out0 = reg.out0 /\ g.left0 = reg.left0
        /\ g.stall = reg.stall /\ g.dma0 = reg.dma0
    BY <2>2, <2>4 DEF RegStates
  <2>6. PICK f : f = [g EXCEPT !.addr2 = j]
    OBVIOUS
  <2>7. /\ f \in RegStates /\ f.on2 = TRUE /\ f.left2 = k /\ f.pkts2 = i /\ f.addr2 = j
        /\ f.in0 = reg.in0 /\ f.out0 = reg.out0 /\ f.left0 = reg.left0
        /\ f.stall = reg.stall /\ f.dma0 = reg.dma0
    BY <2>5, <2>6 DEF RegStates
  <2>8. b = f
    BY <1>1, <1>10, <2>1, <2>3, <2>4, <2>6 DEF Fields, RegStates
  <2> QED
    BY <2>3, <2>7, <2>8
<1>12. dev' = c /\ reg' = b
  <2>1. ep2_out_interrupt(Cur) = ep2_out_recv(St(c, reg))
    BY <1>1, <1>2, <1>3, <1>6, Ep2Interrupt
  <2>2. c \in DevFields /\ reg \in RegFields /\ c.ep2.recv /\ Aligned(c.ep2)
    BY <1>1, <1>4, <1>7, Loose DEF Fields
  <2>3. ep2_out_recv(St(c, reg)) =
          St(c, [reg EXCEPT !.on2 = TRUE, !.left2 = Bulk(c.ep2).n, !.pkts2 = Bulk(c.ep2).pkts,
                            !.addr2 = c.ep2.done])
    BY <2>2, BulkRecv
  <2>4. ep2_out_recv(St(c, reg)) = St(c, b)
    BY <1>7, <1>8, <1>10, <2>3, Zenon
  <2>5. dev' = St(c, b).d /\ reg' = St(c, b).r
    BY <1>1, <2>1, <2>4, Zenon
  <2> QED
    BY <2>5, StParts
<1>13. int'.out2 = FALSE
  BY <1>1 DEF Fields, IntStates
<1>14. BulkInv'
  <2>1. UploadFlags' /\ Sizes'
    BY <1>2, <1>4, <1>7, <1>12 DEF UploadFlags, Sizes
  <2>2. Got' = 0
    <3>1. Bulk(dev'.ep2).n = k /\ reg'.left2 = k
      BY <1>7, <1>8, <1>11, <1>12
    <3>2. k \in Int
      BY <1>9, UsbAssumption DEF UsbAssumption
    <3> QED
      BY <3>1, <3>2 DEF Got
  <2>3. Expecting'
    <3>1. /\ dev'.ep2 = e /\ dev'.xfer = dev.xfer /\ reg'.addr2 = e.done /\ reg'.left2 = k
          /\ reg'.pkts2 = m /\ reg'.on2 = TRUE /\ Bulk(dev'.ep2).n = k
      BY <1>7, <1>8, <1>11, <1>12
    <3>2. e.done \in Int /\ k \in 0..k /\ k = m * BulkMax
      BY <1>4, <1>9, UsbAssumption DEF OutState, UsbAssumption
    <3> QED
      BY <1>4, <1>9, <1>13, <2>2, <3>1, <3>2 DEF Expecting
  <2>4. Uploading'
    BY <1>1, <1>2, <1>4, <1>7, <1>8, <1>11, <1>12 DEF IInv, BulkInv, Uploading, InOrder
  <2>5. Uploaded'
    BY <1>2, <1>7, <1>12 DEF Uploaded
  <2> QED
    BY <2>1, <2>3, <2>4, <2>5 DEF BulkInv
<1> QED
  BY <1>7, <1>11, <1>12, <1>14, Ep2Rest

\* The upload is complete: the loader is told.
LEMMA Ep2OutOver ==
  ASSUME IInv, Ep2Out, "out2" \in usb.daint, int.out2, ~host.bulk
  PROVE  IInv'
<1>1. /\ Fields /\ dev' = ep2_out_interrupt(Cur).d /\ reg' = ep2_out_interrupt(Cur).r
      /\ int' = [int EXCEPT !.out2 = FALSE] /\ UNCHANGED <<host, mem>>
  BY DEF IInv, Ep2Out, Becomes, environment
<1>2. /\ dev.waiting /\ dev.cb2 /\ dev.ep2.recv /\ ~reg.on2 /\ Aligned(dev.ep2)
      /\ dev.ep2.size = dev.xfer /\ reg.addr2 = dev.ep2.done + Got
      /\ Got \in 0..(dev.ep2.size - dev.ep2.done) /\ Got \in Nat
      /\ dev.ep2.done \in Nat /\ dev.xfer \in 1..UploadMax /\ dev.xfer <= dev.cap
      /\ dev.xfer % BulkMax = 0
      /\ Over /\ reg.addr2 = host.have /\ InOrder(host.have)
  BY Reported
<1>3. PICK e : e = BulkNext(FALSE)
  OBVIOUS
<1>4. e.size = dev.xfer /\ e.done = host.have /\ e.recv = FALSE /\ host.have \in 0..UploadMax
  <2>1. e.size = dev.xfer /\ e.done = host.have /\ e.recv = FALSE
    BY <1>2, <1>3 DEF BulkNext
  <2>2. host.have \in 0..UploadMax
    BY <1>2, UsbAssumption DEF UsbAssumption
  <2> QED
    BY <2>1, <2>2
<1>5. e \in Endpoint
  <2>1. e = [size |-> e.size, done |-> e.done, recv |-> e.recv]
    BY <1>3 DEF BulkNext
  <2>2. /\ e.size \in {ZLP} \cup 0..(DmaSize + UploadMax) /\ e.done \in 0..(DmaSize + UploadMax)
        /\ e.recv \in BOOLEAN
    <3>1. DmaSize \in Nat /\ UploadMax \in Nat
      BY UsbAssumption DEF UsbAssumption
    <3>2. e.recv \in BOOLEAN
      BY <1>4
    <3>3. e.size \in 0..(DmaSize + UploadMax) /\ e.done \in 0..(DmaSize + UploadMax)
      BY <1>2, <1>4, <3>1
    <3> QED
      BY <3>2, <3>3
  <2> QED
    BY <2>1, <2>2 DEF Endpoint
<1>6. PICK c : c = [dev EXCEPT !.ep2 = e, !.cb2 = FALSE]
  OBVIOUS
<1>7. /\ c \in DevStates /\ c.ep2 = e /\ c.in = dev.in /\ c.out = dev.out /\ c.setup = dev.setup
      /\ c.cb = dev.cb /\ c.cb2 = FALSE /\ c.cap = dev.cap /\ c.xfer = dev.xfer
      /\ c.waiting = dev.waiting
  BY <1>1, <1>5, <1>6 DEF Fields, DevStates
<1>8. PICK k : k = host.have
  OBVIOUS
<1>9. PICK d : d = [c EXCEPT !.count = k, !.waiting = FALSE]
  OBVIOUS
<1>10. /\ d \in DevStates /\ d.ep2 = e /\ d.in = dev.in /\ d.out = dev.out /\ d.setup = dev.setup
       /\ d.cb = dev.cb /\ d.cb2 = FALSE /\ d.cap = dev.cap /\ d.xfer = dev.xfer
       /\ d.waiting = FALSE /\ d.count = host.have
  BY <1>4, <1>7, <1>8, <1>9 DEF DevStates
<1>11. dev' = d /\ reg' = reg
  <2>1. ep2_out_interrupt(Cur) = XferDone(St(c, reg))
    BY <1>1, <1>2, <1>3, <1>6, Ep2Interrupt
  <2>2. d = [c EXCEPT !.count = c.ep2.done, !.waiting = FALSE]
    BY <1>4, <1>7, <1>8, <1>9, Zenon
  <2>3. XferDone(St(c, reg)) = St(d, reg)
    BY <1>2, <1>7, <2>2, XferDoneOf
  <2>4. dev' = St(d, reg).d /\ reg' = St(d, reg).r
    BY <1>1, <2>1, <2>3, Zenon
  <2> QED
    BY <2>4, StParts
<1>12. int'.out2 = FALSE
  BY <1>1 DEF Fields, IntStates
<1>13. BulkInv'
  <2>1. UploadFlags' /\ Sizes'
    BY <1>2, <1>4, <1>10, <1>11 DEF UploadFlags, Sizes
  <2>2. Expecting' /\ Uploading'
    BY <1>1, <1>10, <1>11 DEF Expecting, Uploading
  <2>3. Uploaded'
    BY <1>1, <1>2, <1>10, <1>11, <1>12 DEF Uploaded, InOrder
  <2> QED
    BY <2>1, <2>2, <2>3 DEF BulkInv
<1>14. reg' \in RegStates /\ ~dev'.waiting
  BY <1>1, <1>10, <1>11 DEF Fields
<1> QED
  BY <1>10, <1>11, <1>13, <1>14, Ep2Rest

\* A pass of the handler serves EP 2 OUT.
LEMMA Ep2OutInv ==
  ASSUME IInv, Ep2Out
  PROVE  IInv'
<1>1. CASE "out2" \notin usb.daint
  BY <1>1, Ep2OutNoneInv
<1>2. CASE "out2" \in usb.daint
  <2>1. int.out2
    BY <1>2 DEF Ep2Out, IInv, Daint
  <2> QED
    BY <1>2, <2>1, Ep2OutMore, Ep2OutOver
<1> QED
  BY <1>1, <1>2

------------------------------------------------------------------------------
(* The host: a packet of an upload.                                        *)

\* Where the upload is when the host sends a packet.
LEMMA BulkPacket ==
  ASSUME IInv, host.bulk, reg.on2
  PROVE  /\ Fields /\ dev.waiting /\ Aligned(dev.ep2) /\ dev.ep2.size = dev.xfer
         /\ reg.addr2 = dev.ep2.done + Got /\ ~int.out2
         /\ reg.left2 \in 0..Bulk(dev.ep2).n /\ reg.pkts2 \in Nat /\ reg.pkts2 >= 1
         /\ reg.left2 = reg.pkts2 * BulkMax /\ reg.left2 \in Nat
         /\ Bulk(dev.ep2).n \in Nat /\ Bulk(dev.ep2).pkts \in Nat
         /\ Bulk(dev.ep2).n = Bulk(dev.ep2).pkts * BulkMax
         /\ Bulk(dev.ep2).n <= dev.ep2.size - dev.ep2.done
         /\ dev.ep2.done \in Nat /\ dev.xfer \in 1..UploadMax /\ dev.xfer % BulkMax = 0
         /\ host.up \in 0..dev.xfer /\ host.sent \in 0..host.up /\ host.sent < dev.xfer
         /\ host.sent = reg.addr2 /\ host.sent % BulkMax = 0 /\ InOrder(host.sent)
         /\ dev.xfer \in Nat /\ UploadMax \in Nat /\ BulkMax \in Nat \ {0}
<1>1. /\ Fields /\ dev.waiting /\ Aligned(dev.ep2) /\ dev.ep2.size = dev.xfer
      /\ reg.addr2 = dev.ep2.done + Got /\ ~int.out2
      /\ reg.left2 \in 0..Bulk(dev.ep2).n /\ reg.pkts2 >= 1
      /\ reg.left2 = reg.pkts2 * BulkMax
      /\ host.up \in 0..dev.xfer /\ host.sent \in 0..host.up /\ host.sent < dev.xfer
      /\ host.sent = reg.addr2 /\ host.sent % BulkMax = 0 /\ InOrder(host.sent)
  BY DEF IInv, BulkInv, Uploading, Expecting
<1>2. /\ Bulk(dev.ep2).n \in Nat /\ Bulk(dev.ep2).pkts \in Nat
      /\ Bulk(dev.ep2).n = Bulk(dev.ep2).pkts * BulkMax
      /\ Bulk(dev.ep2).n <= dev.ep2.size - dev.ep2.done
  BY <1>1, BulkOf
<1>3. UploadMax \in Nat /\ BulkMax \in Nat \ {0}
  BY UsbAssumption DEF UsbAssumption
<1>4. reg.pkts2 \in Int /\ dev.xfer \in 1..UploadMax /\ dev.xfer % BulkMax = 0
  BY <1>1 DEF IInv, BulkInv, Sizes, Fields, DevStates, RegStates
<1>5. dev.ep2.done \in Nat
  BY <1>1 DEF Aligned, OutState
<1> QED
  BY <1>1, <1>2, <1>3, <1>4, <1>5

\* The bytes of a packet are where they belong.
LEMMA PacketStored ==
  ASSUME NEW m \in [1..UploadMax -> 0..UploadMax], NEW a \in Nat, NEW n \in Nat,
         a + n <= UploadMax, UploadMax \in Nat, \A i \in 1..a : m[i] = i,
         NEW f, f = [i \in 1..UploadMax |-> IF i - a \in 1..n THEN a + i - a ELSE m[i]]
  PROVE  /\ f \in [1..UploadMax -> 0..UploadMax]
         /\ \A i \in 1..(a + n) : f[i] = i
<1>1. \A i \in 1..UploadMax : f[i] = IF i - a \in 1..n THEN a + i - a ELSE m[i]
  OBVIOUS
<1>2. \A i \in 1..UploadMax : (i - a \in 1..n) => a + i - a = i
  OBVIOUS
<1>3. f \in [1..UploadMax -> 0..UploadMax]
  BY <1>2
<1>4. ASSUME NEW i \in 1..(a + n) PROVE f[i] = i
  <2>1. i \in 1..UploadMax
    OBVIOUS
  <2>2. CASE i - a \in 1..n
    BY <1>1, <1>2, <2>1, <2>2
  <2>3. CASE ~(i - a \in 1..n)
    <3>1. i \in 1..a
      BY <2>3
    <3> QED
      BY <1>1, <2>1, <2>3, <3>1
  <2> QED
    BY <2>2, <2>3
<1> QED
  BY <1>3, <1>4

\* A short packet ends the transfer, and the driver will see that: an empty one
\* was counted though it brought no bytes.
LEMMA ShortSeen ==
  ASSUME NEW B \in Nat \ {0}, NEW P \in Nat, NEW k \in Nat, k >= 1, k <= P,
         NEW n \in Nat, n < B, NEW got, got = (P * B) - ((k * B) - n)
  PROVE  /\ (k * B) - n # 0
         /\ got > 0 /\ got % B = 0 => P - (k - 1) = got \div B + 1
<1>1. k * B >= B
  OBVIOUS
<1>2. got = B * (P - k) + n /\ P - k \in Int /\ n \in 0..(B - 1)
  <2>1. P * B - k * B = B * (P - k)
    OBVIOUS
  <2>2. P * B \in Int /\ k * B \in Int /\ B * (P - k) \in Int
    OBVIOUS
  <2> QED
    BY <2>1, <2>2
<1>3. got % B = n /\ got \div B = P - k
  BY <1>2, DivUnique
<1>4. (k * B) - n # 0
  <2>1. k * B \in Int
    OBVIOUS
  <2> QED
    BY <1>1, <2>1
<1> QED
  BY <1>3, <1>4

\* The numbers of a packet of an upload: n bytes, of which the hardware has received
\* g in this part of the transfer, with k packets of P still expected.
LEMMA PacketNumbers ==
  ASSUME NEW B \in Nat \ {0}, NEW P \in Nat, NEW k \in Nat, k >= 1,
         NEW left \in Nat, left = k * B, NEW part \in Nat, part = P * B, left <= part,
         NEW done \in Nat, NEW xfer \in Nat, part <= xfer - done,
         NEW sent \in Nat, sent = done + (part - left), NEW up \in Nat, up <= xfer, sent <= up,
         sent < xfer, NEW n, n = IF B <= up - sent THEN B ELSE up - sent
  PROVE  /\ n \in 0..B /\ n <= left /\ left - n \in 0..part /\ sent + n <= up /\ sent + n \in Nat
         /\ sent + n = done + (part - (left - n))
         /\ n = B => left - n = (k - 1) * B
         /\ n < B => sent + n = up /\ left - n # 0
         /\ sent + n = xfer => sent + n = up /\ up = xfer
         /\ n = B /\ k > 1 => sent + n < xfer
         /\ k <= P
<1>1. left >= B /\ (k - 1) * B = left - B
  <2>1. k * B >= B /\ (k - 1) * B = k * B - B /\ k * B \in Int
    OBVIOUS
  <2> QED
    BY <2>1
<1>2. n \in 0..B /\ n <= left /\ left - n \in 0..part /\ sent + n <= up /\ sent + n \in Nat
  BY <1>1
<1>3. sent + n = done + (part - (left - n))
  BY <1>2
<1>4. n = B => left - n = (k - 1) * B
  BY <1>1
<1>5. n < B => sent + n = up /\ left - n # 0
  BY <1>1
<1>6. sent + n = xfer => sent + n = up /\ up = xfer
  BY <1>2
<1>7. ASSUME n = B, k > 1 PROVE sent + n < xfer
  <2>1. (k - 1) * B >= B
    BY <1>7
  <2> QED
    BY <1>1, <1>3, <1>7, <2>1
<1>8. k <= P
  <2>1. k > P => k * B > P * B
    OBVIOUS
  <2>2. k * B \in Int /\ P * B \in Int
    OBVIOUS
  <2> QED
    BY <2>1, <2>2
<1> QED
  BY <1>2, <1>3, <1>4, <1>5, <1>6, <1>7, <1>8

\* What such a packet means: whether the upload is over, whether the hardware expects
\* more, and whether it reports.
LEMMA PacketMeans ==
  ASSUME NEW B \in Nat \ {0}, NEW P \in Nat, NEW k \in Nat, k >= 1,
         NEW left \in Nat, left = k * B, NEW part \in Nat, part = P * B, left <= part,
         NEW done \in Nat, NEW xfer \in Nat, part <= xfer - done,
         NEW sent \in Nat, sent = done + (part - left), NEW up \in Nat, up <= xfer, sent <= up,
         sent < xfer, NEW n \in Int, n = IF B <= up - sent THEN B ELSE up - sent,
         NEW s \in Int, s = sent + n, NEW l \in Int, l = left - n, NEW j \in Int, j = k - 1,
         NEW over \in BOOLEAN, over <=> s = up /\ (n < B \/ up = xfer),
         NEW more \in BOOLEAN, more <=> n = B /\ k > 1,
         NEW out \in BOOLEAN, out <=> n < B \/ k = 1
  PROVE  /\ n \in 0..B /\ l \in 0..part /\ s \in 0..up /\ s = done + (part - l) /\ j \in Nat
         /\ over => out /\ s = up
         /\ more => ~out /\ j >= 1 /\ l = j * B
         /\ ~more => out
         /\ out /\ ~over => l = 0 /\ s < xfer
         /\ ~over => n = B /\ s < xfer
         /\ over => \/ s >= xfer
                    \/ /\ l # 0
                       /\ part - l > 0 /\ (part - l) % B = 0 => P - j = (part - l) \div B + 1
<1>1. /\ n \in 0..B /\ n <= left /\ left - n \in 0..part /\ sent + n <= up /\ sent + n \in Nat
      /\ sent + n = done + (part - (left - n))
      /\ n = B => left - n = (k - 1) * B
      /\ n < B => sent + n = up /\ left - n # 0
      /\ sent + n = xfer => sent + n = up /\ up = xfer
      /\ n = B /\ k > 1 => sent + n < xfer
      /\ k <= P
  BY PacketNumbers
<1>2. n \in 0..B /\ l \in 0..part /\ s \in 0..up /\ s = done + (part - l) /\ j \in Nat
  BY <1>1
<1>3. n = B \/ n < B
  BY <1>1
<1>4. n < B => s = up
  BY <1>1
<1>5. s = xfer => s = up /\ up = xfer
  BY <1>1
<1>6. s <= xfer
  BY <1>2
<1>7. ~over => n = B /\ s < xfer
  BY <1>2, <1>3, <1>4, <1>5, <1>6
<1>8. more => ~out /\ j >= 1 /\ l = j * B
  BY <1>1
<1>9. ~more => out
  BY <1>3
<1>10. ASSUME over PROVE out /\ s = up
  <2>1. s = up /\ (n < B \/ up = xfer)
    BY <1>10
  <2>2. CASE n = B /\ k > 1
    <3>1. sent + n < xfer
      BY <1>1, <2>2
    <3> QED
      BY <2>1, <2>2, <3>1
  <2> QED
    BY <1>3, <2>1, <2>2
<1>11. ASSUME out, ~over PROVE l = 0 /\ s < xfer
  <2>1. n = B /\ s < xfer /\ k = 1
    BY <1>7, <1>11
  <2>2. left = B
    BY <2>1
  <2> QED
    BY <2>1, <2>2
<1>12. ASSUME over, ~(s >= xfer)
       PROVE  /\ l # 0
              /\ part - l > 0 /\ (part - l) % B = 0 => P - j = (part - l) \div B + 1
  <2>1. n < B
    BY <1>2, <1>12
  <2>2. k <= P /\ n \in Nat
    BY <1>1
  <2>3. PICK g : g = (P * B) - ((k * B) - n)
    OBVIOUS
  <2>4. g = part - l
    BY <2>3
  <2>5. (k * B) - n # 0 /\ (g > 0 /\ g % B = 0 => P - (k - 1) = g \div B + 1)
    BY <2>1, <2>2, <2>3, ShortSeen
  <2>6. l = (k * B) - n
    OBVIOUS
  <2> QED
    BY <2>4, <2>5, <2>6
<1> QED
  BY <1>2, <1>7, <1>8, <1>9, <1>10, <1>11, <1>12

\* The host sends a packet of an upload.
LEMMA HostBulkInv ==
  ASSUME IInv, HostBulk
  PROVE  IInv'
<1>1. PICK n : n = Min({BulkMax, host.up - host.sent})
  OBVIOUS
<1>2. PICK sent, left, k, a : /\ sent = host.sent + n /\ left = reg.left2 - n
                              /\ k = reg.pkts2 - 1 /\ a = reg.addr2 + n
  OBVIOUS
<1>3. PICK over \in BOOLEAN, more \in BOOLEAN, out \in BOOLEAN :
        /\ over = (sent = host.up /\ (n < BulkMax \/ host.up = dev.xfer))
        /\ more = (n = BulkMax /\ reg.pkts2 > 1)
        /\ out = (int.out2 \/ n < BulkMax \/ reg.pkts2 = 1)
  <2>1. PICK over, more, out : /\ over = (sent = host.up /\ (n < BulkMax \/ host.up = dev.xfer))
                               /\ more = (n = BulkMax /\ reg.pkts2 > 1)
                               /\ out = (int.out2 \/ n < BulkMax \/ reg.pkts2 = 1)
    OBVIOUS
  <2>2. over \in BOOLEAN /\ more \in BOOLEAN /\ out \in BOOLEAN
    BY <2>1, Zenon
  <2> QED
    BY <2>1, <2>2, Zenon
<1>4. PICK have : have = IF over THEN host.up ELSE host.have
  OBVIOUS
<1>5. /\ host.bulk /\ reg.on2
      /\ mem' = [i \in 1..UploadMax |-> IF i - reg.addr2 \in 1..n THEN host.sent + i - reg.addr2
                                        ELSE mem[i]]
      /\ reg' = [reg EXCEPT !.left2 = left, !.pkts2 = k, !.addr2 = a, !.on2 = more]
      /\ int' = [int EXCEPT !.out2 = out]
      /\ host' = [host EXCEPT !.sent = sent, !.bulk = ~over, !.have = have]
      /\ UNCHANGED <<dev, usb, shell, iter>>
  BY <1>1, <1>2, <1>3, <1>4 DEF HostBulk
<1>6. /\ Fields /\ dev.waiting /\ Aligned(dev.ep2) /\ dev.ep2.size = dev.xfer
      /\ reg.addr2 = dev.ep2.done + Got /\ ~int.out2
      /\ reg.left2 \in 0..Bulk(dev.ep2).n /\ reg.pkts2 \in Nat /\ reg.pkts2 >= 1
      /\ reg.left2 = reg.pkts2 * BulkMax /\ reg.left2 \in Nat
      /\ Bulk(dev.ep2).n \in Nat /\ Bulk(dev.ep2).pkts \in Nat
      /\ Bulk(dev.ep2).n = Bulk(dev.ep2).pkts * BulkMax
      /\ Bulk(dev.ep2).n <= dev.ep2.size - dev.ep2.done
      /\ dev.ep2.done \in Nat /\ dev.xfer \in 1..UploadMax /\ dev.xfer % BulkMax = 0
      /\ host.up \in 0..dev.xfer /\ host.sent \in 0..host.up /\ host.sent < dev.xfer
      /\ host.sent = reg.addr2 /\ host.sent % BulkMax = 0 /\ InOrder(host.sent)
      /\ dev.xfer \in Nat /\ UploadMax \in Nat /\ BulkMax \in Nat \ {0}
  BY <1>5, BulkPacket
<1>7. PICK p, q : p = Bulk(dev.ep2).n /\ q = Bulk(dev.ep2).pkts
  OBVIOUS
<1>8. n = IF BulkMax <= host.up - host.sent THEN BulkMax ELSE host.up - host.sent
  <2>1. BulkMax \in Int /\ host.up - host.sent \in Int
    BY <1>6
  <2> QED
    BY <1>1, <2>1, MinOf
<1>9. /\ n \in 0..BulkMax /\ left \in 0..p /\ sent \in 0..host.up
      /\ sent = dev.ep2.done + (p - left) /\ k \in Nat
      /\ over => out /\ sent = host.up
      /\ more => ~out /\ k >= 1 /\ left = k * BulkMax
      /\ ~more => out
      /\ out /\ ~over => left = 0 /\ sent < dev.xfer
      /\ ~over => n = BulkMax /\ sent < dev.xfer
      /\ over => \/ sent >= dev.xfer
                 \/ /\ left # 0
                    /\ p - left > 0 /\ (p - left) % BulkMax = 0 =>
                         q - k = (p - left) \div BulkMax + 1
  <2>1. PICK B \in Nat \ {0}, P \in Nat, k0 \in Nat, l0 \in Nat, p0 \in Nat, d0 \in Nat, x0 \in Nat :
          /\ B = BulkMax /\ P = q /\ k0 = reg.pkts2 /\ l0 = reg.left2 /\ p0 = p
          /\ d0 = dev.ep2.done /\ x0 = dev.xfer
    BY <1>6, <1>7
  <2>2. PICK s0 \in Nat, u0 \in Nat : s0 = host.sent /\ u0 = host.up
    BY <1>6
  <2>3. PICK i0, i1, i2 : i0 = host.sent + n /\ i1 = reg.left2 - n /\ i2 = reg.pkts2 - 1
    OBVIOUS
  <2>4. k0 >= 1 /\ l0 = k0 * B /\ p0 = P * B /\ l0 <= p0
    BY <1>6, <1>7, <2>1
  <2>5. /\ p0 <= x0 - d0 /\ s0 = d0 + (p0 - l0) /\ u0 <= x0 /\ s0 <= u0 /\ s0 < x0
    <3>1. /\ Bulk(dev.ep2).n <= dev.ep2.size - dev.ep2.done /\ dev.ep2.size = dev.xfer
          /\ reg.addr2 = dev.ep2.done + (Bulk(dev.ep2).n - reg.left2)
          /\ host.sent = reg.addr2 /\ host.up \in 0..dev.xfer /\ host.sent \in 0..host.up
          /\ host.sent < dev.xfer
      BY <1>6 DEF Got
    <3> QED
      BY <1>7, <2>1, <2>2, <3>1
  <2>6. n = (IF B <= u0 - s0 THEN B ELSE u0 - s0) /\ n \in Int
    BY <1>8, <2>1, <2>2
  <2>7. /\ i0 = s0 + n /\ i1 = l0 - n /\ i2 = k0 - 1 /\ i0 = sent /\ i1 = left /\ i2 = k
        /\ i0 \in Int /\ i1 \in Int /\ i2 \in Int
    BY <1>2, <2>1, <2>2, <2>3, <2>6
  <2>8. /\ over <=> i0 = u0 /\ (n < B \/ u0 = x0)
        /\ more <=> n = B /\ k0 > 1
        /\ out <=> n < B \/ k0 = 1
    <3>1. ~int.out2
      BY <1>6
    <3> QED
      BY <1>3, <2>1, <2>2, <2>7, <3>1, Zenon
  <2>9. /\ n \in 0..B /\ i1 \in 0..p0 /\ i0 \in 0..u0 /\ i0 = d0 + (p0 - i1) /\ i2 \in Nat
        /\ over => out /\ i0 = u0
        /\ more => ~out /\ i2 >= 1 /\ i1 = i2 * B
        /\ ~more => out
        /\ out /\ ~over => i1 = 0 /\ i0 < x0
        /\ ~over => n = B /\ i0 < x0
        /\ over => \/ i0 >= x0
                   \/ /\ i1 # 0
                      /\ p0 - i1 > 0 /\ (p0 - i1) % B = 0 => P - i2 = (p0 - i1) \div B + 1
    BY <2>4, <2>5, <2>6, <2>7, <2>8, PacketMeans
  <2> QED
    BY <2>1, <2>2, <2>7, <2>9, Zenon
<1>10. /\ a = sent /\ k \in Nat /\ left \in 0..UploadMax /\ over \in BOOLEAN /\ more \in BOOLEAN
       /\ out \in BOOLEAN /\ have \in Int /\ sent \in Nat
  <2>1. a = sent
    BY <1>2, <1>6
  <2>2. left \in 0..p /\ sent \in 0..host.up /\ k \in Nat
    BY <1>9
  <2>3. host.up \in Nat /\ host.have \in Int
    BY <1>6 DEF Fields, HostStates
  <2>4. p \in Nat /\ p <= UploadMax
    <3>1. /\ Bulk(dev.ep2).n \in Nat /\ Bulk(dev.ep2).n <= dev.ep2.size - dev.ep2.done
          /\ dev.ep2.size = dev.xfer /\ dev.ep2.done \in Nat /\ dev.xfer \in 1..UploadMax
          /\ UploadMax \in Nat
      BY <1>6
    <3> QED
      BY <1>7, <3>1
  <2>5. left \in 0..UploadMax /\ sent \in Nat
    BY <1>6, <2>2, <2>3, <2>4
  <2>6. have \in Int
    BY <1>4, <2>3
  <2> QED
    BY <2>1, <2>2, <2>5, <2>6
<1>11. /\ reg' \in RegStates /\ reg'.left2 = left /\ reg'.pkts2 = k /\ reg'.addr2 = a
       /\ reg'.on2 = more /\ reg'.in0 = reg.in0 /\ reg'.out0 = reg.out0 /\ reg'.left0 = reg.left0
       /\ reg'.stall = reg.stall /\ reg'.dma0 = reg.dma0
  <2>1. PICK h : h = [reg EXCEPT !.left2 = left, !.on2 = more]
    OBVIOUS
  <2>2. /\ h \in RegStates /\ h.on2 = more /\ h.left2 = left
        /\ h.in0 = reg.in0 /\ h.out0 = reg.out0 /\ h.left0 = reg.left0
        /\ h.stall = reg.stall /\ h.dma0 = reg.dma0
    BY <1>6, <1>10, <2>1 DEF Fields, RegStates
  <2>3. PICK i \in Int, j \in Int : i = k /\ j = a
    BY <1>9, <1>10
  <2>4. PICK g : g = [h EXCEPT !.pkts2 = i]
    OBVIOUS
  <2>5. /\ g \in RegStates /\ g.on2 = more /\ g.left2 = left /\ g.pkts2 = i
        /\ g.in0 = reg.in0 /\ g.out0 = reg.out0 /\ g.left0 = reg.left0
        /\ g.stall = reg.stall /\ g.dma0 = reg.dma0
    BY <2>2, <2>4 DEF RegStates
  <2>6. PICK f : f = [g EXCEPT !.addr2 = j]
    OBVIOUS
  <2>7. /\ f \in RegStates /\ f.on2 = more /\ f.left2 = left /\ f.pkts2 = i /\ f.addr2 = j
        /\ f.in0 = reg.in0 /\ f.out0 = reg.out0 /\ f.left0 = reg.left0
        /\ f.stall = reg.stall /\ f.dma0 = reg.dma0
    BY <2>5, <2>6 DEF RegStates
  <2>8. reg' = f
    BY <1>5, <1>6, <2>1, <2>3, <2>4, <2>6 DEF Fields, RegStates
  <2> QED
    BY <2>3, <2>7, <2>8
<1>12. /\ int' \in IntStates /\ int'.out2 = out /\ int'.in0 = int.in0 /\ int'.out0 = int.out0
       /\ int'.reset = int.reset
  BY <1>5, <1>6, <1>10 DEF Fields, IntStates
<1>13. /\ host' \in HostStates /\ host'.sent = sent /\ host'.bulk = ~over /\ host'.have = have
       /\ host'.stage = host.stage /\ host'.req = host.req /\ host'.cnt = host.cnt
       /\ host'.up = host.up
  <2>1. PICK b \in BOOLEAN : b = ~over
    BY <1>10
  <2>2. PICK h : h = [host EXCEPT !.bulk = b]
    OBVIOUS
  <2>3. /\ h \in HostStates /\ h.bulk = b /\ h.stage = host.stage /\ h.req = host.req
        /\ h.cnt = host.cnt /\ h.up = host.up
    BY <1>6, <2>2 DEF Fields, HostStates
  <2>4. PICK i \in Int, j \in Int : i = sent /\ j = have
    BY <1>9, <1>10
  <2>5. PICK g : g = [h EXCEPT !.sent = i]
    OBVIOUS
  <2>6. /\ g \in HostStates /\ g.bulk = b /\ g.stage = host.stage /\ g.req = host.req
        /\ g.cnt = host.cnt /\ g.up = host.up /\ g.sent = i
    BY <2>3, <2>5 DEF HostStates
  <2>7. PICK f : f = [g EXCEPT !.have = j]
    OBVIOUS
  <2>8. /\ f \in HostStates /\ f.bulk = b /\ f.stage = host.stage /\ f.req = host.req
        /\ f.cnt = host.cnt /\ f.up = host.up /\ f.sent = i /\ f.have = j
    BY <2>6, <2>7 DEF HostStates
  <2>9. host' = f
    BY <1>5, <1>6, <2>1, <2>2, <2>4, <2>5, <2>7 DEF Fields, HostStates
  <2> QED
    BY <2>1, <2>4, <2>8, <2>9
<1>14. mem' \in [1..UploadMax -> 0..UploadMax] /\ InOrder(sent)'
  <2>1. /\ mem \in [1..UploadMax -> 0..UploadMax] /\ host.sent \in Nat /\ n \in Nat
        /\ host.sent + n <= UploadMax /\ \A i \in 1..host.sent : mem[i] = i
    <3>1. n \in 0..BulkMax /\ sent \in 0..host.up
      BY <1>9
    <3>2. /\ host.up \in 0..dev.xfer /\ dev.xfer \in 1..UploadMax /\ UploadMax \in Nat
          /\ BulkMax \in Nat /\ host.sent \in 0..host.up
      BY <1>6
    <3>3. mem \in [1..UploadMax -> 0..UploadMax] /\ \A i \in 1..host.sent : mem[i] = i
      BY <1>6 DEF Fields, InOrder
    <3>4. host.sent \in Nat /\ n \in Nat /\ host.sent + n <= UploadMax
      BY <1>2, <3>1, <3>2
    <3> QED
      BY <3>3, <3>4
  <2>2. mem' = [i \in 1..UploadMax |-> IF i - host.sent \in 1..n THEN host.sent + i - host.sent
                                       ELSE mem[i]]
    BY <1>5, <1>6
  <2>3. PICK f : f = [i \in 1..UploadMax |-> IF i - host.sent \in 1..n THEN host.sent + i - host.sent
                                             ELSE mem[i]]
    OBVIOUS
  <2>4. f \in [1..UploadMax -> 0..UploadMax] /\ \A i \in 1..(host.sent + n) : f[i] = i
    <3>1. PICK b \in Nat, m \in [1..UploadMax -> 0..UploadMax] : b = host.sent /\ m = mem
      BY <2>1
    <3>2. /\ m \in [1..UploadMax -> 0..UploadMax] /\ b + n <= UploadMax /\ n \in Nat
          /\ \A i \in 1..b : m[i] = i
      BY <2>1, <3>1
    <3>3. f = [i \in 1..UploadMax |-> IF i - b \in 1..n THEN b + i - b ELSE m[i]]
      BY <2>3, <3>1
    <3>4. UploadMax \in Nat
      BY <1>6
    <3>5. f \in [1..UploadMax -> 0..UploadMax] /\ \A i \in 1..(b + n) : f[i] = i
      BY <3>2, <3>3, <3>4, PacketStored
    <3> QED
      BY <3>1, <3>5
  <2>5. mem' = f
    BY <2>2, <2>3, Zenon
  <2> QED
    BY <1>2, <2>4, <2>5 DEF InOrder
<1>15. Fields'
  BY <1>5, <1>6, <1>11, <1>12, <1>13, <1>14 DEF Fields
<1>16. Phase'
  <2>1. UNCHANGED ctl /\ (Passing' <=> Passing) /\ (InCommand' <=> InCommand)
    BY <1>5, <1>11, <1>12, <1>13 DEF ctl, Passing, InCommand
  <2> QED
    BY <1>5, <2>1, PhaseKept DEF IInv
<1>17. Daint' /\ Reset' /\ Commands'
  <2>1. ~int.reset
    BY <1>5 DEF IInv, Reset
  <2> QED
    BY <1>5, <1>6, <1>12, <2>1 DEF IInv, Daint, Reset, Commands, InCommand
<1>18. over => out
  BY <1>9
<1>19. BulkInv'
  <2>1. UploadFlags' /\ Sizes'
    BY <1>5 DEF IInv, BulkInv, UploadFlags, Sizes
  <2>2. Got' = p - left /\ Bulk(dev'.ep2).n = p /\ Bulk(dev'.ep2).pkts = q
    BY <1>5, <1>7, <1>11 DEF Got
  <2>3. Expecting'
    <3>1. a = dev.ep2.done + (p - left) /\ left \in 0..p
      BY <1>9, <1>10
    <3>2. more => ~out /\ k >= 1 /\ left = k * BulkMax
      BY <1>9
    <3>3. ~more => out
      BY <1>9
    <3>4. ASSUME out, ~over PROVE left = 0 /\ a < dev.xfer
      BY <1>9, <1>10, <3>4
    <3>5. ASSUME over PROVE Over' /\ a = have /\ InOrder(have)'
      <4>1. sent = host.up
        BY <1>9, <3>5
      <4>2. a = have /\ InOrder(have)'
        <5>1. have = sent
          BY <1>4, <3>5, <4>1
        <5> QED
          BY <1>10, <1>14, <5>1
      <4>3. CASE sent >= dev.xfer
        <5>1. sent = dev.ep2.done + (p - left) /\ dev.ep2.size = dev.xfer /\ dev' = dev
          BY <1>5, <1>6, <1>9
        <5>2. dev'.ep2.done + Got' = sent /\ dev'.ep2.size = dev.xfer
          BY <2>2, <5>1
        <5>3. dev'.ep2.done + Got' >= dev'.ep2.size
          BY <4>3, <5>2
        <5> QED
          BY <4>2, <5>3, Zenon DEF Over
      <4>4. CASE /\ left # 0
                 /\ p - left > 0 /\ (p - left) % BulkMax = 0 =>
                      q - k = (p - left) \div BulkMax + 1
        <5>1. Short'
          BY <1>11, <2>2, <4>4 DEF Short
        <5> QED
          BY <4>2, <5>1, Zenon DEF Over
      <4> QED
        BY <1>9, <3>5, <4>2, <4>3, <4>4
    <3> QED
      BY <1>5, <1>6, <1>11, <1>12, <1>13, <2>2, <3>1, <3>2, <3>3, <3>4, <3>5 DEF Expecting
  <2>4. Uploading'
    <3>1. SUFFICES ASSUME ~over PROVE Uploading'
      BY <1>13 DEF Uploading
    <3>2. n = BulkMax /\ sent < dev.xfer
      BY <1>9, <3>1
    <3>3. sent % BulkMax = 0
      <4>1. BulkMax % BulkMax = 0
        <5>1. BulkMax \in Nat \ {0}
          BY <1>6
        <5>2. BulkMax = BulkMax * 1
          BY <5>1
        <5> QED
          BY <5>1, <5>2, IsMultiple
      <4>2. host.sent \in Int /\ BulkMax \in Int
        BY <1>6
      <4> QED
        BY <1>2, <1>6, <3>2, <4>1, <4>2, Multiples
    <3>4. sent \in 0..host.up
      BY <1>9
    <3> QED
      BY <1>5, <1>6, <1>10, <1>11, <1>13, <1>14, <3>2, <3>3, <3>4 DEF Uploading
  <2>5. Uploaded'
    BY <1>5, <1>6 DEF Uploaded
  <2> QED
    BY <2>1, <2>3, <2>4, <2>5 DEF BulkInv
<1>20. Meet'
  <2>1. ~Granting
    BY <1>5 DEF IInv, Meet, Granted
  <2>2. ~Granting'
    BY <1>11, <1>13, <2>1 DEF Granting
  <2>3. AwaitHost' /\ Granted'
    BY <1>12, <1>13, <1>18, <2>2 DEF AwaitHost, Granted
  <2>4. ResizeOK'
    BY <1>5 DEF IInv, Meet, ResizeOK
  <2>5. CommandAfterUpload'
    BY <1>5, <1>13 DEF IInv, Meet, CommandAfterUpload
  <2> QED
    BY <2>3, <2>4, <2>5 DEF Meet
<1> QED
  BY <1>15, <1>16, <1>17, <1>19, <1>20 DEF IInv

------------------------------------------------------------------------------
(* The invariant is inductive.                                             *)

\* The initial state: nothing is enabled, nothing was uploaded.
LEMMA IInvInit ==
  ASSUME Init
  PROVE  IInv
<1>1. /\ UploadMax \in Nat /\ UploadSize \in 1..UploadMax /\ DmaSize \in Nat /\ EP0Max \in Nat
      /\ RecvCap \in Nat /\ UploadSize % BulkMax = 0 /\ NoRequest \in Request
  BY UsbAssumption DEF UsbAssumption, Request
<1>2. /\ 0 \in 0..DmaSize /\ 0 \in 0..EP0Max /\ 0 \in 0..UploadMax /\ 0 \in 0..RecvCap
      /\ 0 \in 0..(DmaSize + UploadMax) /\ -1 \in -1..EP0Max /\ UploadSize \in 0..UploadMax
  BY <1>1
<1>3. Idle \in InStates /\ NotReceiving \in Endpoint
  BY <1>2 DEF Idle, InStates, NotReceiving, Endpoint
<1>4. dev \in DevStates
  BY <1>1, <1>2, <1>3 DEF Init, DevStates
<1>5. reg \in RegStates
  BY <1>1, <1>2 DEF Init, RegStates
<1>6. int \in IntStates /\ usb \in UsbStates /\ shell \in ShellStates
  BY LinesAssumption DEF Init, IntStates, UsbStates, ShellStates, LinesAssumption
<1>7. host \in HostStates
  BY <1>1 DEF Init, HostStates
<1>8. mem \in [1..UploadMax -> 0..UploadMax]
  BY <1>2 DEF Init, Fresh
<1>9. /\ dev.in = Idle /\ dev.out = NotReceiving /\ dev.ep2 = NotReceiving /\ dev.cb2 = FALSE
      /\ dev.cap = UploadSize /\ dev.xfer = UploadSize /\ dev.count = 0 /\ dev.waiting = FALSE
      /\ reg.in0 = -1 /\ reg.out0 = "off" /\ reg.on2 = FALSE
      /\ int.in0 = FALSE /\ int.out0 = {} /\ int.out2 = FALSE /\ int.reset = FALSE
      /\ usb.pc = "idle" /\ host.stage = "idle" /\ host.bulk = FALSE /\ host.have = 0
      /\ shell.careful = FALSE
  BY DEF Init
<1>10. Fields
  BY <1>4, <1>5, <1>6, <1>7, <1>8 DEF Fields
<1>11. Between
  BY <1>9 DEF Between, Passing, InQuiet, InRest, OutRest, Idle, NotReceiving
<1>12. Daint /\ Reset /\ Commands
  BY <1>9 DEF Daint, Reset, Commands
<1>13. BulkInv
  <2>1. UploadFlags
    BY <1>9 DEF UploadFlags, NotReceiving
  <2>2. Sizes
    BY <1>1, <1>9 DEF Sizes
  <2>3. InOrder(host.have)
    BY <1>9 DEF InOrder
  <2> QED
    BY <1>9, <2>1, <2>2, <2>3 DEF BulkInv, Expecting, Uploading, Uploaded
<1>14. Meet
  BY <1>9 DEF Meet, Granted, Granting, AwaitHost, ResizeOK, CommandAfterUpload
<1> QED
  BY <1>10, <1>11, <1>12, <1>13, <1>14 DEF IInv, Phase

\* A step of the handler task.
LEMMA HandlerInv ==
  ASSUME IInv, Handler
  PROVE  IInv'
BY HandlerResetInv, HandlerStartInv, Ep0InInv, Ep0OutNoneInv, Ep0OutSetupInv, Ep0RequestInv,
   Ep0OutStatusDoneInv, Ep0OutDataInv, Ep0OutStdinInv, StdinWaitInv, StdinReturnInv, Ep2OutInv
   DEF Handler

\* A step of a host that finishes what it begins.
LEMMA HostInv ==
  ASSUME IInv, ~Unruly, HostControl \/ HostBulk \/ HostReset \/ \E r \in Requests : HostSetup(r)
  PROVE  IInv'
BY HostStalledInv, HostInInv, HostOutInv, HostStatusInInv, HostBulkInv, HostResetInv, HostSetupInv
   DEF HostControl

\* Every step keeps the invariant.
LEMMA IInvNext ==
  ASSUME IInv, ~Unruly, [Next]_vars
  PROVE  IInv'
<1>1. CASE Handler
  BY <1>1, HandlerInv
<1>2. CASE ShellStart \/ ShellEnd
  BY <1>2, ShellStartInv, ShellEndInv
<1>3. CASE HostControl \/ HostBulk \/ HostReset \/ \E r \in Requests : HostSetup(r)
  BY <1>3, HostInv
<1>4. CASE UNCHANGED vars
  <2>1. UNCHANGED <<dev, reg, int, usb, host, mem>> /\ shell' = shell /\ iter' = iter
    BY <1>4 DEF vars
  <2>2. shell' \in ShellStates
    BY <2>1 DEF IInv, Fields
  <2>3. Commands'
    BY <2>1 DEF IInv, Commands, InCommand
  <2> QED
    BY <2>1, <2>2, <2>3, ShellOnly
<1> QED
  BY <1>1, <1>2, <1>3, <1>4 DEF Next

\* The inductive invariant holds of every reachable state, if the host finishes
\* what it begins.
LEMMA Inductive ==
  ASSUME ~Unruly
  PROVE  Spec => []IInv
<1>1. Init => IInv
  BY IInvInit
<1>2. IInv /\ [Next]_vars => IInv'
  BY IInvNext
<1> QED
  BY <1>1, <1>2, PTL DEF Spec

------------------------------------------------------------------------------
(* The theorems.  Unruly is false: the host finishes what it begins.  With *)
(* an unruly host NoBug is false (UsbSetupAbort.cfg).                      *)

\* No check of the driver ever fails: whatever the order of packets, interrupts,
\* bulk data and commands, no endpoint is given a transfer while it has one
\* (ep_in_send_data, ep_out_recv_data, usb_out_transfer_dma), and no packet is
\* received or sent beyond the DMA buffer.
THEOREM DriverNeverBugs == ASSUME ~Unruly PROVE Spec => []NoBug
<1>1. IInv => NoBug
  BY DEF IInv, Fields, DevStates, NoBug
<1> QED
  BY <1>1, Inductive, PTL

\* EP 2 OUT, the driver's callback and the loader agree on whether an upload is
\* in progress (usb_out_transfer_dma, ep2_out_interrupt, usbloader_xfer_done_cb).
THEOREM UploadFlagsAgree == ASSUME ~Unruly PROVE Spec => []UploadFlags
<1>1. IInv => UploadFlags
  BY DEF IInv, BulkInv
<1> QED
  BY <1>1, Inductive, PTL

\* The fields of driver, controller and tasks keep their types, and what the
\* controller has been told to write (ep_out_recv) lies within the buffer that
\* the loader allocated, for every sequence of sizes that the host sets.
THEOREM UploadStaysInBuffer == ASSUME ~Unruly PROVE Spec => []BulkInBuffer
<1>1. ASSUME IInv PROVE TypeOK
  BY <1>1 DEF IInv, Fields, DevStates, InStates, RegStates, IntStates, UsbStates, HostStates,
     ShellStates, TypeOK
<1>2. ASSUME IInv, reg.on2 PROVE reg.addr2 + reg.left2 <= dev.cap
  <2>1. dev.waiting /\ dev.xfer <= dev.cap
    BY <1>2 DEF IInv, BulkInv, Uploaded, Sizes
  <2>2. /\ Aligned(dev.ep2) /\ dev.ep2.size = dev.xfer
        /\ reg.addr2 = dev.ep2.done + (Bulk(dev.ep2).n - reg.left2)
    BY <1>2, <2>1 DEF IInv, BulkInv, Expecting, Got
  <2>3. Bulk(dev.ep2).n \in Nat /\ Bulk(dev.ep2).n <= dev.ep2.size - dev.ep2.done
    BY <2>2, BulkOf
  <2>4. reg.left2 \in Int /\ dev.cap \in Int /\ dev.xfer \in Int /\ dev.ep2.done \in Int
    BY <1>2, <2>2, UsbAssumption DEF IInv, Fields, DevStates, RegStates, Aligned, OutState, UsbAssumption
  <2>5. PICK b \in Int, x \in Int, e \in Int, l \in Int :
          b = Bulk(dev.ep2).n /\ x = dev.xfer /\ e = dev.ep2.done /\ l = reg.left2
    BY <2>3, <2>4
  <2> QED
    BY <2>1, <2>2, <2>3, <2>4, <2>5
<1>3. IInv => BulkInBuffer
  BY <1>1, <1>2 DEF BulkInBuffer
<1> QED
  BY <1>3, Inductive, PTL

\* When the host has seen the end of DATA IN it has the answer, cut to wLength
\* (ep_in_send_done, ep0_in_interrupt): no packet is missing, repeated or taken
\* for the end.
THEOREM AnswersAreExact == ASSUME ~Unruly PROVE Spec => []InExact
<1>1. ASSUME IInv, host.stage = "statusout"
      PROVE  host.req \in Requests /\ host.cnt = AnswerLen
  <2>1. Fields /\ Phase
    BY <1>1 DEF IInv
  <2>2. ~Between /\ ~StatusDone /\ ~StatusOutDone
    BY <1>1 DEF Between, StatusDone, StatusOutDone
  <2>3. ~SetupArrived /\ ~Requested /\ ~Stalled
    BY <1>1 DEF SetupArrived, Requested, Stalled, FirstStage
  <2>4. ~SendingData /\ ~SendingEmpty /\ ~SentPart
    BY <1>1 DEF SendingData, SendingEmpty, SentPart
  <2>5. ~DataOut /\ ~DataArrived /\ ~InStdin /\ ~StatusIn
    BY <1>1 DEF DataOut, DataArrived, InStdin, StatusIn
  <2>6. SendingMore \/ SentLast \/ SentEmpty \/ StatusOut
    BY <2>1, <2>2, <2>3, <2>4, <2>5 DEF Phase
  <2> QED
    BY <2>6 DEF SendingMore, SentLast, SentEmpty, StatusOut, Answering, Serves
<1>2. IInv => InExact
  <2>1. SUFFICES ASSUME IInv, host.stage = "statusout"
                 PROVE  host.cnt = Min({host.req.arg, host.req.len})
    BY DEF InExact
  <2>2. host.req \in Requests /\ host.cnt = AnswerLen
    BY <1>1, <2>1
  <2>3. host.req.arg \in Int /\ host.req.len \in Int
    BY <2>2, RequestsAssumption DEF RequestsAssumption
  <2>4. PICK i \in Int, j \in Int : i = host.req.arg /\ j = host.req.len
    BY <2>3
  <2>5. Min({i, j}) = IF i <= j THEN i ELSE j
    BY MinOf
  <2> QED
    BY <2>2, <2>4, <2>5 DEF AnswerLen
<1> QED
  BY <1>2, Inductive, PTL

\* A command that was written in waiting mode (request 4, usb_write_stdin) to a
\* shell with nothing to do finds exactly the data that the host uploaded before
\* (ep2_out_interrupt, ramdisk_cmd), and no other upload and no discard touches
\* the buffer or the count until the command is done.
THEOREM CommandsSeeUploads == ASSUME ~Unruly PROVE Spec => []CommandSeesUpload
<1>1. ASSUME IInv, shell.careful
      PROVE  ~dev.waiting /\ dev.count = host.have /\ InOrder(host.have)
  <2>1. InCommand
    BY <1>1 DEF IInv, Commands
  <2>2. ~dev.waiting
    BY <1>1, <2>1, NoUploadInStdin
  <2> QED
    BY <1>1, <2>2 DEF IInv, BulkInv, Uploaded
<1>2. IInv => CommandSeesUpload
  BY <1>1 DEF CommandSeesUpload, InOrder
<1> QED
  BY <1>2, Inductive, PTL
==============================================================================
