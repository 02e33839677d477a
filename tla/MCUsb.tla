-------------------------------- MODULE MCUsb --------------------------------
EXTENDS Usb

In(len, arg) == [in |-> TRUE, op |-> "answer", len |-> len, arg |-> arg]
Out(op, len, arg) == [in |-> FALSE, op |-> op, len |-> len, arg |-> arg]

\* Answers: cut to wLength with a short last packet, whole packets with more
\* requested, whole packets that fit exactly.  A vendor request, refused when its
\* buffer is full; the two modes of request 4; an upload, a discard and a line for
\* stdin; a size that the upload then fills exactly, and one that is too large.
MCRequests ==
  {In(3, 4), In(3, 2), In(2, 2), Out("vendor", 2, 0),
   Out("wait", 0, 0), Out("nowait", 0, 0),
   Out("upload", 0, 0), Out("discard", 0, 0), Out("stdin", 3, 0),
   Out("resize", 1, 8), Out("resize", 1, 9)}
==============================================================================
