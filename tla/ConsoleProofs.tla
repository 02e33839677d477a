----------------------------- MODULE ConsoleProofs ----------------------------
(***************************************************************************)
(* The buffers of standard input and output for every size of buffer, line *)
(* and command output, any number of lines, and a host that changes modes  *)
(* and fetches at any time.                                                *)
(*                                                                         *)
(* The invariant is in four parts.  Control says where the two tasks can   *)
(* be; Input says, character by character, that stdin_buf begins with the  *)
(* log; Output says the same of stdout_buf and the numbers of the          *)
(* characters written; Wait says why a waiting writer has switched the     *)
(* blocking off.                                                           *)
(***************************************************************************)
EXTENDS Console, SequenceTheorems, TLAPS

Chars == {"c", "nl"}

\* The program counters and counters keep their types.
Control ==
  /\ lock \in {"nobody", "writer", "shell"}
  /\ wpc \in {"idle", "take", "put", "fire", "drop", "wait", "waiting",
              "block", "discard", "fetch"}
  /\ wi \in 1..Len(Line)
  /\ rpc \in {"fire", "gets", "take", "test", "wait", "waiting", "drop", "exec",
              "print", "ready"}
  /\ have \in 0..(LineMax - 1)

\* The first bytes of stdin_buf are the log.
Input ==
  /\ stdin.off \in 0..BufSize
  /\ stdin.buf \in [1..BufSize -> {"none", "c", "nl"}]
  /\ log \in Seq(Chars) /\ Len(log) = stdin.off
  /\ \A i \in 1..Len(log) : stdin.buf[i] = log[i]
  /\ file \in Seq(Chars)

\* What stands in stdout_buf and what the host has fetched.
Output ==
  /\ out = [buf |-> out.buf, blocking |-> out.blocking]
  /\ host = [got |-> host.got, all |-> host.all]
  /\ out.buf \in Seq(1..OutLen) /\ Len(out.buf) <= OutMax
  /\ pos \in 0..OutLen
  /\ rpc \notin {"exec", "print"} => pos = OutLen
  /\ host.got \in 0..OutLen
  /\ host.all => out.blocking
  /\ StdoutKept

\* A writer is in the waiting mode while it waits, and that mode and a blocking
\* stdout exclude each other except on the way from one to the other.
Wait ==
  /\ should_wait \in BOOLEAN /\ inprog \in BOOLEAN /\ olock \in BOOLEAN
  /\ wpc \in {"wait", "waiting"} => should_wait
  /\ wpc = "block" => ~should_wait
  /\ should_wait /\ wpc # "discard" => ~out.blocking

IInv == Control /\ Input /\ Output /\ Wait

------------------------------------------------------------------------------
\* A newline ends the line, so it has a first character, and all are of the
\* three kinds.
LEMMA LineChars == /\ Len(Line) \in Nat \ {0}
                   /\ \A i \in 1..Len(Line) : Line[i] \in {"c", "nl", "del"}
BY ConsoleAssumption

\* The steps of the two tasks keep the program counters in place.
LEMMA ControlStep == Control /\ [Next]_vars => Control'
<1> SUFFICES ASSUME Control, [Next]_vars PROVE Control'
  OBVIOUS
<1> USE ConsoleAssumption, LineChars DEF Control
<1>1. CASE BeginWrite \/ Modes \/ BeginFetch
  BY <1>1 DEF BeginWrite, Modes, SetMode, BeginFetch, shellVars
<1>2. CASE Writer
  BY <1>2 DEF Writer, QueueLock, QueueChar, QueueDelete, FireStdin, QueueUnlock, WaitIter,
              IterFired, SetBlocking, Fetch, Take, Drop, shellVars
<1>3. CASE Shell
  <2>1. CASE GetsChar
    BY <2>1 DEF GetsChar, writerVars
  <2>2. CASE FireIter \/ Ready \/ ReadLock \/ ReadEmpty \/ WaitStdin \/ StdinFired
    BY <2>2 DEF FireIter, Ready, ReadLock, ReadEmpty, WaitStdin, StdinFired, Take, Drop,
                writerVars, stdio
  <2>3. CASE ReadCopy \/ ReadUnlock \/ GetsRefill
    BY <2>3 DEF ReadCopy, ReadUnlock, GetsRefill, Drop, writerVars, stdio
  <2>4. CASE WriteLock \/ WriteChar \/ WriteBlocked \/ WriteUnlock
    BY <2>4 DEF WriteLock, WriteChar, WriteBlocked, WriteUnlock, stdinPart, writerVars, stdio
  <2>5. QED
    BY <1>3, <2>1, <2>2, <2>3, <2>4 DEF Shell
<1>4. CASE UNCHANGED vars
  BY <1>4 DEF vars
<1>5. QED
  BY <1>1, <1>2, <1>3, <1>4 DEF Next

\* The modes: usbloader.c switches one off when it switches the other on.
LEMMA WaitStep == Control /\ Output /\ Wait /\ [Next]_vars => Wait'
<1> SUFFICES ASSUME Control, Output, Wait, [Next]_vars PROVE Wait'
  OBVIOUS
<1> USE DEF Wait
<1>0. out = [buf |-> out.buf, blocking |-> out.blocking]
  BY DEF Output
<1>1. CASE BeginWrite \/ BeginFetch
  BY <1>1 DEF BeginWrite, BeginFetch, output
<1>2. CASE Modes
  BY <1>2 DEF Modes, SetMode, output
<1>3. CASE SetBlocking
  BY <1>0, <1>3 DEF SetBlocking
<1>4. CASE \E n \in FetchLens : Fetch(n)
  BY <1>0, <1>4 DEF Fetch
<1>5. CASE QueueLock \/ QueueChar \/ QueueDelete \/ FireStdin \/ WaitIter \/ IterFired
  BY <1>5 DEF QueueLock, QueueChar, QueueDelete, FireStdin, WaitIter, IterFired, output
<1>6. CASE QueueUnlock
  BY <1>6 DEF QueueUnlock, output
<1>7. CASE FireIter \/ ReadLock \/ ReadEmpty \/ WaitStdin \/ StdinFired \/ ReadCopy
           \/ ReadUnlock \/ GetsRefill
  BY <1>7 DEF FireIter, ReadLock, ReadEmpty, WaitStdin, StdinFired, ReadCopy, ReadUnlock,
              GetsRefill, writerVars, output
<1>8. CASE Ready \/ GetsChar
  <2>1. inprog' \in BOOLEAN
    BY <1>8, Zenon DEF Ready, GetsChar
  <2>2. UNCHANGED <<should_wait, wpc, out, olock>>
    BY <1>8 DEF Ready, GetsChar, writerVars
  <2>3. QED
    BY <2>1, <2>2
<1>9. CASE WriteLock \/ WriteBlocked \/ WriteUnlock
  <2>1. olock' \in BOOLEAN
    BY <1>9, Zenon DEF WriteLock, WriteBlocked, WriteUnlock
  <2>2. UNCHANGED <<should_wait, wpc, out, inprog>>
    BY <1>9 DEF WriteLock, WriteBlocked, WriteUnlock, stdinPart, writerVars
  <2>3. QED
    BY <2>1, <2>2
<1>10. CASE WriteChar
  BY <1>0, <1>10 DEF WriteChar, stdinPart, writerVars
<1>11. CASE UNCHANGED vars
  BY <1>11 DEF vars, output
<1>12. QED
  BY <1>1, <1>2, <1>3, <1>4, <1>5, <1>6, <1>7, <1>8, <1>9, <1>10, <1>11
     DEF Next, Writer, Shell

------------------------------------------------------------------------------
(* Standard input.                                                         *)

\* queue_rx_char, _read and fgets keep stdin_buf equal to the log.
LEMMA InputStep == Control /\ Input /\ [Next]_vars => Input'
<1> SUFFICES ASSUME Control, Input, [Next]_vars PROVE Input'
  OBVIOUS
<1> USE ConsoleAssumption DEF Input, Chars
<1>1. CASE QueueChar
  <2>1. Line[wi] \in Chars
    BY <1>1, LineChars DEF QueueChar, Control
  <2>2. CASE stdin.off < BufSize
    <3>1. /\ stdin'.buf = [stdin.buf EXCEPT ![stdin.off + 1] = Line[wi]]
          /\ stdin'.off = stdin.off + 1
          /\ log' = Append(log, Line[wi]) /\ file' = file
      BY <1>1, <2>2 DEF QueueChar, shellVars
    <3>2. /\ log' \in Seq(Chars) /\ Len(log') = Len(log) + 1
          /\ \A i \in 1..Len(log) : log'[i] = log[i]
          /\ log'[Len(log) + 1] = Line[wi]
      BY <2>1, <3>1, AppendProperties
    <3>3. \A i \in 1..Len(log') : stdin'.buf[i] = log'[i]
      <4>1. SUFFICES ASSUME NEW i \in 1..(Len(log) + 1) PROVE stdin'.buf[i] = log'[i]
        BY <3>2
      <4>2. CASE i = Len(log) + 1
        BY <2>2, <3>1, <3>2, <4>2
      <4>3. CASE i # Len(log) + 1
        BY <2>2, <3>1, <3>2, <4>3
      <4>4. QED
        BY <4>2, <4>3
    <3>4. QED
      BY <2>1, <2>2, <3>1, <3>2, <3>3
  <2>3. CASE ~(stdin.off < BufSize)
    BY <1>1, <2>3 DEF QueueChar, shellVars
  <2>4. QED
    BY <2>2, <2>3
<1>2. CASE QueueDelete
  <2>1. CASE stdin.off > 0
    <3>1. /\ stdin'.buf = [stdin.buf EXCEPT ![stdin.off] = "none"]
          /\ stdin'.off = stdin.off - 1
          /\ log' = SubSeq(log, 1, Len(log) - 1) /\ file' = file
      <4>1. /\ stdin' = [buf |-> [stdin.buf EXCEPT ![stdin.off] = "none"], off |-> stdin.off - 1]
            /\ log' = Front(log) /\ file' = file
        BY <1>2, <2>1 DEF QueueDelete, shellVars
      <4>2. QED
        BY <4>1 DEF Front
    <3>2. /\ log' \in Seq(Chars) /\ Len(log') = Len(log) - 1
          /\ \A i \in 1..Len(log') : log'[i] = log[i]
      <4>1. \A i \in 1..(Len(log) - 1) : log[i] \in Chars
        OBVIOUS
      <4>2. QED
        BY <2>1, <3>1, <4>1, SubSeqProperties
    <3>3. \A i \in 1..Len(log') : stdin'.buf[i] = log'[i]
      <4>1. SUFFICES ASSUME NEW i \in 1..(Len(log) - 1) PROVE stdin'.buf[i] = log'[i]
        BY <3>2
      <4>2. i \in 1..Len(log) /\ i # stdin.off /\ i \in 1..BufSize
        BY <2>1
      <4>3. QED
        BY <3>1, <3>2, <4>2
    <3>4. stdin'.off \in 0..BufSize /\ stdin'.buf \in [1..BufSize -> {"none", "c", "nl"}]
      BY <2>1, <3>1
    <3>5. QED
      BY <2>1, <3>1, <3>2, <3>3, <3>4
  <2>2. CASE ~(stdin.off > 0)
    BY <1>2, <2>2 DEF QueueDelete, shellVars
  <2>3. QED
    BY <2>1, <2>2
<1>3. CASE ReadCopy
  <2> DEFINE n == IF stdin.off > ReadLen THEN ReadLen ELSE stdin.off
  <2>1. n \in 1..stdin.off
    BY <1>3 DEF ReadCopy
  <2>2. /\ file' = SubSeq(stdin.buf, 1, n)
        /\ stdin'.buf = [i \in 1..BufSize |->
                           IF i <= stdin.off - n THEN stdin.buf[i + n] ELSE stdin.buf[i]]
        /\ stdin'.off = stdin.off - n
        /\ log' = SubSeq(log, n + 1, Len(log))
    BY <1>3 DEF ReadCopy
  <2> HIDE DEF n
  <2>3. /\ log' \in Seq(Chars) /\ Len(log') = Len(log) - n
        /\ \A i \in 1..Len(log') : log'[i] = log[i + n]
    <3>1. \A i \in (n + 1)..Len(log) : log[i] \in Chars
      BY <2>1
    <3>2. /\ log' \in Seq(Chars)
          /\ Len(log') = IF n + 1 <= Len(log) THEN Len(log) - (n + 1) + 1 ELSE 0
          /\ \A i \in 1..(Len(log) - (n + 1) + 1) : log'[i] = log[(n + 1) + i - 1]
      BY <2>1, <2>2, <3>1, SubSeqProperties
    <3>3. QED
      BY <2>1, <3>2
  <2>4. file' \in Seq(Chars)
    <3>1. \A i \in 1..n : stdin.buf[i] \in Chars
      BY <2>1
    <3>2. file' = [i \in 1..n |-> stdin.buf[i]]
      BY <2>1, <2>2
    <3>3. QED
      BY <2>1, <3>1, <3>2
  <2>5. \A i \in 1..Len(log') : stdin'.buf[i] = log'[i]
    <3>1. SUFFICES ASSUME NEW i \in 1..(Len(log) - n) PROVE stdin'.buf[i] = log[i + n]
      BY <2>1, <2>3
    <3>2. i \in 1..BufSize /\ i <= stdin.off - n /\ i + n \in 1..Len(log)
      BY <2>1
    <3>3. QED
      BY <2>2, <3>2
  <2>6. stdin'.buf \in [1..BufSize -> {"none", "c", "nl"}]
    BY <2>1, <2>2
  <2>7. stdin'.off \in 0..BufSize /\ Len(log') = stdin'.off
    BY <2>1, <2>2, <2>3
  <2>8. QED
    BY <2>3, <2>4, <2>5, <2>6, <2>7
<1>4. CASE GetsChar
  BY <1>4 DEF GetsChar
<1>5. CASE UNCHANGED <<stdin, log, file>>
  BY <1>5
<1>6. CASE BeginWrite \/ Modes \/ BeginFetch
  BY <1>5, <1>6 DEF BeginWrite, Modes, SetMode, BeginFetch, shellVars
<1>7. CASE QueueLock \/ FireStdin \/ QueueUnlock \/ WaitIter \/ IterFired \/ SetBlocking
           \/ \E n \in FetchLens : Fetch(n)
  BY <1>5, <1>7 DEF QueueLock, FireStdin, QueueUnlock, WaitIter, IterFired, SetBlocking, Fetch,
                    shellVars
<1>8. CASE FireIter \/ Ready \/ ReadLock \/ ReadEmpty \/ WaitStdin \/ StdinFired \/ ReadUnlock
           \/ GetsRefill \/ WriteLock \/ WriteChar \/ WriteBlocked \/ WriteUnlock
  BY <1>5, <1>8 DEF FireIter, Ready, ReadLock, ReadEmpty, WaitStdin, StdinFired, ReadUnlock,
                    GetsRefill, WriteLock, WriteChar, WriteBlocked, WriteUnlock, stdio, stdinPart
<1>9. CASE UNCHANGED vars
  BY <1>5, <1>9 DEF vars
<1>10. QED
  BY <1>1, <1>2, <1>3, <1>4, <1>6, <1>7, <1>8, <1>9 DEF Next, Writer, Shell

------------------------------------------------------------------------------
(* Standard output.                                                        *)

\* The numbers of two characters that are OutLen apart agree modulo OutLen: the
\* output of a command follows that of the command before it.
LEMMA NextCommand ==
  ASSUME NEW m \in Nat \ {0}, NEW a \in Int, a % m = 0
  PROVE  (a + m) % m = 0
<1>1. PICK q \in Int : a = q * m
  BY Z3
<1>2. (q + 1) * m = a + m
  BY <1>1, Z3
<1>3. QED
  BY <1>1, <1>2, Z3

\* A buffer of _write: character k of b, the last of which is number p, has its
\* number up to the length of the output.
Numbered(b, p) == \A k \in 1..Len(b) : (b[k] - (p - (Len(b) - k))) % OutLen = 0

\* One more character leaves a full buffer at the front and enters at the end.
LEMMA WriteNumbered ==
  ASSUME NEW b \in Seq(1..OutLen), NEW p \in 0..(OutLen - 1), Numbered(b, p),
         NEW d \in Seq(1..OutLen), d = b \/ (b # <<>> /\ d = Tail(b))
  PROVE  /\ Append(d, p + 1) \in Seq(1..OutLen)
         /\ Len(Append(d, p + 1)) = Len(d) + 1
         /\ Numbered(Append(d, p + 1), p + 1)
<1> DEFINE e == Append(d, p + 1)
<1>0. OutLen \in Nat \ {0}
  BY ConsoleAssumption
<1>1. p + 1 \in 1..OutLen
  BY <1>0
<1>2. /\ e \in Seq(1..OutLen) /\ Len(e) = Len(d) + 1
      /\ \A i \in 1..Len(d) : e[i] = d[i]
      /\ e[Len(d) + 1] = p + 1
  BY <1>1, AppendProperties
<1> HIDE DEF e
<1>3. ASSUME NEW k \in 1..(Len(d) + 1)
      PROVE  (e[k] - ((p + 1) - ((Len(d) + 1) - k))) % OutLen = 0
  <2>1. CASE k = Len(d) + 1
    <3>1. e[k] - ((p + 1) - ((Len(d) + 1) - k)) = 0
      BY <1>2, <2>1
    <3>2. 0 % OutLen = 0
      BY <1>0
    <3>3. QED
      BY <3>1, <3>2
  <2>2. CASE k # Len(d) + 1 /\ d = b
    <3>0. Len(d) \in Nat /\ k \in 1..Len(d)
      BY <2>2
    <3>1. k \in 1..Len(b) /\ e[k] = b[k] /\ b[k] \in 1..OutLen
      BY <1>2, <2>2, <3>0, ElementOfSeq
    <3>2. e[k] - ((p + 1) - ((Len(d) + 1) - k)) = b[k] - (p - (Len(b) - k))
      BY <1>0, <2>2, <3>1
    <3>3. QED
      BY <3>1, <3>2 DEF Numbered
  <2>3. CASE k # Len(d) + 1 /\ b # <<>> /\ d = Tail(b)
    <3>1. Len(d) = Len(b) - 1 /\ \A i \in 1..Len(d) : d[i] = b[i + 1]
      BY <2>3
    <3>0. Len(b) \in Nat /\ k \in 1..Len(d) /\ k + 1 \in 1..Len(b)
      <4>1. Len(b) \in Nat /\ Len(d) \in Nat
        OBVIOUS
      <4>2. k # Len(d) + 1 /\ Len(d) = Len(b) - 1
        BY <2>3, <3>1
      <4>3. QED
        BY <4>1, <4>2
    <3>2. k + 1 \in 1..Len(b) /\ e[k] = b[k + 1] /\ b[k + 1] \in 1..OutLen
      BY <1>2, <3>0, <3>1, ElementOfSeq
    <3>3. e[k] - ((p + 1) - ((Len(d) + 1) - k)) = b[k + 1] - (p - (Len(b) - (k + 1)))
      BY <1>0, <3>1, <3>2
    <3>4. QED
      BY <3>2, <3>3 DEF Numbered
  <2>4. QED
    BY <2>1, <2>2, <2>3
<1>4. Numbered(e, p + 1)
  BY <1>2, <1>3 DEF Numbered
<1>5. QED
  BY <1>2, <1>4 DEF e

\* _write, fetch_stdoutbuf and the start of a command keep the output in order.
LEMMA OutputStep == Control /\ Output /\ [Next]_vars => Output'
<1> SUFFICES ASSUME Control, Output, [Next]_vars PROVE Output'
  OBVIOUS
<1>0. OutLen \in Nat \ {0} /\ OutMax \in Nat \ {0}
  BY ConsoleAssumption
<1>k. StdoutKept <=> Numbered(out.buf, pos) /\ (host.all => host.got + Len(out.buf) = pos)
  BY DEF StdoutKept, Numbered
<1>l. StdoutKept' <=> /\ Numbered(out'.buf, pos')
                      /\ (host'.all => host'.got + Len(out'.buf) = pos')
  BY DEF StdoutKept, Numbered
<1>1. CASE SetBlocking
  <2>1. /\ out'.buf = out.buf /\ out'.blocking = (wpc = "block")
        /\ out' = [buf |-> out'.buf, blocking |-> out'.blocking]
        /\ host'.got = host.got /\ host'.all = (host.all /\ wpc = "block")
        /\ host' = [got |-> host'.got, all |-> host'.all]
    BY <1>1 DEF SetBlocking, Output
  <2>2. pos' = pos /\ rpc' = rpc
    BY <1>1 DEF SetBlocking, shellVars
  <2>3. QED
    BY <1>k, <1>l, <2>1, <2>2 DEF Output
<1>2. CASE \E n \in FetchLens : Fetch(n)
  <2>n. PICK n \in FetchLens : Fetch(n)
    BY <1>2
  <2>1. /\ out'.buf = <<>> /\ out'.blocking = out.blocking
        /\ out' = [buf |-> out'.buf, blocking |-> out'.blocking]
        /\ host'.all = (host.all /\ Len(out.buf) <= n)
        /\ host'.got = (IF host.all /\ Len(out.buf) <= n THEN host.got + Len(out.buf) ELSE 0)
        /\ host' = [got |-> host'.got, all |-> host'.all]
    <3>1. /\ out' = [out EXCEPT !.buf = <<>>]
          /\ host' = [got |-> IF host.all /\ Sent(n) = Len(out.buf)
                               THEN host.got + Sent(n) ELSE 0,
                      all |-> host.all /\ Sent(n) = Len(out.buf)]
      BY <2>n DEF Fetch
    <3>2. Len(out.buf) \in Nat /\ n \in Nat
      BY FetchAssumption DEF Output
    <3>3. (Sent(n) = Len(out.buf)) = (Len(out.buf) <= n)
      BY <3>2 DEF Sent
    <3>4. QED
      BY <3>1, <3>3 DEF Output
  <2>2. pos' = pos /\ rpc' = rpc
    BY <2>n DEF Fetch, shellVars
  <2>3. Len(out.buf) \in Nat /\ Len(out'.buf) = 0 /\ out'.buf \in Seq(1..OutLen)
    BY <2>1 DEF Output
  <2>4. /\ host'.got \in 0..OutLen
        /\ host'.all => out'.blocking /\ host'.got + Len(out'.buf) = pos'
    <3>1. CASE host.all /\ Len(out.buf) <= n
      <4>1. host'.got = host.got + Len(out.buf) /\ out'.blocking
        BY <2>1, <3>1 DEF Output
      <4>2. host.got + Len(out.buf) = pos /\ pos \in 0..OutLen
        BY <1>k, <3>1 DEF Output
      <4>3. QED
        BY <1>0, <2>2, <2>3, <4>1, <4>2
    <3>2. CASE ~(host.all /\ Len(out.buf) <= n)
      <4>1. host'.got = 0 /\ ~host'.all
        BY <2>1, <3>2, Zenon
      <4>2. QED
        BY <1>0, <4>1
    <3>3. QED
      BY <3>1, <3>2
  <2>5. Numbered(out'.buf, pos')
    BY <2>3 DEF Numbered
  <2>6. StdoutKept'
    BY <1>l, <2>4, <2>5
  <2>7. Len(out'.buf) <= OutMax
    BY <1>0, <2>3
  <2>8. QED
    BY <2>1, <2>2, <2>3, <2>4, <2>6, <2>7 DEF Output
<1>3. CASE GetsChar
  <2>1. out' = out
    BY <1>3 DEF GetsChar
  <2>2. CASE rpc' = "exec"
    <3>1. /\ pos' = 0 /\ host' = [got |-> 0, all |-> out.blocking /\ out.buf = <<>>]
          /\ pos = OutLen
      BY <1>3, <2>2 DEF GetsChar, Output
    <3>2. Numbered(out.buf, 0)
      <4>1. SUFFICES ASSUME NEW k \in 1..Len(out.buf)
                     PROVE  (out.buf[k] - (0 - (Len(out.buf) - k))) % OutLen = 0
        BY DEF Numbered
      <4> DEFINE a == out.buf[k] - (OutLen - (Len(out.buf) - k))
      <4>2. a % OutLen = 0
        BY <1>k, <3>1 DEF Output, Numbered
      <4>3. a \in Int /\ a + OutLen = out.buf[k] - (0 - (Len(out.buf) - k))
        BY <1>0 DEF Output
      <4> HIDE DEF a
      <4>4. (a + OutLen) % OutLen = 0
        BY <1>0, <4>2, <4>3, NextCommand
      <4>5. QED
        BY <4>3, <4>4
    <3>3. /\ host'.got = 0 /\ host'.all = (out.blocking /\ out.buf = <<>>)
          /\ host' = [got |-> host'.got, all |-> host'.all]
      BY <3>1
    <3>4. Len(<<>>) = 0
      OBVIOUS
    <3>5. host'.all => out'.blocking /\ host'.got + Len(out'.buf) = pos'
      <4>1. ASSUME host'.all PROVE out.blocking /\ Len(out.buf) = 0
        BY <3>3, <3>4, <4>1, Zenon
      <4>2. QED
        BY <2>1, <3>1, <3>3, <4>1
    <3>6. StdoutKept'
      BY <1>l, <2>1, <3>1, <3>2, <3>5
    <3>7. QED
      BY <1>0, <2>1, <2>2, <3>1, <3>3, <3>5, <3>6 DEF Output
  <2>3. CASE rpc' # "exec"
    BY <1>3, <1>k, <1>l, <2>1, <2>3 DEF GetsChar, Output
  <2>4. QED
    BY <2>2, <2>3
<1>4. CASE WriteChar
  <2> DEFINE d == IF Len(out.buf) >= OutMax THEN Tail(out.buf) ELSE out.buf
  <2>1. /\ out'.buf = Append(d, pos + 1) /\ out'.blocking = out.blocking
        /\ out' = [buf |-> out'.buf, blocking |-> out'.blocking]
        /\ pos' = pos + 1 /\ host' = host /\ rpc' = rpc /\ rpc = "print"
        /\ pos \in 0..(OutLen - 1)
        /\ (Len(out.buf) >= OutMax => ~out.blocking)
    <3>1. out' = [out EXCEPT !.buf = Append(d, pos + 1)]
      BY <1>4 DEF WriteChar
    <3>2. out = [buf |-> out.buf, blocking |-> out.blocking]
      BY DEF Output
    <3>3. /\ out'.buf = Append(d, pos + 1) /\ out'.blocking = out.blocking
          /\ out' = [buf |-> out'.buf, blocking |-> out'.blocking]
      <4> HIDE DEF d
      <4> QED BY <3>1, <3>2
    <3>4. /\ pos' = pos + 1 /\ host' = host /\ rpc' = rpc /\ rpc = "print"
          /\ (Len(out.buf) >= OutMax => ~out.blocking)
      BY <1>4 DEF WriteChar
    <3>5. pos \in 0..(OutLen - 1)
      BY <1>0, <1>4 DEF WriteChar, Output
    <3>6. QED
      BY <3>3, <3>4, <3>5
  <2>2. /\ d \in Seq(1..OutLen) /\ Len(d) < OutMax
        /\ d = out.buf \/ (out.buf # <<>> /\ d = Tail(out.buf))
    <3>1. out.buf \in Seq(1..OutLen) /\ Len(out.buf) \in Nat /\ Len(out.buf) <= OutMax
      BY DEF Output
    <3>2. CASE Len(out.buf) >= OutMax
      <4>1. out.buf # <<>>
        BY <1>0, <3>1, <3>2
      <4>2. Tail(out.buf) \in Seq(1..OutLen) /\ Len(Tail(out.buf)) = Len(out.buf) - 1
        BY <3>1, <4>1, HeadTailProperties
      <4>3. QED
        BY <1>0, <3>1, <3>2, <4>1, <4>2
    <3>3. CASE ~(Len(out.buf) >= OutMax)
      BY <1>0, <3>1, <3>3
    <3>4. QED
      BY <3>2, <3>3
  <2>3. host.all => d = out.buf
    BY <2>1 DEF Output
  <2> HIDE DEF d
  <2>4. /\ out'.buf \in Seq(1..OutLen) /\ Len(out'.buf) = Len(d) + 1
        /\ Numbered(out'.buf, pos')
    BY <1>k, <2>1, <2>2, WriteNumbered DEF Output
  <2>5. host'.all => host'.got + Len(out'.buf) = pos'
    BY <1>k, <2>1, <2>2, <2>3, <2>4 DEF Output
  <2>6. pos' \in 0..OutLen /\ Len(out'.buf) <= OutMax
    BY <1>0, <2>1, <2>2, <2>4
  <2>7. QED
    BY <1>l, <2>1, <2>4, <2>5, <2>6 DEF Output
<1>5. CASE UNCHANGED <<out, pos, host>> /\ (rpc' \notin {"exec", "print"} => pos = OutLen)
  BY <1>5, <1>k, <1>l DEF Output
<1>6. CASE WriteLock \/ WriteBlocked \/ WriteUnlock
  BY <1>5, <1>6 DEF WriteLock, WriteBlocked, WriteUnlock
<1>7. CASE BeginWrite \/ Modes \/ BeginFetch \/ QueueLock \/ QueueChar \/ QueueDelete
           \/ FireStdin \/ QueueUnlock \/ WaitIter \/ IterFired
  <2>1. UNCHANGED <<out, pos, host, rpc>>
    BY <1>7 DEF BeginWrite, Modes, SetMode, BeginFetch, QueueLock, QueueChar, QueueDelete,
                FireStdin, QueueUnlock, WaitIter, IterFired, shellVars, output
  <2>2. QED
    BY <1>5, <2>1 DEF Output
<1>8. CASE FireIter \/ ReadLock \/ ReadEmpty \/ WaitStdin \/ StdinFired \/ ReadCopy
           \/ ReadUnlock \/ GetsRefill \/ Ready
  <2>1. UNCHANGED <<out, pos, host>> /\ rpc \notin {"exec", "print"}
    BY <1>8 DEF FireIter, ReadLock, ReadEmpty, WaitStdin, StdinFired, ReadCopy, ReadUnlock,
                GetsRefill, Ready, output
  <2>2. QED
    BY <1>5, <2>1 DEF Output
<1>9. CASE UNCHANGED vars
  BY <1>5, <1>9 DEF vars, output, Output
<1>10. QED
  BY <1>1, <1>2, <1>3, <1>4, <1>6, <1>7, <1>8, <1>9 DEF Next, Writer, Shell

------------------------------------------------------------------------------
(* The theorems.                                                           *)

\* Both buffers are empty at the start, and no task waits.
LEMMA InitIInv == Init => IInv
<1> SUFFICES ASSUME Init PROVE IInv
  OBVIOUS
<1>1. Control
  BY ConsoleAssumption, LineChars DEF Init, Control
<1>2. Input
  BY ConsoleAssumption DEF Init, Input, Chars
<1>3. Output
  <2>1. /\ out = [buf |-> <<>>, blocking |-> FALSE] /\ pos = OutLen
        /\ host = [got |-> 0, all |-> FALSE]
    BY DEF Init
  <2>2. out.buf = <<>> /\ ~host.all /\ host.got = 0
    BY <2>1, Zenon
  <2>3. StdoutKept
    BY <2>2 DEF StdoutKept
  <2>4. out = [buf |-> out.buf, blocking |-> out.blocking]
    BY <2>1, Zenon
  <2>5. host = [got |-> host.got, all |-> host.all]
    BY <2>1, Zenon
  <2>6. out.buf \in Seq(1..OutLen) /\ Len(out.buf) <= OutMax /\ pos \in 0..OutLen
        /\ host.got \in 0..OutLen
    BY <2>1, <2>2, ConsoleAssumption
  <2>7. QED
    BY <2>1, <2>2, <2>3, <2>4, <2>5, <2>6 DEF Output
<1>4. Wait
  <2>1. /\ should_wait = FALSE /\ inprog = FALSE /\ olock = FALSE /\ wpc = "idle"
        /\ out = [buf |-> <<>>, blocking |-> FALSE]
    BY DEF Init
  <2>2. should_wait \in BOOLEAN /\ inprog \in BOOLEAN /\ olock \in BOOLEAN /\ ~should_wait
    BY <2>1, Zenon
  <2>3. QED
    BY <2>1, <2>2 DEF Wait
<1>5. QED
  BY <1>1, <1>2, <1>3, <1>4 DEF IInv

\* The inductive invariant of standard input and output holds in every state.
THEOREM Buffers == Spec => []IInv
<1>1. IInv /\ [Next]_vars => IInv'
  BY ControlStep, InputStep, OutputStep, WaitStep DEF IInv
<1>2. QED
  BY InitIInv, <1>1, PTL DEF Spec

\* stdin_buf is a queue with a delete key, whatever is queued and read when.
THEOREM InputIsAQueue == Spec => []StdinFifo
<1>1. IInv => StdinFifo
  <2> SUFFICES ASSUME IInv PROVE StdinFifo
    OBVIOUS
  <2>1. TypeOK
    BY DEF IInv, Control, Input, Output, Wait, TypeOK, Chars
  <2>2. SubSeq(stdin.buf, 1, stdin.off) = log
    <3>1. /\ log \in Seq(Chars) /\ Len(log) = stdin.off /\ stdin.off \in Nat
          /\ \A i \in 1..Len(log) : stdin.buf[i] = log[i]
      BY DEF IInv, Input
    <3>2. \A i \in 1..Len(log) : log[i] \in Chars
      BY <3>1
    <3>3. /\ SubSeq(stdin.buf, 1, stdin.off) \in Seq(Chars)
          /\ Len(SubSeq(stdin.buf, 1, stdin.off)) = Len(log)
          /\ \A i \in 1..Len(log) : SubSeq(stdin.buf, 1, stdin.off)[i] = log[i]
      <4>1. \A i \in 1..stdin.off : stdin.buf[i] \in Chars
        BY <3>1, <3>2
      <4>2. /\ SubSeq(stdin.buf, 1, stdin.off) \in Seq(Chars)
            /\ Len(SubSeq(stdin.buf, 1, stdin.off))
                 = IF 1 <= stdin.off THEN stdin.off - 1 + 1 ELSE 0
            /\ \A i \in 1..(stdin.off - 1 + 1) :
                 SubSeq(stdin.buf, 1, stdin.off)[i] = stdin.buf[1 + i - 1]
        BY <3>1, <4>1, SubSeqProperties
      <4>3. QED
        BY <3>1, <4>2
    <3>4. QED
      BY <3>1, <3>3, SeqEqual
  <2>3. QED
    BY <2>1, <2>2 DEF StdinFifo
<1>2. QED
  BY <1>1, Buffers, PTL

\* stdout_buf is the tail of the output, and a host that blocks and never asks for
\* less than the buffer holds gets all of it, whatever the lengths it may ask for.
THEOREM OutputIsKept == Spec => []StdoutKept
<1>1. IInv => StdoutKept
  BY DEF IInv, Output
<1>2. QED
  BY <1>1, Buffers, PTL

\* A writer never waits for a command that waits for its output to be fetched.
THEOREM NoTaskWaitsForItself == Spec => []NoMutualWait
<1>1. IInv => NoMutualWait
  BY DEF IInv, Wait, NoMutualWait
<1>2. QED
  BY <1>1, Buffers, PTL
==============================================================================
