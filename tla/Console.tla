------------------------------- MODULE Console -------------------------------
(***************************************************************************)
(* Standard input and output and the command loop: queue_rx_char, _read,   *)
(* _write and fetch_stdoutbuf of support/io.c, command_main of             *)
(* shell/command.c, and the requests of shell/usbloader.c that use them.   *)
(*                                                                         *)
(* Two tasks share stdin_buf under stdin_lock: the writer (the UART or USB *)
(* handler task, which queues the characters of a line) and the shell (the *)
(* command task).  They wait for two events: the shell for stdin_ev, and a *)
(* writer that is asked to wait for the end of the command for             *)
(* command_handler_iter.  Any step may be followed by a step of the other  *)
(* task.  stdin_lock is the lock of LockPromise.tla.                       *)
(*                                                                         *)
(* A character is an ordinary one, a newline or the delete key.  A command *)
(* writes OutLen characters, numbered from 1, with one call of _write; the *)
(* prompt counts as its end.  stdout_lock, too, is the lock of LockPromise;*)
(* the short sections of the USB task under it are one step each.          *)
(***************************************************************************)
EXTENDS Integers, Sequences, SequencesExt

CONSTANTS
  Line,       \* the characters of one write to stdin; the last is a newline
  BufSize,    \* bytes of stdin_buf (512)
  ReadLen,    \* the length that stdio passes to _read
  LineMax,    \* characters that fgets returns at most (511)
  MaxLines,   \* bound: lines written; 0: lines keep coming
  OutLen,     \* characters that a command writes to stdout
  OutMax,     \* characters that stdout_buf holds (STDOUT_BUFLEN - 1)
  FetchLens   \* the lengths with which a host may fetch the output (512, 0x1000)

ASSUME ConsoleAssumption ==
  /\ Line \in Seq({"c", "nl", "del"}) /\ Len(Line) > 0 /\ Last(Line) = "nl"
  /\ BufSize \in Nat \ {0}
  /\ ReadLen \in Nat \ {0}
  /\ LineMax \in Nat \ {0}
  /\ MaxLines \in Nat
  /\ OutLen \in Nat \ {0} /\ OutMax \in Nat \ {0}

\* One of the lengths takes a full buffer.
ASSUME FetchAssumption ==
  /\ FetchLens \subseteq Nat \ {0}
  /\ \E n \in FetchLens : n >= OutMax

VARIABLES
  stdin,     \* [buf, off]: stdin_buf, of which the first bufoff bytes count
  lock,      \* the task that holds stdin_lock, or "nobody"
  wpc, wi,   \* the writer: program counter, and position in the line
  should_wait, \* should_wait_for_cmd_handler
  lines,     \* lines written (counted up to MaxLines)
  rpc,       \* the shell: program counter
  file,      \* the characters in the stdio buffer of stdin
  have,      \* the number of characters fgets has collected
  waitStdin, \* the shell is in the queue of stdin_ev
  waitIter,  \* the writer is in the queue of command_handler_iter
  log,       \* ghost: characters accepted and not yet read
  out,       \* [buf, blocking]: stdout_buf, stdout_blocking
  olock,     \* the shell holds stdout_lock
  pos,       \* characters of its output that the command has written
  inprog,    \* command_in_progress
  host       \* ghost: [got, all]: characters of the output received, and whether
             \* since the command began stdout has been blocking, from empty, and
             \* no fetch has asked for less than the buffer held

output == <<out, olock, pos, inprog, host>>
vars == <<stdin, lock, wpc, wi, should_wait, lines, rpc, file, have, waitStdin, waitIter, log,
          output>>
shellVars == <<rpc, file, have>>
stdio == <<file, have>>
writerVars == <<wpc, wi, should_wait, lines>>

Init ==
  /\ stdin = [buf |-> [i \in 1..BufSize |-> "none"], off |-> 0]
  /\ lock = "nobody"
  /\ wpc = "idle" /\ wi = 1 /\ should_wait = FALSE /\ lines = 0
  /\ rpc = "fire" /\ file = <<>> /\ have = 0
  /\ waitStdin = FALSE /\ waitIter = FALSE
  /\ log = <<>>
  /\ out = [buf |-> <<>>, blocking |-> FALSE] /\ olock = FALSE /\ pos = OutLen
  /\ inprog = FALSE /\ host = [got |-> 0, all |-> FALSE]

Take(who) == lock = "nobody" /\ lock' = who
Drop(who) == lock = who /\ lock' = "nobody"

------------------------------------------------------------------------------
(* The writer: queue_rx_char for each character, usb_write_stdin.          *)

BeginWrite ==
  /\ wpc = "idle"
  /\ MaxLines = 0 \/ lines < MaxLines
  /\ lines' = IF MaxLines = 0 THEN 0 ELSE lines + 1
  /\ wpc' = "take" /\ wi' = 1
  /\ UNCHANGED <<stdin, lock, should_wait, shellVars, waitStdin, waitIter, log, output>>

\* Mutation: a blocking stdout does not switch the waiting of writes off.
SetMode_BothOn(wait, block) ==
  /\ wpc = "idle"
  /\ should_wait' = (wait \/ (block /\ should_wait))
  /\ wpc' = IF block THEN "block" ELSE "discard"
  /\ UNCHANGED <<stdin, lock, wi, lines, shellVars, waitStdin, waitIter, log, output>>

\* ep0_device_request, bRequest 4: wValue 0 makes writes to stdin wait, 1 makes
\* stdout blocking, 0xffff switches both off.  set_stdout_blocking comes second.
SetMode(wait, block) ==
  /\ wpc = "idle"
  /\ should_wait' = wait
  /\ wpc' = IF block THEN "block" ELSE "discard"
  /\ UNCHANGED <<stdin, lock, wi, lines, shellVars, waitStdin, waitIter, log, output>>

Modes == SetMode(TRUE, FALSE) \/ SetMode(FALSE, TRUE) \/ SetMode(FALSE, FALSE)

SetBlocking ==
  /\ wpc \in {"block", "discard"} /\ ~olock
  /\ out' = [out EXCEPT !.blocking = wpc = "block"]
  /\ host' = [host EXCEPT !.all = @ /\ wpc = "block"]
  /\ wpc' = "idle"
  /\ UNCHANGED <<stdin, lock, wi, should_wait, lines, shellVars, waitStdin, waitIter, log,
                 olock, pos, inprog>>

\* The IN request 1: fetch_stdoutbuf.
BeginFetch ==
  /\ wpc = "idle" /\ out.buf # <<>>
  /\ wpc' = "fetch"
  /\ UNCHANGED <<stdin, lock, wi, should_wait, lines, shellVars, waitStdin, waitIter, log, output>>

\* A host that asked for n characters gets the last n of a longer buffer.
Sent(n) == IF Len(out.buf) > n THEN n ELSE Len(out.buf)

\* The whole buffer is taken and emptied, whatever is sent of it.
Fetch(n) ==
  /\ wpc = "fetch" /\ ~olock
  /\ out' = [out EXCEPT !.buf = <<>>]
  /\ LET whole == host.all /\ Sent(n) = Len(out.buf)
     IN  host' = [got |-> IF whole THEN host.got + Sent(n) ELSE 0, all |-> whole]
  /\ wpc' = "idle"
  /\ UNCHANGED <<stdin, lock, wi, should_wait, lines, shellVars, waitStdin, waitIter, log,
                 olock, pos, inprog>>

QueueLock ==
  /\ wpc = "take"
  /\ Take("writer")
  /\ wpc' = "put"
  /\ UNCHANGED <<stdin, wi, lines, should_wait, shellVars, waitStdin, waitIter, log, output>>

\* The character is stored if there is room; a newline goes on to event_fire
\* in either case.
QueueChar ==
  /\ wpc = "put"
  /\ Line[wi] # "del"
  /\ IF stdin.off < BufSize
     THEN /\ stdin' = [buf |-> [stdin.buf EXCEPT ![stdin.off + 1] = Line[wi]],
                       off |-> stdin.off + 1]
          /\ log' = Append(log, Line[wi])
     ELSE UNCHANGED <<stdin, log>>
  /\ wpc' = IF Line[wi] = "nl" THEN "fire" ELSE "drop"
  /\ UNCHANGED <<lock, wi, lines, should_wait, shellVars, waitStdin, waitIter, output>>

\* The delete key takes back the last character.
QueueDelete ==
  /\ wpc = "put"
  /\ Line[wi] = "del"
  /\ IF stdin.off > 0
     THEN /\ stdin' = [buf |-> [stdin.buf EXCEPT ![stdin.off] = "none"], off |-> stdin.off - 1]
          /\ log' = Front(log)
     ELSE UNCHANGED <<stdin, log>>
  /\ wpc' = "drop"
  /\ UNCHANGED <<lock, wi, lines, should_wait, shellVars, waitStdin, waitIter, output>>

\* Mutation: the event is not fired.
FireStdin_Never ==
  /\ wpc = "fire"
  /\ wpc' = "drop"
  /\ UNCHANGED <<stdin, lock, wi, lines, should_wait, shellVars, waitStdin, waitIter, log, output>>

\* event_fire(&stdin_ev).
FireStdin ==
  /\ wpc = "fire"
  /\ waitStdin' = FALSE
  /\ wpc' = "drop"
  /\ UNCHANGED <<stdin, lock, wi, lines, should_wait, shellVars, waitIter, log, output>>

QueueUnlock ==
  /\ wpc = "drop"
  /\ Drop("writer")
  /\ wi' = IF wi < Len(Line) THEN wi + 1 ELSE 1
  /\ wpc' = IF wi < Len(Line) THEN "take" ELSE IF should_wait THEN "wait" ELSE "idle"
  /\ UNCHANGED <<stdin, lines, should_wait, shellVars, waitStdin, waitIter, log, output>>

\* event_wait(&command_handler_iter), and the return from it.
WaitIter ==
  /\ wpc = "wait"
  /\ waitIter' = TRUE
  /\ wpc' = "waiting"
  /\ UNCHANGED <<stdin, lock, wi, lines, should_wait, shellVars, waitStdin, log, output>>

IterFired ==
  /\ wpc = "waiting"
  /\ ~waitIter
  /\ wpc' = "idle"
  /\ UNCHANGED <<stdin, lock, wi, lines, should_wait, shellVars, waitStdin, waitIter, log, output>>

------------------------------------------------------------------------------
(* The shell: command_main, with fgets and _read.                          *)

\* event_fire(&command_handler_iter).
FireIter ==
  /\ rpc = "fire"
  /\ waitIter' = FALSE
  /\ rpc' = "ready"
  /\ UNCHANGED <<stdin, lock, writerVars, stdio, waitStdin, log, output>>

Ready ==
  /\ rpc = "ready"
  /\ inprog' = FALSE
  /\ rpc' = "gets"
  /\ UNCHANGED <<stdin, lock, writerVars, stdio, waitStdin, waitIter, log,
                 out, olock, pos, host>>

\* fgets takes characters from the stdio buffer up to a newline, and fills it
\* with _read when it is empty.
GetsChar ==
  /\ rpc = "gets"
  /\ file # <<>>
  /\ file' = Tail(file)
  /\ IF Head(file) = "nl" \/ have + 1 = LineMax
     THEN /\ rpc' = "exec" /\ have' = 0
          /\ inprog' = TRUE /\ pos' = 0
          /\ host' = [got |-> 0, all |-> out.blocking /\ out.buf = <<>>]
     ELSE rpc' = "gets" /\ have' = have + 1 /\ UNCHANGED <<inprog, pos, host>>
  /\ UNCHANGED <<stdin, lock, writerVars, waitStdin, waitIter, log, out, olock>>

GetsRefill ==
  /\ rpc = "gets"
  /\ file = <<>>
  /\ rpc' = "take"
  /\ UNCHANGED <<stdin, lock, writerVars, stdio, waitStdin, waitIter, log, output>>

ReadLock ==
  /\ rpc = "take"
  /\ Take("shell")
  /\ rpc' = "test"
  /\ UNCHANGED <<stdin, writerVars, stdio, waitStdin, waitIter, log, output>>

\* while (!bufoff): give the lock back and wait.
ReadEmpty ==
  /\ rpc = "test"
  /\ stdin.off = 0
  /\ Drop("shell")
  /\ rpc' = "wait"
  /\ UNCHANGED <<stdin, writerVars, stdio, waitStdin, waitIter, log, output>>

\* event_wait(&stdin_ev), and the return from it.
WaitStdin ==
  /\ rpc = "wait"
  /\ waitStdin' = TRUE
  /\ rpc' = "waiting"
  /\ UNCHANGED <<stdin, lock, writerVars, stdio, waitIter, log, output>>

StdinFired ==
  /\ rpc = "waiting"
  /\ ~waitStdin
  /\ rpc' = "take"
  /\ UNCHANGED <<stdin, lock, writerVars, stdio, waitStdin, waitIter, log, output>>

\* Mutation: what was not read is not moved to the front.
ReadCopy_NoMove ==
  /\ rpc = "test"
  /\ stdin.off > 0
  /\ LET n == IF stdin.off > ReadLen THEN ReadLen ELSE stdin.off
     IN  /\ file' = SubSeq(stdin.buf, 1, n)
         /\ stdin' = [stdin EXCEPT !.off = @ - n]
         /\ log' = SubSeq(log, n + 1, Len(log))
  /\ rpc' = "drop"
  /\ UNCHANGED <<lock, writerVars, have, waitStdin, waitIter, output>>

\* Copy out at most ReadLen bytes and move the rest to the front of the buffer.
ReadCopy ==
  /\ rpc = "test"
  /\ stdin.off > 0
  /\ LET n == IF stdin.off > ReadLen THEN ReadLen ELSE stdin.off
     IN  /\ file' = SubSeq(stdin.buf, 1, n)
         /\ stdin' = [buf |-> [i \in 1..BufSize |->
                                 IF i <= stdin.off - n THEN stdin.buf[i + n] ELSE stdin.buf[i]],
                      off |-> stdin.off - n]
         /\ log' = SubSeq(log, n + 1, Len(log))
  /\ rpc' = "drop"
  /\ UNCHANGED <<lock, writerVars, have, waitStdin, waitIter, output>>

\* The end of _read.
ReadUnlock ==
  /\ rpc = "drop"
  /\ Drop("shell")
  /\ rpc' = "gets"
  /\ UNCHANGED <<stdin, writerVars, stdio, waitStdin, waitIter, log, output>>

stdinPart == <<stdin, lock, writerVars, stdio, waitStdin, waitIter, log>>

\* command_execute of the line: the command calls _write, ...
WriteLock ==
  /\ rpc = "exec" /\ ~olock
  /\ olock' = TRUE
  /\ rpc' = "print"
  /\ UNCHANGED <<stdinPart, out, pos, inprog, host>>

\* Mutation: a full buffer never blocks.
WriteChar_Discards ==
  /\ rpc = "print" /\ pos < OutLen
  /\ out' = [out EXCEPT !.buf = Append(IF Len(@) >= OutMax THEN Tail(@) ELSE @, pos + 1)]
  /\ pos' = pos + 1
  /\ UNCHANGED <<stdinPart, rpc, olock, inprog, host>>

\* ... which stores a character, dropping the oldest one of a full buffer, ...
WriteChar ==
  /\ rpc = "print" /\ pos < OutLen
  /\ Len(out.buf) >= OutMax => ~out.blocking
  /\ out' = [out EXCEPT !.buf = Append(IF Len(@) >= OutMax THEN Tail(@) ELSE @, pos + 1)]
  /\ pos' = pos + 1
  /\ UNCHANGED <<stdinPart, rpc, olock, inprog, host>>

\* Mutation: the lock is kept while the buffer is full.
WriteBlocked_Locked ==
  /\ rpc = "print" /\ pos < OutLen
  /\ Len(out.buf) >= OutMax /\ out.blocking
  /\ UNCHANGED vars

\* ... or, if stdout is blocking, gives the lock back, yields and tries again.
WriteBlocked ==
  /\ rpc = "print" /\ pos < OutLen
  /\ Len(out.buf) >= OutMax /\ out.blocking
  /\ olock' = FALSE
  /\ rpc' = "exec"
  /\ UNCHANGED <<stdinPart, out, pos, inprog, host>>

WriteUnlock ==
  /\ rpc = "print" /\ pos = OutLen
  /\ olock' = FALSE
  /\ rpc' = "fire"
  /\ UNCHANGED <<stdinPart, out, pos, inprog, host>>

Writer == \/ QueueLock \/ QueueChar \/ QueueDelete \/ FireStdin \/ QueueUnlock
          \/ WaitIter \/ IterFired \/ SetBlocking
          \/ \E n \in FetchLens : Fetch(n)
Shell == \/ FireIter \/ Ready \/ ReadLock \/ ReadEmpty \/ WaitStdin \/ StdinFired
         \/ ReadCopy \/ ReadUnlock \/ GetsChar \/ GetsRefill
         \/ WriteLock \/ WriteChar \/ WriteBlocked \/ WriteUnlock

Next == BeginWrite \/ Modes \/ BeginFetch \/ Writer \/ Shell

Spec == Init /\ [][Next]_vars

\* Both tasks are runnable (RunnableRuns of Sched) and get the lock
\* (NoStarvation of YieldLock).
FairSpec == /\ Spec
            /\ WF_vars(Writer) /\ SF_vars(QueueLock \/ SetBlocking \/ \E n \in FetchLens : Fetch(n))
            /\ WF_vars(Shell) /\ SF_vars(ReadLock) /\ WF_vars(WriteLock)

\* Somebody keeps typing and, like the terminal of scripts/, fetches the output.
BusySpec == FairSpec /\ SF_vars(BeginWrite) /\ SF_vars(BeginFetch)

------------------------------------------------------------------------------
(* Properties.                                                             *)

\* Type invariant.
TypeOK ==
  /\ stdin.off \in 0..BufSize
  /\ stdin.buf \in [1..BufSize -> {"none", "c", "nl"}]
  /\ lock \in {"nobody", "writer", "shell"}
  /\ wpc \in {"idle", "take", "put", "fire", "drop", "wait", "waiting",
            "block", "discard", "fetch"}
  /\ wi \in 1..Len(Line) /\ should_wait \in BOOLEAN
  /\ rpc \in {"fire", "gets", "take", "test", "wait", "waiting", "drop", "exec",
             "print", "ready"}
  /\ file \in Seq({"c", "nl"}) /\ have \in 0..(LineMax - 1)
  /\ out.buf \in Seq(1..OutLen) /\ Len(out.buf) <= OutMax
  /\ olock \in BOOLEAN /\ pos \in 0..OutLen /\ inprog \in BOOLEAN
  /\ host.got \in 0..OutLen

\* Safety: stdin_buf holds exactly the characters that were accepted, not
\* deleted and not yet read, in the order in which they came.
StdinFifo == TypeOK /\ SubSeq(stdin.buf, 1, stdin.off) = log

\* Safety: stdout_buf is the tail of what was written, without a gap, whatever
\* was discarded and fetched in between; and a host that made stdout blocking
\* before the command began and never asks for less than the buffer holds (512
\* of up to 4095 characters: the others are lost, usbloader.c:150-154) gets all
\* of its output: what it received and what is in the buffer is what was written.
StdoutKept ==
  /\ \A k \in 1..Len(out.buf) : (out.buf[k] - (pos - (Len(out.buf) - k))) % OutLen = 0
  /\ host.all => host.got + Len(out.buf) = pos

\* Safety: a write to stdin does not wait for a command that may itself wait
\* until its output is fetched, which only the waiting task could do.
NoMutualWait == wpc \in {"wait", "waiting"} => ~out.blocking

\* Liveness: a command that is reported as in progress is reported as over some
\* time, a blocking stdout included, as long as the host fetches the output.
CommandEnds == inprog ~> ~inprog

\* Liveness: while lines keep coming, what is in stdin_buf is read, although a
\* line that arrives between the release of stdin_lock and event_wait in _read
\* does not wake the shell: the next newline does.  A writer that itself waits
\* for the end of a command brings no such newline.
InputRead == (stdin.off > 0) ~> (rpc = "drop" \/ wpc = "waiting")

\* Liveness: "make it so next write to stdin will stall until command is over"
\* (usbloader.c:120): a write that waits for the command handler while a command
\* is being executed returns when that command is over.
WriteReturns == (wpc \in {"wait", "waiting"} /\ rpc \in {"exec", "print"}) ~> (wpc = "idle")
==============================================================================
