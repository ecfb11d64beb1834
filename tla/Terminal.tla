------------------------------ MODULE Terminal ------------------------------
(***************************************************************************)
(* EmbeddedTerminalSession: one console process behind a ConPTY, and the   *)
(* four threads that serve it. The owning thread runs start(), stops, the  *)
(* transcript and the calls the workers queue to it; a reader moves the    *)
(* output of the process into a bounded buffer; a writer moves a bounded   *)
(* queue of input to the process; a waiter sees the process end, closes    *)
(* the console, lets the reader finish and queues the exit. One object     *)
(* serves several sessions, one after the other.                           *)
(*                                                                         *)
(* The output of every session is the same stream of bytes, Stream; a byte *)
(* is named by its place in it, and Stream says whether it is a character  *)
(* of its own, the first byte of a character of two, or the second. What a *)
(* process writes is text: a second byte follows a first one, and only it. *)
(***************************************************************************)
EXTENDS Naturals, Sequences, SequencesExt

CONSTANTS Stream,               \* what a process may write, byte by byte
          MaxPendingOutput,     \* StartOptions: maxPendingOutputBytes
          MaxTranscript,        \* StartOptions: maxTranscriptBytes
          MaxInput,             \* StartOptions: maxPendingInputBytes
          MaxSessions           \* bound: calls of start() that begin a session

ASSUME StreamAssumption ==
  /\ Stream \in Seq({"single", "first", "second"})
  /\ \A i \in DOMAIN Stream :
       Stream[i] = "second" <=> i > 1 /\ Stream[i - 1] = "first"
  /\ MaxPendingOutput \in Nat \ {0} /\ MaxTranscript \in Nat \ {0}
  /\ MaxInput \in Nat \ {0} /\ MaxSessions \in Nat

VARIABLES
  main,         \* where the owning thread is
  state,        \* m_state
  session,      \* m_sessionGeneration
  child,        \* the process: whether it exists and runs
  written,      \* how many bytes of Stream it has written
  console,      \* whether the pseudoconsole holds its ends of the two pipes
  ownEnd,       \* whether start() still holds pseudoOutputWrite
  reader, writer, waiter,  \* the worker threads
  read,         \* how many bytes the reader has taken
  pending,      \* m_impl->pendingOutput
  discarded,    \* m_impl->pendingDiscardedBytes
  drainQueued,  \* m_impl->outputDrainScheduled
  input,        \* the length of m_impl->pendingInput
  stopWriter,   \* m_impl->stopWriter
  forced,       \* m_impl->forced
  suppress,     \* m_impl->suppressExitNotification
  mailbox,      \* the calls queued to the owning thread
  timers,       \* the sessions whose stop timer is running
  carry,        \* m_utf8Carry
  transcript,   \* m_transcript
  lost,         \* m_droppedOutputBytes, a truncation or a clear: whether any
  exitStatus,   \* m_exitStatus
  asked         \* history: the session a forced stop was last asked for
native == <<child, written, console, ownEnd>>
output == <<read, pending, discarded, drainQueued>>
inputs == <<input, stopWriter>>
flags == <<forced, suppress>>
text == <<carry, transcript, lost>>
vars == <<main, state, session, native, reader, writer, waiter, output, inputs,
          flags, mailbox, timers, text, exitStatus, asked>>

running == state \in {"Starting", "Running", "Stopping"}
ended(thread) == thread \in {"none", "ended", "failed"}
finishedWorkers == ended(reader) /\ ended(writer) /\ ended(waiter)

TypeOK ==
  /\ main \in {"idle", "starting", "spawning", "resuming", "abandoning",
               "destroying", "gone"}
  /\ state \in {"Idle", "Starting", "Running", "Stopping", "Exited", "Failed"}
  /\ session \in 0 .. MaxSessions
  /\ child \in {"none", "suspended", "running", "exited"}
  /\ written \in 0 .. Len(Stream) /\ read \in 0 .. Len(Stream)
  /\ {console, ownEnd, drainQueued, stopWriter, forced, suppress, lost} \subseteq BOOLEAN
  /\ reader \in {"none", "reading", "ended", "failed"}
  /\ writer \in {"none", "waiting", "writing", "ended"}
  /\ waiter \in {"none", "process", "reader", "ended"}
  /\ pending \in Seq(1 .. Len(Stream)) /\ Len(pending) <= MaxPendingOutput
  /\ transcript \in Seq(1 .. Len(Stream)) /\ Len(transcript) <= MaxTranscript
  /\ discarded \in BOOLEAN /\ input \in 0 .. MaxInput
  /\ timers \subseteq 1 .. MaxSessions /\ asked \in 0 .. MaxSessions
  /\ exitStatus \in {"NotExited", "Terminated", "Ended"}

Init ==
  /\ main = "idle" /\ state = "Idle" /\ session = 0
  /\ child = "none" /\ written = 0 /\ console = FALSE /\ ownEnd = FALSE
  /\ reader = "none" /\ writer = "none" /\ waiter = "none"
  /\ read = 0 /\ pending = <<>> /\ discarded = FALSE /\ drainQueued = FALSE
  /\ input = 0 /\ stopWriter = FALSE /\ forced = FALSE /\ suppress = FALSE
  /\ mailbox = <<>> /\ timers = {} /\ carry = <<>> /\ transcript = <<>>
  /\ lost = FALSE /\ exitStatus = "NotExited" /\ asked = 0

-----------------------------------------------------------------------------
(* Bounded buffers of bytes. *)

IsSecond(b) == Stream[b] = "second"

(* The buffer without what exceeds its bound, and without the rest of a     *)
(* character whose first byte went with it.                                 *)
keepLast(bytes, bound) ==
  IF Len(bytes) <= bound THEN bytes
  ELSE LET kept == SubSeq(bytes, Len(bytes) - bound + 1, Len(bytes))
       IN  IF IsSecond(Head(kept)) THEN Tail(kept) ELSE kept

(* The longest beginning of the buffer that does not end inside a character.*)
completePrefix(bytes) ==
  IF bytes = <<>> \/ Stream[Last(bytes)] # "first" THEN bytes ELSE Front(bytes)

mutantCarryKept == carry
(* What the carry of an earlier drain is worth now: a discard ends it.      *)
carried == IF discarded THEN <<>> ELSE carry

(* drainOutput: takes the whole buffer, and shows all but an incomplete     *)
(* character at its end; with lastly, that too (handleNativeExit).          *)
drained(lastly) ==
  LET bytes  == IF pending = <<>> THEN <<>> ELSE carried \o pending
      kept   == IF pending = <<>> THEN carried ELSE <<>>
      shown  == completePrefix(bytes)
      rest   == kept \o SubSeq(bytes, Len(shown) + 1, Len(bytes))
      added  == IF lastly THEN shown \o rest ELSE shown
      all    == transcript \o added
  IN  /\ pending' = <<>> /\ discarded' = FALSE /\ drainQueued' = FALSE
      /\ carry' = IF lastly THEN <<>> ELSE rest
      /\ transcript' = keepLast(all, MaxTranscript)
      /\ lost' = (lost \/ discarded \/ Len(all) > MaxTranscript)
      /\ UNCHANGED read

-----------------------------------------------------------------------------
(* start(), in the steps between which the workers of it may run. *)

(* It is refused while a session is on; it first joins the workers of the   *)
(* session before, of which the writer may still be at work.                *)
Start ==
  /\ main = "idle" /\ ~running /\ session < MaxSessions
  /\ main' = "starting"
  /\ UNCHANGED <<state, session, native, reader, writer, waiter, output, inputs,
                 flags, mailbox, timers, text, exitStatus, asked>>

reset ==
  /\ session' = session + 1 /\ forced' = FALSE /\ suppress' = FALSE
  /\ pending' = <<>> /\ discarded' = FALSE /\ drainQueued' = FALSE /\ read' = 0
  /\ carry' = <<>> /\ transcript' = <<>> /\ lost' = FALSE
  /\ exitStatus' = "NotExited" /\ written' = 0
  /\ reader' = "none" /\ writer' = "none" /\ waiter' = "none"

(* The checks, the pipes, the console, the job and the process: each may    *)
(* fail, and failStart() then undoes the ones before it.                    *)
Prepare ==
  /\ main = "starting" /\ finishedWorkers
  /\ reset
  /\ \/ /\ state' = "Failed" /\ main' = "idle"
        /\ child' = "none" /\ console' = FALSE /\ ownEnd' = FALSE
        /\ UNCHANGED inputs
     \/ /\ state' = "Starting" /\ main' = "spawning"
        /\ child' = "suspended" /\ console' = TRUE /\ ownEnd' = TRUE
        /\ input' = 0 /\ stopWriter' = FALSE
  /\ UNCHANGED <<mailbox, timers, asked>>

(* The three threads, in their order; std::thread may throw at each. *)
Spawn ==
  /\ main = "spawning"
  /\ \E started \in 0 .. 3 :
       /\ reader' = IF started > 0 THEN "reading" ELSE "none"
       /\ writer' = IF started > 1 THEN "waiting" ELSE "none"
       /\ waiter' = IF started > 2 THEN "process" ELSE "none"
       /\ IF started = 3
          THEN /\ main' = "resuming"
               /\ UNCHANGED <<native, inputs, flags>>
          ELSE /\ main' = "abandoning" /\ suppress' = TRUE
               /\ child' = "exited" /\ console' = FALSE
               /\ stopWriter' = TRUE /\ input' = 0
               /\ UNCHANGED <<written, ownEnd, forced>>
  /\ UNCHANGED <<state, session, output, mailbox, timers, text, exitStatus, asked>>

(* ResumeThread; when it worked, start() closes its ends of the pipes. *)
Resume ==
  /\ main = "resuming"
  /\ \/ /\ child' = "running" /\ ownEnd' = FALSE
        /\ state' = "Running" /\ main' = "idle"
        /\ UNCHANGED <<written, console, suppress>>
     \/ /\ suppress' = TRUE /\ child' = "exited" /\ main' = "abandoning"
        /\ UNCHANGED <<written, console, ownEnd, state>>
  /\ UNCHANGED <<session, reader, writer, waiter, output, inputs, forced,
                 mailbox, timers, text, exitStatus, asked>>

(* A start that failed after a thread began joins the threads, and only     *)
(* then closes its own ends of the pipes.                                   *)
Abandon ==
  /\ main = "abandoning" /\ finishedWorkers
  /\ child' = "none" /\ console' = FALSE /\ ownEnd' = FALSE
  /\ state' = "Failed" /\ main' = "idle"
  /\ UNCHANGED <<session, written, reader, writer, waiter, output, inputs, flags,
                 mailbox, timers, text, exitStatus, asked>>

-----------------------------------------------------------------------------
(* The other calls of the owning thread. *)

(* writeInput() of one byte: refused when the queue is full or closing. *)
WriteInput ==
  /\ main = "idle" /\ state = "Running" /\ ~stopWriter /\ input < MaxInput
  /\ input' = input + 1
  /\ UNCHANGED <<main, state, session, native, reader, writer, waiter, output,
                 stopWriter, flags, mailbox, timers, text, exitStatus, asked>>

(* stopGracefully(): "exit" joins the queue if there is room, and a timer   *)
(* is started in any case.                                                  *)
StopGracefully ==
  /\ main = "idle" /\ state = "Running"
  /\ state' = "Stopping"
  /\ input' = IF ~stopWriter /\ input < MaxInput THEN input + 1 ELSE input
  /\ timers' = timers \cup {session}
  /\ UNCHANGED <<main, session, native, reader, writer, waiter, output, stopWriter,
                 flags, mailbox, text, exitStatus, asked>>

(* forceStop(): the job is terminated if the waiter has not closed it. *)
terminate == child' = IF child = "running" THEN "exited" ELSE child
forceStop ==
  /\ forced' = TRUE /\ state' = "Stopping" /\ terminate
  /\ UNCHANGED <<written, console, ownEnd, suppress>>

ForceStop ==
  /\ main = "idle" /\ running /\ forceStop
  /\ asked' = session
  /\ UNCHANGED <<main, session, reader, writer, waiter, output, inputs, mailbox,
                 timers, text, exitStatus>>

(* A stop timer forces the stop only of the session that started it. *)
timerApplies(s) == s = session /\ state = "Stopping"

StopTimer ==
  \E s \in timers :
    /\ main = "idle" /\ timers' = timers \ {s}
    /\ IF timerApplies(s) THEN forceStop
       ELSE UNCHANGED <<state, native, flags>>
    /\ asked' = IF s = session THEN s ELSE asked
    /\ UNCHANGED <<main, session, reader, writer, waiter, output, inputs, mailbox,
                   text, exitStatus>>

ClearTranscript ==
  /\ main = "idle" /\ transcript # <<>>
  /\ transcript' = <<>> /\ lost' = TRUE
  /\ UNCHANGED <<main, state, session, native, reader, writer, waiter, output,
                 inputs, flags, mailbox, timers, carry, exitStatus, asked>>

(* A queued call: drainOutput(), or handleNativeExit(). *)
HandleCall ==
  /\ main = "idle" /\ mailbox # <<>>
  /\ mailbox' = Tail(mailbox)
  /\ LET call == Head(mailbox)
     IN  IF call = "drain"
         THEN drained(FALSE) /\ UNCHANGED <<state, exitStatus>>
         ELSE /\ drained(TRUE) /\ state' = "Exited"
              /\ exitStatus' = IF call = "forcedExit" THEN "Terminated" ELSE "Ended"
  /\ UNCHANGED <<main, session, native, reader, writer, waiter, inputs, flags,
                 timers, asked>>

(* The destructor: terminates the process, then joins the threads. The      *)
(* calls still queued to the object go with it.                             *)
Destroy ==
  /\ main = "idle" /\ main' = "destroying"
  /\ suppress' = TRUE /\ forced' = TRUE /\ stopWriter' = TRUE /\ input' = 0
  /\ terminate /\ timers' = {} /\ mailbox' = <<>>
  /\ UNCHANGED <<state, session, written, console, ownEnd, reader, writer, waiter,
                 output, text, exitStatus, asked>>

Destroyed ==
  /\ main = "destroying" /\ finishedWorkers
  /\ main' = "gone" /\ mailbox' = <<>>
  /\ UNCHANGED <<state, session, native, reader, writer, waiter, output, inputs,
                 flags, timers, text, exitStatus, asked>>

-----------------------------------------------------------------------------
(* The worker threads. *)

(* enqueueOutputFromWorker: the oldest bytes give way, and one drain is     *)
(* queued until it has run.                                                 *)
enqueue(bytes) ==
  /\ pending' = keepLast(pending \o bytes, MaxPendingOutput)
  /\ discarded' = (discarded \/ Len(pending \o bytes) > MaxPendingOutput)
  /\ drainQueued' = TRUE
  /\ mailbox' = IF drainQueued THEN mailbox ELSE Append(mailbox, "drain")

Reading ==
  /\ reader = "reading" /\ read < written
  /\ \E n \in read + 1 .. written :
       /\ read' = n
       /\ IF main = "destroying" THEN UNCHANGED <<pending, discarded, drainQueued, mailbox>>
          ELSE enqueue([i \in 1 .. n - read |-> read + i])
  /\ UNCHANGED <<main, state, session, native, reader, writer, waiter, inputs, flags,
                 timers, text, exitStatus, asked>>

(* The pipe breaks when the console and start() have both closed the end    *)
(* that is written, and what was written has been read.                     *)
broken == ~console /\ ~ownEnd /\ read = written
ReaderEnds ==
  /\ reader = "reading" /\ broken
  /\ reader' = "ended"
  /\ UNCHANGED <<main, state, session, native, writer, waiter, output, inputs, flags,
                 mailbox, timers, text, exitStatus, asked>>

(* A read that fails for another reason, or returns no byte, ends the       *)
(* reader as well: what was written and not read, or is written later, is   *)
(* lost, and no count of dropped bytes tells of it.                         *)
ReaderFails ==
  /\ reader = "reading" /\ reader' = "failed"
  /\ UNCHANGED <<main, state, session, native, writer, waiter, output, inputs, flags,
                 mailbox, timers, text, exitStatus, asked>>

(* The writer takes the whole queue; it blocks in WriteFile until the       *)
(* process has read it or the console is closed, which ends the thread.     *)
WriterTakes ==
  /\ writer = "waiting" /\ (stopWriter \/ input > 0)
  /\ input' = 0
  /\ writer' = IF stopWriter THEN "ended" ELSE "writing"
  /\ UNCHANGED <<main, state, session, native, reader, waiter, output, stopWriter,
                 flags, mailbox, timers, text, exitStatus, asked>>
WriterWrites ==
  /\ writer = "writing"
  /\ \/ ~console /\ writer' = "ended"
     \/ child = "running" /\ writer' \in {"waiting", "ended"}
  /\ UNCHANGED <<main, state, session, native, reader, waiter, output, inputs, flags,
                 mailbox, timers, text, exitStatus, asked>>

(* The waiter: when the process is gone, stops the writer, closes the job   *)
(* and the console, and waits for the reader.                               *)
WaiterSeesExit ==
  /\ waiter = "process" /\ child = "exited"
  /\ waiter' = "reader" /\ console' = FALSE
  /\ stopWriter' = TRUE /\ input' = 0
  /\ UNCHANGED <<main, state, session, child, written, ownEnd, reader, writer, output,
                 flags, mailbox, timers, text, exitStatus, asked>>

readerDone == reader # "reading"
WaiterEnds ==
  /\ waiter = "reader" /\ readerDone
  /\ waiter' = "ended"
  /\ mailbox' = IF suppress THEN mailbox
                ELSE Append(mailbox, IF forced THEN "forcedExit" ELSE "exit")
  /\ UNCHANGED <<main, state, session, native, reader, writer, output, inputs, flags,
                 timers, text, exitStatus, asked>>

(* The process writes when it likes, and may end on its own. *)
ChildWrites ==
  /\ child = "running" /\ console /\ written < Len(Stream)
  /\ written' = written + 1
  /\ UNCHANGED <<main, state, session, child, console, ownEnd, reader, writer, waiter,
                 output, inputs, flags, mailbox, timers, text, exitStatus, asked>>
ChildExits ==
  /\ child = "running" /\ child' = "exited"
  /\ UNCHANGED <<main, state, session, written, console, ownEnd, reader, writer, waiter,
                 output, inputs, flags, mailbox, timers, text, exitStatus, asked>>

Next ==
  \/ Start \/ Prepare \/ Spawn \/ Resume \/ Abandon
  \/ WriteInput \/ StopGracefully \/ ForceStop \/ StopTimer \/ ClearTranscript
  \/ HandleCall \/ Destroy \/ Destroyed
  \/ Reading \/ ReaderEnds \/ ReaderFails \/ WriterTakes \/ WriterWrites
  \/ WaiterSeesExit \/ WaiterEnds \/ ChildWrites \/ ChildExits

(* The event loop, its timers and the threads go on; a program that runs is *)
(* under no obligation to write, to read or to end.                         *)
Fairness ==
  /\ WF_vars(Prepare) /\ WF_vars(Spawn) /\ WF_vars(Resume) /\ WF_vars(Abandon)
  /\ WF_vars(HandleCall) /\ WF_vars(StopTimer) /\ WF_vars(Destroyed)
  /\ WF_vars(Reading) /\ WF_vars(ReaderEnds)
  /\ WF_vars(WriterTakes) /\ WF_vars(writer = "writing" /\ ~console /\ WriterWrites)
  /\ WF_vars(WaiterSeesExit) /\ WF_vars(WaiterEnds)
Spec == Init /\ [][Next]_vars /\ Fairness

-----------------------------------------------------------------------------
(* When a session is reported as exited, every byte that was read is shown, *)
(* unless bytes were dropped or cleared, and none is on its way: no text    *)
(* arrives after the exit. And every byte the process wrote has been read,  *)
(* unless a read failed: then the exit is reported all the same, and only a *)
(* message of its own, if any, tells that there was more.                   *)
(* (EmbeddedTerminalSession: the waiter waits for the reader, and the exit  *)
(* drains what is pending.)                                                 *)
ExitShowsEverything ==
  state = "Exited" =>
    /\ pending = <<>> /\ carry = <<>>
    /\ read = written \/ reader = "failed"
    /\ ~lost => transcript = [i \in 1 .. read |-> i]

(* Dropping the oldest output, cutting the transcript and splitting the     *)
(* stream at any byte never leave half a character in the transcript; only  *)
(* a process that ended, or a read that failed, inside one does.            *)
(* (drainOutput, appendTranscript)                                          *)
WholeCharacters ==
  \A i \in DOMAIN transcript :
    /\ Stream[transcript[i]] = "second" =>
         i > 1 /\ transcript[i - 1] = transcript[i] - 1
    /\ Stream[transcript[i]] = "first" =>
         \/ i < Len(transcript) /\ transcript[i + 1] = transcript[i] + 1
         \/ i = Len(transcript) /\ state = "Exited" /\ read = transcript[i]

(* A session is reported as terminated only if its own stop was forced, by  *)
(* a call or by the timer its own stop started; a timer of an earlier       *)
(* session does nothing to a later one. (stopGracefully's generation)       *)
ForcedOnlyByItsStop == exitStatus = "Terminated" => asked = session

(* A stop comes to an end: the session exits, even if the process ignores   *)
(* the request and the queue had no room for it, and the destructor         *)
(* returns. (stopGracefully, forceStop, the destructor)                     *)
StopEnds ==
  /\ (state = "Stopping") ~> (state = "Exited" \/ main = "gone")
  /\ (main = "destroying") ~> (main = "gone")

(* start() returns: a thread or a process that could not be started makes   *)
(* the session fail, it does not hold up the owning thread.                 *)
StartReturns == (main = "starting") ~> (main \in {"idle", "gone"})
=============================================================================
