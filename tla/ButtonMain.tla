------------------------------ MODULE ButtonMain ------------------------------
(***************************************************************************)
(* The driver of the button example (examples/button_pipeline/main.cpp):   *)
(* the main thread that runs the loop and joins, the reader thread that    *)
(* reads stdin and posts, and the SIGINT handler, which the reader runs on *)
(* its own stack, wherever it happens to be, and which calls stop().       *)
(*                                                                         *)
(* Of the runtime there is the mutex, the stop flag and whether run() has  *)
(* something to do; RunLoop has the rest.  Keystrokes and the end of stdin *)
(* are the user's, who need not go on typing.                              *)
(***************************************************************************)
EXTENDS Naturals

CONSTANTS
    KeyBound,     \* bound: keystrokes
    SigintBound   \* bound: signals

VARIABLES
    main,         \* where the main thread is
    reader,       \* where the reader thread is
    handler,      \* where on_sigint() is, on top of the reader
    mutex,        \* Runtime::mutex_: who has it
    stop,         \* stop_requested_
    queued,       \* envelopes in the queue
    typed,        \* characters in stdin that the reader has not read
    eof,          \* the user has closed stdin
    failed,       \* std::cin has failed
    pending,      \* SIGINT is pending
    keys,         \* history: keystrokes so far
    sigints       \* history: signals so far

vars == <<main, reader, handler, mutex, stop, queued, typed, eof, failed,
          pending, keys, sigints>>

Init ==
    /\ main = "start"
    /\ reader = "unborn"
    /\ handler = "none"
    /\ mutex = "free"
    /\ stop = FALSE
    /\ queued = 0
    /\ typed = 0
    /\ eof = FALSE
    /\ failed = FALSE
    /\ pending = FALSE
    /\ keys = 0
    /\ sigints = 0

-----------------------------------------------------------------------------
(***************************************************************************)
(* The main thread.                                                        *)
(***************************************************************************)

\* SIGINT is blocked, the handler installed, the runtime started.
StartReader ==
    /\ main = "start"
    /\ main' = "run"
    /\ reader' = "masked"
    /\ UNCHANGED <<handler, mutex, stop, queued, typed, eof, failed, pending,
                   keys, sigints>>

\* run() wakes up, drains under the mutex and returns if stop() was called.
RunRound ==
    /\ main = "run"
    /\ mutex = "free"
    /\ queued > 0 \/ stop
    /\ queued' = 0
    /\ main' = IF stop THEN "join" ELSE "run"
    /\ UNCHANGED <<reader, handler, mutex, stop, typed, eof, failed, pending,
                   keys, sigints>>

Join ==
    /\ main = "join"
    /\ reader = "exited"
    /\ main' = "shutdown"
    /\ UNCHANGED <<reader, handler, mutex, stop, queued, typed, eof, failed,
                   pending, keys, sigints>>

\* shutdown(), the default disposition back, SIGINT unblocked: one that is
\* pending now ends the process as well.
ShutdownAndExit ==
    /\ main = "shutdown"
    /\ mutex = "free"
    /\ main' = "exited"
    /\ queued' = 0
    /\ stop' = FALSE
    /\ UNCHANGED <<reader, handler, mutex, typed, eof, failed, pending, keys,
                   sigints>>

-----------------------------------------------------------------------------
(***************************************************************************)
(* The reader thread.  While a handler runs on it, it does not move.       *)
(***************************************************************************)

ReaderAt(p) == reader = p /\ handler = "none"

UnblockSigint ==
    /\ ReaderAt("masked")
    /\ reader' = "get"
    /\ UNCHANGED <<main, handler, mutex, stop, queued, typed, eof, failed,
                   pending, keys, sigints>>

\* std::cin.get(c), before the system call: a stream that has failed fails.
Get ==
    /\ ReaderAt("get")
    /\ reader' = IF failed THEN "stop" ELSE "read"
    /\ UNCHANGED <<main, handler, mutex, stop, queued, typed, eof, failed,
                   pending, keys, sigints>>

\* read() returns with a character, which is posted or ignored.
ReadChar ==
    /\ ReaderAt("read")
    /\ typed > 0
    /\ typed' = typed - 1
    /\ reader' \in {"post", "get"}
    /\ UNCHANGED <<main, handler, mutex, stop, queued, eof, failed, pending,
                   keys, sigints>>

\* read() returns with nothing.
ReadEof ==
    /\ ReaderAt("read")
    /\ typed = 0
    /\ eof
    /\ failed' = TRUE
    /\ reader' = "get"
    /\ UNCHANGED <<main, handler, mutex, stop, queued, typed, eof, pending,
                   keys, sigints>>

\* post(): the unlocked check and the lock.
PostLock ==
    /\ ReaderAt("post")
    /\ IF stop
       THEN reader' = "get" /\ UNCHANGED mutex
       ELSE mutex = "free" /\ mutex' = "reader" /\ reader' = "posting"
    /\ UNCHANGED <<main, handler, stop, queued, typed, eof, failed, pending,
                   keys, sigints>>

\* post(): the push, the unlock, the notify.
PostUnlock ==
    /\ ReaderAt("posting")
    /\ mutex' = "free"
    /\ queued' = IF stop THEN queued ELSE queued + 1
    /\ reader' = "get"
    /\ UNCHANGED <<main, handler, stop, typed, eof, failed, pending, keys,
                   sigints>>

\* app.stop() after the loop.
StopLock ==
    /\ ReaderAt("stop")
    /\ mutex = "free"
    /\ mutex' = "reader"
    /\ reader' = "stopping"
    /\ UNCHANGED <<main, handler, stop, queued, typed, eof, failed, pending,
                   keys, sigints>>

StopUnlock ==
    /\ ReaderAt("stopping")
    /\ mutex' = "free"
    /\ stop' = TRUE
    /\ reader' = "exited"
    /\ UNCHANGED <<main, handler, queued, typed, eof, failed, pending, keys,
                   sigints>>

-----------------------------------------------------------------------------
(***************************************************************************)
(* SIGINT.                                                                 *)
(***************************************************************************)

\* The user presses ^C.
Sigint ==
    /\ main # "exited"
    /\ ~pending
    /\ sigints < SigintBound
    /\ sigints' = sigints + 1
    /\ pending' = TRUE
    /\ UNCHANGED <<main, reader, handler, mutex, stop, queued, typed, eof,
                   failed, keys>>

\* The kernel runs on_sigint() on the reader once it has unblocked the signal,
\* between any two of its steps, or parked in read(), which then returns EINTR
\* and fails the stream, as there is no SA_RESTART.
Deliver ==
    /\ pending
    /\ reader \notin {"unborn", "masked", "exited"}
    /\ handler = "none"
    /\ pending' = FALSE
    /\ handler' = "lock"
    /\ IF reader = "read" /\ typed = 0 /\ ~eof
       THEN reader' = "get" /\ failed' = TRUE
       ELSE UNCHANGED <<reader, failed>>
    /\ UNCHANGED <<main, mutex, stop, queued, typed, eof, keys, sigints>>

\* on_sigint(): app->stop(), on the reader's thread, with the reader's mutex.
HandlerLock ==
    /\ handler = "lock"
    /\ mutex = "free"
    /\ mutex' = "handler"
    /\ handler' = "locked"
    /\ UNCHANGED <<main, reader, stop, queued, typed, eof, failed, pending,
                   keys, sigints>>

HandlerUnlock ==
    /\ handler = "locked"
    /\ mutex' = "free"
    /\ stop' = TRUE
    /\ handler' = "none"
    /\ UNCHANGED <<main, reader, queued, typed, eof, failed, pending, keys,
                   sigints>>

-----------------------------------------------------------------------------
TypeKey ==
    /\ keys < KeyBound
    /\ ~eof
    /\ keys' = keys + 1
    /\ typed' = typed + 1
    /\ UNCHANGED <<main, reader, handler, mutex, stop, queued, eof, failed,
                   pending, sigints>>

CloseStdin ==
    /\ ~eof
    /\ eof' = TRUE
    /\ UNCHANGED <<main, reader, handler, mutex, stop, queued, typed, failed,
                   pending, keys, sigints>>

MainStep == StartReader \/ RunRound \/ Join \/ ShutdownAndExit

ReaderStep ==
    \/ UnblockSigint \/ Get \/ ReadChar \/ ReadEof
    \/ PostLock \/ PostUnlock \/ StopLock \/ StopUnlock
    \/ Deliver \/ HandlerLock \/ HandlerUnlock

Next == MainStep \/ ReaderStep \/ Sigint \/ TypeKey \/ CloseStdin

\* Both threads are scheduled; nobody needs to type, to press ^C or to close
\* stdin.
FairSpec ==
    /\ Init /\ [][Next]_vars
    /\ WF_vars(MainStep)
    /\ WF_vars(ReaderStep)

-----------------------------------------------------------------------------
\* ^C ends the program.  (main.cpp: "main blocks in `app.run()` until either
\* the reader observes EOF or SIGINT trips, at which point `app.stop()` wakes
\* the loop, `run()` returns, the reader thread is joined, and `shutdown()`
\* drains".)  The code does not keep this.  A SIGINT that finds the reader
\* anywhere but in read() interrupts no read(): the reader goes on to the next
\* one and main waits in join().  One that finds it inside post() or stop()
\* waits for a mutex its own thread has.
SigintEndsProgram == pending ~> main = "exited"
=============================================================================
