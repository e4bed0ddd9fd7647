------------------------------ MODULE RdpChild ------------------------------
(***************************************************************************)
(* The rdphost child process and what the app does to its life.            *)
(*                                                                         *)
(* Three threads share one pipe: the STA that hosts the ActiveX control    *)
(* and pumps messages ("sta"), the reader of the parent's messages ("rx"), *)
(* and the sender that drains the queue of events ("tx").  A thread's      *)
(* place in its own code is at[t]; every log line is itself a message on   *)
(* the pipe, so nearly every place leads through a nested call, call[t],   *)
(* that takes the log mutex, then the send mutex, then writes.             *)
(***************************************************************************)
EXTENDS Integers, Sequences, FiniteSets

CONSTANTS
  MaxEvents,        \* bound: ActiveX events raised in a behaviour
  ParentMayCrash,   \* whether the app may die without a Stop
  JobMayFail,       \* whether assigning the child to the app's job may fail
  PipeRoom          \* messages the pipe to the child takes before a write waits

ASSUME BoundAssumption == MaxEvents \in Nat
ASSUME RoomAssumption == PipeRoom \in Nat \ {0}
ASSUME FlagAssumption  == ParentMayCrash \in BOOLEAN /\ JobMayFail \in BOOLEAN

Threads == {"sta", "rx", "tx"}
Free    == "free"                 \* a mutex nobody holds
Holder  == Threads \cup {Free}

Places == {"new", "boot", "ready", "startRx", "setLogger", "await", "pump", "handle",
           "unlog", "stop", "cancel", "join", "close", "stopTx", "joinTx",
           "test", "issue", "reading", "got", "failed", "gone",
           "loop", "locked", "tested", "dozing", "waiting", "woken",
           "popped", "sent", "quitting", "done"}

\* What a nested call is about: a log line, a queued event, an Error sent from
\* the STA, the HwndReady that ends the parent's synchronous handshake.
Whats == {"none", "line", "event", "error", "ready"}
Steps == {"idle", "log", "format", "deref", "send", "write", "payload", "fail"}
Idle  == [step |-> "idle", what |-> "none"]

ParentStates == {"spawning", "up", "asking", "stopping", "done", "crashed"}

VARIABLES
  proc,      \* the process: running, exited, aborted or killed
  at,        \* each thread's place
  call,      \* each thread's nested call into HyprvLog, Send or SendRaw
  logMutex,  \* holder of g_logMutex
  sendMutex, \* holder of m_sendMutex
  outMutex,  \* holder of outMutex
  logger,    \* g_ipcLogger is set
  running,   \* m_running, the reader's flag
  sending,   \* outRunning, the sender's flag
  queue,     \* outQueue: the events, numbered as they were raised
  raised,    \* how many events the control has raised
  held,      \* the event the sender has popped, 0 if none
  arrived,   \* the events the parent has received, in order
  half,      \* the thread whose header is on the pipe without its payload
  ready,     \* HwndReady has been written
  pipe,      \* open, broken (the parent is gone) or closed by this process
  inbound,   \* the parent's messages not yet read
  posted,    \* window messages the reader has posted to the STA
  parent,    \* the app: spawning, up, asking, stopping, done or crashed
  job        \* the child is in the kill-on-close job

threadVars == <<at, call>>
lockVars   == <<logMutex, sendMutex, outMutex>>
flagVars   == <<logger, running, sending>>
eventVars  == <<queue, raised, held, arrived>>
pipeVars   == <<half, ready, pipe>>
worldVars  == <<inbound, posted, parent, job>>
vars == <<proc, threadVars, lockVars, flagVars, eventVars, pipeVars, worldVars>>

TypeOK ==
  /\ proc \in {"running", "exited", "aborted", "killed"}
  /\ at \in [Threads -> Places]
  /\ call \in [Threads -> [step : Steps, what : Whats]]
  /\ logMutex \in Holder /\ sendMutex \in Holder /\ outMutex \in Holder
  /\ logger \in BOOLEAN /\ running \in BOOLEAN /\ sending \in BOOLEAN
  /\ raised \in 0 .. MaxEvents /\ held \in 0 .. MaxEvents
  /\ queue \in Seq(1 .. MaxEvents) /\ arrived \in Seq(1 .. MaxEvents)
  /\ half \in Holder /\ ready \in BOOLEAN
  /\ pipe \in {"open", "broken", "closed"}
  /\ inbound \in Seq({"connect", "shutdown"})
  /\ posted \in Seq({"connect", "shutdown", "broken"})
  /\ parent \in ParentStates
  /\ job \in BOOLEAN

Init ==
  /\ proc = "running"
  /\ at = [t \in Threads |-> IF t = "sta" THEN "boot" ELSE "new"]
  /\ call = [t \in Threads |-> Idle]
  /\ logMutex = Free /\ sendMutex = Free /\ outMutex = Free
  /\ logger = FALSE /\ running = FALSE /\ sending = FALSE
  /\ queue = <<>> /\ raised = 0 /\ held = 0 /\ arrived = <<>>
  /\ half = Free /\ ready = FALSE /\ pipe = "open"
  /\ inbound = <<>> /\ posted = <<>>
  /\ parent = "spawning"
  /\ job \in (IF JobMayFail THEN BOOLEAN ELSE {TRUE})

-----------------------------------------------------------------------------
(* Nested calls: HyprvLog, IpcClient::Send and IpcClient::SendRaw.          *)

\* Thread t is at `from`, outside any nested call.
Here(t, from) == proc = "running" /\ at[t] = from /\ call[t] = Idle

\* t goes on to place `to`, making a call about `what` first.
Log(t, to) ==
  /\ at' = [at EXCEPT ![t] = to]
  /\ call' = [call EXCEPT ![t] = [step |-> "log", what |-> "line"]]
Send(t, what, to) ==
  /\ at' = [at EXCEPT ![t] = to]
  /\ call' = [call EXCEPT ![t] = [step |-> "send", what |-> what]]
Go(t, to) == at' = [at EXCEPT ![t] = to] /\ UNCHANGED call

In(t, step)     == proc = "running" /\ call[t].step = step
Advance(t, step) == call' = [call EXCEPT ![t] = [step |-> step, what |-> @.what]] /\ UNCHANGED at

\* The call returns; Send and SendRaw drop m_sendMutex, HyprvLog g_logMutex.
Return(t) ==
  /\ call' = [call EXCEPT ![t] = Idle]
  /\ sendMutex' = IF sendMutex = t THEN Free ELSE sendMutex
  /\ logMutex' = IF logMutex = t THEN Free ELSE logMutex
  /\ UNCHANGED <<at, outMutex>>

\* An uncaught exception or an access violation ends the process.
Abort == /\ proc' = "aborted"
         /\ UNCHANGED <<threadVars, lockVars, flagVars, eventVars, pipeVars, worldVars>>

LockLog(t) ==
  /\ In(t, "log") /\ logMutex = Free
  /\ logMutex' = t
  /\ Advance(t, "format")
  /\ UNCHANGED <<proc, sendMutex, outMutex, flagVars, eventVars, pipeVars, worldVars>>

\* if (g_ipcLogger): without one the line goes to the debugger.
TestLogger(t) ==
  /\ In(t, "format")
  /\ IF logger THEN Advance(t, "deref") /\ UNCHANGED lockVars ELSE Return(t)
  /\ UNCHANGED <<proc, flagVars, eventVars, pipeVars, worldVars>>

\* g_ipcLogger->Send: the pointer is read a second time, with no lock the STA
\* takes to clear it.
UseLogger(t) ==
  /\ In(t, "deref")
  /\ \/ ~logger /\ Abort
     \/ /\ logger
        /\ Advance(t, "send")
        /\ UNCHANGED <<proc, lockVars, flagVars, eventVars, pipeVars, worldVars>>

\* Mutation: SendRaw does not take m_sendMutex.
LockSendUnlessRaw(t) ==
  /\ In(t, "send") /\ (sendMutex = Free \/ call[t].what = "event")
  /\ sendMutex' = IF call[t].what = "event" THEN sendMutex ELSE t
  /\ Advance(t, "write")
  /\ UNCHANGED <<proc, logMutex, outMutex, flagVars, eventVars, pipeVars, worldVars>>

LockSend(t) ==
  /\ In(t, "send") /\ sendMutex = Free
  /\ sendMutex' = t
  /\ Advance(t, "write")
  /\ UNCHANGED <<proc, logMutex, outMutex, flagVars, eventVars, pipeVars, worldVars>>

\* Send writes the header and the payload apart; SendRaw, which only the
\* sender thread calls, writes the whole frame at once.
WriteHeader(t) ==
  /\ In(t, "write") /\ call[t].what # "event" /\ pipe = "open"
  /\ half' = t
  /\ Advance(t, "payload")
  /\ UNCHANGED <<proc, lockVars, flagVars, eventVars, ready, pipe, worldVars>>

WritePayload(t) ==
  /\ In(t, "payload") /\ pipe = "open"
  /\ half' = Free
  /\ ready' = (ready \/ call[t].what = "ready")
  /\ Return(t)
  /\ UNCHANGED <<proc, flagVars, eventVars, pipe, worldVars>>

WriteFrame(t) ==
  /\ In(t, "write") /\ call[t].what = "event" /\ pipe = "open"
  /\ arrived' = Append(arrived, held)
  /\ held' = 0
  /\ Return(t)
  /\ UNCHANGED <<proc, flagVars, queue, raised, pipeVars, worldVars>>

\* SendRaw, unlike Send, returns without a word if it finds the handle closed.
FindClosed(t) ==
  /\ In(t, "write") /\ call[t].what = "event" /\ pipe = "closed"
  /\ held' = 0
  /\ Return(t)
  /\ UNCHANGED <<proc, flagVars, queue, raised, arrived, pipeVars, worldVars>>

\* A write on a broken or closed pipe fails and is logged under m_sendMutex.
WriteFails(t) ==
  /\ proc = "running" /\ call[t].step \in {"write", "payload"} /\ pipe # "open"
  /\ Advance(t, "fail")
  /\ UNCHANGED <<proc, lockVars, flagVars, eventVars, pipeVars, worldVars>>

\* That log line takes g_logMutex and, if a logger is set, m_sendMutex again:
\* a mutex the thread already holds is reported by an exception nobody
\* catches; one that another thread holds is waited for.
LogFailure(t) ==
  /\ In(t, "fail")
  /\ \/ (logMutex = t \/ (logMutex = Free /\ logger)) /\ Abort
     \/ /\ logMutex = Free /\ ~logger
        /\ held' = IF call[t].what = "event" THEN 0 ELSE held
        /\ Return(t)
        /\ UNCHANGED <<proc, flagVars, queue, raised, arrived, pipeVars, worldVars>>

Nested(t) ==
  \/ LockLog(t) \/ TestLogger(t) \/ UseLogger(t) \/ LockSend(t)
  \/ WriteHeader(t) \/ WritePayload(t) \/ WriteFrame(t)
  \/ FindClosed(t) \/ WriteFails(t) \/ LogFailure(t)

-----------------------------------------------------------------------------
(* The STA: wWinMain, the message loop, the control's events.               *)

\* Mutation: log lines go to the pipe as soon as there is one.
ActivateLogging ==
  /\ Here("sta", "boot")
  /\ sending' = TRUE /\ logger' = TRUE
  /\ at' = [at EXCEPT !["sta"] = "ready", !["tx"] = "loop"]
  /\ UNCHANGED <<proc, call, lockVars, running, eventVars, pipeVars, worldVars>>

\* RdpHost::Activate ends by starting the sender thread.
Activate ==
  /\ Here("sta", "boot")
  /\ sending' = TRUE
  /\ at' = [at EXCEPT !["sta"] = "ready", !["tx"] = "loop"]
  /\ UNCHANGED <<proc, call, lockVars, logger, running, eventVars, pipeVars, worldVars>>

SendReady ==
  /\ Here("sta", "ready")
  /\ Send("sta", "ready", "startRx")
  /\ UNCHANGED <<proc, lockVars, flagVars, eventVars, pipeVars, worldVars>>

StartReceiveLoop ==
  /\ Here("sta", "startRx")
  /\ running' = TRUE
  /\ at' = [at EXCEPT !["sta"] = "setLogger", !["rx"] = "test"]
  /\ UNCHANGED <<proc, call, lockVars, logger, sending, eventVars, pipeVars, worldVars>>

SetLogger ==
  /\ Here("sta", "setLogger")
  /\ logger' = TRUE
  /\ Go("sta", "await")
  /\ UNCHANGED <<proc, lockVars, running, sending, eventVars, pipeVars, worldVars>>

\* The sender wakes if it is asleep; a notification is not remembered.
WakeSender(f) == [f EXCEPT !["tx"] = IF @ = "waiting" THEN "woken" ELSE @]

\* Mutation: the event is queued and announced without outMutex.
RaiseEventUnlocked ==
  /\ Here("sta", "pump")
  /\ raised < MaxEvents
  /\ raised' = raised + 1
  /\ queue' = Append(queue, raised')
  /\ at' = [WakeSender(at) EXCEPT !["sta"] = "handle"]
  /\ call' = [call EXCEPT !["sta"] = [step |-> "log", what |-> "line"]]
  /\ UNCHANGED <<proc, lockVars, flagVars, held, arrived, pipeVars, worldVars>>

\* The control raises events only once Connect has been called.
\* QueueOutbound: push under outMutex, notify, then the "[cb]" log line.
RaiseEvent ==
  /\ Here("sta", "pump") /\ outMutex = Free
  /\ raised < MaxEvents
  /\ raised' = raised + 1
  /\ queue' = Append(queue, raised')
  /\ at' = [WakeSender(at) EXCEPT !["sta"] = "handle"]
  /\ call' = [call EXCEPT !["sta"] = [step |-> "log", what |-> "line"]]
  /\ UNCHANGED <<proc, lockVars, flagVars, held, arrived, pipeVars, worldVars>>

\* The callback has returned to the message loop.
EndCallback ==
  /\ Here("sta", "handle")
  /\ Go("sta", "pump")
  /\ UNCHANGED <<proc, lockVars, flagVars, eventVars, pipeVars, worldVars>>

\* Connect may fail at once; its Error is sent from here, past the queue.
HandleConnect ==
  /\ Here("sta", "await") /\ posted # <<>> /\ Head(posted) = "connect"
  /\ posted' = Tail(posted)
  /\ Log("sta", "pump") \/ Send("sta", "error", "await")
  /\ UNCHANGED <<proc, lockVars, flagVars, eventVars, pipeVars, inbound, parent, job>>

\* Shutdown and a broken pipe both post WM_QUIT, the latter with a log line.
HandleQuit ==
  /\ Here("sta", "await") \/ Here("sta", "pump")
  /\ posted # <<>> /\ Head(posted) # "connect"
  /\ posted' = Tail(posted)
  /\ IF Head(posted) = "broken" THEN Log("sta", "unlog") ELSE Go("sta", "unlog")
  /\ UNCHANGED <<proc, lockVars, flagVars, eventVars, pipeVars, inbound, parent, job>>

ClearLogger ==
  /\ Here("sta", "unlog")
  /\ logger' = FALSE
  /\ Log("sta", "stop")
  /\ UNCHANGED <<proc, lockVars, running, sending, eventVars, pipeVars, worldVars>>

ClearRunning ==
  /\ Here("sta", "stop")
  /\ running' = FALSE
  /\ Go("sta", "cancel")
  /\ UNCHANGED <<proc, lockVars, logger, sending, eventVars, pipeVars, worldVars>>

\* CancelIoEx fails every read and write that is pending at this moment.
CancelIo ==
  /\ Here("sta", "cancel")
  /\ at' = [at EXCEPT !["sta"] = "join", !["rx"] = IF @ = "reading" THEN "failed" ELSE @]
  /\ \/ UNCHANGED call
     \/ \E t \in Threads : /\ call[t].step \in {"write", "payload"}
                           /\ call' = [call EXCEPT ![t] = [step |-> "fail", what |-> @.what]]
  /\ UNCHANGED <<proc, lockVars, flagVars, eventVars, pipeVars, worldVars>>

JoinReader ==
  /\ Here("sta", "join") /\ at["rx"] = "done" /\ call["rx"] = Idle
  /\ Log("sta", "close")
  /\ UNCHANGED <<proc, lockVars, flagVars, eventVars, pipeVars, worldVars>>

\* CloseHandle, without m_sendMutex.
ClosePipe ==
  /\ Here("sta", "close")
  /\ pipe' = "closed"
  /\ Go("sta", "stopTx")
  /\ UNCHANGED <<proc, lockVars, flagVars, eventVars, half, ready, worldVars>>

\* ~RdpHost: the flag and the notification, without outMutex.
StopSenderThread ==
  /\ Here("sta", "stopTx")
  /\ sending' = FALSE
  /\ at' = [WakeSender(at) EXCEPT !["sta"] = "joinTx"]
  /\ UNCHANGED <<proc, call, lockVars, logger, running, eventVars, pipeVars, worldVars>>

Exit ==
  /\ Here("sta", "joinTx") /\ at["tx"] = "done" /\ call["tx"] = Idle
  /\ proc' = "exited"
  /\ UNCHANGED <<threadVars, lockVars, flagVars, eventVars, pipeVars, worldVars>>

Sta == \/ Activate \/ SendReady \/ StartReceiveLoop \/ SetLogger
       \/ EndCallback \/ HandleConnect \/ HandleQuit
       \/ ClearLogger \/ ClearRunning \/ CancelIo \/ JoinReader \/ ClosePipe
       \/ StopSenderThread \/ Exit

-----------------------------------------------------------------------------
(* The reader: IpcClient::StartReceiveLoop's thread.                        *)

TestRunning ==
  /\ Here("rx", "test")
  /\ IF running THEN Go("rx", "issue") ELSE Log("rx", "gone")
  /\ UNCHANGED <<proc, lockVars, flagVars, eventVars, pipeVars, worldVars>>

IssueRead ==
  /\ Here("rx", "issue")
  /\ Go("rx", "reading")
  /\ UNCHANGED <<proc, lockVars, flagVars, eventVars, pipeVars, worldVars>>

\* A message is read whole, logged, then posted to the STA.
ReadMessage ==
  /\ Here("rx", "reading") /\ inbound # <<>>
  /\ Log("rx", "got")
  /\ UNCHANGED <<proc, lockVars, flagVars, eventVars, pipeVars, worldVars>>

PostMessage ==
  /\ Here("rx", "got")
  /\ posted' = Append(posted, Head(inbound))
  /\ inbound' = Tail(inbound)
  /\ Go("rx", "test")
  /\ UNCHANGED <<proc, lockVars, flagVars, eventVars, pipeVars, parent, job>>

ReadFails ==
  /\ Here("rx", "reading") /\ inbound = <<>> /\ pipe # "open"
  /\ Go("rx", "failed")
  /\ UNCHANGED <<proc, lockVars, flagVars, eventVars, pipeVars, worldVars>>

\* "rx header read failed", then onDisc posts WM_HYPRV_PIPE_DISCONNECTED.
LogReadFailure ==
  /\ Here("rx", "failed")
  /\ Log("rx", "gone")
  /\ UNCHANGED <<proc, lockVars, flagVars, eventVars, pipeVars, worldVars>>

PostDisconnected ==
  /\ Here("rx", "gone")
  /\ posted' = Append(posted, "broken")
  /\ Go("rx", "done")
  /\ UNCHANGED <<proc, lockVars, flagVars, eventVars, pipeVars, inbound, parent, job>>

Rx == \/ TestRunning \/ IssueRead \/ ReadMessage \/ PostMessage
      \/ ReadFails \/ LogReadFailure \/ PostDisconnected

-----------------------------------------------------------------------------
(* The sender: Impl::StartSenderThread's thread.                            *)

\* It logs "[tx] wait" with outMutex held.
TakeQueue ==
  /\ Here("tx", "loop") /\ sending /\ outMutex = Free
  /\ outMutex' = "tx"
  /\ Log("tx", "tested")
  /\ UNCHANGED <<proc, logMutex, sendMutex, flagVars, eventVars, pipeVars, worldVars>>

LeaveLoop ==
  /\ Here("tx", "loop") /\ ~sending
  /\ Log("tx", "done")
  /\ UNCHANGED <<proc, lockVars, flagVars, eventVars, pipeVars, worldVars>>

\* Mutation: the sender takes the newest event.
PopBack ==
  /\ Here("tx", "tested") /\ sending /\ queue # <<>>
  /\ held' = queue[Len(queue)]
  /\ queue' = SubSeq(queue, 1, Len(queue) - 1)
  /\ outMutex' = Free
  /\ Log("tx", "popped")
  /\ UNCHANGED <<proc, logMutex, sendMutex, flagVars, raised, arrived, pipeVars, worldVars>>

\* The wait's predicate, with outMutex held.
Pop ==
  /\ Here("tx", "tested") /\ sending /\ queue # <<>>
  /\ held' = Head(queue)
  /\ queue' = Tail(queue)
  /\ outMutex' = Free
  /\ Log("tx", "popped")
  /\ UNCHANGED <<proc, logMutex, sendMutex, flagVars, raised, arrived, pipeVars, worldVars>>

SeeStop ==
  /\ Here("tx", "tested") /\ ~sending
  /\ Log("tx", "quitting")
  /\ UNCHANGED <<proc, lockVars, flagVars, eventVars, pipeVars, worldVars>>

Quit ==
  /\ Here("tx", "quitting")
  /\ outMutex' = Free
  /\ Log("tx", "done")
  /\ UNCHANGED <<proc, logMutex, sendMutex, flagVars, eventVars, pipeVars, worldVars>>

\* Found nothing to do; the mutex is dropped as the thread goes to sleep.
Doze ==
  /\ Here("tx", "tested") /\ sending /\ queue = <<>>
  /\ Go("tx", "dozing")
  /\ UNCHANGED <<proc, lockVars, flagVars, eventVars, pipeVars, worldVars>>

Sleep ==
  /\ Here("tx", "dozing")
  /\ outMutex' = Free
  /\ Go("tx", "waiting")
  /\ UNCHANGED <<proc, logMutex, sendMutex, flagVars, eventVars, pipeVars, worldVars>>

Wake ==
  /\ Here("tx", "woken") /\ outMutex = Free
  /\ outMutex' = "tx"
  /\ Go("tx", "tested")
  /\ UNCHANGED <<proc, logMutex, sendMutex, flagVars, eventVars, pipeVars, worldVars>>

SendEvent ==
  /\ Here("tx", "popped")
  /\ Send("tx", "event", "sent")
  /\ UNCHANGED <<proc, lockVars, flagVars, eventVars, pipeVars, worldVars>>

LogSent ==
  /\ Here("tx", "sent")
  /\ Log("tx", "loop")
  /\ UNCHANGED <<proc, lockVars, flagVars, eventVars, pipeVars, worldVars>>

Tx == \/ TakeQueue \/ LeaveLoop \/ Pop \/ SeeStop \/ Quit \/ Doze \/ Sleep
      \/ Wake \/ SendEvent \/ LogSent

-----------------------------------------------------------------------------
(* The app: RdpHostClient.                                                  *)

\* The synchronous handshake is over, well or (the child died) badly.
EndHandshake ==
  /\ parent = "spawning"
  /\ \/ /\ proc = "running" /\ ready
        /\ inbound' = Append(inbound, "connect")
     \/ proc # "running" /\ UNCHANGED inbound
  /\ parent' = "up"
  /\ UNCHANGED <<proc, threadVars, lockVars, flagVars, eventVars, pipeVars, posted, job>>

\* Stop writes Shutdown first, and waits until it is on the pipe.
Stop ==
  /\ parent = "up"
  /\ parent' = "asking"
  /\ UNCHANGED <<proc, threadVars, lockVars, flagVars, eventVars, pipeVars, inbound, posted, job>>

\* The pipe has room: the message the reader holds is off it.
HasRoom == Len(inbound) < PipeRoom + (IF at["rx"] = "got" THEN 1 ELSE 0)

\* The write ends; it fails once the child has gone or closed its end.
SendShutdown ==
  /\ parent = "asking"
  /\ \/ /\ proc = "running" /\ pipe = "open" /\ HasRoom
        /\ inbound' = Append(inbound, "shutdown")
     \/ /\ proc # "running" \/ pipe # "open"
        /\ UNCHANGED inbound
  /\ parent' = "stopping"
  /\ UNCHANGED <<proc, threadVars, lockVars, flagVars, eventVars, pipeVars, posted, job>>

\* Mutation: only a child in the job is terminated.
TerminateInJob ==
  /\ parent = "stopping" /\ proc = "running" /\ job
  /\ proc' = "killed"
  /\ UNCHANGED <<threadVars, lockVars, flagVars, eventVars, pipeVars, worldVars>>

\* kShutdownWait is over and the child still runs.
Terminate ==
  /\ parent = "stopping" /\ proc = "running"
  /\ proc' = "killed"
  /\ UNCHANGED <<threadVars, lockVars, flagVars, eventVars, pipeVars, worldVars>>

\* Cleanup: the app's own reader ends with the child's end of the pipe.
FinishStop ==
  /\ parent = "stopping" /\ proc # "running"
  /\ parent' = "done"
  /\ UNCHANGED <<proc, threadVars, lockVars, flagVars, eventVars, pipeVars, inbound, posted, job>>

Crash ==
  /\ ParentMayCrash
  /\ parent \in {"spawning", "up", "asking", "stopping"}
  /\ parent' = "crashed"
  /\ proc' = IF job /\ proc = "running" THEN "killed" ELSE proc
  /\ pipe' = IF pipe = "open" THEN "broken" ELSE pipe
  /\ UNCHANGED <<threadVars, lockVars, flagVars, eventVars, half, ready, inbound, posted, job>>

-----------------------------------------------------------------------------
Child(t) == Nested(t) \/ (t = "sta" /\ Sta) \/ (t = "rx" /\ Rx) \/ (t = "tx" /\ Tx)

Next == \/ \E t \in Threads : Child(t)
        \/ RaiseEvent \/ EndHandshake \/ Stop \/ SendShutdown \/ Terminate
        \/ FinishStop \/ Crash

Spec == Init /\ [][Next]_vars

\* The child's threads are scheduled; the app's calls go on; a wait that the
\* child does not answer times out.  Events, a Stop and a crash need not happen.
LiveSpec == /\ Spec
            /\ \A t \in Threads : WF_vars(Child(t))
            /\ WF_vars(EndHandshake) /\ WF_vars(SendShutdown)
            /\ WF_vars(Terminate) /\ WF_vars(FinishStop)

-----------------------------------------------------------------------------
(* What the child promises.                                                 *)

InWrite(t) == call[t].step \in {"write", "payload"}

\* Until HwndReady is out nobody but its own send writes on the pipe: the
\* parent, still in its blocking handshake, would take any other frame for it.
\* (main.cpp:253-260, docs/GOTCHAS.md:13)
HandshakeFirst ==
  \A t \in Threads : InWrite(t) /\ pipe = "open" /\ ~ready => call[t].what = "ready"

\* While the header of a frame is out and its payload is not, no other thread
\* writes: the frames of the three threads never mix. (IpcClient.cpp:104-146)
FramesWhole ==
  \A t \in Threads : InWrite(t) /\ pipe = "open" => half \in {Free, t}

\* The parent receives queued events in the order the control raised them and
\* none of them twice. (RdpHost.cpp:181-231)
QueuedInOrder ==
  \A i, j \in DOMAIN arrived : i < j => arrived[i] < arrived[j]

\* Stop returns and leaves no child behind it: its write of Shutdown, which has
\* no time-out, gets its room however the child's threads, which all log, wait
\* for each other; after it the child may do what it will.
\* (RdpHostClient.cpp:765-777, IpcClient.cpp:148-180)
StopReturns ==
  parent = "asking" ~> (parent = "crashed" \/ (parent = "done" /\ proc # "running"))

\* While nobody stops the child, every event it raises reaches the parent: the
\* sender never sleeps on a queue with something in it. (RdpHost.cpp:181-231)
EventsArrive ==
  \A n \in 1 .. MaxEvents :
    raised >= n ~> (parent # "up" \/ \E i \in DOMAIN arrived : arrived[i] = n)
=============================================================================
