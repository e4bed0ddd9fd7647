-------------------------- MODULE RdpChild_proofs --------------------------
(***************************************************************************)
(* Proofs about RdpChild: type correctness, that queued events keep their   *)
(* order, that nothing precedes HwndReady on the pipe, that the frames of   *)
(* the three threads never mix, and that no child outlives Stop.  They hold *)
(* for any number of events, with or without crashes and a job.             *)
(***************************************************************************)
EXTENDS RdpChild, TLAPS

----------------------------------------------------------------------------
(* The inductive invariant.                                                 *)

\* A message the reader has got is still the first in the pipe.
GotOK == at["rx"] = "got" => inbound # <<>>

\* Only the sender sends events, from one place of its loop.
SenderOK ==
  \A t \in Threads : call[t].what = "event" => t = "tx" /\ at[t] = "sent"

\* It holds an event from the pop to the end of its SendRaw.
HoldingOK == held # 0 <=> (at["tx"] = "popped" \/ call["tx"].what = "event")

HeldOK == GotOK /\ SenderOK /\ HoldingOK

\* Received, held, queued: each later than what comes before it.
OrderOK ==
  /\ QueuedInOrder
  /\ \A i \in DOMAIN arrived : arrived[i] <= raised
  /\ \A i \in DOMAIN queue : queue[i] <= raised
  /\ held <= raised
  /\ \A i, j \in DOMAIN queue : i < j => queue[i] < queue[j]
  /\ held # 0 => \A i \in DOMAIN arrived : arrived[i] < held
  /\ held # 0 => \A i \in DOMAIN queue : held < queue[i]
  /\ \A i \in DOMAIN arrived, j \in DOMAIN queue : arrived[i] < queue[j]

OrderInv == TypeOK /\ HeldOK /\ OrderOK

\* What an idle, logging or sending thread may be in the middle of.
CallOK ==
  \A t \in Threads :
    /\ call[t].step = "idle" <=> call[t].what = "none"
    /\ call[t].step \in {"log", "format", "deref"} => call[t].what = "line"
    /\ call[t].step = "payload" => call[t].what # "event"
    /\ call[t].what \in {"ready", "error"} => t = "sta"

\* The sender and the reader wait for the STA to start them.
PhaseOK ==
  /\ at["sta"] = "boot" => at["tx"] = "new" /\ call["tx"].what = "none"
  /\ at["sta"] \in {"boot", "ready", "startRx"} => at["rx"] = "new"

\* Whoever formats or sends a line holds g_logMutex, whoever writes m_sendMutex.
LocksOK ==
  \A t \in Threads :
    /\ (call[t].what = "line" /\ call[t].step # "log") => logMutex = t
    /\ call[t].step \in {"write", "payload", "fail"} => sendMutex = t

\* Before HwndReady is out the STA is the only one to send.
BootOK ==
  (pipe = "open" /\ ~ready) =>
    /\ ~logger
    /\ at["sta"] \in {"boot", "ready", "startRx"}
    /\ at["sta"] = "startRx" => call["sta"].what = "ready"
    /\ at["rx"] = "new"
    /\ raised = 0
    /\ call["sta"].what # "error"
    /\ \A t \in Threads :
         /\ call[t].step # "fail"
         /\ call[t].what = "line" => call[t].step \in {"log", "format"}

\* Once the STA has got past ClearLogger's log line nobody sends a line.
QuietOK ==
  at["sta"] \in {"stop", "cancel", "join", "close", "stopTx", "joinTx"} =>
    /\ ~logger
    /\ call["sta"].what \in {"none", "line"}
    /\ (at["sta"] # "stop" \/ call["sta"].step # "log") =>
         \A t \in Threads :
           call[t].what = "line" => call[t].step \in {"log", "format"}

\* A half-written frame has its writer under m_sendMutex.
HalfOK ==
  (pipe = "open" /\ half # Free) =>
    /\ half \in Threads
    /\ call[half].step = "payload"

FrameInv == OrderInv /\ CallOK /\ PhaseOK /\ LocksOK /\ BootOK /\ QuietOK /\ HalfOK

----------------------------------------------------------------------------
(* Types.                                                                   *)

LEMMA HeadTyped ==
  ASSUME NEW S, NEW q \in Seq(S), q # <<>> PROVE Head(q) \in S /\ Tail(q) \in Seq(S)
OBVIOUS

LEMMA ItemsNat ==
  ASSUME NEW n \in Nat, NEW q \in Seq(1 .. n) PROVE \A i \in DOMAIN q : q[i] \in Nat
OBVIOUS

LEMMA NestedTypes ==
  ASSUME TypeOK, HeldOK, NEW t \in Threads, Nested(t) PROVE TypeOK'
<1> USE BoundAssumption DEF TypeOK, Holder, Threads, Steps, Whats, In,
            threadVars, lockVars, flagVars, eventVars,
            pipeVars, worldVars
<1>1. CASE LockLog(t)
  BY <1>1 DEF LockLog, Advance
<1>2. CASE TestLogger(t)
  BY <1>2 DEF TestLogger, Advance, Return, Idle
<1>3. CASE UseLogger(t)
  BY <1>3 DEF UseLogger, Advance, Abort
<1>4. CASE LockSend(t)
  BY <1>4 DEF LockSend, Advance
<1>5. CASE WriteHeader(t)
  BY <1>5 DEF WriteHeader, Advance
<1>6. CASE WritePayload(t)
  BY <1>6 DEF WritePayload, Return, Idle
<1>7. CASE WriteFrame(t)
  <2>1. held \in 1 .. MaxEvents
    BY <1>7 DEF WriteFrame, HeldOK, SenderOK, HoldingOK
  <2> QED
    BY <1>7, <2>1 DEF WriteFrame, Return, Idle
<1>8. CASE FindClosed(t)
  BY <1>8 DEF FindClosed, Return, Idle
<1>9. CASE WriteFails(t)
  BY <1>9 DEF WriteFails, Advance
<1>10. CASE LogFailure(t)
  BY <1>10 DEF LogFailure, Return, Idle, Abort
<1> QED
  BY <1>1, <1>2, <1>3, <1>4, <1>5, <1>6, <1>7, <1>8, <1>9, <1>10 DEF Nested

LEMMA StaTypes ==
  ASSUME TypeOK, HeldOK, Sta PROVE TypeOK'
<1> USE BoundAssumption DEF TypeOK, Holder, Threads, Steps, Whats, Here, Idle, Places,
            threadVars, lockVars, flagVars, eventVars,
            pipeVars, worldVars
<1>1. CASE Activate
  BY <1>1 DEF Activate
<1>2. CASE SendReady
  BY <1>2 DEF SendReady, Send
<1>3. CASE StartReceiveLoop
  BY <1>3 DEF StartReceiveLoop
<1>4. CASE SetLogger
  BY <1>4 DEF SetLogger, Go
<1>5. CASE EndCallback
  BY <1>5 DEF EndCallback, Go
<1>6. CASE HandleConnect
  <2>1. at' \in [Threads -> Places]
    BY <1>6 DEF HandleConnect, Log, Send
  <2>2. call' \in [Threads -> [step : Steps, what : Whats]]
    <3>1. CASE Log("sta", "pump")
      BY <1>6, <3>1 DEF HandleConnect, Log, Send
    <3>2. CASE Send("sta", "error", "await")
      BY <1>6, <3>2 DEF HandleConnect, Log, Send
    <3> QED
      BY <1>6, <3>1, <3>2 DEF HandleConnect
  <2>3. posted' \in Seq({"connect", "shutdown", "broken"})
    BY <1>6 DEF HandleConnect, Log, Send, HeldOK, GotOK
  <2>4. inbound' \in Seq({"connect", "shutdown"})
    BY <1>6 DEF HandleConnect, Log, Send, HeldOK, GotOK
  <2>5. /\ logger' \in BOOLEAN /\ running' \in BOOLEAN /\ sending' \in BOOLEAN
    BY <1>6 DEF HandleConnect, Log, Send
  <2>6. /\ proc' = proc /\ UNCHANGED <<lockVars, eventVars, pipeVars, job>>
        /\ parent' \in ParentStates
    BY <1>6 DEF HandleConnect, Log, Send
  <2> QED
    BY <2>1, <2>2, <2>3, <2>4, <2>5, <2>6
<1>7. CASE HandleQuit
  <2>1. at' \in [Threads -> Places]
    BY <1>7 DEF HandleQuit, Log, Go
  <2>2. call' \in [Threads -> [step : Steps, what : Whats]]
    BY <1>7 DEF HandleQuit, Log, Go
  <2>3. posted' \in Seq({"connect", "shutdown", "broken"})
    BY <1>7 DEF HandleQuit, Log, Go, HeldOK, GotOK
  <2>4. inbound' \in Seq({"connect", "shutdown"})
    BY <1>7 DEF HandleQuit, Log, Go, HeldOK, GotOK
  <2>5. /\ logger' \in BOOLEAN /\ running' \in BOOLEAN /\ sending' \in BOOLEAN
    BY <1>7 DEF HandleQuit, Log, Go
  <2>6. /\ proc' = proc /\ UNCHANGED <<lockVars, eventVars, pipeVars, job>>
        /\ parent' \in ParentStates
    BY <1>7 DEF HandleQuit, Log, Go
  <2> QED
    BY <2>1, <2>2, <2>3, <2>4, <2>5, <2>6
<1>8. CASE ClearLogger
  <2>1. at' \in [Threads -> Places]
    BY <1>8 DEF ClearLogger, Log
  <2>2. call' \in [Threads -> [step : Steps, what : Whats]]
    BY <1>8 DEF ClearLogger, Log
  <2>3. posted' \in Seq({"connect", "shutdown", "broken"})
    BY <1>8 DEF ClearLogger, Log, HeldOK, GotOK
  <2>4. inbound' \in Seq({"connect", "shutdown"})
    BY <1>8 DEF ClearLogger, Log, HeldOK, GotOK
  <2>5. /\ logger' \in BOOLEAN /\ running' \in BOOLEAN /\ sending' \in BOOLEAN
    BY <1>8 DEF ClearLogger, Log
  <2>6. /\ proc' = proc /\ UNCHANGED <<lockVars, eventVars, pipeVars, job>>
        /\ parent' \in ParentStates
    BY <1>8 DEF ClearLogger, Log
  <2> QED
    BY <2>1, <2>2, <2>3, <2>4, <2>5, <2>6
<1>9. CASE ClearRunning
  <2>1. at' \in [Threads -> Places]
    BY <1>9 DEF ClearRunning, Go
  <2>2. call' \in [Threads -> [step : Steps, what : Whats]]
    BY <1>9 DEF ClearRunning, Go
  <2>3. posted' \in Seq({"connect", "shutdown", "broken"})
    BY <1>9 DEF ClearRunning, Go, HeldOK, GotOK
  <2>4. inbound' \in Seq({"connect", "shutdown"})
    BY <1>9 DEF ClearRunning, Go, HeldOK, GotOK
  <2>5. /\ logger' \in BOOLEAN /\ running' \in BOOLEAN /\ sending' \in BOOLEAN
    BY <1>9 DEF ClearRunning, Go
  <2>6. /\ proc' = proc /\ UNCHANGED <<lockVars, eventVars, pipeVars, job>>
        /\ parent' \in ParentStates
    BY <1>9 DEF ClearRunning, Go
  <2> QED
    BY <2>1, <2>2, <2>3, <2>4, <2>5, <2>6
<1>10. CASE CancelIo
  <2>1. at' \in [Threads -> Places]
    BY <1>10 DEF CancelIo
  <2>2. call' \in [Threads -> [step : Steps, what : Whats]]
    <3>1. CASE UNCHANGED call
      BY <1>10, <3>1 DEF CancelIo
    <3>2. CASE \E u \in Threads : /\ call[u].step \in {"write", "payload"}
                                /\ call' = [call EXCEPT ![u] = [step |-> "fail", what |-> @.what]]
      BY <1>10, <3>2 DEF CancelIo
    <3> QED
      BY <1>10, <3>1, <3>2 DEF CancelIo
  <2>3. posted' \in Seq({"connect", "shutdown", "broken"})
    BY <1>10 DEF CancelIo, HeldOK, GotOK
  <2>4. inbound' \in Seq({"connect", "shutdown"})
    BY <1>10 DEF CancelIo, HeldOK, GotOK
  <2>5. /\ logger' \in BOOLEAN /\ running' \in BOOLEAN /\ sending' \in BOOLEAN
    BY <1>10 DEF CancelIo
  <2>6. /\ proc' = proc /\ UNCHANGED <<lockVars, eventVars, pipeVars, job>>
        /\ parent' \in ParentStates
    BY <1>10 DEF CancelIo
  <2> QED
    BY <2>1, <2>2, <2>3, <2>4, <2>5, <2>6
<1>11. CASE JoinReader
  BY <1>11 DEF JoinReader, Log
<1>12. CASE ClosePipe
  BY <1>12 DEF ClosePipe, Go
<1>13. CASE StopSenderThread
  <2>1. at' \in [Threads -> Places]
    BY <1>13 DEF StopSenderThread, WakeSender
  <2>2. call' \in [Threads -> [step : Steps, what : Whats]]
    BY <1>13 DEF StopSenderThread, WakeSender
  <2>3. posted' \in Seq({"connect", "shutdown", "broken"})
    BY <1>13 DEF StopSenderThread, WakeSender, HeldOK, GotOK
  <2>4. inbound' \in Seq({"connect", "shutdown"})
    BY <1>13 DEF StopSenderThread, WakeSender, HeldOK, GotOK
  <2>5. /\ logger' \in BOOLEAN /\ running' \in BOOLEAN /\ sending' \in BOOLEAN
    BY <1>13 DEF StopSenderThread, WakeSender
  <2>6. /\ proc' = proc /\ UNCHANGED <<lockVars, eventVars, pipeVars, job>>
        /\ parent' \in ParentStates
    BY <1>13 DEF StopSenderThread, WakeSender
  <2> QED
    BY <2>1, <2>2, <2>3, <2>4, <2>5, <2>6
<1>14. CASE Exit
  BY <1>14 DEF Exit
<1> QED
  BY <1>1, <1>2, <1>3, <1>4, <1>5, <1>6, <1>7, <1>8, <1>9, <1>10, <1>11, <1>12, <1>13, <1>14 DEF Sta

LEMMA RxTypes ==
  ASSUME TypeOK, HeldOK, Rx PROVE TypeOK'
<1> USE BoundAssumption DEF TypeOK, Holder, Threads, Steps, Whats, Here, Idle, Places,
            threadVars, lockVars, flagVars, eventVars,
            pipeVars, worldVars
<1>1. CASE TestRunning
  BY <1>1 DEF TestRunning, Go, Log
<1>2. CASE IssueRead
  BY <1>2 DEF IssueRead, Go
<1>3. CASE ReadMessage
  BY <1>3 DEF ReadMessage, Log
<1>4. CASE PostMessage
  <2>1. at' \in [Threads -> Places]
    BY <1>4 DEF PostMessage, Go
  <2>2. call' \in [Threads -> [step : Steps, what : Whats]]
    BY <1>4 DEF PostMessage, Go
  <2>3. posted' \in Seq({"connect", "shutdown", "broken"})
    BY <1>4 DEF PostMessage, Go, HeldOK, GotOK
  <2>4. inbound' \in Seq({"connect", "shutdown"})
    BY <1>4 DEF PostMessage, Go, HeldOK, GotOK
  <2>5. /\ logger' \in BOOLEAN /\ running' \in BOOLEAN /\ sending' \in BOOLEAN
    BY <1>4 DEF PostMessage, Go
  <2>6. /\ proc' = proc /\ UNCHANGED <<lockVars, eventVars, pipeVars, job>>
        /\ parent' \in ParentStates
    BY <1>4 DEF PostMessage, Go
  <2> QED
    BY <2>1, <2>2, <2>3, <2>4, <2>5, <2>6
<1>5. CASE ReadFails
  BY <1>5 DEF ReadFails, Go
<1>6. CASE LogReadFailure
  BY <1>6 DEF LogReadFailure, Log
<1>7. CASE PostDisconnected
  BY <1>7 DEF PostDisconnected, Go
<1> QED
  BY <1>1, <1>2, <1>3, <1>4, <1>5, <1>6, <1>7 DEF Rx

LEMMA TxTypes ==
  ASSUME TypeOK, HeldOK, Tx PROVE TypeOK'
<1> USE BoundAssumption DEF TypeOK, Holder, Threads, Steps, Whats, Here, Idle, Places,
            threadVars, lockVars, flagVars, eventVars,
            pipeVars, worldVars
<1>1. CASE TakeQueue
  BY <1>1 DEF TakeQueue, Log
<1>2. CASE LeaveLoop
  BY <1>2 DEF LeaveLoop, Log
<1>3. CASE Pop
  BY <1>3 DEF Pop, Log
<1>4. CASE SeeStop
  BY <1>4 DEF SeeStop, Log
<1>5. CASE Quit
  BY <1>5 DEF Quit, Log
<1>6. CASE Doze
  BY <1>6 DEF Doze, Go
<1>7. CASE Sleep
  BY <1>7 DEF Sleep, Go
<1>8. CASE Wake
  BY <1>8 DEF Wake, Go
<1>9. CASE SendEvent
  BY <1>9 DEF SendEvent, Send
<1>10. CASE LogSent
  BY <1>10 DEF LogSent, Log
<1> QED
  BY <1>1, <1>2, <1>3, <1>4, <1>5, <1>6, <1>7, <1>8, <1>9, <1>10 DEF Tx

LEMMA WorldTypes ==
  ASSUME TypeOK, HeldOK, RaiseEvent \/ EndHandshake \/ Stop \/ SendShutdown \/ Terminate \/ FinishStop \/ Crash
  PROVE  TypeOK'
<1> USE BoundAssumption DEF TypeOK, Holder, Threads, Steps, Whats, Here, Idle, Places, ParentStates,
            threadVars, lockVars, flagVars, eventVars,
            pipeVars, worldVars
<1>1. CASE RaiseEvent
  BY <1>1 DEF RaiseEvent, WakeSender
<1>2. CASE EndHandshake
  <2>1. at' \in [Threads -> Places]
    BY <1>2 DEF EndHandshake
  <2>2. call' \in [Threads -> [step : Steps, what : Whats]]
    BY <1>2 DEF EndHandshake
  <2>3. posted' \in Seq({"connect", "shutdown", "broken"})
    BY <1>2 DEF EndHandshake, HeldOK, GotOK
  <2>4. inbound' \in Seq({"connect", "shutdown"})
    <3>1. CASE UNCHANGED inbound
      BY <3>1
    <3>2. CASE inbound' = Append(inbound, "connect")
      BY <3>2
    <3> QED
      BY <1>2, <3>1, <3>2 DEF EndHandshake
  <2>5. /\ logger' \in BOOLEAN /\ running' \in BOOLEAN /\ sending' \in BOOLEAN
    BY <1>2 DEF EndHandshake
  <2>6. /\ proc' = proc /\ UNCHANGED <<lockVars, eventVars, pipeVars, job>>
        /\ parent' \in ParentStates
    BY <1>2 DEF EndHandshake
  <2> QED
    BY <2>1, <2>2, <2>3, <2>4, <2>5, <2>6
<1>3. CASE Stop
  BY <1>3 DEF Stop
<1>4. CASE Terminate
  BY <1>4 DEF Terminate
<1>5. CASE FinishStop
  BY <1>5 DEF FinishStop
<1>6. CASE Crash
  BY <1>6 DEF Crash
<1>7. CASE SendShutdown
  <2>1. inbound' \in Seq({"connect", "shutdown"})
    <3>1. CASE UNCHANGED inbound
      BY <3>1
    <3>2. CASE inbound' = Append(inbound, "shutdown")
      BY <3>2
    <3> QED
      BY <1>7, <3>1, <3>2 DEF SendShutdown
  <2>2. parent' = "stopping" /\ UNCHANGED <<proc, threadVars, lockVars, flagVars, eventVars, pipeVars, posted, job>>
    BY <1>7 DEF SendShutdown
  <2> QED
    BY <2>1, <2>2
<1> QED
  BY <1>1, <1>2, <1>3, <1>4, <1>5, <1>6, <1>7

----------------------------------------------------------------------------
(* The order of the events.                                                 *)

LEMMA NestedOrder ==
  ASSUME TypeOK, HeldOK, OrderOK, CallOK, PhaseOK, NEW t \in Threads, Nested(t) PROVE HeldOK' /\ OrderOK'
<1> USE DEF TypeOK, HeldOK, GotOK, SenderOK, HoldingOK, OrderOK, CallOK, PhaseOK, QueuedInOrder, Threads,
            In, threadVars, lockVars, flagVars, eventVars, pipeVars, worldVars
<1>1. CASE LockLog(t)
  BY <1>1 DEF LockLog, Advance
<1>2. CASE TestLogger(t)
  <2>1. GotOK'
    BY <1>2 DEF TestLogger, Advance, Return, Idle
  <2>2. SenderOK'
    BY <1>2 DEF TestLogger, Advance, Return, Idle
  <2>3. HoldingOK'
    <3>1. CASE logger
      BY <1>2, <3>1 DEF TestLogger, Advance, Return, Idle
    <3>2. CASE ~logger
      BY <1>2, <3>2 DEF TestLogger, Advance, Return, Idle
    <3> QED
      BY <1>2, <3>1, <3>2 DEF TestLogger
  <2>4. OrderOK'
    BY <1>2 DEF TestLogger, Advance, Return, Idle
  <2> QED
    BY <2>1, <2>2, <2>3, <2>4 DEF HeldOK
<1>3. CASE UseLogger(t)
  BY <1>3 DEF UseLogger, Advance, Abort
<1>4. CASE LockSend(t)
  BY <1>4 DEF LockSend, Advance
<1>5. CASE WriteHeader(t)
  BY <1>5 DEF WriteHeader, Advance
<1>6. CASE WritePayload(t)
  <2>1. GotOK'
    BY <1>6 DEF WritePayload, Return, Idle
  <2>2. SenderOK'
    BY <1>6 DEF WritePayload, Return, Idle
  <2>3. HoldingOK'
    BY <1>6 DEF WritePayload, Return, Idle
  <2>4. OrderOK'
    BY <1>6 DEF WritePayload, Return, Idle
  <2> QED
    BY <2>1, <2>2, <2>3, <2>4 DEF HeldOK
<1>7. CASE WriteFrame(t)
  <2>1. GotOK'
    BY <1>7 DEF WriteFrame, Return, Idle
  <2>2. SenderOK'
    BY <1>7 DEF WriteFrame, Return, Idle
  <2>3. HoldingOK'
    BY <1>7 DEF WriteFrame, Return, Idle
  <2>4. OrderOK'
    BY <1>7 DEF WriteFrame, Return, Idle
  <2> QED
    BY <2>1, <2>2, <2>3, <2>4 DEF HeldOK
<1>8. CASE FindClosed(t)
  BY <1>8 DEF FindClosed, Return, Idle
<1>9. CASE WriteFails(t)
  BY <1>9 DEF WriteFails, Advance
<1>10. CASE LogFailure(t)
  BY <1>10 DEF LogFailure, Return, Idle, Abort
<1> QED
  BY <1>1, <1>2, <1>3, <1>4, <1>5, <1>6, <1>7, <1>8, <1>9, <1>10 DEF Nested

LEMMA StaOrder ==
  ASSUME TypeOK, HeldOK, OrderOK, CallOK, PhaseOK, Sta PROVE HeldOK' /\ OrderOK'
<1> USE DEF TypeOK, HeldOK, GotOK, SenderOK, HoldingOK, OrderOK, CallOK, PhaseOK, QueuedInOrder, Threads,
            Here, Idle, threadVars, lockVars, flagVars, eventVars, pipeVars, worldVars
<1>1. CASE Activate
  <2>1. GotOK'
    BY <1>1 DEF Activate
  <2>2. SenderOK'
    BY <1>1 DEF Activate
  <2>3. HoldingOK'
    BY <1>1 DEF Activate
  <2>4. OrderOK'
    BY <1>1 DEF Activate
  <2> QED
    BY <2>1, <2>2, <2>3, <2>4 DEF HeldOK
<1>2. CASE SendReady
  BY <1>2 DEF SendReady, Send
<1>3. CASE StartReceiveLoop
  BY <1>3 DEF StartReceiveLoop
<1>4. CASE SetLogger
  BY <1>4 DEF SetLogger, Go
<1>5. CASE EndCallback
  BY <1>5 DEF EndCallback, Go
<1>6. CASE HandleConnect
  <2>1. GotOK'
    BY <1>6 DEF HandleConnect, Log, Send
  <2>2. SenderOK'
    <3>1. CASE Log("sta", "pump")
      BY <1>6, <3>1 DEF HandleConnect, Log, Send
    <3>2. CASE Send("sta", "error", "await")
      BY <1>6, <3>2 DEF HandleConnect, Log, Send
    <3> QED
      BY <1>6, <3>1, <3>2 DEF HandleConnect
  <2>3. HoldingOK'
    BY <1>6 DEF HandleConnect, Log, Send
  <2>4. OrderOK'
    BY <1>6 DEF HandleConnect, Log, Send
  <2> QED
    BY <2>1, <2>2, <2>3, <2>4 DEF HeldOK
<1>7. CASE HandleQuit
  <2>1. GotOK'
    BY <1>7 DEF HandleQuit, Log, Go
  <2>2. SenderOK'
    <3>1. CASE Head(posted) = "broken"
      BY <1>7, <3>1 DEF HandleQuit, Log, Go
    <3>2. CASE Head(posted) # "broken"
      BY <1>7, <3>2 DEF HandleQuit, Log, Go
    <3> QED
      BY <1>7, <3>1, <3>2 DEF HandleQuit
  <2>3. HoldingOK'
    BY <1>7 DEF HandleQuit, Log, Go
  <2>4. OrderOK'
    BY <1>7 DEF HandleQuit, Log, Go
  <2> QED
    BY <2>1, <2>2, <2>3, <2>4 DEF HeldOK
<1>8. CASE ClearLogger
  BY <1>8 DEF ClearLogger, Log
<1>9. CASE ClearRunning
  BY <1>9 DEF ClearRunning, Go
<1>10. CASE CancelIo
  <2>1. GotOK'
    BY <1>10 DEF CancelIo
  <2>2. SenderOK'
    <3>1. CASE UNCHANGED call
      BY <1>10, <3>1 DEF CancelIo
    <3>2. CASE \E u \in Threads : /\ call[u].step \in {"write", "payload"}
                                /\ call' = [call EXCEPT ![u] = [step |-> "fail", what |-> @.what]]
      BY <1>10, <3>2 DEF CancelIo
    <3> QED
      BY <1>10, <3>1, <3>2 DEF CancelIo
  <2>3. HoldingOK'
    <3>1. CASE UNCHANGED call
      BY <1>10, <3>1 DEF CancelIo
    <3>2. CASE \E u \in Threads : /\ call[u].step \in {"write", "payload"}
                                /\ call' = [call EXCEPT ![u] = [step |-> "fail", what |-> @.what]]
      BY <1>10, <3>2 DEF CancelIo
    <3> QED
      BY <1>10, <3>1, <3>2 DEF CancelIo
  <2>4. OrderOK'
    BY <1>10 DEF CancelIo
  <2> QED
    BY <2>1, <2>2, <2>3, <2>4 DEF HeldOK
<1>11. CASE JoinReader
  BY <1>11 DEF JoinReader, Log
<1>12. CASE ClosePipe
  BY <1>12 DEF ClosePipe, Go
<1>13. CASE StopSenderThread
  BY <1>13 DEF StopSenderThread, WakeSender
<1>14. CASE Exit
  BY <1>14 DEF Exit
<1> QED
  BY <1>1, <1>2, <1>3, <1>4, <1>5, <1>6, <1>7, <1>8, <1>9, <1>10, <1>11, <1>12, <1>13, <1>14 DEF Sta

LEMMA RxOrder ==
  ASSUME TypeOK, HeldOK, OrderOK, CallOK, PhaseOK, Rx PROVE HeldOK' /\ OrderOK'
<1> USE DEF TypeOK, HeldOK, GotOK, SenderOK, HoldingOK, OrderOK, CallOK, PhaseOK, QueuedInOrder, Threads,
            Here, Idle, threadVars, lockVars, flagVars, eventVars, pipeVars, worldVars
<1>1. CASE TestRunning
  <2>1. GotOK'
    BY <1>1 DEF TestRunning, Go, Log
  <2>2. SenderOK'
    <3>1. CASE running
      BY <1>1, <3>1 DEF TestRunning, Go, Log
    <3>2. CASE ~running
      BY <1>1, <3>2 DEF TestRunning, Go, Log
    <3> QED
      BY <1>1, <3>1, <3>2 DEF TestRunning
  <2>3. HoldingOK'
    BY <1>1 DEF TestRunning, Go, Log
  <2>4. OrderOK'
    BY <1>1 DEF TestRunning, Go, Log
  <2> QED
    BY <2>1, <2>2, <2>3, <2>4 DEF HeldOK
<1>2. CASE IssueRead
  BY <1>2 DEF IssueRead, Go
<1>3. CASE ReadMessage
  BY <1>3 DEF ReadMessage, Log
<1>4. CASE PostMessage
  BY <1>4 DEF PostMessage, Go
<1>5. CASE ReadFails
  BY <1>5 DEF ReadFails, Go
<1>6. CASE LogReadFailure
  BY <1>6 DEF LogReadFailure, Log
<1>7. CASE PostDisconnected
  BY <1>7 DEF PostDisconnected, Go
<1> QED
  BY <1>1, <1>2, <1>3, <1>4, <1>5, <1>6, <1>7 DEF Rx

LEMMA TxOrder ==
  ASSUME TypeOK, HeldOK, OrderOK, CallOK, PhaseOK, Tx PROVE HeldOK' /\ OrderOK'
<1> USE DEF TypeOK, HeldOK, GotOK, SenderOK, HoldingOK, OrderOK, CallOK, PhaseOK, QueuedInOrder, Threads,
            Here, Idle, threadVars, lockVars, flagVars, eventVars, pipeVars, worldVars
<1>1. CASE TakeQueue
  BY <1>1 DEF TakeQueue, Log
<1>2. CASE LeaveLoop
  BY <1>2 DEF LeaveLoop, Log
<1>3. CASE Pop
  <2>1. GotOK'
    BY <1>3 DEF Pop, Log
  <2>2. SenderOK'
    BY <1>3 DEF Pop, Log
  <2>3. HoldingOK'
    <3>1. Head(queue) \in 1 .. MaxEvents
      <4>1. queue \in Seq(1 .. MaxEvents) /\ queue # <<>>
        BY <1>3 DEF Pop
      <4> QED
        BY <4>1, HeadTyped
    <3>2. held' # 0 /\ at'["tx"] = "popped"
      BY <1>3, <3>1 DEF Pop, Log
    <3> QED
      BY <3>2
  <2>4. OrderOK'
    BY <1>3 DEF Pop, Log
  <2> QED
    BY <2>1, <2>2, <2>3, <2>4 DEF HeldOK
<1>4. CASE SeeStop
  BY <1>4 DEF SeeStop, Log
<1>5. CASE Quit
  BY <1>5 DEF Quit, Log
<1>6. CASE Doze
  BY <1>6 DEF Doze, Go
<1>7. CASE Sleep
  BY <1>7 DEF Sleep, Go
<1>8. CASE Wake
  BY <1>8 DEF Wake, Go
<1>9. CASE SendEvent
  BY <1>9 DEF SendEvent, Send
<1>10. CASE LogSent
  BY <1>10 DEF LogSent, Log
<1> QED
  BY <1>1, <1>2, <1>3, <1>4, <1>5, <1>6, <1>7, <1>8, <1>9, <1>10 DEF Tx

LEMMA WorldOrder ==
  ASSUME TypeOK, HeldOK, OrderOK, CallOK, PhaseOK, RaiseEvent \/ EndHandshake \/ Stop \/ SendShutdown \/ Terminate \/ FinishStop \/ Crash
  PROVE  HeldOK' /\ OrderOK'
<1> USE DEF TypeOK, HeldOK, GotOK, SenderOK, HoldingOK, OrderOK, CallOK, PhaseOK, QueuedInOrder, Threads,
            Here, Idle, threadVars, lockVars, flagVars, eventVars, pipeVars, worldVars
<1>1. CASE RaiseEvent
  <2>1. GotOK'
    BY <1>1 DEF RaiseEvent, WakeSender
  <2>2. SenderOK'
    BY <1>1 DEF RaiseEvent, WakeSender
  <2>3. HoldingOK'
    BY <1>1 DEF RaiseEvent, WakeSender
  <2>4. OrderOK'
    <3>1. /\ raised' = raised + 1 /\ raised \in Nat
          /\ queue' = Append(queue, raised + 1)
          /\ UNCHANGED <<held, arrived>>
      BY <1>1 DEF RaiseEvent
    <3>2. /\ Len(queue') = Len(queue) + 1
          /\ queue'[Len(queue) + 1] = raised + 1
          /\ \A i \in 1 .. Len(queue) : queue'[i] = queue[i]
          /\ DOMAIN queue' = 1 .. Len(queue) + 1
          /\ DOMAIN queue = 1 .. Len(queue) /\ Len(queue) \in Nat
      BY <3>1
    <3>3. /\ \A i \in DOMAIN arrived : arrived[i] \in Nat
          /\ \A i \in DOMAIN queue : queue[i] \in Nat
          /\ held \in Nat
      <4>1. /\ arrived \in Seq(1 .. MaxEvents) /\ queue \in Seq(1 .. MaxEvents)
            /\ held \in 0 .. MaxEvents
        OBVIOUS
      <4> QED
        BY <4>1, ItemsNat, BoundAssumption
    <3>4. \A i \in DOMAIN queue' : queue'[i] <= raised'
      BY <3>1, <3>2, <3>3
    <3>5. \A i, j \in DOMAIN queue' : i < j => queue'[i] < queue'[j]
      BY <3>1, <3>2, <3>3
    <3>6. held # 0 => \A i \in DOMAIN queue' : held < queue'[i]
      BY <3>1, <3>2, <3>3
    <3>7. \A i \in DOMAIN arrived, j \in DOMAIN queue' : arrived[i] < queue'[j]
      BY SMTT(60), <3>1, <3>2, <3>3
    <3>8. \A i \in DOMAIN arrived : arrived[i] <= raised'
      BY <3>1, <3>3
    <3> QED
      BY <3>1, <3>3, <3>4, <3>5, <3>6, <3>7, <3>8
  <2> QED
    BY <2>1, <2>2, <2>3, <2>4 DEF HeldOK
<1>2. CASE EndHandshake
  BY <1>2 DEF EndHandshake
<1>3. CASE Stop
  BY <1>3 DEF Stop
<1>4. CASE Terminate
  BY <1>4 DEF Terminate
<1>5. CASE FinishStop
  BY <1>5 DEF FinishStop
<1>6. CASE Crash
  BY <1>6 DEF Crash
<1>7. CASE SendShutdown
  <2>1. GotOK'
    BY <1>7 DEF SendShutdown
  <2>2. SenderOK'
    BY <1>7 DEF SendShutdown
  <2>3. HoldingOK'
    BY <1>7 DEF SendShutdown
  <2>4. OrderOK'
    BY <1>7 DEF SendShutdown
  <2> QED
    BY <2>1, <2>2, <2>3, <2>4 DEF HeldOK
<1> QED
  BY <1>1, <1>2, <1>3, <1>4, <1>5, <1>6, <1>7

----------------------------------------------------------------------------
(* The frames on the pipe.                                                  *)

\* A line that finds no logger returns, and before HwndReady leaves all as it was.
LEMMA UnloggedBoots ==
  ASSUME FrameInv, NEW t \in Threads, TestLogger(t), ~logger PROVE BootOK'
<1>1. /\ call' = [call EXCEPT ![t] = Idle]
      /\ UNCHANGED <<at, pipe, ready, logger, raised>>
  BY DEF TestLogger, Return, flagVars, eventVars, pipeVars, worldVars
<1>2. call[t].step = "format"
  BY DEF TestLogger, In
<1>3. call[t].what = "line"
  BY <1>2 DEF FrameInv, CallOK
<1>4. call'[t] = Idle /\ \A x \in Threads \ {t} : call'[x] = call[x]
  BY <1>1 DEF FrameInv, OrderInv, TypeOK
<1>5. ASSUME pipe = "open", ~ready PROVE BootOK'
  <2>1. at["sta"] = "startRx" => t # "sta"
    BY <1>3, <1>5 DEF FrameInv, BootOK
  <2> QED
    BY <1>1, <1>4, <1>5, <2>1 DEF FrameInv, BootOK, Idle, Threads
<1>6. CASE ~(pipe = "open" /\ ~ready)
  BY <1>1, <1>6 DEF BootOK
<1> QED
  BY <1>5, <1>6

LEMMA NestedFrames ==
  ASSUME FrameInv, NEW t \in Threads, Nested(t) PROVE CallOK' /\ PhaseOK' /\ LocksOK' /\ BootOK' /\ QuietOK' /\ HalfOK'
<1> USE DEF FrameInv, OrderInv, TypeOK, HeldOK, GotOK, SenderOK, HoldingOK, OrderOK, CallOK, PhaseOK, LocksOK, BootOK, QuietOK, HalfOK, Threads,
            In, Holder, Free, threadVars, lockVars, flagVars, eventVars, pipeVars,
            worldVars
<1>1. CASE LockLog(t)
  BY <1>1 DEF LockLog, Advance
<1>2. CASE TestLogger(t)
  <2>1. CallOK'
    BY <1>2 DEF TestLogger, Advance, Return, Idle, CallOK
  <2>2. PhaseOK'
    BY <1>2 DEF TestLogger, Advance, Return, Idle, PhaseOK
  <2>3. LocksOK'
    BY <1>2 DEF TestLogger, Advance, Return, Idle, LocksOK
  <2>4. BootOK'
    <3>1. CASE logger
      BY <1>2, <3>1 DEF TestLogger, Advance, Return, Idle, BootOK
    <3>2. CASE ~logger
      BY <1>2, <3>2, UnloggedBoots
    <3> QED
      BY <1>2, <3>1, <3>2 DEF TestLogger
  <2>5. QuietOK'
    <3>1. CASE logger
      BY <1>2, <3>1 DEF TestLogger, Advance, Return, Idle, QuietOK
    <3>2. CASE ~logger
      BY <1>2, <3>2 DEF TestLogger, Advance, Return, Idle, QuietOK
    <3> QED
      BY <1>2, <3>1, <3>2 DEF TestLogger
  <2>6. HalfOK'
    BY <1>2 DEF TestLogger, Advance, Return, Idle, HalfOK
  <2> QED
    BY <2>1, <2>2, <2>3, <2>4, <2>5, <2>6
<1>3. CASE UseLogger(t)
  <2>1. CallOK'
    <3>1. CASE Abort
      BY <1>3, <3>1 DEF UseLogger, Advance, Abort, CallOK
    <3>2. CASE logger /\ Advance(t, "send")
      BY <1>3, <3>2 DEF UseLogger, Advance, Abort, CallOK
    <3> QED
      BY <1>3, <3>1, <3>2 DEF UseLogger
  <2>2. PhaseOK'
    BY <1>3 DEF UseLogger, Advance, Abort, PhaseOK
  <2>3. LocksOK'
    <3>1. CASE Abort
      BY <1>3, <3>1 DEF UseLogger, Advance, Abort, LocksOK
    <3>2. CASE logger /\ Advance(t, "send")
      BY <1>3, <3>2 DEF UseLogger, Advance, Abort, LocksOK
    <3> QED
      BY <1>3, <3>1, <3>2 DEF UseLogger
  <2>4. BootOK'
    BY <1>3 DEF UseLogger, Advance, Abort, BootOK
  <2>5. QuietOK'
    BY <1>3 DEF UseLogger, Advance, Abort, QuietOK
  <2>6. HalfOK'
    BY <1>3 DEF UseLogger, Advance, Abort, HalfOK
  <2> QED
    BY <2>1, <2>2, <2>3, <2>4, <2>5, <2>6
<1>4. CASE LockSend(t)
  BY <1>4 DEF LockSend, Advance
<1>5. CASE WriteHeader(t)
  BY <1>5 DEF WriteHeader, Advance
<1>6. CASE WritePayload(t)
  <2>1. CallOK'
    BY <1>6 DEF WritePayload, Return, Idle, CallOK
  <2>2. PhaseOK'
    BY <1>6 DEF WritePayload, Return, Idle, PhaseOK
  <2>3. LocksOK'
    BY <1>6 DEF WritePayload, Return, Idle, LocksOK
  <2>4. BootOK'
    BY <1>6 DEF WritePayload, Return, Idle, BootOK
  <2>5. QuietOK'
    BY <1>6 DEF WritePayload, Return, Idle, QuietOK
  <2>6. HalfOK'
    BY <1>6 DEF WritePayload, Return, Idle, HalfOK
  <2> QED
    BY <2>1, <2>2, <2>3, <2>4, <2>5, <2>6
<1>7. CASE WriteFrame(t)
  BY <1>7 DEF WriteFrame, Return, Idle
<1>8. CASE FindClosed(t)
  BY <1>8 DEF FindClosed, Return, Idle
<1>9. CASE WriteFails(t)
  BY <1>9 DEF WriteFails, Advance
<1>10. CASE LogFailure(t)
  <2>1. CallOK'
    <3>1. CASE Abort
      BY <1>10, <3>1 DEF LogFailure, Return, Idle, Abort, CallOK
    <3>2. CASE ~Abort
      BY <1>10, <3>2 DEF LogFailure, Return, Idle, Abort, CallOK
    <3> QED
      BY <1>10, <3>1, <3>2 DEF LogFailure
  <2>2. PhaseOK'
    BY <1>10 DEF LogFailure, Return, Idle, Abort, PhaseOK
  <2>3. LocksOK'
    <3>1. CASE Abort
      BY <1>10, <3>1 DEF LogFailure, Return, Idle, Abort, LocksOK
    <3>2. CASE ~Abort
      BY <1>10, <3>2 DEF LogFailure, Return, Idle, Abort, LocksOK
    <3> QED
      BY <1>10, <3>1, <3>2 DEF LogFailure
  <2>4. BootOK'
    <3>1. CASE Abort
      BY <1>10, <3>1 DEF LogFailure, Return, Idle, Abort, BootOK
    <3>2. CASE ~Abort
      BY <1>10, <3>2 DEF LogFailure, Return, Idle, Abort, BootOK
    <3> QED
      BY <1>10, <3>1, <3>2 DEF LogFailure
  <2>5. QuietOK'
    <3>1. CASE Abort
      BY <1>10, <3>1 DEF LogFailure, Return, Idle, Abort, QuietOK
    <3>2. CASE ~Abort
      BY <1>10, <3>2 DEF LogFailure, Return, Idle, Abort, QuietOK
    <3> QED
      BY <1>10, <3>1, <3>2 DEF LogFailure
  <2>6. HalfOK'
    BY <1>10 DEF LogFailure, Return, Idle, Abort, HalfOK
  <2> QED
    BY <2>1, <2>2, <2>3, <2>4, <2>5, <2>6
<1> QED
  BY <1>1, <1>2, <1>3, <1>4, <1>5, <1>6, <1>7, <1>8, <1>9, <1>10 DEF Nested

LEMMA StaFrames ==
  ASSUME FrameInv, Sta PROVE CallOK' /\ PhaseOK' /\ LocksOK' /\ BootOK' /\ QuietOK' /\ HalfOK'
<1> USE DEF FrameInv, OrderInv, TypeOK, HeldOK, GotOK, SenderOK, HoldingOK, OrderOK, CallOK, PhaseOK, LocksOK, BootOK, QuietOK, HalfOK, Threads,
            Here, Idle, Holder, Free, threadVars, lockVars, flagVars, eventVars, pipeVars,
            worldVars
<1>1. CASE Activate
  BY <1>1 DEF Activate
<1>2. CASE SendReady
  BY <1>2 DEF SendReady, Send
<1>3. CASE StartReceiveLoop
  BY <1>3 DEF StartReceiveLoop
<1>4. CASE SetLogger
  BY <1>4 DEF SetLogger, Go
<1>5. CASE EndCallback
  BY <1>5 DEF EndCallback, Go
<1>6. CASE HandleConnect
  <2>1. CallOK'
    BY <1>6 DEF HandleConnect, Log, Send, CallOK
  <2>2. PhaseOK'
    BY <1>6 DEF HandleConnect, Log, Send, PhaseOK
  <2>3. LocksOK'
    BY <1>6 DEF HandleConnect, Log, Send, LocksOK
  <2>4. BootOK'
    BY <1>6 DEF HandleConnect, Log, Send, BootOK
  <2>5. QuietOK'
    BY <1>6 DEF HandleConnect, Log, Send, QuietOK
  <2>6. HalfOK'
    BY <1>6 DEF HandleConnect, Log, Send, HalfOK
  <2> QED
    BY <2>1, <2>2, <2>3, <2>4, <2>5, <2>6
<1>7. CASE HandleQuit
  <2>1. CallOK'
    BY <1>7 DEF HandleQuit, Log, Go, CallOK
  <2>2. PhaseOK'
    BY <1>7 DEF HandleQuit, Log, Go, PhaseOK
  <2>3. LocksOK'
    <3>1. CASE Head(posted) = "broken"
      BY <1>7, <3>1 DEF HandleQuit, Log, Go, LocksOK
    <3>2. CASE Head(posted) # "broken"
      BY <1>7, <3>2 DEF HandleQuit, Log, Go, LocksOK
    <3> QED
      BY <1>7, <3>1, <3>2 DEF HandleQuit
  <2>4. BootOK'
    BY <1>7 DEF HandleQuit, Log, Go, BootOK
  <2>5. QuietOK'
    BY <1>7 DEF HandleQuit, Log, Go, QuietOK
  <2>6. HalfOK'
    BY <1>7 DEF HandleQuit, Log, Go, HalfOK
  <2> QED
    BY <2>1, <2>2, <2>3, <2>4, <2>5, <2>6
<1>8. CASE ClearLogger
  BY <1>8 DEF ClearLogger, Log
<1>9. CASE ClearRunning
  BY <1>9 DEF ClearRunning, Go
<1>10. CASE CancelIo
  <2>1. CallOK'
    <3>1. CASE UNCHANGED call
      BY <1>10, <3>1 DEF CancelIo, CallOK
    <3>2. CASE \E u \in Threads : /\ call[u].step \in {"write", "payload"}
                                /\ call' = [call EXCEPT ![u] = [step |-> "fail", what |-> @.what]]
      BY <1>10, <3>2 DEF CancelIo, CallOK
    <3> QED
      BY <1>10, <3>1, <3>2 DEF CancelIo
  <2>2. PhaseOK'
    BY <1>10 DEF CancelIo, PhaseOK
  <2>3. LocksOK'
    <3>1. CASE UNCHANGED call
      BY <1>10, <3>1 DEF CancelIo, LocksOK
    <3>2. CASE \E u \in Threads : /\ call[u].step \in {"write", "payload"}
                                /\ call' = [call EXCEPT ![u] = [step |-> "fail", what |-> @.what]]
      BY <1>10, <3>2 DEF CancelIo, LocksOK
    <3> QED
      BY <1>10, <3>1, <3>2 DEF CancelIo
  <2>4. BootOK'
    BY <1>10 DEF CancelIo, BootOK
  <2>5. QuietOK'
    <3>1. CASE UNCHANGED call
      BY <1>10, <3>1 DEF CancelIo, QuietOK
    <3>2. CASE \E u \in Threads : /\ call[u].step \in {"write", "payload"}
                                /\ call' = [call EXCEPT ![u] = [step |-> "fail", what |-> @.what]]
      BY <1>10, <3>2 DEF CancelIo, QuietOK
    <3> QED
      BY <1>10, <3>1, <3>2 DEF CancelIo
  <2>6. HalfOK'
    <3>1. \A u \in Threads : call[u].step # "payload"
      <4>1. /\ at["sta"] = "cancel" /\ call["sta"].what = "none"
            /\ call["sta"].step = "idle"
        BY <1>10 DEF CancelIo
      <4>2. \A u \in Threads : call[u].what = "line" => call[u].step \in {"log", "format"}
        BY <4>1
      <4>3. ASSUME NEW u \in Threads, call[u].step = "payload" PROVE FALSE
        <5>1. call[u].what \in {"none", "line", "event", "error", "ready"}
          BY DEF Whats
        <5> QED
          BY <4>1, <4>2, <4>3, <5>1
      <4> QED
        BY <4>3
    <3>2. pipe # "open" \/ half = Free
      BY <3>1
    <3> QED
      BY <1>10, <3>2 DEF CancelIo
  <2> QED
    BY <2>1, <2>2, <2>3, <2>4, <2>5, <2>6
<1>11. CASE JoinReader
  BY <1>11 DEF JoinReader, Log
<1>12. CASE ClosePipe
  BY <1>12 DEF ClosePipe, Go
<1>13. CASE StopSenderThread
  BY <1>13 DEF StopSenderThread, WakeSender
<1>14. CASE Exit
  BY <1>14 DEF Exit
<1> QED
  BY <1>1, <1>2, <1>3, <1>4, <1>5, <1>6, <1>7, <1>8, <1>9, <1>10, <1>11, <1>12, <1>13, <1>14 DEF Sta

LEMMA RxFrames ==
  ASSUME FrameInv, Rx PROVE CallOK' /\ PhaseOK' /\ LocksOK' /\ BootOK' /\ QuietOK' /\ HalfOK'
<1> USE DEF FrameInv, OrderInv, TypeOK, HeldOK, GotOK, SenderOK, HoldingOK, OrderOK, CallOK, PhaseOK, LocksOK, BootOK, QuietOK, HalfOK, Threads,
            Here, Idle, Holder, Free, threadVars, lockVars, flagVars, eventVars, pipeVars,
            worldVars
<1>1. CASE TestRunning
  BY <1>1 DEF TestRunning, Go, Log
<1>2. CASE IssueRead
  BY <1>2 DEF IssueRead, Go
<1>3. CASE ReadMessage
  BY <1>3 DEF ReadMessage, Log
<1>4. CASE PostMessage
  BY <1>4 DEF PostMessage, Go
<1>5. CASE ReadFails
  BY <1>5 DEF ReadFails, Go
<1>6. CASE LogReadFailure
  BY <1>6 DEF LogReadFailure, Log
<1>7. CASE PostDisconnected
  BY <1>7 DEF PostDisconnected, Go
<1> QED
  BY <1>1, <1>2, <1>3, <1>4, <1>5, <1>6, <1>7 DEF Rx

LEMMA TxFrames ==
  ASSUME FrameInv, Tx PROVE CallOK' /\ PhaseOK' /\ LocksOK' /\ BootOK' /\ QuietOK' /\ HalfOK'
<1> USE DEF FrameInv, OrderInv, TypeOK, HeldOK, GotOK, SenderOK, HoldingOK, OrderOK, CallOK, PhaseOK, LocksOK, BootOK, QuietOK, HalfOK, Threads,
            Here, Idle, Holder, Free, threadVars, lockVars, flagVars, eventVars, pipeVars,
            worldVars
<1>1. CASE TakeQueue
  BY <1>1 DEF TakeQueue, Log
<1>2. CASE LeaveLoop
  BY <1>2 DEF LeaveLoop, Log
<1>3. CASE Pop
  BY <1>3 DEF Pop, Log
<1>4. CASE SeeStop
  BY <1>4 DEF SeeStop, Log
<1>5. CASE Quit
  BY <1>5 DEF Quit, Log
<1>6. CASE Doze
  BY <1>6 DEF Doze, Go
<1>7. CASE Sleep
  BY <1>7 DEF Sleep, Go
<1>8. CASE Wake
  BY <1>8 DEF Wake, Go
<1>9. CASE SendEvent
  BY <1>9 DEF SendEvent, Send
<1>10. CASE LogSent
  BY <1>10 DEF LogSent, Log
<1> QED
  BY <1>1, <1>2, <1>3, <1>4, <1>5, <1>6, <1>7, <1>8, <1>9, <1>10 DEF Tx

LEMMA WorldFrames ==
  ASSUME FrameInv, RaiseEvent \/ EndHandshake \/ Stop \/ SendShutdown \/ Terminate \/ FinishStop \/ Crash
  PROVE  CallOK' /\ PhaseOK' /\ LocksOK' /\ BootOK' /\ QuietOK' /\ HalfOK'
<1> USE DEF FrameInv, OrderInv, TypeOK, HeldOK, GotOK, SenderOK, HoldingOK, OrderOK, CallOK, PhaseOK, LocksOK, BootOK, QuietOK, HalfOK, Threads,
            Here, Idle, Holder, Free, threadVars, lockVars, flagVars, eventVars, pipeVars,
            worldVars
<1>1. CASE RaiseEvent
  BY <1>1 DEF RaiseEvent, WakeSender
<1>2. CASE EndHandshake
  BY <1>2 DEF EndHandshake
<1>3. CASE Stop
  BY <1>3 DEF Stop
<1>4. CASE Terminate
  BY <1>4 DEF Terminate
<1>5. CASE FinishStop
  BY <1>5 DEF FinishStop
<1>6. CASE Crash
  BY <1>6 DEF Crash
<1>7. CASE SendShutdown
  BY <1>7 DEF SendShutdown
<1> QED
  BY <1>1, <1>2, <1>3, <1>4, <1>5, <1>6, <1>7

----------------------------------------------------------------------------
(* The invariant and what it gives.                                         *)

LEMMA ChildInit == Init => FrameInv
<1> SUFFICES ASSUME Init PROVE FrameInv
  OBVIOUS
<1> USE BoundAssumption DEF Init, Threads, Idle
<1>1. TypeOK
  <2>1. at \in [Threads -> Places]
    BY DEF Places
  <2>2. call \in [Threads -> [step : Steps, what : Whats]]
    BY DEF Steps, Whats
  <2>3. /\ logMutex \in Holder /\ sendMutex \in Holder /\ outMutex \in Holder
        /\ half \in Holder /\ job \in BOOLEAN
    BY DEF Holder
  <2>4. /\ queue \in Seq(1 .. MaxEvents) /\ arrived \in Seq(1 .. MaxEvents)
        /\ inbound \in Seq({"connect", "shutdown"})
        /\ posted \in Seq({"connect", "shutdown", "broken"})
    OBVIOUS
  <2>5. raised \in 0 .. MaxEvents /\ held \in 0 .. MaxEvents
    OBVIOUS
  <2> QED
    BY <2>1, <2>2, <2>3, <2>4, <2>5 DEF TypeOK, ParentStates
<1>2. HeldOK /\ OrderOK
  BY DEF HeldOK, GotOK, SenderOK, HoldingOK, OrderOK, QueuedInOrder
<1>3. CallOK /\ PhaseOK /\ LocksOK /\ BootOK /\ QuietOK /\ HalfOK
  BY DEF CallOK, PhaseOK, LocksOK, BootOK, QuietOK, HalfOK
<1> QED
  BY <1>1, <1>2, <1>3 DEF FrameInv, OrderInv

LEMMA ChildStutter ==
  ASSUME FrameInv, UNCHANGED vars PROVE FrameInv'
BY DEF FrameInv, OrderInv, TypeOK, HeldOK, GotOK, SenderOK, HoldingOK, OrderOK,
       QueuedInOrder, CallOK, PhaseOK, LocksOK, BootOK, QuietOK, HalfOK, vars,
       threadVars, lockVars, flagVars, eventVars, pipeVars, worldVars

LEMMA ChildStep == FrameInv /\ [Next]_vars => FrameInv'
<1> SUFFICES ASSUME FrameInv, [Next]_vars PROVE FrameInv'
  OBVIOUS
<1> USE DEF OrderInv
<1>0. TypeOK /\ HeldOK /\ OrderOK /\ CallOK /\ PhaseOK
  BY DEF FrameInv
<1>1. ASSUME NEW t \in Threads, Nested(t) PROVE FrameInv'
  BY <1>0, <1>1, NestedTypes, NestedOrder, NestedFrames DEF FrameInv
<1>2. ASSUME Sta PROVE FrameInv'
  BY <1>0, <1>2, StaTypes, StaOrder, StaFrames DEF FrameInv
<1>3. ASSUME Rx PROVE FrameInv'
  BY <1>0, <1>3, RxTypes, RxOrder, RxFrames DEF FrameInv
<1>4. ASSUME Tx PROVE FrameInv'
  BY <1>0, <1>4, TxTypes, TxOrder, TxFrames DEF FrameInv
<1>5. ASSUME RaiseEvent \/ EndHandshake \/ Stop \/ SendShutdown \/ Terminate \/ FinishStop \/ Crash
      PROVE FrameInv'
  BY <1>0, <1>5, WorldTypes, WorldOrder, WorldFrames DEF FrameInv
<1>6. CASE UNCHANGED vars
  BY <1>6, ChildStutter
<1> QED
  BY <1>1, <1>2, <1>3, <1>4, <1>5, <1>6 DEF Next, Child

LEMMA ChildInvariant == Spec => []FrameInv
<1>1. Init => FrameInv
  BY ChildInit
<1>2. FrameInv /\ [Next]_vars => FrameInv'
  BY ChildStep
<1> QED
  BY <1>1, <1>2, PTL DEF Spec

\* Types hold, whatever crashes and however many events there are.
THEOREM ChildTypeCorrect == Spec => []TypeOK
<1>1. FrameInv => TypeOK
  BY DEF FrameInv, OrderInv
<1> QED
  BY <1>1, ChildInvariant, PTL

\* The parent never receives two queued events in the wrong order, nor one twice.
\* (RdpHost.cpp:181-231)
THEOREM EventsKeepOrder == Spec => []QueuedInOrder
<1>1. FrameInv => QueuedInOrder
  BY DEF FrameInv, OrderInv, OrderOK
<1> QED
  BY <1>1, ChildInvariant, PTL

\* Nothing is written on a sound pipe before HwndReady but HwndReady.
\* (main.cpp:253-260, IpcClient.cpp:118-146)
THEOREM HandshakeIsClean == Spec => []HandshakeFirst
<1>1. ASSUME FrameInv PROVE HandshakeFirst
  <2>1. ASSUME NEW t \in Threads, InWrite(t), pipe = "open", ~ready
        PROVE  call[t].what = "ready"
    <3>1. CallOK /\ LocksOK /\ BootOK /\ HeldOK /\ TypeOK /\ OrderOK
      BY <1>1 DEF FrameInv, OrderInv
    <3>2. call[t].what # "none" /\ call[t].what # "line" /\ call[t].what # "error"
      BY <2>1, <3>1 DEF CallOK, BootOK, InWrite, Threads
    <3>3. call[t].what # "event"
      BY <2>1, <3>1, BoundAssumption
         DEF HeldOK, SenderOK, HoldingOK, BootOK, OrderOK, TypeOK, Threads
    <3>4. call[t].what \in Whats
      BY <3>1 DEF TypeOK
    <3> QED
      BY <3>2, <3>3, <3>4 DEF Whats
  <2> QED
    BY <2>1 DEF HandshakeFirst
<1> QED
  BY <1>1, ChildInvariant, PTL

\* While one thread's header waits for its payload no other thread writes.
\* (IpcClient.cpp:104-146)
THEOREM FramesNeverMix == Spec => []FramesWhole
<1>1. ASSUME FrameInv PROVE FramesWhole
  <2>1. ASSUME NEW t \in Threads, InWrite(t), pipe = "open", half # Free PROVE half = t
    <3>1. half \in Threads /\ call[half].step = "payload"
      BY <1>1, <2>1 DEF FrameInv, HalfOK
    <3>2. sendMutex = half
      BY <1>1, <3>1 DEF FrameInv, LocksOK
    <3>3. sendMutex = t
      BY <1>1, <2>1 DEF FrameInv, LocksOK, InWrite
    <3> QED
      BY <3>2, <3>3
  <2> QED
    BY <2>1 DEF FramesWhole
<1> QED
  BY <1>1, ChildInvariant, PTL
=============================================================================
