-------------------------- MODULE ModemWorkerProofs --------------------------
(***************************************************************************)
(* Theorems about ModemWorker, for every set of commands, every queue      *)
(* capacity and every number of lines in a read.                           *)
(***************************************************************************)
EXTENDS ModemWorker, TLAPS

-----------------------------------------------------------------------------
(***************************************************************************)
(* Sequences and states.                                                   *)
(***************************************************************************)

\* What the head and the tail of a queue are.
LEMMA TailFacts ==
    ASSUME NEW S, NEW q \in Seq(S), q # <<>>
    PROVE  /\ Head(q) \in S
           /\ Head(q) = q[1]
           /\ Tail(q) \in Seq(S)
           /\ Len(q) \in Nat /\ Len(q) > 0
           /\ Len(Tail(q)) = Len(q) - 1
           /\ \A i \in 1..Len(Tail(q)) : Tail(q)[i] = q[i + 1]
  OBVIOUS

\* What a queue with one more element is.
LEMMA AppendFacts ==
    ASSUME NEW S, NEW q \in Seq(S), NEW e \in S
    PROVE  /\ Append(q, e) \in Seq(S)
           /\ Len(q) \in Nat
           /\ Len(Append(q, e)) = Len(q) + 1
           /\ \A i \in 1..Len(q) : Append(q, e)[i] = q[i]
           /\ Append(q, e)[Len(q) + 1] = e
  OBVIOUS

\* The three shapes of a StateMachineState.
LEMMA StateCases ==
    ASSUME NEW s \in States
    PROVE  \/ s = Idle
           \/ s.exec \in Executions /\ s = Command(s.exec)
           \/ /\ s.exec \in Executions \cup {NoExecution}
              /\ s.kind \in Kinds /\ HasNextLine(s.kind)
              /\ s = Unsolicited(s.kind, s.exec)
  BY DEF States, Command, Unsolicited

LEMMA StateShapes ==
    /\ Idle \in States
    /\ \A e \in Executions : Command(e) \in States
    /\ \A k \in Kinds, e \in Executions \cup {NoExecution} :
         HasNextLine(k) => Unsolicited(k, e) \in States
  BY DEF States

-----------------------------------------------------------------------------
(***************************************************************************)
(* What the methods of the state machine do to the command being executed: *)
(* nothing, or they settle it.                                             *)
(***************************************************************************)
MachineType ==
    /\ state \in States
    /\ slot \in [Commands -> Slots]
    /\ caller \in [Commands -> CallerStates]
    /\ events \in Seq(WorkerEvents)
    /\ main_tx \in Outputs

Outcomes == {Ok(v) : v \in Values} \cup {Error, Dropped}

Keeps == Active' = Active /\ slot' = slot
Settles ==
    /\ Active \in Commands
    /\ Active' = NoCommand
    /\ \E r \in Outcomes : slot' = [slot EXCEPT ![Active] = Service!Outcome(Active, r)]

\* The active command of a state machine, by the shape of its state.
LEMMA ActiveCases ==
    ASSUME state \in States
    PROVE  \/ state = Idle /\ Active = NoCommand
           \/ /\ state.exec \in Executions
              /\ state = Command(state.exec)
              /\ Active \in Commands /\ Active # NoCommand
           \/ /\ state.kind \in Kinds /\ HasNextLine(state.kind)
              /\ state = Unsolicited(state.kind, state.exec)
              /\ \/ state.exec = NoExecution /\ Active = NoCommand
                 \/ state.exec \in Executions /\ Active \in Commands /\ Active # NoCommand
  BY StateCases, NoCommandAssumption
  DEF Active, Idle, NoExecution, Executions, Command, Unsolicited

\* Responding to a command is settling it.
LEMMA SettleOutcome ==
    ASSUME NEW c \in Commands, NEW r \in Outcomes, slot \in [Commands -> Slots]
    PROVE  /\ Settle(c, r) = [slot EXCEPT ![c] = Service!Outcome(c, r)]
           /\ Settle(c, r) \in [Commands -> Slots]
  BY DEF Settle, Service!Outcome, Outcomes, Slots, Responses

LEMMA FailActiveCommandEffect ==
    ASSUME MachineType, FailActiveCommand
    PROVE  /\ state' \in States
           /\ slot' \in [Commands -> Slots]
           /\ Active' = NoCommand
           /\ Keeps \/ Settles
           /\ \A c \in Commands : caller[c] = "Waiting" /\ slot[c] # Dropped => slot'[c] # Dropped
  <1>1. CASE Active = NoCommand
    BY <1>1 DEF MachineType, FailActiveCommand, Active, Keeps
  <1>2. CASE Active # NoCommand
    <2>1. Active \in Commands
      BY <1>2, ActiveCases DEF MachineType
    <2>2. state' = Idle /\ slot' = Settle(Active, Error)
      BY <1>2 DEF FailActiveCommand
    <2>3. Active' = NoCommand
      BY <2>2 DEF Active, Idle, NoExecution
    <2>4. Error \in Outcomes /\ Error # Dropped
      BY DEF Outcomes, Error, Dropped
    <2>5. Settles
      BY <2>1, <2>2, <2>3, <2>4, SettleOutcome DEF MachineType, Settles
    <2>6. \A c \in Commands : caller[c] = "Waiting" /\ slot[c] # Dropped => slot'[c] # Dropped
      BY <2>1, <2>2, <2>4 DEF MachineType, Settle
    <2>7. QED
      BY <2>1, <2>2, <2>3, <2>4, <2>5, <2>6, SettleOutcome, StateShapes DEF MachineType
  <1>3. QED
    BY <1>1, <1>2

LEMMA ResetToIdleEffect ==
    ASSUME MachineType, ResetToIdle
    PROVE  /\ state' = Idle /\ state' \in States
           /\ slot' \in [Commands -> Slots]
           /\ Active' = NoCommand
           /\ Keeps \/ Settles
           /\ Active = NoCommand => slot' = slot
  <1>1. state' = Idle /\ slot' = SlotsWithoutActive
    BY DEF ResetToIdle
  <1>2. Active' = NoCommand
    BY <1>1 DEF Active, Idle, NoExecution
  <1>3. CASE Active = NoCommand
    BY <1>1, <1>2, <1>3, StateShapes DEF SlotsWithoutActive, Keeps, MachineType
  <1>4. CASE Active # NoCommand
    <2>1. Active \in Commands
      BY <1>4, ActiveCases DEF MachineType
    <2>2. slot' = [slot EXCEPT ![Active] = Service!Outcome(Active, Dropped)]
      BY <1>1, <1>4 DEF SlotsWithoutActive, Service!Outcome
    <2>3. slot' \in [Commands -> Slots] /\ Settles
      BY <1>2, <2>1, <2>2 DEF Settles, Outcomes, Service!Outcome, MachineType, Slots
    <2>4. QED
      BY <1>1, <1>2, <1>4, <2>3, StateShapes
  <1>5. QED
    BY <1>3, <1>4

LEMMA HandleCommandTimeoutEffect ==
    ASSUME MachineType, HandleCommandTimeout
    PROVE  /\ state' \in States
           /\ slot' \in [Commands -> Slots]
           /\ Settles
           /\ \A c \in Commands : caller[c] = "Waiting" /\ slot[c] # Dropped => slot'[c] # Dropped
  <1>1. state.mode = "Command" /\ state' = Idle /\ slot' = Settle(Active, Error)
    BY DEF HandleCommandTimeout
  <1>2. Active \in Commands
    BY <1>1, ActiveCases DEF MachineType, Idle, Unsolicited
  <1>3. Active' = NoCommand
    BY <1>1 DEF Active, Idle, NoExecution
  <1>4. Error \in Outcomes /\ Error # Dropped
    BY DEF Outcomes, Error, Dropped
  <1>5. Settles
    BY <1>1, <1>2, <1>3, <1>4, SettleOutcome DEF MachineType, Settles
  <1>6. \A c \in Commands : caller[c] = "Waiting" /\ slot[c] # Dropped => slot'[c] # Dropped
    BY <1>1, <1>2, <1>4 DEF MachineType, Settle
  <1>7. QED
    BY <1>1, <1>2, <1>4, <1>5, <1>6, SettleOutcome, StateShapes DEF MachineType

LEMMA StartCommandEffect ==
    ASSUME MachineType, NEW c \in Commands, StartCommand(c)
    PROVE  /\ state' = Command(Execution(c)) /\ state' \in States
           /\ Active' = c
           /\ slot' = slot
           /\ events' = Append(events, WriteAT(c)) /\ events' \in Seq(WorkerEvents)
           /\ main_tx' \in Outputs
  <1>1. Execution(c) \in Executions
    BY RequestOfAssumption DEF Execution, Executions, Phases, FirstPhase
  <1>2. WriteAT(c) \in WorkerEvents
    BY DEF WorkerEvents
  <1>3. Command(Execution(c)).exec.cmd = c
    BY DEF Command, Execution
  <1>4. QED
    BY <1>1, <1>2, <1>3, StateShapes DEF StartCommand, MachineType, Active, Outputs

-----------------------------------------------------------------------------
(***************************************************************************)
(* One line from the modem.                                                *)
(***************************************************************************)
LineEffect ==
    /\ state' \in States
    /\ slot' \in [Commands -> Slots]
    /\ main_tx' \in Outputs
    /\ events' = events \/ \E e \in WorkerEvents :
                              e.type # "WriteAT" /\ events' = Append(events, e)
    /\ Keeps \/ Settles

LEMMA LineOfHeader ==
    ASSUME NEW line \in Lines, IsHeader(line)
    PROVE  line.of \in Kinds
  BY DEF Lines, IsHeader, ResultLines, Plain, PlainTypes, Result, Header

LEMMA HandleUnsolicitedEffect ==
    ASSUME MachineType, NEW kind \in Kinds, NEW line \in Lines, HandleUnsolicited(kind, line)
    PROVE  /\ main_tx' \in Outputs
           /\ events' = events \/ \E e \in WorkerEvents :
                                     e.type # "WriteAT" /\ events' = Append(events, e)
           /\ main_tx' = <<>> \/ main_tx' = <<Message(kind)>>
  <1>1. Message(kind) \in Messages
    BY DEF Messages
  <1>2. SetShuttingDown \in WorkerEvents /\ SetShuttingDown.type # "WriteAT"
    BY DEF WorkerEvents, SetShuttingDown
  <1>3. QED
    BY <1>1, <1>2 DEF HandleUnsolicited, Outputs

LEMMA UnsolicitedBodyEffect ==
    ASSUME MachineType, NEW line \in Lines, UnsolicitedBody(line)
    PROVE  LineEffect /\ Keeps
  <1>1. /\ state.kind \in Kinds
        /\ state.exec \in Executions \cup {NoExecution}
        /\ Active = state.exec.cmd
    BY ActiveCases DEF MachineType, UnsolicitedBody, Idle, Command, Active
  <1>2. state' = Resume(state.exec) /\ slot' = slot /\ HandleUnsolicited(state.kind, line)
    BY DEF UnsolicitedBody
  <1>3. state' \in States
    BY <1>1, <1>2, StateShapes DEF Resume
  <1>4. Active' = Active
    BY <1>1, <1>2 DEF Resume, Active, Idle, Command
  <1>5. QED
    BY <1>1, <1>2, <1>3, <1>4, HandleUnsolicitedEffect DEF LineEffect, Keeps, MachineType

LEMMA UnsolicitedStartEffect ==
    ASSUME MachineType, NEW line \in Lines, UnsolicitedStart(line)
    PROVE  LineEffect /\ Keeps
  <1>1. line.of \in Kinds
    BY LineOfHeader DEF UnsolicitedStart
  <1>2. state = Idle \/ (state.exec \in Executions /\ state = Command(state.exec))
    BY ActiveCases DEF MachineType, UnsolicitedStart, Unsolicited
  <1>3. state.exec \in Executions \cup {NoExecution}
    BY <1>2 DEF Idle
  <1>4. CASE HasNextLine(line.of)
    <2>1. /\ state' = Unsolicited(line.of, state.exec)
          /\ slot' = slot /\ events' = events /\ main_tx' = <<>>
      BY <1>4 DEF UnsolicitedStart
    <2>2. state' \in States
      BY <1>1, <1>3, <1>4, <2>1, StateShapes
    <2>3. Active' = Active
      BY <2>1 DEF Active, Unsolicited
    <2>4. QED
      BY <2>1, <2>2, <2>3 DEF LineEffect, Keeps, MachineType, Outputs
  <1>5. CASE ~HasNextLine(line.of)
    <2>1. HandleUnsolicited(line.of, line) /\ state' = state /\ slot' = slot
      BY <1>5 DEF UnsolicitedStart
    <2>2. Active' = Active
      BY <2>1 DEF Active
    <2>3. QED
      BY <1>1, <2>1, <2>2, HandleUnsolicitedEffect DEF LineEffect, Keeps, MachineType
  <1>6. QED
    BY <1>4, <1>5

LEMMA CommandMode ==
    ASSUME state \in States, state.mode = "Command"
    PROVE  /\ state.exec \in Executions
           /\ state = Command(state.exec)
           /\ Active \in Commands
           /\ Active = state.exec.cmd
  BY ActiveCases DEF Idle, Unsolicited, Active

LEMMA PromptDuringCommandEffect ==
    ASSUME MachineType, NEW line \in Lines, PromptDuringCommand(line)
    PROVE  LineEffect
  <1>1. state.mode = "Command" /\ main_tx' = <<>> /\ main_tx' \in Outputs
    BY DEF PromptDuringCommand, Outputs
  <1>2. /\ state.exec \in Executions
        /\ Active \in Commands
        /\ Active = state.exec.cmd
    BY <1>1, CommandMode DEF MachineType
  <1>3. CASE RequestOf[Active] = "SendSMS"
    <2> DEFINE e == [state.exec EXCEPT !.phase = "WaitingForOk"]
    <2>1. /\ state' = Command(e)
          /\ events' = Append(events, WritePDU(Active))
          /\ slot' = slot
      BY <1>3 DEF PromptDuringCommand
    <2>2. e \in Executions /\ e.cmd = Active
      BY <1>2 DEF Executions, Phases
    <2>3. state' \in States
      BY <2>1, <2>2, StateShapes
    <2>4. Active' = Active
      BY <2>1, <2>2 DEF Active, Command
    <2>5. WritePDU(Active) \in WorkerEvents /\ WritePDU(Active).type # "WriteAT"
      BY <1>2 DEF WorkerEvents, WritePDU
    <2>6. QED
      BY <1>1, <2>1, <2>3, <2>4, <2>5 DEF LineEffect, Keeps, MachineType
  <1>4. CASE RequestOf[Active] # "SendSMS"
    <2>1. state' = Idle /\ slot' = Settle(Active, Error) /\ events' = events
      BY <1>4 DEF PromptDuringCommand
    <2>2. Active' = NoCommand
      BY <2>1 DEF Active, Idle, NoExecution
    <2>3. Error \in Outcomes
      BY DEF Outcomes
    <2>4. Settles
      BY <1>2, <2>1, <2>2, <2>3, SettleOutcome DEF Settles, MachineType
    <2>5. QED
      BY <1>1, <1>2, <2>1, <2>3, <2>4, SettleOutcome, StateShapes DEF LineEffect, MachineType
  <1>5. QED
    BY <1>3, <1>4

LEMMA ResponseDuringCommandEffect ==
    ASSUME MachineType, NEW line \in Lines, ResponseDuringCommand(line)
    PROVE  LineEffect
  <1>1. /\ state.mode = "Command" /\ events' = events
        /\ main_tx' = <<>> /\ main_tx' \in Outputs
    BY DEF ResponseDuringCommand, Outputs
  <1>2. /\ state.exec \in Executions
        /\ Active \in Commands
        /\ Active = state.exec.cmd
    BY <1>1, CommandMode DEF MachineType
  <1>3. Found(line) \in Values \cup {Malformed, NoValue}
    BY <1>2 DEF Found, Executions, Lines, ResultLines, Plain, PlainTypes, Result, Header
  <1>4. CASE IsComplete(state.exec.phase, line)
    <2> DEFINE r == Answer(Found(line), line)
    <2>1. state' = Idle /\ slot' = Settle(Active, r)
      BY <1>4 DEF ResponseDuringCommand
    <2>2. r \in Outcomes
      BY DEF Answer, Outcomes
    <2>3. Active' = NoCommand
      BY <2>1 DEF Active, Idle, NoExecution
    <2>4. Settles
      BY <1>2, <2>1, <2>2, <2>3, SettleOutcome DEF Settles, MachineType
    <2>5. QED
      BY <1>1, <1>2, <2>1, <2>2, <2>4, SettleOutcome, StateShapes DEF LineEffect, MachineType
  <1>5. CASE ~IsComplete(state.exec.phase, line)
    <2> DEFINE e == [state.exec EXCEPT !.found = Found(line)]
    <2>1. state' = Command(e) /\ slot' = slot
      BY <1>5 DEF ResponseDuringCommand
    <2>2. e \in Executions /\ e.cmd = Active
      BY <1>2, <1>3 DEF Executions
    <2>3. state' \in States
      BY <2>1, <2>2, StateShapes
    <2>4. Active' = Active
      BY <2>1, <2>2 DEF Active, Command
    <2>5. QED
      BY <1>1, <2>1, <2>3, <2>4 DEF LineEffect, Keeps, MachineType
  <1>6. QED
    BY <1>4, <1>5

LEMMA IgnoredWhenIdleEffect ==
    ASSUME MachineType, NEW line \in Lines, IgnoredWhenIdle(line)
    PROVE  LineEffect /\ Keeps
  BY DEF MachineType, IgnoredWhenIdle, LineEffect, Keeps, Active, Outputs

LEMMA InvalidTransitionEffect ==
    ASSUME MachineType, NEW line \in Lines, InvalidTransition(line)
    PROVE  LineEffect
  <1>1. ResetToIdle /\ events' = events /\ main_tx' = <<>>
    BY DEF InvalidTransition, ResetToIdle
  <1>2. QED
    BY <1>1, ResetToIdleEffect DEF LineEffect, Outputs

LEMMA TransitionStateEffect ==
    ASSUME MachineType, NEW line \in Lines, TransitionState(line)
    PROVE  LineEffect
  BY UnsolicitedBodyEffect, UnsolicitedStartEffect, PromptDuringCommandEffect,
     ResponseDuringCommandEffect, IgnoredWhenIdleEffect, InvalidTransitionEffect
  DEF TransitionState

-----------------------------------------------------------------------------
(***************************************************************************)
(* Type correctness.                                                       *)
(***************************************************************************)
LEMMA TypeOfMachine ==
    ASSUME TypeOK PROVE MachineType
  BY DEF TypeOK, MachineType

LEMMA SetStatusType ==
    ASSUME status \in Statuses, NEW s \in Statuses, SetStatus(s)
    PROVE  status' \in Statuses /\ main_tx' \in Outputs
  BY DEF SetStatus, Outputs, Messages, StatusUpdate

LEMMA RejectHeadEffect ==
    ASSUME TypeOK, RejectHead
    PROVE  /\ Head(queue) \in Commands
           /\ slot' = [slot EXCEPT ![Head(queue)] = Service!Outcome(Head(queue), Error)]
           /\ slot' \in [Commands -> Slots]
           /\ queue' \in Seq(Commands) /\ Len(queue') <= Capacity
           /\ main_tx' \in Outputs
  <1>1. queue \in Seq(Commands) /\ queue # <<>> /\ Len(queue) <= Capacity
    BY DEF TypeOK, RejectHead
  <1>2. /\ Head(queue) \in Commands
        /\ Tail(queue) \in Seq(Commands)
        /\ Len(queue) \in Nat /\ Len(Tail(queue)) = Len(queue) - 1
    BY <1>1, TailFacts
  <1>3. Error \in Outcomes
    BY DEF Outcomes
  <1>4. slot' = Settle(Head(queue), Error) /\ queue' = Tail(queue) /\ main_tx' = <<>>
    BY DEF RejectHead
  <1>5. QED
    BY <1>1, <1>2, <1>3, <1>4, SettleOutcome, CapacityAssumption DEF TypeOK, Outputs

LEMMA TypeInit == Init => TypeOK
  <1> SUFFICES ASSUME Init PROVE TypeOK
    OBVIOUS
  <1>1. state \in States
    BY StateShapes DEF Init
  <1>2. slot \in [Commands -> Slots]
    BY DEF Init, Slots
  <1>3. caller \in [Commands -> CallerStates]
    BY DEF Init, CallerStates
  <1>4. queue \in Seq(Commands) /\ Len(queue) <= Capacity
    BY CapacityAssumption DEF Init
  <1>5. lines \in 0..MaxLines
    BY MaxLinesAssumption DEF Init
  <1>6. events \in Seq(WorkerEvents) /\ main_tx \in Outputs
    BY DEF Init, Outputs
  <1>7. QED
    BY <1>1, <1>2, <1>3, <1>4, <1>5, <1>6 DEF Init, TypeOK, Statuses, ProgramCounters

LEMMA TypeNext == TypeOK /\ [Next]_vars => TypeOK'
  <1> SUFFICES ASSUME TypeOK, [Next]_vars PROVE TypeOK'
    OBVIOUS
  <1> USE TypeOfMachine DEF machine
  <1>1. ASSUME NEW c \in Commands, SendRequest(c) PROVE TypeOK'
    <2>1. CASE Len(queue) < Capacity
      <3>1. /\ Append(queue, c) \in Seq(Commands)
            /\ Len(queue) \in Nat /\ Len(Append(queue, c)) = Len(queue) + 1
        BY AppendFacts DEF TypeOK
      <3>2. Len(Append(queue, c)) <= Capacity
        BY <2>1, <3>1, CapacityAssumption
      <3>3. QED
        BY <1>1, <2>1, <3>1, <3>2 DEF SendRequest, TypeOK, CallerStates, Outputs
    <2>2. CASE ~(Len(queue) < Capacity)
      BY <1>1, <2>2 DEF SendRequest, TypeOK, CallerStates, Outputs
    <2>3. QED
      BY <2>1, <2>2
  <1>2. ASSUME NEW c \in Commands, ReceiveResponse(c) PROVE TypeOK'
    BY <1>2 DEF ReceiveResponse, TypeOK, CallerStates, Outputs
  <1>3. ASSUME NEW c \in Commands, GiveUp(c) PROVE TypeOK'
    BY <1>3 DEF GiveUp, TypeOK, CallerStates, Outputs
  <1>4. CASE Initialize
    <2>1. PICK s \in Statuses : SetStatus(s)
      BY <1>4 DEF Initialize, Statuses
    <2>2. QED
      BY <1>4, <2>1, SetStatusType DEF Initialize, TypeOK, ProgramCounters
  <1>5. CASE HandleWorkerEvent
    <2>1. Tail(events) \in Seq(WorkerEvents)
      BY <1>5, TailFacts DEF HandleWorkerEvent, TypeOK
    <2>2. CASE SetStatusEvent
      BY <1>5, <2>1, <2>2, SetStatusType
      DEF HandleWorkerEvent, SetStatusEvent, NextArm, TypeOK, ProgramCounters, Statuses
    <2>3. CASE WriteEvent
      BY <1>5, <2>1, <2>3 DEF HandleWorkerEvent, WriteEvent, TypeOK, Outputs
    <2>4. CASE WriteFailed
      <3>1. FailActiveCommand /\ SetStatus("Offline") /\ "Offline" \in Statuses
        BY <2>4 DEF WriteFailed, Statuses
      <3>2. status' \in Statuses /\ main_tx' \in Outputs
        BY <3>1, SetStatusType DEF TypeOK
      <3>3. state' \in States /\ slot' \in [Commands -> Slots]
        BY <3>1, FailActiveCommandEffect
      <3>4. QED
        BY <1>5, <2>1, <2>4, <3>2, <3>3 DEF HandleWorkerEvent, WriteFailed, TypeOK
    <2>5. QED
      BY <1>5, <2>2, <2>3, <2>4 DEF HandleWorkerEvent
  <1>6. CASE StartNext
    <2>1. queue \in Seq(Commands) /\ queue # <<>>
      BY <1>6 DEF StartNext, TypeOK
    <2>2. /\ Head(queue) \in Commands /\ Tail(queue) \in Seq(Commands)
          /\ Len(queue) \in Nat /\ Len(Tail(queue)) = Len(queue) - 1
      BY <2>1, TailFacts
    <2>3. StartCommand(Head(queue))
      BY <1>6 DEF StartNext
    <2>4. QED
      BY <1>6, <2>2, <2>3, StartCommandEffect, CapacityAssumption DEF StartNext, TypeOK
  <1>7. CASE CommandTimeout
    <2>1. HandleCommandTimeout
      BY <1>7 DEF CommandTimeout
    <2>2. state' \in States /\ slot' \in [Commands -> Slots] /\ events' = events
      BY <2>1, HandleCommandTimeoutEffect DEF HandleCommandTimeout
    <2>3. QED
      BY <1>7, <2>2 DEF CommandTimeout, TypeOK, Outputs
  <1>8. CASE FailActiveOnShutdown
    BY <1>8, FailActiveCommandEffect DEF FailActiveOnShutdown, TypeOK, Outputs, ProgramCounters
  <1>9. CASE RejectOnShutdown \/ RejectWhenOffline
    BY <1>9, RejectHeadEffect DEF RejectOnShutdown, RejectWhenOffline, RejectHead, TypeOK
  <1>10. CASE QueueRejected
    BY <1>10 DEF QueueRejected, TypeOK, Outputs, ProgramCounters
  <1>11. CASE GoOffline
    <2>1. SetStatus("Offline") /\ "Offline" \in Statuses /\ ResetToIdle
      BY <1>11 DEF GoOffline, Statuses
    <2>2. status' \in Statuses /\ main_tx' \in Outputs
      BY <2>1, SetStatusType DEF TypeOK
    <2>3. QED
      BY <1>11, <2>1, <2>2, ResetToIdleEffect DEF GoOffline, TypeOK, ProgramCounters
  <1>12. CASE Reconnect
    <2>1. SetStatus("Online") /\ "Online" \in Statuses /\ ResetToIdle
      BY <1>12 DEF Reconnect, Statuses
    <2>2. status' \in Statuses /\ main_tx' \in Outputs
      BY <2>1, SetStatusType DEF TypeOK
    <2>3. QED
      BY <1>12, <2>1, <2>2, ResetToIdleEffect DEF Reconnect, TypeOK
  <1>13. CASE ReadPort
    BY <1>13 DEF ReadPort, TypeOK, Outputs
  <1>14. CASE PortFailed
    <2>1. FailActiveCommand /\ SetStatus("Offline") /\ "Offline" \in Statuses
      BY <1>14 DEF PortFailed, Statuses
    <2>2. status' \in Statuses /\ main_tx' \in Outputs
      BY <2>1, SetStatusType DEF TypeOK
    <2>3. state' \in States /\ slot' \in [Commands -> Slots]
      BY <2>1, FailActiveCommandEffect
    <2>4. QED
      BY <1>14, <2>2, <2>3 DEF PortFailed, TypeOK
  <1>15. ASSUME NEW line \in Lines, ProcessLine(line) PROVE TypeOK'
    <2>1. LineEffect
      BY <1>15, TransitionStateEffect DEF ProcessLine
    <2>2. events' \in Seq(WorkerEvents)
      <3>1. CASE events' = events
        BY <3>1 DEF TypeOK
      <3>2. ASSUME NEW e \in WorkerEvents, events' = Append(events, e)
            PROVE  events' \in Seq(WorkerEvents)
        BY <3>2, AppendFacts DEF TypeOK
      <3>3. QED
        BY <2>1, <3>1, <3>2 DEF LineEffect
    <2>3. lines' \in 0..MaxLines
      BY <1>15, MaxLinesAssumption DEF ProcessLine, TypeOK
    <2>4. QED
      BY <1>15, <2>1, <2>2, <2>3 DEF ProcessLine, LineEffect, TypeOK
  <1>16. CASE UNCHANGED vars
    BY <1>16 DEF vars, TypeOK
  <1>17. QED
    BY <1>1, <1>2, <1>3, <1>4, <1>5, <1>6, <1>7, <1>8, <1>9, <1>10, <1>11, <1>12,
       <1>13, <1>14, <1>15, <1>16
    DEF Next, Callers, Modem, Worker

\* Type correctness of the worker: every variable keeps its type, and no more
\* commands than cmd_channel_buffer_size wait in the command channel.
THEOREM TypeCorrect == Spec => []TypeOK
  <1>1. QED
    BY TypeInit, TypeNext, PTL DEF Spec

-----------------------------------------------------------------------------
(***************************************************************************)
(* The loop, and where a command may be active.                            *)
(***************************************************************************)
LEMMA LoopControlNext == TypeOK /\ LoopControl /\ [Next]_vars => LoopControl'
  <1> SUFFICES ASSUME TypeOK, LoopControl, [Next]_vars PROVE LoopControl'
    OBVIOUS
  <1> USE DEF LoopControl
  <1>1. CASE Callers
    BY <1>1 DEF Callers, SendRequest, ReceiveResponse, GiveUp
  <1>2. CASE Initialize
    BY <1>2 DEF Initialize, SetStatus
  <1>3. CASE HandleWorkerEvent
    <2>1. lines = 0 /\ lines' = 0 /\ pc \in {"select", "drain"}
      BY <1>3 DEF HandleWorkerEvent
    <2>2. CASE SetStatusEvent
      BY <2>1, <2>2 DEF SetStatusEvent, SetStatus, NextArm
    <2>3. CASE WriteEvent
      BY <2>1, <2>3 DEF WriteEvent
    <2>4. CASE WriteFailed
      BY <2>1, <2>4 DEF WriteFailed, SetStatus
    <2>5. QED
      BY <1>3, <2>2, <2>3, <2>4 DEF HandleWorkerEvent
  <1>4. CASE StartNext \/ CommandTimeout
    BY <1>4 DEF StartNext, CommandTimeout
  <1>5. CASE FailActiveOnShutdown \/ RejectOnShutdown \/ QueueRejected
    BY <1>5 DEF FailActiveOnShutdown, RejectOnShutdown, QueueRejected, RejectHead
  <1>6. CASE GoOffline
    BY <1>6 DEF GoOffline, SetStatus
  <1>7. CASE RejectWhenOffline
    BY <1>7 DEF RejectWhenOffline, RejectHead
  <1>8. CASE Reconnect
    BY <1>8 DEF Reconnect, Selecting, SetStatus
  <1>9. CASE ReadPort
    BY <1>9 DEF ReadPort, PortTurn, Selecting
  <1>10. CASE PortFailed
    BY <1>10 DEF PortFailed, PortTurn, Selecting, SetStatus
  <1>11. ASSUME NEW line \in Lines, ProcessLine(line) PROVE LoopControl'
    BY <1>11 DEF ProcessLine
  <1>12. CASE UNCHANGED vars
    BY <1>12 DEF vars
  <1>13. QED
    BY <1>1, <1>2, <1>3, <1>4, <1>5, <1>6, <1>7, <1>8, <1>9, <1>10, <1>11, <1>12
    DEF Next, Modem, Worker

LEMMA ExecutesOnlyOnlineNext ==
    TypeOK /\ LoopControl /\ ExecutesOnlyOnline /\ [Next]_vars => ExecutesOnlyOnline'
  <1> SUFFICES ASSUME TypeOK, LoopControl, ExecutesOnlyOnline, [Next]_vars
               PROVE  ExecutesOnlyOnline'
    OBVIOUS
  <1> USE TypeOfMachine
  <1>1. ASSUME Active' = NoCommand PROVE ExecutesOnlyOnline'
    BY <1>1 DEF ExecutesOnlyOnline
  <1>2. ASSUME state' = state, status' = status, pc' = pc PROVE ExecutesOnlyOnline'
    BY <1>2 DEF ExecutesOnlyOnline, Active
  <1>3. CASE Callers
    BY <1>2, <1>3 DEF Callers, SendRequest, ReceiveResponse, GiveUp, machine
  <1>4. CASE Initialize
    <2>1. status = "Startup" /\ state' = state
      BY <1>4 DEF Initialize, LoopControl, machine
    <2>2. QED
      BY <1>1, <2>1 DEF ExecutesOnlyOnline, Active
  <1>5. CASE HandleWorkerEvent
    <2>1. CASE SetStatusEvent
      BY <1>5, <2>1
      DEF HandleWorkerEvent, SetStatusEvent, SetStatus, NextArm, ExecutesOnlyOnline,
          Active, LoopControl
    <2>2. CASE WriteEvent
      BY <1>2, <2>2 DEF WriteEvent
    <2>3. CASE WriteFailed
      BY <1>1, <2>3, FailActiveCommandEffect DEF WriteFailed
    <2>4. QED
      BY <1>5, <2>1, <2>2, <2>3 DEF HandleWorkerEvent
  <1>6. CASE StartNext
    BY <1>6 DEF StartNext, Selecting, ExecutesOnlyOnline
  <1>7. CASE CommandTimeout
    BY <1>1, <1>7, HandleCommandTimeoutEffect DEF CommandTimeout, Settles
  <1>8. CASE FailActiveOnShutdown
    BY <1>1, <1>8, FailActiveCommandEffect DEF FailActiveOnShutdown
  <1>9. CASE RejectOnShutdown \/ RejectWhenOffline \/ QueueRejected
    <2>1. state' = state /\ status' = status /\ pc # "drain"
      BY <1>9 DEF RejectOnShutdown, RejectWhenOffline, QueueRejected, RejectHead,
                  Selecting, machine
    <2>2. QED
      BY <2>1 DEF ExecutesOnlyOnline, Active
  <1>10. CASE GoOffline \/ Reconnect
    BY <1>1, <1>10, ResetToIdleEffect DEF GoOffline, Reconnect
  <1>11. CASE ReadPort
    BY <1>2, <1>11 DEF ReadPort, machine
  <1>12. CASE PortFailed
    BY <1>1, <1>12, FailActiveCommandEffect DEF PortFailed
  <1>13. ASSUME NEW line \in Lines, ProcessLine(line) PROVE ExecutesOnlyOnline'
    BY <1>13 DEF ProcessLine, LoopControl, ExecutesOnlyOnline, TypeOK
  <1>14. CASE UNCHANGED vars
    BY <1>2, <1>14 DEF vars
  <1>15. QED
    BY <1>3, <1>4, <1>5, <1>6, <1>7, <1>8, <1>9, <1>10, <1>11, <1>12, <1>13, <1>14
    DEF Next, Modem, Worker

Control == TypeOK /\ LoopControl /\ ExecutesOnlyOnline

\* A command is executed only online, or until the shutdown that follows has
\* failed it: going offline and coming back never finds one to drop.
THEOREM ControlInvariant == Spec => [](LoopControl /\ ExecutesOnlyOnline)
  <1>1. Init => LoopControl /\ ExecutesOnlyOnline
    BY DEF Init, LoopControl, ExecutesOnlyOnline, Active, Idle, NoExecution
  <1>2. Control /\ [Next]_vars => Control'
    BY TypeNext, LoopControlNext, ExecutesOnlyOnlineNext DEF Control
  <1>3. Init => Control
    BY <1>1, TypeInit DEF Control
  <1>4. Control => LoopControl /\ ExecutesOnlyOnline
    BY DEF Control
  <1>5. QED
    BY <1>2, <1>3, <1>4, PTL DEF Spec

\* The step of the loop and the status agree: lines are processed online only,
\* and no step of a shutdown is.
THEOREM LoopStaysInControl == Spec => []LoopControl
  BY ControlInvariant, PTL

-----------------------------------------------------------------------------
(***************************************************************************)
(* The worker implements CommandService.                                   *)
(***************************************************************************)
ServiceStep == [Service!Next]_(Service!vars)

LEMMA MachineStepRefines ==
    ASSUME Keeps \/ Settles, queue' = queue, caller' = caller
    PROVE  ServiceStep
  <1>1. CASE Keeps
    BY <1>1 DEF Keeps, ServiceStep, Service!vars
  <1>2. CASE Settles
    <2>1. Active # NoCommand
      BY <1>2, NoCommandAssumption DEF Settles
    <2>2. PICK r \in Outcomes : slot' = [slot EXCEPT ![Active] = Service!Outcome(Active, r)]
      BY <1>2 DEF Settles
    <2>3. r \in {Ok(v) : v \in Values} \cup {Error, Dropped}
      BY DEF Outcomes
    <2>4. Service!Finish
      BY <1>2, <2>1, <2>2, <2>3 DEF Settles, Service!Finish
    <2>5. QED
      BY <2>4 DEF ServiceStep, Service!Next
  <1>3. QED
    BY <1>1, <1>2

LEMMA RejectRefines ==
    ASSUME TypeOK, Active = NoCommand, RejectHead
    PROVE  ServiceStep
  <1>1. slot' = [slot EXCEPT ![Head(queue)] = Service!Outcome(Head(queue), Error)]
    BY RejectHeadEffect
  <1>2. queue # <<>> /\ queue' = Tail(queue) /\ Active' = Active /\ caller' = caller
    BY DEF RejectHead, Active
  <1>3. Service!Reject
    BY <1>1, <1>2 DEF Service!Reject
  <1>4. QED
    BY <1>3 DEF ServiceStep, Service!Next

LEMMA StepRefines == Control /\ [Next]_vars => ServiceStep
  <1> SUFFICES ASSUME Control, [Next]_vars PROVE ServiceStep
    OBVIOUS
  <1> USE TypeOfMachine
  <1>0. TypeOK /\ LoopControl /\ ExecutesOnlyOnline
    BY DEF Control
  <1>1. ASSUME state' = state, slot' = slot, queue' = queue, caller' = caller
        PROVE  ServiceStep
    BY <1>1 DEF ServiceStep, Service!vars, Active
  <1>2. ASSUME NEW c \in Commands, SendRequest(c) PROVE ServiceStep
    <2>1. Active' = Active /\ slot' = slot
      BY <1>2 DEF SendRequest, machine, Active
    <2>2. CASE Len(queue) < Capacity
      <3>1. Service!Accept(c)
        BY <1>2, <2>1, <2>2 DEF SendRequest, Service!Accept
      <3>2. QED
        BY <3>1 DEF ServiceStep, Service!Next
    <2>3. CASE ~(Len(queue) < Capacity)
      <3>1. Len(queue) = Capacity
        BY <1>0, <2>3, CapacityAssumption DEF TypeOK
      <3>2. Service!Refuse(c)
        BY <1>2, <2>1, <2>3, <3>1 DEF SendRequest, Service!Refuse
      <3>3. QED
        BY <3>2 DEF ServiceStep, Service!Next
    <2>4. QED
      BY <2>2, <2>3
  <1>3. ASSUME NEW c \in Commands, ReceiveResponse(c) PROVE ServiceStep
    <2>1. Service!Take(c)
      BY <1>3 DEF ReceiveResponse, Service!Take, machine, Active
    <2>2. QED
      BY <2>1 DEF ServiceStep, Service!Next
  <1>4. ASSUME NEW c \in Commands, GiveUp(c) PROVE ServiceStep
    <2>1. Service!Leave(c)
      BY <1>4 DEF GiveUp, Service!Leave, machine, Active
    <2>2. QED
      BY <2>1 DEF ServiceStep, Service!Next
  <1>5. CASE Initialize \/ QueueRejected \/ ReadPort
    BY <1>1, <1>5 DEF Initialize, QueueRejected, ReadPort, machine
  <1>6. CASE HandleWorkerEvent
    <2>1. queue' = queue /\ caller' = caller
      BY <1>6 DEF HandleWorkerEvent
    <2>2. CASE SetStatusEvent \/ WriteEvent
      BY <1>1, <2>1, <2>2 DEF SetStatusEvent, WriteEvent
    <2>3. CASE WriteFailed
      BY <1>0, <2>1, <2>3, FailActiveCommandEffect, MachineStepRefines DEF WriteFailed
    <2>4. QED
      BY <1>6, <2>2, <2>3 DEF HandleWorkerEvent
  <1>7. CASE StartNext
    <2>1. /\ queue # <<>> /\ queue' = Tail(queue) /\ caller' = caller
          /\ state = Idle /\ StartCommand(Head(queue))
      BY <1>7 DEF StartNext, CanAcceptCommand
    <2>2. Head(queue) \in Commands
      BY <1>0, <2>1, TailFacts DEF TypeOK
    <2>3. Active = NoCommand /\ Active' = Head(queue) /\ slot' = slot
      BY <1>0, <2>1, <2>2, StartCommandEffect DEF Active, Idle, NoExecution
    <2>4. Service!Begin
      BY <2>1, <2>3 DEF Service!Begin
    <2>5. QED
      BY <2>4 DEF ServiceStep, Service!Next
  <1>8. CASE CommandTimeout
    BY <1>0, <1>8, HandleCommandTimeoutEffect, MachineStepRefines DEF CommandTimeout
  <1>9. CASE FailActiveOnShutdown
    BY <1>0, <1>9, FailActiveCommandEffect, MachineStepRefines DEF FailActiveOnShutdown
  <1>10. CASE RejectOnShutdown \/ RejectWhenOffline
    <2>1. RejectHead /\ status # "Online" /\ pc # "drain"
      BY <1>0, <1>10 DEF RejectOnShutdown, RejectWhenOffline, Selecting, LoopControl
    <2>2. Active = NoCommand
      BY <1>0, <2>1 DEF ExecutesOnlyOnline
    <2>3. QED
      BY <1>0, <2>1, <2>2, RejectRefines
  <1>11. CASE GoOffline \/ Reconnect
    BY <1>0, <1>11, ResetToIdleEffect, MachineStepRefines DEF GoOffline, Reconnect
  <1>12. CASE PortFailed
    BY <1>0, <1>12, FailActiveCommandEffect, MachineStepRefines DEF PortFailed
  <1>13. ASSUME NEW line \in Lines, ProcessLine(line) PROVE ServiceStep
    BY <1>0, <1>13, TransitionStateEffect, MachineStepRefines DEF ProcessLine, LineEffect
  <1>14. CASE UNCHANGED vars
    BY <1>1, <1>14 DEF vars
  <1>15. QED
    BY <1>2, <1>3, <1>4, <1>5, <1>6, <1>7, <1>8, <1>9, <1>10, <1>11, <1>12, <1>13, <1>14
    DEF Next, Callers, Modem, Worker

\* The worker executes one command at a time, in the order in which send_request
\* queued them, settles each at most once, and never settles one command while
\* another is executed: every behaviour of the worker is one of CommandService.
THEOREM ImplementsService == Spec => ServiceSpec
  <1>1. Init => Service!Init
    BY DEF Init, Service!Init, Active, Idle, NoExecution
  <1>2. Control /\ [Next]_vars => [Service!Next]_(Service!vars)
    BY StepRefines DEF ServiceStep
  <1>3. Spec => []Control
    BY TypeCorrect, ControlInvariant, PTL DEF Control
  <1>4. QED
    BY <1>1, <1>2, <1>3, PTL DEF Spec, ServiceSpec, Service!Spec

-----------------------------------------------------------------------------
(***************************************************************************)
(* No accepted command is lost or held twice.                              *)
(***************************************************************************)
Distinct(q) == \A i, j \in 1..Len(q) : q[i] = q[j] => i = j
Holds(q, c) == \E i \in 1..Len(q) : q[i] = c

LEMMA DistinctAppend ==
    ASSUME NEW S, NEW q \in Seq(S), NEW e \in S, Distinct(q), ~Holds(q, e)
    PROVE  /\ Distinct(Append(q, e))
           /\ \A c : Holds(Append(q, e), c) <=> Holds(q, c) \/ c = e
  <1> DEFINE a == Append(q, e)
  <1>1. /\ Len(q) \in Nat /\ Len(a) = Len(q) + 1
        /\ \A i \in 1..Len(q) : a[i] = q[i]
        /\ a[Len(q) + 1] = e
    BY AppendFacts
  <1>2. 1..Len(a) = 1..Len(q) \cup {Len(q) + 1}
    BY <1>1
  <1> HIDE DEF a
  <1>3. \A c : Holds(a, c) <=> Holds(q, c) \/ c = e
    BY <1>1, <1>2 DEF Holds
  <1>4. Distinct(a)
    BY <1>1, <1>2 DEF Distinct, Holds
  <1>5. QED
    BY <1>3, <1>4 DEF a

LEMMA DistinctTail ==
    ASSUME NEW S, NEW q \in Seq(S), q # <<>>, Distinct(q)
    PROVE  /\ Distinct(Tail(q))
           /\ \A c : Holds(Tail(q), c) <=> Holds(q, c) /\ c # Head(q)
           /\ Holds(q, Head(q))
  <1> DEFINE t == Tail(q)
  <1>1. /\ Head(q) = q[1]
        /\ Len(q) \in Nat /\ Len(q) > 0
        /\ Len(t) = Len(q) - 1
        /\ \A i \in 1..Len(t) : t[i] = q[i + 1]
    BY TailFacts
  <1> HIDE DEF t
  <1>2. \A i \in 1..Len(q) : i = 1 \/ i - 1 \in 1..Len(t)
    BY <1>1
  <1>3. \A i \in 1..Len(t) : i + 1 \in 1..Len(q) /\ i + 1 # 1
    BY <1>1
  <1>4. Distinct(t)
    BY <1>1, <1>3 DEF Distinct
  <1>5. Holds(q, Head(q))
    BY <1>1 DEF Holds
  <1>6. ASSUME NEW c, Holds(t, c) PROVE Holds(q, c) /\ c # Head(q)
    <2>1. PICK i \in 1..Len(t) : t[i] = c
      BY <1>6 DEF Holds
    <2>2. q[i + 1] = c /\ i + 1 \in 1..Len(q) /\ i + 1 # 1 /\ 1 \in 1..Len(q)
      BY <1>1, <1>3, <2>1
    <2>3. QED
      BY <1>1, <2>2 DEF Holds, Distinct
  <1>7. ASSUME NEW c, Holds(q, c), c # Head(q) PROVE Holds(t, c)
    <2>1. PICK i \in 1..Len(q) : q[i] = c
      BY <1>7 DEF Holds
    <2>2. i - 1 \in 1..Len(t)
      BY <1>1, <1>2, <1>7, <2>1
    <2>3. t[i - 1] = c
      BY <1>1, <2>1, <2>2
    <2>4. QED
      BY <2>2, <2>3 DEF Holds
  <1>8. QED
    BY <1>4, <1>5, <1>6, <1>7 DEF t

\* The invariant, command by command.
Conserved(c) ==
    /\ ~(Holds(queue, c) /\ Active = c)
    /\ (Holds(queue, c) \/ Active = c)
          <=> (caller[c] \in {"Waiting", "TimedOut"} /\ slot[c] = Empty)
    /\ caller[c] \in {"New", "Refused"} => slot[c] = Empty

LEMMA ConservationByCommand ==
    CommandConservation <=> Distinct(queue) /\ \A c \in Commands : Conserved(c)
  BY DEF CommandConservation, Conserved, Distinct, Holds, Queued

LEMMA OutcomeNotEmpty ==
    ASSUME NEW c, NEW r \in Outcomes PROVE Service!Outcome(c, r) # Empty
  BY DEF Outcomes, Service!Outcome, Ok, Error, Dropped, Empty

LEMMA ConservationNext ==
    TypeOK /\ CommandConservation /\ ServiceStep => CommandConservation'
  <1> SUFFICES ASSUME TypeOK, Distinct(queue), \A c \in Commands : Conserved(c), ServiceStep
               PROVE  Distinct(queue)' /\ \A c \in Commands : Conserved(c)'
    <2>1. CommandConservation' <=> Distinct(queue)' /\ \A c \in Commands : Conserved(c)'
      BY DEF CommandConservation, Conserved, Distinct, Holds, Queued
    <2>2. QED
      BY <2>1, ConservationByCommand
  <1>0. /\ queue \in Seq(Commands)
        /\ slot \in [Commands -> Slots]
        /\ caller \in [Commands -> CallerStates]
    BY DEF TypeOK
  <1>1. ASSUME NEW c \in Commands, Service!Accept(c)
        PROVE  Distinct(queue)' /\ \A d \in Commands : Conserved(d)'
    <2>1. ~Holds(queue, c) /\ Active # c
      BY <1>1 DEF Service!Accept, Conserved
    <2>2. /\ Distinct(queue')
          /\ \A d : Holds(queue', d) <=> Holds(queue, d) \/ d = c
      BY <1>0, <1>1, <2>1, DistinctAppend DEF Service!Accept
    <2>3. \A d \in Commands : Conserved(d)'
      BY <1>0, <1>1, <2>1, <2>2 DEF Service!Accept, Conserved
    <2>4. QED
      BY <2>2, <2>3
  <1>2. ASSUME NEW c \in Commands, Service!Refuse(c) \/ Service!Take(c) \/ Service!Leave(c)
        PROVE  Distinct(queue)' /\ \A d \in Commands : Conserved(d)'
    BY <1>0, <1>2 DEF Service!Refuse, Service!Take, Service!Leave, Conserved
  <1>3. CASE Service!Begin
    <2>1. queue # <<>> /\ queue' = Tail(queue) /\ Active' = Head(queue)
      BY <1>3 DEF Service!Begin
    <2>2. /\ Distinct(queue')
          /\ \A d : Holds(queue', d) <=> Holds(queue, d) /\ d # Head(queue)
          /\ Holds(queue, Head(queue))
      BY <1>0, <2>1, DistinctTail
    <2>3. \A d \in Commands : Conserved(d)'
      BY <1>3, <2>1, <2>2, NoCommandAssumption DEF Service!Begin, Conserved
    <2>4. QED
      BY <2>2, <2>3
  <1>4. CASE Service!Finish
    <2>1. PICK r \in Outcomes : slot' = [slot EXCEPT ![Active] = Service!Outcome(Active, r)]
      BY <1>4 DEF Service!Finish, Outcomes
    <2>2. \A d \in Commands : Conserved(d)'
      BY <1>0, <1>4, <2>1, OutcomeNotEmpty, NoCommandAssumption DEF Service!Finish, Conserved
    <2>3. QED
      BY <1>4, <2>2 DEF Service!Finish
  <1>5. CASE Service!Reject
    <2>1. /\ queue # <<>> /\ queue' = Tail(queue) /\ caller' = caller
          /\ Active = NoCommand /\ Active' = NoCommand
          /\ slot' = [slot EXCEPT ![Head(queue)] = Service!Outcome(Head(queue), Error)]
      BY <1>5 DEF Service!Reject
    <2>2. /\ Distinct(queue')
          /\ \A d : Holds(queue', d) <=> Holds(queue, d) /\ d # Head(queue)
          /\ Holds(queue, Head(queue))
      BY <1>0, <2>1, DistinctTail
    <2>3. Service!Outcome(Head(queue), Error) # Empty
      BY OutcomeNotEmpty DEF Outcomes
    <2>4. \A d \in Commands : Conserved(d)'
      BY <1>0, <2>1, <2>2, <2>3, NoCommandAssumption DEF Conserved
    <2>5. QED
      BY <2>2, <2>4
  <1>6. CASE UNCHANGED Service!vars
    BY <1>6 DEF Service!vars, Conserved
  <1>7. QED
    BY <1>1, <1>2, <1>3, <1>4, <1>5, <1>6 DEF ServiceStep, Service!Next

\* No accepted command is lost or held twice, whatever timeouts, shutdowns,
\* outages and reconnections happen.
THEOREM Conservation == Spec => []CommandConservation
  <1>1. Init => CommandConservation
    <2>1. Init => Distinct(queue) /\ \A c \in Commands : Conserved(c)
      BY NoCommandAssumption
      DEF Init, Distinct, Holds, Conserved, Active, Idle, NoExecution
    <2>2. QED
      BY <2>1, ConservationByCommand
  <1>2. Control /\ CommandConservation /\ [Next]_vars => CommandConservation'
    BY StepRefines, ConservationNext DEF Control
  <1>3. Spec => []Control
    BY TypeCorrect, ControlInvariant, PTL DEF Control
  <1>4. QED
    BY <1>1, <1>2, <1>3, PTL DEF Spec

-----------------------------------------------------------------------------
(***************************************************************************)
(* A command is written before a line can answer it.                       *)
(***************************************************************************)
NothingToSend(es) == \A i \in 1..Len(es) : es[i].type # "WriteAT"

LEMMA TailSendsNothing ==
    ASSUME TypeOK, WriteBeforeAnyAnswer, events # <<>>
    PROVE  NothingToSend(Tail(events))
  <1>1. /\ Len(events) \in Nat /\ Len(Tail(events)) = Len(events) - 1
        /\ \A i \in 1..Len(Tail(events)) : Tail(events)[i] = events[i + 1]
    BY TailFacts DEF TypeOK
  <1> SUFFICES ASSUME NEW i \in 1..Len(Tail(events)), Tail(events)[i].type = "WriteAT"
               PROVE  FALSE
    BY DEF NothingToSend
  <1>2. i + 1 \in 1..Len(events) /\ events[i + 1].type = "WriteAT" /\ Len(events) > 1
    BY <1>1
  <1>3. events = <<WriteAT(events[i + 1].cmd)>>
    BY <1>2 DEF WriteBeforeAnyAnswer
  <1>4. Len(events) = 1
    BY <1>3
  <1>5. QED
    BY <1>2, <1>4

LEMMA AppendSendsNothing ==
    ASSUME events \in Seq(WorkerEvents), NothingToSend(events),
           NEW e \in WorkerEvents, e.type # "WriteAT"
    PROVE  NothingToSend(Append(events, e))
  <1>1. /\ Len(events) \in Nat /\ Len(Append(events, e)) = Len(events) + 1
        /\ \A i \in 1..Len(events) : Append(events, e)[i] = events[i]
        /\ Append(events, e)[Len(events) + 1] = e
    BY AppendFacts
  <1>2. \A i \in 1..Len(Append(events, e)) : i \in 1..Len(events) \/ i = Len(events) + 1
    BY <1>1
  <1>3. QED
    BY <1>1, <1>2 DEF NothingToSend

LEMMA WriteBeforeAnyAnswerNext ==
    Control /\ WriteBeforeAnyAnswer /\ [Next]_vars => WriteBeforeAnyAnswer'
  <1> SUFFICES ASSUME Control, WriteBeforeAnyAnswer, [Next]_vars
               PROVE  WriteBeforeAnyAnswer'
    OBVIOUS
  <1>0. TypeOK /\ LoopControl
    BY DEF Control
  <1>1. ASSUME NothingToSend(events') PROVE WriteBeforeAnyAnswer'
    BY <1>1 DEF NothingToSend, WriteBeforeAnyAnswer
  <1>2. events = <<>> => NothingToSend(events)
    BY DEF NothingToSend
  <1>3. status # "Online" \/ lines > 0 => NothingToSend(events)
    BY <1>0 DEF WriteBeforeAnyAnswer, NothingToSend, TypeOK
  <1>4. ASSUME events' = events, state' = state, status' = status, lines' = lines
        PROVE  WriteBeforeAnyAnswer'
    BY <1>4 DEF WriteBeforeAnyAnswer
  <1>5. CASE Callers
    BY <1>4, <1>5 DEF Callers, SendRequest, ReceiveResponse, GiveUp, machine
  <1>6. CASE Initialize
    BY <1>0, <1>1, <1>3, <1>6 DEF Initialize, LoopControl, machine
  <1>7. CASE HandleWorkerEvent
    BY <1>0, <1>1, <1>7, TailSendsNothing DEF HandleWorkerEvent
  <1>8. CASE StartNext
    <2>1. /\ queue # <<>> /\ StartCommand(Head(queue)) /\ events = <<>>
          /\ status = "Online" /\ lines = 0 /\ status' = status /\ lines' = lines
      BY <1>8 DEF StartNext, Selecting
    <2>2. Head(queue) \in Commands
      BY <1>0, <2>1, TailFacts DEF TypeOK
    <2>3. /\ events' = <<WriteAT(Head(queue))>>
          /\ state' = Command(Execution(Head(queue)))
      BY <2>1 DEF StartCommand
    <2>4. Len(events') = 1 /\ events'[1].cmd = Head(queue)
      BY <2>3 DEF WriteAT
    <2>5. QED
      BY <2>1, <2>3, <2>4 DEF WriteBeforeAnyAnswer
  <1>9. CASE CommandTimeout \/ PortFailed \/ ReadPort \/ FailActiveOnShutdown
    <2>1. events = <<>> /\ events' = events
      BY <1>9 DEF CommandTimeout, HandleCommandTimeout, PortFailed, ReadPort,
                  FailActiveOnShutdown, PortTurn, machine
    <2>2. QED
      BY <1>1, <1>2, <2>1
  <1>10. CASE RejectOnShutdown \/ RejectWhenOffline \/ QueueRejected \/ GoOffline \/ Reconnect
    <2>1. events' = events /\ status # "Online"
      BY <1>0, <1>10 DEF RejectOnShutdown, RejectWhenOffline, QueueRejected, GoOffline,
                         Reconnect, RejectHead, Selecting, LoopControl, machine
    <2>2. QED
      BY <1>1, <1>3, <2>1
  <1>11. ASSUME NEW line \in Lines, ProcessLine(line) PROVE WriteBeforeAnyAnswer'
    <2>1. NothingToSend(events)
      BY <1>3, <1>11 DEF ProcessLine
    <2>2. LineEffect
      BY <1>0, <1>11, TypeOfMachine, TransitionStateEffect DEF ProcessLine
    <2>3. NothingToSend(events')
      BY <1>0, <2>1, <2>2, AppendSendsNothing DEF LineEffect, TypeOK
    <2>4. QED
      BY <1>1, <2>3
  <1>12. CASE UNCHANGED vars
    BY <1>4, <1>12 DEF vars
  <1>13. QED
    BY <1>5, <1>6, <1>7, <1>8, <1>9, <1>10, <1>11, <1>12 DEF Next, Modem, Worker

\* No line is ever taken for the answer to a command whose AT command has not
\* been written yet.
THEOREM WriteFirst == Spec => []WriteBeforeAnyAnswer
  <1>1. Init => WriteBeforeAnyAnswer
    BY DEF Init, WriteBeforeAnyAnswer
  <1>2. Spec => []Control
    BY TypeCorrect, ControlInvariant, PTL DEF Control
  <1>3. QED
    BY <1>1, <1>2, WriteBeforeAnyAnswerNext, PTL DEF Spec

-----------------------------------------------------------------------------
(***************************************************************************)
(* What a step may never do.                                               *)
(***************************************************************************)
LEMMA LineDrops ==
    ASSUME MachineType, NEW line \in Lines, TransitionState(line), NEW c \in Commands,
           caller[c] = "Waiting", slot[c] # Dropped, slot'[c] = Dropped
    PROVE  state.mode = "UnsolicitedMessage" /\ state.exec.cmd = c
  <1>1. CASE UnsolicitedBody(line) \/ UnsolicitedStart(line) \/ IgnoredWhenIdle(line)
    BY <1>1, UnsolicitedBodyEffect, UnsolicitedStartEffect, IgnoredWhenIdleEffect DEF Keeps
  <1>2. CASE PromptDuringCommand(line)
    BY <1>2 DEF PromptDuringCommand, Settle, Error, Dropped, MachineType
  <1>3. CASE ResponseDuringCommand(line)
    <2>1. Answer(Found(line), line) # Dropped
      BY DEF Answer, Ok, Error, Dropped
    <2>2. QED
      BY <1>3, <2>1 DEF ResponseDuringCommand, Settle, MachineType
  <1>4. CASE InvalidTransition(line)
    BY <1>4 DEF InvalidTransition, SlotsWithoutActive, Active, MachineType
  <1>5. QED
    BY <1>1, <1>2, <1>3, <1>4 DEF TransitionState

LEMMA StepDrops ==
    ASSUME Control, [Next]_vars, NEW c \in Commands,
           caller[c] = "Waiting", slot[c] # Dropped, slot'[c] = Dropped
    PROVE  lines > 0 /\ state.mode = "UnsolicitedMessage" /\ state.exec.cmd = c
  <1> USE TypeOfMachine
  <1>0. TypeOK /\ LoopControl /\ ExecutesOnlyOnline
    BY DEF Control
  <1>1. slot' # slot
    OBVIOUS
  <1>2. ~Callers
    BY <1>1 DEF Callers, SendRequest, ReceiveResponse, GiveUp, machine
  <1>3. ~(Initialize \/ StartNext \/ QueueRejected \/ ReadPort)
    BY <1>1 DEF Initialize, StartNext, StartCommand, QueueRejected, ReadPort, machine
  <1>4. ~HandleWorkerEvent
    BY <1>0, <1>1, FailActiveCommandEffect
    DEF HandleWorkerEvent, SetStatusEvent, WriteEvent, WriteFailed
  <1>5. ~(CommandTimeout \/ PortFailed \/ FailActiveOnShutdown)
    BY <1>0, FailActiveCommandEffect, HandleCommandTimeoutEffect
    DEF CommandTimeout, PortFailed, FailActiveOnShutdown
  <1>6. ~(RejectOnShutdown \/ RejectWhenOffline)
    BY <1>0 DEF RejectOnShutdown, RejectWhenOffline, RejectHead, Settle, Error, Dropped, TypeOK
  <1>7. ~(GoOffline \/ Reconnect)
    <2>1. GoOffline \/ Reconnect => Active = NoCommand
      BY <1>0 DEF GoOffline, Reconnect, Selecting, ExecutesOnlyOnline, LoopControl
    <2>2. QED
      BY <1>0, <1>1, <2>1, ResetToIdleEffect DEF GoOffline, Reconnect
  <1>8. PICK line \in Lines : ProcessLine(line)
    BY <1>1, <1>2, <1>3, <1>4, <1>5, <1>6, <1>7 DEF Next, Modem, Worker, vars
  <1>9. QED
    BY <1>0, <1>8, LineDrops DEF ProcessLine

\* A caller that waits finds its channel closed without a response only if its
\* command was interrupted by an unsolicited message whose content did not come.
THEOREM ClosedOnly == Spec => ClosedOnlyByInvalidTransition
  <1>1. Control /\ [Next]_vars =>
          [\A c \in Commands :
              (caller[c] = "Waiting" /\ slot[c] = Empty /\ slot'[c] = Dropped) =>
                  /\ lines > 0
                  /\ state.mode = "UnsolicitedMessage"
                  /\ state.exec.cmd = c]_vars
    BY StepDrops DEF Empty, Dropped
  <1>2. Spec => []Control
    BY TypeCorrect, ControlInvariant, PTL DEF Control
  <1>3. QED
    BY <1>1, <1>2, PTL DEF Spec, ClosedOnlyByInvalidTransition

-----------------------------------------------------------------------------
(***************************************************************************)
(* The status: announced when it changes, and never before a clean start.  *)
(***************************************************************************)
SameStatus ==
    status' = status /\ \A i \in 1..Len(main_tx') : main_tx'[i].type # "ModemStatusUpdate"

NewStatus ==
    /\ main_tx' = <<StatusUpdate(status, status')>>
    /\ status' # "Startup"
    /\ status = "Startup" => status' \in {"Online", "Offline"}
    /\ status = "ShuttingDown" => status' = "Offline"

LEMMA SilenceAnnouncesNothing ==
    ASSUME status' = status, main_tx' = <<>>
    PROVE  SameStatus
  <1>1. 1..Len(main_tx') = {}
    OBVIOUS
  <1>2. QED
    BY <1>1 DEF SameStatus

LEMMA MessageAnnouncesNothing ==
    ASSUME status' = status, NEW k \in Kinds, main_tx' = <<Message(k)>>
    PROVE  SameStatus
  <1>1. Message(k).type # "ModemStatusUpdate"
    BY DEF Message, Kinds
  <1>2. QED
    BY <1>1 DEF SameStatus

LEMMA SetStatusAnnounces ==
    ASSUME NEW s, SetStatus(s), s # "Startup",
           status = "Startup" => s \in {"Online", "Offline"},
           status = "ShuttingDown" => s \in {"ShuttingDown", "Offline"}
    PROVE  SameStatus \/ NewStatus
  <1>1. CASE s = status
    BY <1>1, SilenceAnnouncesNothing DEF SetStatus
  <1>2. CASE s # status
    BY <1>2 DEF SetStatus, NewStatus
  <1>3. QED
    BY <1>1, <1>2

LEMMA LineAnnouncesNothing ==
    ASSUME Control, NEW line \in Lines, ProcessLine(line)
    PROVE  SameStatus
  <1>1. status' = status /\ TransitionState(line)
    BY DEF ProcessLine
  <1>2. ASSUME NEW k \in Kinds, HandleUnsolicited(k, line)
        PROVE  SameStatus
    BY <1>1, <1>2, SilenceAnnouncesNothing, MessageAnnouncesNothing DEF HandleUnsolicited
  <1>3. CASE UnsolicitedBody(line)
    <2>1. state.kind \in Kinds
      BY <1>3, StateCases DEF UnsolicitedBody, Control, TypeOK, Idle, Command
    <2>2. QED
      BY <1>2, <1>3, <2>1 DEF UnsolicitedBody
  <1>4. CASE UnsolicitedStart(line)
    BY <1>1, <1>2, <1>4, SilenceAnnouncesNothing, LineOfHeader DEF UnsolicitedStart
  <1>5. CASE \/ PromptDuringCommand(line)
             \/ ResponseDuringCommand(line)
             \/ IgnoredWhenIdle(line)
             \/ InvalidTransition(line)
    BY <1>1, <1>5, SilenceAnnouncesNothing
    DEF PromptDuringCommand, ResponseDuringCommand, IgnoredWhenIdle, InvalidTransition
  <1>6. QED
    BY <1>1, <1>3, <1>4, <1>5 DEF TransitionState

LEMMA StepAnnounces ==
    ASSUME Control, Next
    PROVE  SameStatus \/ NewStatus
  <1>1. LoopControl
    BY DEF Control
  <1>2. CASE Callers \/ ReadPort \/ CommandTimeout \/ StartNext
    BY <1>2, SilenceAnnouncesNothing
    DEF Callers, SendRequest, ReceiveResponse, GiveUp, ReadPort, CommandTimeout, StartNext,
        StartCommand
  <1>3. CASE FailActiveOnShutdown \/ RejectOnShutdown \/ QueueRejected \/ RejectWhenOffline
    BY <1>3, SilenceAnnouncesNothing
    DEF FailActiveOnShutdown, RejectOnShutdown, QueueRejected, RejectWhenOffline, RejectHead
  <1>4. CASE Initialize
    BY <1>1, <1>4, SetStatusAnnounces DEF Initialize, LoopControl
  <1>5. CASE HandleWorkerEvent
    BY <1>1, <1>5, SetStatusAnnounces, SilenceAnnouncesNothing
    DEF HandleWorkerEvent, SetStatusEvent, WriteEvent, WriteFailed, LoopControl
  <1>6. CASE PortFailed
    BY <1>6, SetStatusAnnounces DEF PortFailed, PortTurn, Selecting
  <1>7. CASE GoOffline
    BY <1>1, <1>7, SetStatusAnnounces DEF GoOffline, LoopControl
  <1>8. CASE Reconnect
    BY <1>8, SetStatusAnnounces DEF Reconnect, Selecting
  <1>9. CASE \E line \in Lines : ProcessLine(line)
    BY <1>9, LineAnnouncesNothing
  <1>10. QED
    BY <1>2, <1>3, <1>4, <1>5, <1>6, <1>7, <1>8, <1>9 DEF Next, Modem, Worker

\* Each change of status is announced once, with the status it leaves; nothing
\* else is announced as one, and none leads back to Startup or from
\* ShuttingDown straight to Online.
THEOREM StatusIsAnnounced == Spec => StatusAnnounced
  <1>1. Control /\ [Next]_vars => [SameStatus \/ NewStatus]_vars
    BY StepAnnounces
  <1>2. Spec => []Control
    BY TypeCorrect, ControlInvariant, PTL DEF Control
  <1>3. QED
    BY <1>1, <1>2, PTL DEF Spec, StatusAnnounced, SameStatus, NewStatus

\* Until the start-up is over there is nothing to reset.
Fresh == pc = "init" => state = Idle /\ ~partial

LEMMA FreshNext == Control /\ Fresh /\ [Next]_vars => Fresh'
  <1> SUFFICES ASSUME Control, Fresh, [Next]_vars PROVE Fresh'
    OBVIOUS
  <1>1. CASE pc # "init"
    <2>1. pc' # "init"
      BY <1>1 DEF Next, Callers, SendRequest, ReceiveResponse, GiveUp, Modem, ReadPort, PortFailed,
                  ProcessLine, Worker, Initialize, HandleWorkerEvent, SetStatusEvent, NextArm,
                  WriteEvent, WriteFailed, StartNext, CommandTimeout, FailActiveOnShutdown,
                  RejectOnShutdown, RejectHead, QueueRejected, GoOffline, RejectWhenOffline,
                  Reconnect, vars
    <2>2. QED
      BY <2>1 DEF Fresh
  <1>2. CASE pc = "init"
    <2>1. Callers \/ Initialize \/ UNCHANGED vars
      BY <1>2 DEF Next, Modem, ReadPort, PortFailed, PortTurn, Selecting, ProcessLine, Control,
                  TypeOK, LoopControl, Worker, HandleWorkerEvent, StartNext, CommandTimeout,
                  FailActiveOnShutdown, RejectOnShutdown, QueueRejected, GoOffline,
                  RejectWhenOffline, Reconnect
    <2>2. UNCHANGED <<state, partial>>
      BY <2>1 DEF Callers, SendRequest, ReceiveResponse, GiveUp, Initialize, machine, vars
    <2>3. QED
      BY <1>2, <2>2 DEF Fresh
  <1>3. QED
    BY <1>1, <1>2

LEMMA StepStartsClean ==
    ASSUME Control, Fresh, Next, status # "Online", status' = "Online"
    PROVE  state' = Idle /\ ~partial'
  <1>1. Initialize \/ Reconnect
    BY DEF Next, Callers, SendRequest, ReceiveResponse, GiveUp, Modem, ReadPort, PortFailed,
           ProcessLine, SetStatus, Worker, HandleWorkerEvent, SetStatusEvent, WriteEvent,
           WriteFailed, StartNext, CommandTimeout, FailActiveOnShutdown, RejectOnShutdown,
           RejectHead, QueueRejected, GoOffline, RejectWhenOffline
  <1>2. CASE Initialize
    BY <1>2 DEF Initialize, Fresh, machine
  <1>3. CASE Reconnect
    BY <1>3 DEF Reconnect, ResetToIdle
  <1>4. QED
    BY <1>1, <1>2, <1>3

\* The modem comes online with an idle state machine and an empty line buffer,
\* at the start and after every outage.
THEOREM StartsClean == Spec => CleanStart
  <1>1. Init => Fresh
    BY DEF Init, Fresh
  <1>2. Control /\ Fresh /\ [Next]_vars =>
            [status # "Online" /\ status' = "Online" => state' = Idle /\ ~partial']_vars
    BY StepStartsClean
  <1>3. Spec => []Control
    BY TypeCorrect, ControlInvariant, PTL DEF Control
  <1>4. QED
    BY <1>1, <1>2, <1>3, FreshNext, PTL DEF Spec, CleanStart
=============================================================================
