-------------------------- MODULE ModemStateMachine --------------------------
(***************************************************************************)
(* modem/state_machine.rs: what one line from the modem does to the        *)
(* command being executed and to the unsolicited message being received.   *)
(*                                                                         *)
(* The module has no specification of its own: its operators are the       *)
(* methods the worker calls, and ModemWorker.tla decides when.             *)
(***************************************************************************)
EXTENDS ModemProtocol

VARIABLES
    state,     \* StateMachineState: [mode, kind, exec]
    slot,      \* slot[c]: the oneshot channel of command c
    caller,    \* caller[c]: how far the send_request call of c has come
    events,    \* worker_event channel: what the handlers ask the worker to do
    main_tx    \* what the latest step has sent on the main channel

(***************************************************************************)
(* CommandExecution: the command, its CommandState, and the part of        *)
(* response_buffer its parser will look at, the value of the first line    *)
(* with the prefix of the request.                                         *)
(***************************************************************************)
NoExecution == [cmd |-> NoCommand, phase |-> "None", found |-> NoValue]
Execution(c) ==
    [cmd |-> c, phase |-> FirstPhase(RequestOf[c]), found |-> NoValue]
Executions == [cmd : Commands, phase : Phases,
               found : Values \cup {Malformed, NoValue}]

Idle == [mode |-> "Idle", kind |-> "None", exec |-> NoExecution]
Command(exec) == [mode |-> "Command", kind |-> "None", exec |-> exec]
Unsolicited(kind, exec) ==
    [mode |-> "UnsolicitedMessage", kind |-> kind, exec |-> exec]

States == {Idle} \cup {Command(e) : e \in Executions}
              \cup {Unsolicited(k, e) :
                      k \in {x \in Kinds : HasNextLine(x)},
                      e \in Executions \cup {NoExecution}}

Active == state.exec.cmd        \* the command being executed or interrupted

\* WorkerEvent
WriteAT(c)     == [type |-> "WriteAT", cmd |-> c]
WritePDU(c)    == [type |-> "WritePDU", cmd |-> c]
SetShuttingDown == [type |-> "SetStatus", cmd |-> NoCommand]
WorkerEvents == {WriteAT(c) : c \in Commands} \cup {WritePDU(c) : c \in Commands}
                    \cup {SetShuttingDown}

\* Variants.  An operator whose comment starts with "Variant" is not the code:
\* it is the definition that follows it with a mistake the code could have had,
\* and the property it names is violated when it takes that place.

\* Variant (ServiceSpec): ready while a message interrupts a command.
CanAcceptDuringMessage == state.mode # "Command"

CanAcceptCommand == state = Idle

-----------------------------------------------------------------------------
\* OutgoingCommand::respond, followed by the drop of the command: a response to
\* a caller that has stopped waiting is lost.
Settle(c, response) ==
    [slot EXCEPT ![c] = IF caller[c] = "Waiting" THEN response ELSE Dropped]

\* Dropping an OutgoingCommand without a response closes its channel.
SlotsWithoutActive ==
    IF Active = NoCommand THEN slot ELSE [slot EXCEPT ![Active] = Dropped]

\* fail_active_command: an unsolicited message that interrupts no command is
\* still being received afterwards.
FailActiveCommand ==
    IF Active = NoCommand
    THEN UNCHANGED <<state, slot>>
    ELSE state' = Idle /\ slot' = Settle(Active, Error)

\* reset_to_idle
ResetToIdle == state' = Idle /\ slot' = SlotsWithoutActive

\* Variant (PduOnlyInPduEntry): the PDU sent with the command, before the prompt.
StartCommandWithPdu(c) ==
    /\ events' = events \o <<WriteAT(c), WritePDU(c)>>
    /\ state' = Command([Execution(c) EXCEPT !.phase = "WaitingForOk"])
    /\ main_tx' = <<>>
    /\ UNCHANGED slot

\* start_command: command_sender queues the AT command before the state changes.
StartCommand(c) ==
    /\ events' = Append(events, WriteAT(c))
    /\ state' = Command(Execution(c))
    /\ main_tx' = <<>>
    /\ UNCHANGED slot

\* Variant (CommandConservation): the command answered but not removed.
TimeoutKeepsState ==
    /\ state.mode = "Command"
    /\ slot' = Settle(Active, Error)
    /\ UNCHANGED <<state, events>>

\* Variant (AcceptedIsSettled): no timeout for a command nobody waits for.
TimeoutOnlyIfAwaited ==
    /\ state.mode = "Command"
    /\ caller[Active] = "Waiting"
    /\ state' = Idle
    /\ slot' = Settle(Active, Error)
    /\ UNCHANGED events

\* Variant (OnlyMissedAnswersStray): the command set aside, its caller not told.
TimeoutInSilence ==
    /\ state.mode = "Command"
    /\ state' = Idle
    /\ UNCHANGED <<slot, events>>

\* handle_command_timeout.  When the response finds no receiver the error hides
\* that the command timed out: the result is "no timeout".
HandleCommandTimeout ==
    /\ state.mode = "Command"
    /\ state' = Idle
    /\ slot' = Settle(Active, Error)
    /\ UNCHANGED events
TimedOut == caller[Active] = "Waiting"

-----------------------------------------------------------------------------
\* handle_unsolicited: the message for the rest of the server, or a request to
\* the worker.  A content that does not decode is logged and lost.
HandleUnsolicited(kind, line) ==
    \/ /\ kind = "ShuttingDown"
       /\ events' = Append(events, SetShuttingDown)
       /\ main_tx' = <<>>
    \/ /\ kind # "ShuttingDown"
       /\ kind # "NetworkStatusChange" => line.type \in {"Text", "Header"}
       /\ main_tx' = <<Message(kind)>>
       /\ UNCHANGED events
    \/ /\ kind \notin {"ShuttingDown", "NetworkStatusChange"}
       /\ main_tx' = <<>>
       /\ UNCHANGED events

Resume(exec) == IF exec = NoExecution THEN Idle ELSE Command(exec)

\* Any line but a header or a prompt is the content of the unsolicited message
\* being received, a final "OK" of the interrupted command included.
UnsolicitedBody(line) ==
    /\ state.mode = "UnsolicitedMessage"
    /\ IsData(line)
    /\ HandleUnsolicited(state.kind, line)
    /\ state' = Resume(state.exec)
    /\ UNCHANGED slot

\* A header while idle or during a command.
UnsolicitedStart(line) ==
    /\ state.mode # "UnsolicitedMessage"
    /\ IsHeader(line)
    /\ IF HasNextLine(line.of)
       THEN /\ state' = Unsolicited(line.of, state.exec)
            /\ main_tx' = <<>>
            /\ UNCHANGED events
       ELSE HandleUnsolicited(line.of, line) /\ UNCHANGED state
    /\ UNCHANGED slot

\* process_command, a prompt: the PDU of an SMS goes out (again, if it is the
\* second prompt); for any other request the command is over.
PromptDuringCommand(line) ==
    /\ state.mode = "Command"
    /\ IsPrompt(line)
    /\ IF RequestOf[Active] = "SendSMS"
       THEN /\ events' = Append(events, WritePDU(Active))
            /\ state' = Command([state.exec EXCEPT !.phase = "WaitingForOk"])
            /\ UNCHANGED slot
       ELSE /\ state' = Idle
            /\ slot' = Settle(Active, Error)
            /\ UNCHANGED events
    /\ main_tx' = <<>>

\* The value the parser of the request will find in response_buffer once the
\* line has been appended to it.
Found(line) ==
    IF /\ state.exec.found = NoValue
       /\ line.type = "Result"
       /\ line.of = RequestOf[Active]
    THEN line.val ELSE state.exec.found

\* process_command, any other line: it is collected, and completes the command
\* or not.
ResponseDuringCommand(line) ==
    /\ state.mode = "Command"
    /\ IsData(line)
    /\ IF IsComplete(state.exec.phase, line)
       THEN state' = Idle /\ slot' = Settle(Active, Answer(Found(line), line))
       ELSE /\ state' = Command([state.exec EXCEPT !.found = Found(line)])
            /\ UNCHANGED slot
    /\ main_tx' = <<>>
    /\ UNCHANGED events

\* A prompt or a response nobody waits for.
IgnoredWhenIdle(line) ==
    /\ state = Idle
    /\ ~IsHeader(line)
    /\ main_tx' = <<>>
    /\ UNCHANGED <<state, slot, events>>

\* A header or a prompt where the content of an unsolicited message is due:
\* process_event has taken the state and bails out, which destroys the
\* interrupted command.  The worker's fail_active_command then finds the state
\* idle, and so does reset_to_idle.
InvalidTransition(line) ==
    /\ state.mode = "UnsolicitedMessage"
    /\ ~IsData(line)
    /\ state' = Idle
    /\ slot' = SlotsWithoutActive
    /\ main_tx' = <<>>
    /\ UNCHANGED events

\* transition_state and the worker's handling of its error
TransitionState(line) ==
    \/ UnsolicitedBody(line)
    \/ UnsolicitedStart(line)
    \/ PromptDuringCommand(line)
    \/ ResponseDuringCommand(line)
    \/ IgnoredWhenIdle(line)
    \/ InvalidTransition(line)
=============================================================================
