----------------------------- MODULE ModemWorker -----------------------------
(***************************************************************************)
(* modem/worker.rs with the command channel of modem/sender.rs: the task   *)
(* that owns the serial port, the callers of send_request that queue       *)
(* commands to it, and the state machine it drives.                        *)
(*                                                                         *)
(* The modem is arbitrary here: any line may arrive at any time, any write *)
(* or read may fail.  What holds of this module holds whatever the modem   *)
(* does; ModemLink.tla puts a modem at the other end.  Time is abstract: a *)
(* command may time out whenever the timer branch of the loop can be taken *)
(* and a caller may give up whenever it waits.                             *)
(***************************************************************************)
EXTENDS ModemStateMachine

CONSTANTS
    Capacity,   \* config.cmd_channel_buffer_size
    MaxLines    \* bound: line events in the bytes of one read

ASSUME CapacityAssumption == Capacity \in Nat \ {0}
ASSUME MaxLinesAssumption == MaxLines \in Nat \ {0}

VARIABLES
    status,     \* ModemStatus
    pc,         \* where the task is: initialize_and_run, the select of run, or
                \* one of the steps of the ShuttingDown arm
    queue,      \* command_rx: commands sent and not yet received
    lines,      \* line events left of the bytes read last
    partial     \* line_buffer holds the beginning of a line

vars == <<state, slot, caller, events, main_tx, status, pc, queue, lines, partial>>
machine == <<state, slot, events>>

ProgramCounters == {"init", "select", "drain", "reject", "sleep"}
CallerStates == {"New", "Waiting", "Refused", "Answered", "Closed", "TimedOut"}

Init ==
    /\ state = Idle
    /\ slot = [c \in Commands |-> Empty]
    /\ caller = [c \in Commands |-> "New"]
    /\ events = <<>>
    /\ main_tx = <<>>
    /\ status = "Startup"
    /\ pc = "init"
    /\ queue = <<>>
    /\ lines = 0
    /\ partial = FALSE

\* Variants.  An operator whose comment starts with "Variant" is not the code:
\* it is the definition that follows it with a mistake the code could have had,
\* and the property it names is violated when it takes that place.

\* Variant (StatusAnnounced): the previous status read after the assignment.
SetStatusReadLate(new) ==
    /\ status' = new
    /\ main_tx' = IF new = status THEN <<>> ELSE <<StatusUpdate(status', new)>>

\* set_status: a change, and only a change, is announced.
SetStatus(new) ==
    /\ status' = new
    /\ main_tx' = IF new = status THEN <<>> ELSE <<StatusUpdate(status, new)>>

-----------------------------------------------------------------------------
(***************************************************************************)
(* The callers: ModemSender::send_request.                                 *)
(***************************************************************************)

\* Variant (TypeOK): a send that ignores the capacity of the channel.
SendRequestUnbounded(c) ==
    /\ caller[c] = "New"
    /\ queue' = Append(queue, c)
    /\ caller' = [caller EXCEPT ![c] = "Waiting"]
    /\ main_tx' = <<>>
    /\ UNCHANGED <<machine, status, pc, lines, partial>>

\* try_send: queued, or refused when the channel is full.
SendRequest(c) ==
    /\ caller[c] = "New"
    /\ IF Len(queue) < Capacity
       THEN /\ queue' = Append(queue, c)
            /\ caller' = [caller EXCEPT ![c] = "Waiting"]
       ELSE /\ caller' = [caller EXCEPT ![c] = "Refused"]
            /\ UNCHANGED queue
    /\ main_tx' = <<>>
    /\ UNCHANGED <<machine, status, pc, lines, partial>>

\* The oneshot channel yields a response, or is closed without one.
ReceiveResponse(c) ==
    /\ caller[c] = "Waiting"
    /\ slot[c] # Empty
    /\ caller' = [caller EXCEPT ![c] =
                    IF slot[c] = Dropped THEN "Closed" ELSE "Answered"]
    /\ main_tx' = <<>>
    /\ UNCHANGED <<machine, status, pc, queue, lines, partial>>

\* tokio::time::timeout elapses, or the future of the request is dropped with
\* the HTTP connection that carries it.  The command stays where it is.
GiveUp(c) ==
    /\ caller[c] = "Waiting"
    /\ slot[c] = Empty
    /\ caller' = [caller EXCEPT ![c] = "TimedOut"]
    /\ main_tx' = <<>>
    /\ UNCHANGED <<machine, status, pc, queue, lines, partial>>

-----------------------------------------------------------------------------
(***************************************************************************)
(* initialize_and_run up to the loop: the connection test and the          *)
(* initialisation commands succeed or not.                                 *)
(***************************************************************************)
Initialize ==
    /\ pc = "init"
    /\ \E s \in {"Online", "Offline"} : SetStatus(s)
    /\ pc' = "select"
    /\ UNCHANGED <<machine, caller, queue, lines, partial>>

\* Variant (LoopControl): the loop goes on as if the shutdown had not begun.
NextArmUnchanged(s) == pc

\* The arm of the loop an iteration of run takes.
Selecting(s) == pc = "select" /\ status = s /\ lines = 0
NextArm(s) == IF pc = "select" /\ s = "ShuttingDown" THEN "drain" ELSE pc

(***************************************************************************)
(* handle_worker_event, in any of the three arms.  A write needs the       *)
(* status Online and may fail; the command that is active by then fails    *)
(* with it, whichever command the bytes were for.                          *)
(***************************************************************************)
SetStatusEvent ==
    /\ Head(events).type = "SetStatus"
    /\ SetStatus("ShuttingDown")
    /\ pc' = NextArm("ShuttingDown")
    /\ UNCHANGED <<state, slot>>

WriteEvent ==
    /\ Head(events).type # "SetStatus"
    /\ status = "Online"
    /\ main_tx' = <<>>
    /\ UNCHANGED <<state, slot, status, pc>>

WriteFailed ==
    /\ Head(events).type # "SetStatus"
    /\ FailActiveCommand
    /\ SetStatus("Offline")
    /\ UNCHANGED pc

HandleWorkerEvent ==
    /\ lines = 0
    /\ pc \in {"select", "drain"}
    /\ events # <<>>
    /\ SetStatusEvent \/ WriteEvent \/ WriteFailed
    /\ events' = Tail(events)
    /\ UNCHANGED <<caller, queue, lines, partial>>

-----------------------------------------------------------------------------
(***************************************************************************)
(* The Online arm.  The select is biased: worker events first, then a      *)
(* command if the state machine is idle, then the port, then the timer.    *)
(***************************************************************************)
StartNext ==
    /\ Selecting("Online")
    /\ events = <<>>
    /\ CanAcceptCommand
    /\ queue # <<>>
    /\ StartCommand(Head(queue))
    /\ queue' = Tail(queue)
    /\ UNCHANGED <<caller, status, pc, lines, partial>>

\* Variant (WriteBeforeAnyAnswer): a select that may read before it writes.
PortTurnUnbiased ==
    /\ Selecting("Online")
    /\ CanAcceptCommand => queue = <<>>

\* Nothing is ready before the port.
PortTurn ==
    /\ Selecting("Online")
    /\ events = <<>>
    /\ CanAcceptCommand => queue = <<>>

\* Ok(n): process_data turns the bytes into n line events and keeps the rest
\* (LineBuffer.tla).  A blank rest may be ended without an event.
ReadPort ==
    /\ PortTurn
    /\ \E n \in 0..MaxLines, rest \in BOOLEAN :
         /\ lines' = n
         /\ partial' = rest
    /\ main_tx' = <<>>
    /\ UNCHANGED <<machine, caller, status, pc, queue>>

\* One turn of the loop over the line events.
ProcessLine(line) ==
    /\ lines > 0
    /\ TransitionState(line)
    /\ lines' = lines - 1
    /\ UNCHANGED <<caller, status, pc, queue, partial>>

\* Variant (ExecutesOnlyOnline): offline with the command still active.
PortFailedSilently ==
    /\ PortTurn
    /\ SetStatus("Offline")
    /\ UNCHANGED <<machine, caller, pc, queue, lines, partial>>

\* Ok(0) or Err: the port is closed or broken.
PortFailed ==
    /\ PortTurn
    /\ FailActiveCommand
    /\ SetStatus("Offline")
    /\ UNCHANGED <<caller, events, pc, queue, lines, partial>>

\* A tick of timeout_interval after timeout_at; a tick before it does nothing.
CommandTimeout ==
    /\ PortTurn
    /\ HandleCommandTimeout
    /\ partial' = (partial /\ ~TimedOut)
    /\ main_tx' = <<>>
    /\ UNCHANGED <<caller, status, pc, queue, lines>>

-----------------------------------------------------------------------------
(***************************************************************************)
(* The ShuttingDown arm: drain the worker events (HandleWorkerEvent), fail *)
(* the active command, reject the queue, sleep, go offline.                *)
(***************************************************************************)
\* Variant (ClosedOnlyByInvalidTransition): the reset is left to end the command.
ForgetActiveOnShutdown ==
    /\ pc = "drain"
    /\ events = <<>>
    /\ pc' = "reject"
    /\ main_tx' = <<>>
    /\ UNCHANGED <<machine, caller, status, queue, lines, partial>>

FailActiveOnShutdown ==
    /\ pc = "drain"
    /\ events = <<>>
    /\ FailActiveCommand
    /\ pc' = "reject"
    /\ main_tx' = <<>>
    /\ UNCHANGED <<events, caller, status, queue, lines, partial>>

RejectHead ==
    /\ queue # <<>>
    /\ slot' = Settle(Head(queue), Error)
    /\ queue' = Tail(queue)
    /\ main_tx' = <<>>
    /\ UNCHANGED <<state, events, caller, status, pc, lines, partial>>

RejectOnShutdown == pc = "reject" /\ RejectHead

QueueRejected ==
    /\ pc = "reject"
    /\ queue = <<>>
    /\ pc' = "sleep"
    /\ main_tx' = <<>>
    /\ UNCHANGED <<machine, caller, status, queue, lines, partial>>

GoOffline ==
    /\ pc = "sleep"
    /\ SetStatus("Offline")
    /\ ResetToIdle
    /\ partial' = FALSE
    /\ pc' = "select"
    /\ UNCHANGED <<events, caller, queue, lines>>

(***************************************************************************)
(* The Offline arm.  The select is not biased: a worker event, a command   *)
(* to reject, or an attempt to reconnect, in any order.  An attempt that   *)
(* fails changes nothing.                                                  *)
(***************************************************************************)
RejectWhenOffline == Selecting("Offline") /\ RejectHead

\* Variant (CleanStart): back online with what the outage interrupted.
ReconnectWithoutReset ==
    /\ Selecting("Offline")
    /\ SetStatus("Online")
    /\ UNCHANGED <<machine, caller, pc, queue, lines, partial>>

Reconnect ==
    /\ Selecting("Offline")
    /\ SetStatus("Online")
    /\ ResetToIdle
    /\ partial' = FALSE
    /\ UNCHANGED <<events, caller, pc, queue, lines>>

-----------------------------------------------------------------------------
Callers == \E c \in Commands : SendRequest(c) \/ ReceiveResponse(c) \/ GiveUp(c)

Modem == ReadPort \/ PortFailed \/ \E line \in Lines : ProcessLine(line)

Worker ==
    \/ Initialize
    \/ HandleWorkerEvent
    \/ StartNext
    \/ CommandTimeout
    \/ FailActiveOnShutdown
    \/ RejectOnShutdown
    \/ QueueRejected
    \/ GoOffline
    \/ RejectWhenOffline
    \/ Reconnect

Next == Callers \/ Modem \/ Worker

Spec == Init /\ [][Next]_vars

(***************************************************************************)
(* Fairness.  The task runs: a step of the loop that stays possible is     *)
(* taken.  The timer branch of the biased select is taken only when the    *)
(* port has nothing to read; a serial port is not readable all the time,   *)
(* so a timer that is due again and again is taken: strong fairness.       *)
(***************************************************************************)
Loop ==
    \/ Initialize
    \/ HandleWorkerEvent
    \/ StartNext
    \/ \E line \in Lines : ProcessLine(line)
    \/ FailActiveOnShutdown
    \/ RejectOnShutdown
    \/ QueueRejected
    \/ GoOffline
    \/ RejectWhenOffline

WorkerFairness == WF_vars(Loop) /\ SF_vars(CommandTimeout)

\* The modem completes the unsolicited messages it starts: again and again the
\* end of a read finds none being received.
MessagesComplete == []<>(lines = 0 /\ state.mode # "UnsolicitedMessage")

FairSpec == Spec /\ WorkerFairness /\ MessagesComplete

-----------------------------------------------------------------------------
(***************************************************************************)
(* Properties.                                                             *)
(***************************************************************************)
Queued(c) == \E i \in 1..Len(queue) : queue[i] = c

\* A step sends at most one message on the main channel.
Outputs == {<<>>} \cup {<<m>> : m \in Messages}

\* Every variable keeps its type, and the command channel its capacity.
TypeOK ==
    /\ state \in States
    /\ slot \in [Commands -> Slots]
    /\ caller \in [Commands -> CallerStates]
    /\ events \in Seq(WorkerEvents)
    /\ main_tx \in Outputs
    /\ status \in Statuses
    /\ pc \in ProgramCounters
    /\ queue \in Seq(Commands) /\ Len(queue) <= Capacity
    /\ lines \in 0..MaxLines
    /\ partial \in BOOLEAN

\* No accepted command is lost or held twice: a command whose channel is unused
\* is either in the command channel, once, or in the state machine, whatever
\* timeouts, shutdowns, outages and reconnections have happened (the moves of
\* OutgoingCommand through command_rx, StateMachineState and respond).
CommandConservation ==
    /\ \A i, j \in 1..Len(queue) : queue[i] = queue[j] => i = j
    /\ \A c \in Commands :
         /\ ~(Queued(c) /\ Active = c)
         /\ (Queued(c) \/ Active = c)
               <=> (caller[c] \in {"Waiting", "TimedOut"} /\ slot[c] = Empty)
         /\ caller[c] \in {"New", "Refused"} => slot[c] = Empty

\* The arm of the loop, its step, and the status agree: lines are processed only
\* online, and none of the steps of a shutdown is taken online, whatever the
\* worker events of the drain do to the status.
LoopControl ==
    /\ pc = "init" <=> status = "Startup"
    /\ pc = "select" => status \in {"Online", "Offline"}
    /\ pc \in {"drain", "reject", "sleep"} => status \in {"ShuttingDown", "Offline"}
    /\ lines > 0 => pc = "select" /\ status = "Online"

\* A command is executed only while the modem is online, or until the shutdown
\* that follows has failed it: the reset_to_idle calls on the way offline and
\* back online, which would drop a command unanswered, never find one.
ExecutesOnlyOnline ==
    Active # NoCommand => \/ status = "Online"
                          \/ status = "ShuttingDown" /\ pc = "drain"

\* The bytes of an AT command are still to be written only if nothing else is,
\* the modem is online, and its command is the one being executed and has seen
\* no line yet: no line can be taken for the answer to a command that the modem
\* has not been sent (the biased select of run).
WriteBeforeAnyAnswer ==
    \A i \in 1..Len(events) :
        events[i].type = "WriteAT" =>
            /\ events = <<WriteAT(events[i].cmd)>>
            /\ status = "Online"
            /\ lines = 0
            /\ state = Command(Execution(events[i].cmd))

\* A caller that waits finds its channel closed without a response for one
\* reason only: its command was interrupted by an unsolicited message whose
\* content did not come next (the bail of process_event).
ClosedOnlyByInvalidTransition ==
    [][\A c \in Commands :
          (caller[c] = "Waiting" /\ slot[c] = Empty /\ slot'[c] = Dropped) =>
              /\ lines > 0
              /\ state.mode = "UnsolicitedMessage"
              /\ state.exec.cmd = c]_vars

\* Each change of status is announced once, with the status it leaves, and the
\* announcements form the chain docs/events.md describes: never to Startup,
\* never from ShuttingDown back to Online without Offline between them.
StatusAnnounced ==
    [][\/ status' = status /\ \A i \in 1..Len(main_tx') : main_tx'[i].type # "ModemStatusUpdate"
       \/ /\ main_tx' = <<StatusUpdate(status, status')>>
          /\ status' # "Startup"
          /\ status = "Startup" => status' \in {"Online", "Offline"}
          /\ status = "ShuttingDown" => status' = "Offline"]_vars

\* The modem comes back online with an idle state machine and an empty line
\* buffer: no half of a line or of an unsolicited message from before an outage
\* meets the first bytes after it.
CleanStart ==
    [][status # "Online" /\ status' = "Online" => state' = Idle /\ ~partial']_vars

\* The worker implements CommandService: one command at a time, first come
\* first served, and nothing settled twice or out of turn.
Service == INSTANCE CommandService WITH
    pending <- queue,
    current <- Active,
    Results <- {Ok(v) : v \in Values},
    Failure <- Error

ServiceSpec == Service!Spec

\* Every accepted command is settled in the end, though the modem may answer
\* nothing, answer nonsense, or go away, and though its caller may have left.
AcceptedIsSettled ==
    \A c \in Commands : (Queued(c) \/ Active = c) ~> slot[c] # Empty
=============================================================================
