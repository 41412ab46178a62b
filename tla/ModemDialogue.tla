---------------------------- MODULE ModemDialogue ----------------------------
(***************************************************************************)
(* The worker of ModemWorker.tla with the dialogues its Initialize and     *)
(* Reconnect stand for, answer by answer: test_connection sends AT,        *)
(* initialize_modem sends the commands of the set-up, and each of them     *)
(* waits in read_response_until_ok for bytes that contain OK or ERROR.     *)
(* While a dialogue lasts the task does nothing else: commands are queued  *)
(* and their callers wait.                                                 *)
(*                                                                         *)
(* The modem is external.  It works through the commands in order and in   *)
(* its own time, so an answer may come after the worker has stopped        *)
(* waiting for it; nothing clears the port, and the answer is then read as *)
(* that of the next command.  Online, the modem is that of ModemWorker.tla *)
(* and the line is left alone; when the worker goes offline, a command may *)
(* still be unanswered.                                                    *)
(***************************************************************************)
EXTENDS ModemWorker

CONSTANTS
    GnssEnabled,    \* config.gnss_enabled
    GpioEnabled,    \* config.gpio_enabled, in a build with the gpio feature
    GpioRepower,    \* config.gpio_repower
    Backlog         \* bound: commands that a modem which does not answer keeps

ASSUME DialogueAssumption ==
    /\ {GnssEnabled, GpioEnabled, GpioRepower} \subseteq BOOLEAN
    /\ Backlog \in Nat \ {0}

VARIABLES
    script,       \* the commands of the dialogue, from the one that was sent last on
    response,     \* what read_response_until_ok has read of its answer
    to_modem,     \* commands the modem has not answered
    from_modem,   \* what the answers in the port contain that nobody has read
    powered,      \* the modem has power
    responsive,   \* from now on the modem answers every command in time, with OK
    behind,       \* history: the commands without an answer when the set-up began
    flawed        \* history: the modem lost or refused a command since then

port == <<to_modem, from_modem>>
dialogue == <<script, response, port, powered, responsive, behind, flawed>>
dialogueVars == <<vars, dialogue>>

\* The commands of initialize_modem.
Mandatory == <<"ATZ", "ATE0", "AT+CMGF", "AT+CSCS", "AT+CNMI", "AT+CSMP", "AT+CPMS">>
Gnss == IF GnssEnabled THEN <<"AT+CGNSPWR", "AT+CGPSRST", "AT+CGNSURC">> ELSE <<>>
Setup == Mandatory \o Gnss
Script == <<"AT">> \o Setup

\* Variant (OnlyOneAnswerBehind): every command content with an OK.
ExpectedOkAlways(command) == "OK"

\* What the answer must contain.
Expected(command) == IF command = "AT+CPMS" THEN "+CPMS" ELSE "OK"

\* A modem that accepts AT+CPMS prints two lines: with the first it goes from the
\* command to its final OK.
Prints(command) == IF command = "AT+CPMS" THEN "+CPMS" ELSE "OK"
Rest(command) == IF command = "AT+CPMS" THEN <<"FinalOK">> ELSE <<>>
AfterLine(commands) == Rest(Head(commands)) \o Tail(commands)

Sent == {Script[i] : i \in 1..Len(Script)} \cup {"FinalOK", "AT+CMGS"}
Answers == {"+CPMS", "OK", "ERROR"}
Finals == {"OK", "ERROR"}

Talking == script # <<>>
Quiet == to_modem = <<>> /\ from_modem = {}

DialogueInit ==
    /\ Init
    /\ script = <<>>
    /\ response = {}
    /\ to_modem = <<>>
    /\ from_modem = {}
    /\ powered \in BOOLEAN
    /\ responsive = FALSE
    /\ behind = 0
    /\ flawed = FALSE

-----------------------------------------------------------------------------
(***************************************************************************)
(* The steps of a dialogue.                                                *)
(***************************************************************************)
\* In the terms of ModemWorker.tla nothing happens.
WorkerWaits == UNCHANGED vars

\* port.write_all(command), with held the commands the modem holds.  What a
\* modem without power or with a full backlog is sent is lost.
Send(commands, held, power) ==
    /\ script' = commands
    /\ response' = {}
    /\ to_modem' = IF power /\ Len(held) < Backlog THEN Append(held, Head(commands)) ELSE held
    /\ IF commands = Setup
       THEN /\ behind' = Len(held)
            /\ flawed' = (to_modem' = held)
       ELSE UNCHANGED <<behind, flawed>>

\* initialize_modem or test_connection returns, and with it initialize_and_run
\* up to the loop, or try_reconnect.
Return(succeeded) ==
    /\ script' = <<>>
    /\ response' = {}
    /\ IF pc = "init"
       THEN Initialize /\ status' = (IF succeeded THEN "Online" ELSE "Offline")
       ELSE IF succeeded THEN Reconnect ELSE WorkerWaits
    /\ UNCHANGED <<behind, flawed>>

\* Variant (InStepGoesOnline): the power switched at the start alone.
PowerToggledOnce == GpioEnabled /\ pc = "init"

\* toggle_gpio_power after a failed test: the modem is switched on or off, and
\* forgets what it was sent.
PowerToggled == GpioEnabled /\ (pc = "init" \/ GpioRepower)

\* test_connection failed: the start-up goes on, a reconnection is given up.
FailTest(held) ==
    LET power == IF PowerToggled THEN ~powered ELSE powered
        left  == IF PowerToggled THEN <<>> ELSE held
    IN  /\ powered' = power
        /\ IF pc = "init"
           THEN Send(Setup, left, power) /\ WorkerWaits
           ELSE Return(FALSE) /\ to_modem' = left

Fail(held) ==
    IF Head(script) = "AT"
    THEN FailTest(held)
    ELSE Return(FALSE) /\ to_modem' = held /\ UNCHANGED powered

\* The answer is complete, or what is taken for it: the next command.
Succeed(held) ==
    /\ IF Len(script) = 1
       THEN Return(TRUE) /\ to_modem' = held
       ELSE Send(Tail(script), held, powered) /\ WorkerWaits
    /\ UNCHANGED powered

\* Variant (InStepMeansConfigured): any final answer taken for a success.
ConcludeWithoutLooking(heard, held) == Succeed(held)

Conclude(heard, held) ==
    IF Expected(Head(script)) \in heard THEN Succeed(held) ELSE Fail(held)

\* Variant (DialogueTypeOK): a tick that tries to reconnect whatever the status.
BeginInAnyArm ==
    /\ ~Talking
    /\ pc \in {"init", "select"}
    /\ UNCHANGED <<from_modem, powered, responsive>>
    /\ Send(Script, to_modem, powered)
    /\ WorkerWaits

\* initialize_and_run, or a tick of reconnect_interval in the Offline arm.
Begin ==
    /\ ~Talking
    /\ pc = "init" \/ Selecting("Offline")
    /\ UNCHANGED <<from_modem, powered, responsive>>
    /\ Send(Script, to_modem, powered)
    /\ WorkerWaits

\* A read returns everything in the port, and perhaps a piece of the line that
\* is arriving, which nobody recognises if the dialogue goes on to another command.
Hear ==
    /\ Talking
    /\ from_modem # {}
    /\ from_modem' = {}
    /\ LET heard == response \cup from_modem
       IN  IF heard \cap Finals = {}
           THEN /\ response' = heard
                /\ WorkerWaits
                /\ UNCHANGED <<script, to_modem, powered, behind, flawed>>
           ELSE \/ Conclude(heard, to_modem)
                \/ to_modem # <<>> /\ Conclude(heard, AfterLine(to_modem))
    /\ UNCHANGED responsive

\* Variant (AcceptedIsSettled): a time limit for the connection test alone.
TestOverdue ==
    /\ Talking
    /\ Head(script) = "AT"
    /\ from_modem = {}
    /\ responsive => to_modem = <<>>
    /\ UNCHANGED <<from_modem, responsive>>
    /\ Fail(to_modem)

\* The two seconds of the test or the ten of a command are over, and what was
\* read of the answer is dropped.  A responsive modem is never late.
AnswerOverdue ==
    /\ Talking
    /\ from_modem = {}
    /\ responsive => to_modem = <<>>
    /\ UNCHANGED <<from_modem, responsive>>
    /\ Fail(to_modem)

\* A write or a read fails, or reads nothing: the port was hung up, and what it
\* held is gone.
PortFails ==
    /\ Talking
    /\ ~responsive
    /\ from_modem' = {}
    /\ UNCHANGED responsive
    /\ Fail(to_modem)

-----------------------------------------------------------------------------
(***************************************************************************)
(* The loop and the callers.                                               *)
(***************************************************************************)

\* The loop runs between dialogues.  What the modem was sent online and has
\* not answered is still to be answered when the worker goes offline.
InLoop(step) ==
    /\ ~Talking
    /\ step
    /\ IF status = "Online" /\ status' # "Online"
       THEN /\ to_modem' \in {<<>>, <<"AT+CMGS">>}
            /\ from_modem' = {}
            /\ UNCHANGED <<script, response, powered, responsive, behind, flawed>>
       ELSE UNCHANGED dialogue

WorkerStep ==
    \/ HandleWorkerEvent
    \/ StartNext
    \/ FailActiveOnShutdown
    \/ RejectOnShutdown
    \/ QueueRejected
    \/ GoOffline
    \/ RejectWhenOffline

LoopStep == InLoop(WorkerStep)
LineStep == InLoop(\E line \in Lines : ProcessLine(line))
PortStep == InLoop(ReadPort \/ PortFailed)
TimerStep == InLoop(CommandTimeout)
CallerStep == Callers /\ UNCHANGED dialogue

-----------------------------------------------------------------------------
(***************************************************************************)
(* The modem, during a dialogue and offline.                               *)
(***************************************************************************)
ModemActs ==
    /\ status # "Online"
    /\ powered
    /\ to_modem # <<>>
    /\ WorkerWaits
    /\ UNCHANGED <<script, response, powered, responsive, behind>>

Accept ==
    /\ ModemActs
    /\ from_modem' = from_modem \cup {Prints(Head(to_modem))}
    /\ to_modem' = AfterLine(to_modem)
    /\ UNCHANGED flawed

\* The command is refused, or lost in a modem that is not ready.
Refuse ==
    /\ ~responsive
    /\ ModemActs
    /\ Head(to_modem) # "FinalOK"
    /\ from_modem' \in {from_modem, from_modem \cup {"ERROR"}}
    /\ to_modem' = Tail(to_modem)
    /\ flawed' = TRUE

\* The modem is back to stay.
Recover ==
    /\ ~responsive
    /\ powered \/ (GpioEnabled /\ GpioRepower)
    /\ responsive' = TRUE
    /\ WorkerWaits
    /\ UNCHANGED <<script, response, port, powered, behind, flawed>>

DialogueNext ==
    \/ Begin
    \/ Hear
    \/ AnswerOverdue
    \/ PortFails
    \/ LoopStep
    \/ LineStep
    \/ PortStep
    \/ TimerStep
    \/ CallerStep
    \/ Accept
    \/ Refuse
    \/ Recover

DialogueSpec == DialogueInit /\ [][DialogueNext]_dialogueVars

(***************************************************************************)
(* Fairness.  The task runs.  The select of the Offline arm is not biased: *)
(* of the branches that are ready again and again each is taken in the     *)
(* end, the reconnection too, whose interval ticks for ever.  A responsive *)
(* modem answers.                                                          *)
(***************************************************************************)
DialogueFairness ==
    /\ SF_dialogueVars(Begin)
    /\ WF_dialogueVars(Hear)
    /\ WF_dialogueVars(AnswerOverdue)
    /\ SF_dialogueVars(LoopStep)
    /\ WF_dialogueVars(LineStep)
    /\ SF_dialogueVars(TimerStep)
    /\ WF_dialogueVars(responsive /\ Accept)

DialogueFairSpec == DialogueSpec /\ DialogueFairness /\ MessagesComplete

-----------------------------------------------------------------------------
(***************************************************************************)
(* Properties.                                                             *)
(***************************************************************************)
\* Every variable keeps its type, and the task is where a dialogue can be.
DialogueTypeOK ==
    /\ TypeOK
    /\ script \in {SubSeq(Script, i, Len(Script)) : i \in 1..Len(Script) + 1}
    /\ response \in SUBSET {"+CPMS"}
    /\ to_modem \in Seq(Sent) /\ Len(to_modem) <= Backlog
    /\ from_modem \in SUBSET Answers
    /\ {powered, responsive, flawed} \subseteq BOOLEAN
    /\ behind \in 0..Backlog
    /\ Talking => pc = "init" \/ Selecting("Offline")

\* The modem comes online at most one answer behind, and without GNSS that one
\* is the final OK of the last command: a set-up that takes the answers of
\* earlier commands for those of its own ends at AT+CPMS, the one command that
\* is recognised by its answer (worker.rs:319).  That is so unless it began as
\* many answers behind as there are commands up to AT+CPMS: the AT+CPMS of an
\* earlier set-up can then be among them, and is answered in its turn.
OnlyOneAnswerBehind ==
    [][status # "Online" /\ status' = "Online" /\ behind < Len(Mandatory) =>
          /\ from_modem' = {}
          /\ Len(to_modem') <= 1
          /\ ~GnssEnabled => to_modem' \in {<<>>, <<"FinalOK">>}]_dialogueVars

\* A set-up that began with no answer outstanding brings the modem online only
\* if the modem accepted each of its commands, and leaves no answer behind.
InStepMeansConfigured ==
    [][(status # "Online" /\ status' = "Online" /\ behind = 0) => Quiet' /\ ~flawed']_dialogueVars

\* A modem that answers goes online, once no answer is outstanding.
InStepGoesOnline == (responsive /\ Quiet /\ status # "Online") ~> (status = "Online")

\* docs/events.md:87 says of the status event that it is sent "when the modem
\* serial connection has been detected as offline or when connection is
\* re-established": a modem that is back, and answers, would be seen online.
ReestablishedIsOnline == responsive ~> (status = "Online")
=============================================================================
