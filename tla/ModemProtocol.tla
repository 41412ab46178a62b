---------------------------- MODULE ModemProtocol ----------------------------
(***************************************************************************)
(* The vocabulary the modem worker and the modem speak: the requests a     *)
(* caller may queue, the lines a modem may print, when a line completes a  *)
(* command, and what the worker sends back.  Translated from               *)
(* modem/types.rs, modem/commands.rs and modem/handlers.rs.                *)
(*                                                                         *)
(* A command is a model value: the OutgoingCommand of one send_request     *)
(* call, identified in the code by its sequence number.  The text of a     *)
(* result line is abstracted to the request whose prefix it carries and a  *)
(* value; Malformed stands for a text its parser rejects.                  *)
(***************************************************************************)
EXTENDS Naturals, Sequences

CONSTANTS
    Commands,    \* the send_request calls of a behaviour
    RequestOf,   \* the ModemRequest of each of them
    NoCommand,   \* "no command", for a state machine that executes none
    Values,      \* what a result line may report, e.g. message references
    Malformed,   \* the value of a result line its parser rejects
    NoValue      \* "no value"

Requests == {"SendSMS", "GetNetworkStatus", "GetSignalStrength",
             "GetNetworkOperator", "GetServiceProvider", "GetBatteryLevel",
             "GetGNSSStatus", "GetGNSSLocation"}

ASSUME RequestOfAssumption == RequestOf \in [Commands -> Requests]
ASSUME NoCommandAssumption == NoCommand \notin Commands
ASSUME ValuesAssumption == /\ Malformed \notin Values
                           /\ NoValue \notin Values \cup {Malformed}

\* enum ModemStatus
Statuses == {"Startup", "Online", "ShuttingDown", "Offline"}

\* enum CommandState
Phases == {"WaitingForOk", "WaitingForPrompt", "WaitingForData"}

\* enum UnsolicitedMessageKind, and which kinds put their content on the line
\* after the header.
Kinds == {"IncomingSMS", "DeliveryReport", "NetworkStatusChange",
          "ShuttingDown", "GNSSPositionReport"}
HasNextLine(kind) == kind \notin {"ShuttingDown", "GNSSPositionReport"}

-----------------------------------------------------------------------------
(***************************************************************************)
(* Lines.  "CME" stands for "+CME ERROR:" and "+CMS ERROR:", which the     *)
(* code never tells apart; "Text" for a line with no meaning of its own,   *)
(* e.g. the hex body of an SMS; "Result" for a line with the prefix of a   *)
(* request; "Header" for the first line of an unsolicited message.         *)
(***************************************************************************)
Plain(type)        == [type |-> type, of |-> "None", val |-> NoValue]
Result(request, v) == [type |-> "Result", of |-> request, val |-> v]
Header(kind)       == [type |-> "Header", of |-> kind, val |-> NoValue]

PlainTypes == {"OK", "ERROR", "CME", "Text", "Prompt"}
ResultLines == {Result(r, v) : r \in Requests, v \in Values \cup {Malformed}}
Lines == {Plain(t) : t \in PlainTypes} \cup ResultLines
             \cup {Header(k) : k \in Kinds}

\* ModemStateMachine::classify_line, for every line that is not a prompt: the
\* headers first, whatever the state machine is doing.
IsHeader(line) == line.type = "Header"
IsPrompt(line) == line.type = "Prompt"
IsData(line)   == ~IsHeader(line) /\ ~IsPrompt(line)

\* CommandState::is_complete
IsComplete(phase, line) ==
    \/ phase = "WaitingForOk" /\ line.type \in {"OK", "ERROR", "CME"}
    \/ phase = "WaitingForData" /\ \/ line.type \in {"OK", "ERROR"}
                                   \/ line.type = "Result" /\ line.of = "SendSMS"

\* ModemEventHandlers::command_sender: the phase a request starts in.
FirstPhase(request) ==
    IF request = "SendSMS" THEN "WaitingForPrompt" ELSE "WaitingForData"

-----------------------------------------------------------------------------
(***************************************************************************)
(* The oneshot channel of a command: Empty until the worker responds,      *)
(* Dropped when the worker's end, or the value sent to a caller that has   *)
(* gone, is destroyed.                                                     *)
(***************************************************************************)
Ok(v)   == [type |-> "Ok", val |-> v]
Error   == [type |-> "Error", val |-> NoValue]
Empty   == [type |-> "Empty", val |-> NoValue]
Dropped == [type |-> "Dropped", val |-> NoValue]

Responses == {Ok(v) : v \in Values} \cup {Error}
Slots     == Responses \cup {Empty, Dropped}

\* ModemEventHandlers::command_responder on the lines collected so far: an
\* answer must end with "OK", and the first line with the prefix of the request
\* must be there and parse.
Answer(found, line) ==
    IF line.type = "OK" /\ found \in Values THEN Ok(found) ELSE Error

\* ModemIncomingMessage, without its payload except for a change of status.
Message(type) == [type |-> type, previous |-> "None", current |-> "None"]
StatusUpdate(previous, current) ==
    [type |-> "ModemStatusUpdate", previous |-> previous, current |-> current]
Messages == {Message(k) : k \in Kinds}
                \cup {StatusUpdate(p, c) : p \in Statuses, c \in Statuses}
=============================================================================
