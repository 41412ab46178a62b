------------------------------ MODULE ModemLink ------------------------------
(***************************************************************************)
(* The worker of ModemWorker.tla with a modem at the other end of the      *)
(* serial line.  The modem is external: it is modelled from how the worker *)
(* talks to it.  It works through what is written to it in order and in    *)
(* its own time, so an answer may come after its command has timed out;    *)
(* AT+CMGS puts it into PDU entry, where it prints a prompt and takes what *)
(* follows for the text of the message; it prints unsolicited messages     *)
(* between answers.                                                        *)
(*                                                                         *)
(* Values = Commands here: the value of a result line is the command it    *)
(* answers, e.g. the message reference of that SMS.                        *)
(***************************************************************************)
EXTENDS ModemWorker

CONSTANT MaxUnsolicited   \* bound: unsolicited messages in a behaviour

ASSUME ValuesAreCommands == Values = Commands

VARIABLES
    to_modem,     \* what was written to the port and the modem has not taken
    from_modem,   \* lines the modem has printed and the worker has not processed
    modem,        \* [mode, cmd]: "ready", or "pdu" with the message due
    unsolicited   \* how many unsolicited messages the modem has printed

link == <<to_modem, from_modem, modem, unsolicited>>
linkVars == <<vars, link>>

Ready == [mode |-> "ready", cmd |-> NoCommand]
PduEntry(c) == [mode |-> "pdu", cmd |-> c]

LinkInit ==
    /\ Init
    /\ to_modem = <<>>
    /\ from_modem = <<>>
    /\ modem = Ready
    /\ unsolicited = 0

-----------------------------------------------------------------------------
(***************************************************************************)
(* The worker's side of the line.                                          *)
(***************************************************************************)

\* A write that succeeds puts the bytes of the event on the line.
WriteOrStatus ==
    /\ HandleWorkerEvent
    /\ to_modem' = IF Head(events).type # "SetStatus" /\ status' = "Online"
                   THEN Append(to_modem, Head(events)) ELSE to_modem
    /\ UNCHANGED <<from_modem, modem, unsolicited>>

\* A read returns bytes the modem has printed, which may end within a line.
ReadLines ==
    /\ ReadPort
    /\ lines' + (IF partial' THEN 1 ELSE 0) <= Len(from_modem)
    /\ UNCHANGED link

ProcessNext ==
    /\ from_modem # <<>>
    /\ ProcessLine(Head(from_modem))
    /\ from_modem' = Tail(from_modem)
    /\ UNCHANGED <<to_modem, modem, unsolicited>>

\* line_buffer.clear() destroys the half of a line that has been read: its other
\* half comes as a line of its own, or is nothing but the line end.
Timeout ==
    /\ CommandTimeout
    /\ IF partial /\ ~partial'
       THEN \E half \in {<<>>, <<Plain("Text")>>} : from_modem' = half \o Tail(from_modem)
       ELSE UNCHANGED from_modem
    /\ UNCHANGED <<to_modem, modem, unsolicited>>

\* The connection test and the initialisation commands are answered by a modem
\* that is not in PDU entry; read_response_until_ok swallows what else it prints.
\* A set-up that began with no answer outstanding leaves none behind
\* (InStepMeansConfigured of ModemDialogue.tla); the others are not modelled here.
Reinitialize ==
    /\ Initialize \/ Reconnect
    /\ status' = "Online" => modem = Ready
    /\ IF status' = "Online"
       THEN to_modem' = <<>> /\ from_modem' = <<>>
       ELSE UNCHANGED <<to_modem, from_modem>>
    /\ UNCHANGED <<modem, unsolicited>>

\* Every other step of the worker and its callers leaves the line alone.
OffTheLine ==
    /\ \/ Callers
       \/ StartNext
       \/ PortFailed
       \/ FailActiveOnShutdown
       \/ RejectOnShutdown
       \/ QueueRejected
       \/ GoOffline
       \/ RejectWhenOffline
    /\ UNCHANGED link

-----------------------------------------------------------------------------
(***************************************************************************)
(* The modem.                                                              *)
(***************************************************************************)
Prints(ls) == from_modem' = from_modem \o ls
Takes(type, c) ==
    /\ to_modem # <<>>
    /\ Head(to_modem) = [type |-> type, cmd |-> c]
    /\ to_modem' = Tail(to_modem)
    /\ main_tx' = <<>>
    /\ UNCHANGED <<machine, caller, status, pc, queue, lines, partial, unsolicited>>

Succeeds(c) == <<Result(RequestOf[c], c), Plain("OK")>>
Refuses == {<<Plain("ERROR")>>, <<Plain("CME")>>}

\* AT+CMGS asks for the PDU, a query is answered, and either may be refused.
AnswerCommand(c) ==
    /\ modem = Ready
    /\ Takes("WriteAT", c)
    /\ \/ RequestOf[c] = "SendSMS" /\ Prints(<<Plain("Prompt")>>) /\ modem' = PduEntry(c)
       \/ RequestOf[c] # "SendSMS" /\ Prints(Succeeds(c)) /\ UNCHANGED modem
       \/ \E r \in Refuses : Prints(r) /\ UNCHANGED modem

\* In PDU entry an AT command is text like any other: it spoils the message due.
TakeAsText(c) ==
    /\ modem.mode = "pdu"
    /\ Takes("WriteAT", c)
    /\ modem' = PduEntry(NoCommand)
    /\ UNCHANGED from_modem

\* CTRL+Z ends the entry: the message is sent, or refused.
SubmitPdu(c) ==
    /\ modem.mode = "pdu"
    /\ Takes("WritePDU", c)
    /\ \/ modem.cmd = c /\ Prints(Succeeds(c))
       \/ \E r \in Refuses : Prints(r)
    /\ modem' = Ready

\* A message or report with its content on the next line, a registration status
\* in one line, a shutdown notice.
Announcements == {<<Header("IncomingSMS"), Plain("Text")>>,
                  <<Header("NetworkStatusChange")>>,
                  <<Header("ShuttingDown")>>}

Announce ==
    /\ modem = Ready
    /\ unsolicited < MaxUnsolicited
    /\ unsolicited' = unsolicited + 1
    /\ \E a \in Announcements : Prints(a)
    /\ main_tx' = <<>>
    /\ UNCHANGED <<machine, caller, status, pc, queue, lines, partial, to_modem, modem>>

\* The power is cycled: whatever the modem was doing is gone.
PowerCycle ==
    /\ status = "Offline"
    /\ modem # Ready
    /\ modem' = Ready
    /\ to_modem' = <<>>
    /\ main_tx' = <<>>
    /\ UNCHANGED <<machine, caller, status, pc, queue, lines, partial, from_modem, unsolicited>>

ModemStep ==
    \/ \E c \in Commands : AnswerCommand(c) \/ TakeAsText(c) \/ SubmitPdu(c)
    \/ Announce
    \/ PowerCycle

LinkNext ==
    \/ OffTheLine
    \/ WriteOrStatus
    \/ ReadLines
    \/ ProcessNext
    \/ Timeout
    \/ Reinitialize
    \/ ModemStep

LinkSpec == LinkInit /\ [][LinkNext]_linkVars

-----------------------------------------------------------------------------
(***************************************************************************)
(* Properties.                                                             *)
(***************************************************************************)
LinkTypeOK ==
    /\ TypeOK
    /\ to_modem \in Seq(WorkerEvents \ {SetShuttingDown})
    /\ from_modem \in Seq(Lines)
    /\ modem \in {Ready} \cup {PduEntry(c) : c \in Commands \cup {NoCommand}}
    /\ lines <= Len(from_modem)

\* An answer goes to one command only.  When it goes to another than its own, it
\* is one that its own command missed: that one is no longer waiting for it, and
\* has not been given it as well.
OnlyMissedAnswersStray ==
    \A c, d \in Commands :
        slot[c] = Ok(d) /\ c # d => slot[d] \notin {Empty, Ok(d)}

\* A PDU reaches the modem only in PDU entry: in command mode its digits would
\* be read as commands (prompt_handler writes one PDU for one prompt).
PduOnlyInPduEntry ==
    (to_modem # <<>> /\ Head(to_modem).type = "WritePDU") => modem.mode = "pdu"

\* docs/events.md:30 gives each message the message_reference "assigned by the
\* modem or carrier" to find its delivery report by: a message that is reported
\* as sent would carry its own.
OwnReference == \A c, d \in Commands : slot[c] = Ok(d) => c = d
=============================================================================
