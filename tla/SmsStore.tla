------------------------------- MODULE SmsStore -------------------------------
(***************************************************************************)
(* sms/mod.rs (SMSManager::send_sms, SMSReceiver::handle_delivery_report)  *)
(* with the statements of sms/database.rs they issue: a message is sent,   *)
(* then stored, then announced by the task of its HTTP request, while the  *)
(* receiver task matches delivery reports to the messages that are stored. *)
(* Every await is a step of its own and every statement may fail.          *)
(*                                                                         *)
(* External: the modem, which gives each part it accepts a reference, and  *)
(* the carrier, which reports on parts in any order and whenever it likes. *)
(* The reference a response carries is its own part's; when it may not be  *)
(* is the subject of ModemLink.tla, incoming messages of SmsReceiver.tla.  *)
(***************************************************************************)
EXTENDS Naturals, Sequences, FiniteSets, SequencesExt

CONSTANTS
    Messages,       \* the send_sms calls
    PhoneOf,        \* the number each goes to
    PartsOf,        \* how many PDUs create_sms_requests makes of it
    NoMessage,
    References,     \* how many references the modem has before it starts again
    MaxReports      \* bound: reports of the carrier on one part

Phones == {PhoneOf[m] : m \in Messages}

ASSUME PartsAssumption == PartsOf \in [Messages -> Nat \ {0}]
ASSUME ReferencesAssumption == References \in Nat \ {0}
ASSUME MaxReportsAssumption == MaxReports \in Nat \ {0}

VARIABLES
    sender,       \* send_sms of each message: [pc, part, response]
    accepted,     \* history: the parts the modem has accepted, in order
    carrier,      \* what the carrier has still to report on
    main_rx,      \* reports on the main channel
    rows,         \* table messages: row ids are positions
    receiver,     \* handle_delivery_report: [pc, report, row]
    reports       \* table delivery_reports

sending == <<sender, accepted, carrier>>
receiving == <<receiver, reports>>
vars == <<sending, main_rx, rows, receiving>>

\* MessageStatus, as far as handle_delivery_report looks into it: success, a
\* permanent error and a status the library does not know are final.
Final == {"Received"}
Statuses == Final \cup {"TemporaryFailure"}

\* What the modem answers to a part: nothing yet, a reference, or an error.
Pending == [type |-> "Pending", reference |-> 0]
SendResult(reference) == [type |-> "SendResult", reference |-> reference]
ErrorResponse == [type |-> "Error", reference |-> 0]

Part(m, p, reference) == [msg |-> m, part |-> p, reference |-> reference]
Report(part, status) ==
    [phone |-> PhoneOf[part.msg], reference |-> part.reference, status |-> status,
     msg |-> part.msg, part |-> part.part]
Row(m, reference) ==
    [msg |-> m, phone |-> PhoneOf[m], reference |-> reference,
     status |-> "Sent", completed |-> FALSE]

NoReport == [phone |-> NoMessage, reference |-> 0, status |-> "Sent",
             msg |-> NoMessage, part |-> 0]
Waiting == [pc |-> "recv", report |-> NoReport, row |-> 0]

Init ==
    /\ sender = [m \in Messages |-> [pc |-> "send", part |-> 1, response |-> Pending]]
    /\ accepted = <<>>
    /\ carrier = {}
    /\ main_rx = <<>>
    /\ rows = <<>>
    /\ receiver = Waiting
    /\ reports = <<>>

-----------------------------------------------------------------------------
(***************************************************************************)
(* The modem and the carrier.                                              *)
(***************************************************************************)
\* A part is accepted for a caller that waits, or late, for one that has given up
\* or has had a timeout for its response.
Accept(m) ==
    LET part == Part(m, sender[m].part, Len(accepted) % References)
    IN  /\ sender[m].pc \in {"send", "refused", "failed"}
        /\ \A k \in 1..Len(accepted) : accepted[k].msg = m => accepted[k].part # part.part
        /\ accepted' = Append(accepted, part)
        /\ carrier' = carrier \cup {[part |-> part, left |-> MaxReports]}
        /\ sender' = [sender EXCEPT ![m].response =
                         IF @ = Pending THEN SendResult(part.reference) ELSE @]
        /\ UNCHANGED <<main_rx, rows, receiving>>

\* An error response: the modem refused the part, or the worker gave up on it.
Refuse(m) ==
    /\ sender[m].pc = "send" /\ sender[m].response = Pending
    /\ sender' = [sender EXCEPT ![m].response = ErrorResponse]
    /\ UNCHANGED <<accepted, carrier, main_rx, rows, receiving>>

\* One report about a part; the last if it is final.
ReportDelivery(due, status) ==
    /\ due \in carrier
    /\ main_rx' = Append(main_rx, Report(due.part, status))
    /\ carrier' = (carrier \ {due}) \cup
          (IF status \in Final \/ due.left = 1 THEN {} ELSE {[due EXCEPT !.left = @ - 1]})
    /\ UNCHANGED <<sender, accepted, rows, receiving>>

-----------------------------------------------------------------------------
(***************************************************************************)
(* SMSManager::send_sms with ModemSender::send_sms.                        *)
(***************************************************************************)

\* Variant (StoredOnlyIfSent): the parts after one that failed still count.
HandleResponseIgnoringErrors(m) ==
    /\ sender[m].pc = "send"
    /\ sender[m].response # Pending
    /\ sender' = [sender EXCEPT ![m] =
          IF @.part < PartsOf[m] THEN [pc |-> "send", part |-> @.part + 1, response |-> Pending]
          ELSE [@ EXCEPT !.pc = "insert"]]
    /\ UNCHANGED <<accepted, carrier, main_rx, rows, receiving>>

\* The response to a part: the next part, the end of the message, or an error
\* response, on which nothing is stored.
HandleResponse(m) ==
    /\ sender[m].pc = "send"
    /\ sender[m].response # Pending
    /\ sender' = [sender EXCEPT ![m] =
          IF @.response = ErrorResponse THEN [@ EXCEPT !.pc = "refused"]
          ELSE IF @.part < PartsOf[m]
               THEN [pc |-> "send", part |-> @.part + 1, response |-> Pending]
               ELSE [@ EXCEPT !.pc = "insert"]]
    /\ UNCHANGED <<accepted, carrier, main_rx, rows, receiving>>

\* send_request gives up or finds its channel closed; the modem may accept the
\* part all the same.
SendFails(m) ==
    /\ sender[m].pc = "send"
    /\ sender[m].response = Pending
    /\ sender' = [sender EXCEPT ![m].pc = "failed"]
    /\ UNCHANGED <<accepted, carrier, main_rx, rows, receiving>>

\* insert_message
InsertMessage(m) ==
    /\ sender[m].pc = "insert"
    /\ \/ /\ rows' = Append(rows, Row(m, sender[m].response.reference))
          /\ sender' = [sender EXCEPT ![m].pc = "announce"]
       \/ /\ sender' = [sender EXCEPT ![m].pc = "failed"]
          /\ UNCHANGED rows
    /\ UNCHANGED <<accepted, carrier, main_rx, receiving>>

\* The OutgoingMessage event
Announce(m) ==
    /\ sender[m].pc = "announce"
    /\ sender' = [sender EXCEPT ![m].pc = "done"]
    /\ UNCHANGED <<accepted, carrier, main_rx, rows, receiving>>

-----------------------------------------------------------------------------
(***************************************************************************)
(* SMSReceiver::handle_delivery_report.                                    *)
(***************************************************************************)

\* Variant (RightMessage): by the reference alone.
TargetsOfReference(report) ==
    {i \in 1..Len(rows) : /\ ~rows[i].completed
                          /\ rows[i].reference = report.reference}

\* Variant (FinalStatusSticks): completed messages too.
TargetsEvenCompleted(report) ==
    {i \in 1..Len(rows) : /\ rows[i].phone = report.phone
                          /\ rows[i].reference = report.reference}

\* The WHERE clause of get_delivery_report_target_message
Targets(report) ==
    {i \in 1..Len(rows) : /\ ~rows[i].completed
                          /\ rows[i].phone = report.phone
                          /\ rows[i].reference = report.reference}

\* Variant (TypeOK): no message found, and no early return.
FindTargetOrNone ==
    /\ receiver.pc = "recv"
    /\ main_rx # <<>>
    /\ receiver' = [pc |-> "insert", report |-> Head(main_rx),
                    row |-> Max({0} \cup Targets(Head(main_rx)))]
    /\ main_rx' = Tail(main_rx)
    /\ UNCHANGED <<sending, rows, reports>>

\* The latest message that fits the report; the DeliveryReport event goes out
\* with its id.  Without one, or if the query fails, the report is lost.
FindTarget ==
    /\ receiver.pc = "recv"
    /\ main_rx # <<>>
    /\ \/ /\ Targets(Head(main_rx)) # {}
          /\ receiver' = [pc |-> "insert", report |-> Head(main_rx),
                          row |-> Max(Targets(Head(main_rx)))]
       \/ UNCHANGED receiver
    /\ main_rx' = Tail(main_rx)
    /\ UNCHANGED <<sending, rows, reports>>

\* Variant (StatusHasItsReport): the update goes on though the insert failed.
InsertReportOrGoOn ==
    /\ receiver.pc = "insert"
    /\ \/ reports' = Append(reports, [row |-> receiver.row, report |-> receiver.report])
       \/ UNCHANGED reports
    /\ receiver' = [receiver EXCEPT !.pc = "update"]
    /\ UNCHANGED <<sending, main_rx, rows>>

\* insert_delivery_report; if it fails, the status is not updated.
InsertReport ==
    /\ receiver.pc = "insert"
    /\ \/ /\ reports' = Append(reports, [row |-> receiver.row, report |-> receiver.report])
          /\ receiver' = [receiver EXCEPT !.pc = "update"]
       \/ receiver' = Waiting /\ UNCHANGED reports
    /\ UNCHANGED <<sending, main_rx, rows>>

\* update_message_status: a final status sets completed_at, another leaves it as
\* it is.
Updated(row, status) ==
    [row EXCEPT !.status = status, !.completed = row.completed \/ status \in Final]

UpdateStatus ==
    /\ receiver.pc = "update"
    /\ \/ rows' = [rows EXCEPT ![receiver.row] = Updated(@, receiver.report.status)]
       \/ UNCHANGED rows
    /\ receiver' = Waiting
    /\ UNCHANGED <<sending, main_rx, reports>>

-----------------------------------------------------------------------------
Next ==
    \/ \E m \in Messages :
         \/ Accept(m) \/ Refuse(m)
         \/ HandleResponse(m) \/ SendFails(m) \/ InsertMessage(m) \/ Announce(m)
    \/ \E due \in carrier, status \in Statuses : ReportDelivery(due, status)
    \/ FindTarget
    \/ InsertReport
    \/ UpdateStatus

Spec == Init /\ [][Next]_vars
-----------------------------------------------------------------------------
(***************************************************************************)
(* Properties.                                                             *)
(***************************************************************************)
Senders == [pc : {"send", "insert", "announce", "done", "refused", "failed"}, part : Nat \ {0},
            response : {Pending, ErrorResponse} \cup {SendResult(r) : r \in 0..(References - 1)}]
Parts == [msg : Messages, part : Nat \ {0}, reference : 0..(References - 1)]
Reports == [phone : Phones, reference : 0..(References - 1), status : Statuses,
            msg : Messages, part : Nat \ {0}]
Rows == [msg : Messages, phone : Phones, reference : 0..(References - 1),
         status : Statuses \cup {"Sent"}, completed : BOOLEAN]

\* Every variable keeps its type; the row of a report exists (the foreign key of
\* delivery_reports).
TypeOK ==
    /\ sender \in [Messages -> Senders]
    /\ accepted \in Seq(Parts)
    /\ carrier \subseteq [part : Parts, left : 1..MaxReports]
    /\ main_rx \in Seq(Reports)
    /\ rows \in Seq(Rows)
    /\ \/ receiver = Waiting
       \/ receiver \in [pc : {"insert", "update"}, report : Reports, row : 1..Len(rows)]
    /\ reports \in Seq([row : 1..Len(rows), report : Reports])

\* A message is stored once, and only if the modem has accepted all its parts;
\* it is stored with the reference of the last one.
StoredOnlyIfSent ==
    \A i \in 1..Len(rows) :
        /\ \A j \in 1..Len(rows) : rows[j].msg = rows[i].msg => j = i
        /\ \A p \in 1..PartsOf[rows[i].msg] :
             \E k \in 1..Len(accepted) :
                /\ accepted[k].msg = rows[i].msg /\ accepted[k].part = p
                /\ p = PartsOf[rows[i].msg] => accepted[k].reference = rows[i].reference

\* A report is entered for its own message, unless the modem has given the same
\* reference to another part sent to the same number: 256 parts later at the
\* earliest.
RightMessage ==
    \A i \in 1..Len(reports) :
        LET r == reports[i].report
        IN  \/ r.msg = rows[reports[i].row].msg /\ r.part = PartsOf[r.msg]
            \/ \E j, k \in 1..Len(accepted) :
                  /\ j # k
                  /\ accepted[j].reference = r.reference /\ PhoneOf[accepted[j].msg] = r.phone
                  /\ accepted[k].reference = r.reference /\ PhoneOf[accepted[k].msg] = r.phone

\* What the messages table says of a delivery is backed by a report in the
\* delivery_reports table, though either statement may fail and leave the other.
StatusHasItsReport ==
    \A i \in 1..Len(rows) :
        \/ rows[i].status = "Sent" /\ ~rows[i].completed
        \/ /\ rows[i].completed <=> rows[i].status \in Final
           /\ \E j \in 1..Len(reports) :
                 reports[j].row = i /\ reports[j].report.status = rows[i].status

\* A message is completed once: no later report, of its own or of a message that
\* got the same reference, changes what is recorded of it.
FinalStatusSticks ==
    [][\A i \in 1..Len(rows) : rows[i].completed => rows'[i] = rows[i]]_vars

\* sms/mod.rs:149: the lookup by number and reference "will be fine" while fewer
\* than 255 messages await their reports.  The report on the last part of a
\* message that was sent would then find it.
ReportFindsItsMessage ==
    [][LET r == Head(main_rx)
       IN  (/\ Len(main_rx') < Len(main_rx)
            /\ Len(accepted) <= References
            /\ r.part = PartsOf[r.msg]
            /\ sender[r.msg].pc \notin {"failed", "refused"}) => Targets(r) # {}]_vars
=============================================================================
