----------------------------- MODULE SmsStoreProofs -----------------------------
(***************************************************************************)
(* Theorems about SmsStore: what the tables messages and delivery_reports  *)
(* say is true, whatever the statements that fail and the order in which   *)
(* the modem, the carrier and the tasks of the server come to act.         *)
(***************************************************************************)
EXTENDS SmsStore, SequenceTheorems, WellFoundedInduction, TLAPS

-----------------------------------------------------------------------------
(***************************************************************************)
(* Types.                                                                  *)
(***************************************************************************)
References0 == 0..(References - 1)

LEMMA ReferenceInRange ==
    ASSUME NEW n \in Nat
    PROVE  n % References \in References0
  BY ReferencesAssumption DEF References0

LEMMA PhoneOfMessage ==
    ASSUME NEW m \in Messages
    PROVE  PhoneOf[m] \in Phones
  BY SMTT(30) DEF Phones

\* Max of the community modules is a CHOOSE: it is what it is called in a set
\* that is bounded and not empty, because there is a least bound.
LEMMA MaxOfBounded ==
    ASSUME NEW n \in Nat, NEW S \in SUBSET (0..n), S # {}
    PROVE  Max(S) \in S /\ \A y \in S : Max(S) >= y
  <1> DEFINE Bounds == {m \in Nat : \A y \in S : y <= m}
  <1>1. n \in Bounds
    OBVIOUS
  <1>2. PICK m \in Bounds : \A y \in Bounds : m <= y
    <2>1. \E m \in Bounds : \A y \in Bounds : ~(<<y, m>> \in OpToRel(<, Nat))
      <3> HIDE DEF Bounds
      <3>1. Bounds \subseteq Nat
        BY DEF Bounds
      <3>2. QED
        BY <1>1, <3>1, NatLessThanWellFounded, WFMin
    <2>2. \A x, y \in Nat : y < x => <<y, x>> \in OpToRel(<, Nat)
      BY DEF OpToRel
    <2>3. PICK m \in Bounds : \A y \in Bounds : ~(y < m)
      BY <2>1, <2>2
    <2>4. QED
      BY <2>3
  <1>3. m \in S
    <2>1. SUFFICES ASSUME m \notin S PROVE FALSE
      OBVIOUS
    <2>2. m # 0
      <3>1. PICK y \in S : TRUE
        OBVIOUS
      <3>2. QED
        BY <2>1, <3>1
    <2>3. m - 1 \in Bounds
      BY <2>1, <2>2
    <2>4. QED
      BY <1>2, <2>3
  <1>4. QED
    BY <1>3 DEF Max

\* The row a report is for, when there is one.
LEMMA TargetRow ==
    ASSUME NEW report, Len(rows) \in Nat, Targets(report) # {}
    PROVE  LET row == Max(Targets(report))
           IN  /\ row \in 1..Len(rows)
               /\ ~rows[row].completed
               /\ rows[row].phone = report.phone
               /\ rows[row].reference = report.reference
  <1>1. Targets(report) \in SUBSET (0..Len(rows))
    BY DEF Targets
  <1>2. Max(Targets(report)) \in Targets(report)
    BY <1>1, MaxOfBounded
  <1>3. QED
    BY <1>2 DEF Targets

ReceiverTypeOK ==
    \/ receiver = Waiting
    \/ receiver \in [pc : {"insert", "update"}, report : Reports, row : 1..Len(rows)]

\* What send_sms knows of a message after any of its steps.
LEMMA SenderSteps ==
    ASSUME NEW s \in Senders
    PROVE  /\ \A pc \in {"send", "insert", "announce", "done", "refused", "failed"} :
                [s EXCEPT !.pc = pc] \in Senders
           /\ [s EXCEPT !.response = ErrorResponse] \in Senders
           /\ [pc |-> "send", part |-> s.part + 1, response |-> Pending] \in Senders
           /\ s.part \in Nat \ {0}
  <1> DEFINE Responses ==
        {Pending, ErrorResponse} \cup {SendResult(r) : r \in 0..(References - 1)}
  <1>1. Senders = [pc : {"send", "insert", "announce", "done", "refused", "failed"},
                   part : Nat \ {0}, response : Responses]
    BY DEF Senders
  <1>2. Pending \in Responses /\ ErrorResponse \in Responses
    OBVIOUS
  <1> HIDE DEF Responses
  <1>3. QED
    BY <1>1, <1>2

LEMMA TypeNext == TypeOK /\ [Next]_vars => TypeOK'
  <1> SUFFICES ASSUME TypeOK, [Next]_vars PROVE TypeOK'
    OBVIOUS
  <1>0. /\ Len(accepted) \in Nat /\ Len(rows) \in Nat /\ Len(main_rx) \in Nat
        /\ \A m \in Messages : /\ sender[m] \in Senders
                               /\ sender[m].part \in Nat \ {0}
    BY DEF TypeOK, Senders
  <1>1. ASSUME NEW m \in Messages, Accept(m) PROVE TypeOK'
    <2> DEFINE part == Part(m, sender[m].part, Len(accepted) % References)
    <2>1. part \in Parts
      BY <1>0, ReferenceInRange DEF Part, Parts, References0
    <2>2. accepted' \in Seq(Parts)
      BY <1>1, <2>1, AppendProperties DEF Accept, TypeOK
    <2>3. carrier' \subseteq [part : Parts, left : 1..MaxReports]
      BY <1>1, <2>1, MaxReportsAssumption DEF Accept, TypeOK
    <2>4. sender' \in [Messages -> Senders]
      <3>1. SendResult(part.reference) \in {SendResult(r) : r \in 0..(References - 1)}
        BY <2>1 DEF Parts
      <3>2. QED
        BY <1>0, <1>1, <3>1 DEF Accept, TypeOK, Senders
    <2>5. QED
      BY <1>1, <2>2, <2>3, <2>4 DEF Accept, TypeOK, receiving
  <1>2. ASSUME NEW m \in Messages,
               Refuse(m) \/ HandleResponse(m) \/ SendFails(m) \/ Announce(m)
        PROVE  TypeOK'
    <2>1. sender[m] \in Senders
      BY DEF TypeOK
    <2>2. PICK s \in Senders : sender' = [sender EXCEPT ![m] = s]
      <3>1. CASE Refuse(m)
        BY <2>1, <3>1, SenderSteps DEF Refuse
      <3>2. CASE HandleResponse(m)
        BY <2>1, <3>2, SenderSteps DEF HandleResponse
      <3>3. CASE SendFails(m)
        BY <2>1, <3>3, SenderSteps DEF SendFails
      <3>4. CASE Announce(m)
        BY <2>1, <3>4, SenderSteps DEF Announce
      <3>5. QED
        BY <1>2, <3>1, <3>2, <3>3, <3>4
    <2>3. sender' \in [Messages -> Senders]
      BY <2>2 DEF TypeOK
    <2>4. QED
      BY <1>2, <2>3 DEF Refuse, HandleResponse, SendFails, Announce, TypeOK, receiving
  <1>3. ASSUME NEW m \in Messages, InsertMessage(m) PROVE TypeOK'
    <2>1. sender' \in [Messages -> Senders]
      <3>1. PICK s \in Senders : sender' = [sender EXCEPT ![m] = s]
        BY <1>0, <1>3, SenderSteps DEF InsertMessage
      <3>2. QED
        BY <3>1 DEF TypeOK
    <2>2. CASE UNCHANGED rows
      BY <1>3, <2>1, <2>2 DEF InsertMessage, TypeOK, receiving
    <2>3. CASE rows' = Append(rows, Row(m, sender[m].response.reference))
      <3>1. sender[m].response.reference \in 0..(References - 1)
        BY <1>0, ReferencesAssumption DEF Senders, Pending, ErrorResponse, SendResult
      <3>2. Row(m, sender[m].response.reference) \in Rows
        BY <3>1, PhoneOfMessage DEF Row, Rows
      <3>3. rows' \in Seq(Rows) /\ 1..Len(rows) \subseteq 1..Len(rows')
        BY <1>0, <2>3, <3>2, AppendProperties DEF TypeOK
      <3>4. ReceiverTypeOK'
        BY <1>3, <3>3 DEF InsertMessage, TypeOK, receiving, ReceiverTypeOK
      <3>5. reports' \in Seq([row : 1..Len(rows'), report : Reports])
        <4>1. [row : 1..Len(rows), report : Reports]
              \subseteq [row : 1..Len(rows'), report : Reports]
          BY <3>3
        <4>2. reports' = reports
          BY <1>3 DEF InsertMessage, receiving
        <4>3. QED
          BY <4>1, <4>2, SeqMonotonic DEF TypeOK
      <3>6. QED
        BY <1>3, <2>1, <3>3, <3>4, <3>5 DEF InsertMessage, TypeOK, ReceiverTypeOK
    <2>4. QED
      BY <1>3, <2>2, <2>3 DEF InsertMessage
  <1>4. ASSUME NEW due \in carrier, NEW status \in Statuses, ReportDelivery(due, status)
        PROVE  TypeOK'
    <2>1. /\ due.part \in Parts /\ due.left \in 1..MaxReports
          /\ due = [part |-> due.part, left |-> due.left]
      BY DEF TypeOK
    <2>2. Report(due.part, status) \in Reports
      BY <2>1, PhoneOfMessage DEF Report, Reports, Parts
    <2>3. main_rx' \in Seq(Reports)
      BY <1>4, <2>2, AppendProperties DEF ReportDelivery, TypeOK
    <2>4. carrier' \subseteq [part : Parts, left : 1..MaxReports]
      <3>1. [due EXCEPT !.left = @ - 1] = [part |-> due.part, left |-> due.left - 1]
        BY <2>1
      <3>2. due.left # 1 => [due EXCEPT !.left = @ - 1] \in [part : Parts, left : 1..MaxReports]
        BY <2>1, <3>1, MaxReportsAssumption
      <3>3. QED
        BY <1>4, <3>2 DEF ReportDelivery, TypeOK
    <2>5. QED
      BY <1>4, <2>3, <2>4 DEF ReportDelivery, TypeOK, receiving
  <1>5. CASE FindTarget
    <2>1. Head(main_rx) \in Reports /\ main_rx' \in Seq(Reports)
      BY <1>5, HeadTailProperties DEF FindTarget, TypeOK
    <2>2. ReceiverTypeOK'
      BY <1>0, <1>5, <2>1, TargetRow DEF FindTarget, TypeOK, ReceiverTypeOK
    <2>3. QED
      BY <1>5, <2>1, <2>2 DEF FindTarget, TypeOK, ReceiverTypeOK, sending
  <1>6. CASE InsertReport
    <2>1. receiver \in [pc : {"insert", "update"}, report : Reports, row : 1..Len(rows)]
      BY <1>6 DEF InsertReport, TypeOK, Waiting
    <2>2. reports' \in Seq([row : 1..Len(rows), report : Reports])
      <3> DEFINE Entries == [row : 1..Len(rows), report : Reports]
                 entry   == [row |-> receiver.row, report |-> receiver.report]
      <3>1. entry \in Entries
        BY <2>1
      <3>2. reports \in Seq(Entries) /\ (reports' = Append(reports, entry) \/ reports' = reports)
        BY <1>6 DEF InsertReport, TypeOK
      <3> HIDE DEF Entries, entry
      <3>3. reports' \in Seq(Entries)
        BY <3>1, <3>2, AppendProperties
      <3>4. QED
        BY <3>3 DEF Entries
    <2>3. ReceiverTypeOK'
      BY <1>6, <2>1 DEF InsertReport, ReceiverTypeOK
    <2>4. QED
      BY <1>6, <2>2, <2>3 DEF InsertReport, TypeOK, ReceiverTypeOK, sending
  <1>7. CASE UpdateStatus
    <2>1. receiver \in [pc : {"insert", "update"}, report : Reports, row : 1..Len(rows)]
      BY <1>7 DEF UpdateStatus, TypeOK, Waiting
    <2>2. rows' \in Seq(Rows) /\ Len(rows') = Len(rows)
      <3> DEFINE row == receiver.row
                 new == Updated(rows[row], receiver.report.status)
      <3>1. row \in 1..Len(rows) /\ rows \in Seq(Rows) /\ rows[row] \in Rows
        BY <2>1, ElementOfSeq DEF TypeOK
      <3>2. receiver.report.status \in Statuses
        BY <2>1 DEF Reports
      <3>3. new \in Rows
        <4> DEFINE final == rows[row].completed \/ receiver.report.status \in Final
        <4>1. final \in BOOLEAN
          BY <3>1 DEF Rows
        <4>2. new = [rows[row] EXCEPT !.status = receiver.report.status, !.completed = final]
          BY DEF Updated
        <4> HIDE DEF final, new
        <4>3. QED
          BY <3>1, <3>2, <4>1, <4>2 DEF Rows
      <3>4. rows' = rows \/ rows' = [rows EXCEPT ![row] = new]
        BY <1>7 DEF UpdateStatus
      <3> HIDE DEF row, new
      <3>5. QED
        BY <3>1, <3>3, <3>4, ExceptSeq
    <2>3. QED
      BY <1>7, <2>2 DEF UpdateStatus, TypeOK, sending
  <1>8. CASE UNCHANGED vars
    BY <1>8 DEF vars, sending, receiving, TypeOK
  <1>9. QED
    BY <1>1, <1>2, <1>3, <1>4, <1>5, <1>6, <1>7, <1>8 DEF Next

-----------------------------------------------------------------------------
(***************************************************************************)
(* The inductive invariant: what the tasks know of one another.            *)
(***************************************************************************)
AcceptedPart(m, p, reference) ==
    \E k \in 1..Len(accepted) : accepted[k] = Part(m, p, reference)

Answered(m) == sender[m].response \notin {Pending, ErrorResponse}
Sent == {"insert", "announce", "done"}

\* send_sms goes from one part to the next, and to its insert, on the modem's
\* references alone.
SenderKnows(m) ==
    /\ sender[m].part <= PartsOf[m]
    /\ sender[m].pc \in Sent \cup {"send"} =>
         \A p \in 1..(sender[m].part - 1) :
            \E reference \in References0 : AcceptedPart(m, p, reference)
    /\ sender[m].pc \in Sent \cup {"send"} /\ Answered(m) =>
         AcceptedPart(m, sender[m].part, sender[m].response.reference)
    /\ sender[m].pc \in Sent => Answered(m) /\ sender[m].part = PartsOf[m]

\* A row is its message's only one.
RowsAreSent ==
    \A i \in 1..Len(rows) :
        LET m == rows[i].msg
        IN  /\ sender[m].pc \in {"announce", "done"}
            /\ rows[i].phone = PhoneOf[m]
            /\ rows[i].reference = sender[m].response.reference
            /\ \A j \in 1..Len(rows) : rows[j].msg = m => j = i

\* A report is about a part the modem has accepted.
Genuine(report) ==
    /\ report.phone = PhoneOf[report.msg]
    /\ AcceptedPart(report.msg, report.part, report.reference)

ReportsAreGenuine ==
    /\ \A due \in carrier : AcceptedPart(due.part.msg, due.part.part, due.part.reference)
    /\ \A i \in 1..Len(main_rx) : Genuine(main_rx[i])
    /\ receiver # Waiting => Genuine(receiver.report)
    /\ \A i \in 1..Len(reports) : Genuine(reports[i].report)

Fits(report, row) == rows[row].phone = report.phone /\ rows[row].reference = report.reference

\* A report is for a row with its number and reference, which is not completed
\* before this report is through: the receiver is the only one to complete rows.
ReportsFit ==
    /\ receiver # Waiting => /\ Fits(receiver.report, receiver.row)
                             /\ ~rows[receiver.row].completed
    /\ \A i \in 1..Len(reports) : Fits(reports[i].report, reports[i].row)

\* The report whose status is about to be set is in the table.
UpdateIsEntered ==
    receiver # Waiting /\ receiver.pc = "update" =>
        \E j \in 1..Len(reports) :
            reports[j].row = receiver.row /\ reports[j].report = receiver.report

StoreInv ==
    /\ TypeOK
    /\ \A m \in Messages : SenderKnows(m)
    /\ RowsAreSent
    /\ ReportsAreGenuine
    /\ ReportsFit
    /\ UpdateIsEntered
    /\ StatusHasItsReport

LEMMA AcceptedGrows ==
    ASSUME TypeOK, [Next]_vars
    PROVE  \A m, p, r : AcceptedPart(m, p, r) => AcceptedPart(m, p, r)'
  <1>1. CASE UNCHANGED accepted
    BY <1>1 DEF AcceptedPart
  <1>2. ASSUME NEW part, accepted' = Append(accepted, part)
        PROVE  \A m, p, r : AcceptedPart(m, p, r) => AcceptedPart(m, p, r)'
    <2>1. /\ Len(accepted) \in Nat
          /\ Len(accepted') = Len(accepted) + 1
          /\ \A k \in 1..Len(accepted) : accepted'[k] = accepted[k]
      BY <1>2 DEF TypeOK
    <2>2. QED
      BY <2>1 DEF AcceptedPart
  <1>3. QED
    BY <1>1, <1>2
       DEF Next, vars, sending, Accept, Refuse, HandleResponse, SendFails, InsertMessage,
           Announce, ReportDelivery, FindTarget, InsertReport, UpdateStatus

LEMMA AcceptedNow ==
    ASSUME TypeOK, NEW m \in Messages, Accept(m),
           NEW p, p = sender[m].part, NEW r, r = Len(accepted) % References
    PROVE  AcceptedPart(m, p, r)'
  <1>1. accepted' = Append(accepted, Part(m, p, r)) /\ Len(accepted) \in Nat
    BY DEF Accept, TypeOK
  <1>2. Len(accepted) + 1 \in 1..Len(accepted') /\ accepted'[Len(accepted) + 1] = Part(m, p, r)
    BY <1>1 DEF TypeOK
  <1>3. QED
    BY <1>2 DEF AcceptedPart

\* A step that is not one of m's own leaves what it knows.
LEMMA SenderKept ==
    ASSUME TypeOK, [Next]_vars, NEW m \in Messages, SenderKnows(m), sender'[m] = sender[m]
    PROVE  SenderKnows(m)'
  BY AcceptedGrows DEF SenderKnows, Answered

LEMMA SenderKnowsNext ==
    ASSUME TypeOK, NEW n \in Messages, SenderKnows(n), [Next]_vars
    PROVE  SenderKnows(n)'
  <1>0. /\ sender[n] \in Senders /\ DOMAIN sender = Messages
        /\ sender[n].part \in Nat \ {0} /\ PartsOf[n] \in Nat \ {0}
    BY PartsAssumption DEF TypeOK, Senders
  <1>1. CASE sender'[n] = sender[n]
    BY <1>1, SenderKept
  <1>2. CASE Accept(n)
    <2>1. PICK p, r : p = sender[n].part /\ r = Len(accepted) % References
      OBVIOUS
    <2>2. AcceptedPart(n, p, r)'
      BY <1>2, <2>1, AcceptedNow
    <2>3. /\ sender'[n].pc = sender[n].pc /\ sender'[n].part = sender[n].part
          /\ sender'[n].response = IF sender[n].response = Pending THEN SendResult(r)
                                   ELSE sender[n].response
      BY <1>0, <1>2, <2>1 DEF Accept, Senders, Part
    <2>4. CASE sender[n].response = Pending
      BY <2>1, <2>2, <2>3, <2>4, AcceptedGrows DEF SenderKnows, Answered, SendResult
    <2>5. CASE sender[n].response # Pending
      BY <2>3, <2>5, AcceptedGrows DEF SenderKnows, Answered
    <2>6. QED
      BY <2>4, <2>5
  <1>3. CASE Refuse(n)
    BY <1>0, <1>3, AcceptedGrows DEF Refuse, SenderKnows, Answered, Senders
  <1>4. CASE HandleResponse(n)
    <2> DEFINE s == sender[n]
    <2>1. s.pc = "send" /\ s.response # Pending
      BY <1>4 DEF HandleResponse
    <2>2. CASE s.response = ErrorResponse
      <3>1. sender'[n].pc = "refused" /\ sender'[n].part = s.part
        BY <1>0, <1>4, <2>2 DEF HandleResponse, Senders
      <3>2. QED
        BY <3>1 DEF SenderKnows, Sent
    <2>3. CASE Answered(n) /\ s.part < PartsOf[n]
      <3>1. sender'[n] = [pc |-> "send", part |-> s.part + 1, response |-> Pending]
        BY <1>0, <1>4, <2>3 DEF HandleResponse, Answered
      <3>2. s.response.reference \in References0
        BY <1>0, ReferencesAssumption, <2>3
           DEF Senders, Answered, Pending, ErrorResponse, SendResult, References0
      <3>3. \A p \in 1..s.part : \E reference \in References0 : AcceptedPart(n, p, reference)
        BY <1>0, <2>1, <2>3, <3>2 DEF SenderKnows, Sent
      <3>4. QED
        BY <1>0, <2>3, <3>1, <3>3, AcceptedGrows DEF SenderKnows, Answered, Sent
    <2>4. CASE Answered(n) /\ ~(s.part < PartsOf[n])
      <3>1. /\ sender'[n].pc = "insert" /\ sender'[n].part = s.part
            /\ sender'[n].response = s.response
        BY <1>0, <1>4, <2>4 DEF HandleResponse, Answered, Senders
      <3>2. QED
        BY <1>0, <2>1, <2>4, <3>1, AcceptedGrows DEF SenderKnows, Answered, Sent
    <2>5. QED
      BY <2>1, <2>2, <2>3, <2>4 DEF Answered
  <1>5. CASE SendFails(n) \/ InsertMessage(n) \/ Announce(n)
    <2>1. /\ sender'[n].part = sender[n].part
          /\ sender'[n].response = sender[n].response
      BY <1>0, <1>5 DEF SendFails, InsertMessage, Announce, Senders
    <2>2. \/ sender'[n].pc = "failed"
          \/ sender[n].pc \in Sent /\ sender'[n].pc \in Sent
      BY <1>0, <1>5 DEF SendFails, InsertMessage, Announce, Senders, Sent
    <2>3. QED
      BY <2>1, <2>2, AcceptedGrows DEF SenderKnows, Answered, Sent
  <1>6. CASE \E m \in Messages \ {n} :
               \/ Accept(m) \/ Refuse(m)
               \/ HandleResponse(m) \/ SendFails(m) \/ InsertMessage(m) \/ Announce(m)
    <2>1. sender'[n] = sender[n]
      BY <1>0, <1>6 DEF Accept, Refuse, HandleResponse, SendFails, InsertMessage, Announce
    <2>2. QED
      BY <1>1, <2>1
  <1>7. CASE UNCHANGED sender
    BY <1>1, <1>7, SMTT(30)
  <1>8. QED
    BY <1>2, <1>3, <1>4, <1>5, <1>6, <1>7
       DEF Next, vars, sending, ReportDelivery, FindTarget, InsertReport, UpdateStatus

LEMMA SentStays ==
    ASSUME TypeOK, [Next]_vars, NEW m \in Messages, sender[m].pc \in {"announce", "done"}
    PROVE  /\ sender'[m].pc \in {"announce", "done"}
           /\ sender'[m].response = sender[m].response
  <1>1. sender[m] \in Senders /\ DOMAIN sender = Messages
    BY DEF TypeOK
  <1>2. CASE sender'[m] = sender[m]
    BY <1>2
  <1>3. CASE Announce(m)
    BY <1>1, <1>3 DEF Announce, Senders
  <1>4. QED
    BY <1>1, <1>2, <1>3
       DEF Next, vars, sending, Accept, Refuse, HandleResponse, SendFails, InsertMessage,
           Announce, ReportDelivery, FindTarget, InsertReport, UpdateStatus

\* What a step of the receiver does to the rows.
LEMMA RowUpdated ==
    ASSUME TypeOK, UpdateStatus, rows' # rows
    PROVE  /\ receiver.row \in 1..Len(rows)
           /\ receiver # Waiting /\ receiver.pc = "update"
           /\ Len(rows') = Len(rows)
           /\ \A i \in 1..Len(rows) : i # receiver.row => rows'[i] = rows[i]
           /\ rows'[receiver.row].msg = rows[receiver.row].msg
           /\ rows'[receiver.row].phone = rows[receiver.row].phone
           /\ rows'[receiver.row].reference = rows[receiver.row].reference
           /\ rows'[receiver.row].status = receiver.report.status
           /\ rows'[receiver.row].completed <=>
                 rows[receiver.row].completed \/ receiver.report.status \in Final
  <1> DEFINE row == receiver.row
             new == Updated(rows[row], receiver.report.status)
  <1>1. receiver # Waiting /\ receiver.pc = "update"
    BY DEF UpdateStatus, Waiting
  <1>2. row \in 1..Len(rows) /\ rows \in Seq(Rows)
    BY <1>1 DEF TypeOK
  <1>3. rows' = [rows EXCEPT ![row] = new]
    BY DEF UpdateStatus
  <1>4. \A i \in 1..Len(rows) : rows'[i] = IF i = row THEN new ELSE rows[i]
    <2> HIDE DEF row, new
    <2>1. QED
      BY <1>2, <1>3
  <1>5. Len(rows') = Len(rows)
    <2> HIDE DEF row, new
    <2>1. QED
      BY <1>2, <1>3
  <1>6. /\ new.msg = rows[row].msg /\ new.phone = rows[row].phone
        /\ new.reference = rows[row].reference
        /\ new.status = receiver.report.status
        /\ new.completed = (rows[row].completed \/ receiver.report.status \in Final)
    <2>1. rows[row] \in Rows
      BY <1>2, ElementOfSeq, SMTT(30)
    <2>2. QED
      BY <2>1 DEF Rows, Updated
  <1> HIDE DEF new
  <1>7. QED
    BY <1>1, <1>2, <1>4, <1>5, <1>6

LEMMA RowsKept ==
    ASSUME TypeOK, [Next]_vars
    PROVE  /\ Len(rows') >= Len(rows)
           /\ \A i \in 1..Len(rows) : /\ rows'[i].msg = rows[i].msg
                                      /\ rows'[i].phone = rows[i].phone
                                      /\ rows'[i].reference = rows[i].reference
  <1>0. Len(rows) \in Nat /\ \A i \in 1..Len(rows) : rows[i] \in Rows
    BY DEF TypeOK
  <1>1. CASE rows' = rows
    BY <1>0, <1>1
  <1>2. ASSUME NEW row, rows' = Append(rows, row)
        PROVE  Len(rows') >= Len(rows) /\ \A i \in 1..Len(rows) : rows'[i] = rows[i]
    BY <1>0, <1>2 DEF TypeOK
  <1>3. CASE UpdateStatus /\ rows' # rows
    BY <1>0, <1>3, RowUpdated, SMTT(30)
  <1>4. QED
    BY <1>1, <1>2, <1>3
       DEF Next, vars, sending, Accept, Refuse, HandleResponse, SendFails, InsertMessage,
           Announce, ReportDelivery, FindTarget, InsertReport, UpdateStatus

LEMMA RowsAreSentNext ==
    ASSUME TypeOK, RowsAreSent, [Next]_vars
    PROVE  RowsAreSent'
  <1>0. /\ Len(rows) \in Nat
        /\ \A i \in 1..Len(rows) : rows[i].msg \in Messages
    <2>1. Len(rows) \in Nat /\ \A i \in 1..Len(rows) : rows[i] \in Rows
      BY DEF TypeOK
    <2>2. QED
      BY <2>1 DEF Rows
  <1>1. ASSUME Len(rows') = Len(rows) PROVE RowsAreSent'
    <2>1. \A i \in 1..Len(rows) :
             LET m == rows[i].msg
             IN  /\ sender'[m].pc \in {"announce", "done"}
                 /\ sender'[m].response = sender[m].response
      BY <1>0, SentStays DEF RowsAreSent
    <2>2. \A i \in 1..Len(rows) : /\ rows'[i].msg = rows[i].msg
                                   /\ rows'[i].phone = rows[i].phone
                                   /\ rows'[i].reference = rows[i].reference
      BY RowsKept
    <2>3. QED
      BY <1>1, <2>1, <2>2 DEF RowsAreSent
  <1>2. ASSUME NEW m \in Messages, InsertMessage(m),
               rows' = Append(rows, Row(m, sender[m].response.reference))
        PROVE  RowsAreSent'
    <2> DEFINE n == Len(rows) + 1
    <2>1. Len(rows') = n /\ rows'[n] = Row(m, sender[m].response.reference)
          /\ \A i \in 1..Len(rows) : rows'[i] = rows[i]
      BY <1>2 DEF TypeOK
    <2>2. \A i \in 1..Len(rows) : rows[i].msg # m
      BY <1>2 DEF InsertMessage, RowsAreSent
    <2>3. sender'[m].pc = "announce" /\ sender'[m].response = sender[m].response
      BY <1>2, <2>1 DEF InsertMessage, TypeOK, Senders
    <2>4. SUFFICES ASSUME NEW i \in 1..n
                   PROVE  /\ sender'[rows'[i].msg].pc \in {"announce", "done"}
                          /\ rows'[i].phone = PhoneOf[rows'[i].msg]
                          /\ rows'[i].reference = sender'[rows'[i].msg].response.reference
                          /\ \A j \in 1..n : rows'[j].msg = rows'[i].msg => j = i
      BY <2>1 DEF RowsAreSent
    <2>5. CASE i = n
      BY <1>0, <2>1, <2>2, <2>3, <2>5 DEF Row
    <2>6. CASE i \in 1..Len(rows)
      BY <1>0, <2>1, <2>2, <2>6, SentStays, SMTT(30) DEF RowsAreSent, Row
    <2>7. QED
      BY <1>0, <2>5, <2>6
  <1>3. QED
    <2>1. CASE UpdateStatus
      BY <1>1, <2>1, RowUpdated
    <2>2. CASE UNCHANGED rows
      BY <1>1, <2>2
    <2>3. QED
      BY <1>2, <2>1, <2>2
         DEF Next, vars, sending, Accept, Refuse, HandleResponse, SendFails, InsertMessage,
             Announce, ReportDelivery, FindTarget, InsertReport

LEMMA GenuineKept ==
    ASSUME TypeOK, [Next]_vars
    PROVE  \A report : Genuine(report) => Genuine(report)'
  BY AcceptedGrows DEF Genuine

LEMMA ReportsAreGenuineNext ==
    ASSUME TypeOK, ReportsAreGenuine, [Next]_vars
    PROVE  ReportsAreGenuine'
  <1>1. \A due \in carrier' : AcceptedPart(due.part.msg, due.part.part, due.part.reference)'
    <2>1. CASE carrier' = carrier
      BY <2>1, AcceptedGrows DEF ReportsAreGenuine
    <2>2. ASSUME NEW m \in Messages, Accept(m)
          PROVE  \A due \in carrier' :
                    AcceptedPart(due.part.msg, due.part.part, due.part.reference)'
      <3>1. PICK p, r : p = sender[m].part /\ r = Len(accepted) % References
        OBVIOUS
      <3>2. AcceptedPart(m, p, r)'
        BY <2>2, <3>1, AcceptedNow
      <3>3. carrier' = carrier \cup {[part |-> Part(m, p, r), left |-> MaxReports]}
        BY <2>2, <3>1 DEF Accept
      <3>4. QED
        BY <3>2, <3>3, AcceptedGrows DEF ReportsAreGenuine, Part
    <2>3. ASSUME NEW due \in carrier, NEW status \in Statuses, ReportDelivery(due, status)
          PROVE  \A d \in carrier' : AcceptedPart(d.part.msg, d.part.part, d.part.reference)'
      <3>1. [due EXCEPT !.left = @ - 1].part = due.part
        BY DEF TypeOK
      <3>2. \A d \in carrier' : \E e \in carrier : d.part = e.part
        BY <2>3, <3>1 DEF ReportDelivery
      <3>3. QED
        BY <3>2, AcceptedGrows DEF ReportsAreGenuine
    <2>4. QED
      BY <2>1, <2>2, <2>3
         DEF Next, vars, sending, Refuse, HandleResponse, SendFails, InsertMessage,
             Announce, FindTarget, InsertReport, UpdateStatus
  <1>2. (\A i \in 1..Len(main_rx) : Genuine(main_rx[i]))'
    <2>1. CASE main_rx' = main_rx
      BY <2>1, GenuineKept DEF ReportsAreGenuine
    <2>2. ASSUME NEW due \in carrier, NEW status \in Statuses, ReportDelivery(due, status)
          PROVE  (\A i \in 1..Len(main_rx) : Genuine(main_rx[i]))'
      <3>1. Genuine(Report(due.part, status))
        BY DEF Genuine, Report, ReportsAreGenuine
      <3>2. \A i \in 1..Len(main_rx') :
               main_rx'[i] = IF i <= Len(main_rx) THEN main_rx[i] ELSE Report(due.part, status)
        BY <2>2, SMTT(30) DEF ReportDelivery, TypeOK
      <3>3. \A i \in 1..Len(main_rx') : i <= Len(main_rx) => i \in 1..Len(main_rx)
        BY DEF TypeOK
      <3>4. \A i \in 1..Len(main_rx') : Genuine(main_rx'[i])
        BY <3>1, <3>2, <3>3 DEF ReportsAreGenuine
      <3>5. QED
        BY <3>4, GenuineKept
    <2>3. ASSUME FindTarget
          PROVE  (\A i \in 1..Len(main_rx) : Genuine(main_rx[i]))'
      <3>1. \A i \in 1..Len(main_rx') :
               i + 1 \in 1..Len(main_rx) /\ main_rx'[i] = main_rx[i + 1]
        BY <2>3 DEF FindTarget, TypeOK
      <3>2. QED
        BY <3>1, GenuineKept DEF ReportsAreGenuine
    <2>4. QED
      BY <2>1, <2>2, <2>3
         DEF Next, vars, Accept, Refuse, HandleResponse, SendFails, InsertMessage,
             Announce, InsertReport, UpdateStatus
  <1>3. (receiver # Waiting => Genuine(receiver.report))'
    <2>1. CASE receiver' = receiver
      BY <2>1, GenuineKept DEF ReportsAreGenuine
    <2>2. ASSUME FindTarget, receiver' # receiver
          PROVE  Genuine(receiver.report)'
      <3>1. receiver'.report = Head(main_rx) /\ Head(main_rx) = main_rx[1] /\ 1 \in 1..Len(main_rx)
        BY <2>2 DEF FindTarget, TypeOK
      <3>2. QED
        BY <3>1, GenuineKept DEF ReportsAreGenuine
    <2>3. ASSUME InsertReport, receiver' # Waiting
          PROVE  Genuine(receiver.report)'
      <3>1. receiver # Waiting /\ receiver'.report = receiver.report
        BY <2>3, SMTT(30) DEF InsertReport, TypeOK, Waiting
      <3>2. QED
        BY <3>1, GenuineKept DEF ReportsAreGenuine
    <2>4. QED
      BY <2>1, <2>2, <2>3
         DEF Next, vars, receiving, Accept, Refuse, HandleResponse, SendFails, InsertMessage,
             Announce, ReportDelivery, UpdateStatus
  <1>4. (\A i \in 1..Len(reports) : Genuine(reports[i].report))'
    <2>1. CASE reports' = reports
      BY <2>1, GenuineKept DEF ReportsAreGenuine
    <2>2. ASSUME InsertReport, reports' # reports
          PROVE  (\A i \in 1..Len(reports) : Genuine(reports[i].report))'
      <3>1. Genuine(receiver.report)
        BY <2>2 DEF InsertReport, Waiting, ReportsAreGenuine
      <3>2. \A i \in 1..Len(reports') :
               \/ reports'[i].report = receiver.report
               \/ i \in 1..Len(reports) /\ reports'[i] = reports[i]
        BY <2>2 DEF InsertReport, TypeOK
      <3>3. QED
        BY <3>1, <3>2, GenuineKept DEF ReportsAreGenuine
    <2>3. QED
      BY <2>1, <2>2
         DEF Next, vars, receiving, Accept, Refuse, HandleResponse, SendFails, InsertMessage,
             Announce, ReportDelivery, FindTarget, UpdateStatus
  <1>5. QED
    BY <1>1, <1>2, <1>3, <1>4 DEF ReportsAreGenuine

\* Only an update changes a row that is there.
LEMMA RowsOnlyUpdated ==
    ASSUME TypeOK, [Next]_vars, ~UpdateStatus
    PROVE  /\ Len(rows') >= Len(rows)
           /\ \A i \in 1..Len(rows) : rows'[i] = rows[i]
  <1>0. Len(rows) \in Nat
    BY DEF TypeOK
  <1>1. ASSUME NEW row, rows' = Append(rows, row)
        PROVE  Len(rows') >= Len(rows) /\ \A i \in 1..Len(rows) : rows'[i] = rows[i]
    BY <1>0, <1>1 DEF TypeOK
  <1>2. CASE rows' = rows
    BY <1>0, <1>2
  <1>3. QED
    BY <1>1, <1>2
       DEF Next, vars, sending, Accept, Refuse, HandleResponse, SendFails, InsertMessage,
           Announce, ReportDelivery, FindTarget, InsertReport

\* What a report is entered with.
LEMMA ReceiverReport ==
    ASSUME TypeOK, receiver # Waiting
    PROVE  /\ receiver.row \in 1..Len(rows)
           /\ receiver.report \in Reports
           /\ receiver.report.status \in Statuses
  BY SMTT(30) DEF TypeOK, Reports

LEMMA ReportEntered ==
    ASSUME TypeOK, [Next]_vars
    PROVE  /\ Len(reports') >= Len(reports)
           /\ \A i \in 1..Len(reports) : reports'[i] = reports[i]
           /\ \A i \in 1..Len(reports') :
                 \/ i \in 1..Len(reports)
                 \/ /\ receiver # Waiting
                    /\ reports'[i].row = receiver.row /\ reports'[i].report = receiver.report
  <1>0. Len(reports) \in Nat
    BY DEF TypeOK
  <1>1. CASE reports' = reports
    BY <1>0, <1>1
  <1>2. CASE InsertReport /\ reports' # reports
    <2>1. receiver # Waiting
      BY <1>2 DEF InsertReport, Waiting
    <2>2. reports' = Append(reports, [row |-> receiver.row, report |-> receiver.report])
      BY <1>2, SMTT(30) DEF InsertReport
    <2>3. QED
      BY <1>0, <2>1, <2>2 DEF TypeOK
  <1>3. QED
    BY <1>1, <1>2
       DEF Next, vars, receiving, Accept, Refuse, HandleResponse, SendFails, InsertMessage,
           Announce, ReportDelivery, FindTarget, UpdateStatus

\* The receiver goes on with the report and the row it has, or takes a report
\* from the channel and finds a row for it.
LEMMA ReceiverSteps ==
    ASSUME TypeOK, [Next]_vars, receiver' # Waiting
    PROVE  /\ ~UpdateStatus
           /\ \/ /\ receiver # Waiting
                 /\ receiver'.row = receiver.row /\ receiver'.report = receiver.report
              \/ /\ receiver'.pc = "insert"
                 /\ receiver'.row \in 1..Len(rows)
                 /\ ~rows[receiver'.row].completed
                 /\ Fits(receiver'.report, receiver'.row)
  <1>1. CASE receiver' = receiver
    BY <1>1 DEF UpdateStatus
  <1>2. CASE FindTarget
    <2>1. Len(rows) \in Nat
      BY DEF TypeOK
    <2>2. receiver' = receiver \/ Targets(Head(main_rx)) # {}
      BY <1>2 DEF FindTarget
    <2>3. CASE receiver' # receiver
      BY <1>2, <2>1, <2>2, <2>3, TargetRow DEF FindTarget, Fits, UpdateStatus
    <2>4. QED
      BY <1>1, <2>3
  <1>3. CASE InsertReport
    BY <1>3 DEF InsertReport, UpdateStatus, TypeOK, Waiting
  <1>4. QED
    BY <1>1, <1>2, <1>3
       DEF Next, vars, receiving, Accept, Refuse, HandleResponse, SendFails, InsertMessage,
           Announce, ReportDelivery, UpdateStatus

LEMMA ReportsFitNext ==
    ASSUME TypeOK, ReportsFit, [Next]_vars
    PROVE  ReportsFit'
  <1>1. \A report : \A row \in 1..Len(rows) : Fits(report, row) => Fits(report, row)'
    BY RowsKept DEF Fits
  <1>2. (receiver # Waiting => /\ Fits(receiver.report, receiver.row)
                               /\ ~rows[receiver.row].completed)'
    <2>1. SUFFICES ASSUME receiver' # Waiting
                   PROVE  (Fits(receiver.report, receiver.row) /\ ~rows[receiver.row].completed)'
      OBVIOUS
    <2>2. /\ receiver'.row \in 1..Len(rows)
          /\ ~rows[receiver'.row].completed
          /\ Fits(receiver'.report, receiver'.row)
      BY <2>1, ReceiverSteps, ReceiverReport DEF ReportsFit
    <2>3. rows'[receiver'.row] = rows[receiver'.row]
      BY <2>1, <2>2, ReceiverSteps, RowsOnlyUpdated
    <2>4. QED
      BY <2>2, <2>3 DEF Fits
  <1>3. (\A i \in 1..Len(reports) : Fits(reports[i].report, reports[i].row))'
    <2>1. \A i \in 1..Len(reports) : reports[i].row \in 1..Len(rows)
      <3> DEFINE Entries == [row : 1..Len(rows), report : Reports]
      <3>1. \A entry \in Entries : entry.row \in 1..Len(rows)
        OBVIOUS
      <3>2. reports \in Seq(Entries)
        BY DEF TypeOK
      <3> HIDE DEF Entries
      <3>3. QED
        BY <3>1, <3>2, ElementOfSeq
    <2>2. \A i \in 1..Len(reports') : /\ reports'[i].row \in 1..Len(rows)
                                      /\ Fits(reports'[i].report, reports'[i].row)
      BY <2>1, ReportEntered, ReceiverReport, SMTT(30) DEF ReportsFit
    <2>3. QED
      BY <1>1, <2>2
  <1>4. QED
    BY <1>2, <1>3 DEF ReportsFit

LEMMA UpdateIsEnteredNext ==
    ASSUME TypeOK, UpdateIsEntered, [Next]_vars
    PROVE  UpdateIsEntered'
  <1>1. CASE receiver' = receiver
    <2>1. Len(reports) \in Nat /\ Len(reports') \in Nat
      BY TypeNext DEF TypeOK
    <2>2. SUFFICES ASSUME receiver # Waiting, receiver.pc = "update"
                   PROVE  \E j \in 1..Len(reports') :
                             /\ reports'[j].row = receiver.row
                             /\ reports'[j].report = receiver.report
      BY <1>1 DEF UpdateIsEntered
    <2>3. PICK j \in 1..Len(reports) :
                  reports[j].row = receiver.row /\ reports[j].report = receiver.report
      BY <2>2 DEF UpdateIsEntered
    <2>4. j \in 1..Len(reports') /\ reports'[j] = reports[j]
      BY <2>1, ReportEntered
    <2>5. QED
      BY <2>3, <2>4
  <1>2. CASE InsertReport /\ receiver' # Waiting
    <2>1. reports' = Append(reports, [row |-> receiver.row, report |-> receiver.report])
      BY <1>2 DEF InsertReport
    <2>2. receiver'.row = receiver.row /\ receiver'.report = receiver.report
      BY <1>2 DEF InsertReport, TypeOK, Waiting
    <2>3. Len(reports) + 1 \in 1..Len(reports')
          /\ reports'[Len(reports) + 1] = [row |-> receiver.row, report |-> receiver.report]
      BY <2>1 DEF TypeOK
    <2>4. QED
      BY <2>2, <2>3 DEF UpdateIsEntered
  <1>3. CASE receiver' = Waiting \/ receiver'.pc = "insert"
    BY <1>3 DEF UpdateIsEntered
  <1>4. QED
    BY <1>1, <1>2, <1>3
       DEF Next, vars, receiving, Accept, Refuse, HandleResponse, SendFails, InsertMessage,
           Announce, ReportDelivery, FindTarget, UpdateStatus

LEMMA StatusHasItsReportNext ==
    ASSUME TypeOK, ReportsFit, UpdateIsEntered, StatusHasItsReport, [Next]_vars
    PROVE  StatusHasItsReport'
  <1> DEFINE Backed(i, status, entries) ==
        \E j \in 1..Len(entries) : entries[j].row = i /\ entries[j].report.status = status
  <1>3. \A i, status : Backed(i, status, reports) => Backed(i, status, reports')
    <2>1. Len(reports) \in Nat /\ Len(reports') \in Nat
      BY ReportEntered, TypeNext DEF TypeOK
    <2>2. \A j \in 1..Len(reports) : j \in 1..Len(reports') /\ reports'[j] = reports[j]
      BY <2>1, ReportEntered
    <2>3. QED
      BY <2>2
  <1>1. \A i \in 1..Len(rows) :
           \/ rows[i].status = "Sent" /\ ~rows[i].completed
           \/ (rows[i].completed <=> rows[i].status \in Final) /\ Backed(i, rows[i].status, reports)
    BY DEF StatusHasItsReport
  <1>2. ASSUME \A i \in 1..Len(rows') :
                   \/ rows'[i].status = "Sent" /\ ~rows'[i].completed
                   \/ /\ rows'[i].completed <=> rows'[i].status \in Final
                      /\ Backed(i, rows'[i].status, reports')
         PROVE  StatusHasItsReport'
    BY <1>2 DEF StatusHasItsReport
  <1>4. CASE UpdateStatus /\ rows' # rows
    <2>1. Backed(receiver.row, receiver.report.status, reports)
      BY <1>4, RowUpdated DEF UpdateIsEntered
    <2>2. Backed(receiver.row, receiver.report.status, reports')
      BY <1>3, <2>1
    <2>3. ~rows[receiver.row].completed
      BY <1>4, RowUpdated DEF ReportsFit
    <2> HIDE DEF Backed
    <2>4. QED
      BY <1>1, <1>2, <1>3, <1>4, <2>2, <2>3, RowUpdated
  <1>5. CASE rows' = rows
    <2> HIDE DEF Backed
    <2>1. \A i \in 1..Len(rows') :
             \/ rows'[i].status = "Sent" /\ ~rows'[i].completed
             \/ /\ rows'[i].completed <=> rows'[i].status \in Final
                /\ Backed(i, rows'[i].status, reports')
      BY <1>1, <1>3, <1>5
    <2>2. QED
      BY <1>2, <2>1
  <1>6. ASSUME NEW m \in Messages, NEW reference, rows' = Append(rows, Row(m, reference))
        PROVE  StatusHasItsReport'
    <2>1. \A i \in 1..Len(rows') : \/ i \in 1..Len(rows) /\ rows'[i] = rows[i]
                                   \/ rows'[i] = Row(m, reference)
      BY <1>6 DEF TypeOK
    <2>2. Row(m, reference).status = "Sent" /\ ~Row(m, reference).completed
      BY DEF Row
    <2> HIDE DEF Backed
    <2>3. ASSUME NEW i \in 1..Len(rows')
          PROVE  \/ rows'[i].status = "Sent" /\ ~rows'[i].completed
                 \/ /\ rows'[i].completed <=> rows'[i].status \in Final
                    /\ Backed(i, rows'[i].status, reports')
      <3>1. CASE i \in 1..Len(rows) /\ rows'[i] = rows[i]
        BY <1>1, <1>3, <3>1
      <3>2. CASE rows'[i] = Row(m, reference)
        BY <2>2, <3>2
      <3>3. QED
        BY <2>1, <3>1, <3>2
    <2>4. QED
      BY <1>2, <2>3
  <1>7. QED
    BY <1>4, <1>5, <1>6
       DEF Next, vars, sending, Accept, Refuse, HandleResponse, SendFails, InsertMessage,
           Announce, ReportDelivery, FindTarget, InsertReport

LEMMA StoreInvInit == Init => StoreInv
  <1>1. ASSUME Init PROVE TypeOK
    BY <1>1, ReferencesAssumption DEF Init, TypeOK, Senders
  <1>2. ASSUME Init PROVE \A m \in Messages : SenderKnows(m)
    BY <1>2, PartsAssumption DEF Init, SenderKnows, Answered, Sent
  <1>3. QED
    BY <1>1, <1>2
       DEF Init, StoreInv, RowsAreSent, ReportsAreGenuine, ReportsFit, UpdateIsEntered,
           StatusHasItsReport

LEMMA StoreInvNext == StoreInv /\ [Next]_vars => StoreInv'
  <1> SUFFICES ASSUME StoreInv, [Next]_vars PROVE StoreInv'
    OBVIOUS
  <1>1. TypeOK /\ TypeOK'
    BY TypeNext DEF StoreInv
  <1>2. (\A m \in Messages : SenderKnows(m))'
    BY <1>1, SenderKnowsNext DEF StoreInv
  <1>3. RowsAreSent' /\ ReportsAreGenuine' /\ ReportsFit'
    BY <1>1, RowsAreSentNext, ReportsAreGenuineNext, ReportsFitNext DEF StoreInv
  <1>4. UpdateIsEntered' /\ StatusHasItsReport'
    BY <1>1, UpdateIsEnteredNext, StatusHasItsReportNext DEF StoreInv
  <1>5. QED
    BY <1>1, <1>2, <1>3, <1>4 DEF StoreInv

LEMMA StoreInvHolds == Spec => []StoreInv
  BY StoreInvInit, StoreInvNext, PTL DEF Spec

-----------------------------------------------------------------------------
(***************************************************************************)
(* Theorems.                                                               *)
(***************************************************************************)
\* The parts of a row's message, as the modem answered them.
LEMMA RowParts ==
    ASSUME StoreInv, NEW i \in 1..Len(rows)
    PROVE  LET m == rows[i].msg
           IN  /\ m \in Messages
               /\ rows[i].phone = PhoneOf[m]
               /\ PartsOf[m] \in Nat \ {0}
               /\ \A p \in 1..PartsOf[m] :
                    \E reference : /\ AcceptedPart(m, p, reference)
                                   /\ p = PartsOf[m] => reference = rows[i].reference
               /\ AcceptedPart(m, PartsOf[m], rows[i].reference)
  <1> DEFINE m == rows[i].msg
  <1>1. m \in Messages /\ PartsOf[m] \in Nat \ {0}
    <2>1. rows[i] \in Rows
      BY ElementOfSeq DEF StoreInv, TypeOK
    <2>2. QED
      BY <2>1, PartsAssumption DEF Rows
  <1>2. /\ sender[m].pc \in {"announce", "done"}
        /\ rows[i].phone = PhoneOf[m]
        /\ rows[i].reference = sender[m].response.reference
    BY DEF StoreInv, RowsAreSent
  <1>3. SenderKnows(m)
    BY <1>1 DEF StoreInv
  <1>4. /\ sender[m].part = PartsOf[m]
        /\ AcceptedPart(m, PartsOf[m], rows[i].reference)
        /\ \A p \in 1..(PartsOf[m] - 1) : \E reference : AcceptedPart(m, p, reference)
    BY <1>2, <1>3 DEF SenderKnows, Sent
  <1>5. \A p \in 1..PartsOf[m] : p # PartsOf[m] => p \in 1..(PartsOf[m] - 1)
    BY <1>1
  <1>6. QED
    BY <1>1, <1>2, <1>4, <1>5

\* Every variable keeps its type, and every report the table holds is for a
\* row that exists.
THEOREM StoreTypeCorrect == Spec => []TypeOK
  <1>1. StoreInv => TypeOK
    BY DEF StoreInv
  <1>2. QED
    BY <1>1, StoreInvHolds, PTL

\* However the statements of send_sms fail, a message that is stored has been
\* accepted by the modem to its last part, and is stored once.
THEOREM StoresOnlyIfSent == Spec => []StoredOnlyIfSent
  <1>1. ASSUME StoreInv PROVE StoredOnlyIfSent
    <2>1. SUFFICES ASSUME NEW i \in 1..Len(rows), NEW p \in 1..PartsOf[rows[i].msg]
                   PROVE  \E k \in 1..Len(accepted) :
                             /\ accepted[k].msg = rows[i].msg /\ accepted[k].part = p
                             /\ p = PartsOf[rows[i].msg] =>
                                   accepted[k].reference = rows[i].reference
      BY <1>1 DEF StoredOnlyIfSent, StoreInv, RowsAreSent
    <2>2. PICK reference : /\ AcceptedPart(rows[i].msg, p, reference)
                           /\ p = PartsOf[rows[i].msg] => reference = rows[i].reference
      BY <1>1, RowParts
    <2>3. QED
      BY <2>2 DEF AcceptedPart, Part
  <1>2. QED
    BY <1>1, StoreInvHolds, PTL

\* A report that is entered for another message than its own has its number and
\* reference: the modem gave the same reference twice to parts for one number.
THEOREM EnteredForTheRightMessage == Spec => []RightMessage
  <1>1. ASSUME StoreInv PROVE RightMessage
    <2>1. SUFFICES ASSUME NEW i \in 1..Len(reports)
                   PROVE  LET r == reports[i].report
                          IN  \/ r.msg = rows[reports[i].row].msg /\ r.part = PartsOf[r.msg]
                              \/ \E j, k \in 1..Len(accepted) :
                                    /\ j # k
                                    /\ accepted[j].reference = r.reference
                                    /\ PhoneOf[accepted[j].msg] = r.phone
                                    /\ accepted[k].reference = r.reference
                                    /\ PhoneOf[accepted[k].msg] = r.phone
      BY DEF RightMessage
    <2> DEFINE r   == reports[i].report
               row == reports[i].row
               m   == rows[row].msg
    <2>2. row \in 1..Len(rows)
      <3> DEFINE Entries == [row : 1..Len(rows), report : Reports]
      <3>1. \A entry \in Entries : entry.row \in 1..Len(rows)
        OBVIOUS
      <3>2. reports \in Seq(Entries)
        BY <1>1 DEF StoreInv, TypeOK
      <3> HIDE DEF Entries
      <3>3. QED
        BY <3>1, <3>2, ElementOfSeq
    <2>3. r.phone = PhoneOf[r.msg] /\ AcceptedPart(r.msg, r.part, r.reference)
      BY <1>1 DEF StoreInv, ReportsAreGenuine, Genuine
    <2>4. rows[row].phone = r.phone /\ rows[row].reference = r.reference
      BY <1>1 DEF StoreInv, ReportsFit, Fits
    <2>5. PhoneOf[m] = r.phone /\ AcceptedPart(m, PartsOf[m], r.reference)
      BY <1>1, <2>2, <2>4, RowParts
    <2>6. PICK j \in 1..Len(accepted) : accepted[j] = Part(r.msg, r.part, r.reference)
      BY <2>3 DEF AcceptedPart
    <2>7. PICK k \in 1..Len(accepted) : accepted[k] = Part(m, PartsOf[m], r.reference)
      BY <2>5 DEF AcceptedPart
    <2>8. CASE j = k
      BY <2>6, <2>7, <2>8, SMTT(30) DEF Part
    <2>9. CASE j # k
      BY <2>3, <2>5, <2>6, <2>7, <2>9 DEF Part
    <2>10. QED
      BY <2>8, <2>9
  <1>2. QED
    BY <1>1, StoreInvHolds, PTL

\* Either statement of handle_delivery_report may fail: the status of a message
\* is still never one that no entered report gives.
THEOREM StatusIsBacked == Spec => []StatusHasItsReport
  <1>1. StoreInv => StatusHasItsReport
    BY DEF StoreInv
  <1>2. QED
    BY <1>1, StoreInvHolds, PTL

\* The row a report was found for is still not completed when its status is set,
\* though other tasks act in between.
THEOREM CompletedOnce == Spec => FinalStatusSticks
  <1>1. ASSUME StoreInv, [Next]_vars
        PROVE  [\A i \in 1..Len(rows) : rows[i].completed => rows'[i] = rows[i]]_vars
    <2>1. CASE ~UpdateStatus
      BY <1>1, <2>1, RowsOnlyUpdated DEF StoreInv
    <2>2. CASE UpdateStatus /\ rows' # rows
      BY <1>1, <2>2, RowUpdated DEF StoreInv, ReportsFit
    <2>3. QED
      BY <2>1, <2>2
  <1>2. QED
    BY <1>1, StoreInvHolds, PTL DEF Spec, FinalStatusSticks
=============================================================================
