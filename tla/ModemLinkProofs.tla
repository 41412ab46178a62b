--------------------------- MODULE ModemLinkProofs ---------------------------
(***************************************************************************)
(* Theorems about ModemLink, for every set of commands, every queue        *)
(* capacity, every number of lines in a read and any number of unsolicited *)
(* messages.                                                               *)
(***************************************************************************)
EXTENDS ModemLink, ModemWorkerProofs

-----------------------------------------------------------------------------
(***************************************************************************)
(* Sequences of which no element, or at most one, is in a set.             *)
(***************************************************************************)
NoneOf(q, P) == \A i \in 1..Len(q) : q[i] \notin P
OneOf(q, P) == \A i, j \in 1..Len(q) : q[i] \in P /\ q[j] \in P => i = j

LEMMA NoneThenOne ==
    ASSUME NEW q, NEW P, NoneOf(q, P) PROVE OneOf(q, P)
  BY DEF NoneOf, OneOf

LEMMA NoneOfEmpty ==
    ASSUME NEW P PROVE NoneOf(<<>>, P)
  BY DEF NoneOf

LEMMA NoneOfTail ==
    ASSUME NEW S, NEW q \in Seq(S), q # <<>>, NEW P, NoneOf(q, P)
    PROVE  NoneOf(Tail(q), P) /\ Head(q) \notin P
  BY TailFacts DEF NoneOf

LEMMA OneOfTail ==
    ASSUME NEW S, NEW q \in Seq(S), q # <<>>, NEW P, OneOf(q, P)
    PROVE  OneOf(Tail(q), P) /\ (Head(q) \in P => NoneOf(Tail(q), P))
  <1> DEFINE t == Tail(q)
  <1>1. /\ Head(q) = q[1]
        /\ Len(q) \in Nat /\ Len(q) > 0 /\ Len(t) = Len(q) - 1
        /\ \A i \in 1..Len(t) : t[i] = q[i + 1]
    BY TailFacts
  <1> HIDE DEF t
  <1>2. \A i \in 1..Len(t) : i + 1 \in 1..Len(q) /\ i + 1 # 1 /\ i \in Nat
    BY <1>1
  <1>3. OneOf(t, P)
    <2> SUFFICES ASSUME NEW i \in 1..Len(t), NEW j \in 1..Len(t), t[i] \in P, t[j] \in P
                 PROVE  i = j
      BY DEF OneOf
    <2>1. q[i + 1] \in P /\ q[j + 1] \in P
      BY <1>1
    <2>2. i + 1 = j + 1
      BY <1>2, <2>1 DEF OneOf
    <2>3. QED
      BY <1>2, <2>2
  <1>4. ASSUME Head(q) \in P PROVE NoneOf(t, P)
    BY <1>1, <1>2, <1>4 DEF OneOf, NoneOf
  <1>5. QED
    BY <1>3, <1>4 DEF t

\* A sequence followed by another.
LEMMA ConcatFacts ==
    ASSUME NEW S, NEW q \in Seq(S), NEW r \in Seq(S)
    PROVE  /\ q \o r \in Seq(S)
           /\ Len(q) \in Nat /\ Len(r) \in Nat
           /\ Len(q \o r) = Len(q) + Len(r)
           /\ \A i \in 1..Len(q) : (q \o r)[i] = q[i]
           /\ \A i \in 1..Len(q \o r) : i > Len(q) => i - Len(q) \in 1..Len(r)
                                                      /\ (q \o r)[i] = r[i - Len(q)]
  OBVIOUS

LEMMA NoneOfConcat ==
    ASSUME NEW S, NEW q \in Seq(S), NEW r \in Seq(S), NEW P, NoneOf(q, P), NoneOf(r, P)
    PROVE  NoneOf(q \o r, P)
  <1> DEFINE s == q \o r
  <1>1. \A i \in 1..Len(s) : (i \in 1..Len(q) /\ s[i] = q[i])
                             \/ (i - Len(q) \in 1..Len(r) /\ s[i] = r[i - Len(q)])
    BY ConcatFacts
  <1> HIDE DEF s
  <1>2. QED
    BY <1>1 DEF NoneOf, s

LEMMA OneOfConcat ==
    ASSUME NEW S, NEW q \in Seq(S), NEW r \in Seq(S), NEW P,
           \/ OneOf(q, P) /\ NoneOf(r, P)
           \/ NoneOf(q, P) /\ OneOf(r, P)
    PROVE  OneOf(q \o r, P)
  <1> DEFINE s == q \o r
  <1>1. \A i \in 1..Len(s) : i \in Nat
                             /\ \/ i \in 1..Len(q) /\ s[i] = q[i]
                                \/ i - Len(q) \in 1..Len(r) /\ s[i] = r[i - Len(q)]
    BY ConcatFacts
  <1>2. Len(q) \in Nat
    BY ConcatFacts
  <1> HIDE DEF s
  <1>3. SUFFICES ASSUME NEW i \in 1..Len(s), NEW j \in 1..Len(s), s[i] \in P, s[j] \in P
                 PROVE  i = j
    BY DEF OneOf, s
  <1>4. CASE OneOf(q, P) /\ NoneOf(r, P)
    <2>1. i \in 1..Len(q) /\ s[i] = q[i] /\ j \in 1..Len(q) /\ s[j] = q[j]
      BY <1>1, <1>3, <1>4 DEF NoneOf
    <2>2. QED
      BY <1>3, <1>4, <2>1 DEF OneOf
  <1>5. CASE NoneOf(q, P) /\ OneOf(r, P)
    <2>1. /\ i - Len(q) \in 1..Len(r) /\ s[i] = r[i - Len(q)]
          /\ j - Len(q) \in 1..Len(r) /\ s[j] = r[j - Len(q)]
      BY <1>1, <1>3, <1>5 DEF NoneOf
    <2>2. i - Len(q) = j - Len(q)
      BY <1>3, <1>5, <2>1 DEF OneOf
    <2>3. QED
      BY <1>1, <1>2, <2>2
  <1>6. QED
    BY <1>4, <1>5

\* One element more is a sequence of one element more.
LEMMA SingletonFacts ==
    ASSUME NEW S, NEW q \in Seq(S), NEW e \in S, NEW P
    PROVE  /\ <<e>> \in Seq(S)
           /\ Append(q, e) = q \o <<e>>
           /\ OneOf(<<e>>, P)
           /\ e \notin P => NoneOf(<<e>>, P)
  <1>1. <<e>> \in Seq(S) /\ Append(q, e) = q \o <<e>>
    OBVIOUS
  <1>2. Len(<<e>>) = 1 /\ <<e>>[1] = e /\ 1..1 = {1}
    OBVIOUS
  <1>3. QED
    BY <1>1, <1>2 DEF OneOf, NoneOf

LEMMA NoneOfAppend ==
    ASSUME NEW S, NEW q \in Seq(S), NEW e \in S, NEW P, NoneOf(q, P), e \notin P
    PROVE  NoneOf(Append(q, e), P)
  <1>1. <<e>> \in Seq(S) /\ Append(q, e) = q \o <<e>> /\ NoneOf(<<e>>, P)
    BY SingletonFacts
  <1>2. NoneOf(q \o <<e>>, P)
    BY <1>1, NoneOfConcat
  <1>3. QED
    BY <1>1, <1>2

LEMMA OneOfAppend ==
    ASSUME NEW S, NEW q \in Seq(S), NEW e \in S, NEW P,
           \/ OneOf(q, P) /\ e \notin P
           \/ NoneOf(q, P)
    PROVE  OneOf(Append(q, e), P)
  <1>1. /\ <<e>> \in Seq(S) /\ Append(q, e) = q \o <<e>>
        /\ OneOf(<<e>>, P) /\ (e \notin P => NoneOf(<<e>>, P))
    BY SingletonFacts
  <1>2. OneOf(q \o <<e>>, P)
    BY <1>1, OneOfConcat
  <1>3. QED
    BY <1>1, <1>2

-----------------------------------------------------------------------------
(***************************************************************************)
(* The worker at the line: what holds of it whatever the modem does.       *)
(***************************************************************************)
WorkerInv == Control /\ CommandConservation /\ WriteBeforeAnyAnswer

\* A step of the modem, which the worker does not see.
Unseen ==
    /\ main_tx' = <<>>
    /\ UNCHANGED <<machine, caller, status, pc, queue, lines, partial>>

LEMMA WorkerInvNext == WorkerInv /\ [Next]_vars => WorkerInv'
  <1>1. Control /\ [Next]_vars => Control'
    BY TypeNext, LoopControlNext, ExecutesOnlyOnlineNext DEF Control
  <1>2. Control => TypeOK
    BY DEF Control
  <1>3. QED
    BY <1>1, <1>2, StepRefines, ConservationNext, WriteBeforeAnyAnswerNext DEF WorkerInv

LEMMA WorkerInvUnseen == WorkerInv /\ Unseen => WorkerInv'
  <1> SUFFICES ASSUME WorkerInv, Unseen PROVE WorkerInv'
    OBVIOUS
  <1>1. TypeOK'
    BY DEF WorkerInv, Control, TypeOK, Unseen, machine, Outputs
  <1>2. (LoopControl /\ ExecutesOnlyOnline)'
    BY DEF WorkerInv, Control, LoopControl, ExecutesOnlyOnline, Active, Unseen, machine
  <1>3. CommandConservation'
    BY DEF WorkerInv, CommandConservation, Queued, Active, Unseen, machine
  <1>4. WriteBeforeAnyAnswer'
    BY DEF WorkerInv, WriteBeforeAnyAnswer, Unseen, machine
  <1>5. QED
    BY <1>1, <1>2, <1>3, <1>4 DEF WorkerInv, Control

LEMMA ModemStepUnseen == ModemStep => Unseen
  BY DEF ModemStep, AnswerCommand, TakeAsText, SubmitPdu, Takes, Announce, PowerCycle, Unseen

\* A step of the worker at the line is one of its steps.
LEMMA LinkStepIsWorkerStep ==
    ASSUME from_modem \in Seq(Lines),
           OffTheLine \/ WriteOrStatus \/ ReadLines \/ ProcessNext \/ Timeout \/ Reinitialize
    PROVE  Next
  <1>1. CASE OffTheLine
    BY <1>1 DEF OffTheLine, Next, Modem, Worker
  <1>2. CASE ProcessNext
    <2>1. Head(from_modem) \in Lines /\ ProcessLine(Head(from_modem))
      BY <1>2, TailFacts DEF ProcessNext
    <2>2. QED
      BY <2>1 DEF Next, Modem
  <1>3. CASE WriteOrStatus \/ ReadLines \/ Timeout \/ Reinitialize
    BY <1>3 DEF WriteOrStatus, ReadLines, Timeout, Reinitialize, Next, Modem, Worker
  <1>4. QED
    BY <1>1, <1>2, <1>3

LEMMA LinkStep ==
    ASSUME from_modem \in Seq(Lines), [LinkNext]_linkVars
    PROVE  [Next]_vars \/ Unseen
  BY LinkStepIsWorkerStep, ModemStepUnseen DEF LinkNext, linkVars

LEMMA WorkerInvLinkNext ==
    ASSUME from_modem \in Seq(Lines), WorkerInv, [LinkNext]_linkVars
    PROVE  WorkerInv'
  BY LinkStep, WorkerInvNext, WorkerInvUnseen

-----------------------------------------------------------------------------
(***************************************************************************)
(* Type correctness: every line the worker has counted, and the line whose *)
(* beginning it holds, are on the line.                                    *)
(***************************************************************************)
Writable == WorkerEvents \ {SetShuttingDown}
ModemStates == {Ready} \cup {PduEntry(c) : c \in Commands \cup {NoCommand}}

LineInv ==
    /\ WorkerInv
    /\ to_modem \in Seq(Writable)
    /\ from_modem \in Seq(Lines)
    /\ modem \in ModemStates
    /\ lines + (IF partial THEN 1 ELSE 0) <= Len(from_modem)
    /\ pc = "init" => ~partial

LEMMA LineInvTypes == LineInv => LinkTypeOK
  BY DEF LineInv, LinkTypeOK, WorkerInv, Control, TypeOK, Writable, ModemStates

\* What the modem prints are lines.
LEMMA PrintedLines ==
    /\ \A t \in PlainTypes : <<Plain(t)>> \in Seq(Lines)
    /\ \A c \in Commands : Succeeds(c) \in Seq(Lines)
    /\ \A r \in Refuses : r \in Seq(Lines)
    /\ \A a \in Announcements : a \in Seq(Lines)
    /\ <<>> \in Seq(Lines)
  <1>1. \A t \in PlainTypes : Plain(t) \in Lines
    BY DEF Lines
  <1>2. \A k \in Kinds : Header(k) \in Lines
    BY DEF Lines
  <1>3. ASSUME NEW c \in Commands PROVE Result(RequestOf[c], c) \in Lines
    <2>1. RequestOf[c] \in Requests /\ c \in Values
      BY RequestOfAssumption, ValuesAreCommands
    <2>2. QED
      BY <2>1 DEF Lines, ResultLines
  <1>4. /\ "OK" \in PlainTypes /\ "ERROR" \in PlainTypes /\ "CME" \in PlainTypes
        /\ "Text" \in PlainTypes
        /\ "IncomingSMS" \in Kinds /\ "NetworkStatusChange" \in Kinds /\ "ShuttingDown" \in Kinds
    BY DEF PlainTypes, Kinds
  <1> DEFINE L == Lines
  <1>5. /\ \A t \in PlainTypes : Plain(t) \in L
        /\ \A k \in Kinds : Header(k) \in L
        /\ \A c \in Commands : Result(RequestOf[c], c) \in L
    BY <1>1, <1>2, <1>3
  <1> HIDE DEF L
  <1>6. \A t \in PlainTypes : <<Plain(t)>> \in Seq(L)
    BY <1>5
  <1>7. ASSUME NEW c \in Commands PROVE Succeeds(c) \in Seq(L)
    BY <1>4, <1>5 DEF Succeeds
  <1>8. ASSUME NEW r \in Refuses PROVE r \in Seq(L)
    <2>1. CASE r = <<Plain("ERROR")>>
      BY <1>4, <1>6, <2>1
    <2>2. CASE r = <<Plain("CME")>>
      BY <1>4, <1>6, <2>2
    <2>3. QED
      BY <2>1, <2>2 DEF Refuses
  <1>9. ASSUME NEW a \in Announcements PROVE a \in Seq(L)
    <2>1. CASE a = <<Header("IncomingSMS"), Plain("Text")>>
      BY <1>4, <1>5, <2>1
    <2>2. CASE a = <<Header("NetworkStatusChange")>>
      BY <1>4, <1>5, <2>2
    <2>3. CASE a = <<Header("ShuttingDown")>>
      BY <1>4, <1>5, <2>3
    <2>4. QED
      BY <2>1, <2>2, <2>3 DEF Announcements
  <1>10. QED
    BY <1>6, <1>7, <1>8, <1>9 DEF L

LEMMA LineInvInit == LinkInit => LineInv
  <1> SUFFICES ASSUME LinkInit PROVE LineInv
    OBVIOUS
  <1>1. Init
    BY DEF LinkInit
  <1>2. CommandConservation
    <2>1. Distinct(queue) /\ \A c \in Commands : Conserved(c)
      BY <1>1, NoCommandAssumption
      DEF Init, Distinct, Holds, Conserved, Active, Idle, NoExecution
    <2>2. QED
      BY <2>1, ConservationByCommand
  <1>3. Control /\ WriteBeforeAnyAnswer
    BY <1>1, TypeInit
    DEF Init, Control, LoopControl, ExecutesOnlyOnline, Active, Idle, NoExecution,
        WriteBeforeAnyAnswer
  <1>4. to_modem \in Seq(Writable) /\ from_modem \in Seq(Lines) /\ modem \in ModemStates
    BY DEF LinkInit, ModemStates
  <1>5. lines + (IF partial THEN 1 ELSE 0) <= Len(from_modem)
    BY <1>1 DEF Init, LinkInit
  <1>6. QED
    BY <1>1, <1>2, <1>3, <1>4, <1>5 DEF Init, LineInv, WorkerInv

\* What the modem prints comes after what it has printed.
LEMMA PrintedTypes ==
    ASSUME LineInv, NEW ls \in Seq(Lines), Prints(ls), lines' = lines, partial' = partial
    PROVE  /\ from_modem' \in Seq(Lines)
           /\ lines' + (IF partial' THEN 1 ELSE 0) <= Len(from_modem')
  <1>1. /\ from_modem' = from_modem \o ls /\ from_modem' \in Seq(Lines)
        /\ Len(from_modem) \in Nat /\ Len(ls) \in Nat
        /\ Len(from_modem') = Len(from_modem) + Len(ls)
    BY ConcatFacts DEF LineInv, Prints
  <1>2. lines \in Nat /\ lines + (IF partial THEN 1 ELSE 0) <= Len(from_modem)
    BY DEF LineInv, WorkerInv, Control, TypeOK
  <1>3. QED
    BY <1>1, <1>2

\* The modem takes what was written first.
LEMMA TakenTypes ==
    ASSUME LineInv, NEW type, NEW c, Takes(type, c)
    PROVE  /\ to_modem' \in Seq(Writable)
           /\ lines' = lines /\ partial' = partial /\ pc' = pc
  BY TailFacts DEF LineInv, Takes

LEMMA ModemStepTypes ==
    ASSUME LineInv, ModemStep
    PROVE  /\ to_modem' \in Seq(Writable)
           /\ from_modem' \in Seq(Lines)
           /\ modem' \in ModemStates
           /\ lines' + (IF partial' THEN 1 ELSE 0) <= Len(from_modem')
           /\ pc' = "init" => ~partial'
  <1> DEFINE Bound == lines + (IF partial THEN 1 ELSE 0) <= Len(from_modem)
             Typed == /\ to_modem' \in Seq(Writable)
                      /\ from_modem' \in Seq(Lines)
                      /\ modem' \in ModemStates
                      /\ lines' + (IF partial' THEN 1 ELSE 0) <= Len(from_modem')
                      /\ pc' = "init" => ~partial'
  <1>1. /\ to_modem \in Seq(Writable) /\ from_modem \in Seq(Lines) /\ modem \in ModemStates
        /\ Bound /\ (pc = "init" => ~partial)
    BY DEF LineInv
  <1>2. /\ Ready \in ModemStates
        /\ \A c \in Commands \cup {NoCommand} : PduEntry(c) \in ModemStates
    BY DEF ModemStates
  <1>3. ASSUME NEW c \in Commands, AnswerCommand(c) PROVE Typed
    <2>1. Takes("WriteAT", c)
      BY <1>3 DEF AnswerCommand
    <2>2. PICK ls \in Seq(Lines) : Prints(ls)
      BY <1>3, PrintedLines DEF AnswerCommand, PlainTypes
    <2>3. modem' = modem \/ modem' = PduEntry(c)
      BY <1>3 DEF AnswerCommand
    <2>4. QED
      BY <1>1, <1>2, <2>1, <2>2, <2>3, TakenTypes, PrintedTypes
  <1>4. ASSUME NEW c \in Commands, TakeAsText(c) PROVE Typed
    <2>1. Takes("WriteAT", c) /\ from_modem' = from_modem /\ modem' = PduEntry(NoCommand)
      BY <1>4 DEF TakeAsText
    <2>2. QED
      BY <1>1, <1>2, <2>1, TakenTypes
  <1>5. ASSUME NEW c \in Commands, SubmitPdu(c) PROVE Typed
    <2>1. Takes("WritePDU", c)
      BY <1>5 DEF SubmitPdu
    <2>2. PICK ls \in Seq(Lines) : Prints(ls)
      BY <1>5, PrintedLines DEF SubmitPdu
    <2>3. modem' = Ready
      BY <1>5 DEF SubmitPdu
    <2>4. QED
      BY <1>1, <1>2, <2>1, <2>2, <2>3, TakenTypes, PrintedTypes
  <1>6. CASE Announce
    <2>1. PICK ls \in Seq(Lines) : Prints(ls)
      BY <1>6, PrintedLines DEF Announce
    <2>2. /\ to_modem' = to_modem /\ modem' = modem /\ lines' = lines
          /\ partial' = partial /\ pc' = pc
      BY <1>6 DEF Announce
    <2>3. QED
      BY <1>1, <2>1, <2>2, PrintedTypes
  <1>7. CASE PowerCycle
    <2>1. /\ to_modem' = <<>> /\ modem' = Ready /\ lines' = lines /\ from_modem' = from_modem
          /\ partial' = partial /\ pc' = pc
      BY <1>7 DEF PowerCycle
    <2>2. QED
      BY <1>1, <1>2, <2>1
  <1>8. QED
    BY <1>3, <1>4, <1>5, <1>6, <1>7 DEF ModemStep

\* The steps of the worker that leave the line alone, or write to it.
LEMMA OffTheLineTypes ==
    ASSUME LineInv, OffTheLine
    PROVE  /\ lines' = lines
           /\ partial' = partial \/ ~partial'
           /\ pc' # "init" \/ (pc' = pc /\ partial' = partial)
  BY DEF LineInv, OffTheLine, Callers, SendRequest, ReceiveResponse, GiveUp, StartNext, PortFailed,
         FailActiveOnShutdown, RejectOnShutdown, QueueRejected, GoOffline, RejectWhenOffline,
         RejectHead, Selecting, PortTurn

LEMMA WorkerStepTypes ==
    ASSUME LineInv,
           OffTheLine \/ WriteOrStatus \/ ReadLines \/ ProcessNext \/ Timeout \/ Reinitialize
    PROVE  /\ to_modem' \in Seq(Writable)
           /\ from_modem' \in Seq(Lines)
           /\ modem' \in ModemStates
           /\ lines' + (IF partial' THEN 1 ELSE 0) <= Len(from_modem')
           /\ pc' = "init" => ~partial'
  <1> DEFINE Typed == /\ to_modem' \in Seq(Writable)
                      /\ from_modem' \in Seq(Lines)
                      /\ modem' \in ModemStates
                      /\ lines' + (IF partial' THEN 1 ELSE 0) <= Len(from_modem')
                      /\ pc' = "init" => ~partial'
  <1>1. /\ to_modem \in Seq(Writable) /\ from_modem \in Seq(Lines) /\ modem \in ModemStates
        /\ lines + (IF partial THEN 1 ELSE 0) <= Len(from_modem)
        /\ (pc = "init" => ~partial)
        /\ lines \in Nat /\ Len(from_modem) \in Nat /\ partial \in BOOLEAN
        /\ (pc = "init" => lines = 0) /\ events \in Seq(WorkerEvents)
    BY DEF LineInv, WorkerInv, Control, TypeOK, LoopControl
  <1>2. CASE OffTheLine
    <2>1. to_modem' = to_modem /\ from_modem' = from_modem /\ modem' = modem
      BY <1>2 DEF OffTheLine, link
    <2>2. QED
      BY <1>1, <1>2, <2>1, OffTheLineTypes
  <1>3. CASE WriteOrStatus
    <2>1. /\ from_modem' = from_modem /\ modem' = modem /\ events # <<>>
          /\ lines' = lines /\ partial' = partial /\ pc # "init" /\ pc' # "init"
          /\ \/ to_modem' = to_modem
             \/ /\ Head(events).type # "SetStatus"
                /\ to_modem' = Append(to_modem, Head(events))
      BY <1>3 DEF WriteOrStatus, HandleWorkerEvent, SetStatusEvent, WriteEvent, WriteFailed,
                  NextArm
    <2>2. Head(events).type # "SetStatus" => Head(events) \in Writable
      BY <1>1, <2>1, TailFacts DEF Writable, SetShuttingDown
    <2>3. to_modem' \in Seq(Writable)
      BY <1>1, <2>1, <2>2, AppendFacts, SMTT(30)
    <2>4. QED
      BY <1>1, <2>1, <2>3
  <1>4. CASE ReadLines
    BY <1>1, <1>4 DEF ReadLines, ReadPort, PortTurn, Selecting, link
  <1>5. CASE ProcessNext
    <2>1. /\ from_modem # <<>> /\ from_modem' = Tail(from_modem) /\ to_modem' = to_modem
          /\ modem' = modem /\ lines' = lines - 1 /\ lines > 0 /\ partial' = partial /\ pc' = pc
      BY <1>5 DEF ProcessNext, ProcessLine
    <2>2. from_modem' \in Seq(Lines) /\ Len(from_modem') = Len(from_modem) - 1
      BY <1>1, <2>1, TailFacts
    <2>3. QED
      BY <1>1, <2>1, <2>2
  <1>6. CASE Timeout
    <2>1. /\ to_modem' = to_modem /\ modem' = modem /\ lines = 0 /\ lines' = 0
          /\ pc' = pc /\ pc # "init" /\ (partial' => partial) /\ partial' \in BOOLEAN
      BY <1>1, <1>6 DEF Timeout, CommandTimeout, PortTurn, Selecting
    <2>2. CASE partial /\ ~partial'
      <3>1. from_modem # <<>>
        BY <1>1, <2>1, <2>2
      <3>2. PICK half \in {<<>>, <<Plain("Text")>>} : from_modem' = half \o Tail(from_modem)
        BY <1>6, <2>2 DEF Timeout
      <3>3. half \in Seq(Lines) /\ Tail(from_modem) \in Seq(Lines)
        BY <1>1, <3>1, PrintedLines, TailFacts DEF PlainTypes
      <3>4. from_modem' \in Seq(Lines) /\ Len(from_modem') \in Nat
        BY <3>2, <3>3, ConcatFacts
      <3>5. QED
        BY <1>1, <2>1, <2>2, <3>4
    <2>3. CASE ~(partial /\ ~partial')
      <3>1. from_modem' = from_modem /\ partial' = partial
        BY <1>1, <1>6, <2>1, <2>3 DEF Timeout
      <3>2. QED
        BY <1>1, <2>1, <3>1
    <2>4. QED
      BY <2>2, <2>3
  <1>7. CASE Reinitialize
    <2>1. modem' = modem /\ lines = 0 /\ lines' = lines /\ pc' = "select" /\ ~partial'
      BY <1>1, <1>7 DEF Reinitialize, Initialize, Reconnect, Selecting
    <2>2. /\ to_modem' = to_modem \/ to_modem' = <<>>
          /\ from_modem' = from_modem \/ from_modem' = <<>>
      BY <1>7 DEF Reinitialize
    <2>3. to_modem' \in Seq(Writable) /\ from_modem' \in Seq(Lines)
      <3>1. <<>> \in Seq(Writable) /\ <<>> \in Seq(Lines)
        OBVIOUS
      <3>2. QED
        BY <1>1, <2>2, <3>1
    <2>4. Len(from_modem') \in Nat
      BY <2>3
    <2>5. QED
      BY <1>1, <2>1, <2>3, <2>4
  <1>8. QED
    BY <1>2, <1>3, <1>4, <1>5, <1>6, <1>7

LEMMA LineInvNext == LineInv /\ [LinkNext]_linkVars => LineInv'
  <1> SUFFICES ASSUME LineInv, [LinkNext]_linkVars PROVE LineInv'
    OBVIOUS
  <1>1. WorkerInv'
    BY WorkerInvLinkNext DEF LineInv
  <1>2. CASE UNCHANGED linkVars
    BY <1>1, <1>2 DEF LineInv, linkVars, link, vars
  <1>3. CASE ~UNCHANGED linkVars
    BY <1>1, <1>3, ModemStepTypes, WorkerStepTypes DEF LinkNext, LineInv
  <1>4. QED
    BY <1>2, <1>3

\* Every variable of the line keeps its type, and the worker never counts on a
\* line, whole or half, that the modem has not printed: a timeout that clears the
\* buffer in the middle of a line included.
THEOREM LinkTypeCorrect == LinkSpec => []LinkTypeOK
  <1>1. LinkSpec => []LineInv
    BY LineInvInit, LineInvNext, PTL DEF LinkSpec
  <1>2. QED
    BY <1>1, LineInvTypes, PTL

\* With a modem at the line that answers late, refuses and announces as it likes,
\* the worker still keeps what it promises to the callers of send_request.  (A
\* step of the modem is none of the worker's: it only ends its last output.)
THEOREM LinkImplementsService == LinkSpec => ServiceSpec
  <1>1. LinkInit => Service!Init
    BY DEF LinkInit, Init, Service!Init, Active, Idle, NoExecution
  <1>2. LineInv /\ [LinkNext]_linkVars => [Service!Next]_(Service!vars)
    <2>1. SUFFICES ASSUME LineInv, [LinkNext]_linkVars PROVE ServiceStep
      BY DEF ServiceStep
    <2>2. Control /\ from_modem \in Seq(Lines)
      BY <2>1 DEF LineInv, WorkerInv
    <2>3. [Next]_vars \/ Unseen
      BY <2>1, <2>2, LinkStep
    <2>4. CASE [Next]_vars
      BY <2>2, <2>4, StepRefines
    <2>5. CASE Unseen
      BY <2>5 DEF Unseen, machine, Active, ServiceStep, Service!vars
    <2>6. QED
      BY <2>3, <2>4, <2>5
  <1>3. LinkSpec => []LineInv
    BY LineInvInit, LineInvNext, PTL DEF LinkSpec
  <1>4. QED
    BY <1>1, <1>2, <1>3, PTL DEF LinkSpec, ServiceSpec, Service!Spec

-----------------------------------------------------------------------------
(***************************************************************************)
(* One prompt, one PDU: at any time there is at most one prompt to process *)
(* or PDU to write or take, and only while the modem is in PDU entry, but  *)
(* for a prompt that an outage has left on the line.                       *)
(***************************************************************************)
Pdus == {WritePDU(c) : c \in Commands}
Prompts == {Plain("Prompt")}

PduInv ==
    /\ OneOf(events, Pdus) /\ OneOf(to_modem, Pdus) /\ OneOf(from_modem, Prompts)
    /\ NoneOf(events, Pdus) \/ (NoneOf(to_modem, Pdus) /\ NoneOf(from_modem, Prompts))
    /\ NoneOf(to_modem, Pdus) \/ NoneOf(from_modem, Prompts)
    /\ modem = Ready =>
         /\ NoneOf(events, Pdus)
         /\ NoneOf(to_modem, Pdus)
         /\ NoneOf(from_modem, Prompts) \/ (status # "Online" /\ to_modem = <<>>)
    /\ status \in {"Startup", "Offline"} => NoneOf(events, Pdus)
    /\ pc \in {"init", "reject", "sleep"} => events = <<>>

LEMMA WhatIsAPdu ==
    /\ \A c \in Commands : WritePDU(c) \in Pdus /\ WriteAT(c) \notin Pdus
    /\ SetShuttingDown \notin Pdus
    /\ \A e \in WorkerEvents : e \notin Pdus => e.type = "SetStatus" \/ e.type = "WriteAT"
    /\ \A e \in Pdus : e.type = "WritePDU"
  <1>1. \A c : /\ WritePDU(c).type = "WritePDU"
               /\ WriteAT(c).type = "WriteAT"
               /\ SetShuttingDown.type = "SetStatus"
    BY DEF WritePDU, WriteAT, SetShuttingDown
  <1>2. \A e \in Pdus : e.type = "WritePDU"
    BY <1>1 DEF Pdus
  <1>3. SetShuttingDown \notin Pdus /\ \A c \in Commands : WriteAT(c) \notin Pdus
    BY <1>1, <1>2
  <1>4. \A c \in Commands : WritePDU(c) \in Pdus
    BY DEF Pdus
  <1>5. \A e \in WorkerEvents : e \notin Pdus => e.type = "SetStatus" \/ e.type = "WriteAT"
    BY <1>1, <1>4 DEF WorkerEvents
  <1>6. QED
    BY <1>2, <1>3, <1>4, <1>5

\* Of what the modem prints, only the answer to AT+CMGS is a prompt.
LEMMA WhatIsAPrompt ==
    /\ \A c \in Commands : NoneOf(Succeeds(c), Prompts)
    /\ \A r \in Refuses : NoneOf(r, Prompts)
    /\ \A a \in Announcements : NoneOf(a, Prompts)
    /\ NoneOf(<<>>, Prompts) /\ NoneOf(<<Plain("Text")>>, Prompts)
    /\ OneOf(<<Plain("Prompt")>>, Prompts)
    /\ \A line \in Lines : IsPrompt(line) => line \in Prompts
  <1>1. /\ \A t \in PlainTypes \ {"Prompt"} : Plain(t) \notin Prompts
        /\ \A k \in Kinds : Header(k) \notin Prompts
        /\ \A r, v : Result(r, v) \notin Prompts
    BY DEF Prompts, Plain, Header, Result
  <1>2. /\ \A x : x \notin Prompts => NoneOf(<<x>>, Prompts)
        /\ \A x, y : x \notin Prompts /\ y \notin Prompts => NoneOf(<<x, y>>, Prompts)
    BY DEF NoneOf
  <1>3. /\ "OK" \in PlainTypes \ {"Prompt"} /\ "ERROR" \in PlainTypes \ {"Prompt"}
        /\ "CME" \in PlainTypes \ {"Prompt"} /\ "Text" \in PlainTypes \ {"Prompt"}
        /\ "IncomingSMS" \in Kinds /\ "NetworkStatusChange" \in Kinds /\ "ShuttingDown" \in Kinds
    BY DEF PlainTypes, Kinds
  <1>4. \A c \in Commands : NoneOf(Succeeds(c), Prompts)
    BY <1>1, <1>2, <1>3 DEF Succeeds
  <1>5. NoneOf(<<Plain("ERROR")>>, Prompts) /\ NoneOf(<<Plain("CME")>>, Prompts)
        /\ NoneOf(<<Plain("Text")>>, Prompts)
    BY <1>1, <1>2, <1>3
  <1>6. /\ NoneOf(<<Header("IncomingSMS"), Plain("Text")>>, Prompts)
        /\ NoneOf(<<Header("NetworkStatusChange")>>, Prompts)
        /\ NoneOf(<<Header("ShuttingDown")>>, Prompts)
    BY <1>1, <1>2, <1>3
  <1>7. OneOf(<<Plain("Prompt")>>, Prompts)
    BY DEF OneOf
  <1>8. \A line \in Lines : IsPrompt(line) => line \in Prompts
    BY DEF Lines, ResultLines, IsPrompt, Prompts, Plain, Result, Header
  <1>9. \A r \in Refuses : NoneOf(r, Prompts)
    BY <1>5 DEF Refuses
  <1>10. \A a \in Announcements : NoneOf(a, Prompts)
    BY <1>6 DEF Announcements
  <1>11. QED
    BY <1>4, <1>5, <1>7, <1>8, <1>9, <1>10, NoneOfEmpty

\* A line asks for nothing, for the end of the connection, or, if it is a prompt
\* during a command, for the PDU of that command.
LEMMA WhatALineAsks ==
    ASSUME MachineType, NEW line \in Lines, TransitionState(line)
    PROVE  \/ events' = events
           \/ events' = Append(events, SetShuttingDown)
           \/ IsPrompt(line) /\ \E c \in Commands : events' = Append(events, WritePDU(c))
  <1>1. CASE PromptDuringCommand(line)
    <2>1. Active \in Commands
      BY <1>1, CommandMode DEF PromptDuringCommand, MachineType
    <2>2. QED
      BY <1>1, <2>1 DEF PromptDuringCommand
  <1>2. CASE UnsolicitedBody(line) \/ UnsolicitedStart(line)
    BY <1>2 DEF UnsolicitedBody, UnsolicitedStart, HandleUnsolicited
  <1>3. CASE ResponseDuringCommand(line) \/ IgnoredWhenIdle(line) \/ InvalidTransition(line)
    BY <1>3 DEF ResponseDuringCommand, IgnoredWhenIdle, InvalidTransition
  <1>4. QED
    BY <1>1, <1>2, <1>3 DEF TransitionState

\* The events after a line, and the lines that are left.
LEMMA PduOfALine ==
    ASSUME LineInv, PduInv, ProcessNext
    PROVE  PduInv'
  <1> DEFINE line == Head(from_modem)
  <1>1. /\ from_modem \in Seq(Lines) /\ from_modem # <<>> /\ from_modem' = Tail(from_modem)
        /\ to_modem' = to_modem /\ modem' = modem /\ status' = status /\ pc' = pc
        /\ status = "Online" /\ pc = "select"
        /\ events \in Seq(WorkerEvents) /\ TransitionState(line) /\ MachineType
    BY TypeOfMachine
    DEF ProcessNext, ProcessLine, LineInv, WorkerInv, Control, TypeOK, LoopControl
  <1>2. /\ NoneOf(from_modem, Prompts) => NoneOf(from_modem', Prompts) /\ line \notin Prompts
        /\ OneOf(from_modem', Prompts)
        /\ line \in Prompts => NoneOf(from_modem', Prompts)
        /\ line \in Lines
    BY <1>1, NoneOfTail, OneOfTail, TailFacts DEF PduInv
  <1> HIDE DEF line
  <1>3. CASE events' = events
    BY <1>1, <1>2, <1>3 DEF PduInv
  <1>4. CASE events' = Append(events, SetShuttingDown)
    <2>1. SetShuttingDown \in WorkerEvents /\ SetShuttingDown \notin Pdus
      BY WhatIsAPdu DEF WorkerEvents
    <2>2. /\ NoneOf(events, Pdus) => NoneOf(events', Pdus)
          /\ OneOf(events', Pdus)
      BY <1>1, <1>4, <2>1, NoneOfAppend, OneOfAppend DEF PduInv
    <2>3. QED
      BY <1>1, <1>2, <2>2 DEF PduInv
  <1>5. ASSUME IsPrompt(line), NEW c \in Commands, events' = Append(events, WritePDU(c))
        PROVE  PduInv'
    <2>1. line \in Prompts
      BY <1>2, <1>5, WhatIsAPrompt
    <2>2. ~NoneOf(from_modem, Prompts)
      BY <1>2, <2>1
    <2>3. NoneOf(events, Pdus) /\ NoneOf(to_modem, Pdus) /\ modem # Ready
      BY <1>1, <2>2 DEF PduInv
    <2>4. OneOf(events', Pdus)
      <3>1. WritePDU(c) \in WorkerEvents
        BY DEF WorkerEvents
      <3>2. QED
        BY <1>1, <1>5, <2>3, <3>1, OneOfAppend
    <2>5. QED
      BY <1>1, <1>2, <2>1, <2>3, <2>4 DEF PduInv
  <1>6. QED
    BY <1>1, <1>2, <1>3, <1>4, <1>5, WhatALineAsks

\* The other steps of the worker.
LEMMA PduOffTheLine ==
    ASSUME LineInv, PduInv, OffTheLine
    PROVE  PduInv'
  <1>1. to_modem' = to_modem /\ from_modem' = from_modem /\ modem' = modem
    BY DEF OffTheLine, link
  <1>2. LoopControl
    BY DEF LineInv, WorkerInv, Control
  <1>3. ASSUME events' = events, status' = status, pc' = pc PROVE PduInv'
    BY <1>1, <1>3 DEF PduInv
  <1>4. ASSUME NoneOf(events', Pdus),
               pc' \in {"init", "reject", "sleep"} => events' = <<>>,
               status' = "Online" => status = "Online"
        PROVE  PduInv'
    BY <1>1, <1>4, NoneThenOne DEF PduInv
  <1>5. CASE Callers \/ RejectOnShutdown \/ RejectWhenOffline
    BY <1>3, <1>5 DEF Callers, SendRequest, ReceiveResponse, GiveUp, RejectOnShutdown,
                      RejectWhenOffline, RejectHead, machine
  <1>6. CASE StartNext
    <2>1. PICK c : c = Head(queue) /\ events' = Append(<<>>, WriteAT(c)) /\ queue # <<>>
      BY <1>6 DEF StartNext, StartCommand
    <2>2. c \in Commands
      BY <2>1, TailFacts DEF LineInv, WorkerInv, Control, TypeOK
    <2>3. WriteAT(c) \notin Pdus /\ WriteAT(c) \in WorkerEvents
      BY <2>2, WhatIsAPdu DEF WorkerEvents
    <2>4. NoneOf(Append(<<>>, WriteAT(c)), Pdus)
      <3>1. <<>> \in Seq(WorkerEvents)
        OBVIOUS
      <3>2. QED
        BY <2>3, <3>1, NoneOfEmpty, NoneOfAppend
    <2>5. pc' = "select" /\ status' = status
      BY <1>6 DEF StartNext, Selecting
    <2>6. QED
      BY <1>4, <2>1, <2>4, <2>5
  <1>7. CASE PortFailed \/ FailActiveOnShutdown \/ QueueRejected \/ GoOffline
    <2>1. events = <<>> /\ events' = events /\ (status' = "Online" => status = "Online")
      BY <1>7 DEF PortFailed, PortTurn, FailActiveOnShutdown, QueueRejected, GoOffline, PduInv,
                  SetStatus, machine
    <2>2. QED
      BY <1>4, <2>1, NoneOfEmpty
  <1>8. QED
    BY <1>5, <1>6, <1>7 DEF OffTheLine

LEMMA PduWritten ==
    ASSUME LineInv, PduInv, WriteOrStatus
    PROVE  PduInv'
  <1>1. /\ events \in Seq(WorkerEvents) /\ events # <<>> /\ events' = Tail(events)
        /\ to_modem \in Seq(Writable)
        /\ from_modem' = from_modem /\ modem' = modem
        /\ pc \in {"select", "drain"}
    BY DEF WriteOrStatus, HandleWorkerEvent, LineInv, WorkerInv, Control, TypeOK
  <1>2. /\ Head(events) \in WorkerEvents
        /\ OneOf(events', Pdus)
        /\ NoneOf(events, Pdus) => NoneOf(events', Pdus) /\ Head(events) \notin Pdus
        /\ Head(events) \in Pdus => NoneOf(events', Pdus)
    BY <1>1, NoneOfTail, OneOfTail, TailFacts DEF PduInv
  <1>3. CASE SetStatusEvent
    <2>1. status' = "ShuttingDown" /\ pc' \in {"select", "drain"} /\ to_modem' = to_modem
      BY <1>1, <1>3 DEF SetStatusEvent, SetStatus, NextArm, WriteOrStatus
    <2>2. QED
      BY <1>1, <1>2, <2>1 DEF PduInv
  <1>4. CASE WriteEvent
    <2>1. /\ status = "Online" /\ status' = "Online" /\ pc' = pc
          /\ to_modem' = Append(to_modem, Head(events))
          /\ Head(events) \in Writable
      BY <1>2, <1>4 DEF WriteEvent, WriteOrStatus, Writable, SetShuttingDown
    <2>2. CASE Head(events) \in Pdus
      <3>1. /\ ~NoneOf(events, Pdus) /\ NoneOf(to_modem, Pdus) /\ NoneOf(from_modem, Prompts)
            /\ modem # Ready /\ NoneOf(events', Pdus)
        BY <1>2, <2>2 DEF PduInv
      <3>2. OneOf(to_modem', Pdus)
        BY <1>1, <2>1, <3>1, OneOfAppend
      <3>3. QED
        BY <1>1, <1>2, <2>1, <3>1, <3>2 DEF PduInv
    <2>3. CASE Head(events) \notin Pdus
      <3>1. /\ OneOf(to_modem', Pdus)
            /\ NoneOf(to_modem, Pdus) => NoneOf(to_modem', Pdus)
        BY <1>1, <2>1, <2>3, OneOfAppend, NoneOfAppend DEF PduInv
      <3>2. QED
        BY <1>1, <1>2, <2>1, <3>1 DEF PduInv
    <2>4. QED
      BY <2>2, <2>3
  <1>5. CASE WriteFailed
    <2>1. status' = "Offline" /\ pc' = pc /\ to_modem' = to_modem
          /\ Head(events).type # "SetStatus"
      BY <1>5 DEF WriteFailed, SetStatus, WriteOrStatus
    <2>2. NoneOf(events', Pdus)
      <3>1. CASE Head(events) \in Pdus
        BY <1>2, <3>1
      <3>2. CASE Head(events).type = "WriteAT"
        <4>1. 1 \in 1..Len(events) /\ events[1] = Head(events)
          BY <1>1, TailFacts
        <4>2. events = <<WriteAT(events[1].cmd)>>
          BY <3>2, <4>1 DEF LineInv, WorkerInv, WriteBeforeAnyAnswer
        <4>3. events' = <<>>
          BY <1>1, <4>2
        <4>4. QED
          BY <4>3, NoneOfEmpty
      <3>3. QED
        BY <1>2, <2>1, <3>1, <3>2, WhatIsAPdu
    <2>3. QED
      BY <1>1, <1>2, <2>1, <2>2 DEF PduInv
  <1>6. QED
    BY <1>3, <1>4, <1>5 DEF WriteOrStatus, HandleWorkerEvent

LEMMA PduTimeout ==
    ASSUME LineInv, PduInv, Timeout
    PROVE  PduInv'
  <1>1. /\ to_modem' = to_modem /\ modem' = modem /\ events' = events
        /\ status' = status /\ pc' = pc
    BY DEF Timeout, CommandTimeout, HandleCommandTimeout
  <1>2. CASE from_modem' = from_modem
    BY <1>1, <1>2 DEF PduInv
  <1>3. CASE from_modem' # from_modem
    <2>1. partial /\ ~partial' /\ lines = 0
      BY <1>3 DEF Timeout, CommandTimeout, PortTurn, Selecting
    <2>2. from_modem \in Seq(Lines) /\ from_modem # <<>>
      BY <2>1 DEF LineInv
    <2>3. PICK half \in {<<>>, <<Plain("Text")>>} : from_modem' = half \o Tail(from_modem)
      BY <2>1 DEF Timeout
    <2>4. half \in Seq(Lines) /\ NoneOf(half, Prompts) /\ Tail(from_modem) \in Seq(Lines)
      BY <2>2, PrintedLines, WhatIsAPrompt, TailFacts DEF PlainTypes
    <2>5. /\ OneOf(Tail(from_modem), Prompts)
          /\ NoneOf(from_modem, Prompts) => NoneOf(Tail(from_modem), Prompts)
      BY <2>2, OneOfTail, NoneOfTail DEF PduInv
    <2>6. /\ OneOf(from_modem', Prompts)
          /\ NoneOf(from_modem, Prompts) => NoneOf(from_modem', Prompts)
      BY <2>3, <2>4, <2>5, OneOfConcat, NoneOfConcat
    <2>7. QED
      BY <1>1, <2>6 DEF PduInv
  <1>4. QED
    BY <1>2, <1>3

LEMMA PduReinitialize ==
    ASSUME LineInv, PduInv, Reinitialize
    PROVE  PduInv'
  <1>1. modem' = modem /\ events' = events /\ pc' = "select"
        /\ status \in {"Startup", "Offline"} /\ status' \in {"Online", "Offline"}
    BY DEF Reinitialize, Initialize, Reconnect, Selecting, SetStatus, machine, LineInv, WorkerInv,
           Control, LoopControl
  <1>2. NoneOf(events, Pdus)
    BY <1>1 DEF PduInv
  <1>3. CASE status' = "Online"
    <2>1. to_modem' = <<>> /\ from_modem' = <<>>
      BY <1>3 DEF Reinitialize
    <2>2. QED
      BY <1>1, <1>2, <1>3, <2>1, NoneOfEmpty, NoneThenOne DEF PduInv
  <1>4. CASE status' # "Online"
    <2>1. to_modem' = to_modem /\ from_modem' = from_modem
      BY <1>4 DEF Reinitialize
    <2>2. QED
      BY <1>1, <1>2, <1>4, <2>1 DEF PduInv
  <1>5. QED
    BY <1>3, <1>4

\* The steps of the modem.
LEMMA PduModemStep ==
    ASSUME LineInv, PduInv, ModemStep
    PROVE  PduInv'
  <1>1. /\ to_modem \in Seq(Writable) /\ from_modem \in Seq(Lines)
        /\ events' = events /\ status' = status /\ pc' = pc
    BY ModemStepUnseen DEF Unseen, machine, LineInv
  <1>2. ASSUME to_modem # <<>>, to_modem' = Tail(to_modem)
        PROVE  /\ OneOf(to_modem', Pdus)
               /\ NoneOf(to_modem, Pdus) => NoneOf(to_modem', Pdus) /\ Head(to_modem) \notin Pdus
               /\ Head(to_modem) \in Pdus => NoneOf(to_modem', Pdus)
    BY <1>1, <1>2, OneOfTail, NoneOfTail DEF PduInv
  <1>3. ASSUME NEW ls \in Seq(Lines), Prints(ls), NoneOf(ls, Prompts)
        PROVE  /\ OneOf(from_modem', Prompts)
               /\ NoneOf(from_modem, Prompts) => NoneOf(from_modem', Prompts)
    BY <1>1, <1>3, OneOfConcat, NoneOfConcat DEF PduInv, Prints
  <1>4. \A c : PduEntry(c) # Ready /\ PduEntry(c).mode = "pdu" /\ Ready.mode = "ready"
    BY DEF PduEntry, Ready
  <1>5. ASSUME NEW c \in Commands, AnswerCommand(c) PROVE PduInv'
    <2>1. modem = Ready /\ to_modem # <<>> /\ to_modem' = Tail(to_modem)
      BY <1>5 DEF AnswerCommand, Takes
    <2>2. NoneOf(events, Pdus) /\ NoneOf(to_modem, Pdus) /\ NoneOf(from_modem, Prompts)
      BY <2>1 DEF PduInv
    <2>3. CASE Prints(<<Plain("Prompt")>>) /\ modem' = PduEntry(c)
      <3>1. <<Plain("Prompt")>> \in Seq(Lines) /\ OneOf(<<Plain("Prompt")>>, Prompts)
        BY PrintedLines, WhatIsAPrompt DEF PlainTypes
      <3>2. OneOf(from_modem', Prompts)
        BY <1>1, <2>2, <2>3, <3>1, OneOfConcat DEF Prints
      <3>3. QED
        BY <1>1, <1>2, <1>4, <2>1, <2>2, <2>3, <3>2 DEF PduInv
    <2>4. ASSUME NEW ls \in Seq(Lines), Prints(ls), NoneOf(ls, Prompts) PROVE PduInv'
      BY <1>1, <1>2, <1>3, <2>1, <2>2, <2>4 DEF PduInv
    <2>5. QED
      BY <1>5, <2>3, <2>4, PrintedLines, WhatIsAPrompt DEF AnswerCommand
  <1>6. ASSUME NEW c \in Commands, TakeAsText(c) PROVE PduInv'
    <2>1. /\ modem' = PduEntry(NoCommand) /\ modem # Ready /\ from_modem' = from_modem
          /\ to_modem # <<>> /\ to_modem' = Tail(to_modem)
      BY <1>4, <1>6 DEF TakeAsText, Takes
    <2>2. QED
      BY <1>1, <1>2, <1>4, <2>1 DEF PduInv
  <1>7. ASSUME NEW c \in Commands, SubmitPdu(c) PROVE PduInv'
    <2>1. /\ modem' = Ready /\ to_modem # <<>> /\ to_modem' = Tail(to_modem)
          /\ Head(to_modem) = WritePDU(c)
      BY <1>7 DEF SubmitPdu, Takes, WritePDU
    <2>2. Head(to_modem) \in Pdus
      BY <2>1, WhatIsAPdu
    <2>3. /\ NoneOf(events, Pdus) /\ NoneOf(to_modem', Pdus) /\ NoneOf(from_modem, Prompts)
      BY <1>2, <2>1, <2>2 DEF PduInv
    <2>4. PICK ls \in Seq(Lines) : Prints(ls) /\ NoneOf(ls, Prompts)
      BY <1>7, PrintedLines, WhatIsAPrompt DEF SubmitPdu
    <2>5. QED
      BY <1>1, <1>2, <1>3, <2>1, <2>3, <2>4 DEF PduInv
  <1>8. CASE Announce
    <2>1. to_modem' = to_modem /\ modem' = modem
      BY <1>8 DEF Announce
    <2>2. PICK ls \in Seq(Lines) : Prints(ls) /\ NoneOf(ls, Prompts)
      BY <1>8, PrintedLines, WhatIsAPrompt DEF Announce
    <2>3. QED
      BY <1>1, <1>3, <2>1, <2>2 DEF PduInv
  <1>9. CASE PowerCycle
    <2>1. /\ to_modem' = <<>> /\ modem' = Ready /\ from_modem' = from_modem
          /\ status = "Offline"
      BY <1>9 DEF PowerCycle
    <2>2. QED
      BY <1>1, <2>1, NoneOfEmpty, NoneThenOne DEF PduInv
  <1>10. QED
    BY <1>5, <1>6, <1>7, <1>8, <1>9 DEF ModemStep

LEMMA PduInvNext == LineInv /\ PduInv /\ [LinkNext]_linkVars => PduInv'
  <1> SUFFICES ASSUME LineInv, PduInv, [LinkNext]_linkVars PROVE PduInv'
    OBVIOUS
  <1>1. CASE UNCHANGED linkVars
    BY <1>1 DEF PduInv, linkVars, link, vars
  <1>2. CASE ReadLines
    BY <1>2 DEF PduInv, ReadLines, ReadPort, machine, link
  <1>3. QED
    BY <1>1, <1>2, PduOfALine, PduOffTheLine, PduWritten, PduTimeout, PduReinitialize, PduModemStep
    DEF LinkNext

\* The modem never finds a PDU where it expects a command, whatever prompts an
\* outage, a timeout or a refusal has left behind.
THEOREM PduGoesToItsPrompt == LinkSpec => []PduOnlyInPduEntry
  <1>1. LinkInit => PduInv
    BY NoneOfEmpty, NoneThenOne DEF LinkInit, Init, PduInv
  <1>2. LineInv /\ PduInv => PduOnlyInPduEntry
    <2> SUFFICES ASSUME LineInv, PduInv, to_modem # <<>>, Head(to_modem).type = "WritePDU"
                 PROVE  modem.mode = "pdu"
      BY DEF PduOnlyInPduEntry
    <2>1. to_modem \in Seq(Writable) /\ modem \in ModemStates
      BY DEF LineInv
    <2>2. 1 \in 1..Len(to_modem) /\ to_modem[1] = Head(to_modem) /\ Head(to_modem) \in WorkerEvents
      BY <2>1, TailFacts DEF Writable
    <2>3. Head(to_modem) \in Pdus
      BY <2>2, WhatIsAPdu
    <2>4. modem # Ready
      BY <2>2, <2>3 DEF PduInv, NoneOf
    <2>5. QED
      BY <2>1, <2>4 DEF ModemStates, PduEntry
  <1>3. LinkSpec => []LineInv
    BY LineInvInit, LineInvNext, PTL DEF LinkSpec
  <1>4. QED
    BY <1>1, <1>2, <1>3, PduInvNext, PTL DEF LinkSpec

-----------------------------------------------------------------------------
(***************************************************************************)
(* One answer: the answer to a command is in one place at any time, from   *)
(* the bytes that ask for it to the channel of the command that gets it,   *)
(* and while its own command waits it is nowhere else than on its way to   *)
(* it.                                                                     *)
(***************************************************************************)
Asks(d) == {WriteAT(d)}
AnswersTo(d) == {Result(r, d) : r \in Requests}

ToWrite(d) == ~NoneOf(events, Asks(d))           \* the worker has to ask for it
ToModem(d) == ~NoneOf(to_modem, Asks(d))         \* the modem has to take what asks
InModem(d) == modem.cmd = d                      \* the modem waits for the PDU
OnLine(d)  == ~NoneOf(from_modem, AnswersTo(d))  \* printed and not processed
IsFound(d) == state.exec.found = d               \* in the response being collected
IsGiven(d) == \E c \in Commands : slot[c] = Ok(d)

Underway(d) == ToWrite(d) \/ ToModem(d) \/ InModem(d) \/ OnLine(d) \/ IsFound(d)

GivenOnce(d) == \A c, e \in Commands : slot[c] = Ok(d) /\ slot[e] = Ok(d) => c = e

AnswerInv(d) ==
    /\ OneOf(to_modem, Asks(d)) /\ OneOf(from_modem, AnswersTo(d)) /\ GivenOnce(d)
    /\ ToWrite(d) => ~ToModem(d) /\ ~InModem(d) /\ ~OnLine(d) /\ ~IsFound(d) /\ ~IsGiven(d)
    /\ ToModem(d) => ~InModem(d) /\ ~OnLine(d) /\ ~IsFound(d) /\ ~IsGiven(d)
    /\ InModem(d) => ~OnLine(d) /\ ~IsFound(d) /\ ~IsGiven(d)
    /\ OnLine(d) => ~IsFound(d) /\ ~IsGiven(d)
    /\ IsFound(d) => ~IsGiven(d)
    /\ Underway(d) => Active = d \/ slot[d] # Empty
    /\ IsGiven(d) => slot[d] # Empty

AllAnswers == \A d \in Commands : AnswerInv(d)

\* A command that is being executed or is settled stays so.
LEMMA StaysSettled ==
    ASSUME Control, [Next]_vars, NEW d \in Commands
    PROVE  /\ slot[d] # Empty => slot'[d] # Empty
           /\ Active = d => Active' = d \/ slot'[d] # Empty
  <1>2. ASSUME NEW c, NEW r \in {Ok(v) : v \in Values} \cup {Error, Dropped},
               slot' = [slot EXCEPT ![c] = Service!Outcome(c, r)]
        PROVE  (slot[d] # Empty => slot'[d] # Empty) /\ (c = d => slot'[d] # Empty)
    <2>1. Service!Outcome(c, r) # Empty
      BY OutcomeNotEmpty DEF Outcomes
    <2>2. slot \in [Commands -> Slots]
      BY DEF Control, TypeOK
    <2>3. QED
      BY <1>2, <2>1, <2>2
  <1>3. CASE Service!Finish
    BY <1>2, <1>3 DEF Service!Finish
  <1>4. CASE Service!Reject
    BY <1>2, <1>4 DEF Service!Reject
  <1>5. CASE Service!Begin
    BY <1>5, NoCommandAssumption DEF Service!Begin
  <1>6. ASSUME NEW c \in Commands,
               Service!Accept(c) \/ Service!Refuse(c) \/ Service!Take(c) \/ Service!Leave(c)
        PROVE  slot' = slot /\ Active' = Active
    BY <1>6 DEF Service!Accept, Service!Refuse, Service!Take, Service!Leave
  <1>7. CASE UNCHANGED Service!vars
    BY <1>7 DEF Service!vars
  <1>8. ServiceStep
    BY StepRefines
  <1>9. QED
    BY <1>3, <1>4, <1>5, <1>6, <1>7, <1>8 DEF ServiceStep, Service!Next

\* Nothing that asks for the answer to d, or carries it, is new.
LEMMA FewerAnswers ==
    ASSUME NEW d \in Commands, AnswerInv(d),
           slot[d] # Empty => slot'[d] # Empty,
           Active = d => Active' = d \/ slot'[d] # Empty,
           ToWrite(d)' => ToWrite(d), ToModem(d)' => ToModem(d), InModem(d)' => InModem(d),
           OnLine(d)' => OnLine(d), IsFound(d)' => IsFound(d), IsGiven(d)' => IsGiven(d),
           OneOf(to_modem', Asks(d)), OneOf(from_modem', AnswersTo(d)), GivenOnce(d)'
    PROVE  AnswerInv(d)'
  BY DEF AnswerInv, Underway

-----------------------------------------------------------------------------
(***************************************************************************)
(* What a step of the worker does to the answers it holds: none, one found *)
(* in a line, or the one found given to the command being executed.        *)
(***************************************************************************)
Unanswered ==
    \/ slot' = slot
    \/ \E c \in Commands, r \in {Error, Dropped} : slot' = [slot EXCEPT ![c] = r]

Loses == Unanswered /\ state'.exec.found \in {NoValue, state.exec.found}

Finds(line) ==
    /\ slot' = slot
    /\ line.type = "Result"
    /\ state'.exec.found = line.val

Gives ==
    /\ Active \in Commands
    /\ state.exec.found \in Values
    /\ state' = Idle
    /\ slot' = [slot EXCEPT ![Active] = Ok(state.exec.found)]

LEMMA UnansweredSlots ==
    ASSUME slot \in [Commands -> Slots], Unanswered, NEW d \in Commands
    PROVE  /\ IsGiven(d)' => IsGiven(d)
           /\ GivenOnce(d) => GivenOnce(d)'
  <1>1. \A r \in {Error, Dropped} : r # Ok(d)
    BY DEF Error, Dropped, Ok
  <1>2. \A c \in Commands : slot'[c] = Ok(d) => slot[c] = Ok(d)
    BY <1>1 DEF Unanswered
  <1>3. QED
    BY <1>2 DEF IsGiven, GivenOnce

LEMMA SettleUnanswered ==
    ASSUME NEW c \in Commands, slot' = Settle(c, Error)
    PROVE  Unanswered
  BY DEF Settle, Unanswered

LEMMA IdleFindsNothing == Idle.exec.found = NoValue
  BY DEF Idle, NoExecution

LEMMA FailActiveLoses ==
    ASSUME MachineType, FailActiveCommand PROVE Loses
  <1>1. CASE Active = NoCommand
    BY <1>1 DEF FailActiveCommand, Loses, Unanswered
  <1>2. CASE Active # NoCommand
    <2>1. Active \in Commands /\ slot' = Settle(Active, Error) /\ state' = Idle
      BY <1>2, ActiveCases DEF FailActiveCommand, MachineType
    <2>2. QED
      BY <2>1, SettleUnanswered, IdleFindsNothing DEF Loses
  <1>3. QED
    BY <1>1, <1>2

LEMMA ResetLoses ==
    ASSUME MachineType, ResetToIdle PROVE Loses
  <1>1. Active = NoCommand \/ Active \in Commands
    BY ActiveCases DEF MachineType
  <1>2. Unanswered
    BY <1>1 DEF ResetToIdle, SlotsWithoutActive, Unanswered
  <1>3. QED
    BY <1>2, IdleFindsNothing DEF ResetToIdle, Loses

LEMMA TimeoutLoses ==
    ASSUME MachineType, HandleCommandTimeout PROVE Loses
  <1>1. Active \in Commands /\ slot' = Settle(Active, Error) /\ state' = Idle
    BY CommandMode DEF HandleCommandTimeout, MachineType
  <1>2. QED
    BY <1>1, SettleUnanswered, IdleFindsNothing DEF Loses

LEMMA RejectLoses ==
    ASSUME TypeOK, RejectHead PROVE Loses
  <1>1. Head(queue) \in Commands /\ slot' = Settle(Head(queue), Error) /\ state' = state
    BY RejectHeadEffect DEF RejectHead
  <1>2. QED
    BY <1>1, SettleUnanswered DEF Loses

\* What a line does to them.
LEMMA LineAnswers ==
    ASSUME MachineType, NEW line \in Lines, TransitionState(line)
    PROVE  Loses \/ Finds(line) \/ Gives
  <1>1. CASE UnsolicitedBody(line)
    <2>1. state' = Idle \/ state' = Command(state.exec)
      BY <1>1 DEF UnsolicitedBody, Resume
    <2>2. Command(state.exec).exec = state.exec
      BY DEF Command
    <2>3. QED
      BY <1>1, <2>1, <2>2, IdleFindsNothing DEF UnsolicitedBody, Loses, Unanswered
  <1>2. CASE UnsolicitedStart(line)
    <2>1. state'.exec = state.exec
      BY <1>2 DEF UnsolicitedStart, Unsolicited
    <2>2. QED
      BY <1>2, <2>1 DEF UnsolicitedStart, Loses, Unanswered
  <1>3. CASE PromptDuringCommand(line)
    <2>1. state.exec \in Executions /\ Active \in Commands
      BY <1>3, CommandMode DEF PromptDuringCommand, MachineType
    <2>2. CASE RequestOf[Active] = "SendSMS"
      <3>1. slot' = slot /\ state' = Command([state.exec EXCEPT !.phase = "WaitingForOk"])
        BY <1>3, <2>2 DEF PromptDuringCommand
      <3>2. state'.exec.found = state.exec.found
        BY <2>1, <3>1 DEF Command, Executions
      <3>3. QED
        BY <3>1, <3>2 DEF Loses, Unanswered
    <2>3. CASE RequestOf[Active] # "SendSMS"
      <3>1. state' = Idle /\ slot' = Settle(Active, Error)
        BY <1>3, <2>3 DEF PromptDuringCommand
      <3>2. QED
        BY <2>1, <3>1, SettleUnanswered, IdleFindsNothing DEF Loses
    <2>4. QED
      BY <2>2, <2>3
  <1>4. CASE ResponseDuringCommand(line)
    <2>1. state.exec \in Executions /\ Active \in Commands
      BY <1>4, CommandMode DEF ResponseDuringCommand, MachineType
    <2>2. CASE IsComplete(state.exec.phase, line)
      <3>1. state' = Idle /\ slot' = Settle(Active, Answer(Found(line), line))
        BY <1>4, <2>2 DEF ResponseDuringCommand
      <3>2. CASE Answer(Found(line), line) = Error
        BY <2>1, <3>1, <3>2, SettleUnanswered, IdleFindsNothing DEF Loses
      <3>3. CASE Answer(Found(line), line) # Error
        <4>1. line.type = "OK" /\ Found(line) \in Values
              /\ Answer(Found(line), line) = Ok(Found(line))
          BY <3>3 DEF Answer
        <4>2. Found(line) = state.exec.found
          BY <4>1 DEF Found
        <4>3. CASE caller[Active] = "Waiting"
          BY <2>1, <3>1, <4>1, <4>2, <4>3 DEF Settle, Gives
        <4>4. CASE caller[Active] # "Waiting"
          BY <2>1, <3>1, <4>4, IdleFindsNothing DEF Settle, Loses, Unanswered
        <4>5. QED
          BY <4>3, <4>4
      <3>4. QED
        BY <3>2, <3>3
    <2>3. CASE ~IsComplete(state.exec.phase, line)
      <3>1. slot' = slot /\ state' = Command([state.exec EXCEPT !.found = Found(line)])
        BY <1>4, <2>3 DEF ResponseDuringCommand
      <3>2. state'.exec.found = Found(line)
        BY <2>1, <3>1 DEF Command, Executions
      <3>3. CASE Found(line) = state.exec.found
        BY <3>1, <3>2, <3>3 DEF Loses, Unanswered
      <3>4. CASE Found(line) # state.exec.found
        BY <3>1, <3>2, <3>4 DEF Finds, Found
      <3>5. QED
        BY <3>3, <3>4
    <2>4. QED
      BY <2>2, <2>3
  <1>5. CASE IgnoredWhenIdle(line)
    BY <1>5 DEF IgnoredWhenIdle, Loses, Unanswered
  <1>6. CASE InvalidTransition(line)
    BY <1>6, ResetLoses DEF InvalidTransition, ResetToIdle
  <1>7. QED
    BY <1>1, <1>2, <1>3, <1>4, <1>5, <1>6 DEF TransitionState

-----------------------------------------------------------------------------
(***************************************************************************)
(* Each step keeps every answer in one place.                              *)
(***************************************************************************)
LEMMA WhatIsAnAnswer ==
    ASSUME NEW d \in Commands
    PROVE  /\ NoValue # d /\ NoCommand # d
           /\ \A c : WriteAT(c) \in Asks(d) <=> c = d
           /\ \A c : WritePDU(c) \notin Asks(d)
           /\ SetShuttingDown \notin Asks(d)
           /\ \A c \in Commands : c # d => NoneOf(Succeeds(c), AnswersTo(d))
           /\ OneOf(Succeeds(d), AnswersTo(d))
           /\ \A r \in Refuses : NoneOf(r, AnswersTo(d))
           /\ \A a \in Announcements : NoneOf(a, AnswersTo(d))
           /\ NoneOf(<<Plain("Text")>>, AnswersTo(d))
           /\ NoneOf(<<Plain("Prompt")>>, AnswersTo(d))
           /\ \A line \in Lines : line.type = "Result" /\ line.val = d => line \in AnswersTo(d)
  <1>1. /\ \A t \in PlainTypes : Plain(t).type # "Result"
        /\ \A k : Header(k).type = "Header"
        /\ \A r, v : Result(r, v).val = v
        /\ \A x \in AnswersTo(d) : x.type = "Result" /\ x.val = d
    BY DEF Plain, PlainTypes, Header, Result, AnswersTo
  <1>2. /\ \A t \in PlainTypes : Plain(t) \notin AnswersTo(d)
        /\ \A k : Header(k) \notin AnswersTo(d)
        /\ \A r, v : v # d => Result(r, v) \notin AnswersTo(d)
    BY <1>1
  <1>3. /\ \A x : x \notin AnswersTo(d) => NoneOf(<<x>>, AnswersTo(d))
        /\ \A x, y : x \notin AnswersTo(d) /\ y \notin AnswersTo(d)
                        => NoneOf(<<x, y>>, AnswersTo(d))
    BY DEF NoneOf
  <1>4. /\ "OK" \in PlainTypes /\ "ERROR" \in PlainTypes /\ "CME" \in PlainTypes
        /\ "Text" \in PlainTypes /\ "Prompt" \in PlainTypes
    BY DEF PlainTypes
  <1>5. \A c \in Commands : c # d => NoneOf(Succeeds(c), AnswersTo(d))
    BY <1>2, <1>3, <1>4 DEF Succeeds
  <1>6. OneOf(Succeeds(d), AnswersTo(d))
    <2>1. Plain("OK") \notin AnswersTo(d)
      BY <1>2, <1>4
    <2>2. Len(Succeeds(d)) = 2 /\ Succeeds(d)[2] = Plain("OK")
      BY DEF Succeeds
    <2>3. \A i \in 1..2 : i = 1 \/ i = 2
      OBVIOUS
    <2>4. QED
      BY <2>1, <2>2, <2>3 DEF OneOf
  <1>7. /\ NoneOf(<<Plain("ERROR")>>, AnswersTo(d)) /\ NoneOf(<<Plain("CME")>>, AnswersTo(d))
        /\ NoneOf(<<Plain("Text")>>, AnswersTo(d)) /\ NoneOf(<<Plain("Prompt")>>, AnswersTo(d))
    BY <1>2, <1>3, <1>4
  <1>8. /\ NoneOf(<<Header("IncomingSMS"), Plain("Text")>>, AnswersTo(d))
        /\ NoneOf(<<Header("NetworkStatusChange")>>, AnswersTo(d))
        /\ NoneOf(<<Header("ShuttingDown")>>, AnswersTo(d))
    BY <1>2, <1>3, <1>4
  <1>9. /\ \A r \in Refuses : NoneOf(r, AnswersTo(d))
        /\ \A a \in Announcements : NoneOf(a, AnswersTo(d))
    BY <1>7, <1>8 DEF Refuses, Announcements
  <1>10. ASSUME NEW line \in Lines, line.type = "Result", line.val = d
         PROVE  line \in AnswersTo(d)
    <2>1. line \in ResultLines
      BY <1>1, <1>10 DEF Lines
    <2>2. PICK r \in Requests, v \in Values \cup {Malformed} : line = Result(r, v)
      BY <2>1 DEF ResultLines
    <2>3. v = d
      BY <1>1, <1>10, <2>2
    <2>4. QED
      BY <2>2, <2>3 DEF AnswersTo
  <1>11. /\ \A c : WriteAT(c) \in Asks(d) <=> c = d
         /\ \A c : WritePDU(c) \notin Asks(d)
         /\ SetShuttingDown \notin Asks(d)
    BY DEF Asks, WriteAT, WritePDU, SetShuttingDown
  <1>12. NoValue # d /\ NoCommand # d
    BY ValuesAssumption, ValuesAreCommands, NoCommandAssumption
  <1>13. QED
    BY <1>5, <1>6, <1>7, <1>9, <1>10, <1>11, <1>12

\* A step that only loses answers, and takes from the line or the bytes to write.
LEMMA LosesAnswers ==
    ASSUME Control, [Next]_vars, Loses, NEW d \in Commands, AnswerInv(d),
           ToWrite(d)' => ToWrite(d), ToModem(d)' => ToModem(d), InModem(d)' => InModem(d),
           OnLine(d)' => OnLine(d), OneOf(to_modem', Asks(d)), OneOf(from_modem', AnswersTo(d))
    PROVE  AnswerInv(d)'
  <1>1. slot \in [Commands -> Slots]
    BY DEF Control, TypeOK
  <1>2. (IsGiven(d)' => IsGiven(d)) /\ GivenOnce(d)'
    BY <1>1, UnansweredSlots DEF Loses, AnswerInv
  <1>3. IsFound(d)' => IsFound(d)
    BY WhatIsAnAnswer DEF IsFound, Loses
  <1>4. QED
    BY <1>2, <1>3, StaysSettled, FewerAnswers

LEMMA AnswersOffTheLine ==
    ASSUME LineInv, AllAnswers, OffTheLine
    PROVE  AllAnswers'
  <1> SUFFICES ASSUME NEW d \in Commands PROVE AnswerInv(d)'
    BY DEF AllAnswers
  <1>1. to_modem' = to_modem /\ from_modem' = from_modem /\ modem' = modem
    BY DEF OffTheLine, link
  <1>2. /\ ToModem(d)' <=> ToModem(d)
        /\ InModem(d)' <=> InModem(d)
        /\ OnLine(d)' <=> OnLine(d)
    BY <1>1 DEF ToModem, InModem, OnLine
  <1>3. /\ AnswerInv(d) /\ OneOf(to_modem', Asks(d)) /\ OneOf(from_modem', AnswersTo(d))
    BY <1>1 DEF AllAnswers, AnswerInv
  <1>4. Control /\ TypeOK /\ MachineType /\ [Next]_vars
    BY LinkStepIsWorkerStep, TypeOfMachine DEF LineInv, WorkerInv, Control
  <1>5. ASSUME events' = events, Loses PROVE AnswerInv(d)'
    <2>1. ToWrite(d)' <=> ToWrite(d)
      BY <1>5 DEF ToWrite
    <2>2. QED
      BY <1>2, <1>3, <1>4, <1>5, <2>1, LosesAnswers
  <1>6. CASE Callers \/ QueueRejected
    BY <1>5, <1>6 DEF Callers, SendRequest, ReceiveResponse, GiveUp, QueueRejected, machine,
                      Loses, Unanswered
  <1>7. CASE RejectOnShutdown \/ RejectWhenOffline
    <2>1. RejectHead /\ events' = events
      BY <1>7 DEF RejectOnShutdown, RejectWhenOffline, RejectHead
    <2>2. QED
      BY <1>4, <1>5, <2>1, RejectLoses
  <1>8. CASE PortFailed \/ FailActiveOnShutdown
    <2>1. FailActiveCommand /\ events' = events
      BY <1>8 DEF PortFailed, FailActiveOnShutdown
    <2>2. QED
      BY <1>4, <1>5, <2>1, FailActiveLoses
  <1>9. CASE GoOffline
    <2>1. ResetToIdle /\ events' = events
      BY <1>9 DEF GoOffline
    <2>2. QED
      BY <1>4, <1>5, <2>1, ResetLoses
  <1>10. CASE StartNext
    <2>1. PICK c : c = Head(queue) /\ queue # <<>> /\ events = <<>> /\ state = Idle
                   /\ StartCommand(c)
      BY <1>10 DEF StartNext, CanAcceptCommand
    <2>2. c \in Commands /\ Queued(c)
      <3>1. queue \in Seq(Commands)
        BY <1>4 DEF TypeOK
      <3>2. 1 \in 1..Len(queue) /\ queue[1] = c /\ c \in Commands
        BY <2>1, <3>1, TailFacts
      <3>3. QED
        BY <3>2 DEF Queued
    <2>3. /\ events' = Append(<<>>, WriteAT(c))
          /\ state' = Command(Execution(c)) /\ slot' = slot
      BY <2>1 DEF StartCommand
    <2>4. Command(Execution(c)).exec.found = NoValue /\ Active' = c
      BY <2>3 DEF Command, Execution, Active
    <2>5. CASE c # d
      <3>1. ~ToWrite(d)'
        <4>1. WriteAT(c) \notin Asks(d) /\ WriteAT(c) \in WorkerEvents /\ <<>> \in Seq(WorkerEvents)
          BY <2>2, <2>5, WhatIsAnAnswer DEF WorkerEvents
        <4>2. NoneOf(Append(<<>>, WriteAT(c)), Asks(d))
          BY <4>1, NoneOfEmpty, NoneOfAppend
        <4>3. QED
          BY <2>3, <4>2 DEF ToWrite
      <3>2. Loses
        BY <2>3, <2>4 DEF Loses, Unanswered
      <3>3. QED
        BY <1>2, <1>3, <1>4, <3>1, <3>2, LosesAnswers
    <2>6. CASE c = d
      <3>1. slot[d] = Empty /\ Active # d
        BY <2>2, <2>6 DEF LineInv, WorkerInv, CommandConservation
      <3>2. ~Underway(d) /\ ~IsGiven(d)
        BY <1>3, <3>1 DEF AnswerInv
      <3>3. ~IsFound(d)' /\ ~IsGiven(d)' /\ GivenOnce(d)'
        BY <2>3, <2>4, <3>2, WhatIsAnAnswer DEF IsFound, IsGiven, GivenOnce
      <3>4. ~ToModem(d)' /\ ~InModem(d)' /\ ~OnLine(d)'
        BY <1>2, <3>2 DEF Underway
      <3>5. QED
        BY <1>3, <2>4, <2>6, <3>3, <3>4 DEF AnswerInv, Underway
    <2>7. QED
      BY <2>5, <2>6
  <1>11. QED
    BY <1>6, <1>7, <1>8, <1>9, <1>10 DEF OffTheLine

LEMMA AnswersWritten ==
    ASSUME LineInv, AllAnswers, WriteOrStatus
    PROVE  AllAnswers'
  <1> SUFFICES ASSUME NEW d \in Commands PROVE AnswerInv(d)'
    BY DEF AllAnswers
  <1>1. /\ from_modem' = from_modem /\ modem' = modem /\ events' = Tail(events) /\ events # <<>>
        /\ HandleWorkerEvent
    BY DEF WriteOrStatus, HandleWorkerEvent
  <1>2. /\ InModem(d)' <=> InModem(d)
        /\ OnLine(d)' <=> OnLine(d)
    BY <1>1 DEF InModem, OnLine
  <1>3. AnswerInv(d) /\ OneOf(from_modem', AnswersTo(d)) /\ OneOf(to_modem, Asks(d))
    BY <1>1 DEF AllAnswers, AnswerInv
  <1>4. /\ Control /\ MachineType /\ [Next]_vars
        /\ events \in Seq(WorkerEvents) /\ to_modem \in Seq(Writable)
    BY LinkStepIsWorkerStep, TypeOfMachine DEF LineInv, WorkerInv, Control, TypeOK
  <1>5. ToWrite(d)' => ToWrite(d)
    BY <1>1, <1>4, NoneOfTail DEF ToWrite
  <1>6. Loses
    <2>1. CASE SetStatusEvent \/ WriteEvent
      BY <2>1 DEF SetStatusEvent, WriteEvent, Loses, Unanswered
    <2>2. CASE WriteFailed
      BY <1>4, <2>2, FailActiveLoses DEF WriteFailed
    <2>3. QED
      BY <1>1, <2>1, <2>2 DEF HandleWorkerEvent
  <1>7. CASE to_modem' = to_modem
    <2>1. ToModem(d)' <=> ToModem(d)
      BY <1>7 DEF ToModem
    <2>2. QED
      BY <1>2, <1>3, <1>4, <1>5, <1>6, <1>7, <2>1, LosesAnswers
  <1>8. CASE to_modem' # to_modem
    <2>1. /\ to_modem' = Append(to_modem, Head(events))
          /\ Head(events) \in Writable
          /\ WriteEvent
      <3>1. /\ to_modem' = Append(to_modem, Head(events))
            /\ Head(events).type # "SetStatus" /\ status' = "Online"
        BY <1>8 DEF WriteOrStatus
      <3>2. Head(events) \in Writable
        BY <1>1, <1>4, <3>1, TailFacts DEF Writable, SetShuttingDown
      <3>3. WriteEvent
        BY <1>1, <3>1 DEF HandleWorkerEvent, SetStatusEvent, WriteFailed, SetStatus
      <3>4. QED
        BY <3>1, <3>2, <3>3
    <2>2. CASE Head(events) \notin Asks(d)
      <3>1. /\ OneOf(to_modem', Asks(d))
            /\ ToModem(d)' => ToModem(d)
        BY <1>3, <1>4, <2>1, <2>2, OneOfAppend, NoneOfAppend DEF ToModem
      <3>2. QED
        BY <1>2, <1>3, <1>4, <1>5, <1>6, <3>1, LosesAnswers
    <2>3. CASE Head(events) \in Asks(d)
      <3>1. Head(events) = WriteAT(d) /\ Head(events).type = "WriteAT"
        BY <2>3 DEF Asks, WriteAT
      <3>2. 1 \in 1..Len(events) /\ events[1] = Head(events)
        BY <1>1, <1>4, TailFacts
      <3>3. ToWrite(d)
        BY <2>3, <3>2 DEF ToWrite, NoneOf
      <3>4. ~ToWrite(d)'
        <4>1. events = <<WriteAT(events[1].cmd)>>
          BY <3>1, <3>2 DEF LineInv, WorkerInv, WriteBeforeAnyAnswer
        <4>2. events' = <<>>
          BY <1>1, <4>1, SMTT(30)
        <4>3. QED
          BY <4>2, NoneOfEmpty DEF ToWrite
      <3>5. OneOf(to_modem', Asks(d))
        <4>1. NoneOf(to_modem, Asks(d))
          BY <1>3, <3>3 DEF AnswerInv, ToModem
        <4>2. QED
          BY <1>4, <2>1, <4>1, OneOfAppend
      <3>6. state' = state /\ slot' = slot
        BY <2>1 DEF WriteEvent
      <3>7. /\ IsFound(d)' <=> IsFound(d)
            /\ IsGiven(d)' <=> IsGiven(d)
            /\ GivenOnce(d)' <=> GivenOnce(d)
            /\ (Active = d \/ slot[d] # Empty) <=> (Active' = d \/ slot'[d] # Empty)
        BY <3>6 DEF IsFound, IsGiven, GivenOnce, Active
      <3>8. QED
        BY <1>2, <1>3, <3>3, <3>4, <3>5, <3>7 DEF AnswerInv, Underway
    <2>4. QED
      BY <2>2, <2>3
  <1>9. QED
    BY <1>7, <1>8

LEMMA AnswersRead ==
    ASSUME LineInv, AllAnswers, ReadLines
    PROVE  AllAnswers'
  BY DEF ReadLines, ReadPort, machine, link, AllAnswers, AnswerInv, GivenOnce, ToWrite, ToModem,
         InModem, OnLine, IsFound, IsGiven, Underway, Active

LEMMA AnswersTimeout ==
    ASSUME LineInv, AllAnswers, Timeout
    PROVE  AllAnswers'
  <1> SUFFICES ASSUME NEW d \in Commands PROVE AnswerInv(d)'
    BY DEF AllAnswers
  <1>1. to_modem' = to_modem /\ modem' = modem /\ events' = events /\ HandleCommandTimeout
    BY DEF Timeout, CommandTimeout, HandleCommandTimeout
  <1>2. /\ ToWrite(d)' <=> ToWrite(d)
        /\ ToModem(d)' <=> ToModem(d)
        /\ InModem(d)' <=> InModem(d)
    BY <1>1 DEF ToWrite, ToModem, InModem
  <1>3. AnswerInv(d) /\ OneOf(to_modem', Asks(d)) /\ OneOf(from_modem, AnswersTo(d))
    BY <1>1 DEF AllAnswers, AnswerInv
  <1>4. Control /\ MachineType /\ [Next]_vars
    BY LinkStepIsWorkerStep, TypeOfMachine DEF LineInv, WorkerInv, Control
  <1>5. OneOf(from_modem', AnswersTo(d)) /\ (OnLine(d)' => OnLine(d))
    <2>1. CASE from_modem' = from_modem
      BY <1>3, <2>1 DEF OnLine
    <2>2. CASE from_modem' # from_modem
      <3>1. partial /\ ~partial' /\ lines = 0
        BY <2>2 DEF Timeout, CommandTimeout, PortTurn, Selecting
      <3>2. from_modem \in Seq(Lines) /\ from_modem # <<>>
        BY <3>1 DEF LineInv
      <3>3. PICK half \in {<<>>, <<Plain("Text")>>} : from_modem' = half \o Tail(from_modem)
        BY <3>1 DEF Timeout
      <3>4. half \in Seq(Lines) /\ NoneOf(half, AnswersTo(d)) /\ Tail(from_modem) \in Seq(Lines)
        <4>1. <<>> \in Seq(Lines) /\ <<Plain("Text")>> \in Seq(Lines)
          BY PrintedLines DEF PlainTypes
        <4>2. NoneOf(<<>>, AnswersTo(d)) /\ NoneOf(<<Plain("Text")>>, AnswersTo(d))
          BY WhatIsAnAnswer, NoneOfEmpty
        <4>3. Tail(from_modem) \in Seq(Lines)
          BY <3>2, TailFacts
        <4>4. QED
          BY <4>1, <4>2, <4>3
      <3>5. /\ OneOf(Tail(from_modem), AnswersTo(d))
            /\ NoneOf(from_modem, AnswersTo(d)) => NoneOf(Tail(from_modem), AnswersTo(d))
        BY <1>3, <3>2, OneOfTail, NoneOfTail
      <3>6. QED
        BY <3>3, <3>4, <3>5, OneOfConcat, NoneOfConcat DEF OnLine
    <2>3. QED
      BY <2>1, <2>2
  <1>6. Loses
    BY <1>1, <1>4, TimeoutLoses
  <1>7. QED
    BY <1>2, <1>3, <1>4, <1>5, <1>6, LosesAnswers

LEMMA AnswersReinitialize ==
    ASSUME LineInv, AllAnswers, Reinitialize
    PROVE  AllAnswers'
  <1> SUFFICES ASSUME NEW d \in Commands PROVE AnswerInv(d)'
    BY DEF AllAnswers
  <1>1. modem' = modem /\ events' = events
    BY DEF Reinitialize, Initialize, Reconnect, machine
  <1>2. /\ to_modem' = to_modem \/ to_modem' = <<>>
        /\ from_modem' = from_modem \/ from_modem' = <<>>
    BY DEF Reinitialize
  <1>3. /\ ToWrite(d)' <=> ToWrite(d)
        /\ InModem(d)' <=> InModem(d)
        /\ ToModem(d)' => ToModem(d)
        /\ OnLine(d)' => OnLine(d)
    BY <1>1, <1>2, NoneOfEmpty DEF ToWrite, ToModem, InModem, OnLine
  <1>4. AnswerInv(d) /\ OneOf(to_modem', Asks(d)) /\ OneOf(from_modem', AnswersTo(d))
    BY <1>2, NoneOfEmpty, NoneThenOne DEF AllAnswers, AnswerInv
  <1>5. Control /\ MachineType /\ [Next]_vars
    BY LinkStepIsWorkerStep, TypeOfMachine DEF LineInv, WorkerInv, Control
  <1>6. Loses
    <2>1. CASE Initialize
      BY <2>1 DEF Initialize, machine, Loses, Unanswered
    <2>2. CASE Reconnect
      BY <1>5, <2>2, ResetLoses DEF Reconnect
    <2>3. QED
      BY <2>1, <2>2 DEF Reinitialize
  <1>7. QED
    BY <1>3, <1>4, <1>5, <1>6, LosesAnswers

LEMMA AnswersOfALine ==
    ASSUME LineInv, AllAnswers, ProcessNext
    PROVE  AllAnswers'
  <1> SUFFICES ASSUME NEW d \in Commands PROVE AnswerInv(d)'
    BY DEF AllAnswers
  <1>1. PICK line : line = Head(from_modem) /\ ProcessLine(line)
    BY DEF ProcessNext
  <1>2. /\ from_modem \in Seq(Lines) /\ from_modem # <<>> /\ from_modem' = Tail(from_modem)
        /\ to_modem' = to_modem /\ modem' = modem
        /\ slot \in [Commands -> Slots] /\ events \in Seq(WorkerEvents)
        /\ Control /\ MachineType /\ TransitionState(line) /\ [Next]_vars
    BY <1>1, LinkStepIsWorkerStep, TypeOfMachine
    DEF ProcessNext, ProcessLine, LineInv, WorkerInv, Control, TypeOK
  <1>3. line \in Lines
    BY <1>1, <1>2, TailFacts
  <1>4. /\ AnswerInv(d) /\ OneOf(to_modem', Asks(d))
        /\ ToModem(d)' <=> ToModem(d)
        /\ InModem(d)' <=> InModem(d)
    BY <1>2 DEF AllAnswers, AnswerInv, ToModem, InModem
  <1>5. /\ OneOf(from_modem', AnswersTo(d))
        /\ OnLine(d)' => OnLine(d)
        /\ line \in AnswersTo(d) => OnLine(d) /\ ~OnLine(d)'
    BY <1>1, <1>2, <1>4, OneOfTail, NoneOfTail DEF OnLine, AnswerInv
  <1>6. ToWrite(d)' => ToWrite(d)
    <2>1. ASSUME NEW e \in WorkerEvents, e \notin Asks(d), events' = Append(events, e),
                 NoneOf(events, Asks(d))
          PROVE  NoneOf(events', Asks(d))
      BY <1>2, <2>1, NoneOfAppend
    <2>2. /\ SetShuttingDown \in WorkerEvents /\ SetShuttingDown \notin Asks(d)
          /\ \A c \in Commands : WritePDU(c) \in WorkerEvents /\ WritePDU(c) \notin Asks(d)
      BY WhatIsAnAnswer DEF WorkerEvents
    <2>3. QED
      BY <1>2, <1>3, <2>1, <2>2, WhatALineAsks DEF ToWrite
  <1>7. CASE Loses
    BY <1>2, <1>4, <1>5, <1>6, <1>7, LosesAnswers
  <1>8. CASE Finds(line)
    <2>1. slot' = slot /\ line.type = "Result" /\ state'.exec.found = line.val
      BY <1>8 DEF Finds
    <2>2. (IsGiven(d)' <=> IsGiven(d)) /\ (GivenOnce(d)' <=> GivenOnce(d))
      BY <2>1 DEF IsGiven, GivenOnce
    <2>3. CASE line.val # d
      <3>1. ~IsFound(d)'
        BY <2>1, <2>3 DEF IsFound
      <3>2. GivenOnce(d)'
        BY <1>4, <2>2 DEF AnswerInv
      <3>3. QED
        BY <1>2, <1>4, <1>5, <1>6, <2>2, <3>1, <3>2, StaysSettled, FewerAnswers
    <2>4. CASE line.val = d
      <3>1. OnLine(d) /\ ~OnLine(d)'
        BY <1>3, <1>5, <2>1, <2>4, WhatIsAnAnswer
      <3>2. Active' = d \/ slot'[d] # Empty
        BY <1>2, <1>4, <3>1, StaysSettled DEF AnswerInv, Underway
      <3>3. QED
        BY <1>4, <1>5, <1>6, <2>2, <3>1, <3>2 DEF AnswerInv, Underway
    <2>5. QED
      BY <2>3, <2>4
  <1>9. CASE Gives
    <2>1. /\ Active \in Commands /\ state' = Idle
          /\ slot' = [slot EXCEPT ![Active] = Ok(state.exec.found)]
      BY <1>9 DEF Gives
    <2>2. ~IsFound(d)'
      BY <2>1, IdleFindsNothing, WhatIsAnAnswer DEF IsFound
    <2>3. \A v : Ok(v) = Ok(d) <=> v = d
      <3>1. \A v : Ok(v).val = v
        BY DEF Ok
      <3>2. QED
        BY <3>1
    <2>4. CASE state.exec.found # d
      <3>1. \A c \in Commands : slot'[c] = Ok(d) => slot[c] = Ok(d)
        BY <1>2, <2>1, <2>3, <2>4
      <3>2. (IsGiven(d)' => IsGiven(d)) /\ GivenOnce(d)'
        BY <1>4, <3>1 DEF IsGiven, GivenOnce, AnswerInv
      <3>3. QED
        BY <1>2, <1>4, <1>5, <1>6, <2>2, <3>2, StaysSettled, FewerAnswers
    <2>5. CASE state.exec.found = d
      <3>1. IsFound(d)
        BY <2>5 DEF IsFound
      <3>2. ~IsGiven(d)
        BY <1>4, <3>1 DEF AnswerInv
      <3>3. \A c \in Commands : slot'[c] = Ok(d) => c = Active
        BY <1>2, <2>1, <3>2 DEF IsGiven
      <3>4. GivenOnce(d)'
        BY <3>3 DEF GivenOnce
      <3>5. slot'[d] # Empty
        <4>1. Active' # d
          BY <2>1, WhatIsAnAnswer DEF Active, Idle, NoExecution
        <4>2. QED
          BY <1>2, <1>4, <3>1, <4>1, StaysSettled DEF AnswerInv, Underway
      <3>6. ~ToWrite(d)' /\ ~ToModem(d)' /\ ~InModem(d)' /\ ~OnLine(d)'
        BY <1>4, <1>5, <1>6, <3>1 DEF AnswerInv
      <3>7. QED
        BY <1>4, <1>5, <2>2, <3>4, <3>5, <3>6 DEF AnswerInv, Underway
    <2>6. QED
      BY <2>4, <2>5
  <1>10. QED
    BY <1>2, <1>3, <1>7, <1>8, <1>9, LineAnswers

LEMMA AnswersModemStep ==
    ASSUME LineInv, AllAnswers, ModemStep
    PROVE  AllAnswers'
  <1> SUFFICES ASSUME NEW d \in Commands PROVE AnswerInv(d)'
    BY DEF AllAnswers
  <1>1. /\ to_modem \in Seq(Writable) /\ from_modem \in Seq(Lines) /\ AnswerInv(d)
        /\ state' = state /\ slot' = slot /\ events' = events
    BY ModemStepUnseen DEF Unseen, machine, LineInv, AllAnswers
  <1>2. /\ ToWrite(d)' <=> ToWrite(d)
        /\ IsFound(d)' <=> IsFound(d)
        /\ IsGiven(d)' <=> IsGiven(d)
        /\ GivenOnce(d)' <=> GivenOnce(d)
        /\ (Active' = d \/ slot'[d] # Empty) <=> (Active = d \/ slot[d] # Empty)
        /\ slot'[d] # Empty <=> slot[d] # Empty
    BY <1>1 DEF ToWrite, IsFound, IsGiven, GivenOnce, Active
  <1>3. ASSUME to_modem # <<>>, to_modem' = Tail(to_modem)
        PROVE  /\ OneOf(to_modem', Asks(d))
               /\ ToModem(d)' => ToModem(d)
               /\ Head(to_modem) \in Asks(d) => ToModem(d) /\ ~ToModem(d)'
    BY <1>1, <1>3, OneOfTail, NoneOfTail DEF AnswerInv, ToModem
  <1>4. ASSUME NEW ls \in Seq(Lines), Prints(ls), NoneOf(ls, AnswersTo(d))
        PROVE  OneOf(from_modem', AnswersTo(d)) /\ (OnLine(d)' => OnLine(d))
    BY <1>1, <1>4, OneOfConcat, NoneOfConcat DEF AnswerInv, OnLine, Prints
  <1>5. ASSUME Prints(Succeeds(d)), ~OnLine(d)
        PROVE  OneOf(from_modem', AnswersTo(d))
    BY <1>1, <1>5, PrintedLines, WhatIsAnAnswer, OneOfConcat DEF OnLine, Prints
  <1>6. /\ InModem(d) <=> modem.cmd = d
        /\ InModem(d)' <=> modem'.cmd = d
        /\ Ready.cmd # d /\ PduEntry(NoCommand).cmd # d
        /\ \A c : PduEntry(c).cmd = c
    BY WhatIsAnAnswer DEF InModem, Ready, PduEntry
  <1>7. ASSUME NEW c \in Commands, AnswerCommand(c) PROVE AnswerInv(d)'
    <2>1. /\ modem = Ready /\ to_modem # <<>> /\ to_modem' = Tail(to_modem)
          /\ Head(to_modem) = WriteAT(c)
      BY <1>7 DEF AnswerCommand, Takes, WriteAT
    <2>2. CASE Prints(<<Plain("Prompt")>>) /\ modem' = PduEntry(c)
      <3>1. OneOf(from_modem', AnswersTo(d)) /\ (OnLine(d)' => OnLine(d))
        BY <1>4, <2>2, PrintedLines, WhatIsAnAnswer DEF PlainTypes
      <3>2. c = d => ToModem(d) /\ ~ToModem(d)'
        BY <1>3, <2>1, WhatIsAnAnswer
      <3>3. InModem(d)' <=> c = d
        BY <1>6, <2>2
      <3>4. QED
        BY <1>1, <1>2, <1>3, <2>1, <3>1, <3>2, <3>3 DEF AnswerInv, Underway
    <2>3. CASE Prints(Succeeds(c)) /\ modem' = modem
      <3>1. CASE c = d
        <4>1. ToModem(d) /\ ~ToModem(d)'
          BY <1>3, <2>1, <3>1, WhatIsAnAnswer
        <4>2. ~OnLine(d) /\ ~InModem(d)'
          BY <1>1, <1>6, <2>3, <4>1 DEF AnswerInv
        <4>3. OneOf(from_modem', AnswersTo(d))
          BY <1>5, <2>3, <3>1, <4>2
        <4>4. QED
          BY <1>1, <1>2, <1>3, <2>1, <4>1, <4>2, <4>3 DEF AnswerInv, Underway
      <3>2. CASE c # d
        <4>1. OneOf(from_modem', AnswersTo(d)) /\ (OnLine(d)' => OnLine(d))
          BY <1>4, <2>3, <3>2, PrintedLines, WhatIsAnAnswer
        <4>2. InModem(d)' <=> InModem(d)
          BY <1>6, <2>3
        <4>3. QED
          BY <1>1, <1>2, <1>3, <2>1, <4>1, <4>2 DEF AnswerInv, Underway
      <3>3. QED
        BY <3>1, <3>2
    <2>4. ASSUME NEW r \in Refuses, Prints(r), modem' = modem PROVE AnswerInv(d)'
      <3>1. OneOf(from_modem', AnswersTo(d)) /\ (OnLine(d)' => OnLine(d))
        BY <1>4, <2>4, PrintedLines, WhatIsAnAnswer
      <3>2. InModem(d)' <=> InModem(d)
        BY <1>6, <2>4
      <3>3. QED
        BY <1>1, <1>2, <1>3, <2>1, <3>1, <3>2 DEF AnswerInv, Underway
    <2>5. QED
      BY <1>7, <2>2, <2>3, <2>4 DEF AnswerCommand
  <1>8. ASSUME NEW c \in Commands, TakeAsText(c) PROVE AnswerInv(d)'
    <2>1. /\ modem' = PduEntry(NoCommand) /\ from_modem' = from_modem
          /\ to_modem # <<>> /\ to_modem' = Tail(to_modem)
      BY <1>8 DEF TakeAsText, Takes
    <2>2. ~InModem(d)' /\ (OnLine(d)' <=> OnLine(d)) /\ OneOf(from_modem', AnswersTo(d))
      BY <1>1, <1>6, <2>1 DEF OnLine, AnswerInv
    <2>3. QED
      BY <1>1, <1>2, <1>3, <2>1, <2>2 DEF AnswerInv, Underway
  <1>9. ASSUME NEW c \in Commands, SubmitPdu(c) PROVE AnswerInv(d)'
    <2>1. modem' = Ready /\ to_modem # <<>> /\ to_modem' = Tail(to_modem) /\ ~InModem(d)'
      BY <1>6, <1>9 DEF SubmitPdu, Takes
    <2>2. CASE modem.cmd = c /\ Prints(Succeeds(c)) /\ c = d
      <3>1. InModem(d) /\ ~OnLine(d) /\ ~ToModem(d)'
        BY <1>1, <1>3, <1>6, <2>1, <2>2 DEF AnswerInv
      <3>2. OneOf(from_modem', AnswersTo(d))
        BY <1>5, <2>2, <3>1
      <3>3. QED
        BY <1>1, <1>2, <1>3, <2>1, <3>1, <3>2 DEF AnswerInv, Underway
    <2>3. ASSUME NEW ls \in Seq(Lines), Prints(ls), NoneOf(ls, AnswersTo(d))
          PROVE  AnswerInv(d)'
      <3>1. OneOf(from_modem', AnswersTo(d)) /\ (OnLine(d)' => OnLine(d))
        BY <1>4, <2>3
      <3>2. QED
        BY <1>1, <1>2, <1>3, <2>1, <3>1 DEF AnswerInv, Underway
    <2>4. QED
      BY <1>9, <2>2, <2>3, PrintedLines, WhatIsAnAnswer DEF SubmitPdu
  <1>10. CASE Announce
    <2>1. to_modem' = to_modem /\ modem' = modem
      BY <1>10 DEF Announce
    <2>2. PICK ls \in Seq(Lines) : Prints(ls) /\ NoneOf(ls, AnswersTo(d))
      BY <1>10, PrintedLines, WhatIsAnAnswer DEF Announce
    <2>3. OneOf(from_modem', AnswersTo(d)) /\ (OnLine(d)' => OnLine(d))
      BY <1>4, <2>2
    <2>4. (ToModem(d)' <=> ToModem(d)) /\ (InModem(d)' <=> InModem(d))
      BY <2>1 DEF ToModem, InModem
    <2>5. QED
      BY <1>1, <1>2, <2>1, <2>3, <2>4 DEF AnswerInv, Underway
  <1>11. CASE PowerCycle
    <2>1. to_modem' = <<>> /\ modem' = Ready /\ from_modem' = from_modem
      BY <1>11 DEF PowerCycle
    <2>2. ~ToModem(d)' /\ ~InModem(d)' /\ (OnLine(d)' <=> OnLine(d)) /\ OneOf(to_modem', Asks(d))
      BY <1>6, <2>1, NoneOfEmpty, NoneThenOne DEF ToModem, OnLine
    <2>3. QED
      BY <1>1, <1>2, <2>1, <2>2 DEF AnswerInv, Underway
  <1>12. QED
    BY <1>7, <1>8, <1>9, <1>10, <1>11 DEF ModemStep

LEMMA AnswersNext == LineInv /\ AllAnswers /\ [LinkNext]_linkVars => AllAnswers'
  <1> SUFFICES ASSUME LineInv, AllAnswers, [LinkNext]_linkVars PROVE AllAnswers'
    OBVIOUS
  <1>1. CASE UNCHANGED linkVars
    BY <1>1 DEF linkVars, link, vars, AllAnswers, AnswerInv, GivenOnce, ToWrite, ToModem, InModem,
                OnLine, IsFound, IsGiven, Underway, Active
  <1>2. QED
    BY <1>1, AnswersOfALine, AnswersOffTheLine, AnswersWritten, AnswersRead, AnswersTimeout,
       AnswersReinitialize, AnswersModemStep DEF LinkNext

LEMMA AnswersInit == LinkInit => AllAnswers
  <1> SUFFICES ASSUME LinkInit, NEW d \in Commands PROVE AnswerInv(d)
    BY DEF AllAnswers
  <1>1. /\ slot = [c \in Commands |-> Empty] /\ events = <<>> /\ to_modem = <<>>
        /\ from_modem = <<>> /\ modem = Ready /\ state = Idle
    BY DEF LinkInit, Init
  <1>2. ~ToWrite(d) /\ ~ToModem(d) /\ ~OnLine(d)
    BY <1>1, NoneOfEmpty DEF ToWrite, ToModem, OnLine
  <1>3. ~InModem(d) /\ ~IsFound(d)
    BY <1>1, WhatIsAnAnswer, IdleFindsNothing DEF InModem, IsFound, Ready
  <1>4. \A c \in Commands : slot[c] # Ok(d)
    BY <1>1 DEF Ok, Empty
  <1>5. OneOf(to_modem, Asks(d)) /\ OneOf(from_modem, AnswersTo(d))
    BY <1>1, NoneOfEmpty, NoneThenOne
  <1>6. QED
    BY <1>2, <1>3, <1>4, <1>5 DEF AnswerInv, GivenOnce, IsGiven, Underway

\* An answer is given once, and to another command than its own only when its own
\* has been settled without it, however many commands time out one after another
\* and whatever their late answers are taken for.
THEOREM StrayAnswersWereMissed == LinkSpec => []OnlyMissedAnswersStray
  <1>1. LinkSpec => []LineInv
    BY LineInvInit, LineInvNext, PTL DEF LinkSpec
  <1>2. LinkSpec => []AllAnswers
    BY <1>1, AnswersInit, AnswersNext, PTL DEF LinkSpec
  <1>3. AllAnswers => OnlyMissedAnswersStray
    BY DEF AllAnswers, AnswerInv, GivenOnce, IsGiven, OnlyMissedAnswersStray
  <1>4. QED
    BY <1>2, <1>3, PTL
=============================================================================
