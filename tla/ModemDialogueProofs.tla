------------------------- MODULE ModemDialogueProofs -------------------------
(***************************************************************************)
(* Theorems about ModemDialogue: what is proved of ModemWorker holds with  *)
(* the dialogues taken apart, and what it means that the worker comes      *)
(* online.                                                                 *)
(***************************************************************************)
EXTENDS ModemDialogue, ModemWorkerProofs, SequenceTheorems

-----------------------------------------------------------------------------
(***************************************************************************)
(* Each step of a dialogue is a step of the worker or none.                *)
(***************************************************************************)
LEMMA ReturnIsStep ==
    ASSUME NEW succeeded, Return(succeeded)
    PROVE  [Next]_vars
  <1>1. CASE pc = "init"
    BY <1>1 DEF Return, Next, Worker
  <1>2. CASE pc # "init"
    BY <1>2 DEF Return, Next, Worker, WorkerWaits
  <1>3. QED
    BY <1>1, <1>2

LEMMA FailIsStep ==
    ASSUME NEW held, Fail(held)
    PROVE  [Next]_vars
  <1>1. Return(FALSE) \/ WorkerWaits
    BY DEF Fail, FailTest
  <1>2. QED
    BY <1>1, ReturnIsStep DEF WorkerWaits

LEMMA SucceedIsStep ==
    ASSUME NEW held, Succeed(held)
    PROVE  [Next]_vars
  <1>1. Return(TRUE) \/ WorkerWaits
    BY DEF Succeed
  <1>2. QED
    BY <1>1, ReturnIsStep DEF WorkerWaits

LEMMA StepIsWorkerStep ==
    ASSUME [DialogueNext]_dialogueVars
    PROVE  [Next]_vars
  <1>1. CASE Begin \/ Accept \/ Refuse \/ Recover
    BY <1>1 DEF Begin, Accept, Refuse, ModemActs, Recover, WorkerWaits
  <1>2. CASE Hear
    <2>1. WorkerWaits \/ \E heard, held : Conclude(heard, held)
      BY <1>2 DEF Hear
    <2>2. ASSUME NEW heard, NEW held, Conclude(heard, held)
          PROVE  [Next]_vars
      BY <2>2, FailIsStep, SucceedIsStep DEF Conclude
    <2>3. QED
      BY <2>1, <2>2 DEF WorkerWaits
  <1>3. CASE AnswerOverdue \/ PortFails
    BY <1>3, FailIsStep DEF AnswerOverdue, PortFails
  <1>4. CASE LoopStep
    BY <1>4 DEF LoopStep, InLoop, WorkerStep, Next, Worker
  <1>5. CASE LineStep \/ PortStep
    BY <1>5 DEF LineStep, PortStep, InLoop, Next, Modem
  <1>6. CASE TimerStep \/ CallerStep
    BY <1>6 DEF TimerStep, CallerStep, InLoop, Next, Worker
  <1>7. CASE UNCHANGED dialogueVars
    BY <1>7 DEF dialogueVars
  <1>8. QED
    BY <1>1, <1>2, <1>3, <1>4, <1>5, <1>6, <1>7 DEF DialogueNext

\* The worker with its dialogues implements the worker of ModemWorker.tla, in
\* which a dialogue is one step that succeeds or fails.
THEOREM ImplementsWorker == DialogueSpec => Spec
  <1>1. DialogueInit => Init
    BY DEF DialogueInit
  <1>2. QED
    BY <1>1, StepIsWorkerStep, PTL DEF DialogueSpec, Spec

\* However its dialogues go, the worker keeps the promises of CommandService to
\* the callers whose commands wait meanwhile.
THEOREM DialogueImplementsService == DialogueSpec => ServiceSpec
  BY ImplementsWorker, ImplementsService

\* A command is not executed while the worker talks to the modem, which it does
\* offline or at the start.
THEOREM DialogueExecutesOnlyOnline ==
    DialogueSpec => [](LoopControl /\ ExecutesOnlyOnline)
  BY ImplementsWorker, ControlInvariant

-----------------------------------------------------------------------------
(***************************************************************************)
(* The commands of a set-up.                                               *)
(***************************************************************************)
SetupCommands ==
    {"ATZ", "ATE0", "AT+CMGF", "AT+CSCS", "AT+CNMI", "AT+CSMP", "AT+CPMS",
     "AT+CGNSPWR", "AT+CGPSRST", "AT+CGNSURC"}

LEMMA SetupFacts ==
    Setup \in Seq(SetupCommands) /\ Len(Setup) >= 7
  <1>1. Mandatory \in Seq(SetupCommands) /\ Len(Mandatory) = 7
    BY DEF Mandatory, SetupCommands
  <1>2. Gnss \in Seq(SetupCommands)
    <2>1. CASE GnssEnabled
      BY <2>1 DEF Gnss, SetupCommands
    <2>2. CASE ~GnssEnabled
      BY <2>2 DEF Gnss
    <2>3. QED
      BY <2>1, <2>2
  <1>3. Len(Gnss) \in Nat
    BY <1>2
  <1>4. /\ Mandatory \o Gnss \in Seq(SetupCommands)
        /\ Len(Mandatory \o Gnss) = Len(Mandatory) + Len(Gnss)
    BY <1>1, <1>2, ConcatProperties
  <1>5. QED
    BY <1>1, <1>3, <1>4 DEF Setup

LEMMA ScriptFacts ==
    Script # <<>> /\ Head(Script) = "AT" /\ Tail(Script) = Setup /\ Len(Script) > 1
  <1> DEFINE All == SetupCommands \cup {"AT"}
  <1>1. Setup \in Seq(All) /\ Len(Setup) >= 7 /\ <<"AT">> \in Seq(All)
    BY SetupFacts
  <1>2. /\ Script \in Seq(All)
        /\ Len(Script) = 1 + Len(Setup)
        /\ Script[1] = "AT"
        /\ \A i \in 2..Len(Script) : Script[i] = Setup[i - 1]
    BY <1>1, ConcatProperties DEF Script
  <1>3. Head(Script) = "AT" /\ Script # <<>> /\ Len(Script) > 1
    BY <1>1, <1>2
  <1>4. Tail(Script) = Setup
    <2>1. /\ Tail(Script) \in Seq(All)
          /\ Len(Tail(Script)) = Len(Setup)
          /\ \A i \in 1..Len(Setup) : Tail(Script)[i] = Setup[i]
      BY <1>1, <1>2, <1>3
    <2>2. QED
      BY <1>1, <2>1
  <1>5. QED
    BY <1>3, <1>4

-----------------------------------------------------------------------------
(***************************************************************************)
(* Types, and where the task is during a dialogue.                         *)
(***************************************************************************)
Suffixes == {SubSeq(Script, i, Len(Script)) : i \in 1..Len(Script) + 1}

LEMMA ScriptType ==
    /\ Script \in Seq(Sent) /\ Len(Script) \in Nat /\ Len(Script) > 1
    /\ Tail(Script) = Setup
  <1> DEFINE All == SetupCommands \cup {"AT"}
  <1>1. Script \in Seq(All)
    <2>1. Setup \in Seq(All) /\ <<"AT">> \in Seq(All)
      BY SetupFacts
    <2>2. QED
      BY <2>1, ConcatProperties DEF Script
  <1> HIDE DEF All
  <1>2. Len(Script) \in Nat /\ Script \in [1..Len(Script) -> All]
    BY <1>1, LenProperties
  <1>3. \A i \in 1..Len(Script) : Script[i] \in Sent
    BY DEF Sent
  <1>4. Script \in [1..Len(Script) -> Sent]
    BY <1>2, <1>3
  <1>5. Script \in Seq(Sent)
    BY <1>2, <1>4, SeqDef
  <1>6. QED
    BY <1>2, <1>5, ScriptFacts

\* A dialogue goes from suffix to suffix.
LEMMA SuffixFacts ==
    /\ Script \in Suffixes /\ Setup \in Suffixes /\ <<>> \in Suffixes
    /\ \A s \in Suffixes : s \in Seq(Sent) /\ (s # <<>> => Tail(s) \in Suffixes)
  <1> DEFINE n == Len(Script)
  <1>1. Script \in Seq(Sent) /\ n \in Nat /\ n > 1 /\ Script # <<>>
    BY ScriptType, ScriptFacts
  <1>2. \A i \in 1..n + 1 : SubSeq(Script, i, n) \in Suffixes
    BY DEF Suffixes
  <1>3. 1 \in 1..n + 1 /\ 2 \in 1..n + 1 /\ n + 1 \in 1..n + 1
    BY <1>1
  <1>4. Script = SubSeq(Script, 1, n) /\ Setup = SubSeq(Script, 2, n)
    BY <1>1, SubSeqFull, TailIsSubSeq, ScriptType
  <1>5. SubSeq(Script, n + 1, n) = <<>>
    BY <1>1, SubSeqEmpty
  <1>6. ASSUME NEW s \in Suffixes
        PROVE  s \in Seq(Sent) /\ (s # <<>> => Tail(s) \in Suffixes)
    <2>1. PICK i \in 1..n + 1 : s = SubSeq(Script, i, n)
      BY DEF Suffixes
    <2>2. s \in Seq(Sent)
      <3>1. \A k \in i..n : Script[k] \in Sent
        <4>1. \A k \in i..n : k \in 1..n
          BY <1>1, <2>1
        <4>2. QED
          BY <1>1, <4>1, ElementOfSeq
      <3>2. QED
        BY <1>1, <2>1, <3>1, SubSeqProperties
    <2>3. CASE i = n + 1
      BY <1>5, <2>1, <2>2, <2>3
    <2>4. CASE i \in 1..n
      <3>1. n \in i..n /\ i + 1 \in 1..n + 1
        BY <1>1, <2>4
      <3>2. Tail(s) = SubSeq(Script, i + 1, n)
        BY <1>1, <2>1, <2>4, <3>1, HeadTailOfSubSeq
      <3>3. QED
        BY <1>2, <2>2, <3>1, <3>2
    <2>5. QED
      BY <1>1, <2>1, <2>3, <2>4
  <1>7. QED
    BY <1>2, <1>3, <1>4, <1>5, <1>6

\* What a modem keeps when it is sent a command, and when it prints a line.
LEMMA BacklogFacts ==
    ASSUME NEW held \in Seq(Sent), Len(held) <= Backlog
    PROVE  /\ \A command \in Sent : Len(held) < Backlog =>
                 Append(held, command) \in Seq(Sent) /\ Len(Append(held, command)) <= Backlog
           /\ held # <<>> =>
                 /\ AfterLine(held) \in Seq(Sent) /\ Len(AfterLine(held)) <= Backlog
                 /\ Tail(held) \in Seq(Sent) /\ Len(Tail(held)) <= Backlog
  <1>1. Len(held) \in Nat /\ Backlog \in Nat
    BY DialogueAssumption
  <1>2. ASSUME NEW command \in Sent, Len(held) < Backlog
        PROVE  Append(held, command) \in Seq(Sent) /\ Len(Append(held, command)) <= Backlog
    BY <1>1, <1>2
  <1>3. ASSUME held # <<>>
        PROVE  /\ AfterLine(held) \in Seq(Sent) /\ Len(AfterLine(held)) <= Backlog
               /\ Tail(held) \in Seq(Sent) /\ Len(Tail(held)) <= Backlog
    <2>1. Tail(held) \in Seq(Sent) /\ Len(Tail(held)) = Len(held) - 1
      BY <1>3, HeadTailProperties
    <2>2. Rest(Head(held)) \in Seq(Sent) /\ Len(Rest(Head(held))) <= 1
      <3>1. "FinalOK" \in Sent
        BY DEF Sent
      <3>2. <<"FinalOK">> \in Seq(Sent) /\ Len(<<"FinalOK">>) = 1
        BY <3>1
      <3>3. <<>> \in Seq(Sent) /\ Len(<<>>) = 0
        OBVIOUS
      <3>4. QED
        BY <3>2, <3>3 DEF Rest
    <2>3. /\ AfterLine(held) \in Seq(Sent)
          /\ Len(AfterLine(held)) = Len(Rest(Head(held))) + Len(Tail(held))
      BY <2>1, <2>2, ConcatProperties DEF AfterLine
    <2>4. Len(Rest(Head(held))) \in Nat
      BY <2>2
    <2>5. QED
      BY <1>1, <2>1, <2>2, <2>3, <2>4
  <1>4. QED
    BY <1>2, <1>3

\* The task talks to the modem before its loop, or in the Offline arm.
Apart == pc = "init" \/ Selecting("Offline")

Held(held) == held \in Seq(Sent) /\ Len(held) <= Backlog

LEMMA NothingHeld == Held(<<>>)
  <1>1. <<>> \in Seq(Sent) /\ Len(<<>>) = 0
    OBVIOUS
  <1>2. QED
    BY <1>1, DialogueAssumption DEF Held

PortTyped ==
    /\ script \in Suffixes
    /\ response \in SUBSET {"+CPMS"}
    /\ Held(to_modem)
    /\ from_modem \in SUBSET Answers
    /\ Talking => Apart

LEMMA SendType ==
    ASSUME NEW commands \in Suffixes, commands # <<>>, NEW held, Held(held), NEW power,
           Apart, WorkerWaits, from_modem' \in SUBSET Answers, Send(commands, held, power)
    PROVE  PortTyped'
  <1>1. script' = commands /\ response' = {} /\ Head(commands) \in Sent
    BY SuffixFacts, HeadTailProperties DEF Send
  <1>2. Held(to_modem)'
    <2>1. \/ to_modem' = held
          \/ Len(held) < Backlog /\ to_modem' = Append(held, Head(commands))
      BY DEF Send
    <2>2. QED
      BY <1>1, <2>1, BacklogFacts DEF Held
  <1>3. Apart'
    BY DEF WorkerWaits, vars, Apart, Selecting
  <1>4. QED
    BY <1>1, <1>2, <1>3 DEF PortTyped

LEMMA ReturnType ==
    ASSUME NEW succeeded, Return(succeeded), Held(to_modem)', from_modem' \in SUBSET Answers
    PROVE  PortTyped'
  <1>1. script' = <<>> /\ response' = {}
    BY DEF Return
  <1>2. QED
    BY <1>1, SuffixFacts DEF PortTyped, Talking

\* A failure begins the set-up or ends the dialogue.
LEMMA FailCases ==
    ASSUME NEW held, Fail(held)
    PROVE  \E left \in {<<>>, held} :
              \/ \E power : Send(Setup, left, power) /\ powered' = power /\ WorkerWaits
              \/ Return(FALSE) /\ to_modem' = left
  <1>1. CASE Head(script) = "AT"
    <2> DEFINE power == IF PowerToggled THEN ~powered ELSE powered
               left  == IF PowerToggled THEN <<>> ELSE held
    <2>1. /\ left \in {<<>>, held}
          /\ \/ Send(Setup, left, power) /\ powered' = power /\ WorkerWaits
             \/ Return(FALSE) /\ to_modem' = left
      BY <1>1 DEF Fail, FailTest
    <2> HIDE DEF power, left
    <2>2. QED
      BY <2>1
  <1>2. CASE Head(script) # "AT"
    BY <1>2 DEF Fail
  <1>3. QED
    BY <1>1, <1>2

LEMMA FailType ==
    ASSUME Talking => Apart, Talking, NEW held, Held(held), Fail(held),
           from_modem' \in SUBSET Answers
    PROVE  PortTyped'
  <1>1. Held(<<>>)
    BY NothingHeld
  <1>2. PICK left \in {<<>>, held} :
            \/ \E power : Send(Setup, left, power) /\ powered' = power /\ WorkerWaits
            \/ Return(FALSE) /\ to_modem' = left
    BY FailCases
  <1>3. Held(left)
    BY <1>1, <1>2
  <1>4. CASE \E power : Send(Setup, left, power) /\ WorkerWaits
    <2>1. Setup # <<>>
      BY SetupFacts
    <2>2. QED
      BY <1>3, <1>4, <2>1, SendType, SuffixFacts
  <1>5. CASE Return(FALSE) /\ to_modem' = left
    <2>1. Held(to_modem)'
      BY <1>3, <1>5 DEF Held
    <2>2. QED
      BY <1>5, <2>1, ReturnType
  <1>6. QED
    BY <1>2, <1>4, <1>5

LEMMA SucceedType ==
    ASSUME PortTyped, Talking, NEW held, Held(held), Succeed(held),
           from_modem' \in SUBSET Answers
    PROVE  PortTyped'
  <1>1. CASE Len(script) = 1
    <2>1. Return(TRUE) /\ to_modem' = held
      BY <1>1 DEF Succeed
    <2>2. Held(to_modem)'
      BY <2>1 DEF Held
    <2>3. QED
      BY <2>1, <2>2, ReturnType
  <1>2. CASE Len(script) # 1
    <2>1. Send(Tail(script), held, powered) /\ WorkerWaits
      BY <1>2 DEF Succeed
    <2>2. script \in Seq(Sent) /\ script # <<>> /\ Tail(script) \in Suffixes
      BY SuffixFacts DEF PortTyped, Talking
    <2>3. Tail(script) # <<>>
      <3>1. Len(Tail(script)) = Len(script) - 1 /\ Len(script) \in Nat
        BY <2>2, HeadTailProperties
      <3>2. Len(Tail(script)) # 0
        BY <1>2, <3>1
      <3>3. Len(<<>>) = 0
        OBVIOUS
      <3>4. QED
        BY <3>2, <3>3
    <2>4. QED
      BY <2>1, <2>2, <2>3, SendType DEF PortTyped
  <1>3. QED
    BY <1>1, <1>2

\* What a modem may still hold when its answer is read.
LEMMA HeardHeld ==
    ASSUME PortTyped
    PROVE  Held(to_modem) /\ (to_modem # <<>> => Held(AfterLine(to_modem)))
  BY BacklogFacts DEF PortTyped, Held

LEMMA PortTypedStep ==
    ASSUME PortTyped, [DialogueNext]_dialogueVars
    PROVE  PortTyped'
  <1>1. CASE Begin
    <2>1. Apart /\ WorkerWaits /\ Send(Script, to_modem, powered) /\ from_modem' = from_modem
      BY <1>1 DEF Begin, Apart
    <2>2. QED
      BY <2>1, SendType, SuffixFacts, ScriptFacts DEF PortTyped
  <1>2. CASE Hear
    <2> DEFINE heard == response \cup from_modem
    <2>1. Talking /\ from_modem' = {}
      BY <1>2 DEF Hear
    <2>2. CASE /\ heard \cap Finals = {}
               /\ response' = heard /\ WorkerWaits /\ UNCHANGED <<script, to_modem>>
      <3>1. response' \in SUBSET {"+CPMS"}
        BY <2>2 DEF PortTyped, Answers, Finals
      <3>2. Held(to_modem)'
        BY <2>2 DEF PortTyped, Held
      <3>3. Talking' => Apart'
        BY <2>2 DEF PortTyped, Talking, WorkerWaits, vars, Apart, Selecting
      <3>4. QED
        BY <2>1, <2>2, <3>1, <3>2, <3>3 DEF PortTyped
    <2>3. CASE \E held : Held(held) /\ Conclude(heard, held)
      <3>1. PICK held : Held(held) /\ Conclude(heard, held)
        BY <2>3
      <3>2. Succeed(held) \/ Fail(held)
        BY <3>1 DEF Conclude
      <3>3. QED
        BY <2>1, <3>1, <3>2, FailType, SucceedType DEF PortTyped
    <2>4. \/ /\ heard \cap Finals = {}
             /\ response' = heard /\ WorkerWaits /\ UNCHANGED <<script, to_modem>>
          \/ Conclude(heard, to_modem)
          \/ to_modem # <<>> /\ Conclude(heard, AfterLine(to_modem))
      BY <1>2 DEF Hear
    <2>5. Held(to_modem) /\ (to_modem # <<>> => Held(AfterLine(to_modem)))
      BY HeardHeld
    <2>6. QED
      BY <2>2, <2>3, <2>4, <2>5
  <1>3. CASE AnswerOverdue \/ PortFails
    <2>1. Talking /\ Fail(to_modem) /\ from_modem' \in SUBSET Answers
      BY <1>3 DEF AnswerOverdue, PortFails, PortTyped
    <2>2. QED
      BY <2>1, FailType DEF PortTyped
  <1>4. CASE LoopStep \/ LineStep \/ PortStep \/ TimerStep
    <2>1. script = <<>> /\ script' = script /\ response' = response
      BY <1>4 DEF LoopStep, LineStep, PortStep, TimerStep, InLoop, Talking, dialogue
    <2>2. \/ to_modem' = to_modem /\ from_modem' = from_modem
          \/ to_modem' \in {<<>>, <<"AT+CMGS">>} /\ from_modem' = {}
      BY <1>4 DEF LoopStep, LineStep, PortStep, TimerStep, InLoop, dialogue, port
    <2>3. Held(<<>>) /\ Held(<<"AT+CMGS">>)
      <3>1. "AT+CMGS" \in Sent
        BY DEF Sent
      <3>2. <<"AT+CMGS">> \in Seq(Sent) /\ Len(<<"AT+CMGS">>) = 1
        BY <3>1
      <3>3. QED
        BY <3>2, NothingHeld, DialogueAssumption DEF Held
    <2>4. Held(to_modem)'
      BY <2>2, <2>3 DEF PortTyped, Held
    <2>5. QED
      BY <2>1, <2>2, <2>4 DEF PortTyped, Talking
  <1>5. CASE CallerStep \/ Recover \/ UNCHANGED dialogueVars
    <2>1. UNCHANGED <<script, response, to_modem, from_modem, pc, status, lines>>
      BY <1>5 DEF CallerStep, Callers, SendRequest, ReceiveResponse, GiveUp, Recover, WorkerWaits,
                  dialogueVars, dialogue, port, vars
    <2>2. QED
      BY <2>1 DEF PortTyped, Held, Talking, Apart, Selecting
  <1>6. CASE Accept \/ Refuse
    <2>1. /\ UNCHANGED <<script, response, pc, status, lines>> /\ to_modem # <<>>
          /\ to_modem' \in {AfterLine(to_modem), Tail(to_modem)}
      BY <1>6 DEF Accept, Refuse, ModemActs, WorkerWaits, vars
    <2>2. from_modem' \in SUBSET Answers
      BY <1>6 DEF Accept, Refuse, PortTyped, Answers, Prints
    <2>3. Held(to_modem)'
      BY <2>1, BacklogFacts DEF PortTyped, Held
    <2>4. QED
      BY <2>1, <2>2, <2>3 DEF PortTyped, Talking, Apart, Selecting
  <1>7. QED
    BY <1>1, <1>2, <1>3, <1>4, <1>5, <1>6 DEF DialogueNext

\* The histories, and the modem.
Judged == behind \in 0..Backlog /\ flawed \in BOOLEAN
Powered == {powered, responsive} \subseteq BOOLEAN

LEMMA SendJudges ==
    ASSUME Judged, NEW commands, NEW held, Held(held), NEW power, Send(commands, held, power)
    PROVE  Judged'
  <1>1. \/ /\ behind' = Len(held)
           /\ flawed' = (to_modem' = held)
        \/ behind' = behind /\ flawed' = flawed
    BY DEF Send
  <1>2. Len(held) \in 0..Backlog
    BY DialogueAssumption DEF Held
  <1>3. behind' \in 0..Backlog /\ flawed' \in BOOLEAN
    BY <1>1, <1>2 DEF Judged
  <1>4. QED
    BY <1>3 DEF Judged

LEMMA FlagsStep ==
    ASSUME PortTyped, Judged, Powered, [DialogueNext]_dialogueVars
    PROVE  Judged' /\ Powered'
  <1>1. ASSUME NEW held, Held(held), Fail(held) PROVE Judged' /\ powered' \in BOOLEAN
    <2>1. PICK left \in {<<>>, held} :
              (\E power : Send(Setup, left, power)) \/ UNCHANGED <<behind, flawed>>
      BY <1>1, FailCases DEF Return
    <2>2. Judged'
      BY <1>1, <2>1, NothingHeld, SendJudges DEF Judged
    <2>3. powered' = powered \/ powered' = ~powered
      BY <1>1 DEF Fail, FailTest
    <2>4. powered' \in BOOLEAN
      BY <2>3 DEF Powered
    <2>5. QED
      BY <2>2, <2>4
  <1>2. ASSUME NEW held, Held(held), Succeed(held) PROVE Judged' /\ powered' \in BOOLEAN
    <2>1. \/ \E commands, power : Send(commands, held, power)
          \/ UNCHANGED <<behind, flawed>>
      BY <1>2 DEF Succeed, Return
    <2>2. Judged'
      BY <1>2, <2>1, SendJudges DEF Judged
    <2>3. powered' \in BOOLEAN
      BY <1>2 DEF Succeed, Powered
    <2>4. QED
      BY <2>2, <2>3
  <1>3. CASE Begin
    <2>1. Send(Script, to_modem, powered) /\ UNCHANGED <<powered, responsive>>
      BY <1>3 DEF Begin
    <2>2. QED
      BY <2>1, SendJudges DEF Powered, PortTyped
  <1>4. CASE Hear
    <2>1. responsive' = responsive
      BY <1>4 DEF Hear
    <2>2. \/ UNCHANGED <<powered, behind, flawed>>
          \/ \E held : Held(held) /\ (Succeed(held) \/ Fail(held))
      BY <1>4, HeardHeld DEF Hear, Conclude
    <2>3. Judged' /\ powered' \in BOOLEAN
      BY <1>1, <1>2, <2>2 DEF Judged, Powered
    <2>4. QED
      BY <2>1, <2>3 DEF Powered
  <1>5. CASE AnswerOverdue \/ PortFails
    <2>1. responsive' = responsive /\ Fail(to_modem)
      BY <1>5 DEF AnswerOverdue, PortFails
    <2>2. Judged' /\ powered' \in BOOLEAN
      BY <1>1, <2>1 DEF PortTyped
    <2>3. QED
      BY <2>1, <2>2 DEF Powered
  <1>6. CASE LoopStep \/ LineStep \/ PortStep \/ TimerStep \/ CallerStep \/ UNCHANGED dialogueVars
    <2>1. UNCHANGED <<powered, responsive, behind, flawed>>
      BY <1>6
         DEF LoopStep, LineStep, PortStep, TimerStep, InLoop, CallerStep, dialogueVars, dialogue
    <2>2. QED
      BY <2>1 DEF Judged, Powered
  <1>7. CASE Accept \/ Refuse \/ Recover
    <2>1. /\ powered' = powered /\ behind' = behind
          /\ responsive' = responsive \/ responsive' = TRUE
          /\ flawed' = flawed \/ flawed' = TRUE
      BY <1>7 DEF Accept, Refuse, ModemActs, Recover
    <2>2. QED
      BY <2>1 DEF Judged, Powered
  <1>8. QED
    BY <1>3, <1>4, <1>5, <1>6, <1>7 DEF DialogueNext

Typed == PortTyped /\ Judged /\ Powered

LEMMA TypedAlways == DialogueSpec => []Typed
  <1>1. DialogueInit => Typed
    <2> SUFFICES ASSUME DialogueInit PROVE Typed
      OBVIOUS
    <2>1. PortTyped
      BY NothingHeld, SuffixFacts DEF DialogueInit, PortTyped, Held, Talking
    <2>2. Judged
      <3>1. behind = 0 /\ flawed = FALSE
        BY DEF DialogueInit
      <3>2. 0 \in 0..Backlog
        BY DialogueAssumption
      <3>3. QED
        BY <3>1, <3>2 DEF Judged
    <2>3. Powered
      BY DEF DialogueInit, Powered
    <2>4. QED
      BY <2>1, <2>2, <2>3 DEF Typed
  <1>2. Typed /\ [DialogueNext]_dialogueVars => Typed'
    BY PortTypedStep, FlagsStep DEF Typed
  <1>3. QED
    BY <1>1, <1>2, PTL DEF DialogueSpec

LEMMA PortTypedAlways == DialogueSpec => []PortTyped
  <1>1. Typed => PortTyped
    BY DEF Typed
  <1>2. QED
    BY <1>1, TypedAlways, PTL

\* Every variable of the dialogues keeps its type, what an unanswering modem
\* keeps its bound, and a dialogue takes place before the loop or offline only.
THEOREM DialogueTypeCorrect == DialogueSpec => []DialogueTypeOK
  <1>1. TypeOK /\ Typed => DialogueTypeOK
    BY DEF DialogueTypeOK, Typed, PortTyped, Judged, Powered, Held, Apart, Suffixes
  <1>2. DialogueSpec => []TypeOK
    BY ImplementsWorker, TypeCorrect
  <1>3. QED
    BY <1>1, <1>2, TypedAlways, PTL

-----------------------------------------------------------------------------
(***************************************************************************)
(* A set-up that is in step.                                               *)
(***************************************************************************)
\* The test comes first, and no more after it.
ScriptOK == script = Script \/ script \in Seq(SetupCommands)

\* The modem has yet to take the command, has printed the first of two lines, or
\* has answered.
Unanswered == to_modem = <<Head(script)>> /\ from_modem = {} /\ response = {}
HalfAnswered ==
    /\ Head(script) = "AT+CPMS"
    /\ to_modem = <<"FinalOK">>
    /\ response \cup from_modem = {"+CPMS"}
Answered ==
    /\ to_modem = <<>>
    /\ Expected(Head(script)) \in response \cup from_modem
    /\ "OK" \in from_modem

\* The command was lost or refused, and no OK will come.
Spoilt == to_modem = <<>> /\ from_modem \subseteq {"ERROR"} /\ response = {}

SettingUp == Talking /\ Head(script) # "AT"

\* Nothing is outstanding but the answer to the last command that was sent.
InStep ==
    SettingUp /\ behind = 0 =>
        \/ flawed /\ Spoilt
        \/ ~flawed /\ powered /\ (Unanswered \/ HalfAnswered \/ Answered)

StepInv == ScriptOK /\ InStep

\* What is sent next is a command of the set-up.
LEMMA NextCommands ==
    ASSUME ScriptOK, Talking
    PROVE  Tail(script) \in Seq(SetupCommands)
  <1>1. CASE script = Script
    BY <1>1, ScriptFacts, SetupFacts
  <1>2. CASE script \in Seq(SetupCommands)
    BY <1>2 DEF Talking
  <1>3. QED
    BY <1>1, <1>2 DEF ScriptOK

\* A script of one command has come to its end: it is not the test.
LEMMA LastCommand ==
    ASSUME ScriptOK, Talking
    PROVE  /\ Len(script) # 1 => Tail(script) # <<>>
           /\ Len(script) = 1 => Head(script) # "AT"
  <1>1. CASE script = Script
    BY <1>1, ScriptFacts, SetupFacts
  <1>2. CASE script \in Seq(SetupCommands)
    <2>1. Head(script) \in SetupCommands /\ Len(Tail(script)) = Len(script) - 1
      BY <1>2, HeadTailProperties DEF Talking
    <2>2. Len(script) \in Nat /\ Len(script) # 0
      BY <1>2 DEF Talking
    <2>3. Head(script) # "AT"
      BY <2>1 DEF SetupCommands
    <2>4. Len(script) # 1 => Len(Tail(script)) # 0
      BY <2>1, <2>2
    <2>5. Len(<<>>) = 0
      OBVIOUS
    <2>6. QED
      BY <2>3, <2>4, <2>5
  <1>3. QED
    BY <1>1, <1>2 DEF ScriptOK

GoesOnline == status # "Online" /\ status' = "Online"
Configured == GoesOnline /\ behind = 0 => Quiet' /\ ~flawed'

\* A command of the set-up that is sent with nothing outstanding is in step.
LEMMA SendInStep ==
    ASSUME NEW commands \in Seq(SetupCommands), NEW held, Held(held), NEW power,
           Send(commands, held, power),
           powered' = power,
           from_modem' = {},
           commands # Setup /\ behind = 0 => power /\ ~flawed /\ held = <<>>
    PROVE  StepInv'
  <1>1. script' = commands
    BY DEF Send
  <1>2. ASSUME held = <<>>
        PROVE  IF power THEN to_modem' = <<Head(commands)>> ELSE to_modem' = <<>>
    <2>1. Len(held) < Backlog /\ Append(held, Head(commands)) = <<Head(commands)>>
      BY <1>2, DialogueAssumption
    <2>2. QED
      BY <1>2, <2>1 DEF Send
  <1>3. <<Head(commands)>> # <<>>
    OBVIOUS
  <1>4. InStep'
    <2>1. SUFFICES ASSUME behind' = 0
                   PROVE  \/ flawed' /\ Spoilt'
                          \/ ~flawed' /\ powered' /\ Unanswered'
      BY DEF InStep
    <2>2. held = <<>> /\ response' = {}
      <3>1. CASE commands = Setup
        <4>1. held \in Seq(Sent) /\ Len(held) = 0 /\ response' = {}
          BY <2>1, <3>1 DEF Send, Held
        <4>2. QED
          BY <4>1
      <3>2. CASE commands # Setup
        BY <2>1, <3>2 DEF Send
      <3>3. QED
        BY <3>1, <3>2
    <2>3. CASE power
      <3>1. to_modem' = <<Head(commands)>>
        BY <1>2, <2>2, <2>3
      <3>2. ~flawed'
        BY <1>3, <2>1, <2>2, <3>1 DEF Send
      <3>3. QED
        BY <1>1, <2>2, <2>3, <3>1, <3>2 DEF Unanswered
    <2>4. CASE ~power
      <3>1. to_modem' = <<>>
        BY <1>2, <2>2, <2>4
      <3>2. flawed'
        BY <2>1, <2>2, <2>4, <3>1 DEF Send
      <3>3. QED
        BY <2>2, <3>1, <3>2 DEF Spoilt
    <2>5. QED
      BY <2>3, <2>4
  <1>5. QED
    BY <1>1, <1>4 DEF StepInv, ScriptOK

LEMMA ScriptStays ==
    ASSUME ScriptOK, script' = script
    PROVE  ScriptOK'
  BY DEF ScriptOK

\* Between dialogues there is nothing to show.
LEMMA NotTalking ==
    ASSUME script' = <<>>
    PROVE  StepInv'
  BY DEF StepInv, ScriptOK, InStep, SettingUp, Talking

LEMMA FailInStep ==
    ASSUME NEW held, Held(held), from_modem' = {}, Fail(held)
    PROVE  StepInv' /\ ~GoesOnline
  <1>1. PICK left \in {<<>>, held} :
            \/ \E power : Send(Setup, left, power) /\ powered' = power /\ WorkerWaits
            \/ Return(FALSE) /\ to_modem' = left
    BY FailCases
  <1>2. CASE Return(FALSE)
    <2>1. script' = <<>>
      BY <1>2 DEF Return
    <2>2. ~GoesOnline
      BY <1>2 DEF Return, GoesOnline, WorkerWaits, vars
    <2>3. QED
      BY <2>1, <2>2, NotTalking
  <1>3. CASE \E power : Send(Setup, left, power) /\ powered' = power /\ WorkerWaits
    <2>1. Held(left)
      BY <1>1, NothingHeld
    <2>2. StepInv'
      BY <1>3, <2>1, SetupFacts, SendInStep
    <2>3. QED
      BY <1>3, <2>2 DEF GoesOnline, WorkerWaits, vars
  <1>4. QED
    BY <1>1, <1>2, <1>3

LEMMA SucceedInStep ==
    ASSUME StepInv, Talking, NEW held, Held(held), Succeed(held), from_modem' = {},
           SettingUp /\ behind = 0 => powered /\ ~flawed /\ held = <<>>
    PROVE  StepInv' /\ Configured
  <1>1. CASE Len(script) = 1
    <2>1. Return(TRUE) /\ to_modem' = held
      BY <1>1 DEF Succeed
    <2>2. script' = <<>> /\ flawed' = flawed
      BY <2>1 DEF Return
    <2>3. SettingUp
      BY <1>1, LastCommand DEF StepInv, SettingUp
    <2>4. QED
      BY <2>1, <2>2, <2>3, NotTalking DEF Configured, Quiet
  <1>2. CASE Len(script) # 1
    <2>1. Send(Tail(script), held, powered) /\ WorkerWaits /\ powered' = powered
      BY <1>2 DEF Succeed
    <2>2. Tail(script) \in Seq(SetupCommands)
      BY NextCommands DEF StepInv
    <2>3. ~SettingUp => Tail(script) = Setup
      <3>1. script \in Seq(SetupCommands) => Head(script) \in SetupCommands
        BY HeadTailProperties DEF Talking
      <3>2. "AT" \notin SetupCommands
        BY DEF SetupCommands
      <3>3. QED
        BY <3>1, <3>2, ScriptFacts DEF SettingUp, StepInv, ScriptOK
    <2>4. StepInv'
      BY <2>1, <2>2, <2>3, SendInStep
    <2>5. ~GoesOnline
      BY <2>1 DEF GoesOnline, WorkerWaits, vars
    <2>6. QED
      BY <2>4, <2>5 DEF Configured
  <1>3. QED
    BY <1>1, <1>2

\* The modem's part: it takes the one command it has, or loses it.
LEMMA AcceptInStep ==
    ASSUME StepInv, Accept
    PROVE  StepInv'
  <1>1. script' = script /\ response' = response /\ UNCHANGED <<behind, flawed, powered>>
    BY DEF Accept, ModemActs
  <1>2. InStep'
    <2>1. SUFFICES ASSUME SettingUp, behind = 0
                   PROVE  ~flawed /\ powered /\ (HalfAnswered \/ Answered)'
      BY <1>1 DEF InStep, SettingUp, Talking
    <2>2. ~flawed /\ powered /\ (Unanswered \/ HalfAnswered)
      BY <2>1 DEF StepInv, InStep, Accept, ModemActs, Spoilt, Answered
    <2>3. CASE Unanswered /\ Head(script) = "AT+CPMS"
      <3>1. from_modem' = {"+CPMS"} /\ to_modem' = <<"FinalOK">>
        BY <2>3 DEF Accept, Unanswered, Prints, Rest, AfterLine
      <3>2. QED
        BY <1>1, <2>2, <2>3, <3>1 DEF Unanswered, HalfAnswered
    <2>4. CASE Unanswered /\ Head(script) # "AT+CPMS"
      <3>1. from_modem' = {"OK"} /\ to_modem' = <<>>
        BY <2>4 DEF Accept, Unanswered, Prints, Rest, AfterLine
      <3>2. QED
        BY <1>1, <2>2, <2>4, <3>1 DEF Answered, Expected
    <2>5. CASE HalfAnswered
      <3>1. from_modem' = from_modem \cup {"OK"} /\ to_modem' = <<>>
        BY <2>5 DEF Accept, HalfAnswered, Prints, Rest, AfterLine
      <3>2. QED
        BY <1>1, <2>2, <2>5, <3>1 DEF HalfAnswered, Answered, Expected
    <2>6. QED
      BY <2>2, <2>3, <2>4, <2>5
  <1>3. QED
    BY <1>1, <1>2, ScriptStays DEF StepInv

LEMMA RefuseInStep ==
    ASSUME StepInv, Refuse
    PROVE  StepInv'
  <1>1. script' = script /\ response' = response /\ behind' = behind /\ flawed'
    BY DEF Refuse, ModemActs
  <1>2. InStep'
    <2>1. SUFFICES ASSUME SettingUp, behind = 0
                   PROVE  Spoilt'
      BY <1>1 DEF InStep, SettingUp, Talking
    <2>2. Unanswered
      <3>1. to_modem # <<>> /\ Head(to_modem) # "FinalOK"
        BY DEF Refuse, ModemActs
      <3>2. ~HalfAnswered
        BY <3>1 DEF HalfAnswered
      <3>3. QED
        BY <2>1, <3>1, <3>2 DEF StepInv, InStep, Spoilt, Answered
    <2>3. to_modem' = <<>>
      BY <2>2 DEF Refuse, Unanswered
    <2>4. from_modem' \subseteq {"ERROR"}
      BY <2>2 DEF Refuse, Unanswered
    <2>5. QED
      BY <1>1, <2>2, <2>3, <2>4 DEF Spoilt, Unanswered
  <1>3. QED
    BY <1>1, <1>2, ScriptStays DEF StepInv

\* The worker's part: it reads what has come.
LEMMA HearInStep ==
    ASSUME StepInv, PortTyped, Hear
    PROVE  StepInv' /\ Configured
  <1> DEFINE heard == response \cup from_modem
  <1>1. Talking /\ from_modem # {} /\ from_modem' = {}
    BY DEF Hear
  <1>2. CASE heard \cap Finals = {}
    <2>1. /\ response' = heard /\ WorkerWaits
          /\ UNCHANGED <<script, to_modem, powered, behind, flawed>>
      BY <1>2 DEF Hear
    <2>2. InStep'
      <3>1. SUFFICES ASSUME SettingUp, behind = 0
                     PROVE  ~flawed /\ powered /\ HalfAnswered'
        BY <2>1 DEF InStep, SettingUp, Talking
      <3>2. ~Spoilt /\ ~Answered /\ ~Unanswered
        BY <1>1, <1>2 DEF Spoilt, Answered, Unanswered, Finals
      <3>3. ~flawed /\ powered /\ HalfAnswered
        BY <3>1, <3>2 DEF StepInv, InStep
      <3>4. QED
        BY <1>1, <2>1, <3>3 DEF HalfAnswered
    <2>3. ~GoesOnline
      BY <2>1 DEF GoesOnline, WorkerWaits, vars
    <2>4. QED
      BY <2>1, <2>2, <2>3, ScriptStays DEF StepInv, Configured
  <1>3. CASE heard \cap Finals # {}
    <2>1. PICK held : /\ Held(held)
                      /\ Conclude(heard, held)
                      /\ held = to_modem \/ to_modem # <<>>
      BY <1>3, HeardHeld DEF Hear
    <2>2. CASE Expected(Head(script)) \in heard
      <3>1. Succeed(held)
        BY <2>1, <2>2 DEF Conclude
      <3>2. ASSUME SettingUp, behind = 0
            PROVE  powered /\ ~flawed /\ held = <<>>
        <4>1. ~Unanswered
          BY <1>1 DEF Unanswered
        <4>2. ~HalfAnswered
          BY <1>3 DEF HalfAnswered, Finals
        <4>3. ~Spoilt
          BY <2>2 DEF Spoilt, Expected
        <4>4. Answered /\ ~flawed /\ powered
          BY <3>2, <4>1, <4>2, <4>3 DEF StepInv, InStep
        <4>5. QED
          BY <2>1, <4>4 DEF Answered
      <3>3. QED
        BY <1>1, <2>1, <3>1, <3>2, SucceedInStep
    <2>3. CASE Expected(Head(script)) \notin heard
      BY <1>1, <2>1, <2>3, FailInStep DEF Conclude, Configured
    <2>4. QED
      BY <2>2, <2>3
  <1>4. QED
    BY <1>2, <1>3

\* Between dialogues only a reconnection brings the worker online: the arms of
\* its loop never do.
LEMMA LoopStaysOffline ==
    ASSUME LoopStep \/ LineStep \/ PortStep \/ TimerStep \/ CallerStep
    PROVE  ~GoesOnline
  <1>1. CASE LoopStep
    BY <1>1 DEF LoopStep, InLoop, WorkerStep, GoesOnline, HandleWorkerEvent, SetStatusEvent,
                WriteEvent, WriteFailed, SetStatus, StartNext, FailActiveOnShutdown, RejectHead,
                RejectOnShutdown, QueueRejected, GoOffline, RejectWhenOffline
  <1>2. CASE LineStep \/ PortStep
    BY <1>2 DEF LineStep, PortStep, InLoop, GoesOnline, ProcessLine, ReadPort, PortFailed, SetStatus
  <1>3. CASE TimerStep \/ CallerStep
    BY <1>3 DEF TimerStep, CallerStep, InLoop, GoesOnline, CommandTimeout, Callers, SendRequest,
                ReceiveResponse, GiveUp
  <1>4. QED
    BY <1>1, <1>2, <1>3

LEMMA OnlyAnAnswerGoesOnline ==
    ASSUME \/ Begin \/ Accept \/ Refuse \/ Recover
           \/ LoopStep \/ LineStep \/ PortStep \/ TimerStep \/ CallerStep
           \/ UNCHANGED dialogueVars
    PROVE  ~GoesOnline
  <1>1. CASE Begin \/ Accept \/ Refuse \/ Recover \/ UNCHANGED dialogueVars
    BY <1>1
       DEF Begin, Accept, Refuse, ModemActs, Recover, WorkerWaits, dialogueVars, vars, GoesOnline
  <1>2. QED
    BY <1>1, LoopStaysOffline

LEMMA StepInvStep ==
    ASSUME StepInv, PortTyped, [DialogueNext]_dialogueVars
    PROVE  StepInv' /\ Configured
  <1>1. CASE Begin
    <2>1. script' = Script
      BY <1>1 DEF Begin, Send
    <2>2. StepInv'
      BY <2>1, ScriptFacts DEF StepInv, ScriptOK, InStep, SettingUp
    <2>3. QED
      BY <1>1, <2>2, OnlyAnAnswerGoesOnline DEF Configured
  <1>2. CASE Hear
    BY <1>2, HearInStep
  <1>3. CASE AnswerOverdue \/ PortFails
    BY <1>3, FailInStep DEF AnswerOverdue, PortFails, Configured, PortTyped
  <1>4. CASE LoopStep \/ LineStep \/ PortStep \/ TimerStep
    <2>1. script' = <<>>
      BY <1>4 DEF LoopStep, LineStep, PortStep, TimerStep, InLoop, Talking, dialogue
    <2>2. QED
      BY <1>4, <2>1, NotTalking, OnlyAnAnswerGoesOnline DEF Configured
  <1>5. CASE CallerStep \/ Recover \/ UNCHANGED dialogueVars
    <2>1. UNCHANGED <<script, response, to_modem, from_modem, powered, behind, flawed>>
      BY <1>5 DEF CallerStep, Recover, dialogueVars, dialogue, port
    <2>2. StepInv'
      BY <2>1 DEF StepInv, ScriptOK, InStep, SettingUp, Talking, Spoilt, Unanswered,
                  HalfAnswered, Answered
    <2>3. QED
      BY <1>5, <2>2, OnlyAnAnswerGoesOnline DEF Configured
  <1>6. CASE Accept \/ Refuse
    BY <1>6, AcceptInStep, RefuseInStep, OnlyAnAnswerGoesOnline DEF Configured
  <1>7. QED
    BY <1>1, <1>2, <1>3, <1>4, <1>5, <1>6 DEF DialogueNext

LEMMA StepInvAlways == DialogueSpec => []StepInv
  <1>1. DialogueInit => StepInv
    BY DEF DialogueInit, StepInv, ScriptOK, InStep, SettingUp, Talking
  <1>2. StepInv /\ PortTyped /\ [DialogueNext]_dialogueVars => StepInv'
    BY StepInvStep
  <1>3. QED
    BY <1>1, <1>2, PortTypedAlways, PTL DEF DialogueSpec

\* A set-up that began with nothing outstanding brings the worker online only if
\* the modem accepted each of its commands, and leaves no answer behind, however
\* the modem loses and refuses commands and whatever is sent.
THEOREM InStepConfigured == DialogueSpec => InStepMeansConfigured
  <1>1. StepInv /\ PortTyped /\ [DialogueNext]_dialogueVars =>
            [GoesOnline /\ behind = 0 => Quiet' /\ ~flawed']_dialogueVars
    BY StepInvStep DEF Configured
  <1>2. QED
    BY <1>1, StepInvAlways, PortTypedAlways, PTL DEF DialogueSpec, InStepMeansConfigured, GoesOnline

-----------------------------------------------------------------------------
(***************************************************************************)
(* How far an answer can lag behind its command.                           *)
(***************************************************************************)
\* Where the commands that a modem holds ask for the message storage, which is
\* what AT+CPMS is recognised by.
NoneBeyond(held, k) == \A p \in 1..Len(held) : held[p] = "AT+CPMS" => p <= k
OnlyLast(held) == \A p \in 1..Len(held) : held[p] = "AT+CPMS" => p = Len(held)

LEMMA AppendBeyond ==
    ASSUME NEW held \in Seq(Sent), NEW command \in Sent, NEW k \in Int
    PROVE  /\ NoneBeyond(held, k) /\ command # "AT+CPMS" => NoneBeyond(Append(held, command), k)
           /\ NoneBeyond(held, k) /\ k <= 0 => OnlyLast(held) /\ OnlyLast(Append(held, command))
  <1> DEFINE longer == Append(held, command)
  <1>1. /\ Len(held) \in Nat /\ Len(longer) = Len(held) + 1
        /\ longer[Len(held) + 1] = command
        /\ \A p \in 1..Len(held) : longer[p] = held[p]
    OBVIOUS
  <1> HIDE DEF longer
  <1>2. \A p \in 1..Len(longer) : p \in 1..Len(held) \/ p = Len(longer)
    BY <1>1
  <1>3. QED
    BY <1>1, <1>2 DEF NoneBeyond, OnlyLast, longer

LEMMA TailBeyond ==
    ASSUME NEW held \in Seq(Sent), held # <<>>, NEW k \in Int
    PROVE  /\ Len(Tail(held)) = Len(held) - 1
           /\ NoneBeyond(held, k) => NoneBeyond(Tail(held), k - 1)
           /\ OnlyLast(held) => OnlyLast(Tail(held))
  <1> DEFINE left == Tail(held)
  <1>1. /\ Len(held) \in Nat /\ Len(left) = Len(held) - 1
        /\ \A p \in 1..Len(left) : left[p] = held[p + 1]
    BY HeadTailProperties
  <1> HIDE DEF left
  <1>2. \A p \in 1..Len(left) : p + 1 \in 1..Len(held)
    BY <1>1
  <1>3. NoneBeyond(held, k) => NoneBeyond(left, k - 1)
    BY <1>1, <1>2 DEF NoneBeyond
  <1>4. OnlyLast(held) => OnlyLast(left)
    BY <1>1, <1>2 DEF OnlyLast
  <1>5. QED
    BY <1>1, <1>3, <1>4 DEF left

LEMMA LineBeyond ==
    ASSUME NEW held \in Seq(Sent), held # <<>>, NEW k \in Int
    PROVE  /\ Len(AfterLine(held)) <= Len(held)
           /\ NoneBeyond(held, k) => NoneBeyond(AfterLine(held), k)
           /\ OnlyLast(held) => OnlyLast(AfterLine(held))
           /\ Head(held) # "AT+CPMS" => AfterLine(held) = Tail(held)
           /\ Head(held) = "AT+CPMS" /\ OnlyLast(held) => AfterLine(held) = <<"FinalOK">>
  <1> DEFINE left == Tail(held)
  <1>1. left \in Seq(Sent) /\ Len(left) = Len(held) - 1 /\ Len(held) \in Nat
    BY HeadTailProperties
  <1>2. CASE Head(held) # "AT+CPMS"
    <2>1. AfterLine(held) = left
      <3>1. AfterLine(held) = <<>> \o left
        BY <1>2 DEF AfterLine, Rest
      <3>2. QED
        BY <1>1, <3>1
    <2>2. NoneBeyond(held, k) => NoneBeyond(left, k - 1)
      BY TailBeyond
    <2>3. NoneBeyond(left, k - 1) => NoneBeyond(left, k)
      BY <1>1 DEF NoneBeyond
    <2>4. QED
      BY <1>1, <1>2, <2>1, <2>2, <2>3, TailBeyond
  <1>3. CASE Head(held) = "AT+CPMS"
    <2> DEFINE after == <<"FinalOK">> \o left
    <2>1. AfterLine(held) = after
      BY <1>3 DEF AfterLine, Rest
    <2>2. <<"FinalOK">> \in Seq(Sent \cup {"FinalOK"}) /\ Len(<<"FinalOK">>) = 1
      OBVIOUS
    <2>3. /\ Len(after) = Len(held)
          /\ after[1] = "FinalOK"
          /\ \A p \in 2..Len(held) : after[p] = held[p]
      <3>1. \A p \in 2..Len(held) : p - 1 \in 1..Len(left) /\ left[p - 1] = held[p]
        BY <1>1, HeadTailProperties
      <3>2. left \in Seq(Sent \cup {"FinalOK"})
        BY <1>1
      <3>3. QED
        BY <1>1, <2>2, <3>1, <3>2, ConcatProperties
    <2>4. \A p \in 1..Len(held) : p = 1 \/ p \in 2..Len(held)
      BY <1>1
    <2> HIDE DEF after
    <2>5. NoneBeyond(held, k) => NoneBeyond(after, k)
      BY <1>1, <2>3, <2>4, SMTT(30) DEF NoneBeyond
    <2>6. OnlyLast(held) => OnlyLast(after)
      BY <1>1, <2>3, <2>4 DEF OnlyLast
    <2>7. OnlyLast(held) => after = <<"FinalOK">>
      <3>1. SUFFICES ASSUME OnlyLast(held) PROVE after = <<"FinalOK">>
        OBVIOUS
      <3>2. held[1] = "AT+CPMS" /\ 1 \in 1..Len(held)
        BY <1>1, <1>3, HeadTailProperties
      <3>3. Len(held) = 1
        BY <3>1, <3>2 DEF OnlyLast
      <3>4. Len(left) = 0
        BY <1>1, <3>3
      <3>5. left = <<>>
        <4>1. \A q \in Seq(Sent) : Len(q) = 0 => q = <<>>
          OBVIOUS
        <4>2. QED
          BY <1>1, <3>4, <4>1
      <3>6. QED
        <4>1. after = <<"FinalOK">> \o <<>>
          BY <3>5 DEF after
        <4>2. QED
          BY <2>2, <4>1, ConcatEmptySeq
    <2>8. QED
      BY <1>1, <1>3, <2>1, <2>3, <2>5, <2>6, <2>7
  <1>4. QED
    BY <1>2, <1>3

\* AT+CPMS is the last of the mandatory commands and the only one of its kind.
LEMMA SetupPlaces ==
    /\ Len(Mandatory) = 7
    /\ Len(Setup) \in Nat /\ Len(Setup) >= 7 /\ (~GnssEnabled => Len(Setup) = 7)
    /\ Setup[7] = "AT+CPMS"
    /\ \A k \in 1..6 : Setup[k] # "AT+CPMS"
    /\ \A k \in 1..Len(Setup) : Setup[k] # "AT"
  <1>1. /\ Mandatory \in Seq(SetupCommands) /\ Len(Mandatory) = 7
        /\ Mandatory[7] = "AT+CPMS" /\ \A k \in 1..6 : Mandatory[k] # "AT+CPMS"
    <2>1. Mandatory \in Seq(SetupCommands) /\ Len(Mandatory) = 7 /\ Mandatory[7] = "AT+CPMS"
      BY DEF Mandatory, SetupCommands
    <2>2. \A k \in 1..6 : k = 1 \/ k = 2 \/ k = 3 \/ k = 4 \/ k = 5 \/ k = 6
      OBVIOUS
    <2>3. \A k \in 1..6 : Mandatory[k] # "AT+CPMS"
      BY <2>2 DEF Mandatory
    <2>4. QED
      BY <2>1, <2>3
  <1>2. Gnss \in Seq(SetupCommands) /\ (~GnssEnabled => Len(Gnss) = 0)
    <2>1. CASE GnssEnabled
      BY <2>1 DEF Gnss, SetupCommands
    <2>2. CASE ~GnssEnabled
      BY <2>2 DEF Gnss
    <2>3. QED
      BY <2>1, <2>2
  <1>3. /\ Len(Setup) = Len(Mandatory) + Len(Gnss) /\ Len(Gnss) \in Nat
        /\ \A k \in 1..7 : Setup[k] = Mandatory[k]
    <2>1. /\ Len(Mandatory \o Gnss) = Len(Mandatory) + Len(Gnss)
          /\ \A k \in 1..Len(Mandatory) + Len(Gnss) :
                 (Mandatory \o Gnss)[k] =
                     IF k <= Len(Mandatory) THEN Mandatory[k] ELSE Gnss[k - Len(Mandatory)]
      BY <1>1, <1>2, ConcatProperties
    <2>2. Len(Mandatory) = 7 /\ Len(Gnss) \in Nat
      BY <1>1, <1>2
    <2>3. \A k \in 1..7 : k \in 1..Len(Mandatory) + Len(Gnss) /\ k <= Len(Mandatory)
      BY <2>2
    <2>4. QED
      BY <2>1, <2>2, <2>3 DEF Setup
  <1>4. \A k \in 1..Len(Setup) : Setup[k] # "AT"
    <2>1. \A k \in 1..Len(Setup) : Setup[k] \in SetupCommands
      BY SetupFacts, ElementOfSeq
    <2>2. "AT" \notin SetupCommands
      BY DEF SetupCommands
    <2>3. QED
      BY <2>1, <2>2
  <1>5. QED
    BY <1>1, <1>2, <1>3, <1>4

\* The commands of the set-up that were answered, or taken to be, before this one.
Passed(commands) == Len(Setup) - Len(commands)

LEMMA CommandPlaces ==
    ASSUME NEW commands \in Suffixes, commands # <<>>
    PROVE  /\ Head(commands) = "AT" => Tail(commands) = Setup
           /\ Head(commands) # "AT" =>
                 /\ Passed(commands) \in 0..Len(Setup) - 1
                 /\ Head(commands) = Setup[Passed(commands) + 1]
           /\ Len(commands) # 1 => Tail(commands) # <<>>
           /\ Passed(Tail(commands)) = Passed(commands) + 1
  <1> DEFINE n == Len(Script)
  <1>1. /\ Setup \in Seq(SetupCommands) /\ Len(Setup) \in Nat
        /\ n = Len(Setup) + 1
        /\ Script[1] = "AT"
        /\ \A j \in 2..n : Script[j] = Setup[j - 1]
    <2>1. Setup \in Seq(SetupCommands \cup {"AT"}) /\ <<"AT">> \in Seq(SetupCommands \cup {"AT"})
      BY SetupFacts
    <2>2. QED
      BY <2>1, SetupFacts, ConcatProperties DEF Script
  <1>2. Script \in Seq(Sent) /\ Tail(Script) = Setup
    BY ScriptType
  <1>3. PICK i \in 1..n + 1 : commands = SubSeq(Script, i, n)
    BY DEF Suffixes
  <1>4. commands \in Seq(Sent) /\ Tail(commands) \in Seq(Sent)
        /\ Len(Tail(commands)) = Len(commands) - 1 /\ Len(commands) \in Nat
    BY SuffixFacts, HeadTailProperties
  <1>5. i \in 1..n
    BY <1>1, <1>2, <1>3, SubSeqEmpty
  <1> HIDE DEF n
  <1>6. Head(commands) = Script[i] /\ Len(commands) = n - i + 1
    <2>1. n \in i..n /\ n = Len(Script)
      BY <1>1, <1>5 DEF n
    <2>2. i \in 1..Len(Script)
      BY <1>5 DEF n
    <2>3. Head(commands) = Script[i]
      BY <1>2, <1>3, <2>1, <2>2, HeadTailOfSubSeq
    <2>4. \A k \in i..n : Script[k] \in Sent
      <3>1. \A k \in i..n : k \in 1..n
        BY <1>5
      <3>2. QED
        BY <1>2, <2>1, <3>1, ElementOfSeq
    <2>5. Len(commands) = n - i + 1
      BY <1>1, <1>3, <1>5, <2>4, SubSeqProperties
    <2>6. QED
      BY <2>3, <2>5
  <1>7. CASE i = 1
    <2>1. commands = Script
      BY <1>2, <1>3, <1>7, SubSeqFull DEF n
    <2>2. QED
      BY <1>1, <1>2, <1>4, <1>6, <1>7, <2>1 DEF Passed
  <1>8. CASE i \in 2..n
    <2>1. i - 1 = Passed(commands) + 1 /\ Passed(commands) \in 0..Len(Setup) - 1
      BY <1>1, <1>6, <1>8 DEF Passed
    <2>2. Head(commands) = Setup[Passed(commands) + 1] /\ Head(commands) # "AT"
      BY <1>1, <1>6, <1>8, <2>1, SetupPlaces
    <2>3. Len(commands) # 1 => Len(Tail(commands)) # 0
      BY <1>4
    <2>4. Passed(Tail(commands)) = Passed(commands) + 1
      BY <1>1, <1>4 DEF Passed
    <2>5. Len(<<>>) = 0
      OBVIOUS
    <2>6. QED
      BY <2>1, <2>2, <2>3, <2>4, <2>5
  <1>9. QED
    BY <1>1, <1>5, <1>7, <1>8

\* A final answer that nobody has read.
Unread == IF from_modem \cap Finals = {} THEN 0 ELSE 1

\* No AT+CPMS but that of this set-up is answered while the set-up waits for
\* the answer to its own; what it hears after that was sent after it.
Lag ==
    SettingUp /\ behind < Len(Mandatory) =>
        /\ Passed(script) < 6 => NoneBeyond(to_modem, behind - Passed(script) - Unread)
        /\ Passed(script) = 6 =>
              /\ OnlyLast(to_modem)
              /\ "+CPMS" \in response \cup from_modem => to_modem \in {<<>>, <<"FinalOK">>}
        /\ Passed(script) > 6 => Len(to_modem) + Unread <= 2

\* With held before it, the command after passed commands of the set-up can be sent.
ReadyFor(held, passed, before) ==
    before < 7 =>
        /\ passed <= 6 => NoneBeyond(held, before - passed)
        /\ passed > 6 => Len(held) <= 1

LEMMA SendLags ==
    ASSUME NEW commands \in Suffixes, commands # <<>>, Head(commands) # "AT",
           NEW held, Held(held), NEW power, Send(commands, held, power), from_modem' = {},
           ReadyFor(held, Passed(commands), behind'), behind' \in Int
    PROVE  Lag'
  <1> DEFINE command == Head(commands)
             passed  == Passed(commands)
  <1>1. script' = commands /\ response' = {} /\ command \in Sent
    BY SuffixFacts, HeadTailProperties DEF Send
  <1>2. held \in Seq(Sent) /\ Len(held) \in Nat
    BY DEF Held
  <1>3. to_modem' = held \/ to_modem' = Append(held, command)
    BY DEF Send
  <1>4. passed \in 0..Len(Setup) - 1 /\ command = Setup[passed + 1]
    BY CommandPlaces
  <1>5. Unread' = 0
    BY DEF Unread
  <1>6. Passed(script)' = passed
    BY <1>1 DEF Passed
  <1> HIDE DEF command, passed
  <1>7. SUFFICES ASSUME behind' < 7
                 PROVE  /\ passed < 6 => NoneBeyond(to_modem', behind' - passed)
                        /\ passed = 6 => OnlyLast(to_modem')
                        /\ passed > 6 => Len(to_modem') <= 2
    <2>1. "+CPMS" \notin response' \cup from_modem'
      BY <1>1
    <2>2. Len(Mandatory) = 7
      BY SetupPlaces
    <2>3. /\ passed \in Int
          /\ Len(to_modem') + 0 = Len(to_modem')
          /\ behind' - passed - 0 = behind' - passed
      <3>1. Len(to_modem') \in Int /\ passed \in Int
        BY <1>1, <1>2, <1>3, <1>4, SetupPlaces
      <3>2. QED
        BY <3>1
    <2>4. QED
      BY <1>5, <1>6, <1>7, <2>1, <2>2, <2>3 DEF Lag
  <1>8. passed \in Int /\ behind' - passed \in Int
    BY <1>4, SetupPlaces
  <1>9. CASE passed < 6
    <2>1. passed + 1 \in 1..6
      BY <1>4, <1>9, SetupPlaces
    <2>2. command # "AT+CPMS"
      BY <1>4, <2>1, SetupPlaces
    <2>3. NoneBeyond(held, behind' - passed)
      BY <1>7, <1>8, <1>9 DEF ReadyFor, passed
    <2>4. \A k \in Int : NoneBeyond(held, k) => NoneBeyond(Append(held, command), k)
      BY <1>1, <1>2, <2>2, AppendBeyond
    <2>5. /\ NoneBeyond(held, behind' - passed)
          /\ NoneBeyond(Append(held, command), behind' - passed)
      BY <1>8, <2>3, <2>4
    <2>6. NoneBeyond(to_modem', behind' - passed)
      BY <1>3, <2>5
    <2>7. ~(passed = 6) /\ ~(passed > 6)
      BY <1>8, <1>9
    <2>8. QED
      BY <2>6, <2>7
  <1>10. CASE passed = 6
    <2>1. NoneBeyond(held, behind' - passed) /\ behind' - passed <= 0
      <3>1. passed <= 6 /\ behind' - passed <= 0
        <4>1. \A x, y \in Int : x < 7 /\ y = 6 => y <= 6 /\ x - y <= 0
          OBVIOUS
        <4>2. QED
          BY <1>7, <1>8, <1>10, <4>1
      <3>2. passed <= 6 => NoneBeyond(held, behind' - passed)
        BY <1>7 DEF ReadyFor, passed
      <3>3. QED
        BY <3>1, <3>2
    <2>2. \A k \in Int : NoneBeyond(held, k) /\ k <= 0 =>
              OnlyLast(held) /\ OnlyLast(Append(held, command))
      BY <1>1, <1>2, AppendBeyond
    <2>3. OnlyLast(held) /\ OnlyLast(Append(held, command))
      BY <1>8, <2>1, <2>2
    <2>4. OnlyLast(to_modem')
      BY <1>3, <2>3
    <2>5. ~(passed < 6) /\ ~(passed > 6)
      BY <1>10
    <2>6. QED
      BY <2>4, <2>5
  <1>11. CASE passed > 6
    <2>1. Len(held) <= 1
      BY <1>7, <1>11 DEF ReadyFor, passed
    <2>2. Len(Append(held, command)) = Len(held) + 1
      BY <1>1, <1>2
    <2>3. QED
      BY <1>2, <1>3, <1>8, <1>11, <2>1, <2>2
  <1>12. QED
    BY <1>8, <1>9, <1>10, <1>11

LEMMA LagNotTalking ==
    ASSUME script' = <<>>
    PROVE  Lag'
  BY DEF Lag, SettingUp, Talking

\* The first command of a set-up is as far behind as the modem is.
LEMMA ReadyAtFirst ==
    ASSUME NEW held, Held(held)
    PROVE  /\ Setup \in Suffixes /\ Setup # <<>> /\ Head(Setup) # "AT"
           /\ ReadyFor(held, Passed(Setup), Len(held))
  <1>1. Setup \in Seq(SetupCommands) /\ Len(Setup) \in Nat /\ Len(Setup) >= 7
    BY SetupFacts, SetupPlaces
  <1>2. Setup # <<>> /\ Head(Setup) = Setup[1] /\ 1 \in 1..Len(Setup)
    <2>1. Setup # <<>>
      BY <1>1
    <2>2. QED
      BY <1>1, <2>1, HeadTailProperties
  <1>3. Head(Setup) # "AT"
    BY <1>2, SetupPlaces
  <1>4. Passed(Setup) = 0
    BY <1>1 DEF Passed
  <1>5. Len(held) \in Nat
    BY DEF Held
  <1>6. NoneBeyond(held, Len(held) - 0)
    BY <1>5 DEF NoneBeyond
  <1>7. QED
    BY <1>2, <1>3, <1>4, <1>6, SuffixFacts DEF ReadyFor

LEMMA FailLags ==
    ASSUME NEW held, Held(held), from_modem' = {}, Fail(held)
    PROVE  Lag'
  <1>1. PICK left \in {<<>>, held} :
            \/ \E power : Send(Setup, left, power) /\ powered' = power /\ WorkerWaits
            \/ Return(FALSE) /\ to_modem' = left
    BY FailCases
  <1>2. CASE Return(FALSE)
    BY <1>2, LagNotTalking DEF Return
  <1>3. CASE \E power : Send(Setup, left, power)
    <2>1. Held(left)
      BY <1>1, NothingHeld
    <2>2. behind' = Len(left) /\ Len(left) \in Int
      BY <1>3, <2>1 DEF Send, Held
    <2>3. QED
      BY <1>3, <2>1, <2>2, ReadyAtFirst, SendLags
  <1>4. QED
    BY <1>1, <1>2, <1>3

OneBehind ==
    GoesOnline /\ behind < Len(Mandatory) =>
        /\ from_modem' = {}
        /\ Len(to_modem') <= 1
        /\ ~GnssEnabled => to_modem' \in {<<>>, <<"FinalOK">>}

\* What is held when a command is answered, or taken to be: the next can be sent.
LeavesReady(held) ==
    SettingUp /\ behind < 7 =>
        /\ ReadyFor(held, Passed(script) + 1, behind)
        /\ Passed(script) = 6 => held \in {<<>>, <<"FinalOK">>}

LEMMA SucceedLags ==
    ASSUME PortTyped, behind \in Int, Talking, NEW held, Held(held), LeavesReady(held),
           Succeed(held), from_modem' = {}
    PROVE  Lag' /\ OneBehind
  <1>1. script \in Suffixes /\ script # <<>>
    BY DEF PortTyped, Talking
  <1>2. Len(Mandatory) = 7 /\ Len(Setup) \in Nat /\ Len(Setup) >= 7
        /\ (~GnssEnabled => Len(Setup) = 7)
    BY SetupPlaces
  <1>3. Passed(Setup) = 0 /\ Len(Setup) # 0
    BY <1>2 DEF Passed
  <1>4. CASE Len(script) = 1
    <2>1. Return(TRUE) /\ to_modem' = held
      BY <1>4 DEF Succeed
    <2>2. Lag'
      BY <2>1, LagNotTalking DEF Return
    <2>3. Head(script) # "AT"
      <3>1. Head(script) = "AT" => Tail(script) = Setup
        BY <1>1, CommandPlaces
      <3>2. script \in Seq(Sent) /\ Len(Tail(script)) = Len(script) - 1
        BY <1>1, SuffixFacts, HeadTailProperties
      <3>3. Len(Tail(script)) = 0
        BY <1>4, <3>2
      <3>4. QED
        BY <1>3, <3>1, <3>3
    <2>4. SettingUp /\ Passed(script) = Len(Setup) - 1
      BY <1>4, <2>3 DEF SettingUp, Passed
    <2>5. ASSUME behind < 7
          PROVE  Len(held) <= 1 /\ (~GnssEnabled => held \in {<<>>, <<"FinalOK">>})
      <3>1. ReadyFor(held, Len(Setup), behind) /\ (Len(Setup) = 7 => held \in {<<>>, <<"FinalOK">>})
        <4>1. Passed(script) + 1 = Len(Setup) /\ (Len(Setup) = 7 => Passed(script) = 6)
          BY <1>2, <2>4
        <4>2. QED
          BY <2>4, <2>5, <4>1 DEF LeavesReady
      <3>2. Len(Setup) > 6
        BY <1>2
      <3>3. QED
        BY <1>2, <2>5, <3>1, <3>2 DEF ReadyFor
    <2>6. OneBehind
      BY <1>2, <2>1, <2>5 DEF OneBehind
    <2>7. QED
      BY <2>2, <2>6
  <1>5. CASE Len(script) # 1
    <2> DEFINE commands == Tail(script)
    <2>1. Send(commands, held, powered) /\ WorkerWaits
      BY <1>5 DEF Succeed
    <2>2. OneBehind
      BY <2>1 DEF OneBehind, GoesOnline, WorkerWaits, vars
    <2>3. commands \in Suffixes /\ commands # <<>>
      BY <1>1, <1>5, SuffixFacts, CommandPlaces
    <2> HIDE DEF commands
    <2>4. CASE Head(script) = "AT"
      <3>1. commands = Setup
        BY <1>1, <2>4, CommandPlaces DEF commands
      <3>2. behind' = Len(held) /\ Len(held) \in Int
        BY <2>1, <3>1 DEF Send, Held
      <3>3. Lag'
        BY <2>1, <3>1, <3>2, ReadyAtFirst, SendLags
      <3>4. QED
        BY <2>2, <3>3
    <2>5. CASE Head(script) # "AT"
      <3>1. /\ SettingUp /\ Passed(script) \in 0..Len(Setup) - 1
            /\ Passed(commands) = Passed(script) + 1
        BY <1>1, <2>5, CommandPlaces DEF SettingUp, Talking, commands
      <3>2. commands # Setup
        BY <1>2, <1>3, <3>1
      <3>3. behind' = behind
        BY <2>1, <3>2 DEF Send
      <3>4. Head(commands) # "AT"
        <4>1. Passed(Tail(commands)) = Passed(script) + 2
          BY <1>2, <2>3, <3>1, CommandPlaces
        <4>2. Passed(Tail(commands)) # 0
          BY <1>2, <3>1, <4>1
        <4>3. Tail(commands) # Setup
          BY <1>3, <4>2
        <4>4. QED
          BY <2>3, <4>3, CommandPlaces
      <3>5. ReadyFor(held, Passed(commands), behind')
        <4>1. ReadyFor(held, Passed(commands), behind)
          BY <3>1 DEF LeavesReady, ReadyFor
        <4>2. QED
          BY <3>3, <4>1 DEF ReadyFor
      <3>6. Lag'
        BY <2>1, <2>3, <3>3, <3>4, <3>5, SendLags
      <3>7. QED
        BY <2>2, <3>6
    <2>6. QED
      BY <2>4, <2>5
  <1>6. QED
    BY <1>4, <1>5

LEMMA OneFinal ==
    \A held \in {<<>>, <<"FinalOK">>} :
        /\ Len(held) <= 1
        /\ held # <<>> => Head(held) = "FinalOK" /\ Tail(held) = <<>>
  <1> DEFINE one == <<"FinalOK">>
  <1>1. Len(<<>>) <= 1
    OBVIOUS
  <1>2. Len(one) <= 1 /\ Head(one) = "FinalOK"
    OBVIOUS
  <1>3. Tail(one) = <<>>
    OBVIOUS
  <1> HIDE DEF one
  <1>4. ASSUME NEW held, held = <<>> \/ held = one
        PROVE  /\ Len(held) <= 1
               /\ held # <<>> => Head(held) = "FinalOK" /\ Tail(held) = <<>>
    <2>1. CASE held = <<>>
      BY <1>1, <2>1
    <2>2. CASE held = one
      BY <1>2, <1>3, <2>2
    <2>3. QED
      BY <1>4, <2>1, <2>2
  <1>5. QED
    BY <1>4 DEF one

\* An answer that is complete was read to its end, or came with one that was.
LEMMA HeardLeavesReady ==
    ASSUME PortTyped, behind \in Int, Lag, Talking, NEW held,
           held = to_modem \/ (to_modem # <<>> /\ held = AfterLine(to_modem)),
           (response \cup from_modem) \cap Finals # {},
           Expected(Head(script)) \in response \cup from_modem
    PROVE  LeavesReady(held)
  <1> DEFINE passed == Passed(script)
  <1>1. SUFFICES ASSUME SettingUp, behind < 7
                 PROVE  /\ ReadyFor(held, passed + 1, behind)
                        /\ passed = 6 => held \in {<<>>, <<"FinalOK">>}
    BY DEF LeavesReady
  <1>2. Unread = 1
    BY DEF Unread, PortTyped, Finals
  <1>3. Len(Mandatory) = 7 /\ Len(Setup) \in Nat /\ Setup[7] = "AT+CPMS"
    BY SetupPlaces
  <1>4. passed \in 0..Len(Setup) - 1 /\ Head(script) = Setup[passed + 1]
    BY <1>1, CommandPlaces DEF PortTyped, Talking, SettingUp
  <1>5. to_modem \in Seq(Sent) /\ Len(to_modem) \in Nat
    BY DEF PortTyped, Held
  <1> HIDE DEF passed
  <1>6. passed \in Int
    BY <1>3, <1>4
  <1>7. \A k \in Int : NoneBeyond(to_modem, k) => NoneBeyond(held, k)
    BY <1>5, LineBeyond
  <1>8. Len(held) <= Len(to_modem) /\ Len(held) \in Nat
    <2>1. Held(held)
      BY HeardHeld
    <2>2. Len(held) \in Nat
      BY <2>1 DEF Held
    <2>3. to_modem # <<>> => Len(AfterLine(to_modem)) <= Len(to_modem)
      <3>1. 0 \in Int
        OBVIOUS
      <3>2. QED
        BY <1>5, <3>1, LineBeyond
    <2>4. QED
      BY <1>5, <2>2, <2>3
  <1>9. CASE passed < 6
    <2>1. NoneBeyond(to_modem, behind - passed - 1)
      BY <1>1, <1>2, <1>3, <1>9 DEF Lag, passed
    <2>2. behind - passed - 1 = behind - (passed + 1) /\ behind - (passed + 1) \in Int
      BY <1>6
    <2>3. NoneBeyond(held, behind - (passed + 1))
      BY <1>7, <2>1, <2>2
    <2>4. ~(passed + 1 > 6) /\ passed # 6
      BY <1>6, <1>9
    <2>5. QED
      BY <2>3, <2>4 DEF ReadyFor
  <1>10. CASE passed >= 6
    <2>1. ASSUME passed = 6
          PROVE  held \in {<<>>, <<"FinalOK">>}
      <3>1. Head(script) = "AT+CPMS"
        BY <1>3, <1>4, <2>1
      <3>2. "+CPMS" \in response \cup from_modem
        BY <3>1 DEF Expected
      <3>3. to_modem \in {<<>>, <<"FinalOK">>}
        BY <1>1, <1>3, <2>1, <3>2 DEF Lag, passed
      <3>4. to_modem # <<>> => AfterLine(to_modem) = <<>>
        <4>1. to_modem # <<>> => Head(to_modem) = "FinalOK" /\ Tail(to_modem) = <<>>
          BY <3>3, OneFinal
        <4>2. "FinalOK" # "AT+CPMS" /\ 0 \in Int
          OBVIOUS
        <4>3. QED
          BY <1>5, <4>1, <4>2, LineBeyond
      <3>5. QED
        BY <3>3, <3>4
    <2>2. Len(held) <= 1
      <3>1. CASE passed = 6
        <4>1. held \in {<<>>, <<"FinalOK">>}
          BY <2>1, <3>1
        <4>2. QED
          BY <4>1, OneFinal
      <3>2. CASE passed > 6
        <4>1. Len(to_modem) + 1 <= 2
          BY <1>1, <1>2, <1>3, <3>2 DEF Lag, passed
        <4>2. QED
          BY <1>5, <1>8, <4>1
      <3>3. QED
        BY <1>6, <1>10, <3>1, <3>2
    <2>3. ~(passed + 1 <= 6)
      BY <1>6, <1>10
    <2>4. QED
      BY <2>1, <2>2, <2>3 DEF ReadyFor
  <1>11. QED
    BY <1>6, <1>9, <1>10

\* A command that leaves the modem brings what is behind it one place forward,
\* and leaves at most one final answer.
LEMMA PopLags ==
    ASSUME PortTyped, behind \in Int, Lag, to_modem # <<>>, to_modem' = Tail(to_modem),
           from_modem' \in
               {from_modem, from_modem \cup {"OK"}, from_modem \cup {"ERROR"}},
           UNCHANGED <<script, response, behind>>
    PROVE  Lag'
  <1> DEFINE passed == Passed(script)
  <1>1. SUFFICES ASSUME SettingUp, behind < 7
                 PROVE  /\ passed < 6 => NoneBeyond(to_modem', behind - passed - Unread')
                        /\ passed = 6 =>
                              /\ OnlyLast(to_modem')
                              /\ "+CPMS" \in response \cup from_modem' =>
                                     to_modem' \in {<<>>, <<"FinalOK">>}
                        /\ passed > 6 => Len(to_modem') + Unread' <= 2
    BY SetupPlaces DEF Lag, SettingUp, Talking, Passed
  <1>2. Len(Mandatory) = 7 /\ passed \in Int
    <2>1. script \in Seq(Sent)
      BY SuffixFacts DEF PortTyped
    <2>2. QED
      BY <2>1, SetupPlaces DEF Passed
  <1> HIDE DEF passed
  <1>3. to_modem \in Seq(Sent) /\ Len(to_modem) \in Nat
    BY DEF PortTyped, Held
  <1>4. Unread \in 0..1 /\ Unread' \in 0..1
    BY DEF Unread
  <1>5. Len(to_modem') = Len(to_modem) - 1
    <2>1. 0 \in Int
      OBVIOUS
    <2>2. QED
      BY <1>3, <2>1, TailBeyond
  <1>6. ASSUME passed < 6
        PROVE  NoneBeyond(to_modem', behind - passed - Unread')
    <2>1. NoneBeyond(to_modem, behind - passed - Unread)
      BY <1>1, <1>2, <1>6 DEF Lag, passed
    <2>2. behind - passed - Unread \in Int
      BY <1>2, <1>4
    <2>3. NoneBeyond(to_modem', behind - passed - Unread - 1)
      BY <1>3, <2>1, <2>2, TailBeyond
    <2>4. behind - passed - Unread - 1 <= behind - passed - Unread'
      <3>1. \A b, p \in Int, u, v \in 0..1 : b - p - u - 1 <= b - p - v
        OBVIOUS
      <3>2. QED
        BY <1>2, <1>4, <3>1
    <2>5. \A k, l \in Int : k <= l /\ NoneBeyond(to_modem', k) => NoneBeyond(to_modem', l)
      <3>1. Len(to_modem') \in Int
        BY <1>3, <1>5
      <3>2. QED
        BY <3>1 DEF NoneBeyond
    <2>6. behind - passed - Unread - 1 \in Int /\ behind - passed - Unread' \in Int
      BY <1>2, <1>4
    <2>7. QED
      BY <2>3, <2>4, <2>5, <2>6
  <1>7. ASSUME passed = 6
        PROVE  /\ OnlyLast(to_modem')
               /\ "+CPMS" \in response \cup from_modem' => to_modem' \in {<<>>, <<"FinalOK">>}
    <2>1. /\ OnlyLast(to_modem)
          /\ "+CPMS" \in response \cup from_modem => to_modem \in {<<>>, <<"FinalOK">>}
      BY <1>1, <1>2, <1>7 DEF Lag, passed
    <2>2. OnlyLast(to_modem')
      <3>1. 0 \in Int
        OBVIOUS
      <3>2. QED
        BY <1>3, <2>1, <3>1, TailBeyond
    <2>3. "+CPMS" \in response \cup from_modem' => "+CPMS" \in response \cup from_modem
      OBVIOUS
    <2>4. to_modem \in {<<>>, <<"FinalOK">>} => to_modem' = <<>>
      BY OneFinal
    <2>5. QED
      BY <2>1, <2>2, <2>3, <2>4
  <1>8. ASSUME passed > 6
        PROVE  Len(to_modem') + Unread' <= 2
    <2>1. Len(to_modem) + Unread <= 2
      BY <1>1, <1>2, <1>8 DEF Lag, passed
    <2>2. QED
      BY <1>3, <1>4, <1>5, <2>1
  <1>9. QED
    BY <1>6, <1>7, <1>8

LEMMA AcceptLags ==
    ASSUME PortTyped, behind \in Int, Lag, Accept
    PROVE  Lag'
  <1>1. /\ to_modem # <<>> /\ to_modem' = AfterLine(to_modem)
        /\ from_modem' = from_modem \cup {Prints(Head(to_modem))}
        /\ UNCHANGED <<script, response, behind>>
    BY DEF Accept, ModemActs
  <1>2. to_modem \in Seq(Sent) /\ Len(to_modem) \in Nat
    BY DEF PortTyped, Held
  <1>3. CASE Head(to_modem) # "AT+CPMS"
    <2>1. to_modem' = Tail(to_modem)
      <3>1. 0 \in Int
        OBVIOUS
      <3>2. QED
        BY <1>1, <1>2, <1>3, <3>1, LineBeyond
    <2>2. from_modem' = from_modem \cup {"OK"}
      BY <1>1, <1>3 DEF Prints
    <2>3. QED
      BY <1>1, <2>1, <2>2, PopLags
  <1>4. CASE Head(to_modem) = "AT+CPMS"
    <2>1. from_modem' = from_modem \cup {"+CPMS"}
      BY <1>1, <1>4 DEF Prints
    <2>2. Unread' = Unread
      BY <2>1 DEF Unread, Finals
    <2>3. SUFFICES ASSUME SettingUp, behind < 7
                   PROVE  /\ Passed(script) < 6 =>
                                 NoneBeyond(to_modem', behind - Passed(script) - Unread)
                          /\ Passed(script) = 6 =>
                                /\ OnlyLast(to_modem')
                                /\ to_modem' \in {<<>>, <<"FinalOK">>}
                          /\ Passed(script) > 6 => Len(to_modem') + Unread <= 2
      BY <1>1, <2>2, SetupPlaces DEF Lag, SettingUp, Talking, Passed
    <2>4. Passed(script) \in Int /\ Unread \in 0..1 /\ Len(Mandatory) = 7
      <3>1. script \in Seq(Sent)
        BY SuffixFacts DEF PortTyped
      <3>2. QED
        BY <3>1, SetupPlaces DEF Passed, Unread
    <2>5. behind - Passed(script) - Unread \in Int
      BY <2>4
    <2>6. ASSUME Passed(script) < 6
          PROVE  NoneBeyond(to_modem', behind - Passed(script) - Unread)
      <3>1. NoneBeyond(to_modem, behind - Passed(script) - Unread)
        BY <2>3, <2>4, <2>6 DEF Lag
      <3>2. QED
        BY <1>1, <1>2, <2>5, <3>1, LineBeyond
    <2>7. ASSUME Passed(script) = 6
          PROVE  OnlyLast(to_modem') /\ to_modem' \in {<<>>, <<"FinalOK">>}
      <3>1. OnlyLast(to_modem)
        BY <2>3, <2>4, <2>7 DEF Lag
      <3>2. QED
        BY <1>1, <1>2, <1>4, <2>5, <3>1, LineBeyond
    <2>8. ASSUME Passed(script) > 6
          PROVE  Len(to_modem') + Unread <= 2
      <3>1. Len(to_modem) + Unread <= 2
        BY <2>3, <2>4, <2>8 DEF Lag
      <3>2. Len(to_modem') <= Len(to_modem)
        BY <1>1, <1>2, <2>5, LineBeyond
      <3>3. Len(to_modem') \in Nat
        <4>1. Held(to_modem)'
          BY <1>1, HeardHeld DEF Held
        <4>2. QED
          BY <4>1 DEF Held
      <3>4. QED
        BY <1>2, <2>4, <3>1, <3>2, <3>3
    <2>9. QED
      BY <2>6, <2>7, <2>8
  <1>5. QED
    BY <1>3, <1>4

LEMMA HearLags ==
    ASSUME PortTyped, behind \in Int, Lag, Hear
    PROVE  Lag' /\ OneBehind
  <1> DEFINE heard == response \cup from_modem
  <1>1. Talking /\ from_modem' = {}
    BY DEF Hear
  <1>2. CASE heard \cap Finals = {}
    <2>1. response' = heard /\ WorkerWaits /\ UNCHANGED <<script, to_modem, behind>>
      BY <1>2 DEF Hear
    <2>2. Unread = 0 /\ Unread' = 0
      BY <1>1, <1>2 DEF Unread
    <2>3. response' \cup from_modem' = heard
      BY <1>1, <2>1
    <2>4. Lag'
      BY <2>1, <2>2, <2>3 DEF Lag, SettingUp, Talking, Passed, NoneBeyond, OnlyLast
    <2>5. OneBehind
      BY <2>1 DEF OneBehind, GoesOnline, WorkerWaits, vars
    <2>6. QED
      BY <2>4, <2>5
  <1>3. CASE heard \cap Finals # {}
    <2>1. PICK held : /\ held = to_modem \/ (to_modem # <<>> /\ held = AfterLine(to_modem))
                      /\ Conclude(heard, held)
      BY <1>3 DEF Hear
    <2>2. Held(held)
      BY <2>1, HeardHeld
    <2>3. CASE Expected(Head(script)) \in heard
      <3>1. LeavesReady(held)
        BY <1>1, <1>3, <2>1, <2>3, HeardLeavesReady
      <3>2. Succeed(held)
        BY <2>1, <2>3 DEF Conclude
      <3>3. QED
        BY <1>1, <2>2, <3>1, <3>2, SucceedLags
    <2>4. CASE Expected(Head(script)) \notin heard
      <3>1. Fail(held)
        BY <2>1, <2>4 DEF Conclude
      <3>2. Lag' /\ ~GoesOnline
        BY <1>1, <2>2, <3>1, FailLags, FailInStep
      <3>3. QED
        BY <3>2 DEF OneBehind
    <2>5. QED
      BY <2>3, <2>4
  <1>4. QED
    BY <1>2, <1>3

LEMMA LagStep ==
    ASSUME PortTyped, behind \in Int, Lag, [DialogueNext]_dialogueVars
    PROVE  Lag' /\ OneBehind
  <1>1. CASE Hear
    BY <1>1, HearLags
  <1>2. CASE Begin
    <2>1. script' = Script
      BY <1>2 DEF Begin, Send
    <2>2. Lag'
      BY <2>1, ScriptFacts DEF Lag, SettingUp
    <2>3. QED
      BY <1>2, <2>2, OnlyAnAnswerGoesOnline DEF OneBehind
  <1>3. CASE AnswerOverdue \/ PortFails
    <2>1. from_modem' = {} /\ Fail(to_modem) /\ Held(to_modem)
      BY <1>3 DEF AnswerOverdue, PortFails, PortTyped
    <2>2. Lag' /\ ~GoesOnline
      BY <2>1, FailLags, FailInStep
    <2>3. QED
      BY <2>2 DEF OneBehind
  <1>4. CASE LoopStep \/ LineStep \/ PortStep \/ TimerStep
    <2>1. script' = <<>>
      BY <1>4 DEF LoopStep, LineStep, PortStep, TimerStep, InLoop, Talking, dialogue
    <2>2. QED
      BY <1>4, <2>1, LagNotTalking, OnlyAnAnswerGoesOnline DEF OneBehind
  <1>5. CASE CallerStep \/ Recover \/ UNCHANGED dialogueVars
    <2>1. UNCHANGED <<script, response, to_modem, from_modem, behind>>
      BY <1>5 DEF CallerStep, Recover, dialogueVars, dialogue, port
    <2>2. Lag'
      BY <2>1 DEF Lag, SettingUp, Talking, Passed, NoneBeyond, OnlyLast, Unread
    <2>3. QED
      BY <1>5, <2>2, OnlyAnAnswerGoesOnline DEF OneBehind
  <1>6. CASE Accept
    BY <1>6, AcceptLags, OnlyAnAnswerGoesOnline DEF OneBehind
  <1>7. CASE Refuse
    <2>1. /\ to_modem # <<>> /\ to_modem' = Tail(to_modem)
          /\ from_modem' \in {from_modem, from_modem \cup {"ERROR"}}
          /\ UNCHANGED <<script, response, behind>>
      BY <1>7 DEF Refuse, ModemActs
    <2>2. Lag'
      BY <2>1, PopLags
    <2>3. QED
      BY <1>7, <2>2, OnlyAnAnswerGoesOnline DEF OneBehind
  <1>8. QED
    BY <1>1, <1>2, <1>3, <1>4, <1>5, <1>6, <1>7 DEF DialogueNext

\* Whatever the modem loses, refuses or answers late, and however many commands
\* it keeps, the worker comes online with at most one answer to come, unless the
\* set-up began as many answers behind as there are commands up to AT+CPMS.
THEOREM OneAnswerBehind == DialogueSpec => OnlyOneAnswerBehind
  <1>1. DialogueInit => Lag
    BY DEF DialogueInit, Lag, SettingUp, Talking
  <1>2. Typed /\ Lag /\ [DialogueNext]_dialogueVars => Lag' /\ OneBehind
    <2>1. Typed => PortTyped /\ behind \in Int
      BY DialogueAssumption DEF Typed, Judged
    <2>2. QED
      BY <2>1, LagStep
  <1>3. Typed /\ Lag /\ [DialogueNext]_dialogueVars =>
            [GoesOnline /\ behind < Len(Mandatory) =>
                /\ from_modem' = {}
                /\ Len(to_modem') <= 1
                /\ ~GnssEnabled => to_modem' \in {<<>>, <<"FinalOK">>}]_dialogueVars
    BY <1>2 DEF OneBehind
  <1>4. DialogueSpec => []Lag
    BY <1>1, <1>2, TypedAlways, PTL DEF DialogueSpec
  <1>5. QED
    BY <1>3, <1>4, TypedAlways, PTL DEF DialogueSpec, OnlyOneAnswerBehind, GoesOnline
=============================================================================
