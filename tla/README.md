# sms-server in TLA+

A model of [sms-server](../src/README.md), a program that drives a GSM modem over a
serial line: it sends messages for the callers of an HTTP interface, receives messages
and delivery reports, stores them in SQLite, and announces what happens to webhooks and
WebSocket clients. The modules are written from the code in `src/src/`; `PROJECT.json`
names the lines each definition stands for. TLC checks small instances of every module,
and TLAPS proves the safety properties of all of them for every instance.

## The system

| Part | State | Operations | What makes it hard |
|---|---|---|---|
| **Modem worker** `modem/worker.rs` | status, the arm of its loop, the port, the worker events, the power pin | a biased `select!` over worker events, the port, the timers and the command queue; the dialogues that test and set up the modem; reconnection; shutdown | which branch wins; events that were queued before an outage; a status that changes during a shutdown; answers that come after their time limit |
| **State machine** `modem/state_machine.rs`, `handlers.rs`, `commands.rs`, `types.rs` | the command being executed, an unsolicited message that interrupts it | one transition for each line of the modem, start, timeout, failure, reset | answers are matched by prefix alone; a message of two lines cuts into an answer; error paths that drop a command |
| **ModemSender** `modem/sender.rs` | a bounded channel of commands, one oneshot channel for each | `send_request`, `send_sms` | the caller has a timeout of its own and may leave before its command runs |
| **Line buffer** `modem/buffer.rs` | the bytes of an unfinished line | `process_data`, `clear` | reads end anywhere; the prompt has no line end; lines that exceed the limit |
| **SMS manager** `sms/mod.rs` (`SMSManager`) | none of its own | send, insert, announce | each `await` may fail or be interleaved with a delivery report |
| **SMS receiver** `sms/mod.rs` (`SMSReceiver`), `sms/multipart.rs` | a map of unfinished multipart messages | `handle_incoming_sms`, `handle_delivery_report`, `cleanup_stalled_multipart` | parts out of order, doubled, lost; references of eight bits; the cleanup task |
| **Database** `sms/database.rs` | messages, delivery reports, friendly names | single statements | a statement between two others fails; several rows fit a report; pages of a list that changes |
| **Events** `events.rs`, `webhooks.rs`, `http/websocket.rs` | the webhook queue, the map of connections, two tasks for each | broadcast, requests to webhooks, connection and its end | broadcasts interleave; slow or failing receivers; two tasks that end in any order |
| **HTTP** `http/` | none | routes | what a reply says of a message |
| **Application** `app.rs`, `main.rs`, `config.rs` | the handles of the tasks | start, wait for the first task to end | a task that ends early |

A request to send a message goes from a route to `SMSManager::send_sms`, which has
`ModemSender` queue one command for each part. The worker takes commands from the queue one
at a time; the state machine interprets the lines that the line buffer makes of what
the modem prints, answers each command on its oneshot channel, and passes incoming
messages, delivery reports and changes of status to the receiver task over the main
channel. Senders and the receiver task write to the database and broadcast events.

What must hold of each part:

* *Worker and state machine.* No accepted command is lost, executed twice, answered
  twice, answered before it is written to the modem, or left unanswered for ever;
  commands are executed in order, one at a time, and only online. Online means that the modem
  took its set-up, and a modem that answers gets there.
* *Link.* A command gets its own answer; a PDU goes only to a modem that expects one.
* *Line buffer.* The events depend on the bytes, not on how they were cut into reads.
* *Receiver.* A multipart message is passed on once, whole and in order.
* *Store.* A row says what was sent, and a delivery report changes its own message only.
* *Pages.* A client that reads a list page by page gets all of it.
* *Events.* Every receiver that asked for an event gets it, in order and once.

The hazards behind these, each at its line, are in `PROJECT.json`.

## Modules

| Module | Models | How |
|---|---|---|
| `ModemProtocol` | `commands.rs`, `types.rs`, `handlers.rs` | requests, lines, phases, responses: the vocabulary, no state |
| `ModemStateMachine` | `state_machine.rs` | operators for the methods the worker calls; `TransitionState` is a disjunction of the arms of `transition_state` |
| `ModemWorker` | `worker.rs`, `sender.rs` | one action for each branch of the loop and each outcome of `send_request`; an **arbitrary** modem |
| `CommandService` | what callers are promised | the abstract specification of a queue with one command in execution |
| `ModemLink` | `ModemWorker` with a real modem | answers, PDU entry, lines in transit, power cycles |
| `ModemDialogue` | `ModemWorker` with `test_connection` and `initialize_modem` | the commands of the set-up and their answers, the port between dialogues, the power pin |
| `LineBuffer` | `buffer.rs` | `process_data` on byte classes, against a definition on the whole stream |
| `SmsReceiver` | `SMSReceiver`, `multipart.rs` | the receiver task, the cleanup task, the network |
| `SmsStore` | `SMSManager::send_sms`, `handle_delivery_report`, `database.rs` | one action for each `await`, each of which may fail |
| `SmsPages` | the list queries of `database.rs` and their routes | a page as the rows with positions in a range; the client of `docs/http.md` |
| `EventFanout` | `events.rs`, `webhooks.rs`, `websocket.rs` | broadcasting tasks, the webhook worker, the tasks of a connection |
| `...Proofs` | | theorems about `ModemWorker`, `ModemDialogue`, `ModemLink`, `LineBuffer`, `SmsReceiver`, `SmsStore`, `SmsPages` and `EventFanout` |
| `MC...` | | constants of the instances |

### ModemWorker

`state` is `StateMachineState`, `slot[c]` the oneshot channel of a command, `caller[c]`
the progress of its `send_request`, `queue` the command channel, `events` the worker
event channel, and `main_tx` what the latest step has sent to the receiver task. `pc` is the
place in the loop: `init`, `select` (at the `select!` of the arm for the status),
`drain`, `reject` and `sleep` (the shutdown). `lines` and `partial` say what a read has brought: that many
complete lines, to be processed before the next `select!`, and half a line in the buffer.
A line is any member of `Lines`, so that everything proved or checked of `ModemWorker`
holds with a modem that prints anything at any time. The select is biased: `PortTurn`
is the guard "no worker event is waiting", and `StartNext` moreover requires that the
state machine is idle, as `can_accept_command` does.

An invalid transition is an error that `process_event` returns *after* it has taken the
state, so that the interrupted command is dropped with it; the worker then finds
nothing to fail. The `OutgoingCommand` that is dropped closes the channel (`Dropped`).
A command is numbered by the call it comes from; `Values` abstracts results, `Malformed`
a result that the parser rejects.

### ModemLink

`to_modem` and `from_modem` are the two directions of the line and `modem` is the mode
of the modem. It is the environment of `ModemWorker`: each of its actions conjoins an action of the
worker with what it does to the line. `Values = Commands`: an answer carries the
command it answers, which the worker cannot see but the properties can. A timeout that
clears the buffer in the middle of a line leaves the other half to be read as a line.

`Reinitialize` leaves the line empty when the worker goes online: the set-up that was in step, of which
`ModemDialogue` shows that it leaves no answer behind.

### ModemDialogue

`ModemWorker` has one step, `Initialize` or `Reconnect`, for a dialogue with the modem. `ModemDialogue` takes it apart:
`script` is what the dialogue has yet to get through, `response` what `read_response_until_ok`
has read, and `Return` is the step of `ModemWorker` that the end of the dialogue amounts to. While `Talking`, the loop does not run,
and only callers and the modem act: `InLoop` conjoins that to the steps of `ModemWorker`.
`from_modem` is the *set* of what the unread answers contain, because that is all the code
looks at: `contains("OK\r\n")`, `contains("ERROR")`, `contains("+CPMS:")`. One read takes all of it, and
possibly a piece of the next line, which is lost with the answer it belongs to. An answer that comes after its time limit stays in the port, and
a command that was sent stays with the modem, unless the power is switched or the port hung up. `powered` starts either
way; the pin is *toggled*, so that a failed test may switch a modem off.

`behind` and `flawed` are histories that no action reads: how many commands had no answer when the present set-up began,
and whether the modem has refused or lost one since. `responsive` is the promise of
the environment from some moment on: the modem answers everything, in time, with OK.

### LineBuffer

Bytes are classes: the line end, the prompt sign, the blank, any other. `received` is the history of the
stream since the last `clear`; `EventsOf` says what the stream means. `EventsOfStream` compares the two
for streams without overflow; `DamageConfined` says that an overflow spoils no line but its own. Excluded by
`PlainFrom`: two prompts on one line with a blank between them, where the code's events do
depend on the end of a read. No modem prints that.

### SmsReceiver and SmsStore

The receiver task is sequential, so `HandleIncomingSms` takes the map's lock once and
completes; what is interleaved is the network, the cleanup task and the two halves of a
message (compiled, stored). `SmsStore` has a sender for each message, the receiver
at one of its three statements, and the tables. `References` is 256 in the code, and small in the
run, so that a reference is used again within a few messages. Reports carry the part they are about,
as a history that no action reads. `Regular(m)` says of a message that its parts are numbered as they should be
and that no other message has its number and reference: of such messages alone can one say how often they are compiled.

### SmsPages

A list is a set of rows or numbers with an order, and the position of an item the number of items before it: `Page` is
`LIMIT` and `OFFSET` on positions. The client is the loop of `docs/http.md:66`. `created_at` is
any of `Times` for each new row: the clock has a resolution of a second and can be set back. SQL does not say how
rows with equal times are ordered; SQLite plans the pages of a list alike (they differ
in the offset alone), so `ties` is one of two orders and stays.

### EventFanout

A broadcast queues the event for the webhooks, then visits the connections one by one in any order:
`retain` locks one shard of the map at a time. `job` is what the webhook worker is at: the event, the webhooks that are waiting for
a permit, and those whose request is running. A webhook's events are a set, so that a configuration that lists a kind twice, which would have each
event posted twice, is left out. A connection has
a channel, its pings, its writer and its reader. The ends of the tasks are separate actions, and so is
the removal, which the handler and a broadcast may both attempt. Dropping a
`JoinHandle` does not stop its task; the model stops none.

The end of a client is of two kinds. `Leave` is one the server is told of: a close, or a reset. `Lose` is one it is not told of, as
when the client's network goes down. The reader is a bare `receiver.next().await` (`websocket.rs:109`), the server sends no pings
of its own, and its sockets have no keepalive, so that a lost client stays in the map with both its tasks
as long as nothing is written to it. Once something is (`doubted`), TCP sends it again until it gives up (`GiveUp`), and
reads and writes fail from then on as they do for a client that has left. What was on its way when the client was lost is there
from the beginning, which is why `Lose` may lead to either state.

## Runs

Each finishes within two minutes on two cores.

| Run | Instance | Shows |
|---|---|---|
| `worker_safety` | 2 messages, 1 query, capacity 2, reads of up to 2 lines; 452,812 states | type, control, conservation, no line before the write, channels closed for one reason only, announced statuses, clean start, and that the worker implements `CommandService` |
| `worker_liveness` | 1 message, 1 query; 25,873 states | every accepted command is settled |
| `link_safety` | 2 messages, 1 query, 1 unsolicited message, `Values = Commands`; 1.6 million states up to the symmetry of the messages | an answer is given once, and only to another command when its own missed it; no PDU outside PDU entry |
| `line_buffer` | a limit of 3 bytes, streams of 8; 141,277 states | the events do not depend on the reads |
| `sms_receiver` | 5 messages: split in parts, two that share a reference, one without header, one that announces no part; 641,037 states | whole, ordered, single messages, against stalls and cleanup |
| `sms_store` | 2 messages of 1 and 2 parts, 2 references, 2 reports for each part; 2.7 million states | rows and reports agree although any statement may fail |
| `dialogue` | 1 message, a power pin that is toggled, a modem that keeps 2 commands; 170,876 states | online at most one answer behind; set up in step means set up; a modem that answers gets online; commands that wait for a dialogue are settled |
| `sms_pages` | 4 messages of 3 numbers at 2 times, pages of 1 or 2, either order; 1.9 million states | what a client may miss of a list that grows while it reads |
| `event_fanout` | 2 tasks, 4 events, 3 webhooks of which 2 at once, 1 client that filters; 79,117 states | order, completeness, removal, no client left behind that has gone, or was lost and is written to |
| `own_reference` | violation | see Findings |
| `report_race` | violation | see Findings |
| `reestablished` | no command, GNSS, no power pin; violation | see Findings |

**Why the bounds are enough.** *Worker:* a command interacts with the one executed before it, the
one behind it in the queue, and one that finds the queue full: three commands with
capacity 2 have every such meeting, and the two kinds of command that the state machine
tells apart (with a prompt and with a data line). Two lines in a read are one that ends a
command and one that comes after it. The theorems hold without the bounds. *Link:* one unsolicited
message interrupts a command; that a second interrupts the first is in `worker_safety`, whose modem prints
anything. *Buffer:* with a limit of 3, eight bytes have two
overlong lines, a prompt followed by text, and a cut at every place. *Receiver:* two
messages that share a key are all that a key can tell apart from one.
*Dialogue:* two commands outstanding are the one given up and the one sent after it; what is different with seven, the theorem
`OneAnswerBehind` says. One message is enough to wait: the dialogue never looks at the queue. `reestablished` needs no command at all. *Pages:* with three numbers one moves, one
is passed and one is behind; the fourth message is the one that comes in between.
*Store:* three accepted parts with two references use one of them twice. *Events:* nothing
relates two connections but the order in which a broadcast visits them, so that one is enough; the client wants three events of one
task, so that one between two could be missing; three webhooks at a limit of two have one waiting.

`CHECK_DEADLOCK FALSE` stands where the bounds stop the environment: no more messages to send, unsolicited
messages to print or parts to deliver.

**Variants.** An operator whose comment starts with "Variant" is a
definition of the code with a mistake it could have had. No action uses it; put in the
place of the definition that follows it, the property it names is violated. They show
that each property says something about the code.

## Fairness

*Worker* (`FairSpec` of `ModemWorker`). `WF_vars(Loop)`: the task is scheduled, and a branch of the
loop that stays ready is taken. `SF_vars(CommandTimeout)`: in the biased select the timer is polled
after the port; a serial line is not readable at every poll, so a timer
that is due again and again is taken. Reads, failures of the port, reconnections and callers are not fair: the
modem may stay silent or gone for ever. `MessagesComplete`: the modem completes the unsolicited messages it starts.
Without that assumption liveness fails: while a body is awaited no timeout applies
(`state_machine.rs:178`), and a modem that prints a header and nothing more holds the queue for ever.
It is an assumption about the modem, not about the code.

*Dialogue* (`DialogueFairSpec` of `ModemDialogue`). The same for the loop, and: `SF(Begin)`, because the select of the
Offline arm is not biased and its interval ticks for ever, so that neither worker events nor commands to
reject keep the reconnection from being tried; `WF(Hear)` and `WF(AnswerOverdue)`, a read and a time limit of
the running dialogue; `WF(responsive /\ Accept)`, the promise of a modem that is back. A modem that is not `responsive` owes nothing,
and nothing makes it so.

*Events.* Tasks are scheduled; a request to a webhook ends within its timeout of ten seconds
(`webhooks.rs:16`); the select of the writer is not biased, so that each of its branches that stays
ready is taken. `WF(ReaderStops)`: the reader is told of a client that has closed or was reset, or that TCP has given up; and
`WF(GiveUp)`: TCP gives up a connection that acknowledges nothing, as its number of retransmissions is
limited. Nothing is assumed that would find out a client that is lost and sent nothing, and TLC finds that `GoneIsForgotten` does not hold of
such a client. Clients are not fair: they connect, ping, leave and are lost as they like.

## Proofs

Every theorem holds for all values of the constants that satisfy the named assumptions beside
their declarations: that functions have their domains, bounds are numbers, and null values are none of the real ones.

### The worker

`ModemWorkerProofs` proves of `Spec`, for any set of commands, any assignment of requests
to them, any values, capacity and read size:

| Theorem | Says |
|---|---|
| `TypeCorrect` | `[]TypeOK` |
| `ControlInvariant`, `LoopStaysInControl` | `[](LoopControl /\ ExecutesOnlyOnline)` |
| `ImplementsService` | `ServiceSpec`, the refinement of `CommandService` |
| `Conservation` | `[]CommandConservation` |
| `WriteFirst` | `[]WriteBeforeAnyAnswer` |
| `ClosedOnly` | `ClosedOnlyByInvalidTransition` |
| `StatusIsAnnounced` | `StatusAnnounced` |
| `StartsClean` | `CleanStart` |

*The argument.* The lemmas of the first part reduce every line to what it means for the
commands: `LineEffect`, the disjunction of "nothing is settled" (`Keeps`) and "the active
command is settled and gone" (`Settles`). One lemma for each arm of `TransitionState` shows it, so that
no later proof opens the state machine again. `TypeOK` is inductive by itself.
`LoopControl` is inductive with it: the status and the step of the loop are changed by the same actions.
`ExecutesOnlyOnline` needs both: it is what makes the `reset_to_idle` of an outage and of a reconnection
find nothing, so that neither drops a command. Their conjunction, `Control`, is the invariant under which
each step of the worker is a step of `CommandService` or a stutter, with
`pending <- queue` and `current <- Active`: without it, `GoOffline` and
`Reconnect` would settle a command in the same step in which they do something else. `Conservation` then
follows from the *abstract* steps: the lemma `ConservationNext` is about the steps of `CommandService`
and never looks at a line. `WriteBeforeAnyAnswer` is inductive with `Control`; it is the biased select that
keeps it, as every action of the port has the guard that no worker event waits.

`StatusAnnounced` is a property of single steps, from `Control` alone: which status a step
can set depends on where the loop is. `CleanStart` needs one more conjunct, `Fresh`: until the start-up is over nothing
has touched the state machine or the buffer, so that `initialize_and_run`, which resets neither,
comes online as clean as a reconnection, which does.

### The dialogues

`ModemDialogueProofs` proves of `DialogueSpec`, with or without GNSS and power pin and for any `Backlog`:

| Theorem | Says |
|---|---|
| `ImplementsWorker` | `Spec`: the worker with its dialogues taken apart is the worker of `ModemWorker` |
| `DialogueImplementsService` | `ServiceSpec`, by transitivity |
| `DialogueExecutesOnlyOnline` | `[](LoopControl /\ ExecutesOnlyOnline)` |
| `DialogueTypeCorrect` | `[]DialogueTypeOK` |
| `InStepConfigured` | `InStepMeansConfigured` |
| `OneAnswerBehind` | `OnlyOneAnswerBehind` |

*The argument.* The variables of `ModemWorker` are among those of `ModemDialogue`, so the mapping is
the identity; a dialogue's last step is `Initialize` or `Reconnect` (`ReturnIsStep`), every other
step of it leaves `vars` alone, and the steps between dialogues are steps of `ModemWorker`
with one more guard. All theorems about `Spec` therefore hold of `DialogueSpec`. What
`InStepMeansConfigured` needs is what the answers amount to at any moment of a set-up that began in step (`InStep`): nothing
is outstanding but the answer to the last command, which is untaken (`Unanswered`), half printed (`HalfAnswered`, AT+CPMS
alone) or complete (`Answered`), as long as the modem took every command; and once it lost or refused
one (`Spoilt`), no OK will come and the dialogue ends in failure. `ScriptOK`
keeps the test, whose success counts for nothing, at the front. Conversely, an answer left from before the set-up breaks
`Unanswered` at once, which is what the run `reestablished` shows.

`OneAnswerBehind` is about the set-ups that are *not* in step. Its invariant (`Lag`) says where the AT+CPMS commands that the modem has not
answered can be, since that command is recognised by what is printed for it. While the set-up has `Passed` fewer than
six of its own commands, each unanswered AT+CPMS is of an earlier set-up, and at most `behind - Passed` places from the front, one less if
an answer is waiting to be read: every command that passes does so at the expense of an answer. When the set-up sends its own AT+CPMS, the seventh
command, none of the older ones is left if `behind < 7`, so that "+CPMS:" is heard only when everything before it is answered; what
follows can then be at most one answer behind. The bound of seven is not an artefact: with more
commands outstanding an older AT+CPMS is answered in its turn, and the worker comes online as far behind as it began. TLC finds that
with `Backlog = 10`. It takes seven commands that each outlasted its time limit and that the modem answers all the same.

### The line

`ModemLinkProofs` proves of `LinkSpec`, for any commands, announcements and reads:

| Theorem | Says |
|---|---|
| `LinkTypeCorrect` | `[]LinkTypeOK` |
| `LinkImplementsService` | `ServiceSpec`, with the modem in the picture |
| `PduGoesToItsPrompt` | `[]PduOnlyInPduEntry` |
| `StrayAnswersWereMissed` | `[]OnlyMissedAnswersStray` |

*The argument.* Each action of `LinkSpec` contains one of `ModemWorker`, so the invariants of the worker hold and are cited
(`WorkerInv`). `LineInv` adds that the lines the worker has been promised, half a line included, are there. Under it each
step of the worker is one of `CommandService`, and a step of the modem leaves the variables of that service alone. This is proved of `LinkSpec` and
not by way of `Spec`, which `LinkSpec` does not imply: a step of the modem clears `main_tx`, which holds what the last step announced and nothing else. For the PDUs
(`PduInv`), the right to send one is a token: at any time it is one prompt on the line, one event that writes a PDU, one
PDU on its way to the modem, or none of these, and there is none once the modem is in command mode; the exception, a prompt that
an outage has overtaken, is read by nobody. For the answers (`AnswerInv`), an answer too is in one place: asked for, on its way, with the
modem, on the line, found, given; while it is under way its command is executed or settled already.
The property says no more than that. That an answer goes to another command only if its own was *given up* would be wrong: with three queries of the same
kind, a timeout of the first shifts all answers by one, and the third gets that of the second, which nobody gave up: it had been settled with
the first one's.

### The line buffer

`LineBufferProofs` proves of `Spec`, for every size of the buffer, every stream and every division of it into reads:

| Theorem | Says |
|---|---|
| `LineBufferTypeCorrect` | `[]TypeOK` of `LineBuffer` |
| `FindsEventsOfStream` | `[]EventsOfStream` |
| `ConfinesDamage` | `[]DamageConfined` |

*The argument.* `EventsOfStream` says nothing of the unfinished line, so it is not inductive. `StreamInv`, which is, says what the buffer holds:
from each beginning of a line on since which the stream has been plain, what was reported ends with the events of that part (`Follows`), and the
buffer is the text since the last prompt, but for the blanks that came in one read with it (`Matches`). That it speaks of *every*
such beginning is what makes it imply both properties: the first line gives `EventsOfStream`, the last one `DamageConfined`. TLC checked
`StreamInv` on a small instance before it was proved. A read is then a sequence of single bytes (`Scan`), of which each keeps `Follows`. Scanning
the kept line again finds nothing in it (`ScannedQuiet`), so that a read may begin with what the last one left, and in a plain stream
the truncation cuts nothing (`LineFits`). This is what allows `ModemWorker` to read whole lines.

`Scanned` and `FlattenSeq` are folds over the bytes, and the induction theorems of the library take an operator, which no installed
prover can instantiate. The proofs use the least counterexample instead: a *set* of numbers that has 0, and with
each number the next, has all of them (`InductiveSet`), since a well-founded set of counterexamples has a least element (`WFMin`). A set
needs no operator as a parameter, and `SeqInduction` turns it into one over sequences.

### Receiver, store, pages, events

| Theorem | Says |
|---|---|
| `ReceiverTypeCorrect` | `[]TypeOK` of `SmsReceiver` |
| `CountsFilledSlots` | `[]CountIsRight` |
| `CompilesInPlace` | `[]EachPartInItsPlace` |
| `DuplicatesDoNotMultiply` | `[]NoMoreOftenThanReceived` |
| `CompilesWholeMessages` | `[]WholeMessageCompiled` |
| `KeepsPartsThatCame` | `RemovedOnlyIfStalled` |
| `StoreTypeCorrect` | `[]TypeOK` of `SmsStore` |
| `StoresOnlyIfSent` | `[]StoredOnlyIfSent` |
| `EnteredForTheRightMessage` | `[]RightMessage` |
| `StatusIsBacked` | `[]StatusHasItsReport` |
| `CompletedOnce` | `FinalStatusSticks` |
| `NoMessageIsMissed` | `[]NoMessageMissed` of `SmsPages` |
| `MissesActiveNumbersOnly` | `[]OnlyActiveNumbersMissed` |
| `FanoutTypeCorrect` | `[]TypeOK` of `EventFanout` |
| `PostsInOrder` | `[]PostedInOrder` |
| `ClientsReceiveInOrder` | `[]ReceivedInOrder` |
| `RemovesOnlyWhatIsOver` | `RemovedOnlyWhenOver` |
| `StaysConnected` | a connection is in the map with both tasks running until its client is gone, lost or not |

*Receiver* (`SmsReceiverProofs`, for any headers, parts and number of deliveries). `ReceiverInv` relates the map to the histories:
a group counts its filled slots and holds texts of its key in their slots (`GroupsInv`). Of a regular message (`PartsKept`), the compilations and the copy
of a part in the map are together no more than the times the part came, so that neither a part that comes twice nor a group that is cleaned up
makes a message come twice; and as long as no cleanup took a group of its key, a part that came is in the map or the message was compiled, which gives
`CompilesWholeMessages`: a group with all its parts is complete, and no complete group stays.

*Store* (`SmsStoreProofs`, for any messages, parts and number of references). `StoreInv` follows a message through the statements of `send_sms`: what its sender
knows (`SenderKnows`), which rows there are (`RowsAreSent`: one for each sender past its insertion, with the reference the modem gave the
last part); and a report through those of `handle_delivery_report`: it is of a part the modem accepted (`ReportsAreGenuine`), the row found fits it (`ReportsFit`),
and when the status is set the report is in the table (`UpdateIsEntered`). `CompletedOnce` needs that the receiver is one task: nobody else
sets the status of a row between its two statements.

*Pages* (`SmsPagesProofs`, for any numbers, times, page sizes and messages). The invariant (`PagesInv`): whatever was in the list at the
beginning has been read, or is excused, or stands at a position the client has not reached. Positions are numbers of items in
front, so the lemmas about finite total orders come first: an item that is inserted moves others back or leaves them
(`PlaceIncreases`), a page covers the positions it asks for (`WindowIsFull`), and the positions of a list have no gap
(`PlacesWithoutGap`), so that a page that is not full is the last.

*Events* (`EventFanoutProofs`, for any tasks, programs, webhooks, limits and connections). `WebhooksInv` says for each
webhook that what was posted and what is still to be posted are in order: the queue holds the events of each task in the order of its
broadcasts, and what was posted comes before what is waiting. `StreamInv` says that what a client has received comes before what its channel holds,
and that from its first event of a task on the two together have every wanted event of the broadcasts that have visited it. `LifeInv` ties the map to
the tasks of a connection: until the client is gone it is in the map and both run, which is `StaysConnected`. Of a client
that stays this says that nothing throws it out; of one that is lost, that no step of the server finds it out.

### What is only model-checked

Liveness: `AcceptedIsSettled`, `InStepGoesOnline`, `EveryEventPosted`, `GoneIsForgotten`. TLAPS has no rules for fairness
and `ENABLED` here.

## Findings

* **Own reference** (`own_reference`). The late answer of a message that timed out is
  collected with that of the next one, which waits for its prompt meanwhile and is completed by its own OK. The parser
  takes the first `+CMGS` line (`parsers.rs:5`), so that the message is stored under a reference that is not its own. `link_safety` shows the
  limits: this happens only to an answer that its own command has missed.
* **Report race** (`report_race`). A report that is handled before its message is inserted finds no
  row and is dropped, for a single message, where the comment (`sms/mod.rs:149`) expects trouble after 255.
* **Re-established** (`reestablished`). After one answer that came too late, the port holds it when the next
  dialogue begins, and each command is judged by the answer of the one before it. All of them expect OK but `AT+CPMS`, so the set-up
  fails there, and leaves the port as it found it. A modem that answers every command is
  not seen online again (`docs/events.md:87`), unless a read happens to take two answers at once, or the power pin is
  toggled. `InStepGoesOnline` shows the other side: from an empty port it does go online.

Observations that no run states:

* `state_machine.rs:373` calls the final result codes "command completion indicators", but a command that waits for its
  prompt is not completed by them (`commands.rs:36`): when the modem refuses `AT+CMGS`, the queue waits for the timeout.
* For a message the modem refused, `send_sms` returns neither an id nor an error, and the route replies "Message sent
  but no message ID returned" (`routes.rs:312`). The branch of `send_sms` that would store a send failure is
  never reached (`sms/mod.rs:56`), although `docs/events.md:38` lists the failures among the statuses a sent message may start with.
* A WebSocket client that is lost without notice stays in the map, with two tasks and a channel, until an event of its filter
  is broadcast (`websocket.rs:109`); one that asked for rare events may stay for as long as the server runs.
* `docs/http.md` says that each pagination field is optional; an offset without a limit makes `OFFSET` follow
  `ORDER BY`, which is no SQL (`database.rs:28`), and the request fails.
* With `reverse`, a number that moves to the end of the latest numbers makes the list close up, and a client that reads
  it in pages misses numbers that had no message. `OnlyActiveNumbersMissed` is therefore about the newest first.
* The reconnect interval is not polled while the worker is online (`worker.rs:109`), and makes up for the ticks it missed: after an
  outage, attempts follow each other without a pause. In the model they may come at any time.
* The port is opened once (`modem/mod.rs:41`): a device that is unplugged stays offline however often the worker tries.

## Not modelled

* Formats: AT parameters, PDUs, results, JSON, SQL text, configuration. A parser succeeds or fails. That
  `add_message` removes a trailing `@` from a part is one of these.
* Friendly names, and encryption: single statements and pure functions.
* Routes other than those of the lists, authentication, OpenAPI: they pass on one call and format its result.
* Seconds: time limits expire at any time after they start, and intervals tick at any time.
* What a modem left in PDU entry does with the `AT` of a dialogue: `ModemLink` has PDU entry, `ModemDialogue` has none.
* A crash: the program keeps nothing it could recover from but the tables, and no code does. The unfinished messages of
  `sms/mod.rs` are in memory alone, and a restart loses their parts.
* The set-up of the webhook client, whose failure ends the worker with a panic.
* Supervision (`AppHandles::run`), see below.
* The example programs.

## Plan

Done: the core (`ModemProtocol`, `ModemStateMachine`, `ModemWorker`, `CommandService`) with its
proofs, then `ModemLink`, `LineBuffer`, `SmsReceiver`, `SmsStore`, `EventFanout`, `ModemDialogue`, `SmsPages`, and the
proofs about all of them. Next, in this order:

1. `AppTasks`: the tasks of `app.rs`, the channels between them, and the end of the
   program with the first task that ends. The comment at `app.rs:95` says that dropped handles
   are cancelled, which dropping a `JoinHandle` does not do.
2. The two clocks of a command: the deadline of the caller (`sender.rs:117`) and that of the state machine,
   which starts with the execution: how late an answer can be of use.
3. The main channel: `ModemWorker` composed with `SmsReceiver` and `SmsStore`, so that `SmsStore`'s
   external modem is the worker, with `CommandService` in its place.
