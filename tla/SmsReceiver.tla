------------------------------ MODULE SmsReceiver ------------------------------
(***************************************************************************)
(* sms/mod.rs (SMSReceiver::handle_incoming_sms, cleanup_stalled_multipart)*)
(* with sms/multipart.rs: incoming messages, and the parts of multipart    *)
(* messages that are collected until the last one is in.                   *)
(*                                                                         *)
(* Two tasks share the map of unfinished messages, under a lock: the one   *)
(* that takes messages from the modem and the one that removes stalled     *)
(* groups.  The network is external: parts come in any order, twice, or    *)
(* not at all, and a sender may use a reference again.                     *)
(***************************************************************************)
EXTENDS Naturals, Sequences, FiniteSets, SequencesExt

CONSTANTS
    Messages,        \* what senders send
    KeyOf,           \* (phone_number, message_reference) of each
    TotalOf,         \* how many parts its headers announce; Single: no header
    PartsOf,         \* the indices its parts carry
    Single,
    NoPart,
    NoMessage,
    MaxDeliveries    \* bound: how often the network delivers a part of each

Keys == {KeyOf[m] : m \in Messages}

ASSUME TotalAssumption == TotalOf \in [Messages -> Nat \cup {Single}] /\ Single \notin Nat
ASSUME PartsAssumption == PartsOf \in [Messages -> SUBSET Nat]
ASSUME DeliveriesAssumption == MaxDeliveries \in [Messages -> Nat]

VARIABLES
    groups,      \* SMSReceiver.multipart: SMSMultipartMessages by key
    storing,     \* the message handle_incoming_sms is inserting
    event,       \* the IncomingMessage event the latest step has broadcast
    delivered,   \* history: how often a part has come
    compiled,    \* history: how often a text of a message was compiled
    abandoned    \* history: keys with a group removed as stalled

vars == <<groups, storing, event, delivered, compiled, abandoned>>

\* The text of a part stands for its message and its index.  That add_message
\* takes a trailing "@" for a separator and removes it is abstracted.
Text(m, i) == [msg |-> m, index |-> i]
Texts == [msg : Messages, index : Nat]

Message(key, content) == [key |-> key, content |-> content]
Holds(message, m) ==
    message # NoMessage /\ \E p \in DOMAIN message.content : message.content[p].msg = m

ASSUME NoPartAssumption == NoPart \notin Texts
ASSUME NoMessageAssumption == NoMessage \notin [key : Keys, content : Seq(Texts)]

\* SMSMultipartMessages::with_capacity, for the first part of a key
WithCapacity(total) ==
    [parts |-> [i \in 1..total |-> NoPart], received_count |-> 0, stalled |-> FALSE]
TotalSize(group) == Len(group.parts)

Filled(group) == {i \in 1..TotalSize(group) : group.parts[i] # NoPart}

Init ==
    /\ groups = <<>>
    /\ storing = NoMessage
    /\ event = <<>>
    /\ delivered = [m \in Messages |-> [i \in PartsOf[m] |-> 0]]
    /\ compiled = [m \in Messages |-> 0]
    /\ abandoned = {}

-----------------------------------------------------------------------------
\* The slot of an index: saturating_sub(1), counted from 1 here.  The indices
\* 0 and 1 share the first slot.
Slot(index) == IF index = 0 THEN 1 ELSE index

\* Variant (EachPartInItsPlace): the parts in the order in which they come.
AddInOrder(group, text) ==
    IF group.received_count < TotalSize(group)
    THEN [group EXCEPT !.parts[group.received_count + 1] = text,
                       !.received_count = @ + 1, !.stalled = FALSE]
    ELSE [group EXCEPT !.stalled = FALSE]

\* Variant (CountIsRight): a part that comes twice is counted twice.
AddTwice(group, text) ==
    IF Slot(text.index) \in 1..TotalSize(group)
    THEN [group EXCEPT !.parts[Slot(text.index)] = text,
                       !.received_count = @ + 1, !.stalled = FALSE]
    ELSE [group EXCEPT !.stalled = FALSE]

\* add_message: an index that is out of range or taken only renews the group.
AddMessage(group, text) ==
    IF /\ Slot(text.index) \in 1..TotalSize(group)
       /\ group.parts[Slot(text.index)] = NoPart
    THEN [group EXCEPT !.parts[Slot(text.index)] = text,
                       !.received_count = @ + 1, !.stalled = FALSE]
    ELSE [group EXCEPT !.stalled = FALSE]

\* Variant (WholeMessageCompiled): one part more than there are.
CompleteWithOneMore(group) == group.received_count > TotalSize(group)

Complete(group) == group.received_count >= TotalSize(group)

\* compile: the texts that are there, in the order of their slots
Compile(key, group) == Message(key, [i \in Filled(group) |-> group.parts[i]])

Without(key) == [k \in DOMAIN groups \ {key} |-> groups[k]]
With(key, group) == [k \in DOMAIN groups \cup {key} |-> IF k = key THEN group ELSE groups[k]]

\* Variant (TypeOK, NoMoreOftenThanReceived): a complete group stays in the map.
GetMultipartKeepingIt(m, i) ==
    LET key   == KeyOf[m]
        group == AddMessage(IF key \in DOMAIN groups THEN groups[key]
                                                     ELSE WithCapacity(TotalOf[m]), Text(m, i))
    IN  /\ groups' = With(key, group)
        /\ storing' = IF Complete(group) THEN Compile(key, group) ELSE NoMessage

\* get_incoming_sms_message for a part of a multipart message, under the lock
GetMultipart(m, i) ==
    LET key   == KeyOf[m]
        group == AddMessage(IF key \in DOMAIN groups THEN groups[key]
                                                     ELSE WithCapacity(TotalOf[m]), Text(m, i))
    IN  IF Complete(group)
        THEN groups' = Without(key) /\ storing' = Compile(key, group)
        ELSE groups' = With(key, group) /\ storing' = NoMessage

\* The receiver task takes the next message from the modem.
HandleIncomingSms(m, i) ==
    /\ storing = NoMessage
    /\ delivered[m][i] < MaxDeliveries[m]
    /\ delivered' = [delivered EXCEPT ![m][i] = @ + 1]
    /\ IF TotalOf[m] = Single
       THEN storing' = Message(KeyOf[m], <<Text(m, i)>>) /\ UNCHANGED groups
       ELSE GetMultipart(m, i)
    /\ compiled' = [o \in Messages |-> compiled[o] + IF Holds(storing', o) THEN 1 ELSE 0]
    /\ event' = <<>>
    /\ UNCHANGED abandoned

\* insert_message returns a row id or fails; the event goes out in either case,
\* without an id in the second.
StoreAndAnnounce ==
    /\ storing # NoMessage
    /\ \E stored \in BOOLEAN :
         event' = <<[message |-> storing, has_id |-> stored]>>
    /\ storing' = NoMessage
    /\ UNCHANGED <<groups, delivered, compiled, abandoned>>

\* Half an hour without a part (last_updated).
Stall(key) ==
    /\ key \in DOMAIN groups
    /\ ~groups[key].stalled
    /\ groups' = [groups EXCEPT ![key].stalled = TRUE]
    /\ event' = <<>>
    /\ UNCHANGED <<storing, delivered, compiled, abandoned>>

\* Variant (RemovedOnlyIfStalled): any stalled group empties the map.
CleanupEverything ==
    /\ \E k \in DOMAIN groups : groups[k].stalled
    /\ groups' = <<>>
    /\ abandoned' = abandoned \cup DOMAIN groups
    /\ event' = <<>>
    /\ UNCHANGED <<storing, delivered, compiled>>

\* The cleanup task removes every stalled group.
CleanupStalledMultipart ==
    LET stalled == {k \in DOMAIN groups : groups[k].stalled}
    IN  /\ stalled # {}
        /\ groups' = [k \in DOMAIN groups \ stalled |-> groups[k]]
        /\ abandoned' = abandoned \cup stalled
        /\ event' = <<>>
        /\ UNCHANGED <<storing, delivered, compiled>>

Next ==
    \/ \E m \in Messages : \E i \in PartsOf[m] : HandleIncomingSms(m, i)
    \/ StoreAndAnnounce
    \/ \E k \in Keys : Stall(k)
    \/ CleanupStalledMultipart

Spec == Init /\ [][Next]_vars

-----------------------------------------------------------------------------
(***************************************************************************)
(* Properties.                                                             *)
(***************************************************************************)
Groups == [parts : Seq(Texts \cup {NoPart}), received_count : Nat, stalled : BOOLEAN]
IsCompiled(message) ==
    message \in [key : Keys, content : [1..Cardinality(DOMAIN message.content) -> Texts]]

\* Every variable keeps its type, and no complete group waits in the map, where
\* only the cleanup would ever take it out.  What is compiled has no gap.
TypeOK ==
    /\ DOMAIN groups \subseteq Keys
    /\ \A k \in DOMAIN groups :
         groups[k] \in Groups /\ groups[k].received_count < TotalSize(groups[k])
    /\ storing # NoMessage => IsCompiled(storing)
    /\ event # <<>> => Len(event) = 1 /\ IsCompiled(event[1].message)
    /\ DOMAIN delivered = Messages
    /\ \A m \in Messages : delivered[m] \in [PartsOf[m] -> 0..MaxDeliveries[m]]
    /\ compiled \in [Messages -> Nat]
    /\ abandoned \subseteq Keys

\* received_count counts the slots that are filled: what add_message answers from
\* it is whether the whole message is there, which compile takes for granted.
CountIsRight ==
    \A k \in DOMAIN groups :
        groups[k].received_count = Cardinality(Filled(groups[k]))

\* A compiled message has each text in the place its header gives it, from a
\* message of that number and reference, whatever the order of arrival.
EachPartInItsPlace ==
    storing # NoMessage => \A p \in DOMAIN storing.content :
        LET text == storing.content[p]
        IN  /\ KeyOf[text.msg] = storing.key
            /\ TotalOf[text.msg] # Single => Slot(text.index) = p

\* The headers of a message say what it is: its reference is its own, and its
\* indices are those of its parts.
Regular(m) ==
    /\ \A o \in Messages \ {m} : KeyOf[o] # KeyOf[m]
    /\ IF TotalOf[m] = Single THEN \E i \in PartsOf[m] : PartsOf[m] = {i}
                              ELSE TotalOf[m] > 0 /\ PartsOf[m] = 1..TotalOf[m]

\* Parts delivered twice do not multiply a message: it is compiled no more often
\* than each of its parts has come.
NoMoreOftenThanReceived ==
    \A m \in Messages :
        Regular(m) => \A i \in PartsOf[m] : compiled[m] <= delivered[m][i]

\* A message all of whose parts have come is compiled, if no cleanup came between
\* them.
WholeMessageCompiled ==
    \A m \in Messages :
        (/\ Regular(m)
         /\ KeyOf[m] \notin abandoned
         /\ \A i \in PartsOf[m] : delivered[m][i] > 0) => compiled[m] > 0

\* A part that has been taken stays until its message is complete or the group
\* has stalled: neither a duplicate nor the cleanup of other groups costs it.
RemovedOnlyIfStalled ==
    [][\A k \in DOMAIN groups :
          \/ k \in DOMAIN groups' /\ \A p \in Filled(groups[k]) :
                                        groups'[k].parts[p] = groups[k].parts[p]
          \/ groups[k].stalled /\ k \in abandoned'
          \/ storing' # storing /\ storing'.key = k]_vars
=============================================================================
