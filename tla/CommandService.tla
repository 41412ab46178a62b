--------------------------- MODULE CommandService ----------------------------
(***************************************************************************)
(* What the modem worker promises to the callers of send_request, without  *)
(* the modem, the lines or the status: commands are executed one at a      *)
(* time, in the order in which they were accepted; while one is executed   *)
(* no other is settled; every accepted command is settled exactly once,    *)
(* and a caller that gives up leaves its command to be executed.           *)
(*                                                                         *)
(* ModemWorker.tla is shown to implement this specification.               *)
(***************************************************************************)
EXTENDS Naturals, Sequences

CONSTANTS
    Commands,   \* the send_request calls of a behaviour
    NoCommand,  \* "no command"
    Results,    \* what a command that is executed may yield
    Failure,    \* the answer to one that fails, or is never executed
    Empty,      \* a channel that has not been used
    Dropped,    \* a channel that was closed without a response
    Capacity    \* how many accepted commands may wait

VARIABLES
    pending,    \* accepted commands that wait for their turn
    current,    \* the command being executed, or NoCommand
    slot,       \* slot[c]: the response to c
    caller      \* caller[c]: how far the call has come

vars == <<pending, current, slot, caller>>

Init ==
    /\ pending = <<>>
    /\ current = NoCommand
    /\ slot = [c \in Commands |-> Empty]
    /\ caller = [c \in Commands |-> "New"]

\* A call is accepted, or refused when too many wait.
Accept(c) ==
    /\ caller[c] = "New"
    /\ Len(pending) < Capacity
    /\ pending' = Append(pending, c)
    /\ caller' = [caller EXCEPT ![c] = "Waiting"]
    /\ UNCHANGED <<current, slot>>

Refuse(c) ==
    /\ caller[c] = "New"
    /\ Len(pending) = Capacity
    /\ caller' = [caller EXCEPT ![c] = "Refused"]
    /\ UNCHANGED <<pending, current, slot>>

\* The caller takes the outcome, or leaves before there is one.
Take(c) ==
    /\ caller[c] = "Waiting"
    /\ slot[c] # Empty
    /\ caller' = [caller EXCEPT ![c] =
                    IF slot[c] = Dropped THEN "Closed" ELSE "Answered"]
    /\ UNCHANGED <<pending, current, slot>>

Leave(c) ==
    /\ caller[c] = "Waiting"
    /\ slot[c] = Empty
    /\ caller' = [caller EXCEPT ![c] = "TimedOut"]
    /\ UNCHANGED <<pending, current, slot>>

\* The oldest command that waits becomes the one being executed.
Begin ==
    /\ current = NoCommand
    /\ pending # <<>>
    /\ current' = Head(pending)
    /\ pending' = Tail(pending)
    /\ UNCHANGED <<slot, caller>>

\* An outcome is for a caller that waits: for one that has left it is lost.
Outcome(c, r) == IF caller[c] = "Waiting" THEN r ELSE Dropped

Finish ==
    /\ current # NoCommand
    /\ \E r \in Results \cup {Failure, Dropped} :
         slot' = [slot EXCEPT ![current] = Outcome(current, r)]
    /\ current' = NoCommand
    /\ UNCHANGED <<pending, caller>>

\* The oldest command that waits fails without being executed, which never
\* overtakes one that is.
Reject ==
    /\ current = NoCommand
    /\ pending # <<>>
    /\ slot' = [slot EXCEPT ![Head(pending)] = Outcome(Head(pending), Failure)]
    /\ pending' = Tail(pending)
    /\ UNCHANGED <<current, caller>>

Next ==
    \/ \E c \in Commands : Accept(c) \/ Refuse(c) \/ Take(c) \/ Leave(c)
    \/ Begin
    \/ Finish
    \/ Reject

Spec == Init /\ [][Next]_vars
=============================================================================
