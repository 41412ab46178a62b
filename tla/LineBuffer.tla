------------------------------ MODULE LineBuffer ------------------------------
(***************************************************************************)
(* modem/buffer.rs: cutting the bytes read from the port into lines and    *)
(* prompts.  A read returns any number of bytes, so a line may come in     *)
(* pieces and several lines in one.                                        *)
(*                                                                         *)
(* A byte is a line end ("nl", for CR and LF), a prompt sign ("gt"), a     *)
(* blank ("sp") or any other ("x").                                        *)
(***************************************************************************)
EXTENDS Naturals, Sequences, SequencesExt

CONSTANTS
    MaxBufferSize,   \* config.line_buffer_size
    MaxReceived      \* bound: bytes received between two calls of clear

ASSUME MaxBufferSizeAssumption == MaxBufferSize \in Nat \ {0}
ASSUME MaxReceivedAssumption == MaxReceived \in Nat

VARIABLES
    buffer,     \* the unfinished line
    received,   \* history: every byte since the last clear
    out         \* history: every LineEvent since the last clear

vars == <<buffer, received, out>>

Bytes == {"nl", "gt", "sp", "x"}

Line(content) == [type |-> "Line", content |-> content]
Prompt == [type |-> "Prompt", content |-> <<"gt">>]

Init == buffer = <<>> /\ received = <<>> /\ out = <<>>

-----------------------------------------------------------------------------
(***************************************************************************)
(* process_data.  The scan keeps the events found, the bytes since the     *)
(* last of them (buffer[start..i]) and whether it is in the blanks after a *)
(* prompt.                                                                 *)
(***************************************************************************)

\* try_create_event on a line: its content without the blanks around it, or
\* nothing if it is blank.
Solid(bytes) == {i \in 1..Len(bytes) : bytes[i] # "sp"}
LineEvents(bytes) ==
    IF Solid(bytes) = {} THEN <<>>
    ELSE <<Line(SubSeq(bytes, Min(Solid(bytes)), Max(Solid(bytes))))>>

\* Variant (EventsOfStream): a prompt sign is a prompt wherever it stands.
ScanPromptAnywhere(scan, byte) ==
    CASE byte = "nl" ->
            [events |-> scan.events \o LineEvents(scan.line), line |-> <<>>, prompted |-> FALSE]
      [] byte = "gt" ->
            [events |-> Append(scan.events, Prompt), line |-> <<>>, prompted |-> TRUE]
      [] byte = "sp" /\ scan.prompted -> scan
      [] OTHER -> [scan EXCEPT !.line = Append(@, byte), !.prompted = FALSE]

Scan(scan, byte) ==
    CASE byte = "nl" ->
            [events |-> scan.events \o LineEvents(scan.line), line |-> <<>>, prompted |-> FALSE]
      [] byte = "gt" /\ scan.line = <<>> ->
            [events |-> Append(scan.events, Prompt), line |-> <<>>, prompted |-> TRUE]
      [] byte = "sp" /\ scan.prompted -> scan
      [] OTHER -> [scan EXCEPT !.line = Append(@, byte), !.prompted = FALSE]

Fresh == [events |-> <<>>, line |-> <<>>, prompted |-> FALSE]

Scanned(bytes) ==
    LET scan[i \in 0..Len(bytes)] ==
            IF i = 0 THEN Fresh ELSE Scan(scan[i - 1], bytes[i])
    IN  scan[Len(bytes)]

\* Variant (TypeOK): one byte too many is kept.
KeepOneMore(line) ==
    IF Len(line) > MaxBufferSize
    THEN SubSeq(line, Len(line) - MaxBufferSize, Len(line)) ELSE line

\* The truncation of an overlong unfinished line.  No newline is left in it, so
\* the search for one (rposition) never moves the cut.
Keep(line) ==
    IF Len(line) > MaxBufferSize
    THEN SubSeq(line, Len(line) - MaxBufferSize + 1, Len(line)) ELSE line

\* Variant (DamageConfined): the truncation comes before the scan.
ProcessDataTruncatingFirst(data) ==
    LET scan == Scanned(Keep(buffer \o data))
    IN  /\ buffer' = scan.line
        /\ out' = out \o scan.events
        /\ received' = received \o data

ProcessData(data) ==
    LET scan == Scanned(buffer \o data)
    IN  /\ buffer' = Keep(scan.line)
        /\ out' = out \o scan.events
        /\ received' = received \o data

\* A read that returns some bytes.
Read ==
    \E n \in 1..(MaxReceived - Len(received)) :
        \E data \in [1..n -> Bytes] : ProcessData(data)

\* clear, after a command timeout, a shutdown or an outage
Clear ==
    /\ received # <<>>
    /\ buffer' = <<>>
    /\ received' = <<>>
    /\ out' = <<>>

Next == Read \/ Clear

Spec == Init /\ [][Next]_vars

-----------------------------------------------------------------------------
(***************************************************************************)
(* What a stream of bytes means, whatever pieces it came in: every prompt  *)
(* sign with nothing but prompts before it on its line is a prompt, and    *)
(* what stands between the prompts and the end of the line is its text.    *)
(***************************************************************************)
LineStart(s, i) == Max({0} \cup {j \in 1..(i - 1) : s[j] = "nl"}) + 1

IsPromptAt(s, i) ==
    /\ s[i] = "gt"
    /\ s[LineStart(s, i)] = "gt"
    /\ \A j \in LineStart(s, i)..i : s[j] \in {"gt", "sp"}

TextBefore(s, i) ==
    LET prompts == {j \in LineStart(s, i)..(i - 1) : IsPromptAt(s, j)}
    IN  SubSeq(s, Max({LineStart(s, i) - 1} \cup prompts) + 1, i - 1)

EventsAt(s, i) ==
    IF s[i] = "nl" THEN LineEvents(TextBefore(s, i))
    ELSE IF IsPromptAt(s, i) THEN <<Prompt>> ELSE <<>>

EventsOf(s) == FlattenSeq([i \in 1..Len(s) |-> EventsAt(s, i)])

\* The stream from a position on is plain: no text overflows the buffer, and no
\* two prompts on a line have a blank between them.  (A read that ends in such a
\* blank gives the line a blank to start with, and its next prompt is none.)
PlainFrom(s, from) ==
    \A i \in from..(Len(s) + 1) :
        /\ i - LineStart(s, i) <= MaxBufferSize
        /\ i > from + 1 /\ i <= Len(s) /\ IsPromptAt(s, i) => s[i - 1] # "sp"

-----------------------------------------------------------------------------
(***************************************************************************)
(* Properties.                                                             *)
(***************************************************************************)

\* The buffer never grows past its limit and never holds a line end: the search
\* for one in the truncation of process_data finds none.
TypeOK ==
    /\ buffer \in Seq(Bytes \ {"nl"}) /\ Len(buffer) <= MaxBufferSize
    /\ received \in Seq(Bytes) /\ Len(received) <= MaxReceived
    /\ out \in Seq({Prompt} \cup [type : {"Line"}, content : Seq(Bytes \ {"nl"})])

\* The events do not depend on how the stream was cut into reads: each line and
\* each prompt is reported once, complete and in order.
EventsOfStream == PlainFrom(received, 1) => out = EventsOf(received)

\* An overlong or odd line spoils no other: whatever came before the last line,
\* its own events are right (the truncation of process_data).
DamageConfined ==
    LET n    == Len(received)
        from == IF n > 0 /\ received[n] = "nl" THEN LineStart(received, n)
                ELSE LineStart(received, n + 1)
        last == SubSeq(received, from, n)
    IN  PlainFrom(received, from) => IsSuffix(EventsOf(last), out)
=============================================================================
