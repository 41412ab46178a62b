------------------------------- MODULE SmsPages -------------------------------
(***************************************************************************)
(* The list queries of sms/database.rs, their routes, and the client of    *)
(* docs/http.md:66, which reads a list in pages of a fixed size until a    *)
(* page is not full.  Each page is a query of its own, an OFFSET into the  *)
(* list as it is at that moment, and messages are stored between two pages.*)
(*                                                                         *)
(* A row is ordered by created_at, a wall clock in seconds that may be set *)
(* back.  SQL leaves the order of rows with equal times open; SQLite plans *)
(* all pages of a list alike, so that it is one of two orders, by row or   *)
(* against it, and stays the same from page to page.                       *)
(*                                                                         *)
(* get_delivery_reports is get_messages with a message id for the number.  *)
(* The friendly name joined to a number is at most one row and changes no  *)
(* page.  What a page holds is a set: its order is that of the list.       *)
(***************************************************************************)
EXTENDS Naturals, Sequences, FiniteSets, FiniteSetsExt

CONSTANTS
    Phones,        \* numbers, in the order of their text
    Times,         \* values of unixepoch()
    Limits,        \* PAGE_SIZE of docs/http.md:71
    MaxMessages,   \* bound: messages in the table
    MaxPages       \* bound: pages a client reads of one list

ASSUME PhonesAssumption == Phones \subseteq Nat
ASSUME TimesAssumption == Times \subseteq Nat
ASSUME LimitsAssumption == Limits \subseteq Nat \ {0}

VARIABLES
    rows,      \* table messages: row ids are positions
    request,   \* what the client asks for
    page,      \* page_index
    got,       \* what the pages read so far held
    begun,     \* history: the list as it was when the client began
    active,    \* history: the numbers with a message stored since
    pc         \* the client: "idle", "reading", "done" or "failed"

client == <<request, page, got, begun, active, pc>>
vars == <<rows, client>>

\* The JSON body without its offset.  ties says which order rows with equal
\* times have.
Requests ==
    [list : {"messages"}, phone : Phones, limit : Limits, reverse : BOOLEAN, ties : BOOLEAN]
        \cup [list : {"numbers"}, limit : Limits, reverse : BOOLEAN, ties : BOOLEAN]

Init ==
    /\ rows = <<>>
    /\ request \in Requests
    /\ page = 0
    /\ got = {}
    /\ begun = {}
    /\ active = {}
    /\ pc = "idle"

-----------------------------------------------------------------------------
(***************************************************************************)
(* The queries.                                                            *)
(***************************************************************************)
\* get_messages: the rows WHERE phone_number = ?
MessagesOf(phone) == {i \in DOMAIN rows : rows[i].phone = phone}

\* get_latest_numbers: the groups of GROUP BY phone_number
Numbers == {rows[i].phone : i \in DOMAIN rows}

\* MAX(m.created_at)
LatestOf(phone) == Max({rows[i].created_at : i \in MessagesOf(phone)})

Items == IF request.list = "messages" THEN MessagesOf(request.phone) ELSE Numbers
Time(x) == IF request.list = "messages" THEN rows[x].created_at ELSE LatestOf(x)

\* Variant (OnlyActiveNumbersMissed): ASC and DESC exchanged.
BeforeReversed(x, y) ==
    \/ IF request.reverse THEN Time(x) > Time(y) ELSE Time(x) < Time(y)
    \/ Time(x) = Time(y) /\ IF request.ties THEN x < y ELSE x > y

\* ORDER BY ... ASC or DESC
Before(x, y) ==
    \/ IF request.reverse THEN Time(x) < Time(y) ELSE Time(x) > Time(y)
    \/ Time(x) = Time(y) /\ IF request.ties THEN x < y ELSE x > y

Position(x) == Cardinality({y \in Items : Before(y, x)})

\* Variant (NoMessageMissed): an offset in rows counted from one.
PageFromOne(limit, offset) == {x \in Items : Position(x) \in offset + 1..offset + limit}

\* LIMIT limit OFFSET offset
Page(limit, offset) == {x \in Items : Position(x) \in offset..offset + limit - 1}

-----------------------------------------------------------------------------
\* insert_message; created_at is its DEFAULT.
InsertMessage(phone, created_at) ==
    /\ Len(rows) < MaxMessages
    /\ rows' = Append(rows, [phone |-> phone, created_at |-> created_at])
    /\ active' = IF pc = "reading" THEN active \cup {phone} ELSE active
    /\ UNCHANGED <<request, page, got, begun, pc>>

Begin ==
    /\ pc = "idle"
    /\ pc' = "reading"
    /\ begun' = Items
    /\ UNCHANGED <<rows, request, page, got, active>>

\* One turn of the loop of docs/http.md:74.
ReadPage ==
    /\ pc = "reading"
    /\ page < MaxPages
    /\ LET items == Page(request.limit, request.limit * page)
       IN  /\ got' = got \cup items
           /\ pc' = IF request.limit > Cardinality(items) THEN "done" ELSE "reading"
    /\ page' = page + 1
    /\ UNCHANGED <<rows, request, begun, active>>

\* The query fails, and with it the client.
ReadFails ==
    /\ pc = "reading"
    /\ pc' = "failed"
    /\ UNCHANGED <<rows, request, page, got, begun, active>>

Next ==
    \/ \E phone \in Phones, created_at \in Times : InsertMessage(phone, created_at)
    \/ Begin
    \/ ReadPage
    \/ ReadFails

Spec == Init /\ [][Next]_vars

-----------------------------------------------------------------------------
(***************************************************************************)
(* Properties.                                                             *)
(***************************************************************************)
\* The loop of docs/http.md:66, "reading all messages from a phone number in
\* chunks", gets every message that was stored when it began, in either order,
\* whatever is stored meanwhile and whatever the clock does: rows are added, and
\* move later rows to later pages only.
NoMessageMissed ==
    pc = "done" /\ request.list = "messages" => begun \subseteq got

\* The same loop over the latest numbers, newest first, misses a number only if
\* it has moved to the front, past the client, by a message of its own.
OnlyActiveNumbersMissed ==
    pc = "done" /\ request.list = "numbers" /\ ~request.reverse => begun \ got \subseteq active
=============================================================================
