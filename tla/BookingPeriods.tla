---------------------------- MODULE BookingPeriods ----------------------------
(***************************************************************************)
(* The validity of recurring bookings (internal/store/bookings.go, the     *)
(* dialog of internal/web/handlers_bookings.go, handlers_carry.go and the  *)
(* upserts of internal/api/bookings.go).                                   *)
(*                                                                         *)
(* A lasting price change does not overwrite a booking: its period ends    *)
(* and a successor carries the new price on.  A booking and its successors *)
(* are a family here; the database keeps no link between them, only the    *)
(* mark of a retired predecessor.                                          *)
(*                                                                         *)
(* Reports count whole months and a price changes on the first of one, so  *)
(* dates are months.  One-off bookings have no period and are left out.    *)
(***************************************************************************)
EXTENDS Naturals, FiniteSets

CONSTANTS
    MaxBookings,   \* bound on the bookings ever created
    LastMonth,     \* the last month of the calendar
    YearLength,    \* 12 in the code
    Tabs,          \* tabs that show the dialog of a booking
    Jobs,          \* requests of the machine API
    Keys,          \* external ids
    Typed,         \* periods that are typed by hand into the dialog
    Bodies,        \* periods that jobs send, None where they leave a date out
    None

ASSUME CalendarIsFinite ==
    MaxBookings \in Nat /\ LastMonth \in Nat /\ YearLength \in Nat \ {0}

Ids == 1..MaxBookings
Months == 1..LastMonth

\* Empty dates: open towards the past and towards the future.
Beginning == 0
Forever == LastMonth + 1
Periods == [from : {Beginning} \cup Months, until : Months \cup {Beginning, Forever}]

\* What a request sends of a period.
Dates == [from : {None, Beginning} \cup Months, until : {None, Beginning, Forever} \cup Months]

Bookings == [period : Periods, retired : BOOLEAN, key : Keys \cup {None}]

ASSUME PeriodsAreTyped == Typed \subseteq Periods /\ Bodies \subseteq Dates
ASSUME NoneIsNothing == None \notin Ids \cup Keys \cup Bookings

VARIABLES
    booking,     \* bookings by id, None when there is none
    nextId,      \* the id of the next booking, never handed out twice
    family,      \* the booking a booking descends from by price changes
    dialog,      \* what the dialog of each tab shows, None when closed
    job,         \* what each request of the API has read
    rewritten,   \* families whose periods were written otherwise
    cut          \* families a booking was deleted from

vars == <<booking, nextId, family, dialog, job, rewritten, cut>>
history == <<rewritten, cut>>

Stored == {b \in Ids : booking[b] # None}
From(b) == booking[b].period.from
Until(b) == booking[b].period.until
Current(b) == b \in Stored /\ ~booking[b].retired
Covers(b, m) == From(b) <= m /\ m <= Until(b)
Relatives(a, b) == a \in Stored /\ b \in Stored /\ a # b /\ family[a] = family[b]

ValidRange(p) == p.from <= p.until

Init ==
    /\ booking = [b \in Ids |-> None]
    /\ nextId = 1
    /\ family = [b \in Ids |-> b]
    /\ dialog = [t \in Tabs |-> None]
    /\ job = [j \in Jobs |-> None]
    /\ rewritten = {}
    /\ cut = {}

-----------------------------------------------------------------------------
(***************************************************************************)
(* The store: one transaction each.                                        *)
(***************************************************************************)
FreshKey(key, b) == key = None \/ \A a \in Stored \ {b} : booking[a].key # key

CreateBooking(period, key) ==
    /\ nextId \in Ids
    /\ ValidRange(period)
    /\ FreshKey(key, nextId)
    /\ booking' = [booking EXCEPT ![nextId] =
                      [period |-> period, retired |-> FALSE, key |-> key]]
    /\ nextId' = nextId + 1
    /\ UNCHANGED <<family, history>>

\* Every field but the mark is written, as the caller read it or typed it; an
\* external id that a request gives to an existing booking is left out.
SaveBooking(b, period) ==
    /\ b \in Stored
    /\ ValidRange(period)
    /\ booking' = [booking EXCEPT ![b].period = period]
    /\ rewritten' = IF period = booking[b].period THEN rewritten
                    ELSE rewritten \cup {family[b]}
    /\ UNCHANGED <<nextId, family, cut>>

DeleteBooking(b) ==
    /\ b \in Stored
    /\ booking' = [booking EXCEPT ![b] = None]
    /\ cut' = cut \cup {family[b]}
    /\ UNCHANGED <<nextId, family, dialog, job, rewritten>>

\* The change starts after the booking does, and before it ends.
OldPriceOverlapping(b, m) == [booking[b] EXCEPT !.period.until = m, !.retired = TRUE]
OldPrice(b, m) == [booking[b] EXCEPT !.period.until = m - 1, !.retired = TRUE]

\* A period that is history already has no successor to be carried.
NewPriceToCarry(b, m) == [booking[b] EXCEPT !.period.from = m, !.key = None, !.retired = FALSE]
NewPriceRetired(b, m) == [booking[b] EXCEPT !.period.from = m, !.key = None, !.retired = TRUE]
NewPrice(b, m) == [booking[b] EXCEPT !.period.from = m, !.key = None]

AfterStart(b, m) == From(b) < m
Within(b, m) == AfterStart(b, m) /\ m <= Until(b)

ChangeAmountFrom(b, m) ==
    /\ nextId \in Ids
    /\ b \in Stored
    /\ Within(b, m)
    /\ booking' = [booking EXCEPT ![b] = OldPrice(b, m), ![nextId] = NewPrice(b, m)]
    /\ family' = [family EXCEPT ![nextId] = family[b]]
    /\ nextId' = nextId + 1
    /\ UNCHANGED history

\* The year ends that are carried, and those a stale page may ask for.
IsDecember(m) == m \in Months /\ m % YearLength = 0

AnyEnd(b, december) == IsDecember(Until(b))
CarriableEnd(b, december) == IsDecember(Until(b)) /\ Until(b) < december
Carriable(b, december) == ~booking[b].retired /\ CarriableEnd(b, december)

ExtendBookings(ids, december) ==
    /\ ids # {}
    /\ booking' = [b \in Ids |->
                      IF b \in ids \cap Stored /\ Carriable(b, december)
                      THEN [booking[b] EXCEPT !.period.until = december]
                      ELSE booking[b]]
    /\ UNCHANGED <<nextId, family, dialog, job, history>>

-----------------------------------------------------------------------------
(***************************************************************************)
(* The dialog posts all its fields with every edit, as it shows them.      *)
(***************************************************************************)
Show(t, b) == dialog' = [dialog EXCEPT ![t] = [id |-> b, period |-> booking'[b].period]]

\* A new booking runs over the year the page shows.
YearOf(december) == [from |-> december - YearLength + 1, until |-> december]

NewBooking(t, december) ==
    /\ CreateBooking(YearOf(december), None)
    /\ Show(t, nextId)
    /\ UNCHANGED job

OpenDialog(t, b) ==
    /\ b \in Stored
    /\ dialog' = [dialog EXCEPT ![t] = [id |-> b, period |-> booking[b].period]]
    /\ UNCHANGED <<booking, nextId, family, job, history>>

\* An edit of anything else than the period.
SaveDialog(t) ==
    /\ dialog[t] # None
    /\ SaveBooking(dialog[t].id, dialog[t].period)
    /\ UNCHANGED <<dialog, job>>

TypePeriod(t, period) ==
    /\ dialog[t] # None
    /\ SaveBooking(dialog[t].id, period)
    /\ Show(t, dialog[t].id)
    /\ UNCHANGED job

\* The dialog lands on the successor.
ChangePrice(t, m) ==
    /\ dialog[t] # None
    /\ ChangeAmountFrom(dialog[t].id, m)
    /\ Show(t, nextId)
    /\ UNCHANGED job

-----------------------------------------------------------------------------
(***************************************************************************)
(* The API: a booking is looked up by its external id or its id, and       *)
(* stored in another transaction with the fields of the body replaced.     *)
(***************************************************************************)
Replaced(period, body) ==
    [from |-> IF body.from = None THEN period.from ELSE body.from,
     until |-> IF body.until = None THEN period.until ELSE body.until]

\* A post with a key no booking has creates one, open on both sides unless the
\* body says otherwise.
FindKey(j, key, body) ==
    /\ job[j] = None
    /\ \/ \E b \in Stored :
             /\ booking[b].key = key
             /\ job' = [job EXCEPT ![j] = [id |-> b, key |-> key,
                                           period |-> Replaced(booking[b].period, body)]]
       \/ /\ \A b \in Stored : booking[b].key # key
          /\ job' = [job EXCEPT ![j] = [id |-> None, key |-> key,
                 period |-> Replaced([from |-> Beginning, until |-> Forever], body)]]
    /\ UNCHANGED <<booking, nextId, family, dialog, history>>

FindId(j, b, body) ==
    /\ job[j] = None
    /\ b \in Stored
    /\ job' = [job EXCEPT ![j] = [id |-> b, key |-> booking[b].key,
                                  period |-> Replaced(booking[b].period, body)]]
    /\ UNCHANGED <<booking, nextId, family, dialog, history>>

FinishJob(j) == job' = [job EXCEPT ![j] = None] /\ UNCHANGED dialog

StoreNew(j) ==
    /\ job[j] # None
    /\ job[j].id = None
    /\ CreateBooking(job[j].period, job[j].key)
    /\ FinishJob(j)

StoreFound(j) ==
    /\ job[j] # None
    /\ job[j].id # None
    /\ SaveBooking(job[j].id, job[j].period)
    /\ FinishJob(j)

\* The booking is gone, its key taken, or the period is refused.
RefuseJob(j) ==
    /\ job[j] # None
    /\ \/ ~ValidRange(job[j].period)
       \/ job[j].id = None /\ ~FreshKey(job[j].key, None)
       \/ job[j].id # None /\ job[j].id \notin Stored
    /\ FinishJob(j)
    /\ UNCHANGED <<booking, nextId, family, history>>

-----------------------------------------------------------------------------
Dialogs ==
    \/ \E t \in Tabs, m \in Months : IsDecember(m) /\ NewBooking(t, m)
    \/ \E t \in Tabs, b \in Ids : OpenDialog(t, b)
    \/ \E t \in Tabs : SaveDialog(t)
    \/ \E t \in Tabs, period \in Typed : TypePeriod(t, period)
    \/ \E t \in Tabs, m \in Months : ChangePrice(t, m)

Upserts ==
    \/ \E j \in Jobs, key \in Keys, body \in Bodies : FindKey(j, key, body)
    \/ \E j \in Jobs, b \in Ids, body \in Bodies : FindId(j, b, body)
    \/ \E j \in Jobs : StoreNew(j)
    \/ \E j \in Jobs : StoreFound(j)
    \/ \E j \in Jobs : RefuseJob(j)

Next ==
    \/ Dialogs
    \/ Upserts
    \/ \E b \in Ids : DeleteBooking(b)
    \/ \E ids \in SUBSET Ids, m \in Months : IsDecember(m) /\ ExtendBookings(ids, m)

Spec == Init /\ [][Next]_vars

-----------------------------------------------------------------------------
(***************************************************************************)
(* Properties.                                                             *)
(***************************************************************************)
Dialogues == [id : Ids, period : Periods]
Found == [id : Ids \cup {None}, key : Keys \cup {None}, period : Periods]

\* What the variables hold; a stored period is never reversed.
PeriodsTypeOK ==
    /\ booking \in [Ids -> Bookings \cup {None}]
    /\ nextId \in 1..MaxBookings + 1
    /\ family \in [Ids -> Ids]
    /\ dialog \in [Tabs -> Dialogues \cup {None}]
    /\ job \in [Jobs -> Found \cup {None}]
    /\ rewritten \subseteq Ids
    /\ cut \subseteq Ids
    /\ \A b \in Stored : ValidRange(booking[b].period)

\* Of all the prices a booking ever had one at most is carried into the next
\* year, whoever writes what with whatever stale page (ChangeAmountFrom,
\* ExtendBookings, SaveBooking).
OneCurrentPrice ==
    \A a, b \in Ids : Relatives(a, b) => booking[a].retired \/ booking[b].retired

\* Unless somebody wrote the period of one of them, no month counts two prices
\* of a booking, after any number of price changes, of present and of past
\* prices, and any carrying, also of stale selections.
CountedOnce ==
    \A a, b \in Ids : Relatives(a, b) /\ family[a] \notin rewritten =>
        Until(a) < From(b) \/ Until(b) < From(a)

\* ... and the price that is carried on is the last one.
CurrentPriceIsLast ==
    \A a, b \in Ids : Relatives(a, b) /\ Current(b) /\ family[a] \notin rewritten =>
        Until(a) < From(b)

\* Unless one of its prices was deleted or rewritten, a booking loses no month
\* that is planned ("an ended booking without its successor is money silently
\* gone from the plan", ChangeAmountFrom).
Planned(f) == {m \in Months : \E b \in Stored : family[b] = f /\ Covers(b, m)}
NothingLost ==
    [][\A f \in {family[b] : b \in Stored} :
          f \notin rewritten' \cup cut' => Planned(f) \subseteq Planned(f)']_vars

\* A booking nobody cut or rewrote always has a price that can be carried on.
AlwaysCarriedOn ==
    \A a \in Stored : family[a] \notin rewritten \cup cut =>
        \E b \in Stored : family[b] = family[a] /\ Current(b)

(***************************************************************************)
(* README.md:51-53 says of lasting price changes that they close the       *)
(* predecessor, "preventing the old and new price from being added         *)
(* together".  A dialog that was opened before the change posts the old    *)
(* end again with its next edit of any field.                              *)
(***************************************************************************)
NoPriceTwice == \A a, b \in Ids : Relatives(a, b) => Until(a) < From(b) \/ Until(b) < From(a)
=============================================================================
