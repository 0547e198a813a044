------------------------- MODULE BookingPeriodsProofs -------------------------
(***************************************************************************)
(* Proofs about BookingPeriods for any calendar, number of bookings, tabs, *)
(* jobs and any periods that are typed or sent.                            *)
(*                                                                         *)
(* That no month counts two prices needs that the price to be carried is   *)
(* the last of its family, and that at most one is to be carried; that a   *)
(* new booking starts a family of its own needs that ids are handed out in *)
(* order.  All of it together is inductive.                                *)
(***************************************************************************)
EXTENDS BookingPeriods, TLAPS

\* Ids are handed out in order, and a family is named by its first booking.
IdsInOrder ==
    \A b \in Ids : /\ booking[b] # None => b < nextId
                   /\ family[b] <= b
                   /\ b >= nextId => family[b] = b

BookTypeOK ==
    /\ booking \in [Ids -> Bookings \cup {None}]
    /\ nextId \in 1..MaxBookings + 1
    /\ family \in [Ids -> Ids]
    /\ rewritten \subseteq Ids
    /\ cut \subseteq Ids
    /\ \A b \in Stored : ValidRange(booking[b].period)

BookInv ==
    /\ BookTypeOK
    /\ IdsInOrder
    /\ OneCurrentPrice
    /\ CountedOnce
    /\ CurrentPriceIsLast
    /\ AlwaysCarriedOn

IInv == PeriodsTypeOK /\ BookInv

\* Families nobody cut or rewrote lose no month in a step.
KeepsPlans ==
    \A f \in Ids : f \notin rewritten' \cup cut' => Planned(f) \subseteq Planned(f)'

-----------------------------------------------------------------------------
(***************************************************************************)
(* The five things a step can do to the bookings.                          *)
(***************************************************************************)
Created(period, key) ==
    /\ period \in Periods
    /\ key \in Keys \cup {None}
    /\ CreateBooking(period, key)

Saved(b, period) == b \in Ids /\ period \in Periods /\ SaveBooking(b, period)

Changed(b, m) == b \in Ids /\ m \in Months /\ ChangeAmountFrom(b, m)

Carried(ids, december) == december \in Months /\ ExtendBookings(ids, december)

Untouched == UNCHANGED <<booking, nextId, family, history>>

Steps ==
    \/ Untouched
    \/ \E period, key : Created(period, key)
    \/ \E b, period : Saved(b, period)
    \/ \E b \in Ids : DeleteBooking(b)
    \/ \E b, m : Changed(b, m)
    \/ \E ids, december : Carried(ids, december)

\* Numbers that occur as bounds.
LEMMA Numbers ==
    /\ LastMonth \in Nat /\ MaxBookings \in Nat /\ YearLength \in Nat \ {0}
    /\ Ids \subseteq Nat /\ Months \subseteq Nat
    /\ \A p \in Periods : p.from \in 0..LastMonth /\ p.until \in 0..LastMonth + 1
    /\ \A p \in Periods : p = [from |-> p.from, until |-> p.until]
BY CalendarIsFinite DEF Ids, Months, Periods, Beginning, Forever

\* The year a new booking runs over is a period of the calendar.
LEMMA YearsArePeriods ==
    ASSUME NEW m \in Months, IsDecember(m)
    PROVE  YearOf(m) \in Periods
<1>1. m \in Nat /\ m >= 1 /\ m <= LastMonth /\ m % YearLength = 0
  BY CalendarIsFinite DEF Months, IsDecember
<1>2. m >= YearLength
  BY <1>1, CalendarIsFinite
<1>3. m - YearLength + 1 \in Months
  BY <1>1, <1>2, CalendarIsFinite DEF Months
<1> QED
  BY <1>3 DEF YearOf, Periods

\* Every step of the dialogs, jobs and pages does one of the five, or nothing to the book.
LEMMA StepsOfTheBook ==
    ASSUME PeriodsTypeOK, [Next]_vars
    PROVE  Steps
<1>1. CASE UNCHANGED vars
  BY <1>1 DEF vars, history, Steps, Untouched
<1>2. ASSUME NEW t \in Tabs, NEW m \in Months, IsDecember(m), NewBooking(t, m)
      PROVE  Steps
  BY <1>2, YearsArePeriods DEF NewBooking, Steps, Created
<1>3. ASSUME NEW t \in Tabs, NEW b \in Ids, OpenDialog(t, b)
      PROVE  Steps
  BY <1>3 DEF OpenDialog, Steps, Untouched
<1>4. ASSUME NEW t \in Tabs, SaveDialog(t)
      PROVE  Steps
  <2>1. dialog[t] \in Dialogues
    BY <1>4 DEF SaveDialog, PeriodsTypeOK
  <2>2. Saved(dialog[t].id, dialog[t].period)
    BY <1>4, <2>1 DEF SaveDialog, Dialogues, Saved
  <2> QED BY <2>2 DEF Steps
<1>5. ASSUME NEW t \in Tabs, NEW p \in Typed, TypePeriod(t, p)
      PROVE  Steps
  <2>1. dialog[t] \in Dialogues
    BY <1>5 DEF TypePeriod, PeriodsTypeOK
  <2>2. Saved(dialog[t].id, p)
    BY <1>5, <2>1, PeriodsAreTyped DEF TypePeriod, Dialogues, Saved
  <2> QED BY <2>2 DEF Steps
<1>6. ASSUME NEW t \in Tabs, NEW m \in Months, ChangePrice(t, m)
      PROVE  Steps
  <2>1. dialog[t] \in Dialogues
    BY <1>6 DEF ChangePrice, PeriodsTypeOK
  <2>2. Changed(dialog[t].id, m)
    BY <1>6, <2>1 DEF ChangePrice, Dialogues, Changed
  <2> QED BY <2>2 DEF Steps
<1>7. ASSUME NEW j \in Jobs, NEW key \in Keys, NEW body \in Bodies, FindKey(j, key, body)
      PROVE  Steps
  BY <1>7 DEF FindKey, Steps, Untouched
<1>8. ASSUME NEW j \in Jobs, NEW b \in Ids, NEW body \in Bodies, FindId(j, b, body)
      PROVE  Steps
  BY <1>8 DEF FindId, Steps, Untouched
<1>9. ASSUME NEW j \in Jobs, StoreNew(j)
      PROVE  Steps
  <2>1. job[j] \in Found
    BY <1>9 DEF StoreNew, PeriodsTypeOK
  <2>2. Created(job[j].period, job[j].key)
    BY <1>9, <2>1 DEF StoreNew, Found, Created
  <2> QED BY <2>2 DEF Steps
<1>10. ASSUME NEW j \in Jobs, StoreFound(j)
       PROVE  Steps
  <2>1. job[j] \in Found
    BY <1>10 DEF StoreFound, PeriodsTypeOK
  <2>2. Saved(job[j].id, job[j].period)
    BY <1>10, <2>1 DEF StoreFound, Found, Saved
  <2> QED BY <2>2 DEF Steps
<1>11. ASSUME NEW j \in Jobs, RefuseJob(j)
       PROVE  Steps
  BY <1>11 DEF RefuseJob, Steps, Untouched
<1>12. ASSUME NEW b \in Ids, DeleteBooking(b)
       PROVE  Steps
  BY <1>12 DEF Steps
<1>13. ASSUME NEW ids \in SUBSET Ids, NEW m \in Months, IsDecember(m), ExtendBookings(ids, m)
       PROVE  Steps
  BY <1>13 DEF Steps, Carried
<1> QED
  BY <1>1, <1>2, <1>3, <1>4, <1>5, <1>6, <1>7, <1>8, <1>9, <1>10, <1>11, <1>12, <1>13
  DEF Next, Dialogs, Upserts

-----------------------------------------------------------------------------
(***************************************************************************)
(* The book after each of them.                                            *)
(***************************************************************************)
\* What the fields of a stored booking are.
LEMMA StoredFields ==
    ASSUME BookTypeOK, NEW b \in Stored
    PROVE  /\ b \in Ids
           /\ booking[b] \in Bookings
           /\ From(b) \in 0..LastMonth
           /\ Until(b) \in 0..LastMonth + 1
           /\ booking[b].retired \in BOOLEAN
           /\ From(b) <= Until(b)
  BY Numbers, NoneIsNothing DEF Stored, BookTypeOK, Bookings, From, Until, ValidRange

\* A step that leaves the bookings alone leaves the book as it is.
LEMMA UntouchedKeeps ==
    ASSUME BookInv, Untouched
    PROVE  BookInv' /\ KeepsPlans
  BY DEF BookInv, Untouched, history, BookTypeOK, IdsInOrder, OneCurrentPrice, CountedOnce,
         CurrentPriceIsLast, AlwaysCarriedOn, KeepsPlans, Planned, Stored, From, Until,
         Current, Covers, Relatives

\* A new booking starts a family of its own.
LEMMA CreatedKeeps ==
    ASSUME BookInv, NEW period, NEW key, Created(period, key)
    PROVE  BookInv' /\ KeepsPlans
<1> DEFINE n == nextId
<1> DEFINE new == [period |-> period, retired |-> FALSE, key |-> key]
<1>1. /\ n \in Ids /\ booking[n] = None /\ family[n] = n
      /\ booking' = [booking EXCEPT ![n] = new] /\ new \in Bookings /\ ValidRange(period)
      /\ nextId' = n + 1 /\ UNCHANGED <<family, rewritten, cut>>
  BY DEF Created, CreateBooking, history, BookInv, IdsInOrder, BookTypeOK, Bookings
<1>2. /\ booking'[n] = new
      /\ \A x \in Ids : x # n => booking'[x] = booking[x]
      /\ Stored' = Stored \cup {n} /\ n \notin Stored
  BY <1>1, NoneIsNothing DEF BookInv, BookTypeOK, Stored
<1>3. \A x \in Stored : x # n /\ family[x] # n /\ family[x] # family[n]
  BY <1>1, <1>2, Numbers DEF BookInv, BookTypeOK, IdsInOrder, Stored
<1>4. \A x, y \in Ids : Relatives(x, y)' => x # n /\ y # n /\ Relatives(x, y)
  BY <1>1, <1>2, <1>3 DEF Relatives
<1>5. \A x \in Ids : x # n => From(x)' = From(x) /\ Until(x)' = Until(x)
  BY <1>2 DEF From, Until
<1>6. BookTypeOK'
  <2>1. booking' \in [Ids -> Bookings \cup {None}] /\ nextId' \in 1..MaxBookings + 1
    BY <1>1, Numbers DEF BookInv, BookTypeOK, Ids
  <2>2. \A b \in Stored' : ValidRange(booking'[b].period)
    BY <1>1, <1>2 DEF BookInv, BookTypeOK, Stored
  <2> QED BY <1>1, <2>1, <2>2 DEF BookInv, BookTypeOK
<1>7. IdsInOrder'
  BY <1>1, <1>2, Numbers DEF BookInv, BookTypeOK, IdsInOrder
<1>8. OneCurrentPrice' /\ CountedOnce' /\ CurrentPriceIsLast'
  BY <1>1, <1>2, <1>4, <1>5 DEF BookInv, OneCurrentPrice, CountedOnce, CurrentPriceIsLast, Current
<1>9. AlwaysCarriedOn'
  <2> SUFFICES ASSUME NEW a \in Stored', family[a] \notin rewritten \cup cut
               PROVE  \E b \in Stored' : family[b] = family[a] /\ ~booking'[b].retired
    BY <1>1 DEF AlwaysCarriedOn, Current
  <2>1. CASE a = n
    BY <2>1, <1>2
  <2>2. CASE a # n
    BY <2>2, <1>2 DEF BookInv, AlwaysCarriedOn, Current, Stored
  <2> QED BY <2>1, <2>2
<1>10. KeepsPlans
  BY <1>1, <1>2, <1>5 DEF KeepsPlans, Planned, Covers, Stored
<1> QED BY <1>6, <1>7, <1>8, <1>9, <1>10 DEF BookInv

\* A saved period is the one it was, or its family counts as rewritten.
LEMMA SavedKeeps ==
    ASSUME BookInv, NEW b, NEW period, Saved(b, period)
    PROVE  BookInv' /\ KeepsPlans
<1>1. /\ b \in Stored /\ b \in Ids /\ period \in Periods /\ ValidRange(period)
      /\ booking' = [booking EXCEPT ![b] = [booking[b] EXCEPT !.period = period]]
      /\ UNCHANGED <<nextId, family, cut>>
      /\ rewritten \subseteq rewritten' /\ rewritten' \subseteq rewritten \cup {family[b]}
      /\ period # booking[b].period => family[b] \in rewritten'
  BY DEF Saved, SaveBooking
<1>2. booking[b] \in Bookings
  BY <1>1, StoredFields DEF BookInv
<1>3. /\ booking'[b] \in Bookings /\ booking'[b].period = period
      /\ booking'[b].retired = booking[b].retired /\ booking'[b].key = booking[b].key
      /\ \A x \in Ids : x # b => booking'[x] = booking[x]
  BY <1>1, <1>2 DEF BookInv, BookTypeOK, Bookings
<1>4. Stored' = Stored
  BY <1>1, <1>3, NoneIsNothing DEF Stored
<1>5. \A x \in Ids : booking'[x].retired = booking[x].retired
  BY <1>3
<1>6. \A x \in Ids : family[x] \notin rewritten' =>
                        From(x)' = From(x) /\ Until(x)' = Until(x) /\ family[x] \notin rewritten
  BY <1>1, <1>3 DEF From, Until
<1>7. BookTypeOK'
  <2>1. booking' \in [Ids -> Bookings \cup {None}] /\ rewritten' \subseteq Ids
    BY <1>1, <1>3 DEF BookInv, BookTypeOK
  <2>2. \A x \in Stored' : ValidRange(booking'[x].period)
    BY <1>1, <1>3, <1>4 DEF BookInv, BookTypeOK, Stored
  <2> QED BY <1>1, <2>1, <2>2 DEF BookInv, BookTypeOK
<1>8. IdsInOrder'
  BY <1>1, <1>3, <1>4 DEF BookInv, IdsInOrder, Stored
<1>9. OneCurrentPrice' /\ CountedOnce' /\ CurrentPriceIsLast' /\ AlwaysCarriedOn'
  BY <1>1, <1>4, <1>5, <1>6
  DEF BookInv, OneCurrentPrice, CountedOnce, CurrentPriceIsLast, AlwaysCarriedOn,
      Relatives, Current, Stored
<1>10. KeepsPlans
  BY <1>1, <1>4, <1>6 DEF KeepsPlans, Planned, Covers, Stored
<1> QED BY <1>7, <1>8, <1>9, <1>10 DEF BookInv

\* A deleted booking leaves its family cut, and nothing else changes.
LEMMA DeletedKeeps ==
    ASSUME BookInv, NEW b \in Ids, DeleteBooking(b)
    PROVE  BookInv' /\ KeepsPlans
<1>1. /\ booking' = [booking EXCEPT ![b] = None] /\ b \in Stored
      /\ cut' = cut \cup {family[b]} /\ UNCHANGED <<nextId, family, rewritten>>
  BY DEF DeleteBooking
<1>2. /\ Stored' = Stored \ {b}
      /\ \A x \in Ids : x # b => /\ booking'[x] = booking[x]
                                 /\ From(x)' = From(x) /\ Until(x)' = Until(x)
  BY <1>1 DEF BookInv, BookTypeOK, Stored, From, Until
<1>3. BookTypeOK'
  <2>1. booking' \in [Ids -> Bookings \cup {None}] /\ cut' \subseteq Ids
    BY <1>1 DEF BookInv, BookTypeOK
  <2>2. \A x \in Stored' : ValidRange(booking'[x].period)
    BY <1>2 DEF BookInv, BookTypeOK, Stored
  <2> QED BY <1>1, <2>1, <2>2 DEF BookInv, BookTypeOK
<1>4. IdsInOrder'
  BY <1>1, <1>2 DEF BookInv, BookTypeOK, IdsInOrder
<1>5. OneCurrentPrice' /\ CountedOnce' /\ CurrentPriceIsLast' /\ AlwaysCarriedOn'
  BY <1>1, <1>2
  DEF BookInv, OneCurrentPrice, CountedOnce, CurrentPriceIsLast, AlwaysCarriedOn,
      Relatives, Current, Stored
<1>6. KeepsPlans
  BY <1>1, <1>2 DEF KeepsPlans, Planned, Covers, Stored
<1> QED BY <1>3, <1>4, <1>5, <1>6 DEF BookInv

\* A price change divides a period between the old and the new price.
LEMMA ChangedKeeps ==
    ASSUME BookInv, NEW b, NEW m, Changed(b, m)
    PROVE  BookInv' /\ KeepsPlans
<1>0. PICK n \in Ids : n = nextId
  BY DEF Changed, ChangeAmountFrom
<1>1. /\ b \in Stored /\ b \in Ids /\ n \in Ids /\ m \in Months /\ Within(b, m)
      /\ booking[n] = None /\ n # b
      /\ booking' = [booking EXCEPT ![b] = OldPrice(b, m), ![n] = NewPrice(b, m)]
      /\ family' = [family EXCEPT ![n] = family[b]]
      /\ nextId' = n + 1 /\ UNCHANGED <<rewritten, cut>>
  BY <1>0 DEF Changed, ChangeAmountFrom, history, BookInv, IdsInOrder, BookTypeOK, Stored
<1>2. /\ booking[b] \in Bookings /\ From(b) \in 0..LastMonth /\ Until(b) \in 0..LastMonth + 1
      /\ m \in Nat /\ m >= 1 /\ m <= LastMonth /\ From(b) < m /\ m <= Until(b)
      /\ booking[b].retired \in BOOLEAN
  BY <1>1, StoredFields, Numbers DEF BookInv, Within, AfterStart, Months
<1>3. /\ OldPrice(b, m) \in Bookings
      /\ OldPrice(b, m).period = [from |-> From(b), until |-> m - 1]
      /\ OldPrice(b, m).retired = TRUE
  <2>1. [from |-> From(b), until |-> m - 1] \in Periods
    BY <1>2, Numbers DEF Periods, Months, Beginning
  <2>2. OldPrice(b, m) = [booking[b] EXCEPT !.period = [booking[b].period EXCEPT !.until = m - 1],
                                            !.retired = TRUE]
    BY DEF OldPrice
  <2>3. [booking[b].period EXCEPT !.until = m - 1] = [from |-> From(b), until |-> m - 1]
    BY <1>2, Numbers DEF Bookings, Periods, From
  <2> QED BY <1>2, <2>1, <2>2, <2>3 DEF Bookings
<1>4. /\ NewPrice(b, m) \in Bookings
      /\ NewPrice(b, m).period = [from |-> m, until |-> Until(b)]
      /\ NewPrice(b, m).retired = booking[b].retired
  BY <1>1, <1>2, Numbers DEF NewPrice, Bookings, Periods, Months, Until
<1>5. /\ booking'[b] = OldPrice(b, m) /\ booking'[n] = NewPrice(b, m)
      /\ \A x \in Ids \ {b, n} : booking'[x] = booking[x]
      /\ family'[n] = family[b] /\ \A x \in Ids \ {n} : family'[x] = family[x]
  BY <1>1 DEF BookInv, BookTypeOK
<1>6. Stored' = Stored \cup {n} /\ n \notin Stored
  <2>1. booking'[b] # None /\ booking'[n] # None
    BY <1>3, <1>4, <1>5, NoneIsNothing
  <2> QED BY <1>1, <1>5, <2>1 DEF Stored
<1>7. /\ From(b)' = From(b) /\ Until(b)' = m - 1
      /\ From(n)' = m /\ Until(n)' = Until(b)
      /\ \A x \in Ids \ {b, n} : From(x)' = From(x) /\ Until(x)' = Until(x)
  <2>1. From(b)' = booking'[b].period.from /\ Until(b)' = booking'[b].period.until
    BY DEF From, Until
  <2>2. booking'[b].period = [from |-> From(b), until |-> m - 1]
    BY <1>3, <1>5
  <2>3. From(n)' = booking'[n].period.from /\ Until(n)' = booking'[n].period.until
    BY DEF From, Until
  <2>4. booking'[n].period = [from |-> m, until |-> Until(b)]
    BY <1>4, <1>5
  <2>5. \A x \in Ids \ {b, n} : From(x)' = From(x) /\ Until(x)' = Until(x)
    BY <1>5 DEF From, Until
  <2> QED BY <2>1, <2>2, <2>3, <2>4, <2>5
<1>8. \A x \in Stored : x \in Ids /\ From(x) \in Nat /\ Until(x) \in Nat /\ From(x) <= Until(x)
  BY StoredFields, Numbers DEF BookInv
<1>9. BookTypeOK'
  <2>1. booking' \in [Ids -> Bookings \cup {None}]
    BY <1>1, <1>3, <1>4 DEF BookInv, BookTypeOK
  <2>4. nextId' \in 1..MaxBookings + 1
    BY <1>1, Numbers DEF Ids
  <2>2. family' \in [Ids -> Ids]
    BY <1>1 DEF BookInv, BookTypeOK
  <2>3. \A x \in Stored' : ValidRange(booking'[x].period)
    <3> SUFFICES ASSUME NEW x \in Stored' PROVE From(x)' <= Until(x)'
      BY DEF ValidRange, From, Until
    <3>1. CASE x = b
      BY <3>1, <1>2, <1>7
    <3>2. CASE x = n
      BY <3>2, <1>2, <1>7
    <3>3. CASE x # b /\ x # n
      BY <3>3, <1>6, <1>7, <1>8
    <3> QED BY <3>1, <3>2, <3>3
  <2> QED BY <1>1, <2>1, <2>2, <2>3, <2>4 DEF BookInv, BookTypeOK
<1>10. IdsInOrder'
  <2> SUFFICES ASSUME NEW x \in Ids
               PROVE  /\ booking'[x] # None => x < n + 1
                      /\ family'[x] <= x
                      /\ x >= n + 1 => family'[x] = x
    BY <1>1 DEF IdsInOrder
  <2>1. /\ booking[x] # None => x < n
        /\ family[x] <= x
        /\ x >= n => family[x] = x
        /\ family[b] <= b /\ b < n /\ family[b] \in Ids
    BY <1>0, <1>1 DEF BookInv, BookTypeOK, IdsInOrder, Stored
  <2> QED BY <1>1, <1>5, <2>1, Numbers DEF BookInv, BookTypeOK
\* The relatives of the new price are the old one and its relatives.
<1>11. ASSUME NEW x \in Ids, NEW y \in Ids, Relatives(x, y)'
       PROVE  /\ x \in Stored' /\ y \in Stored' /\ x # y
              /\ x # n /\ y # n => Relatives(x, y)
              /\ x = n => y = b \/ Relatives(b, y)
              /\ y = n => x = b \/ Relatives(x, b)
              /\ family'[x] = IF x = n THEN family[b] ELSE family[x]
  BY <1>1, <1>5, <1>6, <1>11 DEF Relatives
<1>12. OneCurrentPrice'
  <2> SUFFICES ASSUME NEW x \in Ids, NEW y \in Ids, Relatives(x, y)'
               PROVE  booking'[x].retired \/ booking'[y].retired
    BY DEF OneCurrentPrice
  <2>1. CASE x = b \/ y = b
    BY <2>1, <1>3, <1>5
  <2>2. CASE x # b /\ y # b
    BY <2>2, <1>1, <1>4, <1>5, <1>11 DEF BookInv, OneCurrentPrice
  <2> QED BY <2>1, <2>2
<1>13. CountedOnce'
  <2> SUFFICES ASSUME NEW x \in Ids, NEW y \in Ids, Relatives(x, y)', family'[x] \notin rewritten
               PROVE  Until(x)' < From(y)' \/ Until(y)' < From(x)'
    BY <1>1 DEF CountedOnce
  <2>1. family'[x] = family'[y]
    BY DEF Relatives
  <2>2. ASSUME NEW z \in Ids, NEW w \in Ids, Relatives(z, w), family[z] \notin rewritten
        PROVE  /\ Until(z) < From(w) \/ Until(w) < From(z)
               /\ z \in Stored /\ w \in Stored /\ From(z) \in Nat /\ Until(z) \in Nat
               /\ From(w) \in Nat /\ Until(w) \in Nat
    BY <1>8, <2>2 DEF BookInv, CountedOnce, Relatives
  <2>3. CASE x # n /\ y # n
    BY <2>2, <2>3, <1>2, <1>7, <1>11
  <2>4. CASE x = n
    <3>1. family[b] \notin rewritten /\ y # n
      BY <2>4, <1>5, <1>11
    <3>2. CASE y = b
      BY <2>4, <3>2, <1>2, <1>7
    <3>3. CASE y # b
      <4>1. Relatives(b, y)
        BY <2>4, <3>3, <1>11
      <4>2. Until(b) < From(y) \/ Until(y) < From(b)
        BY <4>1, <3>1, <1>1, <2>2
      <4>3. From(y) \in Nat /\ Until(y) \in Nat
        BY <4>1, <3>1, <1>1, <2>2
      <4>4. From(y)' = From(y) /\ Until(y)' = Until(y)
        BY <3>1, <3>3, <1>7
      <4> QED BY <2>4, <4>2, <4>3, <4>4, <1>2, <1>7
    <3> QED BY <3>2, <3>3
  <2>5. CASE y = n
    <3>1. family[b] \notin rewritten /\ x # n
      BY <2>5, <2>1, <1>5, <1>11
    <3>2. CASE x = b
      BY <2>5, <3>2, <1>2, <1>7
    <3>3. CASE x # b
      <4>1. Relatives(x, b) /\ family[x] \notin rewritten
        BY <2>5, <3>1, <3>3, <1>11
      <4>2. Until(b) < From(x) \/ Until(x) < From(b)
        BY <4>1, <1>1, <2>2
      <4>3. From(x) \in Nat /\ Until(x) \in Nat
        BY <4>1, <1>1, <2>2
      <4>4. From(x)' = From(x) /\ Until(x)' = Until(x)
        BY <3>1, <3>3, <1>7
      <4> QED BY <2>5, <4>2, <4>3, <4>4, <1>2, <1>7
    <3> QED BY <3>2, <3>3
  <2> QED BY <2>3, <2>4, <2>5
<1>14. CurrentPriceIsLast'
  <2> SUFFICES ASSUME NEW x \in Ids, NEW y \in Ids, Relatives(x, y)', ~booking'[y].retired,
                      family'[x] \notin rewritten
               PROVE  Until(x)' < From(y)'
    BY <1>1 DEF CurrentPriceIsLast, Current
  <2>1. y # b
    BY <1>3, <1>5
  <2>2. ASSUME NEW z \in Ids, NEW w \in Ids, Relatives(z, w), ~booking[w].retired,
               family[z] \notin rewritten
        PROVE  /\ Until(z) < From(w)
               /\ From(z) \in Nat /\ Until(z) \in Nat /\ From(w) \in Nat /\ Until(w) \in Nat
    BY <1>8, <2>2 DEF BookInv, CurrentPriceIsLast, Relatives, Current
  <2>3. CASE y = n
    <3>1. x # n /\ family[x] \notin rewritten /\ ~booking[b].retired
      BY <2>3, <1>4, <1>5, <1>11
    <3>2. CASE x = b
      BY <2>3, <3>2, <1>2, <1>7
    <3>3. CASE x # b
      <4>1. Relatives(x, b)
        BY <2>3, <3>3, <1>11
      <4>2. Until(x) < From(b) /\ Until(x) \in Nat
        BY <4>1, <3>1, <1>1, <2>2
      <4>3. Until(x)' = Until(x)
        BY <3>1, <3>3, <1>7
      <4> QED BY <2>3, <4>2, <4>3, <1>2, <1>7
    <3> QED BY <3>2, <3>3
  <2>4. CASE y # n /\ x # n
    <3>1. Relatives(x, y) /\ family[x] \notin rewritten /\ ~booking[y].retired
      BY <2>1, <2>4, <1>5, <1>11
    <3>2. Until(x) < From(y) /\ Until(x) \in Nat /\ From(y) \in Nat
      BY <3>1, <2>2
    <3>3. From(y)' = From(y)
      BY <2>1, <2>4, <1>7
    <3>4. CASE x = b
      BY <3>2, <3>3, <3>4, <1>2, <1>7
    <3>5. CASE x # b
      BY <2>4, <3>2, <3>3, <3>5, <1>7
    <3> QED BY <3>4, <3>5
  <2>5. CASE x = n
    <3>1. y # n /\ family[b] \notin rewritten /\ Relatives(b, y) /\ ~booking[y].retired
      BY <2>1, <2>5, <1>5, <1>11
    <3>2. Until(b) < From(y)
      BY <3>1, <1>1, <2>2
    <3> QED BY <2>1, <2>5, <3>1, <3>2, <1>7
  <2> QED BY <2>3, <2>4, <2>5
<1>15. AlwaysCarriedOn'
  <2> SUFFICES ASSUME NEW x \in Stored', family'[x] \notin rewritten \cup cut
               PROVE  \E y \in Stored' : family'[y] = family'[x] /\ ~booking'[y].retired
    BY <1>1 DEF AlwaysCarriedOn, Current
  <2>1. PICK z \in Stored : family[z] = family'[x]
    BY <1>1, <1>5, <1>6 DEF Stored
  <2>2. PICK y \in Stored : family[y] = family'[x] /\ ~booking[y].retired
    BY <2>1 DEF BookInv, AlwaysCarriedOn, Current
  <2>3. CASE y = b
    BY <2>2, <2>3, <1>4, <1>5, <1>6
  <2>4. CASE y # b
    BY <2>2, <2>4, <1>5, <1>6, <1>8
  <2> QED BY <2>3, <2>4
<1>16. KeepsPlans
  <2> SUFFICES ASSUME NEW f \in Ids, NEW k \in Months, NEW x \in Stored, family[x] = f,
                      From(x) <= k, k <= Until(x)
               PROVE  \E y \in Stored' : family'[y] = f /\ From(y)' <= k /\ k <= Until(y)'
    BY DEF KeepsPlans, Planned, Covers
  <2>1. CASE x # b
    BY <2>1, <1>5, <1>6, <1>7, <1>8
  <2>2. CASE x = b /\ k < m
    <3>1. b \in Stored' /\ family'[b] = family[b]
      BY <1>1, <1>5, <1>6
    <3>2. From(b)' <= k /\ k <= Until(b)'
      BY <2>2, <1>2, <1>7, Numbers
    <3> QED BY <2>2, <3>1, <3>2
  <2>3. CASE x = b /\ m <= k
    <3>1. n \in Stored' /\ family'[n] = family[b]
      BY <1>5, <1>6
    <3>2. From(n)' <= k /\ k <= Until(n)'
      BY <2>3, <1>7
    <3> QED BY <2>3, <3>1, <3>2
  <2> QED BY <2>1, <2>2, <2>3, <1>2, Numbers
<1> QED BY <1>9, <1>10, <1>12, <1>13, <1>14, <1>15, <1>16 DEF BookInv

\* Carrying moves the end of the last price of a family, and of no other.
LEMMA CarriedKeeps ==
    ASSUME BookInv, NEW ids, NEW december, Carried(ids, december)
    PROVE  BookInv' /\ KeepsPlans
<1> DEFINE moved == {b \in ids \cap Stored : Carriable(b, december)}
<1>1. /\ december \in Months
      /\ booking' = [b \in Ids |-> IF b \in moved
                                   THEN [booking[b] EXCEPT !.period.until = december]
                                   ELSE booking[b]]
      /\ UNCHANGED <<nextId, family, rewritten, cut>>
  BY DEF Carried, ExtendBookings, history
<1>2. ASSUME NEW b \in moved
      PROVE  /\ b \in Stored /\ b \in Ids /\ ~booking[b].retired /\ Until(b) < december
             /\ booking'[b] = [booking[b] EXCEPT !.period.until = december]
             /\ booking'[b] \in Bookings /\ booking'[b].retired = booking[b].retired
             /\ From(b)' = From(b) /\ Until(b)' = december
  <2>1. b \in Stored /\ ~booking[b].retired /\ Until(b) < december
    BY DEF Carriable, CarriableEnd
  <2>2. b \in Ids /\ booking[b] \in Bookings
    BY <2>1, StoredFields DEF BookInv
  <2>3. booking'[b] = [booking[b] EXCEPT !.period.until = december]
    BY <1>1, <2>2
  <2> QED BY <1>1, <2>1, <2>2, <2>3, Numbers DEF Bookings, Periods, From, Until
<1>3. \A b \in Ids \ moved : booking'[b] = booking[b] /\ From(b)' = From(b) /\ Until(b)' = Until(b)
  BY <1>1 DEF From, Until
<1>4. Stored' = Stored
  BY <1>2, <1>3, NoneIsNothing DEF Stored
<1>5. \A b \in Stored : booking'[b].retired = booking[b].retired
  BY <1>2, <1>3 DEF Stored
<1>6. \A b \in Stored : /\ b \in Ids /\ From(b) \in Nat /\ Until(b) \in Nat /\ From(b) <= Until(b)
                        /\ From(b)' = From(b) /\ Until(b)' \in Nat /\ Until(b) <= Until(b)'
  <2> SUFFICES ASSUME NEW b \in Stored
               PROVE  /\ b \in Ids /\ From(b) \in Nat /\ Until(b) \in Nat /\ From(b) <= Until(b)
                      /\ From(b)' = From(b) /\ Until(b)' \in Nat /\ Until(b) <= Until(b)'
    OBVIOUS
  <2>1. b \in Ids /\ From(b) \in Nat /\ Until(b) \in Nat /\ From(b) <= Until(b)
    BY StoredFields, Numbers DEF BookInv
  <2>2. CASE b \in moved
    <3>1. From(b)' = From(b) /\ Until(b)' = december /\ Until(b) < december
      BY <2>2, <1>2
    <3>2. december \in Nat
      BY <1>1, Numbers
    <3> QED BY <2>1, <3>1, <3>2
  <2>3. CASE b \notin moved
    BY <2>1, <2>3, <1>3
  <2> QED BY <2>2, <2>3
<1>7. BookTypeOK'
  <2>1. booking' \in [Ids -> Bookings \cup {None}]
    BY <1>1, <1>2, <1>3 DEF BookInv, BookTypeOK
  <2>2. \A b \in Stored' : ValidRange(booking'[b].period)
    <3> SUFFICES ASSUME NEW b \in Stored PROVE From(b)' <= Until(b)'
      BY <1>4 DEF ValidRange, From, Until
    <3> QED BY <1>6
  <2> QED BY <1>1, <2>1, <2>2 DEF BookInv, BookTypeOK
<1>8. IdsInOrder'
  BY <1>1, <1>4 DEF BookInv, IdsInOrder, Stored
<1>9. OneCurrentPrice' /\ AlwaysCarriedOn'
  BY <1>1, <1>4, <1>5 DEF BookInv, OneCurrentPrice, AlwaysCarriedOn, Relatives, Current
<1>10. CurrentPriceIsLast'
  <2> SUFFICES ASSUME NEW x \in Ids, NEW y \in Ids, Relatives(x, y), ~booking[y].retired,
                      family[x] \notin rewritten
               PROVE  Until(x)' < From(y)'
    BY <1>1, <1>4, <1>5 DEF CurrentPriceIsLast, Relatives, Current
  <2>1. Until(x) < From(y) /\ booking[x].retired /\ x \in Stored /\ y \in Stored
    BY DEF BookInv, CurrentPriceIsLast, OneCurrentPrice, Relatives, Current
  <2> QED BY <2>1, <1>2, <1>3, <1>6
<1>11. CountedOnce'
  <2> SUFFICES ASSUME NEW x \in Ids, NEW y \in Ids, Relatives(x, y), family[x] \notin rewritten
               PROVE  Until(x)' < From(y)' \/ Until(y)' < From(x)'
    BY <1>1, <1>4 DEF CountedOnce, Relatives
  <2>1. Relatives(y, x) /\ family[y] = family[x] /\ x \in Stored /\ y \in Stored
    BY DEF Relatives
  <2>2. CASE ~booking[x].retired
    BY <2>1, <2>2, <1>1, <1>4, <1>5, <1>10 DEF CurrentPriceIsLast, Relatives, Current
  <2>3. CASE ~booking[y].retired
    BY <2>1, <2>3, <1>1, <1>4, <1>5, <1>10 DEF CurrentPriceIsLast, Relatives, Current
  <2>4. CASE booking[x].retired /\ booking[y].retired
    BY <2>1, <2>4, <1>2, <1>3 DEF BookInv, CountedOnce
  <2> QED BY <2>2, <2>3, <2>4
<1>12. KeepsPlans
  <2> SUFFICES ASSUME NEW k \in Months, NEW x \in Stored, From(x) <= k, k <= Until(x)
               PROVE  From(x)' <= k /\ k <= Until(x)'
    BY <1>1, <1>4 DEF KeepsPlans, Planned, Covers
  <2> QED BY <1>6, Numbers
<1> QED BY <1>7, <1>8, <1>9, <1>10, <1>11, <1>12 DEF BookInv

-----------------------------------------------------------------------------
(***************************************************************************)
(* The theorems.                                                           *)
(***************************************************************************)
\* What dialogs show and requests have read stays a period of the calendar.
LEMMA ReadersKeep ==
    ASSUME PeriodsTypeOK, [Next]_vars, BookTypeOK'
    PROVE  PeriodsTypeOK'
<1>1. SUFFICES dialog' \in [Tabs -> Dialogues \cup {None}] /\ job' \in [Jobs -> Found \cup {None}]
  BY DEF PeriodsTypeOK, BookTypeOK
<1>2. ASSUME NEW t, NEW b \in Ids, booking'[b] \in Bookings, Show(t, b)
      PROVE  dialog' \in [Tabs -> Dialogues \cup {None}]
  <2>1. [id |-> b, period |-> booking'[b].period] \in Dialogues
    BY <1>2 DEF Dialogues, Bookings
  <2> QED BY <1>2, <2>1 DEF Show, PeriodsTypeOK
<1>3. \A p \in Periods, body \in Bodies : Replaced(p, body) \in Periods
  BY PeriodsAreTyped DEF Replaced, Dates, Periods
<1>4. [from |-> Beginning, until |-> Forever] \in Periods
  BY DEF Periods
<1>5. \A b \in Ids : b \in Stored => booking[b].period \in Periods /\ booking[b].key \in Keys \cup {None}
  BY DEF PeriodsTypeOK, Stored, Bookings
<1>6. CASE UNCHANGED vars
  BY <1>6 DEF vars, PeriodsTypeOK
<1>7. ASSUME NEW t \in Tabs, NEW m \in Months, IsDecember(m), NewBooking(t, m)
      PROVE  dialog' \in [Tabs -> Dialogues \cup {None}] /\ UNCHANGED job
  <2>1. PICK n \in Ids : n = nextId
    BY <1>7 DEF NewBooking, CreateBooking
  <2>2. booking'[n] = [period |-> YearOf(m), retired |-> FALSE, key |-> None]
    BY <1>7, <2>1 DEF NewBooking, CreateBooking, PeriodsTypeOK
  <2>3. booking'[n] \in Bookings /\ Show(t, n)
    BY <1>7, <2>1, <2>2, YearsArePeriods DEF NewBooking, Bookings
  <2> QED BY <1>2, <1>7, <2>3 DEF NewBooking
<1>8. ASSUME NEW t \in Tabs, NEW b \in Ids, OpenDialog(t, b)
      PROVE  dialog' \in [Tabs -> Dialogues \cup {None}] /\ UNCHANGED job
  <2>1. [id |-> b, period |-> booking[b].period] \in Dialogues
    BY <1>5, <1>8 DEF OpenDialog, Dialogues
  <2> QED BY <1>8, <2>1 DEF OpenDialog, PeriodsTypeOK
<1>9. ASSUME NEW t \in Tabs, SaveDialog(t)
      PROVE  UNCHANGED <<dialog, job>>
  BY <1>9 DEF SaveDialog
<1>10. ASSUME NEW t \in Tabs, NEW p \in Typed, TypePeriod(t, p)
       PROVE  dialog' \in [Tabs -> Dialogues \cup {None}] /\ UNCHANGED job
  <2>1. PICK b \in Ids : b = dialog[t].id /\ b \in Stored
    BY <1>10 DEF TypePeriod, SaveBooking, Stored
  <2>2. booking'[b] # None
    BY <1>10, <2>1, NoneIsNothing, PeriodsAreTyped
    DEF TypePeriod, SaveBooking, PeriodsTypeOK, Stored, Bookings
  <2>3. booking'[b] \in Bookings /\ Show(t, b)
    BY <1>10, <2>1, <2>2 DEF TypePeriod, SaveBooking, BookTypeOK, Show
  <2> QED BY <1>2, <1>10, <2>3 DEF TypePeriod
<1>11. ASSUME NEW t \in Tabs, NEW m \in Months, ChangePrice(t, m)
       PROVE  dialog' \in [Tabs -> Dialogues \cup {None}] /\ UNCHANGED job
  <2>1. PICK n \in Ids, b \in Ids : n = nextId /\ b = dialog[t].id /\ b \in Stored
    BY <1>11 DEF ChangePrice, ChangeAmountFrom, Stored
  <2>2. booking'[n] = NewPrice(b, m)
    BY <1>11, <2>1 DEF ChangePrice, ChangeAmountFrom, PeriodsTypeOK
  <2>3. NewPrice(b, m) \in Bookings
    <3>1. booking[b] \in Bookings
      BY <2>1 DEF PeriodsTypeOK, Stored
    <3>2. [booking[b].period EXCEPT !.from = m] \in Periods
      BY <3>1 DEF Bookings, Periods
    <3>3. NewPrice(b, m) = [booking[b] EXCEPT !.period = [booking[b].period EXCEPT !.from = m],
                                              !.key = None]
      BY DEF NewPrice
    <3> QED BY <3>1, <3>2, <3>3 DEF Bookings
  <2> QED BY <1>2, <1>11, <2>1, <2>2, <2>3 DEF ChangePrice, Show
<1>12. ASSUME NEW j \in Jobs, NEW key \in Keys, NEW body \in Bodies, FindKey(j, key, body)
       PROVE  job' \in [Jobs -> Found \cup {None}] /\ UNCHANGED dialog
  <2>1. ASSUME NEW b \in Stored
        PROVE  [id |-> b, key |-> key, period |-> Replaced(booking[b].period, body)] \in Found
    BY <1>3, <1>5 DEF Found, Stored
  <2>2. [id |-> None, key |-> key,
         period |-> Replaced([from |-> Beginning, until |-> Forever], body)] \in Found
    BY <1>3, <1>4 DEF Found
  <2> QED BY <1>12, <2>1, <2>2 DEF FindKey, PeriodsTypeOK
<1>13. ASSUME NEW j \in Jobs, NEW b \in Ids, NEW body \in Bodies, FindId(j, b, body)
       PROVE  job' \in [Jobs -> Found \cup {None}] /\ UNCHANGED dialog
  <2>1. [id |-> b, key |-> booking[b].key, period |-> Replaced(booking[b].period, body)] \in Found
    BY <1>3, <1>5, <1>13 DEF FindId, Found
  <2> QED BY <1>13, <2>1 DEF FindId, PeriodsTypeOK
<1>14. ASSUME NEW j \in Jobs, StoreNew(j) \/ StoreFound(j) \/ RefuseJob(j)
       PROVE  job' \in [Jobs -> Found \cup {None}] /\ UNCHANGED dialog
  BY <1>14 DEF StoreNew, StoreFound, RefuseJob, FinishJob, PeriodsTypeOK
<1>15. ASSUME NEW b \in Ids, DeleteBooking(b)
       PROVE  UNCHANGED <<dialog, job>>
  BY <1>15 DEF DeleteBooking
<1>16. ASSUME NEW ids \in SUBSET Ids, NEW m \in Months, ExtendBookings(ids, m)
       PROVE  UNCHANGED <<dialog, job>>
  BY <1>16 DEF ExtendBookings
<1> QED
  BY <1>1, <1>6, <1>7, <1>8, <1>9, <1>10, <1>11, <1>12, <1>13, <1>14, <1>15, <1>16
  DEF Next, Dialogs, Upserts, PeriodsTypeOK

\* The empty book.
LEMMA InitBook == Init => IInv
<1> SUFFICES ASSUME Init PROVE IInv
  OBVIOUS
<1>1. Stored = {}
  BY DEF Init, Stored
<1>2. PeriodsTypeOK /\ BookTypeOK
  BY <1>1, Numbers DEF Init, PeriodsTypeOK, BookTypeOK
<1>3. IdsInOrder
  BY Numbers DEF Init, IdsInOrder, Ids
<1>4. OneCurrentPrice /\ CountedOnce /\ CurrentPriceIsLast /\ AlwaysCarriedOn
  BY <1>1 DEF OneCurrentPrice, CountedOnce, CurrentPriceIsLast, AlwaysCarriedOn, Relatives
<1> QED BY <1>2, <1>3, <1>4 DEF IInv, BookInv

\* The invariant is inductive, and no step loses a month.
LEMMA NextBook ==
    ASSUME IInv, [Next]_vars
    PROVE  IInv' /\ KeepsPlans
<1>1. Steps
  BY StepsOfTheBook DEF IInv
<1>2. BookInv' /\ KeepsPlans
  BY <1>1, UntouchedKeeps, CreatedKeeps, SavedKeeps, DeletedKeeps, ChangedKeeps, CarriedKeeps
  DEF Steps, IInv
<1>3. PeriodsTypeOK'
  BY <1>2, ReadersKeep DEF IInv, BookInv
<1> QED BY <1>2, <1>3 DEF IInv

LEMMA BookHolds == Spec => []IInv
BY InitBook, NextBook, PTL DEF Spec

\* Periods stay within the calendar and are never turned around.
THEOREM PeriodsTyped == Spec => []PeriodsTypeOK
BY BookHolds, PTL DEF IInv

\* One price of a booking at most is carried into the next year.
THEOREM OnePriceCarried == Spec => []OneCurrentPrice
<1>1. IInv => OneCurrentPrice
  BY DEF IInv, BookInv
<1> QED BY <1>1, BookHolds, PTL

\* No month counts two prices of a booking whose periods nobody rewrote.
THEOREM PricesCountedOnce == Spec => []CountedOnce
<1>1. IInv => CountedOnce
  BY DEF IInv, BookInv
<1> QED BY <1>1, BookHolds, PTL

\* ... and the price that is carried on is the last one.
THEOREM LastPriceCarried == Spec => []CurrentPriceIsLast
<1>1. IInv => CurrentPriceIsLast
  BY DEF IInv, BookInv
<1> QED BY <1>1, BookHolds, PTL

\* A booking nobody cut or rewrote always has a price that can be carried on.
THEOREM CarriedOn == Spec => []AlwaysCarriedOn
<1>1. IInv => AlwaysCarriedOn
  BY DEF IInv, BookInv
<1> QED BY <1>1, BookHolds, PTL

\* No step makes such a booking lose a month that is planned.
THEOREM NoMonthLost == Spec => NothingLost
<1>1. IInv => \A b \in Stored : family[b] \in Ids
  BY DEF IInv, PeriodsTypeOK, Stored
<1>2. IInv /\ [Next]_vars => [\A f \in {family[b] : b \in Stored} :
                                 f \notin rewritten' \cup cut' => Planned(f) \subseteq Planned(f)']_vars
  BY <1>1, NextBook DEF KeepsPlans
<1> QED BY <1>2, BookHolds, PTL DEF Spec, NothingLost
=============================================================================
