---------------------------- MODULE HouseholdBook ----------------------------
(***************************************************************************)
(* What the reports of a household are made of: the planned bookings with  *)
(* their shares and temporary amounts (internal/store/bookings.go), the    *)
(* members (members.go), the categories (categories.go), the payments of   *)
(* its bank statements and the months that are closed (bank_reconcile.go,  *)
(* as BankLedger has them).                                                *)
(*                                                                         *)
(* Plans, members, categories, payments and months are edited in any       *)
(* order, with no regard to the reports.  Periods are months               *)
(* (BookingPeriods has the days, carrying and retired prices), shares are  *)
(* whole percents or cents, the statements of the months are imported      *)
(* already, and a pending payment has no draft allocation (BankLedger has  *)
(* drafts).  A category sorts incomes or expenses, and may be turned to    *)
(* the other side while it is used.                                        *)
(***************************************************************************)
EXTENDS Cents

CONSTANTS
    Persons,      \* ids of members
    LastMonth,
    Current,      \* the month it is
    MaxBookings,  \* bound on the bookings ever created
    MaxOverrides, \* bound on the temporary amounts at one time
    Forms,        \* what is typed into the dialog of a booking
    Spans,        \* periods and amounts typed for a temporary amount
    Prices,       \* amounts typed for a lasting price change
    Categories,   \* ids of categories
    Catalog,      \* those there are at first, with what they sort
    CategoryForms, \* what is typed for a category; no other one is edited
    Payments,     \* ids of payments, below zero as in the reports
    Statement,    \* what the bank says of a payment, and what it is reviewed as
    None

Months == 1..LastMonth
Ids == 1..MaxBookings

\* Empty dates: open towards the past and towards the future.
Beginning == 0
Forever == LastMonth + 1

\* A booking has these fields, and so has what is typed for one.
Fields == {"direction", "category", "class", "nature", "settle", "payer", "frequency",
           "interval", "amount", "from", "until", "mode", "splits"}
Directions == {"income", "expense"}
Frequencies == {"once", "weekly", "monthly", "quarterly", "yearly"}
Modes == {"equal", "percent", "fixed"}

ASSUME IdsAreApart ==
    /\ Persons \subseteq Nat \ {0} /\ IsFiniteSet(Persons)
    /\ Payments \subseteq Int /\ IsFiniteSet(Payments) /\ \A p \in Payments : p < 0
    /\ LastMonth \in Nat \ {0} /\ Current \in Nat /\ MaxBookings \in Nat /\ MaxOverrides \in Nat
    /\ None \notin Persons
ASSUME CategoriesAreTyped ==
    /\ None \notin Categories /\ None \notin Directions
    /\ Catalog \in [Categories -> Directions \cup {None}]
    /\ \A f \in CategoryForms : f.category \in Categories /\ f.direction \in Directions
ASSUME FormsAreTyped ==
    \A f \in Forms : /\ DOMAIN f = Fields
                     /\ f.direction \in Directions /\ f.category \in Categories
                     /\ f.frequency \in Frequencies /\ f.interval \in 1..60
                     /\ f.amount \in Int
                     /\ f.from \in {Beginning} \cup Months
                     /\ f.until \in Months \cup {Forever} /\ f.from <= f.until
                     /\ f.frequency = "once" => f.from # Beginning
                     /\ f.mode \in Modes
                     /\ f.splits \in [DOMAIN f.splits -> Int]
                     /\ DOMAIN f.splits \subseteq Persons
ASSUME AmountsAreTyped ==
    /\ \A s \in Spans : /\ s.from \in {Beginning} \cup Months
                        /\ s.until \in Months \cup {Forever} /\ s.from <= s.until
                        /\ s.amount \in Int
    /\ Prices \subseteq Int
ASSUME StatementIsTyped ==
    \A p \in Payments : /\ Statement[p].month \in Months /\ Statement[p].amount \in Nat
                        /\ Statement[p].owner \in Persons
                        /\ Statement[p].direction \in Directions
                        /\ Statement[p].category \in Categories

VARIABLES
    members,
    catalog,     \* what each category sorts, None when there is none
    classified,  \* history: what each ever sorted
    booking,     \* planned bookings by id, None when there is none
    nextId,      \* the id of the next booking, never handed out twice
    overrides,   \* temporary amounts of bookings
    payment,     \* what was decided about each payment
    closed       \* reconciled months

categories == <<catalog, classified>>
plans == <<booking, nextId, overrides>>
vars == <<members, categories, plans, payment, closed>>

Stored == {b \in Ids : booking[b] # None}
OverridesOf(b) == {o \in overrides : o.booking = b}

Decided(decision, splits, c) == [decision |-> decision, splits |-> splits, category |-> c]
Undecided == Decided("pending", {}, None)
AcceptedIn(m) == {p \in Payments : payment[p].decision = "accepted" /\ Statement[p].month = m}
PendingIn(m) == {p \in Payments : payment[p].decision = "pending" /\ Statement[p].month = m}

Init ==
    /\ members = Persons
    /\ catalog = Catalog
    /\ classified = {<<c, Catalog[c]>> : c \in {x \in Categories : Catalog[x] # None}}
    /\ booking = [b \in Ids |-> None]
    /\ nextId = 1
    /\ overrides = {}
    /\ payment = [p \in Payments |-> Undecided]
    /\ closed = {}

-----------------------------------------------------------------------------
(***************************************************************************)
(* Plans.  References to anybody who is no member of the household are     *)
(* dropped by the statements that write them.  The category is checked     *)
(* before, against a list that may be old when the booking is stored.      *)
(***************************************************************************)
Offered(form) == catalog[form.category] # None
Sorted(form) == Offered(form) /\ <<form.category, form.direction>> \in classified

Resolved(form) ==
    [form EXCEPT !.splits = Restrict(@, DOMAIN @ \cap members),
                 !.payer = IF @ \in members THEN @ ELSE None]

CreateBooking(form) ==
    /\ nextId \in Ids
    /\ Sorted(form)
    /\ booking' = [booking EXCEPT ![nextId] = Resolved(form)]
    /\ nextId' = nextId + 1
    /\ UNCHANGED <<members, categories, overrides, payment, closed>>

SaveBooking(b, form) ==
    /\ b \in Stored
    /\ Sorted(form)
    /\ booking' = [booking EXCEPT ![b] = Resolved(form)]
    /\ UNCHANGED <<members, categories, nextId, overrides, payment, closed>>

DeleteBooking(b) ==
    /\ b \in Stored
    /\ booking' = [booking EXCEPT ![b] = None]
    /\ overrides' = overrides \ OverridesOf(b)
    /\ UNCHANGED <<members, categories, nextId, payment, closed>>

Latest == {o.id : o \in overrides} \cup {0}
Typed(id, b, span) ==
    [id |-> id, booking |-> b, from |-> span.from, until |-> span.until, amount |-> span.amount]

CreateOverride(b, span) ==
    /\ b \in Stored
    /\ Cardinality(overrides) < MaxOverrides
    /\ overrides' = overrides \cup {Typed(Max(Latest) + 1, b, span)}
    /\ UNCHANGED <<members, categories, booking, nextId, payment, closed>>

UpdateOverride(o, span) ==
    /\ overrides' = (overrides \ {o}) \cup {Typed(o.id, o.booking, span)}
    /\ UNCHANGED <<members, categories, booking, nextId, payment, closed>>

DeleteOverride(o) ==
    /\ overrides' = overrides \ {o}
    /\ UNCHANGED <<members, categories, booking, nextId, payment, closed>>

\* The old price ends, a copy without its temporary amounts carries the new one.
ChangeAmountFrom(b, m, amount) ==
    /\ nextId \in Ids
    /\ b \in Stored
    /\ booking[b].frequency # "once"
    /\ booking[b].from < m /\ m <= booking[b].until
    /\ booking' = [booking EXCEPT ![b].until = m - 1,
                                  ![nextId] = [booking[b] EXCEPT !.amount = amount, !.from = m]]
    /\ nextId' = nextId + 1
    /\ UNCHANGED <<members, categories, overrides, payment, closed>>

-----------------------------------------------------------------------------
(***************************************************************************)
(* Categories.  A used one stays, but nothing keeps it what it is.         *)
(***************************************************************************)
UsesCategory(c) ==
    \/ \E b \in Stored : booking[b].category = c
    \/ \E p \in Payments : payment[p].category = c

Classify(c, direction) ==
    /\ catalog' = [catalog EXCEPT ![c] = direction]
    /\ classified' = classified \cup {<<c, direction>>}
    /\ UNCHANGED <<members, plans, payment, closed>>

\* Ids are not handed out twice.
CreateCategory(c, direction) ==
    /\ \A d \in Directions : <<c, d>> \notin classified
    /\ Classify(c, direction)

UpdateCategory(c, direction) ==
    /\ catalog[c] # None
    /\ Classify(c, direction)

DeleteCategory(c) ==
    /\ catalog[c] # None
    /\ ~UsesCategory(c)
    /\ catalog' = [catalog EXCEPT ![c] = None]
    /\ UNCHANGED <<members, classified, plans, payment, closed>>

-----------------------------------------------------------------------------
(***************************************************************************)
(* How a booking divides its amount.                                       *)
(***************************************************************************)
ClampPercent(v) == IF v < 0 THEN 0 ELSE Lesser(v, 100)

CompleteSplit(b, amount) ==
    LET values == [i \in DOMAIN b.splits |-> IF b.mode = "percent" THEN ClampPercent(b.splits[i])
                                             ELSE b.splits[i]]
    IN  CASE b.mode = "percent" -> SumFunction(values) = 100
          [] b.mode = "fixed"   -> SumFunction(values) = amount
          [] b.mode = "equal"   -> DOMAIN b.splits # {}

Covers(span, m) == span.from <= m /\ m <= span.until

\* The last of the temporary amounts that cover a month wins.
AmountFor(b, temporary, m) ==
    LET covering == {o \in temporary : Covers(o, m)}
    IN  IF b.frequency = "once" \/ covering = {} THEN b.amount
        ELSE LET last == CHOOSE o \in covering : \A x \in covering :
                             x.from < o.from \/ (x.from = o.from /\ x.id <= o.id)
             IN  last.amount

\* A payment divided like the plan it is matched with; {} if that says nothing.
ActualAllocation(plan, amount) ==
    LET Weight(i) == CASE plan.mode = "percent" -> ClampPercent(plan.splits[i])
                       [] plan.mode = "fixed"   -> plan.splits[i]
                       [] plan.mode = "equal"   -> 1
        carriers == {i \in DOMAIN plan.splits : Weight(i) > 0 \/ (Weight(i) = 0 /\ amount = 0)}
        sum == SumFunction([i \in carriers |-> Weight(i)])
    IN  IF ~CompleteSplit(plan, plan.amount) \/ (sum = 0 /\ amount # 0) THEN {}
        ELSE IF sum = 0 THEN {<<i, 0>> : i \in carriers}
        ELSE BalancedCents([i \in carriers |-> amount * Weight(i)], sum, amount)

-----------------------------------------------------------------------------
(***************************************************************************)
(* Payments: a member who fronted or carries some cannot be deleted, and   *)
(* nothing of a closed month is decided again.                             *)
(***************************************************************************)
AllocationOfOwner(p) == {<<Statement[p].owner, Statement[p].amount>>}

AllocationOfPlan(p, b) ==
    LET m == Statement[p].month
    IN  ActualAllocation([booking[b] EXCEPT !.amount = AmountFor(booking[b], OverridesOf(b), m)],
                         Statement[p].amount)

AllocationOfHistory(p, q) ==
    IF Cardinality(payment[q].splits) = 1
    THEN {<<i, Statement[p].amount>> : i \in Holders(payment[q].splits)}
    ELSE ActualAllocation(
             [amount |-> Statement[q].amount, mode |-> "fixed",
              splits |-> [i \in Holders(payment[q].splits) |-> Part(payment[q].splits, i)]],
             Statement[p].amount)

ValidAllocation(p, splits) ==
    /\ splits # {}
    /\ Holders(splits) \subseteq members
    /\ \A s \in splits : s[2] >= 0
    /\ Total(splits) = Statement[p].amount

MonthIsRunning(m) == m \notin closed \/ m >= Current - 1
MonthIsOpen(m) == m \notin closed

\* What is decided has to be reopened before it is decided again.  The category of a
\* payment has to sort payments like it.
Review(p, decided) ==
    /\ "pending" \in {payment[p].decision, decided.decision}
    /\ MonthIsOpen(Statement[p].month)
    /\ decided.category # None => catalog[decided.category] = Statement[p].direction
    /\ payment' = [payment EXCEPT ![p] = decided]
    /\ UNCHANGED <<members, categories, plans, closed>>

Accept(p, splits) ==
    /\ ValidAllocation(p, splits)
    /\ Review(p, Decided("accepted", splits, Statement[p].category))

\* Kept for later, ignored or reopened; only a pending payment takes its category from the form.
SetAside(p, decision, c) ==
    /\ payment[p].decision # "pending" => c = payment[p].category
    /\ Review(p, Decided(decision, {}, c))

AcceptForOwner(p) == Accept(p, AllocationOfOwner(p))

AcceptAsPlanned(p, b) ==
    /\ b \in Stored
    /\ booking[b].direction = Statement[p].direction
    /\ Accept(p, AllocationOfPlan(p, b))

AcceptAsBefore(p, q) ==
    /\ payment[q].decision = "accepted"
    /\ Statement[q].owner = Statement[p].owner
    /\ Statement[q].direction = Statement[p].direction
    /\ Accept(p, AllocationOfHistory(p, q))

CloseMonth(m) ==
    /\ m < Current
    /\ members # {}
    /\ PendingIn(m) = {}
    /\ closed' = closed \cup {m}
    /\ UNCHANGED <<members, categories, plans, payment>>

ReopenMonth(m) ==
    /\ closed' = closed \ {m}
    /\ UNCHANGED <<members, categories, plans, payment>>

InUse(i) == \E p \in Payments : Statement[p].owner = i \/ i \in Holders(payment[p].splits)

\* The shares of the member go with it, whoever is left.
Bereft(b, i) ==
    [b EXCEPT !.splits = Restrict(@, DOMAIN @ \ {i}), !.payer = IF @ = i THEN None ELSE @]

DeleteMember(i) ==
    /\ i \in members
    /\ ~InUse(i)
    /\ members' = members \ {i}
    /\ booking' = [b \in Ids |-> IF b \in Stored THEN Bereft(booking[b], i) ELSE None]
    /\ UNCHANGED <<categories, nextId, overrides, payment, closed>>

-----------------------------------------------------------------------------
Planning ==
    \/ \E f \in Forms : CreateBooking(f)
    \/ \E b \in Ids, f \in Forms : SaveBooking(b, f)
    \/ \E b \in Ids : DeleteBooking(b)
    \/ \E b \in Ids, s \in Spans : CreateOverride(b, s)
    \/ \E o \in overrides, s \in Spans : UpdateOverride(o, s)
    \/ \E o \in overrides : DeleteOverride(o)
    \/ \E b \in Ids, m \in Months, amount \in Prices : ChangeAmountFrom(b, m, amount)

Reconciling ==
    \/ \E p \in Payments : AcceptForOwner(p)
    \/ \E p \in Payments, b \in Ids : AcceptAsPlanned(p, b)
    \/ \E p, q \in Payments : AcceptAsBefore(p, q)
    \/ \E p \in Payments, decision \in {"pending", "ignored"} :
           \E c \in {None, Statement[p].category} : SetAside(p, decision, c)
    \/ \E m \in Months : CloseMonth(m)
    \/ \E m \in Months : ReopenMonth(m)

EditingCategories ==
    \/ \E f \in CategoryForms : CreateCategory(f.category, f.direction)
    \/ \E f \in CategoryForms : UpdateCategory(f.category, f.direction)
    \/ \E f \in CategoryForms : DeleteCategory(f.category)

Next ==
    \/ Planning
    \/ EditingCategories
    \/ Reconciling
    \/ \E i \in Persons : DeleteMember(i)

Spec == Init /\ [][Next]_vars
=============================================================================
