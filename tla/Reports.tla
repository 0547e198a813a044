------------------------------- MODULE Reports -------------------------------
(***************************************************************************)
(* The reports of a household (internal/calc): what every booking costs in *)
(* a month and who carries it, months and periods, fixed costs, the        *)
(* settlement, the cost lines, the matrix of the year and the charts.      *)
(*                                                                         *)
(* Nothing of it is stored: every report is worked out from the state of   *)
(* HouseholdBook on one of three bases, the plans, the payments, or the    *)
(* payments of the closed months and the plans of the others.              *)
(*                                                                         *)
(* The value of a booking is a record; the shares, and what a breakdown    *)
(* adds up, are sets of pairs <<whose, cents>>.                            *)
(***************************************************************************)
EXTENDS HouseholdBook

Everyone == 0
Bases == {"plan", "actual", "hybrid"}

-----------------------------------------------------------------------------
(***************************************************************************)
(* What counts in a month.                                                 *)
(***************************************************************************)
ActualMonth(basis, m) ==
    \/ basis = "actual"
    \/ basis = "hybrid" /\ m < Current /\ m \in closed

OpenMonthToo(basis, m) == ActualMonth(basis, m)
KnownMonth(basis, m) == ActualMonth(basis, m) /\ m \in closed

Source(basis, m) ==
    CASE KnownMonth(basis, m)  -> "actual"
      [] ActualMonth(basis, m) /\ m \notin closed -> "actual_partial"
      [] ~ActualMonth(basis, m) /\ basis = "hybrid" /\ m < Current -> "plan_estimate"
      [] OTHER -> "plan"

\* An accepted payment reads like a booking that happens once.
PlanEntry(b) == [id |-> b, booking |-> booking[b], overrides |-> OverridesOf(b)]
PaymentEntry(p, splits) ==
    LET row == Statement[p]
    IN  [id |-> p, overrides |-> {},
         booking |-> [direction |-> row.direction, category |-> row.category,
                      nature |-> row.nature, class |-> row.class, settle |-> row.settle,
                      payer |-> row.owner, frequency |-> "once", interval |-> 1,
                      amount |-> row.amount, from |-> row.month, until |-> Forever,
                      mode |-> "fixed",
                      splits |-> [i \in Holders(splits) |-> Part(splits, i)]]]

ActiveIn(b, m) == IF b.frequency = "once" THEN b.from = m ELSE Covers(b, m)

PaymentsIn(m) == {PaymentEntry(p, payment[p].splits) : p \in AcceptedIn(m)}
PlansIn(m) == {PlanEntry(b) : b \in {x \in Stored : ActiveIn(booking[x], m)}}
Entries(basis, m) == IF ActualMonth(basis, m) THEN PaymentsIn(m) ELSE PlansIn(m)

-----------------------------------------------------------------------------
(***************************************************************************)
(* The value of a booking in a month.                                      *)
(***************************************************************************)
Factor(b) ==
    CASE b.frequency = "weekly"    -> <<52, 12 * b.interval>>
      [] b.frequency = "monthly"   -> <<1, b.interval>>
      [] b.frequency = "quarterly" -> <<1, 3 * b.interval>>
      [] b.frequency = "yearly"    -> <<1, 12 * b.interval>>
      [] b.frequency = "once"      -> <<1, 1>>

\* What members carry before whole cents are made of it: raw / scale.
Claims(b, amount, cents) ==
    LET who == DOMAIN b.splits
    IN  CASE b.mode = "percent" ->
                 [scale |-> 100,
                  raw |-> [i \in {j \in who : ClampPercent(b.splits[j]) > 0} |->
                               cents * ClampPercent(b.splits[i])]]
          [] b.mode = "fixed" ->
                 [scale |-> Factor(b)[2],
                  raw |-> [i \in {j \in who : b.splits[j] # 0 \/ amount = 0} |->
                               b.splits[i] * Factor(b)[1]]]
          [] b.mode = "equal" ->
                 [scale |-> Max({1, Cardinality(who)}), raw |-> [i \in who |-> cents]]

ClaimedCents(claims) == RoundAmount(SumFunction(claims.raw), claims.scale)

Valued(id, b, m, cents, shares, complete) ==
    [id |-> id, booking |-> b, month |-> m, cents |-> cents, shares |-> shares,
     unassigned |-> cents - Total(shares), complete |-> complete]

EvaluateBooking(entry, m) ==
    LET b == entry.booking
        amount == AmountFor(b, entry.overrides, m)
        cents == RoundAmount(amount * Factor(b)[1], Factor(b)[2])
        claims == Claims(b, amount, cents)
        complete == CompleteSplit(b, amount)
        target == IF complete /\ DOMAIN claims.raw # {} THEN cents ELSE ClaimedCents(claims)
    IN  Valued(entry.id, b, m, cents, BalancedCents(claims.raw, claims.scale, target), complete)

MonthValues(basis, m) == {EvaluateBooking(e, m) : e \in Entries(basis, m)}

\* Every month is evaluated once, and all reports of a request are made of the result.
Prepare(basis) == UNION {MonthValues(basis, m) : m \in Months}
Of(values, m) == {v \in values : v.month = m}
Within(values, months) == {v \in values : v.month \in months}

-----------------------------------------------------------------------------
(***************************************************************************)
(* Values of a period, one for each booking, and of a typical month in it. *)
(***************************************************************************)
Amount(values) == SumFunction([v \in values |-> v.cents])
Side(values, direction) == {v \in values : v.booking.direction = direction}
Unassigned(values) == SumFunction([v \in values |-> v.unassigned])
SharesOf(values, i) == SumFunction([v \in values |-> Part(v.shares, i)])

Totals(values) ==
    {LET same == {v \in values : v.id = id}
         any == CHOOSE v \in same : TRUE
         carriers == UNION {Holders(v.shares) : v \in same}
     IN  Valued(id, any.booking, 0, Amount(same), {<<i, SharesOf(same, i)>> : i \in carriers},
                \A v \in same : v.complete)
     : id \in {v.id : v \in values}}

AsFunction(pairs) == [i \in Holders(pairs) |-> Part(pairs, i)]

\* The mean of each direction is divided among its bookings.
OneByOne(totals, n) == {<<v.id, RoundAmount(v.cents, n)>> : v \in totals}
MeanAmounts(totals, n) ==
    LET Amounts(side) == BalancedCents(AsFunction({<<v.id, v.cents>> : v \in side}), n,
                                       Quotient(Amount(side), n))
    IN  Amounts(Side(totals, "income")) \cup Amounts(Side(totals, "expense"))

Averages(totals, n) ==
    LET amounts == MeanAmounts(totals, n)
        Average(v) ==
            LET cents == Part(amounts, v.id)
                target == IF v.complete THEN cents ELSE Quotient(Total(v.shares), n)
            IN  Valued(v.id, v.booking, 0, cents,
                       BalancedCents(AsFunction(v.shares), n, target), v.complete)
    IN  IF n = 0 THEN {} ELSE {Average(v) : v \in totals}

Typical(values, months) == Averages(Totals(Within(values, months)), Cardinality(months))

-----------------------------------------------------------------------------
(***************************************************************************)
(* Reports of a month or of a period, for a member or for everyone.        *)
(***************************************************************************)
Carries(v, member) == member = Everyone \/ member \in Holders(v.shares)
Scoped(v, member) == IF member = Everyone THEN v.cents ELSE Part(v.shares, member)
InScope(values, member) == SumFunction([v \in values |-> Scoped(v, member)])

IncomeForScope(b, member) ==
    b.direction = "income" /\ (member = Everyone \/ member \in DOMAIN b.splits)

\* Sums by a property of the bookings; a table leaves out what adds up to zero.
SumsBy(values, member, field) ==
    {<<k, InScope({v \in values : v.booking[field] = k}, member)>> :
        k \in {v.booking[field] : v \in values}}
Listed(sums) == {s \in sums : s[2] # 0}
At(sums, k) == Part(sums, k)

BuildReport(values, member) ==
    LET mine == {v \in values : Carries(v, member)}
        income == InScope(Side(mine, "income"), member)
        costs == Side(mine, "expense")
        expense == InScope(costs, member)
    IN  [recorded |-> \E v \in values : IncomeForScope(v.booking, member),
         income |-> income, expense |-> expense, balance |-> income - expense,
         unassigned |-> IF member # Everyone THEN 0
                        ELSE Unassigned(costs),
         members |-> {[id |-> i, income |-> SharesOf(Side(mine, "income"), i),
                       expense |-> SharesOf(costs, i)] :
                         i \in IF member = Everyone THEN members ELSE members \cap {member}},
         incomeCategories |-> Listed(SumsBy(Side(mine, "income"), member, "category")),
         categories |-> Listed(SumsBy(costs, member, "category")),
         natures |-> SumsBy(costs, member, "nature"),
         classes |-> SumsBy(costs, member, "class")]

BuildMonthReport(values, basis, m, member) ==
    [BuildReport(Of(values, m), member) EXCEPT !.recorded = @ \/ KnownMonth(basis, m)]

PeriodReport(values, basis, months, member) ==
    IF Cardinality(months) = 1
    THEN BuildMonthReport(values, basis, CHOOSE m \in months : TRUE, member)
    ELSE BuildReport(Typical(values, months), member)

MonthsWithIncome(basis, months, member) ==
    {m \in months : \/ KnownMonth(basis, m)
                    \/ \E e \in Entries(basis, m) : IncomeForScope(e.booking, member)}

FixedCosts(values, months, member) ==
    {[id |-> v.id, cents |-> Scoped(v, member)] :
        v \in {x \in Side(Typical(values, months), "expense") :
                   x.booking.nature = "fix" /\ Carries(x, member) /\ Scoped(x, member) # 0}}

-----------------------------------------------------------------------------
(***************************************************************************)
(* Who owes whom, and who carries which costs.                             *)
(***************************************************************************)
SharesOfMembers(v) == \A s \in v.shares : s[1] \in members /\ s[2] >= 0
ValidShares(v) == v.complete /\ \A s \in v.shares : s[1] \in members /\ s[2] >= 0

PayerCarriesAlone(v) ==
    v.booking.payer # None /\ v.complete /\ Holders(v.shares) = {v.booking.payer}

Settlement(values) ==
    LET claimed == {v \in Side(values, "expense") :
                        v.booking.settle /\ v.booking.payer # None /\ DOMAIN v.booking.splits # {}}
        invalid == {v \in claimed : v.booking.payer \notin members \/ ~ValidShares(v)}
        lines == {v \in claimed \ invalid : ~PayerCarriesAlone(v) /\ v.cents # 0}
        net == [i \in members |-> Amount({v \in lines : v.booking.payer = i}) - SharesOf(lines, i)]
    IN  [lines |-> lines, invalid |-> invalid,
         positions |-> {<<i, net[i]>> : i \in members},
         transfers |-> IF invalid = {} THEN Transfers(net) ELSE {}]

\* What a booking does to the position of a member.
Ledger(lines, i) ==
    {[id |-> v.id, net |-> (IF v.booking.payer = i THEN v.cents ELSE 0) - Part(v.shares, i)] :
        v \in {x \in lines : (x.booking.payer = i /\ x.cents # 0) \/ Part(x.shares, i) # 0}}

Costs(values) ==
    LET lines == {v \in Side(values, "expense") : v.shares # {} /\ ValidShares(v)}
    IN  [lines |-> lines, invalid |-> Side(values, "expense") \ lines]

Shared(v) == Cardinality(v.shares) > 1
CarriedBy(lines, member) ==
    [shared |-> InScope({v \in lines : Shared(v)}, member),
     sole |-> InScope({v \in lines : ~Shared(v)}, member),
     fixed |-> InScope({v \in lines : v.booking.nature = "fix"}, member)]

LinesFor(lines, member) ==
    {v \in lines : member = Everyone \/ (Carries(v, member) /\ (Scoped(v, member) # 0 \/ v.cents = 0))}

-----------------------------------------------------------------------------
(***************************************************************************)
(* The matrix: categories and bookings in rows, months in columns.         *)
(***************************************************************************)
Bands == {"income", "fixed", "variable"}
BandOf(b) ==
    IF b.direction = "income" THEN "income" ELSE IF b.nature = "fix" THEN "fixed" ELSE "variable"

\* The cell of a row with just k cells below it.
Ranked(cells, k) ==
    CHOOSE c \in cells :
        k = Cardinality({x \in cells : x[2] < c[2] \/ (x[2] = c[2] /\ x[1] < c[1])})
Median(cells) ==
    LET n == Cardinality(cells)
    IN  IF n % 2 = 1 THEN Ranked(cells, n \div 2)[2]
        ELSE Quotient(Ranked(cells, n \div 2 - 1)[2] + Ranked(cells, n \div 2)[2], 2)

Summarize(cells, active) ==
    LET ran == {c \in cells : c[1] \in active}
        n == Cardinality(ran)
    IN  [cells |-> cells, active |-> active, total |-> Total(cells),
         mean |-> IF n = 0 THEN 0 ELSE Quotient(Total(cells), n),
         median |-> IF n = 0 THEN 0 ELSE Median(ran)]

Row(values, member, alsoActive) ==
    Summarize({<<m, InScope({v \in values : v.month = m}, member)>> : m \in Months},
              {v.month : v \in values} \cup alsoActive)

BuildMatrix(values, basis, member) ==
    LET seen == {v \in values : Carries(v, member) \/ IncomeForScope(v.booking, member)}
        known == {m \in Months : KnownMonth(basis, m)}
        Children(of) ==
            LET ids == {v.id : v \in of}
            IN  IF Cardinality(ids) <= 1 THEN {}
                ELSE {[id |-> i, row |-> Row({v \in of : v.id = i}, member, {})] : i \in ids}
        Category(of, c) == [category |-> c, row |-> Row(of, member, known), children |-> Children(of)]
        Band(of) == [rows |-> {Category({v \in of : v.booking.category = c}, c) :
                                   c \in {v.booking.category : v \in of}},
                     total |-> Row(of, member, known)]
        costs == Side(seen, "expense")
        income == Row(Side(seen, "income"), member, known)
        Surplus(m) == IF m \notin income.active THEN 0
                      ELSE At(income.cells, m) - InScope({v \in costs : v.month = m}, member)
    IN  [bands |-> {[band |-> k, of |-> Band({v \in seen : BandOf(v.booking) = k})] : k \in Bands},
         expense |-> Row(costs, member, known),
         surplus |-> Summarize({<<m, Surplus(m)>> : m \in Months}, income.active)]

-----------------------------------------------------------------------------
(***************************************************************************)
(* The charts, without their layout.                                       *)
(***************************************************************************)
\* A column of the stacked chart holds the groups that cost something.
StackColumn(values, member, field) ==
    {s \in SumsBy({v \in Side(values, "expense") : Carries(v, member)}, member, field) : s[2] > 0}

\* Months without an income entry have no bar for it and no point of the line.
TrendLine(values, basis, member) ==
    LET trend == {<<m, BuildMonthReport(values, basis, m, member)>> : m \in Months}
    IN  {<<t[1], t[2].balance>> : t \in {x \in trend : x[2].recorded}}

Link(from, to, cents) == IF cents > 0 THEN {[from |-> from, to |-> to, cents |-> cents]} ELSE {}

\* Leaves below two hundredths of the flow are drawn as one.
Fan(class, leaves, threshold) ==
    (UNION {Link(<<"class", class>>, <<"leaf", class, l[1]>>, l[2]) :
                l \in {x \in leaves : x[2] >= threshold}})
        \cup Link(<<"class", class>>, <<"rest", class>>, Total({x \in leaves : x[2] < threshold}))

BuildSankey(report, values, member) ==
    LET threshold == Quotient(2 * Max({report.income, report.expense}), 100)
        costs == {v \in Side(values, "expense") : Carries(v, member)}
        Leaves(class) ==
            {s \in SumsBy({v \in costs : v.booking.class = class}, member, "category") : s[2] > 0}
        drawn == {c \in report.classes : c[2] > 0}
    IN  IF report.income <= 0 /\ report.expense <= 0 THEN {}
        ELSE (UNION {Link(<<"in", s[1]>>, <<"trunk">>, s[2]) : s \in report.incomeCategories})
                 \cup Link(<<"withdrawal">>, <<"trunk">>, report.expense - report.income)
                 \cup (UNION {Link(<<"trunk">>, <<"class", c[1]>>, c[2]) : c \in drawn})
                 \cup (UNION {Fan(c[1], Leaves(c[1]), threshold) : c \in drawn})
                 \cup Link(<<"trunk">>, <<"surplus">>, report.balance)

Inflow(links, node) == SumFunction([l \in {k \in links : k.to = node} |-> l.cents])
Outflow(links, node) == SumFunction([l \in {k \in links : k.from = node} |-> l.cents])

-----------------------------------------------------------------------------
(***************************************************************************)
(* Properties.                                                             *)
(***************************************************************************)
Elapsed == {m \in Months : m <= Current}
Reported ==
    {MonthValues(basis, m) : basis \in Bases, m \in Months}
        \cup {Typical(Prepare(basis), Months) : basis \in Bases}
        \cup {Totals(Within(Prepare(basis), Elapsed)) : basis \in Bases}

\* What the members carry and what nobody carries is what the household spends, and
\* what a complete booking costs is carried to the last cent.
PartsMakeTheWhole(values) ==
    LET all == BuildReport(values, Everyone)
        each == [i \in members |-> BuildReport(values, i)]
        costs == Costs(values)
        unclaimed == Unassigned(Side(values, "income"))
    IN  /\ all.expense = SumFunction([i \in members |-> each[i].expense]) + all.unassigned
        /\ all.income = SumFunction([i \in members |-> each[i].income]) + unclaimed
        /\ \A v \in values : v.complete => v.unassigned = 0
        /\ all.expense = Amount(costs.lines) + Amount(costs.invalid)
        /\ Total(all.natures) = all.expense /\ Total(all.classes) = all.expense
        /\ costs.invalid = {} => \A i \in members :
               LET carried == CarriedBy(costs.lines, i)
               IN  /\ carried.shared + carried.sole = each[i].expense
                   /\ carried.fixed = At(each[i].natures, "fix")
                   /\ InScope(LinesFor(costs.lines, i), i) = each[i].expense

MeanOf(sum, months) == Quotient(sum, Cardinality(months))

\* No cent is lost or made where amounts are divided among members (evaluation.go), and
\* the typical month of a period is the mean of its months.
CentsAddUp ==
    /\ \A values \in Reported : PartsMakeTheWhole(values)
    /\ \A basis \in Bases :
           LET values == Prepare(basis)
               typical == PeriodReport(values, basis, Months, Everyone)
           IN  /\ typical.income = MeanOf(Amount(Side(values, "income")), Months)
               /\ typical.expense = MeanOf(Amount(Side(values, "expense")), Months)

\* The transfers of a settlement (settlement.go) leave nobody with a claim or a debt, with
\* at most one payment per member less one, there are none while a booking is invalid, and
\* the lines listed for a member add up to its position.
SettlementSquares ==
    \A values \in Reported :
        LET s == Settlement(values)
            Net(i) == Part(s.positions, i)
            Got(i) == SumFunction([t \in {u \in s.transfers : u.to = i} |-> t.cents])
            Gave(i) == SumFunction([t \in {u \in s.transfers : u.from = i} |-> t.cents])
        IN  /\ SumFunction([i \in members |-> Net(i)]) = 0
            /\ \A i \in members : Net(i) = SumFunction([l \in Ledger(s.lines, i) |-> l.net])
            /\ s.invalid = {} => \A i \in members : Got(i) - Gave(i) = Net(i)
            /\ s.invalid # {} => s.transfers = {}
            /\ s.transfers # {} => Cardinality(s.transfers) < Cardinality(members)
            /\ \A t \in s.transfers : t.cents > 0

\* What the reports say of a closed month that has passed does not change while it stays
\* closed, whatever happens to plans, temporary amounts, members and other months
\* (basis.go: closed months show payments, and bank_reconcile.go keeps those).
StandsStill(m) == MonthValues("hybrid", m)' = MonthValues("hybrid", m)
ClosedReportsStand ==
    [][\A m \in closed \cap closed' : m < Current => StandsStill(m)]_vars
=============================================================================
