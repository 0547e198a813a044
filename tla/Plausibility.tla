----------------------------- MODULE Plausibility -----------------------------
(***************************************************************************)
(* The check of the reports against themselves (internal/calc:             *)
(* plausibility*.go).  It validates the stored rows and works the figures  *)
(* out a second time from them, with code of its own for rounding,         *)
(* allocation, activity and sums; a figure of a report that differs is a   *)
(* finding.                                                                *)
(***************************************************************************)
EXTENDS Reports

-----------------------------------------------------------------------------
(***************************************************************************)
(* The stored rows.  Nothing is compared while one of them is wrong.       *)
(***************************************************************************)
SplitTotal(b) == SumFunction(b.splits)

BookingFindings(id) ==
    LET b == booking[id]
        amounts == {b.amount} \cup {o.amount : o \in OverridesOf(id)}
    IN  {<<"data", id, "amount">> : a \in {x \in amounts : x < 0}}
            \cup {<<"data", id, "share">> :
                      i \in {x \in DOMAIN b.splits : b.splits[x] < 0 \/ (b.mode = "percent" /\ b.splits[x] > 100)}}
            \cup {<<"reference", id, "category">> : c \in {x \in {b.category} : catalog[x] # b.direction}}
            \cup {<<"reference", id, "member">> : i \in (DOMAIN b.splits \cup {b.payer}) \ (members \cup {None})}
            \cup {<<"date", id, "period">> : s \in {x \in {b} \cup OverridesOf(id) : x.until < x.from}}

\* The category is looked at whatever was decided.
PaymentFindings(p) ==
    LET decided == payment[p]
        of == Statement[p]
        category == {<<"reference", p, "category">> :
                         c \in {x \in {decided.category} \ {None} : catalog[x] # of.direction}}
        decision ==
            CASE decided.decision = "pending" -> {<<"closedPending", p, "decision">> : m \in closed \cap {of.month}}
              [] decided.decision = "ignored" -> {<<"excluded", p, "share">> : s \in decided.splits}
              [] OTHER ->
                     {<<"reference", p, "decision">> : c \in {decided.category} \cap {None}}
                         \cup {<<"reference", p, "member">> :
                                   s \in {x \in decided.splits : x[1] \notin members \/ x[2] < 0}}
                         \cup {<<"paymentAllocation", p, "share">> :
                                   t \in {Total(decided.splits)} \ {IF decided.splits = {} THEN -1 ELSE of.amount}}
    IN  category \cup decision \cup {<<"reference", p, "owner">> : i \in {of.owner} \ members}

SourceFindings ==
    UNION ({BookingFindings(b) : b \in Stored} \cup {PaymentFindings(p) : p \in Payments})

-----------------------------------------------------------------------------
(***************************************************************************)
(* The reference.  Members in the order of their remainders get the cents. *)
(***************************************************************************)
ReferenceFactor(b) ==
    LET interval == IF b.frequency = "once" THEN 1 ELSE b.interval
    IN  CASE b.frequency = "weekly"    -> <<52, 12 * interval>>
          [] b.frequency = "quarterly" -> <<1, 3 * interval>>
          [] b.frequency = "yearly"    -> <<1, 12 * interval>>
          [] OTHER                     -> <<1, interval>>

ReferenceRounded(n, d) == Quotient(2 * n + d, 2 * d)

\* The elements of S, so that the first of any two precedes the second.
Sorting(S, precedes) ==
    CHOOSE f \in [1..Cardinality(S) -> S] :
        \A i, j \in 1..Cardinality(S) : i < j => <<f[i], f[j]>> \in precedes

\* raw is a set of pairs <<id, amount>> over the scale.
LargerRest(raw, scale) ==
    {x \in raw \X raw : \/ x[1][2] % scale > x[2][2] % scale
                       \/ (x[1][2] % scale = x[2][2] % scale /\ x[1][1] < x[2][1])}
ReferenceAllocate(raw, scale, target) ==
    LET ranked == Sorting(raw, LargerRest(raw, scale))
        missing == target - SumFunction([r \in raw |-> Quotient(r[2], scale)])
    IN  {<<ranked[k][1], Quotient(ranked[k][2], scale) + IF k <= missing THEN 1 ELSE 0>> :
            k \in DOMAIN ranked}

ReferencePayment(p, m) ==
    LET row == PaymentEntry(p, payment[p].splits).booking
        shares == {s \in payment[p].splits : s[2] # 0 \/ row.amount = 0}
    IN  [Valued(p, row, m, row.amount, shares, TRUE) EXCEPT !.unassigned = 0]

Earlier(temporary) ==
    {x \in temporary \X temporary : x[1].from < x[2].from \/ (x[1].from = x[2].from /\ x[1].id < x[2].id)}
ReferenceAmount(b, temporary, m) ==
    LET covering == {o \in temporary : o.from <= m /\ m <= o.until}
        ordered == Sorting(covering, Earlier(covering))
    IN  IF b.frequency = "once" \/ covering = {} THEN b.amount ELSE ordered[Cardinality(covering)].amount

ReferencePlan(id, m) ==
    LET b == booking[id]
        amount == ReferenceAmount(b, OverridesOf(id), m)
        factor == ReferenceFactor(b)
        cents == ReferenceRounded(amount * factor[1], factor[2])
        who == DOMAIN b.splits
        scale == CASE b.mode = "percent" -> 100 [] b.mode = "fixed" -> factor[2]
                   [] b.mode = "equal" -> Max({1, Cardinality(who)})
        Claim(i) == CASE b.mode = "percent" -> cents * b.splits[i]
                      [] b.mode = "fixed" -> b.splits[i] * factor[1] [] b.mode = "equal" -> cents
        skipped == {i \in who : b.splits[i] = 0 /\ (b.mode = "percent" \/ (b.mode = "fixed" /\ amount # 0))}
        raw == {<<i, Claim(i)>> : i \in who \ skipped}
        complete == CASE b.mode = "percent" -> SplitTotal(b) = 100
                      [] b.mode = "fixed" -> SplitTotal(b) = amount [] b.mode = "equal" -> who # {}
        target == IF complete /\ raw # {} THEN cents ELSE ReferenceRounded(Total(raw), scale)
    IN  Valued(id, b, m, cents, ReferenceAllocate(raw, scale, target), complete)

ReferenceActive(b, m) ==
    IF b.frequency = "once" THEN b.from = m ELSE b.from <= m /\ b.until >= m

ReferenceMonth(basis, m) ==
    IF basis = "actual" \/ (basis = "hybrid" /\ m \in closed /\ m < Current)
    THEN {ReferencePayment(p, m) :
             p \in {q \in Payments : payment[q].decision = "accepted" /\ Statement[q].month = m}}
    ELSE {ReferencePlan(b, m) : b \in {x \in Stored : ReferenceActive(booking[x], m)}}

ReferencePeriod(values, n) ==
    LET ids == {v.id : v \in values}
        Same(id) == {v \in values : v.id = id}
        Sample(id) == CHOOSE v \in Same(id) : TRUE
        Sum(id) == SumFunction([v \in Same(id) |-> v.cents])
        Shares(id) == {<<i, SumFunction([v \in Same(id) |-> Part(v.shares, i)])>> :
                          i \in UNION {Holders(v.shares) : v \in Same(id)}}
        Amounts(direction) ==
            LET side == {<<id, Sum(id)>> : id \in {x \in ids : Sample(x).booking.direction = direction}}
            IN  ReferenceAllocate(side, n, Quotient(Total(side), n))
        amounts == Amounts("income") \cup Amounts("expense")
        Mean(id) ==
            LET cents == Part(amounts, id)
                complete == \A v \in Same(id) : v.complete
                target == IF complete THEN cents ELSE Quotient(Total(Shares(id)), n)
            IN  Valued(id, Sample(id).booking, 0, cents, ReferenceAllocate(Shares(id), n, target), complete)
    IN  {Mean(id) : id \in ids}

ReferenceReport(values, member) ==
    LET Cents(v) == IF member = Everyone THEN v.cents ELSE Part(v.shares, member)
        Sum(of) == SumFunction([v \in of |-> Cents(v)])
        income == {v \in values : v.booking.direction = "income"}
        By(of, field) == {<<k, Sum({v \in of : v.booking[field] = k})>> : k \in {v.booking[field] : v \in of}}
        expense == values \ income
    IN  [income |-> Sum(income), expense |-> Sum(expense), balance |-> Sum(income) - Sum(expense),
         unassigned |-> IF member = Everyone THEN SumFunction([v \in expense |-> v.unassigned]) ELSE 0,
         incomeCategories |-> By(income, "category"), categories |-> By(expense, "category"),
         natures |-> By(expense, "nature"), classes |-> By(expense, "class")]

ReferenceSource(basis, m) ==
    IF basis = "actual" \/ (basis = "hybrid" /\ m < Current /\ m \in closed)
    THEN IF m \in closed THEN "actual" ELSE "actual_partial"
    ELSE IF basis = "hybrid" /\ m < Current THEN "plan_estimate" ELSE "plan"

ReferenceCarries(v, member) ==
    \/ member = Everyone
    \/ member \in Holders(v.shares)
    \/ v.booking.direction = "income" /\ member \in DOMAIN v.booking.splits

ReferenceCovered(values, basis, m, member) ==
    \/ ReferenceSource(basis, m) = "actual"
    \/ \E v \in values : v.month = m /\ v.booking.direction = "income" /\ ReferenceCarries(v, member)

-----------------------------------------------------------------------------
(***************************************************************************)
(* Comparisons.                                                            *)
(***************************************************************************)
Leaf(v) == <<v.id, v.cents, v.unassigned, v.shares>>
SameLeaves(want, got) == {Leaf(v) : v \in want} = {Leaf(v) : v \in got}

SameReport(want, got) ==
    /\ want.income = got.income /\ want.expense = got.expense /\ want.balance = got.balance
    /\ want.unassigned = got.unassigned
    /\ Listed(want.classes) = Listed(got.classes) /\ Listed(want.natures) = Listed(got.natures)
    /\ Listed(want.categories) = Listed(got.categories)
    /\ Listed(want.incomeCategories) = Listed(got.incomeCategories)

\* The sum, the mean and the middle of a row of the matrix.
Less(cells) == {x \in cells \X cells : x[1][2] < x[2][2] \/ (x[1][2] = x[2][2] /\ x[1][1] < x[2][1])}
SameFigures(row) ==
    LET cells == {c \in row.cells : c[1] \in row.active}
        ran == Sorting(cells, Less(cells))
        n == Cardinality(cells)
    IN  /\ row.total = Total(row.cells)
        /\ n > 0 => /\ row.mean = Quotient(row.total, n)
                    /\ row.median = IF n % 2 = 1 THEN ran[n \div 2 + 1][2]
                                    ELSE Quotient(ran[n \div 2][2] + ran[n \div 2 + 1][2], 2)

\* A row shows what the values it stands for cost in each month, and when it ran.
SameRow(row, of, member, known) ==
    /\ SameFigures(row)
    /\ row.active = {v.month : v \in of} \cup known
    /\ \A m \in Months : At(row.cells, m) =
           LET in == {v \in of : v.month = m}
           IN  SumFunction([v \in in |-> IF member = Everyone THEN v.cents ELSE Part(v.shares, member)])

SameMatrix(values, matrix, basis, member) ==
    LET known == {m \in Months : ReferenceSource(basis, m) = "actual"}
        carried == {v \in values : ReferenceCarries(v, member)}
        Under(band) == {v \in carried : BandOf(v.booking) = band}
        In(of, c) == {v \in of : v.booking.category = c}
        SameChildren(line, of) ==
            LET ids == {v.id : v \in of}
            IN  /\ {c.id : c \in line.children} = IF Cardinality(ids) > 1 THEN ids ELSE {}
                /\ \A c \in line.children : SameRow(c.row, {v \in of : v.id = c.id}, member, {})
    IN  /\ \A b \in matrix.bands :
              /\ {line.category : line \in b.of.rows} = {v.booking.category : v \in Under(b.band)}
              /\ SameRow(b.of.total, Under(b.band), member, known)
              /\ \A line \in b.of.rows :
                    /\ SameRow(line.row, In(Under(b.band), line.category), member, known)
                    /\ SameChildren(line, In(Under(b.band), line.category))
        /\ SameRow(matrix.expense, {v \in carried : v.booking.direction = "expense"}, member, known)

\* The surplus of a month is told only when its income is known.
SameMonth(values, got, matrix, basis, m, member) ==
    LET want == ReferenceReport(Of(values, m), member)
        covered == ReferenceCovered(values, basis, m, member)
    IN  /\ SameReport(want, got)
        /\ Source(basis, m) = ReferenceSource(basis, m)
        /\ got.recorded = covered
        /\ At(matrix.surplus.cells, m) = IF covered THEN want.balance ELSE 0
        /\ (m \in matrix.surplus.active) = covered

SameStacks(values, made, member) ==
    \A m \in Months, field \in {"category", "class"} :
        Total(StackColumn(Of(made, m), member, field)) = ReferenceReport(Of(values, m), member).expense

\* The dashboard over the months whose income is known, and the flow drawn of it.
SameDashboard(values, made, basis, member) ==
    LET months == {m \in Months : ReferenceCovered(values, basis, m, member)}
        period == ReferencePeriod({v \in values : v.month \in months}, Cardinality(months))
        want == ReferenceReport(IF months = {} THEN {} ELSE period, member)
        got == PeriodReport(made, basis, months, member)
        links == BuildSankey(got, Typical(made, months), member)
        nodes == {l.from : l \in links} \cup {l.to : l \in links}
    IN  /\ MonthsWithIncome(basis, Months, member) = months
        /\ SameReport(want, got)
        /\ SumFunction([f \in FixedCosts(made, months, member) |-> f.cents]) = At(want.natures, "fix")
        /\ Max({0, want.income, want.expense}) = Max({Inflow(links, <<"trunk">>), Outflow(links, <<"trunk">>)})
        /\ \A node \in nodes :
              \/ Inflow(links, node) = 0 \/ Outflow(links, node) = 0
              \/ Inflow(links, node) = Outflow(links, node)

SameScope(values, made, basis, member) ==
    LET matrix == BuildMatrix(made, basis, member)
    IN  /\ \A m \in Months :
              SameMonth(values, BuildMonthReport(made, basis, m, member), matrix, basis, m, member)
        /\ SameFigures(matrix.surplus)
        /\ SameMatrix(values, matrix, basis, member)
        /\ SameStacks(values, made, member)
        /\ SameDashboard(values, made, basis, member)
        /\ \A point \in TrendLine(made, basis, member) :
              point[2] = ReferenceReport(Of(values, point[1]), member).balance
        /\ SameReport(ReferenceReport(ReferencePeriod(values, LastMonth), member),
                      PeriodReport(made, basis, Months, member))

SameSettlement(s) ==
    LET Left(i) == Part(s.positions, i)
                   + SumFunction([t \in {u \in s.transfers : u.from = i} |-> t.cents])
                   - SumFunction([t \in {u \in s.transfers : u.to = i} |-> t.cents])
    IN  /\ Total(s.positions) = 0
        /\ IF s.invalid = {} THEN \A i \in members : Left(i) = 0 ELSE s.transfers = {}
        /\ \A v \in s.lines : v.cents = Total(v.shares)

SameCosts(values, costs) ==
    LET expense == {v \in values : v.booking.direction = "expense"}
        valid == {v \in expense : v.complete /\ v.shares # {}}
    IN  /\ Cardinality(costs.invalid) = Cardinality(expense \ valid)
        /\ {<<v.id, v.cents, v.shares>> : v \in valid} = {<<v.id, v.cents, v.shares>> : v \in costs.lines}

SameBasis(basis) ==
    LET values == UNION {ReferenceMonth(basis, m) : m \in Months}
        made == Prepare(basis)
    IN  /\ \A m \in Months :
              /\ SameLeaves(Of(values, m), Of(made, m))
              /\ SameSettlement(Settlement(Typical(made, {m})))
              /\ SameCosts(Of(values, m), Costs(Typical(made, {m})))
        /\ \A member \in {Everyone} \cup members : SameScope(values, made, basis, member)
        /\ SameSettlement(Settlement(Totals(Within(made, Elapsed))))

-----------------------------------------------------------------------------
(***************************************************************************)
(* What the check of a year (CheckPlausibility) can report: of the stored  *)
(* rows, an amount or a share of a booking out of range, which the dialogs *)
(* accept, or a category that a row was stored with and that was turned    *)
(* since, which nothing refuses.  No order of edits, reviews and deletions *)
(* leaves a row that refers to nothing or a payment undecided in a closed  *)
(* month.  And where the rows are clean, the two calculations agree in     *)
(* every basis, scope, month and view.                                     *)
(***************************************************************************)
CategoryOf(id) == IF id \in Stored THEN booking[id].category ELSE payment[id].category
Turned(c) == catalog[c] # None /\ \A d \in Directions : <<c, d>> \in classified

SourcesAreClean ==
    \A f \in SourceFindings :
        \/ f[1] = "data" /\ f[2] \in Stored /\ f[3] \in {"amount", "share"}
        \/ f[1] = "reference" /\ f[3] = "category" /\ Turned(CategoryOf(f[2]))

SelfCheckIsClean ==
    /\ SourcesAreClean
    /\ SourceFindings = {} => \A basis \in Bases : SameBasis(basis)
=============================================================================
