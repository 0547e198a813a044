---------------------------- MODULE ReportsProofs ----------------------------
(***************************************************************************)
(* What the reports say of a closed month stands, the cents of every       *)
(* report and every settlement add up, and the self-check finds nothing    *)
(* wrong in them.                                                          *)
(*                                                                         *)
(* The values of a closed month are made of its accepted payments alone    *)
(* (ClosedMonthShowsPayments), a decision is taken only in an open month,  *)
(* and every other action leaves the payments as they are.                 *)
(*                                                                         *)
(* The sums go from the cents up.  BalancedCents gives out every cent, and *)
(* the rounds of Transfers pay every claim.  The book is sound (BookInv):  *)
(* what is planned or paid has numbers where they belong and parts for     *)
(* members alone.  Then every value is sound, its parts and what is left   *)
(* over making its cents; so are the totals of the months and their means, *)
(* and so the reports of the members make the household's and the balances *)
(* of the settlement make zero.                                            *)
(*                                                                         *)
(* The second calculation ends with the same figures on its own ways.  The *)
(* stored rows are clean (RowsInv), but for amounts out of range and for   *)
(* categories that were turned (FilesInv).  Where they are, no amount is   *)
(* below zero, so cutting is rounding down; the ranking of a sorted list   *)
(* is counting those ahead, a month is evaluated alike (MonthsAgree), and  *)
(* so are its mean, each view and each scope (TypicalAgrees,               *)
(* ScopeChecksOut).                                                        *)
(***************************************************************************)
EXTENDS Plausibility, InductionLemmas

\* Every payment of the statement has a decision.
EveryPaymentListed == DOMAIN payment = Payments

LEMMA ListedInitially == Init => EveryPaymentListed
  BY DEF Init, EveryPaymentListed

\* What a step may do to the payments: one of an open month is decided.
DecidesInOpenMonth ==
    \/ payment' = payment
    \/ \E p \in Payments : \E decided :
          Statement[p].month \notin closed /\ payment' = [payment EXCEPT ![p] = decided]

LEMMA ReviewDecides ==
  ASSUME NEW p \in Payments, NEW decided, Review(p, decided)
  PROVE  DecidesInOpenMonth
  BY DEF Review, MonthIsOpen, DecidesInOpenMonth

LEMMA StepDecides ==
  ASSUME [Next]_vars
  PROVE  DecidesInOpenMonth
<1>1. CASE Planning
  BY <1>1 DEF Planning, CreateBooking, SaveBooking, DeleteBooking, CreateOverride, UpdateOverride,
              DeleteOverride, ChangeAmountFrom, DecidesInOpenMonth
<1>2. CASE Reconciling
  <2>1. ASSUME NEW p \in Payments, NEW splits, Accept(p, splits) PROVE DecidesInOpenMonth
    BY <2>1, ReviewDecides DEF Accept
  <2>2. CASE \E p \in Payments : AcceptForOwner(p)
    BY <2>1, <2>2 DEF AcceptForOwner
  <2>3. CASE \E p \in Payments, b \in Ids : AcceptAsPlanned(p, b)
    BY <2>1, <2>3 DEF AcceptAsPlanned
  <2>4. CASE \E p, q \in Payments : AcceptAsBefore(p, q)
    BY <2>1, <2>4 DEF AcceptAsBefore
  <2>5. CASE \E p \in Payments, decision \in {"pending", "ignored"} :
                \E c \in {None, Statement[p].category} : SetAside(p, decision, c)
    BY <2>5, ReviewDecides DEF SetAside
  <2>6. CASE \E m \in Months : CloseMonth(m) \/ ReopenMonth(m)
    BY <2>6 DEF CloseMonth, ReopenMonth, DecidesInOpenMonth
  <2> QED  BY <1>2, <2>2, <2>3, <2>4, <2>5, <2>6 DEF Reconciling
<1>3. CASE \E i \in Persons : DeleteMember(i)
  BY <1>3 DEF DeleteMember, DecidesInOpenMonth
<1>4. CASE EditingCategories
  BY <1>4 DEF EditingCategories, CreateCategory, UpdateCategory, DeleteCategory, Classify, DecidesInOpenMonth
<1>5. CASE UNCHANGED vars
  BY <1>5 DEF vars, DecidesInOpenMonth
<1> QED  BY <1>1, <1>2, <1>3, <1>4, <1>5 DEF Next

LEMMA ListedAlways ==
  ASSUME EveryPaymentListed, [Next]_vars
  PROVE  EveryPaymentListed'
  BY StepDecides DEF EveryPaymentListed, DecidesInOpenMonth

-----------------------------------------------------------------------------
(***************************************************************************)
(* The values of a closed month as a function of its accepted payments.    *)
(***************************************************************************)
ValuesOf(accepted, splits, m) == {EvaluateBooking(PaymentEntry(p, splits[p]), m) : p \in accepted}
SplitsOf(accepted) == [p \in accepted |-> payment[p].splits]

LEMMA ClosedMonthShowsPayments ==
  ASSUME NEW m \in closed, m < Current
  PROVE  MonthValues("hybrid", m) = ValuesOf(AcceptedIn(m), SplitsOf(AcceptedIn(m)), m)
<1>1. ActualMonth("hybrid", m)
  BY DEF ActualMonth
<1>2. Entries("hybrid", m) = {PaymentEntry(p, payment[p].splits) : p \in AcceptedIn(m)}
  BY <1>1 DEF Entries, PaymentsIn
<1> QED  BY <1>2 DEF MonthValues, ValuesOf, SplitsOf

\* The same when the step is over.
LEMMA ClosedMonthShowsPaymentsNext ==
  ASSUME NEW m \in closed', m < Current
  PROVE  MonthValues("hybrid", m)' = ValuesOf(AcceptedIn(m)', SplitsOf(AcceptedIn(m))', m)
<1>1. ActualMonth("hybrid", m)'
  BY DEF ActualMonth
<1>2. Entries("hybrid", m)' = {PaymentEntry(p, payment'[p].splits) : p \in AcceptedIn(m)'}
  BY <1>1 DEF Entries, PaymentsIn
<1> QED  BY <1>2 DEF MonthValues, ValuesOf, SplitsOf

LEMMA PaymentsOfClosedMonthStand ==
  ASSUME EveryPaymentListed, DecidesInOpenMonth, NEW m \in closed
  PROVE  AcceptedIn(m)' = AcceptedIn(m) /\ SplitsOf(AcceptedIn(m))' = SplitsOf(AcceptedIn(m))
<1>1. \A p \in Payments : Statement[p].month = m => payment'[p] = payment[p]
  BY DEF DecidesInOpenMonth, EveryPaymentListed
<1>2. AcceptedIn(m)' = AcceptedIn(m)
  BY <1>1 DEF AcceptedIn
<1>3. \A p \in AcceptedIn(m) : payment'[p] = payment[p]
  BY <1>1 DEF AcceptedIn
<1> QED  BY <1>2, <1>3 DEF SplitsOf

-----------------------------------------------------------------------------
\* The reports of a closed month that has passed (ClosedReportsStand of Reports, about
\* WithBankLedger in basis.go) stay what they are while it is closed.
THEOREM ReportsOfClosedMonthsStand == Spec => ClosedReportsStand
<1>1. Init => EveryPaymentListed
  BY ListedInitially
<1>2. EveryPaymentListed /\ [Next]_vars => EveryPaymentListed'
  BY ListedAlways
<1>3. EveryPaymentListed /\ [Next]_vars
        => \A m \in closed \cap closed' : m < Current => StandsStill(m)
  <2> SUFFICES ASSUME EveryPaymentListed, [Next]_vars,
                      NEW m \in closed \cap closed', m < Current
               PROVE  StandsStill(m)
    OBVIOUS
  <2>1. DecidesInOpenMonth
    BY StepDecides
  <2>2. AcceptedIn(m)' = AcceptedIn(m) /\ SplitsOf(AcceptedIn(m))' = SplitsOf(AcceptedIn(m))
    BY <2>1, PaymentsOfClosedMonthStand
  <2>3. MonthValues("hybrid", m) = ValuesOf(AcceptedIn(m), SplitsOf(AcceptedIn(m)), m)
    BY ClosedMonthShowsPayments
  <2>4. MonthValues("hybrid", m)' = ValuesOf(AcceptedIn(m)', SplitsOf(AcceptedIn(m))', m)
    BY ClosedMonthShowsPaymentsNext
  <2> QED  BY <2>2, <2>3, <2>4 DEF StandsStill
<1> QED  BY <1>1, <1>2, <1>3, PTL DEF Spec, ClosedReportsStand

-----------------------------------------------------------------------------
(***************************************************************************)
(* Cents given out and balances settled.                                   *)
(***************************************************************************)
\* Pairs that give each of finitely many holders one whole number.
IsTally(parts) ==
    /\ IsFiniteSet(Holders(parts))
    /\ \A i \in Holders(parts) : Part(parts, i) \in Int
    /\ parts = {<<i, Part(parts, i)>> : i \in Holders(parts)}

\* Such pairs come from functions.
Graph(f, I) == {<<i, f[i]>> : i \in I}

\* The graph of a function into the numbers is a tally, of the same sum.
LEMMA TallyOf ==
  ASSUME NEW I, IsFiniteSet(I), NEW f, \A i \in I : f[i] \in Int,
         NEW parts, parts = Graph(f, I)
  PROVE  /\ IsTally(parts)
         /\ Holders(parts) = I
         /\ \A i \in I : Part(parts, i) = f[i]
         /\ IsFiniteSet(parts)
         /\ Cardinality(parts) = Cardinality(I)
         /\ Total(parts) = SumFunctionOnSet(f, I)
<1>1. \A p \in parts : p[1] \in I /\ p = <<p[1], f[p[1]]>>
  BY DEF Graph
<1>2. \A i \in I : <<i, f[i]>> \in parts /\ <<i, f[i]>>[1] = i /\ <<i, f[i]>>[2] = f[i]
  BY DEF Graph
<1>3. Holders(parts) = I
  BY <1>1, <1>2 DEF Holders
<1>4. ASSUME NEW i \in I
      PROVE  Part(parts, i) = f[i]
  <2>1. \E p \in parts : p[1] = i
    BY <1>2
  <2>2. \A p \in parts : p[1] = i => p[2] = f[i]
    BY <1>1
  <2> QED
    BY <1>3, <2>1, <2>2 DEF Part
<1>5. IsTally(parts)
  BY <1>3, <1>4 DEF IsTally, Graph
<1> DEFINE name == [i \in I |-> <<i, f[i]>>]
           second == [p \in parts |-> p[2]]
<1>6. /\ parts = ImageOf(name, I)
      /\ \A i, j \in I : name[i] = name[j] => i = j
      /\ \A i \in I : second[name[i]] = f[i]
  BY <1>2 DEF Graph, ImageOf
<1>7. DOMAIN second = parts
  OBVIOUS
<1> HIDE DEF name, second
<1>8. /\ IsFiniteSet(parts)
      /\ Cardinality(parts) = Cardinality(I)
      /\ SumFunctionOnSet(f, I) = SumFunctionOnSet(second, parts)
  <2> DEFINE image == ImageOf(name, I)
  <2>1. \A i \in I : second[name[i]] = f[i]
    BY <1>6
  <2>2. \A i, j \in I : name[i] = name[j] => i = j
    BY <1>6
  <2>3. /\ IsFiniteSet(image)
        /\ Cardinality(image) = Cardinality(I)
        /\ SumFunctionOnSet(f, I) = SumFunctionOnSet(second, image)
    BY <2>1, <2>2, SumRenamed, SMTT(30)
  <2>4. parts = image
    BY <1>6
  <2> HIDE DEF image
  <2> QED
    BY <2>3, <2>4
<1>9. Total(parts) = SumFunctionOnSet(second, parts)
  BY <1>7 DEF Total, SumFunction, second
<1> QED
  BY <1>3, <1>4, <1>5, <1>8, <1>9

\* Their total is the sum over the holders, or over more than those.
LEMMA TallyTotal ==
  ASSUME NEW parts, IsTally(parts), NEW I, IsFiniteSet(I), Holders(parts) \subseteq I
  PROVE  /\ IsFiniteSet(parts)
         /\ Cardinality(parts) = Cardinality(Holders(parts))
         /\ Total(parts) \in Int
         /\ \A i \in I : Part(parts, i) \in Int
         /\ Total(parts) = SumFunctionOnSet([i \in I |-> Part(parts, i)], I)
<1> DEFINE H == Holders(parts)
           f == [i \in I |-> Part(parts, i)]
<1>1. \A i \in H : f[i] = Part(parts, i) /\ f[i] \in Int
  BY DEF IsTally
<1>2. \A i \in I \ H : f[i] = 0
  BY DEF Part
<1>3. IsFiniteSet(H) /\ H \in SUBSET I /\ parts = Graph(f, H)
  BY <1>1 DEF IsTally, Graph
<1> HIDE DEF f, H
<1>4. /\ IsFiniteSet(parts)
      /\ Cardinality(parts) = Cardinality(H)
      /\ Total(parts) = SumFunctionOnSet(f, H)
  BY <1>1, <1>3, TallyOf
<1>5. SumFunctionOnSet(f, I) = SumFunctionOnSet(f, H)
  BY <1>1, <1>2, <1>3, SumOfRest
<1>6. SumFunctionOnSet(f, H) \in Int
  BY <1>1, <1>3, SumWithout
<1>7. \A i \in I : f[i] \in Int
  BY <1>1, <1>2
<1> QED
  BY <1>4, <1>5, <1>6, <1>7 DEF f, H

-----------------------------------------------------------------------------
\* Just m are among the first m.
LEMMA FirstOnes ==
  ASSUME NEW raw, NEW scale, IsFiniteSet(DOMAIN raw), DOMAIN raw \subseteq Int,
         \A i \in DOMAIN raw : raw[i] % scale \in Int,
         NEW m \in 0..Cardinality(DOMAIN raw)
  PROVE  LET first == {i \in DOMAIN raw : Cardinality(Ahead(raw, scale, i)) < m}
         IN  IsFiniteSet(first) /\ Cardinality(first) = m
<1> DEFINE I == DOMAIN raw
           N == Cardinality(I)
           rem == [i \in I |-> raw[i] % scale]
           rank == [i \in I |-> Cardinality(Ahead(raw, scale, i))]
           first == {i \in I : rank[i] < m}
<1>0. N \in Nat
  BY FS_CardinalityType
<1>1. \A i \in I : Ahead(raw, scale, i) = {j \in I : rem[j] > rem[i] \/ (rem[j] = rem[i] /\ j < i)}
  BY DEF Ahead
<1>2. \A i \in I : rem[i] \in Int /\ i \in Int
  OBVIOUS
<1>3. \A i \in I : /\ IsFiniteSet(Ahead(raw, scale, i))
                   /\ rank[i] = Cardinality(Ahead(raw, scale, i))
                   /\ rank[i] \in Nat
  <2> SUFFICES ASSUME NEW i \in I
               PROVE  IsFiniteSet(Ahead(raw, scale, i)) /\ rank[i] \in Nat
    OBVIOUS
  <2>1. Ahead(raw, scale, i) \in SUBSET I
    BY <1>1
  <2> QED
    BY <2>1, FS_Subset, FS_CardinalityType
<1> HIDE DEF rem
<1>4. ASSUME NEW i \in I
      PROVE  rank[i] <= N - 1
  <2>1. Ahead(raw, scale, i) \in SUBSET (I \ {i})
    BY <1>1, <1>2
  <2>2. IsFiniteSet(I \ {i}) /\ Cardinality(I \ {i}) = N - 1
    BY FS_RemoveElement
  <2> QED
    BY <1>3, <2>1, <2>2, FS_Subset
<1>5. ASSUME NEW i \in I, NEW j \in Ahead(raw, scale, i)
      PROVE  rank[j] < rank[i]
  <2>1. j \in I
    BY <1>1
  <2>2. Ahead(raw, scale, j) \in SUBSET Ahead(raw, scale, i)
    BY <1>1, <1>2, <2>1
  <2>3. j \notin Ahead(raw, scale, j)
    BY <1>1, <1>2, <2>1
  <2>4. rank[j] <= rank[i] /\ rank[j] # rank[i]
    BY <1>3, <1>5, <2>1, <2>2, <2>3, FS_Subset
  <2> QED
    BY <1>3, <2>1, <2>4
<1>6. ASSUME NEW i \in I, NEW j \in I, rank[i] = rank[j]
      PROVE  i = j
  <2>1. i # j => i \in Ahead(raw, scale, j) \/ j \in Ahead(raw, scale, i)
    BY <1>1, <1>2
  <2>2. rank[i] \in Int /\ rank[j] \in Int
    BY <1>3
  <2>3. j \in Ahead(raw, scale, i) => rank[j] < rank[i]
    BY <1>5
  <2>4. i \in Ahead(raw, scale, j) => rank[i] < rank[j]
    BY <1>5
  <2> HIDE DEF rank
  <2> QED
    BY <1>6, <2>1, <2>2, <2>3, <2>4
<1>7. rank \in Injection(I, 0..(N - 1))
  <2>1. rank \in [I -> 0..(N - 1)]
    BY <1>0, <1>3, <1>4
  <2> HIDE DEF rank
  <2> QED
    BY <1>6, <2>1 DEF Injection, IsInjective
<1>8. IsFiniteSet(0..(N - 1)) /\ Cardinality(0..(N - 1)) = N
  <2>1. 0 \in Int /\ N - 1 \in Int /\ ~(0 > N - 1 /\ N # 0) /\ (N - 1) - 0 + 1 = N
    BY <1>0
  <2>2. Cardinality(0..(N - 1)) = IF 0 > N - 1 THEN 0 ELSE (N - 1) - 0 + 1
    BY <2>1, FS_Interval
  <2> HIDE DEF N
  <2>3. 0 > N - 1 => N = 0
    BY <2>1
  <2> QED
    BY <2>1, <2>2, <2>3, FS_Interval
<1>9. rank \in Surjection(I, 0..(N - 1))
  BY <1>7, <1>8, FS_Injection
<1>10. m \in Nat /\ m <= N
  BY <1>0
<1> HIDE DEF rank, N
<1> DEFINE place == [i \in first |-> rank[i]]
<1>11. place \in Bijection(first, 0..(m - 1))
  <2>1. place \in [first -> 0..(m - 1)]
    BY <1>3, <1>10
  <2>2. \A i, j \in first : place[i] = place[j] => i = j
    BY <1>6
  <2>3. \A n \in 0..(m - 1) : \E i \in first : place[i] = n
    <3> SUFFICES ASSUME NEW n \in 0..(m - 1)
                 PROVE  \E i \in first : place[i] = n
      OBVIOUS
    <3>1. n \in 0..(N - 1) /\ n < m
      BY <1>0, <1>10
    <3>2. PICK i \in I : rank[i] = n
      BY <1>9, <3>1 DEF Surjection
    <3> QED
      BY <3>1, <3>2
  <2> HIDE DEF place, first
  <2> QED
    BY <2>1, <2>2, <2>3 DEF Bijection, Injection, Surjection, IsInjective
<1>12. IsFiniteSet(first)
  BY FS_Subset
<1>13. Cardinality(0..(m - 1)) = m
  BY <1>10, FS_Interval
<1>14. ExistsBijection(first, 0..(m - 1))
  BY <1>11 DEF ExistsBijection
<1>15. Cardinality(first) = m
  <2> HIDE DEF first
  <2> QED
    BY <1>12, <1>13, <1>14, FS_Bijection
<1>16. first = {i \in DOMAIN raw : Cardinality(Ahead(raw, scale, i)) < m}
  BY <1>3
<1> QED
  BY <1>12, <1>15, <1>16

-----------------------------------------------------------------------------
\* Division with a remainder.
LEMMA Divided ==
  ASSUME NEW n \in Int, NEW d \in Nat \ {0}
  PROVE  /\ n \div d \in Int
         /\ n % d \in 0..(d - 1)
         /\ n = d * (n \div d) + (n % d)
  OBVIOUS

\* Products keep the order.
LEMMA TimesOrder ==
  ASSUME NEW d \in Nat \ {0}, NEW a \in Int, NEW b \in Int
  PROVE  /\ d * a \in Int
         /\ a <= b => d * a <= d * b
         /\ d * a < d * b => a < b
         /\ d * (a + b) = d * a + d * b
         /\ d * (a - b) = d * a - d * b
         /\ d * (a + 1) = d * a + d
         /\ d * (a - 1) = d * a - d
         /\ d * (-1) = -d /\ d * 0 = 0 /\ d * 1 = d
  OBVIOUS

\* A whole number that is less than one away from a quotient.
Near(whole, n, d) == n - d < d * whole /\ d * whole < n + d

\* A quotient rounded toward zero is less than one away.
LEMMA QuotientNear ==
  ASSUME NEW n \in Int, NEW d \in Nat \ {0}
  PROVE  Quotient(n, d) \in Int /\ Near(Quotient(n, d), n, d)
<1>1. CASE n >= 0
  <2>1. Quotient(n, d) = n \div d
    BY <1>1 DEF Quotient
  <2> QED
    BY <2>1, Divided, SMTT(30) DEF Near
<1>2. CASE ~(n >= 0)
  <2> DEFINE k == -n
  <2>1. k \in Int /\ n = -k
    OBVIOUS
  <2>2. Quotient(n, d) = -(k \div d)
    BY <1>2 DEF Quotient
  <2> HIDE DEF k
  <2>3. k \div d \in Int /\ k % d \in 0..(d - 1) /\ k = d * (k \div d) + (k % d)
    BY <2>1, Divided
  <2>4. d * (-(k \div d)) = -(d * (k \div d))
    BY <2>3
  <2> QED
    BY <2>1, <2>2, <2>3, <2>4 DEF Near
<1> QED
  BY <1>1, <1>2

\* A rounded quotient is less than one away.
LEMMA RoundNear ==
  ASSUME NEW n \in Int, NEW d \in Nat \ {0}
  PROVE  RoundAmount(n, d) \in Int /\ Near(RoundAmount(n, d), n, d)
<1> DEFINE e == 2 * d
           k == IF n >= 0 THEN 2 * n + d ELSE d - 2 * n
<1>1. e \in Nat \ {0} /\ k \in Nat
  OBVIOUS
<1>2. RoundAmount(n, d) = IF n >= 0 THEN k \div e ELSE -(k \div e)
  BY DEF RoundAmount, Quotient
<1> DEFINE q == k \div e
           r == k % e
<1>3. q \in Int /\ r \in 0..(e - 1) /\ k = e * q + r
  <2> HIDE DEF k, e
  <2> QED
    BY <1>1, Divided
<1>4. e * q = 2 * (d * q)
  <2> HIDE DEF q
  <2> QED
    BY <1>3
<1>5. d * q \in Int /\ d * (-q) = -(d * q)
  <2> HIDE DEF q
  <2> QED
    BY <1>3
<1>6. RoundAmount(n, d) = IF n >= 0 THEN q ELSE -q
  BY <1>2
<1> HIDE DEF q, r
<1>7. k = 2 * (d * q) + r /\ 0 <= r /\ r < 2 * d
  BY <1>3, <1>4
<1>8. CASE n >= 0
  BY <1>3, <1>5, <1>6, <1>7, <1>8 DEF Near
<1>9. CASE ~(n >= 0)
  BY <1>3, <1>5, <1>6, <1>7, <1>9 DEF Near
<1> QED
  BY <1>8, <1>9

-----------------------------------------------------------------------------
(***************************************************************************)
(* What an amount is divided into adds up to it.  Everybody has the whole  *)
(* cents below a share, so what is missing is at least zero, and less than *)
(* one cent for each of those that have a remainder.                       *)
(***************************************************************************)
\* The cents that rounding down leaves over, and the parts when those with the largest
\* remainders get one each.
Missing(raw, scale, total) == total - SumFunction([i \in DOMAIN raw |-> raw[i] \div scale])
Balanced(raw, scale, m) ==
    [i \in DOMAIN raw |->
        (raw[i] \div scale) + (IF Cardinality(Ahead(raw, scale, i)) < m THEN 1 ELSE 0)]

\* BalancedCents in these words.
LEMMA BalancedIsGraph ==
  ASSUME NEW raw, NEW scale, NEW total
  PROVE  BalancedCents(raw, scale, total)
             = Graph(Balanced(raw, scale, Missing(raw, scale, total)), DOMAIN raw)
  BY DEF BalancedCents, Graph, Balanced, Missing

\* The cents are a tally of the holders of the raw amounts.
LEMMA BalancedCentsTally ==
  ASSUME NEW raw, IsFiniteSet(DOMAIN raw), \A i \in DOMAIN raw : raw[i] \in Int,
         NEW scale \in Nat \ {0}, NEW total
  PROVE  /\ IsTally(BalancedCents(raw, scale, total))
         /\ Holders(BalancedCents(raw, scale, total)) = DOMAIN raw
<1> DEFINE m == Missing(raw, scale, total)
           f == Balanced(raw, scale, m)
<1>1. \A i \in DOMAIN raw : raw[i] \div scale \in Int
  BY Divided
<1>2. \A i \in DOMAIN raw : f[i] \in Int
  BY <1>1 DEF Balanced
<1>3. BalancedCents(raw, scale, total) = Graph(f, DOMAIN raw)
  BY BalancedIsGraph
<1> HIDE DEF f
<1> QED
  BY <1>2, <1>3, TallyOf

\* The sum of remainders, by the number of those that have one.
LEMMA Remainders ==
  ASSUME NEW I, IsFiniteSet(I), NEW scale \in Nat \ {0}, NEW rem,
         \A i \in I : rem[i] \in 0..(scale - 1)
  PROVE  LET some == {i \in I : rem[i] # 0}
         IN  /\ SumFunctionOnSet(rem, I) \in Int
             /\ 0 <= SumFunctionOnSet(rem, I)
             /\ SumFunctionOnSet(rem, I) <= (scale - 1) * Cardinality(some)
             /\ Cardinality(some) \in Nat
<1> DEFINE some == {i \in I : rem[i] # 0}
           zero == [i \in I |-> 0]
           most == [i \in I |-> scale - 1]
<1>1. IsFiniteSet(some) /\ some \in SUBSET I /\ Cardinality(some) \in Nat
  BY FS_Subset, FS_CardinalityType
<1>2. \A i \in I : rem[i] \in Int /\ 0 <= rem[i] /\ rem[i] <= scale - 1 /\ scale - 1 \in Int
  OBVIOUS
<1>3. SumFunctionOnSet(rem, I) \in Int
  BY <1>2, SumWithout
<1>4. SumFunctionOnSet(zero, I) = 0
  BY SumOfZeros
<1>5. \A i \in I : zero[i] \in Int /\ rem[i] \in Int /\ zero[i] <= rem[i]
  BY <1>2
<1>6. SumFunctionOnSet(rem, I) = SumFunctionOnSet(rem, some)
  <2>1. \A i \in I \ some : rem[i] = 0
    OBVIOUS
  <2> HIDE DEF some
  <2> QED
    BY <1>1, <1>2, <2>1, SumOfRest
<1>7. \A i \in some : rem[i] \in Int /\ most[i] \in Int /\ rem[i] <= most[i] /\ most[i] = scale - 1
  BY <1>2
<1> HIDE DEF zero, most, some
<1>8. SumFunctionOnSet(zero, I) <= SumFunctionOnSet(rem, I)
  BY <1>5, SumsCompare
<1>9. SumFunctionOnSet(rem, some) <= SumFunctionOnSet(most, some)
  BY <1>1, <1>7, SumsCompare
<1>10. SumFunctionOnSet(most, some) = (scale - 1) * Cardinality(some)
  BY <1>1, <1>7, SumOfConstant
<1> QED
  BY <1>1, <1>3, <1>4, <1>6, <1>8, <1>9, <1>10 DEF some

\* A sum is so many times the scale, and the remainders.
LEMMA SumDivided ==
  ASSUME NEW raw, NEW I, IsFiniteSet(I), \A i \in I : raw[i] \in Int, NEW scale \in Nat \ {0}
  PROVE  LET floor == [i \in I |-> raw[i] \div scale]
             rem == [i \in I |-> raw[i] % scale]
         IN  /\ SumFunctionOnSet(floor, I) \in Int
             /\ SumFunctionOnSet(raw, I)
                    = scale * SumFunctionOnSet(floor, I) + SumFunctionOnSet(rem, I)
<1> DEFINE floor == [i \in I |-> raw[i] \div scale]
           rem == [i \in I |-> raw[i] % scale]
           times == [i \in I |-> scale * floor[i]]
<1>1. \A i \in I : floor[i] \in Int /\ rem[i] \in Int /\ raw[i] = scale * floor[i] + rem[i]
  <2> SUFFICES ASSUME NEW i \in I
               PROVE  /\ raw[i] \div scale \in Int
                      /\ raw[i] % scale \in Int
                      /\ raw[i] = scale * (raw[i] \div scale) + (raw[i] % scale)
    OBVIOUS
  <2> DEFINE n == raw[i]
  <2>1. n \in Int
    OBVIOUS
  <2> HIDE DEF n
  <2>2. n \div scale \in Int /\ n % scale \in 0..(scale - 1) /\ n = scale * (n \div scale) + (n % scale)
    BY <2>1, Divided
  <2> QED
    BY <2>2 DEF n
<1>2. \A i \in I : floor[i] \in Int /\ times[i] = scale * floor[i]
  BY <1>1
<1>3. \A i \in I : times[i] \in Int /\ rem[i] \in Int /\ raw[i] = times[i] + rem[i]
  BY <1>1, TimesOrder
<1> HIDE DEF floor, rem, times
<1>4. SumFunctionOnSet(times, I) = scale * SumFunctionOnSet(floor, I)
  BY <1>2, SumsScale
<1>5. SumFunctionOnSet(raw, I) = SumFunctionOnSet(times, I) + SumFunctionOnSet(rem, I)
  BY <1>3, SumsAdd
<1>6. SumFunctionOnSet(floor, I) \in Int
  BY <1>1, SumWithout
<1> QED
  BY <1>4, <1>5, <1>6 DEF floor, rem

\* There are never more cents left over than holders with a remainder.
LEMMA MissingBounded ==
  ASSUME NEW raw, IsFiniteSet(DOMAIN raw), \A i \in DOMAIN raw : raw[i] \in Int,
         NEW scale \in Nat \ {0}, NEW total \in Int,
         Near(total, SumFunctionOnSet(raw, DOMAIN raw), scale)
  PROVE  /\ Missing(raw, scale, total) \in Nat
         /\ Missing(raw, scale, total) <= Cardinality({i \in DOMAIN raw : raw[i] % scale # 0})
<1> DEFINE I == DOMAIN raw
           floor == [i \in I |-> raw[i] \div scale]
           rem == [i \in I |-> raw[i] % scale]
           R == SumFunctionOnSet(raw, I)
           F == SumFunctionOnSet(floor, I)
           M == SumFunctionOnSet(rem, I)
           some == {i \in I : rem[i] # 0}
           K == Cardinality(some)
           m == Missing(raw, scale, total)
<1>1. m = total - F
  BY DEF Missing, SumFunction
<1>2. F \in Int /\ R = scale * F + M
  BY SumDivided
<1>3. \A i \in I : rem[i] \in 0..(scale - 1)
  BY Divided
<1>4. M \in Int /\ 0 <= M /\ M <= (scale - 1) * K /\ K \in Nat
  <2> HIDE DEF rem
  <2> QED
    BY <1>3, Remainders
<1>5. some = {i \in DOMAIN raw : raw[i] % scale # 0}
  OBVIOUS
<1>6. R - scale < scale * total /\ scale * total < R + scale
  BY DEF Near
<1> HIDE DEF floor, rem, R, F, M, some, K, m
<1>7. scale * m = scale * total - scale * F /\ m \in Int
  BY <1>1, <1>2, TimesOrder
<1>8. scale * total \in Int /\ scale * F \in Int /\ R \in Int
  BY <1>2, <1>4, TimesOrder
<1>9. scale * m > -scale
  BY <1>2, <1>4, <1>6, <1>7, <1>8
<1>10. -1 < m
  <2>1. scale * (-1) < scale * m
    BY <1>9, TimesOrder
  <2> QED
    BY <1>7, <2>1, TimesOrder
<1>11. scale * m < M + scale
  BY <1>2, <1>4, <1>6, <1>7, <1>8
<1>12. m < K + 1
  <2>1. (scale - 1) * K = scale * K - K /\ scale * K \in Int
    BY <1>4
  <2>2. scale * m < scale * K + scale
    BY <1>4, <1>7, <1>11, <2>1
  <2>3. scale * m < scale * (K + 1)
    BY <1>4, <2>2, TimesOrder
  <2> QED
    BY <1>4, <1>7, <2>3, TimesOrder
<1> QED
  BY <1>4, <1>5, <1>7, <1>10, <1>12 DEF m, K

\* The parts add up to the total, and each is less than a cent from its exact share
\* (balanceCents, evaluation.go).
THEOREM BalancedCentsAddUp ==
  ASSUME NEW raw, IsFiniteSet(DOMAIN raw), DOMAIN raw \subseteq Int,
         \A i \in DOMAIN raw : raw[i] \in Int,
         NEW scale \in Nat \ {0}, NEW total \in Int,
         Near(total, SumFunctionOnSet(raw, DOMAIN raw), scale)
  PROVE  LET parts == BalancedCents(raw, scale, total)
         IN  /\ IsTally(parts)
             /\ Holders(parts) = DOMAIN raw
             /\ Total(parts) = total
             /\ \A i \in DOMAIN raw : Part(parts, i) \in Int /\ Near(Part(parts, i), raw[i], scale)
<1> DEFINE I == DOMAIN raw
           floor == [i \in I |-> raw[i] \div scale]
           rem == [i \in I |-> raw[i] % scale]
           some == {i \in I : raw[i] % scale # 0}
           m == Missing(raw, scale, total)
           f == Balanced(raw, scale, m)
           first == {i \in I : Cardinality(Ahead(raw, scale, i)) < m}
           extra == [i \in I |-> IF i \in first THEN 1 ELSE 0]
           parts == BalancedCents(raw, scale, total)
<1>1. m \in Nat /\ m <= Cardinality(some)
  BY MissingBounded
<1>2. IsFiniteSet(some) /\ Cardinality(some) \in Nat /\ Cardinality(some) <= Cardinality(I) /\ Cardinality(I) \in Nat
  BY FS_Subset, FS_CardinalityType
<1>3. \A i \in I : /\ floor[i] \in Int
                   /\ rem[i] \in 0..(scale - 1)
                   /\ raw[i] = scale * floor[i] + rem[i]
  <2> SUFFICES ASSUME NEW i \in I
               PROVE  /\ raw[i] \div scale \in Int
                      /\ raw[i] % scale \in 0..(scale - 1)
                      /\ raw[i] = scale * (raw[i] \div scale) + (raw[i] % scale)
    OBVIOUS
  <2> DEFINE n == raw[i]
  <2>1. n \in Int
    OBVIOUS
  <2> HIDE DEF n
  <2>2. n \div scale \in Int /\ n % scale \in 0..(scale - 1) /\ n = scale * (n \div scale) + (n % scale)
    BY <2>1, Divided
  <2> QED
    BY <2>2 DEF n
<1>4. IsFiniteSet(first) /\ Cardinality(first) = m
  <2>1. m \in 0..Cardinality(I)
    BY <1>1, <1>2
  <2>2. \A i \in I : raw[i] % scale \in Int
    BY <1>3
  <2> HIDE DEF m
  <2> QED
    BY <2>1, <2>2, FirstOnes
<1>5. \A i \in I : f[i] = floor[i] + extra[i] /\ extra[i] \in {0, 1}
  BY DEF Balanced
<1>6. \A i \in I : raw[i] % scale = 0 => i \notin first
  <2> SUFFICES ASSUME NEW i \in I, raw[i] % scale = 0
               PROVE  ~(Cardinality(Ahead(raw, scale, i)) < m)
    OBVIOUS
  <2>1. some \in SUBSET Ahead(raw, scale, i) /\ Ahead(raw, scale, i) \in SUBSET I
    BY <1>3 DEF Ahead
  <2>2. IsFiniteSet(Ahead(raw, scale, i))
    BY <2>1, FS_Subset
  <2>3. Cardinality(Ahead(raw, scale, i)) \in Nat
    BY <2>2, FS_CardinalityType
  <2> HIDE DEF some, m
  <2>4. Cardinality(some) <= Cardinality(Ahead(raw, scale, i))
    BY <2>1, <2>2, FS_Subset
  <2> QED
    BY <1>1, <1>2, <2>3, <2>4
<1>7. parts = Graph(f, I)
  BY BalancedIsGraph
<1>8. first \in SUBSET I /\ (\A i \in first : extra[i] = 1) /\ \A i \in I \ first : extra[i] = 0
  OBVIOUS
<1>9. SumFunctionOnSet(floor, I) \in Int /\ m = total - SumFunctionOnSet(floor, I)
  <2>1. SumFunctionOnSet(floor, I) \in Int
    BY <1>3, SumWithout
  <2> QED
    BY <2>1 DEF Missing, SumFunction
<1>10. \A i \in I : i \in first => rem[i] # 0
  BY <1>6
<1>11. \A i \in I : extra[i] = IF i \in first THEN 1 ELSE 0
  OBVIOUS
<1> HIDE DEF floor, rem, some, m, f, first, extra, parts
<1>12. SumFunctionOnSet(extra, I) = m
  <2>1. SumFunctionOnSet(extra, first) = 1 * Cardinality(first)
    BY <1>4, <1>8, SumOfConstant
  <2>2. \A i \in first : extra[i] \in Int
    BY <1>8
  <2>3. SumFunctionOnSet(extra, I) = SumFunctionOnSet(extra, first)
    BY <1>8, <2>2, SumOfRest
  <2> QED
    BY <1>1, <1>4, <2>1, <2>3
<1>13. \A i \in I : floor[i] \in Int /\ extra[i] \in Int /\ f[i] = floor[i] + extra[i]
  BY <1>3, <1>5
<1>14. SumFunctionOnSet(f, I) = SumFunctionOnSet(floor, I) + SumFunctionOnSet(extra, I)
  BY <1>13, SumsAdd
<1>15. \A i \in I : f[i] \in Int
  BY <1>13
<1>16. /\ IsTally(parts)
       /\ Holders(parts) = I
       /\ Total(parts) = SumFunctionOnSet(f, I)
       /\ \A i \in I : Part(parts, i) = f[i]
  BY <1>7, <1>15, TallyOf
<1>17. Total(parts) = total
  BY <1>9, <1>12, <1>14, <1>16
<1>18. ASSUME NEW i \in I
       PROVE  Near(f[i], raw[i], scale)
  <2>1. floor[i] \in Int /\ rem[i] \in Int /\ 0 <= rem[i] /\ rem[i] < scale /\ raw[i] = scale * floor[i] + rem[i] /\ raw[i] \in Int
    BY <1>3
  <2>2. scale * floor[i] \in Int /\ scale * (floor[i] + 1) = scale * floor[i] + scale
    BY <2>1, TimesOrder
  <2>3. CASE i \in first
    <3>1. f[i] = floor[i] + 1 /\ rem[i] # 0
      BY <1>10, <1>11, <1>13, <2>3
    <3> QED
      BY <2>1, <2>2, <3>1 DEF Near
  <2>4. CASE i \notin first
    <3>1. f[i] = floor[i]
      BY <1>11, <1>13, <2>1, <2>4
    <3> QED
      BY <2>1, <2>2, <3>1 DEF Near
  <2> QED
    BY <2>3, <2>4
<1> QED
  BY <1>15, <1>16, <1>17, <1>18 DEF parts

-----------------------------------------------------------------------------
(***************************************************************************)
(* The transfers of a settlement leave nobody with anything.  Each of them *)
(* settles one of the two it is between, which takes no part from then on; *)
(* the last one settles both.                                              *)
(***************************************************************************)
\* The one served first is one of the side.
LEMMA FirstIsIn ==
  ASSUME NEW side, IsFiniteSet(side), side # {}, side \subseteq Int,
         NEW nets, \A i \in side : nets[i] \in Int
  PROVE  First(side, nets) \in side
<1> DEFINE Leads(i, j) == Size(nets[i]) > Size(nets[j]) \/ (Size(nets[i]) = Size(nets[j]) /\ i <= j)
           P == {T \in SUBSET side : T = {} \/ \E i \in T : \A j \in T : Leads(i, j)}
<1>0. \A i \in side : Size(nets[i]) \in Int /\ i \in Int
  BY DEF Size
<1>1. {} \in P
  OBVIOUS
<1>2. ASSUME NEW T \in P, NEW x \in side \ T
      PROVE  T \cup {x} \in P
  <2>1. CASE T = {}
    <3>1. Leads(x, x)
      BY <1>0
    <3> HIDE DEF Leads
    <3> QED
      BY <2>1, <3>1
  <2>2. CASE T # {}
    <3>1. PICK i \in T : \A j \in T : Leads(i, j)
      BY <2>2
    <3>2. T \subseteq side
      OBVIOUS
    <3>3. CASE Leads(i, x)
      <4> HIDE DEF Leads
      <4> QED
        BY <3>1, <3>2, <3>3
    <3>4. CASE ~Leads(i, x)
      <4>1. \A j \in T : Leads(x, j)
        BY <1>0, <3>1, <3>2, <3>4
      <4>2. Leads(x, x)
        BY <1>0
      <4> HIDE DEF Leads
      <4> QED
        BY <3>2, <4>1, <4>2
    <3> QED
      BY <3>3, <3>4
  <2> QED
    BY <2>1, <2>2
<1> HIDE DEF P
<1>3. side \in P
  BY <1>1, <1>2, SetsGrow
<1>4. \E i \in side : \A j \in side : Leads(i, j)
  BY <1>3 DEF P
<1> QED
  BY <1>4 DEF First

\* What adds up to zero without anything below it is zero.
LEMMA SumOfZeroIsZero ==
  ASSUME NEW f, NEW S, IsFiniteSet(S), \A x \in S : f[x] \in Int /\ f[x] >= 0,
         SumFunctionOnSet(f, S) = 0
  PROVE  \A x \in S : f[x] = 0
<1> SUFFICES ASSUME NEW x \in S
             PROVE  f[x] = 0
  OBVIOUS
<1> DEFINE rest == S \ {x}
           zero == [y \in rest |-> 0]
<1>1. IsFiniteSet(rest) /\ rest \subseteq S
  BY FS_Subset
<1>2. SumFunctionOnSet(f, S) = f[x] + SumFunctionOnSet(f, rest)
  BY SumWithout
<1>3. \A y \in rest : zero[y] \in Int /\ f[y] \in Int /\ zero[y] <= f[y]
  OBVIOUS
<1>4. \A y \in rest : zero[y] = 0
  OBVIOUS
<1> HIDE DEF rest, zero
<1>5. SumFunctionOnSet(zero, rest) = 0
  BY <1>1, <1>4, SumOfZeros
<1>6. SumFunctionOnSet(zero, rest) <= SumFunctionOnSet(f, rest)
  BY <1>1, <1>3, SumsCompare
<1>7. SumFunctionOnSet(f, rest) \in Int
  BY <1>1, <1>3, SumWithout
<1> QED
  BY <1>2, <1>5, <1>6, <1>7

\* Two values change by an amount that goes from the one to the other.
Moves(f, g, S, x, y, c) ==
    /\ x \in S /\ y \in S /\ x # y /\ c \in Int
    /\ \A z \in S : f[z] \in Int
    /\ g[x] = f[x] + c
    /\ g[y] = f[y] - c
    /\ \A z \in S : z # x /\ z # y => g[z] = f[z]

\* What one gets and another gives leaves the sum as it is.
LEMMA SumMoved ==
  ASSUME NEW S, IsFiniteSet(S), NEW f, NEW g, NEW x, NEW y, NEW c, Moves(f, g, S, x, y, c)
  PROVE  SumFunctionOnSet(g, S) = SumFunctionOnSet(f, S)
<1>0. /\ x \in S /\ y \in S /\ x # y /\ c \in Int
      /\ \A z \in S : f[z] \in Int
      /\ g[x] = f[x] + c
      /\ g[y] = f[y] - c
      /\ \A z \in S : z # x /\ z # y => g[z] = f[z]
  BY DEF Moves
<1> DEFINE T == S \ {x}
           R == T \ {y}
<1>1. IsFiniteSet(T) /\ IsFiniteSet(R) /\ y \in T
  BY <1>0, FS_Subset
<1>2. \A z \in S : g[z] \in Int
  <2>1. \A z \in S : z = x \/ z = y \/ (z # x /\ z # y)
    OBVIOUS
  <2> QED
    BY <1>0, <2>1
<1>3. \A z \in T : f[z] \in Int /\ g[z] \in Int
  BY <1>0, <1>2
<1>4. \A z \in R : f[z] = g[z] /\ f[z] \in Int
  BY <1>0
<1>5. SumFunctionOnSet(f, S) = f[x] + SumFunctionOnSet(f, T) /\ SumFunctionOnSet(g, S) = g[x] + SumFunctionOnSet(g, T)
  BY <1>0, <1>2, SumWithout
<1> HIDE DEF T
<1>6. SumFunctionOnSet(f, T) = f[y] + SumFunctionOnSet(f, R) /\ SumFunctionOnSet(g, T) = g[y] + SumFunctionOnSet(g, R)
  BY <1>1, <1>3, SumWithout
<1> HIDE DEF R
<1>7. SumFunctionOnSet(f, R) = SumFunctionOnSet(g, R) /\ SumFunctionOnSet(f, R) \in Int
  BY <1>1, <1>4, SumsAgree, SumWithout
<1>8. f[x] \in Int /\ f[y] \in Int
  BY <1>0
<1> QED
  BY <1>0, <1>5, <1>6, <1>7, <1>8

-----------------------------------------------------------------------------
\* A round of the settlement, and the rounds one after the other.
NextTransfer(nets, left) ==
    [from |-> First(Debtors(left), nets), to |-> First(Creditors(left), nets),
     cents |-> Lesser(-left[First(Debtors(left), nets)], left[First(Creditors(left), nets)])]

\* One round of the settlement: a transfer, if there is one to make.
Round(nets, s) ==
    IF Debtors(s.left) = {} \/ Creditors(s.left) = {} THEN s
    ELSE [left |-> Paid(s.left, NextTransfer(nets, s.left)),
          made |-> s.made \cup {NextTransfer(nets, s.left)}]

\* The rounds one after another.
RoundsOf(nets, after) ==
    after = [n \in 0..Cardinality(DOMAIN nets) |->
                IF n = 0 THEN [left |-> nets, made |-> {}] ELSE Round(nets, after[n - 1])]

\* The transfers are those made after as many rounds as there are nets.
LEMMA TransfersOpened ==
  ASSUME NEW nets
  PROVE  Transfers(nets) = (CHOOSE after : RoundsOf(nets, after))[Cardinality(DOMAIN nets)].made
  BY DEF Transfers, RoundsOf, Round, NextTransfer

\* What the rounds keep: a balance for each and the transfers made so far.
Payment(I) == [from : I, to : I, cents : Int]
SettlementState(I) == [left : [I -> Int], made : SUBSET Payment(I)]
Open(left) == {i \in DOMAIN left : left[i] # 0}

\* What a round does.
Pays(I, s, t, r) ==
    /\ t \in Payment(I)
    /\ t.from # t.to
    /\ s.left[t.from] < 0 /\ s.left[t.to] > 0
    /\ t.cents > 0 /\ t.cents <= -s.left[t.from] /\ t.cents <= s.left[t.to]
    /\ t.cents = -s.left[t.from] \/ t.cents = s.left[t.to]
    /\ r.made = s.made \cup {t}
    /\ r.left \in [I -> Int]
    /\ r.left[t.from] = s.left[t.from] + t.cents
    /\ r.left[t.to] = s.left[t.to] - t.cents
    /\ \A i \in I : i # t.from /\ i # t.to => r.left[i] = s.left[i]

\* A round pays a debt, a claim or both in full and none too much.
LEMMA RoundPays ==
  ASSUME NEW I, IsFiniteSet(I), I \subseteq Int, NEW nets \in [I -> Int],
         NEW s \in SettlementState(I), Debtors(s.left) # {}, Creditors(s.left) # {}
  PROVE  Pays(I, s, NextTransfer(nets, s.left), Round(nets, s))
<1> DEFINE left == s.left
           from == First(Debtors(left), nets)
           to == First(Creditors(left), nets)
           cents == Lesser(-left[from], left[to])
           t == NextTransfer(nets, left)
<1>1. left \in [I -> Int] /\ DOMAIN left = I
  BY DEF SettlementState
<1>2. from \in Debtors(left)
  <2>1. Debtors(left) \in SUBSET I
    BY <1>1 DEF Debtors
  <2>2. IsFiniteSet(Debtors(left)) /\ Debtors(left) \subseteq Int /\ \A i \in Debtors(left) : nets[i] \in Int
    BY <2>1, FS_Subset
  <2> QED
    BY <2>2, FirstIsIn
<1>3. to \in Creditors(left)
  <2>1. Creditors(left) \in SUBSET I
    BY <1>1 DEF Creditors
  <2>2. IsFiniteSet(Creditors(left)) /\ Creditors(left) \subseteq Int /\ \A i \in Creditors(left) : nets[i] \in Int
    BY <2>1, FS_Subset
  <2> QED
    BY <2>2, FirstIsIn
<1>4. from \in I /\ to \in I /\ left[from] \in Int /\ left[to] \in Int /\ left[from] < 0 /\ left[to] > 0
  BY <1>1, <1>2, <1>3 DEF Debtors, Creditors
<1>5. t = [from |-> from, to |-> to, cents |-> cents] /\ t.from = from /\ t.to = to /\ t.cents = cents
  BY DEF NextTransfer
<1>6. Round(nets, s) = [left |-> Paid(left, t), made |-> s.made \cup {t}]
  BY DEF Round
<1> HIDE DEF left, from, to, t
<1>7. cents \in Int /\ cents > 0 /\ cents <= -left[from] /\ cents <= left[to] /\ (cents = -left[from] \/ cents = left[to])
  BY <1>4 DEF Lesser
<1> HIDE DEF cents
<1>8. from # to
  BY <1>4
<1>9. Paid(left, t) = [left EXCEPT ![from] = @ + cents, ![to] = @ - cents]
  BY <1>5 DEF Paid
<1>10. /\ Paid(left, t) \in [I -> Int]
       /\ Paid(left, t)[from] = left[from] + cents
       /\ Paid(left, t)[to] = left[to] - cents
       /\ \A i \in I : i # from /\ i # to => Paid(left, t)[i] = left[i]
  BY <1>1, <1>4, <1>7, <1>8, <1>9
<1>11. t \in Payment(I)
  BY <1>4, <1>5, <1>7 DEF Payment
<1> QED
  BY <1>4, <1>5, <1>6, <1>7, <1>8, <1>10, <1>11 DEF left, t, Pays

\* What each of the transfers moves, and what they take from one and bring to one.
Amounts(I) == [t \in Payment(I) |-> t.cents]
Gives(I, made, i) == SumFunctionOnSet(Amounts(I), {t \in made : t.from = i})
Gets(I, made, i) == SumFunctionOnSet(Amounts(I), {t \in made : t.to = i})

\* What holds after every round.
Squaring(I, nets, s) ==
    /\ s \in SettlementState(I)
    /\ IsFiniteSet(s.made)
    /\ \A t \in s.made : t.cents > 0 /\ (s.left[t.from] = 0 \/ s.left[t.to] = 0)
    /\ SumFunctionOnSet(s.left, I) = 0
    /\ \A i \in I : s.left[i] = nets[i] + Gives(I, s.made, i) - Gets(I, s.made, i)
    /\ Cardinality(s.made) + Cardinality(Open(s.left)) <= Cardinality(I)
    /\ s.made # {} /\ Open(s.left) = {} => Cardinality(s.made) < Cardinality(I)

\* Nobody owes or nobody has a claim.
Done(s) == Debtors(s.left) = {} \/ Creditors(s.left) = {}

\* Before the first round nothing is paid and everything is open.
LEMMA SquaringFirst ==
  ASSUME NEW I, IsFiniteSet(I), I \subseteq Int, NEW nets \in [I -> Int],
         SumFunctionOnSet(nets, I) = 0
  PROVE  Squaring(I, nets, [left |-> nets, made |-> {}])
<1> DEFINE s == [left |-> nets, made |-> {}]
<1>1. s \in SettlementState(I) /\ s.left = nets /\ s.made = {}
  BY DEF SettlementState
<1> HIDE DEF s
<1>2. \A i \in I : Gives(I, {}, i) = 0 /\ Gets(I, {}, i) = 0
  BY SumOfNone DEF Gives, Gets
<1>3. \A i \in I : nets[i] \in Int
  OBVIOUS
<1>4. IsFiniteSet({}) /\ Cardinality({}) = 0
  BY FS_EmptySet
<1>5. Open(nets) \in SUBSET I
  BY DEF Open
<1>6. /\ IsFiniteSet(Open(nets))
      /\ Cardinality(Open(nets)) \in Nat
      /\ Cardinality(Open(nets)) <= Cardinality(I)
  BY <1>5, FS_Subset, FS_CardinalityType
<1>7. \A i \in I : s.left[i] = nets[i] + Gives(I, s.made, i) - Gets(I, s.made, i)
  BY <1>1, <1>2, <1>3
<1>8. Cardinality(s.made) + Cardinality(Open(s.left)) <= Cardinality(I)
  BY <1>1, <1>4, <1>6, FS_CardinalityType
<1>9. Squaring(I, nets, s)
  BY <1>1, <1>4, <1>7, <1>8 DEF Squaring
<1> QED
  BY <1>9 DEF s

\* A round keeps the accounts square and leaves fewer of them open.
LEMMA RoundKeepsSquaring ==
  ASSUME NEW I, IsFiniteSet(I), I \subseteq Int, NEW nets \in [I -> Int],
         NEW s, Squaring(I, nets, s)
  PROVE  /\ Squaring(I, nets, Round(nets, s))
         /\ Done(s) => Round(nets, s) = s
         /\ ~Done(s) => /\ IsFiniteSet(Open(s.left))
                        /\ Cardinality(Open(Round(nets, s).left)) \in Nat
                        /\ Cardinality(Open(s.left)) \in Nat
                        /\ Cardinality(Open(Round(nets, s).left)) < Cardinality(Open(s.left))
<1>1. CASE Done(s)
  BY <1>1 DEF Done, Round
<1>2. CASE ~Done(s)
  <2> DEFINE t == NextTransfer(nets, s.left)
             r == Round(nets, s)
             from == t.from
             to == t.to
             c == t.cents
  <2>0. s \in SettlementState(I) /\ s.left \in [I -> Int] /\ DOMAIN s.left = I /\ s.made \in SUBSET Payment(I)
    BY DEF Squaring, SettlementState
  <2>1. /\ t \in Payment(I)
        /\ from # to
        /\ s.left[from] < 0 /\ s.left[to] > 0
        /\ c > 0 /\ c <= -s.left[from] /\ c <= s.left[to]
        /\ c = -s.left[from] \/ c = s.left[to]
        /\ r.made = s.made \cup {t}
        /\ r.left \in [I -> Int]
        /\ r.left[from] = s.left[from] + c
        /\ r.left[to] = s.left[to] - c
        /\ \A i \in I : i # from /\ i # to => r.left[i] = s.left[i]
    <3>1. Debtors(s.left) # {} /\ Creditors(s.left) # {}
      BY <1>2 DEF Done
    <3>2. Pays(I, s, NextTransfer(nets, s.left), Round(nets, s))
      BY <2>0, <3>1, RoundPays
    <3> QED
      BY <3>2 DEF Pays
  <2>2. from \in I /\ to \in I /\ c \in Int
    BY <2>1 DEF Payment
  <2>3. r \in SettlementState(I)
    <3>1. r = [left |-> r.left, made |-> r.made]
      BY <1>2 DEF Round, Done
    <3>2. r.made \in SUBSET Payment(I)
      BY <2>0, <2>1
    <3> HIDE DEF r
    <3> QED
      BY <2>1, <3>1, <3>2 DEF SettlementState
  <2>4. from = t.from /\ to = t.to /\ c = t.cents
    OBVIOUS
  <2> HIDE DEF t, r, from, to, c
  <2>5. s.left[from] \in Int /\ s.left[to] \in Int /\ r.left[from] \in Int /\ r.left[to] \in Int
    BY <2>0, <2>1, <2>2
  <2>6. r.left[from] = 0 \/ r.left[to] = 0
    BY <2>1, <2>2, <2>5
  <2>7. \A i \in I : s.left[i] = 0 => r.left[i] = 0
    <3> SUFFICES ASSUME NEW i \in I, s.left[i] = 0
                 PROVE  r.left[i] = 0
      OBVIOUS
    <3>1. i # from /\ i # to
      BY <2>1, <2>5
    <3> QED
      BY <2>1, <3>1
  <2>8. t \notin s.made
    <3>1. \A u \in s.made : s.left[u.from] = 0 \/ s.left[u.to] = 0
      BY DEF Squaring
    <3> QED
      BY <2>1, <2>4, <2>5, <3>1
  <2>9. \A u \in r.made : u.cents > 0 /\ (r.left[u.from] = 0 \/ r.left[u.to] = 0)
    <3> SUFFICES ASSUME NEW u \in r.made
                 PROVE  u.cents > 0 /\ (r.left[u.from] = 0 \/ r.left[u.to] = 0)
      OBVIOUS
    <3>1. CASE u = t
      BY <2>1, <2>4, <2>6, <3>1
    <3>2. CASE u \in s.made
      <4>1. u.cents > 0 /\ (s.left[u.from] = 0 \/ s.left[u.to] = 0)
        BY <3>2 DEF Squaring
      <4>2. u.from \in I /\ u.to \in I
        BY <2>0, <3>2 DEF Payment
      <4> QED
        BY <2>7, <4>1, <4>2
    <3> QED
      BY <2>1, <3>1, <3>2
  <2>10. SumFunctionOnSet(r.left, I) = 0
    <3> DEFINE f == s.left
               g == r.left
    <3>1. \A z \in I : f[z] \in Int
      BY <2>0
    <3>2. g[from] = f[from] + c
      BY <2>1
    <3>3. g[to] = f[to] - c
      BY <2>1
    <3>4. \A z \in I : z # from /\ z # to => g[z] = f[z]
      BY <2>1
    <3>5. from # to
      BY <2>1
    <3> HIDE DEF f, g
    <3>7. Moves(f, g, I, from, to, c)
      BY <2>2, <3>1, <3>2, <3>3, <3>4, <3>5 DEF Moves
    <3>6. SumFunctionOnSet(g, I) = SumFunctionOnSet(f, I)
      BY <3>7, SumMoved
    <3> QED
      BY <3>6 DEF f, g, Squaring
  <2>11. IsFiniteSet(s.made) /\ IsFiniteSet(r.made)
    BY <2>1, FS_AddElement DEF Squaring
  <2>12. \A R \in SUBSET s.made :
            /\ IsFiniteSet(R)
            /\ SumFunctionOnSet(Amounts(I), R) \in Int
            /\ SumFunctionOnSet(Amounts(I), R \cup {t}) = SumFunctionOnSet(Amounts(I), R) + c
    <3> SUFFICES ASSUME NEW R \in SUBSET s.made
                 PROVE  /\ IsFiniteSet(R)
                        /\ SumFunctionOnSet(Amounts(I), R) \in Int
                        /\ SumFunctionOnSet(Amounts(I), R \cup {t}) = SumFunctionOnSet(Amounts(I), R) + c
      OBVIOUS
    <3>1. IsFiniteSet(R)
      BY <2>11, FS_Subset
    <3>2. \A u \in R : Amounts(I)[u] \in Int
      BY <2>0 DEF Amounts, Payment
    <3>3. t \notin R /\ Amounts(I)[t] = c
      BY <2>1, <2>4, <2>8 DEF Amounts
    <3> QED
      BY <2>2, <3>1, <3>2, <3>3, SumOfOneMore, SumWithout
  <2>13. \A i \in I : /\ Gives(I, s.made, i) \in Int /\ Gets(I, s.made, i) \in Int
                      /\ Gives(I, r.made, i) = Gives(I, s.made, i) + IF i = from THEN c ELSE 0
                      /\ Gets(I, r.made, i) = Gets(I, s.made, i) + IF i = to THEN c ELSE 0
    <3> SUFFICES ASSUME NEW i \in I
                 PROVE  /\ Gives(I, s.made, i) \in Int /\ Gets(I, s.made, i) \in Int
                        /\ Gives(I, r.made, i) = Gives(I, s.made, i) + IF i = from THEN c ELSE 0
                        /\ Gets(I, r.made, i) = Gets(I, s.made, i) + IF i = to THEN c ELSE 0
      OBVIOUS
    <3> DEFINE A == {u \in s.made : u.from = i}
               B == {u \in s.made : u.to = i}
    <3>1. A \in SUBSET s.made /\ B \in SUBSET s.made
      OBVIOUS
    <3>2. {u \in r.made : u.from = i} = IF i = from THEN A \cup {t} ELSE A
      BY <2>1, <2>4
    <3>3. {u \in r.made : u.to = i} = IF i = to THEN B \cup {t} ELSE B
      BY <2>1, <2>4
    <3>4. Gives(I, s.made, i) = SumFunctionOnSet(Amounts(I), A) /\ Gets(I, s.made, i) = SumFunctionOnSet(Amounts(I), B)
      BY DEF Gives, Gets
    <3>5. /\ Gives(I, r.made, i) = SumFunctionOnSet(Amounts(I), IF i = from THEN A \cup {t} ELSE A)
          /\ Gets(I, r.made, i) = SumFunctionOnSet(Amounts(I), IF i = to THEN B \cup {t} ELSE B)
      BY <3>2, <3>3 DEF Gives, Gets
    <3> HIDE DEF A, B
    <3>6. /\ SumFunctionOnSet(Amounts(I), A) \in Int /\ SumFunctionOnSet(Amounts(I), B) \in Int
          /\ SumFunctionOnSet(Amounts(I), A \cup {t}) = SumFunctionOnSet(Amounts(I), A) + c
          /\ SumFunctionOnSet(Amounts(I), B \cup {t}) = SumFunctionOnSet(Amounts(I), B) + c
      BY <2>12, <3>1
    <3>7. Gives(I, r.made, i) = Gives(I, s.made, i) + IF i = from THEN c ELSE 0
      BY <3>4, <3>5, <3>6
    <3>8. Gets(I, r.made, i) = Gets(I, s.made, i) + IF i = to THEN c ELSE 0
      BY <3>4, <3>5, <3>6
    <3> QED
      BY <3>4, <3>6, <3>7, <3>8
  <2>14. \A i \in I : r.left[i] = nets[i] + Gives(I, r.made, i) - Gets(I, r.made, i)
    <3> SUFFICES ASSUME NEW i \in I
                 PROVE  r.left[i] = nets[i] + Gives(I, r.made, i) - Gets(I, r.made, i)
      OBVIOUS
    <3>1. s.left[i] = nets[i] + Gives(I, s.made, i) - Gets(I, s.made, i)
      BY DEF Squaring
    <3>2. nets[i] \in Int /\ Gives(I, s.made, i) \in Int /\ Gets(I, s.made, i) \in Int
      BY <2>13
    <3>6. /\ Gives(I, r.made, i) = Gives(I, s.made, i) + IF i = from THEN c ELSE 0
          /\ Gets(I, r.made, i) = Gets(I, s.made, i) + IF i = to THEN c ELSE 0
      BY <2>13
    <3>7. r.left[i] = IF i = from THEN s.left[i] + c ELSE IF i = to THEN s.left[i] - c ELSE s.left[i]
      BY <2>1
    <3>8. from # to /\ c \in Int
      BY <2>1, <2>2
    <3>9. \A a, b, d \in Int : /\ (a + b - d) + c = a + (b + c) - (d + 0)
                               /\ (a + b - d) - c = a + (b + 0) - (d + c)
                               /\ a + b - d = a + (b + 0) - (d + 0)
      BY <3>8
    <3>3. CASE i = from
      BY <3>1, <3>2, <3>3, <3>6, <3>7, <3>8, <3>9
    <3>4. CASE i = to
      BY <3>1, <3>2, <3>4, <3>6, <3>7, <3>8, <3>9
    <3>5. CASE i # from /\ i # to
      BY <3>1, <3>2, <3>5, <3>6, <3>7, <3>8, <3>9
    <3> QED
      BY <3>3, <3>4, <3>5
  <2>15. /\ Open(s.left) \in SUBSET I
         /\ Open(r.left) \in SUBSET Open(s.left)
         /\ from \in Open(s.left) /\ to \in Open(s.left)
         /\ Open(r.left) # Open(s.left)
    <3>1. Open(s.left) = {i \in I : s.left[i] # 0} /\ Open(r.left) = {i \in I : r.left[i] # 0}
      BY <2>0, <2>1 DEF Open
    <3>2. from \in Open(s.left) /\ to \in Open(s.left)
      BY <2>1, <2>2, <2>5, <3>1
    <3>3. from \notin Open(r.left) \/ to \notin Open(r.left)
      BY <2>6, <3>1
    <3>4. Open(s.left) \in SUBSET I /\ Open(r.left) \in SUBSET Open(s.left)
      BY <2>7, <3>1
    <3> QED
      BY <3>2, <3>3, <3>4
  <2>16. /\ IsFiniteSet(Open(s.left)) /\ IsFiniteSet(Open(r.left))
         /\ Cardinality(Open(s.left)) \in Nat /\ Cardinality(Open(r.left)) \in Nat
         /\ Cardinality(Open(r.left)) < Cardinality(Open(s.left))
    <3>1. IsFiniteSet(Open(s.left))
      BY <2>15, FS_Subset
    <3>2. IsFiniteSet(Open(r.left))
      BY <2>15, <3>1, FS_Subset
    <3>3. Cardinality(Open(s.left)) \in Nat /\ Cardinality(Open(r.left)) \in Nat
      BY <3>1, <3>2, FS_CardinalityType
    <3>4. Cardinality(Open(r.left)) <= Cardinality(Open(s.left)) /\ Cardinality(Open(r.left)) # Cardinality(Open(s.left))
      BY <2>15, <3>1, FS_Subset
    <3> QED
      BY <3>1, <3>2, <3>3, <3>4
  <2>17. Cardinality(Open(s.left)) >= 2
    <3>1. Cardinality({from, to}) = 2
      <4>1. {from, to} = {from} \cup {to} /\ to \notin {from}
        BY <2>1
      <4>2. IsFiniteSet({from}) /\ Cardinality({from}) = 1
        BY FS_Singleton
      <4>3. Cardinality({from} \cup {to}) = Cardinality({from}) + 1
        BY <4>1, <4>2, FS_AddElement
      <4> QED
        BY <4>1, <4>2, <4>3
    <3>2. {from, to} \in SUBSET Open(s.left)
      BY <2>15
    <3>3. Cardinality({from, to}) <= Cardinality(Open(s.left))
      BY <2>16, <3>2, FS_Subset
    <3> QED
      BY <2>16, <3>1, <3>3
  <2>18. Cardinality(r.made) = Cardinality(s.made) + 1 /\ Cardinality(s.made) \in Nat
    BY <2>1, <2>8, <2>11, FS_AddElement, FS_CardinalityType
  <2>19. Cardinality(I) \in Nat /\ Cardinality(s.made) + Cardinality(Open(s.left)) <= Cardinality(I)
    BY FS_CardinalityType DEF Squaring
  <2>20. Cardinality(r.made) + Cardinality(Open(r.left)) <= Cardinality(I)
    BY <2>16, <2>18, <2>19
  <2>21. Cardinality(r.made) < Cardinality(I)
    BY <2>16, <2>17, <2>18, <2>19
  <2>22. Squaring(I, nets, r)
    BY <2>3, <2>9, <2>10, <2>11, <2>14, <2>20, <2>21 DEF Squaring
  <2> QED
    BY <1>2, <2>16, <2>22 DEF r
<1> QED
  BY <1>1, <1>2

\* There are such rounds.
LEMMA RoundsExist ==
  ASSUME NEW I, IsFiniteSet(I), I \subseteq Int, NEW nets \in [I -> Int],
         SumFunctionOnSet(nets, I) = 0
  PROVE  \E after : RoundsOf(nets, after)
<1> DEFINE N == Cardinality(I)
           V == {s \in SettlementState(I) : Squaring(I, nets, s)}
           first == [left |-> nets, made |-> {}]
           step == [n \in 1..N |-> [s \in V |-> Round(nets, s)]]
<1>1. N \in Nat /\ DOMAIN nets = I
  BY FS_CardinalityType
<1>2. first \in V
  BY SquaringFirst DEF Squaring
<1>3. \A s \in V : Round(nets, s) \in V
  <2> SUFFICES ASSUME NEW s, Squaring(I, nets, s)
               PROVE  Round(nets, s) \in SettlementState(I) /\ Squaring(I, nets, Round(nets, s))
    OBVIOUS
  <2>1. Squaring(I, nets, Round(nets, s))
    BY RoundKeepsSquaring
  <2> QED
    BY <2>1 DEF Squaring
<1>4. step \in [1..N -> [V -> V]]
  BY <1>3
<1> HIDE DEF V, first, N, step
<1>5. Recursions(N, V, first, step) # {}
  BY <1>1, <1>2, <1>4, RecursionExists
<1>6. PICK after \in [0..N -> V] : after[0] = first /\ \A n \in 1..N : after[n] = step[n][after[n - 1]]
  BY <1>5 DEF Recursions
<1>7. \A n \in 1..N : n - 1 \in 0..N /\ after[n] = Round(nets, after[n - 1])
  <2> SUFFICES ASSUME NEW n \in 1..N
               PROVE  n - 1 \in 0..N /\ after[n] = Round(nets, after[n - 1])
    OBVIOUS
  <2>1. n - 1 \in 0..N
    BY <1>1
  <2>2. after[n - 1] \in V
    BY <1>6, <2>1
  <2>3. step[n][after[n - 1]] = Round(nets, after[n - 1])
    BY <2>2 DEF step
  <2> QED
    BY <1>6, <2>1, <2>3
<1>8. after = [n \in 0..N |-> IF n = 0 THEN [left |-> nets, made |-> {}] ELSE Round(nets, after[n - 1])]
  <2>1. after = [n \in 0..N |-> after[n]]
    BY <1>6
  <2>2. \A n \in 0..N : after[n] = IF n = 0 THEN [left |-> nets, made |-> {}] ELSE Round(nets, after[n - 1])
    BY <1>1, <1>6, <1>7 DEF first
  <2> QED
    BY <2>1, <2>2
<1> QED
  BY <1>1, <1>8 DEF RoundsOf, N

\* After the last round everything is settled.
THEOREM TransfersSquare ==
  ASSUME NEW I, IsFiniteSet(I), I \subseteq Int, NEW nets \in [I -> Int],
         SumFunctionOnSet(nets, I) = 0
  PROVE  LET made == Transfers(nets)
         IN  /\ made \in SUBSET Payment(I)
             /\ IsFiniteSet(made)
             /\ \A t \in made : t.cents > 0
             /\ \A i \in I : /\ Gives(I, made, i) \in Int /\ Gets(I, made, i) \in Int
                             /\ Gets(I, made, i) - Gives(I, made, i) = nets[i]
             /\ made # {} => Cardinality(made) < Cardinality(I)
<1> DEFINE N == Cardinality(I)
<1>1. N \in Nat /\ DOMAIN nets = I
  BY FS_CardinalityType
<1>2. PICK after : RoundsOf(nets, after) /\ Transfers(nets) = after[N].made
  BY <1>1, RoundsExist, TransfersOpened
<1>3. /\ after[0] = [left |-> nets, made |-> {}]
      /\ \A n \in Nat : n + 1 \in 0..N => after[n + 1] = Round(nets, after[n])
  <2>1. \A n \in 0..N : after[n] = IF n = 0 THEN [left |-> nets, made |-> {}] ELSE Round(nets, after[n - 1])
    BY <1>1, <1>2 DEF RoundsOf
  <2>2. 0 \in 0..N
    BY <1>1
  <2>3. \A n \in Nat : n + 1 # 0 /\ (n + 1) - 1 = n
    OBVIOUS
  <2> QED
    BY <2>1, <2>2, <2>3
<1> DEFINE Reached == {n \in Nat : n <= N => /\ Squaring(I, nets, after[n])
                                             /\ Done(after[n]) \/ Cardinality(Open(after[n].left)) <= N - n}
<1>4. 0 \in Reached
  <2>1. Squaring(I, nets, after[0])
    BY <1>3, SquaringFirst
  <2>2. Open(nets) \in SUBSET I
    BY DEF Open
  <2>3. Cardinality(Open(nets)) <= N - 0
    BY <1>1, <2>2, FS_Subset
  <2>4. after[0].left = nets
    BY <1>3
  <2> HIDE DEF N
  <2> QED
    BY <2>1, <2>3, <2>4
<1>5. ASSUME NEW n \in Nat, n \in Reached
      PROVE  n + 1 \in Reached
  <2> SUFFICES ASSUME n + 1 <= N
               PROVE  /\ Squaring(I, nets, after[n + 1])
                      /\ Done(after[n + 1]) \/ Cardinality(Open(after[n + 1].left)) <= N - (n + 1)
    OBVIOUS
  <2> HIDE DEF N
  <2>1. after[n + 1] = Round(nets, after[n])
    BY <1>1, <1>3
  <2>2. Squaring(I, nets, after[n]) /\ (Done(after[n]) \/ Cardinality(Open(after[n].left)) <= N - n)
    BY <1>1, <1>5
  <2>3. CASE Done(after[n])
    BY <2>1, <2>2, <2>3, RoundKeepsSquaring
  <2>4. CASE ~Done(after[n])
    <3>1. /\ Squaring(I, nets, after[n + 1])
          /\ Cardinality(Open(after[n + 1].left)) \in Nat
          /\ Cardinality(Open(after[n].left)) \in Nat
          /\ Cardinality(Open(after[n + 1].left)) < Cardinality(Open(after[n].left))
      <4> DEFINE now == after[n]
                 then == after[n + 1]
      <4>1. then = Round(nets, now) /\ Squaring(I, nets, now) /\ ~Done(now)
        BY <2>1, <2>2, <2>4
      <4> HIDE DEF now, then
      <4>2. /\ Squaring(I, nets, then)
            /\ Cardinality(Open(then.left)) \in Nat
            /\ Cardinality(Open(now.left)) \in Nat
            /\ Cardinality(Open(then.left)) < Cardinality(Open(now.left))
        BY <4>1, RoundKeepsSquaring
      <4> QED
        BY <4>2 DEF now, then
    <3>2. Cardinality(Open(after[n + 1].left)) <= N - (n + 1)
      BY <1>1, <2>2, <2>4, <3>1
    <3> QED
      BY <3>1, <3>2
  <2> QED
    BY <2>3, <2>4
<1> HIDE DEF Reached
<1>6. N \in Reached
  BY <1>1, <1>4, <1>5, UpTheNumbers
<1> DEFINE s == after[N]
<1>7. Squaring(I, nets, s) /\ (Done(s) \/ Cardinality(Open(s.left)) <= 0)
  BY <1>1, <1>6 DEF Reached
<1> HIDE DEF s
<1>8. /\ s.left \in [I -> Int] /\ s.made \in SUBSET Payment(I) /\ DOMAIN s.left = I
      /\ \A i \in I : s.left[i] \in Int
  BY <1>7 DEF Squaring, SettlementState
<1>9. SumFunctionOnSet(s.left, I) = 0
  BY <1>7 DEF Squaring
<1>10. \A i \in I : s.left[i] = 0
  <2> DEFINE f == s.left
             c == -1
             g == [i \in I |-> -f[i]]
  <2>1. \A i \in I : f[i] \in Int /\ g[i] = c * f[i] /\ g[i] = -f[i]
    <3>1. \A x \in Int : -x = c * x
      OBVIOUS
    <3>2. \A i \in I : g[i] = -f[i]
      OBVIOUS
    <3> QED
      BY <1>8, <3>1, <3>2
  <2>5. c \in Int /\ c * 0 = 0
    OBVIOUS
  <2>2. CASE Debtors(s.left) = {}
    <3>1. \A i \in I : f[i] >= 0
      BY <1>8, <2>2 DEF Debtors
    <3> HIDE DEF f, g
    <3>2. \A i \in I : f[i] = 0
      BY <1>9, <2>1, <3>1, SumOfZeroIsZero DEF f
    <3> QED
      BY <3>2 DEF f
  <2>3. CASE Creditors(s.left) = {}
    <3>1. \A i \in I : ~(f[i] > 0)
      BY <1>8, <2>3 DEF Creditors
    <3> DEFINE zero == [i \in I |-> 0]
    <3>3. \A i \in I : zero[i] = 0
      OBVIOUS
    <3>2. Differs(g, zero, f, I)
      <4> HIDE DEF f, g, zero
      <4>1. ASSUME NEW x \in I
            PROVE  zero[x] \in Int /\ f[x] \in Int /\ g[x] = zero[x] - f[x]
        BY <2>1, <3>3
      <4> QED
        BY <4>1 DEF Differs
    <3> HIDE DEF f, g, c, zero
    <3>4. SumFunctionOnSet(g, I) = SumFunctionOnSet(zero, I) - SumFunctionOnSet(f, I)
      BY <3>2, SumsSubtract
    <3>5. SumFunctionOnSet(zero, I) = 0
      BY <3>3, SumOfZeros
    <3>6. SumFunctionOnSet(g, I) = 0
      BY <1>9, <3>4, <3>5 DEF f
    <3>7. \A i \in I : g[i] \in Int /\ g[i] >= 0
      <4> SUFFICES ASSUME NEW i \in I
                   PROVE  g[i] \in Int /\ g[i] >= 0
        OBVIOUS
      <4>1. f[i] \in Int /\ g[i] = -f[i] /\ ~(f[i] > 0)
        BY <2>1, <3>1
      <4> QED
        BY <4>1
    <3>8. \A i \in I : g[i] = 0
      BY <3>6, <3>7, SumOfZeroIsZero
    <3>9. \A i \in I : f[i] = 0
      <4> SUFFICES ASSUME NEW i \in I
                   PROVE  f[i] = 0
        OBVIOUS
      <4>1. f[i] \in Int /\ g[i] = -f[i] /\ g[i] = 0
        BY <2>1, <3>8
      <4> QED
        BY <4>1
    <3> QED
      BY <3>9 DEF f
  <2>4. CASE Cardinality(Open(s.left)) <= 0
    <3>1. Open(s.left) \in SUBSET I
      BY <1>8 DEF Open
    <3>2. IsFiniteSet(Open(s.left))
      BY <3>1, FS_Subset
    <3>3. Open(s.left) = {}
      BY <2>4, <3>2, FS_CardinalityType, FS_EmptySet
    <3> QED
      BY <1>8, <3>3 DEF Open
  <2> QED
    BY <1>7, <2>2, <2>3, <2>4 DEF Done
<1>11. Open(s.left) = {}
  BY <1>8, <1>10 DEF Open
<1>12. \A i \in I : Gives(I, s.made, i) \in Int /\ Gets(I, s.made, i) \in Int
  <2>1. \A R \in SUBSET s.made : SumFunctionOnSet(Amounts(I), R) \in Int
    <3> SUFFICES ASSUME NEW R \in SUBSET s.made
                 PROVE  SumFunctionOnSet(Amounts(I), R) \in Int
      OBVIOUS
    <3>1. IsFiniteSet(R)
      BY <1>7, FS_Subset DEF Squaring
    <3>2. \A u \in R : Amounts(I)[u] \in Int
      BY <1>8 DEF Amounts, Payment
    <3> QED
      BY <3>1, <3>2, SumWithout
  <2> QED
    BY <2>1 DEF Gives, Gets
<1>13. ASSUME NEW i \in I
       PROVE  Gets(I, s.made, i) - Gives(I, s.made, i) = nets[i]
  <2>1. 0 = nets[i] + Gives(I, s.made, i) - Gets(I, s.made, i)
    BY <1>7, <1>10 DEF Squaring
  <2> QED
    BY <1>12, <2>1
<1>14. s.made # {} => Cardinality(s.made) < Cardinality(I)
  BY <1>7, <1>11 DEF Squaring
<1>15. IsFiniteSet(s.made) /\ \A t \in s.made : t.cents > 0
  BY <1>7 DEF Squaring
<1>16. Transfers(nets) = s.made
  BY <1>2 DEF s
<1> QED
  BY <1>8, <1>12, <1>13, <1>14, <1>15, <1>16

-----------------------------------------------------------------------------
(***************************************************************************)
(* The book is sound.                                                      *)
(***************************************************************************)
\* What is planned or paid.
IsBooking(b) ==
    /\ DOMAIN b = Fields
    /\ b.direction \in Directions
    /\ b.frequency \in Frequencies
    /\ b.interval \in Nat \ {0}
    /\ b.amount \in Int
    /\ b.mode \in Modes
    /\ IsFiniteSet(DOMAIN b.splits)
    /\ \A i \in DOMAIN b.splits : b.splits[i] \in Int

\* The bookings, their amounts over time and the decisions on payments, each with parts
\* for members alone.
PlansAreSound ==
    /\ DOMAIN booking = Ids
    /\ \A b \in Stored : IsBooking(booking[b]) /\ DOMAIN booking[b].splits \subseteq members
AmountsAreSound ==
    /\ IsFiniteSet(overrides)
    /\ \A o \in overrides : o.amount \in Int /\ o.from \in Int /\ o.id \in Int
PaymentsAreSound ==
    /\ DOMAIN payment = Payments
    /\ \A p \in Payments : IsTally(payment[p].splits) /\ Holders(payment[p].splits) \subseteq members

\* The invariant: it is inductive, and the calculations are sound of what it says.
BookInv ==
    /\ members \subseteq Persons
    /\ PlansAreSound
    /\ AmountsAreSound
    /\ PaymentsAreSound

-----------------------------------------------------------------------------
\* Names of finitely many things, which may share one.
LEMMA NamesAreFinite ==
  ASSUME NEW S, IsFiniteSet(S), NEW name
  PROVE  IsFiniteSet(ImageOf(name, S))
<1> DEFINE P == {T \in SUBSET S : IsFiniteSet(ImageOf(name, T))}
<1>1. {} \in P
  <2>1. ImageOf(name, {}) = {}
    BY DEF ImageOf
  <2> QED
    BY <2>1, FS_EmptySet
<1>2. ASSUME NEW T \in SUBSET S, NEW x \in S \ T, T \in P
      PROVE  T \cup {x} \in P
  <2>1. ImageOf(name, T \cup {x}) = ImageOf(name, T) \cup {name[x]}
    BY DEF ImageOf
  <2>2. IsFiniteSet(ImageOf(name, T))
    BY <1>2
  <2>3. IsFiniteSet(ImageOf(name, T) \cup {name[x]})
    BY <2>2, FS_AddElement
  <2> QED
    BY <2>1, <2>3
<1> HIDE DEF P
<1>3. S \in P
  BY <1>1, <1>2, SetsGrow
<1> QED
  BY <1>3 DEF P

\* Numbers have a greatest one.
LEMMA MaxOfNumbers ==
  ASSUME NEW S, IsFiniteSet(S), S \subseteq Int, S # {}
  PROVE  Max(S) \in S /\ \A y \in S : Max(S) >= y
<1> DEFINE P == {T \in SUBSET S : T # {} => \E x \in T : \A y \in T : x >= y}
<1>1. {} \in P
  OBVIOUS
<1>2. ASSUME NEW T \in SUBSET S, NEW x \in S \ T, T \in P
      PROVE  T \cup {x} \in P
  <2>1. CASE T = {}
    BY <2>1
  <2>2. CASE T # {}
    <3>1. PICK z \in T : \A y \in T : z >= y
      BY <1>2, <2>2
    <3>2. x \in Int /\ z \in Int /\ \A y \in T : y \in Int
      OBVIOUS
    <3>3. CASE x >= z
      BY <3>1, <3>2, <3>3
    <3>4. CASE ~(x >= z)
      BY <3>1, <3>2, <3>4
    <3> QED
      BY <3>3, <3>4
  <2> QED
    BY <2>1, <2>2
<1> HIDE DEF P
<1>3. S \in P
  BY <1>1, <1>2, SetsGrow
<1> QED
  BY <1>3 DEF P, Max

\* The amount of a month is a number.
LEMMA AmountInForce ==
  ASSUME NEW b, b.amount \in Int, NEW some, IsFiniteSet(some),
         \A o \in some : o.amount \in Int /\ o.from \in Int /\ o.id \in Int, NEW m
  PROVE  AmountFor(b, some, m) \in Int
<1> DEFINE S == {o \in some : Covers(o, m)}
           After(o, x) == x.from < o.from \/ (x.from = o.from /\ x.id <= o.id)
           P == {T \in SUBSET S : T # {} => \E o \in T : \A x \in T : After(o, x)}
<1>1. {} \in P
  OBVIOUS
<1>2. ASSUME NEW T \in SUBSET S, NEW x \in S \ T, T \in P
      PROVE  T \cup {x} \in P
  <2>1. CASE T = {}
    BY <2>1
  <2>2. CASE T # {}
    <3>1. PICK z \in T : \A y \in T : After(z, y)
      BY <1>2, <2>2
    <3>2. /\ x.from \in Int /\ x.id \in Int /\ z.from \in Int /\ z.id \in Int
          /\ \A y \in T : y.from \in Int /\ y.id \in Int
      OBVIOUS
    <3>3. CASE After(x, z)
      <4>1. \A y \in T : After(x, y)
        BY <3>1, <3>2, <3>3
      <4> QED
        BY <3>2, <4>1
    <3>4. CASE ~After(x, z)
      <4>1. After(z, x)
        BY <3>2, <3>4
      <4> QED
        BY <3>1, <4>1
    <3> QED
      BY <3>3, <3>4
  <2> QED
    BY <2>1, <2>2
<1>3. IsFiniteSet(S)
  BY FS_Subset
<1> HIDE DEF P
<1>4. S \in P
  BY <1>1, <1>2, <1>3, SetsGrow
<1>5. S # {} => \E o \in S : \A x \in S : After(o, x)
  BY <1>4 DEF P
<1>6. ASSUME S # {}
      PROVE  (CHOOSE o \in S : \A x \in S : After(o, x)).amount \in Int
  BY <1>5, <1>6
<1> QED
  BY <1>6 DEF AmountFor

\* A percentage is kept between none and all.
LEMMA PercentInt ==
  ASSUME NEW v \in Int
  PROVE  ClampPercent(v) \in 0..100
  BY DEF ClampPercent, Lesser

\* What a plan makes of a payment.
LEMMA AllocationIsTally ==
  ASSUME NEW plan, IsFiniteSet(DOMAIN plan.splits),
         \A i \in DOMAIN plan.splits : plan.splits[i] \in Int,
         plan.mode \in Modes, DOMAIN plan.splits \subseteq Int, NEW amount \in Int
  PROVE  IsTally(ActualAllocation(plan, amount))
<1> DEFINE Weight(i) == CASE plan.mode = "percent" -> ClampPercent(plan.splits[i])
                          [] plan.mode = "fixed"   -> plan.splits[i]
                          [] plan.mode = "equal"   -> 1
           carriers == {i \in DOMAIN plan.splits : Weight(i) > 0 \/ (Weight(i) = 0 /\ amount = 0)}
           f == [i \in carriers |-> Weight(i)]
           raw == [i \in carriers |-> amount * Weight(i)]
           sum == SumFunction(f)
<1>1. \A i \in DOMAIN plan.splits : Weight(i) \in Int
  BY PercentInt DEF Modes
<1>2. IsFiniteSet(carriers) /\ DOMAIN f = carriers /\ DOMAIN raw = carriers
  BY FS_Subset
<1>3. \A i \in carriers : f[i] \in Int /\ f[i] >= 0 /\ raw[i] \in Int
  <2> SUFFICES ASSUME NEW i \in carriers
               PROVE  f[i] \in Int /\ f[i] >= 0 /\ raw[i] \in Int
    OBVIOUS
  <2>1. Weight(i) \in Int /\ Weight(i) >= 0
    <3> DEFINE w == Weight(i)
    <3>1. w \in Int
      BY <1>1
    <3>2. w > 0 \/ w = 0
      OBVIOUS
    <3>3. w >= 0
      <4> HIDE DEF w
      <4> QED
        BY <3>1, <3>2
    <3> QED
      BY <3>1, <3>3
  <2>2. f[i] = Weight(i) /\ raw[i] = amount * Weight(i)
    OBVIOUS
  <2> HIDE DEF Weight, f, raw
  <2> QED
    BY <2>1, <2>2
<1>4. ActualAllocation(plan, amount)
          = IF ~CompleteSplit(plan, plan.amount) \/ (sum = 0 /\ amount # 0) THEN {}
            ELSE IF sum = 0 THEN {<<i, 0>> : i \in carriers} ELSE BalancedCents(raw, sum, amount)
  BY DEF ActualAllocation
<1>5. sum = SumFunctionOnSet(f, carriers)
  BY <1>2 DEF SumFunction
<1> HIDE DEF carriers, f, raw, sum, Weight
<1>6. sum \in Nat
  <2> DEFINE zero == [i \in carriers |-> 0]
  <2>1. \A i \in carriers : zero[i] \in Int /\ f[i] \in Int /\ zero[i] <= f[i]
    BY <1>3
  <2>2. \A i \in carriers : zero[i] = 0
    OBVIOUS
  <2> HIDE DEF zero
  <2>3. SumFunctionOnSet(zero, carriers) = 0
    BY <1>2, <2>2, SumOfZeros
  <2>4. SumFunctionOnSet(zero, carriers) <= SumFunctionOnSet(f, carriers)
    BY <1>2, <2>1, SumsCompare
  <2>5. SumFunctionOnSet(f, carriers) \in Int
    BY <1>2, <1>3, SumWithout
  <2> QED
    BY <1>5, <2>3, <2>4, <2>5
<1>7. IsTally({})
  <2>1. Holders({}) = {}
    BY DEF Holders
  <2> QED
    BY <2>1, FS_EmptySet DEF IsTally
<1>8. IsTally({<<i, 0>> : i \in carriers})
  <2> DEFINE zero == [i \in carriers |-> 0]
  <2>1. {<<i, 0>> : i \in carriers} = Graph(zero, carriers) /\ \A i \in carriers : zero[i] \in Int
    BY DEF Graph
  <2> HIDE DEF zero
  <2> QED
    BY <1>2, <2>1, TallyOf
<1>9. ASSUME sum # 0
      PROVE  IsTally(BalancedCents(raw, sum, amount))
  BY <1>2, <1>3, <1>6, <1>9, BalancedCentsTally
<1> QED
  BY <1>4, <1>7, <1>8, <1>9

-----------------------------------------------------------------------------
(***************************************************************************)
(* The invariant.                                                          *)
(***************************************************************************)
\* The persons are finitely many numbers.
LEMMA PersonsAre == /\ Persons \subseteq Int /\ IsFiniteSet(Persons) /\ Everyone \notin Persons
                    /\ \A S \in SUBSET Persons : IsFiniteSet(S) /\ S \subseteq Int
<1>1. Persons \subseteq Int /\ IsFiniteSet(Persons) /\ Everyone \notin Persons
  BY IdsAreApart DEF Everyone
<1>2. \A S \in SUBSET Persons : IsFiniteSet(S)
  BY <1>1, FS_Subset
<1> QED
  BY <1>1, <1>2

\* What is typed is a booking, without those who are no member.
LEMMA FormIsBooking ==
  ASSUME NEW f \in Forms, members \subseteq Persons
  PROVE  IsBooking(Resolved(f)) /\ DOMAIN Resolved(f).splits \subseteq members
<1> DEFINE r == Resolved(f)
           kept == DOMAIN f.splits \cap members
<1>1. /\ DOMAIN f = Fields /\ f.direction \in Directions /\ f.frequency \in Frequencies
      /\ f.interval \in 1..60 /\ f.amount \in Int /\ f.mode \in Modes
      /\ f.splits \in [DOMAIN f.splits -> Int]
  BY FormsAreTyped
<1>2. r.splits = Restrict(f.splits, kept)
  BY <1>1 DEF Resolved, Fields
<1>3. /\ DOMAIN r = Fields /\ r.direction = f.direction /\ r.frequency = f.frequency
      /\ r.interval = f.interval /\ r.amount = f.amount /\ r.mode = f.mode
  BY <1>1 DEF Resolved, Fields
<1>4. DOMAIN r.splits = kept /\ \A i \in kept : r.splits[i] = f.splits[i]
  BY <1>2 DEF Restrict
<1>5. \A i \in kept : f.splits[i] \in Int
  BY <1>1
<1>6. IsFiniteSet(kept) /\ kept \subseteq members
  BY PersonsAre
<1> HIDE DEF r, kept
<1> QED
  BY <1>1, <1>3, <1>4, <1>5, <1>6 DEF IsBooking, r

\* A member that goes leaves bookings behind.
LEMMA BereftIsBooking ==
  ASSUME NEW b, IsBooking(b), DOMAIN b.splits \subseteq members, NEW i
  PROVE  IsBooking(Bereft(b, i)) /\ DOMAIN Bereft(b, i).splits \subseteq members \ {i}
<1> DEFINE r == Bereft(b, i)
           kept == DOMAIN b.splits \ {i}
<1>1. r.splits = Restrict(b.splits, kept)
  BY DEF Bereft, Fields, IsBooking
<1>2. /\ DOMAIN r = Fields /\ r.direction = b.direction /\ r.frequency = b.frequency
      /\ r.interval = b.interval /\ r.amount = b.amount /\ r.mode = b.mode
  BY DEF Bereft, Fields, IsBooking
<1>3. DOMAIN r.splits = kept /\ \A j \in kept : r.splits[j] = b.splits[j]
  BY <1>1 DEF Restrict
<1>4. IsFiniteSet(kept) /\ kept \subseteq members \ {i}
  BY FS_Subset DEF IsBooking
<1>5. \A j \in kept : b.splits[j] \in Int
  BY DEF IsBooking
<1> HIDE DEF r, kept
<1> QED
  BY <1>2, <1>3, <1>4, <1>5 DEF IsBooking, r

\* The empty book is sound.
LEMMA BookInvInitially == Init => BookInv
<1> SUFFICES ASSUME Init
             PROVE  BookInv
  OBVIOUS
<1>1. Holders({}) = {}
  BY DEF Holders
<1>2. IsTally({})
  BY <1>1, FS_EmptySet DEF IsTally
<1>3. PlansAreSound
  BY DEF Init, PlansAreSound, Stored
<1>4. AmountsAreSound
  BY FS_EmptySet DEF Init, AmountsAreSound
<1>5. PaymentsAreSound
  BY <1>1, <1>2 DEF Init, PaymentsAreSound, Undecided, Decided
<1> QED
  BY <1>3, <1>4, <1>5 DEF BookInv, Init

\* Bookings, amounts and their periods stay sound as they are edited.
LEMMA PlanningKeepsBook ==
  ASSUME BookInv, Planning
  PROVE  BookInv'
<1> USE DEF BookInv
<1>1. ASSUME NEW f \in Forms, CreateBooking(f)
      PROVE  BookInv'
  <2>1. IsBooking(Resolved(f)) /\ DOMAIN Resolved(f).splits \subseteq members
    BY FormIsBooking
  <2> QED
    BY <1>1, <2>1 DEF CreateBooking, PlansAreSound, Stored, AmountsAreSound, PaymentsAreSound
<1>2. ASSUME NEW b \in Ids, NEW f \in Forms, SaveBooking(b, f)
      PROVE  BookInv'
  <2>1. IsBooking(Resolved(f)) /\ DOMAIN Resolved(f).splits \subseteq members
    BY FormIsBooking
  <2> QED
    BY <1>2, <2>1 DEF SaveBooking, PlansAreSound, Stored, AmountsAreSound, PaymentsAreSound
<1>3. ASSUME NEW b \in Ids, DeleteBooking(b)
      PROVE  BookInv'
  <2>1. PlansAreSound' /\ PaymentsAreSound' /\ members' = members
    BY <1>3 DEF DeleteBooking, PlansAreSound, Stored, PaymentsAreSound
  <2>2. overrides' \subseteq overrides
    BY <1>3 DEF DeleteBooking
  <2> QED
    BY <2>1, <2>2, FS_Subset DEF AmountsAreSound
<1>4. ASSUME NEW id \in Int, NEW b, NEW s \in Spans,
             overrides' = overrides \cup {Typed(id, b, s)} \/
                 \E o \in overrides : overrides' = (overrides \ {o}) \cup {Typed(id, b, s)},
             UNCHANGED <<members, booking, nextId, payment, closed>>
      PROVE  BookInv'
  <2>1. PlansAreSound' /\ PaymentsAreSound' /\ members' = members
    BY <1>4 DEF PlansAreSound, Stored, PaymentsAreSound
  <2>2. Typed(id, b, s).amount \in Int /\ Typed(id, b, s).from \in Int /\ Typed(id, b, s).id \in Int
    BY AmountsAreTyped DEF Typed, Months, Beginning
  <2>3. overrides' \subseteq overrides \cup {Typed(id, b, s)}
    BY <1>4
  <2>4. IsFiniteSet(overrides \cup {Typed(id, b, s)})
    BY FS_AddElement DEF AmountsAreSound
  <2>5. IsFiniteSet(overrides')
    BY <2>3, <2>4, FS_Subset
  <2> QED
    BY <2>1, <2>2, <2>3, <2>5 DEF AmountsAreSound
<1>5. ASSUME NEW b \in Ids, NEW s \in Spans, CreateOverride(b, s)
      PROVE  BookInv'
  <2>1. /\ overrides' = overrides \cup {Typed(Max(Latest) + 1, b, s)}
        /\ UNCHANGED <<members, booking, nextId, payment, closed>>
    BY <1>5 DEF CreateOverride
  <2>2. Latest \subseteq Int /\ Latest # {}
    BY DEF Latest, AmountsAreSound
  <2>3. IsFiniteSet(Latest)
    <3> DEFINE id == [o \in overrides |-> o.id]
    <3>1. ImageOf(id, overrides) = {o.id : o \in overrides}
      BY DEF ImageOf
    <3> HIDE DEF id
    <3>2. IsFiniteSet(ImageOf(id, overrides))
      BY NamesAreFinite DEF AmountsAreSound
    <3> QED
      BY <3>1, <3>2, FS_AddElement DEF Latest
  <2>4. Max(Latest) + 1 \in Int
    <3>1. Max(Latest) \in Latest
      BY <2>2, <2>3, MaxOfNumbers
    <3> DEFINE max == Max(Latest)
    <3>2. max \in Int
      BY <2>2, <3>1
    <3> HIDE DEF max
    <3>3. max + 1 \in Int
      BY <3>2
    <3> QED
      BY <3>3 DEF max
  <2> QED
    BY <1>4, <2>1, <2>4
<1>6. ASSUME NEW o \in overrides, NEW s \in Spans, UpdateOverride(o, s)
      PROVE  BookInv'
  <2>1. o.id \in Int
    BY DEF AmountsAreSound
  <2> QED
    BY <1>4, <1>6, <2>1 DEF UpdateOverride
<1>7. ASSUME NEW o \in overrides, DeleteOverride(o)
      PROVE  BookInv'
  <2>1. PlansAreSound' /\ PaymentsAreSound' /\ members' = members
    BY <1>7 DEF DeleteOverride, PlansAreSound, Stored, PaymentsAreSound
  <2>2. overrides' \subseteq overrides
    BY <1>7 DEF DeleteOverride
  <2> QED
    BY <2>1, <2>2, FS_Subset DEF AmountsAreSound
<1>8. ASSUME NEW b \in Ids, NEW m \in Months, NEW amount \in Prices, ChangeAmountFrom(b, m, amount)
      PROVE  BookInv'
  <2> DEFINE old == [booking[b] EXCEPT !.until = m - 1]
             new == [booking[b] EXCEPT !.amount = amount, !.from = m]
  <2>1. IsBooking(booking[b]) /\ DOMAIN booking[b].splits \subseteq members /\ amount \in Int
    BY <1>8, AmountsAreTyped DEF ChangeAmountFrom, PlansAreSound
  <2>2. IsBooking(old) /\ DOMAIN old.splits \subseteq members
    BY <2>1 DEF IsBooking, Fields
  <2>3. IsBooking(new) /\ DOMAIN new.splits \subseteq members
    BY <2>1 DEF IsBooking, Fields
  <2>4. booking' = [[booking EXCEPT ![b] = old] EXCEPT ![nextId] = new]
    BY <1>8 DEF ChangeAmountFrom
  <2> HIDE DEF old, new
  <2>5. DOMAIN booking' = Ids /\ \A c \in Ids : booking'[c] \in {old, new, booking[c]}
    BY <2>4 DEF PlansAreSound
  <2>6. PlansAreSound'
    BY <1>8, <2>2, <2>3, <2>5 DEF PlansAreSound, Stored, ChangeAmountFrom
  <2> QED
    BY <1>8, <2>6 DEF ChangeAmountFrom, AmountsAreSound, PaymentsAreSound
<1> QED
  BY <1>1, <1>2, <1>3, <1>5, <1>6, <1>7, <1>8 DEF Planning

\* Whatever a payment is accepted with is divided among members.
LEMMA AcceptKeepsBook ==
  ASSUME BookInv, NEW p \in Payments, NEW splits, IsTally(splits), Accept(p, splits)
  PROVE  BookInv'
<1>1. PlansAreSound' /\ AmountsAreSound' /\ members' = members
  BY DEF Accept, Review, plans, PlansAreSound, Stored, AmountsAreSound, BookInv
<1>2. /\ Holders(splits) \subseteq members
      /\ payment' = [payment EXCEPT ![p] = Decided("accepted", splits, Statement[p].category)]
  BY DEF Accept, Review, ValidAllocation
<1>3. PaymentsAreSound'
  BY <1>1, <1>2 DEF PaymentsAreSound, BookInv, Decided
<1> QED
  BY <1>1, <1>3 DEF BookInv

\* Decisions and closings leave the book sound.
LEMMA ReconcilingKeepsBook ==
  ASSUME BookInv, Reconciling
  PROVE  BookInv'
<1>0. \A p \in Payments : Statement[p].amount \in Int /\ Statement[p].owner \in Int
  BY StatementIsTyped, PersonsAre
<1>1. ASSUME NEW p \in Payments, AcceptForOwner(p)
      PROVE  BookInv'
  <2> DEFINE I == {Statement[p].owner}
             f == [i \in I |-> Statement[p].amount]
  <2>1. \A i \in I : f[i] = Statement[p].amount /\ f[i] \in Int
    BY <1>0
  <2>2. IsFiniteSet(I)
    BY FS_Singleton
  <2> HIDE DEF f
  <2>3. AllocationOfOwner(p) = Graph(f, I)
    BY <2>1 DEF AllocationOfOwner, Graph
  <2> HIDE DEF I
  <2>4. IsTally(AllocationOfOwner(p))
    BY <2>1, <2>2, <2>3, TallyOf
  <2> QED
    BY <1>1, <2>4, AcceptKeepsBook DEF AcceptForOwner
<1>2. ASSUME NEW p \in Payments, NEW b \in Ids, AcceptAsPlanned(p, b)
      PROVE  BookInv'
  <2> DEFINE m == Statement[p].month
             plan == [booking[b] EXCEPT !.amount = AmountFor(booking[b], OverridesOf(b), m)]
             amount == Statement[p].amount
  <2>1. IsBooking(booking[b]) /\ DOMAIN booking[b].splits \subseteq Int
    BY <1>2, PersonsAre DEF AcceptAsPlanned, BookInv, PlansAreSound
  <2>2. plan.mode = booking[b].mode /\ plan.splits = booking[b].splits
    BY <2>1 DEF IsBooking, Fields
  <2>3. AllocationOfPlan(p, b) = ActualAllocation(plan, amount)
    BY DEF AllocationOfPlan
  <2>4. amount \in Int
    BY <1>0
  <2> HIDE DEF plan, amount
  <2>5. IsTally(ActualAllocation(plan, amount))
    BY <2>1, <2>2, <2>4, AllocationIsTally DEF IsBooking
  <2> QED
    BY <1>2, <2>3, <2>5, AcceptKeepsBook DEF AcceptAsPlanned
<1>3. ASSUME NEW p \in Payments, NEW q \in Payments, AcceptAsBefore(p, q)
      PROVE  BookInv'
  <2> DEFINE old == payment[q].splits
             amount == Statement[p].amount
             plan == [amount |-> Statement[q].amount, mode |-> "fixed",
                      splits |-> [i \in Holders(old) |-> Part(old, i)]]
  <2>1. IsTally(old) /\ Holders(old) \subseteq Int
    BY PersonsAre DEF BookInv, PaymentsAreSound
  <2>2. AllocationOfHistory(p, q) = IF Cardinality(old) = 1 THEN {<<i, amount>> : i \in Holders(old)}
                                    ELSE ActualAllocation(plan, amount)
    BY DEF AllocationOfHistory
  <2>3. amount \in Int
    BY <1>0
  <2>4. /\ plan.mode = "fixed" /\ DOMAIN plan.splits = Holders(old)
        /\ \A i \in Holders(old) : plan.splits[i] = Part(old, i)
    OBVIOUS
  <2> HIDE DEF plan, amount, old
  <2>5. IsTally(ActualAllocation(plan, amount))
    BY <2>1, <2>3, <2>4, AllocationIsTally DEF IsTally, Modes
  <2>6. IsTally({<<i, amount>> : i \in Holders(old)})
    <3> DEFINE I == Holders(old)
               f == [i \in I |-> amount]
    <3>1. {<<i, amount>> : i \in Holders(old)} = Graph(f, I) /\ \A i \in I : f[i] \in Int
      BY <2>3 DEF Graph
    <3>2. IsFiniteSet(I)
      BY <2>1 DEF IsTally
    <3> HIDE DEF f, I
    <3> QED
      BY <3>1, <3>2, TallyOf
  <2> QED
    BY <1>3, <2>2, <2>5, <2>6, AcceptKeepsBook DEF AcceptAsBefore
<1>4. ASSUME NEW p \in Payments, NEW decision, NEW c, SetAside(p, decision, c)
      PROVE  BookInv'
  <2> DEFINE decided == Decided(decision, {}, c)
  <2>1. PlansAreSound' /\ AmountsAreSound' /\ members' = members
    BY <1>4 DEF SetAside, Review, plans, PlansAreSound, Stored, AmountsAreSound, BookInv
  <2>2. decided.splits = {} /\ payment' = [payment EXCEPT ![p] = decided]
    BY <1>4 DEF SetAside, Review, Decided
  <2> HIDE DEF decided
  <2>3. Holders({}) = {}
    BY DEF Holders
  <2>4. IsTally({})
    BY <2>3, FS_EmptySet DEF IsTally
  <2>5. PaymentsAreSound'
    BY <2>1, <2>2, <2>3, <2>4 DEF PaymentsAreSound, BookInv
  <2> QED
    BY <2>1, <2>5 DEF BookInv
<1>5. ASSUME UNCHANGED <<members, plans, payment>>
      PROVE  BookInv'
  BY <1>5 DEF BookInv, plans, PlansAreSound, Stored, AmountsAreSound, PaymentsAreSound
<1> QED
  BY <1>1, <1>2, <1>3, <1>4, <1>5 DEF Reconciling, CloseMonth, ReopenMonth

\* Categories are no part of it.
LEMMA CategoriesKeepBook ==
  ASSUME BookInv, EditingCategories
  PROVE  BookInv'
<1>1. UNCHANGED <<members, plans, payment>>
  BY DEF EditingCategories, CreateCategory, UpdateCategory, DeleteCategory, Classify
<1> QED
  BY <1>1 DEF BookInv, plans, PlansAreSound, Stored, AmountsAreSound, PaymentsAreSound

\* A member who goes is taken out of every split, so the parts stay with members.
LEMMA DeleteMemberKeepsBook ==
  ASSUME BookInv, NEW i \in Persons, DeleteMember(i)
  PROVE  BookInv'
<1>1. members' = members \ {i} /\ payment' = payment /\ overrides' = overrides
  BY DEF DeleteMember
<1>2. AmountsAreSound'
  BY <1>1 DEF AmountsAreSound, BookInv
<1>3. PaymentsAreSound'
  BY <1>1 DEF PaymentsAreSound, BookInv, DeleteMember, InUse
<1>4. PlansAreSound'
  <2>1. booking' = [b \in Ids |-> IF b \in Stored THEN Bereft(booking[b], i) ELSE None]
    BY DEF DeleteMember
  <2>2. \A b \in Stored : /\ IsBooking(Bereft(booking[b], i))
                         /\ DOMAIN Bereft(booking[b], i).splits \subseteq members \ {i}
    BY BereftIsBooking DEF BookInv, PlansAreSound
  <2>3. \A b \in Stored' : b \in Stored /\ booking'[b] = Bereft(booking[b], i)
    BY <2>1 DEF Stored
  <2> QED
    BY <1>1, <2>1, <2>2, <2>3 DEF PlansAreSound
<1> QED
  BY <1>1, <1>2, <1>3, <1>4 DEF BookInv

\* The bookings, temporary amounts and payments of a household are sound.
THEOREM BookIsSound == Spec => []BookInv
<1>1. Init => BookInv
  BY BookInvInitially
<1>2. BookInv /\ [Next]_vars => BookInv'
  <2> SUFFICES ASSUME BookInv, [Next]_vars
               PROVE  BookInv'
    OBVIOUS
  <2>1. CASE UNCHANGED vars
    BY <2>1 DEF vars, plans, BookInv, PlansAreSound, Stored, AmountsAreSound, PaymentsAreSound
  <2> QED
    BY <2>1, PlanningKeepsBook, CategoriesKeepBook, ReconcilingKeepsBook, DeleteMemberKeepsBook DEF Next
<1> QED
  BY <1>1, <1>2, PTL DEF Spec

-----------------------------------------------------------------------------
(***************************************************************************)
(* The stored rows are clean: what the self-check looks for first.         *)
(***************************************************************************)
\* The member a booking is paid by, and its period; the periods of temporary amounts and
\* their names; what payments were accepted for; nothing undecided in a closed month.
PlansAreClean ==
    \A b \in Stored : /\ booking[b].payer \in members \cup {None}
                      /\ booking[b].from \in Int /\ booking[b].until \in Int
                      /\ booking[b].from <= booking[b].until
AmountsAreClean ==
    /\ \A o \in overrides : o.until \in Int /\ o.from <= o.until
    /\ \A o, x \in overrides : o.id = x.id => o = x
DecisionsAreClean ==
    \A p \in Payments : /\ Statement[p].owner \in members
                        /\ \/ /\ payment[p].decision \in {"pending", "ignored"}
                              /\ payment[p].splits = {}
                           \/ /\ payment[p].decision = "accepted"
                              /\ ValidAllocation(p, payment[p].splits)
MonthsAreClean == \A m \in closed : PendingIn(m) = {}

RowsInv == PlansAreClean /\ AmountsAreClean /\ DecisionsAreClean /\ MonthsAreClean

\* There is nothing to check in an empty book.
LEMMA RowsInvInitially == Init => RowsInv
<1> SUFFICES ASSUME Init
             PROVE  RowsInv
  OBVIOUS
<1>1. \A p \in Payments : Statement[p].owner \in members
  BY StatementIsTyped DEF Init
<1>2. DecisionsAreClean
  BY <1>1 DEF Init, DecisionsAreClean, Undecided, Decided
<1>3. PlansAreClean /\ AmountsAreClean /\ MonthsAreClean
  BY DEF Init, PlansAreClean, Stored, AmountsAreClean, MonthsAreClean
<1> QED
  BY <1>2, <1>3 DEF RowsInv

\* A booking is written with a period that ends after it began, and a payer who is a member.
LEMMA WrittenClean ==
  ASSUME NEW f \in Forms
  PROVE  LET r == Resolved(f) IN /\ r.payer \in members \cup {None}
                                 /\ r.from \in Int /\ r.until \in Int /\ r.from <= r.until
<1>1. /\ DOMAIN f = Fields /\ f.from \in {Beginning} \cup Months
      /\ f.until \in Months \cup {Forever} /\ f.from <= f.until
  BY FormsAreTyped
<1>2. /\ Resolved(f).from = f.from /\ Resolved(f).until = f.until
      /\ Resolved(f).payer = IF f.payer \in members THEN f.payer ELSE None
  BY <1>1 DEF Resolved, Fields
<1>3. f.from \in Int /\ f.until \in Int
  BY <1>1, IdsAreApart DEF Beginning, Months, Forever
<1> QED
  BY <1>1, <1>2, <1>3

\* Editing plans leaves clean rows.
LEMMA PlanningKeepsRows ==
  ASSUME BookInv, RowsInv, Planning
  PROVE  RowsInv'
<1>0. /\ members' = members /\ payment' = payment /\ closed' = closed
      /\ DecisionsAreClean' /\ MonthsAreClean'
  <2>1. members' = members /\ payment' = payment /\ closed' = closed
    BY DEF Planning, CreateBooking, SaveBooking, DeleteBooking, CreateOverride, UpdateOverride,
           DeleteOverride, ChangeAmountFrom
  <2> QED
    BY <2>1 DEF RowsInv, DecisionsAreClean, ValidAllocation, MonthsAreClean, PendingIn
<1>1. ASSUME booking' = booking
      PROVE  PlansAreClean'
  BY <1>0, <1>1 DEF RowsInv, PlansAreClean, Stored
<1>2. ASSUME overrides' \subseteq overrides
      PROVE  AmountsAreClean'
  BY <1>2 DEF RowsInv, AmountsAreClean
<1>3. ASSUME NEW b \in Ids, NEW f \in Forms, NEW id, booking' = [booking EXCEPT ![id] = Resolved(f)]
      PROVE  PlansAreClean'
  <2>1. /\ Resolved(f).payer \in members \cup {None}
        /\ Resolved(f).from \in Int /\ Resolved(f).until \in Int
        /\ Resolved(f).from <= Resolved(f).until
    BY WrittenClean
  <2>2. \A c \in Stored' : booking'[c] = Resolved(f) \/ (c \in Stored /\ booking'[c] = booking[c])
    BY <1>3 DEF Stored, BookInv, PlansAreSound
  <2> HIDE DEF Resolved
  <2> QED
    BY <1>0, <2>1, <2>2 DEF RowsInv, PlansAreClean
<1>4. ASSUME NEW id, NEW b, NEW s \in Spans, NEW kept \in SUBSET overrides,
             \A o \in kept : o.id # id, overrides' = kept \cup {Typed(id, b, s)}
      PROVE  AmountsAreClean'
  <2>1. /\ Typed(id, b, s).until \in Int /\ Typed(id, b, s).from <= Typed(id, b, s).until
        /\ Typed(id, b, s).id = id
    BY AmountsAreTyped, IdsAreApart DEF Typed, Months, Forever
  <2> DEFINE new == Typed(id, b, s)
  <2> HIDE DEF new
  <2>2. \A o \in overrides' : o \in overrides \/ o = new
    BY <1>4 DEF new
  <2>3. \A o \in overrides' : o.until \in Int /\ o.from <= o.until
    BY <2>1, <2>2 DEF RowsInv, AmountsAreClean, new
  <2>4. \A o, x \in overrides' : o.id = x.id => o = x
    BY <1>4, <2>1 DEF RowsInv, AmountsAreClean, new
  <2> QED
    BY <2>3, <2>4 DEF AmountsAreClean
<1>5. ASSUME NEW f \in Forms, CreateBooking(f)
      PROVE  RowsInv'
  <2>1. booking' = [booking EXCEPT ![nextId] = Resolved(f)] /\ overrides' = overrides /\ nextId \in Ids
    BY <1>5 DEF CreateBooking
  <2> QED
    BY <1>0, <1>2, <1>3, <2>1 DEF RowsInv
<1>6. ASSUME NEW b \in Ids, NEW f \in Forms, SaveBooking(b, f)
      PROVE  RowsInv'
  <2>1. booking' = [booking EXCEPT ![b] = Resolved(f)] /\ overrides' = overrides
    BY <1>6 DEF SaveBooking
  <2> QED
    BY <1>0, <1>2, <1>3, <2>1 DEF RowsInv
<1>7. ASSUME NEW b \in Ids, DeleteBooking(b)
      PROVE  RowsInv'
  <2>1. overrides' \subseteq overrides /\ booking' = [booking EXCEPT ![b] = None]
    BY <1>7 DEF DeleteBooking
  <2>2. \A c \in Stored' : c \in Stored /\ booking'[c] = booking[c]
    BY <2>1 DEF Stored, BookInv, PlansAreSound
  <2>3. PlansAreClean'
    BY <1>0, <2>2 DEF RowsInv, PlansAreClean
  <2> QED
    BY <1>0, <1>2, <2>1, <2>3 DEF RowsInv
<1>8. ASSUME NEW b \in Ids, NEW s \in Spans, CreateOverride(b, s)
      PROVE  RowsInv'
  <2>1. Latest \subseteq Int /\ Latest # {} /\ IsFiniteSet(Latest) /\ \A o \in overrides : o.id \in Latest
    <3> DEFINE id == [o \in overrides |-> o.id]
    <3>1. ImageOf(id, overrides) = {o.id : o \in overrides}
      BY DEF ImageOf
    <3> HIDE DEF id
    <3>2. IsFiniteSet(ImageOf(id, overrides))
      BY NamesAreFinite DEF BookInv, AmountsAreSound
    <3> QED
      BY <3>1, <3>2, FS_AddElement DEF Latest, BookInv, AmountsAreSound
  <2>2. \A o \in overrides : o.id # Max(Latest) + 1
    <3> DEFINE max == Max(Latest)
    <3>1. max \in Int /\ \A x \in Latest : max >= x
      BY <2>1, MaxOfNumbers
    <3> HIDE DEF max
    <3> SUFFICES ASSUME NEW o \in overrides
                 PROVE  o.id # max + 1
      BY DEF max
    <3>2. o.id \in Int /\ max >= o.id
      BY <2>1, <3>1
    <3> QED
      BY <3>1, <3>2
  <2>3. overrides' = overrides \cup {Typed(Max(Latest) + 1, b, s)} /\ booking' = booking
    BY <1>8 DEF CreateOverride
  <2>4. AmountsAreClean'
    BY <1>4, <2>2, <2>3
  <2> QED
    BY <1>0, <1>1, <2>3, <2>4 DEF RowsInv
<1>9. ASSUME NEW o \in overrides, NEW s \in Spans, UpdateOverride(o, s)
      PROVE  RowsInv'
  <2>1. overrides' = (overrides \ {o}) \cup {Typed(o.id, o.booking, s)} /\ booking' = booking
    BY <1>9 DEF UpdateOverride
  <2>2. \A x \in overrides \ {o} : x.id # o.id
    BY DEF RowsInv, AmountsAreClean
  <2>3. AmountsAreClean'
    BY <1>4, <2>1, <2>2
  <2> QED
    BY <1>0, <1>1, <2>1, <2>3 DEF RowsInv
<1>10. ASSUME NEW o \in overrides, DeleteOverride(o)
       PROVE  RowsInv'
  <2>1. overrides' \subseteq overrides /\ booking' = booking
    BY <1>10 DEF DeleteOverride
  <2> QED
    BY <1>0, <1>1, <1>2, <2>1 DEF RowsInv
<1>11. ASSUME NEW b \in Ids, NEW m \in Months, NEW amount \in Prices, ChangeAmountFrom(b, m, amount)
       PROVE  RowsInv'
  <2> DEFINE old == [booking[b] EXCEPT !.until = m - 1]
             new == [booking[b] EXCEPT !.amount = amount, !.from = m]
             Clean(r) == /\ r.payer \in members \cup {None}
                         /\ r.from \in Int /\ r.until \in Int /\ r.from <= r.until
  <2>1. /\ DOMAIN booking[b] = Fields /\ Clean(booking[b]) /\ m \in Int
        /\ booking[b].from < m /\ m <= booking[b].until
    BY <1>11 DEF ChangeAmountFrom, BookInv, PlansAreSound, IsBooking, RowsInv, PlansAreClean, Months
  <2>2. /\ old.payer = booking[b].payer /\ old.from = booking[b].from /\ old.until = m - 1
        /\ new.payer = booking[b].payer /\ new.from = m /\ new.until = booking[b].until
    BY <2>1 DEF Fields
  <2>3. booking' = [[booking EXCEPT ![b] = old] EXCEPT ![nextId] = new] /\ overrides' = overrides
    BY <1>11 DEF ChangeAmountFrom
  <2> HIDE DEF old, new
  <2>4. Clean(old) /\ Clean(new)
    BY <2>1, <2>2
  <2> HIDE DEF Clean
  <2>5. \A c \in Stored' : booking'[c] \in {old, new} \/ (c \in Stored /\ booking'[c] = booking[c])
    BY <2>3 DEF Stored, BookInv, PlansAreSound
  <2>6. PlansAreClean'
    BY <1>0, <2>4, <2>5 DEF RowsInv, PlansAreClean, Clean
  <2> QED
    BY <1>0, <1>2, <2>3, <2>6 DEF RowsInv
<1> QED
  BY <1>5, <1>6, <1>7, <1>8, <1>9, <1>10, <1>11 DEF Planning

\* Decisions leave nothing open in a closed month, and accepted payments divided to the cent.
LEMMA ReconcilingKeepsRows ==
  ASSUME BookInv, RowsInv, Reconciling
  PROVE  RowsInv'
<1>0. PlansAreClean' /\ AmountsAreClean' /\ members' = members
  <2>1. members' = members /\ plans' = plans
    BY DEF Reconciling, AcceptForOwner, AcceptAsPlanned, AcceptAsBefore, Accept, SetAside, Review,
           CloseMonth, ReopenMonth
  <2> QED
    BY <2>1 DEF plans, RowsInv, PlansAreClean, Stored, AmountsAreClean
<1>1. ASSUME NEW p \in Payments, NEW decided,
             \/ decided.decision \in {"pending", "ignored"} /\ decided.splits = {}
             \/ decided.decision = "accepted" /\ ValidAllocation(p, decided.splits),
             Review(p, decided)
      PROVE  RowsInv'
  <2>1. /\ payment' = [payment EXCEPT ![p] = decided] /\ DOMAIN payment = Payments
        /\ Statement[p].month \notin closed /\ closed' = closed
    BY <1>1 DEF Review, MonthIsOpen, BookInv, PaymentsAreSound
  <2>2. DecisionsAreClean'
    BY <1>0, <1>1, <2>1 DEF RowsInv, DecisionsAreClean, ValidAllocation
  <2>3. \A q \in Payments : q # p => payment'[q] = payment[q]
    BY <2>1
  <2>4. MonthsAreClean'
    BY <2>1, <2>3 DEF RowsInv, MonthsAreClean, PendingIn
  <2> QED
    BY <1>0, <2>2, <2>4 DEF RowsInv
<1>2. ASSUME NEW p \in Payments, NEW splits, Accept(p, splits)
      PROVE  RowsInv'
  <2> DEFINE decided == Decided("accepted", splits, Statement[p].category)
  <2>1. decided.decision = "accepted" /\ ValidAllocation(p, decided.splits) /\ Review(p, decided)
    BY <1>2 DEF Accept, Decided
  <2> HIDE DEF decided
  <2> QED
    BY <1>1, <2>1
<1>3. ASSUME NEW p \in Payments, NEW decision \in {"pending", "ignored"}, NEW c, SetAside(p, decision, c)
      PROVE  RowsInv'
  <2> DEFINE decided == Decided(decision, {}, c)
  <2>1. decided.decision = decision /\ decided.splits = {} /\ Review(p, decided)
    BY <1>3 DEF SetAside, Decided
  <2> HIDE DEF decided
  <2> QED
    BY <1>1, <2>1
<1>4. ASSUME NEW m \in Months, CloseMonth(m)
      PROVE  RowsInv'
  <2>1. closed' = closed \cup {m} /\ payment' = payment /\ PendingIn(m) = {}
    BY <1>4 DEF CloseMonth
  <2> QED
    BY <1>0, <2>1 DEF RowsInv, DecisionsAreClean, ValidAllocation, MonthsAreClean, PendingIn
<1>5. ASSUME NEW m \in Months, ReopenMonth(m)
      PROVE  RowsInv'
  <2>1. closed' = closed \ {m} /\ payment' = payment
    BY <1>5 DEF ReopenMonth
  <2> QED
    BY <1>0, <2>1 DEF RowsInv, DecisionsAreClean, ValidAllocation, MonthsAreClean, PendingIn
<1> QED
  BY <1>2, <1>3, <1>4, <1>5 DEF Reconciling, AcceptForOwner, AcceptAsPlanned, AcceptAsBefore

\* Categories are not in them.
LEMMA CategoriesKeepRows ==
  ASSUME RowsInv, EditingCategories
  PROVE  RowsInv'
<1>1. UNCHANGED <<members, plans, payment, closed>>
  BY DEF EditingCategories, CreateCategory, UpdateCategory, DeleteCategory, Classify
<1> QED
  BY <1>1 DEF RowsInv, plans, PlansAreClean, Stored, AmountsAreClean, DecisionsAreClean,
              ValidAllocation, MonthsAreClean, PendingIn

\* A member who goes is in no payment and no account, and is taken out of every plan.
LEMMA DeleteMemberKeepsRows ==
  ASSUME BookInv, RowsInv, NEW i \in Persons, DeleteMember(i)
  PROVE  RowsInv'
<1>1. /\ members' = members \ {i} /\ payment' = payment /\ overrides' = overrides
      /\ closed' = closed
  BY DEF DeleteMember
<1>2. \A p \in Payments : Statement[p].owner # i /\ i \notin Holders(payment[p].splits)
  BY DEF DeleteMember, InUse
<1>3. DecisionsAreClean'
  BY <1>1, <1>2 DEF RowsInv, DecisionsAreClean, ValidAllocation
<1>4. AmountsAreClean' /\ MonthsAreClean'
  BY <1>1 DEF RowsInv, AmountsAreClean, MonthsAreClean, PendingIn
<1>5. PlansAreClean'
  <2> SUFFICES ASSUME NEW b \in Stored'
               PROVE  /\ booking'[b].payer \in members' \cup {None}
                      /\ booking'[b].from \in Int /\ booking'[b].until \in Int
                      /\ booking'[b].from <= booking'[b].until
    BY DEF PlansAreClean
  <2>1. b \in Stored /\ booking'[b] = Bereft(booking[b], i)
    BY DEF DeleteMember, Stored
  <2>2. /\ DOMAIN booking[b] = Fields /\ booking[b].payer \in members \cup {None}
        /\ booking[b].from \in Int /\ booking[b].until \in Int /\ booking[b].from <= booking[b].until
    BY <2>1 DEF BookInv, PlansAreSound, IsBooking, RowsInv, PlansAreClean
  <2>3. /\ booking'[b].from = booking[b].from /\ booking'[b].until = booking[b].until
        /\ booking'[b].payer = IF booking[b].payer = i THEN None ELSE booking[b].payer
    BY <2>1, <2>2 DEF Bereft, Fields
  <2> QED
    BY <1>1, <2>2, <2>3
<1> QED
  BY <1>3, <1>4, <1>5 DEF RowsInv

\* Every step keeps what the stored rows must satisfy.
LEMMA RowsStaySound == Spec => []RowsInv
<1>1. Init => RowsInv
  BY RowsInvInitially
<1>2. BookInv /\ RowsInv /\ [Next]_vars => RowsInv'
  <2> SUFFICES ASSUME BookInv, RowsInv, [Next]_vars
               PROVE  RowsInv'
    OBVIOUS
  <2>1. CASE UNCHANGED vars
    BY <2>1 DEF vars, plans, RowsInv, PlansAreClean, Stored, AmountsAreClean, DecisionsAreClean,
                ValidAllocation, MonthsAreClean, PendingIn
  <2> QED
    BY <2>1, PlanningKeepsRows, CategoriesKeepRows, ReconcilingKeepsRows, DeleteMemberKeepsRows DEF Next
<1> QED
  BY <1>1, <1>2, BookIsSound, PTL DEF Spec

-----------------------------------------------------------------------------
(***************************************************************************)
(* The categories of the rows.  None of them is ever missing, and each     *)
(* sorted what the row is at some time; it may sort the other side now.    *)
(***************************************************************************)
Filed(c, direction) == c \in Categories /\ catalog[c] # None /\ <<c, direction>> \in classified

CatalogIsKnown ==
    /\ catalog \in [Categories -> Directions \cup {None}]
    /\ \A c \in Categories : catalog[c] # None => <<c, catalog[c]>> \in classified
PlansAreFiled == \A b \in Stored : Filed(booking[b].category, booking[b].direction)
PaymentsAreFiled ==
    \A p \in Payments :
        /\ payment[p].category # None => Filed(payment[p].category, Statement[p].direction)
        /\ payment[p].decision = "accepted" => payment[p].category # None

FilesInv == CatalogIsKnown /\ PlansAreFiled /\ PaymentsAreFiled

\* No row is there to have a category.
LEMMA FilesInvInitially == Init => FilesInv
<1> SUFFICES ASSUME Init
             PROVE  FilesInv
  OBVIOUS
<1>1. CatalogIsKnown
  BY CategoriesAreTyped DEF Init, CatalogIsKnown
<1>2. PlansAreFiled
  BY DEF Init, PlansAreFiled, Stored
<1>3. PaymentsAreFiled
  BY DEF Init, PaymentsAreFiled, Undecided, Decided
<1> QED
  BY <1>1, <1>2, <1>3 DEF FilesInv

\* A booking is stored with a category of its side, or with the one it had.
LEMMA PlanningKeepsFiles ==
  ASSUME BookInv, FilesInv, Planning
  PROVE  FilesInv'
<1>0. catalog' = catalog /\ classified' = classified /\ payment' = payment
  BY DEF Planning, CreateBooking, SaveBooking, DeleteBooking, CreateOverride, UpdateOverride,
         DeleteOverride, ChangeAmountFrom, categories
<1>1. CatalogIsKnown' /\ PaymentsAreFiled'
  BY <1>0 DEF FilesInv, CatalogIsKnown, PaymentsAreFiled, Filed
<1>2. \A c, d : Filed(c, d) => Filed(c, d)'
  BY <1>0 DEF Filed
<1>3. ASSUME NEW f \in Forms, NEW id, Sorted(f), booking' = [booking EXCEPT ![id] = Resolved(f)]
      PROVE  FilesInv'
  <2>1. DOMAIN f = Fields /\ f.category \in Categories
    BY FormsAreTyped
  <2>2. Resolved(f).category = f.category /\ Resolved(f).direction = f.direction
    BY <2>1 DEF Resolved, Fields
  <2>3. Filed(Resolved(f).category, Resolved(f).direction)
    BY <1>3, <2>1, <2>2 DEF Sorted, Offered, Filed
  <2>4. \A c \in Stored' : booking'[c] = Resolved(f) \/ (c \in Stored /\ booking'[c] = booking[c])
    BY <1>3 DEF Stored, BookInv, PlansAreSound
  <2> HIDE DEF Resolved
  <2>5. PlansAreFiled'
    BY <1>2, <2>3, <2>4 DEF FilesInv, PlansAreFiled
  <2> QED
    BY <1>1, <2>5 DEF FilesInv
<1>4. ASSUME \A c \in Stored' : c \in Stored /\ booking'[c] = booking[c]
      PROVE  FilesInv'
  BY <1>1, <1>2, <1>4 DEF FilesInv, PlansAreFiled
<1>5. ASSUME NEW b \in Ids, DeleteBooking(b)
      PROVE  FilesInv'
  <2>1. \A c \in Stored' : c \in Stored /\ booking'[c] = booking[c]
    BY <1>5 DEF DeleteBooking, Stored, BookInv, PlansAreSound
  <2> QED
    BY <1>4, <2>1
<1>6. ASSUME NEW b \in Ids, NEW m, NEW amount, ChangeAmountFrom(b, m, amount)
      PROVE  FilesInv'
  <2> DEFINE old == [booking[b] EXCEPT !.until = m - 1]
             new == [booking[b] EXCEPT !.amount = amount, !.from = m]
  <2>1. DOMAIN booking[b] = Fields /\ b \in Stored
    BY <1>6 DEF ChangeAmountFrom, BookInv, PlansAreSound, IsBooking
  <2>2. /\ old.category = booking[b].category /\ old.direction = booking[b].direction
        /\ new.category = booking[b].category /\ new.direction = booking[b].direction
    BY <2>1 DEF Fields
  <2>3. booking' = [[booking EXCEPT ![b] = old] EXCEPT ![nextId] = new]
    BY <1>6 DEF ChangeAmountFrom
  <2> HIDE DEF old, new
  <2>4. \A c \in Stored' : booking'[c] \in {old, new} \/ (c \in Stored /\ booking'[c] = booking[c])
    BY <2>3 DEF Stored, BookInv, PlansAreSound
  <2>5. Filed(booking[b].category, booking[b].direction)
    BY <2>1 DEF FilesInv, PlansAreFiled
  <2>6. PlansAreFiled'
    BY <1>2, <2>2, <2>4, <2>5 DEF FilesInv, PlansAreFiled
  <2> QED
    BY <1>1, <2>6 DEF FilesInv
<1>7. ASSUME booking' = booking
      PROVE  FilesInv'
  BY <1>4, <1>7 DEF Stored
<1> QED
  BY <1>3, <1>5, <1>6, <1>7 DEF Planning, CreateBooking, SaveBooking, CreateOverride, UpdateOverride, DeleteOverride

\* A category that is used is not deleted, and that it is turned is kept in mind.
LEMMA CategoriesKeepFiles ==
  ASSUME FilesInv, EditingCategories
  PROVE  FilesInv'
<1>1. UNCHANGED <<members, plans, payment, closed>>
  BY DEF EditingCategories, CreateCategory, UpdateCategory, DeleteCategory, Classify
<1>2. Stored' = Stored /\ booking' = booking /\ payment' = payment
  BY <1>1 DEF plans, Stored
<1>3. ASSUME CatalogIsKnown',
             \A c, d : Filed(c, d) /\ UsesCategory(c) => Filed(c, d)'
      PROVE  FilesInv'
  <2>1. PlansAreFiled'
    BY <1>2, <1>3 DEF FilesInv, PlansAreFiled, UsesCategory
  <2>2. PaymentsAreFiled'
    BY <1>2, <1>3 DEF FilesInv, PaymentsAreFiled, UsesCategory
  <2> QED
    BY <1>3, <2>1, <2>2 DEF FilesInv
<1>4. ASSUME NEW f \in CategoryForms, Classify(f.category, f.direction)
      PROVE  FilesInv'
  <2>1. f.category \in Categories /\ f.direction \in Directions /\ f.direction # None
    BY CategoriesAreTyped
  <2>2. /\ catalog' = [catalog EXCEPT ![f.category] = f.direction]
        /\ classified' = classified \cup {<<f.category, f.direction>>}
        /\ catalog \in [Categories -> Directions \cup {None}]
        /\ \A c \in Categories : catalog[c] # None => <<c, catalog[c]>> \in classified
    BY <1>4 DEF Classify, FilesInv, CatalogIsKnown
  <2>3. CatalogIsKnown'
    BY <2>1, <2>2 DEF CatalogIsKnown
  <2>4. \A c, d : Filed(c, d) => Filed(c, d)'
    BY <2>1, <2>2 DEF Filed
  <2> QED
    BY <1>3, <2>3, <2>4
<1>5. ASSUME NEW f \in CategoryForms, DeleteCategory(f.category)
      PROVE  FilesInv'
  <2>1. f.category \in Categories /\ ~UsesCategory(f.category)
    BY <1>5, CategoriesAreTyped DEF DeleteCategory
  <2>2. catalog' = [catalog EXCEPT ![f.category] = None] /\ classified' = classified
    BY <1>5 DEF DeleteCategory
  <2>3. CatalogIsKnown'
    BY <2>1, <2>2 DEF FilesInv, CatalogIsKnown
  <2>4. \A c, d : Filed(c, d) /\ UsesCategory(c) => Filed(c, d)'
    BY <2>1, <2>2 DEF Filed, FilesInv, CatalogIsKnown
  <2> QED
    BY <1>3, <2>3, <2>4
<1> QED
  BY <1>4, <1>5 DEF EditingCategories, CreateCategory, UpdateCategory

\* A payment is reviewed with a category of its side, or with none; accepted with one.
LEMMA ReconcilingKeepsFiles ==
  ASSUME BookInv, FilesInv, Reconciling
  PROVE  FilesInv'
<1>0. /\ plans' = plans /\ categories' = categories
      /\ CatalogIsKnown' /\ PlansAreFiled' /\ \A c, d : Filed(c, d) => Filed(c, d)'
  <2>1. plans' = plans /\ categories' = categories
    BY DEF Reconciling, AcceptForOwner, AcceptAsPlanned, AcceptAsBefore, Accept, SetAside, Review,
           CloseMonth, ReopenMonth
  <2> QED
    BY <2>1 DEF plans, categories, FilesInv, CatalogIsKnown, PlansAreFiled, Stored, Filed
<1>1. ASSUME NEW p \in Payments, NEW decided, decided.category \in Categories \cup {None},
             decided.decision = "accepted" => decided.category # None, Review(p, decided)
      PROVE  FilesInv'
  <2>1. payment' = [payment EXCEPT ![p] = decided] /\ DOMAIN payment = Payments
    BY <1>1 DEF Review, BookInv, PaymentsAreSound
  <2>2. decided.category # None => Filed(decided.category, Statement[p].direction)
    <3> SUFFICES ASSUME decided.category # None
                 PROVE  Filed(decided.category, Statement[p].direction)
      OBVIOUS
    <3>1. decided.category \in Categories /\ catalog[decided.category] = Statement[p].direction
      BY <1>1 DEF Review
    <3>2. Statement[p].direction # None
      BY StatementIsTyped, CategoriesAreTyped
    <3> QED
      BY <3>1, <3>2 DEF Filed, FilesInv, CatalogIsKnown
  <2>3. \A q \in Payments : payment'[q] = IF q = p THEN decided ELSE payment[q]
    BY <2>1
  <2>4. PaymentsAreFiled'
    BY <1>0, <1>1, <2>2, <2>3 DEF FilesInv, PaymentsAreFiled
  <2> QED
    BY <1>0, <2>4 DEF FilesInv
<1>2. ASSUME NEW p \in Payments, NEW splits, Accept(p, splits)
      PROVE  FilesInv'
  <2> DEFINE decided == Decided("accepted", splits, Statement[p].category)
  <2>1. decided.category \in Categories /\ decided.category # None /\ Review(p, decided)
    BY <1>2, StatementIsTyped, CategoriesAreTyped DEF Accept, Decided
  <2> HIDE DEF decided
  <2> QED
    BY <1>1, <2>1
<1>3. ASSUME NEW p \in Payments, NEW decision \in {"pending", "ignored"},
             NEW c \in {None, Statement[p].category}, SetAside(p, decision, c)
      PROVE  FilesInv'
  <2> DEFINE decided == Decided(decision, {}, c)
  <2>1. /\ decided.category \in Categories \cup {None} /\ decided.decision # "accepted"
        /\ Review(p, decided)
    BY <1>3, StatementIsTyped DEF SetAside, Decided
  <2> HIDE DEF decided
  <2> QED
    BY <1>1, <2>1
<1>4. ASSUME payment' = payment
      PROVE  FilesInv'
  BY <1>0, <1>4 DEF FilesInv, PaymentsAreFiled
<1> QED
  BY <1>2, <1>3, <1>4 DEF Reconciling, AcceptForOwner, AcceptAsPlanned, AcceptAsBefore, CloseMonth, ReopenMonth

\* Members have no part in it.
LEMMA DeleteMemberKeepsFiles ==
  ASSUME BookInv, FilesInv, NEW i \in Persons, DeleteMember(i)
  PROVE  FilesInv'
<1>1. catalog' = catalog /\ classified' = classified /\ payment' = payment
  BY DEF DeleteMember, categories
<1>2. CatalogIsKnown' /\ PaymentsAreFiled' /\ \A c, d : Filed(c, d) => Filed(c, d)'
  BY <1>1 DEF FilesInv, CatalogIsKnown, PaymentsAreFiled, Filed
<1>3. \A b \in Stored' : b \in Stored /\ booking'[b] = Bereft(booking[b], i)
  BY DEF DeleteMember, Stored
<1>4. \A b \in Stored : /\ Bereft(booking[b], i).category = booking[b].category
                       /\ Bereft(booking[b], i).direction = booking[b].direction
  BY DEF BookInv, PlansAreSound, IsBooking, Bereft, Fields
<1> HIDE DEF Bereft
<1> QED
  BY <1>2, <1>3, <1>4 DEF FilesInv, PlansAreFiled

\* Every step keeps the categories of the rows.
LEMMA FilesStaySound == Spec => []FilesInv
<1>1. Init => FilesInv
  BY FilesInvInitially
<1>2. BookInv /\ FilesInv /\ [Next]_vars => FilesInv'
  <2> SUFFICES ASSUME BookInv, FilesInv, [Next]_vars
               PROVE  FilesInv'
    OBVIOUS
  <2>1. CASE UNCHANGED vars
    BY <2>1 DEF vars, categories, plans, FilesInv, CatalogIsKnown, PlansAreFiled, Stored, PaymentsAreFiled, Filed
  <2> QED
    BY <2>1, PlanningKeepsFiles, CategoriesKeepFiles, ReconcilingKeepsFiles, DeleteMemberKeepsFiles DEF Next
<1> QED
  BY <1>1, <1>2, BookIsSound, PTL DEF Spec

\* What is filed sorts the other side only if it was turned.
LEMMA OtherwiseTurned ==
  ASSUME CatalogIsKnown, NEW c, NEW direction \in Directions, Filed(c, direction), catalog[c] # direction
  PROVE  Turned(c)
<1>1. catalog[c] \in Directions /\ <<c, catalog[c]>> \in classified /\ <<c, direction>> \in classified
  BY DEF CatalogIsKnown, Filed
<1>2. Directions = {catalog[c], direction}
  BY <1>1 DEF Directions
<1> QED
  BY <1>1, <1>2 DEF Turned, Filed

-----------------------------------------------------------------------------
\* An amount or a share out of range and a category that was turned are all that the
\* self-check can find in the stored rows.
LEMMA CleanRows ==
  ASSUME BookInv, RowsInv, FilesInv
  PROVE  SourcesAreClean
<1> DEFINE Known(f) == \/ f[1] = "data" /\ f[2] \in Stored /\ f[3] \in {"amount", "share"}
                       \/ f[1] = "reference" /\ f[3] = "category" /\ Turned(CategoryOf(f[2]))
<1>1. ASSUME NEW id \in Stored, NEW f \in BookingFindings(id)
      PROVE  Known(f)
  <2> DEFINE b == booking[id]
  <2>1. /\ DOMAIN b.splits \subseteq members /\ b.payer \in members \cup {None}
        /\ b.from \in Int /\ b.until \in Int /\ b.from <= b.until /\ b.direction \in Directions
        /\ Filed(b.category, b.direction)
    BY DEF BookInv, PlansAreSound, IsBooking, RowsInv, PlansAreClean, FilesInv, PlansAreFiled
  <2>2. \A o \in OverridesOf(id) : o.from \in Int /\ o.until \in Int /\ o.from <= o.until
    BY DEF OverridesOf, BookInv, AmountsAreSound, RowsInv, AmountsAreClean
  <2>3. (DOMAIN b.splits \cup {b.payer}) \ (members \cup {None}) = {}
    BY <2>1
  <2>4. {x \in {b} \cup OverridesOf(id) : x.until < x.from} = {}
    BY <2>1, <2>2
  <2>5. CategoryOf(id) = b.category
    BY DEF CategoryOf
  <2>6. catalog[b.category] # b.direction => Turned(CategoryOf(id))
    BY <2>1, <2>5, OtherwiseTurned DEF FilesInv
  <2> HIDE DEF b
  <2>7. \/ f = <<"data", id, "amount">> \/ f = <<"data", id, "share">>
        \/ f = <<"reference", id, "category">> /\ catalog[b.category] # b.direction
    BY <1>1, <2>3, <2>4 DEF BookingFindings, b
  <2> QED
    BY <2>6, <2>7
<1>2. ASSUME NEW p \in Payments, NEW f \in PaymentFindings(p)
      PROVE  Known(f)
  <2> DEFINE c == payment[p].category
  <2>1. Statement[p].owner \in members /\ Statement[p].direction \in Directions
    BY StatementIsTyped DEF RowsInv, DecisionsAreClean
  <2>2. CategoryOf(p) = c
    <3>1. p \notin Stored
      BY IdsAreApart DEF Stored, Ids
    <3> QED
      BY <3>1 DEF CategoryOf
  <2>3. c # None /\ catalog[c] # Statement[p].direction => Turned(CategoryOf(p))
    <3> SUFFICES ASSUME c # None, catalog[c] # Statement[p].direction
                 PROVE  Turned(c)
      BY <2>2
    <3>1. Filed(c, Statement[p].direction)
      BY DEF FilesInv, PaymentsAreFiled
    <3> HIDE DEF c
    <3> QED
      BY <2>1, <3>1, OtherwiseTurned DEF FilesInv
  <2> HIDE DEF c
  <2>4. {Statement[p].owner} \ members = {}
    BY <2>1
  <2> SUFFICES f = <<"reference", p, "category">> /\ c # None /\ catalog[c] # Statement[p].direction
    BY <2>3
  <2>5. CASE payment[p].decision = "pending"
    <3>1. closed \cap {Statement[p].month} = {}
      BY <2>5 DEF RowsInv, MonthsAreClean, PendingIn
    <3> QED
      BY <1>2, <2>4, <2>5, <3>1 DEF PaymentFindings, c
  <2>6. CASE payment[p].decision = "ignored" /\ payment[p].splits = {}
    BY <1>2, <2>4, <2>6 DEF PaymentFindings, c
  <2>7. CASE payment[p].decision = "accepted" /\ ValidAllocation(p, payment[p].splits)
    <3> DEFINE splits == payment[p].splits
    <3>1. IsTally(splits)
      BY DEF BookInv, PaymentsAreSound
    <3>2. /\ splits # {} /\ Holders(splits) \subseteq members
          /\ \A s \in splits : s[2] >= 0 /\ s[2] \in Int /\ s[1] \in members
          /\ Total(splits) = Statement[p].amount
      BY <2>7, <3>1 DEF ValidAllocation, IsTally, Holders
    <3>3. c # None
      BY <2>7 DEF FilesInv, PaymentsAreFiled, c
    <3> HIDE DEF splits
    <3>4. {x \in splits : x[1] \notin members \/ x[2] < 0} = {}
      BY <3>2
    <3>5. {Total(splits)} \ {IF splits = {} THEN -1 ELSE Statement[p].amount} = {}
      BY <3>2
    <3>6. {c} \cap {None} = {}
      BY <3>3
    <3> QED
      BY <1>2, <2>4, <2>7, <3>4, <3>5, <3>6 DEF PaymentFindings, splits, c
  <2> QED
    BY <2>5, <2>6, <2>7 DEF RowsInv, DecisionsAreClean
<1> HIDE DEF Known
<1>3. \A f \in SourceFindings : Known(f)
  BY <1>1, <1>2 DEF SourceFindings
<1> QED
  BY <1>3 DEF SourcesAreClean, Known

\* No order of edits, reviews, closings and deletions leaves a row that refers to nothing, a
\* period that ends before it begins, an accepted payment that is not divided to the cent
\* or a payment undecided in a closed month.  What is left to find (plausibility_data.go) is
\* an amount or a share of a booking out of range, and a category that was turned.
THEOREM SourcesStayClean == Spec => []SourcesAreClean
<1>1. BookInv /\ RowsInv /\ FilesInv => SourcesAreClean
  BY CleanRows
<1> QED
  BY <1>1, BookIsSound, RowsStaySound, FilesStaySound, PTL

-----------------------------------------------------------------------------
(***************************************************************************)
(* The value of a booking.                                                 *)
(***************************************************************************)
\* An interval is a fraction of a month.
LEMMA FactorTyped ==
  ASSUME NEW b, IsBooking(b)
  PROVE  Factor(b)[1] \in Nat /\ Factor(b)[2] \in Nat \ {0}
<1>1. b.interval \in Nat \ {0} /\ b.frequency \in Frequencies
  BY DEF IsBooking
<1>2. 12 * b.interval \in Nat \ {0} /\ 3 * b.interval \in Nat \ {0}
  BY <1>1
<1> QED
  BY <1>1, <1>2 DEF Factor, Frequencies

\* How many share a booking, one at least.
Heads(S) == Max({1, Cardinality(S)})

\* That is a number above zero, and the count where there is somebody.
LEMMA HeadsCounted ==
  ASSUME NEW S, IsFiniteSet(S)
  PROVE  /\ Heads(S) \in Nat \ {0}
         /\ S # {} => Heads(S) = Cardinality(S)
<1> DEFINE n == Cardinality(S)
           two == {1, n}
<1>1. n \in Nat /\ (S # {} => n # 0)
  BY FS_CardinalityType, FS_EmptySet
<1>2. \E x \in two : \A y \in two : x >= y
  <2> HIDE DEF n
  <2> QED
    BY <1>1
<1>3. /\ Max(two) \in two
      /\ \A y \in two : Max(two) >= y
  BY <1>2 DEF Max
<1>4. Max(two) >= 1 /\ Max(two) >= n /\ (Max(two) = 1 \/ Max(two) = n)
  BY <1>3
<1>5. Heads(S) = Max(two)
  BY DEF Heads
<1> DEFINE max == Max(two)
<1>6. max >= 1 /\ max >= n /\ (max = 1 \/ max = n)
  BY <1>4
<1>7. Heads(S) = max /\ n = Cardinality(S)
  BY <1>5
<1> HIDE DEF max, n
<1> QED
  BY <1>1, <1>6, <1>7

\* The claims on a booking are whole numbers of a common scale.
LEMMA ClaimsTyped ==
  ASSUME NEW b, IsBooking(b), NEW amount \in Int, NEW cents \in Int
  PROVE  LET claims == Claims(b, amount, cents)
         IN  /\ claims.scale \in Nat \ {0}
             /\ DOMAIN claims.raw \subseteq DOMAIN b.splits
             /\ IsFiniteSet(DOMAIN claims.raw)
             /\ \A i \in DOMAIN claims.raw : claims.raw[i] \in Int
<1> DEFINE claims == Claims(b, amount, cents)
           who == DOMAIN b.splits
<1>1. /\ IsFiniteSet(who) /\ \A i \in who : b.splits[i] \in Int
      /\ b.mode \in Modes
  BY DEF IsBooking
<1>2. Factor(b)[1] \in Nat /\ Factor(b)[2] \in Nat \ {0}
  BY FactorTyped
<1>3. Heads(who) \in Nat \ {0}
  BY <1>1, HeadsCounted
<1>4. CASE b.mode = "percent"
  <2> DEFINE some == {j \in who : ClampPercent(b.splits[j]) > 0}
             raw == [i \in some |-> cents * ClampPercent(b.splits[i])]
  <2>1. claims = [scale |-> 100, raw |-> raw]
    BY <1>4 DEF Claims
  <2>2. \A i \in some : ClampPercent(b.splits[i]) \in Int
    BY <1>1, PercentInt
  <2>3. \A i \in some : raw[i] \in Int
    BY <2>2
  <2>4. DOMAIN raw = some /\ some \subseteq who /\ IsFiniteSet(some)
    BY <1>1, FS_Subset
  <2> HIDE DEF raw, claims, some
  <2>5. claims.scale = 100 /\ claims.raw = raw
    BY <2>1
  <2> QED
    BY <2>3, <2>4, <2>5 DEF claims
<1>5. CASE b.mode = "fixed"
  <2> DEFINE some == {j \in who : b.splits[j] # 0 \/ amount = 0}
             raw == [i \in some |-> b.splits[i] * Factor(b)[1]]
  <2>1. claims = [scale |-> Factor(b)[2], raw |-> raw]
    BY <1>5 DEF Claims
  <2>2. \A i \in some : raw[i] \in Int
    BY <1>1, <1>2
  <2>4. DOMAIN raw = some /\ some \subseteq who /\ IsFiniteSet(some)
    BY <1>1, FS_Subset
  <2> HIDE DEF raw, claims, some
  <2>5. claims.scale = Factor(b)[2] /\ claims.raw = raw
    BY <2>1
  <2> QED
    BY <1>2, <2>2, <2>4, <2>5 DEF claims
<1>6. CASE b.mode = "equal"
  <2> DEFINE raw == [i \in who |-> cents]
  <2>1. claims = [scale |-> Heads(who), raw |-> raw]
    BY <1>6 DEF Claims, Heads
  <2>2. DOMAIN raw = who /\ \A i \in who : raw[i] \in Int
    OBVIOUS
  <2> HIDE DEF raw, claims
  <2>3. claims.scale = Heads(who) /\ claims.raw = raw
    BY <2>1
  <2> QED
    BY <1>1, <1>3, <2>2, <2>3 DEF claims
<1> QED
  BY <1>1, <1>4, <1>5, <1>6 DEF Modes

\* Near is exact for a multiple.
LEMMA ExactlyNear ==
  ASSUME NEW n \in Int, NEW d \in Nat \ {0}
  PROVE  Near(n, n * d, d)
<1>1. n * d = d * n /\ n * d \in Int
  OBVIOUS
<1> DEFINE p == n * d
<1>2. p = d * n /\ p \in Int
  BY <1>1
<1>3. Near(n, p, d)
  <2> HIDE DEF p
  <2> QED
    BY <1>2 DEF Near
<1> QED
  BY <1>3

\* The claims of a complete split make up the amount but for the rounding of it.
LEMMA ClaimsAddUp ==
  ASSUME NEW b, IsBooking(b), NEW amount \in Int, CompleteSplit(b, amount)
  PROVE  LET cents == RoundAmount(amount * Factor(b)[1], Factor(b)[2])
             claims == Claims(b, amount, cents)
         IN  IF DOMAIN claims.raw = {} THEN cents = 0
             ELSE Near(cents, SumFunctionOnSet(claims.raw, DOMAIN claims.raw), claims.scale)
<1> DEFINE F == Factor(b)[1]
           D == Factor(b)[2]
           cents == RoundAmount(amount * F, D)
           claims == Claims(b, amount, cents)
           who == DOMAIN b.splits
<1>1. /\ IsFiniteSet(who) /\ \A i \in who : b.splits[i] \in Int
      /\ b.mode \in Modes
  BY DEF IsBooking
<1>2. F \in Nat /\ D \in Nat \ {0}
  BY FactorTyped
<1>3. amount * F \in Int
  <2> HIDE DEF F
  <2> QED
    BY <1>2
<1>4. cents \in Int /\ Near(cents, amount * F, D)
  <2> DEFINE n == amount * F
  <2>1. n \in Int
    BY <1>3
  <2> HIDE DEF n, D
  <2>2. RoundAmount(n, D) \in Int /\ Near(RoundAmount(n, D), n, D)
    BY <1>2, <2>1, RoundNear
  <2> QED
    BY <2>2 DEF n
<1>5. CASE b.mode = "percent"
  <2> DEFINE share == [i \in who |-> ClampPercent(b.splits[i])]
             some == {j \in who : ClampPercent(b.splits[j]) > 0}
             raw == [i \in some |-> cents * ClampPercent(b.splits[i])]
  <2>1. claims.raw = raw /\ claims.scale = 100
    BY <1>5 DEF Claims
  <2>2. SumFunction(share) = 100
    <3> DEFINE values == [i \in who |-> IF b.mode = "percent" THEN ClampPercent(b.splits[i])
                                        ELSE b.splits[i]]
    <3>1. values = share
      BY <1>5
    <3>2. SumFunction(values) = 100
      BY <1>5 DEF CompleteSplit
    <3> QED
      BY <3>1, <3>2
  <2>3. \A i \in who : ClampPercent(b.splits[i]) \in 0..100
    BY <1>1, PercentInt
  <2>4. /\ some \in SUBSET who /\ IsFiniteSet(some) /\ DOMAIN share = who /\ DOMAIN raw = some
        /\ \A i \in some : share[i] \in Int
    BY <1>1, <2>3, FS_Subset
  <2>5. \A i \in who \ some : share[i] = 0
    <3> SUFFICES ASSUME NEW i \in who \ some
                 PROVE  share[i] = 0
      OBVIOUS
    <3>1. share[i] \in 0..100 /\ ~(share[i] > 0)
      BY <2>3
    <3> DEFINE s == share[i]
    <3>2. s \in 0..100 /\ ~(s > 0)
      BY <3>1
    <3>3. s = 0
      <4> HIDE DEF s
      <4> QED
        BY <3>2
    <3> QED
      BY <3>3
  <2>6. \A i \in some : raw[i] = cents * share[i]
    OBVIOUS
  <2> HIDE DEF share, some, raw
  <2>7. SumFunctionOnSet(share, who) = SumFunctionOnSet(share, some)
    BY <1>1, <2>4, <2>5, SumOfRest
  <2>8. SumFunctionOnSet(share, some) = 100
    BY <2>2, <2>4, <2>7 DEF SumFunction
  <2>9. some # {}
    <3>1. SumFunctionOnSet(share, {}) = 0
      BY SumOfNone
    <3> QED
      BY <2>8, <3>1
  <2>10. SumFunctionOnSet(raw, some) = cents * 100
    <3> HIDE DEF cents
    <3>1. SumFunctionOnSet(raw, some) = cents * SumFunctionOnSet(share, some)
      BY <1>4, <2>4, <2>6, SumsScale
    <3> QED
      BY <2>8, <3>1
  <2>11. Near(cents, cents * 100, 100)
    BY <1>4, ExactlyNear
  <2> HIDE DEF claims, cents
  <2>12. DOMAIN claims.raw # {} /\ Near(cents, SumFunctionOnSet(claims.raw, DOMAIN claims.raw), claims.scale)
    BY <2>1, <2>4, <2>9, <2>10, <2>11
  <2> QED
    BY <2>12 DEF claims, cents
<1>6. CASE b.mode = "fixed"
  <2> DEFINE some == {j \in who : b.splits[j] # 0 \/ amount = 0}
             raw == [i \in some |-> b.splits[i] * F]
             share == b.splits
  <2>1. claims.raw = raw /\ claims.scale = D
    BY <1>6 DEF Claims
  <2>2. SumFunctionOnSet(share, who) = amount
    <3> DEFINE values == [i \in who |-> IF b.mode = "percent" THEN ClampPercent(b.splits[i])
                                        ELSE b.splits[i]]
    <3>1. \A i \in who : values[i] = share[i] /\ values[i] \in Int
      BY <1>1, <1>6
    <3>2. SumFunction(values) = amount
      BY <1>6 DEF CompleteSplit
    <3>3. DOMAIN values = who
      OBVIOUS
    <3> HIDE DEF values, share
    <3>4. SumFunctionOnSet(values, who) = SumFunctionOnSet(share, who)
      BY <1>1, <3>1, SumsAgree
    <3> QED
      BY <3>2, <3>3, <3>4 DEF SumFunction
  <2>3. /\ some \in SUBSET who /\ IsFiniteSet(some) /\ DOMAIN raw = some
        /\ \A i \in some : share[i] \in Int
    BY <1>1, FS_Subset
  <2>4. \A i \in who \ some : share[i] = 0
    OBVIOUS
  <2>5. \A i \in some : raw[i] = F * share[i]
    <3> SUFFICES ASSUME NEW i \in some
                 PROVE  raw[i] = F * share[i]
      OBVIOUS
    <3>1. share[i] \in Int /\ raw[i] = share[i] * F
      BY <2>3
    <3> DEFINE s == share[i]
    <3>2. s \in Int /\ raw[i] = s * F
      BY <3>1
    <3>3. raw[i] = F * s
      <4> HIDE DEF s, F, raw
      <4> QED
        BY <1>2, <3>2
    <3> QED
      BY <3>3
  <2>6. some = {} => amount = 0
    <3>1. SumFunctionOnSet(share, {}) = 0
      BY SumOfNone
    <3> HIDE DEF some, share
    <3>2. SumFunctionOnSet(share, who) = SumFunctionOnSet(share, some)
      BY <1>1, <2>3, <2>4, SumOfRest
    <3> QED
      BY <2>2, <3>1, <3>2
  <2> HIDE DEF some, raw, share
  <2>7. SumFunctionOnSet(share, some) = amount
    BY <1>1, <2>2, <2>3, <2>4, SumOfRest
  <2>8. SumFunctionOnSet(raw, some) = amount * F
    <3> HIDE DEF F
    <3>1. SumFunctionOnSet(raw, some) = F * SumFunctionOnSet(share, some)
      BY <1>2, <2>3, <2>5, SumsScale
    <3> QED
      BY <1>2, <2>7, <3>1
  <2>9. amount = 0 => cents = 0
    <3> SUFFICES ASSUME amount = 0
                 PROVE  cents = 0
      OBVIOUS
    <3> HIDE DEF F, D
    <3>1. amount * F = 0
      BY <1>2
    <3>2. cents = RoundAmount(0, D)
      BY <3>1
    <3>3. RoundAmount(0, D) = D \div (2 * D)
      BY <1>2 DEF RoundAmount, Quotient
    <3>4. D \div (2 * D) = 0
      <4> DEFINE e == 2 * D
      <4>1. e \in Nat \ {0} /\ D < e /\ D >= 0
        BY <1>2
      <4> HIDE DEF e
      <4>2. D \div e \in Int /\ D % e \in 0..(e - 1) /\ D = e * (D \div e) + (D % e)
        BY <1>2, <4>1, Divided
      <4> DEFINE q == D \div e
                 r == D % e
      <4>3. q \in Int /\ r \in 0..(e - 1) /\ D = e * q + r
        BY <4>2
      <4> HIDE DEF q, r
      <4>4. ~(q >= 1)
        <5>1. q >= 1 => e * q >= e
          BY <4>1, <4>3
        <5> QED
          BY <1>2, <4>1, <4>3, <5>1
      <4>5. ~(q <= -1)
        <5>1. q <= -1 => e * q <= -e
          BY <4>1, <4>3
        <5> QED
          BY <1>2, <4>1, <4>3, <5>1
      <4>6. q = 0
        BY <4>3, <4>4, <4>5
      <4> QED
        BY <4>6 DEF q, e
    <3> QED
      BY <3>2, <3>3, <3>4
  <2> HIDE DEF claims, cents
  <2>10. IF DOMAIN claims.raw = {} THEN cents = 0
         ELSE Near(cents, SumFunctionOnSet(claims.raw, DOMAIN claims.raw), claims.scale)
    BY <1>4, <2>1, <2>3, <2>6, <2>8, <2>9
  <2> QED
    BY <2>10 DEF claims, cents
<1>7. CASE b.mode = "equal"
  <2> DEFINE raw == [i \in who |-> cents]
             n == Heads(who)
  <2>1. claims.raw = raw /\ claims.scale = n
    BY <1>7 DEF Claims, Heads
  <2>2. who # {}
    BY <1>7 DEF CompleteSplit
  <2>3. n = Cardinality(who) /\ n \in Nat \ {0}
    BY <1>1, <2>2, HeadsCounted
  <2>4. DOMAIN raw = who /\ \A i \in who : raw[i] = cents
    OBVIOUS
  <2> HIDE DEF raw, n, claims, cents
  <2>5. SumFunctionOnSet(raw, who) = cents * n
    BY <1>1, <1>4, <2>3, <2>4, SumOfConstant
  <2>6. Near(cents, cents * n, n)
    BY <1>4, <2>3, ExactlyNear
  <2>7. DOMAIN claims.raw # {} /\ Near(cents, SumFunctionOnSet(claims.raw, DOMAIN claims.raw), claims.scale)
    BY <2>1, <2>2, <2>4, <2>5, <2>6
  <2> QED
    BY <2>7 DEF claims, cents
<1> QED
  BY <1>1, <1>5, <1>6, <1>7 DEF Modes

-----------------------------------------------------------------------------
(***************************************************************************)
(* Sound values.                                                           *)
(***************************************************************************)
IsValue(v) ==
    /\ v.booking.direction \in Directions
    /\ v.cents \in Int
    /\ IsTally(v.shares) /\ Holders(v.shares) \subseteq members
    /\ v.unassigned = v.cents - Total(v.shares)
    /\ v.complete => v.unassigned = 0

\* Values of different bookings.
Sound(values) ==
    /\ IsFiniteSet(values)
    /\ \A v \in values : IsValue(v)
    /\ \A v, w \in values : v.id = w.id => v = w

\* What is evaluated.
IsEntry(e) ==
    /\ IsBooking(e.booking) /\ DOMAIN e.booking.splits \subseteq members
    /\ IsFiniteSet(e.overrides)
    /\ \A o \in e.overrides : o.amount \in Int /\ o.from \in Int /\ o.id \in Int

\* The value of a booking: its parts are with members, the rest is unassigned, and
\* nothing is where the split is complete.
LEMMA Evaluated ==
  ASSUME NEW e, IsEntry(e), members \subseteq Persons, NEW m
  PROVE  LET v == EvaluateBooking(e, m)
         IN  IsValue(v) /\ v.id = e.id /\ v.month = m /\ v.booking = e.booking
<1> DEFINE b == e.booking
           amount == AmountFor(b, e.overrides, m)
           cents == RoundAmount(amount * Factor(b)[1], Factor(b)[2])
           claims == Claims(b, amount, cents)
           complete == CompleteSplit(b, amount)
           target == IF complete /\ DOMAIN claims.raw # {} THEN cents ELSE ClaimedCents(claims)
           shares == BalancedCents(claims.raw, claims.scale, target)
           v == EvaluateBooking(e, m)
<1>1. v = [id |-> e.id, booking |-> b, month |-> m, cents |-> cents, shares |-> shares,
           unassigned |-> cents - Total(shares), complete |-> complete]
  BY DEF EvaluateBooking, Valued
<1>2. IsBooking(b) /\ DOMAIN b.splits \subseteq members
  BY DEF IsEntry
<1>3. amount \in Int
  BY AmountInForce DEF IsEntry, IsBooking
<1>4. Factor(b)[1] \in Nat /\ Factor(b)[2] \in Nat \ {0}
  BY <1>2, FactorTyped
<1>5. cents \in Int
  <2> DEFINE n == amount * Factor(b)[1]
             d == Factor(b)[2]
  <2>1. n \in Int /\ d \in Nat \ {0}
    <3> DEFINE F == Factor(b)[1]
    <3> HIDE DEF F, amount
    <3> QED
      BY <1>3, <1>4 DEF F
  <2>2. cents = RoundAmount(n, d)
    OBVIOUS
  <2> HIDE DEF n, d, cents
  <2> QED
    BY <2>1, <2>2, RoundNear
<1>6. complete => IF DOMAIN claims.raw = {} THEN cents = 0
                  ELSE Near(cents, SumFunctionOnSet(claims.raw, DOMAIN claims.raw), claims.scale)
  <2> HIDE DEF amount
  <2> QED
    BY <1>2, <1>3, ClaimsAddUp
<1>7. /\ claims.scale \in Nat \ {0}
      /\ DOMAIN claims.raw \subseteq DOMAIN b.splits
      /\ IsFiniteSet(DOMAIN claims.raw)
      /\ \A i \in DOMAIN claims.raw : claims.raw[i] \in Int
  <2> HIDE DEF amount, cents
  <2> QED
    BY <1>2, <1>3, <1>5, ClaimsTyped
<1>8. DOMAIN claims.raw \subseteq members /\ DOMAIN claims.raw \subseteq Int
  BY <1>2, <1>7, PersonsAre
<1>9. target = IF complete /\ DOMAIN claims.raw # {} THEN cents ELSE ClaimedCents(claims)
  OBVIOUS
<1>10. shares = BalancedCents(claims.raw, claims.scale, target)
  OBVIOUS
<1> HIDE DEF claims, cents, amount, complete, target, shares
<1>11. IsTally(shares) /\ Holders(shares) = DOMAIN claims.raw
  BY <1>7, <1>10, BalancedCentsTally
<1>12. complete => Total(shares) = cents
  <2> SUFFICES ASSUME complete
               PROVE  Total(shares) = cents
    OBVIOUS
  <2>1. CASE DOMAIN claims.raw = {}
    <3>1. shares = {}
      BY <1>11, <2>1 DEF Holders
    <3>2. Holders({}) = {} /\ IsTally({})
      BY <1>11, <2>1, <3>1
    <3>3. Total({}) = 0
      <4> DEFINE f == [p \in {} |-> p[2]]
      <4>1. Total({}) = SumFunctionOnSet(f, {})
        BY DEF Total, SumFunction
      <4> HIDE DEF f
      <4> QED
        BY <4>1, SumOfNone
    <3> QED
      BY <1>6, <2>1, <3>1, <3>3
  <2>2. CASE DOMAIN claims.raw # {}
    <3>1. target = cents /\ Near(target, SumFunctionOnSet(claims.raw, DOMAIN claims.raw), claims.scale)
      BY <1>6, <1>9, <2>2
    <3> DEFINE raw == claims.raw
               scale == claims.scale
    <3>2. /\ IsFiniteSet(DOMAIN raw) /\ DOMAIN raw \subseteq Int
          /\ \A i \in DOMAIN raw : raw[i] \in Int
          /\ scale \in Nat \ {0} /\ target \in Int
          /\ Near(target, SumFunctionOnSet(raw, DOMAIN raw), scale)
          /\ shares = BalancedCents(raw, scale, target)
      BY <1>5, <1>7, <1>8, <1>10, <3>1
    <3> HIDE DEF raw, scale
    <3>3. Total(shares) = target
      BY <3>2, BalancedCentsAddUp
    <3> QED
      BY <3>1, <3>3
  <2> QED
    BY <2>1, <2>2
<1>13. Total(shares) \in Int
  BY <1>11, <1>7, TallyTotal
<1>14. IsValue(v)
  <2> DEFINE unassigned == cents - Total(shares)
  <2>1. /\ v.booking = b /\ v.cents = cents /\ v.shares = shares /\ v.unassigned = unassigned
        /\ v.complete = complete
    BY <1>1
  <2>2. complete => unassigned = 0
    BY <1>5, <1>12
  <2> HIDE DEF v, unassigned, b
  <2> QED
    BY <1>2, <1>5, <1>8, <1>11, <2>1, <2>2 DEF IsValue, IsBooking, unassigned
<1>15. v.id = e.id /\ v.month = m /\ v.booking = b
  BY <1>1
<1> HIDE DEF v
<1> QED
  BY <1>14, <1>15 DEF v

-----------------------------------------------------------------------------
(***************************************************************************)
(* The values of a month, each of another booking.                         *)
(***************************************************************************)
\* An accepted payment can be evaluated like a booking.
LEMMA PaymentIsEntry ==
  ASSUME BookInv, NEW p \in Payments
  PROVE  LET e == PaymentEntry(p, payment[p].splits)
         IN  /\ IsEntry(e) /\ e.id = p
             /\ e.booking.direction = Statement[p].direction
<1> DEFINE splits == payment[p].splits
           e == PaymentEntry(p, splits)
           shares == [i \in Holders(splits) |-> Part(splits, i)]
<1>1. IsTally(splits) /\ Holders(splits) \subseteq members
  BY DEF BookInv, PaymentsAreSound
<1>2. /\ Statement[p].amount \in Int
      /\ Statement[p].direction \in Directions
  BY StatementIsTyped
<1>3. /\ e.id = p /\ e.overrides = {} /\ DOMAIN e.booking = Fields
      /\ e.booking.direction = Statement[p].direction
      /\ e.booking.frequency = "once" /\ e.booking.interval = 1
      /\ e.booking.amount = Statement[p].amount /\ e.booking.mode = "fixed"
      /\ e.booking.splits = shares
  BY DEF PaymentEntry, Fields
<1>4. DOMAIN shares = Holders(splits) /\ \A i \in Holders(splits) : shares[i] = Part(splits, i)
  OBVIOUS
<1> HIDE DEF e, shares, splits
<1>5. IsFiniteSet(Holders(splits)) /\ \A i \in Holders(splits) : Part(splits, i) \in Int
  BY <1>1 DEF IsTally
<1>6. IsEntry(e)
  BY <1>1, <1>2, <1>3, <1>4, <1>5, FS_EmptySet DEF IsEntry, IsBooking, Frequencies, Modes
<1> QED
  BY <1>3, <1>6 DEF e, splits

\* And so can a stored booking.
LEMMA PlanIsEntry ==
  ASSUME BookInv, NEW b \in Stored
  PROVE  IsEntry(PlanEntry(b)) /\ PlanEntry(b).id = b /\ PlanEntry(b).booking = booking[b]
<1> DEFINE e == PlanEntry(b)
<1>1. e.id = b /\ e.booking = booking[b] /\ e.overrides = OverridesOf(b)
  BY DEF PlanEntry
<1>2. IsBooking(booking[b]) /\ DOMAIN booking[b].splits \subseteq members
  BY DEF BookInv, PlansAreSound
<1>3. OverridesOf(b) \subseteq overrides
  BY DEF OverridesOf
<1>4. IsFiniteSet(OverridesOf(b)) /\ \A o \in OverridesOf(b) : o.amount \in Int /\ o.from \in Int /\ o.id \in Int
  BY <1>3, FS_Subset DEF BookInv, AmountsAreSound
<1> HIDE DEF e
<1> QED
  BY <1>1, <1>2, <1>4 DEF IsEntry, e

\* Which way the money of a booking or a payment goes.
DirectionOf(id) == IF id \in Payments THEN Statement[id].direction ELSE booking[id].direction

\* No payment has the id of a booking.
LEMMA PaymentsAreNoPlans ==
  ASSUME NEW p \in Payments
  PROVE  p \notin Ids
<1>1. p < 0
  BY IdsAreApart
<1> QED
  BY <1>1 DEF Ids

\* The values of a month are sound on every basis.
LEMMA MonthIsSound ==
  ASSUME BookInv, NEW basis, NEW m
  PROVE  /\ Sound(MonthValues(basis, m))
         /\ \A v \in MonthValues(basis, m) : /\ v.month = m /\ v.id \in Int
                                            /\ v.booking.direction = DirectionOf(v.id)
<1> DEFINE actual == ActualMonth(basis, m)
           some == IF actual THEN AcceptedIn(m) ELSE {b \in Stored : ActiveIn(booking[b], m)}
           value == [i \in some |-> EvaluateBooking(IF actual THEN PaymentEntry(i, payment[i].splits)
                                                    ELSE PlanEntry(i), m)]
<1>1. MonthValues(basis, m) = ImageOf(value, some)
  BY DEF MonthValues, Entries, PaymentsIn, PlansIn, ImageOf
<1>2. IsFiniteSet(some)
  <2>1. IsFiniteSet(Payments) /\ IsFiniteSet(Ids)
    BY IdsAreApart, FS_Interval DEF Ids
  <2>2. some \subseteq Payments \/ some \subseteq Ids
    BY DEF AcceptedIn, Stored
  <2> QED
    BY <2>1, <2>2, FS_Subset
<1>3. ASSUME NEW i \in some
      PROVE  /\ IsValue(value[i]) /\ value[i].id = i /\ value[i].month = m
             /\ value[i].booking.direction = DirectionOf(i)
  <2> DEFINE e == IF actual THEN PaymentEntry(i, payment[i].splits) ELSE PlanEntry(i)
  <2>1. IsEntry(e) /\ e.id = i /\ e.booking.direction = DirectionOf(i)
    <3>1. CASE actual
      <4>1. i \in Payments
        BY <3>1 DEF AcceptedIn
      <4> QED
        BY <3>1, <4>1, PaymentIsEntry DEF DirectionOf
    <3>2. CASE ~actual
      <4>1. i \in Stored /\ i \in Ids
        BY <3>2 DEF Stored
      <4>2. i \notin Payments
        BY <4>1, PaymentsAreNoPlans
      <4> QED
        BY <3>2, <4>1, <4>2, PlanIsEntry DEF DirectionOf
    <3> QED
      BY <3>1, <3>2
  <2>2. value[i] = EvaluateBooking(e, m)
    OBVIOUS
  <2> HIDE DEF e, value
  <2> QED
    BY <2>1, <2>2, Evaluated DEF BookInv
<1>4. IsFiniteSet(ImageOf(value, some))
  BY <1>2, NamesAreFinite
<1>5. \A i \in some : i \in Int
  BY IdsAreApart DEF AcceptedIn, Stored, Ids
<1> HIDE DEF value, some
<1> QED
  BY <1>1, <1>3, <1>4, <1>5 DEF Sound, ImageOf

\* The values of many months: those of one booking go the same way.
Prepared(values) ==
    /\ IsFiniteSet(values)
    /\ \A v \in values : IsValue(v)
    /\ \A v, w \in values : v.id = w.id => v.booking.direction = w.booking.direction

\* And so are those of the year.
LEMMA PreparedYear ==
  ASSUME BookInv, NEW basis
  PROVE  /\ Prepared(Prepare(basis))
         /\ \A v \in Prepare(basis) : v.month \in Months /\ v.id \in Int
         /\ \A some \in SUBSET Prepare(basis) : Prepared(some)
<1> DEFINE month == [m \in Months |-> MonthValues(basis, m)]
<1>1. Prepare(basis) = UNION ImageOf(month, Months)
  BY DEF Prepare, ImageOf
<1>2. \A m \in Months : /\ Sound(month[m])
                       /\ \A v \in month[m] : /\ v.month = m /\ v.id \in Int
                                               /\ v.booking.direction = DirectionOf(v.id)
  BY MonthIsSound
<1>3. IsFiniteSet(Months)
  BY IdsAreApart, FS_Interval DEF Months
<1> HIDE DEF month
<1>4. IsFiniteSet(ImageOf(month, Months))
  BY <1>3, NamesAreFinite
<1>5. \A T \in ImageOf(month, Months) : IsFiniteSet(T)
  BY <1>2 DEF ImageOf, Sound
<1>6. IsFiniteSet(UNION ImageOf(month, Months))
  BY <1>4, <1>5, FS_UNION
<1>7. \A v \in Prepare(basis) : /\ v.month \in Months /\ v.id \in Int /\ IsValue(v)
                               /\ v.booking.direction = DirectionOf(v.id)
  BY <1>1, <1>2 DEF ImageOf, Sound
<1>8. \A some \in SUBSET Prepare(basis) : IsFiniteSet(some)
  BY <1>1, <1>6, FS_Subset
<1> QED
  BY <1>7, <1>8 DEF Prepared

-----------------------------------------------------------------------------
(***************************************************************************)
(* Sums over some of the values.                                           *)
(***************************************************************************)
Values(values) == IsFiniteSet(values) /\ \A v \in values : IsValue(v)

\* The numbers of values, as functions to be added up.
CentsOf(values) == [v \in values |-> v.cents]
ShareOf(values, i) == [v \in values |-> Part(v.shares, i)]
TotalOf(values) == [v \in values |-> Total(v.shares)]
RestOf(values) == [v \in values |-> v.unassigned]

\* The numbers of a value, and its parts over all members.
LEMMA ValueTyped ==
  ASSUME NEW v, IsValue(v), members \subseteq Persons
  PROVE  /\ v.cents \in Int /\ v.unassigned \in Int /\ Total(v.shares) \in Int
         /\ v.cents = Total(v.shares) + v.unassigned
         /\ \A i : Part(v.shares, i) \in Int
         /\ Total(v.shares) = SumFunctionOnSet([i \in members |-> Part(v.shares, i)], members)
<1> DEFINE s == v.shares
           each == [i \in members |-> Part(s, i)]
<1>1. IsTally(s) /\ Holders(s) \subseteq members /\ v.cents \in Int /\ v.unassigned = v.cents - Total(s)
  BY DEF IsValue
<1>2. IsFiniteSet(members)
  BY PersonsAre
<1>3. Total(s) \in Int /\ Total(s) = SumFunctionOnSet(each, members)
  <2> HIDE DEF s
  <2> QED
    BY <1>1, <1>2, TallyTotal
<1>4. \A i : Part(s, i) \in Int
  <2> SUFFICES ASSUME NEW i
               PROVE  Part(s, i) \in Int
    OBVIOUS
  <2>1. CASE i \in Holders(s)
    BY <1>1, <2>1 DEF IsTally
  <2>2. CASE i \notin Holders(s)
    BY <2>2 DEF Part
  <2> QED
    BY <2>1, <2>2
<1>5. v.cents = Total(s) + v.unassigned /\ v.unassigned \in Int
  <2> DEFINE c == v.cents
             u == v.unassigned
             n == Total(s)
  <2>1. c \in Int /\ n \in Int /\ u = c - n
    BY <1>1, <1>3
  <2>2. c = n + u /\ u \in Int
    <3> HIDE DEF c, u, n
    <3> QED
      BY <2>1
  <2> QED
    BY <2>2
<1> QED
  BY <1>1, <1>3, <1>4, <1>5

\* The sums of the reports as sums of one function.
LEMMA SumsWithin ==
  ASSUME NEW values, Values(values), members \subseteq Persons, NEW some \in SUBSET values
  PROVE  /\ IsFiniteSet(some) /\ Values(some)
         /\ Amount(some) = SumFunctionOnSet(CentsOf(values), some) /\ Amount(some) \in Int
         /\ Unassigned(some) = SumFunctionOnSet(RestOf(values), some) /\ Unassigned(some) \in Int
         /\ \A i : /\ SharesOf(some, i) = SumFunctionOnSet(ShareOf(values, i), some)
                   /\ SharesOf(some, i) \in Int
         /\ InScope(some, Everyone) = Amount(some)
         /\ \A i \in members : InScope(some, i) = SharesOf(some, i)
<1>1. IsFiniteSet(some) /\ \A v \in values : IsValue(v)
  BY FS_Subset DEF Values
<1>2. \A v \in some : /\ v.cents \in Int /\ v.unassigned \in Int
                      /\ \A i : Part(v.shares, i) \in Int
  BY <1>1, ValueTyped
<1>3. Amount(some) = SumFunctionOnSet(CentsOf(values), some) /\ Amount(some) \in Int
  <2> DEFINE f == [v \in some |-> v.cents]
             g == CentsOf(values)
  <2>1. Amount(some) = SumFunctionOnSet(f, some)
    BY DEF Amount, SumFunction
  <2>2. \A v \in some : f[v] = g[v] /\ f[v] \in Int
    BY <1>2 DEF CentsOf
  <2> HIDE DEF f, g
  <2>3. SumFunctionOnSet(f, some) = SumFunctionOnSet(g, some) /\ SumFunctionOnSet(f, some) \in Int
    BY <1>1, <2>2, SumsAgree, SumWithout
  <2> QED
    BY <2>1, <2>3 DEF g
<1>4. Unassigned(some) = SumFunctionOnSet(RestOf(values), some) /\ Unassigned(some) \in Int
  <2> DEFINE f == [v \in some |-> v.unassigned]
             g == RestOf(values)
  <2>1. Unassigned(some) = SumFunctionOnSet(f, some)
    BY DEF Unassigned, SumFunction
  <2>2. \A v \in some : f[v] = g[v] /\ f[v] \in Int
    BY <1>2 DEF RestOf
  <2> HIDE DEF f, g
  <2>3. SumFunctionOnSet(f, some) = SumFunctionOnSet(g, some) /\ SumFunctionOnSet(f, some) \in Int
    BY <1>1, <2>2, SumsAgree, SumWithout
  <2> QED
    BY <2>1, <2>3 DEF g
<1>5. ASSUME NEW i
      PROVE  SharesOf(some, i) = SumFunctionOnSet(ShareOf(values, i), some) /\ SharesOf(some, i) \in Int
  <2> DEFINE f == [v \in some |-> Part(v.shares, i)]
             g == ShareOf(values, i)
  <2>1. SharesOf(some, i) = SumFunctionOnSet(f, some)
    BY DEF SharesOf, SumFunction
  <2>2. \A v \in some : f[v] = g[v] /\ f[v] \in Int
    BY <1>2 DEF ShareOf
  <2> HIDE DEF f, g
  <2>3. SumFunctionOnSet(f, some) = SumFunctionOnSet(g, some) /\ SumFunctionOnSet(f, some) \in Int
    BY <1>1, <2>2, SumsAgree, SumWithout
  <2> QED
    BY <2>1, <2>3 DEF g
<1>6. InScope(some, Everyone) = Amount(some)
  <2>1. [v \in some |-> Scoped(v, Everyone)] = [v \in some |-> v.cents]
    BY DEF Scoped
  <2> QED
    BY <2>1 DEF InScope, Amount
<1>7. ASSUME NEW i \in members
      PROVE  InScope(some, i) = SharesOf(some, i)
  <2>1. i # Everyone
    BY PersonsAre
  <2>2. [v \in some |-> Scoped(v, i)] = [v \in some |-> Part(v.shares, i)]
    BY <2>1 DEF Scoped
  <2> QED
    BY <2>2 DEF InScope, SharesOf
<1>8. Values(some)
  BY <1>1 DEF Values
<1> QED
  BY <1>1, <1>3, <1>4, <1>5, <1>6, <1>7, <1>8

\* What is spent is what the members carry and what nobody carries.
LEMMA SharesAddUp ==
  ASSUME NEW values, Values(values), members \subseteq Persons
  PROVE  LET carried == SumFunctionOnSet([i \in members |-> SharesOf(values, i)], members)
         IN  /\ carried \in Int
             /\ Amount(values) = carried + Unassigned(values)
             /\ carried = SumFunctionOnSet(TotalOf(values), values)
<1> DEFINE f == CentsOf(values)
           g == TotalOf(values)
           u == RestOf(values)
           row == [v \in values |-> [i \in members |-> Part(v.shares, i)]]
           column == [i \in members |-> ShareOf(values, i)]
           sums == [i \in members |-> SharesOf(values, i)]
<1>1. IsFiniteSet(values) /\ \A v \in values : IsValue(v)
  BY DEF Values
<1>2. IsFiniteSet(members)
  BY PersonsAre
<1>3. \A v \in values : g[v] \in Int /\ u[v] \in Int /\ f[v] = g[v] + u[v]
  BY <1>1, ValueTyped DEF CentsOf, TotalOf, RestOf
<1>4. \A v \in values : g[v] = SumFunctionOnSet(row[v], members)
  BY <1>1, ValueTyped DEF TotalOf
<1>5. \A v \in values : \A i \in members : row[v][i] \in Int /\ column[i][v] = row[v][i]
  BY <1>1, ValueTyped DEF ShareOf
<1>6. \A i \in members : sums[i] = SumFunctionOnSet(column[i], values)
  BY SumsWithin
<1>11. Crossed(values, members, row, column, g, sums)
  BY <1>4, <1>5, <1>6 DEF Crossed
<1> HIDE DEF f, g, u, row, column, sums
<1>7. SumFunctionOnSet(f, values) = SumFunctionOnSet(g, values) + SumFunctionOnSet(u, values)
  BY <1>1, <1>3, SumsAdd
<1>8. SumFunctionOnSet(g, values) = SumFunctionOnSet(sums, members)
  BY <1>1, <1>2, <1>11, SumExchanged
<1>9. Amount(values) = SumFunctionOnSet(f, values) /\ Unassigned(values) = SumFunctionOnSet(u, values)
  BY SumsWithin DEF f, u
<1>10. SumFunctionOnSet(g, values) \in Int
  BY <1>1, <1>3, SumWithout
<1> QED
  BY <1>7, <1>8, <1>9, <1>10 DEF sums, g

-----------------------------------------------------------------------------
(***************************************************************************)
(* The values of a period.                                                 *)
(***************************************************************************)
\* Nothing is left where every booking is complete.
LEMMA NothingUnassigned ==
  ASSUME NEW values, Values(values), members \subseteq Persons, \A v \in values : v.complete
  PROVE  Unassigned(values) = 0
<1> DEFINE u == RestOf(values)
<1>1. \A v \in values : u[v] = 0
  BY DEF RestOf, Values, IsValue
<1>2. Unassigned(values) = SumFunctionOnSet(u, values) /\ IsFiniteSet(values)
  BY SumsWithin
<1> HIDE DEF u
<1> QED
  BY <1>1, <1>2, SumOfZeros

\* A member that carries nothing of any value has no share of them.
LEMMA NoShare ==
  ASSUME NEW values, Values(values), members \subseteq Persons, NEW i,
         \A v \in values : i \notin Holders(v.shares)
  PROVE  SharesOf(values, i) = 0
<1> DEFINE f == ShareOf(values, i)
<1>1. \A v \in values : f[v] = 0
  BY DEF ShareOf, Part
<1>2. SharesOf(values, i) = SumFunctionOnSet(f, values) /\ IsFiniteSet(values)
  BY SumsWithin
<1> HIDE DEF f
<1> QED
  BY <1>1, <1>2, SumOfZeros

\* The values of one booking over the months, and their sum as one value.
SameId(values, id) == {v \in values : v.id = id}
Carriers(same) == UNION {Holders(v.shares) : v \in same}
SharesIn(same) == {<<i, SharesOf(same, i)>> : i \in Carriers(same)}
TotalValue(values, id) ==
    LET same == SameId(values, id)
    IN  Valued(id, (CHOOSE v \in same : TRUE).booking, 0, Amount(same), SharesIn(same),
               \A v \in same : v.complete)

\* Totals in these words.
LEMMA TotalsOpened ==
  ASSUME NEW values
  PROVE  Totals(values) = {TotalValue(values, id) : id \in {v.id : v \in values}}
  BY DEF Totals, TotalValue, SameId, Carriers, SharesIn

\* The shares of a booking over several months.
LEMMA SharesInSum ==
  ASSUME NEW same, Values(same), members \subseteq Persons
  PROVE  /\ IsTally(SharesIn(same)) /\ Holders(SharesIn(same)) \subseteq members
         /\ Total(SharesIn(same)) \in Int
         /\ Amount(same) = Total(SharesIn(same)) + Unassigned(same)
         /\ \A i : Part(SharesIn(same), i) = SharesOf(same, i)
<1> DEFINE I == Carriers(same)
           f == [i \in members |-> SharesOf(same, i)]
<1>1. I \subseteq members
  BY DEF Carriers, Values, IsValue
<1>2. IsFiniteSet(members) /\ IsFiniteSet(I) /\ I \in SUBSET members
  BY <1>1, PersonsAre, FS_Subset
<1>3. \A i \in members : f[i] = SharesOf(same, i) /\ f[i] \in Int
  BY SumsWithin
<1>4. \A i : i \notin I => SharesOf(same, i) = 0
  BY NoShare DEF Carriers
<1>5. SharesIn(same) = Graph(f, I)
  BY <1>1, <1>3 DEF SharesIn, Graph
<1>6. SumFunctionOnSet(f, members) \in Int /\ Amount(same) = SumFunctionOnSet(f, members) + Unassigned(same)
  BY SharesAddUp
<1> HIDE DEF f, I
<1>7. /\ IsTally(SharesIn(same)) /\ Holders(SharesIn(same)) = I
      /\ \A i \in I : Part(SharesIn(same), i) = f[i]
      /\ Total(SharesIn(same)) = SumFunctionOnSet(f, I)
  BY <1>2, <1>3, <1>5, TallyOf
<1>8. SumFunctionOnSet(f, members) = SumFunctionOnSet(f, I)
  <2>1. \A i \in members \ I : f[i] = 0
    BY <1>3, <1>4
  <2>2. \A i \in I : f[i] \in Int
    BY <1>2, <1>3
  <2> QED
    BY <1>2, <2>1, <2>2, SumOfRest
<1>9. ASSUME NEW i
      PROVE  Part(SharesIn(same), i) = SharesOf(same, i)
  <2>1. CASE i \in I
    BY <1>2, <1>3, <1>7, <2>1
  <2>2. CASE i \notin I
    BY <1>4, <1>7, <2>2 DEF Part
  <2> QED
    BY <2>1, <2>2
<1> QED
  BY <1>2, <1>6, <1>7, <1>8, <1>9

\* The sum of a booking over the months is a sound value.
LEMMA TotalValueIsSound ==
  ASSUME NEW values, Prepared(values), members \subseteq Persons, NEW w \in values
  PROVE  LET t == TotalValue(values, w.id)
         IN  /\ IsValue(t) /\ t.id = w.id
             /\ t.cents = Amount(SameId(values, w.id))
             /\ t.booking.direction = w.booking.direction
<1> DEFINE id == w.id
           same == SameId(values, id)
           any == CHOOSE v \in same : TRUE
           complete == \A v \in same : v.complete
           cents == Amount(same)
           shares == SharesIn(same)
           t == TotalValue(values, id)
<1>1. /\ t.id = id /\ t.booking = any.booking /\ t.cents = cents /\ t.shares = shares
      /\ t.unassigned = cents - Total(shares) /\ t.complete = complete
  BY DEF TotalValue, Valued
<1>2. same \in SUBSET values /\ w \in same /\ any \in same
  BY DEF SameId
<1>3. any \in values /\ any.id = id
  BY <1>2 DEF SameId
<1>4. any.booking.direction = w.booking.direction /\ any.booking.direction \in Directions
  BY <1>3 DEF Prepared, IsValue
<1>5. Values(same)
  <2>1. Values(values)
    BY DEF Prepared, Values
  <2> HIDE DEF same
  <2> QED
    BY <1>2, <2>1, SumsWithin
<1> HIDE DEF same
<1>6. /\ IsTally(shares) /\ Holders(shares) \subseteq members /\ Total(shares) \in Int
      /\ cents = Total(shares) + Unassigned(same)
  BY <1>5, SharesInSum
<1>7. cents \in Int /\ Unassigned(same) \in Int
  BY <1>5, SumsWithin
<1>8. complete => Unassigned(same) = 0
  BY <1>5, NothingUnassigned
<1> DEFINE rest == Unassigned(same)
<1>9. cents - Total(shares) = rest
  <2> DEFINE n == Total(shares)
  <2>1. cents \in Int /\ n \in Int /\ rest \in Int /\ cents = n + rest
    BY <1>6, <1>7
  <2>2. cents - n = rest
    <3> HIDE DEF cents, n, rest
    <3> QED
      BY <2>1
  <2> QED
    BY <2>2
<1> HIDE DEF t, any, complete, cents, shares, rest
<1>10. IsValue(t)
  BY <1>1, <1>4, <1>6, <1>7, <1>8, <1>9 DEF IsValue, rest
<1> QED
  BY <1>1, <1>4, <1>10 DEF t, cents, same

\* The totals are sound and make the same income and the same expense.
LEMMA TotalsAreSound ==
  ASSUME NEW values, Prepared(values), members \subseteq Persons
  PROVE  /\ Sound(Totals(values))
         /\ \A t \in Totals(values) : \E v \in values : t.id = v.id
         /\ \A d \in Directions : Amount(Side(Totals(values), d)) = Amount(Side(values, d))
<1> DEFINE ids == {v.id : v \in values}
           name == [id \in ids |-> TotalValue(values, id)]
           totals == Totals(values)
<1>1. totals = ImageOf(name, ids)
  BY TotalsOpened DEF ImageOf
<1>2. \A w \in values : /\ IsValue(name[w.id]) /\ name[w.id].id = w.id
                      /\ name[w.id].cents = Amount(SameId(values, w.id))
                      /\ name[w.id].booking.direction = w.booking.direction
  BY TotalValueIsSound
<1>3. \A id \in ids : /\ IsValue(name[id]) /\ name[id].id = id
                    /\ name[id].cents = Amount(SameId(values, id))
  BY <1>2
<1>4. IsFiniteSet(ids)
  <2> DEFINE idOf == [v \in values |-> v.id]
  <2>1. ids = ImageOf(idOf, values)
    BY DEF ImageOf
  <2> HIDE DEF idOf, ids
  <2> QED
    BY <2>1, NamesAreFinite DEF Prepared
<1> HIDE DEF name, totals
<1>5. IsFiniteSet(totals)
  BY <1>1, <1>4, NamesAreFinite
<1>6. Sound(totals)
  BY <1>1, <1>3, <1>5 DEF Sound, ImageOf
<1>7. Values(totals) /\ Values(values)
  BY <1>6 DEF Sound, Values, Prepared
<1>8. ASSUME NEW d \in Directions
      PROVE  Amount(Side(totals, d)) = Amount(Side(values, d))
  <2> DEFINE V == Side(values, d)
             K == {id \in ids : name[id].booking.direction = d}
             sums == [id \in K |-> Amount(SameId(values, id))]
             cents == CentsOf(values)
             summed == CentsOf(totals)
             key == [v \in values |-> v.id]
  <2>1. IsFiniteSet(K) /\ IsFiniteSet(V) /\ V \in SUBSET values
    BY <1>4, <1>7, FS_Subset DEF Side, Values
  <2>2. Side(totals, d) = ImageOf(name, K)
    BY <1>1 DEF Side, ImageOf
  <2>3. \A id \in K : SameId(values, id) \in SUBSET values
    BY DEF SameId
  <2>4. \A id \in K : sums[id] \in Int /\ sums[id] = SumFunctionOnSet(cents, SameId(values, id))
    BY <1>7, <2>3, SumsWithin
  <2>5. \A x, y \in K : name[x] = name[y] => x = y
    BY <1>3
  <2>6. \A id \in K : summed[name[id]] = sums[id]
    <3>1. \A id \in K : name[id] \in totals /\ id \in ids
      BY <1>1 DEF ImageOf
    <3> QED
      BY <1>3, <3>1 DEF CentsOf
  <2>7. \A v \in V : key[v] \in K
    BY <1>2 DEF Side
  <2>8. \A id \in K : {v \in V : key[v] = id} = SameId(values, id)
    <3> SUFFICES ASSUME NEW id \in K
                 PROVE  {v \in V : key[v] = id} = SameId(values, id)
      OBVIOUS
    <3>1. \A v \in values : v.id = id => v.booking.direction = d
      BY <1>2
    <3> QED
      BY <3>1 DEF SameId, Side
  <2>9. Amount(V) = SumFunctionOnSet(cents, V)
    BY <1>7, <2>1, SumsWithin
  <2>10. Amount(ImageOf(name, K)) = SumFunctionOnSet(summed, ImageOf(name, K))
    <3>1. ImageOf(name, K) \in SUBSET totals
      BY <1>1 DEF ImageOf
    <3> QED
      BY <1>7, <3>1, SumsWithin
  <2>11. \A v \in V : cents[v] \in Int
    BY <1>7, <2>1, ValueTyped DEF CentsOf, Values
  <2>12. Grouped(cents, V, K, key, sums)
    BY <2>4, <2>7, <2>8 DEF Grouped
  <2> HIDE DEF V, K, sums, cents, summed, key
  <2>13. SumFunctionOnSet(cents, V) = SumFunctionOnSet(sums, K)
    BY <2>1, <2>11, <2>12, SumByGroups
  <2>14. SumFunctionOnSet(sums, K) = SumFunctionOnSet(summed, ImageOf(name, K))
    BY <2>1, <2>4, <2>5, <2>6, SumRenamed
  <2> QED
    BY <2>2, <2>9, <2>10, <2>13, <2>14 DEF V
<1>9. \A t \in totals : \E v \in values : t.id = v.id
  BY <1>1, <1>3 DEF ImageOf
<1> QED
  BY <1>6, <1>8, <1>9 DEF totals

-----------------------------------------------------------------------------
(***************************************************************************)
(* The values of a typical month.                                          *)
(***************************************************************************)
\* The part of a holder is not disturbed by a tally of others.
LEMMA PartOfUnion ==
  ASSUME NEW A, IsTally(A), NEW B, IsTally(B), Holders(A) \cap Holders(B) = {},
         NEW i \in Holders(A)
  PROVE  Part(A \cup B, i) = Part(A, i) /\ Part(B \cup A, i) = Part(A, i)
<1>1. \A p \in A : p[1] = i => p[2] = Part(A, i)
  BY DEF IsTally
<1>2. \A p \in B : p[1] # i
  BY DEF Holders
<1>3. \E p \in A : p[1] = i
  BY DEF Holders
<1>4. i \in Holders(A \cup B) /\ i \in Holders(B \cup A)
  BY DEF Holders
<1>5. /\ \E p \in A \cup B : p[1] = i
      /\ \A p \in A \cup B : p[1] = i => p[2] = Part(A, i)
  BY <1>1, <1>2, <1>3
<1>6. A \cup B = B \cup A
  OBVIOUS
<1>7. (CHOOSE p \in A \cup B : p[1] = i)[2] = Part(A, i)
  BY <1>5
<1>8. Part(A \cup B, i) = (CHOOSE p \in A \cup B : p[1] = i)[2]
  BY <1>4 DEF Part
<1> QED
  BY <1>6, <1>7, <1>8

\* A tally read as a function.
LEMMA FunctionOfTally ==
  ASSUME NEW parts, IsTally(parts)
  PROVE  /\ DOMAIN AsFunction(parts) = Holders(parts)
         /\ \A i \in Holders(parts) : /\ AsFunction(parts)[i] = Part(parts, i)
                                      /\ AsFunction(parts)[i] \in Int
         /\ Total(parts) = SumFunctionOnSet(AsFunction(parts), Holders(parts))
         /\ Total(parts) \in Int
<1> DEFINE H == Holders(parts)
<1>1. IsFiniteSet(H) /\ H \subseteq H
  BY DEF IsTally
<1>2. /\ Total(parts) \in Int /\ \A i \in H : Part(parts, i) \in Int
      /\ Total(parts) = SumFunctionOnSet([i \in H |-> Part(parts, i)], H)
  BY <1>1, TallyTotal
<1> QED
  BY <1>2 DEF AsFunction

\* The mean of each direction is divided among its bookings.
AmountsOf(side, n) ==
    BalancedCents(AsFunction({<<v.id, v.cents>> : v \in side}), n, Quotient(Amount(side), n))

\* The means of one side add up to the mean of the side.
LEMMA MeanOfSide ==
  ASSUME NEW side, Sound(side), members \subseteq Persons, \A v \in side : v.id \in Int,
         NEW n \in Nat \ {0}
  PROVE  LET parts == AmountsOf(side, n)
         IN  /\ IsTally(parts) /\ Holders(parts) = {v.id : v \in side}
             /\ Total(parts) = Quotient(Amount(side), n)
             /\ \A v \in side : Part(parts, v.id) \in Int /\ Near(Part(parts, v.id), v.cents, n)
             /\ SumFunctionOnSet([v \in side |-> Part(parts, v.id)], side) = Total(parts)
<1> DEFINE ids == {v.id : v \in side}
           idOf == [v \in side |-> v.id]
           cents == CentsOf(side)
           pairs == {<<v.id, v.cents>> : v \in side}
           given == [id \in ids |-> (CHOOSE v \in side : v.id = id).cents]
           raw == AsFunction(pairs)
           total == Quotient(Amount(side), n)
           parts == AmountsOf(side, n)
<1>1. IsFiniteSet(side) /\ Values(side) /\ \A v, w \in side : v.id = w.id => v = w
  BY DEF Sound, Values
<1>2. ids = ImageOf(idOf, side) /\ \A v \in side : idOf[v] = v.id
  BY DEF ImageOf
<1>3. \A v, w \in side : idOf[v] = idOf[w] => v = w
  BY <1>1
<1>4. \A v \in side : given[v.id] = v.cents
  BY <1>1
<1>5. \A v \in side : v.cents \in Int
  BY <1>1, ValueTyped DEF Values
<1>6. ids \subseteq Int /\ \A id \in ids : given[id] \in Int
  BY <1>4, <1>5
<1>7. pairs = Graph(given, ids)
  <2> HIDE DEF given
  <2>1. \A id \in ids : \E v \in side : id = v.id /\ given[id] = v.cents
    BY <1>4
  <2>2. \A v \in side : v.id \in ids /\ given[v.id] = v.cents
    BY <1>4
  <2>3. ASSUME NEW v \in side
        PROVE  <<v.id, v.cents>> \in Graph(given, ids)
    BY <2>2 DEF Graph
  <2>4. ASSUME NEW id \in ids
        PROVE  <<id, given[id]>> \in pairs
    BY <2>1
  <2> HIDE DEF ids
  <2> QED
    BY <2>3, <2>4 DEF Graph
<1>24. \A id \in ids : given[id] \in Int
  BY <1>6
<1>8. \A v \in side : cents[v] = v.cents
  BY DEF CentsOf
<1>9. Amount(side) \in Int /\ Amount(side) = SumFunctionOnSet(cents, side)
  BY <1>1, SumsWithin
<1>10. parts = BalancedCents(raw, n, total) /\ raw = AsFunction(pairs)
  BY DEF AmountsOf
<1>11. total \in Int /\ Near(total, Amount(side), n)
  BY <1>9, QuotientNear
<1>21. \A id \in ids : \E v \in side : id = v.id
  OBVIOUS
<1>22. \A v \in side : v.id \in ids
  OBVIOUS
<1> HIDE DEF idOf, cents, given, raw, total, parts, pairs, ids
<1>12. IsFiniteSet(ids)
  BY <1>1, <1>2, <1>3, NamesAreFinite
<1>13. /\ IsTally(pairs) /\ Holders(pairs) = ids
       /\ \A id \in ids : Part(pairs, id) = given[id]
       /\ Total(pairs) = SumFunctionOnSet(given, ids)
  BY <1>7, <1>12, <1>24, TallyOf
<1>14. /\ DOMAIN raw = ids /\ \A id \in ids : raw[id] = given[id] /\ raw[id] \in Int
       /\ Total(pairs) = SumFunctionOnSet(raw, ids)
  BY <1>10, <1>13, FunctionOfTally
<1>15. \A v \in side : given[idOf[v]] = cents[v] /\ cents[v] \in Int
  BY <1>2, <1>4, <1>5, <1>8
<1>16. SumFunctionOnSet(cents, side) = SumFunctionOnSet(given, ImageOf(idOf, side))
  BY <1>1, <1>3, <1>15, SumRenamed
<1>17. SumFunctionOnSet(raw, ids) = Amount(side)
  BY <1>2, <1>9, <1>13, <1>14, <1>16
<1>18. Near(total, SumFunctionOnSet(raw, DOMAIN raw), n)
  BY <1>11, <1>14, <1>17
<1>19. /\ IsTally(parts) /\ Holders(parts) = ids /\ Total(parts) = total
       /\ \A id \in ids : Part(parts, id) \in Int /\ Near(Part(parts, id), raw[id], n)
  BY <1>6, <1>10, <1>11, <1>12, <1>14, <1>18, BalancedCentsAddUp
<1>20. \A v \in side : Part(parts, v.id) \in Int /\ Near(Part(parts, v.id), v.cents, n)
  BY <1>4, <1>14, <1>19, <1>22
<1>23. SumFunctionOnSet([v \in side |-> Part(parts, v.id)], side) = Total(parts)
  <2> DEFINE f == [v \in side |-> Part(parts, v.id)]
             g == AsFunction(parts)
  <2>1. \A v \in side : g[idOf[v]] = f[v] /\ f[v] \in Int
    BY <1>2, <1>19, <1>22, FunctionOfTally
  <2>2. Total(parts) = SumFunctionOnSet(g, ids)
    BY <1>19, FunctionOfTally
  <2> HIDE DEF f, g
  <2>3. SumFunctionOnSet(f, side) = SumFunctionOnSet(g, ImageOf(idOf, side))
    BY <1>1, <1>3, <2>1, SumRenamed
  <2> QED
    BY <1>2, <2>2, <2>3 DEF f
<1> QED
  BY <1>19, <1>20, <1>23 DEF parts, ids, total

\* The mean of one value.
AverageValue(amounts, n, v) ==
    LET cents == Part(amounts, v.id)
        target == IF v.complete THEN cents ELSE Quotient(Total(v.shares), n)
    IN  Valued(v.id, v.booking, 0, cents, BalancedCents(AsFunction(v.shares), n, target), v.complete)

\* Averages in these words.
LEMMA AveragesOpened ==
  ASSUME NEW totals, NEW n \in Nat \ {0}
  PROVE  /\ Averages(totals, n) = {AverageValue(MeanAmounts(totals, n), n, v) : v \in totals}
         /\ MeanAmounts(totals, n) = AmountsOf(Side(totals, "income"), n) \cup AmountsOf(Side(totals, "expense"), n)
<1>1. n # 0
  OBVIOUS
<1> QED
  BY <1>1 DEF Averages, AverageValue, MeanAmounts, AmountsOf

\* The amount of a booking in a typical month is divided like its sum.
LEMMA AverageIsSound ==
  ASSUME NEW v, IsValue(v), members \subseteq Persons, NEW n \in Nat \ {0},
         NEW amounts, Part(amounts, v.id) \in Int, Near(Part(amounts, v.id), v.cents, n)
  PROVE  LET w == AverageValue(amounts, n, v)
         IN  /\ IsValue(w) /\ w.id = v.id /\ w.cents = Part(amounts, v.id)
             /\ w.booking = v.booking
<1> DEFINE cents == Part(amounts, v.id)
           raw == AsFunction(v.shares)
           I == Holders(v.shares)
           target == IF v.complete THEN cents ELSE Quotient(Total(v.shares), n)
           shares == BalancedCents(raw, n, target)
           w == AverageValue(amounts, n, v)
           complete == v.complete
<1>1. /\ w.id = v.id /\ w.booking = v.booking /\ w.cents = cents /\ w.shares = shares
      /\ w.unassigned = cents - Total(shares) /\ w.complete = complete
  BY DEF AverageValue, Valued
<1>2. /\ IsTally(v.shares) /\ I \subseteq members /\ v.booking.direction \in Directions
      /\ complete => v.unassigned = 0
  BY DEF IsValue
<1>3. I \subseteq Int /\ IsFiniteSet(I)
  BY <1>2, PersonsAre DEF IsTally
<1>4. /\ DOMAIN raw = I /\ \A i \in I : raw[i] \in Int
      /\ Total(v.shares) = SumFunctionOnSet(raw, I)
  BY <1>2, FunctionOfTally
<1>5. complete => Total(v.shares) = v.cents
  <2> DEFINE c == v.cents
             u == v.unassigned
             s == Total(v.shares)
  <2>1. c \in Int /\ s \in Int /\ c = s + u /\ (complete => u = 0)
    BY <1>2, ValueTyped
  <2>2. complete => s = c
    <3> HIDE DEF c, u, s, complete
    <3> QED
      BY <2>1
  <2> QED
    BY <2>2
<1>6. cents \in Int
  OBVIOUS
<1>7. complete => target = cents /\ Near(target, SumFunctionOnSet(raw, DOMAIN raw), n)
  BY <1>4, <1>5
<1> HIDE DEF raw, I, target, shares, complete, cents
<1>8. IsTally(shares) /\ Holders(shares) = I
  BY <1>3, <1>4, BalancedCentsTally DEF shares
<1>9. complete => Total(shares) = cents
  <2> SUFFICES ASSUME complete
               PROVE  Total(shares) = cents
    OBVIOUS
  <2>1. target \in Int /\ Near(target, SumFunctionOnSet(raw, DOMAIN raw), n) /\ DOMAIN raw = I
    BY <1>4, <1>6, <1>7
  <2>2. Total(shares) = target
    BY <1>3, <1>4, <2>1, BalancedCentsAddUp DEF shares
  <2> QED
    BY <1>7, <2>2
<1>10. complete => cents - Total(shares) = 0
  BY <1>6, <1>9
<1> HIDE DEF w
<1>11. IsValue(w)
  BY <1>1, <1>2, <1>6, <1>8, <1>10 DEF IsValue
<1> QED
  BY <1>1, <1>11 DEF w, cents

\* One side of sound values is sound.
LEMMA SideIsSound ==
  ASSUME NEW values, Sound(values), NEW d
  PROVE  Sound(Side(values, d)) /\ Side(values, d) \in SUBSET values
<1>1. Side(values, d) \in SUBSET values
  BY DEF Side
<1>2. IsFiniteSet(Side(values, d))
  BY <1>1, FS_Subset DEF Sound
<1> QED
  BY <1>1, <1>2 DEF Sound

\* The means are sound values, and each side of them is the mean of the side.
LEMMA AveragesAreSound ==
  ASSUME NEW totals, Sound(totals), members \subseteq Persons, \A v \in totals : v.id \in Int,
         NEW n \in Nat \ {0}
  PROVE  /\ Sound(Averages(totals, n))
         /\ \A d \in Directions : Amount(Side(Averages(totals, n), d)) = Quotient(Amount(Side(totals, d)), n)
<1> DEFINE amounts == MeanAmounts(totals, n)
           part == [d \in Directions |-> AmountsOf(Side(totals, d), n)]
           name == [v \in totals |-> AverageValue(amounts, n, v)]
           typical == Averages(totals, n)
<1>1. typical = ImageOf(name, totals) /\ amounts = part["income"] \cup part["expense"]
  BY AveragesOpened DEF ImageOf, Directions
<1>2. \A d \in Directions :
          /\ Sound(Side(totals, d))
          /\ \A v \in Side(totals, d) : v.id \in Int
  BY SideIsSound DEF Side
<1>3. \A d \in Directions :
          /\ IsTally(part[d]) /\ Holders(part[d]) = {v.id : v \in Side(totals, d)}
          /\ Total(part[d]) = Quotient(Amount(Side(totals, d)), n)
          /\ \A v \in Side(totals, d) : Part(part[d], v.id) \in Int /\ Near(Part(part[d], v.id), v.cents, n)
          /\ SumFunctionOnSet([v \in Side(totals, d) |-> Part(part[d], v.id)], Side(totals, d)) = Total(part[d])
  BY <1>2, MeanOfSide
<1>4. \A v \in totals : /\ IsValue(v) /\ v.booking.direction \in Directions
                        /\ v \in Side(totals, v.booking.direction)
  BY DEF Sound, IsValue, Side
<1>5. \A v, w \in totals : v.id = w.id => v = w
  BY DEF Sound
<1>6. IsFiniteSet(totals)
  BY DEF Sound
<1>7. \A v \in totals : name[v] = AverageValue(amounts, n, v)
  OBVIOUS
<1> HIDE DEF amounts, part, name, typical
<1>8. Holders(part["income"]) \cap Holders(part["expense"]) = {}
  <2>1. \A v \in Side(totals, "income") : \A w \in Side(totals, "expense") : v.id # w.id
    BY <1>5 DEF Side
  <2> QED
    BY <1>3, <2>1 DEF Directions
<1>9. ASSUME NEW d \in Directions, NEW v \in Side(totals, d)
      PROVE  Part(amounts, v.id) = Part(part[d], v.id)
  <2>1. v.id \in Holders(part[d])
    BY <1>3
  <2>2. IsTally(part["income"]) /\ IsTally(part["expense"])
    BY <1>3 DEF Directions
  <2>3. CASE d = "income"
    BY <1>1, <1>8, <2>1, <2>2, <2>3, PartOfUnion
  <2>4. CASE d = "expense"
    BY <1>1, <1>8, <2>1, <2>2, <2>4, PartOfUnion
  <2> QED
    BY <2>3, <2>4 DEF Directions
<1>10. ASSUME NEW v \in totals
       PROVE  /\ IsValue(name[v]) /\ name[v].id = v.id /\ name[v].booking = v.booking
              /\ name[v].cents = Part(amounts, v.id) /\ Part(amounts, v.id) \in Int
  <2>1. Part(amounts, v.id) \in Int /\ Near(Part(amounts, v.id), v.cents, n)
    BY <1>3, <1>4, <1>9
  <2> QED
    BY <1>4, <1>7, <2>1, AverageIsSound
<1>11. IsFiniteSet(typical)
  BY <1>1, <1>6, NamesAreFinite
<1>12. Sound(typical)
  BY <1>1, <1>5, <1>10, <1>11 DEF Sound, ImageOf
<1>13. ASSUME NEW d \in Directions
       PROVE  Amount(Side(typical, d)) = Quotient(Amount(Side(totals, d)), n)
  <2> DEFINE V == Side(totals, d)
             f == [v \in V |-> Part(part[d], v.id)]
             g == CentsOf(typical)
  <2>1. IsFiniteSet(V) /\ V \in SUBSET totals
    BY <1>2, SideIsSound DEF Sound
  <2>2. Side(typical, d) = ImageOf(name, V)
    BY <1>1, <1>10 DEF Side, ImageOf
  <2>3. \A v \in V : f[v] \in Int /\ name[v].cents = f[v] /\ name[v] \in typical
    BY <1>1, <1>3, <1>9, <1>10, <2>1 DEF ImageOf
  <2>4. \A v \in V : g[name[v]] = f[v]
    BY <2>3 DEF CentsOf
  <2>5. \A v, w \in V : name[v] = name[w] => v = w
    BY <1>5, <1>10, <2>1
  <2>6. Amount(Side(typical, d)) = SumFunctionOnSet(g, Side(typical, d))
    <3>1. Values(typical) /\ Side(typical, d) \in SUBSET typical
      BY <1>12, SideIsSound DEF Sound, Values
    <3> QED
      BY <3>1, SumsWithin
  <2>7. SumFunctionOnSet(f, V) = Quotient(Amount(V), n)
    BY <1>3
  <2> HIDE DEF f, g, V
  <2>8. SumFunctionOnSet(f, V) = SumFunctionOnSet(g, ImageOf(name, V))
    BY <2>1, <2>3, <2>4, <2>5, SumRenamed
  <2> QED
    BY <2>2, <2>6, <2>7, <2>8 DEF V
<1> QED
  BY <1>12, <1>13 DEF typical

\* The typical month of the year is the mean of its months.
LEMMA TypicalIsSound ==
  ASSUME BookInv, NEW basis
  PROVE  LET typical == Typical(Prepare(basis), Months)
         IN  /\ Sound(typical)
             /\ \A d \in Directions : Amount(Side(typical, d)) = MeanOf(Amount(Side(Prepare(basis), d)), Months)
<1> DEFINE values == Prepare(basis)
           totals == Totals(values)
           n == Cardinality(Months)
<1>1. members \subseteq Persons
  BY DEF BookInv
<1>2. n \in Nat \ {0}
  <2>1. LastMonth \in Nat \ {0}
    BY IdsAreApart
  <2>2. 1 \in Int /\ LastMonth \in Int
    BY <2>1
  <2>3. Cardinality(1..LastMonth) = IF 1 > LastMonth THEN 0 ELSE LastMonth - 1 + 1
    BY <2>2, FS_Interval
  <2>4. (IF 1 > LastMonth THEN 0 ELSE LastMonth - 1 + 1) = LastMonth
    BY <2>1
  <2> QED
    BY <2>1, <2>3, <2>4 DEF Months
<1>3. Prepared(values) /\ \A v \in values : v.month \in Months /\ v.id \in Int
  BY PreparedYear
<1>4. Within(values, Months) = values
  BY <1>3 DEF Within
<1>5. Typical(values, Months) = Averages(totals, n)
  BY <1>4 DEF Typical
<1> HIDE DEF values, n
<1>6. /\ Sound(totals) /\ \A v \in totals : v.id \in Int
      /\ \A d \in Directions : Amount(Side(totals, d)) = Amount(Side(values, d))
  BY <1>1, <1>3, TotalsAreSound
<1> HIDE DEF totals
<1>7. /\ Sound(Averages(totals, n))
      /\ \A d \in Directions : Amount(Side(Averages(totals, n), d)) = Quotient(Amount(Side(totals, d)), n)
  BY <1>1, <1>2, <1>6, AveragesAreSound
<1>8. \A d \in Directions : MeanOf(Amount(Side(values, d)), Months) = Quotient(Amount(Side(values, d)), n)
  BY DEF MeanOf, n
<1> QED
  BY <1>5, <1>6, <1>7, <1>8 DEF values

\* What the reports are made of is sound.
LEMMA ReportedIsSound ==
  ASSUME BookInv, NEW values \in Reported
  PROVE  Sound(values)
<1>1. members \subseteq Persons
  BY DEF BookInv
<1>2. CASE \E basis \in Bases : \E m \in Months : values = MonthValues(basis, m)
  BY <1>2, MonthIsSound
<1>3. CASE \E basis \in Bases : values = Typical(Prepare(basis), Months)
  BY <1>3, TypicalIsSound
<1>4. CASE \E basis \in Bases : values = Totals(Within(Prepare(basis), Elapsed))
  <2>1. PICK basis \in Bases : values = Totals(Within(Prepare(basis), Elapsed))
    BY <1>4
  <2>2. Within(Prepare(basis), Elapsed) \in SUBSET Prepare(basis)
    BY DEF Within
  <2>3. Prepared(Within(Prepare(basis), Elapsed))
    BY <2>2, PreparedYear
  <2> QED
    BY <1>1, <2>1, <2>3, TotalsAreSound
<1> QED
  BY <1>2, <1>3, <1>4 DEF Reported

-----------------------------------------------------------------------------
(***************************************************************************)
(* Reports of sound values.                                                *)
(***************************************************************************)
\* Of sound values, some are sound.
LEMMA SoundValues ==
  ASSUME NEW values, Sound(values)
  PROVE  /\ Values(values)
         /\ \A some \in SUBSET values : Sound(some) /\ Values(some)
<1>1. \A some \in SUBSET values : IsFiniteSet(some)
  BY FS_Subset DEF Sound
<1> QED
  BY <1>1 DEF Sound, Values

\* What a member does not carry can be left out.
LEMMA SharesOfCarriers ==
  ASSUME NEW values, Values(values), members \subseteq Persons, NEW i, NEW some \in SUBSET values,
         \A v \in values \ some : Part(v.shares, i) = 0
  PROVE  SharesOf(values, i) = SharesOf(some, i)
<1> DEFINE f == ShareOf(values, i)
<1>1. \A v \in values \ some : f[v] = 0
  BY DEF ShareOf
<1>2. \A v \in values : f[v] \in Int
  BY ValueTyped DEF ShareOf, Values
<1>3. \A v \in some : f[v] \in Int
  BY <1>2
<1>4. /\ SharesOf(values, i) = SumFunctionOnSet(f, values) /\ IsFiniteSet(values)
      /\ SharesOf(some, i) = SumFunctionOnSet(f, some)
  BY SumsWithin
<1> HIDE DEF f
<1> QED
  BY <1>1, <1>3, <1>4, SumOfRest

\* The amounts and the parts of two halves make those of the whole.
LEMMA SumsOfTwo ==
  ASSUME NEW values, Values(values), members \subseteq Persons,
         NEW R \in SUBSET values, NEW S \in SUBSET values, R \cap S = {}, R \cup S = values
  PROVE  /\ Amount(values) = Amount(R) + Amount(S)
         /\ \A i : SharesOf(values, i) = SharesOf(R, i) + SharesOf(S, i)
<1>1. IsFiniteSet(R) /\ IsFiniteSet(S)
  BY SumsWithin
<1>2. Amount(values) = Amount(R) + Amount(S)
  <2> DEFINE f == CentsOf(values)
  <2>1. \A v \in R \cup S : f[v] \in Int
    BY ValueTyped DEF CentsOf, Values
  <2>2. /\ Amount(values) = SumFunctionOnSet(f, values)
        /\ Amount(R) = SumFunctionOnSet(f, R) /\ Amount(S) = SumFunctionOnSet(f, S)
    BY SumsWithin
  <2> HIDE DEF f
  <2>3. SumFunctionOnSet(f, R \cup S) = SumFunctionOnSet(f, R) + SumFunctionOnSet(f, S)
    BY <1>1, <2>1, SumOfUnion
  <2> QED
    BY <2>2, <2>3
<1>3. ASSUME NEW i
      PROVE  SharesOf(values, i) = SharesOf(R, i) + SharesOf(S, i)
  <2> DEFINE f == ShareOf(values, i)
  <2>1. \A v \in R \cup S : f[v] \in Int
    BY ValueTyped DEF ShareOf, Values
  <2>2. /\ SharesOf(values, i) = SumFunctionOnSet(f, values)
        /\ SharesOf(R, i) = SumFunctionOnSet(f, R) /\ SharesOf(S, i) = SumFunctionOnSet(f, S)
    BY SumsWithin
  <2> HIDE DEF f
  <2>3. SumFunctionOnSet(f, R \cup S) = SumFunctionOnSet(f, R) + SumFunctionOnSet(f, S)
    BY <1>1, <2>1, SumOfUnion
  <2> QED
    BY <2>2, <2>3
<1> QED
  BY <1>2, <1>3

\* The values with the same entry in a field.
GroupOf(values, field, k) == {v \in values : v.booking[field] = k}

\* A breakdown adds up, and has for a member what it carries of a group.
LEMMA BreakdownAddsUp ==
  ASSUME NEW values, Values(values), members \subseteq Persons, NEW field
  PROVE  /\ Total(SumsBy(values, Everyone, field)) = Amount(values)
         /\ \A i \in members : \A k :
                Part(SumsBy(values, i, field), k) = SharesOf(GroupOf(values, field, k), i)
<1> DEFINE K == {v.booking[field] : v \in values}
           key == [v \in values |-> v.booking[field]]
           Group(k) == {v \in values : v.booking[field] = k}
           cents == CentsOf(values)
<1>1. IsFiniteSet(K)
  <2>1. K = ImageOf(key, values)
    BY DEF ImageOf
  <2> HIDE DEF key, K
  <2> QED
    BY <2>1, NamesAreFinite DEF Values
<1>2. \A k : Group(k) \in SUBSET values
  OBVIOUS
<1>3. Total(SumsBy(values, Everyone, field)) = Amount(values)
  <2> DEFINE sums == [k \in K |-> Amount(Group(k))]
             pairs == SumsBy(values, Everyone, field)
  <2>1. \A k \in K : /\ sums[k] = InScope(Group(k), Everyone) /\ sums[k] \in Int
                     /\ sums[k] = SumFunctionOnSet(cents, Group(k))
    BY <1>2, SumsWithin
  <2>2. pairs = Graph(sums, K)
    <3>1. pairs = {<<k, InScope(Group(k), Everyone)>> : k \in K}
      BY DEF SumsBy
    <3> HIDE DEF sums, K
    <3> QED
      BY <2>1, <3>1 DEF Graph
  <2>3. \A v \in values : key[v] \in K
    OBVIOUS
  <2>4. \A k \in K : {v \in values : key[v] = k} = Group(k)
    OBVIOUS
  <2>5. Grouped(cents, values, K, key, sums)
    BY <2>1, <2>3, <2>4 DEF Grouped
  <2>6. \A v \in values : cents[v] \in Int
    BY ValueTyped DEF CentsOf, Values
  <2>7. \A k \in K : sums[k] \in Int
    BY <2>1
  <2>8. Amount(values) = SumFunctionOnSet(cents, values) /\ IsFiniteSet(values)
    BY SumsWithin
  <2> HIDE DEF sums, pairs, cents, K, key
  <2>9. Total(pairs) = SumFunctionOnSet(sums, K)
    BY <1>1, <2>2, <2>7, TallyOf
  <2>10. SumFunctionOnSet(cents, values) = SumFunctionOnSet(sums, K)
    BY <1>1, <2>5, <2>6, <2>8, SumByGroups
  <2> QED
    BY <2>8, <2>9, <2>10 DEF pairs
<1>4. ASSUME NEW i \in members, NEW k
      PROVE  Part(SumsBy(values, i, field), k) = SharesOf(Group(k), i)
  <2> DEFINE sums == [j \in K |-> SharesOf(Group(j), i)]
             pairs == SumsBy(values, i, field)
  <2>1. \A j \in K : sums[j] = InScope(Group(j), i) /\ sums[j] \in Int
    BY <1>2, SumsWithin
  <2>2. pairs = Graph(sums, K)
    <3>1. pairs = {<<j, InScope(Group(j), i)>> : j \in K}
      BY DEF SumsBy
    <3> HIDE DEF sums, K
    <3> QED
      BY <2>1, <3>1 DEF Graph
  <2>3. \A j \in K : sums[j] \in Int
    BY <2>1
  <2>4. k \in K => sums[k] = SharesOf(Group(k), i)
    OBVIOUS
  <2>5. k \notin K => SharesOf(Group(k), i) = 0
    <3> SUFFICES ASSUME k \notin K
                 PROVE  SharesOf(Group(k), i) = 0
      OBVIOUS
    <3>1. \A v \in Group(k) : i \notin Holders(v.shares)
      OBVIOUS
    <3>2. Values(Group(k))
      BY <1>2, SumsWithin
    <3> HIDE DEF Group
    <3> QED
      BY <3>1, <3>2, NoShare
  <2> HIDE DEF sums, pairs, K, Group
  <2>6. Holders(pairs) = K /\ \A j \in K : Part(pairs, j) = sums[j]
    BY <1>1, <2>2, <2>3, TallyOf
  <2>7. k \notin K => Part(pairs, k) = 0
    BY <2>6 DEF Part
  <2> QED
    BY <2>4, <2>5, <2>6, <2>7 DEF pairs
<1> QED
  BY <1>3, <1>4 DEF GroupOf

\* What the report of the household says, as sums over its values.
LEMMA ReportOfEveryone ==
  ASSUME NEW values, Sound(values), members \subseteq Persons
  PROVE  LET all == BuildReport(values, Everyone)
             costs == Side(values, "expense")
         IN  /\ all.income = Amount(Side(values, "income"))
             /\ all.expense = Amount(costs)
             /\ all.unassigned = Unassigned(costs)
             /\ all.natures = SumsBy(costs, Everyone, "nature")
             /\ all.classes = SumsBy(costs, Everyone, "class")
<1>1. {v \in values : Carries(v, Everyone)} = values
  BY DEF Carries
<1>2. Values(values) /\ \A d : Side(values, d) \in SUBSET values
  BY SoundValues, SideIsSound
<1>3. \A d : InScope(Side(values, d), Everyone) = Amount(Side(values, d))
  BY <1>2, SumsWithin
<1> QED
  BY <1>1, <1>3 DEF BuildReport

\* What the report of a member says, as sums of that one's parts.
LEMMA ReportOfMember ==
  ASSUME NEW values, Sound(values), members \subseteq Persons, NEW i \in members
  PROVE  LET mine == BuildReport(values, i)
             costs == Side(values, "expense")
         IN  /\ mine.income = SharesOf(Side(values, "income"), i)
             /\ mine.expense = SharesOf(costs, i)
             /\ At(mine.natures, "fix") = SharesOf({v \in costs : v.booking.nature = "fix"}, i)
<1> DEFINE some == {v \in values : Carries(v, i)}
           Fixed(set) == {v \in set : v.booking["nature"] = "fix"}
<1>1. some \in SUBSET values /\ \A v \in values \ some : Part(v.shares, i) = 0
  BY DEF Carries, Part
<1>2. \A d : Side(values, d) \in SUBSET values /\ Side(some, d) \in SUBSET Side(values, d)
  BY DEF Side
<1>3. \A d : Values(Side(values, d)) /\ Values(Side(some, d))
  BY <1>2, SoundValues
<1>4. ASSUME NEW d
      PROVE  InScope(Side(some, d), i) = SharesOf(Side(values, d), i)
  <2>1. \A v \in Side(values, d) \ Side(some, d) : Part(v.shares, i) = 0
    BY <1>1 DEF Side
  <2>2. SharesOf(Side(values, d), i) = SharesOf(Side(some, d), i)
    BY <1>2, <1>3, <2>1, SharesOfCarriers
  <2>3. InScope(Side(some, d), i) = SharesOf(Side(some, d), i)
    BY <1>3, SumsWithin
  <2> QED
    BY <2>2, <2>3
<1>5. Part(SumsBy(Side(some, "expense"), i, "nature"), "fix") = SharesOf(Fixed(Side(values, "expense")), i)
  <2>1. Part(SumsBy(Side(some, "expense"), i, "nature"), "fix") = SharesOf(Fixed(Side(some, "expense")), i)
    <3> DEFINE T == Side(some, "expense")
    <3>1. Values(T)
      BY <1>3
    <3> HIDE DEF T
    <3>2. Part(SumsBy(T, i, "nature"), "fix") = SharesOf(GroupOf(T, "nature", "fix"), i)
      BY <3>1, BreakdownAddsUp
    <3>3. GroupOf(T, "nature", "fix") = Fixed(T)
      BY DEF GroupOf
    <3> QED
      BY <3>2, <3>3 DEF T
  <2>2. /\ Fixed(Side(some, "expense")) \in SUBSET Fixed(Side(values, "expense"))
        /\ \A v \in Fixed(Side(values, "expense")) \ Fixed(Side(some, "expense")) : Part(v.shares, i) = 0
    BY <1>1 DEF Side
  <2>3. Values(Fixed(Side(values, "expense")))
    <3>1. Fixed(Side(values, "expense")) \in SUBSET values
      BY DEF Side
    <3> QED
      BY <3>1, SoundValues
  <2> HIDE DEF Fixed, some
  <2>4. SharesOf(Fixed(Side(values, "expense")), i) = SharesOf(Fixed(Side(some, "expense")), i)
    BY <2>2, <2>3, SharesOfCarriers
  <2> QED
    BY <2>1, <2>4
<1> DEFINE mine == BuildReport(values, i)
<1>6. /\ mine.income = InScope(Side(some, "income"), i)
      /\ mine.expense = InScope(Side(some, "expense"), i)
      /\ mine.natures = SumsBy(Side(some, "expense"), i, "nature")
  BY DEF BuildReport
<1> HIDE DEF mine, some
<1> QED
  BY <1>4, <1>5, <1>6 DEF mine, At

\* No cent is lost or made in the reports of sound values.
LEMMA WholeIsItsParts ==
  ASSUME NEW values, Sound(values), members \subseteq Persons
  PROVE  PartsMakeTheWhole(values)
<1> DEFINE all == BuildReport(values, Everyone)
           each == [i \in members |-> BuildReport(values, i)]
           costs == Costs(values)
           E == Side(values, "expense")
           I == Side(values, "income")
<1>1. /\ all.income = Amount(I) /\ all.expense = Amount(E) /\ all.unassigned = Unassigned(E)
      /\ all.natures = SumsBy(E, Everyone, "nature") /\ all.classes = SumsBy(E, Everyone, "class")
  BY ReportOfEveryone
<1>2. \A i \in members :
          /\ each[i].income = SharesOf(I, i) /\ each[i].expense = SharesOf(E, i)
          /\ At(each[i].natures, "fix") = SharesOf({v \in E : v.booking.nature = "fix"}, i)
  BY ReportOfMember
<1>3. /\ Sound(E) /\ Sound(I) /\ Values(E) /\ Values(I)
      /\ \A some \in SUBSET E : Values(some) /\ \A i \in members : InScope(some, i) = SharesOf(some, i)
  <2>1. Sound(E) /\ Sound(I)
    BY SideIsSound
  <2> HIDE DEF E, I
  <2> QED
    BY <2>1, SoundValues, SumsWithin
<1>4. costs.lines = {v \in E : v.shares # {} /\ ValidShares(v)} /\ costs.invalid = E \ costs.lines
  BY DEF Costs
<1>5. PartsMakeTheWhole(values) <=>
          /\ all.expense = SumFunction([i \in members |-> each[i].expense]) + all.unassigned
          /\ all.income = SumFunction([i \in members |-> each[i].income]) + Unassigned(I)
          /\ \A v \in values : v.complete => v.unassigned = 0
          /\ all.expense = Amount(costs.lines) + Amount(costs.invalid)
          /\ Total(all.natures) = all.expense /\ Total(all.classes) = all.expense
          /\ costs.invalid = {} => \A i \in members :
                 LET carried == CarriedBy(costs.lines, i)
                 IN  /\ carried.shared + carried.sole = each[i].expense
                     /\ carried.fixed = At(each[i].natures, "fix")
                     /\ InScope(LinesFor(costs.lines, i), i) = each[i].expense
  BY DEF PartsMakeTheWhole
<1> HIDE DEF all, each, costs, E, I
<1>6. all.expense = SumFunction([i \in members |-> each[i].expense]) + all.unassigned
  <2>1. [i \in members |-> each[i].expense] = [i \in members |-> SharesOf(E, i)]
    BY <1>2
  <2>2. SumFunction([i \in members |-> SharesOf(E, i)])
            = SumFunctionOnSet([i \in members |-> SharesOf(E, i)], members)
    BY DEF SumFunction
  <2> QED
    BY <1>1, <1>3, <2>1, <2>2, SharesAddUp
<1>7. all.income = SumFunction([i \in members |-> each[i].income]) + Unassigned(I)
  <2>1. [i \in members |-> each[i].income] = [i \in members |-> SharesOf(I, i)]
    BY <1>2
  <2>2. SumFunction([i \in members |-> SharesOf(I, i)])
            = SumFunctionOnSet([i \in members |-> SharesOf(I, i)], members)
    BY DEF SumFunction
  <2> QED
    BY <1>1, <1>3, <2>1, <2>2, SharesAddUp
<1>8. \A v \in values : v.complete => v.unassigned = 0
  BY DEF Sound, IsValue
<1>9. all.expense = Amount(costs.lines) + Amount(costs.invalid)
  <2> DEFINE R == costs.lines
             S == costs.invalid
  <2>1. R \in SUBSET E /\ S \in SUBSET E /\ R \cap S = {} /\ R \cup S = E
    BY <1>4
  <2> HIDE DEF R, S
  <2>2. Amount(E) = Amount(R) + Amount(S)
    BY <1>3, <2>1, SumsOfTwo
  <2> QED
    BY <1>1, <2>2 DEF R, S
<1>10. Total(all.natures) = all.expense /\ Total(all.classes) = all.expense
  BY <1>1, <1>3, BreakdownAddsUp
<1>11. ASSUME costs.invalid = {}, NEW i \in members
       PROVE  LET carried == CarriedBy(costs.lines, i)
              IN  /\ carried.shared + carried.sole = each[i].expense
                  /\ carried.fixed = At(each[i].natures, "fix")
                  /\ InScope(LinesFor(costs.lines, i), i) = each[i].expense
  <2> DEFINE R == {v \in E : Shared(v)}
             S == {v \in E : ~Shared(v)}
             F == {v \in E : v.booking.nature = "fix"}
             L == LinesFor(E, i)
  <2>1. costs.lines = E
    BY <1>4, <1>11
  <2>2. /\ CarriedBy(E, i).shared = InScope(R, i) /\ CarriedBy(E, i).sole = InScope(S, i)
        /\ CarriedBy(E, i).fixed = InScope(F, i)
    BY DEF CarriedBy
  <2>3. /\ R \in SUBSET E /\ S \in SUBSET E /\ F \in SUBSET E /\ L \in SUBSET E
        /\ R \cap S = {} /\ R \cup S = E
    BY DEF LinesFor
  <2>4. /\ InScope(R, i) = SharesOf(R, i) /\ InScope(S, i) = SharesOf(S, i)
        /\ InScope(F, i) = SharesOf(F, i) /\ InScope(L, i) = SharesOf(L, i)
    BY <1>3, <2>3
  <2>5. \A v \in E \ L : Part(v.shares, i) = 0
    <3>1. i # Everyone
      BY PersonsAre
    <3> QED
      BY <3>1 DEF LinesFor, Carries, Scoped, Part
  <2>6. SharesOf(F, i) = At(each[i].natures, "fix")
    BY <1>2
  <2> HIDE DEF R, S, F, L
  <2>7. SharesOf(E, i) = SharesOf(R, i) + SharesOf(S, i)
    BY <1>3, <2>3, SumsOfTwo
  <2>8. SharesOf(E, i) = SharesOf(L, i)
    BY <1>3, <2>3, <2>5, SharesOfCarriers
  <2> QED
    BY <1>2, <2>1, <2>2, <2>4, <2>6, <2>7, <2>8 DEF L
<1> QED
  BY <1>5, <1>6, <1>7, <1>8, <1>9, <1>10, <1>11

\* The typical month of the year has the mean income and expense of its months.
LEMMA TypicalMonthIsMean ==
  ASSUME BookInv, NEW basis
  PROVE  LET values == Prepare(basis)
             typical == PeriodReport(values, basis, Months, Everyone)
         IN  /\ typical.income = MeanOf(Amount(Side(values, "income")), Months)
             /\ typical.expense = MeanOf(Amount(Side(values, "expense")), Months)
<1> DEFINE values == Prepare(basis)
           report == PeriodReport(values, basis, Months, Everyone)
<1>1. members \subseteq Persons
  BY DEF BookInv
<1>2. CASE Cardinality(Months) = 1
  <2>1. PICK m : Months = {m}
    <3>1. IsFiniteSet(Months)
      BY IdsAreApart, FS_Interval DEF Months
    <3> QED
      BY <1>2, <3>1, FS_Singleton
  <2>2. \A v \in values : v.month \in Months /\ v.month = m
    BY <2>1, PreparedYear
  <2>3. Of(values, m) = values
    BY <2>2 DEF Of
  <2>4. (CHOOSE x \in Months : TRUE) = m
    BY <2>1
  <2>5. report = BuildMonthReport(values, basis, m, Everyone)
    BY <1>2, <2>4 DEF PeriodReport
  <2> DEFINE all == BuildReport(values, Everyone)
  <2>6. report = [all EXCEPT !.recorded = @ \/ KnownMonth(basis, m)]
    BY <2>3, <2>5 DEF BuildMonthReport
  <2>7. report.income = all.income /\ report.expense = all.expense
    BY <2>6 DEF BuildReport
  <2>8. Sound(values)
    <3>1. Sound(MonthValues(basis, m)) 
      BY MonthIsSound
    <3>2. values = MonthValues(basis, m)
      BY <2>1 DEF Prepare
    <3> QED
      BY <3>1, <3>2
  <2>9. /\ all.income = Amount(Side(values, "income")) /\ Amount(Side(values, "income")) \in Int
        /\ all.expense = Amount(Side(values, "expense")) /\ Amount(Side(values, "expense")) \in Int
    <3>1. Values(values) /\ \A d : Side(values, d) \in SUBSET values
      BY <2>8, SoundValues, SideIsSound
    <3>2. \A d : Amount(Side(values, d)) \in Int
      BY <1>1, <3>1, SumsWithin
    <3> QED
      BY <1>1, <2>8, <3>2, ReportOfEveryone
  <2>10. \A n \in Int : MeanOf(n, Months) = n
    <3> SUFFICES ASSUME NEW n \in Int
                 PROVE  Quotient(n, 1) = n
      BY <1>2 DEF MeanOf
    <3>1. n \div 1 = n /\ (-n) \div 1 = -n
      OBVIOUS
    <3> QED
      BY <3>1 DEF Quotient
  <2> QED
    BY <2>7, <2>9, <2>10
<1>3. CASE Cardinality(Months) # 1
  <2> DEFINE typical == Typical(values, Months)
  <2>1. report = BuildReport(typical, Everyone)
    BY <1>3 DEF PeriodReport
  <2>2. /\ Sound(typical)
        /\ \A d \in Directions : Amount(Side(typical, d)) = MeanOf(Amount(Side(values, d)), Months)
    BY TypicalIsSound
  <2> HIDE DEF typical, report, values
  <2>3. /\ report.income = Amount(Side(typical, "income"))
        /\ report.expense = Amount(Side(typical, "expense"))
    BY <1>1, <2>1, <2>2, ReportOfEveryone
  <2> QED
    BY <2>2, <2>3 DEF Directions, report, values
<1> QED
  BY <1>2, <1>3

\* No cent is lost or made where amounts are divided among members.
THEOREM CentsAlwaysAddUp == Spec => []CentsAddUp
<1>1. BookInv => CentsAddUp
  <2> SUFFICES ASSUME BookInv
               PROVE  CentsAddUp
    OBVIOUS
  <2>1. members \subseteq Persons
    BY DEF BookInv
  <2>2. \A values \in Reported : PartsMakeTheWhole(values)
    BY <2>1, ReportedIsSound, WholeIsItsParts
  <2> QED
    BY <2>2, TypicalMonthIsMean DEF CentsAddUp
<1> QED
  BY <1>1, BookIsSound, PTL

-----------------------------------------------------------------------------
(***************************************************************************)
(* The settlement.                                                         *)
(***************************************************************************)
\* What a member paid, and the balance of paying and carrying.
PaidBy(lines, i) == {v \in lines : v.booking.payer = i}
NetsOf(lines) == [i \in members |-> Amount(PaidBy(lines, i)) - SharesOf(lines, i)]

\* What can be settled: a member has paid for it, and all of it is carried.
Settled(lines) == \A v \in lines : v.booking.payer \in members /\ v.complete

\* What members have to get is what others have to pay.
LEMMA NetsAreLevel ==
  ASSUME NEW lines, Sound(lines), Settled(lines), members \subseteq Persons
  PROVE  NetsOf(lines) \in [members -> Int] /\ SumFunctionOnSet(NetsOf(lines), members) = 0
<1> DEFINE f == CentsOf(lines)
           paid == [i \in members |-> Amount(PaidBy(lines, i))]
           share == [i \in members |-> SharesOf(lines, i)]
           nets == NetsOf(lines)
           payer == [v \in lines |-> v.booking.payer]
<1>1. Values(lines) /\ IsFiniteSet(lines) /\ IsFiniteSet(members)
  BY PersonsAre, SoundValues DEF Values
<1>2. \A i : PaidBy(lines, i) \in SUBSET lines
  BY DEF PaidBy
<1>3. \A i \in members : paid[i] \in Int /\ paid[i] = SumFunctionOnSet(f, PaidBy(lines, i))
  BY <1>1, <1>2, SumsWithin
<1>4. \A i \in members : share[i] \in Int
  BY <1>1, SumsWithin
<1>5. \A i \in members : nets[i] = paid[i] - share[i]
  BY DEF NetsOf
<1>6. nets \in [members -> Int]
  <2>1. \A i \in members : nets[i] \in Int
    <3> SUFFICES ASSUME NEW i \in members
                 PROVE  nets[i] \in Int
      OBVIOUS
    <3>1. nets[i] = paid[i] - share[i] /\ paid[i] \in Int /\ share[i] \in Int
      BY <1>3, <1>4, <1>5
    <3> HIDE DEF nets, paid, share
    <3> QED
      BY <3>1
  <2> QED
    BY <2>1 DEF NetsOf
<1>7. Differs(nets, paid, share, members)
  BY <1>3, <1>4, <1>5 DEF Differs
<1>8. Grouped(f, lines, members, payer, paid)
  <2>1. \A v \in lines : payer[v] \in members
    BY DEF Settled
  <2>2. \A i \in members : {v \in lines : payer[v] = i} = PaidBy(lines, i)
    BY DEF PaidBy
  <2> QED
    BY <1>3, <2>1, <2>2 DEF Grouped
<1>9. \A v \in lines : f[v] \in Int
  BY <1>1, ValueTyped DEF CentsOf, Values
<1>10. Unassigned(lines) = 0
  BY <1>1, NothingUnassigned DEF Settled
<1>11. /\ SumFunctionOnSet(share, members) \in Int
       /\ Amount(lines) = SumFunctionOnSet(share, members) + Unassigned(lines)
  BY <1>1, SharesAddUp
<1>12. Amount(lines) = SumFunctionOnSet(f, lines)
  BY <1>1, SumsWithin
<1> HIDE DEF f, paid, share, nets, payer
<1>13. SumFunctionOnSet(nets, members) = SumFunctionOnSet(paid, members) - SumFunctionOnSet(share, members)
  BY <1>1, <1>7, SumsSubtract
<1>14. SumFunctionOnSet(f, lines) = SumFunctionOnSet(paid, members)
  BY <1>1, <1>8, <1>9, SumByGroups
<1>15. SumFunctionOnSet(nets, members) = 0
  BY <1>10, <1>11, <1>12, <1>13, <1>14
<1> QED
  BY <1>6, <1>15 DEF nets

\* The lines that are listed for a member make up its position.
LEMMA LedgerAddsUp ==
  ASSUME NEW lines, Sound(lines), members \subseteq Persons, NEW i \in members
  PROVE  NetsOf(lines)[i] = SumFunction([l \in Ledger(lines, i) |-> l.net])
<1> DEFINE T == {v \in lines : (v.booking.payer = i /\ v.cents # 0) \/ Part(v.shares, i) # 0}
           name == [v \in lines |-> [id |-> v.id,
                        net |-> (IF v.booking.payer = i THEN v.cents ELSE 0) - Part(v.shares, i)]]
           paid == [v \in lines |-> IF v.booking.payer = i THEN v.cents ELSE 0]
           share == ShareOf(lines, i)
           net == [v \in lines |-> (IF v.booking.payer = i THEN v.cents ELSE 0) - Part(v.shares, i)]
           listed == [l \in Ledger(lines, i) |-> l.net]
           cents == CentsOf(lines)
<1>1. Values(lines) /\ IsFiniteSet(lines) /\ T \in SUBSET lines /\ IsFiniteSet(T)
  BY SoundValues, FS_Subset DEF Values
<1>2. Ledger(lines, i) = ImageOf(name, T)
  BY DEF Ledger, ImageOf
<1>3. \A v \in lines : /\ v.cents \in Int /\ Part(v.shares, i) \in Int
                       /\ paid[v] \in Int /\ share[v] \in Int
                       /\ net[v] = paid[v] - share[v]
  <2> SUFFICES ASSUME NEW v \in lines
               PROVE  /\ v.cents \in Int /\ Part(v.shares, i) \in Int
                      /\ paid[v] \in Int /\ share[v] \in Int
                      /\ net[v] = paid[v] - share[v]
    OBVIOUS
  <2>1. v.cents \in Int /\ Part(v.shares, i) \in Int
    BY <1>1, ValueTyped DEF Values
  <2>2. paid[v] = IF v.booking.payer = i THEN v.cents ELSE 0
    OBVIOUS
  <2>3. share[v] = Part(v.shares, i)
    BY DEF ShareOf
  <2>4. net[v] = (IF v.booking.payer = i THEN v.cents ELSE 0) - Part(v.shares, i)
    OBVIOUS
  <2> HIDE DEF paid, share, net
  <2> QED
    BY <2>1, <2>2, <2>3, <2>4
<1>4. \A v \in lines : net[v] \in Int
  <2> SUFFICES ASSUME NEW v \in lines
               PROVE  net[v] \in Int
    OBVIOUS
  <2>1. paid[v] \in Int /\ share[v] \in Int /\ net[v] = paid[v] - share[v]
    BY <1>3
  <2> HIDE DEF paid, share, net
  <2> QED
    BY <2>1
<1>5. Differs(net, paid, share, lines)
  BY <1>3 DEF Differs
<1>6. \A v \in lines \ T : net[v] = 0
  <2> SUFFICES ASSUME NEW v \in lines \ T
               PROVE  net[v] = 0
    OBVIOUS
  <2>1. Part(v.shares, i) = 0 /\ (v.booking.payer = i => v.cents = 0)
    OBVIOUS
  <2> QED
    BY <2>1
<1>7. \A v, w \in T : name[v] = name[w] => v = w
  <2>1. \A v \in lines : name[v].id = v.id
    OBVIOUS
  <2> HIDE DEF name
  <2> QED
    BY <2>1 DEF Sound
<1>8. \A v \in T : listed[name[v]] = net[v]
  <2>1. \A v \in T : name[v].net = net[v] /\ name[v] \in Ledger(lines, i)
    BY <1>2 DEF ImageOf
  <2> HIDE DEF name, net
  <2> QED
    BY <2>1
<1>9. SharesOf(lines, i) = SumFunctionOnSet(share, lines)
  BY <1>1, SumsWithin
<1>10. /\ PaidBy(lines, i) \in SUBSET lines
       /\ \A v \in PaidBy(lines, i) : paid[v] = cents[v] /\ paid[v] \in Int
       /\ \A v \in lines \ PaidBy(lines, i) : paid[v] = 0
  BY <1>3 DEF PaidBy, CentsOf
<1>11. IsFiniteSet(PaidBy(lines, i)) /\ Amount(PaidBy(lines, i)) = SumFunctionOnSet(cents, PaidBy(lines, i))
  BY <1>1, <1>10, SumsWithin
<1>12. SumFunction(listed) = SumFunctionOnSet(listed, Ledger(lines, i))
  BY DEF SumFunction
<1>13. NetsOf(lines)[i] = Amount(PaidBy(lines, i)) - SharesOf(lines, i)
  BY DEF NetsOf
<1> HIDE DEF T, name, paid, share, net, listed, cents
<1>14. SumFunctionOnSet(net, lines) = SumFunctionOnSet(paid, lines) - SumFunctionOnSet(share, lines)
  BY <1>1, <1>5, SumsSubtract
<1>15. SumFunctionOnSet(paid, lines) = SumFunctionOnSet(cents, PaidBy(lines, i))
  <2>1. SumFunctionOnSet(paid, lines) = SumFunctionOnSet(paid, PaidBy(lines, i))
    BY <1>1, <1>10, SumOfRest
  <2>2. SumFunctionOnSet(paid, PaidBy(lines, i)) = SumFunctionOnSet(cents, PaidBy(lines, i))
    BY <1>10, <1>11, SumsAgree
  <2> QED
    BY <2>1, <2>2
<1>16. \A v \in T : net[v] \in Int
  BY <1>1, <1>4
<1>17. SumFunctionOnSet(net, lines) = SumFunctionOnSet(net, T)
  BY <1>1, <1>6, <1>16, SumOfRest
<1>18. SumFunctionOnSet(net, T) = SumFunctionOnSet(listed, ImageOf(name, T))
  BY <1>1, <1>7, <1>8, <1>16, SumRenamed
<1> QED
  BY <1>2, <1>9, <1>11, <1>12, <1>13, <1>14, <1>15, <1>17, <1>18 DEF listed

\* The settlement of sound values squares.
LEMMA SettlementOfSoundValues ==
  ASSUME NEW values, Sound(values), members \subseteq Persons
  PROVE  LET s == Settlement(values)
             Net(i) == Part(s.positions, i)
             Got(i) == SumFunction([t \in {u \in s.transfers : u.to = i} |-> t.cents])
             Gave(i) == SumFunction([t \in {u \in s.transfers : u.from = i} |-> t.cents])
         IN  /\ SumFunction([i \in members |-> Net(i)]) = 0
             /\ \A i \in members : Net(i) = SumFunction([l \in Ledger(s.lines, i) |-> l.net])
             /\ s.invalid = {} => \A i \in members : Got(i) - Gave(i) = Net(i)
             /\ s.invalid # {} => s.transfers = {}
             /\ s.transfers # {} => Cardinality(s.transfers) < Cardinality(members)
             /\ \A t \in s.transfers : t.cents > 0
<1> DEFINE s == Settlement(values)
           lines == s.lines
           invalid == s.invalid
           made == s.transfers
           nets == NetsOf(lines)
<1>1. /\ lines \in SUBSET values
      /\ \A v \in lines : v.booking.payer \in members /\ v.complete
      /\ s.positions = {<<i, nets[i]>> : i \in members}
      /\ made = IF invalid = {} THEN Transfers(nets) ELSE {}
  <2> DEFINE claimed == {v \in Side(values, "expense") :
                            v.booking.settle /\ v.booking.payer # None /\ DOMAIN v.booking.splits # {}}
             bad == {v \in claimed : v.booking.payer \notin members \/ ~ValidShares(v)}
             good == {v \in claimed \ bad : ~PayerCarriesAlone(v) /\ v.cents # 0}
             net == [i \in members |-> Amount({v \in good : v.booking.payer = i}) - SharesOf(good, i)]
  <2>1. s = [lines |-> good, invalid |-> bad, positions |-> {<<i, net[i]>> : i \in members},
             transfers |-> IF bad = {} THEN Transfers(net) ELSE {}]
    BY DEF Settlement
  <2>2. net = NetsOf(good)
    BY DEF NetsOf, PaidBy
  <2>3. /\ good \in SUBSET values
        /\ \A v \in good : v.booking.payer \in members /\ v.complete
    BY DEF Side, ValidShares
  <2> HIDE DEF good, bad, net, s
  <2>4. /\ s.lines = good /\ s.invalid = bad
        /\ s.positions = {<<i, net[i]>> : i \in members}
        /\ s.transfers = IF bad = {} THEN Transfers(net) ELSE {}
    BY <2>1
  <2> QED
    BY <2>2, <2>3, <2>4
<1>2. Sound(lines) /\ Settled(lines)
  BY <1>1, SoundValues DEF Settled
<1>3. nets \in [members -> Int] /\ SumFunctionOnSet(nets, members) = 0
  <2> HIDE DEF lines
  <2> QED
    BY <1>2, NetsAreLevel
<1>4. IsFiniteSet(members) /\ members \subseteq Int
  BY PersonsAre
<1>5. \A i \in members : nets[i] \in Int
  <2> HIDE DEF nets
  <2> QED
    BY <1>3
<1>6. \A i \in members : Part(s.positions, i) = nets[i]
  <2> DEFINE pairs == s.positions
  <2>1. pairs = Graph(nets, members)
    BY <1>1 DEF Graph
  <2> DEFINE I == members
  <2>2. pairs = Graph(nets, I) /\ IsFiniteSet(I) /\ \A i \in I : nets[i] \in Int
    BY <1>4, <1>5, <2>1
  <2> HIDE DEF pairs, nets, I
  <2>3. \A i \in I : Part(pairs, i) = nets[i]
    BY <2>2, TallyOf
  <2> QED
    BY <2>3 DEF pairs, I
<1>7. \A i \in members : nets[i] = SumFunction([l \in Ledger(lines, i) |-> l.net])
  <2> HIDE DEF lines
  <2> QED
    BY <1>2, LedgerAddsUp
<1>8. SumFunction([i \in members |-> Part(s.positions, i)]) = 0
  <2>1. [i \in members |-> Part(s.positions, i)] = nets
    BY <1>3, <1>6
  <2>2. SumFunction(nets) = SumFunctionOnSet(nets, members)
    BY <1>3 DEF SumFunction
  <2> QED
    BY <1>3, <2>1, <2>2
<1> HIDE DEF s, lines, invalid, made, nets
<1>9. ASSUME invalid = {}
      PROVE  /\ \A i \in members :
                    SumFunction([t \in {u \in made : u.to = i} |-> t.cents])
                        - SumFunction([t \in {u \in made : u.from = i} |-> t.cents]) = nets[i]
             /\ made # {} => Cardinality(made) < Cardinality(members)
             /\ \A t \in made : t.cents > 0
  <2>1. made = Transfers(nets)
    BY <1>1, <1>9
  <2>2. /\ made \in SUBSET Payment(members)
        /\ IsFiniteSet(made)
        /\ \A t \in made : t.cents > 0
        /\ \A i \in members : Gets(members, made, i) - Gives(members, made, i) = nets[i]
        /\ made # {} => Cardinality(made) < Cardinality(members)
    BY <1>3, <1>4, <2>1, TransfersSquare
  <2>3. ASSUME NEW some \in SUBSET made
        PROVE  SumFunction([t \in some |-> t.cents]) = SumFunctionOnSet(Amounts(members), some)
    <3> DEFINE f == [t \in some |-> t.cents]
               g == Amounts(members)
    <3>1. \A t \in some : f[t] = g[t] /\ f[t] \in Int
      BY <2>2 DEF Amounts, Payment
    <3>2. SumFunction(f) = SumFunctionOnSet(f, some)
      BY DEF SumFunction
    <3>3. IsFiniteSet(some)
      BY <2>2, FS_Subset
    <3> HIDE DEF f, g
    <3>4. SumFunctionOnSet(f, some) = SumFunctionOnSet(g, some)
      BY <3>1, <3>3, SumsAgree
    <3> QED
      BY <3>2, <3>4 DEF f, g
  <2>4. ASSUME NEW i \in members
        PROVE  SumFunction([t \in {u \in made : u.to = i} |-> t.cents])
                   - SumFunction([t \in {u \in made : u.from = i} |-> t.cents]) = nets[i]
    <3> DEFINE A == {u \in made : u.to = i}
               B == {u \in made : u.from = i}
    <3>1. A \in SUBSET made /\ B \in SUBSET made
      OBVIOUS
    <3>2. Gets(members, made, i) = SumFunctionOnSet(Amounts(members), A)
          /\ Gives(members, made, i) = SumFunctionOnSet(Amounts(members), B)
      BY DEF Gets, Gives
    <3> HIDE DEF A, B
    <3>3. /\ SumFunction([t \in A |-> t.cents]) = SumFunctionOnSet(Amounts(members), A)
          /\ SumFunction([t \in B |-> t.cents]) = SumFunctionOnSet(Amounts(members), B)
      BY <2>3, <3>1
    <3>4. SumFunction([t \in A |-> t.cents]) - SumFunction([t \in B |-> t.cents]) = nets[i]
      BY <2>2, <3>2, <3>3
    <3> QED
      BY <3>4 DEF A, B
  <2> QED
    BY <2>2, <2>4
<1>10. invalid # {} => made = {}
  BY <1>1
<1> QED
  BY <1>6, <1>7, <1>8, <1>9, <1>10 DEF s, lines, invalid, made

\* The transfers leave nobody with a claim or a debt.
THEOREM SettlementAlwaysSquares == Spec => []SettlementSquares
<1>1. BookInv => SettlementSquares
  BY ReportedIsSound, SettlementOfSoundValues DEF BookInv, SettlementSquares
<1> QED
  BY <1>1, BookIsSound, PTL

-----------------------------------------------------------------------------
(***************************************************************************)
(* The self-check agrees.  What it sorts comes in order.                   *)
(***************************************************************************)
IsOrder(S, R) ==
    /\ \A x \in S : <<x, x>> \notin R
    /\ \A x, y \in S : x # y => <<x, y>> \in R \/ <<y, x>> \in R
    /\ \A x, y, z \in S : <<x, y>> \in R /\ <<y, z>> \in R => <<x, z>> \in R
Before(S, R, x) == {y \in S : <<y, x>> \in R}

\* Counting what comes before numbers the elements.
LEMMA RanksNumber ==
  ASSUME NEW S, IsFiniteSet(S), NEW R, IsOrder(S, R)
  PROVE  LET rank == [x \in S |-> Cardinality(Before(S, R, x))]
         IN  /\ rank \in Bijection(S, 0..(Cardinality(S) - 1))
             /\ \A x, y \in S : <<x, y>> \in R => rank[x] < rank[y]
<1> DEFINE N == Cardinality(S)
           rank == [x \in S |-> Cardinality(Before(S, R, x))]
<1>1. N \in Nat
  BY FS_CardinalityType
<1>2. \A x \in S : IsFiniteSet(Before(S, R, x)) /\ rank[x] \in Nat
  <2> SUFFICES ASSUME NEW x \in S
               PROVE  IsFiniteSet(Before(S, R, x)) /\ Cardinality(Before(S, R, x)) \in Nat
    OBVIOUS
  <2>1. Before(S, R, x) \in SUBSET S
    BY DEF Before
  <2> QED
    BY <2>1, FS_Subset, FS_CardinalityType
<1>3. ASSUME NEW x \in S
      PROVE  rank[x] <= N - 1
  <2>1. Before(S, R, x) \in SUBSET (S \ {x})
    BY DEF Before, IsOrder
  <2>2. IsFiniteSet(S \ {x}) /\ Cardinality(S \ {x}) = N - 1
    BY FS_RemoveElement
  <2> QED
    BY <1>2, <2>1, <2>2, FS_Subset
<1>4. ASSUME NEW x \in S, NEW y \in S, <<x, y>> \in R
      PROVE  rank[x] < rank[y]
  <2>1. Before(S, R, x) \in SUBSET Before(S, R, y) /\ x \in Before(S, R, y) /\ x \notin Before(S, R, x)
    BY <1>4 DEF Before, IsOrder
  <2>2. Cardinality(Before(S, R, x)) <= Cardinality(Before(S, R, y))
    BY <1>2, <2>1, FS_Subset
  <2>3. Cardinality(Before(S, R, x)) # Cardinality(Before(S, R, y))
    BY <1>2, <2>1, FS_Subset
  <2>4. rank[x] = Cardinality(Before(S, R, x)) /\ rank[y] = Cardinality(Before(S, R, y))
    OBVIOUS
  <2>5. rank[x] \in Nat /\ rank[y] \in Nat
    BY <1>2
  <2> QED
    BY <2>2, <2>3, <2>4, <2>5
<1>5. ASSUME NEW x \in S, NEW y \in S, rank[x] = rank[y]
      PROVE  x = y
  <2>1. rank[x] \in Int
    BY <1>2
  <2>2. ~(rank[x] < rank[y]) /\ ~(rank[y] < rank[x])
    BY <1>5, <2>1
  <2> QED
    BY <1>4, <2>2 DEF IsOrder
<1>6. rank \in Injection(S, 0..(N - 1))
  <2>1. rank \in [S -> 0..(N - 1)]
    BY <1>1, <1>2, <1>3
  <2> HIDE DEF rank
  <2> QED
    BY <1>5, <2>1 DEF Injection, IsInjective
<1>7. IsFiniteSet(0..(N - 1)) /\ Cardinality(0..(N - 1)) = N
  <2>1. 0 \in Int /\ N - 1 \in Int /\ (N - 1) - 0 + 1 = N /\ (0 > N - 1 => N = 0)
    BY <1>1
  <2> HIDE DEF N
  <2> QED
    BY <2>1, FS_Interval
<1>8. rank \in Surjection(S, 0..(N - 1))
  BY <1>6, <1>7, FS_Injection
<1> HIDE DEF rank
<1>9. rank \in Bijection(S, 0..(N - 1))
  BY <1>6, <1>8 DEF Bijection
<1> QED
  BY <1>4, <1>9 DEF rank

\* The k-th element has k - 1 others before it.
LEMMA SortingSorts ==
  ASSUME NEW S, IsFiniteSet(S), NEW R, IsOrder(S, R)
  PROVE  LET f == Sorting(S, R)
             n == Cardinality(S)
         IN  /\ n \in Nat /\ DOMAIN f = 1..n
             /\ \A k \in 1..n : f[k] \in S /\ Cardinality(Before(S, R, f[k])) = k - 1
             /\ \A x \in S : \E k \in 1..n : f[k] = x
<1> DEFINE n == Cardinality(S)
           Ordered(g) == \A i, j \in 1..n : i < j => <<g[i], g[j]>> \in R
           rank == [x \in S |-> Cardinality(Before(S, R, x))]
           f == Sorting(S, R)
<1>1. n \in Nat
  BY FS_CardinalityType
<1>2. rank \in Bijection(S, 0..(n - 1)) /\ \A x, y \in S : <<x, y>> \in R => rank[x] < rank[y]
  BY RanksNumber
<1> HIDE DEF rank, n
<1>3. rank \in [S -> 0..(n - 1)] /\ \A k \in 0..(n - 1) : \E x \in S : rank[x] = k
  BY <1>2 DEF Bijection, Injection, Surjection
<1>4. \E g \in [1..n -> S] : Ordered(g)
  <2> DEFINE g == [k \in 1..n |-> CHOOSE x \in S : rank[x] = k - 1]
  <2>1. \A k \in 1..n : g[k] \in S /\ rank[g[k]] = k - 1
    <3> SUFFICES ASSUME NEW k \in 1..n
                 PROVE  g[k] \in S /\ rank[g[k]] = k - 1
      OBVIOUS
    <3>1. k - 1 \in 0..(n - 1)
      BY <1>1
    <3>2. \E x \in S : rank[x] = k - 1
      BY <1>3, <3>1
    <3> QED
      BY <3>2
  <2>2. g \in [1..n -> S]
    BY <2>1
  <2> HIDE DEF g
  <2>3. ASSUME NEW i \in 1..n, NEW j \in 1..n, i < j
        PROVE  <<g[i], g[j]>> \in R
    <3>1. rank[g[i]] < rank[g[j]] /\ ~(rank[g[j]] < rank[g[i]]) /\ g[i] # g[j]
      BY <2>1, <2>3
    <3> QED
      BY <1>2, <2>1, <3>1 DEF IsOrder
  <2>4. Ordered(g)
    BY <2>3
  <2> QED
    BY <2>2, <2>4
<1>5. f \in [1..n -> S] /\ Ordered(f)
  BY <1>4 DEF Sorting, n
<1> HIDE DEF f
<1>6. ASSUME NEW i \in 1..n, NEW j \in 1..n, f[i] = f[j]
      PROVE  i = j
  <2>1. ~(i < j) /\ ~(j < i)
    BY <1>5, <1>6 DEF IsOrder
  <2> QED
    BY <2>1
<1>7. f \in Injection(1..n, S)
  BY <1>5, <1>6 DEF Injection, IsInjective
<1>8. IsFiniteSet(1..n) /\ Cardinality(1..n) = n
  BY <1>1, FS_Interval
<1>9. f \in Surjection(1..n, S)
  BY <1>7, <1>8, FS_Injection DEF n
<1>10. \A x \in S : \E k \in 1..n : f[k] = x
  BY <1>9 DEF Surjection
<1>11. ASSUME NEW k \in 1..n
       PROVE  Cardinality(Before(S, R, f[k])) = k - 1
  <2> DEFINE B == Before(S, R, f[k])
             place == [j \in 1..(k - 1) |-> f[j]]
  <2>1. \A j \in 1..n : f[j] \in B <=> j < k
    <3> SUFFICES ASSUME NEW j \in 1..n
                 PROVE  f[j] \in B <=> j < k
      OBVIOUS
    <3>1. f[j] \in S /\ f[k] \in S
      BY <1>5
    <3>2. CASE j < k
      BY <1>5, <3>1, <3>2 DEF Before
    <3>3. CASE j = k
      BY <3>1, <3>3 DEF Before, IsOrder
    <3>4. CASE j > k
      <4>1. <<f[k], f[j]>> \in R
        BY <1>5, <3>4
      <4>2. <<f[j], f[k]>> \notin R
        BY <3>1, <4>1 DEF IsOrder
      <4> QED
        BY <3>4, <4>2 DEF Before
    <3> QED
      BY <3>2, <3>3, <3>4
  <2>2. B \in SUBSET S
    BY DEF Before
  <2> HIDE DEF B
  <2>3. k - 1 \in Nat /\ \A j \in 1..(k - 1) : j \in 1..n /\ j < k
    BY <1>1
  <2>4. place \in [1..(k - 1) -> B]
    BY <2>1, <2>3
  <2>5. \A i, j \in 1..(k - 1) : place[i] = place[j] => i = j
    BY <1>6, <2>3
  <2>6. \A x \in B : \E j \in 1..(k - 1) : place[j] = x
    <3> SUFFICES ASSUME NEW x \in B
                 PROVE  \E j \in 1..(k - 1) : place[j] = x
      OBVIOUS
    <3>1. PICK j \in 1..n : f[j] = x
      BY <1>10, <2>2
    <3>2. j \in 1..(k - 1)
      BY <2>1, <3>1
    <3> QED
      BY <3>1, <3>2
  <2> HIDE DEF place
  <2>7. place \in Bijection(1..(k - 1), B)
    BY <2>4, <2>5, <2>6 DEF Bijection, Injection, Surjection, IsInjective
  <2>8. ExistsBijection(1..(k - 1), B)
    BY <2>7 DEF ExistsBijection
  <2>9. IsFiniteSet(1..(k - 1)) /\ Cardinality(1..(k - 1)) = k - 1
    BY <2>3, FS_Interval
  <2>10. IsFiniteSet(B)
    BY <2>2, FS_Subset
  <2>11. Cardinality(B) = k - 1
    BY <2>8, <2>9, <2>10, FS_Bijection
  <2> QED
    BY <2>11 DEF B
<1> QED
  BY <1>1, <1>5, <1>10, <1>11 DEF f, n

-----------------------------------------------------------------------------
\* Larger remainders and smaller ids come first, as where cents are given out.
LEMMA RestsOrder ==
  ASSUME NEW raw, DOMAIN raw \subseteq Int, \A i \in DOMAIN raw : raw[i] \in Int,
         NEW scale \in Nat \ {0}, NEW pairs, pairs = Graph(raw, DOMAIN raw),
         IsFiniteSet(DOMAIN raw)
  PROVE  /\ IsOrder(pairs, LargerRest(pairs, scale))
         /\ \A i \in DOMAIN raw :
                Cardinality(Before(pairs, LargerRest(pairs, scale), <<i, raw[i]>>))
                    = Cardinality(Ahead(raw, scale, i))
<1> DEFINE R == LargerRest(pairs, scale)
           rem == [i \in DOMAIN raw |-> raw[i] % scale]
           Goes(j, i) == rem[j] > rem[i] \/ (rem[j] = rem[i] /\ j < i)
           pair == [i \in DOMAIN raw |-> <<i, raw[i]>>]
<1>1. \A i \in DOMAIN raw : rem[i] = raw[i] % scale /\ rem[i] \in Int /\ i \in Int
  <2> SUFFICES ASSUME NEW i \in DOMAIN raw
               PROVE  raw[i] % scale \in Int
    OBVIOUS
  <2> DEFINE n == raw[i]
  <2>1. n \in Int
    OBVIOUS
  <2> HIDE DEF n
  <2>2. n % scale \in 0..(scale - 1)
    BY <2>1, Divided
  <2> QED
    BY <2>2 DEF n
<1>2. /\ \A x \in pairs : x[1] \in DOMAIN raw /\ x = pair[x[1]]
      /\ \A i \in DOMAIN raw : pair[i] \in pairs /\ pair[i][1] = i /\ pair[i][2] = raw[i]
  BY DEF Graph
<1> HIDE DEF rem, pair
<1>3. \A i, j \in DOMAIN raw : <<pair[j], pair[i]>> \in R <=> Goes(j, i)
  <2> SUFFICES ASSUME NEW i \in DOMAIN raw, NEW j \in DOMAIN raw
               PROVE  <<pair[j], pair[i]>> \in R <=> Goes(j, i)
    OBVIOUS
  <2> DEFINE x == <<pair[j], pair[i]>>
  <2>1. x \in pairs \X pairs /\ x[1] = pair[j] /\ x[2] = pair[i]
    BY <1>2
  <2>2. x[1][1] = j /\ x[1][2] = raw[j] /\ x[2][1] = i /\ x[2][2] = raw[i]
    BY <1>2, <2>1
  <2> HIDE DEF x
  <2>3. x \in R <=> \/ raw[j] % scale > raw[i] % scale
                    \/ (raw[j] % scale = raw[i] % scale /\ j < i)
    BY <2>1, <2>2 DEF LargerRest
  <2>4. rem[i] = raw[i] % scale /\ rem[j] = raw[j] % scale
    BY <1>1
  <2> QED
    BY <2>3, <2>4 DEF x
<1> HIDE DEF R
<1>4. IsOrder(pairs, R)
  <2>1. \A i, j, k \in DOMAIN raw :
          /\ ~Goes(i, i)
          /\ i # j => Goes(i, j) \/ Goes(j, i)
          /\ Goes(i, j) /\ Goes(j, k) => Goes(i, k)
    BY <1>1
  <2> HIDE DEF Goes
  <2>2. \A x \in pairs : <<x, x>> \notin R
    BY <1>2, <1>3, <2>1
  <2>3. \A x, y \in pairs : x # y => <<x, y>> \in R \/ <<y, x>> \in R
    BY <1>2, <1>3, <2>1
  <2>4. \A x, y, z \in pairs : <<x, y>> \in R /\ <<y, z>> \in R => <<x, z>> \in R
    <3> SUFFICES ASSUME NEW x \in pairs, NEW y \in pairs, NEW z \in pairs,
                        <<x, y>> \in R, <<y, z>> \in R
                 PROVE  <<x, z>> \in R
      OBVIOUS
    <3>1. x = pair[x[1]] /\ y = pair[y[1]] /\ z = pair[z[1]]
      BY <1>2
    <3>2. x[1] \in DOMAIN raw /\ y[1] \in DOMAIN raw /\ z[1] \in DOMAIN raw
      BY <1>2
    <3>3. Goes(x[1], y[1]) /\ Goes(y[1], z[1])
      BY <1>3, <3>1, <3>2
    <3>4. Goes(x[1], z[1])
      BY <2>1, <3>2, <3>3
    <3>5. <<pair[x[1]], pair[z[1]]>> \in R
      BY <1>3, <3>2, <3>4
    <3> QED
      BY <3>1, <3>5
  <2> QED
    BY <2>2, <2>3, <2>4 DEF IsOrder
<1>5. ASSUME NEW i \in DOMAIN raw
      PROVE  Cardinality(Before(pairs, R, <<i, raw[i]>>)) = Cardinality(Ahead(raw, scale, i))
  <2> DEFINE A == Ahead(raw, scale, i)
             B == Before(pairs, R, pair[i])
             f == [j \in A |-> pair[j]]
  <2>1. \A j \in DOMAIN raw : j \in A <=> Goes(j, i)
    BY <1>1 DEF Ahead
  <2>2. A \in SUBSET DOMAIN raw
    BY DEF Ahead
  <2>3. \A j \in A : pair[j] \in B
    BY <1>2, <1>3, <2>1, <2>2 DEF Before
  <2>4. \A x \in B : x[1] \in A /\ x = pair[x[1]]
    <3> SUFFICES ASSUME NEW x \in B
                 PROVE  x[1] \in A /\ x = pair[x[1]]
      OBVIOUS
    <3>1. x \in pairs /\ <<x, pair[i]>> \in R
      BY DEF Before
    <3>2. x = pair[x[1]] /\ x[1] \in DOMAIN raw
      BY <1>2, <3>1
    <3>3. Goes(x[1], i)
      BY <1>3, <3>1, <3>2
    <3> QED
      BY <2>1, <3>2, <3>3
  <2> HIDE DEF A, B
  <2>5. f \in [A -> B]
    BY <2>3
  <2>6. \A j, k \in A : f[j] = f[k] => j = k
    BY <1>2, <2>2
  <2>7. \A x \in B : \E j \in A : f[j] = x
    BY <2>4
  <2> HIDE DEF f
  <2>8. f \in Bijection(A, B)
    BY <2>5, <2>6, <2>7 DEF Bijection, Injection, Surjection, IsInjective
  <2>9. ExistsBijection(A, B)
    BY <2>8 DEF ExistsBijection
  <2>10. IsFiniteSet(A)
    BY <2>2, FS_Subset
  <2>11. Cardinality(A) = Cardinality(B)
    BY <2>9, <2>10, FS_Bijection
  <2>12. pair[i] = <<i, raw[i]>>
    BY DEF pair
  <2> QED
    BY <2>11, <2>12 DEF A, B
<1> QED
  BY <1>4, <1>5 DEF R

\* The reference gives out cents as the code does, where no amount is below zero.
LEMMA AllocationsAgree ==
  ASSUME NEW raw, DOMAIN raw \subseteq Int, IsFiniteSet(DOMAIN raw),
         \A i \in DOMAIN raw : raw[i] \in Nat,
         NEW scale \in Nat \ {0}, NEW target \in Int,
         NEW pairs, pairs = Graph(raw, DOMAIN raw)
  PROVE  ReferenceAllocate(pairs, scale, target) = BalancedCents(raw, scale, target)
<1> DEFINE I == DOMAIN raw
           R == LargerRest(pairs, scale)
           ranked == Sorting(pairs, R)
           n == Cardinality(pairs)
           floor == [i \in I |-> raw[i] \div scale]
           floors == [r \in pairs |-> Quotient(r[2], scale)]
           pair == [i \in I |-> <<i, raw[i]>>]
           missing == target - SumFunction(floors)
           Place(i) == Cardinality(Ahead(raw, scale, i))
           Given(k) == <<ranked[k][1], Quotient(ranked[k][2], scale) + IF k <= missing THEN 1 ELSE 0>>
           GetsCents(i) == <<i, (raw[i] \div scale) + (IF Place(i) < missing THEN 1 ELSE 0)>>
<1>1. \A i \in I : floor[i] \in Int /\ raw[i] \in Int /\ floor[i] = Quotient(raw[i], scale)
  BY Divided DEF Quotient
<1>2. /\ \A x \in pairs : x[1] \in I /\ x[2] = raw[x[1]] /\ x = <<x[1], raw[x[1]]>>
      /\ \A i \in I : <<i, raw[i]>> \in pairs
  BY DEF Graph
<1>3. IsFiniteSet(pairs)
  <2>1. \A i \in I : raw[i] \in Int
    BY <1>1
  <2> QED
    BY <2>1, TallyOf
<1>4. IsOrder(pairs, R) /\ \A i \in I : Cardinality(Before(pairs, R, <<i, raw[i]>>)) = Place(i)
  BY <1>1, RestsOrder
<1> HIDE DEF R
<1>5. /\ n \in Nat /\ DOMAIN ranked = 1..n
      /\ \A k \in 1..n : ranked[k] \in pairs /\ Cardinality(Before(pairs, R, ranked[k])) = k - 1
      /\ \A x \in pairs : \E k \in 1..n : ranked[k] = x
  BY <1>3, <1>4, SortingSorts
<1>6. SumFunction(floors) = SumFunctionOnSet(floor, I)
  <2>1. ImageOf(pair, I) = pairs
    BY DEF ImageOf, Graph
  <2>2. \A x, y \in I : pair[x] = pair[y] => x = y
    OBVIOUS
  <2>3. \A x \in I : floors[pair[x]] = floor[x]
    BY <1>1, <1>2
  <2>4. SumFunction(floors) = SumFunctionOnSet(floors, pairs)
    BY DEF SumFunction
  <2> HIDE DEF pair, floors, floor
  <2>5. SumFunctionOnSet(floor, I) = SumFunctionOnSet(floors, ImageOf(pair, I))
    BY <1>1, <2>2, <2>3, SumRenamed
  <2> QED
    BY <2>1, <2>4, <2>5
<1>7. SumFunctionOnSet(floor, I) \in Int /\ missing \in Int
  <2>1. SumFunctionOnSet(floor, I) \in Int
    BY <1>1, SumWithout
  <2> QED
    BY <1>6, <2>1
<1>8. missing = target - SumFunction([i \in DOMAIN raw |-> raw[i] \div scale])
  BY <1>6 DEF SumFunction
<1>9. BalancedCents(raw, scale, target) = {GetsCents(i) : i \in I}
  BY <1>8 DEF BalancedCents
<1>10. ReferenceAllocate(pairs, scale, target) = {Given(k) : k \in 1..n}
  BY <1>5 DEF ReferenceAllocate, R
<1> HIDE DEF ranked, n, floor, floors, missing, Place
<1>11. \A k \in 1..n : Given(k) = GetsCents(ranked[k][1])
  <2> SUFFICES ASSUME NEW k \in 1..n
               PROVE  Given(k) = GetsCents(ranked[k][1])
    OBVIOUS
  <2> DEFINE i == ranked[k][1]
  <2>1. i \in I /\ ranked[k][2] = raw[i] /\ ranked[k] = <<i, raw[i]>>
    BY <1>2, <1>5
  <2>2. Place(i) = k - 1
    BY <1>4, <1>5, <2>1
  <2>3. Quotient(raw[i], scale) = raw[i] \div scale
    BY <1>1, <2>1 DEF floor
  <2>4. k <= missing <=> Place(i) < missing
    BY <1>5, <1>7, <2>2
  <2> HIDE DEF i
  <2> QED
    BY <2>1, <2>3, <2>4 DEF i
<1>12. \A i \in I : \E k \in 1..n : ranked[k][1] = i
  <2> SUFFICES ASSUME NEW i \in I
               PROVE  \E k \in 1..n : ranked[k][1] = i
    OBVIOUS
  <2>1. PICK k \in 1..n : ranked[k] = <<i, raw[i]>>
    BY <1>2, <1>5
  <2> QED
    BY <2>1
<1>13. \A k \in 1..n : ranked[k][1] \in I
  BY <1>2, <1>5
<1> HIDE DEF Given, GetsCents
<1> QED
  BY <1>9, <1>10, <1>11, <1>12, <1>13

-----------------------------------------------------------------------------
(***************************************************************************)
(* Both calculations make the same value of a booking.                     *)
(***************************************************************************)
\* Nothing of a booking is below zero, and no percentage above the whole.
Plain(id) ==
    /\ booking[id].amount >= 0
    /\ \A o \in OverridesOf(id) : o.amount >= 0
    /\ \A i \in DOMAIN booking[id].splits :
           /\ booking[id].splits[i] >= 0
           /\ booking[id].mode = "percent" => booking[id].splits[i] <= 100

\* So it is where the self-check finds nothing.
LEMMA BookingsArePlain ==
  ASSUME BookInv, SourceFindings = {}, NEW id \in Stored
  PROVE  Plain(id)
<1> DEFINE b == booking[id]
<1>1. BookingFindings(id) = {}
  BY DEF SourceFindings
<1>2. /\ b.amount \in Int /\ \A i \in DOMAIN b.splits : b.splits[i] \in Int
  BY DEF BookInv, PlansAreSound, IsBooking
<1>3. \A o \in OverridesOf(id) : o.amount \in Int
  BY DEF BookInv, AmountsAreSound, OverridesOf
<1> DEFINE amounts == {b.amount} \cup {o.amount : o \in OverridesOf(id)}
           below == {x \in amounts : x < 0}
           beyond == {x \in DOMAIN b.splits : b.splits[x] < 0 \/ (b.mode = "percent" /\ b.splits[x] > 100)}
<1>4. {<<"data", id, "amount">> : a \in below} = {} /\ {<<"data", id, "share">> : i \in beyond} = {}
  BY <1>1 DEF BookingFindings
<1>5. below = {} /\ beyond = {}
  BY <1>4
<1>7. ~(b.amount < 0)
  BY <1>5
<1>8. \A o \in OverridesOf(id) : ~(o.amount < 0)
  BY <1>5
<1>9. \A i \in DOMAIN b.splits : ~(b.splits[i] < 0)
  BY <1>5
<1>10. b.mode = "percent" => \A i \in DOMAIN b.splits : ~(b.splits[i] > 100)
  BY <1>5
<1> HIDE DEF b, below, beyond, amounts
<1>11. b.amount >= 0 /\ \A o \in OverridesOf(id) : o.amount >= 0
  BY <1>2, <1>3, <1>7, <1>8
<1>12. \A i \in DOMAIN b.splits : b.splits[i] >= 0 /\ (b.mode = "percent" => b.splits[i] <= 100)
  BY <1>2, <1>9, <1>10
<1> QED
  BY <1>11, <1>12 DEF Plain, b

\* Rounding is the same above zero.
LEMMA RoundsAgree ==
  ASSUME NEW n \in Nat, NEW d \in Nat \ {0}
  PROVE  ReferenceRounded(n, d) = RoundAmount(n, d) /\ RoundAmount(n, d) \in Nat
<1> DEFINE e == 2 * d
           k == 2 * n + d
<1>1. e \in Nat \ {0} /\ k \in Nat
  OBVIOUS
<1>2. ReferenceRounded(n, d) = k \div e /\ RoundAmount(n, d) = k \div e
  BY DEF ReferenceRounded, RoundAmount, Quotient
<1>3. k \div e \in Nat
  <2> HIDE DEF k, e
  <2> QED
    BY <1>1
<1> QED
  BY <1>2, <1>3

\* The multiples of the rhythms are the same.
LEMMA FactorsAgree ==
  ASSUME NEW b, IsBooking(b)
  PROVE  ReferenceFactor(b) = Factor(b)
<1>1. b.frequency \in Frequencies
  BY DEF IsBooking
<1> QED
  BY <1>1 DEF ReferenceFactor, Factor, Frequencies

\* The last of the temporary amounts is the one with all others before it, and a month has
\* its amount or that of the booking.
LEMMA AmountsAgree ==
  ASSUME NEW b, NEW some, IsFiniteSet(some), NEW m,
         \A o \in some : o.from \in Int /\ o.id \in Int,
         \A o, x \in some : o.id = x.id => o = x
  PROVE  /\ ReferenceAmount(b, some, m) = AmountFor(b, some, m)
         /\ AmountFor(b, some, m) \in {b.amount} \cup {o.amount : o \in some}
<1> DEFINE S == {o \in some : Covers(o, m)}
           R == Earlier(S)
           n == Cardinality(S)
           f == Sorting(S, R)
           After(o, x) == x.from < o.from \/ (x.from = o.from /\ x.id <= o.id)
           latest == CHOOSE o \in S : \A x \in S : After(o, x)
<1>1. S = {o \in some : o.from <= m /\ m <= o.until} /\ S \subseteq some
  BY DEF Covers
<1>2. ReferenceAmount(b, some, m) = IF b.frequency = "once" \/ S = {} THEN b.amount ELSE f[n].amount
  BY <1>1 DEF ReferenceAmount
<1>3. AmountFor(b, some, m) = IF b.frequency = "once" \/ S = {} THEN b.amount ELSE latest.amount
  BY DEF AmountFor
<1>4. IsFiniteSet(S)
  BY FS_Subset
<1>5. \A x, y \in S : <<x, y>> \in R <=> (x.from < y.from \/ (x.from = y.from /\ x.id < y.id))
  BY DEF Earlier
<1>6. \A x \in S : x.from \in Int /\ x.id \in Int
  OBVIOUS
<1>7. \A x, y \in S : x # y => x.id # y.id
  OBVIOUS
<1> HIDE DEF R, S
<1>8. IsOrder(S, R)
  <2>1. \A x \in S : <<x, x>> \notin R
    BY <1>5, <1>6
  <2>2. \A x, y \in S : x # y => <<x, y>> \in R \/ <<y, x>> \in R
    BY <1>5, <1>6, <1>7
  <2>3. \A x, y, z \in S : <<x, y>> \in R /\ <<y, z>> \in R => <<x, z>> \in R
    BY <1>5, <1>6
  <2> QED
    BY <2>1, <2>2, <2>3 DEF IsOrder
<1>9. ASSUME S # {}
      PROVE  f[n] = latest /\ latest \in S
  <2>1. /\ n \in Nat /\ n # 0
        /\ \A k \in 1..n : f[k] \in S /\ Cardinality(Before(S, R, f[k])) = k - 1
    BY <1>4, <1>8, <1>9, SortingSorts, FS_EmptySet
  <2> DEFINE o == f[n]
             B == Before(S, R, o)
  <2>2. o \in S /\ Cardinality(B) = n - 1
    BY <2>1
  <2> HIDE DEF f, o
  <2>3. B \in SUBSET (S \ {o})
    BY <1>8 DEF Before, IsOrder
  <2>4. IsFiniteSet(S \ {o}) /\ Cardinality(S \ {o}) = n - 1
    BY <1>4, <2>2, FS_RemoveElement
  <2>5. B = S \ {o}
    BY <2>2, <2>3, <2>4, FS_Subset
  <2>6. \A x \in S : x # o => <<x, o>> \in R
    BY <2>5 DEF Before
  <2>7. \A x \in S : After(o, x)
    <3> SUFFICES ASSUME NEW x \in S
                 PROVE  After(o, x)
      OBVIOUS
    <3>1. CASE x = o
      BY <1>6, <2>2, <3>1
    <3>2. CASE x # o
      <4>1. x.from < o.from \/ (x.from = o.from /\ x.id < o.id)
        BY <1>5, <2>2, <2>6, <3>2
      <4> QED
        BY <1>6, <2>2, <4>1
    <3> QED
      BY <3>1, <3>2
  <2>8. \A y \in S : (\A x \in S : After(y, x)) => y = o
    <3> SUFFICES ASSUME NEW y \in S, \A x \in S : After(y, x)
                 PROVE  y = o
      OBVIOUS
    <3>1. After(y, o) /\ After(o, y)
      BY <2>2, <2>7
    <3>2. y.id = o.id
      BY <1>6, <2>2, <3>1
    <3> QED
      BY <1>7, <2>2, <3>2
  <2> QED
    BY <2>2, <2>7, <2>8 DEF o
<1>10. S # {} => latest.amount \in {o.amount : o \in some}
  BY <1>1, <1>9
<1> QED
  BY <1>2, <1>3, <1>9, <1>10

\* Numbers not below zero have such a sum.
LEMMA SumNotNegative ==
  ASSUME NEW f, NEW S, IsFiniteSet(S), \A x \in S : f[x] \in Nat
  PROVE  SumFunctionOnSet(f, S) \in Nat
<1> DEFINE zero == [x \in S |-> 0]
<1>1. SumFunctionOnSet(zero, S) = 0
  BY SumOfZeros
<1>2. \A x \in S : zero[x] \in Int /\ f[x] \in Int /\ zero[x] <= f[x]
  OBVIOUS
<1> HIDE DEF zero
<1>3. SumFunctionOnSet(zero, S) <= SumFunctionOnSet(f, S)
  BY <1>2, SumsCompare
<1>4. SumFunctionOnSet(f, S) \in Int
  BY SumWithout
<1> QED
  BY <1>1, <1>3, <1>4

\* The split is complete for the one if it is for the other.
LEMMA SplitsAgree ==
  ASSUME BookInv, NEW id \in Stored, Plain(id), NEW amount
  PROVE  LET b == booking[id]
         IN  CompleteSplit(b, amount)
                 = CASE b.mode = "percent" -> SplitTotal(b) = 100
                     [] b.mode = "fixed" -> SplitTotal(b) = amount
                     [] b.mode = "equal" -> DOMAIN b.splits # {}
<1> DEFINE b == booking[id]
           I == DOMAIN b.splits
           values == [i \in I |-> IF b.mode = "percent" THEN ClampPercent(b.splits[i]) ELSE b.splits[i]]
<1>1. b.mode \in Modes /\ IsFiniteSet(I) /\ \A i \in I : b.splits[i] \in Int
  BY DEF BookInv, PlansAreSound, IsBooking
<1>2. \A i \in I : values[i] = b.splits[i]
  <2> SUFFICES ASSUME NEW i \in I
               PROVE  b.mode = "percent" => ClampPercent(b.splits[i]) = b.splits[i]
    OBVIOUS
  <2> QED
    BY <1>1 DEF Plain, ClampPercent, Lesser
<1>3. SumFunction(values) = SumFunctionOnSet(values, I)
  BY DEF SumFunction
<1>4. SplitTotal(b) = SumFunctionOnSet(b.splits, I)
  BY DEF SplitTotal, SumFunction
<1>5. CompleteSplit(b, amount) = CASE b.mode = "percent" -> SumFunction(values) = 100
                                   [] b.mode = "fixed"   -> SumFunction(values) = amount
                                   [] b.mode = "equal"   -> I # {}
  BY DEF CompleteSplit
<1> HIDE DEF values, I
<1>6. SumFunctionOnSet(values, I) = SumFunctionOnSet(b.splits, I)
  BY <1>1, <1>2, SumsAgree
<1> QED
  BY <1>3, <1>4, <1>5, <1>6 DEF I

\* The numbers a plain booking is worked out from are not below zero.
LEMMA PlainClaims ==
  ASSUME NEW b, IsBooking(b), \A i \in DOMAIN b.splits : b.splits[i] >= 0,
         NEW amount \in Nat, NEW cents \in Nat
  PROVE  LET raw == Claims(b, amount, cents).raw
         IN  \A i \in DOMAIN raw : raw[i] \in Nat
<1> DEFINE claims == Claims(b, amount, cents)
           who == DOMAIN b.splits
<1>1. b.mode \in Modes /\ \A i \in who : b.splits[i] \in Nat
  BY DEF IsBooking
<1>2. Factor(b)[1] \in Nat
  BY FactorTyped
<1>3. CASE b.mode = "percent"
  <2> DEFINE some == {j \in who : ClampPercent(b.splits[j]) > 0}
             raw == [i \in some |-> cents * ClampPercent(b.splits[i])]
  <2>1. claims.raw = raw
    BY <1>3 DEF Claims
  <2>2. \A i \in some : ClampPercent(b.splits[i]) \in Nat
    BY <1>1, PercentInt
  <2>3. \A i \in some : raw[i] \in Nat
    BY <2>2
  <2>4. DOMAIN raw = some
    OBVIOUS
  <2> HIDE DEF raw, claims, some
  <2> QED
    BY <2>1, <2>3, <2>4 DEF claims
<1>4. CASE b.mode = "fixed"
  <2> DEFINE some == {j \in who : b.splits[j] # 0 \/ amount = 0}
             raw == [i \in some |-> b.splits[i] * Factor(b)[1]]
  <2>1. claims.raw = raw
    BY <1>4 DEF Claims
  <2>2. \A i \in some : raw[i] \in Nat
    <3> SUFFICES ASSUME NEW i \in some
                 PROVE  raw[i] \in Nat
      OBVIOUS
    <3> DEFINE x == b.splits[i]
               y == Factor(b)[1]
    <3>1. x \in Nat /\ y \in Nat /\ raw[i] = x * y
      BY <1>1, <1>2
    <3> HIDE DEF x, y, raw
    <3> QED
      BY <3>1
  <2>3. DOMAIN raw = some
    OBVIOUS
  <2> HIDE DEF raw, claims, some
  <2> QED
    BY <2>1, <2>2, <2>3 DEF claims
<1>5. CASE b.mode = "equal"
  <2> DEFINE raw == [i \in who |-> cents]
  <2>1. claims.raw = raw
    BY <1>5 DEF Claims
  <2>2. DOMAIN raw = who /\ \A i \in who : raw[i] \in Nat
    OBVIOUS
  <2> HIDE DEF raw, claims
  <2> QED
    BY <2>1, <2>2 DEF claims
<1> QED
  BY <1>1, <1>3, <1>4, <1>5 DEF Modes

\* The pairs the reference divides by are the claims.
LEMMA ClaimsAgree ==
  ASSUME BookInv, NEW id \in Stored, Plain(id), NEW amount \in Nat, NEW cents
  PROVE  LET b == booking[id]
             who == DOMAIN b.splits
             factor == Factor(b)
             claims == Claims(b, amount, cents)
             Claim(i) == CASE b.mode = "percent" -> cents * b.splits[i]
                           [] b.mode = "fixed" -> b.splits[i] * factor[1] [] b.mode = "equal" -> cents
             skipped == {i \in who : b.splits[i] = 0 /\ (b.mode = "percent" \/ (b.mode = "fixed" /\ amount # 0))}
         IN  /\ {<<i, Claim(i)>> : i \in who \ skipped} = Graph(claims.raw, DOMAIN claims.raw)
             /\ claims.scale = CASE b.mode = "percent" -> 100 [] b.mode = "fixed" -> factor[2]
                                 [] b.mode = "equal" -> Max({1, Cardinality(who)})
<1> DEFINE b == booking[id]
           who == DOMAIN b.splits
           factor == Factor(b)
           claims == Claims(b, amount, cents)
           Claim(i) == CASE b.mode = "percent" -> cents * b.splits[i]
                         [] b.mode = "fixed" -> b.splits[i] * factor[1] [] b.mode = "equal" -> cents
           skipped == {i \in who : b.splits[i] = 0 /\ (b.mode = "percent" \/ (b.mode = "fixed" /\ amount # 0))}
<1>1. b.mode \in Modes /\ \A i \in who : b.splits[i] \in Int /\ b.splits[i] >= 0
  BY DEF BookInv, PlansAreSound, IsBooking, Plain
<1>2. CASE b.mode = "percent"
  <2> DEFINE some == {j \in who : ClampPercent(b.splits[j]) > 0}
             raw == [i \in some |-> cents * ClampPercent(b.splits[i])]
  <2>1. claims = [scale |-> 100, raw |-> raw]
    BY <1>2 DEF Claims
  <2>2. \A i \in who : ClampPercent(b.splits[i]) = b.splits[i]
    BY <1>1, <1>2 DEF Plain, ClampPercent, Lesser
  <2>3. some = who \ skipped
    BY <1>1, <1>2, <2>2
  <2>4. \A i \in some : raw[i] = Claim(i)
    BY <1>2, <2>2
  <2>5. DOMAIN raw = some
    OBVIOUS
  <2> HIDE DEF raw, some, Claim, skipped, claims
  <2>6. claims.raw = raw /\ claims.scale = 100
    BY <2>1
  <2>7. {<<i, Claim(i)>> : i \in who \ skipped} = Graph(claims.raw, DOMAIN claims.raw)
    BY <2>3, <2>4, <2>5, <2>6 DEF Graph
  <2> QED
    BY <1>2, <2>6, <2>7 DEF Claim, skipped, claims
<1>3. CASE b.mode = "fixed"
  <2> DEFINE some == {j \in who : b.splits[j] # 0 \/ amount = 0}
             raw == [i \in some |-> b.splits[i] * factor[1]]
  <2>1. claims = [scale |-> factor[2], raw |-> raw]
    BY <1>3 DEF Claims
  <2>2. some = who \ skipped
    BY <1>1, <1>3
  <2>3. \A i \in some : raw[i] = Claim(i)
    BY <1>3
  <2>4. DOMAIN raw = some
    OBVIOUS
  <2> HIDE DEF raw, some, Claim, skipped, claims
  <2>5. claims.raw = raw /\ claims.scale = factor[2]
    BY <2>1
  <2>6. {<<i, Claim(i)>> : i \in who \ skipped} = Graph(claims.raw, DOMAIN claims.raw)
    BY <2>2, <2>3, <2>4, <2>5 DEF Graph
  <2> QED
    BY <1>3, <2>5, <2>6 DEF Claim, skipped, claims
<1>4. CASE b.mode = "equal"
  <2> DEFINE raw == [i \in who |-> cents]
  <2>1. claims = [scale |-> Max({1, Cardinality(who)}), raw |-> raw]
    BY <1>4 DEF Claims
  <2>2. who = who \ skipped
    BY <1>4
  <2>3. \A i \in who : raw[i] = Claim(i)
    BY <1>4
  <2>4. DOMAIN raw = who
    OBVIOUS
  <2> HIDE DEF raw, Claim, skipped, claims
  <2>5. claims.raw = raw /\ claims.scale = Max({1, Cardinality(who)})
    BY <2>1
  <2>6. {<<i, Claim(i)>> : i \in who \ skipped} = Graph(claims.raw, DOMAIN claims.raw)
    BY <2>2, <2>3, <2>4, <2>5 DEF Graph
  <2> QED
    BY <1>4, <2>5, <2>6 DEF Claim, skipped, claims
<1> QED
  BY <1>1, <1>2, <1>3, <1>4 DEF Modes

\* A value without a cent below zero, in sum or part.
Plus(v) == v.cents \in Nat /\ \A s \in v.shares : s[2] \in Nat

\* Nobody gets less than nothing of what is not below zero.
LEMMA BalancedPlus ==
  ASSUME NEW raw, \A i \in DOMAIN raw : raw[i] \in Nat, NEW scale \in Nat \ {0}, NEW total
  PROVE  \A s \in BalancedCents(raw, scale, total) : s[2] \in Nat
<1> DEFINE m == Missing(raw, scale, total)
           extra == [i \in DOMAIN raw |-> IF Cardinality(Ahead(raw, scale, i)) < m THEN 1 ELSE 0]
<1>1. \A i \in DOMAIN raw : raw[i] \div scale \in Nat /\ extra[i] \in Nat
  OBVIOUS
<1>2. Balanced(raw, scale, m) = [i \in DOMAIN raw |-> (raw[i] \div scale) + extra[i]]
  BY DEF Balanced
<1>3. BalancedCents(raw, scale, total) = Graph(Balanced(raw, scale, m), DOMAIN raw)
  BY BalancedIsGraph
<1> HIDE DEF extra, m
<1> QED
  BY <1>1, <1>2, <1>3 DEF Graph

\* So both make the same value of a plan, with no cent below zero.
LEMMA PlansAgree ==
  ASSUME BookInv, RowsInv, NEW id \in Stored, Plain(id), NEW m
  PROVE  /\ ReferencePlan(id, m) = EvaluateBooking(PlanEntry(id), m)
         /\ Plus(EvaluateBooking(PlanEntry(id), m))
<1> DEFINE b == booking[id]
           amount == AmountFor(b, OverridesOf(id), m)
           factor == Factor(b)
           cents == RoundAmount(amount * factor[1], factor[2])
           claims == Claims(b, amount, cents)
           pairs == Graph(claims.raw, DOMAIN claims.raw)
           complete == CompleteSplit(b, amount)
           goal == IF complete /\ DOMAIN claims.raw # {} THEN cents ELSE ClaimedCents(claims)
<1>1. /\ IsBooking(b) /\ DOMAIN b.splits \subseteq Int
  BY PersonsAre DEF BookInv, PlansAreSound
<1>2. /\ OverridesOf(id) \subseteq overrides /\ IsFiniteSet(OverridesOf(id))
      /\ \A o \in OverridesOf(id) : o.amount \in Nat /\ o.from \in Int /\ o.id \in Int
      /\ \A o, x \in OverridesOf(id) : o.id = x.id => o = x
  BY FS_Subset DEF OverridesOf, BookInv, AmountsAreSound, RowsInv, AmountsAreClean, Plain
<1>3. amount \in Nat /\ ReferenceAmount(b, OverridesOf(id), m) = amount
  <2>1. amount \in {b.amount} \cup {o.amount : o \in OverridesOf(id)}
    BY <1>2, AmountsAgree
  <2>2. b.amount \in Nat
    BY <1>1 DEF IsBooking, Plain
  <2>3. ReferenceAmount(b, OverridesOf(id), m) = amount
    BY <1>2, AmountsAgree
  <2> QED
    BY <1>2, <2>1, <2>2, <2>3
<1>4. factor[1] \in Nat /\ factor[2] \in Nat \ {0} /\ ReferenceFactor(b) = factor
  BY <1>1, FactorTyped, FactorsAgree
<1>5. /\ amount * factor[1] \in Nat
      /\ ReferenceRounded(amount * factor[1], factor[2]) = cents
      /\ cents \in Nat
  <2> DEFINE n == amount * factor[1]
             d == factor[2]
  <2>1. n \in Nat /\ d \in Nat \ {0}
    <3> HIDE DEF amount, factor
    <3> QED
      BY <1>3, <1>4
  <2>2. cents = RoundAmount(n, d)
    OBVIOUS
  <2> HIDE DEF n, d, cents
  <2>3. ReferenceRounded(n, d) = RoundAmount(n, d) /\ RoundAmount(n, d) \in Nat
    BY <2>1, RoundsAgree
  <2> QED
    BY <2>1, <2>2, <2>3 DEF n, d
<1>6. /\ claims.scale \in Nat \ {0}
      /\ DOMAIN claims.raw \subseteq DOMAIN b.splits
      /\ IsFiniteSet(DOMAIN claims.raw)
      /\ \A i \in DOMAIN claims.raw : claims.raw[i] \in Nat
  <2> HIDE DEF amount, cents
  <2>1. amount \in Int /\ cents \in Int /\ \A i \in DOMAIN b.splits : b.splits[i] >= 0
    BY <1>3, <1>5 DEF Plain
  <2> HIDE DEF b
  <2>2. /\ claims.scale \in Nat \ {0}
        /\ DOMAIN claims.raw \subseteq DOMAIN b.splits
        /\ IsFiniteSet(DOMAIN claims.raw)
    BY <1>1, <2>1, ClaimsTyped
  <2>3. \A i \in DOMAIN claims.raw : claims.raw[i] \in Nat
    BY <1>1, <1>3, <1>5, <2>1, PlainClaims
  <2> QED
    BY <2>2, <2>3
<1> DEFINE who == DOMAIN b.splits
           Claim(i) == CASE b.mode = "percent" -> cents * b.splits[i]
                         [] b.mode = "fixed" -> b.splits[i] * factor[1] [] b.mode = "equal" -> cents
           skipped == {i \in who : b.splits[i] = 0 /\ (b.mode = "percent" \/ (b.mode = "fixed" /\ amount # 0))}
           scale == CASE b.mode = "percent" -> 100 [] b.mode = "fixed" -> factor[2]
                      [] b.mode = "equal" -> Max({1, Cardinality(who)})
           raw == {<<i, Claim(i)>> : i \in who \ skipped}
           whole == CASE b.mode = "percent" -> SplitTotal(b) = 100
                      [] b.mode = "fixed" -> SplitTotal(b) = amount [] b.mode = "equal" -> who # {}
           target == IF whole /\ raw # {} THEN cents ELSE ReferenceRounded(Total(raw), scale)
<1>7. raw = pairs /\ claims.scale = scale
  <2> HIDE DEF amount, cents
  <2> QED
    BY <1>3, ClaimsAgree
<1>8. complete = whole
  <2> HIDE DEF amount
  <2> QED
    BY SplitsAgree
<1>9. ReferencePlan(id, m) = Valued(id, b, m, cents, ReferenceAllocate(raw, scale, target), whole)
  <2> DEFINE Plan(a, x, c) ==
                 LET Asks(i) == CASE b.mode = "percent" -> c * b.splits[i]
                                  [] b.mode = "fixed" -> b.splits[i] * x[1] [] b.mode = "equal" -> c
                     over == CASE b.mode = "percent" -> 100 [] b.mode = "fixed" -> x[2]
                               [] b.mode = "equal" -> Max({1, Cardinality(who)})
                     none == {i \in who : b.splits[i] = 0 /\ (b.mode = "percent" \/ (b.mode = "fixed" /\ a # 0))}
                     asked == {<<i, Asks(i)>> : i \in who \ none}
                     all == CASE b.mode = "percent" -> SplitTotal(b) = 100
                              [] b.mode = "fixed" -> SplitTotal(b) = a [] b.mode = "equal" -> who # {}
                     aim == IF all /\ asked # {} THEN c ELSE ReferenceRounded(Total(asked), over)
                 IN  Valued(id, b, m, c, ReferenceAllocate(asked, over, aim), all)
             A == ReferenceAmount(b, OverridesOf(id), m)
             F == ReferenceFactor(b)
  <2>1. ReferencePlan(id, m) = Plan(A, F, ReferenceRounded(A * F[1], F[2]))
    BY DEF ReferencePlan
  <2>2. Plan(amount, factor, cents) = Valued(id, b, m, cents, ReferenceAllocate(raw, scale, target), whole)
    OBVIOUS
  <2>3. A = amount /\ F = factor
    BY <1>3, <1>4
  <2> HIDE DEF Plan, A, F, raw, scale, target, whole, cents, factor, amount
  <2>4. ReferencePlan(id, m) = Plan(amount, factor, ReferenceRounded(amount * factor[1], factor[2]))
    BY <2>1, <2>3
  <2>5. ReferenceRounded(amount * factor[1], factor[2]) = cents
    BY <1>5
  <2> QED
    BY <2>2, <2>4, <2>5
<1>10. EvaluateBooking(PlanEntry(id), m)
           = Valued(id, b, m, cents, BalancedCents(claims.raw, claims.scale, goal), complete)
  BY DEF EvaluateBooking, PlanEntry
<1> HIDE DEF claims, scale, raw, whole, complete, cents, amount
<1>11. Total(pairs) = SumFunctionOnSet(claims.raw, DOMAIN claims.raw) /\ Total(pairs) \in Nat
  <2>1. \A i \in DOMAIN claims.raw : claims.raw[i] \in Int
    BY <1>6
  <2>2. Total(pairs) = SumFunctionOnSet(claims.raw, DOMAIN claims.raw)
    BY <1>6, <2>1, TallyOf
  <2>3. SumFunctionOnSet(claims.raw, DOMAIN claims.raw) \in Nat
    BY <1>6, SumNotNegative
  <2> QED
    BY <2>2, <2>3
<1>12. ClaimedCents(claims) = RoundAmount(Total(pairs), claims.scale)
  BY <1>11 DEF ClaimedCents, SumFunction
<1>13. ClaimedCents(claims) = ReferenceRounded(Total(pairs), claims.scale) /\ ClaimedCents(claims) \in Nat
  BY <1>6, <1>11, <1>12, RoundsAgree
<1>14. pairs # {} <=> DOMAIN claims.raw # {}
  BY DEF Graph
<1>15. goal = target /\ target \in Int
  BY <1>5, <1>7, <1>8, <1>13, <1>14
<1> HIDE DEF goal, target, pairs
<1>16. ReferenceAllocate(pairs, claims.scale, target) = BalancedCents(claims.raw, claims.scale, target)
  <2> DEFINE f == claims.raw
             s == claims.scale
  <2>1. /\ DOMAIN f \subseteq Int /\ IsFiniteSet(DOMAIN f) /\ \A i \in DOMAIN f : f[i] \in Nat
        /\ s \in Nat \ {0} /\ pairs = Graph(f, DOMAIN f)
    BY <1>1, <1>6 DEF pairs
  <2> HIDE DEF f, s
  <2>2. ReferenceAllocate(pairs, s, target) = BalancedCents(f, s, target)
    BY <1>15, <2>1, AllocationsAgree
  <2> QED
    BY <2>2 DEF f, s
<1>17. Plus(EvaluateBooking(PlanEntry(id), m))
  <2> DEFINE shares == BalancedCents(claims.raw, claims.scale, goal)
  <2>1. EvaluateBooking(PlanEntry(id), m).cents = cents /\ EvaluateBooking(PlanEntry(id), m).shares = shares
    BY <1>10 DEF Valued
  <2>2. \A s \in shares : s[2] \in Nat
    BY <1>6, BalancedPlus
  <2> HIDE DEF shares
  <2> QED
    BY <1>5, <2>1, <2>2 DEF Plus
<1> QED
  BY <1>7, <1>8, <1>9, <1>10, <1>15, <1>16, <1>17

\* Both make the same value of an accepted payment: it is divided already.
LEMMA PaymentsAgree ==
  ASSUME BookInv, RowsInv, NEW p \in Payments, payment[p].decision = "accepted", NEW m
  PROVE  LET v == EvaluateBooking(PaymentEntry(p, payment[p].splits), m)
         IN  ReferencePayment(p, m) = v /\ Plus(v)
<1> DEFINE splits == payment[p].splits
           e == PaymentEntry(p, splits)
           b == e.booking
           A == Statement[p].amount
           cents == RoundAmount(AmountFor(b, e.overrides, m) * Factor(b)[1], Factor(b)[2])
           some == {j \in DOMAIN b.splits : b.splits[j] # 0 \/ A = 0}
           raw == [i \in some |-> b.splits[i] * 1]
           claims == Claims(b, AmountFor(b, e.overrides, m), cents)
           complete == CompleteSplit(b, AmountFor(b, e.overrides, m))
           target == IF complete /\ DOMAIN claims.raw # {} THEN cents ELSE ClaimedCents(claims)
           kept == {s \in splits : s[2] # 0 \/ A = 0}
           part == [i \in Holders(splits) |-> Part(splits, i)]
<1>1. /\ IsTally(splits) /\ Holders(splits) \subseteq members
      /\ splits # {} /\ \A s \in splits : s[2] >= 0
      /\ Total(splits) = A /\ A \in Nat
  BY StatementIsTyped
     DEF BookInv, PaymentsAreSound, RowsInv, DecisionsAreClean, ValidAllocation
<1>2. /\ IsEntry(e) /\ e.id = p
  BY PaymentIsEntry
<1>3. /\ b.frequency = "once" /\ b.interval = 1 /\ b.amount = A /\ b.mode = "fixed"
      /\ b.splits = part /\ e.overrides = {}
  BY DEF PaymentEntry
<1> HIDE DEF e
<1>4. Factor(b) = <<1, 1>>
  BY <1>3 DEF Factor
<1>5. AmountFor(b, e.overrides, m) = A
  BY <1>3 DEF AmountFor
<1>6. cents = A
  <2>1. A * 1 = A
    BY <1>1
  <2>2. cents = RoundAmount(A, 1)
    BY <1>4, <1>5, <2>1
  <2>3. RoundAmount(A, 1) = (2 * A + 1) \div 2
    BY <1>1 DEF RoundAmount, Quotient
  <2>4. (2 * A + 1) \div 2 = A
    BY <1>1
  <2> QED
    BY <2>2, <2>3, <2>4
<1>7. claims.scale = 1 /\ claims.raw = raw
  BY <1>3, <1>4, <1>5 DEF Claims
<1>80. /\ \A i \in Holders(splits) : part[i] \in Nat /\ <<i, part[i]>> \in splits
       /\ \A s \in splits : s[1] \in Holders(splits) /\ s = <<s[1], part[s[1]]>> /\ s[2] = part[s[1]]
  <2>1. \A i \in Holders(splits) : part[i] = Part(splits, i)
    OBVIOUS
  <2> HIDE DEF part
  <2>2. splits = {<<i, part[i]>> : i \in Holders(splits)}
    BY <1>1, <2>1 DEF IsTally
  <2>3. \A i \in Holders(splits) : <<i, part[i]>> \in splits
    BY <2>2
  <2>4. \A i \in Holders(splits) : part[i] \in Int /\ part[i] >= 0
    <3> SUFFICES ASSUME NEW i \in Holders(splits)
                 PROVE  part[i] \in Int /\ part[i] >= 0
      OBVIOUS
    <3>1. <<i, part[i]>>[2] >= 0
      BY <1>1, <2>3
    <3> QED
      BY <1>1, <2>1, <3>1 DEF IsTally
  <2>5. \A s \in splits : s[1] \in Holders(splits) /\ s = <<s[1], part[s[1]]>> /\ s[2] = part[s[1]]
    BY <2>2
  <2> QED
    BY <1>1, <2>3, <2>4, <2>5 DEF IsTally
<1>8. IsFiniteSet(Holders(splits)) /\ \A i \in Holders(splits) : part[i] \in Nat /\ part[i] \in Int
  <2>1. IsFiniteSet(Holders(splits))
    BY <1>1 DEF IsTally
  <2> HIDE DEF part
  <2>2. \A i \in Holders(splits) : part[i] \in Nat
    BY <1>80
  <2> QED
    BY <2>1, <2>2
<1>9. SumFunctionOnSet(part, Holders(splits)) = A
  <2>1. Total(splits) = SumFunctionOnSet(part, Holders(splits))
    BY <1>1, <1>8, TallyTotal
  <2> QED
    BY <1>1, <2>1
<1>10. DOMAIN b.splits = Holders(splits) /\ DOMAIN raw = some /\ \A i \in some : raw[i] = part[i]
  <2>1. \A i \in Holders(splits) : part[i] * 1 = part[i]
    <3> HIDE DEF part
    <3> QED
      BY <1>8
  <2>2. DOMAIN part = Holders(splits)
    OBVIOUS
  <2> HIDE DEF part
  <2> QED
    BY <1>3, <2>1, <2>2
<1>11. some = {i \in Holders(splits) : part[i] # 0 \/ A = 0}
  BY <1>3, <1>10
<1>12. complete
  <2> DEFINE values == [i \in DOMAIN b.splits |-> IF b.mode = "percent" THEN ClampPercent(b.splits[i])
                                                  ELSE b.splits[i]]
  <2>1. complete = (SumFunction(values) = A)
    BY <1>3, <1>5 DEF CompleteSplit
  <2>2. DOMAIN values = Holders(splits) /\ \A i \in Holders(splits) : values[i] = part[i]
    BY <1>3, <1>10
  <2>3. SumFunction(values) = SumFunctionOnSet(values, Holders(splits))
    BY <2>2 DEF SumFunction
  <2> HIDE DEF values, part
  <2>4. SumFunctionOnSet(part, Holders(splits)) = SumFunctionOnSet(values, Holders(splits))
    BY <1>8, <2>2, SumsAgree
  <2> QED
    BY <1>9, <2>1, <2>3, <2>4
<1> HIDE DEF part, raw, some, claims, complete, cents
<1>13. some # {}
  <2>1. CASE A = 0
    <3>1. Holders(splits) # {}
      BY <1>1 DEF Holders
    <3> QED
      BY <1>11, <2>1, <3>1
  <2>2. CASE A # 0
    <3>1. ASSUME \A i \in Holders(splits) : part[i] = 0
          PROVE  FALSE
      BY <1>8, <1>9, <2>2, <3>1, SumOfZeros
    <3> QED
      BY <1>11, <3>1
  <2> QED
    BY <2>1, <2>2
<1>14. target = A
  BY <1>6, <1>7, <1>10, <1>12, <1>13
<1>15. SumFunctionOnSet(raw, some) = A
  <2>1. \A i \in Holders(splits) \ some : part[i] = 0
    BY <1>11
  <2>2. some \in SUBSET Holders(splits) /\ \A i \in some : part[i] \in Int
    <3>1. \A i \in some : i \in Holders(splits)
      BY <1>11
    <3> QED
      BY <1>8, <3>1
  <2>3. SumFunctionOnSet(part, Holders(splits)) = SumFunctionOnSet(part, some)
    BY <1>8, <2>1, <2>2, SumOfRest
  <2>4. IsFiniteSet(some)
    BY <1>8, <2>2, FS_Subset
  <2>5. SumFunctionOnSet(raw, some) = SumFunctionOnSet(part, some)
    BY <1>10, <2>2, <2>4, SumsAgree
  <2> QED
    BY <1>9, <2>3, <2>5
<1> DEFINE parts == BalancedCents(raw, 1, A)
<1>16. /\ DOMAIN raw \subseteq Int /\ IsFiniteSet(DOMAIN raw)
       /\ \A i \in DOMAIN raw : raw[i] \in Nat /\ raw[i] = part[i]
  BY <1>1, <1>8, <1>10, <1>11, PersonsAre, FS_Subset DEF BookInv
<1>17. /\ IsTally(parts) /\ Holders(parts) = some /\ Total(parts) = A
       /\ \A i \in some : Part(parts, i) \in Int /\ Near(Part(parts, i), raw[i], 1)
  <2>1. Near(A, SumFunctionOnSet(raw, DOMAIN raw), 1)
    BY <1>1, <1>10, <1>15 DEF Near
  <2>2. \A i \in DOMAIN raw : raw[i] \in Int
    BY <1>16
  <2>3. 1 \in Nat \ {0} /\ A \in Int
    BY <1>1
  <2> QED
    BY <1>10, <1>16, <2>1, <2>2, <2>3, BalancedCentsAddUp
<1>18. \A i \in some : Part(parts, i) = part[i]
  <2> SUFFICES ASSUME NEW i \in some
               PROVE  Part(parts, i) = part[i]
    OBVIOUS
  <2> DEFINE x == Part(parts, i)
  <2>1. x \in Int /\ Near(x, part[i], 1) /\ part[i] \in Nat
    BY <1>10, <1>16, <1>17
  <2> HIDE DEF x
  <2>2. x = part[i]
    BY <2>1 DEF Near
  <2> QED
    BY <2>2 DEF x
<1>19. parts = kept
  <2>1. parts = {<<i, part[i]>> : i \in some}
    BY <1>17, <1>18 DEF IsTally
  <2>2. kept = {<<i, part[i]>> : i \in some}
    <3>1. \A i \in Holders(splits) : <<i, part[i]>>[2] = part[i]
      OBVIOUS
    <3> QED
      BY <1>80, <1>11, <3>1
  <2> QED
    BY <2>1, <2>2
<1> DEFINE v == EvaluateBooking(e, m)
<1> HIDE DEF parts, target
<1>20. v = Valued(p, b, m, cents, BalancedCents(claims.raw, claims.scale, target), complete)
  BY <1>2 DEF EvaluateBooking, target, complete, claims, cents
<1>21. v = Valued(p, b, m, A, kept, complete)
  BY <1>6, <1>7, <1>14, <1>19, <1>20 DEF parts
<1>22. A - Total(kept) = 0 /\ complete = TRUE
  <2>1. complete = TRUE
    BY <1>12 DEF complete, CompleteSplit
  <2>2. Total(kept) = A
    BY <1>17, <1>19
  <2> QED
    BY <1>1, <2>1, <2>2
<1>23. ReferencePayment(p, m) = [Valued(p, b, m, A, kept, TRUE) EXCEPT !.unassigned = 0]
  BY <1>3 DEF ReferencePayment, e
<1> DEFINE w == Valued(p, b, m, A, kept, TRUE)
<1>24. w = [id |-> p, booking |-> b, month |-> m, cents |-> A, shares |-> kept, unassigned |-> 0,
            complete |-> TRUE]
  BY <1>22 DEF Valued
<1> HIDE DEF w, kept, b
<1>25. [w EXCEPT !.unassigned = 0] = w
  <2> HIDE DEF A
  <2>1. DOMAIN w = {"id", "booking", "month", "cents", "shares", "unassigned", "complete"}
    BY <1>24
  <2>2. w.unassigned = 0 /\ w = [f \in DOMAIN w |-> w[f]]
    BY <1>24
  <2> HIDE DEF w
  <2> QED
    BY <2>1, <2>2
<1>26. v = w
  BY <1>21, <1>22 DEF w
<1>27. Plus(w)
  <2>1. \A s \in kept : s[2] \in Nat
    BY <1>80 DEF kept
  <2> QED
    BY <1>1, <1>24, <2>1 DEF Plus
<1> QED
  BY <1>23, <1>25, <1>26, <1>27 DEF w, e

\* The clean state the two calculations are compared in.
Comparable == BookInv /\ RowsInv /\ SourceFindings = {}

\* Both calculations find the same bookings and payments in a month, with the same values
\* and no cent below zero.
LEMMA MonthsAgree ==
  ASSUME Comparable, NEW basis, NEW m
  PROVE  /\ ReferenceMonth(basis, m) = MonthValues(basis, m)
         /\ \A v \in MonthValues(basis, m) : Plus(v)
<1> USE DEF Comparable
<1>1. CASE ActualMonth(basis, m)
  <2> DEFINE S == {q \in Payments : payment[q].decision = "accepted" /\ Statement[q].month = m}
  <2>1. ReferenceMonth(basis, m) = {ReferencePayment(p, m) : p \in S}
    BY <1>1 DEF ReferenceMonth, ActualMonth
  <2>2. MonthValues(basis, m) = {EvaluateBooking(PaymentEntry(p, payment[p].splits), m) : p \in S}
    BY <1>1 DEF MonthValues, Entries, PaymentsIn, AcceptedIn
  <2>3. \A p \in S : /\ ReferencePayment(p, m) = EvaluateBooking(PaymentEntry(p, payment[p].splits), m)
                     /\ Plus(EvaluateBooking(PaymentEntry(p, payment[p].splits), m))
    BY PaymentsAgree
  <2> QED
    BY <2>1, <2>2, <2>3
<1>2. CASE ~ActualMonth(basis, m)
  <2> DEFINE S == {b \in Stored : ActiveIn(booking[b], m)}
  <2>0. \A b \in Stored : ReferenceActive(booking[b], m) = ActiveIn(booking[b], m)
    <3> SUFFICES ASSUME NEW b \in Stored
                 PROVE  ReferenceActive(booking[b], m) = ActiveIn(booking[b], m)
      OBVIOUS
    <3> DEFINE from == booking[b].from
               until == booking[b].until
    <3>1. (until >= m) = (m <= until)
      OBVIOUS
    <3> QED
      BY <3>1 DEF ReferenceActive, ActiveIn, Covers
  <2>1. ReferenceMonth(basis, m) = {ReferencePlan(b, m) : b \in S}
    BY <1>2, <2>0 DEF ReferenceMonth, ActualMonth
  <2>2. MonthValues(basis, m) = {EvaluateBooking(PlanEntry(b), m) : b \in S}
    BY <1>2 DEF MonthValues, Entries, PlansIn
  <2>3. \A b \in S : /\ ReferencePlan(b, m) = EvaluateBooking(PlanEntry(b), m)
                     /\ Plus(EvaluateBooking(PlanEntry(b), m))
    BY BookingsArePlain, PlansAgree
  <2> QED
    BY <2>1, <2>2, <2>3
<1> QED
  BY <1>1, <1>2

\* And so of the year.
LEMMA YearsAgree ==
  ASSUME Comparable, NEW basis
  PROVE  /\ UNION {ReferenceMonth(basis, m) : m \in Months} = Prepare(basis)
         /\ \A v \in Prepare(basis) : Plus(v)
<1>1. \A m \in Months : /\ ReferenceMonth(basis, m) = MonthValues(basis, m)
                       /\ \A v \in MonthValues(basis, m) : Plus(v)
  BY MonthsAgree
<1> QED
  BY <1>1 DEF Prepare

-----------------------------------------------------------------------------
(***************************************************************************)
(* The scope of a report: a member, or everyone.                           *)
(***************************************************************************)
Scopes == {Everyone} \cup members
ScopeOf(values, member) == [v \in values |-> Scoped(v, member)]

\* What a value costs in a scope is a number, and nothing if it is not carried there.
LEMMA ScopedTyped ==
  ASSUME NEW v, IsValue(v), members \subseteq Persons, NEW member
  PROVE  /\ Scoped(v, member) \in Int
         /\ ~Carries(v, member) => Scoped(v, member) = 0
<1>1. v.cents \in Int /\ Part(v.shares, member) \in Int
  BY ValueTyped
<1>2. ~Carries(v, member) => Scoped(v, member) = 0
  BY DEF Carries, Scoped, Part
<1> QED
  BY <1>1, <1>2 DEF Scoped

\* The sum of a scope over some of the values.
LEMMA ScopeWithin ==
  ASSUME NEW values, Values(values), members \subseteq Persons, NEW some \in SUBSET values, NEW member
  PROVE  /\ IsFiniteSet(some) /\ Values(some)
         /\ \A v \in some : ScopeOf(values, member)[v] = Scoped(v, member) /\ Scoped(v, member) \in Int
         /\ InScope(some, member) = SumFunctionOnSet(ScopeOf(values, member), some)
         /\ InScope(some, member) \in Int
<1>1. IsFiniteSet(some) /\ Values(some)
  BY FS_Subset DEF Values
<1>2. \A v \in some : Scoped(v, member) \in Int
  BY <1>1, ScopedTyped DEF Values
<1> DEFINE f == [v \in some |-> Scoped(v, member)]
           g == ScopeOf(values, member)
<1>3. \A v \in some : g[v] = Scoped(v, member) /\ f[v] = g[v] /\ f[v] \in Int
  BY <1>2 DEF ScopeOf
<1>4. InScope(some, member) = SumFunctionOnSet(f, some)
  BY DEF InScope, SumFunction
<1> HIDE DEF f, g
<1>5. SumFunctionOnSet(f, some) = SumFunctionOnSet(g, some)
  BY <1>1, <1>3, SumsAgree
<1>6. SumFunctionOnSet(f, some) \in Int
  BY <1>1, <1>3, SumWithout
<1> QED
  BY <1>1, <1>2, <1>3, <1>4, <1>5, <1>6 DEF g

\* Values that cost nothing in the scope can be left out.
LEMMA ScopeOfMost ==
  ASSUME NEW values, Values(values), members \subseteq Persons, NEW some \in SUBSET values, NEW member,
         \A v \in values \ some : Scoped(v, member) = 0
  PROVE  InScope(some, member) = InScope(values, member)
<1> DEFINE f == ScopeOf(values, member)
<1>1. /\ IsFiniteSet(values)
      /\ \A v \in some : f[v] \in Int
      /\ InScope(some, member) = SumFunctionOnSet(f, some)
  BY ScopeWithin DEF Values
<1>2. InScope(values, member) = SumFunctionOnSet(f, values)
  BY ScopeWithin
<1>3. \A v \in values \ some : f[v] = 0
  BY DEF ScopeOf
<1> HIDE DEF f
<1>4. SumFunctionOnSet(f, values) = SumFunctionOnSet(f, some)
  BY <1>1, <1>3, SumOfRest
<1> QED
  BY <1>1, <1>2, <1>4

LEMMA ScopeOfNone ==
  ASSUME NEW member
  PROVE  InScope({}, member) = 0
BY SumOfNone DEF InScope, SumFunction

\* Those that are carried are enough.
CarriedIn(values, member) == {v \in values : Carries(v, member)}
LEMMA ScopeOfCarried ==
  ASSUME NEW values, Values(values), members \subseteq Persons, NEW member,
         NEW some, CarriedIn(values, member) \subseteq some, some \subseteq values
  PROVE  InScope(some, member) = InScope(values, member)
<1>1. \A v \in values \ some : Scoped(v, member) = 0
  BY ScopedTyped DEF CarriedIn, Values
<1> QED
  BY <1>1, ScopeOfMost

\* A breakdown has one sum for each group.
KeysOf(values, field) == {v.booking[field] : v \in values}
LEMMA SumsAreTally ==
  ASSUME NEW values, Values(values), members \subseteq Persons, NEW member, NEW field
  PROVE  /\ IsTally(SumsBy(values, member, field))
         /\ Holders(SumsBy(values, member, field)) = KeysOf(values, field)
         /\ IsFiniteSet(SumsBy(values, member, field))
         /\ \A k : Part(SumsBy(values, member, field), k) = InScope(GroupOf(values, field, k), member)
         /\ Total(SumsBy(values, member, field)) = InScope(values, member)
<1> DEFINE K == KeysOf(values, field)
           key == [v \in values |-> v.booking[field]]
           sums == [k \in K |-> InScope(GroupOf(values, field, k), member)]
           f == ScopeOf(values, member)
           parts == SumsBy(values, member, field)
<1>1. K = ImageOf(key, values)
  BY DEF KeysOf, ImageOf
<1>2. IsFiniteSet(values)
  BY DEF Values
<1>3. IsFiniteSet(K)
  <2> HIDE DEF K, key
  <2> QED
    BY <1>1, <1>2, NamesAreFinite
<1>4. \A k : GroupOf(values, field, k) \in SUBSET values
  BY DEF GroupOf
<1>5. \A k \in K : /\ sums[k] = SumFunctionOnSet(f, GroupOf(values, field, k))
                   /\ sums[k] = InScope(GroupOf(values, field, k), member)
                   /\ sums[k] \in Int
  BY <1>4, ScopeWithin
<1>6. parts = Graph(sums, K)
  BY DEF SumsBy, Graph, GroupOf, KeysOf
<1>7. Grouped(f, values, K, key, sums)
  <2>1. \A v \in values : key[v] \in K
    BY DEF KeysOf
  <2>2. \A k \in K : {v \in values : key[v] = k} = GroupOf(values, field, k)
    BY DEF GroupOf
  <2> QED
    BY <1>5, <2>1, <2>2 DEF Grouped
<1>8. /\ \A v \in values : f[v] \in Int
      /\ InScope(values, member) = SumFunctionOnSet(f, values)
  BY ScopeWithin
<1>9. \A k : k \notin K => GroupOf(values, field, k) = {}
  BY DEF GroupOf, KeysOf
<1> HIDE DEF K, key, sums, f, parts
<1>10. /\ IsTally(parts) /\ Holders(parts) = K /\ IsFiniteSet(parts)
       /\ \A k \in K : Part(parts, k) = sums[k]
       /\ Total(parts) = SumFunctionOnSet(sums, K)
  BY <1>3, <1>5, <1>6, TallyOf
<1>11. SumFunctionOnSet(f, values) = SumFunctionOnSet(sums, K)
  BY <1>2, <1>3, <1>7, <1>8, SumByGroups
<1>12. \A k : Part(parts, k) = InScope(GroupOf(values, field, k), member)
  <2> SUFFICES ASSUME NEW k
               PROVE  Part(parts, k) = InScope(GroupOf(values, field, k), member)
    OBVIOUS
  <2>1. CASE k \in K
    BY <1>5, <1>10, <2>1
  <2>2. CASE k \notin K
    BY <1>9, <1>10, <2>2, ScopeOfNone DEF Part
  <2> QED
    BY <2>1, <2>2
<1> QED
  BY <1>8, <1>10, <1>11, <1>12 DEF parts, K

\* A table lists the same, whether the values that are not carried are in it or not.
LEMMA ListedAgree ==
  ASSUME NEW values, Values(values), members \subseteq Persons, NEW member, NEW field,
         NEW some, CarriedIn(values, member) \subseteq some, some \subseteq values
  PROVE  Listed(SumsBy(some, member, field)) = Listed(SumsBy(values, member, field))
<1> DEFINE A == SumsBy(some, member, field)
           B == SumsBy(values, member, field)
<1>1. Values(some)
  BY ScopeWithin
<1>2. \A k : InScope(GroupOf(some, field, k), member) = InScope(GroupOf(values, field, k), member)
  <2> SUFFICES ASSUME NEW k
               PROVE  InScope(GroupOf(some, field, k), member) = InScope(GroupOf(values, field, k), member)
    OBVIOUS
  <2> DEFINE S == GroupOf(some, field, k)
             T == GroupOf(values, field, k)
  <2>1. T \in SUBSET values /\ S \subseteq T /\ CarriedIn(T, member) \subseteq S
    BY DEF GroupOf, CarriedIn
  <2>2. Values(T)
    BY <2>1, ScopeWithin
  <2> HIDE DEF S, T
  <2>3. InScope(S, member) = InScope(T, member)
    BY <2>1, <2>2, ScopeOfCarried
  <2> QED
    BY <2>3 DEF S, T
<1>3. /\ \A k : Part(A, k) = Part(B, k)
      /\ A = {<<k, Part(A, k)>> : k \in Holders(A)}
      /\ B = {<<k, Part(B, k)>> : k \in Holders(B)}
  <2>1. \A k : Part(A, k) = InScope(GroupOf(some, field, k), member)
    BY <1>1, SumsAreTally
  <2>2. \A k : Part(B, k) = InScope(GroupOf(values, field, k), member)
    BY SumsAreTally
  <2>3. IsTally(A) /\ IsTally(B)
    BY <1>1, SumsAreTally
  <2> HIDE DEF A, B
  <2> QED
    BY <1>2, <2>1, <2>2, <2>3 DEF IsTally
<1>4. \A k : k \notin Holders(A) => Part(A, k) = 0
  BY DEF Part
<1>5. \A k : k \notin Holders(B) => Part(B, k) = 0
  BY DEF Part
<1> HIDE DEF A, B
<1>6. Listed(A) = Listed(B)
  BY <1>3, <1>4, <1>5 DEF Listed
<1> QED
  BY <1>6 DEF A, B

\* What is above zero makes up a sum of amounts of which none is below zero.
Positive(parts) == {s \in parts : s[2] > 0}
LEMMA PositivesAddUp ==
  ASSUME NEW values, Values(values), members \subseteq Persons, NEW member, NEW field,
         \A v \in values : Scoped(v, member) >= 0
  PROVE  /\ \A k : InScope(GroupOf(values, field, k), member) \in Nat
         /\ \A s \in SumsBy(values, member, field) : s[2] \in Nat
         /\ InScope(values, member) \in Nat
         /\ Total(Positive(SumsBy(values, member, field))) = InScope(values, member)
<1> DEFINE parts == SumsBy(values, member, field)
           f == ScopeOf(values, member)
           cents == [s \in parts |-> s[2]]
           some == Positive(parts)
<1>1. \A T \in SUBSET values : InScope(T, member) \in Nat
  <2> SUFFICES ASSUME NEW T \in SUBSET values
               PROVE  InScope(T, member) \in Nat
    OBVIOUS
  <2>1. /\ IsFiniteSet(T)
        /\ \A v \in T : f[v] = Scoped(v, member) /\ Scoped(v, member) \in Int
        /\ InScope(T, member) = SumFunctionOnSet(f, T)
    BY ScopeWithin
  <2>2. \A v \in T : f[v] \in Nat
    BY <2>1
  <2> HIDE DEF f
  <2>3. SumFunctionOnSet(f, T) \in Nat
    BY <2>1, <2>2, SumNotNegative
  <2> QED
    BY <2>1, <2>3
<1>2. \A k : GroupOf(values, field, k) \in SUBSET values
  BY DEF GroupOf
<1>3. \A s \in parts : s[2] \in Nat
  <2> DEFINE sum == [k \in KeysOf(values, field) |-> InScope(GroupOf(values, field, k), member)]
  <2>1. \A k \in KeysOf(values, field) : sum[k] \in Nat
    BY <1>1, <1>2
  <2>2. parts = {<<k, sum[k]>> : k \in KeysOf(values, field)}
    BY DEF SumsBy, GroupOf, KeysOf
  <2> HIDE DEF sum, parts
  <2> QED
    BY <2>1, <2>2
<1>4. IsFiniteSet(parts) /\ Total(parts) = InScope(values, member)
  BY SumsAreTally
<1>5. /\ some \in SUBSET parts
      /\ \A s \in some : cents[s] \in Int
      /\ \A s \in parts \ some : cents[s] = 0
  BY <1>3 DEF Positive
<1>6. Total(parts) = SumFunctionOnSet(cents, parts)
  BY DEF Total, SumFunction
<1>7. Total(some) = SumFunctionOnSet([s \in some |-> s[2]], some)
  BY DEF Total, SumFunction
<1>8. \A s \in some : [x \in some |-> x[2]][s] = cents[s]
  BY <1>5
<1> HIDE DEF parts, cents, some
<1>9. IsFiniteSet(some)
  BY <1>4, <1>5, FS_Subset
<1>10. SumFunctionOnSet([s \in some |-> s[2]], some) = SumFunctionOnSet(cents, some)
  <2> DEFINE g == [s \in some |-> s[2]]
  <2>1. \A s \in some : g[s] = cents[s] /\ g[s] \in Int
    BY <1>5, <1>8
  <2> HIDE DEF g
  <2>2. SumFunctionOnSet(g, some) = SumFunctionOnSet(cents, some)
    BY <1>9, <2>1, SumsAgree
  <2> QED
    BY <2>2 DEF g
<1>11. SumFunctionOnSet(cents, parts) = SumFunctionOnSet(cents, some)
  BY <1>4, <1>5, SumOfRest
<1>12. Total(some) = InScope(values, member)
  BY <1>4, <1>6, <1>7, <1>10, <1>11
<1> QED
  BY <1>1, <1>2, <1>3, <1>12 DEF parts, some

-----------------------------------------------------------------------------
(***************************************************************************)
(* Reports and settlements.                                                *)
(***************************************************************************)
\* What a report tells of values.
ReportTells(got, values, member) ==
    LET income == Side(values, "income")
        costs == Side(values, "expense")
    IN  /\ got.income = InScope(income, member)
        /\ got.expense = InScope(costs, member)
        /\ got.balance = InScope(income, member) - InScope(costs, member)
        /\ got.unassigned = IF member = Everyone THEN Unassigned(costs) ELSE 0
        /\ Listed(got.incomeCategories) = Listed(SumsBy(income, member, "category"))
        /\ Listed(got.categories) = Listed(SumsBy(costs, member, "category"))
        /\ Listed(got.natures) = Listed(SumsBy(costs, member, "nature"))
        /\ Listed(got.classes) = Listed(SumsBy(costs, member, "class"))

LEMMA ListedTwice ==
  ASSUME NEW sums
  PROVE  Listed(Listed(sums)) = Listed(sums)
BY DEF Listed

\* The report tells what it is made of.
LEMMA BuiltReportTells ==
  ASSUME NEW values, Values(values), members \subseteq Persons, NEW member
  PROVE  /\ ReportTells(BuildReport(values, member), values, member)
         /\ \A x : ReportTells([BuildReport(values, member) EXCEPT !.recorded = x], values, member)
<1> DEFINE mine == {v \in values : Carries(v, member)}
           got == BuildReport(values, member)
           Names == {"recorded", "income", "expense", "balance", "unassigned", "members",
                     "incomeCategories", "categories", "natures", "classes"}
<1>1. /\ DOMAIN got = Names
      /\ got.income = InScope(Side(mine, "income"), member)
      /\ got.expense = InScope(Side(mine, "expense"), member)
      /\ got.balance = InScope(Side(mine, "income"), member) - InScope(Side(mine, "expense"), member)
      /\ got.unassigned = IF member # Everyone THEN 0 ELSE Unassigned(Side(mine, "expense"))
      /\ got.incomeCategories = Listed(SumsBy(Side(mine, "income"), member, "category"))
      /\ got.categories = Listed(SumsBy(Side(mine, "expense"), member, "category"))
      /\ got.natures = SumsBy(Side(mine, "expense"), member, "nature")
      /\ got.classes = SumsBy(Side(mine, "expense"), member, "class")
  BY DEF BuildReport
<1>2. ASSUME NEW d
      PROVE  /\ InScope(Side(mine, d), member) = InScope(Side(values, d), member)
             /\ \A field : Listed(SumsBy(Side(mine, d), member, field)) = Listed(SumsBy(Side(values, d), member, field))
  <2> DEFINE S == Side(mine, d)
             T == Side(values, d)
  <2>1. T \in SUBSET values /\ S \subseteq T /\ CarriedIn(T, member) \subseteq S
    BY DEF Side, CarriedIn
  <2>2. Values(T)
    BY <2>1, ScopeWithin
  <2> HIDE DEF S, T, mine
  <2>3. InScope(S, member) = InScope(T, member)
    BY <2>1, <2>2, ScopeOfCarried
  <2>4. \A field : Listed(SumsBy(S, member, field)) = Listed(SumsBy(T, member, field))
    BY <2>1, <2>2, ListedAgree
  <2> QED
    BY <2>3, <2>4 DEF S, T
<1>3. member = Everyone => mine = values
  BY DEF Carries
<1> HIDE DEF got, mine
<1>4. ReportTells(got, values, member)
  BY <1>1, <1>2, <1>3, ListedTwice DEF ReportTells
<1>5. \A x : ReportTells([got EXCEPT !.recorded = x], values, member)
  <2> SUFFICES ASSUME NEW x
               PROVE  ReportTells([got EXCEPT !.recorded = x], values, member)
    OBVIOUS
  <2> DEFINE other == [got EXCEPT !.recorded = x]
  <2>1. /\ other.income = got.income /\ other.expense = got.expense /\ other.balance = got.balance
        /\ other.unassigned = got.unassigned /\ other.incomeCategories = got.incomeCategories
        /\ other.categories = got.categories /\ other.natures = got.natures
        /\ other.classes = got.classes
    BY <1>1
  <2> HIDE DEF other
  <2>2. ReportTells(other, values, member)
    BY <1>4, <2>1 DEF ReportTells
  <2> QED
    BY <2>2 DEF other
<1> QED
  BY <1>4, <1>5 DEF got

\* And so does the reference.
LEMMA ReferenceTells ==
  ASSUME NEW values, Values(values), NEW member
  PROVE  LET want == ReferenceReport(values, member)
             income == Side(values, "income")
             costs == Side(values, "expense")
         IN  /\ want.income = InScope(income, member)
             /\ want.expense = InScope(costs, member)
             /\ want.balance = InScope(income, member) - InScope(costs, member)
             /\ want.unassigned = IF member = Everyone THEN Unassigned(costs) ELSE 0
             /\ want.incomeCategories = SumsBy(income, member, "category")
             /\ want.categories = SumsBy(costs, member, "category")
             /\ want.natures = SumsBy(costs, member, "nature")
             /\ want.classes = SumsBy(costs, member, "class")
<1> DEFINE Cents(v) == IF member = Everyone THEN v.cents ELSE Part(v.shares, member)
           Sum(of) == SumFunction([v \in of |-> Cents(v)])
           income == {v \in values : v.booking.direction = "income"}
           expense == values \ income
           By(of, field) == {<<k, Sum({v \in of : v.booking[field] = k})>> : k \in {v.booking[field] : v \in of}}
           want == ReferenceReport(values, member)
<1>1. want = [income |-> Sum(income), expense |-> Sum(expense), balance |-> Sum(income) - Sum(expense),
              unassigned |-> IF member = Everyone THEN SumFunction([v \in expense |-> v.unassigned]) ELSE 0,
              incomeCategories |-> By(income, "category"), categories |-> By(expense, "category"),
              natures |-> By(expense, "nature"), classes |-> By(expense, "class")]
  BY DEF ReferenceReport
<1>2. \A of : Sum(of) = InScope(of, member)
  BY DEF InScope, Scoped
<1>3. income = Side(values, "income") /\ expense = Side(values, "expense")
  BY DEF Side, Values, IsValue, Directions
<1>4. \A of, field : By(of, field) = SumsBy(of, member, field)
  <2> HIDE DEF Sum
  <2> QED
    BY <1>2 DEF SumsBy
<1>5. SumFunction([v \in expense |-> v.unassigned]) = Unassigned(expense)
  BY DEF Unassigned
<1> HIDE DEF Sum, By, income, expense, want
<1> QED
  BY <1>1, <1>2, <1>3, <1>4, <1>5 DEF want

\* The two reports are the same.
LEMMA ReportsAgree ==
  ASSUME NEW values, Values(values), NEW member, NEW got, ReportTells(got, values, member)
  PROVE  SameReport(ReferenceReport(values, member), got)
<1> DEFINE want == ReferenceReport(values, member)
<1>1. LET income == Side(values, "income")
          costs == Side(values, "expense")
      IN  /\ want.income = InScope(income, member)
          /\ want.expense = InScope(costs, member)
          /\ want.balance = InScope(income, member) - InScope(costs, member)
          /\ want.unassigned = IF member = Everyone THEN Unassigned(costs) ELSE 0
          /\ want.incomeCategories = SumsBy(income, member, "category")
          /\ want.categories = SumsBy(costs, member, "category")
          /\ want.natures = SumsBy(costs, member, "nature")
          /\ want.classes = SumsBy(costs, member, "class")
  BY ReferenceTells
<1> HIDE DEF want
<1>2. SameReport(want, got)
  BY <1>1 DEF SameReport, ReportTells
<1> QED
  BY <1>2 DEF want

\* The settlement of sound values checks out.
LEMMA SettlementsAgree ==
  ASSUME NEW values, Sound(values), members \subseteq Persons
  PROVE  SameSettlement(Settlement(values))
<1> DEFINE s == Settlement(values)
           Got(i) == SumFunction([t \in {u \in s.transfers : u.to = i} |-> t.cents])
           Gave(i) == SumFunction([t \in {u \in s.transfers : u.from = i} |-> t.cents])
           nets == NetsOf(s.lines)
<1>1. /\ SumFunction([i \in members |-> Part(s.positions, i)]) = 0
      /\ s.invalid = {} => \A i \in members : Got(i) - Gave(i) = Part(s.positions, i)
      /\ s.invalid # {} => s.transfers = {}
  BY SettlementOfSoundValues
<1>2. /\ s.lines \in SUBSET values
      /\ \A v \in s.lines : v.complete /\ v.booking.payer \in members
      /\ s.positions = Graph(nets, members)
  BY DEF Settlement, Side, ValidShares, Graph, NetsOf, PaidBy
<1>3. IsFiniteSet(members)
  BY PersonsAre
<1>4. \A i \in members : nets[i] \in Int
  <2> DEFINE lines == s.lines
  <2>1. Sound(lines) /\ Settled(lines)
    BY <1>2, SoundValues DEF Settled
  <2> HIDE DEF lines
  <2>2. NetsOf(lines) \in [members -> Int]
    BY <2>1, NetsAreLevel
  <2> QED
    BY <2>2 DEF lines
<1>5. \A v \in s.lines : v.cents = Total(v.shares)
  <2> SUFFICES ASSUME NEW v \in s.lines
               PROVE  v.cents = Total(v.shares)
    OBVIOUS
  <2> DEFINE c == v.cents
             u == v.unassigned
             n == Total(v.shares)
  <2>1. IsValue(v) /\ v.complete
    BY <1>2 DEF Sound
  <2>2. u = 0
    BY <2>1 DEF IsValue
  <2>3. c \in Int /\ n \in Int /\ c = n + u
    BY <2>1, ValueTyped
  <2> HIDE DEF c, u, n
  <2>4. c = n
    BY <2>2, <2>3
  <2> QED
    BY <2>4 DEF c, n
<1> HIDE DEF s, nets
<1>6. Total(s.positions) = 0
  <2> DEFINE pairs == s.positions
             I == members
  <2>1. pairs = Graph(nets, I) /\ IsFiniteSet(I) /\ \A i \in I : nets[i] \in Int
    BY <1>2, <1>3, <1>4
  <2> HIDE DEF pairs
  <2>2. IsTally(pairs) /\ Holders(pairs) = I
    <3> HIDE DEF I
    <3> QED
      BY <2>1, TallyOf
  <2>3. Total(pairs) = SumFunctionOnSet([i \in I |-> Part(pairs, i)], I)
    <3> HIDE DEF I
    <3> QED
      BY <2>1, <2>2, TallyTotal
  <2>4. SumFunction([i \in I |-> Part(pairs, i)]) = SumFunctionOnSet([i \in I |-> Part(pairs, i)], I)
    BY DEF SumFunction
  <2> QED
    BY <1>1, <2>3, <2>4 DEF pairs
<1>7. s.invalid = {} => \A i \in members : Part(s.positions, i) + Gave(i) - Got(i) = 0
  <2> SUFFICES ASSUME s.invalid = {}, NEW i \in members
               PROVE  Part(s.positions, i) + Gave(i) - Got(i) = 0
    OBVIOUS
  <2> DEFINE p == Part(s.positions, i)
             a == Gave(i)
             b == Got(i)
  <2>1. b - a = p
    BY <1>1
  <2>2. a \in Int /\ b \in Int
    <3>1. /\ IsFiniteSet(s.transfers)
          /\ \A t \in s.transfers : t.cents \in Int
      <4> DEFINE made == s.transfers
                 N == nets
      <4>1. made = Transfers(N)
        BY DEF s, nets, Settlement, NetsOf, PaidBy
      <4>2. N \in [members -> Int] /\ SumFunctionOnSet(N, members) = 0
        <5> DEFINE lines == s.lines
        <5>1. Sound(lines) /\ Settled(lines)
          BY <1>2, SoundValues DEF Settled
        <5> HIDE DEF lines
        <5>2. NetsOf(lines) \in [members -> Int] /\ SumFunctionOnSet(NetsOf(lines), members) = 0
          BY <5>1, NetsAreLevel
        <5> QED
          BY <5>2 DEF lines, nets
      <4>3. members \subseteq Int
        BY PersonsAre
      <4> HIDE DEF made, N
      <4>4. made \in SUBSET Payment(members) /\ IsFiniteSet(made)
        BY <1>3, <4>1, <4>2, <4>3, TransfersSquare
      <4> QED
        BY <4>4 DEF made, Payment
    <3>2. \A some \in SUBSET s.transfers : SumFunction([t \in some |-> t.cents]) \in Int
      <4> SUFFICES ASSUME NEW some \in SUBSET s.transfers
                   PROVE  SumFunction([t \in some |-> t.cents]) \in Int
        OBVIOUS
      <4> DEFINE f == [t \in some |-> t.cents]
      <4>1. IsFiniteSet(some) /\ \A t \in some : f[t] \in Int
        BY <3>1, FS_Subset
      <4>2. SumFunction(f) = SumFunctionOnSet(f, some)
        BY DEF SumFunction
      <4> HIDE DEF f
      <4>3. SumFunctionOnSet(f, some) \in Int
        BY <4>1, SumWithout
      <4> QED
        BY <4>2, <4>3 DEF f
    <3> QED
      BY <3>2
  <2> HIDE DEF p, a, b
  <2>3. p + a - b = 0
    BY <2>1, <2>2
  <2> QED
    BY <2>3 DEF p, a, b
<1> QED
  BY <1>1, <1>5, <1>6, <1>7 DEF SameSettlement, s

-----------------------------------------------------------------------------
(***************************************************************************)
(* The months of the year.                                                 *)
(***************************************************************************)
LEMMA MonthOfYear ==
  ASSUME BookInv, NEW basis, NEW m \in Months
  PROVE  /\ Of(Prepare(basis), m) = MonthValues(basis, m)
         /\ Sound(MonthValues(basis, m)) /\ Values(MonthValues(basis, m))
<1>1. \A n : Sound(MonthValues(basis, n)) /\ \A v \in MonthValues(basis, n) : v.month = n
  BY MonthIsSound
<1>2. Of(Prepare(basis), m) = MonthValues(basis, m)
  BY <1>1 DEF Of, Prepare
<1> QED
  BY <1>1, <1>2, SoundValues

\* Both tell where the figures of a month come from.
LEMMA SourcesAgree ==
  ASSUME NEW basis, NEW m
  PROVE  /\ Source(basis, m) = ReferenceSource(basis, m)
         /\ (ReferenceSource(basis, m) = "actual") = KnownMonth(basis, m)
<1>1. CASE ActualMonth(basis, m)
  BY <1>1 DEF Source, ReferenceSource, KnownMonth, ActualMonth
<1>2. CASE ~ActualMonth(basis, m)
  BY <1>2 DEF Source, ReferenceSource, KnownMonth, ActualMonth
<1> QED
  BY <1>1, <1>2

\* Those that carry a booking are named in its split.
LEMMA HoldersAreNamed ==
  ASSUME NEW e, IsEntry(e), NEW m
  PROVE  Holders(EvaluateBooking(e, m).shares) \subseteq DOMAIN e.booking.splits
<1> DEFINE b == e.booking
           amount == AmountFor(b, e.overrides, m)
           cents == RoundAmount(amount * Factor(b)[1], Factor(b)[2])
           claims == Claims(b, amount, cents)
           target == IF CompleteSplit(b, amount) /\ DOMAIN claims.raw # {} THEN cents ELSE ClaimedCents(claims)
<1>1. EvaluateBooking(e, m).shares = BalancedCents(claims.raw, claims.scale, target)
  BY DEF EvaluateBooking, Valued
<1>2. b.mode \in Modes
  BY DEF IsEntry, IsBooking
<1> HIDE DEF amount, cents, target
<1>3. DOMAIN claims.raw \subseteq DOMAIN b.splits
  BY <1>2 DEF Claims, Modes
<1> HIDE DEF claims
<1>4. Holders(BalancedCents(claims.raw, claims.scale, target)) = DOMAIN claims.raw
  <2> DEFINE raw == claims.raw
             part == Balanced(raw, claims.scale, Missing(raw, claims.scale, target))
  <2>1. BalancedCents(raw, claims.scale, target) = Graph(part, DOMAIN raw)
    BY BalancedIsGraph
  <2> HIDE DEF part, raw
  <2>2. Holders(Graph(part, DOMAIN raw)) = DOMAIN raw
    <3>1. \A i \in DOMAIN raw : <<i, part[i]>>[1] = i /\ <<i, part[i]>> \in Graph(part, DOMAIN raw)
      BY DEF Graph
    <3>2. \A p \in Graph(part, DOMAIN raw) : p[1] \in DOMAIN raw
      BY DEF Graph
    <3> QED
      BY <3>1, <3>2 DEF Holders
  <2> QED
    BY <2>1, <2>2 DEF raw
<1> QED
  BY <1>1, <1>3, <1>4

\* What is evaluated in a month, value by value.
LEMMA EntriesEvaluated ==
  ASSUME BookInv, NEW basis, NEW m
  PROVE  /\ \A e \in Entries(basis, m) : EvaluateBooking(e, m).booking = e.booking
         /\ \A v \in MonthValues(basis, m) : Holders(v.shares) \subseteq DOMAIN v.booking.splits
<1>1. \A e \in Entries(basis, m) : IsEntry(e)
  BY PaymentIsEntry, PlanIsEntry DEF Entries, PaymentsIn, PlansIn, AcceptedIn
<1>2. members \subseteq Persons
  BY DEF BookInv
<1>3. \A e \in Entries(basis, m) : EvaluateBooking(e, m).booking = e.booking
  BY <1>1, <1>2, Evaluated
<1> QED
  BY <1>1, <1>3, HoldersAreNamed DEF MonthValues

\* A month is covered when it is known or tells of an income in the scope.
Told(basis, m, member) ==
    KnownMonth(basis, m) \/ \E v \in MonthValues(basis, m) : IncomeForScope(v.booking, member)

LEMMA CoveredIsTold ==
  ASSUME BookInv, NEW basis, NEW m \in Months, NEW member
  PROVE  /\ ReferenceCovered(Prepare(basis), basis, m, member) = Told(basis, m, member)
         /\ BuildMonthReport(Prepare(basis), basis, m, member).recorded = Told(basis, m, member)
         /\ (\E e \in Entries(basis, m) : IncomeForScope(e.booking, member))
                = (\E v \in MonthValues(basis, m) : IncomeForScope(v.booking, member))
<1> DEFINE here == MonthValues(basis, m)
           made == Prepare(basis)
<1>1. Of(made, m) = here
  BY MonthOfYear
<1>2. \A v \in here : Holders(v.shares) \subseteq DOMAIN v.booking.splits
  BY EntriesEvaluated
<1>3. \A v \in here : (v.booking.direction = "income" /\ ReferenceCarries(v, member))
                          = IncomeForScope(v.booking, member)
  BY <1>2 DEF ReferenceCarries, IncomeForScope
<1>4. (\E v \in made : v.month = m /\ v.booking.direction = "income" /\ ReferenceCarries(v, member))
          = (\E v \in here : IncomeForScope(v.booking, member))
  <2>1. (\E v \in made : v.month = m /\ v.booking.direction = "income" /\ ReferenceCarries(v, member))
            = (\E v \in Of(made, m) : v.booking.direction = "income" /\ ReferenceCarries(v, member))
    BY DEF Of
  <2> HIDE DEF here, made
  <2> QED
    BY <1>1, <1>3, <2>1
<1>5. ReferenceCovered(made, basis, m, member) = Told(basis, m, member)
  BY <1>4, SourcesAgree DEF ReferenceCovered, Told
<1>6. BuildMonthReport(made, basis, m, member).recorded = Told(basis, m, member)
  <2> DEFINE r == BuildReport(here, member)
  <2>1. BuildMonthReport(made, basis, m, member) = [r EXCEPT !.recorded = @ \/ KnownMonth(basis, m)]
    BY <1>1 DEF BuildMonthReport
  <2>2. "recorded" \in DOMAIN r /\ r.recorded = \E v \in here : IncomeForScope(v.booking, member)
    BY DEF BuildReport
  <2> HIDE DEF r
  <2>3. BuildMonthReport(made, basis, m, member).recorded = (r.recorded \/ KnownMonth(basis, m))
    BY <2>1, <2>2
  <2> QED
    BY <2>2, <2>3 DEF Told
<1>7. (\E e \in Entries(basis, m) : IncomeForScope(e.booking, member))
          = (\E v \in here : IncomeForScope(v.booking, member))
  BY EntriesEvaluated DEF MonthValues
<1> QED
  BY <1>5, <1>6, <1>7

\* So the dashboard is made of the covered months.
LEMMA CoveredMonths ==
  ASSUME BookInv, NEW basis, NEW member
  PROVE  MonthsWithIncome(basis, Months, member)
             = {m \in Months : ReferenceCovered(Prepare(basis), basis, m, member)}
BY CoveredIsTold DEF MonthsWithIncome, Told

\* The report of a month tells of its values.
LEMMA MonthTells ==
  ASSUME BookInv, NEW basis, NEW m \in Months, NEW member
  PROVE  ReportTells(BuildMonthReport(Prepare(basis), basis, m, member), MonthValues(basis, m), member)
<1> DEFINE here == MonthValues(basis, m)
           x == BuildReport(here, member).recorded \/ KnownMonth(basis, m)
<1>1. Of(Prepare(basis), m) = here /\ Values(here)
  BY MonthOfYear
<1>2. members \subseteq Persons
  BY DEF BookInv
<1>3. BuildMonthReport(Prepare(basis), basis, m, member) = [BuildReport(here, member) EXCEPT !.recorded = x]
  BY <1>1 DEF BuildMonthReport
<1> HIDE DEF here, x
<1>4. ReportTells([BuildReport(here, member) EXCEPT !.recorded = x], here, member)
  BY <1>1, <1>2, BuiltReportTells
<1> QED
  BY <1>3, <1>4 DEF here

\* The points of the line are the balances of their months.
LEMMA TrendAgrees ==
  ASSUME BookInv, NEW basis, NEW member
  PROVE  \A point \in TrendLine(Prepare(basis), basis, member) :
            point[2] = ReferenceReport(Of(Prepare(basis), point[1]), member).balance
<1> DEFINE made == Prepare(basis)
           report == [m \in Months |-> BuildMonthReport(made, basis, m, member)]
<1>1. \A m \in Months : report[m].balance = ReferenceReport(Of(made, m), member).balance
  <2> SUFFICES ASSUME NEW m \in Months
               PROVE  report[m].balance = ReferenceReport(Of(made, m), member).balance
    OBVIOUS
  <2> DEFINE here == MonthValues(basis, m)
             got == BuildMonthReport(made, basis, m, member)
  <2>1. ReportTells(got, here, member)
    BY MonthTells
  <2>2. Of(made, m) = here /\ Values(here)
    BY MonthOfYear
  <2> HIDE DEF here, got, made
  <2>3. SameReport(ReferenceReport(here, member), got)
    BY <2>1, <2>2, ReportsAgree
  <2>4. ReferenceReport(here, member).balance = got.balance
    BY <2>3 DEF SameReport
  <2> QED
    BY <2>2, <2>4 DEF got
<1>2. \A point \in TrendLine(made, basis, member) :
         \E m \in Months : point[1] = m /\ point[2] = report[m].balance
  BY DEF TrendLine
<1> HIDE DEF report, made
<1> QED
  BY <1>1, <1>2 DEF made

\* Nobody carries less than nothing of a value without cents below zero.
LEMMA PlusInParts ==
  ASSUME NEW v, IsValue(v), Plus(v), NEW i
  PROVE  Part(v.shares, i) \in Nat
<1>1. CASE i \in Holders(v.shares)
  <2>1. <<i, Part(v.shares, i)>> \in v.shares
    BY <1>1 DEF IsValue, IsTally
  <2>2. <<i, Part(v.shares, i)>>[2] \in Nat
    BY <2>1 DEF Plus
  <2> QED
    BY <2>2
<1>2. CASE i \notin Holders(v.shares)
  BY <1>2 DEF Part
<1> QED
  BY <1>1, <1>2

LEMMA PlusInScope ==
  ASSUME NEW v, IsValue(v), Plus(v), NEW member
  PROVE  Scoped(v, member) \in Nat
BY PlusInParts DEF Scoped, Plus

\* A column of the stacked chart is as high as the month is expensive.
LEMMA StacksAgree ==
  ASSUME BookInv, NEW basis, NEW m \in Months, NEW member, NEW field,
         \A v \in MonthValues(basis, m) : Plus(v)
  PROVE  Total(StackColumn(Of(Prepare(basis), m), member, field))
             = ReferenceReport(Of(Prepare(basis), m), member).expense
<1> DEFINE here == MonthValues(basis, m)
           costs == Side(here, "expense")
           mine == {v \in costs : Carries(v, member)}
<1>1. Of(Prepare(basis), m) = here /\ Values(here) /\ Sound(here)
  BY MonthOfYear
<1>2. members \subseteq Persons
  BY DEF BookInv
<1>3. /\ costs \in SUBSET here /\ mine \in SUBSET here
      /\ CarriedIn(costs, member) \subseteq mine /\ mine \subseteq costs
  BY DEF Side, CarriedIn
<1>4. Values(costs) /\ Values(mine)
  BY <1>1, <1>3, SoundValues
<1>5. \A v \in mine : Scoped(v, member) >= 0
  <2> SUFFICES ASSUME NEW v \in here
               PROVE  Scoped(v, member) >= 0
    BY <1>3
  <2>1. Plus(v)
    OBVIOUS
  <2> QED
    BY <1>1, <2>1, PlusInScope DEF Values
<1>6. StackColumn(here, member, field) = Positive(SumsBy(mine, member, field))
  BY DEF StackColumn, Positive
<1>7. ReferenceReport(here, member).expense = InScope(costs, member)
  BY <1>1, ReferenceTells
<1> HIDE DEF here, costs, mine
<1>8. Total(Positive(SumsBy(mine, member, field))) = InScope(mine, member)
  BY <1>2, <1>4, <1>5, PositivesAddUp
<1>9. InScope(mine, member) = InScope(costs, member)
  BY <1>2, <1>3, <1>4, ScopeOfCarried
<1> QED
  BY <1>1, <1>6, <1>7, <1>8, <1>9 DEF here

-----------------------------------------------------------------------------
(***************************************************************************)
(* The matrix.                                                             *)
(***************************************************************************)
LEMMA MonthsAreNumbers == IsFiniteSet(Months) /\ Months \subseteq Nat
BY IdsAreApart, FS_Interval DEF Months

\* The order of the cells of a row.
LEMMA CellsOrder ==
  ASSUME NEW f, \A m \in Months : f[m] \in Int, NEW cells, cells \subseteq Graph(f, Months)
  PROVE  IsFiniteSet(cells) /\ IsOrder(cells, Less(cells))
<1>1. IsFiniteSet(cells)
  <2> DEFINE all == Graph(f, Months)
             I == Months
  <2>1. IsFiniteSet(all)
    <3>1. IsFiniteSet(I) /\ (\A m \in I : f[m] \in Int) /\ all = Graph(f, I)
      BY MonthsAreNumbers
    <3> HIDE DEF all, I
    <3> QED
      BY <3>1, TallyOf
  <2> HIDE DEF all
  <2> QED
    BY <2>1, FS_Subset DEF all
<1>2. \A x \in cells : x[1] \in Int /\ x[2] \in Int /\ x = <<x[1], f[x[1]]>> /\ x[2] = f[x[1]]
  BY MonthsAreNumbers DEF Graph
<1>3. \A x, y \in cells : (<<x, y>> \in Less(cells)) = (x[2] < y[2] \/ (x[2] = y[2] /\ x[1] < y[1]))
  <2> SUFFICES ASSUME NEW x \in cells, NEW y \in cells
               PROVE  (<<x, y>> \in Less(cells)) = (x[2] < y[2] \/ (x[2] = y[2] /\ x[1] < y[1]))
    OBVIOUS
  <2>1. <<x, y>> \in cells \X cells /\ <<x, y>>[1] = x /\ <<x, y>>[2] = y
    OBVIOUS
  <2> QED
    BY <2>1 DEF Less
<1> DEFINE R == Less(cells)
<1> HIDE DEF R
<1>4. \A x \in cells : <<x, x>> \notin R
  BY <1>2, <1>3 DEF R
<1>5. \A x, y \in cells : x # y => <<x, y>> \in R \/ <<y, x>> \in R
  <2> SUFFICES ASSUME NEW x \in cells, NEW y \in cells, x # y
               PROVE  <<x, y>> \in R \/ <<y, x>> \in R
    OBVIOUS
  <2>1. x[1] # y[1]
    BY <1>2
  <2>2. x[1] \in Int /\ y[1] \in Int /\ x[2] \in Int /\ y[2] \in Int
    BY <1>2
  <2>3. /\ (<<x, y>> \in R) = (x[2] < y[2] \/ (x[2] = y[2] /\ x[1] < y[1]))
        /\ (<<y, x>> \in R) = (y[2] < x[2] \/ (y[2] = x[2] /\ y[1] < x[1]))
    BY <1>3 DEF R
  <2> QED
    BY <2>1, <2>2, <2>3
<1>6. \A x, y, z \in cells : <<x, y>> \in R /\ <<y, z>> \in R => <<x, z>> \in R
  <2> SUFFICES ASSUME NEW x \in cells, NEW y \in cells, NEW z \in cells,
                      <<x, y>> \in R, <<y, z>> \in R
               PROVE  <<x, z>> \in R
    OBVIOUS
  <2>1. /\ x[1] \in Int /\ y[1] \in Int /\ x[2] \in Int /\ y[2] \in Int /\ z[1] \in Int /\ z[2] \in Int
    BY <1>2
  <2>2. /\ x[2] < y[2] \/ (x[2] = y[2] /\ x[1] < y[1])
        /\ y[2] < z[2] \/ (y[2] = z[2] /\ y[1] < z[1])
    BY <1>3 DEF R
  <2>3. x[2] < z[2] \/ (x[2] = z[2] /\ x[1] < z[1])
    BY <2>1, <2>2
  <2> QED
    BY <1>3, <2>3 DEF R
<1> QED
  BY <1>1, <1>4, <1>5, <1>6 DEF IsOrder, R

\* The cell of a rank is the one at its place in the order.
LEMMA RankedInOrder ==
  ASSUME NEW f, \A m \in Months : f[m] \in Int, NEW cells, cells \subseteq Graph(f, Months)
  PROVE  LET ran == Sorting(cells, Less(cells))
             n == Cardinality(cells)
         IN  n \in Nat /\ \A k \in 1..n : Ranked(cells, k - 1) = ran[k]
<1> DEFINE R == Less(cells)
           ran == Sorting(cells, R)
           n == Cardinality(cells)
<1>1. IsFiniteSet(cells) /\ IsOrder(cells, R)
  BY CellsOrder
<1>2. /\ n \in Nat
      /\ \A k \in 1..n : ran[k] \in cells /\ Cardinality(Before(cells, R, ran[k])) = k - 1
      /\ \A x \in cells : \E k \in 1..n : ran[k] = x
  BY <1>1, SortingSorts
<1>3. \A c \in cells : Before(cells, R, c) = {x \in cells : x[2] < c[2] \/ (x[2] = c[2] /\ x[1] < c[1])}
  <2> SUFFICES ASSUME NEW c \in cells
               PROVE  Before(cells, R, c) = {x \in cells : x[2] < c[2] \/ (x[2] = c[2] /\ x[1] < c[1])}
    OBVIOUS
  <2>1. \A x \in cells : (<<x, c>> \in R) = (x[2] < c[2] \/ (x[2] = c[2] /\ x[1] < c[1]))
    <3> SUFFICES ASSUME NEW x \in cells
                 PROVE  (<<x, c>> \in R) = (x[2] < c[2] \/ (x[2] = c[2] /\ x[1] < c[1]))
      OBVIOUS
    <3>1. <<x, c>> \in cells \X cells /\ <<x, c>>[1] = x /\ <<x, c>>[2] = c
      OBVIOUS
    <3> QED
      BY <3>1 DEF Less
  <2> HIDE DEF R
  <2> QED
    BY <2>1 DEF Before
<1> HIDE DEF R, ran, n
<1>4. ASSUME NEW k \in 1..n
      PROVE  Ranked(cells, k - 1) = ran[k]
  <2> DEFINE place == k - 1
  <2>1. Ranked(cells, place) = CHOOSE c \in cells : place = Cardinality(Before(cells, R, c))
    <3>1. \A c \in cells : (place = Cardinality({x \in cells : x[2] < c[2] \/ (x[2] = c[2] /\ x[1] < c[1])}))
                               = (place = Cardinality(Before(cells, R, c)))
      BY <1>3
    <3> HIDE DEF place
    <3> QED
      BY <3>1 DEF Ranked
  <2>2. \A c \in cells : place = Cardinality(Before(cells, R, c)) => c = ran[k]
    <3> SUFFICES ASSUME NEW c \in cells, place = Cardinality(Before(cells, R, c))
                 PROVE  c = ran[k]
      OBVIOUS
    <3>1. PICK j \in 1..n : ran[j] = c
      BY <1>2
    <3>2. j - 1 = k - 1
      BY <1>2, <3>1
    <3>3. j = k
      BY <1>2, <3>2
    <3> QED
      BY <3>1, <3>3
  <2>3. ran[k] \in cells /\ place = Cardinality(Before(cells, R, ran[k]))
    BY <1>2
  <2> HIDE DEF place
  <2>4. Ranked(cells, place) = ran[k]
    BY <2>1, <2>2, <2>3
  <2> QED
    BY <2>4 DEF place
<1> QED
  BY <1>2, <1>4 DEF ran, n, R

\* So the figures of a row are the same.
LEMMA FiguresAgree ==
  ASSUME NEW f, \A m \in Months : f[m] \in Int, NEW active
  PROVE  SameFigures(Summarize(Graph(f, Months), active))
<1> DEFINE all == Graph(f, Months)
           row == Summarize(all, active)
           cells == {c \in all : c[1] \in active}
           ran == Sorting(cells, Less(cells))
           n == Cardinality(cells)
<1>1. /\ row.cells = all /\ row.active = active /\ row.total = Total(all)
      /\ row.mean = IF n = 0 THEN 0 ELSE Quotient(Total(all), n)
      /\ row.median = IF n = 0 THEN 0 ELSE Median(cells)
  BY DEF Summarize
<1>2. n \in Nat /\ \A k \in 1..n : Ranked(cells, k - 1) = ran[k]
  <2>1. cells \subseteq all
    OBVIOUS
  <2> HIDE DEF cells
  <2> QED
    BY <2>1, RankedInOrder
<1>3. Median(cells) = IF n % 2 = 1 THEN Ranked(cells, n \div 2)[2]
                      ELSE Quotient(Ranked(cells, n \div 2 - 1)[2] + Ranked(cells, n \div 2)[2], 2)
  BY DEF Median
<1> HIDE DEF ran, n, all
<1>4. ASSUME n > 0
      PROVE  Median(cells) = IF n % 2 = 1 THEN ran[n \div 2 + 1][2]
                             ELSE Quotient(ran[n \div 2][2] + ran[n \div 2 + 1][2], 2)
  <2> DEFINE h == n \div 2
  <2>1. h \in Int /\ n % 2 \in 0..1 /\ n = 2 * h + (n % 2)
    BY <1>2
  <2>2. h + 1 \in 1..n /\ (n % 2 # 1 => h \in 1..n)
    <3> DEFINE r == n % 2
    <3> HIDE DEF h, r
    <3>1. h \in Int /\ r \in 0..1 /\ n = 2 * h + r /\ n \in Nat /\ n > 0
      BY <1>2, <1>4, <2>1 DEF r
    <3> QED
      BY <3>1 DEF r
  <2> HIDE DEF h
  <2>3. Ranked(cells, (h + 1) - 1) = ran[h + 1] /\ (n % 2 # 1 => Ranked(cells, h - 1) = ran[h])
    BY <1>2, <2>2
  <2>4. (h + 1) - 1 = h
    BY <2>1
  <2> HIDE DEF cells
  <2> QED
    BY <1>3, <2>3, <2>4 DEF h
<1> HIDE DEF row
<1>5. SameFigures(row)
  <2>1. {c \in row.cells : c[1] \in row.active} = cells
    BY <1>1
  <2>2. /\ row.total = Total(row.cells)
        /\ n > 0 => /\ row.mean = Quotient(row.total, n)
                    /\ row.median = IF n % 2 = 1 THEN ran[n \div 2 + 1][2]
                                    ELSE Quotient(ran[n \div 2][2] + ran[n \div 2 + 1][2], 2)
    <3> HIDE DEF cells
    <3>1. n > 0 => n # 0
      BY <1>2
    <3> QED
      BY <1>1, <1>4, <3>1
  <2> QED
    BY <2>1, <2>2 DEF SameFigures, ran, n
<1> QED
  BY <1>5 DEF row, all

\* A row shows what its values cost in each month.
LEMMA RowsAgree ==
  ASSUME NEW of, Values(of), members \subseteq Persons, NEW member, NEW also
  PROVE  SameRow(Row(of, member, also), of, member, also)
<1> DEFINE cell == [m \in Months |-> InScope({v \in of : v.month = m}, member)]
           cells == Graph(cell, Months)
           row == Row(of, member, also)
           active == {v.month : v \in of} \cup also
<1>1. \A m \in Months : cell[m] \in Int
  <2> SUFFICES ASSUME NEW m \in Months
               PROVE  cell[m] \in Int
    OBVIOUS
  <2> DEFINE S == {v \in of : v.month = m}
  <2>1. S \in SUBSET of
    OBVIOUS
  <2> HIDE DEF S
  <2>2. InScope(S, member) \in Int
    BY <2>1, ScopeWithin
  <2> QED
    BY <2>2 DEF S
<1>2. row = Summarize(cells, active)
  <2>1. {<<m, InScope({v \in of : v.month = m}, member)>> : m \in Months} = cells
    BY DEF Graph
  <2> QED
    BY <2>1 DEF Row
<1>3. row.cells = cells /\ row.active = active
  BY <1>2 DEF Summarize
<1>4. \A m \in Months : cell[m] = SumFunction([v \in {w \in of : w.month = m} |->
                            IF member = Everyone THEN v.cents ELSE Part(v.shares, member)])
  BY DEF InScope, Scoped
<1> HIDE DEF cell, cells, row, active
<1>5. SameFigures(row)
  BY <1>1, <1>2, FiguresAgree DEF cells
<1>6. \A m \in Months : At(row.cells, m) = cell[m]
  <2> DEFINE I == Months
  <2>1. IsFiniteSet(I) /\ (\A m \in I : cell[m] \in Int) /\ cells = Graph(cell, I)
    BY <1>1, MonthsAreNumbers DEF cells
  <2> HIDE DEF I
  <2>2. \A m \in I : Part(cells, m) = cell[m]
    BY <2>1, TallyOf
  <2> QED
    BY <1>3, <2>2 DEF At, I
<1> QED
  BY <1>3, <1>4, <1>5, <1>6 DEF SameRow, row, active

\* The parts of the matrix.
KnownIn(basis) == {m \in Months : KnownMonth(basis, m)}
SeenIn(values, member) == {v \in values : Carries(v, member) \/ IncomeForScope(v.booking, member)}
InCategory(of, c) == {v \in of : v.booking.category = c}
InBand(of, band) == {v \in of : BandOf(v.booking) = band}
ChildRows(of, member) ==
    LET ids == {v.id : v \in of}
    IN  IF Cardinality(ids) <= 1 THEN {}
        ELSE {[id |-> i, row |-> Row({v \in of : v.id = i}, member, {})] : i \in ids}
CategoryRow(of, c, member, known) ==
    [category |-> c, row |-> Row(of, member, known), children |-> ChildRows(of, member)]
BandTable(of, member, known) ==
    [rows |-> {CategoryRow(InCategory(of, c), c, member, known) : c \in {v.booking.category : v \in of}},
     total |-> Row(of, member, known)]
SurplusOf(values, member, known, m) ==
    LET seen == SeenIn(values, member)
        income == Row(Side(seen, "income"), member, known)
    IN  IF m \notin income.active THEN 0
        ELSE At(income.cells, m) - InScope({v \in Side(seen, "expense") : v.month = m}, member)

LEMMA MatrixOpened ==
  ASSUME NEW values, NEW basis, NEW member
  PROVE  LET seen == SeenIn(values, member)
             known == KnownIn(basis)
             matrix == BuildMatrix(values, basis, member)
         IN  /\ matrix.bands = {[band |-> k, of |-> BandTable(InBand(seen, k), member, known)] : k \in Bands}
             /\ matrix.expense = Row(Side(seen, "expense"), member, known)
             /\ matrix.surplus = Summarize({<<m, SurplusOf(values, member, known, m)>> : m \in Months},
                                           Row(Side(seen, "income"), member, known).active)
BY DEF BuildMatrix, SeenIn, KnownIn, InCategory, InBand, ChildRows, CategoryRow, BandTable, SurplusOf

\* What a row has for a month.
LEMMA RowCells ==
  ASSUME NEW of, Values(of), members \subseteq Persons, NEW member, NEW also
  PROVE  /\ Row(of, member, also).active = {v.month : v \in of} \cup also
         /\ \A m \in Months : LET in == {v \in of : v.month = m}
                              IN  /\ At(Row(of, member, also).cells, m) = InScope(in, member)
                                  /\ InScope(in, member) \in Int
<1>1. SameRow(Row(of, member, also), of, member, also)
  BY RowsAgree
<1>2. \A in : SumFunction([v \in in |-> IF member = Everyone THEN v.cents ELSE Part(v.shares, member)])
                  = InScope(in, member)
  BY DEF InScope, Scoped
<1>3. \A m \in Months : InScope({v \in of : v.month = m}, member) \in Int
  <2> SUFFICES ASSUME NEW m \in Months
               PROVE  InScope({v \in of : v.month = m}, member) \in Int
    OBVIOUS
  <2> DEFINE S == {v \in of : v.month = m}
  <2>1. S \in SUBSET of
    OBVIOUS
  <2> HIDE DEF S
  <2>2. InScope(S, member) \in Int
    BY <2>1, ScopeWithin
  <2> QED
    BY <2>2 DEF S
<1> QED
  BY <1>1, <1>2, <1>3 DEF SameRow

LEMMA SurplusTyped ==
  ASSUME NEW values, Values(values), members \subseteq Persons, NEW member, NEW known
  PROVE  \A m \in Months : SurplusOf(values, member, known, m) \in Int
<1> SUFFICES ASSUME NEW m \in Months
             PROVE  SurplusOf(values, member, known, m) \in Int
  OBVIOUS
<1> DEFINE seen == SeenIn(values, member)
           income == Side(seen, "income")
           costs == Side(seen, "expense")
           row == Row(income, member, known)
           got == At(row.cells, m)
           spent == InScope({v \in costs : v.month = m}, member)
<1>1. income \in SUBSET values /\ costs \in SUBSET values
  BY DEF SeenIn, Side
<1>2. SurplusOf(values, member, known, m) = IF m \notin row.active THEN 0 ELSE got - spent
  BY DEF SurplusOf
<1> HIDE DEF seen, income, costs
<1>3. Values(income) /\ Values(costs)
  BY <1>1, ScopeWithin
<1>4. got \in Int
  <2>1. \A n \in Months : At(row.cells, n) = InScope({v \in income : v.month = n}, member)
    BY <1>3, RowCells
  <2>2. \A n \in Months : InScope({v \in income : v.month = n}, member) \in Int
    BY <1>3, RowCells
  <2> QED
    BY <2>1, <2>2
<1>5. spent \in Int
  <2>1. \A n \in Months : InScope({v \in costs : v.month = n}, member) \in Int
    BY <1>3, RowCells
  <2> QED
    BY <2>1
<1> HIDE DEF got, spent, row
<1> QED
  BY <1>2, <1>4, <1>5

\* The rows of the bookings of a category, where there is more than one.
SameChildRows(children, of, member) ==
    LET ids == {v.id : v \in of}
    IN  /\ {c.id : c \in children} = IF Cardinality(ids) > 1 THEN ids ELSE {}
        /\ \A c \in children : SameRow(c.row, {v \in of : v.id = c.id}, member, {})

LEMMA ChildrenAgree ==
  ASSUME NEW of, Values(of), members \subseteq Persons, NEW member
  PROVE  SameChildRows(ChildRows(of, member), of, member)
<1> DEFINE ids == {v.id : v \in of}
           name == [v \in of |-> v.id]
           row == [i \in ids |-> Row({v \in of : v.id = i}, member, {})]
           children == ChildRows(of, member)
<1>1. Cardinality(ids) \in Nat
  <2>1. ids = ImageOf(name, of)
    BY DEF ImageOf
  <2> HIDE DEF ids, name
  <2>2. IsFiniteSet(ids)
    BY <2>1, NamesAreFinite DEF Values
  <2> QED
    BY <2>2, FS_CardinalityType
<1>2. children = IF Cardinality(ids) <= 1 THEN {} ELSE {[id |-> i, row |-> row[i]] : i \in ids}
  BY DEF ChildRows
<1>3. ASSUME NEW i \in ids
      PROVE  SameRow(row[i], {v \in of : v.id = i}, member, {})
  <2> DEFINE S == {v \in of : v.id = i}
  <2>1. S \in SUBSET of
    OBVIOUS
  <2> HIDE DEF S
  <2>2. Values(S)
    BY <2>1, ScopeWithin
  <2>3. SameRow(Row(S, member, {}), S, member, {})
    BY <2>2, RowsAgree
  <2> QED
    BY <2>3 DEF S
<1> HIDE DEF ids, row, children
<1>4. \A c \in children : c.id \in ids /\ c.row = row[c.id]
  BY <1>2
<1>5. Cardinality(ids) > 1 => children = {[id |-> i, row |-> row[i]] : i \in ids}
  <2>1. Cardinality(ids) > 1 => ~(Cardinality(ids) <= 1)
    BY <1>1
  <2> QED
    BY <1>2, <2>1
<1>6. ~(Cardinality(ids) > 1) => children = {}
  <2>1. ~(Cardinality(ids) > 1) => Cardinality(ids) <= 1
    BY <1>1
  <2> QED
    BY <1>2, <2>1
<1>7. Cardinality(ids) > 1 => {c.id : c \in children} = ids
  <2> SUFFICES ASSUME Cardinality(ids) > 1
               PROVE  {c.id : c \in children} = ids
    OBVIOUS
  <2>1. \A i \in ids : \E c \in children : c.id = i
    <3> SUFFICES ASSUME NEW i \in ids
                 PROVE  \E c \in children : c.id = i
      OBVIOUS
    <3> DEFINE c == [id |-> i, row |-> row[i]]
    <3>1. c \in children /\ c.id = i
      BY <1>5
    <3> QED
      BY <3>1
  <2> QED
    BY <1>4, <2>1
<1> QED
  BY <1>3, <1>4, <1>6, <1>7 DEF ids, children, SameChildRows

\* The whole matrix.
LEMMA MatricesAgree ==
  ASSUME NEW values, Values(values), members \subseteq Persons, NEW basis, NEW member
  PROVE  /\ SameMatrix(values, BuildMatrix(values, basis, member), basis, member)
         /\ SameFigures(BuildMatrix(values, basis, member).surplus)
<1> DEFINE known == KnownIn(basis)
           seen == SeenIn(values, member)
           matrix == BuildMatrix(values, basis, member)
<1>1. /\ matrix.bands = {[band |-> k, of |-> BandTable(InBand(seen, k), member, known)] : k \in Bands}
      /\ matrix.expense = Row(Side(seen, "expense"), member, known)
      /\ matrix.surplus = Summarize({<<m, SurplusOf(values, member, known, m)>> : m \in Months},
                                    Row(Side(seen, "income"), member, known).active)
  BY MatrixOpened
<1>2. {m \in Months : ReferenceSource(basis, m) = "actual"} = known
  BY SourcesAgree DEF KnownIn
<1>3. {v \in values : ReferenceCarries(v, member)} = seen
  BY DEF ReferenceCarries, SeenIn, Carries, IncomeForScope
<1>4. \A S \in SUBSET seen : Values(S)
  <2>1. \A S \in SUBSET seen : S \in SUBSET values
    BY DEF SeenIn
  <2> HIDE DEF seen
  <2> QED
    BY <2>1, ScopeWithin
<1> HIDE DEF known, seen, matrix
<1>5. ASSUME NEW of \in SUBSET seen
      PROVE  LET table == BandTable(of, member, known)
             IN  /\ {line.category : line \in table.rows} = {v.booking.category : v \in of}
                 /\ SameRow(table.total, of, member, known)
                 /\ \A line \in table.rows :
                       /\ SameRow(line.row, InCategory(of, line.category), member, known)
                       /\ SameChildRows(line.children, InCategory(of, line.category), member)
  <2> DEFINE table == BandTable(of, member, known)
             keys == {v.booking.category : v \in of}
             name == [c \in keys |-> CategoryRow(InCategory(of, c), c, member, known)]
  <2>1. table.rows = {name[c] : c \in keys} /\ table.total = Row(of, member, known)
    BY DEF BandTable
  <2>2. \A c \in keys : /\ name[c].category = c
                        /\ name[c].row = Row(InCategory(of, c), member, known)
                        /\ name[c].children = ChildRows(InCategory(of, c), member)
    BY DEF CategoryRow
  <2>3. \A c : Values(InCategory(of, c))
    BY <1>4 DEF InCategory
  <2>4. Values(of)
    BY <1>4
  <2> HIDE DEF table, keys, name
  <2>5. {line.category : line \in table.rows} = keys
    BY <2>1, <2>2
  <2>6. SameRow(table.total, of, member, known)
    BY <2>1, <2>4, RowsAgree
  <2>7. ASSUME NEW line \in table.rows
        PROVE  /\ SameRow(line.row, InCategory(of, line.category), member, known)
               /\ SameChildRows(line.children, InCategory(of, line.category), member)
    <3>1. PICK c \in keys : line = name[c]
      BY <2>1
    <3> DEFINE S == InCategory(of, c)
    <3>2. /\ line.category = c /\ line.row = Row(S, member, known)
          /\ line.children = ChildRows(S, member)
      BY <2>2, <3>1
    <3>3. Values(S)
      BY <2>3
    <3> HIDE DEF S
    <3>4. SameRow(Row(S, member, known), S, member, known)
      BY <3>3, RowsAgree
    <3>5. SameChildRows(ChildRows(S, member), S, member)
      BY <3>3, ChildrenAgree
    <3>6. SameRow(line.row, S, member, known) /\ SameChildRows(line.children, S, member)
      BY <3>2, <3>4, <3>5
    <3> QED
      BY <3>2, <3>6 DEF S
  <2> QED
    BY <2>5, <2>6, <2>7 DEF table, keys
<1>6. SameRow(matrix.expense, {v \in seen : v.booking.direction = "expense"}, member, known)
  <2> DEFINE S == Side(seen, "expense")
  <2>1. Values(S) /\ S = {v \in seen : v.booking.direction = "expense"}
    BY <1>4 DEF Side
  <2> HIDE DEF S
  <2>2. SameRow(Row(S, member, known), S, member, known)
    BY <2>1, RowsAgree
  <2> QED
    BY <1>1, <2>1, <2>2 DEF S
<1>7. ASSUME NEW b \in matrix.bands
      PROVE  LET under == InBand(seen, b.band)
             IN  /\ {line.category : line \in b.of.rows} = {v.booking.category : v \in under}
                 /\ SameRow(b.of.total, under, member, known)
                 /\ \A line \in b.of.rows :
                       /\ SameRow(line.row, InCategory(under, line.category), member, known)
                       /\ SameChildRows(line.children, InCategory(under, line.category), member)
  <2>1. PICK k \in Bands : b = [band |-> k, of |-> BandTable(InBand(seen, k), member, known)]
    BY <1>1
  <2>2. b.band = k /\ b.of = BandTable(InBand(seen, k), member, known)
    BY <2>1
  <2>3. InBand(seen, k) \in SUBSET seen
    BY DEF InBand
  <2> QED
    BY <1>5, <2>2, <2>3
<1>8. SameMatrix(values, matrix, basis, member)
  BY <1>2, <1>3, <1>6, <1>7 DEF SameMatrix, InBand, InCategory, SameChildRows
<1>9. SameFigures(matrix.surplus)
  <2> DEFINE cell == [m \in Months |-> SurplusOf(values, member, known, m)]
             active == Row(Side(seen, "income"), member, known).active
  <2>1. \A m \in Months : cell[m] \in Int
    BY SurplusTyped
  <2>2. matrix.surplus = Summarize(Graph(cell, Months), active)
    BY <1>1 DEF Graph
  <2> HIDE DEF cell, active
  <2> QED
    BY <2>1, <2>2, FiguresAgree
<1> QED
  BY <1>8, <1>9 DEF matrix

\* The surplus of a month, told where its income is.
LEMMA SurplusAgrees ==
  ASSUME BookInv, NEW basis, NEW member, NEW m \in Months
  PROVE  LET values == Prepare(basis)
             surplus == BuildMatrix(values, basis, member).surplus
             want == ReferenceReport(Of(values, m), member)
         IN  /\ (m \in surplus.active) = Told(basis, m, member)
             /\ At(surplus.cells, m) = IF Told(basis, m, member) THEN want.balance ELSE 0
<1> DEFINE values == Prepare(basis)
           here == MonthValues(basis, m)
           known == KnownIn(basis)
           seen == SeenIn(values, member)
           income == Side(seen, "income")
           costs == Side(seen, "expense")
           row == Row(income, member, known)
           cell == [n \in Months |-> SurplusOf(values, member, known, n)]
           surplus == BuildMatrix(values, basis, member).surplus
           got == InScope(Side(here, "income"), member)
           spent == InScope(Side(here, "expense"), member)
<1>1. /\ Values(values) /\ members \subseteq Persons
      /\ Of(values, m) = here /\ Values(here)
  BY PreparedYear, MonthOfYear DEF BookInv, Prepared, Values
<1>2. surplus = Summarize(Graph(cell, Months), row.active)
  <2>1. surplus = Summarize({<<n, SurplusOf(values, member, known, n)>> : n \in Months}, row.active)
    <3> HIDE DEF values
    <3> QED
      BY MatrixOpened
  <2>2. {<<n, SurplusOf(values, member, known, n)>> : n \in Months} = Graph(cell, Months)
    BY DEF Graph
  <2> QED
    BY <2>1, <2>2
<1>3. surplus.active = row.active /\ surplus.cells = Graph(cell, Months)
  BY <1>2 DEF Summarize
<1>4. \A n \in Months : cell[n] \in Int
  BY <1>1, SurplusTyped
<1>5. At(surplus.cells, m) = cell[m]
  <2> DEFINE I == Months
             cells == surplus.cells
  <2>1. IsFiniteSet(I) /\ (\A n \in I : cell[n] \in Int) /\ cells = Graph(cell, I)
    BY <1>3, <1>4, MonthsAreNumbers
  <2> HIDE DEF I, cells, cell
  <2>2. \A n \in I : Part(cells, n) = cell[n]
    BY <2>1, TallyOf
  <2> QED
    BY <2>2 DEF At, I, cells
<1>6. income \in SUBSET values /\ costs \in SUBSET values
  BY DEF SeenIn, Side
<1>7. Values(income) /\ Values(costs)
  <2> HIDE DEF income, costs, values
  <2> QED
    BY <1>1, <1>6, ScopeWithin
<1>8. \A v : (v \in here) = (v \in values /\ v.month = m)
  BY <1>1 DEF Of
<1>9. m \in row.active <=> Told(basis, m, member)
  <2>1. row.active = {v.month : v \in income} \cup known
    <3> HIDE DEF income, known
    <3> QED
      BY <1>1, <1>7, RowCells
  <2>2. \A v \in here : Holders(v.shares) \subseteq DOMAIN v.booking.splits
    BY EntriesEvaluated
  <2>3. \A v \in here : v \in income <=> IncomeForScope(v.booking, member)
    BY <1>8, <2>2 DEF SeenIn, Side, Carries, IncomeForScope
  <2>4. m \in known <=> KnownMonth(basis, m)
    BY DEF KnownIn
  <2>5. m \in {v.month : v \in income} <=> \E v \in here : v \in income
    <3>1. \A v \in income : v \in values
      BY <1>6
    <3> HIDE DEF income, here, values
    <3>2. \A v \in income : v.month = m <=> v \in here
      BY <1>8, <3>1
    <3> QED
      BY <3>2
  <2> HIDE DEF income, here, known, row
  <2> QED
    BY <2>1, <2>3, <2>4, <2>5 DEF Told, here
<1>10. ASSUME NEW d
       PROVE  InScope({v \in Side(seen, d) : v.month = m}, member) = InScope(Side(here, d), member)
  <2> DEFINE S == {v \in Side(seen, d) : v.month = m}
             T == Side(here, d)
  <2>1. S \subseteq T /\ CarriedIn(T, member) \subseteq S /\ T \subseteq here
    BY <1>8 DEF Side, SeenIn, CarriedIn
  <2> HIDE DEF S, T, here
  <2>2. Values(T)
    BY <1>1, <2>1, ScopeWithin
  <2>3. InScope(S, member) = InScope(T, member)
    BY <1>1, <2>1, <2>2, ScopeOfCarried
  <2> QED
    BY <2>3 DEF S, T
<1>11. At(row.cells, m) = got
  <2> HIDE DEF income, known, here
  <2>1. At(row.cells, m) = InScope({v \in income : v.month = m}, member)
    BY <1>1, <1>7, RowCells
  <2> QED
    BY <1>10, <2>1 DEF income
<1>12. cell[m] = IF m \notin row.active THEN 0 ELSE got - spent
  <2>1. cell[m] = IF m \notin row.active THEN 0
                  ELSE At(row.cells, m) - InScope({v \in costs : v.month = m}, member)
    BY DEF SurplusOf
  <2>2. InScope({v \in costs : v.month = m}, member) = spent
    BY <1>10
  <2> HIDE DEF cell, row, costs, got, spent
  <2> QED
    BY <1>11, <2>1, <2>2
<1>13. ReferenceReport(here, member).balance = got - spent
  <2> HIDE DEF here
  <2> QED
    BY <1>1, ReferenceTells
<1> HIDE DEF values, here, row, cell, surplus, got, spent
<1>14. (m \in surplus.active) = Told(basis, m, member)
  BY <1>3, <1>9 DEF Told
<1>15. At(surplus.cells, m) = IF Told(basis, m, member) THEN ReferenceReport(Of(values, m), member).balance ELSE 0
  BY <1>1, <1>5, <1>9, <1>12, <1>13
<1> QED
  BY <1>14, <1>15 DEF values, surplus

\* A month checks out in every scope.
LEMMA MonthChecksOut ==
  ASSUME BookInv, NEW basis, NEW member, NEW m \in Months
  PROVE  LET values == Prepare(basis)
         IN  SameMonth(values, BuildMonthReport(values, basis, m, member),
                       BuildMatrix(values, basis, member), basis, m, member)
<1> DEFINE values == Prepare(basis)
           here == MonthValues(basis, m)
           got == BuildMonthReport(values, basis, m, member)
           matrix == BuildMatrix(values, basis, member)
<1>1. Of(values, m) = here /\ Values(here)
  BY MonthOfYear
<1>2. ReportTells(got, here, member)
  BY MonthTells
<1>3. SameReport(ReferenceReport(here, member), got)
  <2> HIDE DEF here, got
  <2> QED
    BY <1>1, <1>2, ReportsAgree
<1>4. /\ ReferenceCovered(values, basis, m, member) = Told(basis, m, member)
      /\ got.recorded = Told(basis, m, member)
  BY CoveredIsTold
<1>5. /\ (m \in matrix.surplus.active) = Told(basis, m, member)
      /\ At(matrix.surplus.cells, m)
             = IF Told(basis, m, member) THEN ReferenceReport(Of(values, m), member).balance ELSE 0
  BY SurplusAgrees
<1>6. Source(basis, m) = ReferenceSource(basis, m)
  BY SourcesAgree
<1> HIDE DEF values, here, got, matrix
<1>7. SameMonth(values, got, matrix, basis, m, member)
  BY <1>1, <1>3, <1>4, <1>5, <1>6 DEF SameMonth
<1> QED
  BY <1>7 DEF values, got, matrix

-----------------------------------------------------------------------------
(***************************************************************************)
(* Periods.                                                                *)
(***************************************************************************)
\* The amounts of different bookings, as pairs.
AmountPairs(side) == {<<v.id, v.cents>> : v \in side}

LEMMA PairsOfSide ==
  ASSUME NEW side, Sound(side), members \subseteq Persons
  PROVE  /\ IsTally(AmountPairs(side)) /\ Holders(AmountPairs(side)) = {v.id : v \in side}
         /\ Total(AmountPairs(side)) = Amount(side)
         /\ Amount(side) \in Int
<1> DEFINE pairs == AmountPairs(side)
           ids == {v.id : v \in side}
           idOf == [v \in side |-> v.id]
           name == [v \in side |-> <<v.id, v.cents>>]
           cents == CentsOf(side)
           second == [p \in pairs |-> p[2]]
<1>1. IsFiniteSet(side) /\ Values(side) /\ \A v, w \in side : v.id = w.id => v = w
  BY DEF Sound, Values
<1>2. Amount(side) = SumFunctionOnSet(cents, side) /\ Amount(side) \in Int
  BY <1>1, SumsWithin
<1>3. \A v \in side : cents[v] = v.cents /\ cents[v] \in Int
  BY <1>1, ValueTyped DEF CentsOf, Values
<1>4. pairs = ImageOf(name, side) /\ ids = ImageOf(idOf, side)
  BY DEF ImageOf, AmountPairs
<1>5. \A v \in side : name[v][1] = v.id /\ name[v][2] = v.cents /\ name[v] = <<v.id, v.cents>>
  OBVIOUS
<1>6. \A v \in side : second[name[v]] = cents[v]
  BY <1>3, <1>5 DEF AmountPairs
<1>7. Total(pairs) = SumFunctionOnSet(second, pairs)
  BY DEF Total, SumFunction
<1>8. \A v, w \in side : name[v] = name[w] => v = w
  BY <1>1, <1>5
<1>9. Holders(pairs) = ids
  <2>1. \A p \in pairs : \E v \in side : p[1] = v.id
    BY DEF AmountPairs
  <2>2. \A v \in side : \E p \in pairs : p[1] = v.id
    BY <1>4, <1>5 DEF ImageOf
  <2> HIDE DEF pairs
  <2> QED
    BY <2>1, <2>2 DEF Holders
<1>10. \A v \in side : Part(pairs, v.id) = v.cents
  <2> SUFFICES ASSUME NEW v \in side
               PROVE  Part(pairs, v.id) = v.cents
    OBVIOUS
  <2>1. name[v] \in pairs /\ name[v][1] = v.id
    BY <1>4, <1>5 DEF ImageOf
  <2>2. \A p \in pairs : p[1] = v.id => p = name[v]
    BY <1>1, <1>4, <1>5 DEF ImageOf
  <2>3. v.id \in Holders(pairs)
    BY <1>9
  <2> HIDE DEF pairs, name
  <2> QED
    BY <1>5, <2>1, <2>2, <2>3 DEF Part
<1> HIDE DEF idOf, name, cents, second
<1>11. Total(pairs) = Amount(side)
  BY <1>1, <1>2, <1>3, <1>4, <1>6, <1>7, <1>8, SumRenamed
<1>12. IsFiniteSet(ids)
  <2> HIDE DEF ids
  <2> QED
    BY <1>1, <1>4, NamesAreFinite
<1>13. IsTally(pairs)
  <2>1. \A id \in ids : Part(pairs, id) \in Int
    BY <1>3, <1>10
  <2>2. pairs = {<<id, Part(pairs, id)>> : id \in ids}
    <3> DEFINE got == [id \in ids |-> Part(pairs, id)]
    <3>1. \A v \in side : v.id \in ids /\ got[v.id] = v.cents
      BY <1>10
    <3>2. \A id \in ids : \E v \in side : id = v.id
      OBVIOUS
    <3>3. \A id \in ids : got[id] = Part(pairs, id)
      OBVIOUS
    <3> HIDE DEF got, ids
    <3>4. {<<v.id, v.cents>> : v \in side} = {<<id, got[id]>> : id \in ids}
      BY <3>1, <3>2
    <3> QED
      BY <3>3, <3>4 DEF AmountPairs
  <2> QED
    BY <1>9, <1>12, <2>1, <2>2 DEF IsTally
<1> QED
  BY <1>2, <1>9, <1>11, <1>13

\* Both divide a tally in the same way, and nobody gets less than nothing.
LEMMA TalliesAllocated ==
  ASSUME NEW parts, IsTally(parts), Holders(parts) \subseteq Int, \A s \in parts : s[2] \in Nat,
         NEW scale \in Nat \ {0}, NEW target \in Int
  PROVE  /\ ReferenceAllocate(parts, scale, target) = BalancedCents(AsFunction(parts), scale, target)
         /\ \A s \in BalancedCents(AsFunction(parts), scale, target) : s[2] \in Nat
<1> DEFINE raw == AsFunction(parts)
           I == Holders(parts)
<1>1. DOMAIN raw = I /\ \A i \in I : raw[i] = Part(parts, i)
  BY FunctionOfTally
<1>2. parts = {<<i, Part(parts, i)>> : i \in I} /\ IsFiniteSet(I)
  BY DEF IsTally
<1>3. \A i \in I : raw[i] \in Nat
  <2> SUFFICES ASSUME NEW i \in I
               PROVE  raw[i] \in Nat
    OBVIOUS
  <2>1. <<i, Part(parts, i)>> \in parts
    BY <1>2
  <2>2. <<i, Part(parts, i)>>[2] \in Nat
    BY <2>1
  <2> HIDE DEF raw, I
  <2> QED
    BY <1>1, <2>2
<1> HIDE DEF raw, I
<1>4. parts = Graph(raw, DOMAIN raw)
  BY <1>1, <1>2 DEF Graph
<1>5. /\ DOMAIN raw \subseteq Int /\ IsFiniteSet(DOMAIN raw)
      /\ \A i \in DOMAIN raw : raw[i] \in Nat
  BY <1>1, <1>2, <1>3 DEF I
<1>6. ReferenceAllocate(parts, scale, target) = BalancedCents(raw, scale, target)
  BY <1>4, <1>5, AllocationsAgree
<1>7. \A s \in BalancedCents(raw, scale, target) : s[2] \in Nat
  BY <1>5, BalancedPlus
<1> QED
  BY <1>6, <1>7 DEF raw

\* So the amounts of one side in a typical month are the same.
LEMMA SidesAgree ==
  ASSUME NEW side, Sound(side), members \subseteq Persons,
         \A v \in side : v.id \in Int /\ v.cents \in Nat, NEW n \in Nat \ {0}
  PROVE  /\ ReferenceAllocate(AmountPairs(side), n, Quotient(Total(AmountPairs(side)), n)) = AmountsOf(side, n)
         /\ \A s \in AmountsOf(side, n) : s[2] \in Nat
<1> DEFINE pairs == AmountPairs(side)
           target == Quotient(Amount(side), n)
<1>1. /\ IsTally(pairs) /\ Holders(pairs) = {v.id : v \in side} /\ Total(pairs) = Amount(side)
      /\ Amount(side) \in Int
  BY PairsOfSide
<1>2. Holders(pairs) \subseteq Int /\ \A s \in pairs : s[2] \in Nat
  BY <1>1 DEF AmountPairs
<1>3. target \in Int
  BY <1>1, QuotientNear
<1>4. AmountsOf(side, n) = BalancedCents(AsFunction(pairs), n, target)
  BY DEF AmountsOf, AmountPairs
<1> HIDE DEF pairs, target
<1>5. /\ ReferenceAllocate(pairs, n, target) = BalancedCents(AsFunction(pairs), n, target)
      /\ \A s \in BalancedCents(AsFunction(pairs), n, target) : s[2] \in Nat
  BY <1>1, <1>2, <1>3, TalliesAllocated
<1> QED
  BY <1>1, <1>4, <1>5 DEF pairs, target

\* The sum of a booking has no cents below zero when its months have none.
LEMMA TotalIsPlus ==
  ASSUME NEW values, Values(values), members \subseteq Persons, \A v \in values : Plus(v), NEW id
  PROVE  Plus(TotalValue(values, id))
<1> DEFINE same == SameId(values, id)
           t == TotalValue(values, id)
<1>1. t.cents = Amount(same) /\ t.shares = SharesIn(same)
  BY DEF TotalValue, Valued
<1>2. same \in SUBSET values
  BY DEF SameId
<1> HIDE DEF same, t
<1>3. Values(same) /\ IsFiniteSet(same)
  BY <1>2, SumsWithin
<1>4. \A v \in same : Plus(v) /\ IsValue(v)
  BY <1>2, <1>3 DEF Values
<1>5. Amount(same) \in Nat
  <2> DEFINE f == CentsOf(same)
  <2>1. \A v \in same : f[v] \in Nat
    BY <1>4 DEF CentsOf, Plus
  <2>2. Amount(same) = SumFunctionOnSet(f, same)
    BY <1>3, SumsWithin
  <2> HIDE DEF f
  <2> QED
    BY <1>3, <2>1, <2>2, SumNotNegative
<1>6. \A i : SharesOf(same, i) \in Nat
  <2> SUFFICES ASSUME NEW i
               PROVE  SharesOf(same, i) \in Nat
    OBVIOUS
  <2> DEFINE f == ShareOf(same, i)
  <2>1. \A v \in same : f[v] \in Nat
    <3>1. \A v \in same : Part(v.shares, i) \in Nat
      BY <1>4, PlusInParts
    <3> QED
      BY <3>1 DEF ShareOf
  <2>2. SharesOf(same, i) = SumFunctionOnSet(f, same)
    BY <1>3, SumsWithin
  <2> HIDE DEF f
  <2> QED
    BY <1>3, <2>1, <2>2, SumNotNegative
<1>7. \A s \in SharesIn(same) : s[2] \in Nat
  <2> DEFINE g == [i \in Carriers(same) |-> SharesOf(same, i)]
  <2>1. \A i \in Carriers(same) : g[i] \in Nat
    BY <1>6
  <2>2. SharesIn(same) = {<<i, g[i]>> : i \in Carriers(same)}
    BY DEF SharesIn
  <2> HIDE DEF g
  <2> QED
    BY <2>1, <2>2
<1> QED
  BY <1>1, <1>5, <1>7 DEF Plus, t

\* The reference of a period, part by part.
ReferenceSide(values, d) ==
    {<<id, Amount(SameId(values, id))>> :
        id \in {x \in {v.id : v \in values} :
                    (CHOOSE v \in SameId(values, x) : TRUE).booking.direction = d}}
ReferenceAmounts(values, n) ==
    ReferenceAllocate(ReferenceSide(values, "income"), n, Quotient(Total(ReferenceSide(values, "income")), n))
    \cup ReferenceAllocate(ReferenceSide(values, "expense"), n, Quotient(Total(ReferenceSide(values, "expense")), n))
ReferenceMean(values, n, amounts, id) ==
    LET same == SameId(values, id)
        cents == Part(amounts, id)
        complete == \A v \in same : v.complete
        target == IF complete THEN cents ELSE Quotient(Total(SharesIn(same)), n)
    IN  Valued(id, (CHOOSE v \in same : TRUE).booking, 0, cents,
               ReferenceAllocate(SharesIn(same), n, target), complete)

LEMMA ReferencePeriodOpened ==
  ASSUME NEW values, NEW n
  PROVE  ReferencePeriod(values, n)
             = {ReferenceMean(values, n, ReferenceAmounts(values, n), id) : id \in {v.id : v \in values}}
BY DEF ReferencePeriod, ReferenceMean, ReferenceAmounts, ReferenceSide, SameId, SharesIn, Carriers,
       Amount, SharesOf

\* One side of the totals in the words of the reference.
LEMMA SidesOfTotals ==
  ASSUME NEW values, NEW d
  PROVE  AmountPairs(Side(Totals(values), d)) = ReferenceSide(values, d)
<1> DEFINE ids == {v.id : v \in values}
           t == [id \in ids |-> TotalValue(values, id)]
           K == {x \in ids : (CHOOSE v \in SameId(values, x) : TRUE).booking.direction = d}
           cents == [id \in ids |-> Amount(SameId(values, id))]
<1>1. Totals(values) = {t[id] : id \in ids}
  BY TotalsOpened
<1>2. \A id \in ids : /\ t[id].id = id /\ t[id].cents = cents[id]
                      /\ (t[id].booking.direction = d) = (id \in K)
  BY DEF TotalValue, Valued
<1>3. ReferenceSide(values, d) = {<<id, cents[id]>> : id \in K}
  BY DEF ReferenceSide
<1>4. K \subseteq ids
  OBVIOUS
<1> HIDE DEF t, K, cents, ids
<1>5. Side(Totals(values), d) = {t[id] : id \in K}
  BY <1>1, <1>2, <1>4 DEF Side
<1>6. {<<v.id, v.cents>> : v \in {t[id] : id \in K}} = {<<id, cents[id]>> : id \in K}
  BY <1>2, <1>4
<1> QED
  BY <1>3, <1>5, <1>6 DEF AmountPairs

\* Both make the same typical month, with no cent below zero.
LEMMA PeriodsAgree ==
  ASSUME NEW values, Prepared(values), members \subseteq Persons,
         \A v \in values : Plus(v) /\ v.id \in Int, NEW n \in Nat \ {0}
  PROVE  /\ ReferencePeriod(values, n) = Averages(Totals(values), n)
         /\ Sound(Averages(Totals(values), n))
         /\ \A v \in Averages(Totals(values), n) : Plus(v)
<1> DEFINE totals == Totals(values)
           ids == {v.id : v \in values}
           amounts == MeanAmounts(totals, n)
           t == [id \in ids |-> TotalValue(values, id)]
<1>1. /\ Values(values) /\ Sound(totals)
      /\ \A v \in totals : \E w \in values : v.id = w.id
  BY TotalsAreSound DEF Prepared, Values
<1>2. totals = {t[id] : id \in ids}
  BY TotalsOpened
<1>3. \A id \in ids : Plus(t[id])
  BY <1>1, TotalIsPlus
<1>4. \A v \in totals : v.id \in Int /\ v.cents \in Nat /\ Plus(v) /\ IsValue(v)
  BY <1>1, <1>2, <1>3 DEF Plus, Sound
<1>5. Sound(Averages(totals, n))
  <2> HIDE DEF totals
  <2> QED
    BY <1>1, <1>4, AveragesAreSound
<1>6. ASSUME NEW d
      PROVE  /\ ReferenceAllocate(ReferenceSide(values, d), n, Quotient(Total(ReferenceSide(values, d)), n))
                    = AmountsOf(Side(totals, d), n)
             /\ \A s \in AmountsOf(Side(totals, d), n) : s[2] \in Nat
  <2> DEFINE side == Side(totals, d)
  <2>0. Sound(side) /\ side \in SUBSET totals
    BY <1>1, SideIsSound
  <2>1. Sound(side) /\ \A v \in side : v.id \in Int /\ v.cents \in Nat
    BY <1>4, <2>0
  <2>2. AmountPairs(side) = ReferenceSide(values, d)
    BY SidesOfTotals
  <2> HIDE DEF side
  <2>3. /\ ReferenceAllocate(AmountPairs(side), n, Quotient(Total(AmountPairs(side)), n)) = AmountsOf(side, n)
        /\ \A s \in AmountsOf(side, n) : s[2] \in Nat
    BY <2>1, SidesAgree
  <2> QED
    BY <2>2, <2>3 DEF side
<1>7. /\ Averages(totals, n) = {AverageValue(amounts, n, v) : v \in totals}
      /\ amounts = AmountsOf(Side(totals, "income"), n) \cup AmountsOf(Side(totals, "expense"), n)
  BY AveragesOpened
<1>8. ReferenceAmounts(values, n) = amounts
  BY <1>6, <1>7 DEF ReferenceAmounts
<1>9. \A s \in amounts : s[2] \in Nat
  BY <1>6, <1>7
<1>10. \A id \in ids : /\ t[id].id = id
                       /\ t[id].booking = (CHOOSE v \in SameId(values, id) : TRUE).booking
                       /\ t[id].shares = SharesIn(SameId(values, id))
                       /\ t[id].complete = \A v \in SameId(values, id) : v.complete
                       /\ t[id] \in totals
  BY <1>2 DEF TotalValue, Valued
<1>11. \A id \in ids : Part(amounts, id) \in Nat
  <2> SUFFICES ASSUME NEW id
               PROVE  Part(amounts, id) \in Nat
    OBVIOUS
  <2> HIDE DEF amounts
  <2>1. CASE id \in Holders(amounts)
    <3>1. PICK p \in amounts : p[1] = id
      BY <2>1 DEF Holders
    <3> DEFINE q == CHOOSE x \in amounts : x[1] = id
    <3>2. q \in amounts
      BY <3>1
    <3>3. Part(amounts, id) = q[2]
      BY <2>1 DEF Part
    <3> HIDE DEF q
    <3> QED
      BY <1>9, <3>2, <3>3
  <2>2. CASE id \notin Holders(amounts)
    BY <2>2 DEF Part
  <2> QED
    BY <2>1, <2>2
<1>12. ASSUME NEW id \in ids
       PROVE  /\ ReferenceMean(values, n, amounts, id) = AverageValue(amounts, n, t[id])
              /\ Plus(AverageValue(amounts, n, t[id]))
  <2> DEFINE v == t[id]
             cents == Part(amounts, id)
             target == IF v.complete THEN cents ELSE Quotient(Total(v.shares), n)
             w == AverageValue(amounts, n, v)
  <2>1. /\ v \in totals /\ v.id = id /\ IsValue(v) /\ Plus(v)
        /\ v.booking = (CHOOSE x \in SameId(values, id) : TRUE).booking
        /\ v.shares = SharesIn(SameId(values, id))
        /\ v.complete = \A x \in SameId(values, id) : x.complete
    BY <1>4, <1>10
  <2> HIDE DEF v
  <2>2. /\ ReferenceMean(values, n, amounts, id)
               = Valued(id, v.booking, 0, cents, ReferenceAllocate(v.shares, n, target), v.complete)
        /\ w = Valued(id, v.booking, 0, cents, BalancedCents(AsFunction(v.shares), n, target), v.complete)
    BY <2>1 DEF ReferenceMean, AverageValue
  <2>3. cents \in Nat
    BY <1>11
  <2>4. Total(v.shares) \in Int
    BY <2>1, ValueTyped
  <2>5. target \in Int
    BY <2>3, <2>4, QuotientNear
  <2>6. IsTally(v.shares) /\ Holders(v.shares) \subseteq Int /\ \A s \in v.shares : s[2] \in Nat
    BY <2>1, PersonsAre DEF IsValue, Plus
  <2> HIDE DEF target, cents, w
  <2>7. /\ ReferenceAllocate(v.shares, n, target) = BalancedCents(AsFunction(v.shares), n, target)
        /\ \A s \in BalancedCents(AsFunction(v.shares), n, target) : s[2] \in Nat
    BY <2>5, <2>6, TalliesAllocated
  <2>8. w.cents = cents /\ w.shares = BalancedCents(AsFunction(v.shares), n, target)
    BY <2>2 DEF Valued
  <2>9. Plus(w)
    BY <2>3, <2>7, <2>8 DEF Plus
  <2> QED
    BY <2>2, <2>7, <2>9 DEF v, w
<1> DEFINE want == [id \in ids |-> ReferenceMean(values, n, amounts, id)]
           got == [id \in ids |-> AverageValue(amounts, n, t[id])]
<1>13. \A id \in ids : want[id] = got[id] /\ got[id] = AverageValue(amounts, n, t[id]) /\ Plus(got[id])
  BY <1>12
<1>14. ReferencePeriod(values, n) = {want[id] : id \in ids}
  BY <1>8, ReferencePeriodOpened
<1> HIDE DEF totals, ids, amounts, t, want, got
<1>15. Averages(totals, n) = {got[id] : id \in ids}
  <2>1. {AverageValue(amounts, n, v) : v \in totals} = {AverageValue(amounts, n, t[id]) : id \in ids}
    BY <1>2
  <2>2. {AverageValue(amounts, n, t[id]) : id \in ids} = {got[id] : id \in ids}
    BY <1>13
  <2> QED
    BY <1>7, <2>1, <2>2
<1>16. ReferencePeriod(values, n) = Averages(totals, n)
  BY <1>13, <1>14, <1>15
<1>17. \A v \in Averages(totals, n) : Plus(v)
  BY <1>13, <1>15
<1> QED
  BY <1>5, <1>16, <1>17 DEF totals

-----------------------------------------------------------------------------
(***************************************************************************)
(* A period of one month.                                                  *)
(***************************************************************************)
\* A value without its month.
Undated(v) == Valued(v.id, v.booking, 0, v.cents, v.shares, v.complete)
UndatedIn(some) == {Undated(v) : v \in some}

LEMMA UndatedValue ==
  ASSUME NEW v, IsValue(v)
  PROVE  LET w == Undated(v)
         IN  /\ w.id = v.id /\ w.booking = v.booking /\ w.cents = v.cents /\ w.shares = v.shares
             /\ w.unassigned = v.unassigned /\ w.complete = v.complete
             /\ IsValue(w)
             /\ \A member : Scoped(w, member) = Scoped(v, member)
<1> DEFINE w == Undated(v)
<1>1. /\ w.id = v.id /\ w.booking = v.booking /\ w.cents = v.cents /\ w.shares = v.shares
      /\ w.unassigned = v.cents - Total(v.shares) /\ w.complete = v.complete
  BY DEF Undated, Valued
<1>2. w.unassigned = v.unassigned
  BY <1>1 DEF IsValue
<1> HIDE DEF w
<1>3. IsValue(w)
  BY <1>1, <1>2 DEF IsValue
<1>4. \A member : Scoped(w, member) = Scoped(v, member)
  BY <1>1 DEF Scoped
<1> QED
  BY <1>1, <1>2, <1>3, <1>4 DEF w

\* The sum of a booking over one month is its value there.
LEMMA TotalOfOne ==
  ASSUME NEW values, Sound(values), members \subseteq Persons, NEW v \in values, v.complete \in BOOLEAN
  PROVE  TotalValue(values, v.id) = Undated(v)
<1> DEFINE same == SameId(values, v.id)
<1>1. same = {v}
  BY DEF SameId, Sound
<1>2. IsValue(v) /\ Values({v})
  BY FS_Singleton DEF Sound, Values
<1>3. (CHOOSE x \in {v} : TRUE) = v
  OBVIOUS
<1>4. Amount({v}) = v.cents
  <2> DEFINE f == CentsOf({v})
  <2>1. f[v] = v.cents /\ f[v] \in Int
    BY <1>2 DEF CentsOf, IsValue
  <2>2. Amount({v}) = SumFunctionOnSet(f, {v})
    BY <1>2, SumsWithin
  <2> HIDE DEF f
  <2>3. SumFunctionOnSet(f, {v}) = f[v]
    BY <2>1, SumOfOne
  <2> QED
    BY <2>1, <2>2, <2>3
<1>5. \A i : SharesOf({v}, i) = Part(v.shares, i)
  <2> SUFFICES ASSUME NEW i
               PROVE  SharesOf({v}, i) = Part(v.shares, i)
    OBVIOUS
  <2> DEFINE f == ShareOf({v}, i)
  <2>1. Part(v.shares, i) \in Int
    BY <1>2, ValueTyped
  <2>2. f[v] = Part(v.shares, i)
    BY DEF ShareOf
  <2>3. SharesOf({v}, i) = SumFunctionOnSet(f, {v})
    BY <1>2, SumsWithin
  <2> HIDE DEF f
  <2>4. SumFunctionOnSet(f, {v}) = f[v]
    BY <2>1, <2>2, SumOfOne
  <2> QED
    BY <2>2, <2>3, <2>4
<1>6. SharesIn({v}) = v.shares
  <2>1. Carriers({v}) = Holders(v.shares)
    BY DEF Carriers
  <2>2. v.shares = {<<i, Part(v.shares, i)>> : i \in Holders(v.shares)}
    BY <1>2 DEF IsValue, IsTally
  <2> QED
    BY <1>5, <2>1, <2>2 DEF SharesIn
<1>7. (\A x \in {v} : x.complete) = v.complete
  OBVIOUS
<1> QED
  BY <1>1, <1>3, <1>4, <1>6, <1>7 DEF TotalValue, Undated

\* Each booking of a typical month is near the mean of its sum.
LEMMA MeanOfEach ==
  ASSUME NEW totals, Sound(totals), members \subseteq Persons, \A v \in totals : v.id \in Int,
         NEW n \in Nat \ {0}
  PROVE  \A v \in totals : LET mean == Part(MeanAmounts(totals, n), v.id)
                           IN  mean \in Int /\ Near(mean, v.cents, n)
<1> DEFINE part == [d \in Directions |-> AmountsOf(Side(totals, d), n)]
           amounts == MeanAmounts(totals, n)
<1>1. amounts = part["income"] \cup part["expense"]
  BY AveragesOpened DEF Directions
<1>2. \A d \in Directions : Sound(Side(totals, d)) /\ \A v \in Side(totals, d) : v.id \in Int
  BY SideIsSound DEF Side
<1>3. \A d \in Directions :
          /\ IsTally(part[d]) /\ Holders(part[d]) = {v.id : v \in Side(totals, d)}
          /\ \A v \in Side(totals, d) : Part(part[d], v.id) \in Int /\ Near(Part(part[d], v.id), v.cents, n)
  BY <1>2, MeanOfSide
<1>4. \A v \in totals : v.booking.direction \in Directions /\ v \in Side(totals, v.booking.direction)
  BY DEF Sound, IsValue, Side
<1> HIDE DEF part, amounts
<1>5. Holders(part["income"]) \cap Holders(part["expense"]) = {}
  <2>1. \A v \in Side(totals, "income") : \A w \in Side(totals, "expense") : v.id # w.id
    BY DEF Side, Sound
  <2> QED
    BY <1>3, <2>1 DEF Directions
<1>6. ASSUME NEW d \in Directions, NEW v \in Side(totals, d)
      PROVE  Part(amounts, v.id) = Part(part[d], v.id)
  <2>1. v.id \in Holders(part[d])
    BY <1>3
  <2>2. IsTally(part["income"]) /\ IsTally(part["expense"])
    BY <1>3 DEF Directions
  <2>3. CASE d = "income"
    BY <1>1, <1>5, <2>1, <2>2, <2>3, PartOfUnion
  <2>4. CASE d = "expense"
    BY <1>1, <1>5, <2>1, <2>2, <2>4, PartOfUnion
  <2> QED
    BY <2>3, <2>4 DEF Directions
<1> QED
  BY <1>3, <1>4, <1>6 DEF amounts

\* What is near a number over one is the number.
LEMMA NearOne ==
  ASSUME NEW a \in Int, NEW b \in Int, Near(a, b, 1)
  PROVE  a = b
BY DEF Near

\* Whole cents are divided into themselves.
LEMMA DividedByOne ==
  ASSUME NEW parts, IsTally(parts), Holders(parts) \subseteq Int
  PROVE  /\ Quotient(Total(parts), 1) = Total(parts)
         /\ BalancedCents(AsFunction(parts), 1, Total(parts)) = parts
<1> DEFINE raw == AsFunction(parts)
           total == Total(parts)
           got == BalancedCents(raw, 1, total)
           I == Holders(parts)
<1>1. /\ DOMAIN raw = I
      /\ \A i \in I : raw[i] = Part(parts, i) /\ raw[i] \in Int
      /\ total = SumFunctionOnSet(raw, I) /\ total \in Int
  BY FunctionOfTally
<1>2. IsFiniteSet(I) /\ parts = {<<i, Part(parts, i)>> : i \in I}
  BY DEF IsTally
<1>3. Near(total, total, 1)
  <2> HIDE DEF total
  <2> QED
    BY <1>1 DEF Near
<1>4. Quotient(total, 1) \in Int /\ Near(Quotient(total, 1), total, 1)
  BY <1>1, QuotientNear
<1> HIDE DEF raw, total, got, I
<1>5. Quotient(total, 1) = total
  BY <1>1, <1>4, NearOne
<1>6. /\ IsTally(got) /\ Holders(got) = I
      /\ \A i \in I : Part(got, i) \in Int /\ Near(Part(got, i), raw[i], 1)
  <2>1. I \subseteq Int
    BY DEF I
  <2>2. Near(total, SumFunctionOnSet(raw, DOMAIN raw), 1)
    BY <1>1, <1>3
  <2> QED
    BY <1>1, <1>2, <2>1, <2>2, BalancedCentsAddUp DEF got
<1>7. \A i \in I : Part(got, i) = Part(parts, i)
  BY <1>1, <1>6, NearOne
<1>8. got = {<<i, Part(got, i)>> : i \in I}
  BY <1>6 DEF IsTally
<1>9. got = parts
  BY <1>2, <1>7, <1>8
<1> QED
  BY <1>5, <1>9 DEF got, total, raw

\* The typical month of one month is that month, without its date.
LEMMA TypicalOfOne ==
  ASSUME NEW values, Sound(values), members \subseteq Persons,
         \A v \in values : v.id \in Int /\ v.complete \in BOOLEAN
  PROVE  Averages(Totals(values), 1) = UndatedIn(values)
<1> DEFINE totals == Totals(values)
           ids == {v.id : v \in values}
           amounts == MeanAmounts(totals, 1)
<1>1. totals = UndatedIn(values)
  <2>1. totals = {TotalValue(values, id) : id \in ids}
    BY TotalsOpened
  <2>2. {TotalValue(values, id) : id \in ids} = {TotalValue(values, v.id) : v \in values}
    OBVIOUS
  <2>3. \A v \in values : TotalValue(values, v.id) = Undated(v)
    BY TotalOfOne
  <2> HIDE DEF totals, ids
  <2> QED
    BY <2>1, <2>2, <2>3 DEF UndatedIn
<1>2. \A v \in values : IsValue(v) /\ IsValue(Undated(v)) /\ Undated(v).id = v.id /\ Undated(v) \in totals
  BY <1>1, UndatedValue DEF Sound, UndatedIn
<1>3. Sound(totals) /\ \A v \in totals : v.id \in Int
  <2>1. Prepared(values)
    BY DEF Prepared, Sound
  <2>2. Sound(totals)
    BY <2>1, TotalsAreSound
  <2> QED
    BY <1>1, <1>2, <2>2 DEF UndatedIn
<1>4. 1 \in Nat \ {0}
  OBVIOUS
<1>5. \A t \in totals : Part(amounts, t.id) \in Int /\ Near(Part(amounts, t.id), t.cents, 1)
  <2> HIDE DEF totals
  <2> QED
    BY <1>3, <1>4, MeanOfEach
<1>6. Averages(totals, 1) = {AverageValue(amounts, 1, t) : t \in totals}
  BY <1>4, AveragesOpened
<1> HIDE DEF totals, amounts
<1>7. ASSUME NEW v \in values
      PROVE  AverageValue(amounts, 1, Undated(v)) = Undated(v)
  <2> DEFINE t == Undated(v)
             cents == Part(amounts, t.id)
             target == IF t.complete THEN cents ELSE Quotient(Total(t.shares), 1)
  <2>1. IsValue(v) /\ IsValue(t) /\ t \in totals
    BY <1>2
  <2>2. /\ t.id = v.id /\ t.booking = v.booking /\ t.cents = v.cents /\ t.shares = v.shares
        /\ t.complete = v.complete
    BY <2>1, UndatedValue
  <2>3. AverageValue(amounts, 1, t)
            = Valued(t.id, t.booking, 0, cents, BalancedCents(AsFunction(t.shares), 1, target), t.complete)
    BY DEF AverageValue
  <2> HIDE DEF t
  <2>4. cents = t.cents
    <3> DEFINE c == t.cents
    <3>1. c \in Int /\ cents \in Int /\ Near(cents, c, 1)
      BY <1>5, <2>1 DEF IsValue
    <3> HIDE DEF c, cents
    <3> QED
      BY <3>1, NearOne DEF c
  <2>5. IsTally(t.shares) /\ Holders(t.shares) \subseteq Int
    BY <2>1, PersonsAre DEF IsValue
  <2>6. /\ Quotient(Total(t.shares), 1) = Total(t.shares)
        /\ BalancedCents(AsFunction(t.shares), 1, Total(t.shares)) = t.shares
    BY <2>5, DividedByOne
  <2>7. target = Total(t.shares)
    <3>1. CASE t.complete
      <4> DEFINE c == t.cents
                 u == t.unassigned
                 s == Total(t.shares)
      <4>1. c \in Int /\ s \in Int /\ c = s + u
        BY <2>1, ValueTyped
      <4>2. u = 0
        BY <2>1, <3>1 DEF IsValue
      <4>3. c = s
        <5> HIDE DEF c, u, s
        <5> QED
          BY <4>1, <4>2
      <4> QED
        BY <2>4, <3>1, <4>3
    <3>2. CASE ~t.complete
      BY <2>6, <3>2
    <3> QED
      BY <3>1, <3>2
  <2> HIDE DEF cents, target
  <2> QED
    BY <2>2, <2>3, <2>4, <2>6, <2>7 DEF t, Undated
<1>8. Averages(totals, 1) = UndatedIn(values)
  BY <1>1, <1>6, <1>7 DEF UndatedIn
<1> QED
  BY <1>8 DEF totals

\* Sums do not depend on the date.
LEMMA UndatedSums ==
  ASSUME NEW values, Sound(values), members \subseteq Persons, NEW some \in SUBSET values
  PROVE  /\ Values(UndatedIn(some))
         /\ Cardinality(UndatedIn(some)) = Cardinality(some)
         /\ Unassigned(UndatedIn(some)) = Unassigned(some)
         /\ \A member : InScope(UndatedIn(some), member) = InScope(some, member)
<1> DEFINE name == [v \in some |-> Undated(v)]
           image == UndatedIn(some)
           rest == RestOf(some)
           restOf == RestOf(image)
<1>1. Sound(some) /\ Values(some) /\ IsFiniteSet(some)
  BY SoundValues DEF Sound
<1>2. image = ImageOf(name, some)
  BY DEF ImageOf, UndatedIn
<1>3. \A v \in some : /\ name[v] \in image /\ IsValue(name[v])
                      /\ name[v].id = v.id /\ name[v].unassigned = v.unassigned
                      /\ \A member : Scoped(name[v], member) = Scoped(v, member)
  BY <1>1, UndatedValue DEF UndatedIn, Values
<1>4. \A v, w \in some : name[v] = name[w] => v = w
  BY <1>1, <1>3 DEF Sound
<1>5. \A v \in some : rest[v] = v.unassigned /\ restOf[name[v]] = rest[v]
  BY <1>3 DEF RestOf
<1>6. \A v \in some : rest[v] \in Int
  BY <1>1, ValueTyped DEF RestOf, Values
<1> HIDE DEF name, image, rest, restOf
<1>7. IsFiniteSet(image) /\ Cardinality(image) = Cardinality(some)
      /\ SumFunctionOnSet(rest, some) = SumFunctionOnSet(restOf, image)
  BY <1>1, <1>2, <1>4, <1>5, <1>6, SumRenamed
<1>8. Values(image)
  BY <1>2, <1>3, <1>7 DEF Values, ImageOf
<1>9. Unassigned(image) = Unassigned(some)
  <2>1. Unassigned(image) = SumFunctionOnSet(restOf, image)
    BY <1>8, SumsWithin DEF restOf
  <2>2. Unassigned(some) = SumFunctionOnSet(rest, some)
    BY <1>1, SumsWithin DEF rest
  <2> QED
    BY <1>7, <2>1, <2>2
<1>10. ASSUME NEW member
       PROVE  InScope(image, member) = InScope(some, member)
  <2> DEFINE f == ScopeOf(some, member)
             g == ScopeOf(image, member)
  <2>1. /\ \A v \in some : f[v] = Scoped(v, member) /\ f[v] \in Int
        /\ InScope(some, member) = SumFunctionOnSet(f, some)
    BY <1>1, ScopeWithin
  <2>2. /\ \A v \in image : g[v] = Scoped(v, member)
        /\ InScope(image, member) = SumFunctionOnSet(g, image)
    BY <1>8, ScopeWithin
  <2> HIDE DEF f, g
  <2>3. \A v \in some : g[name[v]] = f[v]
    BY <1>3, <2>1, <2>2
  <2>4. SumFunctionOnSet(f, some) = SumFunctionOnSet(g, ImageOf(name, some))
    BY <1>1, <1>4, <2>1, <2>3, SumRenamed
  <2> QED
    BY <1>2, <2>1, <2>2, <2>4
<1> QED
  BY <1>7, <1>8, <1>9, <1>10 DEF image

\* And neither do breakdowns.
LEMMA UndatedBreakdown ==
  ASSUME NEW values, Sound(values), members \subseteq Persons, NEW member, NEW field
  PROVE  SumsBy(UndatedIn(values), member, field) = SumsBy(values, member, field)
<1> DEFINE image == UndatedIn(values)
           K == KeysOf(values, field)
           sum == [k \in K |-> InScope(GroupOf(values, field, k), member)]
<1>1. \A v \in values : Undated(v).booking = v.booking
  BY DEF Undated, Valued
<1>2. \A k : GroupOf(image, field, k) = UndatedIn(GroupOf(values, field, k))
  BY <1>1 DEF GroupOf, UndatedIn
<1>3. KeysOf(image, field) = K
  <2>1. {v.booking[field] : v \in image} = {Undated(v).booking[field] : v \in values}
    BY DEF UndatedIn
  <2>2. {Undated(v).booking[field] : v \in values} = {v.booking[field] : v \in values}
    BY <1>1
  <2> QED
    BY <2>1, <2>2 DEF KeysOf
<1>4. \A k : GroupOf(values, field, k) \in SUBSET values
  BY DEF GroupOf
<1>5. \A k : InScope(GroupOf(image, field, k), member) = InScope(GroupOf(values, field, k), member)
  <2> HIDE DEF image
  <2> QED
    BY <1>2, <1>4, UndatedSums
<1>6. /\ SumsBy(image, member, field) = {<<k, InScope(GroupOf(image, field, k), member)>> : k \in KeysOf(image, field)}
      /\ SumsBy(values, member, field) = {<<k, InScope(GroupOf(values, field, k), member)>> : k \in K}
  BY DEF SumsBy, GroupOf, KeysOf
<1> HIDE DEF image, K
<1> QED
  BY <1>3, <1>5, <1>6 DEF image

\* So a report of values tells of them without their dates.
LEMMA UndatedTells ==
  ASSUME NEW values, Sound(values), members \subseteq Persons, NEW member,
         NEW got, ReportTells(got, values, member)
  PROVE  ReportTells(got, UndatedIn(values), member)
<1>1. ASSUME NEW d
      PROVE  /\ Side(UndatedIn(values), d) = UndatedIn(Side(values, d))
             /\ Sound(Side(values, d)) /\ Side(values, d) \in SUBSET values
  <2>1. \A v \in values : Undated(v).booking = v.booking
    BY DEF Undated, Valued
  <2>2. Side(UndatedIn(values), d) = UndatedIn(Side(values, d))
    BY <2>1 DEF Side, UndatedIn
  <2> QED
    BY <2>2, SideIsSound
<1>2. ASSUME NEW d
      PROVE  /\ InScope(Side(UndatedIn(values), d), member) = InScope(Side(values, d), member)
             /\ Unassigned(Side(UndatedIn(values), d)) = Unassigned(Side(values, d))
             /\ \A field : SumsBy(Side(UndatedIn(values), d), member, field) = SumsBy(Side(values, d), member, field)
  BY <1>1, UndatedSums, UndatedBreakdown
<1> QED
  BY <1>2 DEF ReportTells

-----------------------------------------------------------------------------
(***************************************************************************)
(* The periods of the year.                                                *)
(***************************************************************************)
\* A split is complete or not.
LEMMA CompleteOrNot ==
  ASSUME BookInv, NEW basis, NEW m
  PROVE  \A v \in MonthValues(basis, m) : v.complete \in BOOLEAN
<1>1. \A e \in Entries(basis, m) : e.booking.mode \in Modes
  BY PaymentIsEntry, PlanIsEntry DEF Entries, PaymentsIn, PlansIn, AcceptedIn, IsEntry, IsBooking
<1>2. ASSUME NEW b, b.mode \in Modes, NEW amount
      PROVE  CompleteSplit(b, amount) \in BOOLEAN
  <2> DEFINE sum == SumFunction([i \in DOMAIN b.splits |-> IF b.mode = "percent" THEN ClampPercent(b.splits[i])
                                                           ELSE b.splits[i]])
  <2>1. CompleteSplit(b, amount) = CASE b.mode = "percent" -> sum = 100
                                     [] b.mode = "fixed"   -> sum = amount
                                     [] b.mode = "equal"   -> DOMAIN b.splits # {}
    BY DEF CompleteSplit
  <2> HIDE DEF sum
  <2> QED
    BY <1>2, <2>1 DEF Modes
<1>3. \A e \in Entries(basis, m) : EvaluateBooking(e, m).complete \in BOOLEAN
  <2> SUFFICES ASSUME NEW e \in Entries(basis, m)
               PROVE  EvaluateBooking(e, m).complete \in BOOLEAN
    OBVIOUS
  <2>1. EvaluateBooking(e, m).complete = CompleteSplit(e.booking, AmountFor(e.booking, e.overrides, m))
    BY DEF EvaluateBooking, Valued
  <2> QED
    BY <1>1, <1>2, <2>1
<1> QED
  BY <1>3 DEF MonthValues

\* The typical month of some months is the same in both calculations.
LEMMA TypicalAgrees ==
  ASSUME Comparable, NEW basis, NEW months \in SUBSET Months
  PROVE  LET values == Prepare(basis)
             typical == Typical(values, months)
         IN  /\ Sound(typical) /\ Values(typical)
             /\ \A v \in typical : Plus(v)
             /\ months = {} => typical = {}
             /\ months # {} => ReferencePeriod(Within(values, months), Cardinality(months)) = typical
<1> DEFINE values == Prepare(basis)
           typical == Typical(values, months)
           some == Within(values, months)
           n == Cardinality(months)
<1>1. BookInv /\ members \subseteq Persons
  BY DEF Comparable, BookInv
<1>2. IsFiniteSet(months) /\ n \in Nat
  BY MonthsAreNumbers, FS_Subset, FS_CardinalityType
<1>3. (months = {} => n = 0) /\ (months # {} => n # 0)
  BY <1>2, FS_EmptySet
<1>4. typical = Averages(Totals(some), n)
  BY DEF Typical
<1>5. CASE months = {}
  <2>1. typical = {}
    BY <1>3, <1>4, <1>5 DEF Averages
  <2> QED
    BY <1>5, <2>1, FS_EmptySet DEF Sound, Values
<1>6. CASE months # {}
  <2>1. some \in SUBSET values
    BY DEF Within
  <2>2. Prepared(some) /\ \A v \in some : Plus(v) /\ v.id \in Int
    BY <1>1, <2>1, YearsAgree, PreparedYear
  <2>3. n \in Nat \ {0}
    BY <1>2, <1>3, <1>6
  <2> HIDE DEF values, some, n, typical
  <2>4. /\ ReferencePeriod(some, n) = typical
        /\ Sound(typical) /\ \A v \in typical : Plus(v)
    BY <1>1, <1>4, <2>2, <2>3, PeriodsAgree
  <2> QED
    BY <1>6, <2>4, SoundValues DEF values, some, n, typical
<1> QED
  BY <1>5, <1>6

\* The typical month of a single month.
LEMMA TypicalOfMonth ==
  ASSUME BookInv, NEW basis, NEW m \in Months
  PROVE  Typical(Prepare(basis), {m}) = UndatedIn(MonthValues(basis, m))
<1> DEFINE here == MonthValues(basis, m)
<1>1. members \subseteq Persons
  BY DEF BookInv
<1>2. Within(Prepare(basis), {m}) = here
  <2>1. Within(Prepare(basis), {m}) = Of(Prepare(basis), m)
    BY DEF Within, Of
  <2> QED
    BY <2>1, MonthOfYear
<1>3. Sound(here) /\ \A v \in here : v.id \in Int /\ v.complete \in BOOLEAN
  BY MonthIsSound, CompleteOrNot
<1>4. Cardinality({m}) = 1
  BY FS_Singleton
<1> HIDE DEF here
<1>5. Averages(Totals(here), 1) = UndatedIn(here)
  BY <1>1, <1>3, TypicalOfOne
<1> QED
  BY <1>2, <1>4, <1>5 DEF Typical, here

\* The report of a period tells of its typical month.
LEMMA PeriodTells ==
  ASSUME Comparable, NEW basis, NEW months \in SUBSET Months, NEW member
  PROVE  LET values == Prepare(basis)
         IN  ReportTells(PeriodReport(values, basis, months, member), Typical(values, months), member)
<1> DEFINE values == Prepare(basis)
           typical == Typical(values, months)
<1>1. BookInv /\ members \subseteq Persons
  BY DEF Comparable, BookInv
<1>2. CASE Cardinality(months) = 1
  <2>1. PICK m : months = {m}
    <3>1. IsFiniteSet(months)
      BY MonthsAreNumbers, FS_Subset
    <3>2. months # {}
      BY <1>2, FS_EmptySet
    <3>3. PICK m \in months : TRUE
      BY <3>2
    <3>4. Cardinality(months \ {m}) = Cardinality(months) - 1 /\ IsFiniteSet(months \ {m})
      BY <3>1, <3>3, FS_RemoveElement
    <3>5. Cardinality(months \ {m}) = 0
      BY <1>2, <3>4
    <3>6. months \ {m} = {}
      BY <3>4, <3>5, FS_EmptySet
    <3> QED
      BY <3>3, <3>6
  <2>2. m \in Months /\ (CHOOSE x \in months : TRUE) = m
    BY <2>1
  <2>3. PeriodReport(values, basis, months, member) = BuildMonthReport(values, basis, m, member)
    BY <1>2, <2>2 DEF PeriodReport
  <2>4. typical = UndatedIn(MonthValues(basis, m))
    BY <1>1, <2>1, <2>2, TypicalOfMonth
  <2>5. ReportTells(BuildMonthReport(values, basis, m, member), MonthValues(basis, m), member)
    BY <1>1, <2>2, MonthTells
  <2>6. Sound(MonthValues(basis, m))
    BY <1>1, MonthIsSound
  <2> DEFINE here == MonthValues(basis, m)
             got == BuildMonthReport(values, basis, m, member)
  <2> HIDE DEF here, got
  <2>7. ReportTells(got, UndatedIn(here), member)
    BY <1>1, <2>5, <2>6, UndatedTells DEF here, got
  <2> QED
    BY <2>3, <2>4, <2>7 DEF here, got
<1>3. CASE Cardinality(months) # 1
  <2>1. PeriodReport(values, basis, months, member) = BuildReport(typical, member)
    BY <1>3 DEF PeriodReport
  <2>2. Values(typical)
    BY TypicalAgrees
  <2> HIDE DEF typical
  <2>3. ReportTells(BuildReport(typical, member), typical, member)
    BY <1>1, <2>2, BuiltReportTells
  <2> QED
    BY <2>1, <2>3 DEF typical
<1> QED
  BY <1>2, <1>3

\* The cost lines of a month are its complete bookings that somebody carries.
LEMMA CostsAgree ==
  ASSUME Comparable, NEW basis, NEW m \in Months
  PROVE  SameCosts(Of(Prepare(basis), m), Costs(Typical(Prepare(basis), {m})))
<1> DEFINE here == MonthValues(basis, m)
           typical == UndatedIn(here)
           costs == Costs(typical)
           expense == {v \in here : v.booking.direction = "expense"}
           valid == {v \in expense : v.complete /\ v.shares # {}}
<1>1. BookInv /\ members \subseteq Persons
  BY DEF Comparable, BookInv
<1>2. Of(Prepare(basis), m) = here /\ Typical(Prepare(basis), {m}) = typical
  BY <1>1, MonthOfYear, TypicalOfMonth
<1>3. Sound(here) /\ \A v \in here : Plus(v) /\ IsValue(v)
  BY <1>1, MonthIsSound, MonthsAgree DEF Sound
<1>4. \A v \in here : /\ Undated(v).id = v.id /\ Undated(v).cents = v.cents /\ Undated(v).shares = v.shares
                      /\ Undated(v).complete = v.complete /\ Undated(v).booking = v.booking
  BY DEF Undated, Valued
<1>5. \A v \in here : ValidShares(Undated(v)) <=> v.complete
  <2> SUFFICES ASSUME NEW v \in here
               PROVE  ValidShares(Undated(v)) <=> v.complete
    OBVIOUS
  <2>1. \A s \in v.shares : s[1] \in members /\ s[2] >= 0
    BY <1>3 DEF Plus, IsValue, Holders
  <2> QED
    BY <1>4, <2>1 DEF ValidShares
<1>6. costs.lines = UndatedIn(valid)
  <2>1. costs.lines = {w \in typical : w.booking.direction = "expense" /\ w.shares # {} /\ ValidShares(w)}
    BY DEF Costs, Side
  <2> HIDE DEF here, costs
  <2> QED
    BY <1>4, <1>5, <2>1 DEF UndatedIn
<1>7. costs.invalid = UndatedIn(expense \ valid)
  <2>1. costs.invalid = {w \in typical : w.booking.direction = "expense" /\ ~(w.shares # {} /\ ValidShares(w))}
    BY DEF Costs, Side
  <2> HIDE DEF here, costs
  <2> QED
    BY <1>4, <1>5, <2>1 DEF UndatedIn
<1>8. Cardinality(UndatedIn(expense \ valid)) = Cardinality(expense \ valid)
  <2>1. expense \ valid \in SUBSET here
    OBVIOUS
  <2> DEFINE S == expense \ valid
  <2> HIDE DEF S, here
  <2> QED
    BY <1>1, <1>3, <2>1, UndatedSums DEF S
<1>9. {<<v.id, v.cents, v.shares>> : v \in UndatedIn(valid)} = {<<v.id, v.cents, v.shares>> : v \in valid}
  BY <1>4 DEF UndatedIn
<1> HIDE DEF costs, typical
<1>10. SameCosts(here, costs)
  BY <1>6, <1>7, <1>8, <1>9 DEF SameCosts
<1> QED
  BY <1>2, <1>10 DEF costs, here

-----------------------------------------------------------------------------
(***************************************************************************)
(* The flow of the dashboard.                                              *)
(***************************************************************************)
FlowOf(links) == SumFunction([l \in links |-> l.cents])

Carrying(name, parts) == \A s \in parts : name[s].cents = s[2] /\ s[2] \in Int

\* Links that stand for parts carry what the parts add up to.
LEMMA LinksOfParts ==
  ASSUME NEW parts, IsFiniteSet(parts), NEW name, Carrying(name, parts),
         \A s, r \in parts : name[s] = name[r] => s = r
  PROVE  /\ IsFiniteSet(ImageOf(name, parts))
         /\ \A l \in ImageOf(name, parts) : l.cents \in Int
         /\ FlowOf(ImageOf(name, parts)) = Total(parts)
<1> DEFINE f == [s \in parts |-> s[2]]
           links == ImageOf(name, parts)
           g == [l \in links |-> l.cents]
<1>1. \A s \in parts : f[s] = s[2] /\ f[s] \in Int /\ name[s].cents = s[2]
  BY DEF Carrying
<1>2. \A s \in parts : name[s] \in links
  BY DEF ImageOf
<1>3. \A s \in parts : g[name[s]] = f[s]
  BY <1>1, <1>2
<1>4. \A l \in links : l.cents \in Int
  BY <1>1 DEF ImageOf
<1>5. Total(parts) = SumFunctionOnSet(f, parts)
  BY DEF Total, SumFunction
<1>6. FlowOf(links) = SumFunctionOnSet(g, links)
  BY DEF FlowOf, SumFunction
<1> HIDE DEF f, g
<1>7. \A s \in parts : f[s] \in Int
  BY <1>1
<1>8. /\ IsFiniteSet(links)
      /\ Cardinality(links) = Cardinality(parts)
      /\ SumFunctionOnSet(f, parts) = SumFunctionOnSet(g, links)
  BY <1>3, <1>7, SumRenamed, SMTT(30)
<1> HIDE DEF links
<1>9. IsFiniteSet(links) /\ FlowOf(links) = Total(parts)
  BY <1>5, <1>6, <1>8
<1> QED
  BY <1>4, <1>9 DEF links

\* Links of two kinds.
LEMMA LinksJoined ==
  ASSUME NEW some, IsFiniteSet(some), \A l \in some : l.cents \in Int,
         NEW more, IsFiniteSet(more), \A l \in more : l.cents \in Int,
         some \cap more = {}
  PROVE  /\ IsFiniteSet(some \cup more)
         /\ FlowOf(some \cup more) = FlowOf(some) + FlowOf(more)
<1> DEFINE all == some \cup more
           f == [l \in all |-> l.cents]
           g == [l \in some |-> l.cents]
           h == [l \in more |-> l.cents]
<1>1. \A l \in all : f[l] \in Int
  OBVIOUS
<1>2. /\ \A l \in some : g[l] = f[l] /\ g[l] \in Int
      /\ \A l \in more : h[l] = f[l] /\ h[l] \in Int
  OBVIOUS
<1>3. /\ FlowOf(all) = SumFunctionOnSet(f, all)
      /\ FlowOf(some) = SumFunctionOnSet(g, some)
      /\ FlowOf(more) = SumFunctionOnSet(h, more)
  BY DEF FlowOf, SumFunction
<1>4. \A l \in some \cup more : f[l] \in Int
  BY <1>1
<1> HIDE DEF f, g, h
<1>5. SumFunctionOnSet(f, some \cup more) = SumFunctionOnSet(f, some) + SumFunctionOnSet(f, more)
  BY <1>4, SumOfUnion
<1>6. SumFunctionOnSet(g, some) = SumFunctionOnSet(f, some)
  BY <1>2, SumsAgree
<1>7. SumFunctionOnSet(h, more) = SumFunctionOnSet(f, more)
  BY <1>2, SumsAgree
<1>8. IsFiniteSet(some \cup more)
  BY FS_Union
<1> QED
  BY <1>3, <1>5, <1>6, <1>7, <1>8

\* A single link, drawn if it carries something.
LEMMA LinkCarries ==
  ASSUME NEW from, NEW to, NEW cents \in Int
  PROVE  /\ IsFiniteSet(Link(from, to, cents))
         /\ \A l \in Link(from, to, cents) : l.from = from /\ l.to = to /\ l.cents \in Int
         /\ FlowOf(Link(from, to, cents)) = IF cents > 0 THEN cents ELSE 0
<1> DEFINE link == [from |-> from, to |-> to, cents |-> cents]
<1>1. CASE cents > 0
  <2>1. Link(from, to, cents) = {link}
    BY <1>1 DEF Link
  <2> DEFINE f == [l \in {link} |-> l.cents]
  <2>2. f[link] = cents /\ FlowOf({link}) = SumFunctionOnSet(f, {link})
    BY DEF FlowOf, SumFunction
  <2>3. link.from = from /\ link.to = to /\ link.cents = cents
    OBVIOUS
  <2> HIDE DEF f, link
  <2>4. SumFunctionOnSet(f, {link}) = cents
    BY <2>2, SumOfOne
  <2> QED
    BY <1>1, <2>1, <2>2, <2>3, <2>4, FS_Singleton
<1>2. CASE ~(cents > 0)
  <2>1. Link(from, to, cents) = {}
    BY <1>2 DEF Link
  <2>2. FlowOf({}) = 0
    BY SumOfNone DEF FlowOf, SumFunction
  <2> QED
    BY <1>2, <2>1, <2>2, FS_EmptySet
<1> QED
  BY <1>1, <1>2

\* Links from one node or into one, one for each part above zero.
InLinks(parts) == {[from |-> <<"in", s[1]>>, to |-> <<"trunk">>, cents |-> s[2]] : s \in parts}
ClassLinks(parts) == {[from |-> <<"trunk">>, to |-> <<"class", s[1]>>, cents |-> s[2]] : s \in parts}
LeafLinks(class, parts) ==
    {[from |-> <<"class", class>>, to |-> <<"leaf", class, s[1]>>, cents |-> s[2]] : s \in parts}
Counted(parts) == IsFiniteSet(parts) /\ \A s \in parts : s = <<s[1], s[2]>> /\ s[2] \in Int

LEMMA InLinksCarry ==
  ASSUME NEW parts, Counted(parts)
  PROVE  /\ IsFiniteSet(InLinks(parts))
         /\ \A l \in InLinks(parts) : l.cents \in Int
         /\ FlowOf(InLinks(parts)) = Total(parts)
<1> DEFINE name == [s \in parts |-> [from |-> <<"in", s[1]>>, to |-> <<"trunk">>, cents |-> s[2]]]
<1>1. \A s \in parts : /\ name[s].cents = s[2] /\ name[s].from[2] = s[1]
                       /\ s = <<s[1], s[2]>> /\ s[2] \in Int
  BY DEF Counted
<1>2. InLinks(parts) = ImageOf(name, parts)
  BY DEF InLinks, ImageOf
<1> HIDE DEF name
<1>3. \A s, r \in parts : name[s] = name[r] => s = r
  BY <1>1
<1>4. /\ IsFiniteSet(ImageOf(name, parts))
      /\ \A l \in ImageOf(name, parts) : l.cents \in Int
      /\ FlowOf(ImageOf(name, parts)) = Total(parts)
  <2>1. Carrying(name, parts) /\ IsFiniteSet(parts)
    BY <1>1 DEF Carrying, Counted
  <2> QED
    BY <1>3, <2>1, LinksOfParts
<1> QED
  BY <1>2, <1>4

LEMMA ClassLinksCarry ==
  ASSUME NEW parts, Counted(parts)
  PROVE  /\ IsFiniteSet(ClassLinks(parts))
         /\ \A l \in ClassLinks(parts) : l.cents \in Int
         /\ FlowOf(ClassLinks(parts)) = Total(parts)
<1> DEFINE name == [s \in parts |-> [from |-> <<"trunk">>, to |-> <<"class", s[1]>>, cents |-> s[2]]]
<1>1. \A s \in parts : /\ name[s].cents = s[2] /\ name[s].to[2] = s[1]
                       /\ s = <<s[1], s[2]>> /\ s[2] \in Int
  BY DEF Counted
<1>2. ClassLinks(parts) = ImageOf(name, parts)
  BY DEF ClassLinks, ImageOf
<1> HIDE DEF name
<1>3. \A s, r \in parts : name[s] = name[r] => s = r
  BY <1>1
<1>4. /\ IsFiniteSet(ImageOf(name, parts))
      /\ \A l \in ImageOf(name, parts) : l.cents \in Int
      /\ FlowOf(ImageOf(name, parts)) = Total(parts)
  <2>1. Carrying(name, parts) /\ IsFiniteSet(parts)
    BY <1>1 DEF Carrying, Counted
  <2> QED
    BY <1>3, <2>1, LinksOfParts
<1> QED
  BY <1>2, <1>4

LEMMA LeafLinksCarry ==
  ASSUME NEW parts, Counted(parts), NEW class
  PROVE  /\ IsFiniteSet(LeafLinks(class, parts))
         /\ \A l \in LeafLinks(class, parts) : l.cents \in Int
         /\ FlowOf(LeafLinks(class, parts)) = Total(parts)
<1> DEFINE name == [s \in parts |->
                       [from |-> <<"class", class>>, to |-> <<"leaf", class, s[1]>>, cents |-> s[2]]]
<1>1. \A s \in parts : /\ name[s].cents = s[2] /\ name[s].to[3] = s[1]
                       /\ s = <<s[1], s[2]>> /\ s[2] \in Int
  BY DEF Counted
<1>2. LeafLinks(class, parts) = ImageOf(name, parts)
  BY DEF LeafLinks, ImageOf
<1> HIDE DEF name
<1>3. \A s, r \in parts : name[s] = name[r] => s = r
  BY <1>1
<1>4. /\ IsFiniteSet(ImageOf(name, parts))
      /\ \A l \in ImageOf(name, parts) : l.cents \in Int
      /\ FlowOf(ImageOf(name, parts)) = Total(parts)
  <2>1. Carrying(name, parts) /\ IsFiniteSet(parts)
    BY <1>1 DEF Carrying, Counted
  <2> QED
    BY <1>3, <2>1, LinksOfParts
<1> QED
  BY <1>2, <1>4

\* The parts below a threshold, and the others.
LEMMA PartsSplit ==
  ASSUME NEW parts, Counted(parts), \A s \in parts : s[2] >= 0, NEW threshold \in Int
  PROVE  LET large == {x \in parts : x[2] >= threshold}
             small == {x \in parts : x[2] < threshold}
         IN  /\ Counted(large)
             /\ Total(small) \in Nat
             /\ Total(parts) = Total(large) + Total(small)
<1> DEFINE large == {x \in parts : x[2] >= threshold}
           small == {x \in parts : x[2] < threshold}
           f == [s \in parts |-> s[2]]
           g == [s \in large |-> s[2]]
           h == [s \in small |-> s[2]]
<1>1. /\ IsFiniteSet(parts) /\ \A s \in parts : f[s] = s[2] /\ f[s] \in Nat
  BY DEF Counted
<1>2. /\ large \in SUBSET parts /\ small \in SUBSET parts
      /\ large \cup small = parts /\ large \cap small = {}
  BY DEF Counted
<1>3. /\ \A s \in large : g[s] = f[s] /\ g[s] \in Int
      /\ \A s \in small : h[s] = f[s] /\ h[s] \in Nat
      /\ \A s \in large \cup small : f[s] \in Int
  BY <1>1, <1>2
<1>4. /\ Total(parts) = SumFunctionOnSet(f, parts)
      /\ Total(large) = SumFunctionOnSet(g, large)
      /\ Total(small) = SumFunctionOnSet(h, small)
  BY DEF Total, SumFunction
<1>5. \A s \in large : s = <<s[1], s[2]>> /\ s[2] \in Int
  BY DEF Counted
<1> HIDE DEF large, small, f, g, h
<1>6. IsFiniteSet(large) /\ IsFiniteSet(small)
  BY <1>1, <1>2, FS_Subset
<1>7. SumFunctionOnSet(f, large \cup small) = SumFunctionOnSet(f, large) + SumFunctionOnSet(f, small)
  BY <1>2, <1>3, <1>6, SumOfUnion
<1>8. SumFunctionOnSet(g, large) = SumFunctionOnSet(f, large)
  BY <1>3, <1>6, SumsAgree
<1>9. SumFunctionOnSet(h, small) = SumFunctionOnSet(f, small)
  BY <1>3, <1>6, SumsAgree
<1>10. SumFunctionOnSet(h, small) \in Nat
  BY <1>3, <1>6, SumNotNegative
<1>11. Counted(large)
  BY <1>5, <1>6 DEF Counted
<1>12. Total(parts) = Total(large) + Total(small)
  BY <1>2, <1>4, <1>7, <1>8, <1>9
<1>13. Total(small) \in Nat
  BY <1>4, <1>10
<1> QED
  BY <1>11, <1>12, <1>13 DEF large, small

LEMMA OneCarries ==
  ASSUME NEW link, link.cents \in Int
  PROVE  FlowOf({link}) = link.cents
<1> DEFINE f == [l \in {link} |-> l.cents]
<1>1. f[link] = link.cents /\ FlowOf({link}) = SumFunctionOnSet(f, {link})
  BY DEF FlowOf, SumFunction
<1> HIDE DEF f
<1>2. SumFunctionOnSet(f, {link}) = f[link]
  BY <1>1, SumOfOne
<1> QED
  BY <1>1, <1>2

LEMMA NoneCarry ==
  FlowOf({}) = 0
  BY SumOfNone DEF FlowOf, SumFunction

\* The links out of a class carry all of its leaves.
LEMMA FanCarries ==
  ASSUME NEW class, NEW leaves, Counted(leaves), \A s \in leaves : s[2] > 0, NEW threshold \in Int
  PROVE  /\ FlowOf(Fan(class, leaves, threshold)) = Total(leaves)
         /\ \A l \in Fan(class, leaves, threshold) :
               l.from = <<"class", class>> /\ l.to[1] \in {"leaf", "rest"}
<1> DEFINE large == {x \in leaves : x[2] >= threshold}
           small == {x \in leaves : x[2] < threshold}
           drawn == LeafLinks(class, large)
           rest == Link(<<"class", class>>, <<"rest", class>>, Total(small))
<1>1. \A s \in leaves : s[2] \in Int /\ s[2] > 0
  BY DEF Counted
<1>2. UNION {Link(<<"class", class>>, <<"leaf", class, l[1]>>, l[2]) : l \in large} = drawn
  <2>1. \A l \in large :
           Link(<<"class", class>>, <<"leaf", class, l[1]>>, l[2])
               = {[from |-> <<"class", class>>, to |-> <<"leaf", class, l[1]>>, cents |-> l[2]]}
    BY <1>1 DEF Link
  <2> QED
    BY <2>1 DEF LeafLinks
<1>3. Fan(class, leaves, threshold) = drawn \cup rest
  BY <1>2 DEF Fan
<1>4. /\ Counted(large) /\ Total(small) \in Nat
      /\ Total(leaves) = Total(large) + Total(small)
  <2>1. \A s \in leaves : s[2] >= 0
    BY <1>1
  <2> QED
    BY <2>1, PartsSplit
<1>5. \A l \in drawn : l.from = <<"class", class>> /\ l.to[1] = "leaf"
  BY DEF LeafLinks
<1> HIDE DEF large, small
<1>6. /\ IsFiniteSet(drawn) /\ \A l \in drawn : l.cents \in Int
      /\ FlowOf(drawn) = Total(large)
  BY <1>4, LeafLinksCarry
<1>7. /\ IsFiniteSet(rest)
      /\ \A l \in rest : l.from = <<"class", class>> /\ l.to = <<"rest", class>> /\ l.cents \in Int
      /\ FlowOf(rest) = IF Total(small) > 0 THEN Total(small) ELSE 0
  BY <1>4, LinkCarries
<1>8. FlowOf(rest) = Total(small)
  BY <1>4, <1>7
<1>9. \A l \in rest : l.from = <<"class", class>> /\ l.to[1] = "rest"
  BY <1>7
<1> HIDE DEF drawn, rest
<1>10. drawn \cap rest = {}
  BY <1>5, <1>9
<1>11. FlowOf(drawn \cup rest) = FlowOf(drawn) + FlowOf(rest)
  BY <1>6, <1>7, <1>10, LinksJoined
<1>12. FlowOf(drawn \cup rest) = Total(leaves)
  BY <1>4, <1>6, <1>8, <1>11
<1> QED
  BY <1>3, <1>5, <1>9, <1>12

\* The picture: what comes in and what it is spent on.
Flow(ins, outs, leaves, threshold, short, over) ==
    InLinks(ins) \cup Link(<<"withdrawal">>, <<"trunk">>, short) \cup ClassLinks(outs)
        \cup (UNION {Fan(c[1], leaves[c[1]], threshold) : c \in outs})
        \cup Link(<<"trunk">>, <<"surplus">>, over)
Spread(outs, leaves) ==
    /\ Counted(outs)
    /\ \A c, d \in outs : c[1] = d[1] => c = d
    /\ \A c \in outs : /\ Counted(leaves[c[1]]) /\ \A s \in leaves[c[1]] : s[2] > 0
                       /\ Total(leaves[c[1]]) = c[2]
Drawn(n) == IF n > 0 THEN n ELSE 0

\* What enters the trunk and leaves it; every other node is an end or passes on what it gets.
LEMMA FlowIsKept ==
  ASSUME NEW ins, Counted(ins), NEW outs, NEW leaves, Spread(outs, leaves),
         NEW threshold \in Int, NEW short \in Int, NEW over \in Int
  PROVE  LET links == Flow(ins, outs, leaves, threshold, short, over)
         IN  /\ Inflow(links, <<"trunk">>) = Total(ins) + Drawn(short)
             /\ Outflow(links, <<"trunk">>) = Total(outs) + Drawn(over)
             /\ \A node \in {l.from : l \in links} \cup {l.to : l \in links} :
                   \/ node = <<"trunk">>
                   \/ Inflow(links, node) = 0 \/ Outflow(links, node) = 0
                   \/ Inflow(links, node) = Outflow(links, node)
<1> DEFINE links == Flow(ins, outs, leaves, threshold, short, over)
           A == InLinks(ins)
           W == Link(<<"withdrawal">>, <<"trunk">>, short)
           C == ClassLinks(outs)
           Out(c) == Fan(c[1], leaves[c[1]], threshold)
           F == UNION {Out(c) : c \in outs}
           S == Link(<<"trunk">>, <<"surplus">>, over)
           T == <<"trunk">>
           Into(n) == {k \in links : k.to = n}
           From(n) == {k \in links : k.from = n}
<1>1. links = A \cup W \cup C \cup F \cup S
  BY DEF Flow
<1>2. \A l \in A : l.from[1] = "in" /\ l.to = T
  BY DEF InLinks
<1>3. \A l \in W : l.from[1] = "withdrawal" /\ l.to = T
  <2>1. \A l \in W : l.from = <<"withdrawal">> /\ l.to = <<"trunk">>
    BY LinkCarries
  <2> QED
    BY <2>1
<1>4. \A l \in S : l.from = T /\ l.to[1] = "surplus"
  <2>1. \A l \in S : l.from = <<"trunk">> /\ l.to = <<"surplus">>
    BY LinkCarries
  <2> QED
    BY <2>1
<1>5. \A l \in C : l.from = T /\ l.to[1] = "class" /\ \E c \in outs : l.to[2] = c[1]
  BY DEF ClassLinks
<1>6. \A c \in outs : /\ FlowOf(Out(c)) = c[2]
                      /\ \A l \in Out(c) : l.from = <<"class", c[1]>> /\ l.to[1] \in {"leaf", "rest"}
  <2> SUFFICES ASSUME NEW c \in outs
               PROVE  /\ FlowOf(Out(c)) = c[2]
                      /\ \A l \in Out(c) : l.from = <<"class", c[1]>> /\ l.to[1] \in {"leaf", "rest"}
    OBVIOUS
  <2> DEFINE mine == leaves[c[1]]
  <2>1. Counted(mine) /\ (\A s \in mine : s[2] > 0) /\ Total(mine) = c[2]
    BY DEF Spread
  <2> HIDE DEF mine
  <2>2. /\ FlowOf(Fan(c[1], mine, threshold)) = Total(mine)
        /\ \A l \in Fan(c[1], mine, threshold) :
              l.from = <<"class", c[1]>> /\ l.to[1] \in {"leaf", "rest"}
    BY <2>1, FanCarries
  <2> QED
    BY <2>1, <2>2 DEF mine
<1>7. \A l \in F : l.to[1] \in {"leaf", "rest"} /\ \E c \in outs : l \in Out(c) /\ l.from = <<"class", c[1]>>
  BY <1>6
<1>8. T[1] = "trunk"
  OBVIOUS
<1>9. Counted(outs)
  BY DEF Spread
<1>10. /\ IsFiniteSet(A) /\ (\A l \in A : l.cents \in Int) /\ FlowOf(A) = Total(ins)
  BY InLinksCarry
<1>11. /\ IsFiniteSet(C) /\ (\A l \in C : l.cents \in Int) /\ FlowOf(C) = Total(outs)
  BY <1>9, ClassLinksCarry
<1>12. /\ IsFiniteSet(W) /\ (\A l \in W : l.cents \in Int) /\ FlowOf(W) = Drawn(short)
  BY LinkCarries DEF Drawn
<1>13. /\ IsFiniteSet(S) /\ (\A l \in S : l.cents \in Int) /\ FlowOf(S) = Drawn(over)
  BY LinkCarries DEF Drawn
<1>14. \A n : Inflow(links, n) = FlowOf(Into(n)) /\ Outflow(links, n) = FlowOf(From(n))
  BY DEF Inflow, Outflow, FlowOf
<1>15. \A c \in outs : \A l \in C : l.to = <<"class", c[1]>> =>
          l = [from |-> <<"trunk">>, to |-> <<"class", c[1]>>, cents |-> c[2]]
  <2> SUFFICES ASSUME NEW c \in outs, NEW l \in C, l.to = <<"class", c[1]>>
               PROVE  l = [from |-> <<"trunk">>, to |-> <<"class", c[1]>>, cents |-> c[2]]
    OBVIOUS
  <2>1. PICK d \in outs : l = [from |-> <<"trunk">>, to |-> <<"class", d[1]>>, cents |-> d[2]]
    BY DEF ClassLinks
  <2>2. d[1] = c[1]
    BY <2>1
  <2>3. d = c
    BY <2>2 DEF Spread
  <2> QED
    BY <2>1, <2>3
<1>16. \A c \in outs : [from |-> <<"trunk">>, to |-> <<"class", c[1]>>, cents |-> c[2]] \in C /\ c[2] \in Int
  BY <1>9 DEF ClassLinks, Counted
<1> HIDE DEF A, W, C, F, S, T, Out
<1>17. Into(T) = A \cup W /\ A \cap W = {}
  <2>1. A \cup W \subseteq Into(T)
    BY <1>1, <1>2, <1>3
  <2>2. Into(T) \subseteq A \cup W
    BY <1>1, <1>4, <1>5, <1>7, <1>8
  <2>3. A \cap W = {}
    BY <1>2, <1>3
  <2> QED
    BY <2>1, <2>2, <2>3
<1>18. From(T) = C \cup S /\ C \cap S = {}
  <2>1. C \cup S \subseteq From(T)
    BY <1>1, <1>4, <1>5
  <2>2. \A l \in F : l.from[1] = "class"
    BY <1>7
  <2>3. From(T) \subseteq C \cup S
    BY <1>1, <1>2, <1>3, <1>8, <2>2
  <2>4. C \cap S = {}
    BY <1>4, <1>5
  <2> QED
    BY <2>1, <2>3, <2>4
<1>19. FlowOf(A \cup W) = FlowOf(A) + FlowOf(W)
  BY <1>10, <1>12, <1>17, LinksJoined
<1>20. FlowOf(C \cup S) = FlowOf(C) + FlowOf(S)
  BY <1>11, <1>13, <1>18, LinksJoined
<1>21. Inflow(links, T) = Total(ins) + Drawn(short)
  BY <1>10, <1>12, <1>14, <1>17, <1>19
<1>22. Outflow(links, T) = Total(outs) + Drawn(over)
  BY <1>11, <1>13, <1>14, <1>18, <1>20
<1>23. ASSUME NEW c \in outs
       PROVE  LET node == <<"class", c[1]>>
              IN  Inflow(links, node) = Outflow(links, node)
  <2> DEFINE node == <<"class", c[1]>>
             link == [from |-> <<"trunk">>, to |-> <<"class", c[1]>>, cents |-> c[2]]
  <2>1. node[1] = "class" /\ node[2] = c[1]
    OBVIOUS
  <2>2. link \in C /\ link.to = node /\ link.cents = c[2] /\ c[2] \in Int
    BY <1>16
  <2>3. \A l \in C : l.to = node => l = link
    BY <1>15
  <2>4. \A d \in outs : <<"class", d[1]>> = node => d = c
    <3>1. \A d \in outs : <<"class", d[1]>> = node => d[1] = c[1]
      BY <2>1
    <3> QED
      BY <3>1 DEF Spread
  <2>5. \A l \in Out(c) : l.from = node
    BY <1>6
  <2> HIDE DEF node, link
  <2>6. Into(node) = {link}
    <3>1. link \in Into(node)
      BY <1>1, <2>2
    <3>2. T # node
      BY <1>8, <2>1
    <3>3. \A l \in Into(node) : l \in C
      BY <1>1, <1>2, <1>3, <1>4, <1>7, <2>1, <3>2
    <3> QED
      BY <2>3, <3>1, <3>3
  <2>7. From(node) = Out(c)
    <3>1. Out(c) \subseteq F
      BY DEF F
    <3>2. Out(c) \subseteq From(node)
      BY <1>1, <2>5, <3>1
    <3>3. T # node
      BY <1>8, <2>1
    <3>4. \A l \in From(node) : l \in F
      BY <1>1, <1>2, <1>3, <1>4, <1>5, <2>1, <3>3
    <3>5. \A l \in F : l.from = node => l \in Out(c)
      BY <1>7, <2>4
    <3> QED
      BY <3>2, <3>4, <3>5
  <2>8. FlowOf({link}) = c[2]
    BY <2>2, OneCarries
  <2>9. Inflow(links, node) = Outflow(links, node)
    BY <1>6, <1>14, <2>6, <2>7, <2>8
  <2> QED
    BY <2>9 DEF node
<1>24. ASSUME NEW node \in {l.from : l \in links} \cup {l.to : l \in links}
       PROVE  \/ node = T
              \/ Inflow(links, node) = 0 \/ Outflow(links, node) = 0
              \/ Inflow(links, node) = Outflow(links, node)
  <2>1. PICK l \in links : node = l.from \/ node = l.to
    OBVIOUS
  <2>2. CASE node[1] \in {"in", "withdrawal"}
    <3>1. \A k \in links : k.to # node
      BY <1>1, <1>2, <1>3, <1>4, <1>5, <1>7, <1>8, <2>2
    <3>2. Into(node) = {}
      BY <3>1
    <3> QED
      BY <1>14, <3>2, NoneCarry
  <2>3. CASE node[1] \in {"leaf", "rest", "surplus"}
    <3>0. \A k \in F : k.from[1] = "class"
      BY <1>7
    <3>1. \A k \in links : k.from # node
      BY <1>1, <1>2, <1>3, <1>4, <1>5, <1>8, <2>3, <3>0
    <3>2. From(node) = {}
      BY <3>1
    <3> QED
      BY <1>14, <3>2, NoneCarry
  <2>4. \/ node = T \/ node[1] \in {"in", "withdrawal"} \/ node[1] \in {"leaf", "rest", "surplus"}
        \/ \E c \in outs : node = <<"class", c[1]>>
    <3>1. CASE l \in A \cup W
      BY <1>2, <1>3, <2>1, <3>1
    <3>2. CASE l \in S
      BY <1>4, <2>1, <3>2
    <3>3. CASE l \in F
      BY <1>7, <2>1, <3>3
    <3>4. CASE l \in C
      <4>1. \A k \in C : \E c \in outs : k.to = <<"class", c[1]>>
        BY DEF C, ClassLinks
      <4> QED
        BY <1>5, <2>1, <3>4, <4>1
    <3> QED
      BY <1>1, <3>1, <3>2, <3>3, <3>4
  <2> QED
    BY <1>23, <2>2, <2>3, <2>4
<1> QED
  BY <1>21, <1>22, <1>24 DEF T

\* A table that lists the same has the same parts above zero.
LEMMA PositivesListed ==
  ASSUME NEW some, NEW other, Listed(some) = Listed(other)
  PROVE  Positive(some) = Positive(other)
<1>1. \A s \in some : s[2] > 0 => s \in Listed(some)
  BY DEF Listed
<1>2. \A s \in other : s[2] > 0 => s \in Listed(other)
  BY DEF Listed
<1>3. Listed(some) \subseteq some /\ Listed(other) \subseteq other
  BY DEF Listed
<1> QED
  BY <1>1, <1>2, <1>3 DEF Positive

\* The groups of a breakdown that cost something.
LEMMA PositivesCounted ==
  ASSUME NEW values, Values(values), members \subseteq Persons, NEW member, NEW field
  PROVE  LET parts == Positive(SumsBy(values, member, field))
         IN  /\ Counted(parts)
             /\ \A s, r \in parts : s[1] = r[1] => s = r
             /\ \A s \in parts : s[2] = InScope(GroupOf(values, field, s[1]), member) /\ s[2] > 0
<1> DEFINE sums == SumsBy(values, member, field)
           parts == Positive(sums)
           sum == [k \in KeysOf(values, field) |-> InScope(GroupOf(values, field, k), member)]
<1>1. IsFiniteSet(sums)
  BY SumsAreTally
<1>2. sums = {<<k, sum[k]>> : k \in KeysOf(values, field)}
  BY DEF SumsBy, GroupOf, KeysOf
<1>3. \A k \in KeysOf(values, field) : sum[k] = InScope(GroupOf(values, field, k), member) /\ sum[k] \in Int
  <2> SUFFICES ASSUME NEW k \in KeysOf(values, field)
               PROVE  InScope(GroupOf(values, field, k), member) \in Int
    OBVIOUS
  <2>1. GroupOf(values, field, k) \in SUBSET values
    BY DEF GroupOf
  <2> QED
    BY <2>1, ScopeWithin
<1>4. parts \in SUBSET sums /\ \A s \in parts : s[2] > 0
  BY DEF Positive
<1> HIDE DEF sums, sum, parts
<1>5. \A s \in sums : s[1] \in KeysOf(values, field) /\ s = <<s[1], s[2]>> /\ s[2] = sum[s[1]]
  BY <1>2
<1>6. IsFiniteSet(parts)
  BY <1>1, <1>4, FS_Subset
<1>7. \A s \in parts : /\ s = <<s[1], s[2]>> /\ s[2] \in Int /\ s[2] > 0
                       /\ s[2] = InScope(GroupOf(values, field, s[1]), member)
  BY <1>3, <1>4, <1>5
<1>8. Counted(parts)
  BY <1>6, <1>7 DEF Counted
<1>9. \A s, r \in parts : s[1] = r[1] => s = r
  BY <1>4, <1>5
<1> QED
  BY <1>7, <1>8, <1>9 DEF sums, parts

\* What is drawn of a report.
LeavesOf(values, member, class) ==
    LET costs == {v \in Side(values, "expense") : Carries(v, member)}
    IN  Positive(SumsBy({v \in costs : v.booking.class = class}, member, "category"))
Fanned(report, values, member) ==
    [k \in Holders(Positive(report.classes)) |-> LeavesOf(values, member, k)]

LEMMA SankeyIsFlow ==
  ASSUME NEW report, NEW values, NEW member, ~(report.income <= 0 /\ report.expense <= 0)
  PROVE  BuildSankey(report, values, member) =
             Flow(Positive(report.incomeCategories), Positive(report.classes),
                  Fanned(report, values, member), Quotient(2 * Max({report.income, report.expense}), 100),
                  report.expense - report.income, report.balance)
<1> DEFINE threshold == Quotient(2 * Max({report.income, report.expense}), 100)
           costs == {v \in Side(values, "expense") : Carries(v, member)}
           Leaves(class) ==
               {s \in SumsBy({v \in costs : v.booking.class = class}, member, "category") : s[2] > 0}
           drawn == {c \in report.classes : c[2] > 0}
           ins == Positive(report.incomeCategories)
           incoming == UNION {Link(<<"in", s[1]>>, <<"trunk">>, s[2]) : s \in report.incomeCategories}
           classes == UNION {Link(<<"trunk">>, <<"class", c[1]>>, c[2]) : c \in drawn}
           fans == UNION {Fan(c[1], Leaves(c[1]), threshold) : c \in drawn}
           fanned == Fanned(report, values, member)
<1>1. BuildSankey(report, values, member) =
          incoming \cup Link(<<"withdrawal">>, <<"trunk">>, report.expense - report.income)
              \cup classes \cup fans \cup Link(<<"trunk">>, <<"surplus">>, report.balance)
  BY DEF BuildSankey
<1>2. drawn = Positive(report.classes)
  BY DEF Positive
<1>3. \A c \in drawn : fanned[c[1]] = Leaves(c[1])
  BY <1>2 DEF Fanned, LeavesOf, Positive, Holders
<1>4. incoming = InLinks(ins)
  <2>1. \A s \in report.incomeCategories :
           Link(<<"in", s[1]>>, <<"trunk">>, s[2])
               = IF s[2] > 0 THEN {[from |-> <<"in", s[1]>>, to |-> <<"trunk">>, cents |-> s[2]]} ELSE {}
    BY DEF Link
  <2> QED
    BY <2>1 DEF InLinks, Positive
<1>5. classes = ClassLinks(drawn)
  <2>1. \A s \in drawn :
           Link(<<"trunk">>, <<"class", s[1]>>, s[2])
               = {[from |-> <<"trunk">>, to |-> <<"class", s[1]>>, cents |-> s[2]]}
    BY DEF Link
  <2> QED
    BY <2>1 DEF ClassLinks
<1> HIDE DEF Leaves, drawn, fanned
<1>6. fans = UNION {Fan(c[1], fanned[c[1]], threshold) : c \in drawn}
  BY <1>3
<1> HIDE DEF fans, incoming, classes, threshold, ins
<1>7. BuildSankey(report, values, member) =
          InLinks(ins) \cup Link(<<"withdrawal">>, <<"trunk">>, report.expense - report.income)
              \cup ClassLinks(drawn) \cup (UNION {Fan(c[1], fanned[c[1]], threshold) : c \in drawn})
              \cup Link(<<"trunk">>, <<"surplus">>, report.balance)
  BY <1>1, <1>4, <1>5, <1>6
<1>8. BuildSankey(report, values, member) =
          Flow(ins, drawn, fanned, threshold, report.expense - report.income, report.balance)
  BY <1>7 DEF Flow
<1> QED
  BY <1>2, <1>8 DEF ins, fanned, threshold

\* Every class of the report fans out into what it is made of.
LEMMA ClassesSpread ==
  ASSUME NEW values, Values(values), members \subseteq Persons, NEW member,
         \A v \in values : Scoped(v, member) >= 0,
         NEW report, Listed(report.classes) = Listed(SumsBy(Side(values, "expense"), member, "class"))
  PROVE  /\ Spread(Positive(report.classes), Fanned(report, values, member))
         /\ Total(Positive(report.classes)) = InScope(Side(values, "expense"), member)
<1> DEFINE costs == Side(values, "expense")
           mine == {v \in costs : Carries(v, member)}
           drawn == Positive(report.classes)
           fanned == Fanned(report, values, member)
           sums == SumsBy(costs, member, "class")
<1>1. costs \in SUBSET values /\ mine \in SUBSET values
  BY DEF Side
<1>2. Values(costs)
  BY <1>1, ScopeWithin
<1>3. \A v \in costs : Scoped(v, member) >= 0
  BY <1>1
<1>4. drawn = Positive(sums)
  <2> DEFINE told == report.classes
  <2>1. Listed(told) = Listed(sums)
    OBVIOUS
  <2> HIDE DEF told, sums
  <2>2. Positive(told) = Positive(sums)
    BY <2>1, PositivesListed
  <2> QED
    BY <2>2 DEF told
<1>5. \A c \in drawn : fanned[c[1]] = LeavesOf(values, member, c[1])
  BY DEF Fanned, Holders
<1> HIDE DEF costs, drawn, fanned
<1>6. /\ Counted(Positive(sums))
      /\ \A s, r \in Positive(sums) : s[1] = r[1] => s = r
      /\ \A s \in Positive(sums) : s[2] = InScope(GroupOf(costs, "class", s[1]), member) /\ s[2] > 0
  BY <1>2, PositivesCounted
<1>7. Total(Positive(sums)) = InScope(costs, member)
  BY <1>2, <1>3, PositivesAddUp
<1>8. ASSUME NEW c \in drawn
      PROVE  /\ Counted(fanned[c[1]]) /\ \A s \in fanned[c[1]] : s[2] > 0
             /\ Total(fanned[c[1]]) = c[2]
  <2> DEFINE group == GroupOf(costs, "class", c[1])
             some == {v \in mine : v.booking.class = c[1]}
             parts == Positive(SumsBy(some, member, "category"))
  <2>1. /\ group \in SUBSET values /\ some \in SUBSET values
        /\ CarriedIn(group, member) \subseteq some /\ some \subseteq group
    BY <1>1 DEF GroupOf, CarriedIn, costs, Side
  <2>2. fanned[c[1]] = parts
    BY <1>5 DEF LeavesOf, costs
  <2> HIDE DEF group, some, mine
  <2>3. Values(group) /\ Values(some)
    BY <2>1, ScopeWithin
  <2>4. \A v \in some : Scoped(v, member) >= 0
    BY <2>1
  <2>5. Counted(parts) /\ \A s \in parts : s[2] > 0
    BY <2>3, PositivesCounted
  <2>6. Total(parts) = InScope(some, member)
    BY <2>3, <2>4, PositivesAddUp
  <2>7. InScope(some, member) = InScope(group, member)
    BY <2>1, <2>3, ScopeOfCarried
  <2>8. c[2] = InScope(group, member)
    BY <1>4, <1>6 DEF group
  <2> HIDE DEF parts
  <2> QED
    BY <2>2, <2>5, <2>6, <2>7, <2>8
<1>9. Spread(drawn, fanned)
  BY <1>4, <1>6, <1>8 DEF Spread
<1>10. Total(drawn) = InScope(costs, member)
  BY <1>4, <1>7
<1> QED
  BY <1>9, <1>10 DEF drawn, fanned, costs

\* The greater of two numbers, of which none is below zero.
LEMMA Greater ==
  ASSUME NEW a \in Nat, NEW b \in Nat
  PROVE  /\ Max({0, a, b}) = IF a > b THEN a ELSE b
         /\ Max({a, b}) = IF a > b THEN a ELSE b
         /\ Quotient(2 * Max({a, b}), 100) \in Int
<1>0. IsFiniteSet({0, a, b}) /\ IsFiniteSet({a, b})
  <2>1. IsFiniteSet({0}) /\ IsFiniteSet({a}) /\ IsFiniteSet({b})
    BY FS_Singleton
  <2>2. IsFiniteSet({a} \cup {b})
    BY <2>1, FS_Union
  <2>3. {a} \cup {b} = {a, b}
    OBVIOUS
  <2>4. IsFiniteSet({a, b})
    BY <2>2, <2>3
  <2>5. IsFiniteSet({0} \cup {a, b})
    BY <2>1, <2>4, FS_Union
  <2>6. {0} \cup {a, b} = {0, a, b}
    OBVIOUS
  <2> QED
    BY <2>4, <2>5, <2>6
<1>1. {0, a, b} \subseteq Int /\ {0, a, b} # {}
  OBVIOUS
<1>2. {a, b} \subseteq Int /\ {a, b} # {}
  OBVIOUS
<1>3. Max({0, a, b}) \in {0, a, b} /\ \A y \in {0, a, b} : Max({0, a, b}) >= y
  BY <1>0, <1>1, MaxOfNumbers
<1>4. Max({a, b}) \in {a, b} /\ \A y \in {a, b} : Max({a, b}) >= y
  BY <1>0, <1>2, MaxOfNumbers
<1> DEFINE p == Max({0, a, b})
           q == Max({a, b})
<1>5. p \in {0, a, b} /\ p >= 0 /\ p >= a /\ p >= b
  BY <1>3
<1>6. q \in {a, b} /\ q >= a /\ q >= b
  BY <1>4
<1> HIDE DEF p, q
<1>7. p = IF a > b THEN a ELSE b
  BY <1>5
<1>8. q = IF a > b THEN a ELSE b
  BY <1>6
<1>9. Quotient(2 * q, 100) \in Int
  <2>1. 2 * q \in Nat
    BY <1>8
  <2> DEFINE n == 2 * q
  <2> HIDE DEF n
  <2>2. Quotient(n, 100) \in Int
    BY <2>1 DEF Quotient, n
  <2> QED
    BY <2>2 DEF n
<1> QED
  BY <1>7, <1>8, <1>9 DEF p, q

\* What the flow shows is what the report tells.
LEMMA FlowChecksOut ==
  ASSUME NEW values, Values(values), members \subseteq Persons, NEW member,
         \A v \in values : Scoped(v, member) >= 0,
         NEW got, ReportTells(got, values, member)
  PROVE  LET links == BuildSankey(got, values, member)
             nodes == {l.from : l \in links} \cup {l.to : l \in links}
         IN  /\ Max({0, got.income, got.expense})
                    = Max({Inflow(links, <<"trunk">>), Outflow(links, <<"trunk">>)})
             /\ \A node \in nodes :
                   \/ Inflow(links, node) = 0 \/ Outflow(links, node) = 0
                   \/ Inflow(links, node) = Outflow(links, node)
<1> DEFINE income == Side(values, "income")
           costs == Side(values, "expense")
           I == InScope(income, member)
           E == InScope(costs, member)
           links == BuildSankey(got, values, member)
           nodes == {l.from : l \in links} \cup {l.to : l \in links}
           T == <<"trunk">>
<1>1. income \in SUBSET values /\ costs \in SUBSET values
  BY DEF Side
<1>2. Values(income) /\ Values(costs)
  BY <1>1, ScopeWithin
<1>3. (\A v \in income : Scoped(v, member) >= 0) /\ (\A v \in costs : Scoped(v, member) >= 0)
  BY <1>1
<1>4. /\ got.income = I /\ got.expense = E /\ got.balance = I - E
      /\ Listed(got.incomeCategories) = Listed(SumsBy(income, member, "category"))
      /\ Listed(got.classes) = Listed(SumsBy(costs, member, "class"))
  BY DEF ReportTells
<1> DEFINE outs == Positive(got.classes)
           fanned == Fanned(got, values, member)
           ins == Positive(got.incomeCategories)
<1>5. Spread(outs, fanned) /\ Total(outs) = E
  <2>1. Listed(got.classes) = Listed(SumsBy(Side(values, "expense"), member, "class"))
    BY <1>4
  <2> QED
    BY <2>1, ClassesSpread
<1> HIDE DEF income, costs
<1>6. I \in Nat /\ E \in Nat
  <2>1. InScope(income, member) \in Nat
    BY <1>2, <1>3, PositivesAddUp
  <2>2. InScope(costs, member) \in Nat
    BY <1>2, <1>3, PositivesAddUp
  <2> QED
    BY <2>1, <2>2
<1>7. Counted(ins) /\ Total(ins) = I
  <2> DEFINE sums == SumsBy(income, member, "category")
             told == got.incomeCategories
  <2>1. Counted(Positive(sums))
    BY <1>2, PositivesCounted
  <2>2. Total(Positive(sums)) = InScope(income, member)
    BY <1>2, <1>3, PositivesAddUp
  <2>3. Listed(told) = Listed(sums)
    BY <1>4
  <2> HIDE DEF told, sums
  <2>4. Positive(told) = Positive(sums)
    BY <2>3, PositivesListed
  <2> QED
    BY <2>1, <2>2, <2>4 DEF told
<1> HIDE DEF I, E, ins, outs, fanned
<1>8. CASE got.income <= 0 /\ got.expense <= 0
  <2>1. links = {}
    BY <1>8 DEF BuildSankey
  <2>2. \A n : Inflow({}, n) = 0 /\ Outflow({}, n) = 0
    <3>1. \A n : {k \in {} : k.to = n} = {} /\ {k \in {} : k.from = n} = {}
      OBVIOUS
    <3> QED
      BY <3>1, SumOfNone DEF Inflow, Outflow, SumFunction
  <2>3. I = 0 /\ E = 0
    BY <1>4, <1>6, <1>8
  <2>4. Max({0, I, E}) = 0 /\ Max({0, 0}) = 0
    BY <2>3, Greater
  <2>5. nodes = {} /\ Inflow(links, T) = 0 /\ Outflow(links, T) = 0
    BY <2>1, <2>2
  <2> HIDE DEF links, nodes, T
  <2>6. Max({0, got.income, got.expense}) = Max({Inflow(links, T), Outflow(links, T)})
    BY <1>4, <2>4, <2>5
  <2>7. \A node \in nodes : \/ Inflow(links, node) = 0 \/ Outflow(links, node) = 0
                            \/ Inflow(links, node) = Outflow(links, node)
    BY <2>5
  <2> QED
    BY <2>6, <2>7 DEF links, nodes, T
<1>9. CASE ~(got.income <= 0 /\ got.expense <= 0)
  <2> DEFINE threshold == Quotient(2 * Max({got.income, got.expense}), 100)
             short == got.expense - got.income
             over == got.balance
  <2>1. links = Flow(ins, outs, fanned, threshold, short, over)
    BY <1>9, SankeyIsFlow DEF ins, outs, fanned
  <2>2. threshold \in Int
    BY <1>4, <1>6, Greater
  <2>3. short = E - I /\ over = I - E /\ short \in Int /\ over \in Int
    BY <1>4, <1>6
  <2> HIDE DEF threshold, short, over
  <2> DEFINE flow == Flow(ins, outs, fanned, threshold, short, over)
             ends == {l.from : l \in flow} \cup {l.to : l \in flow}
  <2>4. /\ Inflow(flow, <<"trunk">>) = Total(ins) + Drawn(short)
        /\ Outflow(flow, <<"trunk">>) = Total(outs) + Drawn(over)
        /\ \A node \in ends :
              \/ node = <<"trunk">>
              \/ Inflow(flow, node) = 0 \/ Outflow(flow, node) = 0
              \/ Inflow(flow, node) = Outflow(flow, node)
    BY <1>5, <1>7, <2>2, <2>3, FlowIsKept
  <2> HIDE DEF flow, links
  <2>5. links = flow
    BY <2>1 DEF flow
  <2>6. nodes = ends
    BY <2>5
  <2> HIDE DEF nodes, ends
  <2>7. Inflow(flow, T) = (IF I > E THEN I ELSE E) /\ Outflow(flow, T) = (IF I > E THEN I ELSE E)
    BY <1>5, <1>6, <1>7, <2>3, <2>4 DEF Drawn
  <2>8. Max({0, I, E}) = (IF I > E THEN I ELSE E)
    BY <1>6, Greater
  <2> DEFINE most == IF I > E THEN I ELSE E
  <2>9. most \in Nat
    BY <1>6
  <2>10. Inflow(flow, T) = most /\ Outflow(flow, T) = most /\ Max({0, I, E}) = most
    BY <2>7, <2>8
  <2> HIDE DEF most
  <2>11. Max({most, most}) = most
    BY <2>9, Greater
  <2>12. Max({0, got.income, got.expense}) = Max({Inflow(links, T), Outflow(links, T)})
    BY <1>4, <2>5, <2>10, <2>11
  <2>13. \A node \in nodes : \/ Inflow(links, node) = 0 \/ Outflow(links, node) = 0
                             \/ Inflow(links, node) = Outflow(links, node)
    BY <2>4, <2>5, <2>6, <2>10
  <2> QED
    BY <2>12, <2>13 DEF links, nodes, T
<1> QED
  BY <1>8, <1>9

\* The fixed costs that are listed add up to what the report has for them.
LEMMA FixedCostsAgree ==
  ASSUME NEW values, NEW months, NEW member, members \subseteq Persons,
         Sound(Typical(values, months))
  PROVE  SumFunction([f \in FixedCosts(values, months, member) |-> f.cents])
             = InScope(GroupOf(Side(Typical(values, months), "expense"), "nature", "fix"), member)
<1> DEFINE typical == Typical(values, months)
           group == GroupOf(Side(typical, "expense"), "nature", "fix")
           some == {x \in Side(typical, "expense") :
                       x.booking.nature = "fix" /\ Carries(x, member) /\ Scoped(x, member) # 0}
           costs == FixedCosts(values, months, member)
           scope == ScopeOf(group, member)
           name == [v \in some |-> [id |-> v.id, cents |-> Scoped(v, member)]]
           cents == [f \in costs |-> f.cents]
<1>1. Values(typical) /\ \A v, w \in typical : v.id = w.id => v = w
  BY SoundValues DEF Sound
<1>2. group \in SUBSET typical /\ some \in SUBSET group
  BY DEF GroupOf, Side
<1>3. costs = ImageOf(name, some)
  BY DEF FixedCosts, ImageOf
<1>4. \A v \in group \ some : Carries(v, member) => Scoped(v, member) = 0
  BY DEF GroupOf
<1>5. SumFunction([f \in costs |-> f.cents]) = SumFunctionOnSet(cents, costs)
  BY DEF SumFunction
<1>6. \A v \in some : name[v].id = v.id /\ name[v].cents = Scoped(v, member) /\ name[v] \in costs
  BY <1>3 DEF ImageOf
<1>7. \A v \in some : cents[name[v]] = Scoped(v, member)
  BY <1>6
<1> HIDE DEF typical, group, some, costs, name, cents
<1>8. Values(group)
  BY <1>1, <1>2, ScopeWithin
<1>9. \A v \in group \ some : Scoped(v, member) = 0
  <2>1. \A v \in group : ~Carries(v, member) => Scoped(v, member) = 0
    BY <1>8, ScopedTyped DEF Values
  <2> QED
    BY <1>4, <2>1
<1>10. InScope(some, member) = InScope(group, member)
  BY <1>2, <1>8, <1>9, ScopeOfMost
<1>11. /\ IsFiniteSet(some)
       /\ \A v \in some : scope[v] = Scoped(v, member) /\ Scoped(v, member) \in Int
       /\ InScope(some, member) = SumFunctionOnSet(scope, some)
  BY <1>2, <1>8, ScopeWithin
<1>12. \A v \in some : cents[name[v]] = scope[v] /\ scope[v] \in Int
  BY <1>7, <1>11
<1>13. \A v, w \in some : name[v] = name[w] => v = w
  BY <1>1, <1>2, <1>6
<1> HIDE DEF scope
<1>14. /\ IsFiniteSet(ImageOf(name, some))
       /\ Cardinality(ImageOf(name, some)) = Cardinality(some)
       /\ SumFunctionOnSet(scope, some) = SumFunctionOnSet(cents, ImageOf(name, some))
  <2>1. IsFiniteSet(some)
    BY <1>11
  <2>2. \A v \in some : cents[name[v]] = scope[v]
    BY <1>12
  <2>3. \A v \in some : scope[v] \in Int
    BY <1>12
  <2> QED
    BY <1>13, <2>1, <2>2, <2>3, SumRenamed, SMTT(30)
<1>15. SumFunctionOnSet(cents, costs) = InScope(group, member)
  BY <1>3, <1>10, <1>11, <1>14
<1> QED
  BY <1>5, <1>15 DEF costs, group, typical

\* The dashboard checks out in every scope.
LEMMA DashboardChecksOut ==
  ASSUME Comparable, NEW basis, NEW member
  PROVE  SameDashboard(Prepare(basis), Prepare(basis), basis, member)
<1> DEFINE values == Prepare(basis)
           months == {m \in Months : ReferenceCovered(values, basis, m, member)}
           typical == Typical(values, months)
           period == ReferencePeriod({v \in values : v.month \in months}, Cardinality(months))
           basisOf == IF months = {} THEN {} ELSE period
           want == ReferenceReport(basisOf, member)
           got == PeriodReport(values, basis, months, member)
           links == BuildSankey(got, typical, member)
           nodes == {l.from : l \in links} \cup {l.to : l \in links}
           fixed == FixedCosts(values, months, member)
<1>1. BookInv /\ members \subseteq Persons
  BY DEF Comparable, BookInv
<1>2. MonthsWithIncome(basis, Months, member) = months
  BY <1>1, CoveredMonths
<1>3. months \in SUBSET Months
  OBVIOUS
<1>4. {v \in values : v.month \in months} = Within(values, months)
  BY DEF Within
<1> HIDE DEF months
<1>5. /\ Sound(typical) /\ Values(typical) /\ \A v \in typical : Plus(v)
      /\ months = {} => typical = {}
      /\ months # {} => ReferencePeriod(Within(values, months), Cardinality(months)) = typical
  BY <1>3, TypicalAgrees
<1>6. basisOf = typical
  BY <1>4, <1>5
<1>7. ReportTells(got, typical, member)
  BY <1>3, PeriodTells
<1>8. \A v \in typical : Scoped(v, member) >= 0
  <2> SUFFICES ASSUME NEW v \in typical
               PROVE  Scoped(v, member) >= 0
    OBVIOUS
  <2>1. IsValue(v) /\ Plus(v)
    BY <1>5 DEF Values
  <2> QED
    BY <2>1, PlusInScope
<1>9. SumFunction([f \in fixed |-> f.cents]) = InScope(GroupOf(Side(typical, "expense"), "nature", "fix"), member)
  BY <1>1, <1>5, FixedCostsAgree
<1> HIDE DEF values, typical, period, basisOf, got, fixed
<1>10. SameReport(want, got)
  <2>1. SameReport(ReferenceReport(typical, member), got)
    BY <1>5, <1>7, ReportsAgree
  <2> QED
    BY <1>6, <2>1
<1>11. /\ want.natures = SumsBy(Side(typical, "expense"), member, "nature")
       /\ want.income = got.income /\ want.expense = got.expense
  <2>1. ReferenceReport(typical, member).natures = SumsBy(Side(typical, "expense"), member, "nature")
    BY <1>5, ReferenceTells
  <2> QED
    BY <1>6, <1>10, <2>1 DEF SameReport
<1>12. At(want.natures, "fix") = InScope(GroupOf(Side(typical, "expense"), "nature", "fix"), member)
  <2> DEFINE side == Side(typical, "expense")
  <2>1. side \in SUBSET typical
    BY DEF Side
  <2> HIDE DEF side
  <2>2. Values(side)
    BY <1>1, <1>5, <2>1, ScopeWithin
  <2>3. \A k : Part(SumsBy(side, member, "nature"), k) = InScope(GroupOf(side, "nature", k), member)
    BY <1>1, <2>2, SumsAreTally
  <2> QED
    BY <1>11, <2>3 DEF At, side
<1>13. /\ Max({0, got.income, got.expense})
              = Max({Inflow(links, <<"trunk">>), Outflow(links, <<"trunk">>)})
       /\ \A node \in nodes :
             \/ Inflow(links, node) = 0 \/ Outflow(links, node) = 0
             \/ Inflow(links, node) = Outflow(links, node)
  BY <1>1, <1>5, <1>7, <1>8, FlowChecksOut
<1> HIDE DEF want, links, nodes
<1>14. SumFunction([f \in fixed |-> f.cents]) = At(want.natures, "fix")
  BY <1>9, <1>12
<1>15. Max({0, want.income, want.expense}) = Max({Inflow(links, <<"trunk">>), Outflow(links, <<"trunk">>)})
  BY <1>11, <1>13
<1> QED
  BY <1>2, <1>10, <1>13, <1>14, <1>15
     DEF SameDashboard, values, months, typical, period, basisOf, got, fixed, want, links, nodes

\* Every view of a scope checks out.
LEMMA ScopeChecksOut ==
  ASSUME Comparable, NEW basis, NEW member
  PROVE  SameScope(Prepare(basis), Prepare(basis), basis, member)
<1> DEFINE values == Prepare(basis)
           matrix == BuildMatrix(values, basis, member)
           typical == Typical(values, Months)
           got == PeriodReport(values, basis, Months, member)
<1>1. BookInv /\ members \subseteq Persons
  BY DEF Comparable, BookInv
<1>2. \A m \in Months :
         SameMonth(values, BuildMonthReport(values, basis, m, member), matrix, basis, m, member)
  BY <1>1, MonthChecksOut
<1>3. Values(values)
  BY <1>1, PreparedYear DEF Prepared, Values
<1>4. SameMatrix(values, matrix, basis, member) /\ SameFigures(matrix.surplus)
  BY <1>1, <1>3, MatricesAgree
<1>5. SameStacks(values, values, member)
  <2>1. ASSUME NEW m \in Months, NEW field \in {"category", "class"}
        PROVE  Total(StackColumn(Of(values, m), member, field))
                   = ReferenceReport(Of(values, m), member).expense
    <3>1. \A v \in MonthValues(basis, m) : Plus(v)
      BY MonthsAgree
    <3> QED
      BY <1>1, <3>1, StacksAgree
  <2> QED
    BY <2>1 DEF SameStacks
<1>6. SameDashboard(values, values, basis, member)
  BY DashboardChecksOut
<1>7. \A point \in TrendLine(values, basis, member) :
         point[2] = ReferenceReport(Of(values, point[1]), member).balance
  BY <1>1, TrendAgrees
<1>8. SameReport(ReferenceReport(ReferencePeriod(values, LastMonth), member), got)
  <2>1. LastMonth \in Nat \ {0} /\ Months # {} /\ Cardinality(Months) = LastMonth
    <3>1. LastMonth \in Nat \ {0}
      BY IdsAreApart
    <3>2. 1 \in Int /\ LastMonth \in Int
      BY <3>1
    <3>3. Cardinality(1..LastMonth) = IF 1 > LastMonth THEN 0 ELSE LastMonth - 1 + 1
      BY <3>2, FS_Interval
    <3>4. (IF 1 > LastMonth THEN 0 ELSE LastMonth - 1 + 1) = LastMonth
      BY <3>1
    <3>5. 1 \in Months
      BY <3>1 DEF Months
    <3> QED
      BY <3>1, <3>3, <3>4, <3>5 DEF Months
  <2>2. Within(values, Months) = values
    BY <1>1, PreparedYear DEF Within
  <2>3. Values(typical) /\ ReferencePeriod(Within(values, Months), Cardinality(Months)) = typical
    BY <2>1, TypicalAgrees
  <2>4. ReportTells(got, typical, member)
    BY PeriodTells
  <2> HIDE DEF values, typical, got
  <2>5. SameReport(ReferenceReport(typical, member), got)
    BY <2>3, <2>4, ReportsAgree
  <2> QED
    BY <2>1, <2>2, <2>3, <2>5
<1> HIDE DEF values, matrix, got
<1>9. \A m \in Months :
         SameMonth(values, BuildMonthReport(values, basis, m, member), BuildMatrix(values, basis, member),
                   basis, m, member)
  BY <1>2 DEF matrix
<1> QED
  BY <1>4, <1>5, <1>6, <1>7, <1>8, <1>9 DEF SameScope, matrix, values, got

\* And every basis.
LEMMA BasisChecksOut ==
  ASSUME Comparable, NEW basis
  PROVE  SameBasis(basis)
<1> DEFINE made == Prepare(basis)
           values == UNION {ReferenceMonth(basis, m) : m \in Months}
<1>1. BookInv /\ members \subseteq Persons
  BY DEF Comparable, BookInv
<1>2. values = made
  BY YearsAgree
<1>3. \A m \in Months : SameCosts(Of(made, m), Costs(Typical(made, {m})))
  BY CostsAgree
<1>4. \A m \in Months : SameSettlement(Settlement(Typical(made, {m})))
  <2> SUFFICES ASSUME NEW m \in Months
               PROVE  SameSettlement(Settlement(Typical(made, {m})))
    OBVIOUS
  <2>1. {m} \in SUBSET Months
    OBVIOUS
  <2>2. Sound(Typical(made, {m}))
    BY <2>1, TypicalAgrees
  <2> QED
    BY <1>1, <2>2, SettlementsAgree
<1>5. SameSettlement(Settlement(Totals(Within(made, Elapsed))))
  <2>1. Within(made, Elapsed) \in SUBSET made
    BY DEF Within
  <2>2. Prepared(Within(made, Elapsed))
    BY <1>1, <2>1, PreparedYear
  <2>3. Sound(Totals(Within(made, Elapsed)))
    BY <1>1, <2>2, TotalsAreSound
  <2> QED
    BY <1>1, <2>3, SettlementsAgree
<1>6. \A member : SameScope(made, made, basis, member)
  BY ScopeChecksOut
<1> HIDE DEF made, values
<1>7. /\ \A m \in Months :
            /\ SameLeaves(Of(values, m), Of(made, m))
            /\ SameSettlement(Settlement(Typical(made, {m})))
            /\ SameCosts(Of(values, m), Costs(Typical(made, {m})))
      /\ \A member \in {Everyone} \cup members : SameScope(values, made, basis, member)
      /\ SameSettlement(Settlement(Totals(Within(made, Elapsed))))
  BY <1>2, <1>3, <1>4, <1>5, <1>6 DEF SameLeaves
<1> QED
  BY <1>7 DEF SameBasis, values, made

\* The check of a year finds amounts and shares out of range and turned categories and
\* nothing else, whatever was edited, reviewed, closed and deleted; where it finds none, the
\* reports and the second calculation (plausibility_reference.go) agree in every basis,
\* scope, month and view.
THEOREM SelfCheckAlwaysClean == Spec => []SelfCheckIsClean
<1>1. BookInv /\ RowsInv /\ FilesInv => SelfCheckIsClean
  <2> SUFFICES ASSUME BookInv, RowsInv, FilesInv
               PROVE  SelfCheckIsClean
    OBVIOUS
  <2>1. SourcesAreClean
    BY CleanRows
  <2>2. ASSUME SourceFindings = {}, NEW basis \in Bases
        PROVE  SameBasis(basis)
    <3>1. Comparable
      BY <2>2 DEF Comparable
    <3> QED
      BY <3>1, BasisChecksOut
  <2> QED
    BY <2>1, <2>2 DEF SelfCheckIsClean
<1> QED
  BY <1>1, BookIsSound, RowsStaySound, FilesStaySound, PTL
=============================================================================
