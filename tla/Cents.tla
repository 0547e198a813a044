-------------------------------- MODULE Cents --------------------------------
(***************************************************************************)
(* Whole cents (internal/calc: rounding.go, balancedCents of               *)
(* evaluation.go, transfers of settlement.go).                             *)
(*                                                                         *)
(* The rationals of the code are integers over a common scale.  What an    *)
(* amount is divided into is a set of pairs <<holder, cents>>, one for     *)
(* each holder; holders are numbers, the ids that break ties.              *)
(***************************************************************************)
EXTENDS Integers, FiniteSetsExt, Functions

\* Division of integers in Go drops the fraction.
Quotient(n, d) == IF n >= 0 THEN n \div d ELSE -((-n) \div d)

\* n / d to the nearest cent, halves away from zero.
RoundAmount(n, d) == Quotient(IF n >= 0 THEN 2 * n + d ELSE 2 * n - d, 2 * d)

Holders(parts) == {p[1] : p \in parts}
Total(parts) == SumFunction([p \in parts |-> p[2]])
Part(parts, i) == IF i \in Holders(parts) THEN (CHOOSE p \in parts : p[1] = i)[2] ELSE 0

\* Those that get a cent before i does: larger remainders, then smaller ids.
Ahead(raw, scale, i) ==
    {j \in DOMAIN raw : \/ raw[j] % scale > raw[i] % scale
                        \/ raw[j] % scale = raw[i] % scale /\ j < i}

\* Everybody gets the whole cents, the largest remainders what is missing.
BalancedCents(raw, scale, total) ==
    LET missing == total - SumFunction([i \in DOMAIN raw |-> raw[i] \div scale])
        Extra(i) == IF Cardinality(Ahead(raw, scale, i)) < missing THEN 1 ELSE 0
    IN  {<<i, raw[i] \div scale + Extra(i)>> : i \in DOMAIN raw}

-----------------------------------------------------------------------------
(***************************************************************************)
(* Payments that square what members have to get (nets above zero) and to  *)
(* pay: the largest debt goes to the largest claim until one of the two is *)
(* settled, and then on to the next.                                       *)
(***************************************************************************)
Size(n) == IF n < 0 THEN -n ELSE n
Lesser(a, b) == IF a <= b THEN a ELSE b

First(side, nets) ==
    CHOOSE i \in side : \A j \in side :
        Size(nets[i]) > Size(nets[j]) \/ (Size(nets[i]) = Size(nets[j]) /\ i <= j)

Debtors(nets) == {i \in DOMAIN nets : nets[i] < 0}
Creditors(nets) == {i \in DOMAIN nets : nets[i] > 0}

Paid(left, t) == [left EXCEPT ![t.from] = @ + t.cents, ![t.to] = @ - t.cents]

Transfers(nets) ==
    LET rounds == 0..Cardinality(DOMAIN nets)
        Next(left) ==
            LET from == First(Debtors(left), nets)
                to == First(Creditors(left), nets)
            IN  [from |-> from, to |-> to, cents |-> Lesser(-left[from], left[to])]
        after[n \in rounds] ==
            IF n = 0 THEN [left |-> nets, made |-> {}]
            ELSE LET left == after[n - 1].left
                     made == after[n - 1].made
                 IN  IF Debtors(left) = {} \/ Creditors(left) = {} THEN after[n - 1]
                     ELSE [left |-> Paid(left, Next(left)), made |-> made \cup {Next(left)}]
    IN  after[Cardinality(DOMAIN nets)].made
=============================================================================
