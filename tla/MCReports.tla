----------------------------- MODULE MCReports -----------------------------
(***************************************************************************)
(* Three members and two months, one of them past, with bookings of every  *)
(* mode and of the rhythms that divide amounts, which never come out even, *)
(* a price below zero, and two payments of one account.  A category is     *)
(* created in the course and may be turned.                                *)
(***************************************************************************)
EXTENDS Plausibility, TLC

MCPersons == {1, 2, 3}

Cleaning ==
    [direction |-> "expense", category |-> 2, class |-> "want", nature |-> "variable",
     settle |-> TRUE, payer |-> 2, frequency |-> "weekly", interval |-> 2, amount |-> 1,
     from |-> Beginning, until |-> Forever, mode |-> "percent",
     splits |-> 1 :> 50 @@ 2 :> 30 @@ 3 :> 20]
Trip ==
    [Cleaning EXCEPT !.class = "saving", !.nature = "fix", !.frequency = "once", !.interval = 1,
     !.from = 2, !.payer = 3, !.amount = 100, !.mode = "equal", !.splits = [i \in {2, 3} |-> 0]]
Salary ==
    [Cleaning EXCEPT !.direction = "income", !.category = 9, !.settle = FALSE, !.payer = None,
     !.frequency = "quarterly", !.interval = 1, !.amount = 201, !.from = 2, !.mode = "fixed",
     !.splits = 1 :> 101 @@ 2 :> 100]

MCForms == {Cleaning, Trip, Salary}
MCSpans == {[from |-> 2, until |-> Forever, amount |-> 101]}
MCPrices == {-10}

MCCategories == {1, 2, 9}
MCCatalog == 1 :> "expense" @@ 2 :> None @@ 9 :> "income"
MCCategoryForms ==
    {[category |-> 2, direction |-> "expense"], [category |-> 2, direction |-> "income"]}

MCPayments == {-1, -2}
MCStatement ==
    (-1 :> [month |-> 1, amount |-> 100, owner |-> 1, direction |-> "expense", category |-> 1,
            class |-> "need", nature |-> "fix", settle |-> TRUE]) @@
    (-2 :> [month |-> 1, amount |-> 100, owner |-> 1, direction |-> "expense", category |-> 2,
            class |-> "want", nature |-> "variable", settle |-> TRUE])

\* Bound: one of the payments may be ignored with a category.
OneKept == \A p \in Payments \ {-2} : payment'[p].decision = "ignored" => payment'[p].category = None
\* Bound: a category is not turned back.
TurnedOnce == \A c \in Categories : catalog[c] = "income" => catalog'[c] # "expense"
MCNext == Next /\ OneKept /\ TurnedOnce
MCSpec == Init /\ [][MCNext]_vars
=============================================================================
