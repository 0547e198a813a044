----------------------------- MODULE BankLedger -----------------------------
(***************************************************************************)
(* The bank ledger of one household (internal/store): who holds which      *)
(* account, the statements imported into it, the review decision on every  *)
(* payment, and the months that are closed.                                *)
(*                                                                         *)
(* Every action is one database transaction of the store.  The database    *)
(* has a single connection and withTx rolls back on any error, so a        *)
(* transaction happens completely or not at all.                           *)
(***************************************************************************)
EXTENDS Integers, FiniteSets, Sequences, Functions, PaymentMatching

CONSTANTS
    Members, Accounts, Categories, Plans,   \* identifiers the database hands out
    Digests,          \* uploaded files, by content
    Months,
    PastMonths,       \* the months before the current one
    Facts,            \* what a statement line says about a payment
    Month,            \* the month of a booking date
    Normal,           \* name and reference without case and extra spaces
    Inputs,           \* the decisions a caller may ask for
    BatchInputs,      \* those it may ask for in a batch
    Uploads,          \* the sequences of statement lines a caller may upload
    Seed,             \* the members a household starts with, each with its account
    MaxRows,          \* bound: payments ever stored
    None

Directions == {"income", "expense"}
Decisions == {"pending", "accepted", "ignored", "transfer"}
RowIds == 1..MaxRows
Imports == Accounts \X Digests    \* an import is unique per account and file

\* The share of each member, None for a member without one.
Allocations == [Members -> Nat \cup {None}]
NoSplits == [m \in Members |-> None]
Sharers(splits) == {m \in Members : splits[m] # None}
Total(splits) == FoldFunctionOnSet(+, 0, splits, Sharers(splits))

\* PaymentFingerprint and BankSourceFingerprint hash the same fields.
Fingerprint(fact) == [fact EXCEPT !.text = Normal[fact.text]]
Fingerprints == {Fingerprint(f) : f \in Facts}
MonthOf(fact) == Month[fact.bookedOn]

Payments == [import: Imports, fact: Facts, source: Fingerprints,
             decision: Decisions, category: Categories \cup {None},
             plan: Plans \cup {None}, transfer: Accounts \cup {None},
             splits: Allocations]
Reviews == [fact: Facts, decision: Decisions, category: Categories \cup {None},
            plan: Plans \cup {None}, transfer: Accounts \cup {None},
            splits: Allocations]
Lines == [account: Accounts, fact: Facts, category: Categories \cup {None},
          plan: Plans \cup {None}, transfer: Accounts \cup {None}]

ASSUME NoneIsNoValue ==
    /\ None \notin Members \cup Accounts \cup Categories \cup Plans
    /\ None \notin Nat
    /\ None \notin Directions
    /\ None \notin Payments
    /\ None \notin Months
    /\ None \notin Imports \X Fingerprints
    /\ None \notin [direction: Directions, category: Categories]
ASSUME BoundIsNatural == MaxRows \in Nat
ASSUME SeedIsTyped ==
    /\ DOMAIN Seed \subseteq Members
    /\ Range(Seed) \subseteq Accounts
    /\ IsInjective(Seed)
ASSUME InputsAreTyped == Inputs \cup BatchInputs \subseteq Reviews /\ Uploads \subseteq Seq(Lines)
ASSUME FactsHaveMonths ==
    /\ PastMonths \subseteq Months
    /\ \A f \in Facts : /\ f.direction \in Directions
                        /\ f.cents \in Nat
                        /\ MonthOf(f) \in Months

VARIABLES
    members,      \* members of the household
    owner,        \* the member who fronts an account's payments, None if unused
    default,      \* the accounts marked is_default
    imports,      \* statements stored
    rows,         \* payments stored, None for an id not in use
    nextRow,      \* the AUTOINCREMENT counter of bank_transactions
    closed,       \* reconciled months
    categories,   \* classification of a category, None if unused
    plans,        \* direction and category of a planned booking, None if unused
    confirmed     \* history: payments accepted with the duplicate override

vars == <<members, owner, default, imports, rows, nextRow, closed, categories,
          plans, confirmed>>
setup == <<members, owner, default>>
ledger == <<imports, rows, nextRow, closed, confirmed>>
catalog == <<categories, plans>>

-----------------------------------------------------------------------------
(***************************************************************************)
(* Reading the ledger.                                                     *)
(***************************************************************************)
Used == {r \in RowIds : rows[r] # None}
AccountOf(r) == rows[r].import[1]
RowsIn(account) == {r \in Used : AccountOf(r) = account}
RowsOf(month) == {r \in Used : MonthOf(rows[r].fact) = month}
OpenAccounts == {a \in Accounts : owner[a] # None}
OwnedBy(m) == {a \in Accounts : owner[a] = m}
TransferTargets == {rows[r].transfer : r \in Used} \ {None}
ImportsOf(account) == {i \in imports : i[1] = account}

TypeOK ==
    /\ members \subseteq Members
    /\ owner \in [Accounts -> Members \cup {None}]
    /\ default \subseteq Accounts
    /\ imports \subseteq Imports
    /\ rows \in [RowIds -> Payments \cup {None}]
    /\ nextRow \in 1..(MaxRows + 1)
    /\ \A r \in RowIds : r >= nextRow => rows[r] = None
    /\ closed \subseteq Months
    /\ categories \in [Categories -> Directions \cup {None}]
    /\ plans \in [Plans -> [direction: Directions, category: Categories] \cup {None}]
    /\ confirmed \subseteq RowIds

\* The seeded household: every member comes with a default account.
Init ==
    /\ members = DOMAIN Seed
    /\ owner = [a \in Accounts |->
                   IF a \in Range(Seed) THEN CHOOSE m \in DOMAIN Seed : Seed[m] = a ELSE None]
    /\ default = Range(Seed)
    /\ imports = {}
    /\ rows = [r \in RowIds |-> None]
    /\ nextRow = 1
    /\ closed = {}
    /\ categories \in [Categories -> Directions]
    /\ plans = [p \in Plans |-> None]
    /\ confirmed = {}

-----------------------------------------------------------------------------
(***************************************************************************)
(* Members and accounts.                                                   *)
(***************************************************************************)

\* ensureMemberBankAccount for a member who holds the accounts `held`: some
\* account becomes the default one unless one already is.
WithDefault(held, chosen) ==
    /\ chosen \in held
    /\ default' = IF held \cap default # {} THEN default ELSE default \cup {chosen}

CreateMember(m, a) ==
    /\ m \notin members
    /\ owner[a] = None
    /\ members' = members \cup {m}
    /\ owner' = [owner EXCEPT ![a] = m]
    /\ default' = default \cup {a}
    /\ UNCHANGED <<ledger, catalog>>

CreateBankAccount(m, a) ==
    /\ m \in members
    /\ owner[a] = None
    /\ owner' = [owner EXCEPT ![a] = m]
    /\ \E chosen \in Accounts : WithDefault(OwnedBy(m) \cup {a}, chosen)
    /\ UNCHANGED <<members, ledger, catalog>>

SetDefaultBankAccount(a) ==
    /\ owner[a] # None
    /\ default' = (default \ OwnedBy(owner[a])) \cup {a}
    /\ UNCHANGED <<members, owner, ledger, catalog>>

\* The history an account must be kept for.
ImportHistoryOnly(a) == ImportsOf(a) # {}
HistoryOf(a) == ImportsOf(a) # {} \/ a \in TransferTargets
AlwaysRemovable(a) == TRUE
Removable(a) == a \notin default

DeleteBankAccount(a) ==
    /\ owner[a] # None
    /\ ~HistoryOf(a)
    /\ Removable(a)
    /\ owner' = [owner EXCEPT ![a] = None]
    /\ UNCHANGED <<members, default, ledger, catalog>>

HoldsSplit(m) == \E r \in Used : m \in Sharers(rows[r].splits)

\* DeleteMember deletes the member's accounts, the default one included.
DeleteMember(m) ==
    /\ m \in members
    /\ \A a \in OwnedBy(m) : ~HistoryOf(a)
    /\ ~HoldsSplit(m)
    /\ owner' = [a \in Accounts |-> IF owner[a] = m THEN None ELSE owner[a]]
    /\ default' = default \ OwnedBy(m)
    /\ members' = members \ {m}
    /\ UNCHANGED <<ledger, catalog>>

-----------------------------------------------------------------------------
(***************************************************************************)
(* What validateBankReferences demands of a payment `p` held by `account`. *)
(***************************************************************************)
KnownReferences(p) ==
    /\ p.category # None => categories[p.category] # None
    /\ p.plan # None => plans[p.plan] # None
    /\ p.transfer # None => owner[p.transfer] # None

MatchingDirections(p) ==
    /\ p.category # None => categories[p.category] = p.fact.direction
    /\ p.plan # None => plans[p.plan].direction = p.fact.direction

TransferAnywhere(p, account) ==
    /\ p.decision = "transfer" => p.transfer # None
    /\ p.decision = "accepted" => p.category # None /\ p.transfer = None

CompleteDecision(p, account) ==
    /\ p.decision = "transfer" => p.transfer \notin {None, account}
    /\ p.decision = "accepted" => p.category # None /\ p.transfer = None

ValidReferences(p, account) ==
    /\ KnownReferences(p)
    /\ MatchingDirections(p)
    /\ CompleteDecision(p, account)

(***************************************************************************)
(* replaceBankAllocation: what is stored as the allocation of a payment,   *)
(* and when it is refused.  A pending payment may keep a proposal.         *)
(***************************************************************************)
StoresSplits(p) == \/ p.decision = "accepted"
                   \/ p.decision = "pending" /\ p.splits # NoSplits

ValidAllocation(p) ==
    StoresSplits(p) => /\ Sharers(p.splits) \subseteq members
                       /\ p.splits # NoSplits
                       /\ Total(p.splits) = p.fact.cents

StoredSplits(p) == IF StoresSplits(p) THEN p.splits ELSE NoSplits

\* ensureOpenMonth for each of a set of months.
OpenMonths(months) == months \cap closed = {}

-----------------------------------------------------------------------------
(***************************************************************************)
(* Statements.  A line names the account it was uploaded for and carries   *)
(* the suggestions made for it.                                            *)
(***************************************************************************)
LinesFor(lines, a) == {i \in DOMAIN lines : lines[i].account = a}
AccountsOf(lines) == {lines[i].account : i \in DOMAIN lines}

\* The lines of a statement that match no payment its account already holds.
NewLines(lines) ==
    UNION {LinesFor(lines, a) \ Recognised(
               [i \in LinesFor(lines, a) |-> Fingerprint(lines[i].fact)],
               [r \in RowsIn(a) |-> [current |-> Fingerprint(rows[r].fact),
                                     source |-> rows[r].source]])
           : a \in AccountsOf(lines)}

\* insertBankTransaction with the decision, splits and source of a new row.
NewPayment(line, digest) ==
    [import |-> <<line.account, digest>>, fact |-> line.fact,
     source |-> Fingerprint(line.fact), decision |-> "pending",
     category |-> line.category, plan |-> line.plan, transfer |-> line.transfer,
     splits |-> NoSplits]

\* The ids AUTOINCREMENT gives to the lines stored, in their order.
NewIds(stored) ==
    {id \in [stored -> nextRow..(nextRow + Cardinality(stored) - 1)] :
        \A i, j \in stored : i < j => id[i] < id[j]}

(***************************************************************************)
(* Storing some lines of a statement as pending payments, or nothing: one  *)
(* line in a closed month or with an unknown reference rejects them all.   *)
(***************************************************************************)
StoreLines(lines, stored, digest) ==
    /\ Cardinality(stored) <= MaxRows - nextRow + 1
    /\ OpenMonths({MonthOf(lines[i].fact) : i \in stored})
    /\ \A i \in stored : ValidReferences(NewPayment(lines[i], digest), lines[i].account)
    /\ \E id \in NewIds(stored) :
          rows' = [r \in RowIds |->
                      IF \E i \in stored : id[i] = r
                      THEN NewPayment(lines[CHOOSE i \in stored : id[i] = r], digest)
                      ELSE rows[r]]
    /\ nextRow' = nextRow + Cardinality(stored)
    /\ imports' = imports \cup {<<lines[i].account, digest>> : i \in stored}
    /\ UNCHANGED <<setup, closed, catalog, confirmed>>

\* What a browser upload does: only lines without a counterpart are stored.
ReconcileBankImports(lines, digest) ==
    /\ AccountsOf(lines) \subseteq OpenAccounts
    /\ StoreLines(lines, NewLines(lines), digest)

\* The strict primitive: a file is stored once per account, all of it.
CreateBankImports(lines, digest) ==
    /\ AccountsOf(lines) \subseteq OpenAccounts
    /\ (AccountsOf(lines) \X {digest}) \cap imports = {}
    /\ StoreLines(lines, DOMAIN lines, digest)

\* Accepted history is never discarded; the other payments go with the file.
Discardable(i) ==
    \A r \in Used : rows[r].import = i =>
        rows[r].decision # "accepted" /\ OpenMonths({MonthOf(rows[r].fact)})

DiscardBankImport(i) ==
    /\ i \in imports
    /\ Discardable(i)
    /\ imports' = imports \ {i}
    /\ rows' = [r \in RowIds |->
                   IF r \in Used /\ rows[r].import = i THEN None ELSE rows[r]]
    /\ UNCHANGED <<setup, nextRow, closed, catalog, confirmed>>

-----------------------------------------------------------------------------
(***************************************************************************)
(* Review decisions.  `new` is the payment as the caller wants it stored.  *)
(***************************************************************************)
Reviewed(r, new) ==
    [import |-> rows[r].import, fact |-> new.fact, source |-> rows[r].source,
     decision |-> new.decision, category |-> new.category, plan |-> new.plan,
     transfer |-> new.transfer, splits |-> StoredSplits(new)]

\* Accepted payments of the same account with the fingerprint of `fact`.
AcceptedTwins(r, fact) ==
    {t \in RowsIn(AccountOf(r)) \ {r} :
        /\ rows[t].decision = "accepted"
        /\ Fingerprint(rows[t].fact) = Fingerprint(fact)}

\* A decided payment can only be reopened.
AnyDecisionChange(r, new) == TRUE
DecisionChange(r, new) == rows[r].decision = "pending" \/ new.decision = "pending"

NewMonthOnly(r, new) == {MonthOf(new.fact)}
OldMonthOnly(r, new) == {MonthOf(rows[r].fact)}
MonthsTouched(r, new) == {MonthOf(rows[r].fact), MonthOf(new.fact)}

Reviewable(r, new) ==
    /\ DecisionChange(r, new)
    /\ OpenMonths(MonthsTouched(r, new))
    /\ ValidReferences(new, AccountOf(r))
    /\ ValidAllocation(new)

ReviewBankTransaction(r, new, allowDuplicate) ==
    /\ r \in Used
    /\ Reviewable(r, new)
    /\ new.decision = "accepted" /\ ~allowDuplicate => AcceptedTwins(r, new.fact) = {}
    /\ rows' = [rows EXCEPT ![r] = Reviewed(r, new)]
    /\ confirmed' = IF new.decision = "accepted" /\ allowDuplicate
                    THEN confirmed \cup {r} ELSE confirmed \ {r}
    /\ UNCHANGED <<setup, imports, nextRow, closed, catalog>>

(***************************************************************************)
(* ReviewBankBatch reviews several pending payments in one transaction,    *)
(* each one seeing the ones before it, none overriding a duplicate.  The   *)
(* payments are reviewed one after the other, so of two equal payments of  *)
(* an account only the first can be accepted, and the batch fails.         *)
(***************************************************************************)
TwinsIgnored(new) == TRUE
NoTwins(new) ==
    \A r, t \in DOMAIN new :
        /\ r # t
        /\ AccountOf(r) = AccountOf(t)
        /\ new[r].decision = "accepted"
        /\ new[t].decision = "accepted"
        => Fingerprint(new[r].fact) # Fingerprint(new[t].fact)

BatchDecisions == {"pending", "accepted", "transfer"}

ReviewBankBatch(new) ==
    /\ DOMAIN new # {}
    /\ \A r \in DOMAIN new :
          /\ r \in Used
          /\ rows[r].decision = "pending"
          /\ new[r].decision \in BatchDecisions
          /\ Reviewable(r, new[r])
          /\ new[r].decision = "accepted" => AcceptedTwins(r, new[r].fact) = {}
    /\ NoTwins(new)
    /\ rows' = [r \in RowIds |-> IF r \in DOMAIN new THEN Reviewed(r, new[r]) ELSE rows[r]]
    /\ confirmed' = confirmed \ DOMAIN new
    /\ UNCHANGED <<setup, imports, nextRow, closed, catalog>>

-----------------------------------------------------------------------------
(***************************************************************************)
(* Months.                                                                 *)
(***************************************************************************)
PendingIn(month) == {r \in RowsOf(month) : rows[r].decision = "pending"}

CloseMonth(month) ==
    /\ month \in PastMonths
    /\ OpenAccounts # {}
    /\ PendingIn(month) = {}
    /\ closed' = closed \cup {month}
    /\ UNCHANGED <<setup, imports, rows, nextRow, confirmed, catalog>>

ReopenMonth(month) ==
    /\ closed' = closed \ {month}
    /\ UNCHANGED <<setup, imports, rows, nextRow, confirmed, catalog>>

-----------------------------------------------------------------------------
(***************************************************************************)
(* The catalog a payment refers to: categories and planned bookings.       *)
(***************************************************************************)
UsedByPlan(c) == \E p \in Plans : plans[p] # None /\ plans[p].category = c
CategoryUsed(c) == UsedByPlan(c) \/ \E r \in Used : rows[r].category = c

CreateCategory(c, direction) ==
    /\ categories[c] = None
    /\ categories' = [categories EXCEPT ![c] = direction]
    /\ UNCHANGED <<setup, ledger, plans>>

\* The classification may change while payments use the category.
UpdateCategory(c, direction) ==
    /\ categories[c] # None
    /\ categories' = [categories EXCEPT ![c] = direction]
    /\ UNCHANGED <<setup, ledger, plans>>

DeleteCategory(c) ==
    /\ categories[c] # None
    /\ ~CategoryUsed(c)
    /\ categories' = [categories EXCEPT ![c] = None]
    /\ UNCHANGED <<setup, ledger, plans>>

Plan(direction, c) == [direction |-> direction, category |-> c]

CreateBooking(p, direction, c) ==
    /\ plans[p] = None
    /\ categories[c] # None
    /\ plans' = [plans EXCEPT ![p] = Plan(direction, c)]
    /\ UNCHANGED <<setup, ledger, categories>>

SaveBooking(p, direction, c) ==
    /\ plans[p] # None
    /\ categories[c] # None
    /\ plans' = [plans EXCEPT ![p] = Plan(direction, c)]
    /\ UNCHANGED <<setup, ledger, categories>>

\* Payments keep their history and lose the link (ON DELETE SET NULL).
Unlinked(p) ==
    [r \in RowIds |-> IF r \in Used /\ rows[r].plan = p
                      THEN [rows[r] EXCEPT !.plan = None] ELSE rows[r]]

DeleteBooking(p) ==
    /\ plans[p] # None
    /\ plans' = [plans EXCEPT ![p] = None]
    /\ rows' = Unlinked(p)
    /\ UNCHANGED <<setup, imports, nextRow, closed, confirmed, categories>>

\* An accepted payment is promoted to a planned booking, once.
CreatePlanFromPayment(r, p) ==
    /\ r \in Used
    /\ rows[r].decision = "accepted"
    /\ rows[r].plan = None
    /\ plans[p] = None
    /\ plans' = [plans EXCEPT ![p] = Plan(rows[r].fact.direction, rows[r].category)]
    /\ rows' = [rows EXCEPT ![r].plan = p]
    /\ UNCHANGED <<setup, imports, nextRow, closed, confirmed, categories>>

\* ResetBookings drops statements, closed months and plans of the household.
ResetBookings ==
    /\ imports' = {}
    /\ rows' = [r \in RowIds |-> None]
    /\ closed' = {}
    /\ confirmed' = {}
    /\ plans' = [p \in Plans |-> None]
    /\ UNCHANGED <<setup, nextRow, categories>>

-----------------------------------------------------------------------------
SetUp ==
    \/ \E m \in Members, a \in Accounts : CreateMember(m, a)
    \/ \E m \in Members : DeleteMember(m)
    \/ \E m \in Members, a \in Accounts : CreateBankAccount(m, a)
    \/ \E a \in Accounts : DeleteBankAccount(a)
    \/ \E a \in Accounts : SetDefaultBankAccount(a)

Statements ==
    \/ \E lines \in Uploads, d \in Digests : ReconcileBankImports(lines, d)
    \/ \E lines \in Uploads, d \in Digests : CreateBankImports(lines, d)
    \/ \E i \in Imports : DiscardBankImport(i)

Review ==
    \/ \E r \in RowIds, new \in Inputs, allow \in BOOLEAN :
          ReviewBankTransaction(r, new, allow)
    \/ \E batch \in SUBSET Used : \E new \in [batch -> BatchInputs] : ReviewBankBatch(new)
    \/ \E month \in Months : CloseMonth(month)
    \/ \E month \in Months : ReopenMonth(month)

Catalog ==
    \/ \E c \in Categories, d \in Directions : CreateCategory(c, d)
    \/ \E c \in Categories, d \in Directions : UpdateCategory(c, d)
    \/ \E c \in Categories : DeleteCategory(c)
    \/ \E p \in Plans, d \in Directions, c \in Categories : CreateBooking(p, d, c)
    \/ \E p \in Plans, d \in Directions, c \in Categories : SaveBooking(p, d, c)
    \/ \E p \in Plans : DeleteBooking(p)
    \/ \E r \in RowIds, p \in Plans : CreatePlanFromPayment(r, p)
    \/ ResetBookings

Next == SetUp \/ Statements \/ Review \/ Catalog

Spec == Init /\ [][Next]_vars

-----------------------------------------------------------------------------
(***************************************************************************)
(* Properties.                                                             *)
(***************************************************************************)

\* A closed month holds no payment that still waits for a decision, however
\* uploads, corrections of booking dates and reopenings interleave with
\* closing it (ensureOpenMonth, SetMonthReconciled).
ClosedMonthsReviewed ==
    \A r \in Used : rows[r].decision = "pending" => MonthOf(rows[r].fact) \notin closed

\* An accepted payment counts completely: it has a category, is no transfer,
\* and its shares add up to its amount (replaceBankAllocation).
AcceptedComplete ==
    \A r \in Used : rows[r].decision = "accepted" =>
        /\ rows[r].category # None
        /\ rows[r].transfer = None
        /\ rows[r].splits # NoSplits
        /\ Total(rows[r].splits) = rows[r].fact.cents

\* A confirmed transfer names another account of the household.
TransfersGoElsewhere ==
    \A r \in Used : rows[r].decision = "transfer" =>
        rows[r].transfer \in OpenAccounts \ {AccountOf(r)}

\* Whatever is deleted in the settings, everything a payment, a statement, an
\* account or a plan refers to is still there (DeleteMember, DeleteCategory,
\* DeleteBankAccount, DeleteBooking, DiscardBankImport).
PaymentReferencesExist ==
    \A r \in Used :
        /\ rows[r].import \in imports
        /\ rows[r].category # None => categories[rows[r].category] # None
        /\ rows[r].plan # None => plans[rows[r].plan] # None
        /\ rows[r].transfer # None => owner[rows[r].transfer] # None
        /\ Sharers(rows[r].splits) \subseteq members

SetupReferencesExist ==
    /\ \A i \in imports : owner[i[1]] # None
    /\ \A a \in OpenAccounts : owner[a] \in members
    /\ \A p \in Plans : plans[p] # None => categories[plans[p].category] # None

ReferencesExist == PaymentReferencesExist /\ SetupReferencesExist

\* Every member has exactly one default account, at all times
\* (ensureMemberBankAccount, SetDefaultBankAccount, DeleteBankAccount).
OneDefaultAccount ==
    /\ default \subseteq OpenAccounts
    /\ \A m \in members : \E a \in Accounts : OwnedBy(m) \cap default = {a}

\* Two accepted payments of one account are never equal unless the user
\* confirmed the duplicate for one of them (ReviewBankTransaction).
NoSilentDuplicate ==
    \A r, t \in Used :
        /\ r # t
        /\ rows[r].decision = "accepted"
        /\ rows[t].decision = "accepted"
        /\ AccountOf(r) = AccountOf(t)
        /\ Fingerprint(rows[r].fact) = Fingerprint(rows[t].fact)
        => r \in confirmed \/ t \in confirmed

\* A statement whose lines were all imported before, each as a payment of its
\* own, adds nothing when it is uploaded again, even after its payments were
\* corrected (ReconcileBankImports).
ImportedBefore(lines) ==
    \E use \in Injection(DOMAIN lines, Used) : \A i \in DOMAIN lines :
        /\ AccountOf(use[i]) = lines[i].account
        /\ rows[use[i]].source = Fingerprint(lines[i].fact)

ReuploadAddsNothing ==
    \A lines \in Uploads : ImportedBefore(lines) => NewLines(lines) = {}

\* The payments of a month that stays closed are neither added, removed nor
\* changed; only their link to a plan may change (ensureOpenMonth).
History(month) == {<<r, [rows[r] EXCEPT !.plan = None]>> : r \in RowsOf(month)}

ClosedHistoryFrozen ==
    [][\A month \in closed \cap closed' : History(month)' = History(month)]_vars

-----------------------------------------------------------------------------
(***************************************************************************)
(* The ledger as a book of reviewed payments: ids above the counter are    *)
(* still to be handed out, an unused id below it is not handed out again.  *)
(***************************************************************************)
Standing(r) ==
    IF r \in Used
    THEN IF rows[r].decision \in {"pending", "accepted"} THEN rows[r].decision ELSE "aside"
    ELSE IF r >= nextRow THEN "new" ELSE "gone"

BookedIn(r) == IF r \in Used THEN MonthOf(rows[r].fact) ELSE None
CameFrom(r) == IF r \in Used THEN <<rows[r].import, rows[r].source>> ELSE None

Book == INSTANCE ReviewBook WITH
    Ids <- RowIds,
    Unknown <- None,
    state <- [r \in RowIds |-> Standing(r)],
    booked <- [r \in RowIds |-> BookedIn(r)],
    origin <- [r \in RowIds |-> CameFrom(r)],
    shut <- closed

\* Uploads, single and batch reviews, discards, month closing and resets
\* together keep the promises of ReviewBook about every payment.
KeepsReviewBook == Book!BookSpec
=============================================================================
