-------------------------- MODULE BankLedgerProofs --------------------------
(***************************************************************************)
(* Theorems about BankLedger and Backup for every value of their           *)
(* constants: what holds in every book, that a book does what ReviewBook   *)
(* promises, and that every backup can be restored.                        *)
(*                                                                         *)
(* A file is a book of the past.  What the ledger promises of its rows     *)
(* (BookInv) therefore holds of the file too, whatever happened to the     *)
(* book since (FileInv), and that is more than the checks of Import ask    *)
(* for, up to the two things the ledger does not promise: directions that  *)
(* agree, and an account for every closed month.  Entering such rows again *)
(* changes nothing about them, so the restored book keeps the invariant.   *)
(***************************************************************************)
EXTENDS Backup, FiniteSetTheorems, TLAPS

USE DEF RowIds, vars, setup, ledger, catalog

-----------------------------------------------------------------------------
(***************************************************************************)
(* The payments the actions write are payments.                            *)
(***************************************************************************)

\* A statement line is stored as a payment of its account and file.
LEMMA NewPaymentType ==
    ASSUME NEW line \in Lines, NEW digest \in Digests
    PROVE  NewPayment(line, digest) \in Payments
  <1>1. NoSplits \in Allocations
    BY DEF NoSplits, Allocations
  <1>2. "pending" \in Decisions
    BY DEF Decisions
  <1>3. Fingerprint(line.fact) \in Fingerprints
    BY DEF Lines, Fingerprints
  <1>4. <<line.account, digest>> \in Imports
    BY DEF Lines, Imports
  <1> QED
    BY <1>1, <1>2, <1>3, <1>4 DEF NewPayment, Payments, Lines

\* A review stores a payment again.
LEMMA ReviewedType ==
    ASSUME TypeOK, NEW r \in Used, NEW new \in Reviews
    PROVE  Reviewed(r, new) \in Payments
  <1>1. rows[r] \in Payments
    BY DEF TypeOK, Used
  <1>2. StoredSplits(new) \in Allocations
    BY DEF StoredSplits, NoSplits, Allocations, Reviews
  <1> QED
    BY <1>1, <1>2 DEF Reviewed, Payments, Reviews

\* The bounds hold of the number of lines of a statement that are stored.
LEMMA StoredFinite ==
    ASSUME NEW lines \in Uploads, NEW stored \in SUBSET DOMAIN lines
    PROVE  /\ lines \in Seq(Lines)
           /\ Cardinality(stored) \in Nat
           /\ \A i \in stored : lines[i] \in Lines
  <1>1. lines \in Seq(Lines)
    BY InputsAreTyped
  <1>2. IsFiniteSet(DOMAIN lines)
    BY <1>1, FS_Interval
  <1> QED
    BY <1>1, <1>2, FS_Subset, FS_CardinalityType

\* Storing lines keeps the types: the new ids lie below the new counter.
LEMMA StoreLinesType ==
    ASSUME TypeOK, NEW lines \in Uploads, NEW stored \in SUBSET DOMAIN lines,
           NEW digest \in Digests, StoreLines(lines, stored, digest)
    PROVE  TypeOK'
  <1> USE StoredFinite, BoundIsNatural
  <1> DEFINE n == Cardinality(stored)
  <1>1. PICK id \in NewIds(stored) :
            rows' = [r \in RowIds |->
                        IF \E i \in stored : id[i] = r
                        THEN NewPayment(lines[CHOOSE i \in stored : id[i] = r], digest)
                        ELSE rows[r]]
    BY DEF StoreLines
  <1>2. nextRow \in Nat /\ nextRow' = nextRow + n /\ nextRow' \in 1..(MaxRows + 1)
    BY DEF StoreLines, TypeOK
  <1>3. \A i \in stored : id[i] \in nextRow..(nextRow + n - 1)
    BY <1>1 DEF NewIds
  <1>4. rows' \in [RowIds -> Payments \cup {None}]
    <2> SUFFICES ASSUME NEW r \in RowIds, \E i \in stored : id[i] = r
                 PROVE  NewPayment(lines[CHOOSE i \in stored : id[i] = r], digest) \in Payments
      BY <1>1 DEF TypeOK
    <2>1. (CHOOSE i \in stored : id[i] = r) \in stored
      OBVIOUS
    <2> QED
      BY <2>1, NewPaymentType
  <1>5. \A r \in RowIds : r >= nextRow' => rows'[r] = None
    BY <1>1, <1>2, <1>3 DEF TypeOK
  <1>6. imports' \subseteq Imports
    <2>1. \A i \in stored : <<lines[i].account, digest>> \in Imports
      BY DEF Lines, Imports
    <2> QED
      BY <2>1 DEF StoreLines, TypeOK
  <1> QED
    BY <1>2, <1>4, <1>5, <1>6 DEF StoreLines, TypeOK

-----------------------------------------------------------------------------
(***************************************************************************)
(* Type correctness.                                                       *)
(***************************************************************************)
LEMMA InitType == Init => TypeOK
  <1> SUFFICES ASSUME Init PROVE TypeOK
    OBVIOUS
  <1>1. owner \in [Accounts -> Members \cup {None}]
    <2> SUFFICES ASSUME NEW a \in Accounts, a \in Range(Seed)
                 PROVE  (CHOOSE m \in DOMAIN Seed : Seed[m] = a) \in Members
      BY DEF Init
    <2> QED
      BY SeedIsTyped DEF Range
  <1> QED
    BY <1>1, SeedIsTyped, BoundIsNatural DEF Init, TypeOK

\* Members and accounts change within their types (members.go, bank_accounts.go).
LEMMA SetUpType == ASSUME TypeOK, SetUp PROVE TypeOK'
  <1>1. ASSUME NEW m \in Members, NEW a \in Accounts, CreateMember(m, a)
        PROVE  TypeOK'
    BY <1>1 DEF TypeOK, CreateMember
  <1>2. ASSUME NEW m \in Members, DeleteMember(m)
        PROVE  TypeOK'
    BY <1>2 DEF TypeOK, DeleteMember
  <1>3. ASSUME NEW m \in Members, NEW a \in Accounts, CreateBankAccount(m, a)
        PROVE  TypeOK'
    BY <1>3 DEF TypeOK, CreateBankAccount, WithDefault
  <1>4. ASSUME NEW a \in Accounts, DeleteBankAccount(a)
        PROVE  TypeOK'
    BY <1>4 DEF TypeOK, DeleteBankAccount
  <1>5. ASSUME NEW a \in Accounts, SetDefaultBankAccount(a)
        PROVE  TypeOK'
    BY <1>5 DEF TypeOK, SetDefaultBankAccount
  <1> QED
    BY <1>1, <1>2, <1>3, <1>4, <1>5 DEF SetUp

\* So do uploads and discards (ReconcileBankImports, DiscardBankImport).
LEMMA StatementsType == ASSUME TypeOK, Statements PROVE TypeOK'
  <1>1. ASSUME NEW lines \in Uploads, NEW d \in Digests, ReconcileBankImports(lines, d)
        PROVE  TypeOK'
    <2>1. NewLines(lines) \subseteq DOMAIN lines
      BY DEF NewLines, LinesFor
    <2> QED
      BY <1>1, <2>1, StoreLinesType DEF ReconcileBankImports
  <1>2. ASSUME NEW lines \in Uploads, NEW d \in Digests, CreateBankImports(lines, d)
        PROVE  TypeOK'
    BY <1>2, StoreLinesType DEF CreateBankImports
  <1>3. ASSUME NEW i \in Imports, DiscardBankImport(i)
        PROVE  TypeOK'
    BY <1>3 DEF TypeOK, DiscardBankImport
  <1> QED
    BY <1>1, <1>2, <1>3 DEF Statements

\* So do decisions and months (ReviewBankTransaction, SetMonthReconciled).
LEMMA ReviewType == ASSUME TypeOK, Review PROVE TypeOK'
  <1>1. ASSUME NEW r \in RowIds, NEW new \in Inputs, NEW allow \in BOOLEAN,
               ReviewBankTransaction(r, new, allow)
        PROVE  TypeOK'
    <2>1. r \in Used /\ Reviewed(r, new) \in Payments
      BY <1>1, ReviewedType, InputsAreTyped DEF ReviewBankTransaction
    <2>2. r < nextRow
      BY <2>1 DEF TypeOK, Used
    <2> QED
      BY <1>1, <2>1, <2>2 DEF TypeOK, ReviewBankTransaction
  <1>2. ASSUME NEW batch \in SUBSET Used, NEW new \in [batch -> BatchInputs],
               ReviewBankBatch(new)
        PROVE  TypeOK'
    <2>1. \A r \in batch : r \in Used /\ Reviewed(r, new[r]) \in Payments
      BY ReviewedType, InputsAreTyped
    <2>2. \A r \in batch : ~(r >= nextRow)
      BY <2>1 DEF TypeOK, Used
    <2>3. rows' = [r \in RowIds |-> IF r \in batch THEN Reviewed(r, new[r]) ELSE rows[r]]
      BY <1>2 DEF ReviewBankBatch
    <2>4. rows' \in [RowIds -> Payments \cup {None}]
      BY <2>1, <2>3 DEF TypeOK
    <2>5. \A r \in RowIds : r >= nextRow => rows'[r] = None
      BY <2>2, <2>3 DEF TypeOK
    <2> QED
      BY <1>2, <2>4, <2>5 DEF TypeOK, ReviewBankBatch
  <1>3. ASSUME NEW month \in Months, CloseMonth(month) \/ ReopenMonth(month)
        PROVE  TypeOK'
    BY <1>3 DEF TypeOK, CloseMonth, ReopenMonth
  <1> QED
    BY <1>1, <1>2, <1>3 DEF Review

\* So do categories, plans and resets.  The plan made of an accepted payment
\* has a category because the payment has one (CreatePlanFromPayment).
LEMMA CatalogType == ASSUME TypeOK, AcceptedComplete, Catalog PROVE TypeOK'
  <1>1. ASSUME NEW c \in Categories, NEW d \in Directions,
               CreateCategory(c, d) \/ UpdateCategory(c, d)
        PROVE  TypeOK'
    BY <1>1 DEF TypeOK, CreateCategory, UpdateCategory
  <1>2. ASSUME NEW c \in Categories, DeleteCategory(c)
        PROVE  TypeOK'
    BY <1>2 DEF TypeOK, DeleteCategory
  <1>3. ASSUME NEW p \in Plans, NEW d \in Directions, NEW c \in Categories,
               CreateBooking(p, d, c) \/ SaveBooking(p, d, c)
        PROVE  TypeOK'
    <2>1. Plan(d, c) \in [direction: Directions, category: Categories]
      BY DEF Plan
    <2>2. plans' = [plans EXCEPT ![p] = Plan(d, c)]
      BY <1>3 DEF CreateBooking, SaveBooking
    <2> QED
      BY <1>3, <2>1, <2>2 DEF TypeOK, CreateBooking, SaveBooking
  <1>4. ASSUME NEW p \in Plans, DeleteBooking(p)
        PROVE  TypeOK'
    <2>1. rows' = Unlinked(p)
      BY <1>4 DEF DeleteBooking
    <2>2. \A r \in Used : [rows[r] EXCEPT !.plan = None] \in Payments
      BY DEF TypeOK, Used, Payments
    <2> QED
      BY <1>4, <2>1, <2>2 DEF TypeOK, DeleteBooking, Unlinked, Used
  <1>5. ASSUME NEW r \in RowIds, NEW p \in Plans, CreatePlanFromPayment(r, p)
        PROVE  TypeOK'
    <2>1. r \in Used /\ rows[r] \in Payments
      BY <1>5 DEF CreatePlanFromPayment, Used, TypeOK
    <2>2. rows[r].category \in Categories
      BY <1>5, <2>1 DEF CreatePlanFromPayment, AcceptedComplete, Payments
    <2>3. rows[r].fact.direction \in Directions
      BY <2>1, FactsHaveMonths DEF Payments
    <2>4. Plan(rows[r].fact.direction, rows[r].category)
              \in [direction: Directions, category: Categories]
      BY <2>2, <2>3 DEF Plan
    <2>5. plans' \in [Plans -> [direction: Directions, category: Categories] \cup {None}]
      BY <1>5, <2>4 DEF CreatePlanFromPayment, TypeOK
    <2>6. [rows[r] EXCEPT !.plan = p] \in Payments
      BY <2>1 DEF Payments
    <2>7. rows' = [rows EXCEPT ![r] = [rows[r] EXCEPT !.plan = p]]
      BY <1>5 DEF CreatePlanFromPayment
    <2>8. ~(r >= nextRow)
      BY <2>1 DEF TypeOK, Used
    <2> QED
      BY <1>5, <2>5, <2>6, <2>7, <2>8 DEF TypeOK, CreatePlanFromPayment
  <1>6. CASE ResetBookings
    BY <1>6 DEF TypeOK, ResetBookings
  <1> QED
    BY <1>1, <1>2, <1>3, <1>4, <1>5, <1>6 DEF Catalog

-----------------------------------------------------------------------------
(***************************************************************************)
(* How a payment can change in one step.  Every invariant about payments   *)
(* follows from this case distinction.                                     *)
(***************************************************************************)
Stored(r) == rows[r] = None /\
    \E lines \in Uploads, d \in Digests : \E i \in DOMAIN lines :
        /\ lines[i] \in Lines
        /\ rows'[r] = NewPayment(lines[i], d)
        /\ ValidReferences(NewPayment(lines[i], d), lines[i].account)
        /\ MonthOf(lines[i].fact) \notin closed
        /\ lines[i].account \in OpenAccounts
        /\ imports \cup {<<lines[i].account, d>>} \subseteq imports'
        /\ UNCHANGED <<setup, catalog, closed>>

ReviewedTo(r, new) ==
    /\ r \in Used
    /\ new \in Reviews
    /\ Reviewable(r, new)
    /\ rows'[r] = Reviewed(r, new)
    /\ UNCHANGED <<setup, imports, closed, catalog>>

PlanOnly(r) ==
    /\ r \in Used
    /\ \E p \in Plans \cup {None} :
          /\ rows'[r] = [rows[r] EXCEPT !.plan = p]
          /\ p # None => rows[r].plan = None /\ plans'[p] # None
    /\ UNCHANGED <<setup, imports, closed, categories>>

\* After an upload a row is a row of before or a new pending payment of an
\* open month with valid references.
LEMMA StoreLinesRows ==
    ASSUME TypeOK, NEW lines \in Uploads, NEW stored \in SUBSET DOMAIN lines,
           NEW d \in Digests, AccountsOf(lines) \subseteq OpenAccounts,
           StoreLines(lines, stored, d),
           NEW r \in RowIds
    PROVE  rows'[r] = rows[r] \/ Stored(r)
  <1> USE StoredFinite
  <1>1. PICK id \in NewIds(stored) :
            rows' = [t \in RowIds |->
                        IF \E i \in stored : id[i] = t
                        THEN NewPayment(lines[CHOOSE i \in stored : id[i] = t], d)
                        ELSE rows[t]]
    BY DEF StoreLines
  <1>2. CASE ~\E i \in stored : id[i] = r
    BY <1>1, <1>2
  <1>3. CASE \E i \in stored : id[i] = r
    <2> DEFINE i == CHOOSE i \in stored : id[i] = r
    <2>1. i \in stored /\ i \in DOMAIN lines
      BY <1>3
    <2>2. rows'[r] = NewPayment(lines[i], d)
      BY <1>1, <1>3
    <2>3. lines[i] \in Lines
      BY <2>1
    <2>4. ValidReferences(NewPayment(lines[i], d), lines[i].account)
      BY <2>1 DEF StoreLines
    <2>5. MonthOf(lines[i].fact) \notin closed
      BY <2>1 DEF StoreLines, OpenMonths
    <2>6. lines[i].account \in OpenAccounts
      BY <2>1 DEF AccountsOf
    <2>7. imports \cup {<<lines[i].account, d>>} \subseteq imports'
      <3>1. imports' = imports \cup {<<lines[k].account, d>> : k \in stored}
        BY DEF StoreLines
      <3> HIDE DEF i
      <3> QED
        BY <2>1, <3>1
    <2>8. UNCHANGED <<setup, catalog, closed>>
      BY DEF StoreLines
    <2>9. rows[r] = None
      <3>1. id[i] = r /\ id[i] >= nextRow
        BY <1>1, <1>3 DEF NewIds, TypeOK
      <3> QED
        BY <3>1 DEF TypeOK
    <2> HIDE DEF i
    <2> QED
      BY <2>1, <2>2, <2>3, <2>4, <2>5, <2>6, <2>7, <2>8, <2>9 DEF Stored
  <1> QED
    BY <1>2, <1>3

\* Every payment is left alone, removed, entered, reviewed, or only linked to a
\* plan or unlinked from one.
LEMMA RowStep ==
    ASSUME TypeOK, AcceptedComplete, [Next]_vars, NEW r \in RowIds
    PROVE  \/ rows'[r] = rows[r]
           \/ rows'[r] = None
           \/ Stored(r)
           \/ \E new \in Reviews : ReviewedTo(r, new)
           \/ PlanOnly(r)
  <1>1. CASE SetUp \/ UNCHANGED vars
    BY <1>1 DEF SetUp, CreateMember, DeleteMember, CreateBankAccount,
                DeleteBankAccount, SetDefaultBankAccount
  <1>2. CASE Statements
    <2>1. ASSUME NEW lines \in Uploads, NEW d \in Digests,
                 ReconcileBankImports(lines, d)
          PROVE  rows'[r] = rows[r] \/ Stored(r)
      <3>1. NewLines(lines) \subseteq DOMAIN lines
        BY DEF NewLines, LinesFor
      <3> QED
        BY <2>1, <3>1, StoreLinesRows DEF ReconcileBankImports
    <2>2. ASSUME NEW lines \in Uploads, NEW d \in Digests, CreateBankImports(lines, d)
          PROVE  rows'[r] = rows[r] \/ Stored(r)
      BY <2>2, StoreLinesRows DEF CreateBankImports
    <2>3. ASSUME NEW i \in Imports, DiscardBankImport(i)
          PROVE  rows'[r] = rows[r] \/ rows'[r] = None
      BY <2>3 DEF DiscardBankImport
    <2> QED
      BY <1>2, <2>1, <2>2, <2>3 DEF Statements
  <1>3. CASE Review
    <2>1. ASSUME NEW t \in RowIds, NEW new \in Inputs, NEW allow \in BOOLEAN,
                 ReviewBankTransaction(t, new, allow)
          PROVE  rows'[r] = rows[r] \/ \E v \in Reviews : ReviewedTo(r, v)
      <3>1. new \in Reviews
        BY InputsAreTyped
      <3>2. rows' = [rows EXCEPT ![t] = Reviewed(t, new)]
        BY <2>1 DEF ReviewBankTransaction
      <3>3. CASE r = t
        <4>1. rows'[r] = Reviewed(r, new)
          BY <3>2, <3>3 DEF TypeOK
        <4>2. ReviewedTo(r, new)
          BY <2>1, <3>1, <3>3, <4>1 DEF ReviewedTo, ReviewBankTransaction
        <4> QED
          BY <3>1, <4>2
      <3>4. CASE r # t
        BY <3>2, <3>4 DEF TypeOK
      <3> QED
        BY <3>3, <3>4
    <2>2. ASSUME NEW batch \in SUBSET Used, NEW new \in [batch -> BatchInputs],
                 ReviewBankBatch(new)
          PROVE  rows'[r] = rows[r] \/ \E v \in Reviews : ReviewedTo(r, v)
      <3>1. rows' = [t \in RowIds |-> IF t \in batch THEN Reviewed(t, new[t]) ELSE rows[t]]
        BY <2>2 DEF ReviewBankBatch
      <3>2. CASE r \in batch
        <4>1. new[r] \in Reviews
          BY <3>2, InputsAreTyped
        <4>2. ReviewedTo(r, new[r])
          BY <2>2, <3>1, <3>2, <4>1 DEF ReviewedTo, ReviewBankBatch
        <4> QED
          BY <4>1, <4>2
      <3>3. CASE r \notin batch
        BY <3>1, <3>3
      <3> QED
        BY <3>2, <3>3
    <2>3. ASSUME NEW month \in Months, CloseMonth(month) \/ ReopenMonth(month)
          PROVE  rows'[r] = rows[r]
      BY <2>3 DEF CloseMonth, ReopenMonth
    <2> QED
      BY <1>3, <2>1, <2>2, <2>3 DEF Review
  <1>4. CASE Catalog
    <2>1. ASSUME NEW p \in Plans, DeleteBooking(p)
          PROVE  rows'[r] = rows[r] \/ PlanOnly(r)
      <3>1. rows' = Unlinked(p)
        BY <2>1 DEF DeleteBooking
      <3>2. CASE r \in Used /\ rows[r].plan = p
        <4>1. rows'[r] = [rows[r] EXCEPT !.plan = None]
          BY <3>1, <3>2 DEF Unlinked
        <4> QED
          BY <2>1, <3>2, <4>1 DEF PlanOnly, DeleteBooking
      <3>3. CASE ~(r \in Used /\ rows[r].plan = p)
        BY <3>1, <3>3 DEF Unlinked
      <3> QED
        BY <3>2, <3>3
    <2>2. ASSUME NEW t \in RowIds, NEW p \in Plans, CreatePlanFromPayment(t, p)
          PROVE  rows'[r] = rows[r] \/ PlanOnly(r)
      <3>1. rows' = [rows EXCEPT ![t] = [rows[t] EXCEPT !.plan = p]]
        BY <2>2 DEF CreatePlanFromPayment
      <3>2. CASE r = t
        <4>1. rows'[r] = [rows[r] EXCEPT !.plan = p]
          BY <3>1, <3>2 DEF TypeOK
        <4>2. plans'[p] # None
          <5>1. rows[r] \in Payments
            BY <2>2, <3>2 DEF CreatePlanFromPayment, Used, TypeOK
          <5>2. rows[r].category \in Categories
            BY <2>2, <3>2, <5>1 DEF CreatePlanFromPayment, AcceptedComplete, Payments
          <5>3. rows[r].fact.direction \in Directions
            BY <5>1, FactsHaveMonths DEF Payments
          <5>4. Plan(rows[r].fact.direction, rows[r].category) # None
            BY <5>2, <5>3, NoneIsNoValue DEF Plan
          <5> QED
            BY <2>2, <3>2, <5>4 DEF CreatePlanFromPayment, TypeOK
        <4> QED
          BY <2>2, <3>2, <4>1, <4>2 DEF PlanOnly, CreatePlanFromPayment
      <3>3. CASE r # t
        BY <3>1, <3>3 DEF TypeOK
      <3> QED
        BY <3>2, <3>3
    <2>3. CASE ResetBookings
      BY <2>3 DEF ResetBookings
    <2>4. CASE rows' = rows
      BY <2>4
    <2> QED
      BY <1>4, <2>1, <2>2, <2>3, <2>4
      DEF Catalog, CreateCategory, UpdateCategory, DeleteCategory, CreateBooking,
          SaveBooking
  <1> QED
    BY <1>1, <1>2, <1>3, <1>4 DEF Next

-----------------------------------------------------------------------------
(***************************************************************************)
(* What else a step may do while payments stand still.                     *)
(***************************************************************************)

\* A month is closed only when nothing in it is pending, and by a step that
\* touches no payment.
LEMMA ClosingStep ==
    ASSUME [Next]_vars
    PROVE  \A month \in closed' \ closed : rows' = rows /\ PendingIn(month) = {}
  <1>1. CASE SetUp \/ UNCHANGED vars
    BY <1>1 DEF SetUp, CreateMember, DeleteMember, CreateBankAccount,
                DeleteBankAccount, SetDefaultBankAccount
  <1>2. CASE Statements
    BY <1>2 DEF Statements, ReconcileBankImports, CreateBankImports, StoreLines,
                DiscardBankImport
  <1>3. CASE Review
    BY <1>3 DEF Review, ReviewBankTransaction, ReviewBankBatch, CloseMonth, ReopenMonth
  <1>4. CASE Catalog
    BY <1>4 DEF Catalog, CreateCategory, UpdateCategory, DeleteCategory, CreateBooking,
                SaveBooking, DeleteBooking, CreatePlanFromPayment, ResetBookings
  <1> QED
    BY <1>1, <1>2, <1>3, <1>4 DEF Next

\* A payment is removed only from an open month, or with all closed months.
LEMMA RemovalStep ==
    ASSUME TypeOK, AcceptedComplete, [Next]_vars, NEW r \in Used, rows'[r] = None
    PROVE  MonthOf(rows[r].fact) \notin closed \/ closed' = {}
  <1>1. r \in RowIds /\ rows[r] # None /\ rows[r] \in Payments
    BY DEF Used, TypeOK
  <1>2. ASSUME NEW i \in Imports, DiscardBankImport(i)
        PROVE  MonthOf(rows[r].fact) \notin closed
    <2>1. rows[r].import = i
      BY <1>1, <1>2 DEF DiscardBankImport
    <2> QED
      BY <1>2, <2>1 DEF DiscardBankImport, Discardable, OpenMonths
  <1>3. CASE ResetBookings
    BY <1>3 DEF ResetBookings
  <1>4. CASE rows' = rows
    BY <1>1, <1>4
  <1>6. ~Stored(r)
    BY <1>1 DEF Stored
  <1>7. CASE SetUp \/ UNCHANGED vars
    BY <1>4, <1>7 DEF SetUp, CreateMember, DeleteMember, CreateBankAccount,
                DeleteBankAccount, SetDefaultBankAccount
  <1>8. CASE Statements
    <2>1. ASSUME NEW lines \in Uploads, NEW d \in Digests,
                 ReconcileBankImports(lines, d) \/ CreateBankImports(lines, d)
          PROVE  FALSE
      <3>1. NewLines(lines) \subseteq DOMAIN lines
        BY DEF NewLines, LinesFor
      <3>2. rows'[r] = rows[r] \/ Stored(r)
        BY <1>1, <2>1, <3>1, StoreLinesRows DEF ReconcileBankImports, CreateBankImports
      <3> QED
        BY <1>1, <1>6, <3>2
    <2> QED
      BY <1>2, <1>8, <2>1 DEF Statements
  <1>9. CASE Review
    <2>1. ASSUME NEW t \in RowIds, NEW new \in Inputs, NEW allow \in BOOLEAN,
                 ReviewBankTransaction(t, new, allow)
          PROVE  FALSE
      <3>1. r = t
        BY <1>1, <2>1 DEF ReviewBankTransaction, TypeOK
      <3>2. rows'[r] = Reviewed(r, new) /\ new \in Reviews
        BY <1>1, <2>1, <3>1, InputsAreTyped DEF ReviewBankTransaction, TypeOK
      <3> QED
        BY <3>2, ReviewedType, NoneIsNoValue
    <2>2. ASSUME NEW batch \in SUBSET Used, NEW new \in [batch -> BatchInputs],
                 ReviewBankBatch(new)
          PROVE  FALSE
      <3>1. r \in batch
        BY <1>1, <2>2 DEF ReviewBankBatch
      <3>2. rows'[r] = Reviewed(r, new[r]) /\ new[r] \in Reviews
        BY <1>1, <2>2, <3>1, InputsAreTyped DEF ReviewBankBatch
      <3> QED
        BY <3>2, ReviewedType, NoneIsNoValue
    <2>3. ASSUME NEW month \in Months, CloseMonth(month) \/ ReopenMonth(month)
          PROVE  rows' = rows
      BY <2>3 DEF CloseMonth, ReopenMonth
    <2> QED
      BY <1>4, <1>9, <2>1, <2>2, <2>3 DEF Review
  <1>10. CASE Catalog
    <2>1. ASSUME NEW q \in Plans \cup {None}
          PROVE  [rows[r] EXCEPT !.plan = q] # None
      BY <1>1, NoneIsNoValue DEF Payments
    <2>2. ASSUME NEW p \in Plans, DeleteBooking(p)
          PROVE  FALSE
      BY <1>1, <2>1, <2>2 DEF DeleteBooking, Unlinked
    <2>3. ASSUME NEW t \in RowIds, NEW p \in Plans, CreatePlanFromPayment(t, p)
          PROVE  FALSE
      <3>1. rows' = [rows EXCEPT ![t] = [rows[t] EXCEPT !.plan = p]]
        BY <2>3 DEF CreatePlanFromPayment
      <3> QED
        BY <1>1, <2>1, <3>1 DEF TypeOK
    <2> QED
      BY <1>3, <1>4, <1>10, <2>2, <2>3
      DEF Catalog, CreateCategory, UpdateCategory, DeleteCategory, CreateBooking, SaveBooking
  <1> QED
    BY <1>7, <1>8, <1>9, <1>10 DEF Next

\* An account is given up only when no statement was imported into it and no
\* payment went to it.
LEMMA AccountStep ==
    ASSUME TypeOK, [Next]_vars, NEW a \in OpenAccounts
    PROVE  owner'[a] = owner[a] \/ (ImportsOf(a) = {} /\ a \notin TransferTargets /\ owner'[a] = None)
  <1> USE DEF OpenAccounts, TypeOK
  <1>1. ASSUME NEW m \in Members, NEW b \in Accounts,
               CreateMember(m, b) \/ CreateBankAccount(m, b)
        PROVE  owner'[a] = owner[a]
    BY <1>1 DEF CreateMember, CreateBankAccount
  <1>2. ASSUME NEW b \in Accounts, DeleteBankAccount(b)
        PROVE  owner'[a] = owner[a] \/ (ImportsOf(a) = {} /\ a \notin TransferTargets /\ owner'[a] = None)
    BY <1>2 DEF DeleteBankAccount, HistoryOf
  <1>3. ASSUME NEW m \in Members, DeleteMember(m)
        PROVE  owner'[a] = owner[a] \/ (ImportsOf(a) = {} /\ a \notin TransferTargets /\ owner'[a] = None)
    BY <1>3 DEF DeleteMember, HistoryOf, OwnedBy
  <1>4. CASE owner' = owner
    BY <1>4
  <1>5. CASE SetUp
    BY <1>1, <1>2, <1>3, <1>4, <1>5 DEF SetUp, SetDefaultBankAccount
  <1>6. CASE Statements
    BY <1>4, <1>6 DEF Statements, ReconcileBankImports, CreateBankImports, StoreLines,
                DiscardBankImport
  <1>7. CASE Review
    BY <1>4, <1>7 DEF Review, ReviewBankTransaction, ReviewBankBatch, CloseMonth, ReopenMonth
  <1>8. CASE Catalog
    BY <1>4, <1>8 DEF Catalog, CreateCategory, UpdateCategory, DeleteCategory, CreateBooking,
                SaveBooking, DeleteBooking, CreatePlanFromPayment, ResetBookings
  <1> QED
    BY <1>4, <1>5, <1>6, <1>7, <1>8 DEF Next

-----------------------------------------------------------------------------
(***************************************************************************)
(* Each invariant is kept.                                                 *)
(***************************************************************************)
LEMMA AcceptedCompleteStep ==
    ASSUME TypeOK, AcceptedComplete, [Next]_vars
    PROVE  AcceptedComplete'
  <1> SUFFICES ASSUME NEW r \in Used', rows'[r].decision = "accepted"
               PROVE  /\ rows'[r].category # None
                      /\ rows'[r].transfer = None
                      /\ rows'[r].splits # NoSplits
                      /\ Total(rows'[r].splits) = rows'[r].fact.cents
    BY DEF AcceptedComplete
  <1>1. r \in RowIds /\ rows'[r] # None
    BY DEF Used
  <1>2. CASE rows'[r] = rows[r]
    BY <1>1, <1>2 DEF AcceptedComplete, Used
  <1>3. CASE Stored(r)
    BY <1>3 DEF Stored, NewPayment
  <1>4. ASSUME NEW new \in Reviews, ReviewedTo(r, new)
        PROVE  /\ rows'[r].category # None
               /\ rows'[r].transfer = None
               /\ rows'[r].splits # NoSplits
               /\ Total(rows'[r].splits) = rows'[r].fact.cents
    <2>1. rows'[r] = Reviewed(r, new) /\ new.decision = "accepted"
      BY <1>4 DEF ReviewedTo, Reviewed
    <2>2. StoredSplits(new) = new.splits
      BY <2>1 DEF StoredSplits, StoresSplits
    <2>3. new.category # None /\ new.transfer = None
      BY <1>4, <2>1 DEF ReviewedTo, Reviewable, ValidReferences, CompleteDecision
    <2>4. new.splits # NoSplits /\ Total(new.splits) = new.fact.cents
      BY <1>4, <2>1 DEF ReviewedTo, Reviewable, ValidAllocation, StoresSplits
    <2> QED
      BY <2>1, <2>2, <2>3, <2>4 DEF Reviewed
  <1>5. CASE PlanOnly(r)
    <2>1. r \in Used /\ rows[r] \in Payments
      BY <1>5 DEF PlanOnly, TypeOK, Used
    <2>2. PICK p : rows'[r] = [rows[r] EXCEPT !.plan = p]
      BY <1>5 DEF PlanOnly
    <2>3. /\ rows'[r].decision = rows[r].decision
          /\ rows'[r].category = rows[r].category
          /\ rows'[r].transfer = rows[r].transfer
          /\ rows'[r].splits = rows[r].splits
          /\ rows'[r].fact = rows[r].fact
      BY <2>1, <2>2 DEF Payments
    <2> QED
      BY <2>1, <2>3 DEF AcceptedComplete
  <1> QED
    BY <1>1, <1>2, <1>3, <1>4, <1>5, RowStep

\* Every step keeps closed months free of pending payments.
LEMMA ClosedMonthsReviewedStep ==
    ASSUME TypeOK, AcceptedComplete, ClosedMonthsReviewed, [Next]_vars
    PROVE  ClosedMonthsReviewed'
  <1> SUFFICES ASSUME NEW r \in Used', rows'[r].decision = "pending",
                      MonthOf(rows'[r].fact) \in closed'
               PROVE  FALSE
    BY DEF ClosedMonthsReviewed
  <1>1. r \in RowIds /\ rows'[r] # None
    BY DEF Used
  <1>2. CASE rows'[r] = rows[r]
    <2>1. r \in Used
      BY <1>1, <1>2 DEF Used
    <2>2. MonthOf(rows[r].fact) \in closed' \ closed
      BY <1>2, <2>1 DEF ClosedMonthsReviewed
    <2>3. r \in PendingIn(MonthOf(rows[r].fact))
      BY <1>2, <2>1 DEF PendingIn, RowsOf
    <2> QED
      BY <2>2, <2>3, ClosingStep
  <1>3. CASE Stored(r)
    BY <1>3 DEF Stored, NewPayment
  <1>4. ASSUME NEW new \in Reviews, ReviewedTo(r, new)
        PROVE  FALSE
    <2>1. rows'[r].fact = new.fact /\ closed' = closed
      BY <1>4 DEF ReviewedTo, Reviewed
    <2>2. MonthOf(new.fact) \notin closed
      BY <1>4 DEF ReviewedTo, Reviewable, OpenMonths, MonthsTouched
    <2> QED
      BY <2>1, <2>2
  <1>5. CASE PlanOnly(r)
    <2>1. r \in Used /\ rows[r] \in Payments /\ closed' = closed
      BY <1>5 DEF PlanOnly, TypeOK, Used
    <2>2. rows'[r].decision = rows[r].decision /\ rows'[r].fact = rows[r].fact
      BY <1>5, <2>1 DEF PlanOnly, Payments
    <2> QED
      BY <2>1, <2>2 DEF ClosedMonthsReviewed
  <1> QED
    BY <1>1, <1>2, <1>3, <1>4, <1>5, RowStep

\* Every step keeps the target of a confirmed transfer.
LEMMA TransfersGoElsewhereStep ==
    ASSUME TypeOK, AcceptedComplete, TransfersGoElsewhere, [Next]_vars
    PROVE  TransfersGoElsewhere'
  <1> SUFFICES ASSUME NEW r \in Used', rows'[r].decision = "transfer"
               PROVE  /\ rows'[r].transfer \in Accounts
                      /\ owner'[rows'[r].transfer] # None
                      /\ rows'[r].transfer # rows'[r].import[1]
    BY DEF TransfersGoElsewhere, OpenAccounts, AccountOf
  <1>1. r \in RowIds /\ rows'[r] # None
    BY DEF Used
  <1>2. CASE rows'[r] = rows[r]
    <2> DEFINE a == rows[r].transfer
    <2>1. r \in Used
      BY <1>1, <1>2 DEF Used
    <2>2. a \in OpenAccounts /\ a # rows[r].import[1]
      BY <1>2, <2>1 DEF TransfersGoElsewhere, AccountOf
    <2>3. a \in TransferTargets
      BY <2>1, <2>2, NoneIsNoValue DEF TransferTargets, OpenAccounts
    <2>4. owner'[a] = owner[a]
      BY <2>2, <2>3, AccountStep
    <2> QED
      BY <1>2, <2>2, <2>4 DEF OpenAccounts
  <1>3. CASE Stored(r)
    BY <1>3 DEF Stored, NewPayment
  <1>4. ASSUME NEW new \in Reviews, ReviewedTo(r, new)
        PROVE  /\ rows'[r].transfer \in Accounts
               /\ owner'[rows'[r].transfer] # None
               /\ rows'[r].transfer # rows'[r].import[1]
    <2>1. /\ rows'[r].transfer = new.transfer
          /\ rows'[r].import = rows[r].import
          /\ new.decision = "transfer"
          /\ owner' = owner
      BY <1>4 DEF ReviewedTo, Reviewed
    <2>2. ValidReferences(new, rows[r].import[1])
      BY <1>4 DEF ReviewedTo, Reviewable, AccountOf
    <2>3. new.transfer \notin {None, rows[r].import[1]} /\ owner[new.transfer] # None
      BY <2>1, <2>2 DEF ValidReferences, CompleteDecision, KnownReferences
    <2>4. new.transfer \in Accounts
      BY <2>3 DEF Reviews
    <2> QED
      BY <2>1, <2>3, <2>4
  <1>5. CASE PlanOnly(r)
    <2>1. r \in Used /\ rows[r] \in Payments /\ owner' = owner
      BY <1>5 DEF PlanOnly, TypeOK, Used
    <2>2. /\ rows'[r].decision = rows[r].decision
          /\ rows'[r].transfer = rows[r].transfer
          /\ rows'[r].import = rows[r].import
      BY <1>5, <2>1 DEF PlanOnly, Payments
    <2> QED
      BY <2>1, <2>2 DEF TransfersGoElsewhere, OpenAccounts, AccountOf
  <1> QED
    BY <1>1, <1>2, <1>3, <1>4, <1>5, RowStep

-----------------------------------------------------------------------------
(***************************************************************************)
(* Nothing that is still referred to goes away.                            *)
(***************************************************************************)

\* A statement goes only with all its payments.
LEMMA ImportStep ==
    ASSUME TypeOK, [Next]_vars, NEW r \in Used, rows[r].import \in imports,
           rows'[r] = rows[r]
    PROVE  rows[r].import \in imports'
  <1>1. CASE SetUp \/ UNCHANGED vars
    BY <1>1 DEF SetUp, CreateMember, DeleteMember, CreateBankAccount,
                DeleteBankAccount, SetDefaultBankAccount
  <1>2. CASE Statements
    BY <1>2 DEF Statements, ReconcileBankImports, CreateBankImports, StoreLines,
                DiscardBankImport, Used
  <1>3. CASE Review
    BY <1>3 DEF Review, ReviewBankTransaction, ReviewBankBatch, CloseMonth, ReopenMonth
  <1>4. CASE Catalog
    BY <1>4 DEF Catalog, CreateCategory, UpdateCategory, DeleteCategory, CreateBooking,
                SaveBooking, DeleteBooking, CreatePlanFromPayment, ResetBookings, Used
  <1> QED
    BY <1>1, <1>2, <1>3, <1>4 DEF Next

\* A category goes only when no plan and no payment uses it.
LEMMA CategoryStep ==
    ASSUME TypeOK, [Next]_vars, NEW c \in Categories, categories[c] # None
    PROVE  categories'[c] # None \/ ~CategoryUsed(c)
  <1> USE DEF TypeOK
  <1>1. CASE SetUp \/ UNCHANGED vars
    BY <1>1 DEF SetUp, CreateMember, DeleteMember, CreateBankAccount,
                DeleteBankAccount, SetDefaultBankAccount
  <1>2. CASE Statements
    BY <1>2 DEF Statements, ReconcileBankImports, CreateBankImports, StoreLines,
                DiscardBankImport
  <1>3. CASE Review
    BY <1>3 DEF Review, ReviewBankTransaction, ReviewBankBatch, CloseMonth, ReopenMonth
  <1>4. CASE Catalog
    <2>1. ASSUME NEW b \in Categories, NEW d \in Directions,
                 CreateCategory(b, d) \/ UpdateCategory(b, d)
          PROVE  categories'[c] # None
      BY <2>1, NoneIsNoValue DEF CreateCategory, UpdateCategory
    <2>2. ASSUME NEW b \in Categories, DeleteCategory(b)
          PROVE  categories'[c] # None \/ ~CategoryUsed(c)
      BY <2>2 DEF DeleteCategory
    <2>3. CASE categories' = categories
      BY <2>3
    <2> QED
      BY <1>4, <2>1, <2>2, <2>3 DEF Catalog, CreateBooking, SaveBooking, DeleteBooking,
                CreatePlanFromPayment, ResetBookings
  <1> QED
    BY <1>1, <1>2, <1>3, <1>4 DEF Next

\* A plan goes only when its payments lose their link to it.
LEMMA PlanStep ==
    ASSUME TypeOK, AcceptedComplete, [Next]_vars, NEW p \in Plans, plans[p] # None,
           NEW r \in Used, rows'[r] = rows[r], rows[r].plan = p
    PROVE  plans'[p] # None
  <1>1. CASE SetUp \/ UNCHANGED vars
    BY <1>1 DEF SetUp, CreateMember, DeleteMember, CreateBankAccount,
                DeleteBankAccount, SetDefaultBankAccount
  <1>2. CASE Statements
    BY <1>2 DEF Statements, ReconcileBankImports, CreateBankImports, StoreLines,
                DiscardBankImport
  <1>3. CASE Review
    BY <1>3 DEF Review, ReviewBankTransaction, ReviewBankBatch, CloseMonth, ReopenMonth
  <1>4. CASE Catalog
    <2>1. ASSUME NEW q \in Plans, NEW d \in Directions, NEW c \in Categories,
                 CreateBooking(q, d, c) \/ SaveBooking(q, d, c)
          PROVE  plans'[p] # None
      <3>1. Plan(d, c) # None
        BY NoneIsNoValue DEF Plan
      <3> QED
        BY <2>1, <3>1 DEF CreateBooking, SaveBooking, TypeOK
    <2>2. ASSUME NEW q \in Plans, DeleteBooking(q)
          PROVE  plans'[p] # None
      <3>1. CASE q = p
        <4>1. rows'[r] = [rows[r] EXCEPT !.plan = None]
          BY <2>2, <3>1 DEF DeleteBooking, Unlinked, Used
        <4>2. rows'[r].plan = None
          BY <4>1 DEF TypeOK, Used, Payments
        <4> QED
          BY <4>2, NoneIsNoValue
      <3>2. CASE q # p
        BY <2>2, <3>2 DEF DeleteBooking, TypeOK
      <3> QED
        BY <3>1, <3>2
    <2>3. ASSUME NEW t \in RowIds, NEW q \in Plans, CreatePlanFromPayment(t, q)
          PROVE  plans'[p] # None
      BY <2>3 DEF CreatePlanFromPayment, TypeOK
    <2>4. CASE ResetBookings
      BY <2>4 DEF ResetBookings, Used
    <2>5. CASE plans' = plans
      BY <2>5
    <2> QED
      BY <1>4, <2>1, <2>2, <2>3, <2>4, <2>5
      DEF Catalog, CreateCategory, UpdateCategory, DeleteCategory
  <1> QED
    BY <1>1, <1>2, <1>3, <1>4 DEF Next

\* A member goes only with all accounts, and when no payment is shared with
\* them.
LEMMA MemberStep ==
    ASSUME TypeOK, [Next]_vars, NEW m \in members
    PROVE  m \in members' \/ (~HoldsSplit(m) /\ \A a \in Accounts : owner'[a] # m)
  <1>1. ASSUME NEW k \in Members, DeleteMember(k)
        PROVE  m \in members' \/ (~HoldsSplit(m) /\ \A a \in Accounts : owner'[a] # m)
    BY <1>1, NoneIsNoValue DEF DeleteMember, TypeOK
  <1>2. CASE members \subseteq members'
    BY <1>2
  <1>3. CASE SetUp \/ UNCHANGED vars
    BY <1>1, <1>2, <1>3 DEF SetUp, CreateMember, CreateBankAccount,
                DeleteBankAccount, SetDefaultBankAccount
  <1>4. CASE Statements
    BY <1>2, <1>4 DEF Statements, ReconcileBankImports, CreateBankImports, StoreLines,
                DiscardBankImport
  <1>5. CASE Review
    BY <1>2, <1>5 DEF Review, ReviewBankTransaction, ReviewBankBatch, CloseMonth, ReopenMonth
  <1>6. CASE Catalog
    BY <1>2, <1>6 DEF Catalog, CreateCategory, UpdateCategory, DeleteCategory, CreateBooking,
                SaveBooking, DeleteBooking, CreatePlanFromPayment, ResetBookings
  <1> QED
    BY <1>3, <1>4, <1>5, <1>6 DEF Next

\* Every step keeps what the payments refer to.
LEMMA PaymentReferencesExistStep ==
    ASSUME TypeOK, AcceptedComplete, PaymentReferencesExist, [Next]_vars
    PROVE  PaymentReferencesExist'
  <1> SUFFICES ASSUME NEW r \in Used'
               PROVE  /\ rows'[r].import \in imports'
                      /\ rows'[r].category # None => categories'[rows'[r].category] # None
                      /\ rows'[r].plan # None => plans'[rows'[r].plan] # None
                      /\ rows'[r].transfer # None => owner'[rows'[r].transfer] # None
                      /\ Sharers(rows'[r].splits) \subseteq members'
    BY DEF PaymentReferencesExist
  <1>1. r \in RowIds /\ rows'[r] # None
    BY DEF Used
  <1>2. CASE rows'[r] = rows[r]
    <2>1. r \in Used /\ rows[r] \in Payments
      BY <1>1, <1>2 DEF Used, TypeOK
    <2>2. rows[r].import \in imports'
      BY <1>2, <2>1, ImportStep DEF PaymentReferencesExist
    <2>3. rows[r].category # None => categories'[rows[r].category] # None
      BY <2>1, CategoryStep DEF PaymentReferencesExist, CategoryUsed, Payments
    <2>4. rows[r].plan # None => plans'[rows[r].plan] # None
      BY <1>2, <2>1, PlanStep DEF PaymentReferencesExist, Payments
    <2>5. rows[r].transfer # None => owner'[rows[r].transfer] # None
      <3> SUFFICES ASSUME rows[r].transfer # None
                   PROVE  owner'[rows[r].transfer] # None
        OBVIOUS
      <3>1. rows[r].transfer \in OpenAccounts
        BY <2>1 DEF PaymentReferencesExist, OpenAccounts, Payments
      <3>2. rows[r].transfer \in TransferTargets
        BY <2>1 DEF TransferTargets
      <3> QED
        BY <3>1, <3>2, AccountStep DEF OpenAccounts
    <2>6. Sharers(rows[r].splits) \subseteq members'
      BY <2>1, MemberStep DEF PaymentReferencesExist, HoldsSplit
    <2> QED
      BY <1>2, <2>2, <2>3, <2>4, <2>5, <2>6
  <1>3. CASE Stored(r)
    <2>1. PICK lines \in Uploads, d \in Digests : \E i \in DOMAIN lines :
            /\ rows'[r] = NewPayment(lines[i], d)
            /\ ValidReferences(NewPayment(lines[i], d), lines[i].account)
            /\ imports \cup {<<lines[i].account, d>>} \subseteq imports'
            /\ UNCHANGED <<setup, catalog, closed>>
      BY <1>3 DEF Stored
    <2>2. Sharers(NoSplits) = {}
      BY DEF Sharers, NoSplits
    <2>3. rows'[r].import \in imports' /\ rows'[r].splits = NoSplits
      BY <2>1 DEF NewPayment
    <2>4. KnownReferences(rows'[r])
      BY <2>1 DEF ValidReferences
    <2> QED
      BY <2>1, <2>2, <2>3, <2>4 DEF KnownReferences
  <1>4. ASSUME NEW new \in Reviews, ReviewedTo(r, new)
        PROVE  /\ rows'[r].import \in imports'
               /\ rows'[r].category # None => categories'[rows'[r].category] # None
               /\ rows'[r].plan # None => plans'[rows'[r].plan] # None
               /\ rows'[r].transfer # None => owner'[rows'[r].transfer] # None
               /\ Sharers(rows'[r].splits) \subseteq members'
    <2>1. r \in Used /\ rows'[r] = Reviewed(r, new)
      BY <1>4 DEF ReviewedTo
    <2>2. rows'[r].import \in imports'
      BY <1>4, <2>1 DEF ReviewedTo, Reviewed, PaymentReferencesExist
    <2>3. KnownReferences(new)
      BY <1>4 DEF ReviewedTo, Reviewable, ValidReferences
    <2>4. Sharers(StoredSplits(new)) \subseteq members
      BY <1>4 DEF ReviewedTo, Reviewable, ValidAllocation, StoredSplits, Sharers, NoSplits
    <2> QED
      BY <1>4, <2>1, <2>2, <2>3, <2>4 DEF ReviewedTo, Reviewed, KnownReferences
  <1>5. CASE PlanOnly(r)
    <2>1. r \in Used /\ rows[r] \in Payments
      BY <1>5 DEF PlanOnly, TypeOK, Used
    <2>2. /\ rows'[r].import = rows[r].import
          /\ rows'[r].category = rows[r].category
          /\ rows'[r].transfer = rows[r].transfer
          /\ rows'[r].splits = rows[r].splits
      BY <1>5, <2>1 DEF PlanOnly, Payments
    <2>3. rows'[r].plan # None => plans'[rows'[r].plan] # None
      BY <1>5, <2>1 DEF PlanOnly, Payments
    <2> QED
      BY <1>5, <2>1, <2>2, <2>3 DEF PlanOnly, PaymentReferencesExist
  <1> QED
    BY <1>1, <1>2, <1>3, <1>4, <1>5, RowStep

\* Every step keeps what statements, accounts and plans refer to.
LEMMA SetupReferencesExistStep ==
    ASSUME TypeOK, AcceptedComplete, ReferencesExist, [Next]_vars
    PROVE  SetupReferencesExist'
  <1> USE DEF ReferencesExist
  <1>1. ASSUME NEW i \in imports', i \in imports
        PROVE  owner'[i[1]] # None
    <2>1. i[1] \in OpenAccounts
      BY <1>1 DEF SetupReferencesExist, OpenAccounts, TypeOK, Imports
    <2>2. ImportsOf(i[1]) # {}
      BY <1>1 DEF ImportsOf
    <2> QED
      BY <2>1, <2>2, AccountStep DEF OpenAccounts
  <1>2. ASSUME NEW lines \in Uploads, NEW d \in Digests, NEW stored \in SUBSET DOMAIN lines,
               AccountsOf(lines) \subseteq OpenAccounts, StoreLines(lines, stored, d),
               NEW i \in imports' \ imports
        PROVE  owner'[i[1]] # None
    BY <1>2 DEF StoreLines, AccountsOf, OpenAccounts
  <1>3. \A i \in imports' : owner'[i[1]] # None
    <2>1. ASSUME NEW lines \in Uploads, NEW d \in Digests, NEW i \in imports' \ imports,
                 ReconcileBankImports(lines, d) \/ CreateBankImports(lines, d)
          PROVE  owner'[i[1]] # None
      <3>1. NewLines(lines) \subseteq DOMAIN lines
        BY DEF NewLines, LinesFor
      <3> QED
        BY <2>1, <3>1, <1>2 DEF ReconcileBankImports, CreateBankImports
    <2>2. ASSUME NEW i \in Imports, DiscardBankImport(i)
          PROVE  imports' \subseteq imports
      BY <2>2 DEF DiscardBankImport
    <2>3. CASE imports' \subseteq imports
      BY <1>1, <2>3
    <2>4. CASE SetUp \/ UNCHANGED vars
      BY <2>3, <2>4 DEF SetUp, CreateMember, DeleteMember, CreateBankAccount,
                DeleteBankAccount, SetDefaultBankAccount
    <2>5. CASE Statements
      BY <1>1, <2>1, <2>2, <2>3, <2>5 DEF Statements
    <2>6. CASE Review
      BY <2>3, <2>6 DEF Review, ReviewBankTransaction, ReviewBankBatch, CloseMonth, ReopenMonth
    <2>7. CASE Catalog
      BY <2>3, <2>7 DEF Catalog, CreateCategory, UpdateCategory, DeleteCategory, CreateBooking,
                SaveBooking, DeleteBooking, CreatePlanFromPayment, ResetBookings
    <2> QED
      BY <2>4, <2>5, <2>6, <2>7 DEF Next
  <1>4. \A a \in Accounts : owner'[a] # None => owner'[a] \in members'
    <2> USE DEF TypeOK, SetupReferencesExist, OpenAccounts
    <2>1. ASSUME NEW m \in Members, NEW b \in Accounts,
                 CreateMember(m, b) \/ CreateBankAccount(m, b)
          PROVE  \A a \in Accounts : owner'[a] # None => owner'[a] \in members'
      BY <2>1 DEF CreateMember, CreateBankAccount
    <2>2. ASSUME NEW b \in Accounts, DeleteBankAccount(b)
          PROVE  \A a \in Accounts : owner'[a] # None => owner'[a] \in members'
      BY <2>2 DEF DeleteBankAccount
    <2>3. ASSUME NEW m \in Members, DeleteMember(m)
          PROVE  \A a \in Accounts : owner'[a] # None => owner'[a] \in members'
      BY <2>3 DEF DeleteMember
    <2>4. CASE owner' = owner /\ members' = members
      BY <2>4
    <2>5. CASE SetUp
      BY <2>1, <2>2, <2>3, <2>4, <2>5 DEF SetUp, SetDefaultBankAccount
    <2>6. CASE Statements
      BY <2>4, <2>6 DEF Statements, ReconcileBankImports, CreateBankImports, StoreLines,
                DiscardBankImport
    <2>7. CASE Review
      BY <2>4, <2>7 DEF Review, ReviewBankTransaction, ReviewBankBatch, CloseMonth, ReopenMonth
    <2>8. CASE Catalog
      BY <2>4, <2>8 DEF Catalog, CreateCategory, UpdateCategory, DeleteCategory, CreateBooking,
                SaveBooking, DeleteBooking, CreatePlanFromPayment, ResetBookings
    <2> QED
      BY <2>4, <2>5, <2>6, <2>7, <2>8 DEF Next
  <1>5. ASSUME NEW p \in Plans, plans'[p] # None
        PROVE  categories'[plans'[p].category] # None
    <2>1. CASE plans'[p] = plans[p]
      BY <1>5, <2>1, CategoryStep DEF SetupReferencesExist, CategoryUsed, UsedByPlan, TypeOK
    <2>2. ASSUME NEW q \in Plans, NEW d \in Directions, NEW c \in Categories,
                 CreateBooking(q, d, c) \/ SaveBooking(q, d, c)
          PROVE  categories'[plans'[p].category] # None
      <3>1. CASE p = q
        BY <2>2, <3>1 DEF CreateBooking, SaveBooking, Plan, TypeOK
      <3>2. CASE p # q
        BY <2>1, <2>2, <3>2 DEF CreateBooking, SaveBooking, TypeOK
      <3> QED
        BY <3>1, <3>2
    <2>3. ASSUME NEW q \in Plans, DeleteBooking(q)
          PROVE  plans'[p] = plans[p]
      BY <1>5, <2>3 DEF DeleteBooking, TypeOK
    <2>4. ASSUME NEW t \in RowIds, NEW q \in Plans, CreatePlanFromPayment(t, q)
          PROVE  categories'[plans'[p].category] # None
      <3>1. CASE p = q
        <4>1. plans'[p].category = rows[t].category /\ categories' = categories
          BY <2>4, <3>1 DEF CreatePlanFromPayment, Plan, TypeOK
        <4>2. rows[t].category # None
          BY <2>4 DEF CreatePlanFromPayment, AcceptedComplete
        <4> QED
          BY <2>4, <4>1, <4>2 DEF CreatePlanFromPayment, PaymentReferencesExist
      <3>2. CASE p # q
        BY <2>1, <2>4, <3>2 DEF CreatePlanFromPayment, TypeOK
      <3> QED
        BY <3>1, <3>2
    <2>5. CASE ResetBookings
      BY <1>5, <2>5 DEF ResetBookings
    <2>6. CASE SetUp \/ UNCHANGED vars
      BY <2>1, <2>6 DEF SetUp, CreateMember, DeleteMember, CreateBankAccount,
                DeleteBankAccount, SetDefaultBankAccount
    <2>7. CASE Statements
      BY <2>1, <2>7 DEF Statements, ReconcileBankImports, CreateBankImports, StoreLines,
                DiscardBankImport
    <2>8. CASE Review
      BY <2>1, <2>8 DEF Review, ReviewBankTransaction, ReviewBankBatch, CloseMonth, ReopenMonth
    <2>9. CASE Catalog
      BY <2>1, <2>2, <2>3, <2>4, <2>5, <2>9
      DEF Catalog, CreateCategory, UpdateCategory, DeleteCategory
    <2> QED
      BY <2>6, <2>7, <2>8, <2>9 DEF Next
  <1> QED
    BY <1>3, <1>4, <1>5 DEF SetupReferencesExist, OpenAccounts

\* Every step keeps one default account for every member.
LEMMA OneDefaultAccountStep ==
    ASSUME TypeOK, SetupReferencesExist, OneDefaultAccount, [Next]_vars
    PROVE  OneDefaultAccount'
  <1> USE DEF TypeOK, OneDefaultAccount, OpenAccounts, OwnedBy
  <1>1. ASSUME NEW m \in Members, NEW a \in Accounts, CreateMember(m, a)
        PROVE  OneDefaultAccount'
    <2>1. default' \subseteq OpenAccounts'
      BY <1>1, NoneIsNoValue DEF CreateMember
    <2>2. OwnedBy(m)' = {a}
      BY <1>1, NoneIsNoValue DEF CreateMember, SetupReferencesExist
    <2>3. \A k \in members : OwnedBy(k)' \cap default' = OwnedBy(k) \cap default
      BY <1>1 DEF CreateMember
    <2>4. OwnedBy(m)' \cap default' = {a}
      BY <1>1, <2>2 DEF CreateMember
    <2>5. members' = members \cup {m}
      BY <1>1 DEF CreateMember
    <2> QED
      BY <2>1, <2>3, <2>4, <2>5
  <1>2. ASSUME NEW m \in Members, DeleteMember(m)
        PROVE  OneDefaultAccount'
    <2>1. \A k \in members \ {m} : OwnedBy(k)' \cap default' = OwnedBy(k) \cap default
      BY <1>2, NoneIsNoValue DEF DeleteMember
    <2>2. default' \subseteq OpenAccounts' /\ members' = members \ {m}
      BY <1>2, NoneIsNoValue DEF DeleteMember
    <2> QED
      BY <2>1, <2>2
  <1>3. ASSUME NEW m \in Members, NEW a \in Accounts, CreateBankAccount(m, a)
        PROVE  OneDefaultAccount'
    <2>1. m \in members /\ a \notin default /\ members' = members
      BY <1>3 DEF CreateBankAccount
    <2>2. default' = default
      BY <1>3, <2>1 DEF CreateBankAccount, WithDefault
    <2>3. owner' = [owner EXCEPT ![a] = m]
      BY <1>3 DEF CreateBankAccount
    <2>4. \A k \in members : OwnedBy(k)' \cap default' = OwnedBy(k) \cap default
      BY <2>1, <2>2, <2>3
    <2>5. default' \subseteq OpenAccounts'
      BY <2>1, <2>2, <2>3
    <2> QED
      BY <2>1, <2>4, <2>5
  <1>4. ASSUME NEW a \in Accounts, DeleteBankAccount(a)
        PROVE  OneDefaultAccount'
    <2>1. \A k \in members : OwnedBy(k)' \cap default' = OwnedBy(k) \cap default
      BY <1>4, NoneIsNoValue DEF DeleteBankAccount, Removable
    <2>2. default' \subseteq OpenAccounts' /\ members' = members
      BY <1>4 DEF DeleteBankAccount, Removable
    <2> QED
      BY <2>1, <2>2
  <1>5. ASSUME NEW a \in Accounts, SetDefaultBankAccount(a)
        PROVE  OneDefaultAccount'
    <2>1. owner' = owner /\ members' = members /\ owner[a] # None
      BY <1>5 DEF SetDefaultBankAccount
    <2>2. default' = (default \ OwnedBy(owner[a])) \cup {a}
      BY <1>5 DEF SetDefaultBankAccount
    <2>3. OwnedBy(owner[a])' \cap default' = {a}
      BY <2>1, <2>2
    <2>4. \A k \in members \ {owner[a]} : OwnedBy(k)' \cap default' = OwnedBy(k) \cap default
      BY <2>1, <2>2
    <2>5. default' \subseteq OpenAccounts'
      BY <2>1, <2>2
    <2> QED
      BY <2>1, <2>3, <2>4, <2>5
  <1>6. CASE UNCHANGED setup
    BY <1>6
  <1>7. CASE SetUp
    BY <1>1, <1>2, <1>3, <1>4, <1>5, <1>7 DEF SetUp
  <1>8. CASE Statements
    BY <1>6, <1>8 DEF Statements, ReconcileBankImports, CreateBankImports, StoreLines,
                DiscardBankImport
  <1>9. CASE Review
    BY <1>6, <1>9 DEF Review, ReviewBankTransaction, ReviewBankBatch, CloseMonth, ReopenMonth
  <1>10. CASE Catalog
    BY <1>6, <1>10 DEF Catalog, CreateCategory, UpdateCategory, DeleteCategory, CreateBooking,
                SaveBooking, DeleteBooking, CreatePlanFromPayment, ResetBookings
  <1> QED
    BY <1>6, <1>7, <1>8, <1>9, <1>10 DEF Next

-----------------------------------------------------------------------------
(***************************************************************************)
(* Duplicates.  A payment accepted in this step has no accepted twin but   *)
(* a confirmed one; every other accepted payment stood before and keeps    *)
(* its confirmation.                                                       *)
(***************************************************************************)
AcceptedBefore(r) ==
    /\ r \in Used
    /\ rows[r].decision = "accepted"
    /\ rows'[r].fact = rows[r].fact
    /\ rows'[r].import = rows[r].import
    /\ r \in confirmed => r \in confirmed'

AcceptedNow(r) ==
    \/ r \in confirmed'
    \/ /\ rows'[r].import = rows[r].import
       /\ r \in Used
       /\ AcceptedTwins(r, rows'[r].fact) = {}

\* A row accepted after a step was accepted before with the same identity, or
\* was accepted by a review that found no twin or was told to ignore it.
LEMMA AcceptingStep ==
    ASSUME TypeOK, AcceptedComplete, [Next]_vars, NEW r \in Used',
           rows'[r].decision = "accepted"
    PROVE  AcceptedBefore(r) \/ (Review /\ AcceptedNow(r))
  <1>1. r \in RowIds /\ rows'[r] # None
    BY DEF Used
  <1>2. CASE SetUp \/ UNCHANGED vars
    BY <1>1, <1>2 DEF SetUp, CreateMember, DeleteMember, CreateBankAccount,
                DeleteBankAccount, SetDefaultBankAccount, AcceptedBefore, Used
  <1>3. CASE Statements
    <2>1. confirmed' = confirmed
      BY <1>3 DEF Statements, ReconcileBankImports, CreateBankImports, StoreLines,
                DiscardBankImport
    <2>2. rows'[r] = rows[r] \/ Stored(r)
      <3>1. ASSUME NEW lines \in Uploads, NEW d \in Digests,
                   ReconcileBankImports(lines, d) \/ CreateBankImports(lines, d)
            PROVE  rows'[r] = rows[r] \/ Stored(r)
        <4>1. NewLines(lines) \subseteq DOMAIN lines
          BY DEF NewLines, LinesFor
        <4> QED
          BY <1>1, <3>1, <4>1, StoreLinesRows DEF ReconcileBankImports, CreateBankImports
      <3>2. ASSUME NEW i \in Imports, DiscardBankImport(i)
            PROVE  rows'[r] = rows[r]
        BY <1>1, <3>2 DEF DiscardBankImport
      <3> QED
        BY <1>3, <3>1, <3>2 DEF Statements
    <2>3. ~Stored(r)
      <3>1. Stored(r) => rows'[r].decision = "pending"
        BY DEF Stored, NewPayment
      <3> QED
        BY <3>1
    <2> QED
      BY <1>1, <2>1, <2>2, <2>3 DEF AcceptedBefore, Used
  <1>4. CASE Review
    <2>1. ASSUME NEW t \in RowIds, NEW new \in Inputs, NEW allow \in BOOLEAN,
                 ReviewBankTransaction(t, new, allow)
          PROVE  AcceptedBefore(r) \/ AcceptedNow(r)
      <3>1. rows' = [rows EXCEPT ![t] = Reviewed(t, new)]
        BY <2>1 DEF ReviewBankTransaction
      <3>2. CASE r = t
        <4>1. rows'[r] = Reviewed(r, new)
          BY <3>1, <3>2 DEF TypeOK
        <4>2. /\ new.decision = "accepted"
              /\ rows'[r].fact = new.fact
              /\ rows'[r].import = rows[r].import
          BY <4>1 DEF Reviewed
        <4>3. CASE allow
          BY <2>1, <3>2, <4>2, <4>3 DEF ReviewBankTransaction, AcceptedNow
        <4>4. CASE ~allow
          BY <2>1, <3>2, <4>2, <4>4 DEF ReviewBankTransaction, AcceptedNow
        <4> QED
          BY <4>3, <4>4
      <3>3. CASE r # t
        <4>1. rows'[r] = rows[r]
          BY <3>1, <3>3, <1>1 DEF TypeOK
        <4>2. r \in confirmed => r \in confirmed'
          BY <2>1, <3>3 DEF ReviewBankTransaction
        <4> QED
          BY <1>1, <4>1, <4>2 DEF AcceptedBefore, Used
      <3> QED
        BY <3>2, <3>3
    <2>2. ASSUME NEW batch \in SUBSET Used, NEW new \in [batch -> BatchInputs],
                 ReviewBankBatch(new)
          PROVE  AcceptedBefore(r) \/ AcceptedNow(r)
      <3>1. rows' = [t \in RowIds |-> IF t \in batch THEN Reviewed(t, new[t]) ELSE rows[t]]
        BY <2>2 DEF ReviewBankBatch
      <3>2. CASE r \in batch
        <4>1. rows'[r] = Reviewed(r, new[r])
          BY <1>1, <3>1, <3>2
        <4>2. /\ new[r].decision = "accepted"
              /\ rows'[r].fact = new[r].fact
              /\ rows'[r].import = rows[r].import
          BY <4>1 DEF Reviewed
        <4> QED
          BY <2>2, <3>2, <4>2 DEF ReviewBankBatch, AcceptedNow
      <3>3. CASE r \notin batch
        <4>1. rows'[r] = rows[r]
          BY <1>1, <3>1, <3>3
        <4>2. r \in confirmed => r \in confirmed'
          BY <2>2, <3>3 DEF ReviewBankBatch
        <4> QED
          BY <1>1, <4>1, <4>2 DEF AcceptedBefore, Used
      <3> QED
        BY <3>2, <3>3
    <2>3. ASSUME NEW month \in Months, CloseMonth(month) \/ ReopenMonth(month)
          PROVE  AcceptedBefore(r)
      BY <1>1, <2>3 DEF CloseMonth, ReopenMonth, AcceptedBefore, Used
    <2> QED
      BY <1>4, <2>1, <2>2, <2>3 DEF Review
  <1>5. CASE Catalog
    <2>1. CASE rows' = rows /\ confirmed' = confirmed
      BY <1>1, <2>1 DEF AcceptedBefore, Used
    <2>2. ASSUME NEW p \in Plans, NEW t \in RowIds,
                 DeleteBooking(p) \/ CreatePlanFromPayment(t, p)
          PROVE  AcceptedBefore(r)
      <3>1. /\ rows'[r] # None
            /\ rows'[r] = rows[r] \/ \E q \in Plans \cup {None} :
                                        r \in Used /\ rows'[r] = [rows[r] EXCEPT !.plan = q]
        <4>1. CASE DeleteBooking(p)
          BY <1>1, <4>1 DEF DeleteBooking, Unlinked
        <4>2. CASE CreatePlanFromPayment(t, p)
          <5>1. rows' = [rows EXCEPT ![t] = [rows[t] EXCEPT !.plan = p]]
            BY <4>2 DEF CreatePlanFromPayment
          <5> QED
            BY <1>1, <4>2, <5>1 DEF CreatePlanFromPayment, TypeOK
        <4> QED
          BY <2>2, <4>1, <4>2
      <3>2. r \in Used /\ rows[r] \in Payments
        BY <1>1, <3>1 DEF Used, TypeOK
      <3>3. /\ rows'[r].decision = rows[r].decision
            /\ rows'[r].fact = rows[r].fact
            /\ rows'[r].import = rows[r].import
        BY <3>1, <3>2 DEF Payments
      <3> QED
        BY <2>2, <3>2, <3>3 DEF AcceptedBefore, DeleteBooking, CreatePlanFromPayment
    <2>3. CASE ResetBookings
      BY <1>1, <2>3 DEF ResetBookings
    <2>4. ASSUME NEW p \in Plans, DeleteBooking(p)
          PROVE  AcceptedBefore(r)
      BY <1>1, <2>2, <2>4
    <2> QED
      BY <1>5, <2>1, <2>2, <2>3, <2>4
      DEF Catalog, CreateCategory, UpdateCategory, DeleteCategory, CreateBooking, SaveBooking
  <1> QED
    BY <1>2, <1>3, <1>4, <1>5 DEF Next

\* Two payments accepted in the same step, in a batch, are not twins.
LEMMA AcceptingTogether ==
    ASSUME TypeOK, Review, NEW r \in Used', NEW t \in Used', r # t,
           rows'[r].decision = "accepted", rows'[t].decision = "accepted",
           rows'[r].import[1] = rows'[t].import[1],
           Fingerprint(rows'[r].fact) = Fingerprint(rows'[t].fact)
    PROVE  AcceptedBefore(r) \/ AcceptedBefore(t)
  <1>1. r \in RowIds /\ rows'[r] # None /\ t \in RowIds /\ rows'[t] # None
    BY DEF Used
  <1>2. ASSUME NEW s \in RowIds, NEW new \in Inputs, NEW allow \in BOOLEAN,
               ReviewBankTransaction(s, new, allow)
        PROVE  AcceptedBefore(r) \/ AcceptedBefore(t)
    <2>1. \A u \in RowIds \ {s} :
              rows'[u] = rows[u] /\ (u \in confirmed => u \in confirmed')
      BY <1>2 DEF ReviewBankTransaction, TypeOK
    <2> QED
      BY <1>1, <2>1 DEF AcceptedBefore, Used
  <1>3. ASSUME NEW batch \in SUBSET Used, NEW new \in [batch -> BatchInputs],
               ReviewBankBatch(new)
        PROVE  AcceptedBefore(r) \/ AcceptedBefore(t)
    <2>1. rows' = [u \in RowIds |-> IF u \in batch THEN Reviewed(u, new[u]) ELSE rows[u]]
      BY <1>3 DEF ReviewBankBatch
    <2>2. \A u \in RowIds \ batch :
              rows'[u] = rows[u] /\ (u \in confirmed => u \in confirmed')
      BY <1>3, <2>1 DEF ReviewBankBatch
    <2>3. CASE r \in batch /\ t \in batch
      <3>1. rows'[r] = Reviewed(r, new[r]) /\ rows'[t] = Reviewed(t, new[t])
        BY <1>1, <2>1, <2>3
      <3>2. /\ new[r].decision = "accepted" /\ new[t].decision = "accepted"
            /\ AccountOf(r) = AccountOf(t)
            /\ Fingerprint(new[r].fact) = Fingerprint(new[t].fact)
        BY <3>1 DEF Reviewed, AccountOf
      <3>3. NoTwins(new) /\ DOMAIN new = batch
        BY <1>3 DEF ReviewBankBatch
      <3> QED
        BY <2>3, <3>2, <3>3 DEF NoTwins
    <2>4. CASE r \notin batch \/ t \notin batch
      BY <1>1, <2>2, <2>4 DEF AcceptedBefore, Used
    <2> QED
      BY <2>3, <2>4
  <1>4. ASSUME NEW month \in Months, CloseMonth(month) \/ ReopenMonth(month)
        PROVE  AcceptedBefore(r)
    BY <1>1, <1>4 DEF CloseMonth, ReopenMonth, AcceptedBefore, Used
  <1> QED
    BY <1>2, <1>3, <1>4 DEF Review

\* A payment accepted before is a twin for one accepted now.
LEMMA AcceptingAgainst ==
    ASSUME TypeOK, NEW r \in Used', NEW t \in Used', r # t,
           rows'[r].import[1] = rows'[t].import[1],
           Fingerprint(rows'[r].fact) = Fingerprint(rows'[t].fact),
           AcceptedNow(r), AcceptedBefore(t)
    PROVE  r \in confirmed'
  <1> SUFFICES ASSUME AcceptedTwins(r, rows'[r].fact) = {}, r \in Used,
                      rows'[r].import = rows[r].import
               PROVE  FALSE
    BY DEF AcceptedNow
  <1>1. /\ t \in Used
        /\ rows[t].decision = "accepted"
        /\ rows'[t].fact = rows[t].fact
        /\ rows'[t].import = rows[t].import
    BY DEF AcceptedBefore
  <1>2. t \in RowsIn(AccountOf(r)) \ {r}
    BY <1>1 DEF RowsIn, AccountOf
  <1>3. t \in AcceptedTwins(r, rows'[r].fact)
    BY <1>1, <1>2 DEF AcceptedTwins
  <1> QED
    BY <1>3

\* Every step keeps equal accepted payments confirmed.
LEMMA NoSilentDuplicateStep ==
    ASSUME TypeOK, AcceptedComplete, NoSilentDuplicate, [Next]_vars
    PROVE  NoSilentDuplicate'
  <1> SUFFICES ASSUME NEW r \in Used', NEW t \in Used', r # t,
                      rows'[r].decision = "accepted", rows'[t].decision = "accepted",
                      rows'[r].import[1] = rows'[t].import[1],
                      Fingerprint(rows'[r].fact) = Fingerprint(rows'[t].fact)
               PROVE  r \in confirmed' \/ t \in confirmed'
    BY DEF NoSilentDuplicate, AccountOf
  <1>1. CASE AcceptedBefore(r) /\ AcceptedBefore(t)
    BY <1>1 DEF AcceptedBefore, NoSilentDuplicate, AccountOf
  <1>2. CASE AcceptedNow(r) /\ AcceptedBefore(t)
    BY <1>2, AcceptingAgainst
  <1>3. CASE AcceptedNow(t) /\ AcceptedBefore(r)
    BY <1>3, AcceptingAgainst
  <1>4. CASE Review /\ AcceptedNow(r) /\ AcceptedNow(t)
    BY <1>2, <1>3, <1>4, AcceptingTogether
  <1> QED
    BY <1>1, <1>2, <1>3, <1>4, AcceptingStep

-----------------------------------------------------------------------------
(***************************************************************************)
(* The history of a closed month.                                          *)
(***************************************************************************)

\* In a month that stays closed a payment stays, but for its plan.
LEMMA ClosedPaymentStays ==
    ASSUME TypeOK, AcceptedComplete, [Next]_vars, NEW month \in closed \cap closed',
           NEW r \in RowIds
    PROVE  /\ r \in RowsOf(month)' <=> r \in RowsOf(month)
           /\ r \in RowsOf(month) =>
                  [rows'[r] EXCEPT !.plan = None] = [rows[r] EXCEPT !.plan = None]
  <1>1. CASE rows'[r] = rows[r]
    BY <1>1 DEF RowsOf, Used
  <1>2. CASE rows'[r] = None
    <2>1. CASE r \in Used
      BY <1>2, <2>1, RemovalStep DEF RowsOf, Used
    <2>2. CASE r \notin Used
      BY <1>2, <2>2 DEF RowsOf, Used
    <2> QED
      BY <2>1, <2>2
  <1>3. CASE Stored(r)
    BY <1>3 DEF Stored, NewPayment, RowsOf, Used
  <1>4. ASSUME NEW new \in Reviews, ReviewedTo(r, new)
        PROVE  r \notin RowsOf(month) /\ r \notin RowsOf(month)'
    <2>1. rows'[r].fact = new.fact /\ r \in Used
      BY <1>4 DEF ReviewedTo, Reviewed
    <2>2. MonthOf(rows[r].fact) \notin closed /\ MonthOf(new.fact) \notin closed
      BY <1>4 DEF ReviewedTo, Reviewable, OpenMonths, MonthsTouched
    <2> QED
      BY <2>1, <2>2 DEF RowsOf
  <1>5. CASE PlanOnly(r)
    <2>1. r \in Used /\ rows[r] \in Payments
      BY <1>5 DEF PlanOnly, TypeOK, Used
    <2>2. PICK p \in Plans \cup {None} : rows'[r] = [rows[r] EXCEPT !.plan = p]
      BY <1>5 DEF PlanOnly
    <2>3. /\ rows'[r].fact = rows[r].fact
          /\ [rows'[r] EXCEPT !.plan = None] = [rows[r] EXCEPT !.plan = None]
      BY <2>1, <2>2 DEF Payments
    <2>4. rows'[r] # None
      BY <2>1, <2>2, NoneIsNoValue DEF Payments
    <2> QED
      BY <2>1, <2>3, <2>4 DEF RowsOf, Used
  <1> QED
    BY <1>1, <1>2, <1>3, <1>4, <1>5, RowStep

\* No step changes the payments of a month that stays closed.
LEMMA ClosedHistoryStep ==
    ASSUME TypeOK, AcceptedComplete, [Next]_vars, NEW month \in closed \cap closed'
    PROVE  History(month)' = History(month)
  <1>1. RowsOf(month) \subseteq RowIds /\ RowsOf(month)' \subseteq RowIds
    BY DEF RowsOf, Used
  <1>2. RowsOf(month)' = RowsOf(month)
    BY <1>1, ClosedPaymentStays
  <1>3. \A r \in RowsOf(month) :
            [rows'[r] EXCEPT !.plan = None] = [rows[r] EXCEPT !.plan = None]
    BY <1>1, ClosedPaymentStays
  <1> QED
    BY <1>2, <1>3 DEF History

-----------------------------------------------------------------------------
(***************************************************************************)
(* The inductive invariant: the invariants need each other.  A plan made   *)
(* from a payment has a category because an accepted payment has one, and  *)
(* that category exists because every reference does; a new member has     *)
(* one default account because an account in use has an owner.             *)
(***************************************************************************)
IInv ==
    /\ TypeOK
    /\ ClosedMonthsReviewed
    /\ AcceptedComplete
    /\ TransfersGoElsewhere
    /\ ReferencesExist
    /\ OneDefaultAccount
    /\ NoSilentDuplicate

\* The seeded household satisfies the invariant (CreateHouseholdSeeded).
LEMMA InitInvariant == Init => IInv
  <1> SUFFICES ASSUME Init PROVE IInv
    OBVIOUS
  <1>1. TypeOK
    BY InitType
  <1>2. Used = {}
    BY DEF Init, Used
  <1>3. SetupReferencesExist
    <2>1. \A a \in Accounts : owner[a] # None => owner[a] \in members
      BY DEF Init, Range
    <2> QED
      BY <2>1 DEF Init, SetupReferencesExist, OpenAccounts
  <1>4. OneDefaultAccount
    <2>1. \A m \in DOMAIN Seed : Seed[m] \in Accounts /\ owner[Seed[m]] = m
      <3> SUFFICES ASSUME NEW m \in DOMAIN Seed
                   PROVE  Seed[m] \in Accounts /\ owner[Seed[m]] = m
        OBVIOUS
      <3>1. Seed[m] \in Range(Seed)
        BY DEF Range
      <3>2. \A k \in DOMAIN Seed : Seed[k] = Seed[m] => k = m
        BY SeedIsTyped DEF IsInjective
      <3> QED
        BY <3>1, <3>2, SeedIsTyped DEF Init
    <2>2. \A a \in default : \E m \in DOMAIN Seed : a = Seed[m]
      BY DEF Init, Range
    <2>3. default \subseteq OpenAccounts
      BY <2>1, <2>2, NoneIsNoValue, SeedIsTyped DEF OpenAccounts
    <2>4. \A m \in members : OwnedBy(m) \cap default = {Seed[m]}
      <3> SUFFICES ASSUME NEW m \in DOMAIN Seed
                   PROVE  OwnedBy(m) \cap default = {Seed[m]}
        BY DEF Init
      <3>1. Seed[m] \in default
        BY DEF Init, Range
      <3>2. \A a \in default : owner[a] = m => a = Seed[m]
        BY <2>1, <2>2
      <3> QED
        BY <2>1, <3>1, <3>2 DEF OwnedBy
    <2> QED
      BY <2>1, <2>3, <2>4 DEF OneDefaultAccount, Init
  <1> QED
    BY <1>1, <1>2, <1>3, <1>4 DEF IInv, ClosedMonthsReviewed, AcceptedComplete,
          TransfersGoElsewhere, ReferencesExist, PaymentReferencesExist, NoSilentDuplicate

\* Every transaction of the store keeps the invariant.
LEMMA NextInvariant == IInv /\ [Next]_vars => IInv'
  <1> SUFFICES ASSUME IInv, [Next]_vars PROVE IInv'
    OBVIOUS
  <1> USE DEF IInv
  <1>1. TypeOK'
    <2>1. CASE UNCHANGED vars
      BY <2>1 DEF TypeOK
    <2> QED
      BY <2>1, SetUpType, StatementsType, ReviewType, CatalogType DEF Next
  <1>2. ReferencesExist'
    BY PaymentReferencesExistStep, SetupReferencesExistStep DEF ReferencesExist
  <1>3. OneDefaultAccount'
    BY OneDefaultAccountStep DEF ReferencesExist
  <1> QED
    BY <1>1, <1>2, <1>3, ClosedMonthsReviewedStep, AcceptedCompleteStep,
       TransfersGoElsewhereStep, NoSilentDuplicateStep

-----------------------------------------------------------------------------
(***************************************************************************)
(* The theorems.                                                           *)
(***************************************************************************)
LEMMA Invariance == Spec => []IInv
  BY InitInvariant, NextInvariant, PTL DEF Spec

\* The ledger only ever holds payments, accounts and plans of their types.
THEOREM TypeCorrect == Spec => []TypeOK
  <1>1. IInv => TypeOK
    BY DEF IInv
  <1> QED
    BY <1>1, Invariance, PTL

\* However uploads, reviews, reopenings and closings interleave, a closed month
\* holds no payment waiting for a decision (ensureOpenMonth, SetMonthReconciled).
THEOREM ClosedMonthsStayReviewed == Spec => []ClosedMonthsReviewed
  <1>1. IInv => ClosedMonthsReviewed
    BY DEF IInv
  <1> QED
    BY <1>1, Invariance, PTL

\* What is accepted always has a category and shares that add up
\* (ReviewBankTransaction, replaceBankAllocation).
THEOREM AcceptedStaysComplete == Spec => []AcceptedComplete
  <1>1. IInv => AcceptedComplete
    BY DEF IInv
  <1> QED
    BY <1>1, Invariance, PTL

\* A confirmed transfer never loses its target account and never points at the
\* account it was paid from (validateBankReferences, DeleteBankAccount,
\* DeleteMember).
THEOREM TransfersKeepTheirTarget == Spec => []TransfersGoElsewhere
  <1>1. IInv => TransfersGoElsewhere
    BY DEF IInv
  <1> QED
    BY <1>1, Invariance, PTL

\* Deleting members, accounts, categories, plans and statements never leaves a
\* dangling reference.
THEOREM ReferencesStayValid == Spec => []ReferencesExist
  <1>1. IInv => ReferencesExist
    BY DEF IInv
  <1> QED
    BY <1>1, Invariance, PTL

\* Every member has exactly one default account (ensureMemberBankAccount).
THEOREM DefaultAccountIsUnique == Spec => []OneDefaultAccount
  <1>1. IInv => OneDefaultAccount
    BY DEF IInv
  <1> QED
    BY <1>1, Invariance, PTL

\* No two equal payments of an account are accepted without the user's
\* confirmation, in single reviews and in batches (ReviewBankTransaction,
\* ReviewBankBatch).
THEOREM DuplicatesAreConfirmed == Spec => []NoSilentDuplicate
  <1>1. IInv => NoSilentDuplicate
    BY DEF IInv
  <1> QED
    BY <1>1, Invariance, PTL

\* No step adds, removes, corrects or re-decides a payment of a month that is
\* closed before and after it (ensureOpenMonth in every write to a payment).
THEOREM ClosedHistoryIsFrozen == Spec => ClosedHistoryFrozen
  <1>1. IInv /\ [Next]_vars =>
            [\A month \in closed \cap closed' : History(month)' = History(month)]_vars
    <2> SUFFICES ASSUME IInv, [Next]_vars, NEW month \in closed \cap closed'
                 PROVE  History(month)' = History(month)
      OBVIOUS
    <2> QED
      BY ClosedHistoryStep DEF IInv
  <1> QED
    BY <1>1, Invariance, PTL DEF Spec, ClosedHistoryFrozen

-----------------------------------------------------------------------------
(***************************************************************************)
(* The ledger implements ReviewBook: every transaction is a step of the    *)
(* book or leaves it alone.  What a row stands for in the book depends on  *)
(* the row and, once it is empty, on the counter.                          *)
(***************************************************************************)

\* A row left as it is keeps its place in the book.
LEMMA RowKeptInBook ==
    ASSUME NEW r \in RowIds, rows'[r] = rows[r],
           r \in Used \/ nextRow' = nextRow
    PROVE  Book!Keeps(r)
  <1>1. r \in Used' <=> r \in Used
    BY DEF Used
  <1>2. Standing(r)' = Standing(r)
    BY <1>1 DEF Standing
  <1>3. BookedIn(r)' = BookedIn(r) /\ CameFrom(r)' = CameFrom(r)
    BY <1>1 DEF BookedIn, CameFrom
  <1> QED
    BY <1>2, <1>3 DEF Book!Keeps

\* A transaction that writes neither payments nor months leaves the book alone.
LEMMA BookUntouched ==
    ASSUME rows' = rows, nextRow' = nextRow, closed' = closed
    PROVE  UNCHANGED Book!bookVars
  <1>1. \A r \in RowIds : Standing(r)' = Standing(r)
    BY DEF Standing, Used
  <1>2. \A r \in RowIds : BookedIn(r)' = BookedIn(r) /\ CameFrom(r)' = CameFrom(r)
    BY DEF BookedIn, CameFrom, Used
  <1> QED
    BY <1>1, <1>2 DEF Book!bookVars

\* AUTOINCREMENT hands out its next ids without a gap: increasing ids from an
\* interval as long as the statement take every id of it.
LEMMA EveryIdIsTaken ==
    ASSUME TypeOK, NEW lines \in Uploads, NEW stored \in SUBSET DOMAIN lines,
           NEW id \in NewIds(stored),
           NEW r \in nextRow..(nextRow + Cardinality(stored) - 1)
    PROVE  \E i \in stored : id[i] = r
  <1> DEFINE n == Cardinality(stored)
             last == nextRow + n - 1
  <1>1. n \in Nat /\ nextRow \in Int /\ last \in Int /\ stored \subseteq Int
    BY StoredFinite, BoundIsNatural DEF TypeOK
  <1>2. IsFiniteSet(nextRow..last) /\ Cardinality(nextRow..last) = n
    <2> HIDE DEF last
    <2>1. /\ IsFiniteSet(nextRow..last)
          /\ Cardinality(nextRow..last) = IF nextRow > last THEN 0 ELSE last - nextRow + 1
      BY <1>1, FS_Interval
    <2> QED
      BY <1>1, <2>1 DEF last
  <1>3. id \in [stored -> nextRow..last] /\ \A i, j \in stored : i < j => id[i] < id[j]
    BY DEF NewIds
  <1>4. \A i, j \in stored : id[i] = id[j] => i = j
    BY <1>1, <1>3
  <1>5. id \in Injection(stored, nextRow..last)
    BY <1>3, <1>4 DEF Injection, IsInjective
  <1>6. id \in Surjection(stored, nextRow..last)
    BY <1>2, <1>5, FS_Injection
  <1> QED
    BY <1>6 DEF Surjection

\* An upload enters payments and touches no other.
LEMMA StoreLinesEnters ==
    ASSUME TypeOK, NEW lines \in Uploads, NEW stored \in SUBSET DOMAIN lines,
           NEW d \in Digests, AccountsOf(lines) \subseteq OpenAccounts,
           StoreLines(lines, stored, d)
    PROVE  Book!EnterStatement /\ closed' = closed
  <1> USE StoredFinite
  <1> DEFINE n == Cardinality(stored)
  <1>1. PICK id \in NewIds(stored) :
            rows' = [t \in RowIds |->
                        IF \E i \in stored : id[i] = t
                        THEN NewPayment(lines[CHOOSE i \in stored : id[i] = t], d)
                        ELSE rows[t]]
    BY DEF StoreLines
  <1>2. nextRow' = nextRow + n /\ nextRow \in Nat /\ n \in Nat
    BY BoundIsNatural DEF StoreLines, TypeOK
  <1>3. ASSUME NEW r \in RowIds PROVE Book!Keeps(r) \/ Book!Enters(r)
    <2>1. CASE \E i \in stored : id[i] = r
      <3>1. r \in nextRow..(nextRow + n - 1) /\ rows[r] = None
        BY <1>1, <1>2, <2>1 DEF NewIds, TypeOK
      <3>2. rows'[r] # None
        <4>1. (CHOOSE i \in stored : id[i] = r) \in stored
          BY <2>1
        <4>2. rows'[r] \in Payments
          BY <1>1, <2>1, <4>1, NewPaymentType
        <4> QED
          BY <4>2, NoneIsNoValue
      <3>3. Stored(r)
        BY <3>1, <3>2, StoreLinesRows
      <3>4. Standing(r) = "new" /\ Standing(r)' = "pending"
        BY <1>2, <3>1, <3>2, <3>3 DEF Standing, Used, Stored, NewPayment
      <3>5. BookedIn(r)' \in Months \ closed /\ CameFrom(r)' \in Imports \X Fingerprints
        <4>1. PICK line \in Lines, e \in Digests : rows'[r] = NewPayment(line, e)
                      /\ MonthOf(line.fact) \notin closed
          BY <3>3 DEF Stored
        <4>2. rows'[r] \in Payments /\ line.fact \in Facts
          BY <4>1, NewPaymentType DEF Lines
        <4>3. BookedIn(r)' = MonthOf(line.fact)
          BY <3>2, <4>1 DEF BookedIn, Used, NewPayment
        <4>4. CameFrom(r)' = <<rows'[r].import, rows'[r].source>>
          BY <3>2 DEF CameFrom, Used
        <4> QED
          BY <4>1, <4>2, <4>3, <4>4, FactsHaveMonths DEF Payments
      <3> QED
        BY <3>4, <3>5, NoneIsNoValue DEF Book!Enters
    <2>2. CASE ~\E i \in stored : id[i] = r
      <3>1. rows'[r] = rows[r]
        BY <1>1, <2>2
      <3>2. CASE r \in Used
        BY <3>1, <3>2, RowKeptInBook
      <3>3. CASE r \notin Used
        <4>1. r \notin nextRow..(nextRow + n - 1)
          BY <2>2, EveryIdIsTaken
        <4>2. (r >= nextRow <=> r >= nextRow') /\ r \notin Used'
          BY <1>2, <3>1, <3>3, <4>1 DEF Used
        <4>3. Standing(r)' = Standing(r)
          BY <3>3, <4>2 DEF Standing
        <4>4. BookedIn(r)' = BookedIn(r) /\ CameFrom(r)' = CameFrom(r)
          BY <3>3, <4>2 DEF BookedIn, CameFrom
        <4> QED
          BY <4>3, <4>4 DEF Book!Keeps
      <3> QED
        BY <3>2, <3>3
    <2> QED
      BY <2>1, <2>2
  <1> QED
    BY <1>3 DEF Book!EnterStatement, StoreLines

\* A review rules on a pending payment or reopens a decided one.
LEMMA ReviewRules ==
    ASSUME TypeOK, NEW r \in RowIds, NEW new \in Reviews, ReviewedTo(r, new)
    PROVE  /\ rows[r].decision = "pending" => Book!IsRuled(r)
           /\ rows[r].decision # "pending" => Book!IsReopened(r)
  <1>1. r \in Used /\ rows[r] \in Payments /\ rows'[r] = Reviewed(r, new)
    BY DEF ReviewedTo, TypeOK, Used
  <1>2. r \in Used'
    BY <1>1, ReviewedType, NoneIsNoValue DEF Used
  <1>3. rows[r].decision \in Decisions /\ rows'[r].decision = new.decision
        /\ new.decision \in Decisions
    BY <1>1 DEF Payments, Reviewed, Reviews
  <1>4. BookedIn(r) \notin closed /\ BookedIn(r)' \notin closed
    <2>1. BookedIn(r) = MonthOf(rows[r].fact) /\ BookedIn(r)' = MonthOf(new.fact)
      BY <1>1, <1>2 DEF BookedIn, Reviewed
    <2> QED
      BY <2>1 DEF ReviewedTo, Reviewable, OpenMonths, MonthsTouched
  <1>5. CameFrom(r)' = CameFrom(r)
    BY <1>1, <1>2 DEF CameFrom, Reviewed
  <1>6. Standing(r)' \in {"pending", "accepted", "aside"}
    BY <1>2 DEF Standing
  <1>7. CASE rows[r].decision = "pending"
    <2>1. Standing(r) = "pending"
      BY <1>1, <1>7 DEF Standing
    <2> QED
      BY <1>4, <1>5, <1>6, <1>7, <2>1 DEF Book!IsRuled, Book!InOpenMonth
  <1>8. CASE rows[r].decision # "pending"
    <2>1. Standing(r) \in {"accepted", "aside"}
      BY <1>1, <1>8 DEF Standing
    <2>2. Standing(r)' = "pending"
      BY <1>2, <1>3, <1>8 DEF Standing, ReviewedTo, Reviewable, DecisionChange
    <2> QED
      BY <1>4, <1>5, <1>8, <2>1, <2>2 DEF Book!IsReopened, Book!InOpenMonth
  <1> QED
    BY <1>7, <1>8

\* Linking a payment to a plan, or unlinking it, keeps its place in the book.
LEMMA PlanKeepsBook ==
    ASSUME TypeOK, NEW r \in Used, NEW p \in Plans \cup {None},
           rows'[r] = [rows[r] EXCEPT !.plan = p]
    PROVE  Book!Keeps(r)
  <1>1. r \in RowIds /\ rows[r] \in Payments
    BY DEF TypeOK, Used
  <1>2. /\ rows'[r] \in Payments
        /\ rows'[r].decision = rows[r].decision
        /\ rows'[r].fact = rows[r].fact
        /\ rows'[r].import = rows[r].import
        /\ rows'[r].source = rows[r].source
    BY <1>1 DEF Payments
  <1>3. r \in Used'
    BY <1>1, <1>2, NoneIsNoValue DEF Used
  <1>4. Standing(r)' = Standing(r)
    BY <1>2, <1>3 DEF Standing
  <1>5. BookedIn(r)' = BookedIn(r) /\ CameFrom(r)' = CameFrom(r)
    BY <1>2, <1>3 DEF BookedIn, CameFrom
  <1> QED
    BY <1>1, <1>4, <1>5 DEF Book!Keeps

\* Deciding one payment, in one transaction.
LEMMA ReviewInBook ==
    ASSUME TypeOK, NEW r \in RowIds, NEW new \in Inputs, NEW allow \in BOOLEAN,
           ReviewBankTransaction(r, new, allow)
    PROVE  Book!ChangePayments
  <1>1. new \in Reviews /\ r \in Used
    BY InputsAreTyped DEF ReviewBankTransaction
  <1>2. rows' = [rows EXCEPT ![r] = Reviewed(r, new)] /\ nextRow' = nextRow
        /\ closed' = closed
    BY DEF ReviewBankTransaction
  <1>3. ReviewedTo(r, new)
    BY <1>1, <1>2 DEF ReviewedTo, ReviewBankTransaction, TypeOK
  <1>4. \A t \in RowIds \ {r} : Book!Keeps(t)
    <2>1. \A t \in RowIds \ {r} : rows'[t] = rows[t]
      BY <1>2 DEF TypeOK
    <2> QED
      BY <1>2, <2>1, RowKeptInBook
  <1>5. CASE rows[r].decision = "pending"
    <2>1. Book!Rule
      BY <1>1, <1>3, <1>4, <1>5, ReviewRules DEF Book!Rule
    <2> QED
      BY <1>2, <2>1 DEF Book!ChangePayments
  <1>6. CASE rows[r].decision # "pending"
    <2>1. Book!Reopen
      BY <1>1, <1>3, <1>4, <1>6, ReviewRules DEF Book!Reopen
    <2> QED
      BY <1>2, <2>1 DEF Book!ChangePayments
  <1> QED
    BY <1>5, <1>6

\* Deciding several pending payments together.
LEMMA BatchInBook ==
    ASSUME TypeOK, NEW batch \in SUBSET Used, NEW new \in [batch -> BatchInputs],
           ReviewBankBatch(new)
    PROVE  Book!ChangePayments
  <1>1. nextRow' = nextRow /\ closed' = closed
    BY DEF ReviewBankBatch
  <1>2. ASSUME NEW r \in RowIds PROVE Book!Keeps(r) \/ Book!IsRuled(r)
    <2>1. CASE r \in batch
      <3>1. new[r] \in Reviews /\ rows[r].decision = "pending"
        BY <2>1, InputsAreTyped DEF ReviewBankBatch
      <3>2. ReviewedTo(r, new[r])
        BY <2>1, <3>1 DEF ReviewedTo, ReviewBankBatch
      <3> QED
        BY <3>1, <3>2, ReviewRules
    <2>2. CASE r \notin batch
      BY <1>1, <2>2, RowKeptInBook DEF ReviewBankBatch
    <2> QED
      BY <2>1, <2>2
  <1> QED
    BY <1>1, <1>2 DEF Book!Rule, Book!ChangePayments

\* Discarding a statement withdraws payments that were not accepted.
LEMMA DiscardInBook ==
    ASSUME TypeOK, NEW i \in Imports, DiscardBankImport(i)
    PROVE  Book!ChangePayments
  <1>1. nextRow' = nextRow /\ closed' = closed
    BY DEF DiscardBankImport
  <1>2. ASSUME NEW r \in RowIds PROVE Book!Keeps(r) \/ Book!IsWithdrawn(r)
    <2>1. CASE r \in Used /\ rows[r].import = i
      <3>1. rows'[r] = None /\ r \notin Used'
        BY <2>1 DEF DiscardBankImport, Used
      <3>2. ~(r >= nextRow) /\ rows[r].decision \in Decisions
        BY <2>1 DEF TypeOK, Used, Payments
      <3>3. rows[r].decision # "accepted" /\ MonthOf(rows[r].fact) \notin closed
        BY <2>1 DEF DiscardBankImport, Discardable, OpenMonths
      <3>4. Standing(r) \in {"pending", "aside"} /\ Standing(r)' = "gone"
        BY <1>1, <2>1, <3>1, <3>2, <3>3 DEF Standing
      <3>5. BookedIn(r) \notin closed
        BY <2>1, <3>3 DEF BookedIn
      <3> QED
        BY <3>4, <3>5 DEF Book!IsWithdrawn, Book!InOpenMonth
    <2>2. CASE ~(r \in Used /\ rows[r].import = i)
      BY <1>1, <2>2, RowKeptInBook DEF DiscardBankImport
    <2> QED
      BY <2>1, <2>2
  <1> QED
    BY <1>1, <1>2 DEF Book!Withdraw, Book!ChangePayments

\* Closing a month shuts it over decided payments only, reopening it lets go.
LEMMA MonthInBook ==
    ASSUME TypeOK, NEW month \in Months, CloseMonth(month) \/ ReopenMonth(month)
    PROVE  Book!Shut \/ Book!Unshut
  <1>1. rows' = rows /\ nextRow' = nextRow
    BY DEF CloseMonth, ReopenMonth
  <1>2. \A r \in RowIds : Book!Keeps(r)
    BY <1>1, RowKeptInBook
  <1>3. CASE CloseMonth(month)
    <2>1. closed' \ closed \subseteq {month} /\ closed \subseteq closed'
      BY <1>3 DEF CloseMonth
    <2>2. ASSUME NEW r \in RowIds, BookedIn(r) = month, Standing(r) = "pending"
          PROVE  FALSE
      <3>1. r \in Used /\ rows[r].decision = "pending"
        BY <2>2 DEF Standing
      <3>2. r \in PendingIn(month)
        BY <2>2, <3>1 DEF BookedIn, PendingIn, RowsOf
      <3> QED
        BY <1>3, <3>2 DEF CloseMonth
    <2> QED
      BY <1>2, <2>1, <2>2 DEF Book!Shut
  <1>4. CASE ReopenMonth(month)
    BY <1>2, <1>4 DEF ReopenMonth, Book!Unshut
  <1> QED
    BY <1>3, <1>4

\* Starting over takes every payment out of the book for good.
LEMMA ResetInBook ==
    ASSUME TypeOK, ResetBookings
    PROVE  Book!StartOver
  <1>1. nextRow' = nextRow /\ closed' = {} /\ Used' = {}
    BY DEF ResetBookings, Used
  <1>2. ASSUME NEW r \in RowIds
        PROVE  Standing(r)' = IF Standing(r) \in {"pending", "accepted", "aside"}
                              THEN "gone" ELSE Standing(r)
    <2>1. Standing(r)' = IF r >= nextRow THEN "new" ELSE "gone"
      BY <1>1 DEF Standing
    <2>2. CASE r \in Used
      <3>1. ~(r >= nextRow)
        BY <2>2 DEF TypeOK, Used
      <3>2. Standing(r) \in {"pending", "accepted", "aside"}
        BY <2>2 DEF Standing
      <3> QED
        BY <2>1, <3>1, <3>2
    <2>3. CASE r \notin Used
      BY <2>1, <2>3 DEF Standing
    <2> QED
      BY <2>2, <2>3
  <1> QED
    BY <1>1, <1>2 DEF Book!StartOver, Book!Present

\* Every transaction of the store is a step of the book or leaves it alone.
LEMMA BookStep ==
    ASSUME TypeOK, AcceptedComplete, [Next]_vars
    PROVE  [Book!BookNext]_(Book!bookVars)
  <1>1. CASE SetUp \/ UNCHANGED vars
    <2>1. rows' = rows /\ nextRow' = nextRow /\ closed' = closed
      BY <1>1 DEF SetUp, CreateMember, DeleteMember, CreateBankAccount,
                  DeleteBankAccount, SetDefaultBankAccount
    <2> QED
      BY <2>1, BookUntouched
  <1>2. CASE Statements
    <2>1. ASSUME NEW lines \in Uploads, NEW d \in Digests,
                 ReconcileBankImports(lines, d)
          PROVE  Book!ChangePayments
      <3>1. NewLines(lines) \subseteq DOMAIN lines
        BY DEF NewLines, LinesFor
      <3> QED
        BY <2>1, <3>1, StoreLinesEnters DEF ReconcileBankImports, Book!ChangePayments
    <2>2. ASSUME NEW lines \in Uploads, NEW d \in Digests, CreateBankImports(lines, d)
          PROVE  Book!ChangePayments
      BY <2>2, StoreLinesEnters DEF CreateBankImports, Book!ChangePayments
    <2> QED
      BY <1>2, <2>1, <2>2, DiscardInBook DEF Statements, Book!BookNext
  <1>3. CASE Review
    BY <1>3, ReviewInBook, BatchInBook, MonthInBook DEF Review, Book!BookNext
  <1>4. CASE Catalog
    <2>1. CASE \/ \E c \in Categories, d \in Directions : CreateCategory(c, d)
               \/ \E c \in Categories, d \in Directions : UpdateCategory(c, d)
               \/ \E c \in Categories : DeleteCategory(c)
               \/ \E p \in Plans, d \in Directions, c \in Categories : CreateBooking(p, d, c)
               \/ \E p \in Plans, d \in Directions, c \in Categories : SaveBooking(p, d, c)
      <3>1. rows' = rows /\ nextRow' = nextRow /\ closed' = closed
        BY <2>1 DEF CreateCategory, UpdateCategory, DeleteCategory, CreateBooking, SaveBooking
      <3> QED
        BY <3>1, BookUntouched
    <2>2. ASSUME NEW p \in Plans, DeleteBooking(p)
          PROVE  Book!BookNext
      <3>1. rows' = Unlinked(p) /\ nextRow' = nextRow /\ closed' = closed
        BY <2>2 DEF DeleteBooking
      <3>2. ASSUME NEW r \in RowIds PROVE Book!Keeps(r)
        <4>1. CASE r \in Used /\ rows[r].plan = p
          BY <3>1, <4>1, PlanKeepsBook DEF Unlinked
        <4>2. CASE ~(r \in Used /\ rows[r].plan = p)
          BY <3>1, <4>2, RowKeptInBook DEF Unlinked
        <4> QED
          BY <4>1, <4>2
      <3> QED
        BY <3>1, <3>2 DEF Book!Rule, Book!ChangePayments, Book!BookNext
    <2>3. ASSUME NEW r \in RowIds, NEW p \in Plans, CreatePlanFromPayment(r, p)
          PROVE  Book!BookNext
      <3>1. rows' = [rows EXCEPT ![r].plan = p] /\ nextRow' = nextRow /\ closed' = closed
            /\ r \in Used
        BY <2>3 DEF CreatePlanFromPayment
      <3>2. ASSUME NEW t \in RowIds PROVE Book!Keeps(t)
        <4>1. CASE t = r
          BY <3>1, <4>1, PlanKeepsBook DEF TypeOK
        <4>2. CASE t # r
          BY <3>1, <4>2, RowKeptInBook DEF TypeOK
        <4> QED
          BY <4>1, <4>2
      <3> QED
        BY <3>1, <3>2 DEF Book!Rule, Book!ChangePayments, Book!BookNext
    <2>4. CASE ResetBookings
      BY <2>4, ResetInBook DEF Book!BookNext
    <2> QED
      BY <1>4, <2>1, <2>2, <2>3, <2>4 DEF Catalog
  <1> QED
    BY <1>1, <1>2, <1>3, <1>4 DEF Next

\* Whatever uploads, reviews, batches, discards, closings, plans and resets a
\* household goes through, the ledger keeps the promises of ReviewBook about
\* every payment: BankLedger implements ReviewBook.
THEOREM LedgerKeepsReviewBook == Spec => KeepsReviewBook
  <1>1. Init => Book!BookInit
    <2> SUFFICES ASSUME Init PROVE Book!BookInit
      OBVIOUS
    <2>1. Used = {} /\ nextRow = 1 /\ closed = {}
      BY DEF Init, Used
    <2>2. ASSUME NEW r \in RowIds
          PROVE  Standing(r) = "new" /\ BookedIn(r) = None /\ CameFrom(r) = None
      BY <2>1, BoundIsNatural DEF Standing, BookedIn, CameFrom
    <2> QED
      BY <2>1, <2>2 DEF Book!BookInit
  <1>2. IInv /\ [Next]_vars => [Book!BookNext]_(Book!bookVars)
    BY BookStep DEF IInv
  <1> QED
    BY <1>1, <1>2, Invariance, PTL DEF Spec, KeepsReviewBook, Book!BookSpec

-----------------------------------------------------------------------------
(***************************************************************************)
(* A statement that was imported before.                                   *)
(***************************************************************************)
\* What some assignment covers, it covers in part.
LEMMA CoverableInPart ==
    ASSUME NEW incoming, NEW existing, NEW all, Coverable(all, incoming, existing),
           NEW some \in SUBSET all
    PROVE  Coverable(some, incoming, existing)
<1>1. PICK use \in Injection(all, DOMAIN existing) :
          \A i \in all : Answers(existing[use[i]], incoming[i])
  BY DEF Coverable
<1> DEFINE part == [i \in some |-> use[i]]
<1>2. part \in Injection(some, DOMAIN existing)
  BY <1>1 DEF Injection, IsInjective
<1>3. \A i \in some : Answers(existing[part[i]], incoming[i])
  BY <1>1
<1> HIDE DEF part
<1> QED BY <1>2, <1>3 DEF Coverable

\* If all lines together have payments of their own, all are recognised.
LEMMA AllRecognised ==
    ASSUME NEW incoming, NEW existing, Coverable(DOMAIN incoming, incoming, existing)
    PROVE  Recognised(incoming, existing) = DOMAIN incoming
<1> DEFINE Taken(known) ==
        \A i \in DOMAIN incoming :
            i \in known <=> Coverable({j \in known : j < i} \cup {i}, incoming, existing)
<1>1. ASSUME NEW known \in SUBSET DOMAIN incoming, NEW i \in DOMAIN incoming
      PROVE  Coverable({j \in known : j < i} \cup {i}, incoming, existing)
  <2> DEFINE some == {j \in known : j < i} \cup {i}
  <2>1. some \in SUBSET DOMAIN incoming
    OBVIOUS
  <2> HIDE DEF some
  <2>2. Coverable(some, incoming, existing)
    BY <2>1, CoverableInPart
  <2> QED BY <2>2 DEF some
<1>2. Taken(DOMAIN incoming)
  BY <1>1
<1>3. \A known \in SUBSET DOMAIN incoming : Taken(known) => known = DOMAIN incoming
  BY <1>1
<1>4. Recognised(incoming, existing) = CHOOSE known \in SUBSET DOMAIN incoming : Taken(known)
  BY DEF Recognised
<1> HIDE DEF Taken
<1> QED BY <1>2, <1>3, <1>4

\* A statement whose lines were all imported before, each as a payment of its
\* own, adds nothing when it is uploaded again, however its payments were
\* corrected meanwhile (ReconcileBankImports, matchBankPayments).
THEOREM ReuploadsAddNothing == Spec => []ReuploadAddsNothing
<1>1. ASSUME NEW lines \in Uploads, ImportedBefore(lines)
      PROVE  NewLines(lines) = {}
  <2>1. PICK use \in Injection(DOMAIN lines, Used) : \A i \in DOMAIN lines :
            /\ AccountOf(use[i]) = lines[i].account
            /\ rows[use[i]].source = Fingerprint(lines[i].fact)
    BY <1>1 DEF ImportedBefore
  <2>2. ASSUME NEW a
        PROVE  Recognised([i \in LinesFor(lines, a) |-> Fingerprint(lines[i].fact)],
                          [r \in RowsIn(a) |-> [current |-> Fingerprint(rows[r].fact),
                                                source |-> rows[r].source]])
               = LinesFor(lines, a)
    <3> DEFINE incoming == [i \in LinesFor(lines, a) |-> Fingerprint(lines[i].fact)]
               existing == [r \in RowsIn(a) |-> [current |-> Fingerprint(rows[r].fact),
                                                 source |-> rows[r].source]]
               own == [i \in LinesFor(lines, a) |-> use[i]]
    <3>1. \A i \in LinesFor(lines, a) : own[i] \in RowsIn(a)
      BY <2>1 DEF LinesFor, RowsIn, Injection
    <3>2. own \in Injection(LinesFor(lines, a), RowsIn(a))
      BY <2>1, <3>1 DEF LinesFor, Injection, IsInjective
    <3>3. \A i \in LinesFor(lines, a) : Answers(existing[own[i]], incoming[i])
      BY <2>1, <3>1 DEF LinesFor, Answers
    <3>4. DOMAIN incoming = LinesFor(lines, a) /\ DOMAIN existing = RowsIn(a)
      OBVIOUS
    <3> HIDE DEF incoming, existing, own
    <3>5. Coverable(DOMAIN incoming, incoming, existing)
      BY <3>2, <3>3, <3>4 DEF Coverable
    <3>6. Recognised(incoming, existing) = LinesFor(lines, a)
      BY <3>4, <3>5, AllRecognised
    <3> QED BY <3>6 DEF incoming, existing
  <2> QED BY <2>2 DEF NewLines
<1>2. ReuploadAddsNothing
  BY <1>1 DEF ReuploadAddsNothing
<1> QED BY <1>2, PTL

-----------------------------------------------------------------------------
(***************************************************************************)
(* What restoring needs beyond the invariant of the ledger.                *)
(***************************************************************************)
\* Shares are stored where the decision allows them, and add up.
FitShares(p) ==
    /\ NoStrayShares(p)
    /\ StoresSplits(p) => Total(p.splits) = p.fact.cents

SharesFit == \A r \in Used : FitShares(rows[r])

OnlyPastClosed == closed \subseteq PastMonths

BookInv == IInv /\ SharesFit /\ OnlyPastClosed

FileInv ==
    /\ file = [members |-> file.members, owner |-> file.owner, default |-> file.default,
               imports |-> file.imports, rows |-> file.rows, closed |-> file.closed,
               categories |-> file.categories, plans |-> file.plans,
               confirmed |-> file.confirmed]
    /\ Saved!TypeOK
    /\ Saved!ClosedMonthsReviewed
    /\ Saved!AcceptedComplete
    /\ Saved!TransfersGoElsewhere
    /\ Saved!ReferencesExist
    /\ Saved!OneDefaultAccount
    /\ Saved!NoSilentDuplicate
    /\ \A r \in Saved!Used : FitShares(file.rows[r])
    /\ file.closed \subseteq PastMonths

BackupInv == BookInv /\ (file # None => FileInv)

\* The review and the new row store exactly the shares that fit.
LEMMA SharesFitStep ==
    ASSUME TypeOK, AcceptedComplete, SharesFit, [Next]_vars
    PROVE  SharesFit'
<1> SUFFICES ASSUME NEW r \in RowIds, rows'[r] # None
             PROVE  FitShares(rows'[r])
  BY DEF SharesFit, Used, FitShares, NoStrayShares, StoresSplits
<1>1. CASE rows'[r] = rows[r]
  BY <1>1 DEF SharesFit, Used
<1>2. CASE Stored(r)
  <2>1. rows'[r].decision = "pending" /\ rows'[r].splits = NoSplits
    BY <1>2 DEF Stored, NewPayment
  <2> QED BY <2>1 DEF FitShares, NoStrayShares, StoresSplits
<1>3. ASSUME NEW new \in Reviews, ReviewedTo(r, new)
      PROVE  FitShares(rows'[r])
  <2>1. /\ rows'[r].decision = new.decision /\ rows'[r].fact = new.fact
        /\ rows'[r].splits = StoredSplits(new)
        /\ ValidAllocation(new)
    BY <1>3 DEF ReviewedTo, Reviewed, Reviewable
  <2>2. CASE StoresSplits(new)
    BY <2>1, <2>2 DEF StoredSplits, ValidAllocation, FitShares, NoStrayShares, StoresSplits
  <2>3. CASE ~StoresSplits(new)
    BY <2>1, <2>3 DEF StoredSplits, FitShares, NoStrayShares, StoresSplits
  <2> QED BY <2>2, <2>3
<1>4. CASE PlanOnly(r)
  <2>1. /\ r \in Used /\ rows'[r].decision = rows[r].decision /\ rows'[r].fact = rows[r].fact
        /\ rows'[r].splits = rows[r].splits
    BY <1>4 DEF PlanOnly, TypeOK, Used, Payments
  <2> QED BY <2>1 DEF SharesFit, FitShares, NoStrayShares, StoresSplits
<1> QED BY <1>1, <1>2, <1>3, <1>4, RowStep

\* Months are closed once they are past.
LEMMA OnlyPastClosedStep ==
    ASSUME OnlyPastClosed, [Next]_vars
    PROVE  OnlyPastClosed'
<1>1. CASE SetUp \/ UNCHANGED vars
  BY <1>1 DEF OnlyPastClosed, SetUp, CreateMember, DeleteMember, CreateBankAccount,
              DeleteBankAccount, SetDefaultBankAccount
<1>2. CASE Statements
  BY <1>2 DEF OnlyPastClosed, Statements, ReconcileBankImports, CreateBankImports, StoreLines,
              DiscardBankImport
<1>3. CASE Review
  BY <1>3 DEF OnlyPastClosed, Review, ReviewBankTransaction, ReviewBankBatch, CloseMonth, ReopenMonth
<1>4. CASE Catalog
  BY <1>4 DEF OnlyPastClosed, Catalog, CreateCategory, UpdateCategory, DeleteCategory,
              CreateBooking, SaveBooking, DeleteBooking, CreatePlanFromPayment, ResetBookings
<1> QED BY <1>1, <1>2, <1>3, <1>4 DEF Next

\* Ids are not handed out again (AUTOINCREMENT).
LEMMA CounterGrows ==
    ASSUME TypeOK, [Next]_vars
    PROVE  nextRow' >= nextRow
<1>1. nextRow \in Nat
  BY BoundIsNatural DEF TypeOK
<1>2. CASE SetUp \/ UNCHANGED vars
  <2>1. nextRow' = nextRow
    BY <1>2 DEF SetUp, CreateMember, DeleteMember, CreateBankAccount, DeleteBankAccount,
                SetDefaultBankAccount
  <2> QED BY <1>1, <2>1
<1>3. CASE Statements
  <2>1. ASSUME NEW lines \in Uploads, NEW d \in Digests, NEW stored \in SUBSET DOMAIN lines,
               StoreLines(lines, stored, d)
        PROVE  nextRow' >= nextRow
    BY <1>1, <2>1, StoredFinite DEF StoreLines
  <2>2. ASSUME NEW lines \in Uploads, NEW d \in Digests, ReconcileBankImports(lines, d)
        PROVE  nextRow' >= nextRow
    <3>1. NewLines(lines) \subseteq DOMAIN lines
      BY DEF NewLines, LinesFor
    <3> QED BY <2>1, <2>2, <3>1 DEF ReconcileBankImports
  <2>3. ASSUME NEW lines \in Uploads, NEW d \in Digests, CreateBankImports(lines, d)
        PROVE  nextRow' >= nextRow
    BY <2>1, <2>3 DEF CreateBankImports
  <2>4. ASSUME NEW i \in Imports, DiscardBankImport(i) PROVE nextRow' >= nextRow
    BY <1>1, <2>4 DEF DiscardBankImport
  <2> QED BY <1>3, <2>2, <2>3, <2>4 DEF Statements
<1>4. CASE Review
  BY <1>1, <1>4 DEF Review, ReviewBankTransaction, ReviewBankBatch, CloseMonth, ReopenMonth
<1>5. CASE Catalog
  BY <1>1, <1>5 DEF Catalog, CreateCategory, UpdateCategory, DeleteCategory,
              CreateBooking, SaveBooking, DeleteBooking, CreatePlanFromPayment, ResetBookings
<1> QED BY <1>2, <1>3, <1>4, <1>5 DEF Next

-----------------------------------------------------------------------------
(***************************************************************************)
(* The file as a book: what the instance says of it is what the ledger     *)
(* says of a book with the same rows.                                      *)
(***************************************************************************)
\* Constants, and operators on a payment, mean the same in the instance.
LEMMA SavedIsLedger ==
    /\ Saved!RowIds = RowIds
    /\ Saved!Imports = Imports
    /\ Saved!Directions = Directions
    /\ Saved!Payments = Payments
    /\ Saved!NoSplits = NoSplits
    /\ \A splits : Saved!Total(splits) = Total(splits)
    /\ \A splits : Saved!Sharers(splits) = Sharers(splits)
    /\ \A fact : Saved!MonthOf(fact) = MonthOf(fact)
    /\ \A fact : Saved!Fingerprint(fact) = Fingerprint(fact)
    /\ \A p : Saved!StoresSplits(p) <=> StoresSplits(p)
<1>1. Saved!RowIds = RowIds
  BY DEF Saved!RowIds
<1>2. Saved!Imports = Imports
  BY DEF Saved!Imports, Imports
<1>3. Saved!Directions = Directions
  BY DEF Saved!Directions, Directions
<1>4. \A fact : Saved!Fingerprint(fact) = Fingerprint(fact)
  BY DEF Saved!Fingerprint, Fingerprint
<1>5. Saved!Payments = Payments
  BY <1>2, <1>4 DEF Saved!Payments, Payments, Saved!Fingerprints, Fingerprints, Saved!Decisions,
     Decisions, Saved!Allocations, Allocations
<1>6. Saved!NoSplits = NoSplits
  BY DEF Saved!NoSplits, NoSplits
<1>7. \A splits : Saved!Sharers(splits) = Sharers(splits)
  BY DEF Saved!Sharers, Sharers
<1>8. \A splits : Saved!Total(splits) = Total(splits)
  BY DEF Saved!Total, Total, Saved!Sharers, Sharers, Saved!FoldFunctionOnSet, FoldFunctionOnSet,
     Saved!MapThenFoldSet, MapThenFoldSet
<1>9. \A fact : Saved!MonthOf(fact) = MonthOf(fact)
  BY DEF Saved!MonthOf, MonthOf
<1>10. \A p : Saved!StoresSplits(p) <=> StoresSplits(p)
  BY <1>6 DEF Saved!StoresSplits, StoresSplits
<1> QED BY <1>1, <1>2, <1>3, <1>4, <1>5, <1>6, <1>7, <1>8, <1>9, <1>10

\* A file that says what the book says keeps what the book keeps, and the other
\* way round.
LEMMA FileIsBook ==
    ASSUME file = Contents
    PROVE  FileInv <=> BookInv
<1>1. /\ file.members = members /\ file.owner = owner /\ file.default = default
      /\ file.imports = imports /\ file.rows = rows /\ file.closed = closed
      /\ file.categories = categories /\ file.plans = plans /\ file.confirmed = confirmed
  BY DEF Contents
<1>2. file = [members |-> file.members, owner |-> file.owner, default |-> file.default,
              imports |-> file.imports, rows |-> file.rows, closed |-> file.closed,
              categories |-> file.categories, plans |-> file.plans,
              confirmed |-> file.confirmed]
  BY <1>1 DEF Contents
<1>3. /\ Saved!Used = Used
      /\ Saved!OpenAccounts = OpenAccounts
      /\ \A r : Saved!AccountOf(r) = AccountOf(r)
      /\ \A m : Saved!OwnedBy(m) = OwnedBy(m)
  BY <1>1, SavedIsLedger DEF Saved!Used, Used, Saved!OpenAccounts, OpenAccounts, Saved!AccountOf,
     AccountOf, Saved!OwnedBy, OwnedBy
<1>4. Saved!TypeOK <=> TypeOK
  BY <1>1, SavedIsLedger DEF Saved!TypeOK, TypeOK
<1>5. Saved!ClosedMonthsReviewed <=> ClosedMonthsReviewed
  BY <1>1, <1>3, SavedIsLedger DEF Saved!ClosedMonthsReviewed, ClosedMonthsReviewed
<1>6. Saved!AcceptedComplete <=> AcceptedComplete
  BY <1>1, <1>3, SavedIsLedger DEF Saved!AcceptedComplete, AcceptedComplete
<1>7. Saved!TransfersGoElsewhere <=> TransfersGoElsewhere
  BY <1>1, <1>3 DEF Saved!TransfersGoElsewhere, TransfersGoElsewhere
<1>8. Saved!ReferencesExist <=> ReferencesExist
  BY <1>1, <1>3, SavedIsLedger DEF Saved!ReferencesExist, ReferencesExist,
     Saved!PaymentReferencesExist, PaymentReferencesExist, Saved!SetupReferencesExist,
     SetupReferencesExist
<1>9. Saved!OneDefaultAccount <=> OneDefaultAccount
  BY <1>1, <1>3 DEF Saved!OneDefaultAccount, OneDefaultAccount
<1>10. Saved!NoSilentDuplicate <=> NoSilentDuplicate
  BY <1>1, <1>3, SavedIsLedger DEF Saved!NoSilentDuplicate, NoSilentDuplicate
<1> QED BY <1>1, <1>2, <1>3, <1>4, <1>5, <1>6, <1>7, <1>8, <1>9, <1>10
        DEF FileInv, BookInv, IInv, SharesFit, OnlyPastClosed

\* Nothing the book does later changes what is in the file.
LEMMA FileStays ==
    ASSUME FileInv, UNCHANGED file, nextRow' \in 1..(MaxRows + 1), nextRow \in 1..(MaxRows + 1),
           nextRow' >= nextRow
    PROVE  FileInv'
<1>1. Saved!TypeOK'
  <2>1. \A r \in RowIds : r >= nextRow' => r >= nextRow
    BY BoundIsNatural
  <2> QED BY <2>1, SavedIsLedger DEF FileInv, Saved!TypeOK, Saved!Imports, Saved!Directions,
         Saved!RowIds
<1>2. /\ Saved!Used' = Saved!Used /\ Saved!OpenAccounts' = Saved!OpenAccounts
  BY DEF Saved!Used, Saved!OpenAccounts
<1> QED BY <1>1, <1>2 DEF FileInv, Saved!ClosedMonthsReviewed, Saved!AcceptedComplete,
    Saved!TransfersGoElsewhere, Saved!ReferencesExist, Saved!PaymentReferencesExist,
    Saved!SetupReferencesExist, Saved!OneDefaultAccount, Saved!NoSilentDuplicate,
    Saved!AccountOf, Saved!OwnedBy

\* The same of the state after a step.
LEMMA FileIsBookThen == (file = Contents => (FileInv <=> BookInv))'
<1>1. file = Contents => (FileInv <=> BookInv)
  BY FileIsBook
<1> QED BY <1>1, PTL

-----------------------------------------------------------------------------
(***************************************************************************)
(* Writing the file and bringing it back.                                  *)
(***************************************************************************)
LEMMA ExportStep ==
    ASSUME BookInv, Export
    PROVE  BookInv' /\ FileInv'
<1>1. file' = Contents' /\ UNCHANGED vars
  BY DEF Export, Contents
<1>2. BookInv'
  BY <1>1 DEF BookInv, IInv, TypeOK, ClosedMonthsReviewed, AcceptedComplete, TransfersGoElsewhere,
     ReferencesExist, PaymentReferencesExist, SetupReferencesExist, OneDefaultAccount,
     NoSilentDuplicate, SharesFit, OnlyPastClosed, Used, OpenAccounts, OwnedBy, AccountOf
<1> QED BY <1>1, <1>2, FileIsBookThen

\* A payment whose shares fit is entered as it is in the file.
LEMMA EnteredAsIs ==
    ASSUME NEW p \in Payments, FitShares(p)
    PROVE  Entered(p) = p
<1>1. StoredSplits(p) = p.splits
  BY DEF FitShares, NoStrayShares, StoredSplits, StoresSplits, Payments, Decisions
<1> QED BY <1>1 DEF Entered, Payments

\* The account that is marked when a member is restored is marked in the file.
LEMMA PreferredIsDefault ==
    ASSUME FileInv, NEW m \in file.members
    PROVE  Preferred(m) \in file.default
<1>1. PICK a \in Accounts : Saved!OwnedBy(m) \cap file.default = {a}
  BY DEF FileInv, Saved!OneDefaultAccount
<1>2. \E b \in Saved!OwnedBy(m) : Saved!OwnedBy(m) \cap file.default # {} => b \in file.default
  BY <1>1
<1> QED BY <1>1, <1>2 DEF Preferred

\* So the book is what the file says.
LEMMA ImportBringsBack ==
    ASSUME FileInv, Import
    PROVE  Contents' = file
<1>1. /\ members' = file.members /\ owner' = file.owner /\ imports' = file.imports
      /\ closed' = file.closed /\ categories' = file.categories /\ plans' = file.plans
      /\ confirmed' = file.confirmed
  BY DEF Import
<1>2. default' = file.default
  BY PreferredIsDefault DEF Import
<1>3. rows' = file.rows
  <2>1. file.rows \in [RowIds -> Payments \cup {None}]
    BY SavedIsLedger DEF FileInv, Saved!TypeOK
  <2>2. ASSUME NEW r \in RowIds
        PROVE  (IF r \in Saved!Used THEN Entered(file.rows[r]) ELSE None) = file.rows[r]
    <3>1. CASE r \in Saved!Used
      <4>1. file.rows[r] \in Payments /\ FitShares(file.rows[r])
        BY <2>1, <3>1 DEF FileInv, Saved!Used
      <4> QED BY <3>1, <4>1, EnteredAsIs
    <3>2. CASE r \notin Saved!Used
      BY <3>2, SavedIsLedger DEF Saved!Used
    <3> QED BY <3>1, <3>2
  <2>3. rows' = [r \in RowIds |-> IF r \in Saved!Used THEN Entered(file.rows[r]) ELSE None]
    BY DEF Import
  <2> QED BY <2>1, <2>2, <2>3
<1> QED BY <1>1, <1>2, <1>3 DEF Contents, FileInv

LEMMA RestoreStep ==
    ASSUME BackupInv, Import
    PROVE  BackupInv'
<1>1. FileInv /\ UNCHANGED <<file, nextRow>>
  BY DEF BackupInv, Import
<1>2. nextRow \in 1..(MaxRows + 1) /\ nextRow \in Nat
  BY BoundIsNatural DEF BackupInv, BookInv, IInv, TypeOK
<1>3. FileInv'
  BY <1>1, <1>2, FileStays
<1>4. (file = Contents)'
  BY <1>1, ImportBringsBack
<1> QED BY <1>3, <1>4, FileIsBookThen DEF BackupInv

LEMMA BackupStep == BackupInv /\ [BackupNext]_backupVars => BackupInv'
<1> SUFFICES ASSUME BackupInv, [BackupNext]_backupVars PROVE BackupInv'
  OBVIOUS
<1>1. CASE [Next]_vars /\ UNCHANGED file
  <2>1. IInv'
    BY <1>1, NextInvariant DEF BackupInv, BookInv
  <2>2. SharesFit' /\ OnlyPastClosed'
    BY <1>1, SharesFitStep, OnlyPastClosedStep DEF BackupInv, BookInv, IInv
  <2>3. nextRow' >= nextRow /\ nextRow \in 1..(MaxRows + 1) /\ nextRow' \in 1..(MaxRows + 1)
    BY <1>1, <2>1, CounterGrows DEF BackupInv, BookInv, IInv, TypeOK
  <2>4. file' # None => FileInv'
    BY <1>1, <2>3, FileStays DEF BackupInv
  <2> QED BY <2>1, <2>2, <2>4 DEF BackupInv, BookInv
<1>2. CASE Export
  BY <1>2, ExportStep DEF BackupInv
<1>3. CASE Import
  BY <1>3, RestoreStep
<1> QED BY <1>1, <1>2, <1>3 DEF BackupNext, backupVars

LEMMA BackupInvariance == BackupSpec => []BackupInv
<1>1. BackupInit => BackupInv
  <2> SUFFICES ASSUME BackupInit PROVE BackupInv
    OBVIOUS
  <2>1. IInv /\ file = None
    BY InitInvariant DEF BackupInit
  <2>2. SharesFit /\ OnlyPastClosed
    BY DEF BackupInit, Init, SharesFit, Used, OnlyPastClosed
  <2> QED BY <2>1, <2>2 DEF BackupInv, BookInv
<1> QED BY <1>1, BackupStep, PTL DEF BackupSpec

-----------------------------------------------------------------------------
\* Whatever happened to the book since, a restore brings back exactly what was
\* exported: every row, draft, link, default account and closed month (Import).
THEOREM RestoresAreExact == BackupSpec => RestoreBringsBack
<1>1. BackupInv => [Import => Contents' = file]_backupVars
  BY ImportBringsBack DEF BackupInv, Import
<1> QED BY <1>1, BackupInvariance, PTL DEF RestoreBringsBack

\* The ledger itself survives restoring: the invariant that its theorems rest on
\* holds of a book with restores too (Import).
THEOREM RestoredBooksAreSound == BackupSpec => []IInv
<1>1. BackupInv => IInv
  BY DEF BackupInv, BookInv
<1> QED BY <1>1, BackupInvariance, PTL

\* A backup is refused for no other reason than the known ones, in whatever
\* order rows were decided, turned and deleted before it was written.
THEOREM ObstaclesAreKnown == BackupSpec => []OnlyKnownObstacles
<1>1. BackupInv => OnlyKnownObstacles
  <2> SUFFICES ASSUME FileInv, \A r \in Saved!Used : DirectionsAccepted(r),
                      file.closed = {} \/ Saved!OpenAccounts # {}
               PROVE  Acceptable
    BY DEF BackupInv, OnlyKnownObstacles
  <2>1. \A a \in Saved!OpenAccounts : file.owner[a] \in file.members
    BY DEF FileInv, Saved!ReferencesExist, Saved!SetupReferencesExist
  <2>2. \A i \in file.imports : file.owner[i[1]] # None
    BY DEF FileInv, Saved!ReferencesExist, Saved!SetupReferencesExist
  <2>3. ASSUME NEW r \in Saved!Used PROVE PaymentAccepted(r)
    <3>1. file.rows[r].import \in file.imports /\ Saved!KnownReferences(file.rows[r])
      BY DEF FileInv, Saved!ReferencesExist, Saved!PaymentReferencesExist, Saved!KnownReferences
    <3>2. Saved!CompleteDecision(file.rows[r], Saved!AccountOf(r))
      BY NoneIsNoValue DEF FileInv, Saved!AcceptedComplete, Saved!TransfersGoElsewhere, Saved!OpenAccounts,
         Saved!CompleteDecision
    <3>3. FitShares(file.rows[r])
      BY DEF FileInv
    <3>4. Saved!ValidAllocation(file.rows[r])
      <4>1. Sharers(file.rows[r].splits) \subseteq file.members
        BY SavedIsLedger DEF FileInv, Saved!ReferencesExist, Saved!PaymentReferencesExist
      <4>2. StoresSplits(file.rows[r]) => file.rows[r].splits # NoSplits
        BY SavedIsLedger DEF FileInv, Saved!AcceptedComplete, StoresSplits
      <4>3. StoresSplits(file.rows[r]) => Total(file.rows[r].splits) = file.rows[r].fact.cents
        BY <3>3 DEF FitShares
      <4> QED BY <4>1, <4>2, <4>3, SavedIsLedger DEF Saved!ValidAllocation
    <3> QED BY <3>1, <3>2, <3>3, <3>4 DEF PaymentAccepted, FitShares
  <2>4. ASSUME NEW month \in file.closed PROVE MonthAccepted(month)
    BY DEF FileInv, MonthAccepted, Saved!PendingIn, Saved!RowsOf, Saved!ClosedMonthsReviewed
  <2> QED BY <2>1, <2>2, <2>3, <2>4 DEF Acceptable
<1> QED BY <1>1, BackupInvariance, PTL
=============================================================================
