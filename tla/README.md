# Haushaltsbuch: specifications and proofs

Haushaltsbuch is a household book: a Go server (`internal/web`, `internal/api`)
in front of one SQLite file (`internal/store`), with arithmetic on what is stored
(`internal/calc`) and readers for bank statements (`internal/bankimport`). These
TLA+ modules specify the parts where mistakes cost most: bank payments that are
uploaded, compared, reviewed with suggestions, closed by month, backed up and
restored; recurring bookings whose price changes, by several tabs at once; the
dialog they are edited in; the reports that are worked out of both, to the cent;
the tables of statement files; households; the upload queue in the browser and the
limiter in front of the server.

* TLC checks small instances: `tlc -config <run>.cfg <module>` (table in "Runs").
* TLAPS proves, for all values of the constants, what the ledger promises (its
  invariants, the refinement of ReviewBook, and that backups are restored exactly),
  that the matching of payments is right, what the review desk, uploads, households,
  booking periods, the booking dialog, the upload page and the limiter promise, that
  reports of closed months stand, that the cents of every report and every settlement add
  up, and that statements are not read by guessing: `tlapm <module>.tla` for BankLedgerProofs,
  ReviewDeskProofs, SessionsProofs, BookingPeriodsProofs, InputProofs, ReportsProofs,
  SmallPartsProofs and InductionLemmas (table in "Proofs").

## 1. Inventory

| part | state | operations | what is hard |
|---|---|---|---|
| bank ledger (`store/bank*.go`) | accounts, statements, payments with decision, category, plan, transfer target and shares, closed months | upload (reconcile or strict), discard, review one, review a batch, close and reopen a month, make a plan of a payment | corrections that move a payment between months, duplicates, one of several lines failing, deletions under a payment |
| payment matching (`store/bank_reconcile.go`) | none; a search over the payments of an account | match the lines of a statement | two identities per payment, equal lines, the order of lines |
| members, accounts (`members.go`, `bank_accounts.go`) | members, accounts, one default per member | create, choose the default, delete | deletions that are still referred to, drafts included |
| catalog (`categories.go`, `bookings.go`) | categories with a direction, planned bookings | create, change, delete, reset | used entries that are deleted or turned |
| backup (`snapshot.go`, `bank_snapshot.go`) | a file outside of the application | export, import, reset | an old file over a newer book; checks that refuse the whole file |
| uploads and mapping (`web/import_mapping.go`, `handlers_imports.go`, `handlers_data.go`) | generation, previews, the upload gate; all in memory | page load, upload, map, cancel, replace the data, restart | stale pages, replacement during an upload, restart, room for four previews, a gate that must be given back |
| review desk (`web/import_analysis.go`, `import_batch.go`, `import_quick_review.go`, `import_suggestions.go`) | analyses stored with a payment; tokens in pages; the analysis gate | analyse by the model, accept quickly or in a batch, review in a form | answers that arrive after an edit, suggestions that changed, forms without a token |
| bookings over time (`bookings.go`, `handlers_bookings.go`, `handlers_carry.go`) | validity ranges, overrides, retired predecessors; open dialogs | create, edit, price change, carry forward, delete | gaps, overlaps, double counting, stale dialogs and selections |
| booking dialog (`web/dialog.templ`, `assets/static/app.js`, `handlers_bookings.go`) | fields of open dialogs, one request under way per form; the row | type, pick, save automatically, close, discard a blank draft, delete | edits that wait, answers that are lost, a draft that is checked and then deleted, two tabs |
| households (`households.go`, `ordering.go`, `seed.go`, `handlers_settings.go`) | households, their order, the active one | create with seed, move, choose, delete | several transactions per request, requests that are cut short |
| machine API (`internal/api`) | none of its own | upsert a booking by `external_id`, update it by id | a whole row written back that was read before |
| upload page (`web/assets/static/imports.js`) | the queue of files, two parts of the page, four handlers that wait for the server | add, remove, resume, upload, refresh, map, review | answers out of order or never, runs that stop in the middle, a generation that changes |
| calculations (`internal/calc`) | none | value of a booking, shares, reports, settlement, costs | whole cents, negative amounts, incomplete shares, closed months |
| charts, plausibility (`calc/matrix.go`, `stack.go`, `sankey.go`, `chart.go`, `plausibility*.go`) | none | matrix, charts, a second calculation that checks the first | two programs that have to agree in every state |
| statement reading (`internal/bankimport`) | none | find the table, its headings and formats, read its rows; PDF, external model | what can be read in two ways, one row that cannot be read, signs, several accounts |
| middleware (`web/middleware.go`) | rate limiter buckets | allow, evict | requests decided in another order than stamped, full table |

How they interact: handlers call the store; every store operation is one
transaction (`withTx`) on a single connection (`SetMaxOpenConns(1)`), so store
operations are serialised and happen completely or not at all. Handlers that
prepare something first and write it later (uploads, analyses, batches) go through
`importPreviews`, whose mutex also serialises every replacement of the data. The
order is always mutex, then connection, and no callback inside a transaction asks
for the mutex, so nobody waits in a circle.

What makes each part correct is listed with its module below; `PROJECT.json`
holds the hazards with their lines and the property that covers each.

## 2. Modules

```
PaymentMatching  <--  AugmentingPaths        (what matching returns / how the code does it)
      ^
      |
  BankLedger  --implements-->  ReviewBook    (the book every user relies on)
      ^
      |
    Backup  <--  BankLedgerProofs            (BankLedger + a file; Saved == INSTANCE BankLedger;
                                              theorems about both, TLAPS)
ImportPreviews, Households  <--  SessionsProofs
                                             (pages, uploads, generations, restarts; which
                                              household is active, in which order; theorems)
ReviewDesk  <--  MCDesk  <--  ReviewDeskProofs
                                             (suggestions, tokens, forms, the model; theorems)
BookingPeriods  <--  BookingPeriodsProofs    (recurring bookings and their prices; theorems)
BookingDialog, StatementTables  <--  InputProofs
                                             (saves of one dialog after another; CSV files
                                              and workbooks; theorems)
Cents  <--  HouseholdBook  <--  Reports  <--  Plausibility
                                   ^         (division of cents, what is stored, what is
                                   |          reported of it, the second calculation)
                              ReportsProofs  (theorems)
AugmentingPaths, RateLimiter, UploadQueue  <--  SmallPartsProofs
                                             (see above; token buckets; the import page in the browser;
                                              theorems)
InductionLemmas                              (induction, recursion and sums over numbers
                                              and finite sets, for InputProofs, ReportsProofs
                                              and SmallPartsProofs)
MC...                                        (instances for TLC)
```

An MC module is named after the module it instantiates, or after what it puts together:
parts without common state share a run, in which one part moves while the others rest
in an initial state, so the states of the run are the sum and not the product of
theirs. MCSmallParts holds AugmentingPaths, RateLimiter and UploadQueue; MCSessions
ImportPreviews and Households; MCReviews BankLedger and ReviewDesk; MCPast Backup
and ReviewDesk; MCInput BookingDialog and StatementTables; MCEndings ImportPreviews and
ReviewDesk with their fairness. MCDesk is the desk under names of its own, because
BankLedger and ReviewDesk both speak of payments and categories; the runs and the theorems
about the desk use it. MCDeskSamples holds the payments ReviewDesk is given.

**PaymentMatching** says which lines of a statement count as already imported:
going through the statement in order, a line is recognised unless the lines
recognised before leave it no payment under any assignment (`Recognised`).

**AugmentingPaths** is `matchBankPayments` itself. The closure `assign` calls itself;
the stack of its calls is `trail`, the payments whose keys they try to move, and a step
is what one call does before it calls again (`Displace`), returns false (`GiveUp`) or
finds a free payment, which makes all calls return true (`TakeFree`). `Distribute` gives
the payments of a key to its lines in order. It is checked, and proved, against
`PaymentMatching`, which the ledger uses.

**BankLedger** is the database of one household. A variable per table or column
group: `members`, `owner` and `default` (bank_accounts), `imports`, `rows` and
`nextRow` (bank_transactions with its AUTOINCREMENT counter), `closed`
(reconciled_months), `categories`, `plans`. `confirmed` is a history variable: the
payments last accepted with the duplicate override. One action per store
operation; its guards are the refusals of that operation in their order. The
bank splits of a row are a function from members to shares; a fact (date,
direction, amount, text) is a record, `Normal` folds spelling, `Fingerprint` is
the identity both hashes in the code compute from it. Tags, cost nature, budget
class, settle flag, file names and colours are left out: nothing decides on them.

**ReviewBook** is the abstract specification: each payment is new, pending,
accepted, set aside or gone; only a decision decides, only reopening undoes,
accepted payments leave only when the household starts over, origins are never
rewritten, closed months stand still. `KeepsReviewBook` is the refinement, with
the mapping at the end of BankLedger.

**Backup** extends BankLedger with a file. `Export` writes `Contents`, `Import`
evaluates the code's checks on the file (through an instance of BankLedger over
the file's fields) and enters the rows again. Import's transaction is rolled back
when a check fails, so a refused file changes nothing and has no action.

**ImportPreviews** follows a page from the moment it reads the generation
(`epoch`), through the data it shows, to the upload it sends: `Receive` (epoch of
the request), `Admit` (the gate), `Extract` (form checks and reading),
`StoreUpload` or `PutPreview` (under the mutex), then `Confirm` or `Cancel`.
`Replace` and `Publish` are the two halves of `reset`: between them the database
holds new data under the old generation, and readers of the database do not ask
for the mutex. `Restart` loses what is in memory; open pages survive in the
browser. Payments do not appear here: a write is judged by what it was prepared
for and what it is applied to (`written`). Its BankLedger counterpart is
`ReconcileBankImports`.

**ReviewDesk** is the month page while payments, categories, plans and the model change
under it. A page keeps what it displayed; its token (`ReviewToken`) covers the
payment and what was suggested, so quick and batch acceptance are one transaction
that computes the suggestions again and compares. The detailed form
(`handleBankReview`) reads the payment, then decides in another transaction,
without a token. An analysis holds the gate, reads its payments, asks the model in
parts of `PartSize`, and stores an answer only if payment, catalog and model are
what the model was asked about. A suggestion is what was set by hand or at the upload,
else the only plan whose name occurs in the payment, else the history of the payee, else
a rule, else the name of the account (`Local`); a pending payment with an allocation of
its own gets none of the last four. The stored answer of the model comes before the name
of the account, and also where the others suggest nothing (`Source`). A suggested plan
brings its category (`Proposed`) and is linked on acceptance. So a plan comes before a
history that says otherwise, and `AcceptedInAgreement` asks a payment booked under a plan
to go to that plan's category, not to agree with the history. Plans are created, changed,
deleted and made of accepted payments. The payments are expenses of one account; a plan
of the other direction, or not active in the month, is one whose name no payment mentions
(`Mentions`). The code compares histories by more than their category (nature, class,
settlement, shares, tags: `sameHistory`) and so finds more conflicts than `History`; in a
conflict it suggests nothing. The module keeps no months, amounts of shares or transfers:
what BankLedger refuses on their account is allowed here, so the properties hold for more
behaviours than the program has.

**BookingPeriods** keeps the period, the retired mark and the external id of each
recurring booking, in whole months: reports count whole months (`coversMonth`) and
a price changes on the first of one. `family` is a history variable: the booking a
booking descends from by price changes, which the database does not store.
`rewritten` and `cut` are the families whose periods somebody wrote otherwise, or
of which a booking was deleted: the two things after which gaps and overlaps are
what the user asked for. A dialog posts every field with every edit, so
`SaveDialog` writes the period as the tab shows it; a request of the API reads a
row (`FindKey`, `FindId`) and writes it back whole (`StoreFound`). One-off
bookings and overrides are in HouseholdBook, discarded drafts in BookingDialog; the
exchange of the whole book by reset or restore is left out.

**BookingDialog** is the life of one row between its dialogs. `Contents` stands for
all fields of the form at once, because every save posts all of them: the name, which is
the suggested one, none or one of the user's, and the rest. `BlankDrafts` are the
contents `isBlankDraft` takes for untouched. A click into a suggested name empties the
field from the script (`ClickName`, `app.js:188-195`): no event follows, nothing is posted,
and the dialog does not count as touched. Until the next edit posts the empty name, the
page shows none where the row still has the suggested one, under "Saved" if something
was saved before. `wiped` is a history variable for that, and `OpenDialogIsHonest` names it as the one
difference there can be (`Shows`). A form has one request under way
(`sending`), the next edit waits (`queued`, htmx's default for forms) and a keystroke
waits for the pause (`pending`). The requests of different dialogs are handled in any
order, `ReadForSave` and `WriteSave`, `ReadForDiscard` and `DeleteDraft` apart. `typed`
and the author of the row are history variables, and so is `newer`: the row was
written from elsewhere since the dialog was opened or last saved, which no page of
this program can know. It is assumed that leaving a field fires its `change` before
the dialog closes, as browsers do. A discard that is lost leaves its draft, so `Losable`
does not contain discards in `input`; a save that is refused looks to the page like
one that is lost, so `Rejected` is empty there and used in `edited_draft`.

**Households** keeps the position of each household and the stored choice, which may
name one that is gone (`Active`). Choosing and deleting take several transactions
under the context of the request, so `Disconnect` may end them after any of them.
`lapse` is a history variable: one of the three known reasons why no household is
active has occurred.

**StatementTables** reads one file with one set of options. A cell is a record of what
is written in it; for amounts that is the groups of digits and the marks between
them, because on these the format depends. What reads a cell, a row or a table returns
the set of its readings, which is empty or has one element. `DetectTable` is the
function of the same name, for the file as it is and, in the properties, for choices
by hand and for the same movements written otherwise. `CollectAccounts` puts the rows
under their accounts one by one, as the loop of parseAccounts does. Writing the file is the bank's
part: any rows out of `Lines`.

**Cents** is the arithmetic of the reports: division that drops the fraction,
rounding with halves away from zero, the distribution of missing cents to the
largest remainders (`BalancedCents`), and the payments of a settlement
(`Transfers`), as the code's two indices walk along the sorted sides.

**HouseholdBook** is the part of the database that reports are made of: members,
categories with their direction, bookings with mode and shares, temporary amounts, the
decision, category and shares of each payment, closed months. One action per store
operation or review form. `Classify` is what creating and changing a category have in
common: a used category cannot be deleted, but it can be turned. A dialog looks its
category up in a list it read before the booking is stored, so a booking may get a
category that sorted it once (`Sorted`; `classified` is the history of the pairs of
category and direction), while a review checks it inside its transaction. An undecided
or ignored payment keeps the category it was given (`SetAside`). The upper limit of
amounts (`MaxSplitCents`) is left out, and a payment is reviewed with one category or none. The
payments are fixed by the constant `Statement`, because their import is
BankLedger's subject; whole months stand for dates, whole percents and cents for
the shares. What BankLedger, which knows no amounts of plans, takes as any valid
allocation is worked out here: by the owner, as planned, or as before
(`AllocationOfPlan`, `AllocationOfHistory`).

**Reports** works every report out of that state, for the three bases: the value
of a booking in a month (`EvaluateBooking`), totals and the typical month of a
period (`Averages`), month and period reports per member, coverage of income, fixed
costs, settlement, cost lines, and the figures of the matrix, the stacked chart,
the trend line and the flow chart. Values are records, breakdowns are sets of pairs.
An accepted payment reads as a booking with a negative id, as in `WithBankLedger`.
Go's cache of evaluated periods (`Prepare`) is a `LET`: a request evaluates one
snapshot.

**Plausibility** is the self-check of the settings page: the validation of the
stored rows and the second calculation with all its comparisons. While a row is
unsound, nothing is compared. `SelfCheckIsClean` says two things: of the rows, the check
can find only an amount or a share of a booking that is out of range (the dialogs take
them) and a category that was turned since a row was stored under it (`Turned`); and
wherever it finds none, the two calculations agree. That makes a reference the code itself
brings along the reference of the model.

**RateLimiter** counts tokens in ticks of the clock. `Stamp` reads the time, a later
step takes the lock and decides: requests are decided in another order than they
were stamped, and a bucket can be set back in time (`Refilled`). `used`, `granted`
and `answered` are history variables that hold what clients were given and when.

**UploadQueue** is the script of the import page. What a handler does between two
awaits is one step, written as a function of the script's state (`page`), so that a
step is the composition of the functions the code calls: `NextRound`, `SetAside`,
`RefreshStatus`. Up to four requests for parts of the page are under way, one for
each caller of `refreshPart`; a revision number is compared with the newest one only,
so each request remembers whether it is the newest (`Ask`, `Newest`). The server is
its generation, a count of changes and the mappings still open; ImportPreviews has
the server's side.

## 3. Runs

| run | module | properties | what it shows |
|---|---|---|---|
| review | MCReviews | OneDefaultAccount, ClosedMonthsReviewed, NoSilentDuplicate, ReuploadAddsNothing, ClosedHistoryFrozen, KeepsReviewBook | the review of two payments with equal identities, in two months, and later statements that contain them again |
| | | AnswersFitPayments, OnlyFreshAnswers, DecisionsStand | answers of the model are stored only for what they were given for, and reviews that overlap do not undo each other |
| matching | MCSmallParts | MatchesAreRecognised | the matching algorithm meets its specification |
| | | QuotaKept, RetryAfterHelps | the limiter keeps quota and promise although time runs back for it |
| | | ClosedMeansGone, QuietPageIsCurrent, NobodyWaitsInVain | the upload page is true to the server once it is quiet, and no file waits for nothing |
| sessions | MCSessions | NothingStaleWhileRunning, PreviewsFitTheData | nothing stale is written while the server runs |
| | | OnlyKnownLapses | that no household is active although there are some has one of three named reasons |
| ends | MCEndings | UploadsEnd, AnalysesEnd | every upload and every analysis ends and frees its gate |
| backup | MCPast | OnlyKnownObstacles, RestoreBringsBack | members, accounts, categories and plans come and go under a payment, and any backup is restored over any later book, refused for no fourth reason |
| | | AcceptedInAgreement, AcceptedAsDisplayed | what a page accepts duplicates nothing, goes to its plan or agrees with the history of its payee, and is what the page displays |
| prices | MCBookingPeriods | OneCurrentPrice, CountedOnce, AlwaysCarriedOn, NothingLost | prices of a booking neither overlap nor leave a month out, and one of them is carried on |
| reports | MCReports | SelfCheckIsClean | in every state, basis, scope, month and view the reports and the second calculation agree, and no stored row is unsound but for amounts out of range and categories that were turned |
| | | CentsAddUp, SettlementSquares | no cent is lost between members, months and breakdowns; transfers settle every claim with at most one payment less than members, and none is proposed while a booking is invalid |
| | | ClosedReportsStand | what is reported of a closed month stands while it is closed |
| input | MCInput | OpenDialogIsHonest, NoDeadDrafts, DiscardSparesOwn | what a dialog calls saved is stored, but for a suggested name that was clicked away, no untouched draft stays behind, and no discard takes what was typed in its own dialog |
| | | NumbersSpeak, NothingGuessed, RowsAreKept, SignsAreKept | formats and tables are not guessed, no row is lost or given to another account, no sign is turned |
| stale_page | MCImportPreviews | NothingFromBeforeReset (violated) | a page from before a reset and a restart |
| unrestorable | MCBackup | BackupsAreRestorable (violated) | a backup that cannot be restored |
| stale_dialog | MCBookingPeriods | NoPriceTwice (violated) | a dialog from before a price change |
| edited_draft | MCBookingDialog | OnlyBlankDiscarded (violated) | a draft that is edited between check and deletion |

Some properties are proved and need no run of their own: AcceptedComplete,
TransfersGoElsewhere, ReferencesExist, CurrentPriceIsLast, TableIsBounded, and what the
variables hold (`TypeOK`, `PeriodsTypeOK`, `LimiterTypeOK`, `SessionTypeOK`, `DeskTypeOK`).

The violation runs show four disagreements, quoted in `PROJECT.json`:

1. The generation starts over at zero with the process. A page loaded before a
   reset is current again after the next restart, and its upload lands in the
   replacement data.
2. Backups that `Import` refuses come out of legal histories, although a snapshot is
   said to survive a round trip. There are three ways: `DeleteMember` takes the last
   account while months are closed; `UpdateCategory` turns a category that payments
   use; `SaveBooking` turns the plan of a payment. `OnlyKnownObstacles` (run `backup`)
   says that there is no fourth.
3. A dialog opened before a price change in another tab posts the old end with its
   next edit, and both prices count in the months of the successor. The plausibility
   check of the application reports such overlaps afterwards.
4. A discard looks at the draft in one statement and deletes it in another; what
   another tab saves between them is deleted. From the same tab this cannot happen
   (`DiscardSparesOwn`, proved).

Others were met on the way and have no run:

* An edit that waits for the answer to the one before is lost when the dialog is
  closed meanwhile (`app.js:272-285`), without a message, although every field is said
  to be persisted when it changes. `OpenDialogIsHonest` speaks of open dialogs only.
* After the only household was deleted and a new one created, none is active: the
  choice still names the deleted one. It is one of the reasons `OnlyKnownLapses` names.
* A row of headings that names a column twice is passed over like a row that has no
  headings (`bankimport/table.go:238`); if others follow further down, the payments
  between are not read, and the file is accepted.
* The comment at `bankimport/csv.go:63` says that the row of headings is counted in
  records, but the number compared is that of the line the record begins in. An import
  reports the row of headings it used, which may be above 50 if lines are blank, and
  the form refuses to take that number back.
* `.github/copilot-instructions.md:33` says that amounts are never negative, but the
  dialogs take amounts below zero for a booking, a temporary amount and a price change
  (`ParseCents`), and the self-check then refuses to compare anything; the machine API
  refuses them (`api/bookings.go:450`). The `reports` run contains such a price, and
  `SelfCheckIsClean` names it as one of the two findings there can be.
* The other one is a used category that is turned from expense to income or back
  (`categories.go:78`), which nothing refuses: every row stored under it is a finding, and
  the self-check compares nothing until the category is turned back.
* After a click into the suggested name of a draft the page shows an empty name, and the
  row keeps the suggested one until the next edit (`app.js:188-195`).
* The comment at `calc/settlement.go:58-59` does not hold while a booking is invalid:
  positions are kept, transfers are not.

### Bounds

Bounds appear as constants and are named where they are used.

* `MaxRows` (BankLedger): payments ever stored. Two payments are the least with
  duplicates, twins inside a batch, interactions through a month and a statement
  that names a corrected payment and its neighbour in either order. `backup` has
  one payment, because each restore stores it again. An upload that would exceed
  the bound is not taken.
* `Inputs`, `BatchInputs`, `Uploads`, `Facts`: what a caller may ask for. They
  contain decisions the store must refuse (no category, accepted with a transfer
  target, shares a cent short), two spellings of one identity, two months.
* `Keys`, `MaxStored`, `MaxLines` (AugmentingPaths): three fingerprints make a
  chain of displacements, four lines over three payments leave one unmatched.
* `MaxEra`, `MaxStarts`, `MaxPreviews`, `Tokens` (ImportPreviews): two
  replacements let a generation be reached again after a restart; one preview fills
  the table, a second token shows whether more would fit.
* `Payments`, `Contents`, `Entries`, `Plans`, `Hinted`, `Requests`, `PartSize`
  (ReviewDesk): `review` has one payment with two spellings, a category that can be
  renamed, turned and deleted and that rules or the name of the account may suggest, one
  page, one form and one request, but no plan: each pair of them overlaps in every order,
  and payments only meet through their history. `backup` has three payments to one payee
  and a plan of its name that comes, goes and is made of a payment, without the model: two
  payments that disagree, also because one was booked under the plan, and a third that is
  suggested something. There a form is under way only while at most `MaxReviewed`
  payments are left or shown. `ends` has two requests for the gate and two parts, and two uploads for
  the other gate.
* `MaxBookings`, `LastMonth`, `YearLength`, `Typed`, `Bodies` (BookingPeriods): three
  bookings are a price change of a price change, of the past or of the present one;
  two years of two months let a period be carried once and end in mid-year. A
  booking that would exceed the bound is not created.
* `Refill`, `Burst`, `IdleTTL`, `Lag`, `LastTick`, `MaxBuckets` (RateLimiter): two
  requests per bucket, so that the quota, the refusal and the refill all happen; an
  idle time that lets a client be forgotten and come back before the clock stops;
  room for one of two clients, so that the table is full. A client that was forgotten
  is hardly served again before the clock stops; that this gains it nothing is what the
  theorem QuotaIsKept says for all clocks. TLC runs the limiter at the
  least idle time the assumption LimiterIsTuned allows; the theorems hold for all.
* `Files`, `MaxChanges`, `MaxGeneration`, `MaxGestures` (UploadQueue): two files are a
  run that stops with a file left over; two changes are a mapping that is created and
  closed, with a copy of the page from before; three gestures add, act and resume.
  That there are finitely many files (`QueueFiles`) is what a file picker gives.
* `MCForms`, `MCSpans`, `MCPrices`, `MCStatement`, `MaxBookings`, `MaxOverrides`
  (Reports): three members, two months, one of them past. The forms are an expense
  every second week in percent, a trip once in equal parts and a quarterly income
  with fixed shares; their amounts never come out even, a price is below zero, and
  two payments of one account are in the past month. Of three categories one comes, is
  turned from expense to income and goes (`MCCategoryForms`; not back, `TurnedOnce`), and
  of the two payments one at most is ignored with a category (`OneKept`). Two bookings make every pair of
  them, or one with its successor. One temporary amount at a time: two that compete
  for a month do not occur, nor do monthly and yearly rhythms, whose factors are of
  the same form.
* `Tabs`, `Contents`, `MaxDialogs` (BookingDialog): the dialog of a draft and a second
  one, in the same tab after the first is closed or in another tab; contents of a
  draft with its suggested name, with none, and with an amount. In `input` a name is
  clicked away, and saves are lost, in the dialog opened first (`FirstIsHit`).
* `Handlers`, `MaxIds` (Households): two requests overlap in every order; of three
  households one can be deleted, one be active and one be next.
* `MCLines`, `MCFiles`, `MCAsked`, `MaxRows`, `HeaderLimit`, `MaxPayments`
  (StatementTables): five layouts of headings, which together have every role and both
  forms of amounts; amounts and dates that can be read under one format, under both
  alike, under both differently and under none; two rows, the least of which one decides
  the format for the other, or belongs to another account. The limits of 50 rows and
  1,000 payments are 2 and 2, so both are reached. A zero with a minus is not among the
  amounts, and dates are read as in a year that is no leap year.
* Symmetry is used in `matching`, `sessions`, `backup`, `input` and `stale_page` only,
  over sets of model values that no operator orders, and in no run with a liveness
  property.

`matching` switches the deadlock check off, because the algorithm ends, the clock of
the limiter stops and the gestures are bounded; `input` and `edited_draft`, because
nobody has to open another dialog and a file is read once. Every other run checks for
deadlock.

### Fairness

Two properties need it, `UploadsEnd` and `AnalysesEnd`. A handler that has begun runs on: the upload context
ends after 180 seconds, SQLite transactions are finite, and Go's mutex hands over
to a goroutine that has waited for a millisecond, so a waiting handler is not
overtaken for ever. That is strong fairness of each upload's steps (they are
disabled whenever the mutex is taken) and weak fairness of `Publish`, the second
half of a replacement. An analysis runs in its request without waiting for
anybody, and the model answers or the context ends: weak fairness of each request's
steps. Users are never obliged to do anything. Both properties are checked in one run,
`ends`, under the fairness of both modules (`Fairness`); the part that rests has no
request under way, so its fairness asks for nothing.

## 4. Proofs

| module | theorems (`Spec => []P` or `Spec => P`) | rest on |
|---|---|---|
| BankLedgerProofs | TypeOK, ClosedMonthsReviewed, AcceptedComplete, TransfersGoElsewhere, ReferencesExist, OneDefaultAccount, NoSilentDuplicate, ClosedHistoryFrozen, KeepsReviewBook | `IInv` |
| | ReuploadAddsNothing | no invariant: what `Recognised` is when all lines can be matched |
| | of Backup: RestoreBringsBack, OnlyKnownObstacles, and `IInv` with restores | `BackupInv` |
| ReviewDeskProofs | DeskTypeOK, AnswersFitPayments, OnlyFreshAnswers, DecisionsStand, AcceptedAsDisplayed, AcceptedInAgreement | `DeskInv` |
| SessionsProofs | SessionTypeOK, NothingStaleWhileRunning, PreviewsFitTheData | `SessionInv` |
| | of Households: OnlyKnownLapses | `HouseholdInv` |
| BookingPeriodsProofs | PeriodsTypeOK, OneCurrentPrice, CountedOnce, CurrentPriceIsLast, AlwaysCarriedOn, NothingLost | `IInv` |
| InputProofs | of BookingDialog: DiscardSparesOwn | `DialogInv` |
| | OpenDialogIsHonest | `HonestInv` |
| | NoDeadDrafts, where no discard is lost | `DraftInv` |
| | of StatementTables: NumbersSpeak, NothingGuessed | no invariant: lemmas about reading |
| | RowsAreKept | `FileIsTables`; `Collected` after each row |
| SmallPartsProofs | of AugmentingPaths: MatchesAreRecognised | `MatchInv` |
| | of RateLimiter: LimiterTypeOK, QuotaKept, TableIsBounded, RetryAfterHelps | `LimiterInv` |
| | of UploadQueue: ClosedMeansGone, NobodyWaitsInVain, QuietPageIsCurrent | `QueueInv` |
| ReportsProofs | ClosedReportsStand | `EveryPaymentListed` |
| | CentsAddUp, SettlementSquares | `BookInv` |
| | of Plausibility: SelfCheckIsClean | `BookInv`, `RowsInv` and `FilesInv` |
| | of Cents: BalancedCentsAddUp, TransfersSquare | no invariant: theorems about the operators |

`BankLedgerProofs` proves what the ledger promises for every number of members,
accounts, categories, plans, months, files and payments.

The assumptions are those of BankLedger: None is no value, the seed gives each
member an account of its own, inputs are well typed, and facts have a month and a
natural amount. They hold in every run that extends the module, where TLC
evaluates them.

None of the invariants but the types is inductive alone, so they are proved
together as `IInv`:

* the types of plans need AcceptedComplete: the plan made of an accepted payment
  takes over its category, which must not be None;
* TransfersGoElsewhere and ReferencesExist need each other's account: deleting an
  account checks the targets of all payments, deleting a member the history of each
  of the member's accounts;
* OneDefaultAccount needs that every account has an owner among the members;
* NoSilentDuplicate needs that a batch is judged against the payments outside of it
  (`AcceptedTwins`) and within it (`NoTwins`).

`RowStep` describes what any transaction can do to one row (keep it, store it,
review it, unlink it, drop it); the preservation of each conjunct is a case split
over that. Lemmas about imports, categories, plans and members describe what is
left alone.

The refinement `KeepsReviewBook` maps a row to what the book says of it (`Standing`,
`BookedIn`, `CameFrom`). Each step of the ledger is a step of ReviewBook on all its rows
at once: an upload stores rows that are new, and exactly the ids from `nextRow` on
without a gap, so that no id turns from new to gone; a reset takes rows away only
together; single and batch reviews change decisions as the book allows. `IInv` is needed
for the closed months, which the book says stand still.

`ReuploadAddsNothing` needs none of this. If all lines of a statement together can have
payments of their own, then so can every set of them (`CoverableInPart`), and the
choice that defines `Recognised` has one value, all lines (`AllRecognised`).

A backup is refused by checks that look at the file alone, long after it was written.
`BackupInv` therefore says of the file what `IInv` says of the book, together with two
facts only restoring needs: shares are stored where a decision has some and add up, and
only months of the past are closed (`FileInv`; a file is a book of the past, so `Saved!`
carries the ledger's own invariants over to it). `IInv` promises everything `Import` asks
for but two things, which are the three known obstacles. Entering such rows again changes
nothing about them, so the restored book is the file, and `IInv` goes on.

`ReviewDeskProofs` assumes finite payments, typed inputs and that None is no value. The
invariant behind all six theorems adds to the types that a request keeps copies of the
payments it asks about, which were pending and had no category (`Snapshots`). So when the
payment still equals its copy, the answer may be stored, and only then it is. What can
happen to a payment at all is five things (`TouchedOrSame`: accepted as displayed,
classified, reviewed by a form, dropped, answered), and each property is a case split
over these. For AcceptedInAgreement: what is linked to a plan without a choice
by hand was linked by the suggestion of that plan, which brings the category the plan has
now; and without a plan, a history of one payee that names two categories suggests
nothing, so what is accepted is all the history says.

`SessionsProofs` proves that nothing stale is written, for any number of pages, uploads,
replacements and restarts. A generation counts replacements since the server was started,
`era` counts all of them, so their difference is fixed until the next start
(`EarlierRuns`): within one start a number stands for one data set, and a page or an
upload knows at least the data its number stands for (`PagesAreBehind`,
`UploadsKnowTheirData`). After a restart the difference changes, which is why the
property is confined to one start and the run `stale_page` finds its counterexample
beyond. For the households, some are chosen or a deletion under way will choose
(`ActiveOrExplained`), unless `lapse` says why not.

`BookingPeriodsProofs` proves, for every calendar, number of bookings, tabs,
requests, keys and periods typed or sent, `Spec => []P` for PeriodsTypeOK,
OneCurrentPrice, CountedOnce, CurrentPriceIsLast and AlwaysCarriedOn, and
`Spec => NothingLost`. It assumes that the calendar is finite, that years have a
month, that typed and sent periods are periods, and that None is no value. All
properties are one invariant, `IInv`: CountedOnce survives carrying only because the
price that is carried is the last of its family and the only current one, and a new
booking is nobody's relative only because ids are handed out in order
(`IdsInOrder`; the table is AUTOINCREMENT). `StepsOfTheBook` reduces all actions of
dialogs, pages and requests to five operations of the store, and one lemma per
operation preserves the invariant and keeps every planned month.

`SmallPartsProofs` proves `MatchSpec => []MatchesAreRecognised` for every ledger and
every statement: what the algorithm recognises is what `PaymentMatching` says, and no two
lines get one payment. `Recognised` is a CHOOSE, so there has to be such a set: lines are
added to it one by one, an induction on the statement (`SomeRecognised`). The payments
taken are those of the lines that had to be recognised so far (`LinesServed`). A search
that succeeds moves every key on its path by one payment, so one line more is served
(`OneMoreServed`). A search in vain has visited keys that hold every payment they could
have (`VisitedClosed`); with the new line there are more lines of these keys than payments,
so no assignment covers them (`VainSearch`, by the pigeonhole principle). At the end each
payment has a rank among those of its key, and each line one among its twins, of which the
earlier are recognised first (`EachRank`, `TwinsInOrder`). The assumptions are that None is
no key and that the bounds are numbers.

It also proves, for all clients, requests, rates and bounds that satisfy LimiterIsTuned, `LimiterSpec => []P` for LimiterTypeOK, QuotaKept and TableIsBounded,
and `LimiterSpec => RetryAfterHelps`. The argument is a potential. `tokens - seen` of
a bucket is not changed by time passing, forwards or backwards, falls by the cost of
each grant and is raised by nothing. With the history of the client it bounds the
grants from above, which is the quota, and it never falls below minus the time of the
last answer, which bounds the wait. Forgetting a client costs nothing because IdleTTL
leaves time to fill a bucket and for stamps to run back by Lag; the code has ten
minutes for the two its burst needs. Counting the table needs finite sets
(FiniteSetTheorems).

It also proves three properties of the upload page, for any number of files (finitely
many: `QueueFiles`), gestures, changes and replacements. `QueueInv` says of the script's
state, which is one record:

* every request that is under way belongs to a handler that waits for it (`Tied`), and of
  two for the same part one at most is the newest (`OneNewest`);
* a copy knows of every open mapping that is not younger than itself, and a copy that will
  still be shown knows the mappings the page waits for (`Named`). This is why an old copy
  cannot close a mapping: it was overtaken, or it is younger than the mapping;
* what will be shown is not older than what is shown (`Ordered`);
* what is queued has a run, or the user is told why not, and nothing is queued behind the
  button to resume (`Waits`);
* what the server confirmed is shown, or asked for by the newest request, or somebody who
  is under way will ask for it, or the page says that a refresh failed (`Covered`).

The functions of the script are composed in the model as they are in the code, so each
has a lemma of its own (`RunIsSound`, `SetAsideIs`, `RefreshIsSound`), and a step is the
sequence of its lemmas. The attempt showed two definitions whose CASE had overlapping
guards, which leaves open what they are (`Take`, `Fail`); they are disjoint now.

`InductionLemmas` holds what lets these proofs reason about recursive definitions over
sequences: induction as a statement about the set of the numbers that have a property,
and recursion as a statement about functions (`RecursionExists`, `RecursionKeeps`), since
theorems with an operator for a parameter cannot be cited. `Without`, what is left of a
queue, is treated that way. Its second half is the same over finite sets: a set grows
element by element (`SetsGrow`), and the sum over a set, which the community modules
define by whatever element CHOOSE picks first, is what it should be for every order
(`SumOfOneMore`). From that follow the sum of sums and differences, of unions, by groups,
under other names and of a table by rows or by columns.

`ReportsProofs` proves `Spec => ClosedReportsStand` for every household, calendar and
statement: the values of a closed month are a function of its accepted payments
(`ClosedMonthShowsPayments`), every step decides at most one payment, of an open month
(`StepDecides`), and the arithmetic need not be opened for that.

It also proves `Spec => []CentsAddUp` and `Spec => []SettlementSquares`, for any number of
members, months, bookings and payments and for any amounts, in four layers.

1. *The operators of Cents.* Rounding, half away from zero or toward it, stays less than
   one away from the quotient (`RoundNear`, `QuotientNear`). So what is missing after every
   share was rounded down is not negative and less than one cent for each share with a
   remainder, as many as there are, and the shares that get a cent more make up the total
   (`BalancedCentsAddUp`; the hypothesis that the total is less than one away from the
   exact sum is what every caller has to show). A round of the settlement pays a debtor or
   a creditor in full, so one account less is open, and after as many rounds as there are
   members nobody owes anything; the last one closes two, hence fewer transfers than
   members (`TransfersSquare`, by an invariant of the rounds, `Squaring`).
2. *The book.* `BookInv` is the inductive invariant: what is planned or paid has numbers
   where numbers belong, there are finitely many temporary amounts, and all parts are
   those of members. The last is what the properties need and what a step can really
   break: `DeleteMember` has to take the member out of every split, and the decision
   on a payment, also one taken over from the history, must not name anybody who left.
3. *Values.* Every value of a month is sound (`Sound`): its parts are those of members and
   make, with what is unassigned, its cents, and nothing is unassigned where the split is
   complete (`Evaluated`). So are the totals of a period (`TotalsAreSound`) and the typical month,
   whose means are balanced once per side and once per booking (`AveragesAreSound`).
4. *Reports.* The rest is the exchange of sums: members by values and values by members,
   natures and classes as groups (`WholeIsItsParts`), payers and carriers
   (`NetsAreLevel`, `LedgerAddsUp`).

Last, it proves `Spec => []SelfCheckIsClean`. The rows first: beside `BookInv`, the
invariant `RowsInv` says that payers are members, that periods begin before they end, that
the names of temporary amounts are unique, that an accepted payment is divided to the cent
among members, and that no payment of a closed month is undecided; and `FilesInv` that
every booking and every payment with a category has one that exists and has had their
direction at some time (`classified`), which is what a row that the check calls wrong
then needs for its category to have been turned (`SourcesStayClean`). What a step can
break is again the departure of a member, closing a month, and the deletion of a category.

Then the two calculations, in a state where the check compares at all (`Comparable`: the
invariants, and no finding among the rows). They differ in how they come to a figure, and
the lemmas follow those differences one by one.

1. *Cents.* The reports round down and count who is ahead; the reference cuts, sorts by
   remainder and gives one cent to each of the first. A sorted sequence exists and its
   k-th element has k - 1 elements before it (`SortingSorts`), and on numbers that are
   not negative cutting is rounding down (`AllocationsAgree`).
2. *Months.* Intervals, temporary amounts (the latest that covers the month), percentages,
   fixed and equal parts and accepted payments come out alike, and nobody gets less than
   nothing (`PlansAgree`, `PaymentsAgree`, `MonthsAgree`).
3. *Periods.* The reference adds and divides per booking what the reports take from the
   totals (`PeriodsAgree`, `TypicalAgrees`). The report of a single month is not averaged
   in the code, so the mean of one month has to be the month (`TypicalOfOne`).
4. *Views.* Reports leave out who does not carry a booking, the reference does not; a
   value that is not carried costs nothing (`ScopeOfMost`, `ReportsAgree`). Coverage of
   income is asked of entries in one and of values in the other (`CoveredIsTold`). A row
   of the matrix, its median too, is compared cell by cell (`FiguresAgree`,
   `MatricesAgree`). In the flow, the trunk passes on the greater of income and expense
   and every class what its leaves make, those drawn as one included (`FlowIsKept`,
   `DashboardChecksOut`). `ScopeChecksOut` and `BasisChecksOut` put them together.

What the theorem does not say is that either calculation is right; CentsAddUp and
SettlementSquares are about that.

For these proofs the sums of Cents, Reports and Plausibility are written as sums of
functions (`SumFunction`) and the sorted lists of the reference as a choice by a relation
(`Sorting`), since the provers cannot open an operator that takes an operator. HouseholdBook
says what it had left open: the fields of a form, the types of typed amounts, that
a temporary amount does not end before it begins (`ValidateDateRange`), that
there is a month, and that a statement has finitely many payments.

`InputProofs` proves three properties for any number of tabs and dialogs and any
contents. For DiscardSparesOwn, the invariant `DialogInv` says, beside types: requests and
rows name dialogs that exist (NumbersAreOld), a dialog is in one tab (OneTabEach), and
three things about dialogs that were not typed into: while open, their fields are
blank, and so is what they have sent or stored (SilentDrafts); once closed they are not
open again (PartedDrafts); and a discard is only sent by such a dialog
(SilentDiscards). So between the two statements of a discard, its own dialog can only
make the row another blank draft.

For OpenDialogIsHonest, a dialog has one save under way at most (OneSaveEach), which
carries its field unless something newer waits in the page (SentOrWaiting); once the save
is stored, or when there is none, the row is that field unless it was written from
elsewhere (RowIsKnown). A name that was clicked away since the last post is the
exception SentOrWaiting and RowIsKnown make, as the property does: every post carries the empty name and
ends it. For NoDeadDrafts, as long as nothing was typed everything is alike
blank (AllAlike), and a blank row has an open dialog that will discard it or a discard
under way (Discarded). That theorem assumes that no discard is lost on its way: the code
sends it once, and a lost one does leave its draft, as TLC shows when `Losable` names it.

It also proves, for all files, options and limits,
`TablesSpec => []NumbersSpeak` and `TablesSpec => []NothingGuessed`. For the first: if a
text has a mark at all, the last group has one or two digits where the mark is read as decimal,
and three where it is read as thousands, so no text is an amount both ways unless both
are the same (`OneAmount`); rows and columns inherit that. For the second: a choice by
hand only removes tables that the automatic choice had to consider (`SameTable`), the
headings do not depend on formats (`SameSearch`), and rows depend on a format only
through their amounts and dates (`SameRows`), which the automatic choice compared
(`DetectedReadsTheSame`). The assumption is that the form offers the formats it does
(`FormOptions`).

And it proves `TablesSpec => []RowsAreKept`, for any number of rows and accounts. After
every row the accounts are the rows so far (`Collected`): no two have the same key, each
holds as many payments as there are rows of its key, and at each place the payment of the
row that has this place among them (`OneMoreRow`, by cases: a row of a known account, of
a new one, or a blank one). The function by recursion that collects them exists since all
its values are accounts (`StepsExist`), and reaches the last row by induction
(`AllCollected`). Then accounts and sources are counted one to one (`ParsedAreKept`), which
needs that two rows have the same key if and only if the same is written in their
account cells. The property says of a payment all that is read of its row, date,
name and amount. The assumption is that files are tables of rows (`FilesAreTables`),
which stays so when a row is written (`FileIsTables`).

Checked only on small instances by TLC: `SignsAreKept` (it rewrites whole tables with columns
inserted, and is only true of tables whose other columns the new headings leave alone,
which no assumption shorter than the property says), and all liveness.

## 5. Not modelled, and the plan

The modules stand for about a sixth of the lines of the repository's implementation,
and much more is hardly to be had. Of about 40,000 lines, 20,600 are written by the
template compiler (`*_templ.go`), 1,400 are catalogs of translations, and most of the
rest of `internal/web` renders pages, exports and labels: they keep no state, and
nothing but their wording could be said of them.

Left out for good:

* PDF files and calls of the external model (ImportPreviews and ReviewDesk take any
  outcome), and of statement files the encodings, the quoting of CSV, the archive around
  a workbook, the spelling of words and numbers and limits of length;
* rendering, exports, labels, icons, translations, configuration, migrations, request
  headers, compression, logging;
* layout of charts, scales, trends, percentages and targets, tags, the order of lines,
  and the warnings and row counts of the self-check;
* on the upload page: the months of the review list, cards and rows kept back while
  they are being edited, files of a wrong kind, a second mapping or review action
  beside the first, an upload that the server stores after the page has given it up;
* that a failing line of an upload or a failing payment of a batch leaves nothing behind:
  `withTx` undoes a transaction, and the model has a transaction as one step;
* in the booking dialog: entries the browser refuses to post, and the price change and
  the temporary amounts, which have requests of their own (BookingPeriods,
  HouseholdBook).

What could follow:

1. **Pairs of transfers** in ReviewDesk, and drafts in HouseholdBook.
2. A larger instance of Reports with two temporary amounts, once the self-check need
   not be evaluated in every state.
3. Proofs: `SignsAreKept`, once it is said which tables new headings leave alone.
