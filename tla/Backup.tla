------------------------------- MODULE Backup -------------------------------
(***************************************************************************)
(* Backups of the household book (internal/store/snapshot.go and           *)
(* bank_snapshot.go): Export reads everything in one transaction into a    *)
(* file, Import empties the database and enters the file's rows again,     *)
(* with their ids, through the same checks every new row passes.  If one   *)
(* of them fails, the transaction is rolled back and nothing is restored.  *)
(*                                                                         *)
(* One household is modelled.  The enums of a hand-edited file, which      *)
(* Import repairs, are outside the model: a file is one that Export wrote. *)
(***************************************************************************)
EXTENDS BankLedger

VARIABLE file    \* the backup kept outside of the application, None before

backupVars == <<vars, file>>

Contents ==
    [members |-> members, owner |-> owner, default |-> default, imports |-> imports,
     rows |-> rows, closed |-> closed, categories |-> categories, plans |-> plans,
     confirmed |-> confirmed]

BackupInit == Init /\ file = None

Export ==
    /\ file' = Contents
    /\ UNCHANGED vars

-----------------------------------------------------------------------------
(***************************************************************************)
(* Import enters the rows of the file through the checks of the ledger, so *)
(* these are evaluated on the contents of the file.                        *)
(***************************************************************************)
Saved == INSTANCE BankLedger WITH
    members <- file.members, owner <- file.owner, default <- file.default,
    imports <- file.imports, rows <- file.rows, closed <- file.closed,
    categories <- file.categories, plans <- file.plans, confirmed <- file.confirmed

\* A payment that was set aside must not carry shares.
NoStrayShares(p) == p.decision \notin {"accepted", "pending"} => p.splits = NoSplits

PaymentAccepted(r) ==
    /\ file.rows[r].import \in file.imports
    /\ Saved!KnownReferences(file.rows[r])
    /\ Saved!CompleteDecision(file.rows[r], Saved!AccountOf(r))
    /\ Saved!ValidAllocation(file.rows[r])
    /\ NoStrayShares(file.rows[r])

DirectionsAccepted(r) == Saved!MatchingDirections(file.rows[r])

\* Every closed month is closed again by SetMonthReconciled.
MonthAccepted(month) ==
    /\ month \in PastMonths
    /\ Saved!OpenAccounts # {}
    /\ Saved!PendingIn(month) = {}

Acceptable ==
    /\ \A a \in Saved!OpenAccounts : file.owner[a] \in file.members
    /\ \A i \in file.imports : file.owner[i[1]] # None
    /\ \A r \in Saved!Used : PaymentAccepted(r) /\ DirectionsAccepted(r)
    /\ \A month \in file.closed : MonthAccepted(month)

DecidedShares(p) == IF p.decision = "accepted" THEN p.splits ELSE NoSplits
EnteredWithoutDraft(p) == [p EXCEPT !.splits = DecidedShares(p)]
EnteredForReview(p) == [p EXCEPT !.decision = "pending"]
Entered(p) == [p EXCEPT !.splits = StoredSplits(p)]

\* The account ensureMemberBankAccount marks for a member: the default one, if
\* the file has one.  Every member of a file owns an account (OneDefaultAccount).
Preferred(m) ==
    CHOOSE a \in Saved!OwnedBy(m) :
        Saved!OwnedBy(m) \cap file.default # {} => a \in file.default

\* The rows keep their ids, all of them handed out before; the counter stands.
Import ==
    /\ file # None
    /\ Acceptable
    /\ members' = file.members
    /\ owner' = file.owner
    /\ default' = file.default \cup {Preferred(m) : m \in file.members}
    /\ imports' = file.imports
    /\ rows' = [r \in RowIds |-> IF r \in Saved!Used THEN Entered(file.rows[r]) ELSE None]
    /\ closed' = file.closed
    /\ categories' = file.categories
    /\ plans' = file.plans
    /\ confirmed' = file.confirmed
    /\ UNCHANGED <<nextRow, file>>

BackupNext ==
    \/ Next /\ UNCHANGED file
    \/ Export
    \/ Import

BackupSpec == BackupInit /\ [][BackupNext]_backupVars

-----------------------------------------------------------------------------
(***************************************************************************)
(* Properties.                                                             *)
(***************************************************************************)

\* What a restore leaves behind is what was exported, whatever happened to the
\* book in between: members, defaults, decisions, drafts, links and months.
RestoreBringsBack == [][Import => Contents' = file]_backupVars

\* A backup is refused for no other reason than the three below, whatever was
\* deleted or decided before it was written (DeleteMember, DeleteBankAccount,
\* DeleteCategory, DeleteBooking, ReviewBankTransaction).
OnlyKnownObstacles ==
    file # None =>
        \/ Acceptable
        \/ \E r \in Saved!Used : ~DirectionsAccepted(r)
        \/ file.closed # {} /\ Saved!OpenAccounts = {}

\* Snapshot is called "everything the application stores, in one structure that
\* survives a round trip through a file" (snapshot.go).  It does not, after
\* UpdateCategory or SaveBooking turned what a payment uses from expense to
\* income, or after the last account went with its member while months are closed.
BackupsAreRestorable == file # None => Acceptable
=============================================================================
