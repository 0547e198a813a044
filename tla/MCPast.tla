-------------------------------- MODULE MCPast --------------------------------
(***************************************************************************)
(* What the past is kept for: the backups of a household, and what a payee *)
(* was booked under before, with three payments to one payee and no model, *)
(* and detailed forms for as many of them as a bound allows.               *)
(* The two share no state here: one moves while the other rests in one of  *)
(* its initial states.                                                     *)
(***************************************************************************)
EXTENDS MCBackup, MCDesk, TLC

CONSTANTS
    c2,
    MaxReviewed   \* bound on the payments left or shown while a form is sent

INSTANCE MCDeskSamples WITH None <- Absent

DeskRests ==
    /\ D!Init
    /\ \A b \in DeskPlans : budget[b] = Absent
    /\ \A p \in DeskPayments : payment[p].content = "Gym 5 Jan"

LedgerRests == BackupInit /\ \A c \in Categories : categories[c] = "expense"

InView == D!Present \cup {p \in DeskPayments : \E t \in Pages : page[t][p] # D!Gone}
FewReviewed ==
    (\E v \in DeskForms : form[v] # D!NoForm) => Cardinality(InView) <= MaxReviewed

PastInit == BackupInit /\ D!Init /\ (LedgerRests \/ DeskRests)

PastNext ==
    \/ DeskRests /\ BackupNext /\ UNCHANGED deskVars
    \/ LedgerRests /\ D!Next /\ FewReviewed' /\ UNCHANGED backupVars

PastSpec == PastInit /\ [][PastNext]_<<backupVars, deskVars>>

Interchangeable == Permutations(DeskPayments)
=============================================================================
