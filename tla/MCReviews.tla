------------------------------- MODULE MCReviews -------------------------------
(***************************************************************************)
(* The review of payments: in the store, of two payments with equal        *)
(* identities, and at the desk, of one payment in two spellings while the  *)
(* model thinks about it.  The two share no state here: one moves while    *)
(* the other rests in one of its initial states.                           *)
(***************************************************************************)
EXTENDS MCBankLedger, MCDesk

CONSTANT c2

INSTANCE MCDeskSamples WITH None <- Absent

DeskRests ==
    /\ D!Init /\ model = Absent
    /\ \A b \in DeskPlans : budget[b] = Absent
    /\ \A p \in DeskPayments : payment[p].content = "Gym 5 Jan"
    /\ \A c \in DeskCategories : catalogue[c] = "Club"

LedgerRests == Init /\ \A c \in Categories : categories[c] = "expense"

ReviewsInit == Init /\ D!Init /\ (LedgerRests \/ DeskRests)

ReviewsNext ==
    \/ DeskRests /\ Next /\ UNCHANGED deskVars
    \/ LedgerRests /\ D!Next /\ UNCHANGED vars

ReviewsSpec == ReviewsInit /\ [][ReviewsNext]_<<vars, deskVars>>
=============================================================================
