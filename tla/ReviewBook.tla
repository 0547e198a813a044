----------------------------- MODULE ReviewBook -----------------------------
(***************************************************************************)
(* What the bank ledger promises its user about every payment, whatever    *)
(* else the household does: nothing is decided except by a decision, a     *)
(* decision is changed only by reopening it, accepted payments are never   *)
(* taken out one by one, where a payment came from is never rewritten,     *)
(* and a closed month stands still.                                        *)
(***************************************************************************)
CONSTANTS Ids, Months, Unknown

VARIABLES
    state,     \* how far each payment has come
    booked,    \* the month it is booked in, Unknown unless it is in the book
    origin,    \* the statement line it was imported from, Unknown likewise
    shut       \* the closed months

bookVars == <<state, booked, origin, shut>>

States == {"new", "pending", "accepted", "aside", "gone"}
Present(r) == state[r] \in {"pending", "accepted", "aside"}
InOpenMonth(r) == booked[r] \notin shut

BookInit ==
    /\ state = [r \in Ids |-> "new"]
    /\ booked = [r \in Ids |-> Unknown]
    /\ origin = [r \in Ids |-> Unknown]
    /\ shut = {}

Keeps(r) ==
    state'[r] = state[r] /\ booked'[r] = booked[r] /\ origin'[r] = origin[r]

\* An import enters payments to be reviewed.
Enters(r) ==
    /\ state[r] = "new"
    /\ state'[r] = "pending"
    /\ booked'[r] \notin shut \cup {Unknown}
    /\ origin'[r] # Unknown

\* A pending payment is corrected, accepted or set aside.
IsRuled(r) ==
    /\ state[r] = "pending"
    /\ state'[r] \in {"pending", "accepted", "aside"}
    /\ InOpenMonth(r) /\ booked'[r] \notin shut
    /\ origin'[r] = origin[r]

\* A decision is taken back, possibly correcting the payment.
IsReopened(r) ==
    /\ state[r] \in {"accepted", "aside"}
    /\ state'[r] = "pending"
    /\ InOpenMonth(r) /\ booked'[r] \notin shut
    /\ origin'[r] = origin[r]

\* A payment that was not accepted is withdrawn with its statement.
IsWithdrawn(r) ==
    /\ state[r] \in {"pending", "aside"}
    /\ InOpenMonth(r)
    /\ state'[r] = "gone"

EnterStatement == \A r \in Ids : Keeps(r) \/ Enters(r)
Rule == \A r \in Ids : Keeps(r) \/ IsRuled(r)
Reopen == \E r \in Ids : IsReopened(r) /\ \A t \in Ids \ {r} : Keeps(t)
Withdraw == \A r \in Ids : Keeps(r) \/ IsWithdrawn(r)

ChangePayments == (EnterStatement \/ Rule \/ Reopen \/ Withdraw) /\ shut' = shut

\* A month is closed once every payment booked in it is decided.
Shut == /\ \A r \in Ids : Keeps(r)
        /\ \A r \in Ids : booked[r] \in shut' \ shut => state[r] # "pending"
        /\ shut \subseteq shut'

Unshut == (\A r \in Ids : Keeps(r)) /\ shut' \subseteq shut

\* The household starts over: everything leaves the book.
StartOver ==
    /\ \A r \in Ids : state'[r] = IF Present(r) THEN "gone" ELSE state[r]
    /\ shut' = {}

BookNext == ChangePayments \/ Shut \/ Unshut \/ StartOver

BookSpec == BookInit /\ [][BookNext]_bookVars
=============================================================================
