------------------------------ MODULE MCSessions ------------------------------
(***************************************************************************)
(* What requests find when they come to write: uploads while the data are  *)
(* replaced, and choices of a household while households come and go.  The *)
(* two share no state here: one moves while the other rests where it       *)
(* starts.                                                                 *)
(***************************************************************************)
EXTENDS MCImportPreviews

CONSTANTS Handlers, MaxIds

VARIABLES order, selected, nextId, doing, saved, lapse

householdVars == <<order, selected, nextId, doing, saved, lapse>>

H == INSTANCE Households

SessionsInit == Init /\ H!Init

SessionsNext ==
    \/ H!Init /\ Next /\ UNCHANGED householdVars
    \/ Init /\ H!Next /\ UNCHANGED vars

SessionsSpec == SessionsInit /\ [][SessionsNext]_<<vars, householdVars>>

\* When no household is active although there are some, then for a known reason:
\* the last one had been deleted, a deletion was cut short, or a household was
\* chosen while it was being deleted (handleHouseholdDelete, ActiveHouseholdID).
OnlyKnownLapses == H!OnlyKnownLapses
=============================================================================
