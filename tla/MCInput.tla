-------------------------------- MODULE MCInput -------------------------------
(***************************************************************************)
(* What users bring in: by the dialog of a booking, and by the file of a   *)
(* statement.  They share no state: one part moves while the other rests   *)
(* in one of its initial states.                                           *)
(***************************************************************************)
EXTENDS MCBookingDialog, MCStatementTables

DialogRests == DialogInit /\ dialogs = 0
TablesRest ==
    /\ file = [kind |-> "csv", tables |-> <<Table(<<Signed>>)>>]
    /\ asked = Ask(0, "auto", "auto", 0, <<>>)
    /\ result = Unread

InputInit == TablesInit /\ DialogInit /\ (TablesRest \/ DialogRests)

\* A bound: the name is clicked and saves are lost in the dialog that was
\* opened first only; the other one is its rival.
FirstIsHit ==
    /\ \A t \in Tabs : Open(t) /\ page[t].wiped => page[t].id = 1
    /\ \A q \in requests : q.at = "failed" /\ Stored => q.by = 1

InputNext ==
    \/ TablesRest /\ DialogNext /\ FirstIsHit' /\ UNCHANGED tableVars
    \/ DialogRests /\ TablesNext /\ UNCHANGED dialogVars

InputSpec == InputInit /\ [][InputNext]_<<dialogVars, tableVars>>
=============================================================================
