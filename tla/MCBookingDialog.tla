--------------------------- MODULE MCBookingDialog ----------------------------
(***************************************************************************)
(* A small instance of BookingDialog: a draft, what a click into its name  *)
(* leaves of it, and with an amount; in edited_draft also with an amount   *)
(* out of range.  What is picked there, another payer, is not told apart.  *)
(***************************************************************************)
EXTENDS BookingDialog, TLC

Either == Permutations(Tabs)

Held(name, rest) == [name |-> name, rest |-> rest]

DraftFresh == Held("suggested", "empty")
DraftContents == {DraftFresh, Held("none", "empty"), Held("none", "amount")}
DraftUnfilled == {"empty"}

Huge == Held("none", "huge")
FilledContents == DraftContents \cup {Huge}
FilledRejected == {Huge}
=============================================================================
