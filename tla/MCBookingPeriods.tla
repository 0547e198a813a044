--------------------------- MODULE MCBookingPeriods ---------------------------
(***************************************************************************)
(* Small instances of BookingPeriods: years of two months.                 *)
(***************************************************************************)
EXTENDS BookingPeriods

Late == [from |-> 2, until |-> LastMonth]
NoDates == [from |-> None, until |-> None]
OpenEnd == [from |-> None, until |-> Forever]
SomeBodies == {NoDates, OpenEnd}
ByHand == {Late}
=============================================================================
