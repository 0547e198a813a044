------------------------------ MODULE MCBackup ------------------------------
(***************************************************************************)
(* Small instances of Backup: one payment, one month, two members.         *)
(***************************************************************************)
EXTENDS Backup, MCBankLedger

BackupFacts == {RentJan}
Suggested(f, c, p) == [Line(a1, f) EXCEPT !.category = c, !.plan = p]

BackupInputs ==
    {Verdict(RentJan, "pending", c1, None, AllOf(m2)),
     Verdict(RentJan, "accepted", c1, None, HalfEach),
     Verdict(RentJan, "transfer", None, a2, NoSplits),
     Verdict(RentJan, "transfer", None, a1, NoSplits)}
BackupUploads == {<<Line(a1, RentJan)>>, <<Line(a2, RentJan)>>, <<Suggested(RentJan, None, p1)>>}
=============================================================================
