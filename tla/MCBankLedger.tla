---------------------------- MODULE MCBankLedger ----------------------------
(***************************************************************************)
(* Small instances of BankLedger.                                          *)
(***************************************************************************)
EXTENDS BankLedger, TLC

CONSTANTS m1, m2, a1, a2, c1, p1, jan, feb, d1

MCMonth == [d \in {"5 Jan", "9 Feb"} |-> IF d = "5 Jan" THEN jan ELSE feb]
MCNormal == [t \in {"Rent", "RENT"} |-> "rent"]

Payment(day, dir, text) == [bookedOn |-> day, direction |-> dir, cents |-> 2, text |-> text]
RentJan == Payment("5 Jan", "expense", "Rent")
RentLoud == Payment("5 Jan", "expense", "RENT")
RentFeb == Payment("9 Feb", "expense", "Rent")

OneEach == m1 :> a1 @@ m2 :> a2
OneMember == m1 :> a1

AllOf(who) == [m \in Members |-> IF m = who THEN 2 ELSE None]
HalfEach == [m \in Members |-> 1]
CentShort == [m \in Members |-> IF m = m2 THEN 1 ELSE None]

Verdict(f, decision, c, a, shares) ==
    [fact |-> f, decision |-> decision, category |-> c, plan |-> None,
     transfer |-> a, splits |-> shares]

\* Decisions the store takes, and decisions it must refuse.
Sound(f) == {Verdict(f, "pending", None, None, NoSplits),
             Verdict(f, "pending", c1, None, AllOf(m2)),
             Verdict(f, "accepted", c1, None, HalfEach),
             Verdict(f, "ignored", None, None, NoSplits),
             Verdict(f, "transfer", None, a2, NoSplits)}
Unsound(f) == {Verdict(f, "accepted", None, None, AllOf(m1)),
               Verdict(f, "accepted", c1, a2, AllOf(m1)),
               Verdict(f, "accepted", c1, None, CentShort)}

Line(a, fact) == [account |-> a, fact |-> fact, category |-> None, plan |-> None,
                  transfer |-> None]

\* Review: two payments, two spellings of one identity, two months.
ReviewFacts == {RentJan, RentLoud, RentFeb}
ReviewInputs == UNION {Sound(f) \cup Unsound(f) : f \in ReviewFacts}
ReviewBatches == {v \in UNION {Sound(f) : f \in {RentJan, RentFeb}} : v.decision # "ignored"}
ReviewUploads == {<<Line(a1, RentJan)>>, <<Line(a1, RentFeb)>>, <<Line(a2, RentLoud)>>,
                  <<Line(a1, RentJan), Line(a1, RentLoud)>>, <<Line(a1, RentFeb), Line(a1, RentJan)>>}
=============================================================================
