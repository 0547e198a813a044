----------------------------- MODULE MCDeskSamples ----------------------------
(***************************************************************************)
(* What small instances of ReviewDesk are made of: payments to one payee,  *)
(* whose contents differ by spelling or by day, and a rule that knows the  *)
(* payee.                                                                  *)
(***************************************************************************)
CONSTANTS c1, c2, None

SampleContents == {"Gym 5 Jan", "GYM 5 Jan", "Gym 9 Jan"}
SampleNormal == [x \in {"Gym 5 Jan", "GYM 5 Jan", "Gym 9 Jan"} |-> IF x = "GYM 5 Jan" THEN "Gym 5 Jan" ELSE x]
SampleSubject == [x \in SampleContents |-> "gym"]
SampleRule == [x \in SampleContents |-> {"Gym"}]
SampleMentions == [x \in SampleContents |-> {"Gym"}]

Draft(x, c, d, allowed) ==
    [content |-> x, category |-> c, plan |-> None, draft |-> TRUE, decision |-> d, allowed |-> allowed]
Type(x, c, d, allowed) == [Draft(x, c, d, allowed) EXCEPT !.draft = FALSE]

\* Analysis: edits to another spelling or day, drafts, decisions.
AnalysisContents == {"Gym 5 Jan", "GYM 5 Jan"}
AnalysisInputs == {Draft("GYM 5 Jan", None, "pending", FALSE),
                   Type("Gym 5 Jan", c1, "pending", FALSE),
                   Type("Gym 5 Jan", c1, "accepted", FALSE),
                   Type("Gym 5 Jan", None, "ignored", FALSE)}
AnalysisPlans == {[name |-> "Gym", category |-> c1]}

\* History: payments to one payee that are accepted under two categories, by
\* hand and by a plan that names the payee.
HistoryContents == {"Gym 5 Jan", "Gym 9 Jan"}
HistoryInputs == {Type("Gym 5 Jan", None, "pending", FALSE),
                  Type("Gym 9 Jan", c1, "accepted", TRUE)}
HistoryPlans == {[name |-> "Gym", category |-> c2]}
=============================================================================
