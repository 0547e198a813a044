------------------------------ MODULE ReviewDesk ------------------------------
(***************************************************************************)
(* Reviewing payments with suggestions (internal/web: import_analysis.go,  *)
(* import_suggestions.go, import_batch.go, import_quick_review.go,         *)
(* handleBankReview; internal/store: bank_analysis.go).                    *)
(*                                                                         *)
(* A page shows the pending payments with what is suggested for them.      *)
(* While it is open, payments are edited and decided in other tabs, the    *)
(* categories, the plans and the model change, and an external model takes *)
(* minutes to answer.  Acceptance from the page and answers of the model   *)
(* are checked again inside the transaction that stores them.              *)
(*                                                                         *)
(* The payments are expenses of one account.  Months, allocations and      *)
(* transfers are in BankLedger, generations in ImportPreviews: what they   *)
(* refuse is only missing here, so everything the program does is allowed. *)
(* A plan that is not active in the month, or of the other direction, is   *)
(* one whose name no payment mentions.                                     *)
(***************************************************************************)
EXTENDS Naturals, FiniteSets

CONSTANTS
    Payments,
    Contents,      \* payee, reference, date and amount of a payment
    Normal,        \* a content without case and extra spaces
    Subject,       \* what makes payments one history (historyKey)
    Categories,
    Entries,       \* name and direction of a category
    Expense,       \* the entries whose direction is the one of the payments
    Rule,          \* the entries a merchant rule or a name suggests
    Hinted,        \* the entries the name of the account suggests
    Plans,
    PlanForms,     \* name and category of a plan
    Mentions,      \* the names of plans that occur in a payment
    Models,        \* deployments of the external model
    Tabs,          \* pages of the month
    Reviews,       \* requests of handleBankReview
    Inputs,        \* what is typed into its form
    Requests,      \* requests of handleBankAnalysis
    PartSize,      \* payments sent to the model at once, 50 in the code
    None

ASSUME PartsAreFinite == PartSize \in Nat \ {0} /\ IsFiniteSet(Payments)
ASSUME ContentsAreTyped ==
    /\ Expense \subseteq Entries
    /\ Inputs \subseteq [content: Contents, category: Categories \cup {None},
                          plan: Plans \cup {None}, draft: BOOLEAN,
                          decision: {"pending", "accepted", "ignored"}, allowed: BOOLEAN]
    /\ \A x \in Contents : Normal[x] \in Contents
    /\ \A typed \in PlanForms : typed.category \in Categories
ASSUME NoneIsAbsent ==
    /\ None \notin Categories \cup Entries \cup Models \cup Requests \cup Plans
    /\ None \notin PlanForms

VARIABLES
    payment,     \* payments of the household, Gone when discarded
    catalog,     \* the entry of each category, None if there is none
    budget,      \* name and category of each plan, None if there is none
    model,       \* the deployment chosen in the settings, None if none is
    page,        \* what each tab shows of each payment, Gone for nothing
    form,        \* how far each detailed review is
    gate,        \* the request that holds analysisGate
    request      \* how far each analysis is

vars == <<payment, catalog, budget, model, page, form, gate, request>>
settings == <<catalog, budget, model>>
analysis == <<gate, request>>

Catalogs == [Categories -> Entries \cup {None}]
Decisions == {"pending", "accepted", "ignored"}
Gone == [decision |-> "gone"]
Answers == [content: Contents, catalog: Catalogs, model: Models,
            category: Categories \cup {None}]
NoAnswer == [model |-> None]
\* The draft is an allocation that is kept while the payment is pending.
Records == [decision: Decisions, content: Contents, category: Categories \cup {None},
            plan: Plans \cup {None}, draft: BOOLEAN, answer: Answers \cup {NoAnswer}]
Titles == {typed.name : typed \in PlanForms}
Shown == [original: Records, category: Categories \cup {None}, entry: Entries \cup {None},
          plan: Plans \cup {None}, title: Titles \cup {None}]
NoForm == [payment |-> None]
Forms == [payment: Payments, new: Records, allowed: BOOLEAN]
Idle == [phase |-> "idle"]

Present == {p \in Payments : payment[p] # Gone}
InState(d) == {p \in Present : payment[p].decision = d}
Content(p) == payment[p].content
Answer(p) == payment[p].answer

\* A payment as it was uploaded, with a plan if it mentioned just one.
Fresh(x) == [decision |-> "pending", content |-> x, category |-> None, plan |-> None,
             draft |-> FALSE, answer |-> NoAnswer]
PlansIn(x) == {b \in Plans : budget[b] # None /\ budget[b].name \in Mentions[x]}
Uploaded ==
    {Fresh(x) : x \in Contents} \cup
    UNION {{[Fresh(x) EXCEPT !.plan = b, !.category = budget[b].category] :
               b \in {q \in PlansIn(x) : PlansIn(x) = {q}}} : x \in Contents}

Init ==
    /\ budget \in [Plans -> PlanForms \cup {None}]
    /\ payment \in [Payments -> Uploaded]
    /\ catalog \in [Categories -> Expense]
    /\ model \in Models \cup {None}
    /\ page = [t \in Tabs |-> [p \in Payments |-> Gone]]
    /\ form = [v \in Reviews |-> NoForm]
    /\ gate = None
    /\ request = [r \in Requests |-> Idle]

-----------------------------------------------------------------------------
(***************************************************************************)
(* What is suggested for a payment (importRows).                           *)
(***************************************************************************)
Usable(c) == c # None /\ catalog[c] \in Expense

\* Accepted payments with the subject of p, by category.
History(p) ==
    {payment[q].category : q \in {a \in InState("accepted") : Subject[Content(a)] = Subject[Content(p)]}}

RuleMatches(p) == {c \in Categories : Usable(c) /\ catalog[c] \in Rule[Content(p)]}
AccountMatches == {c \in Categories : Usable(c) /\ catalog[c] \in Hinted}

\* bankAnalysisKey: an answer holds for one payment, before a category or a
\* plan is chosen, and for one catalog.
KeyFits(p) ==
    /\ Answer(p) # NoAnswer
    /\ payment[p].category = None /\ payment[p].plan = None
    /\ Normal[Answer(p).content] = Normal[Content(p)]
    /\ Answer(p).catalog = catalog

\* Where the suggestion comes from before the model is asked (proposeImport):
\* what was chosen by hand or at the upload, the only plan that is mentioned,
\* the history, a rule, the name of the account.  A draft gets no suggestion.
Local(p) ==
    IF payment[p].plan # None THEN "plan"
    ELSE IF payment[p].category # None THEN "manual"
    ELSE IF payment[p].draft THEN "draft"
    ELSE IF Cardinality(PlansIn(Content(p))) = 1 THEN "mentioned"
    ELSE IF Cardinality(History(p)) > 1 THEN "conflict"
    ELSE IF History(p) # {} THEN "history"
    ELSE IF Cardinality(RuleMatches(p)) = 1 THEN "rule"
    ELSE IF RuleMatches(p) = {} /\ Cardinality(AccountMatches) = 1 THEN "account"
    ELSE "none"

\* The answer of the model comes before the name of the account only.
Source(p) ==
    IF Local(p) \in {"draft", "account", "none"} /\ KeyFits(p) /\ Usable(Answer(p).category)
    THEN "ai" ELSE Local(p)

ProposedPlan(p) ==
    IF Source(p) = "mentioned" THEN CHOOSE b \in PlansIn(Content(p)) : TRUE ELSE payment[p].plan

Proposed(p) ==
    CASE Source(p) = "mentioned" -> budget[ProposedPlan(p)].category
      [] Source(p) = "history"   -> CHOOSE c \in History(p) : TRUE
      [] Source(p) = "rule"      -> CHOOSE c \in RuleMatches(p) : TRUE
      [] Source(p) = "account"   -> CHOOSE c \in AccountMatches : TRUE
      [] Source(p) = "ai"        -> Answer(p).category
      [] OTHER                   -> payment[p].category

Duplicates(p) ==
    {q \in InState("pending") \cup InState("accepted") :
        q # p /\ Normal[Content(q)] = Normal[Content(p)]}

IsComplete(p) == Usable(Proposed(p))
CanQuick(p) == Usable(Proposed(p)) /\ Duplicates(p) = {}

Title(b) == IF b \in Plans /\ budget[b] # None THEN budget[b].name ELSE None

\* ReviewToken: the payment and the proposal as they are displayed.
Token(p) == [original |-> payment[p], category |-> Proposed(p),
             entry |-> IF Usable(Proposed(p)) THEN catalog[Proposed(p)] ELSE None,
             plan |-> ProposedPlan(p), title |-> Title(ProposedPlan(p))]

ShowPage(t) ==
    /\ page' = [page EXCEPT ![t] = [p \in Payments |->
                   IF p \in InState("pending") THEN Token(p) ELSE Gone]]
    /\ UNCHANGED <<payment, settings, form, analysis>>

-----------------------------------------------------------------------------
(***************************************************************************)
(* Storing a decision (ReviewBankTransaction).  An answer of the model is  *)
(* dropped whenever a payment is stored as pending.                        *)
(***************************************************************************)
KeepAnswer(new) == new
WithoutAnswer(new) == IF new.decision = "pending" THEN [new EXCEPT !.answer = NoAnswer] ELSE new

AcceptedTwins(p, content) ==
    {q \in InState("accepted") \ {p} : Normal[Content(q)] = Normal[content]}

AnyDecision(p, new, allowed) ==
    /\ p \in Present
    /\ new.category # None => Usable(new.category)
    /\ new.plan # None => budget[new.plan] # None
    /\ new.decision = "accepted" =>
           new.category # None /\ (allowed \/ AcceptedTwins(p, new.content) = {})
Reviewable(p, new, allowed) ==
    /\ p \in Present
    /\ payment[p].decision = "pending" \/ new.decision = "pending"
    /\ new.category # None => Usable(new.category)
    /\ new.plan # None => budget[new.plan] # None
    /\ new.decision = "accepted" =>
           new.category # None /\ (allowed \/ AcceptedTwins(p, new.content) = {})

(***************************************************************************)
(* From the page: one payment (handleQuickBankReview) or several of them   *)
(* (handleBankBatch), all or none, each one as the page shows it.          *)
(***************************************************************************)
SameRow(t, p) ==
    /\ p \in InState("pending")
    /\ page[t][p] # Gone
    /\ page[t][p].original = payment[p]
AsDisplayed(t, p) == p \in InState("pending") /\ page[t][p] = Token(p)

Accepted(p) == [payment[p] EXCEPT !.decision = "accepted", !.draft = FALSE,
                                  !.category = Proposed(p), !.plan = ProposedPlan(p)]

\* A batch is refused when one of its payments is; two equal payments are
\* duplicates of each other and never in it.
AcceptDisplayed(t, batch) ==
    /\ batch # {}
    /\ \A p \in batch :
          /\ AsDisplayed(t, p)
          /\ CanQuick(p)
          /\ Reviewable(p, Accepted(p), FALSE)
    /\ payment' = [p \in Payments |-> IF p \in batch THEN Accepted(p) ELSE payment[p]]
    /\ UNCHANGED <<settings, page, form, analysis>>

QuickReview(t, p) == AcceptDisplayed(t, {p})

\* The selected payments get a category and stay pending, with the plan that is
\* suggested for them, or with the suggested allocation if none is.
Classified(p, c) ==
    WithoutAnswer([payment[p] EXCEPT !.category = c, !.plan = ProposedPlan(p),
                                     !.draft = (ProposedPlan(p) = None)])

ClassifyDisplayed(t, batch, c) ==
    /\ batch # {}
    /\ Usable(c)
    /\ \A p \in batch : AsDisplayed(t, p)
    /\ \A p \in batch : Reviewable(p, Classified(p, c), FALSE)
    /\ payment' = [p \in Payments |-> IF p \in batch THEN Classified(p, c) ELSE payment[p]]
    /\ UNCHANGED <<settings, page, form, analysis>>

(***************************************************************************)
(* The detailed form (handleBankReview) carries no token.  The payment is  *)
(* read first: if it is pending, what was typed replaces it, otherwise     *)
(* only the decision is taken from the form.  It is stored in a            *)
(* transaction of its own.                                                 *)
(***************************************************************************)
SubmitReview(v, p, typed) ==
    /\ form[v] = NoForm
    /\ p \in Present
    /\ form' = [form EXCEPT ![v] =
                   [payment |-> p, allowed |-> typed.allowed,
                    new |-> [decision |-> typed.decision,
                             content |-> IF payment[p].decision = "pending"
                                         THEN typed.content ELSE Content(p),
                             category |-> IF payment[p].decision = "pending"
                                          THEN typed.category ELSE payment[p].category,
                             plan |-> IF payment[p].decision = "pending"
                                      THEN typed.plan ELSE payment[p].plan,
                             draft |-> typed.draft /\ typed.decision = "pending",
                             answer |-> NoAnswer]]]
    /\ UNCHANGED <<payment, settings, page, analysis>>

\* The review writes every column but the answer, which it keeps or drops.
StoreReview(v) ==
    /\ form[v] # NoForm
    /\ LET p == form[v].payment
           new == form[v].new
       IN IF Reviewable(p, new, form[v].allowed)
          THEN payment' = [payment EXCEPT ![p] = WithoutAnswer([new EXCEPT !.answer = Answer(p)])]
          ELSE payment' = payment
    /\ form' = [form EXCEPT ![v] = NoForm]
    /\ UNCHANGED <<settings, page, analysis>>

\* A statement is discarded with the payments that were not accepted.
Discard(p) ==
    /\ p \in Present \ InState("accepted")
    /\ payment' = [payment EXCEPT ![p] = Gone]
    /\ UNCHANGED <<settings, page, form, analysis>>

-----------------------------------------------------------------------------
(***************************************************************************)
(* Settings.                                                               *)
(***************************************************************************)
SaveCategory(c, entry) ==
    /\ entry # catalog[c]
    /\ entry = None =>
           /\ \A p \in Present : payment[p].category # c
           /\ \A b \in Plans : budget[b] # None => budget[b].category # c
    /\ catalog' = [catalog EXCEPT ![c] = entry]
    /\ UNCHANGED <<payment, budget, model, page, form, analysis>>

\* A plan is created or changed; payments that were booked under it stay.
SavePlan(b, typed) ==
    /\ typed # budget[b]
    /\ catalog[typed.category] # None
    /\ budget' = [budget EXCEPT ![b] = typed]
    /\ UNCHANGED <<payment, catalog, model, page, form, analysis>>

\* The payments of a plan that is deleted lose their link to it, nothing else.
DeletePlan(b) ==
    /\ budget[b] # None
    /\ budget' = [budget EXCEPT ![b] = None]
    /\ payment' = [p \in Payments |->
                      IF p \in Present /\ payment[p].plan = b THEN [payment[p] EXCEPT !.plan = None]
                      ELSE payment[p]]
    /\ UNCHANGED <<catalog, model, page, form, analysis>>

\* An accepted payment becomes a plan under its own name.
CreatePlanFromPayment(p, b) ==
    /\ p \in InState("accepted")
    /\ payment[p].plan = None
    /\ budget[b] = None
    /\ \E typed \in PlanForms :
          /\ typed.name \in Mentions[Content(p)]
          /\ typed.category = payment[p].category
          /\ budget' = [budget EXCEPT ![b] = typed]
    /\ payment' = [payment EXCEPT ![p].plan = b]
    /\ UNCHANGED <<catalog, model, page, form, analysis>>

SetAIDeployment(m) ==
    /\ m # model
    /\ model' = m
    /\ UNCHANGED <<payment, catalog, budget, page, form, analysis>>

-----------------------------------------------------------------------------
(***************************************************************************)
(* The analysis (handleBankAnalysis).                                      *)
(***************************************************************************)
Candidate(p) ==
    /\ p \in InState("pending")
    /\ Duplicates(p) = {}
    /\ payment[p].category = None
    /\ ProposedPlan(p) = None
    /\ Source(p) # "conflict"
    /\ Source(p) = "account" \/ ~Usable(Proposed(p))
    /\ ~KeyFits(p)

ReceiveAnalysis(r) ==
    /\ request[r] = Idle
    /\ request' = [request EXCEPT ![r] = [phase |-> "received"]]
    /\ UNCHANGED <<payment, settings, page, form, gate>>

\* Only one analysis at a time; the others are sent away.
AdmitAnalysis(r) ==
    /\ request[r].phase = "received"
    /\ IF gate = None
       THEN gate' = r /\ request' = [request EXCEPT ![r].phase = "admitted"]
       ELSE gate' = gate /\ request' = [request EXCEPT ![r] = Idle]
    /\ UNCHANGED <<payment, settings, page, form>>

LeaveGate(r) == request' = [request EXCEPT ![r] = Idle] /\ gate' = gate
End(r) == request' = [request EXCEPT ![r] = Idle] /\ gate' = None

\* The model is read before the payments.
ReadModel(r) ==
    /\ request[r].phase = "admitted"
    /\ IF model = None THEN End(r)
       ELSE /\ request' = [request EXCEPT ![r] = [phase |-> "model", model |-> model]]
            /\ gate' = gate
    /\ UNCHANGED <<payment, settings, page, form>>

\* The selected payments that can be analysed, in one snapshot.
ReadSnapshot(r, selected) ==
    /\ request[r].phase = "model"
    /\ LET candidates == {p \in selected : Candidate(p)}
       IN IF candidates = {} THEN End(r)
          ELSE /\ request' = [request EXCEPT ![r] =
                      [phase |-> "asking", model |-> @.model, catalog |-> catalog,
                       expected |-> [p \in candidates |-> payment[p]]]]
               /\ gate' = gate
    /\ UNCHANGED <<payment, settings, page, form>>

Expected(r) == request[r].expected
Pending(r) == DOMAIN Expected(r)

Parts(todo) ==
    {part \in SUBSET todo : Cardinality(part) = IF Cardinality(todo) < PartSize
                                                THEN Cardinality(todo) ELSE PartSize}

\* ParseClassification: an existing category of the right direction, or none.
Choices(r) == {None} \cup {c \in Categories : request[r].catalog[c] \in Expense}

\* The model answers for a part, or fails, or the time is up.
ModelAnswers(r) ==
    /\ request[r].phase = "asking"
    /\ \E part \in Parts(Pending(r)) : \E chosen \in [part -> Choices(r)] :
          request' = [request EXCEPT ![r] =
              [phase |-> "answered", model |-> @.model, catalog |-> @.catalog,
               expected |-> @.expected, chosen |-> chosen]]
    /\ UNCHANGED <<payment, settings, page, form, gate>>

ModelFails(r) ==
    /\ request[r].phase = "asking"
    /\ End(r)
    /\ UNCHANGED <<payment, settings, page, form>>

\* What SaveBankAnalyses compares before it stores a part.
AnyModel(r) == request[r].catalog = catalog
SameSettings(r) == request[r].model = model /\ request[r].catalog = catalog
Unchanged(r, p) == payment[p] = Expected(r)[p]

AnswerFor(r, p) == [content |-> Expected(r)[p].content, catalog |-> request[r].catalog,
                    model |-> request[r].model, category |-> request[r].chosen[p]]

AskOn(r, left) ==
    /\ request' = [request EXCEPT ![r] =
          [phase |-> "asking", model |-> @.model, catalog |-> @.catalog,
           expected |-> [p \in left |-> @.expected[p]]]]
    /\ gate' = gate
NextPart(r, left) ==
    IF left = {} THEN End(r) ELSE AskOn(r, left)

SaveBankAnalyses(r) ==
    /\ request[r].phase = "answered"
    /\ LET part == DOMAIN request[r].chosen
       IN /\ SameSettings(r)
          /\ \A p \in part : Unchanged(r, p)
          /\ payment' = [p \in Payments |->
                            IF p \in part THEN [payment[p] EXCEPT !.answer = AnswerFor(r, p)]
                            ELSE payment[p]]
          /\ NextPart(r, Pending(r) \ part)
    /\ UNCHANGED <<settings, page, form>>

\* A part that is stale ends the request; parts stored before it stay.
RejectStale(r) ==
    /\ request[r].phase = "answered"
    /\ ~SameSettings(r) \/ \E p \in DOMAIN request[r].chosen : ~Unchanged(r, p)
    /\ End(r)
    /\ UNCHANGED <<payment, settings, page, form>>

-----------------------------------------------------------------------------
Review ==
    \/ \E t \in Tabs : ShowPage(t)
    \/ \E t \in Tabs, p \in Payments : QuickReview(t, p)
    \/ \E t \in Tabs, batch \in SUBSET Payments : AcceptDisplayed(t, batch)
    \/ \E t \in Tabs, batch \in SUBSET Payments, c \in Categories : ClassifyDisplayed(t, batch, c)
    \/ \E v \in Reviews, p \in Payments, typed \in Inputs : SubmitReview(v, p, typed)
    \/ \E v \in Reviews : StoreReview(v)
    \/ \E p \in Payments : Discard(p)

Settle ==
    \/ \E c \in Categories, entry \in Entries \cup {None} : SaveCategory(c, entry)
    \/ \E b \in Plans, typed \in PlanForms : SavePlan(b, typed)
    \/ \E b \in Plans : DeletePlan(b)
    \/ \E p \in Payments, b \in Plans : CreatePlanFromPayment(p, b)
    \/ \E m \in Models \cup {None} : SetAIDeployment(m)

Handle(r) ==
    \/ AdmitAnalysis(r)
    \/ ReadModel(r)
    \/ \E selected \in SUBSET Payments : ReadSnapshot(r, selected)
    \/ ModelAnswers(r)
    \/ ModelFails(r)
    \/ SaveBankAnalyses(r)
    \/ RejectStale(r)

Next ==
    \/ Review
    \/ Settle
    \/ \E r \in Requests : ReceiveAnalysis(r) \/ Handle(r)

Spec == Init /\ [][Next]_vars

\* An analysis that has begun runs on: every call of the model ends, with the
\* timeout of 180 seconds at the latest.
Fairness == \A r \in Requests : WF_vars(Handle(r))
FairSpec == Spec /\ Fairness

-----------------------------------------------------------------------------
(***************************************************************************)
(* Properties.                                                             *)
(***************************************************************************)
Working == [phase: {"received", "admitted"}] \cup [phase: {"model"}, model: Models]
Busy(q) == /\ q.phase \in {"asking", "answered"}
           /\ q.model \in Models
           /\ q.catalog \in Catalogs
           /\ DOMAIN q.expected \in (SUBSET Payments) \ {{}}
           /\ \A p \in DOMAIN q.expected : q.expected[p] \in Records
           /\ q.phase = "answered" =>
                 /\ DOMAIN q.chosen \subseteq DOMAIN q.expected
                 /\ DOMAIN q.chosen # {}
                 /\ \A p \in DOMAIN q.chosen : q.chosen[p] \in Categories \cup {None}

\* What the variables hold.
DeskTypeOK ==
    /\ payment \in [Payments -> Records \cup {Gone}]
    /\ catalog \in Catalogs
    /\ budget \in [Plans -> PlanForms \cup {None}]
    /\ model \in Models \cup {None}
    /\ page \in [Tabs -> [Payments -> Shown \cup {Gone}]]
    /\ form \in [Reviews -> Forms \cup {NoForm}]
    /\ gate \in Requests \cup {None}
    /\ DOMAIN request = Requests
    /\ \A r \in Requests : request[r] \in Working \cup {Idle} \/ Busy(request[r])

\* An answer kept with a pending payment was given for exactly that payment,
\* whatever was edited, decided or reopened while the model was thinking
\* (SaveBankAnalyses, ReviewBankTransaction).
AnswersFitPayments ==
    \A p \in InState("pending") : Answer(p) # NoAnswer =>
        /\ payment[p].category = None
        /\ payment[p].plan = None
        /\ Answer(p).content = Content(p)

\* No answer is stored that was given for other payments, other categories or
\* by another model than the present one ("review.analysisChanged").
OnlyFreshAnswers ==
    [][\A p \in Present :
          payment'[p] # Gone /\ payment'[p].answer \notin {Answer(p), NoAnswer} =>
              /\ payment[p].decision = "pending"
              /\ payment'[p] = [payment[p] EXCEPT !.answer = payment'[p].answer]
              /\ payment'[p].answer.content = Content(p)
              /\ payment'[p].answer.catalog = catalog
              /\ payment'[p].answer.model = model]_vars

\* Only the link to the plan of p is cut or made.
Relinked(p) ==
    \E b \in Plans \cup {None} :
        /\ payment'[p] = [payment[p] EXCEPT !.plan = b]
        /\ None \in {b, payment[p].plan}

\* A decision stands until it is reopened: neither an answer that arrives late
\* nor a page that is out of date changes a decided payment; only its plan may
\* be deleted, or made from it.
DecisionsStand ==
    [][\A p \in Present : payment[p].decision # "pending" =>
          \/ payment'[p] \in {payment[p], Gone}
          \/ payment'[p].decision = "pending"
          \/ Relinked(p)]_vars

FromPage(p) ==
    /\ payment[p].decision = "pending"
    /\ payment'[p] # Gone /\ payment'[p].decision = "accepted"
    /\ form' = form

\* What is accepted from a page is stored with the content, the category and
\* the plan that page displays, under the names it displays, however old the
\* page is (quickBankPayment, handleBankBatch).
AcceptedAsDisplayed ==
    [][\A p \in Present : FromPage(p) =>
          \E t \in Tabs :
              /\ page[t][p] # Gone
              /\ page[t][p].original.content = payment'[p].content
              /\ page[t][p].category = payment'[p].category
              /\ page[t][p].entry = catalog[payment'[p].category]
              /\ page[t][p].plan = payment'[p].plan
              /\ page[t][p].title = Title(payment'[p].plan)]_vars

\* What is accepted from a page duplicates no other payment.  Unless someone
\* chose its category or its allocation by hand, it goes to the category of the
\* plan it is booked under, as that is now, or, without a plan, to nothing the
\* history of the payee contradicts (describeImport, proposeImport).
AcceptedInAgreement ==
    [][\A p \in Present : FromPage(p) =>
          /\ Duplicates(p) = {}
          /\ payment[p].category = None /\ ~payment[p].draft =>
                IF payment'[p].plan # None
                THEN payment'[p].category = budget[payment'[p].plan].category
                ELSE History(p) \subseteq {payment'[p].category}]_vars

\* Every analysis ends and frees the gate for the next one.
AnalysesEnd ==
    /\ \A r \in Requests : request[r] # Idle ~> request[r] = Idle
    /\ \A r \in Requests : gate = r ~> gate # r
=============================================================================
