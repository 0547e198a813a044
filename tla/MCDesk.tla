-------------------------------- MODULE MCDesk --------------------------------
(***************************************************************************)
(* The review desk under names of its own, to stand beside another part    *)
(* in one run, and what the runs say about it.                             *)
(***************************************************************************)
EXTENDS Naturals, FiniteSets

CONSTANTS
    DeskPayments, DeskContents, DeskNormal, DeskSubject, DeskCategories, Entries, Expense,
    DeskRule, DeskHinted, DeskPlans, PlanForms, Mentions,
    Models, Pages, DeskForms, DeskInputs, Requests, PartSize, Absent

\* The assumptions of ReviewDesk.
ASSUME DeskIsFinite == PartSize \in Nat \ {0} /\ IsFiniteSet(DeskPayments)
ASSUME DeskIsTyped ==
    /\ Expense \subseteq Entries
    /\ DeskInputs \subseteq [content: DeskContents, category: DeskCategories \cup {Absent},
                              plan: DeskPlans \cup {Absent}, draft: BOOLEAN,
                              decision: {"pending", "accepted", "ignored"}, allowed: BOOLEAN]
    /\ \A x \in DeskContents : DeskNormal[x] \in DeskContents
    /\ \A typed \in PlanForms : typed.category \in DeskCategories
ASSUME AbsentIsNothing ==
    /\ Absent \notin DeskCategories \cup Entries \cup Models \cup Requests \cup DeskPlans
    /\ Absent \notin PlanForms

VARIABLES payment, catalogue, budget, model, page, form, gate, request

deskVars == <<payment, catalogue, budget, model, page, form, gate, request>>

D == INSTANCE ReviewDesk WITH
         Payments <- DeskPayments, Contents <- DeskContents, Normal <- DeskNormal,
         Subject <- DeskSubject, Categories <- DeskCategories, Rule <- DeskRule,
         Hinted <- DeskHinted, Plans <- DeskPlans,
         Tabs <- Pages, Reviews <- DeskForms, Inputs <- DeskInputs, catalog <- catalogue,
         None <- Absent

\* An answer kept with a pending payment was given for exactly that payment,
\* whatever was edited, decided or reopened while the model was thinking
\* (SaveBankAnalyses, ReviewBankTransaction).
AnswersFitPayments == D!AnswersFitPayments

\* No answer is stored that was given for other payments, other categories or
\* by another model than the present one ("review.analysisChanged").
OnlyFreshAnswers == D!OnlyFreshAnswers

\* A decision stands until it is reopened: neither an answer that arrives late
\* nor a page that is out of date changes a decided payment; only its plan may
\* be deleted, or made from it.
DecisionsStand == D!DecisionsStand

\* What is accepted from a page is stored with the content, the category and
\* the plan that page displays, under the names it displays, however old the
\* page is (quickBankPayment, handleBankBatch).
AcceptedAsDisplayed == D!AcceptedAsDisplayed

\* What is accepted from a page duplicates no other payment.  Unless someone
\* chose its category or its allocation by hand, it goes to the category of the
\* plan it is booked under, as that is now, or, without a plan, to nothing the
\* history of the payee contradicts (describeImport, proposeImport).
AcceptedInAgreement == D!AcceptedInAgreement
=============================================================================
