--------------------------- MODULE ReviewDeskProofs ---------------------------
(***************************************************************************)
(* Theorems about ReviewDesk, for any payments, categories, models, pages, *)
(* forms and requests.                                                     *)
(*                                                                         *)
(* An answer is stored long after it was asked for.  What makes it safe is *)
(* the copy each request keeps of the payments it asked about (Snapshots): *)
(* they were pending and without a category or a plan, and a payment that  *)
(* still equals its copy is the one the answer was given for.              *)
(***************************************************************************)
EXTENDS MCDesk, FiniteSetTheorems, TLAPS

Copies(q) ==
    q.phase \in {"asking", "answered"} =>
        \A p \in DOMAIN q.expected : /\ q.expected[p].decision = "pending"
                                     /\ q.expected[p].category = Absent
                                     /\ q.expected[p].plan = Absent

Snapshots == \A r \in Requests : Copies(request[r])

DeskInv == D!DeskTypeOK /\ Snapshots /\ AnswersFitPayments

-----------------------------------------------------------------------------
(***************************************************************************)
(* What payments, pages and requests are.                                  *)
(***************************************************************************)
\* A discarded payment is none of the records.
LEMMA RecordsAreThere == \A x \in D!Records : x # D!Gone
  <1>1. "gone" \notin D!Decisions  BY DEF D!Decisions
  <1>2. \A x \in D!Records : x.decision \in D!Decisions  BY DEF D!Records
  <1>3. D!Gone.decision = "gone"  BY DEF D!Gone
  <1> QED  BY <1>1, <1>2, <1>3

\* A payment in any state is one of the records.
LEMMA PresentIsRecord ==
    ASSUME D!DeskTypeOK, NEW p \in D!Present
    PROVE  p \in DeskPayments /\ payment[p] \in D!Records
  BY DEF D!Present, D!DeskTypeOK

\* A record that is displayed says what it displays, so it is not Gone.
LEMMA ShownIsThere == \A x \in D!Shown : x # D!Gone
  <1> SUFFICES ASSUME NEW x \in D!Shown PROVE x # D!Gone  OBVIOUS
  <1>1. DOMAIN x = {"original", "category", "entry", "plan", "title"}  BY DEF D!Shown
  <1>2. DOMAIN D!Gone = {"decision"}  BY DEF D!Gone
  <1> QED  BY <1>1, <1>2

\* A request that asks or was answered has read a model and payments.
LEMMA AskingIsBusy ==
    ASSUME D!DeskTypeOK, NEW r \in Requests, request[r].phase \in {"asking", "answered"}
    PROVE  D!Busy(request[r])
  <1>1. request[r] \in D!Working \cup {D!Idle} \/ D!Busy(request[r])  BY DEF D!DeskTypeOK
  <1>2. ASSUME request[r] \in D!Working \cup {D!Idle} PROVE FALSE
    <2>1. request[r].phase \in {"received", "admitted", "model", "idle"}
      BY <1>2 DEF D!Working, D!Idle
    <2> QED  BY <2>1
  <1> QED  BY <1>1, <1>2

\* The desk counts as the library does.
LEMMA DeskCounts == \A S : D!Cardinality(S) = Cardinality(S)
  BY Zenon DEF D!Cardinality, Cardinality

\* The payments of a history are finitely many.
LEMMA HistoryIsFinite ==
    ASSUME NEW p
    PROVE  IsFiniteSet(D!History(p))
  <1> DEFINE same == {a \in D!InState("accepted") :
                         DeskSubject[D!Content(a)] = DeskSubject[D!Content(p)]}
             Cat(q) == payment[q].category
  <1>1. IsFiniteSet(same)
    <2>1. same \subseteq DeskPayments  BY DEF D!InState, D!Present
    <2> QED  BY <2>1, FS_Subset, DeskIsFinite
  <1>2. IsFiniteSet({Cat(q) : q \in same})
    <2> DEFINE image == {Cat(q) : q \in same}
               f == [q \in same |-> Cat(q)]
    <2>1. f \in [same -> image]  OBVIOUS
    <2>2. \A c \in image : \E q \in same : f[q] = c  OBVIOUS
    <2>3. f \in Surjection(same, image)
      <3> HIDE DEF same, Cat, image, f
      <3> QED  BY <2>1, <2>2 DEF Surjection
    <2> HIDE DEF same, Cat, image, f
    <2>4. IsFiniteSet(image)  BY <1>1, <2>3, FS_Surjection
    <2> QED  BY <2>4 DEF image
  <1> QED  BY <1>2 DEF D!History

\* A set with one element has an element.
LEMMA OneIsThere ==
    ASSUME NEW S, D!Cardinality(S) = 1
    PROVE  S # {}
  BY DeskCounts, FS_EmptySet

\* What is suggested comes from the model or is what was there before it.
LEMMA AskedOrLocal ==
    ASSUME NEW p
    PROVE  \/ D!Source(p) = D!Local(p)
           \/ D!Source(p) = "ai" /\ D!KeyFits(p) /\ D!Local(p) \in {"draft", "account", "none"}
  BY DEF D!Source

\* A suggestion of proposeImport has what it suggests.
LEMMA LocalIsThere ==
    ASSUME NEW p
    PROVE  /\ D!Local(p) # "ai"
           /\ D!Local(p) = "mentioned" => D!Cardinality(D!PlansIn(D!Content(p))) = 1
           /\ D!Local(p) = "history" => D!History(p) # {}
           /\ D!Local(p) = "rule" => D!Cardinality(D!RuleMatches(p)) = 1
           /\ D!Local(p) = "account" => D!Cardinality(D!AccountMatches) = 1
  BY DEF D!Local

\* A plan that is suggested because it is mentioned exists.
LEMMA MentionedIsPlan ==
    ASSUME D!DeskTypeOK, NEW p, D!Source(p) = "mentioned"
    PROVE  D!ProposedPlan(p) \in DeskPlans /\ budget[D!ProposedPlan(p)] \in PlanForms
  <1>1. D!Local(p) = "mentioned"  BY AskedOrLocal
  <1>2. D!Cardinality(D!PlansIn(D!Content(p))) = 1  BY <1>1, LocalIsThere
  <1>3. D!PlansIn(D!Content(p)) # {}  BY <1>2, OneIsThere
  <1>4. D!ProposedPlan(p) \in D!PlansIn(D!Content(p))  BY <1>3 DEF D!ProposedPlan
  <1> HIDE DEF D!ProposedPlan
  <1> QED  BY <1>4 DEF D!PlansIn, D!DeskTypeOK

\* The plan that is suggested is one of the plans or nothing.
LEMMA ProposedIsPlan ==
    ASSUME D!DeskTypeOK, NEW p \in D!Present
    PROVE  D!ProposedPlan(p) \in DeskPlans \cup {Absent}
  <1>1. CASE D!Source(p) = "mentioned"  BY <1>1, MentionedIsPlan
  <1>2. CASE D!Source(p) # "mentioned"
    <2>1. payment[p].plan \in DeskPlans \cup {Absent}  BY PresentIsRecord DEF D!Records
    <2> QED  BY <1>2, <2>1 DEF D!ProposedPlan
  <1> QED  BY <1>1, <1>2

\* The title of a plan is one of the names, or nothing.
LEMMA TitleIsName ==
    ASSUME D!DeskTypeOK, NEW b
    PROVE  D!Title(b) \in D!Titles \cup {Absent}
  BY DEF D!Title, D!Titles, D!DeskTypeOK

\* What is suggested is a category or nothing.
LEMMA ProposedIsCategory ==
    ASSUME D!DeskTypeOK, NEW p \in D!Present
    PROVE  D!Proposed(p) \in DeskCategories \cup {Absent}
  <1>0. payment[p] \in D!Records  BY PresentIsRecord
  <1>1. CASE D!Source(p) = "mentioned"
    <2>1. budget[D!ProposedPlan(p)] \in PlanForms  BY <1>1, MentionedIsPlan
    <2> QED  BY <1>1, <2>1, DeskIsTyped DEF D!Proposed
  <1>2. CASE D!Source(p) = "history"
    <2>1. D!History(p) # {}  BY <1>2, AskedOrLocal, LocalIsThere
    <2>2. D!Proposed(p) \in D!History(p)  BY <1>2, <2>1 DEF D!Proposed
    <2>3. D!History(p) \subseteq DeskCategories \cup {Absent}
      <3>1. \A q \in D!InState("accepted") : payment[q] \in D!Records
        BY PresentIsRecord DEF D!InState
      <3>2. \A q \in D!InState("accepted") : payment[q].category \in DeskCategories \cup {Absent}
        BY <3>1 DEF D!Records
      <3> QED  BY <3>2 DEF D!History
    <2> QED  BY <2>2, <2>3
  <1>3. CASE D!Source(p) = "rule"
    <2>1. D!RuleMatches(p) # {}  BY <1>3, AskedOrLocal, LocalIsThere, OneIsThere
    <2>2. D!Proposed(p) \in D!RuleMatches(p)  BY <1>3, <2>1 DEF D!Proposed
    <2> QED  BY <2>2 DEF D!RuleMatches
  <1>4. CASE D!Source(p) = "account"
    <2>1. D!AccountMatches # {}  BY <1>4, AskedOrLocal, LocalIsThere, OneIsThere
    <2>2. D!Proposed(p) \in D!AccountMatches  BY <1>4, <2>1 DEF D!Proposed
    <2> QED  BY <2>2 DEF D!AccountMatches
  <1>5. CASE D!Source(p) = "ai"
    <2>1. D!KeyFits(p)  BY <1>5, AskedOrLocal, LocalIsThere
    <2>2. D!Answer(p) \in D!Answers  BY <2>1, <1>0 DEF D!KeyFits, D!Answer, D!Records
    <2>3. D!Answer(p).category \in DeskCategories \cup {Absent}  BY <2>2 DEF D!Answers
    <2> QED  BY <1>5, <2>3 DEF D!Proposed
  <1>6. CASE D!Source(p) \notin {"mentioned", "history", "rule", "account", "ai"}
    <2>1. payment[p].category \in DeskCategories \cup {Absent}  BY <1>0 DEF D!Records
    <2> QED  BY <1>6, <2>1 DEF D!Proposed
  <1> QED  BY <1>1, <1>2, <1>3, <1>4, <1>5, <1>6

\* A usable category is one of the categories, with an entry.
LEMMA UsableIsCategory ==
    ASSUME D!DeskTypeOK, NEW c \in DeskCategories \cup {Absent}, D!Usable(c)
    PROVE  c \in DeskCategories /\ catalogue[c] \in Entries
  BY DeskIsTyped DEF D!Usable

\* What a page displays of a payment.
LEMMA TokenIsShown ==
    ASSUME D!DeskTypeOK, NEW p \in D!Present
    PROVE  D!Token(p) \in D!Shown
  <1>1. payment[p] \in D!Records  BY PresentIsRecord
  <1>2. D!Proposed(p) \in DeskCategories \cup {Absent}  BY ProposedIsCategory
  <1>3. (IF D!Usable(D!Proposed(p)) THEN catalogue[D!Proposed(p)] ELSE Absent)
            \in Entries \cup {Absent}
    <2> DEFINE c == D!Proposed(p)
    <2>1. c \in DeskCategories \cup {Absent}  BY <1>2
    <2> HIDE DEF c
    <2>2. D!Usable(c) => catalogue[c] \in Entries  BY <2>1, UsableIsCategory
    <2>3. (IF D!Usable(c) THEN catalogue[c] ELSE Absent) \in Entries \cup {Absent}  BY <2>2
    <2> QED  BY <2>3 DEF c
  <1>4. D!ProposedPlan(p) \in DeskPlans \cup {Absent}  BY ProposedIsPlan
  <1>5. D!Title(D!ProposedPlan(p)) \in D!Titles \cup {Absent}  BY TitleIsName
  <1> QED  BY <1>1, <1>2, <1>3, <1>4, <1>5 DEF D!Token, D!Shown

-----------------------------------------------------------------------------
(***************************************************************************)
(* The actions keep the types.                                             *)
(***************************************************************************)
\* A payment that is stored as pending loses its answer and is a record still.
LEMMA WithoutAnswerIsRecord ==
    ASSUME NEW x \in D!Records
    PROVE  D!WithoutAnswer(x) \in D!Records
  BY DEF D!WithoutAnswer, D!Records

\* What is accepted from a page is a record.
LEMMA AcceptedIsRecord ==
    ASSUME D!DeskTypeOK, NEW p \in D!Present, NEW t, D!AsDisplayed(t, p), D!CanQuick(p)
    PROVE  D!Accepted(p) \in D!Records
  <1>1. payment[p] \in D!Records  BY PresentIsRecord
  <1>2. D!Proposed(p) \in DeskCategories \cup {Absent}  BY ProposedIsCategory
  <1>3. D!ProposedPlan(p) \in DeskPlans \cup {Absent}  BY ProposedIsPlan
  <1> QED  BY <1>1, <1>2, <1>3 DEF D!Accepted, D!Records, D!Decisions

\* What gets a category from a page is a record.
LEMMA ClassifiedIsRecord ==
    ASSUME D!DeskTypeOK, NEW p \in D!Present, NEW c \in DeskCategories
    PROVE  D!Classified(p, c) \in D!Records
  <1> DEFINE x == [payment[p] EXCEPT !.category = c, !.plan = D!ProposedPlan(p),
                                     !.draft = (D!ProposedPlan(p) = Absent)]
  <1>1. payment[p] \in D!Records  BY PresentIsRecord
  <1>2. D!ProposedPlan(p) \in DeskPlans \cup {Absent}  BY ProposedIsPlan
  <1>3. x \in D!Records  BY <1>1, <1>2 DEF D!Records
  <1> HIDE DEF x
  <1>4. D!WithoutAnswer(x) \in D!Records  BY <1>3, WithoutAnswerIsRecord
  <1> QED  BY <1>4 DEF D!Classified, x

\* The payments stay records, or Gone, whatever is done.
LEMMA PaymentStaysTyped ==
    ASSUME D!DeskTypeOK, D!Next
    PROVE  payment' \in [DeskPayments -> D!Records \cup {D!Gone}]
  <1> DEFINE Typed(f) == f \in [DeskPayments -> D!Records \cup {D!Gone}]
  <1>0. Typed(payment)  BY DEF D!DeskTypeOK
  <1>1. ASSUME NEW t \in Pages, NEW batch \in SUBSET DeskPayments, D!AcceptDisplayed(t, batch)
        PROVE  Typed(payment')
    <2>1. \A p \in batch : D!Accepted(p) \in D!Records
      <3> SUFFICES ASSUME NEW p \in batch PROVE D!Accepted(p) \in D!Records
        OBVIOUS
      <3>1. D!AsDisplayed(t, p) /\ D!CanQuick(p)  BY <1>1 DEF D!AcceptDisplayed
      <3>2. p \in D!Present  BY <3>1 DEF D!AsDisplayed, D!InState
      <3> QED  BY <3>1, <3>2, AcceptedIsRecord
    <2>2. payment' = [p \in DeskPayments |-> IF p \in batch THEN D!Accepted(p) ELSE payment[p]]
      BY <1>1 DEF D!AcceptDisplayed
    <2> QED  BY <1>0, <2>1, <2>2
  <1>2. ASSUME NEW t \in Pages, NEW batch \in SUBSET DeskPayments, NEW c \in DeskCategories,
               D!ClassifyDisplayed(t, batch, c)
        PROVE  Typed(payment')
    <2>1. \A p \in batch : D!Classified(p, c) \in D!Records
      <3> SUFFICES ASSUME NEW p \in batch PROVE D!Classified(p, c) \in D!Records
        OBVIOUS
      <3>1. p \in D!Present  BY <1>2 DEF D!ClassifyDisplayed, D!AsDisplayed, D!InState
      <3> QED  BY <3>1, ClassifiedIsRecord
    <2>2. payment' = [p \in DeskPayments |->
                        IF p \in batch THEN D!Classified(p, c) ELSE payment[p]]
      BY <1>2 DEF D!ClassifyDisplayed
    <2> QED  BY <1>0, <2>1, <2>2
  <1>3. ASSUME NEW v \in DeskForms, D!StoreReview(v)
        PROVE  Typed(payment')
    <2> DEFINE p == form[v].payment
               new == form[v].new
    <2>1. form[v] \in D!Forms  BY <1>3 DEF D!StoreReview, D!DeskTypeOK
    <2>2. p \in DeskPayments /\ new \in D!Records  BY <2>1 DEF D!Forms
    <2>3. CASE D!Reviewable(p, new, form[v].allowed)
      <3>1. p \in D!Present  BY <2>3 DEF D!Reviewable
      <3>2. payment[p] \in D!Records  BY <3>1, PresentIsRecord
      <3> HIDE DEF p, new
      <3>3. D!Answer(p) \in D!Answers \cup {D!NoAnswer}  BY <3>2 DEF D!Answer, D!Records
      <3>4. [new EXCEPT !.answer = D!Answer(p)] \in D!Records  BY <2>2, <3>3 DEF D!Records
      <3>5. D!WithoutAnswer([new EXCEPT !.answer = D!Answer(p)]) \in D!Records
        BY <3>4, WithoutAnswerIsRecord
      <3>6. payment' = [payment EXCEPT ![p] = D!WithoutAnswer([new EXCEPT !.answer = D!Answer(p)])]
        BY <1>3, <2>3 DEF D!StoreReview, p, new
      <3> QED  BY <1>0, <2>2, <3>5, <3>6
    <2>4. CASE ~D!Reviewable(p, new, form[v].allowed)
      BY <1>0, <1>3, <2>4 DEF D!StoreReview
    <2> QED  BY <2>3, <2>4
  <1>4. ASSUME NEW p \in DeskPayments, D!Discard(p)
        PROVE  Typed(payment')
    BY <1>0, <1>4 DEF D!Discard
  <1>5. ASSUME NEW r \in Requests, D!SaveBankAnalyses(r)
        PROVE  Typed(payment')
    <2> DEFINE part == DOMAIN request[r].chosen
    <2>1. D!Busy(request[r])  BY <1>5, AskingIsBusy DEF D!SaveBankAnalyses
    <2>2. part \subseteq DOMAIN request[r].expected /\ part \subseteq DeskPayments
      BY <1>5, <2>1 DEF D!Busy, D!SaveBankAnalyses
    <2>3. \A p \in part : [payment[p] EXCEPT !.answer = D!AnswerFor(r, p)] \in D!Records
      <3> SUFFICES ASSUME NEW p \in part
                   PROVE  [payment[p] EXCEPT !.answer = D!AnswerFor(r, p)] \in D!Records
        OBVIOUS
      <3>1. payment[p] = request[r].expected[p]
        BY <1>5 DEF D!SaveBankAnalyses, D!Unchanged, D!Expected
      <3>2. request[r].expected[p] \in D!Records  BY <2>1, <2>2 DEF D!Busy
      <3>3. request[r].chosen[p] \in DeskCategories \cup {Absent}
        BY <1>5, <2>1 DEF D!Busy, D!SaveBankAnalyses
      <3>4. request[r].model \in Models /\ request[r].catalog \in D!Catalogs
        BY <2>1 DEF D!Busy
      <3>5. D!AnswerFor(r, p) \in D!Answers
        BY <3>2, <3>3, <3>4 DEF D!AnswerFor, D!Answers, D!Expected, D!Records
      <3> QED  BY <3>1, <3>2, <3>5 DEF D!Records
    <2>4. payment' = [p \in DeskPayments |->
                        IF p \in part THEN [payment[p] EXCEPT !.answer = D!AnswerFor(r, p)]
                        ELSE payment[p]]
      BY <1>5 DEF D!SaveBankAnalyses
    <2> HIDE DEF part
    <2> QED  BY <1>0, <2>3, <2>4
  <1>6. ASSUME UNCHANGED payment PROVE Typed(payment')
    BY <1>0, <1>6
  <1>10. ASSUME NEW b \in DeskPlans, D!DeletePlan(b)
         PROVE  Typed(payment')
    <2>1. \A p \in D!Present : [payment[p] EXCEPT !.plan = Absent] \in D!Records
      BY PresentIsRecord DEF D!Records
    <2>2. payment' = [p \in DeskPayments |->
                        IF p \in D!Present /\ payment[p].plan = b
                        THEN [payment[p] EXCEPT !.plan = Absent] ELSE payment[p]]
      BY <1>10 DEF D!DeletePlan
    <2> QED  BY <1>0, <2>1, <2>2
  <1>11. ASSUME NEW p \in DeskPayments, NEW b \in DeskPlans, D!CreatePlanFromPayment(p, b)
         PROVE  Typed(payment')
    <2>1. p \in D!Present  BY <1>11 DEF D!CreatePlanFromPayment, D!InState
    <2>2. [payment[p] EXCEPT !.plan = b] \in D!Records  BY <2>1, PresentIsRecord DEF D!Records
    <2>3. payment' = [payment EXCEPT ![p] = [payment[p] EXCEPT !.plan = b]]
      BY <1>11 DEF D!CreatePlanFromPayment
    <2> QED  BY <1>0, <2>2, <2>3
  <1> SUFFICES Typed(payment')  OBVIOUS
  <1> HIDE DEF Typed
  <1>7. CASE D!Review
    <2>1. ASSUME NEW t \in Pages, NEW p \in DeskPayments, D!QuickReview(t, p)
          PROVE  Typed(payment')
      BY <1>1, <2>1 DEF D!QuickReview
    <2>2. ASSUME NEW t \in Pages, D!ShowPage(t) PROVE Typed(payment')
      BY <1>6, <2>2 DEF D!ShowPage
    <2>3. ASSUME NEW v \in DeskForms, NEW p \in DeskPayments, NEW typed \in DeskInputs,
                 D!SubmitReview(v, p, typed)
          PROVE  Typed(payment')
      BY <1>6, <2>3 DEF D!SubmitReview
    <2> QED  BY <1>1, <1>2, <1>3, <1>4, <1>7, <2>1, <2>2, <2>3 DEF D!Review
  <1>8. CASE D!Settle
    BY <1>6, <1>8, <1>10, <1>11 DEF D!Settle, D!SaveCategory, D!SavePlan, D!SetAIDeployment
  <1>9. ASSUME NEW r \in Requests, D!ReceiveAnalysis(r) \/ D!Handle(r)
        PROVE  Typed(payment')
    BY <1>5, <1>6, <1>9
       DEF D!Handle, D!ReceiveAnalysis, D!AdmitAnalysis, D!ReadModel, D!ReadSnapshot,
           D!ModelAnswers, D!ModelFails, D!RejectStale
  <1> QED  BY <1>7, <1>8, <1>9 DEF D!Next

\* A request is as it should be: typed, and with copies of open payments.
Proper(q) == (q \in D!Working \cup {D!Idle} \/ D!Busy(q)) /\ Copies(q)

\* An action changes one request, to a proper one.
LEMMA RequestStaysProper ==
    ASSUME D!DeskTypeOK, Snapshots, NEW r \in Requests, NEW q, Proper(q),
           request' = [request EXCEPT ![r] = q]
    PROVE  DOMAIN request' = Requests /\ \A s \in Requests : Proper(request'[s])
  <1>1. DOMAIN request = Requests /\ \A s \in Requests : Proper(request[s])
    BY DEF D!DeskTypeOK, Snapshots, Proper
  <1> HIDE DEF Proper
  <1> QED  BY <1>1

\* A request before it asks, or after it ended, has no copies to keep.
LEMMA EarlyIsProper ==
    ASSUME NEW q \in D!Working \cup {D!Idle}
    PROVE  Proper(q)
  <1>1. q.phase \in {"received", "admitted", "model", "idle"}  BY DEF D!Working, D!Idle
  <1> QED  BY <1>1 DEF Proper, Copies

\* What a request asked for once it may ask for again in part.
LEMMA AskingIsProper ==
    ASSUME NEW m \in Models, NEW cat \in D!Catalogs, NEW e, DOMAIN e \in (SUBSET DeskPayments) \ {{}},
           \A p \in DOMAIN e : /\ e[p] \in D!Records
                               /\ e[p].decision = "pending" /\ e[p].category = Absent
                               /\ e[p].plan = Absent
    PROVE  Proper([phase |-> "asking", model |-> m, catalog |-> cat, expected |-> e])
  <1> DEFINE q == [phase |-> "asking", model |-> m, catalog |-> cat, expected |-> e]
  <1>1. q.phase = "asking" /\ q.model = m /\ q.catalog = cat /\ q.expected = e  OBVIOUS
  <1> HIDE DEF q
  <1>2. D!Busy(q)  BY <1>1 DEF D!Busy
  <1>3. Copies(q)  BY <1>1 DEF Copies
  <1> QED  BY <1>2, <1>3 DEF Proper, q

\* The requests stay typed, and their copies stay those of open payments.
LEMMA RequestsStayProper ==
    ASSUME D!DeskTypeOK, Snapshots, D!Next
    PROVE  DOMAIN request' = Requests /\ \A s \in Requests : Proper(request'[s])
  <1> DEFINE Goal == DOMAIN request' = Requests /\ \A s \in Requests : Proper(request'[s])
  <1> SUFFICES Goal  OBVIOUS
  <1>0. ASSUME UNCHANGED request PROVE Goal
    BY <1>0 DEF D!DeskTypeOK, Snapshots, Proper
  <1>1. ASSUME NEW r \in Requests, request' = [request EXCEPT ![r] = D!Idle] PROVE Goal
    <2>1. Proper(D!Idle)  BY EarlyIsProper
    <2> QED  BY <1>1, <2>1, RequestStaysProper
  <1> HIDE DEF Goal
  <1>2. ASSUME NEW r \in Requests, D!ReceiveAnalysis(r) PROVE Goal
    <2>1. [phase |-> "received"] \in D!Working  BY DEF D!Working
    <2>2. request' = [request EXCEPT ![r] = [phase |-> "received"]]  BY <1>2 DEF D!ReceiveAnalysis
    <2> QED  BY <2>1, <2>2, EarlyIsProper, RequestStaysProper DEF Goal
  <1>3. ASSUME NEW r \in Requests, D!AdmitAnalysis(r) PROVE Goal
    <2>1. CASE gate = Absent
      <3> DEFINE q == [request[r] EXCEPT !.phase = "admitted"]
      <3>1. request[r] \in D!Working \cup {D!Idle} \/ D!Busy(request[r])
        BY DEF D!DeskTypeOK
      <3>2. request[r] \in [phase: {"received", "admitted"}]
        BY <1>3, <3>1 DEF D!Working, D!Idle, D!Busy, D!AdmitAnalysis
      <3>3. q \in [phase: {"received", "admitted"}]  BY <3>2
      <3>4. Proper(q)  BY <3>3, EarlyIsProper DEF D!Working
      <3>5. request' = [request EXCEPT ![r] = q]  BY <1>3, <2>1 DEF D!AdmitAnalysis
      <3> HIDE DEF q
      <3> QED  BY <3>4, <3>5, RequestStaysProper DEF Goal
    <2>2. CASE gate # Absent
      BY <1>1, <1>3, <2>2 DEF D!AdmitAnalysis
    <2> QED  BY <2>1, <2>2
  <1>4. ASSUME NEW r \in Requests, D!ReadModel(r) PROVE Goal
    <2>1. CASE model = Absent
      BY <1>1, <1>4, <2>1 DEF D!ReadModel, D!End
    <2>2. CASE model # Absent
      <3>1. model \in Models  BY <2>2 DEF D!DeskTypeOK
      <3>2. [phase |-> "model", model |-> model] \in D!Working  BY <3>1 DEF D!Working
      <3>3. request' = [request EXCEPT ![r] = [phase |-> "model", model |-> model]]
        BY <1>4, <2>2 DEF D!ReadModel
      <3> QED  BY <3>2, <3>3, EarlyIsProper, RequestStaysProper DEF Goal
    <2> QED  BY <2>1, <2>2
  <1>5. ASSUME NEW r \in Requests, NEW selected \in SUBSET DeskPayments, D!ReadSnapshot(r, selected)
        PROVE  Goal
    <2> DEFINE candidates == {p \in selected : D!Candidate(p)}
    <2>1. CASE candidates = {}
      BY <1>1, <1>5, <2>1 DEF D!ReadSnapshot, D!End
    <2>2. CASE candidates # {}
      <3> DEFINE e == [p \in candidates |-> payment[p]]
                 q == [phase |-> "asking", model |-> request[r].model, catalog |-> catalogue,
                       expected |-> e]
      <3>1. \A p \in candidates : /\ payment[p] \in D!Records
                                  /\ payment[p].decision = "pending"
                                  /\ payment[p].category = Absent
                                  /\ payment[p].plan = Absent
        <4> SUFFICES ASSUME NEW p \in selected, D!Candidate(p)
                     PROVE  /\ payment[p] \in D!Records
                            /\ payment[p].decision = "pending"
                            /\ payment[p].category = Absent
                            /\ payment[p].plan = Absent
          OBVIOUS
        <4>1. p \in D!Present /\ payment[p].decision = "pending" /\ payment[p].category = Absent
          BY DEF D!Candidate, D!InState
        <4>2. D!ProposedPlan(p) = Absent  BY DEF D!Candidate
        <4>3. D!Source(p) # "mentioned"  BY <4>2, MentionedIsPlan, AbsentIsNothing
        <4>4. payment[p].plan = Absent  BY <4>2, <4>3 DEF D!ProposedPlan
        <4> QED  BY <4>1, <4>4, PresentIsRecord
      <3>2. request' = [request EXCEPT ![r] = q]  BY <1>5, <2>2 DEF D!ReadSnapshot
      <3>3. request[r].model \in Models
        BY <1>5 DEF D!ReadSnapshot, D!DeskTypeOK, D!Working, D!Idle, D!Busy
      <3>4. catalogue \in D!Catalogs  BY DEF D!DeskTypeOK
      <3>5. candidates \in (SUBSET DeskPayments) \ {{}}  BY <2>2
      <3> HIDE DEF candidates
      <3>6. /\ DOMAIN e \in (SUBSET DeskPayments) \ {{}}
            /\ \A p \in DOMAIN e : /\ e[p] \in D!Records
                                   /\ e[p].decision = "pending" /\ e[p].category = Absent
                                   /\ e[p].plan = Absent
        BY <3>1, <3>5
      <3> HIDE DEF e
      <3>7. Proper(q)  BY <3>3, <3>4, <3>6, AskingIsProper
      <3> HIDE DEF q
      <3> QED  BY <3>2, <3>7, RequestStaysProper DEF Goal
    <2> QED  BY <2>1, <2>2
  <1>6. ASSUME NEW r \in Requests, D!ModelAnswers(r) PROVE Goal
    <2>1. D!Busy(request[r])  BY <1>6, AskingIsBusy DEF D!ModelAnswers
    <2>2. Copies(request[r])  BY DEF Snapshots
    <2>3. PICK part \in D!Parts(D!Pending(r)) : \E chosen \in [part -> D!Choices(r)] :
              request' = [request EXCEPT ![r] =
                  [phase |-> "answered", model |-> @.model, catalog |-> @.catalog,
                   expected |-> @.expected, chosen |-> chosen]]
      BY <1>6 DEF D!ModelAnswers
    <2>4. PICK chosen \in [part -> D!Choices(r)] :
              request' = [request EXCEPT ![r] =
                  [phase |-> "answered", model |-> request[r].model,
                   catalog |-> request[r].catalog,
                   expected |-> request[r].expected, chosen |-> chosen]]
      BY <2>3
    <2> DEFINE q == [phase |-> "answered", model |-> request[r].model,
                     catalog |-> request[r].catalog,
                     expected |-> request[r].expected, chosen |-> chosen]
    <2>5. /\ q.phase = "answered" /\ q.model = request[r].model
          /\ q.catalog = request[r].catalog /\ q.expected = request[r].expected
          /\ q.chosen = chosen
      OBVIOUS
    <2>6. part \subseteq DOMAIN request[r].expected /\ part # {}
      <3>1. part \subseteq D!Pending(r)  BY DEF D!Parts
      <3>2. D!Pending(r) # {} /\ IsFiniteSet(D!Pending(r))
        <4>1. D!Pending(r) \in (SUBSET DeskPayments) \ {{}}
          BY <2>1 DEF D!Pending, D!Expected, D!Busy
        <4> QED  BY <4>1, FS_Subset, DeskIsFinite
      <3>3. Cardinality(part) # 0
        <4>1. Cardinality(D!Pending(r)) \in Nat \ {0}
          BY <3>2, FS_CardinalityType, FS_EmptySet
        <4>2. Cardinality(part) = IF Cardinality(D!Pending(r)) < PartSize
                                  THEN Cardinality(D!Pending(r)) ELSE PartSize
          BY DeskCounts DEF D!Parts
        <4> QED  BY <4>1, <4>2, DeskIsFinite
      <3> QED  BY <3>1, <3>3, FS_EmptySet DEF D!Pending, D!Expected
    <2>7. DOMAIN chosen = part /\ \A p \in part : chosen[p] \in DeskCategories \cup {Absent}
      BY DEF D!Choices
    <2> HIDE DEF q
    <2>8. D!Busy(q)  BY <2>1, <2>5, <2>6, <2>7 DEF D!Busy
    <2>9. Copies(q)  BY <1>6, <2>2, <2>5 DEF Copies, D!ModelAnswers
    <2>10. Proper(q)  BY <2>8, <2>9 DEF Proper
    <2>11. request' = [request EXCEPT ![r] = q]  BY <2>4 DEF q
    <2> QED  BY <2>10, <2>11, RequestStaysProper DEF Goal
  <1>7. ASSUME NEW r \in Requests, D!ModelFails(r) PROVE Goal
    BY <1>1, <1>7 DEF D!ModelFails, D!End
  <1>8. ASSUME NEW r \in Requests, D!SaveBankAnalyses(r) PROVE Goal
    <2> DEFINE left == D!Pending(r) \ DOMAIN request[r].chosen
    <2>1. D!NextPart(r, left)  BY <1>8 DEF D!SaveBankAnalyses
    <2>2. CASE left = {}
      BY <1>1, <2>1, <2>2 DEF D!NextPart, D!End
    <2>3. CASE left # {}
      <3> DEFINE e == [p \in left |-> request[r].expected[p]]
                 q == [phase |-> "asking", model |-> request[r].model,
                       catalog |-> request[r].catalog, expected |-> e]
      <3>1. request' = [request EXCEPT ![r] = q]  BY <2>1, <2>3 DEF D!NextPart, D!AskOn
      <3>2. request[r].phase = "answered"  BY <1>8 DEF D!SaveBankAnalyses
      <3>3. D!Busy(request[r])  BY <3>2, AskingIsBusy
      <3>4. Copies(request[r])  BY DEF Snapshots
      <3>5. left \subseteq DOMAIN request[r].expected  BY DEF D!Pending, D!Expected
      <3>6. \A p \in left : /\ request[r].expected[p] \in D!Records
                            /\ request[r].expected[p].decision = "pending"
                            /\ request[r].expected[p].category = Absent
                            /\ request[r].expected[p].plan = Absent
        BY <3>2, <3>3, <3>4, <3>5 DEF D!Busy, Copies
      <3>7. left \in (SUBSET DeskPayments) \ {{}}  BY <2>3, <3>3, <3>5 DEF D!Busy
      <3>8. request[r].model \in Models /\ request[r].catalog \in D!Catalogs
        BY <3>3 DEF D!Busy
      <3> HIDE DEF left
      <3>9. /\ DOMAIN e \in (SUBSET DeskPayments) \ {{}}
            /\ \A p \in DOMAIN e : /\ e[p] \in D!Records
                                   /\ e[p].decision = "pending" /\ e[p].category = Absent
                                   /\ e[p].plan = Absent
        BY <3>6, <3>7
      <3> HIDE DEF e
      <3>10. Proper(q)  BY <3>8, <3>9, AskingIsProper
      <3> HIDE DEF q
      <3> QED  BY <3>1, <3>10, RequestStaysProper DEF Goal
    <2> QED  BY <2>2, <2>3
  <1>9. ASSUME NEW r \in Requests, D!RejectStale(r) PROVE Goal
    BY <1>1, <1>9 DEF D!RejectStale, D!End
  <1>10. CASE D!Review
    <2>1. UNCHANGED request
      BY <1>10 DEF D!Review, D!ShowPage, D!QuickReview, D!AcceptDisplayed, D!ClassifyDisplayed,
                   D!SubmitReview, D!StoreReview, D!Discard, D!analysis
    <2> QED  BY <1>0, <2>1
  <1>11. CASE D!Settle
    <2>1. UNCHANGED request
      BY <1>11 DEF D!Settle, D!SaveCategory, D!SavePlan, D!DeletePlan, D!CreatePlanFromPayment,
                   D!SetAIDeployment, D!analysis
    <2> QED  BY <1>0, <2>1
  <1> QED  BY <1>2, <1>3, <1>4, <1>5, <1>6, <1>7, <1>8, <1>9, <1>10, <1>11 DEF D!Next, D!Handle

\* A page shows records, with categories and entries.
LEMMA PageStaysTyped ==
    ASSUME D!DeskTypeOK, D!Next
    PROVE  page' \in [Pages -> [DeskPayments -> D!Shown \cup {D!Gone}]]
  <1>0. page \in [Pages -> [DeskPayments -> D!Shown \cup {D!Gone}]]  BY DEF D!DeskTypeOK
  <1>1. ASSUME NEW t \in Pages, D!ShowPage(t)
        PROVE  page' \in [Pages -> [DeskPayments -> D!Shown \cup {D!Gone}]]
    <2> DEFINE shown == [p \in DeskPayments |->
                           IF p \in D!InState("pending") THEN D!Token(p) ELSE D!Gone]
    <2>1. \A p \in D!InState("pending") : D!Token(p) \in D!Shown
      BY TokenIsShown DEF D!InState
    <2>2. shown \in [DeskPayments -> D!Shown \cup {D!Gone}]  BY <2>1
    <2>3. page' = [page EXCEPT ![t] = shown]  BY <1>1 DEF D!ShowPage
    <2> HIDE DEF shown
    <2> QED  BY <1>0, <2>2, <2>3
  <1>2. ASSUME UNCHANGED page
        PROVE  page' \in [Pages -> [DeskPayments -> D!Shown \cup {D!Gone}]]
    BY <1>0, <1>2
  <1>3. (\E t \in Pages : D!ShowPage(t)) \/ UNCHANGED page
    BY DEF D!Next, D!Review, D!Settle, D!Handle, D!QuickReview, D!AcceptDisplayed,
           D!ClassifyDisplayed, D!SubmitReview, D!StoreReview, D!Discard, D!SaveCategory,
           D!SavePlan, D!DeletePlan, D!CreatePlanFromPayment, D!SetAIDeployment, D!ReceiveAnalysis, D!AdmitAnalysis, D!ReadModel, D!ReadSnapshot,
           D!ModelAnswers, D!ModelFails, D!SaveBankAnalyses, D!RejectStale
  <1> QED  BY <1>1, <1>2, <1>3

\* A form holds a record to be stored.
LEMMA FormStaysTyped ==
    ASSUME D!DeskTypeOK, D!Next
    PROVE  form' \in [DeskForms -> D!Forms \cup {D!NoForm}]
  <1>0. form \in [DeskForms -> D!Forms \cup {D!NoForm}]  BY DEF D!DeskTypeOK
  <1>1. ASSUME NEW v \in DeskForms, NEW p \in DeskPayments, NEW typed \in DeskInputs,
               D!SubmitReview(v, p, typed)
        PROVE  form' \in [DeskForms -> D!Forms \cup {D!NoForm}]
    <2> DEFINE new == [decision |-> typed.decision,
                       content |-> IF payment[p].decision = "pending"
                                   THEN typed.content ELSE D!Content(p),
                       category |-> IF payment[p].decision = "pending"
                                    THEN typed.category ELSE payment[p].category,
                       plan |-> IF payment[p].decision = "pending"
                                THEN typed.plan ELSE payment[p].plan,
                       draft |-> typed.draft /\ typed.decision = "pending",
                       answer |-> D!NoAnswer]
               sent == [payment |-> p, allowed |-> typed.allowed, new |-> new]
    <2>1. payment[p] \in D!Records  BY <1>1, PresentIsRecord DEF D!SubmitReview
    <2>2. /\ typed.decision \in D!Decisions /\ typed.content \in DeskContents
          /\ typed.category \in DeskCategories \cup {Absent} /\ typed.allowed \in BOOLEAN
          /\ typed.plan \in DeskPlans \cup {Absent}
      BY DeskIsTyped DEF D!Decisions
    <2>6. (typed.draft /\ typed.decision = "pending") \in BOOLEAN  OBVIOUS
    <2>3. new \in D!Records  BY <2>1, <2>2, <2>6 DEF D!Records, D!Content
    <2>4. form' = [form EXCEPT ![v] = sent]  BY <1>1 DEF D!SubmitReview
    <2> HIDE DEF new
    <2>5. sent \in D!Forms  BY <2>2, <2>3 DEF D!Forms
    <2> HIDE DEF sent
    <2> QED  BY <1>0, <2>4, <2>5
  <1>2. ASSUME NEW v \in DeskForms, D!StoreReview(v)
        PROVE  form' \in [DeskForms -> D!Forms \cup {D!NoForm}]
    BY <1>0, <1>2 DEF D!StoreReview
  <1>3. ASSUME UNCHANGED form
        PROVE  form' \in [DeskForms -> D!Forms \cup {D!NoForm}]
    BY <1>0, <1>3
  <1>4. \/ \E v \in DeskForms, p \in DeskPayments, typed \in DeskInputs : D!SubmitReview(v, p, typed)
        \/ \E v \in DeskForms : D!StoreReview(v)
        \/ UNCHANGED form
    BY DEF D!Next, D!Review, D!Settle, D!Handle, D!ShowPage, D!QuickReview, D!AcceptDisplayed,
           D!ClassifyDisplayed, D!Discard, D!SaveCategory,
           D!SavePlan, D!DeletePlan, D!CreatePlanFromPayment, D!SetAIDeployment, D!ReceiveAnalysis, D!AdmitAnalysis, D!ReadModel, D!ReadSnapshot,
           D!ModelAnswers, D!ModelFails, D!SaveBankAnalyses, D!RejectStale
  <1> QED  BY <1>1, <1>2, <1>3, <1>4

\* The settings and the gate hold what they may hold.
LEMMA SettingsStayTyped ==
    ASSUME D!DeskTypeOK, D!Next
    PROVE  /\ catalogue' \in D!Catalogs
           /\ budget' \in [DeskPlans -> PlanForms \cup {Absent}]
           /\ model' \in Models \cup {Absent}
           /\ gate' \in Requests \cup {Absent}
  <1>0. /\ catalogue \in D!Catalogs /\ budget \in [DeskPlans -> PlanForms \cup {Absent}]
        /\ model \in Models \cup {Absent} /\ gate \in Requests \cup {Absent}
    BY DEF D!DeskTypeOK
  <1>1. CASE D!Review
    BY <1>0, <1>1 DEF D!Review, D!ShowPage, D!QuickReview, D!AcceptDisplayed, D!ClassifyDisplayed,
                      D!SubmitReview, D!StoreReview, D!Discard, D!analysis, D!settings
  <1>2. CASE D!Settle
    <2>1. UNCHANGED gate
      BY <1>2 DEF D!Settle, D!SaveCategory, D!SavePlan, D!DeletePlan, D!CreatePlanFromPayment,
                  D!SetAIDeployment, D!analysis
    <2>2. catalogue' \in D!Catalogs /\ model' \in Models \cup {Absent}
      BY <1>0, <1>2 DEF D!Settle, D!SaveCategory, D!SavePlan, D!DeletePlan,
                        D!CreatePlanFromPayment, D!SetAIDeployment, D!Catalogs
    <2>3. budget' \in [DeskPlans -> PlanForms \cup {Absent}]
      BY <1>0, <1>2 DEF D!Settle, D!SaveCategory, D!SavePlan, D!DeletePlan,
                        D!CreatePlanFromPayment, D!SetAIDeployment
    <2> QED  BY <1>0, <2>1, <2>2, <2>3
  <1>3. ASSUME NEW r \in Requests, D!ReceiveAnalysis(r) \/ D!Handle(r)
        PROVE  UNCHANGED D!settings /\ gate' \in {gate, r, Absent}
    BY <1>3 DEF D!Handle, D!ReceiveAnalysis, D!AdmitAnalysis, D!ReadModel, D!ReadSnapshot,
                D!ModelAnswers, D!ModelFails, D!SaveBankAnalyses, D!RejectStale, D!NextPart,
                D!AskOn, D!End, D!settings
  <1> QED  BY <1>0, <1>1, <1>2, <1>3 DEF D!Next, D!settings

-----------------------------------------------------------------------------
(***************************************************************************)
(* What can happen to a payment.                                           *)
(***************************************************************************)
\* It is accepted as a page displays it.
TakenAsShown(p) ==
    /\ p \in D!InState("pending") /\ D!CanQuick(p)
    /\ \E t \in Pages : page[t][p] = D!Token(p)
    /\ payment'[p] = D!Accepted(p)

\* It gets a category from a page.
Sorted(p) ==
    /\ p \in D!InState("pending")
    /\ \E c \in DeskCategories : payment'[p] = D!Classified(p, c)

\* A detailed form is stored over it.
ReviewedByForm(p) ==
    /\ p \in D!Present
    /\ form' # form
    /\ \E new \in D!Records :
          /\ payment[p].decision = "pending" \/ new.decision = "pending"
          /\ payment'[p] = D!WithoutAnswer([new EXCEPT !.answer = D!Answer(p)])

\* It is discarded with its statement.
Dropped(p) == p \in D!Present \ D!InState("accepted") /\ payment'[p] = D!Gone

\* An answer is kept with it, given for it as it is.
Answered(p) ==
    /\ p \in D!InState("pending") /\ payment[p].category = Absent /\ payment[p].plan = Absent
    /\ \E r \in Requests : /\ D!SameSettings(r)
                           /\ payment[p] = request[r].expected[p]
                           /\ payment'[p] = [payment[p] EXCEPT !.answer = D!AnswerFor(r, p)]

\* Its plan is deleted, or made from it once it is accepted.
Linked(p) ==
    /\ p \in D!Present
    /\ D!Relinked(p)
    /\ payment'[p].plan = Absent \/ payment[p].decision = "accepted"

Touched(p) ==
    TakenAsShown(p) \/ Sorted(p) \/ ReviewedByForm(p) \/ Dropped(p) \/ Answered(p) \/ Linked(p)

\* A form that is stored is a form no longer.
LEMMA StoringEmptiesForm ==
    ASSUME D!DeskTypeOK, NEW v \in DeskForms, D!StoreReview(v)
    PROVE  form' # form
  <1>1. form[v] # D!NoForm /\ form' = [form EXCEPT ![v] = D!NoForm]  BY DEF D!StoreReview
  <1>2. form'[v] = D!NoForm  BY <1>1 DEF D!DeskTypeOK
  <1> QED  BY <1>1, <1>2

\* Nothing else happens to a payment.
LEMMA TouchedOrSame ==
    ASSUME D!DeskTypeOK, Snapshots, D!Next, NEW p \in DeskPayments
    PROVE  UNCHANGED payment[p] \/ Touched(p)
  <1> DEFINE Goal == payment'[p] = payment[p] \/ Touched(p)
  <1> SUFFICES Goal  OBVIOUS
  <1>0. payment \in [DeskPayments -> D!Records \cup {D!Gone}]  BY DEF D!DeskTypeOK
  <1>1. ASSUME NEW t \in Pages, NEW batch \in SUBSET DeskPayments, D!AcceptDisplayed(t, batch)
        PROVE  Goal
    <2>1. payment' = [x \in DeskPayments |-> IF x \in batch THEN D!Accepted(x) ELSE payment[x]]
      BY <1>1 DEF D!AcceptDisplayed
    <2>2. CASE p \in batch
      <3>1. D!AsDisplayed(t, p) /\ D!CanQuick(p)  BY <1>1, <2>2 DEF D!AcceptDisplayed
      <3>2. payment'[p] = D!Accepted(p)  BY <2>1, <2>2
      <3>3. TakenAsShown(p)  BY <3>1, <3>2 DEF TakenAsShown, D!AsDisplayed
      <3> QED  BY <3>3 DEF Touched
    <2>3. CASE p \notin batch
      BY <2>1, <2>3
    <2> QED  BY <2>2, <2>3
  <1>2. ASSUME NEW t \in Pages, NEW batch \in SUBSET DeskPayments, NEW c \in DeskCategories,
               D!ClassifyDisplayed(t, batch, c)
        PROVE  Goal
    <2>1. payment' = [x \in DeskPayments |->
                        IF x \in batch THEN D!Classified(x, c) ELSE payment[x]]
      BY <1>2 DEF D!ClassifyDisplayed
    <2>2. CASE p \in batch
      <3>1. p \in D!InState("pending")  BY <1>2, <2>2 DEF D!ClassifyDisplayed, D!AsDisplayed
      <3>2. payment'[p] = D!Classified(p, c)  BY <2>1, <2>2
      <3>3. Sorted(p)  BY <3>1, <3>2 DEF Sorted
      <3> QED  BY <3>3 DEF Touched
    <2>3. CASE p \notin batch
      BY <2>1, <2>3
    <2> QED  BY <2>2, <2>3
  <1>3. ASSUME NEW v \in DeskForms, D!StoreReview(v)
        PROVE  Goal
    <2> DEFINE q == form[v].payment
               new == form[v].new
    <2>1. form[v] \in D!Forms  BY <1>3 DEF D!StoreReview, D!DeskTypeOK
    <2>2. q \in DeskPayments /\ new \in D!Records  BY <2>1 DEF D!Forms
    <2>3. CASE D!Reviewable(q, new, form[v].allowed) /\ p = q
      <3>1. /\ p \in D!Present
            /\ payment[p].decision = "pending" \/ new.decision = "pending"
        BY <2>3 DEF D!Reviewable
      <3>2. payment' = [payment EXCEPT ![q] = D!WithoutAnswer([new EXCEPT !.answer = D!Answer(q)])]
        BY <1>3, <2>3 DEF D!StoreReview
      <3>3. payment'[p] = D!WithoutAnswer([new EXCEPT !.answer = D!Answer(p)])
        BY <1>0, <2>2, <2>3, <3>2
      <3>4. form' # form  BY <1>3, StoringEmptiesForm
      <3> HIDE DEF new
      <3>5. ReviewedByForm(p)  BY <2>2, <3>1, <3>3, <3>4 DEF ReviewedByForm
      <3> QED  BY <3>5 DEF Touched
    <2>4. CASE ~D!Reviewable(q, new, form[v].allowed)
      BY <1>3, <2>4 DEF D!StoreReview
    <2>5. CASE D!Reviewable(q, new, form[v].allowed) /\ p # q
      <3>1. payment' = [payment EXCEPT ![q] = D!WithoutAnswer([new EXCEPT !.answer = D!Answer(q)])]
        BY <1>3, <2>5 DEF D!StoreReview
      <3> QED  BY <1>0, <2>5, <3>1
    <2> QED  BY <2>3, <2>4, <2>5
  <1>4. ASSUME NEW q \in DeskPayments, D!Discard(q)
        PROVE  Goal
    <2>1. CASE p = q
      <3>1. Dropped(p)  BY <1>0, <1>4, <2>1 DEF D!Discard, Dropped
      <3> QED  BY <3>1 DEF Touched
    <2>2. CASE p # q
      BY <1>0, <1>4, <2>2 DEF D!Discard
    <2> QED  BY <2>1, <2>2
  <1>5. ASSUME NEW r \in Requests, D!SaveBankAnalyses(r)
        PROVE  Goal
    <2> DEFINE part == DOMAIN request[r].chosen
    <2>1. payment' = [x \in DeskPayments |->
                        IF x \in part THEN [payment[x] EXCEPT !.answer = D!AnswerFor(r, x)]
                        ELSE payment[x]]
      BY <1>5 DEF D!SaveBankAnalyses
    <2>2. CASE p \in part
      <3>1. D!Busy(request[r])  BY <1>5, AskingIsBusy DEF D!SaveBankAnalyses
      <3>2. p \in DOMAIN request[r].expected
        BY <1>5, <2>2, <3>1 DEF D!Busy, D!SaveBankAnalyses
      <3>3. payment[p] = request[r].expected[p]
        BY <1>5, <2>2 DEF D!SaveBankAnalyses, D!Unchanged, D!Expected
      <3>4. Copies(request[r])  BY DEF Snapshots
      <3>5. /\ payment[p].decision = "pending" /\ payment[p].category = Absent
            /\ payment[p].plan = Absent
        BY <1>5, <3>2, <3>3, <3>4 DEF D!SaveBankAnalyses, Copies
      <3>6. payment[p] \in D!Records  BY <3>1, <3>2, <3>3 DEF D!Busy
      <3>7. p \in D!InState("pending")  BY <3>5, <3>6, RecordsAreThere DEF D!InState, D!Present
      <3>8. payment'[p] = [payment[p] EXCEPT !.answer = D!AnswerFor(r, p)]  BY <2>1, <2>2
      <3>9. D!SameSettings(r)  BY <1>5 DEF D!SaveBankAnalyses
      <3>10. Answered(p)  BY <3>3, <3>5, <3>7, <3>8, <3>9 DEF Answered
      <3> QED  BY <3>10 DEF Touched
    <2>3. CASE p \notin part
      BY <2>1, <2>3
    <2> QED  BY <2>2, <2>3
  <1>6. ASSUME UNCHANGED payment PROVE Goal
    BY <1>6
  <1>10. ASSUME NEW b \in DeskPlans, D!DeletePlan(b)
         PROVE  Goal
    <2>1. payment' = [x \in DeskPayments |->
                        IF x \in D!Present /\ payment[x].plan = b
                        THEN [payment[x] EXCEPT !.plan = Absent] ELSE payment[x]]
      BY <1>10 DEF D!DeletePlan
    <2>2. CASE p \in D!Present /\ payment[p].plan = b
      <3>1. payment'[p] = [payment[p] EXCEPT !.plan = Absent]  BY <2>1, <2>2
      <3>2. payment[p] \in D!Records  BY <2>2, PresentIsRecord
      <3>3. payment'[p].plan = Absent  BY <3>1, <3>2 DEF D!Records
      <3>4. Linked(p)  BY <2>2, <3>1, <3>3 DEF Linked, D!Relinked
      <3> QED  BY <3>4 DEF Touched
    <2>3. CASE ~(p \in D!Present /\ payment[p].plan = b)
      BY <2>1, <2>3
    <2> QED  BY <2>2, <2>3
  <1>11. ASSUME NEW q \in DeskPayments, NEW b \in DeskPlans, D!CreatePlanFromPayment(q, b)
         PROVE  Goal
    <2>1. payment' = [payment EXCEPT ![q] = [payment[q] EXCEPT !.plan = b]]
      BY <1>11 DEF D!CreatePlanFromPayment
    <2>2. CASE p = q
      <3>1. /\ p \in D!Present /\ payment[p].plan = Absent
            /\ payment[p].decision = "accepted"
        BY <1>11, <2>2 DEF D!CreatePlanFromPayment, D!InState
      <3>2. payment'[p] = [payment[p] EXCEPT !.plan = b]  BY <1>0, <2>1, <2>2
      <3>3. Linked(p)  BY <3>1, <3>2 DEF Linked, D!Relinked
      <3> QED  BY <3>3 DEF Touched
    <2>3. CASE p # q
      BY <1>0, <2>1, <2>3
    <2> QED  BY <2>2, <2>3
  <1> HIDE DEF Goal
  <1>7. CASE D!Review
    <2>1. ASSUME NEW t \in Pages, NEW q \in DeskPayments, D!QuickReview(t, q)
          PROVE  Goal
      BY <1>1, <2>1 DEF D!QuickReview
    <2>2. ASSUME NEW t \in Pages, D!ShowPage(t) PROVE Goal
      BY <1>6, <2>2 DEF D!ShowPage
    <2>3. ASSUME NEW v \in DeskForms, NEW q \in DeskPayments, NEW typed \in DeskInputs,
                 D!SubmitReview(v, q, typed)
          PROVE  Goal
      BY <1>6, <2>3 DEF D!SubmitReview
    <2> QED  BY <1>1, <1>2, <1>3, <1>4, <1>7, <2>1, <2>2, <2>3 DEF D!Review
  <1>8. CASE D!Settle
    BY <1>6, <1>8, <1>10, <1>11 DEF D!Settle, D!SaveCategory, D!SavePlan, D!SetAIDeployment
  <1>9. ASSUME NEW r \in Requests, D!ReceiveAnalysis(r) \/ D!Handle(r)
        PROVE  Goal
    BY <1>5, <1>6, <1>9
       DEF D!Handle, D!ReceiveAnalysis, D!AdmitAnalysis, D!ReadModel, D!ReadSnapshot,
           D!ModelAnswers, D!ModelFails, D!RejectStale
  <1> QED  BY <1>7, <1>8, <1>9 DEF D!Next

\* What the record holds after it was touched.
LEMMA TouchedFields ==
    ASSUME D!DeskTypeOK, NEW p \in DeskPayments
    PROVE  /\ TakenAsShown(p) =>
                 /\ payment'[p].decision = "accepted"
                 /\ payment'[p].content = D!Content(p)
                 /\ payment'[p].category = D!Proposed(p)
                 /\ payment'[p].plan = D!ProposedPlan(p)
                 /\ payment'[p].answer = D!Answer(p)
           /\ Sorted(p) =>
                 payment'[p].decision = "pending" /\ payment'[p].answer = D!NoAnswer
           /\ ReviewedByForm(p) =>
                 \/ payment'[p].decision = "pending" /\ payment'[p].answer = D!NoAnswer
                 \/ payment'[p].answer = D!Answer(p) /\ payment[p].decision = "pending"
                    /\ payment'[p].decision # "pending"
           /\ Answered(p) =>
                 /\ payment'[p].decision = "pending"
                 /\ payment'[p].category = Absent
                 /\ payment'[p].plan = Absent
                 /\ payment'[p].content = D!Content(p)
                 /\ payment'[p].answer.content = D!Content(p)
                 /\ payment'[p].answer.catalog = catalogue
                 /\ payment'[p].answer.model = model
                 /\ payment'[p] = [payment[p] EXCEPT !.answer = payment'[p].answer]
           /\ Linked(p) =>
                 /\ payment'[p].decision = payment[p].decision
                 /\ payment'[p].content = D!Content(p)
                 /\ payment'[p].category = payment[p].category
                 /\ payment'[p].plan = Absent \/ payment[p].decision = "accepted"
                 /\ payment'[p].answer = D!Answer(p)
  <1>0. p \in D!Present => payment[p] \in D!Records  BY PresentIsRecord
  <1>1. ASSUME TakenAsShown(p)
        PROVE  /\ payment'[p].decision = "accepted"
               /\ payment'[p].content = D!Content(p)
               /\ payment'[p].category = D!Proposed(p)
               /\ payment'[p].plan = D!ProposedPlan(p)
               /\ payment'[p].answer = D!Answer(p)
    <2>1. payment[p] \in D!Records  BY <1>0, <1>1 DEF TakenAsShown, D!InState
    <2>2. payment'[p] = D!Accepted(p)  BY <1>1 DEF TakenAsShown
    <2> QED  BY <2>1, <2>2 DEF D!Accepted, D!Records, D!Content, D!Answer
  <1>2. ASSUME Sorted(p)
        PROVE  payment'[p].decision = "pending" /\ payment'[p].answer = D!NoAnswer
    <2>1. payment[p] \in D!Records /\ payment[p].decision = "pending"
      BY <1>0, <1>2 DEF Sorted, D!InState
    <2>2. PICK c \in DeskCategories : payment'[p] = D!Classified(p, c)
      BY <1>2 DEF Sorted
    <2> DEFINE x == [payment[p] EXCEPT !.category = c, !.plan = D!ProposedPlan(p),
                                       !.draft = (D!ProposedPlan(p) = Absent)]
    <2>3. x.decision = "pending" /\ DOMAIN x = DOMAIN payment[p]  BY <2>1 DEF D!Records
    <2>4. payment'[p] = D!WithoutAnswer(x)  BY <2>2 DEF D!Classified
    <2>5. "answer" \in DOMAIN x  BY <2>1, <2>3 DEF D!Records
    <2> HIDE DEF x
    <2> QED  BY <2>3, <2>4, <2>5 DEF D!WithoutAnswer
  <1>3. ASSUME ReviewedByForm(p)
        PROVE  \/ payment'[p].decision = "pending" /\ payment'[p].answer = D!NoAnswer
               \/ payment'[p].answer = D!Answer(p) /\ payment[p].decision = "pending"
                  /\ payment'[p].decision # "pending"
    <2>1. PICK new \in D!Records :
              /\ payment[p].decision = "pending" \/ new.decision = "pending"
              /\ payment'[p] = D!WithoutAnswer([new EXCEPT !.answer = D!Answer(p)])
      BY <1>3 DEF ReviewedByForm
    <2> DEFINE x == [new EXCEPT !.answer = D!Answer(p)]
    <2>2. payment[p] \in D!Records  BY <1>0, <1>3 DEF ReviewedByForm
    <2>3. x \in D!Records /\ x.decision = new.decision /\ x.answer = D!Answer(p)
      BY <2>2 DEF D!Records, D!Answer
    <2>4. payment'[p] = D!WithoutAnswer(x)  BY <2>1
    <2> HIDE DEF x
    <2> QED  BY <2>1, <2>3, <2>4 DEF D!WithoutAnswer, D!Records
  <1>4. ASSUME Answered(p)
        PROVE  /\ payment'[p].decision = "pending"
               /\ payment'[p].category = Absent
               /\ payment'[p].plan = Absent
               /\ payment'[p].content = D!Content(p)
               /\ payment'[p].answer.content = D!Content(p)
               /\ payment'[p].answer.catalog = catalogue
               /\ payment'[p].answer.model = model
               /\ payment'[p] = [payment[p] EXCEPT !.answer = payment'[p].answer]
    <2>1. /\ payment[p] \in D!Records /\ payment[p].decision = "pending"
          /\ payment[p].category = Absent /\ payment[p].plan = Absent
      BY <1>0, <1>4 DEF Answered, D!InState
    <2>2. PICK r \in Requests : /\ D!SameSettings(r)
                                /\ payment[p] = request[r].expected[p]
                                /\ payment'[p] = [payment[p] EXCEPT !.answer = D!AnswerFor(r, p)]
      BY <1>4 DEF Answered
    <2> DEFINE given == D!AnswerFor(r, p)
    <2>3. given.content = D!Content(p) /\ given.catalog = catalogue /\ given.model = model
      BY <2>2 DEF D!AnswerFor, D!SameSettings, D!Expected, D!Content
    <2>4. payment'[p] = [payment[p] EXCEPT !.answer = given]  BY <2>2
    <2> HIDE DEF given
    <2> QED  BY <2>1, <2>3, <2>4 DEF D!Records, D!Content
  <1>5. ASSUME Linked(p)
        PROVE  /\ payment'[p].decision = payment[p].decision
               /\ payment'[p].content = D!Content(p)
               /\ payment'[p].category = payment[p].category
               /\ payment'[p].plan = Absent \/ payment[p].decision = "accepted"
               /\ payment'[p].answer = D!Answer(p)
    <2>1. payment[p] \in D!Records  BY <1>0, <1>5 DEF Linked
    <2>2. PICK b \in DeskPlans \cup {Absent} :
              payment'[p] = [payment[p] EXCEPT !.plan = b] /\ Absent \in {b, payment[p].plan}
      BY <1>5 DEF Linked, D!Relinked
    <2>3. payment'[p].plan = Absent \/ payment[p].decision = "accepted"  BY <1>5 DEF Linked
    <2> QED  BY <2>1, <2>2, <2>3 DEF D!Records, D!Content, D!Answer
  <1> QED  BY <1>1, <1>2, <1>3, <1>4, <1>5

-----------------------------------------------------------------------------
(***************************************************************************)
(* The invariant.                                                          *)
(***************************************************************************)
\* A payment that is gone stays gone, and all others were there before.
LEMMA PresentWasPresent ==
    ASSUME D!DeskTypeOK, Snapshots, D!Next, NEW p \in DeskPayments, payment'[p] # D!Gone
    PROVE  p \in D!Present
  <1>1. CASE payment'[p] = payment[p]  BY <1>1 DEF D!Present
  <1>2. CASE Touched(p)
    BY <1>2 DEF Touched, TakenAsShown, Sorted, ReviewedByForm, Dropped, Answered, Linked, D!InState
  <1> QED  BY <1>1, <1>2, TouchedOrSame

\* What AnswersFitPayments says of one payment.
Fits(x) == x # D!Gone /\ x.decision = "pending" /\ x.answer # D!NoAnswer =>
               x.category = Absent /\ x.plan = Absent /\ x.answer.content = x.content

\* AnswersFitPayments, payment by payment.
LEMMA FitOneByOne == AnswersFitPayments <=> \A p \in DeskPayments : Fits(payment[p])
  BY DEF AnswersFitPayments, D!AnswersFitPayments, Fits, D!InState, D!Present, D!Answer, D!Content

\* FitOneByOne for the state after a step.
LEMMA FitOneByOneThen == AnswersFitPayments' <=> \A p \in DeskPayments : Fits(payment'[p])
  <1>1. (AnswersFitPayments <=> \A p \in DeskPayments : Fits(payment[p]))'
    BY FitOneByOne, PTL
  <1> QED  BY <1>1 DEF Fits, D!Gone, D!NoAnswer

\* The first payments have no answer, and nothing was asked.
LEMMA DeskStarts == D!Init => DeskInv
  <1> SUFFICES ASSUME D!Init PROVE DeskInv  OBVIOUS
  <1>1. \A x \in DeskContents : D!Fresh(x) \in D!Records /\ D!Fresh(x).answer = D!NoAnswer
    BY DEF D!Fresh, D!Records, D!Decisions
  <1>6. budget \in [DeskPlans -> PlanForms \cup {Absent}]  BY DEF D!Init
  <1>7. \A y \in D!Uploaded : y \in D!Records /\ y.answer = D!NoAnswer
    <2> SUFFICES ASSUME NEW y \in D!Uploaded, y \notin {D!Fresh(x) : x \in DeskContents}
                 PROVE  y \in D!Records /\ y.answer = D!NoAnswer
      BY <1>1
    <2>3. PICK x \in DeskContents : \E b \in D!PlansIn(x) :
              y = [D!Fresh(x) EXCEPT !.plan = b, !.category = budget[b].category]
      BY DEF D!Uploaded
    <2>1. PICK b \in D!PlansIn(x) :
              y = [D!Fresh(x) EXCEPT !.plan = b, !.category = budget[b].category]
      BY <2>3
    <2>2. b \in DeskPlans /\ budget[b].category \in DeskCategories
      BY <1>6, <2>1, DeskIsTyped DEF D!PlansIn
    <2>4. D!Fresh(x) \in D!Records /\ D!Fresh(x).answer = D!NoAnswer  BY <1>1
    <2> DEFINE fresh == D!Fresh(x)
               k == budget[b].category
    <2>5. fresh \in D!Records /\ fresh.answer = D!NoAnswer /\ k \in DeskCategories
          /\ y = [fresh EXCEPT !.plan = b, !.category = k]
      BY <2>1, <2>2, <2>4
    <2> HIDE DEF fresh, k
    <2> QED  BY <2>2, <2>5 DEF D!Records
  <1>2. \A p \in DeskPayments : payment[p] \in D!Records /\ payment[p].answer = D!NoAnswer
    BY <1>7 DEF D!Init
  <1>3. D!DeskTypeOK
    <2>1. payment \in [DeskPayments -> D!Records \cup {D!Gone}]  BY <1>2 DEF D!Init
    <2>2. catalogue \in D!Catalogs  BY DeskIsTyped DEF D!Init, D!Catalogs
    <2>3. page \in [Pages -> [DeskPayments -> D!Shown \cup {D!Gone}]]  BY DEF D!Init
    <2>4. form \in [DeskForms -> D!Forms \cup {D!NoForm}]  BY DEF D!Init
    <2>5. DOMAIN request = Requests /\ \A r \in Requests : request[r] = D!Idle  BY DEF D!Init
    <2>6. model \in Models \cup {Absent} /\ gate \in Requests \cup {Absent}  BY DEF D!Init
    <2> QED  BY <2>1, <2>2, <2>3, <2>4, <2>5, <2>6, <1>6 DEF D!DeskTypeOK
  <1>4. Snapshots
    <2>1. \A r \in Requests : request[r] = D!Idle  BY DEF D!Init
    <2>2. D!Idle.phase = "idle"  BY DEF D!Idle
    <2> QED  BY <2>1, <2>2 DEF Snapshots, Copies
  <1>5. AnswersFitPayments
    <2>1. \A p \in DeskPayments : Fits(payment[p])  BY <1>2 DEF Fits
    <2> QED  BY <2>1, FitOneByOne
  <1> QED  BY <1>3, <1>4, <1>5 DEF DeskInv

\* Every answer that is still kept after a step fits its payment.
LEMMA AnswersKeepFitting ==
    ASSUME DeskInv, D!Next
    PROVE  AnswersFitPayments'
  <1> USE DEF DeskInv
  <1>1. SUFFICES ASSUME NEW p \in DeskPayments PROVE Fits(payment'[p])
    BY FitOneByOneThen
  <1>2. CASE payment'[p] = payment[p]
    BY <1>2, FitOneByOne DEF Fits
  <1>3. CASE Dropped(p)
    BY <1>3 DEF Dropped, Fits
  <1>4. CASE TakenAsShown(p) \/ Sorted(p) \/ ReviewedByForm(p) \/ Answered(p)
    BY <1>4, TouchedFields DEF Fits
  <1>5. CASE Linked(p)
    <2>1. Fits(payment[p]) /\ payment[p] # D!Gone  BY <1>5, FitOneByOne DEF Linked, D!Present
    <2> QED  BY <1>5, <2>1, TouchedFields DEF Fits, D!Content, D!Answer
  <1> QED  BY <1>2, <1>3, <1>4, <1>5, TouchedOrSame DEF Touched

\* Every step keeps the invariant.
LEMMA DeskStep == DeskInv /\ [D!Next]_deskVars => DeskInv'
  <1> SUFFICES ASSUME DeskInv, [D!Next]_deskVars PROVE DeskInv'  OBVIOUS
  <1>1. CASE D!Next
    <2>0. D!DeskTypeOK /\ Snapshots  BY DEF DeskInv
    <2>1. D!DeskTypeOK'
      <3>1. DOMAIN request' = Requests
            /\ \A r \in Requests : request'[r] \in D!Working \cup {D!Idle} \/ D!Busy(request'[r])
        BY <1>1, <2>0, RequestsStayProper DEF Proper
      <3>2. /\ payment' \in [DeskPayments -> D!Records \cup {D!Gone}]
            /\ page' \in [Pages -> [DeskPayments -> D!Shown \cup {D!Gone}]]
            /\ form' \in [DeskForms -> D!Forms \cup {D!NoForm}]
            /\ catalogue' \in D!Catalogs
            /\ budget' \in [DeskPlans -> PlanForms \cup {Absent}]
            /\ model' \in Models \cup {Absent}
            /\ gate' \in Requests \cup {Absent}
        BY <1>1, <2>0, PaymentStaysTyped, PageStaysTyped, FormStaysTyped, SettingsStayTyped
      <3> QED  BY <3>1, <3>2 DEF D!DeskTypeOK
    <2>2. Snapshots'
      BY <1>1, <2>0, RequestsStayProper DEF Snapshots, Proper
    <2>3. AnswersFitPayments'  BY <1>1, AnswersKeepFitting
    <2> QED  BY <2>1, <2>2, <2>3 DEF DeskInv
  <1>2. CASE UNCHANGED deskVars
    <2>1. D!DeskTypeOK'  BY <1>2 DEF DeskInv, deskVars, D!DeskTypeOK
    <2>2. Snapshots'  BY <1>2 DEF DeskInv, deskVars, Snapshots
    <2>3. AnswersFitPayments'
      BY <1>2, FitOneByOne, FitOneByOneThen DEF DeskInv, deskVars
    <2> QED  BY <2>1, <2>2, <2>3 DEF DeskInv
  <1> QED  BY <1>1, <1>2

\* The invariant holds in every state.
LEMMA DeskInvariance == D!Spec => []DeskInv
  <1>1. DeskInv /\ [D!Next]_D!vars => DeskInv'  BY DeskStep DEF D!vars, deskVars
  <1> QED  BY DeskStarts, <1>1, PTL DEF D!Spec

-----------------------------------------------------------------------------
(***************************************************************************)
(* What holds of every desk.                                               *)
(***************************************************************************)
\* The variables hold what DeskTypeOK says, whatever is edited, accepted and
\* answered in between.
THEOREM DeskTypesHold == D!Spec => []D!DeskTypeOK
  <1>1. DeskInv => D!DeskTypeOK  BY DEF DeskInv
  <1> QED  BY <1>1, DeskInvariance, PTL

\* An answer kept with a pending payment was given for exactly that payment:
\* storing a payment as pending drops the answer, and an answer is stored only
\* over the payment it was given for (ReviewBankTransaction, SaveBankAnalyses).
THEOREM KeptAnswersFit == D!Spec => []AnswersFitPayments
  <1>1. DeskInv => AnswersFitPayments  BY DEF DeskInv
  <1> QED  BY <1>1, DeskInvariance, PTL

\* No answer is stored that was given for other payments, other categories or
\* by another model than the present one (SaveBankAnalyses).
THEOREM StoredAnswersAreFresh == D!Spec => OnlyFreshAnswers
  <1> DEFINE Fresh(p) ==
          payment'[p] # D!Gone /\ payment'[p].answer \notin {D!Answer(p), D!NoAnswer} =>
              /\ payment[p].decision = "pending"
              /\ payment'[p] = [payment[p] EXCEPT !.answer = payment'[p].answer]
              /\ payment'[p].answer.content = D!Content(p)
              /\ payment'[p].answer.catalog = catalogue
              /\ payment'[p].answer.model = model
  <1>1. ASSUME DeskInv, [D!Next]_D!vars PROVE [\A p \in D!Present : Fresh(p)]_D!vars
    <2>1. CASE UNCHANGED D!vars  BY <2>1
    <2>2. CASE D!Next
      <3>1. SUFFICES ASSUME NEW p \in D!Present PROVE Fresh(p)  OBVIOUS
      <3>2. p \in DeskPayments /\ D!DeskTypeOK /\ Snapshots  BY <1>1 DEF DeskInv, D!Present
      <3>3. CASE payment'[p] = payment[p]  BY <3>3 DEF D!Answer
      <3>4. CASE Dropped(p)  BY <3>4 DEF Dropped
      <3>5. CASE TakenAsShown(p) \/ Sorted(p) \/ ReviewedByForm(p) \/ Linked(p)
        BY <3>2, <3>5, TouchedFields
      <3>6. CASE Answered(p)
        <4>1. payment[p].decision = "pending"  BY <3>6 DEF Answered, D!InState
        <4> QED  BY <3>2, <3>6, <4>1, TouchedFields
      <3> QED  BY <2>2, <3>2, <3>3, <3>4, <3>5, <3>6, TouchedOrSame DEF Touched
    <2> QED  BY <1>1, <2>1, <2>2
  <1>2. D!Spec => [][D!Next]_D!vars  BY DEF D!Spec
  <1> QED  BY <1>1, <1>2, DeskInvariance, PTL DEF OnlyFreshAnswers, D!OnlyFreshAnswers

\* A decision stands until it is reopened: neither an answer that arrives late
\* nor a page that is out of date changes a decided payment; only its plan may
\* be deleted, or made from it.
THEOREM DecidedStaysDecided == D!Spec => DecisionsStand
  <1> DEFINE Stands(p) ==
          payment[p].decision # "pending" =>
              \/ payment'[p] \in {payment[p], D!Gone}
              \/ payment'[p].decision = "pending"
              \/ D!Relinked(p)
  <1>1. ASSUME DeskInv, [D!Next]_D!vars PROVE [\A p \in D!Present : Stands(p)]_D!vars
    <2>1. CASE UNCHANGED D!vars  BY <2>1
    <2>2. CASE D!Next
      <3>1. SUFFICES ASSUME NEW p \in D!Present PROVE Stands(p)  OBVIOUS
      <3>2. p \in DeskPayments /\ D!DeskTypeOK /\ Snapshots  BY <1>1 DEF DeskInv, D!Present
      <3>3. CASE payment'[p] = payment[p]  BY <3>3
      <3>4. CASE Dropped(p)  BY <3>4 DEF Dropped
      <3>5. CASE TakenAsShown(p) \/ Sorted(p) \/ Answered(p)
        BY <3>5 DEF TakenAsShown, Sorted, Answered, D!InState
      <3>6. CASE ReviewedByForm(p)
        BY <3>2, <3>6, TouchedFields
      <3>7. CASE Linked(p)
        BY <3>7 DEF Linked
      <3> QED  BY <2>2, <3>2, <3>3, <3>4, <3>5, <3>6, <3>7, TouchedOrSame DEF Touched
    <2> QED  BY <1>1, <2>1, <2>2
  <1>2. D!Spec => [][D!Next]_D!vars  BY DEF D!Spec
  <1> QED  BY <1>1, <1>2, DeskInvariance, PTL DEF DecisionsStand, D!DecisionsStand

\* A payment that is accepted while no form is sent or stored was accepted as
\* a page displays it.
LEMMA AcceptedFromPage ==
    ASSUME D!DeskTypeOK, Snapshots, D!Next, NEW p \in D!Present, D!FromPage(p)
    PROVE  TakenAsShown(p)
  <1>1. p \in DeskPayments  BY DEF D!Present
  <1>2. payment'[p] # payment[p]  BY DEF D!FromPage
  <1>3. ~Sorted(p) /\ ~Answered(p) /\ ~Linked(p)  BY <1>1, TouchedFields DEF D!FromPage
  <1>4. ~ReviewedByForm(p) /\ ~Dropped(p)  BY DEF D!FromPage, ReviewedByForm, Dropped
  <1> QED  BY <1>1, <1>2, <1>3, <1>4, TouchedOrSame DEF Touched

\* What is accepted from a page is stored with the content, the category and
\* the plan that page displays, under the names it displays, however old the
\* page is (quickBankPayment, handleBankBatch).
THEOREM PagesTellTheTruth == D!Spec => AcceptedAsDisplayed
  <1> DEFINE Displayed(p) ==
          \E t \in Pages :
              /\ page[t][p] # D!Gone
              /\ page[t][p].original.content = payment'[p].content
              /\ page[t][p].category = payment'[p].category
              /\ page[t][p].entry = catalogue[payment'[p].category]
              /\ page[t][p].plan = payment'[p].plan
              /\ page[t][p].title = D!Title(payment'[p].plan)
  <1>1. ASSUME DeskInv, [D!Next]_D!vars
        PROVE  [\A p \in D!Present : D!FromPage(p) => Displayed(p)]_D!vars
    <2>1. CASE UNCHANGED D!vars  BY <2>1
    <2>2. CASE D!Next
      <3>1. SUFFICES ASSUME NEW p \in D!Present, D!FromPage(p) PROVE Displayed(p)  OBVIOUS
      <3>2. p \in DeskPayments /\ D!DeskTypeOK /\ Snapshots  BY <1>1 DEF DeskInv, D!Present
      <3>3. TakenAsShown(p)  BY <2>2, <3>1, <3>2, AcceptedFromPage
      <3>4. PICK t \in Pages : page[t][p] = D!Token(p)  BY <3>3 DEF TakenAsShown
      <3>5. D!Token(p) # D!Gone  BY <3>2, TokenIsShown, ShownIsThere
      <3>6. D!Usable(D!Proposed(p))  BY <3>3 DEF TakenAsShown, D!CanQuick
      <3>7. /\ D!Token(p).original = payment[p]
            /\ D!Token(p).category = D!Proposed(p)
            /\ D!Token(p).entry = catalogue[D!Proposed(p)]
            /\ D!Token(p).plan = D!ProposedPlan(p)
            /\ D!Token(p).title = D!Title(D!ProposedPlan(p))
        BY <3>6 DEF D!Token
      <3>8. /\ payment'[p].content = D!Content(p) /\ payment'[p].category = D!Proposed(p)
            /\ payment'[p].plan = D!ProposedPlan(p)
        BY <3>2, <3>3, TouchedFields
      <3> QED  BY <3>4, <3>5, <3>7, <3>8 DEF D!Content
    <2> QED  BY <1>1, <2>1, <2>2
  <1>2. D!Spec => [][D!Next]_D!vars  BY DEF D!Spec
  <1> QED  BY <1>1, <1>2, DeskInvariance, PTL DEF AcceptedAsDisplayed, D!AcceptedAsDisplayed

\* Where nothing was set by hand and no plan is suggested, but a category is,
\* the history of the payee does not say anything else.
LEMMA HistoryAgrees ==
    ASSUME NEW p, payment[p].category = Absent, ~payment[p].draft,
           D!ProposedPlan(p) = Absent, D!Source(p) # "mentioned", D!Proposed(p) # Absent
    PROVE  D!History(p) \subseteq {D!Proposed(p)}
  <1>1. payment[p].plan = Absent  BY DEF D!ProposedPlan
  <1>2. D!Local(p) \notin {"plan", "manual", "draft"}  BY <1>1 DEF D!Local
  <1>3. D!Local(p) # "mentioned"  BY DEF D!Source
  <1>4. D!Local(p) # "conflict"
    <2>1. D!Local(p) = "conflict" => D!Source(p) = "conflict"  BY DEF D!Source
    <2>2. D!Source(p) = "conflict" => D!Proposed(p) = Absent  BY DEF D!Proposed
    <2> QED  BY <2>1, <2>2
  <1>5. ~(D!Cardinality(D!PlansIn(D!Content(p))) = 1)  BY <1>1, <1>3 DEF D!Local
  <1>6. ~(Cardinality(D!History(p)) > 1)  BY <1>1, <1>4, <1>5, DeskCounts DEF D!Local
  <1>7. CASE D!History(p) = {}  BY <1>7
  <1>8. CASE D!History(p) # {}
    <2>1. D!Local(p) = "history"  BY <1>1, <1>5, <1>6, <1>8, DeskCounts DEF D!Local
    <2>2. D!Source(p) = "history"  BY <2>1 DEF D!Source
    <2>3. D!Proposed(p) \in D!History(p)  BY <1>8, <2>2 DEF D!Proposed
    <2>4. Cardinality(D!History(p)) = 1
      BY <1>6, <1>8, HistoryIsFinite, FS_CardinalityType, FS_EmptySet
    <2>5. \E c : D!History(p) = {c}  BY <2>4, HistoryIsFinite, FS_Singleton
    <2> QED  BY <2>3, <2>5
  <1> QED  BY <1>7, <1>8

\* Where nothing was set by hand and a plan is suggested with a category, it is
\* the category of the plan.
LEMMA PlanAgrees ==
    ASSUME NEW p, payment[p].category = Absent, D!ProposedPlan(p) # Absent, D!Proposed(p) # Absent
    PROVE  D!Proposed(p) = budget[D!ProposedPlan(p)].category
  <1>1. CASE D!Source(p) = "mentioned"  BY <1>1 DEF D!Proposed
  <1>2. CASE D!Source(p) # "mentioned"
    <2>1. payment[p].plan # Absent  BY <1>2 DEF D!ProposedPlan
    <2>2. D!Local(p) = "plan"  BY <2>1 DEF D!Local
    <2>3. D!Source(p) = "plan"  BY <2>2 DEF D!Source
    <2>4. D!Proposed(p) = Absent  BY <2>3 DEF D!Proposed
    <2> QED  BY <2>4
  <1> QED  BY <1>1, <1>2

\* What is accepted from a page duplicates no other payment.  Unless someone
\* chose its category or its allocation by hand, it goes to the category of the
\* plan it is booked under, as that is now, or, without a plan, to nothing the
\* history of the payee contradicts (describeImport, proposeImport).
THEOREM PagesAgreeWithHistory == D!Spec => AcceptedInAgreement
  <1> DEFINE Agrees(p) ==
          /\ D!Duplicates(p) = {}
          /\ payment[p].category = Absent /\ ~payment[p].draft =>
                IF payment'[p].plan # Absent
                THEN payment'[p].category = budget[payment'[p].plan].category
                ELSE D!History(p) \subseteq {payment'[p].category}
  <1>1. ASSUME DeskInv, [D!Next]_D!vars
        PROVE  [\A p \in D!Present : D!FromPage(p) => Agrees(p)]_D!vars
    <2>1. CASE UNCHANGED D!vars  BY <2>1
    <2>2. CASE D!Next
      <3>1. SUFFICES ASSUME NEW p \in D!Present, D!FromPage(p) PROVE Agrees(p)  OBVIOUS
      <3>2. p \in DeskPayments /\ D!DeskTypeOK /\ Snapshots  BY <1>1 DEF DeskInv, D!Present
      <3>3. TakenAsShown(p)  BY <2>2, <3>1, <3>2, AcceptedFromPage
      <3>4. D!Duplicates(p) = {} /\ D!Proposed(p) # Absent
        BY <3>3 DEF TakenAsShown, D!CanQuick, D!Usable
      <3>5. payment'[p].category = D!Proposed(p) /\ payment'[p].plan = D!ProposedPlan(p)
        BY <3>2, <3>3, TouchedFields
      <3>6. ASSUME payment[p].category = Absent, ~payment[p].draft, D!ProposedPlan(p) = Absent
            PROVE  D!History(p) \subseteq {D!Proposed(p)}
        <4>1. D!Source(p) # "mentioned"  BY <3>2, <3>6, MentionedIsPlan, AbsentIsNothing
        <4> QED  BY <3>4, <3>6, <4>1, HistoryAgrees
      <3>7. ASSUME payment[p].category = Absent, D!ProposedPlan(p) # Absent
            PROVE  D!Proposed(p) = budget[D!ProposedPlan(p)].category
        BY <3>4, <3>7, PlanAgrees
      <3> QED  BY <3>4, <3>5, <3>6, <3>7
    <2> QED  BY <1>1, <2>1, <2>2
  <1>2. D!Spec => [][D!Next]_D!vars  BY DEF D!Spec
  <1> QED  BY <1>1, <1>2, DeskInvariance, PTL DEF AcceptedInAgreement, D!AcceptedInAgreement
=============================================================================
