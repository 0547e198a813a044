----------------------------- MODULE UploadQueue -----------------------------
(***************************************************************************)
(* The upload queue of the import page (internal/web/assets/static/        *)
(* imports.js).                                                            *)
(*                                                                         *)
(* The page sends one statement after the other and, between and beside    *)
(* the uploads, asks the server for fresh copies of two of its parts: the  *)
(* history of uploads with its open mappings, and the review list.  Up to  *)
(* four handlers wait for the server at once: the queue, refreshStatus,    *)
(* the form of a mapping and an action of the review list.  Everything a   *)
(* handler does between two awaits is one step; answers arrive in any      *)
(* order, late, or never.                                                  *)
(*                                                                         *)
(* The server is kept to what the page can tell apart: its generation (see *)
(* ImportPreviews), a count of its changes and the mappings still open.  A *)
(* mapping is named by the change that created it.  A revision number of   *)
(* the page is only ever compared with the newest one, so the model keeps  *)
(* who asked last instead.  Left out: the months of the review list, cards *)
(* kept back because they are being edited, and every label.               *)
(***************************************************************************)
EXTENDS Naturals, SequencesExt

CONSTANTS
    Files,
    MaxChanges,  \* bound: changes of the server's data
    MaxGeneration, \* bound: replacements of the server's data
    MaxGestures, \* bound: what the user does on the page
    NoToken      \* what an entry has whose file left no mapping

ASSUME QueueBounds == {MaxChanges, MaxGeneration, MaxGestures} \subseteq Nat
ASSUME QueueFiles == IsFiniteSet(Files)

VARIABLES
    server,      \* [generation, version, pending]
    page,        \* everything the script keeps, one field per variable
    gestures     \* history: how often the user did something

queueVars == <<server, page, gestures>>

Versions == 0..MaxChanges
Parts == {"history", "review"}
Callers == {"queue", "status", "mapping", "desk"}

\* The page was rendered for generation 0; its form keeps that number.
PageGeneration == 0

Quiet == [at |-> "idle"]

QueueInit ==
    /\ server = [generation |-> PageGeneration, version |-> 0, pending |-> {}]
    /\ gestures = 0
    /\ page = [entries |-> <<>>, paused |-> FALSE, stale |-> FALSE, ready |-> TRUE,
               run |-> Quiet, followed |-> FALSE, post |-> Quiet,
               refreshing |-> FALSE, again |-> FALSE, overtaken |-> FALSE,
               mapping |-> Quiet, desk |-> Quiet,
               fetch |-> [c \in Callers |-> Quiet], shown |-> server, review |-> 0, failed |-> FALSE, known |-> 0]

-----------------------------------------------------------------------------
(***************************************************************************)
(* The functions of the script, as functions of its state.                 *)
(***************************************************************************)
Running(p) == p.run # Quiet

Mark(p, i, state) == [p EXCEPT !.entries[i].state = state]
IndicesIn(p, states) == {i \in DOMAIN p.entries : p.entries[i].state \in states}
FirstQueued(p) == CHOOSE i \in IndicesIn(p, {"queued"}) :
                      \A j \in IndicesIn(p, {"queued"}) : i <= j

\* The entries the predicate selects change their state together.
MarkAll(p, Selected(_), state) ==
    [p EXCEPT !.entries = [i \in DOMAIN @ |->
        IF Selected(@[i]) THEN [@[i] EXCEPT !.state = state] ELSE @[i]]]

\* refreshPart up to its await: whoever asked for the part before is no longer
\* the newest.
Ask(p, c, part) ==
    [p EXCEPT !.fetch = [d \in Callers |->
        IF d = c THEN [at |-> "asked", part |-> part, newest |-> TRUE]
        ELSE IF p.fetch[d] # Quiet /\ p.fetch[d].part = part THEN [p.fetch[d] EXCEPT !.newest = FALSE]
        ELSE p.fetch[d]]]

\* refreshPart after its await: an answer somebody has asked again for since is
\* thrown away.
AnyAnswer(p, c) == TRUE
Newest(p, c) == p.fetch[c].newest

\* reconcileMappings.
Reconcile(p) ==
    LET Gone(e) == e.state = "mapping" /\ e.token \notin p.shown.pending
        closed == MarkAll(p, Gone, "closed")
    IN  IF p.shown.generation # PageGeneration THEN [closed EXCEPT !.stale = TRUE] ELSE closed

Take(p, c) ==
    LET rest == [p EXCEPT !.fetch[c] = Quiet]
        copy == p.fetch[c].copy
    IN  IF ~Newest(p, c) THEN rest
        ELSE IF p.fetch[c].part = "history" THEN Reconcile([rest EXCEPT !.shown = copy])
        ELSE [rest EXCEPT !.review = copy]

\* refreshStatus up to its first await.
RefreshStatus(p) ==
    IF Running(p) THEN p
    ELSE IF p.refreshing THEN [p EXCEPT !.again = TRUE]
    ELSE Ask([p EXCEPT !.refreshing = TRUE, !.again = FALSE, !.overtaken = FALSE,
                       !.failed = FALSE], "status", "history")

\* The end of refreshStatus: whoever asked meanwhile gets a refresh of their own.
StatusEnds(p) == [p EXCEPT !.refreshing = FALSE, !.again = FALSE, !.overtaken = FALSE]
StatusDone(p) ==
    IF p.again THEN RefreshStatus(StatusEnds(p)) ELSE StatusEnds(p)

\* send up to its await.
Send(p) ==
    LET i == FirstQueued(p)
    IN  [Mark(p, i, "uploading") EXCEPT
            !.overtaken = p.refreshing,
            !.post = [at |-> "asked"],
            !.run = [at |-> "sending", file |-> p.entries[i].file, stop |-> FALSE,
                     imported |-> FALSE]]

\* runQueue up to its first await.
RunQueue(p) ==
    IF Running(p) \/ p.stale \/ p.paused \/ ~p.ready \/ IndicesIn(p, {"queued"}) = {} THEN p
    ELSE Send([p EXCEPT !.followed = FALSE])

Queued(e) == e.state = "queued"

\* What is still queued when the queue stops has to be resumed by hand.
LeftBehind(p) == [p EXCEPT !.paused = TRUE]
SetAside(p) == MarkAll([p EXCEPT !.paused = TRUE], Queued, IF p.stale THEN "error" ELSE "paused")

\* The end of a round of runQueue's loop.
NextRound(p) ==
    LET halted == p.run.stop \/ p.stale
        left == IF halted THEN SetAside(p) ELSE p
    IN  IF ~halted /\ IndicesIn(p, {"queued"}) # {} THEN Send(p)
        ELSE RefreshStatus([left EXCEPT !.run = Quiet, !.followed = FALSE])

-----------------------------------------------------------------------------
(***************************************************************************)
(* autoAnalyze, called by the queue and by a mapping: the caller waits     *)
(* until the analysis, an action of the review list, has ended.            *)
(***************************************************************************)
Continue(p, c) ==
    IF c = "queue" THEN NextRound(p)
    ELSE IF c = "mapping" THEN Ask([p EXCEPT !.mapping.at = "history"], "mapping", "history")
    ELSE p

Analyse(p, c) ==
    LET posted == [p EXCEPT !.desk = [at |-> "asked", caller |-> c, version |-> 0]]
    IN  IF c = "queue" THEN [posted EXCEPT !.run.at = "analysing"]
                       ELSE [posted EXCEPT !.mapping.at = "analysing"]

\* There is nothing to analyse, no model, or the list is busy: on it goes.
Analyses(p, c) ==
    {Continue(p, c)} \cup IF p.stale \/ p.desk # Quiet THEN {} ELSE {Analyse(p, c)}

-----------------------------------------------------------------------------
(***************************************************************************)
(* The user.                                                               *)
(***************************************************************************)
\* Each of these counts as a gesture of the user.
Gesture == gestures < MaxGestures /\ gestures' = gestures + 1

UnderWay(f) == \E i \in IndicesIn(page, {"queued", "uploading", "mapping", "paused"}) :
                   page.entries[i].file = f

\* filter: what is left of the queue without the entries of some files.
Without(entries, files) ==
    LET left[i \in 0..Len(entries)] ==
            IF i = 0 THEN <<>>
            ELSE IF entries[i].file \in files THEN left[i - 1] ELSE Append(left[i - 1], entries[i])
    IN  left[Len(entries)]

\* addFiles, with one or more files: a file that is still under way is not taken
\* again, any other entry for it is replaced.
AddFiles(files) ==
    /\ \A i \in DOMAIN files : ~UnderWay(files[i])
    /\ LET state == IF page.stale THEN "error" ELSE IF page.paused THEN "paused" ELSE "queued"
           added == [i \in DOMAIN files |-> [file |-> files[i], state |-> state, token |-> NoToken]]
       IN  page' = RunQueue([page EXCEPT !.entries = Without(@, ToSet(files)) \o added])
    /\ UNCHANGED server /\ Gesture

RemoveEntry(i) ==
    /\ page.entries[i].state # "uploading"
    /\ page' = [page EXCEPT !.entries = RemoveAt(@, i)]
    /\ UNCHANGED server /\ Gesture

\* The button resumes whatever is paused.
Retry(i) ==
    /\ page.entries[i].state \in {"error", "paused"}
    /\ ~Running(page) /\ ~page.stale /\ page.ready
    /\ LET Paused(e) == e.state = "paused"
           resumed == MarkAll([page EXCEPT !.paused = FALSE, !.entries[i].token = NoToken], Paused, "queued")
       IN  page' = RunQueue(Mark(resumed, i, "queued"))
    /\ UNCHANGED server /\ Gesture

\* The account is chosen or cleared; the fields are locked during a run.  What
\* the fields say is BankLedger's business.
ChangeForm ==
    /\ ~Running(page)
    /\ page' = RunQueue([page EXCEPT !.ready = ~@])
    /\ UNCHANGED server /\ Gesture

\* The window is focused or shown again.
Focus ==
    /\ ~Running(page)
    /\ page' = RefreshStatus(page)
    /\ UNCHANGED server /\ Gesture

SubmitMapping(k, confirm) ==
    /\ page.mapping = Quiet /\ ~page.stale
    /\ k \in page.shown.pending
    /\ page' = [page EXCEPT !.mapping =
                   [at |-> "asked", token |-> k, confirm |-> confirm, version |-> 0]]
    /\ UNCHANGED server /\ Gesture

\* reviewRequest, or a quick review.
Act ==
    /\ page.desk = Quiet /\ ~page.stale
    /\ page' = [page EXCEPT !.desk = [at |-> "asked", caller |-> "user", version |-> 0]]
    /\ UNCHANGED server /\ Gesture

-----------------------------------------------------------------------------
(***************************************************************************)
(* The server.                                                             *)
(***************************************************************************)
Changed(s, pending) == [s EXCEPT !.version = @ + 1, !.pending = pending]
CanChange == server.version < MaxChanges

\* A restore, a reset or the deletion of a household, from another tab.
Replace ==
    /\ CanChange /\ server.generation < MaxGeneration
    /\ server' = [Changed(server, {}) EXCEPT !.generation = @ + 1]
    /\ UNCHANGED <<page, gestures>>

\* What an upload of the page's generation does to the data.
Additions(s) == {Changed(s, s.pending), Changed(s, s.pending \cup {s.version + 1})}

\* A mapping is confirmed or cancelled in another tab, or it expires.
CloseElsewhere(k) ==
    /\ CanChange /\ k \in server.pending
    /\ server' = Changed(server, server.pending \ {k})
    /\ UNCHANGED <<page, gestures>>

Accept ==
    /\ page.post = [at |-> "asked"]
    /\ CanChange /\ server.generation = PageGeneration
    /\ server' \in Additions(server)
    /\ page' = [page EXCEPT !.post =
                   [at |-> "answered", version |-> server'.version,
                    outcome |-> IF server'.pending = server.pending THEN "imported" ELSE "mapping"]]
    /\ UNCHANGED gestures

\* A 4xx answer: a bad file, too many requests (429, also while another upload
\* holds the gate), or another household or generation than the page's.
TurnDown ==
    /\ page.post = [at |-> "asked"]
    /\ \E outcome \in {"refused", "busy", "context"} :
           /\ server.generation # PageGeneration => outcome \in {"busy", "context"}
           /\ page' = [page EXCEPT !.post = [at |-> "answered", version |-> 0, outcome |-> outcome]]
    /\ UNCHANGED <<server, gestures>>

\* handleImportStatus renders a part.
Render(c) ==
    /\ page.fetch[c].at = "asked"
    /\ page' = [page EXCEPT !.fetch[c] = 
                   [at |-> "answered", part |-> @.part, newest |-> @.newest,
                    copy |-> IF @.part = "history" THEN server ELSE server.version]]
    /\ UNCHANGED <<server, gestures>>

-----------------------------------------------------------------------------
(***************************************************************************)
(* The queue.                                                              *)
(***************************************************************************)
Current(p) == {i \in DOMAIN p.entries : p.entries[i].file = p.run.file}

\* The answer to an upload: the entry gets its state, and the next await is a
\* fresh history.
Settle(p, state, token, stop, stale) ==
    LET i == CHOOSE j \in Current(p) : TRUE
    IN  Ask([Mark(p, i, state) EXCEPT
                !.entries[i].token = token, !.post = Quiet, !.stale = @ \/ stale,
                !.run.at = "history", !.run.stop = stop, !.run.imported = (state = "imported")],
            "queue", "history")

Answered ==
    /\ page.post.at = "answered"
    /\ LET outcome == page.post.outcome
           stored == outcome \in {"imported", "mapping"}
       IN  page' = [Settle(page, IF stored THEN outcome ELSE "error",
                           IF outcome = "mapping" THEN page.post.version ELSE NoToken,
                           outcome \in {"busy", "context"}, outcome = "context") EXCEPT
                       !.known = IF stored THEN page.post.version ELSE @]
    /\ UNCHANGED <<server, gestures>>

\* A network error, the timeout of 210 seconds or an unreadable answer, whether
\* or not the server has stored the upload.
Lost ==
    /\ page.post # Quiet
    /\ page' = Settle(page, "error", NoToken, TRUE, FALSE)
    /\ UNCHANGED <<server, gestures>>

\* The run holds on to its entry: an imported one counts though its file has been
\* added again since, and one whose mapping was confirmed meanwhile counts too.
Imported(p) == p.run.imported \/ \E i \in Current(p) : p.entries[i].state = "imported"

\* The first imported statement of a run is shown in the review list.
QueueGoesOn(p) ==
    IF ~Imported(p) THEN {NextRound(p)}
    ELSE IF p.run.at = "history" /\ ~p.followed
    THEN {Ask([p EXCEPT !.followed = TRUE, !.run.at = "review"], "queue", "review")}
    ELSE Analyses(p, "queue")

-----------------------------------------------------------------------------
(***************************************************************************)
(* The form of a mapping and the actions of the review list.               *)
(***************************************************************************)
ServeMapping ==
    /\ page.mapping.at = "asked"
    /\ CanChange /\ page.mapping.token \in server.pending
    /\ server' = Changed(server, server.pending \ {page.mapping.token})
    /\ page' = [page EXCEPT !.mapping = [@ EXCEPT !.at = "answered", !.version = server'.version]]
    /\ UNCHANGED gestures

MappingAnswered ==
    /\ page.mapping.at = "answered"
    /\ LET k == page.mapping.token
           Of(e) == e.state = "mapping" /\ e.token = k
           after == IF page.mapping.confirm THEN "imported" ELSE "closed"
           settled == [MarkAll(page, Of, after) EXCEPT !.shown.pending = @ \ {k},
                                                      !.known = page.mapping.version]
       IN  page' = IF page.mapping.confirm
                   THEN Ask([settled EXCEPT !.mapping.at = "review"], "mapping", "review")
                   ELSE Continue(settled, "mapping")
    /\ UNCHANGED <<server, gestures>>

\* Refused, refused for its context, or without an answer.
MappingFailed ==
    /\ page.mapping.at \in {"asked", "answered"}
    /\ \E stale \in {FALSE, page.mapping.at = "asked"} :
           page' = Continue([page EXCEPT !.stale = @ \/ stale], "mapping")
    /\ UNCHANGED <<server, gestures>>

MappingGoesOn(p) ==
    IF p.mapping.at = "review" THEN Analyses(p, "mapping")
    ELSE {RefreshStatus([p EXCEPT !.mapping = Quiet])}

ServeDesk ==
    /\ page.desk.at = "asked"
    /\ CanChange /\ server.generation = PageGeneration
    /\ server' = Changed(server, server.pending)
    /\ page' = [page EXCEPT !.desk = [@ EXCEPT !.at = "answered", !.version = server'.version]]
    /\ UNCHANGED gestures

\* Done, refused, refused for its context, or without an answer.
DeskAnswered ==
    /\ page.desk.at \in {"asked", "answered"}
    /\ \E done, stale \in BOOLEAN :
           /\ done => page.desk.at = "answered"
           /\ stale => page.desk.at = "asked"
           /\ page' = Ask([page EXCEPT !.desk.at = "history", !.stale = @ \/ stale,
                              !.known = IF done THEN page.desk.version ELSE @], "desk", "history")
    /\ UNCHANGED <<server, gestures>>

DeskDone(p) == Continue([p EXCEPT !.desk = Quiet], p.desk.caller)

DeskGoesOn(p) ==
    IF p.desk.at = "history" THEN {Ask([p EXCEPT !.desk.at = "review"], "desk", "review")}
    ELSE {DeskDone(p)}

-----------------------------------------------------------------------------
(***************************************************************************)
(* The answers to the requests for a part.                                 *)
(***************************************************************************)
StatusGoesOn(p, part) ==
    IF part = "review" THEN {StatusDone(p)}
    ELSE IF Running(p) \/ p.overtaken THEN {StatusDone([p EXCEPT !.again = TRUE])}
    ELSE {Ask(p, "status", "review")}

GoesOn(p, c, part) ==
    CASE c = "queue" -> QueueGoesOn(p)
      [] c = "status" -> StatusGoesOn(p, part)
      [] c = "mapping" -> MappingGoesOn(p)
      [] OTHER -> DeskGoesOn(p)

Arrive(c) ==
    /\ page.fetch[c].at = "answered"
    /\ page' \in GoesOn(Take(page, c), c, page.fetch[c].part)
    /\ UNCHANGED <<server, gestures>>

\* The request fails, and the page says that it may be out of date; only a
\* mapping whose statement cannot be shown reports that itself.
Fail(c) ==
    /\ page.fetch[c].at = "asked"
    /\ LET told == [page EXCEPT !.fetch[c] = Quiet, !.failed = TRUE]
       IN  page' = CASE c = "queue" -> NextRound(told)
                     [] c = "status" -> StatusDone(told)
                     [] c = "desk" -> DeskDone(told)
                     [] c = "mapping" ->
                            IF page.mapping.at = "review"
                            THEN Continue([told EXCEPT !.failed = page.failed], "mapping")
                            ELSE RefreshStatus([told EXCEPT !.mapping = Quiet])
    /\ UNCHANGED <<server, gestures>>

-----------------------------------------------------------------------------
User ==
    \/ \E files \in (SUBSET Files) \ {{}} : \E order \in SetToSeqs(files) : AddFiles(order)
    \/ \E i \in DOMAIN page.entries : RemoveEntry(i)
    \/ \E i \in DOMAIN page.entries : Retry(i)
    \/ ChangeForm
    \/ Focus
    \/ \E k \in Versions, confirm \in BOOLEAN : SubmitMapping(k, confirm)
    \/ Act

Upload == Accept \/ TurnDown \/ Answered \/ Lost
Mapping == ServeMapping \/ MappingAnswered \/ MappingFailed
Desk == ServeDesk \/ DeskAnswered

QueueNext ==
    \/ User
    \/ Upload
    \/ Replace
    \/ \E k \in Versions : CloseElsewhere(k)
    \/ Mapping
    \/ Desk
    \/ \E c \in Callers : Render(c)
    \/ \E c \in Callers : Arrive(c)
    \/ \E c \in Callers : Fail(c)

QueueSpec == QueueInit /\ [][QueueNext]_queueVars

-----------------------------------------------------------------------------
(***************************************************************************)
(* Properties.                                                             *)
(***************************************************************************)

\* A mapping the page calls closed is closed at the server, in whatever order
\* the copies of the history arrive: an older copy, rendered before the mapping
\* was created, must not close it (refreshPart, reconcileMappings).
ClosedMeansGone ==
    \A i \in DOMAIN page.entries :
        page.entries[i].state = "closed" => page.entries[i].token \notin server.pending

\* Once nothing is under way, both parts of the page show every change the
\* server has confirmed to it, or the page says that a refresh failed
\* (refreshStatus, refreshAgain, uploadRevision).
AtRest == /\ ~Running(page) /\ ~page.refreshing
          /\ page.mapping = Quiet /\ page.desk = Quiet

QuietPageIsCurrent ==
    AtRest => \/ page.failed
              \/ page.shown.version >= page.known /\ page.review >= page.known

\* A file that waits for its turn gets it: a run is under way, or the user is
\* being told what the form lacks or that the page is stale and has to be
\* loaded again.  Whatever stops a run sets the files aside
\* for the user to resume (runQueue), while other files are added, removed and
\* retried and answers stay out.
NobodyWaitsInVain ==
    IndicesIn(page, {"queued"}) # {} => Running(page) \/ page.stale \/ ~page.ready
=============================================================================
