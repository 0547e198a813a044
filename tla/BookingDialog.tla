---------------------------- MODULE BookingDialog ----------------------------
(***************************************************************************)
(* The dialog in which a booking is edited (internal/web/dialog.templ,     *)
(* assets/static/app.js) and its requests (handlers_bookings.go).          *)
(*                                                                         *)
(* There is no button to save: the row exists before its dialog opens, the *)
(* form posts all of its fields with every edit, and a draft that nobody   *)
(* typed into is thrown away when its dialog closes.  The form sends one   *)
(* request at a time; an edit made meanwhile waits in the page, and the    *)
(* requests of different elements, dialogs and tabs overtake each other.   *)
(* A handler reads the row in one statement and writes it in another.      *)
(*                                                                         *)
(* One booking.  `Contents` are the values of all its fields together: its *)
(* name, and the rest.  A draft has a suggested name, and a click into     *)
(* such a name empties the field without an edit: nothing is posted before *)
(* the next one.  Entries the browser does not post (they fail its own     *)
(* checks) or that the server completes from the stored row are left out,  *)
(* and so are the price change and the temporary amounts, which have       *)
(* requests of their own (BookingPeriods, HouseholdBook).                  *)
(***************************************************************************)
EXTENDS Naturals

CONSTANTS
    Tabs,
    Contents,    \* what the fields of the form can hold: a name and the rest
    Fresh,       \* what a draft is created with
    Unfilled,    \* the rests without an amount or a note
    Rejected,    \* contents the server does not take: out of range, bad dates
    Losable,     \* the kinds of request the network may lose
    MaxDialogs,  \* bound: how often the dialog is opened
    Gone

Names == {"suggested", "none", "own"}

\* isBlankDraft: no amount, no note, and no name of one's own.
BlankDrafts == {c \in Contents : c.name # "own" /\ c.rest \in Unfilled}

\* What a click into a suggested name leaves of the fields.
Wiped(c) == [c EXCEPT !.name = "none"]

ASSUME ContentsAreTold ==
    /\ \A c \in Contents : c = [name |-> c.name, rest |-> c.rest] /\ c.name \in Names
    /\ \A c \in Contents : Wiped(c) \in Contents
    /\ Fresh \in BlankDrafts /\ Fresh.name = "suggested"
    /\ Rejected \subseteq Contents \ BlankDrafts
    /\ Gone \notin Contents

ASSUME DialogBound == MaxDialogs \in Nat

VARIABLES
    row,         \* the booking: its contents, and (history) the dialog that wrote them
    page,        \* what each tab shows
    requests,    \* posts under way, from the browser to its answer
    dialogs,     \* history: how many dialogs were opened; a dialog is its number
    typed        \* history: the dialogs something was typed in

dialogVars == <<row, page, requests, dialogs, typed>>

Dialogs == 0..MaxDialogs
Closed == [at |-> "closed"]
Posts == [kind : {"save", "discard", "delete"}, by : Dialogs, contents : Contents,
          at : {"sent", "read", "saved", "failed"}]

Open(t) == page[t].at = "open"
Stored == row.contents # Gone

\* The dialog arrives as a fragment; app.js opens it and forgets what was
\* touched and which saves had failed.  A suggested name is marked as such.
Fragment(id, contents, draft, newer) ==
    [at |-> "open", id |-> id, draft |-> draft, field |-> contents, touched |-> FALSE,
     suggests |-> contents.name = "suggested",
     pending |-> FALSE, sending |-> FALSE, queued |-> FALSE, error |-> FALSE,
     newer |-> newer,    \* history: the row was written or deleted from elsewhere
     wiped |-> FALSE]    \* history: a click emptied the name after the last post

DialogInit ==
    /\ requests = {} /\ typed = {}
    /\ \/ /\ row = [contents |-> Fresh, by |-> 0]
          /\ dialogs = 1
          /\ \E t \in Tabs : page = [s \in Tabs |->
                 IF s = t THEN Fragment(1, Fresh, TRUE, FALSE) ELSE Closed]
       \/ /\ row \in [contents : Contents \ (BlankDrafts \cup Rejected), by : {0}]
          /\ dialogs = 0
          /\ page = [s \in Tabs |-> Closed]

-----------------------------------------------------------------------------
(***************************************************************************)
(* The page.                                                               *)
(***************************************************************************)
\* handleBookingEdit reads the row, the fragment arrives later.
OpenEdit(t) ==
    /\ page[t] = Closed /\ Stored /\ dialogs < MaxDialogs
    /\ page' = [page EXCEPT ![t] = [at |-> "arriving", field |-> row.contents, newer |-> FALSE]]
    /\ UNCHANGED <<row, requests, dialogs, typed>>

Show(t) ==
    /\ page[t].at = "arriving" /\ dialogs < MaxDialogs
    /\ dialogs' = dialogs + 1
    /\ page' = [page EXCEPT ![t] = Fragment(dialogs', @.field, FALSE, @.newer)]
    /\ UNCHANGED <<row, requests, typed>>

Post(kind, p) == [kind |-> kind, by |-> p.id, contents |-> p.field, at |-> "sent"]

\* An element has one request under way.  The next one waits, the last that
\* asked, and takes the fields as they are when its turn comes.
Dropped(p) == [p EXCEPT !.pending = FALSE]
Waiting(p) == [p EXCEPT !.queued = TRUE, !.pending = FALSE]
Sending(p) == [p EXCEPT !.sending = TRUE, !.queued = FALSE, !.pending = FALSE, !.wiped = FALSE]

Submit(t, p) ==
    \/ /\ p.sending
       /\ page' = [page EXCEPT ![t] = Waiting(p)]
       /\ UNCHANGED requests
    \/ /\ ~p.sending
       /\ page' = [page EXCEPT ![t] = Sending(p)]
       /\ requests' = requests \cup {Post("save", p)}

\* markDialogTouched: typing beats what the server knows, picking does not.
TouchesAlways(how) == TRUE
Touches(how) == how = "typed"

Edited(p, c, how) == [p EXCEPT !.field = c, !.touched = @ \/ Touches(how)]

\* A keystroke is posted after a pause, or when the field is left.
Type(t, c) ==
    /\ Open(t) /\ c # page[t].field
    /\ page' = [page EXCEPT ![t] = [Edited(@, c, "typed") EXCEPT !.pending = TRUE]]
    /\ typed' = typed \cup {page[t].id}
    /\ UNCHANGED <<row, requests, dialogs>>

\* A click into the name, the first one while it is marked: the script empties
\* the field, whatever was typed into it since, which is no edit of its own.
Emptied(p) == [p EXCEPT !.field = Wiped(@), !.suggests = FALSE, !.wiped = TRUE]

ClickName(t) ==
    /\ Open(t) /\ page[t].suggests
    /\ page' = [page EXCEPT ![t] = Emptied(@)]
    /\ UNCHANGED <<row, requests, dialogs, typed>>

\* A select, a radio or a checkbox: posted at once.  It leaves the name, the
\* amount and the note alone, and may change what Contents does not tell apart.
Pick(t, c) ==
    /\ Open(t)
    /\ c.name = page[t].field.name
    /\ c.rest \in Unfilled <=> page[t].field.rest \in Unfilled
    /\ Submit(t, Edited(page[t], c, "picked"))
    /\ UNCHANGED <<row, dialogs, typed>>

\* The pause is over; a bare key press posts too.
Fire(t) ==
    /\ Open(t)
    /\ Submit(t, page[t])
    /\ UNCHANGED <<row, dialogs, typed>>

\* What closing still posts: the field that is left, or the end of a draft.
\* The dialog leaves the page, and what waited in it is not sent any more.
DiscardsDrafts(p) == p.draft
Discards(p) == p.draft /\ ~p.touched

Parting(p) ==
    (IF p.pending /\ ~p.sending THEN {Post("save", p)} ELSE {})
        \cup (IF Discards(p) THEN {Post("discard", p)} ELSE {})

CloseDialog(t) ==
    /\ Open(t)
    /\ requests' = requests \cup Parting(page[t])
    /\ page' = [page EXCEPT ![t] = Closed]
    /\ UNCHANGED <<row, dialogs, typed>>

\* The button posts and closes the dialog.
PressDelete(t) ==
    /\ Open(t)
    /\ requests' = requests \cup Parting(page[t]) \cup {Post("delete", page[t])}
    /\ page' = [page EXCEPT ![t] = Closed]
    /\ UNCHANGED <<row, dialogs, typed>>

-----------------------------------------------------------------------------
(***************************************************************************)
(* The server.                                                             *)
(***************************************************************************)
Becomes(q, at) == requests' = (requests \ {q}) \cup {[q EXCEPT !.at = at]}
Ends(q) == requests' = requests \ {q}

\* Every dialog but the writer's is behind the row from now on.
Seen(by) ==
    page' = [t \in Tabs |->
        IF page[t] = Closed THEN Closed
        ELSE [page[t] EXCEPT !.newer = ~(Open(t) /\ page[t].id = by)]]

\* handleBookingUpdate
ReadForSave(q) ==
    /\ q.kind = "save" /\ q.at = "sent"
    /\ Becomes(q, IF Stored /\ q.contents \notin Rejected THEN "read" ELSE "failed")
    /\ UNCHANGED <<row, page, dialogs, typed>>

WriteSave(q) ==
    /\ q.kind = "save" /\ q.at = "read"
    /\ \/ /\ Stored
          /\ row' = [contents |-> q.contents, by |-> q.by]
          /\ Seen(q.by)
          /\ Becomes(q, "saved")
       \/ /\ ~Stored
          /\ Becomes(q, "failed")
          /\ UNCHANGED <<row, page>>
    /\ UNCHANGED <<dialogs, typed>>

RemoveRow(q) ==
    /\ row' = [contents |-> Gone, by |-> q.by]
    /\ Seen(q.by)
    /\ Ends(q)
    /\ UNCHANGED <<dialogs, typed>>

\* isBlankDraft.
IsBlankDraft == row.contents \in BlankDrafts

\* handleBookingDiscard
ReadForDiscard(q) ==
    /\ q.kind = "discard" /\ q.at = "sent"
    /\ IF IsBlankDraft THEN Becomes(q, "read") ELSE Ends(q)
    /\ UNCHANGED <<row, page, dialogs, typed>>

DeleteDraft(q) ==
    /\ q.kind = "discard" /\ q.at = "read"
    /\ RemoveRow(q)

\* handleBookingDelete
DeleteBooking(q) ==
    /\ q.kind = "delete" /\ q.at = "sent"
    /\ RemoveRow(q)

Lose(q) ==
    /\ q.kind \in Losable /\ q.at \in {"sent", "saved"}
    /\ Becomes(q, "failed")
    /\ UNCHANGED <<row, page, dialogs, typed>>

-----------------------------------------------------------------------------
\* The answer of a save: afterRequest shows or clears the error, and the edit
\* that waited is posted, if the dialog is still there.
Shown(p, q) == [p EXCEPT !.error = q.at = "failed", !.sending = FALSE]

ReceiveSave(q) ==
    /\ q.kind = "save" /\ q.at \in {"saved", "failed"}
    /\ \/ \E t \in Tabs :
             LET p == Shown(page[t], q) IN
             /\ Open(t) /\ page[t].id = q.by
             /\ page' = [page EXCEPT ![t] = IF p.queued THEN Sending(p) ELSE p]
             /\ requests' = (requests \ {q}) \cup (IF p.queued THEN {Post("save", p)} ELSE {})
       \/ /\ \A t \in Tabs : Open(t) => page[t].id # q.by
          /\ Ends(q)
          /\ UNCHANGED page
    /\ UNCHANGED <<row, dialogs, typed>>

DialogNext ==
    \/ \E t \in Tabs :
          \/ OpenEdit(t)
          \/ Show(t)
          \/ \E c \in Contents : Type(t, c) \/ Pick(t, c)
          \/ ClickName(t)
          \/ Fire(t)
          \/ CloseDialog(t)
          \/ PressDelete(t)
    \/ \E q \in requests :
          \/ ReadForSave(q)
          \/ WriteSave(q)
          \/ ReadForDiscard(q)
          \/ DeleteDraft(q)
          \/ DeleteBooking(q)
          \/ Lose(q)
          \/ ReceiveSave(q)

DialogSpec == DialogInit /\ [][DialogNext]_dialogVars

-----------------------------------------------------------------------------
(***************************************************************************)
(* Properties.                                                             *)
(***************************************************************************)
\* A dialog at rest without an error shows what is stored, unless the row was
\* written from elsewhere: the "Saved" beside the fields is true, whatever was
\* lost, refused or still waiting before (app.js:303-330).  All it may lack is
\* the name that a click took out of the field since the last post
\* (app.js:188-195), whatever was typed, picked or answered before the click.
Shows(p, c) == p.field = c \/ (p.wiped /\ p.field = Wiped(c))

OpenDialogIsHonest ==
    \A t \in Tabs :
        LET p == page[t] IN
        Open(t) /\ ~(p.pending \/ p.sending \/ p.queued \/ p.error \/ p.newer)
            => Stored /\ Shows(p, row.contents)

\* Once everything has come to rest, a draft that nobody typed into is gone,
\* whatever was picked in it and in whatever order its saves and its discard
\* were handled (handlers_bookings.go:113-115: no click on "add" leaves a dead
\* booking behind).
Quiet == requests = {} /\ \A t \in Tabs : page[t] = Closed
NoDeadDrafts == Quiet /\ typed = {} => row.contents \notin BlankDrafts

\* The discard of a dialog never takes what was typed in this dialog: its own
\* saves, answered or still under way, cannot turn the row into more than a
\* draft between the check and the deletion (app.js:203-207).
DiscardSparesOwn ==
    [][\A q \in requests :
          DeleteDraft(q) => row.contents \in BlankDrafts \cup {Gone} \/ row.by # q.by]_dialogVars

\* What isBlankDraft is for: only a booking that holds nothing but the values
\* the dialog created it with is discarded (handlers_bookings.go:142-143).
OnlyBlankDiscarded ==
    [][\A q \in requests : DeleteDraft(q) => row.contents \in BlankDrafts \cup {Gone}]_dialogVars
=============================================================================
