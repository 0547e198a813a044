----------------------------- MODULE InputProofs ------------------------------
(***************************************************************************)
(* Theorems about BookingDialog, for any tabs, contents and number of      *)
(* dialogs.                                                                *)
(*                                                                         *)
(* The discard of a dialog spares what was typed in the dialog.  It is     *)
(* checked against the row and deletes it in a later step, so the check    *)
(* alone would not do: a save of the same dialog may still be under way.   *)
(* It is harmless because of what the page knows.  As long as nothing was  *)
(* typed in a draft, everything its dialog ever sent is blank              *)
(* (SilentDrafts); when it closes, it takes its number with it, so nothing *)
(* else can be sent under it (PartedDrafts, SilentDiscards).               *)
(*                                                                         *)
(* A dialog at rest shows what is stored, but for a name that was clicked  *)
(* away.  It has one save under way at most (OneSaveEach), which carries   *)
(* what the page shows unless the page knows of something newer            *)
(* (SentOrWaiting); without one, it shows the row unless the row was       *)
(* written from elsewhere (RowIsKnown).                                    *)
(*                                                                         *)
(* A draft nobody typed into does not stay: as long as nothing was typed   *)
(* anywhere, all that any dialog holds or sends is blank (AllAlike), and   *)
(* there is an open dialog that will discard it or a discard under way     *)
(* (Discarded).                                                            *)
(*                                                                         *)
(* No statement is read by a guess, whatever its tables hold: a text is    *)
(* never two amounts, and what is detected is what every choice by hand    *)
(* gives that can be read at all.                                          *)
(*                                                                         *)
(* Nor is a row of it lost or counted twice.  Rows are collected one by    *)
(* one, and after each of them the accounts are the rows so far            *)
(* (Collected): an account holds as many payments as it has rows, each at  *)
(* the place of its row among them.  Collecting is a function by           *)
(* recursion; it exists because its values have a type (StepsExist).       *)
(***************************************************************************)
EXTENDS BookingDialog, StatementTables, InductionLemmas, FiniteSetTheorems, SequenceTheorems

OpenPages == [at : {"open"}, id : Nat, draft : BOOLEAN, field : Contents, touched : BOOLEAN,
              suggests : BOOLEAN, pending : BOOLEAN, sending : BOOLEAN, queued : BOOLEAN,
              error : BOOLEAN, newer : BOOLEAN, wiped : BOOLEAN]
ArrivingPages == [at : {"arriving"}, field : Contents, newer : BOOLEAN]
Requests == [kind : {"save", "discard", "delete"}, by : Nat, contents : Contents,
             at : {"sent", "read", "saved", "failed"}]

DialogTypeOK ==
    /\ row \in [contents : Contents \cup {Gone}, by : Nat]
    /\ page \in [Tabs -> OpenPages \cup ArrivingPages \cup {Closed}]
    /\ requests \subseteq Requests
    /\ dialogs \in Nat

\* Everything dialog k sent, stored or still under way, is blank.
Silent(k) ==
    /\ \A q \in requests : q.kind = "save" /\ q.by = k => q.contents \in BlankDrafts
    /\ row.by = k => row.contents \in BlankDrafts \cup {Gone}

NumbersAreOld ==
    /\ \A t \in Tabs : Open(t) => page[t].id <= dialogs
    /\ \A q \in requests : q.by <= dialogs

OneTabEach == \A s, t \in Tabs : Open(s) /\ Open(t) /\ page[s].id = page[t].id => s = t

SilentDrafts ==
    \A t \in Tabs : Open(t) /\ Discards(page[t]) => page[t].field \in BlankDrafts /\ Silent(page[t].id)

PartedDrafts ==
    \A q \in requests : q.kind = "discard" => \A t \in Tabs : Open(t) => page[t].id # q.by

SilentDiscards == \A q \in requests : q.kind = "discard" => Silent(q.by)

DialogInv ==
    /\ DialogTypeOK
    /\ NumbersAreOld
    /\ OneTabEach
    /\ SilentDrafts
    /\ PartedDrafts
    /\ SilentDiscards

-----------------------------------------------------------------------------
\* A click into a name takes the name and nothing else; what is blank or
\* suggested stays as blank as it was.
LEMMA WipedIsHeld ==
    ASSUME NEW c \in Contents
    PROVE  /\ Wiped(c) \in Contents /\ Wiped(c).name = "none"
           /\ Wiped(Wiped(c)) = Wiped(c)
           /\ c \in BlankDrafts => Wiped(c) \in BlankDrafts
           /\ c.name = "suggested" => (Wiped(c) \in BlankDrafts <=> c \in BlankDrafts)
<1>1. c = [name |-> c.name, rest |-> c.rest] /\ Wiped(c) \in Contents
  BY ContentsAreTold
<1>2. Wiped(c) = [name |-> "none", rest |-> c.rest]
  BY <1>1 DEF Wiped
<1>3. Wiped(Wiped(c)) = [name |-> "none", rest |-> c.rest]
  BY <1>2 DEF Wiped
<1>4. Wiped(c).name = "none" /\ Wiped(c).rest = c.rest
  BY <1>2
<1> QED BY <1>1, <1>2, <1>3, <1>4 DEF BlankDrafts

\* What a fragment, and every change of an open page, is made of.
LEMMA OpenIsOpen ==
    ASSUME DialogTypeOK, NEW t \in Tabs, Open(t)
    PROVE  page[t] \in OpenPages
BY DEF DialogTypeOK, Open, ArrivingPages, Closed

LEMMA FragmentIsOpen ==
    ASSUME NEW id \in Nat, NEW c \in Contents, NEW draft \in BOOLEAN, NEW newer \in BOOLEAN
    PROVE  /\ Fragment(id, c, draft, newer) \in OpenPages
           /\ Fragment(id, c, draft, newer).id = id
           /\ Fragment(id, c, draft, newer).field = c
           /\ Fragment(id, c, draft, newer).draft = draft
BY DEF Fragment, OpenPages

LEMMA EmptiedIsOpen ==
    ASSUME NEW p \in OpenPages
    PROVE  /\ Emptied(p) \in OpenPages
           /\ Emptied(p).id = p.id /\ Emptied(p).field = Wiped(p.field)
           /\ Emptied(p).draft = p.draft /\ Emptied(p).touched = p.touched
           /\ ~Emptied(p).suggests /\ Emptied(p).wiped
           /\ Emptied(p).pending = p.pending /\ Emptied(p).sending = p.sending
           /\ Emptied(p).queued = p.queued /\ Emptied(p).error = p.error
           /\ Emptied(p).newer = p.newer
<1>1. Wiped(p.field) \in Contents
  BY WipedIsHeld DEF OpenPages
<1> QED BY <1>1 DEF Emptied, OpenPages

\* A post carries the number and the fields of its page.
LEMMA PostIsRequest ==
    ASSUME NEW p \in OpenPages, NEW kind \in {"save", "discard", "delete"}
    PROVE  /\ Post(kind, p) \in Requests
           /\ Post(kind, p).kind = kind
           /\ Post(kind, p).by = p.id
           /\ Post(kind, p).contents = p.field
BY DEF Post, OpenPages, Requests

\* An open page as another one of the same dialog: the same number and draft,
\* touched at least as before, and as long as it may be discarded, blank.
Follows(new, old) ==
    /\ new \in OpenPages
    /\ new.id = old.id
    /\ Discards(new) => Discards(old) /\ new.field \in BlankDrafts

LEMMA InitialDialog == DialogInit => DialogInv
<1> SUFFICES ASSUME DialogInit PROVE DialogInv
  OBVIOUS
<1> Fresh \in Contents /\ Fresh \in BlankDrafts
  BY ContentsAreTold DEF BlankDrafts
<1>1. requests = {} /\ dialogs \in Nat
  <2>1. dialogs = 1 \/ dialogs = 0
    BY DEF DialogInit
  <2> QED BY <2>1 DEF DialogInit
<1>2. row \in [contents : Contents \cup {Gone}, by : Nat] /\ row.by = 0
  <2>1. CASE row = [contents |-> Fresh, by |-> 0]
    BY <2>1
  <2>2. CASE row \in [contents : Contents \ (BlankDrafts \cup Rejected), by : {0}]
    BY <2>2
  <2> QED BY <2>1, <2>2 DEF DialogInit
<1>3. /\ page \in [Tabs -> OpenPages \cup ArrivingPages \cup {Closed}]
      /\ \A s, t \in Tabs : Open(s) /\ Open(t) => s = t
      /\ \A t \in Tabs : Open(t) => page[t].id = 1 /\ page[t].field \in BlankDrafts /\ dialogs = 1
  <2>1. CASE \E t \in Tabs : page = [s \in Tabs |-> IF s = t THEN Fragment(1, Fresh, TRUE, FALSE) ELSE Closed]
             /\ dialogs = 1
    <3>1. PICK t \in Tabs : page = [s \in Tabs |-> IF s = t THEN Fragment(1, Fresh, TRUE, FALSE) ELSE Closed]
      BY <2>1
    <3>2. /\ Fragment(1, Fresh, TRUE, FALSE) \in OpenPages
          /\ Fragment(1, Fresh, TRUE, FALSE).id = 1
          /\ Fragment(1, Fresh, TRUE, FALSE).field = Fresh
      BY DEF Fragment, OpenPages
    <3>3. \A s \in Tabs : Open(s) => s = t
      BY <3>1 DEF Open, Closed
    <3>4. page \in [Tabs -> OpenPages \cup ArrivingPages \cup {Closed}]
      BY <3>1, <3>2
    <3>5. \A s \in Tabs : Open(s) => page[s].id = 1 /\ page[s].field \in BlankDrafts
      BY <3>1, <3>2, <3>3
    <3> QED BY <2>1, <3>3, <3>4, <3>5
  <2>2. CASE page = [s \in Tabs |-> Closed]
    BY <2>2 DEF Open, Closed
  <2> QED BY <2>1, <2>2 DEF DialogInit
<1>4. DialogTypeOK
  BY <1>1, <1>2, <1>3 DEF DialogTypeOK
<1>5. NumbersAreOld /\ OneTabEach
  BY <1>1, <1>3 DEF NumbersAreOld, OneTabEach
<1>6. SilentDrafts
  BY <1>1, <1>2, <1>3 DEF SilentDrafts, Silent
<1>7. PartedDrafts /\ SilentDiscards
  BY <1>1 DEF PartedDrafts, SilentDiscards
<1> QED BY <1>4, <1>5, <1>6, <1>7 DEF DialogInv

-----------------------------------------------------------------------------
(***************************************************************************)
(* Two kinds of step disturb the invariant: a page moves on and posts, and *)
(* the server moves a request on or writes the row.                        *)
(***************************************************************************)
\* A page that stays open sends, at most, what it shows.
LEMMA PageMovesOn ==
    ASSUME DialogInv, NEW t \in Tabs, Open(t), NEW p, Follows(p, page[t]),
           page' = [page EXCEPT ![t] = p],
           requests' \subseteq requests \cup {Post("save", p)},
           UNCHANGED <<row, dialogs>>
    PROVE  DialogInv'
<1>1. page[t] \in OpenPages /\ p \in OpenPages /\ p.id = page[t].id /\ p.id <= dialogs
  BY OpenIsOpen DEF DialogInv, Follows, NumbersAreOld
<1>2. \A q \in requests' : q \in requests \/ q = Post("save", p)
  OBVIOUS
<1>3. /\ Post("save", p) \in Requests /\ Post("save", p).by = p.id
      /\ Post("save", p).kind = "save" /\ Post("save", p).contents = p.field
  BY <1>1, PostIsRequest
<1>4. \A s \in Tabs : /\ Open(s)' <=> Open(s)
                      /\ Open(s) => page'[s].id = page[s].id
                      /\ s # t => page'[s] = page[s]
  BY <1>1 DEF Open, DialogInv, DialogTypeOK, OpenPages
<1>5. DialogTypeOK'
  BY <1>1, <1>2, <1>3 DEF DialogInv, DialogTypeOK
<1>6. NumbersAreOld'
  BY <1>1, <1>2, <1>3, <1>4 DEF DialogInv, NumbersAreOld
<1>7. OneTabEach'
  BY <1>4 DEF DialogInv, OneTabEach
<1>8. PartedDrafts'
  BY <1>2, <1>3, <1>4 DEF DialogInv, PartedDrafts
<1>9. ASSUME NEW k, Silent(k), k # p.id \/ p.field \in BlankDrafts
      PROVE  Silent(k)'
  BY <1>2, <1>3, <1>9 DEF Silent
<1>10. SilentDrafts'
  <2> SUFFICES ASSUME NEW s \in Tabs, Open(s)', Discards(page'[s])
               PROVE  page'[s].field \in BlankDrafts /\ (\A k : k = page'[s].id => Silent(k)')
    BY DEF SilentDrafts, Silent
  <2>1. CASE s = t
    <3>1. page'[s] = p /\ Discards(page[t]) /\ p.field \in BlankDrafts
      BY <2>1, <1>1 DEF Follows, DialogInv, DialogTypeOK
    <3>2. Silent(p.id)
      BY <3>1, <1>1 DEF DialogInv, SilentDrafts
    <3> QED BY <3>1, <3>2, <1>9
  <2>2. CASE s # t
    <3>1. page[s].id # p.id /\ page'[s] = page[s] /\ Open(s)
      BY <2>2, <1>1, <1>4 DEF DialogInv, OneTabEach
    <3>2. page[s].field \in BlankDrafts /\ Silent(page[s].id)
      BY <3>1 DEF DialogInv, SilentDrafts
    <3> QED BY <3>1, <3>2, <1>9
  <2> QED BY <2>1, <2>2
<1>11. SilentDiscards'
  BY <1>1, <1>2, <1>3, <1>9 DEF DialogInv, SilentDiscards, PartedDrafts
<1> QED BY <1>5, <1>6, <1>7, <1>8, <1>10, <1>11 DEF DialogInv
\* The server moves a request on, ends it, or writes the row in its name; the
\* pages learn at most that they are behind.
LEMMA ServerMovesOn ==
    ASSUME DialogInv, NEW q \in requests, NEW q2, q2 \in Requests,
           q2.kind = q.kind, q2.by = q.by, q2.contents = q.contents,
           requests' \subseteq (requests \ {q}) \cup {q2},
           row' = row \/ row' = [contents |-> Gone, by |-> q.by]
               \/ (q.kind = "save" /\ row' = [contents |-> q.contents, by |-> q.by]),
           page' = page \/ Seen(q.by),
           dialogs' = dialogs
    PROVE  DialogInv'
<1>1. q \in Requests /\ requests \subseteq Requests
  BY DEF DialogInv, DialogTypeOK
<1>2. \A r \in requests' : /\ r \in Requests
                           /\ \E o \in requests : o.kind = r.kind /\ o.by = r.by /\ o.contents = r.contents
  BY <1>1
<1>3. row' \in [contents : Contents \cup {Gone}, by : Nat]
  BY <1>1 DEF DialogInv, DialogTypeOK, Requests
<1>4. /\ page' \in [Tabs -> OpenPages \cup ArrivingPages \cup {Closed}]
      /\ \A t \in Tabs : /\ Open(t)' <=> Open(t)
                         /\ Open(t) => /\ page'[t].id = page[t].id
                                       /\ page'[t].field = page[t].field
                                       /\ Discards(page'[t]) <=> Discards(page[t])
  <2>1. CASE page' = page
    BY <2>1 DEF DialogInv, DialogTypeOK, Open
  <2>2. CASE Seen(q.by)
    <3> SUFFICES ASSUME NEW t \in Tabs
                 PROVE  /\ page'[t] \in OpenPages \cup ArrivingPages \cup {Closed}
                        /\ page'[t].at = "open" <=> Open(t)
                        /\ Open(t) => /\ page'[t].id = page[t].id
                                      /\ page'[t].field = page[t].field
                                      /\ Discards(page'[t]) <=> Discards(page[t])
      BY <2>2 DEF Seen, Open
    <3>1. CASE page[t] = Closed
      BY <2>2, <3>1 DEF Seen, Open, Closed
    <3>2. CASE page[t] # Closed
      <4>1. PICK b \in BOOLEAN : page'[t] = [page[t] EXCEPT !.newer = b]
        <5>1. CASE Open(t) /\ page[t].id = q.by
          BY <2>2, <3>2, <5>1 DEF Seen
        <5>2. CASE ~(Open(t) /\ page[t].id = q.by)
          BY <2>2, <3>2, <5>2 DEF Seen
        <5> QED BY <5>1, <5>2
      <4>2. CASE page[t] \in OpenPages
        BY <4>1, <4>2 DEF OpenPages, Open, Discards
      <4>3. CASE page[t] \in ArrivingPages
        BY <4>1, <4>3 DEF ArrivingPages, Open
      <4> QED BY <3>2, <4>2, <4>3 DEF DialogInv, DialogTypeOK
    <3> QED BY <3>1, <3>2
  <2> QED BY <2>1, <2>2
<1>5. DialogTypeOK'
  BY <1>2, <1>3, <1>4 DEF DialogInv, DialogTypeOK
<1>6. NumbersAreOld'
  BY <1>2, <1>4 DEF DialogInv, NumbersAreOld
<1>7. OneTabEach'
  BY <1>4 DEF DialogInv, OneTabEach
<1>8. PartedDrafts'
  BY <1>2, <1>4 DEF DialogInv, PartedDrafts
<1>9. ASSUME NEW k, Silent(k) PROVE Silent(k)'
  BY <1>1, <1>2, <1>9 DEF Silent
<1>10. SilentDrafts'
  <2> SUFFICES ASSUME NEW t \in Tabs, Open(t)', Discards(page'[t])
               PROVE  page'[t].field \in BlankDrafts /\ (\A k : k = page'[t].id => Silent(k)')
    BY DEF SilentDrafts, Silent
  <2>1. page[t].field \in BlankDrafts /\ Silent(page[t].id)
    BY <1>4 DEF DialogInv, SilentDrafts
  <2> QED BY <2>1, <1>4, <1>9
<1>11. SilentDiscards'
  BY <1>2, <1>9 DEF DialogInv, SilentDiscards
<1> QED BY <1>5, <1>6, <1>7, <1>8, <1>10, <1>11 DEF DialogInv
\* A page opens with the row, under a number of its own, and not as a draft.
LEMMA DialogOpens ==
    ASSUME DialogInv, NEW t \in Tabs, OpenEdit(t) \/ Show(t)
    PROVE  DialogInv'
<1>1. row' = row /\ requests' = requests /\ dialogs' \in Nat /\ dialogs' >= dialogs
  <2>1. dialogs \in Nat /\ (dialogs' = dialogs \/ dialogs' = dialogs + 1)
    BY DEF OpenEdit, Show, DialogInv, DialogTypeOK
  <2>2. row' = row /\ requests' = requests
    BY DEF OpenEdit, Show
  <2> QED BY <2>1, <2>2
<1>2. \A s \in Tabs : s # t => page'[s] = page[s] /\ (Open(s)' <=> Open(s))
  BY DEF OpenEdit, Show, Open, DialogInv, DialogTypeOK
<1>3. /\ page' \in [Tabs -> OpenPages \cup ArrivingPages \cup {Closed}]
      /\ page'[t].at = "open" => /\ page'[t].id = dialogs + 1 /\ dialogs' = dialogs + 1
                                 /\ ~Discards(page'[t])
  <2>1. CASE OpenEdit(t)
    <3>1. [at |-> "arriving", field |-> row.contents, newer |-> FALSE] \in ArrivingPages
      BY <2>1 DEF OpenEdit, Stored, ArrivingPages, DialogInv, DialogTypeOK
    <3>2. page'[t] = [at |-> "arriving", field |-> row.contents, newer |-> FALSE]
      BY <2>1 DEF OpenEdit, DialogInv, DialogTypeOK
    <3>3. page'[t].at # "open"
      BY <3>2
    <3> QED BY <2>1, <3>1, <3>3 DEF OpenEdit, DialogInv, DialogTypeOK
  <2>2. CASE Show(t)
    <3> DEFINE new == Fragment(dialogs + 1, page[t].field, FALSE, page[t].newer)
    <3>1. page[t] \in ArrivingPages
      BY <2>2 DEF Show, DialogInv, DialogTypeOK, OpenPages, Closed
    <3>2. new \in OpenPages /\ new.id = dialogs + 1 /\ new.draft = FALSE
      BY <3>1 DEF Fragment, OpenPages, ArrivingPages, DialogInv, DialogTypeOK
    <3>3. page' = [page EXCEPT ![t] = new] /\ dialogs' = dialogs + 1
      BY <2>2 DEF Show
    <3> QED BY <3>2, <3>3 DEF Discards, DialogInv, DialogTypeOK
  <2> QED BY <2>1, <2>2
<1>4. DialogTypeOK'
  BY <1>1, <1>3 DEF DialogInv, DialogTypeOK
<1>5. NumbersAreOld'
  <2>1. \A s \in Tabs : (Open(s) => page[s].id <= dialogs)'
    <3> SUFFICES ASSUME NEW s \in Tabs, Open(s)' PROVE page'[s].id <= dialogs'
      OBVIOUS
    <3>1. CASE s = t
      BY <3>1, <1>1, <1>3 DEF Open, DialogInv, DialogTypeOK
    <3>2. CASE s # t
      <4>1. page[s].id \in Nat /\ page[s].id <= dialogs
        BY <3>2, <1>2, OpenIsOpen DEF DialogInv, NumbersAreOld, OpenPages
      <4> QED BY <4>1, <3>2, <1>1, <1>2 DEF DialogInv, DialogTypeOK
    <3> QED BY <3>1, <3>2
  <2>2. \A q \in requests : q.by \in Nat /\ q.by <= dialogs
    BY DEF DialogInv, NumbersAreOld, DialogTypeOK, Requests
  <2> QED BY <2>1, <2>2, <1>1 DEF NumbersAreOld, DialogInv, DialogTypeOK
<1>6. \A s \in Tabs : s # t /\ Open(s) => page[s].id # dialogs + 1
  BY OpenIsOpen DEF DialogInv, NumbersAreOld, DialogTypeOK, OpenPages
<1>7. OneTabEach'
  <2> SUFFICES ASSUME NEW s \in Tabs, NEW u \in Tabs, Open(s)', Open(u)', page'[s].id = page'[u].id
               PROVE  s = u
    BY DEF OneTabEach
  <2>1. CASE s = t
    BY <2>1, <1>2, <1>3, <1>6 DEF Open
  <2>2. CASE u = t
    BY <2>2, <1>2, <1>3, <1>6 DEF Open
  <2>3. CASE s # t /\ u # t
    BY <2>3, <1>2 DEF DialogInv, OneTabEach
  <2> QED BY <2>1, <2>2, <2>3
<1>8. ASSUME NEW k, Silent(k) PROVE Silent(k)'
  BY <1>1, <1>8 DEF Silent
<1>9. SilentDrafts'
  <2> SUFFICES ASSUME NEW s \in Tabs, Open(s)', Discards(page'[s])
               PROVE  page'[s].field \in BlankDrafts /\ (\A k : k = page'[s].id => Silent(k)')
    BY DEF SilentDrafts, Silent
  <2>1. s # t
    BY <1>3 DEF Open
  <2>2. page[s].field \in BlankDrafts /\ Silent(page[s].id)
    BY <2>1, <1>2 DEF DialogInv, SilentDrafts
  <2> QED BY <2>1, <2>2, <1>2, <1>8
<1>10. PartedDrafts'
  <2>1. \A q \in requests : q.by \in Nat /\ q.by <= dialogs
    BY DEF DialogInv, NumbersAreOld, DialogTypeOK, Requests
  <2>2. ASSUME NEW q \in requests, q.kind = "discard", NEW s \in Tabs, Open(s)'
        PROVE  page'[s].id # q.by
    <3>1. CASE s = t
      BY <3>1, <2>1, <2>2, <1>3 DEF Open, DialogInv, DialogTypeOK
    <3>2. CASE s # t
      BY <3>2, <2>2, <1>2 DEF DialogInv, PartedDrafts
    <3> QED BY <3>1, <3>2
  <2> QED BY <2>2, <1>1 DEF PartedDrafts
<1>11. SilentDiscards'
  BY <1>1, <1>8 DEF DialogInv, SilentDiscards
<1> QED BY <1>4, <1>5, <1>7, <1>9, <1>10, <1>11 DEF DialogInv

\* A page closes; what it still posts is its own, blank if it discards, and it
\* takes its number with it.
LEMMA DialogCloses ==
    ASSUME DialogInv, NEW t \in Tabs, CloseDialog(t) \/ PressDelete(t)
    PROVE  DialogInv'
<1> DEFINE p == page[t]
<1>1. p \in OpenPages /\ Open(t) /\ page' = [page EXCEPT ![t] = Closed] /\ row' = row /\ dialogs' = dialogs
  BY OpenIsOpen DEF CloseDialog, PressDelete, DialogInv
<1>2. requests' \subseteq requests \cup Parting(p) \cup {Post("delete", p)} /\ requests \subseteq requests'
  BY DEF CloseDialog, PressDelete
<1>3. \A q \in requests' : q \in requests \/ (q \in Requests /\ q.by = p.id /\ q.contents = p.field)
  BY <1>1, <1>2, PostIsRequest DEF Parting
<1>4. \A q \in requests' : q.kind = "discard" /\ q \notin requests => Discards(p) /\ q.by = p.id
  BY <1>1, <1>2, PostIsRequest DEF Parting
<1>5. \A s \in Tabs : Open(s)' => s # t /\ Open(s) /\ page'[s] = page[s]
  BY <1>1 DEF Open, Closed, DialogInv, DialogTypeOK
<1>6. DialogTypeOK'
  <2>1. page' \in [Tabs -> OpenPages \cup ArrivingPages \cup {Closed}]
    BY <1>1 DEF DialogInv, DialogTypeOK
  <2> QED BY <2>1, <1>1, <1>3 DEF DialogInv, DialogTypeOK
<1>7. NumbersAreOld'
  BY <1>1, <1>3, <1>5 DEF DialogInv, NumbersAreOld
<1>8. OneTabEach'
  BY <1>5 DEF DialogInv, OneTabEach
<1>9. \A s \in Tabs : Open(s)' => page[s].id # p.id
  BY <1>1, <1>5 DEF DialogInv, OneTabEach
<1>10. ASSUME NEW k, Silent(k), k # p.id \/ p.field \in BlankDrafts PROVE Silent(k)'
  BY <1>1, <1>3, <1>10 DEF Silent
<1>11. SilentDrafts'
  <2> SUFFICES ASSUME NEW s \in Tabs, Open(s)', Discards(page'[s])
               PROVE  page'[s].field \in BlankDrafts /\ (\A k : k = page'[s].id => Silent(k)')
    BY DEF SilentDrafts, Silent
  <2>1. page[s].field \in BlankDrafts /\ Silent(page[s].id)
    BY <1>5 DEF DialogInv, SilentDrafts
  <2> QED BY <2>1, <1>5, <1>9, <1>10
<1>12. PartedDrafts'
  BY <1>4, <1>5, <1>9 DEF DialogInv, PartedDrafts
<1>13. SilentDiscards'
  <2> SUFFICES ASSUME NEW q \in requests', q.kind = "discard"
               PROVE  \A k : k = q.by => Silent(k)'
    BY DEF SilentDiscards, Silent
  <2>1. CASE q \in requests
    BY <2>1, <1>1, <1>10 DEF DialogInv, SilentDiscards, PartedDrafts
  <2>2. CASE q \notin requests
    BY <2>2, <1>1, <1>4, <1>10 DEF DialogInv, SilentDrafts
  <2> QED BY <2>1, <2>2
<1> QED BY <1>6, <1>7, <1>8, <1>11, <1>12, <1>13 DEF DialogInv
-----------------------------------------------------------------------------
(***************************************************************************)
(* Every action is one of these steps.                                     *)
(***************************************************************************)
\* An edit keeps the number; a dialog it leaves untouched stays blank.
LEMMA EditFollows ==
    ASSUME DialogInv, NEW t \in Tabs, Open(t), NEW c \in Contents, NEW how,
           Touches(how) \/ (c \in BlankDrafts <=> page[t].field \in BlankDrafts)
    PROVE  Follows(Edited(page[t], c, how), page[t])
<1>1. page[t] \in OpenPages
  BY OpenIsOpen DEF DialogInv
<1>2. (page[t].touched \/ Touches(how)) \in BOOLEAN
  BY <1>1 DEF OpenPages, Touches
<1> DEFINE e == Edited(page[t], c, how)
<1>3. /\ e \in OpenPages /\ e.id = page[t].id /\ e.field = c
      /\ e.draft = page[t].draft /\ (e.touched <=> page[t].touched \/ Touches(how))
  BY <1>1, <1>2 DEF Edited, OpenPages
<1>4. Discards(page[t]) => page[t].field \in BlankDrafts
  BY DEF DialogInv, SilentDrafts
<1> QED BY <1>3, <1>4 DEF Follows, Discards

\* A click into the name keeps the number as well, and a blank draft blank.
LEMMA EmptiedFollows ==
    ASSUME DialogInv, NEW t \in Tabs, Open(t)
    PROVE  Follows(Emptied(page[t]), page[t])
<1>1. page[t] \in OpenPages
  BY OpenIsOpen DEF DialogInv
<1>2. Discards(page[t]) => page[t].field \in BlankDrafts
  BY DEF DialogInv, SilentDrafts
<1>3. page[t].field \in BlankDrafts => Wiped(page[t].field) \in BlankDrafts
  BY <1>1, WipedIsHeld DEF OpenPages
<1> QED BY <1>1, <1>2, <1>3, EmptiedIsOpen DEF Follows, Discards

\* What a pick leaves alone decides whether the contents are blank.
LEMMA PickedIsAlike ==
    ASSUME NEW t \in Tabs, NEW c \in Contents, Pick(t, c), page[t] \in OpenPages
    PROVE  c \in BlankDrafts <=> page[t].field \in BlankDrafts
BY DEF Pick, BlankDrafts, OpenPages

\* What a request under way changes of a page does not count here.
LEMMA FlagsFollow ==
    ASSUME NEW old, NEW p, Follows(p, old), NEW e \in BOOLEAN
    PROVE  /\ Follows([p EXCEPT !.pending = TRUE], old)
           /\ Follows(Waiting(p), old)
           /\ Follows(Sending(p), old)
           /\ Follows([p EXCEPT !.error = e, !.sending = FALSE], old)
           /\ Post("save", Sending(p)) = Post("save", p)
<1>1. p \in OpenPages
  BY DEF Follows
<1> DEFINE Unaltered(new) == /\ new \in OpenPages /\ new.id = p.id /\ new.field = p.field
                        /\ new.draft = p.draft /\ new.touched = p.touched
<1>2. \A new : Unaltered(new) => Follows(new, old)
  BY DEF Follows, Discards
<1>3. Unaltered([p EXCEPT !.pending = TRUE])
  BY <1>1 DEF OpenPages
<1>4. Unaltered(Waiting(p))
  BY <1>1 DEF OpenPages, Waiting
<1>5. Unaltered(Sending(p))
  BY <1>1 DEF OpenPages, Sending
<1>6. Unaltered([p EXCEPT !.error = e, !.sending = FALSE])
  BY <1>1 DEF OpenPages
<1> HIDE DEF Unaltered
<1>7. Post("save", Sending(p)) = Post("save", p)
  BY <1>5 DEF Post, Unaltered
<1> QED BY <1>2, <1>3, <1>4, <1>5, <1>6, <1>7

LEMMA SubmitKeeps ==
    ASSUME DialogInv, NEW t \in Tabs, Open(t), NEW p, Follows(p, page[t]),
           Submit(t, p), UNCHANGED <<row, dialogs>>
    PROVE  DialogInv'
<1>1. CASE page' = [page EXCEPT ![t] = Waiting(p)] /\ UNCHANGED requests
  BY <1>1, FlagsFollow, PageMovesOn
<1>2. CASE page' = [page EXCEPT ![t] = Sending(p)] /\ requests' = requests \cup {Post("save", p)}
  BY <1>2, FlagsFollow, PageMovesOn
<1> QED BY <1>1, <1>2 DEF Submit

LEMMA RequestMoves ==
    ASSUME DialogInv, NEW q \in requests
    PROVE  \A at \in {"read", "saved", "failed"} :
              /\ [q EXCEPT !.at = at] \in Requests
              /\ [q EXCEPT !.at = at].kind = q.kind
              /\ [q EXCEPT !.at = at].by = q.by
              /\ [q EXCEPT !.at = at].contents = q.contents
<1>1. q \in Requests
  BY DEF DialogInv, DialogTypeOK
<1> QED BY <1>1 DEF Requests

LEMMA ReceiveSaveKeeps ==
    ASSUME DialogInv, NEW q \in requests, ReceiveSave(q)
    PROVE  DialogInv'
<1>1. q \in Requests /\ UNCHANGED <<row, dialogs>>
  BY DEF DialogInv, DialogTypeOK, ReceiveSave
<1>2. CASE Ends(q) /\ UNCHANGED page
  BY <1>1, <1>2, ServerMovesOn DEF Ends
<1>3. ASSUME NEW t \in Tabs, Open(t), NEW p, p = Shown(page[t], q),
             page' = [page EXCEPT ![t] = IF p.queued THEN Sending(p) ELSE p],
             requests' = (requests \ {q}) \cup (IF p.queued THEN {Post("save", p)} ELSE {})
      PROVE  DialogInv'
  <2>1. Follows(page[t], page[t])
    BY <1>3, OpenIsOpen DEF Follows, DialogInv, SilentDrafts
  <2>2. Follows(p, page[t])
    BY <2>1, <1>3, FlagsFollow DEF Shown
  <2>3. CASE p.queued
    BY <2>2, <2>3, <1>1, <1>3, FlagsFollow, PageMovesOn
  <2>4. CASE ~p.queued
    BY <2>2, <2>4, <1>1, <1>3, PageMovesOn
  <2> QED BY <2>3, <2>4
<1> QED BY <1>2, <1>3 DEF ReceiveSave

LEMMA DialogStep == DialogInv /\ [DialogNext]_dialogVars => DialogInv'
<1> SUFFICES ASSUME DialogInv, [DialogNext]_dialogVars PROVE DialogInv'
  OBVIOUS
<1>1. ASSUME NEW t \in Tabs, OpenEdit(t) \/ Show(t) PROVE DialogInv'
  BY <1>1, DialogOpens
<1>2. ASSUME NEW t \in Tabs, NEW c \in Contents, Type(t, c) PROVE DialogInv'
  <2>1. Follows(Edited(page[t], c, "typed"), page[t]) /\ Open(t)
    BY <1>2, EditFollows DEF Type, Touches
  <2>2. Follows([Edited(page[t], c, "typed") EXCEPT !.pending = TRUE], page[t])
    BY <2>1, FlagsFollow
  <2>3. page' = [page EXCEPT ![t] = [Edited(page[t], c, "typed") EXCEPT !.pending = TRUE]]
    BY <1>2 DEF Type
  <2>4. requests' = requests /\ UNCHANGED <<row, dialogs>>
    BY <1>2 DEF Type
  <2> QED BY <2>1, <2>2, <2>3, <2>4, PageMovesOn
<1>3. ASSUME NEW t \in Tabs, NEW c \in Contents, Pick(t, c) PROVE DialogInv'
  <2>1. Open(t) /\ page[t] \in OpenPages
    BY <1>3, OpenIsOpen DEF Pick, DialogInv
  <2>2. c \in BlankDrafts <=> page[t].field \in BlankDrafts
    BY <1>3, <2>1, PickedIsAlike
  <2> QED BY <1>3, <2>1, <2>2, EditFollows, SubmitKeeps DEF Pick
<1>4. ASSUME NEW t \in Tabs, Fire(t) PROVE DialogInv'
  <2>1. Follows(page[t], page[t])
    BY <1>4, OpenIsOpen DEF Fire, Follows, DialogInv, SilentDrafts
  <2> QED BY <1>4, <2>1, SubmitKeeps DEF Fire
<1>5. ASSUME NEW t \in Tabs, CloseDialog(t) \/ PressDelete(t) PROVE DialogInv'
  BY <1>5, DialogCloses
<1>6. ASSUME NEW q \in requests, ReadForSave(q) \/ ReadForDiscard(q) \/ Lose(q) PROVE DialogInv'
  <2>1. UNCHANGED <<row, page, dialogs>>
    BY <1>6 DEF ReadForSave, ReadForDiscard, Lose
  <2>2. CASE Ends(q)
    <3>1. q \in Requests /\ requests' \subseteq (requests \ {q}) \cup {q}
      BY <2>2 DEF Ends, DialogInv, DialogTypeOK
    <3> QED BY <2>1, <3>1, ServerMovesOn
  <2>3. ASSUME NEW at \in {"read", "failed"}, Becomes(q, at) PROVE DialogInv'
    <3>1. requests' = (requests \ {q}) \cup {[q EXCEPT !.at = at]}
      BY <2>3 DEF Becomes
    <3>2. /\ [q EXCEPT !.at = at] \in Requests /\ [q EXCEPT !.at = at].kind = q.kind
          /\ [q EXCEPT !.at = at].by = q.by /\ [q EXCEPT !.at = at].contents = q.contents
      BY <2>3, RequestMoves
    <3> QED BY <2>1, <3>1, <3>2, ServerMovesOn
  <2> QED BY <1>6, <2>2, <2>3 DEF ReadForSave, ReadForDiscard, Lose
<1>7. ASSUME NEW q \in requests, WriteSave(q) PROVE DialogInv'
  <2>1. q.kind = "save" /\ dialogs' = dialogs
    BY <1>7 DEF WriteSave
  <2>2. CASE row' = [contents |-> q.contents, by |-> q.by] /\ Seen(q.by) /\ Becomes(q, "saved")
    BY <2>1, <2>2, RequestMoves, ServerMovesOn DEF Becomes
  <2>3. CASE Becomes(q, "failed") /\ UNCHANGED <<row, page>>
    BY <2>1, <2>3, RequestMoves, ServerMovesOn DEF Becomes
  <2> QED BY <1>7, <2>2, <2>3 DEF WriteSave
<1>8. ASSUME NEW q \in requests, DeleteDraft(q) \/ DeleteBooking(q) PROVE DialogInv'
  <2>1. q \in Requests /\ row' = [contents |-> Gone, by |-> q.by] /\ Seen(q.by) /\ Ends(q) /\ dialogs' = dialogs
    BY <1>8 DEF DeleteDraft, DeleteBooking, RemoveRow, DialogInv, DialogTypeOK
  <2> QED BY <2>1, ServerMovesOn DEF Ends
<1>9. ASSUME NEW q \in requests, ReceiveSave(q) PROVE DialogInv'
  BY <1>9, ReceiveSaveKeeps
<1>10. CASE UNCHANGED dialogVars
  BY <1>10 DEF dialogVars, DialogInv, DialogTypeOK, NumbersAreOld, OneTabEach, SilentDrafts,
     PartedDrafts, SilentDiscards, Silent, Open, Discards
<1>11. ASSUME NEW t \in Tabs, ClickName(t) PROVE DialogInv'
  <2>1. Open(t) /\ page' = [page EXCEPT ![t] = Emptied(page[t])]
    BY <1>11 DEF ClickName
  <2>2. requests' = requests /\ UNCHANGED <<row, dialogs>>
    BY <1>11 DEF ClickName
  <2> QED BY <2>1, <2>2, EmptiedFollows, PageMovesOn
<1> QED BY <1>1, <1>2, <1>3, <1>4, <1>5, <1>6, <1>7, <1>8, <1>9, <1>10, <1>11 DEF DialogNext

-----------------------------------------------------------------------------
\* Whatever is under way when a dialog closes, its discard never takes more
\* than a draft that this dialog itself wrote (app.js, handlers_bookings.go:
\* the check and the deletion are two statements).
THEOREM DiscardsSpareOwn == DialogSpec => DiscardSparesOwn
<1>1. DialogInv /\ [DialogNext]_dialogVars
      => [\A q \in requests :
            DeleteDraft(q) => row.contents \in BlankDrafts \cup {Gone} \/ row.by # q.by]_dialogVars
  BY DEF DialogInv, SilentDiscards, Silent, DeleteDraft
<1> QED BY <1>1, InitialDialog, DialogStep, PTL DEF DialogSpec, DiscardSparesOwn

-----------------------------------------------------------------------------
(***************************************************************************)
(* An open dialog is honest.  Its number ties a page to one save at most   *)
(* (OneSaveEach); what that save carries is what the fields show, or an    *)
(* edit is waiting (SentOrWaiting); and as long as nobody else writes, the *)
(* row is what that save wrote, or else what the fields show (RowIsKnown). *)
(* Emptying a name keeps all three, because it only takes the name of what *)
(* was shown before (ShowsLess).                                           *)
(***************************************************************************)
SavesBy(k) == {q \in requests : q.kind = "save" /\ q.by = k}

OneSaveEach ==
    \A t \in Tabs : Open(t) =>
        /\ page[t].queued => page[t].sending
        /\ SavesBy(page[t].id) # {} => page[t].sending
        /\ \A q, r \in SavesBy(page[t].id) : q = r

SentOrWaiting ==
    \A t \in Tabs : Open(t) =>
        \A q \in SavesBy(page[t].id) :
            Shows(page[t], q.contents) \/ page[t].pending \/ page[t].queued

RowIsKnown ==
    /\ \A t \in Tabs : page[t].at = "arriving" /\ ~page[t].newer => row.contents = page[t].field
    /\ \A t \in Tabs : Open(t) /\ ~page[t].newer =>
          /\ \A q \in SavesBy(page[t].id) : q.at = "saved" => row.contents = q.contents
          /\ ~(page[t].sending \/ page[t].pending \/ page[t].error)
                => row.contents \in Contents /\ Shows(page[t], row.contents)

\* Whatever ends a booking has left its page.
PartedEnds ==
    \A q \in requests : q.kind # "save" => \A t \in Tabs : Open(t) => page[t].id # q.by

HonestInv == OneSaveEach /\ SentOrWaiting /\ RowIsKnown /\ PartedEnds

LEMMA ShowsLess ==
    ASSUME NEW p \in OpenPages, NEW c \in Contents, Shows(p, c)
    PROVE  Shows(Emptied(p), c)
BY EmptiedIsOpen, WipedIsHeld DEF Shows

LEMMA InitialHonest == DialogInit => HonestInv
<1> SUFFICES ASSUME DialogInit PROVE HonestInv
  OBVIOUS
<1>1. requests = {}
  BY DEF DialogInit
<1>2. CASE page = [s \in Tabs |-> Closed]
  BY <1>1, <1>2 DEF HonestInv, OneSaveEach, SentOrWaiting, RowIsKnown, PartedEnds, Open, Closed
<1>3. CASE /\ row = [contents |-> Fresh, by |-> 0]
           /\ \E t \in Tabs : page = [s \in Tabs |-> IF s = t THEN Fragment(1, Fresh, TRUE, FALSE)
                                                              ELSE Closed]
  <2>1. PICK t \in Tabs : page = [s \in Tabs |-> IF s = t THEN Fragment(1, Fresh, TRUE, FALSE)
                                                       ELSE Closed]
    BY <1>3
  <2>2. ASSUME NEW s \in Tabs
        PROVE  /\ page[s].at = "closed" \/ page[s].at = "open"
               /\ Open(s) => Shows(page[s], Fresh) /\ ~page[s].queued
    <3>1. CASE s = t
      BY <2>1, <3>1 DEF Fragment, Open, Shows
    <3>2. CASE s # t
      BY <2>1, <3>2 DEF Closed, Open
    <3> QED BY <3>1, <3>2
  <2>3. row.contents = Fresh /\ Fresh \in Contents
    BY <1>3, ContentsAreTold DEF BlankDrafts
  <2> QED BY <1>1, <2>2, <2>3 DEF HonestInv, OneSaveEach, SentOrWaiting, RowIsKnown, PartedEnds,
         Open, SavesBy
<1> QED BY <1>2, <1>3 DEF DialogInit

\* An edit that has not been posted yet is waiting.
LEMMA EditIsHonest ==
    ASSUME DialogInv, HonestInv, NEW t \in Tabs, Open(t), NEW p \in OpenPages,
           p.id = page[t].id, p.newer = page[t].newer, p.sending = page[t].sending,
           p.queued => p.sending, p.pending \/ p.queued,
           page' = [page EXCEPT ![t] = p], UNCHANGED <<row, requests>>
    PROVE  HonestInv'
<1>1. /\ \A s \in Tabs : Open(s)' <=> Open(s)
      /\ \A s \in Tabs : s # t => page'[s] = page[s]
      /\ page'[t] = p
      /\ page'[t].at = "open"
  BY DEF Open, OpenPages, DialogInv, DialogTypeOK
<1>2. \A k : SavesBy(k)' = SavesBy(k)
  BY DEF SavesBy
<1>3. \A s \in Tabs : page'[s].id = page[s].id
  BY <1>1
<1>4. OneSaveEach'
  BY <1>1, <1>2, <1>3 DEF HonestInv, OneSaveEach
<1>5. SentOrWaiting'
  BY <1>1, <1>2, <1>3 DEF HonestInv, SentOrWaiting
<1>6. RowIsKnown'
  <2>1. ~(p.sending \/ p.pending \/ p.error) => FALSE
    OBVIOUS
  <2> QED BY <1>1, <1>2, <1>3, <2>1 DEF HonestInv, RowIsKnown
<1>7. PartedEnds'
  BY <1>1, <1>3 DEF HonestInv, PartedEnds
<1> QED BY <1>4, <1>5, <1>6, <1>7 DEF HonestInv

\* A name that is emptied is posted with the next edit.
LEMMA EmptyingIsHonest ==
    ASSUME DialogInv, HonestInv, NEW t \in Tabs, ClickName(t)
    PROVE  HonestInv'
<1> DEFINE p == Emptied(page[t])
<1>1. page[t] \in OpenPages /\ Open(t)
  BY OpenIsOpen DEF ClickName, DialogInv
<1>2. /\ p \in OpenPages /\ p.id = page[t].id /\ p.newer = page[t].newer
      /\ p.sending = page[t].sending /\ p.queued = page[t].queued
      /\ p.pending = page[t].pending /\ p.error = page[t].error
  BY <1>1, EmptiedIsOpen
<1>3. /\ \A s \in Tabs : Open(s)' <=> Open(s)
      /\ \A s \in Tabs : s # t => page'[s] = page[s]
      /\ page'[t] = p
      /\ page'[t].at = "open"
  BY <1>1, <1>2 DEF ClickName, Open, OpenPages, DialogInv, DialogTypeOK
<1>4. \A c \in Contents : Shows(page[t], c) => Shows(p, c)
  BY <1>1, ShowsLess
<1> HIDE DEF p
<1>5. UNCHANGED <<row, requests>> /\ (\A k : SavesBy(k)' = SavesBy(k))
  BY DEF ClickName, SavesBy
<1>6. \A s \in Tabs : page'[s].id = page[s].id
  BY <1>2, <1>3
<1>7. OneSaveEach'
  BY <1>2, <1>3, <1>5, <1>6 DEF HonestInv, OneSaveEach
<1>8. SentOrWaiting'
  <2> SUFFICES ASSUME NEW s \in Tabs, Open(s), NEW q \in SavesBy(page[s].id)
               PROVE  Shows(page'[s], q.contents) \/ page'[s].pending \/ page'[s].queued
    BY <1>3, <1>5, <1>6 DEF SentOrWaiting
  <2>1. Shows(page[s], q.contents) \/ page[s].pending \/ page[s].queued
    BY DEF HonestInv, SentOrWaiting
  <2>2. q.contents \in Contents
    BY DEF SavesBy, DialogInv, DialogTypeOK, Requests
  <2> QED BY <1>2, <1>3, <1>4, <2>1, <2>2
<1>9. RowIsKnown'
  <2>1. CASE page[t].newer
    BY <2>1, <1>2, <1>3, <1>5, <1>6 DEF HonestInv, RowIsKnown
  <2>2. CASE ~page[t].newer
    BY <2>2, <1>1, <1>2, <1>3, <1>4, <1>5, <1>6 DEF HonestInv, RowIsKnown
  <2> QED BY <2>1, <2>2
<1>10. PartedEnds'
  BY <1>3, <1>5, <1>6 DEF HonestInv, PartedEnds
<1> QED BY <1>7, <1>8, <1>9, <1>10 DEF HonestInv

\* A page posts what it shows, when nothing of its own is under way any more.
LEMMA SendIsHonest ==
    ASSUME DialogInv, HonestInv, NEW t \in Tabs, Open(t), NEW p \in OpenPages,
           p.id = page[t].id, p.newer = page[t].newer,
           page' = [page EXCEPT ![t] = Sending(p)],
           requests' = (requests \ SavesBy(p.id)) \cup {Post("save", p)},
           UNCHANGED row
    PROVE  HonestInv'
<1>1. /\ \A s \in Tabs : Open(s)' <=> Open(s)
      /\ \A s \in Tabs : s # t => page'[s] = page[s]
      /\ page'[t].at = "open"
      /\ page'[t].id = p.id
      /\ page'[t].field = p.field
      /\ page'[t].sending /\ ~page'[t].queued
      /\ page'[t].newer = p.newer
  BY DEF Open, OpenPages, DialogInv, DialogTypeOK, Sending
<1>2. /\ Post("save", p).kind = "save" /\ Post("save", p).by = p.id
      /\ Post("save", p).contents = p.field /\ Post("save", p).at = "sent"
  BY DEF Post
<1>3. SavesBy(p.id)' = {Post("save", p)}
  BY <1>2 DEF SavesBy
<1>4. \A k : k # p.id => SavesBy(k)' = SavesBy(k)
  BY <1>2 DEF SavesBy
<1>5. \A s \in Tabs : s # t /\ Open(s) => page[s].id # p.id
  BY DEF DialogInv, OneTabEach
<1>6. OneSaveEach'
  BY <1>1, <1>3, <1>4, <1>5 DEF HonestInv, OneSaveEach
<1>7. SentOrWaiting'
  BY <1>1, <1>2, <1>3, <1>4, <1>5 DEF HonestInv, SentOrWaiting, Shows
<1>8. RowIsKnown'
  BY <1>1, <1>2, <1>3, <1>4, <1>5 DEF HonestInv, RowIsKnown
<1>9. PartedEnds'
  BY <1>1, <1>2 DEF HonestInv, PartedEnds
<1> QED BY <1>6, <1>7, <1>8, <1>9 DEF HonestInv

\* A page opens with what is stored, and with a number nobody has used.
LEMMA OpeningIsHonest ==
    ASSUME DialogInv, HonestInv, NEW t \in Tabs, OpenEdit(t) \/ Show(t)
    PROVE  HonestInv'
<1>1. requests' = requests /\ row' = row
  BY DEF OpenEdit, Show
<1>2. \A k : SavesBy(k)' = SavesBy(k)
  BY <1>1 DEF SavesBy
<1>3. \A s \in Tabs : s # t => page'[s] = page[s]
  BY DEF OpenEdit, Show, DialogInv, DialogTypeOK
<1>4. CASE OpenEdit(t)
  <2>1. page'[t] = [at |-> "arriving", field |-> row.contents, newer |-> FALSE]
    BY <1>4 DEF OpenEdit, DialogInv, DialogTypeOK
  <2>2. /\ page'[t].at = "arriving" /\ page'[t].field = row.contents
        /\ \A s \in Tabs : Open(s)' => s # t /\ Open(s)
    BY <2>1, <1>3 DEF Open
  <2> QED BY <1>1, <1>2, <1>3, <2>2 DEF HonestInv, OneSaveEach, SentOrWaiting, RowIsKnown,
         PartedEnds, Open
<1>5. CASE Show(t)
  <2>1. page'[t] = Fragment(dialogs + 1, page[t].field, FALSE, page[t].newer)
    BY <1>5 DEF Show, DialogInv, DialogTypeOK
  <2>2. /\ page'[t].at = "open" /\ page'[t].field = page[t].field /\ ~page'[t].queued
        /\ page'[t].id = dialogs + 1 /\ page'[t].newer = page[t].newer
        /\ page[t].at = "arriving" /\ page[t].field \in Contents
        /\ \A s \in Tabs : s # t => (Open(s)' <=> Open(s))
    BY <2>1, <1>3, <1>5 DEF Open, Fragment, Show, DialogInv, DialogTypeOK, ArrivingPages, OpenPages, Closed
  <2>3. \A q \in requests : q.by # dialogs + 1
    BY DEF DialogInv, DialogTypeOK, NumbersAreOld, Requests
  <2>4. SavesBy(dialogs + 1) = {}
    BY <2>3 DEF SavesBy
  <2>5. ~page[t].newer => row.contents = page[t].field
    BY <2>2 DEF HonestInv, RowIsKnown
  <2>6. OneSaveEach'
    BY <1>2, <1>3, <2>2, <2>4 DEF HonestInv, OneSaveEach
  <2>7. SentOrWaiting'
    BY <1>2, <1>3, <2>2, <2>4 DEF HonestInv, SentOrWaiting
  <2>8. RowIsKnown'
    BY <1>1, <1>2, <1>3, <2>2, <2>4, <2>5 DEF HonestInv, RowIsKnown, Shows
  <2>9. PartedEnds'
    BY <1>1, <1>3, <2>2, <2>3 DEF HonestInv, PartedEnds
  <2> QED BY <2>6, <2>7, <2>8, <2>9 DEF HonestInv
<1> QED BY <1>4, <1>5

\* What a closing page posts is of a number that no open page has.
LEMMA ClosingIsHonest ==
    ASSUME DialogInv, HonestInv, NEW t \in Tabs, CloseDialog(t) \/ PressDelete(t)
    PROVE  HonestInv'
<1> DEFINE p == page[t]
<1>1. p \in OpenPages /\ Open(t) /\ page' = [page EXCEPT ![t] = Closed] /\ row' = row
  BY OpenIsOpen DEF CloseDialog, PressDelete, DialogInv
<1>2. requests' \subseteq requests \cup Parting(p) \cup {Post("delete", p)} /\ requests \subseteq requests'
  BY DEF CloseDialog, PressDelete
<1>3. \A q \in requests' : q \in requests \/ q.by = p.id
  BY <1>1, <1>2, PostIsRequest DEF Parting
<1>4. \A s \in Tabs : /\ page'[s] = Closed \/ (s # t /\ page'[s] = page[s])
                      /\ Open(s)' => s # t /\ Open(s) /\ page'[s] = page[s]
  BY <1>1 DEF Open, Closed, DialogInv, DialogTypeOK
<1>5. \A s \in Tabs : Open(s)' => page[s].id # p.id
  BY <1>1, <1>4 DEF DialogInv, OneTabEach
<1>6. \A k : k # p.id => SavesBy(k)' = SavesBy(k)
  BY <1>2, <1>3 DEF SavesBy
<1>7. OneSaveEach' /\ SentOrWaiting'
  BY <1>4, <1>5, <1>6 DEF HonestInv, OneSaveEach, SentOrWaiting
<1>8. RowIsKnown'
  BY <1>1, <1>4, <1>5, <1>6 DEF HonestInv, RowIsKnown, Closed
<1>9. PartedEnds'
  BY <1>3, <1>4, <1>5 DEF HonestInv, PartedEnds
<1> QED BY <1>7, <1>8, <1>9 DEF HonestInv

\* A request moves on without touching the row, or ends unheard.
LEMMA MovingIsHonest ==
    ASSUME DialogInv, HonestInv, NEW q \in requests, NEW q2,
           q2.kind = q.kind, q2.by = q.by, q2.contents = q.contents, q2.at # "saved" \/ q2 = q,
           \/ requests' = (requests \ {q}) \cup {q2}
           \/ requests' = requests \ {q},
           UNCHANGED <<row, page>>
    PROVE  HonestInv'
<1>1. \A r \in requests' : r \in requests \/ r = q2
  OBVIOUS
<1>2. \A k : \A r \in SavesBy(k)' : r \in SavesBy(k) \/ (r = q2 /\ q \in SavesBy(k))
  BY DEF SavesBy
<1>3. \A k : (\A r, s \in SavesBy(k) : r = s) => (\A r, s \in SavesBy(k)' : r = s)
  BY DEF SavesBy
<1>4. OneSaveEach'
  BY <1>2, <1>3 DEF HonestInv, OneSaveEach, Open
<1>5. SentOrWaiting'
  BY <1>2 DEF HonestInv, SentOrWaiting, Open
<1>6. RowIsKnown'
  BY <1>2 DEF HonestInv, RowIsKnown, Open
<1>7. PartedEnds'
  BY <1>1 DEF HonestInv, PartedEnds, Open
<1> QED BY <1>4, <1>5, <1>6, <1>7 DEF HonestInv

\* When the row is written, every page learns it but the writer's.
LEMMA SeenByAll ==
    ASSUME DialogTypeOK, NEW by, Seen(by), NEW t \in Tabs
    PROVE  /\ page'[t] = Closed <=> page[t] = Closed
           /\ page'[t].at = page[t].at
           /\ page[t] # Closed => page'[t].field = page[t].field
           /\ page[t].at = "arriving" => page'[t].newer
           /\ Open(t) => /\ page'[t].id = page[t].id
                         /\ page'[t].draft = page[t].draft
                         /\ page'[t].touched = page[t].touched
                         /\ page'[t].suggests = page[t].suggests
                         /\ page'[t].wiped = page[t].wiped
                         /\ page'[t].pending = page[t].pending
                         /\ page'[t].sending = page[t].sending
                         /\ page'[t].queued = page[t].queued
                         /\ page'[t].error = page[t].error
                         /\ page'[t].newer = (page[t].id # by)
<1>1. CASE page[t] = Closed
  BY <1>1 DEF Seen, Open, Closed
<1>2. CASE page[t] \in OpenPages
  <2>1. page'[t] = [page[t] EXCEPT !.newer = ~(page[t].id = by)]
    BY <1>2 DEF Seen, Open, OpenPages, Closed
  <2> QED BY <1>2, <2>1 DEF OpenPages, Closed, Open
<1>3. CASE page[t] \in ArrivingPages
  <2>1. page[t] # Closed /\ ~Open(t)
    BY <1>3 DEF Open, ArrivingPages, Closed
  <2>2. page'[t] = [page[t] EXCEPT !.newer = ~(Open(t) /\ page[t].id = by)]
    BY <2>1 DEF Seen
  <2>3. ~(Open(t) /\ page[t].id = by) = TRUE
    BY <2>1
  <2> QED BY <1>3, <2>2, <2>3 DEF ArrivingPages, Closed, Open
<1> QED BY <1>1, <1>2, <1>3 DEF DialogTypeOK

LEMMA WritingIsHonest ==
    ASSUME DialogInv, HonestInv, NEW q \in requests, NEW q2,
           q2.kind = q.kind, q2.by = q.by, q2.contents = q.contents,
           \/ /\ q.kind = "save" /\ row' = [contents |-> q.contents, by |-> q.by]
              /\ requests' = (requests \ {q}) \cup {q2}
           \/ q.kind # "save" /\ requests' = requests \ {q},
           Seen(q.by)
    PROVE  HonestInv'
<1>1. \A r \in requests' : r \in requests \/ (r = q2 /\ q.kind = "save")
  OBVIOUS
<1>2. \A k : \A r \in SavesBy(k)' : r \in SavesBy(k) \/ (r = q2 /\ q \in SavesBy(k))
  BY DEF SavesBy
<1>3. \A k : (\A r, s \in SavesBy(k) : r = s) => (\A r, s \in SavesBy(k)' : r = s)
  BY DEF SavesBy
<1>4. \A t \in Tabs : /\ Open(t)' <=> Open(t)
                      /\ page'[t].at = "arriving" => page'[t].newer
                      /\ Open(t) => /\ page'[t].id = page[t].id
                                    /\ page'[t].field = page[t].field
                                    /\ page'[t].wiped = page[t].wiped
                                    /\ page'[t].pending = page[t].pending
                                    /\ page'[t].sending = page[t].sending
                                    /\ page'[t].queued = page[t].queued
                                    /\ page'[t].newer = (page[t].id # q.by)
  BY SeenByAll DEF DialogInv, Open, Closed
<1>5. OneSaveEach'
  BY <1>2, <1>3, <1>4 DEF HonestInv, OneSaveEach
<1>6. SentOrWaiting'
  BY <1>2, <1>4 DEF HonestInv, SentOrWaiting, Shows
<1>7. ASSUME NEW t \in Tabs, Open(t), ~page'[t].newer
      PROVE  /\ page'[t].sending
             /\ \A r \in SavesBy(page[t].id)' : row'.contents = r.contents
  <2>1. page[t].id = q.by
    BY <1>4, <1>7
  <2>2. q.kind = "save"
    BY <2>1, <1>7 DEF HonestInv, PartedEnds
  <2>3. q \in SavesBy(page[t].id)
    BY <2>1, <2>2 DEF SavesBy
  <2>4. page'[t].sending
    BY <1>4, <1>7, <2>3 DEF HonestInv, OneSaveEach
  <2>5. \A r \in SavesBy(page[t].id)' : r = q \/ r = q2
    BY <1>2, <1>4, <1>7, <2>3 DEF HonestInv, OneSaveEach
  <2>6. row'.contents = q.contents
    BY <2>2
  <2> QED BY <2>4, <2>5, <2>6
<1>8. RowIsKnown'
  BY <1>4, <1>7 DEF RowIsKnown
<1>9. PartedEnds'
  BY <1>1, <1>4 DEF HonestInv, PartedEnds
<1> QED BY <1>5, <1>6, <1>8, <1>9 DEF HonestInv

\* An edit waits if something is under way, and is posted otherwise.
LEMMA SubmittingIsHonest ==
    ASSUME DialogInv, HonestInv, NEW t \in Tabs, Open(t), NEW p \in OpenPages,
           p.id = page[t].id, p.newer = page[t].newer, p.sending = page[t].sending,
           Submit(t, p), UNCHANGED row
    PROVE  HonestInv'
<1>1. CASE p.sending /\ page' = [page EXCEPT ![t] = Waiting(p)] /\ UNCHANGED requests
  <2>1. /\ Waiting(p) \in OpenPages /\ Waiting(p).id = p.id /\ Waiting(p).newer = p.newer
        /\ Waiting(p).sending = p.sending /\ Waiting(p).queued
    BY DEF Waiting, OpenPages
  <2> QED BY <1>1, <2>1, EditIsHonest
<1>2. CASE ~p.sending /\ page' = [page EXCEPT ![t] = Sending(p)]
           /\ requests' = requests \cup {Post("save", p)}
  <2>1. SavesBy(p.id) = {}
    BY <1>2 DEF HonestInv, OneSaveEach
  <2> QED BY <1>2, <2>1, SendIsHonest
<1> QED BY <1>1, <1>2 DEF Submit

\* The answer is the only one its page waits for.
LEMMA AnswerIsHonest ==
    ASSUME DialogInv, HonestInv, NEW q \in requests, ReceiveSave(q)
    PROVE  HonestInv'
<1>1. q \in Requests /\ q.kind = "save" /\ (q.at = "saved" \/ q.at = "failed") /\ row' = row
  BY DEF DialogInv, DialogTypeOK, ReceiveSave
<1>2. CASE Ends(q) /\ UNCHANGED page
  BY <1>1, <1>2, MovingIsHonest DEF Ends
<1>3. ASSUME NEW t \in Tabs, Open(t), NEW p, p = Shown(page[t], q), page[t].id = q.by,
             page' = [page EXCEPT ![t] = IF p.queued THEN Sending(p) ELSE p],
             requests' = (requests \ {q}) \cup (IF p.queued THEN {Post("save", p)} ELSE {})
      PROVE  HonestInv'
  <2>1. page[t] \in OpenPages
    BY <1>3, OpenIsOpen DEF DialogInv
  <2>2. /\ p \in OpenPages /\ p.id = page[t].id /\ p.newer = page[t].newer
        /\ p.field = page[t].field /\ p.queued = page[t].queued /\ p.pending = page[t].pending
        /\ p.wiped = page[t].wiped
        /\ ~p.sending /\ (p.error <=> q.at = "failed")
    BY <1>3, <2>1 DEF Shown, OpenPages
  <2>3. SavesBy(p.id) = {q}
    BY <1>1, <1>3, <2>2 DEF SavesBy, HonestInv, OneSaveEach
  <2>4. CASE p.queued
    BY <1>1, <1>3, <2>2, <2>3, <2>4, SendIsHonest
  <2>5. CASE ~p.queued
    <3>1. requests' = requests \ {q} /\ page' = [page EXCEPT ![t] = p]
      BY <1>3, <2>5
    <3>2. /\ \A s \in Tabs : Open(s)' <=> Open(s)
          /\ \A s \in Tabs : s # t => page'[s] = page[s] /\ (Open(s) => page[s].id # q.by)
          /\ page'[t] = p
          /\ page'[t].at = "open"
      BY <1>3, <2>2, <3>1 DEF Open, OpenPages, DialogInv, DialogTypeOK, OneTabEach
    <3>3. \A k : SavesBy(k)' = SavesBy(k) \ {q}
      BY <3>1 DEF SavesBy
    <3>4. \A s \in Tabs : page'[s].id = page[s].id
      BY <2>2, <3>2
    <3>5. OneSaveEach'
      BY <2>2, <2>3, <2>5, <3>2, <3>3, <3>4 DEF HonestInv, OneSaveEach
    <3>6. SentOrWaiting'
      BY <2>2, <2>3, <3>2, <3>3, <3>4 DEF HonestInv, SentOrWaiting
    <3>7. ~p.newer /\ ~p.pending /\ ~p.error => row.contents \in Contents /\ Shows(p, row.contents)
      <4> SUFFICES ASSUME ~p.newer, ~p.pending, ~p.error
                   PROVE  row.contents \in Contents /\ Shows(p, row.contents)
        OBVIOUS
      <4>1. q \in SavesBy(page[t].id) /\ q.at = "saved"
        BY <1>1, <2>2, <2>3
      <4>2. row.contents = q.contents
        BY <4>1, <1>3, <2>2 DEF HonestInv, RowIsKnown
      <4>3. q.contents \in Contents /\ Shows(page[t], q.contents)
        BY <4>1, <1>1, <1>3, <2>2, <2>5 DEF HonestInv, SentOrWaiting, Requests
      <4> QED BY <4>2, <4>3, <2>2 DEF Shows
    <3>8. RowIsKnown'
      BY <1>1, <2>2, <2>3, <3>2, <3>3, <3>4, <3>7 DEF HonestInv, RowIsKnown
    <3>9. PartedEnds'
      BY <3>1, <3>2, <3>4 DEF HonestInv, PartedEnds
    <3> QED BY <3>5, <3>6, <3>8, <3>9 DEF HonestInv
  <2> QED BY <2>4, <2>5
<1> QED BY <1>2, <1>3 DEF ReceiveSave

LEMMA HonestStep == DialogInv /\ HonestInv /\ [DialogNext]_dialogVars => HonestInv'
<1> SUFFICES ASSUME DialogInv, HonestInv, [DialogNext]_dialogVars PROVE HonestInv'
  OBVIOUS
<1>1. ASSUME NEW t \in Tabs, OpenEdit(t) \/ Show(t) PROVE HonestInv'
  BY <1>1, OpeningIsHonest
<1>2. ASSUME NEW t \in Tabs, NEW c \in Contents, NEW how \in {"typed", "picked"}, Open(t)
      PROVE  /\ Edited(page[t], c, how) \in OpenPages
             /\ Edited(page[t], c, how).id = page[t].id
             /\ Edited(page[t], c, how).newer = page[t].newer
             /\ Edited(page[t], c, how).sending = page[t].sending
             /\ Edited(page[t], c, how).queued = page[t].queued
  <2>1. page[t] \in OpenPages
    BY <1>2, OpenIsOpen DEF DialogInv
  <2>2. (page[t].touched \/ Touches(how)) \in BOOLEAN
    BY <2>1 DEF OpenPages, Touches
  <2> QED BY <2>1, <2>2 DEF Edited, OpenPages
<1>3. ASSUME NEW t \in Tabs, NEW c \in Contents, Type(t, c) PROVE HonestInv'
  <2> DEFINE e == Edited(page[t], c, "typed")
             p == [e EXCEPT !.pending = TRUE]
  <2>1. /\ Open(t) /\ e \in OpenPages /\ e.id = page[t].id /\ e.newer = page[t].newer
        /\ e.sending = page[t].sending /\ e.queued = page[t].queued
    BY <1>2, <1>3 DEF Type
  <2>2. page' = [page EXCEPT ![t] = p] /\ UNCHANGED <<row, requests>>
    BY <1>3 DEF Type
  <2> HIDE DEF e
  <2>3. /\ p \in OpenPages /\ p.id = e.id /\ p.newer = e.newer /\ p.sending = e.sending
        /\ p.queued = e.queued /\ p.pending
    BY <2>1 DEF OpenPages
  <2>4. p.queued => p.sending
    BY <2>1, <2>3 DEF HonestInv, OneSaveEach
  <2> HIDE DEF p
  <2> QED BY <2>1, <2>2, <2>3, <2>4, EditIsHonest
<1>4. ASSUME NEW t \in Tabs, NEW c \in Contents, Pick(t, c) PROVE HonestInv'
  BY <1>2, <1>4, SubmittingIsHonest DEF Pick
<1>5. ASSUME NEW t \in Tabs, Fire(t) PROVE HonestInv'
  BY <1>5, OpenIsOpen, SubmittingIsHonest DEF Fire, DialogInv
<1>6. ASSUME NEW t \in Tabs, CloseDialog(t) \/ PressDelete(t) PROVE HonestInv'
  BY <1>6, ClosingIsHonest
<1>7. ASSUME NEW q \in requests, NEW at \in {"read", "failed"}, Becomes(q, at), UNCHANGED <<row, page>>
      PROVE  HonestInv'
  <2> DEFINE q2 == [q EXCEPT !.at = at]
  <2>1. q \in Requests
    BY DEF DialogInv, DialogTypeOK
  <2>2. q2.kind = q.kind /\ q2.by = q.by /\ q2.contents = q.contents /\ q2.at # "saved"
    BY <1>7, <2>1 DEF Requests
  <2>3. requests' = (requests \ {q}) \cup {q2}
    BY <1>7 DEF Becomes
  <2> HIDE DEF q2
  <2> QED BY <1>7, <2>2, <2>3, MovingIsHonest
<1>8. ASSUME NEW q \in requests, Ends(q), UNCHANGED <<row, page>> PROVE HonestInv'
  BY <1>8, MovingIsHonest DEF Ends
<1>9. ASSUME NEW q \in requests, ReadForSave(q) \/ ReadForDiscard(q) \/ Lose(q) PROVE HonestInv'
  <2>1. UNCHANGED <<row, page>>
    BY <1>9 DEF ReadForSave, ReadForDiscard, Lose
  <2>2. Becomes(q, "read") \/ Becomes(q, "failed") \/ Ends(q)
    BY <1>9 DEF ReadForSave, ReadForDiscard, Lose
  <2> QED BY <1>7, <1>8, <2>1, <2>2
<1>10. ASSUME NEW q \in requests, WriteSave(q) PROVE HonestInv'
  <2>1. CASE row' = [contents |-> q.contents, by |-> q.by] /\ Seen(q.by) /\ Becomes(q, "saved")
    <3>1. q.kind = "save" /\ q \in Requests
      BY <1>10 DEF WriteSave, DialogInv, DialogTypeOK
    <3> DEFINE q2 == [q EXCEPT !.at = "saved"]
    <3>2. q2.kind = q.kind /\ q2.by = q.by /\ q2.contents = q.contents
      BY <3>1 DEF Requests
    <3>3. requests' = (requests \ {q}) \cup {q2}
      BY <2>1 DEF Becomes
    <3> HIDE DEF q2
    <3> QED BY <2>1, <3>1, <3>2, <3>3, WritingIsHonest
  <2>2. CASE Becomes(q, "failed") /\ UNCHANGED <<row, page>>
    BY <1>7, <2>2
  <2> QED BY <1>10, <2>1, <2>2 DEF WriteSave
<1>11. ASSUME NEW q \in requests, DeleteDraft(q) \/ DeleteBooking(q) PROVE HonestInv'
  <2>1. q.kind # "save" /\ Seen(q.by) /\ requests' = requests \ {q}
    BY <1>11 DEF DeleteDraft, DeleteBooking, RemoveRow, Ends
  <2> QED BY <2>1, WritingIsHonest
<1>12. ASSUME NEW q \in requests, ReceiveSave(q) PROVE HonestInv'
  BY <1>12, AnswerIsHonest
<1>13. CASE UNCHANGED dialogVars
  BY <1>13 DEF dialogVars, HonestInv, OneSaveEach, SentOrWaiting, RowIsKnown, PartedEnds, SavesBy, Open
<1>14. ASSUME NEW t \in Tabs, ClickName(t) PROVE HonestInv'
  BY <1>14, EmptyingIsHonest
<1> QED BY <1>1, <1>3, <1>4, <1>5, <1>6, <1>9, <1>10, <1>11, <1>12, <1>13, <1>14 DEF DialogNext

\* A dialog at rest shows what is stored, but for a name clicked away since its
\* last post, for any number of tabs and dialogs, any contents, and whatever is
\* refused or lost (app.js:188-195, 303-330).
THEOREM OpenDialogsAreHonest == DialogSpec => []OpenDialogIsHonest
<1>1. HonestInv => OpenDialogIsHonest
  BY ContentsAreTold DEF HonestInv, RowIsKnown, OpenDialogIsHonest, Stored
<1> QED BY <1>1, InitialDialog, InitialHonest, DialogStep, HonestStep, PTL DEF DialogSpec

-----------------------------------------------------------------------------
(***************************************************************************)
(* No dead drafts.  As long as nothing was typed, what is blank stays so   *)
(* everywhere (AllAlike), no page is touched, a name that a click empties  *)
(* is a suggested one (Suggesting), and a stored blank row has somebody    *)
(* who will discard it (Discarded).                                        *)
(***************************************************************************)
LeftBlank(c) == c \in BlankDrafts

Untouched == \A t \in Tabs : Open(t) => ~page[t].touched

Suggesting == \A t \in Tabs : Open(t) /\ page[t].suggests => page[t].field.name = "suggested"

AllAlike ==
    Stored =>
        /\ \A t \in Tabs : page[t] # Closed => (LeftBlank(page[t].field) <=> LeftBlank(row.contents))
        /\ \A q \in requests : q.kind = "save" => (LeftBlank(q.contents) <=> LeftBlank(row.contents))

Discarded ==
    \/ \E t \in Tabs : Open(t) /\ page[t].draft
    \/ \E q \in requests : q.kind = "discard" /\ q.at \in {"sent", "read"}

QuietDrafts == Untouched /\ Suggesting /\ AllAlike /\ (LeftBlank(row.contents) => Discarded)

DraftInv == typed = {} => QuietDrafts

LEMMA InitialDraft == DialogInit => QuietDrafts
<1> SUFFICES ASSUME DialogInit PROVE QuietDrafts
  OBVIOUS
<1>1. requests = {}
  BY DEF DialogInit
<1>2. CASE page = [s \in Tabs |-> Closed] /\ row.contents \notin BlankDrafts
  BY <1>1, <1>2 DEF QuietDrafts, Untouched, Suggesting, AllAlike, LeftBlank, Open, Closed
<1>3. CASE /\ row = [contents |-> Fresh, by |-> 0]
           /\ \E t \in Tabs : page = [s \in Tabs |-> IF s = t THEN Fragment(1, Fresh, TRUE, FALSE)
                                                              ELSE Closed]
  <2>1. PICK t \in Tabs : page = [s \in Tabs |-> IF s = t THEN Fragment(1, Fresh, TRUE, FALSE)
                                                       ELSE Closed]
    BY <1>3
  <2>2. /\ Open(t) /\ page[t].draft /\ ~page[t].touched /\ page[t].field = Fresh
        /\ \A s \in Tabs : s # t => page[s] = Closed /\ ~Open(s)
    BY <2>1 DEF Fragment, Open, Closed
  <2>3. Suggesting
    BY <2>2, ContentsAreTold DEF Suggesting
  <2> QED BY <1>1, <1>3, <2>2, <2>3 DEF QuietDrafts, Untouched, AllAlike, Discarded
<1>4. row \in [contents : Contents \ (BlankDrafts \cup Rejected), by : {0}]
      => row.contents \notin BlankDrafts
  OBVIOUS
<1> QED BY <1>2, <1>3, <1>4 DEF DialogInit

\* A page that stays open and untouched sends what is like its fields.
LEMMA PagesKeepDrafts ==
    ASSUME DialogInv, QuietDrafts, NEW t \in Tabs, Open(t), NEW p \in OpenPages,
           p.draft = page[t].draft, p.touched = page[t].touched,
           p.suggests => p.field.name = "suggested",
           LeftBlank(p.field) <=> LeftBlank(page[t].field),
           page' = [page EXCEPT ![t] = p],
           requests' \subseteq requests \cup {Post("save", p)},
           \A q \in requests : q.kind # "save" => q \in requests',
           UNCHANGED row
    PROVE  QuietDrafts'
<1>1. /\ \A s \in Tabs : s # t => page'[s] = page[s]
      /\ page'[t] = p
      /\ \A s \in Tabs : Open(s)' <=> Open(s)
      /\ page[t] # Closed
  BY DEF Open, OpenPages, DialogInv, DialogTypeOK, Closed
<1>2. \A q \in requests' : q \in requests \/ q.contents = p.field
  BY DEF Post
<1>3. Untouched'
  BY <1>1 DEF QuietDrafts, Untouched
<1>4. AllAlike'
  BY <1>1, <1>2 DEF QuietDrafts, AllAlike, Stored
<1>5. Discarded => Discarded'
  BY <1>1 DEF Discarded
<1>6. Suggesting'
  BY <1>1 DEF QuietDrafts, Suggesting
<1> QED BY <1>3, <1>4, <1>5, <1>6 DEF QuietDrafts

\* A page opens with what is stored.
LEMMA OpeningKeepsDrafts ==
    ASSUME DialogInv, QuietDrafts, NEW t \in Tabs, OpenEdit(t) \/ Show(t)
    PROVE  QuietDrafts'
<1>1. requests' = requests /\ row' = row
  BY DEF OpenEdit, Show
<1>2. \A s \in Tabs : s # t => page'[s] = page[s]
  BY DEF OpenEdit, Show, DialogInv, DialogTypeOK
<1>3. /\ ~Open(t)
      /\ page'[t].at = "open" =>
            ~page'[t].touched /\ (page'[t].suggests => page'[t].field.name = "suggested")
      /\ page'[t].field = row.contents \/ (page[t] # Closed /\ page'[t].field = page[t].field)
  <2>1. CASE OpenEdit(t)
    BY <2>1 DEF OpenEdit, DialogInv, DialogTypeOK, Open, Closed
  <2>2. CASE Show(t)
    <3>1. page'[t] = Fragment(dialogs + 1, page[t].field, FALSE, page[t].newer)
      BY <2>2 DEF Show, DialogInv, DialogTypeOK
    <3>2. /\ page'[t].touched = FALSE /\ page'[t].field = page[t].field
          /\ page'[t].suggests = (page[t].field.name = "suggested")
      BY <3>1 DEF Fragment
    <3>3. page[t].at = "arriving"
      BY <2>2 DEF Show
    <3>4. ~Open(t) /\ page[t] # Closed
      BY <3>3 DEF Open, Closed
    <3> QED BY <3>2, <3>4
  <2> QED BY <2>1, <2>2
<1>4. \A s \in Tabs : s # t => (Open(s)' <=> Open(s))
  BY <1>2 DEF Open
<1>5. Untouched'
  BY <1>2, <1>3, <1>4 DEF QuietDrafts, Untouched, Open
<1>6. AllAlike'
  BY <1>1, <1>2, <1>3 DEF QuietDrafts, AllAlike, Stored
<1>7. Discarded => Discarded'
  BY <1>1, <1>2, <1>3, <1>4 DEF Discarded
<1>8. Suggesting'
  BY <1>2, <1>3, <1>4 DEF QuietDrafts, Suggesting, Open
<1> QED BY <1>1, <1>5, <1>6, <1>7, <1>8 DEF QuietDrafts

\* A draft that closes untouched asks for its discard.
LEMMA ClosingKeepsDrafts ==
    ASSUME DialogInv, QuietDrafts, NEW t \in Tabs, CloseDialog(t) \/ PressDelete(t)
    PROVE  QuietDrafts'
<1> DEFINE p == page[t]
<1>1. p \in OpenPages /\ Open(t) /\ page' = [page EXCEPT ![t] = Closed] /\ row' = row
  BY OpenIsOpen DEF CloseDialog, PressDelete, DialogInv
<1>2. /\ requests' \subseteq requests \cup Parting(p) \cup {Post("delete", p)}
      /\ requests \cup Parting(p) \subseteq requests'
  BY DEF CloseDialog, PressDelete
<1>3. \A q \in requests' : q \in requests \/ q.contents = p.field
  BY <1>2 DEF Parting, Post
<1>4. \A s \in Tabs : /\ page'[s] = Closed \/ (s # t /\ page'[s] = page[s])
                      /\ s # t => page'[s] = page[s]
                      /\ Open(s)' => s # t /\ Open(s) /\ page'[s] = page[s]
  BY <1>1 DEF Open, Closed, DialogInv, DialogTypeOK
<1>5. Untouched' /\ Suggesting'
  BY <1>4 DEF QuietDrafts, Untouched, Suggesting
<1>6. AllAlike'
  <2>1. page[t] # Closed
    BY <1>1 DEF Open, Closed
  <2> QED BY <1>1, <1>3, <1>4, <2>1 DEF QuietDrafts, AllAlike, Stored
<1>7. Discarded => Discarded'
  <2>1. CASE p.draft
    <3>1. Discards(p)
      BY <2>1, <1>1 DEF Discards, QuietDrafts, Untouched
    <3>2. Post("discard", p) \in requests'
      BY <3>1, <1>2 DEF Parting
    <3>3. Post("discard", p).kind = "discard" /\ Post("discard", p).at = "sent"
      BY DEF Post
    <3> QED BY <3>2, <3>3 DEF Discarded
  <2>2. CASE ~p.draft
    BY <2>2, <1>2, <1>4 DEF Discarded, Open
  <2> QED BY <2>1, <2>2
<1> QED BY <1>1, <1>5, <1>6, <1>7 DEF QuietDrafts

\* A request moves on: a discard that was sent is read, unless there is no
\* draft to be discarded.
LEMMA MovingKeepsDrafts ==
    ASSUME DialogInv, QuietDrafts, NEW q \in requests, NEW q2,
           q2.kind = q.kind, q2.contents = q.contents,
           \/ requests' = (requests \ {q}) \cup {q2}
           \/ requests' = requests \ {q} /\ (q.kind = "discard" => ~LeftBlank(row.contents)),
           q.kind = "discard" => q2.at = "read",
           UNCHANGED <<row, page>>
    PROVE  QuietDrafts'
<1>1. \A r \in requests' : r \in requests \/ r = q2
  OBVIOUS
<1>2. Untouched' /\ Suggesting'
  BY DEF QuietDrafts, Untouched, Suggesting, Open
<1>3. AllAlike'
  BY <1>1 DEF QuietDrafts, AllAlike, Stored
<1>4. LeftBlank(row.contents) /\ Discarded => Discarded'
  BY DEF Discarded, Open
<1> QED BY <1>2, <1>3, <1>4 DEF QuietDrafts

\* A save writes what is like the row.
LEMMA WritingKeepsDrafts ==
    ASSUME DialogInv, QuietDrafts, NEW q \in requests, q.kind = "save", Stored, NEW q2,
           q2.kind = q.kind, q2.contents = q.contents,
           row' = [contents |-> q.contents, by |-> q.by],
           requests' = (requests \ {q}) \cup {q2},
           Seen(q.by)
    PROVE  QuietDrafts'
<1>1. \A t \in Tabs : /\ page'[t] = Closed <=> page[t] = Closed
                      /\ Open(t)' <=> Open(t)
                      /\ page[t] # Closed => page'[t].field = page[t].field
                      /\ Open(t) => /\ page'[t].draft = page[t].draft
                                    /\ page'[t].touched = page[t].touched
                                    /\ page'[t].suggests = page[t].suggests
  BY SeenByAll DEF DialogInv, Open
<1>2. \A r \in requests' : r \in requests \/ r = q2
  OBVIOUS
<1>3. row'.contents = q.contents /\ (LeftBlank(q.contents) <=> LeftBlank(row.contents))
  BY DEF QuietDrafts, AllAlike
<1>4. Untouched' /\ Suggesting'
  BY <1>1 DEF QuietDrafts, Untouched, Suggesting, Open, Closed
<1>5. AllAlike'
  BY <1>1, <1>2, <1>3 DEF QuietDrafts, AllAlike
<1>6. Discarded => Discarded'
  <2>1. ASSUME NEW t \in Tabs, Open(t), page[t].draft PROVE Discarded'
    BY <2>1, <1>1 DEF Discarded
  <2>2. ASSUME NEW r \in requests, r.kind = "discard", r.at \in {"sent", "read"} PROVE Discarded'
    BY <2>2 DEF Discarded
  <2> QED BY <2>1, <2>2 DEF Discarded
<1> QED BY <1>3, <1>4, <1>5, <1>6 DEF QuietDrafts, LeftBlank

\* Nothing is blank about a booking that is gone.
LEMMA RemovingKeepsDrafts ==
    ASSUME DialogInv, QuietDrafts, NEW q, RemoveRow(q)
    PROVE  QuietDrafts'
<1>1. row' = [contents |-> Gone, by |-> q.by] /\ Seen(q.by)
  BY DEF RemoveRow
<1>2. ~Stored' /\ ~LeftBlank(row.contents)'
  BY <1>1, ContentsAreTold DEF Stored, LeftBlank, BlankDrafts
<1>3. \A t \in Tabs : /\ Open(t)' <=> Open(t)
                      /\ Open(t) => /\ page'[t].touched = page[t].touched
                                    /\ page'[t].suggests = page[t].suggests
                                    /\ page'[t].field = page[t].field
  BY <1>1, SeenByAll DEF DialogInv, Open, Closed
<1>4. Untouched' /\ Suggesting'
  BY <1>3 DEF QuietDrafts, Untouched, Suggesting
<1> QED BY <1>2, <1>4 DEF QuietDrafts, AllAlike

LEMMA SubmittingKeepsDrafts ==
    ASSUME DialogInv, QuietDrafts, NEW t \in Tabs, Open(t), NEW p \in OpenPages,
           p.draft = page[t].draft, p.touched = page[t].touched,
           p.suggests => p.field.name = "suggested",
           LeftBlank(p.field) <=> LeftBlank(page[t].field),
           Submit(t, p), UNCHANGED row
    PROVE  QuietDrafts'
<1>1. /\ Waiting(p) \in OpenPages /\ Waiting(p).draft = p.draft
      /\ Waiting(p).touched = p.touched /\ Waiting(p).field = p.field
      /\ Waiting(p).suggests = p.suggests /\ Sending(p).suggests = p.suggests
      /\ Sending(p) \in OpenPages /\ Sending(p).draft = p.draft
      /\ Sending(p).touched = p.touched /\ Sending(p).field = p.field /\ Sending(p).id = p.id
  BY DEF Waiting, Sending, OpenPages
<1>2. Post("save", Sending(p)) = Post("save", p)
  BY <1>1 DEF Post
<1>3. CASE page' = [page EXCEPT ![t] = Waiting(p)] /\ UNCHANGED requests
  BY <1>1, <1>3, PagesKeepDrafts
<1>4. CASE page' = [page EXCEPT ![t] = Sending(p)] /\ requests' = requests \cup {Post("save", p)}
  BY <1>1, <1>2, <1>4, PagesKeepDrafts
<1> QED BY <1>3, <1>4 DEF Submit

LEMMA AnswerKeepsDrafts ==
    ASSUME DialogInv, QuietDrafts, NEW q \in requests, ReceiveSave(q)
    PROVE  QuietDrafts'
<1>1. q.kind = "save" /\ row' = row
  BY DEF ReceiveSave
<1>2. CASE Ends(q) /\ UNCHANGED page
  BY <1>1, <1>2, MovingKeepsDrafts DEF Ends
<1>3. ASSUME NEW t \in Tabs, Open(t), NEW p, p = Shown(page[t], q),
             page' = [page EXCEPT ![t] = IF p.queued THEN Sending(p) ELSE p],
             requests' = (requests \ {q}) \cup (IF p.queued THEN {Post("save", p)} ELSE {})
      PROVE  QuietDrafts'
  <2> DEFINE new == IF p.queued THEN Sending(p) ELSE p
  <2>1. page[t] \in OpenPages
    BY <1>3, OpenIsOpen DEF DialogInv
  <2>2. /\ p \in OpenPages /\ p.draft = page[t].draft /\ p.touched = page[t].touched
        /\ p.field = page[t].field /\ p.suggests = page[t].suggests
    BY <1>3, <2>1 DEF Shown, OpenPages
  <2>3. /\ Sending(p) \in OpenPages /\ Sending(p).draft = p.draft
        /\ Sending(p).suggests = p.suggests
        /\ Sending(p).touched = p.touched /\ Sending(p).field = p.field /\ Sending(p).id = p.id
    BY <2>2 DEF Sending, OpenPages
  <2>4. /\ new \in OpenPages /\ new.draft = page[t].draft /\ new.touched = page[t].touched
        /\ new.field = page[t].field /\ Post("save", new) = Post("save", p)
        /\ new.suggests => new.field.name = "suggested"
    BY <1>3, <2>2, <2>3 DEF Post, QuietDrafts, Suggesting
  <2>5. page' = [page EXCEPT ![t] = new]
    BY <1>3
  <2> HIDE DEF new
  <2>6. requests' \subseteq requests \cup {Post("save", new)}
    BY <1>3, <2>4
  <2>7. \A r \in requests : r.kind # "save" => r \in requests'
    BY <1>1, <1>3
  <2> QED BY <1>1, <1>3, <2>4, <2>5, <2>6, <2>7, PagesKeepDrafts
<1> QED BY <1>2, <1>3 DEF ReceiveSave

\* Losing a discard would leave its draft: that is what the hypothesis is for.
LEMMA DraftStep ==
    ASSUME "discard" \notin Losable
    PROVE  DialogInv /\ DraftInv /\ [DialogNext]_dialogVars => DraftInv'
<1> SUFFICES ASSUME DialogInv, DraftInv, [DialogNext]_dialogVars, typed' = {} PROVE QuietDrafts'
  BY DEF DraftInv
<1>1. ASSUME NEW t \in Tabs, NEW c \in Contents, Type(t, c) PROVE FALSE
  BY <1>1 DEF Type
<1>2. CASE UNCHANGED dialogVars
  BY <1>2 DEF dialogVars, DraftInv, QuietDrafts, Untouched, Suggesting, AllAlike, Discarded, Open, Stored
<1>3. CASE DialogNext
  <2>1. typed' = typed
    BY <1>1, <1>3 DEF DialogNext, OpenEdit, Show, Pick, ClickName, Fire, CloseDialog, PressDelete, ReadForSave,
       WriteSave, ReadForDiscard, DeleteDraft, DeleteBooking, RemoveRow, Lose, ReceiveSave
  <2>2. QuietDrafts
    BY <2>1 DEF DraftInv
  <2>3. ASSUME NEW t \in Tabs, OpenEdit(t) \/ Show(t) PROVE QuietDrafts'
    BY <2>2, <2>3, OpeningKeepsDrafts
  <2>4. ASSUME NEW t \in Tabs, NEW c \in Contents, Pick(t, c) PROVE QuietDrafts'
    <3> DEFINE e == Edited(page[t], c, "picked")
    <3>1. Open(t) /\ page[t] \in OpenPages
      BY <2>4, OpenIsOpen DEF Pick, DialogInv
    <3>2. (page[t].touched \/ Touches("picked")) = page[t].touched
      BY <3>1 DEF Touches, OpenPages
    <3>3. /\ e \in OpenPages /\ e.draft = page[t].draft /\ e.touched = page[t].touched
          /\ e.field = c /\ e.suggests = page[t].suggests
      BY <3>1, <3>2 DEF Edited, OpenPages
    <3>4. Submit(t, e) /\ (LeftBlank(c) <=> LeftBlank(page[t].field)) /\ row' = row
      BY <2>4, <3>1, PickedIsAlike DEF Pick, LeftBlank
    <3>5. e.suggests => e.field.name = "suggested"
      BY <2>2, <2>4, <3>1, <3>3 DEF Pick, QuietDrafts, Suggesting
    <3> HIDE DEF e
    <3> QED BY <2>2, <3>1, <3>3, <3>4, <3>5, SubmittingKeepsDrafts
  <2>5. ASSUME NEW t \in Tabs, Fire(t) PROVE QuietDrafts'
    BY <2>2, <2>5, OpenIsOpen, SubmittingKeepsDrafts DEF Fire, DialogInv, QuietDrafts, Suggesting
  <2>6. ASSUME NEW t \in Tabs, CloseDialog(t) \/ PressDelete(t) PROVE QuietDrafts'
    BY <2>2, <2>6, ClosingKeepsDrafts
  <2>7. ASSUME NEW q \in requests, NEW at \in {"read", "failed"}, Becomes(q, at),
               q.kind = "discard" => at = "read", UNCHANGED <<row, page>>
        PROVE  QuietDrafts'
    <3> DEFINE q2 == [q EXCEPT !.at = at]
    <3>1. q \in Requests
      BY DEF DialogInv, DialogTypeOK
    <3>2. q2.kind = q.kind /\ q2.contents = q.contents /\ q2.at = at
      BY <2>7, <3>1 DEF Requests
    <3>3. requests' = (requests \ {q}) \cup {q2}
      BY <2>7 DEF Becomes
    <3> HIDE DEF q2
    <3> QED BY <2>2, <2>7, <3>2, <3>3, MovingKeepsDrafts
  <2>8. ASSUME NEW q \in requests, ReadForSave(q) \/ Lose(q) PROVE QuietDrafts'
    <3>1. /\ UNCHANGED <<row, page>> /\ q.kind # "discard"
          /\ Becomes(q, "read") \/ Becomes(q, "failed")
      BY <2>8 DEF ReadForSave, Lose
    <3> QED BY <2>7, <3>1
  <2>9. ASSUME NEW q \in requests, ReadForDiscard(q) PROVE QuietDrafts'
    <3>1. CASE Becomes(q, "read")
      BY <2>7, <2>9, <3>1 DEF ReadForDiscard
    <3>2. CASE Ends(q) /\ ~LeftBlank(row.contents)
      <4> DEFINE q2 == [q EXCEPT !.at = "read"]
      <4>1. q \in Requests /\ UNCHANGED <<row, page>>
        BY <2>9 DEF ReadForDiscard, DialogInv, DialogTypeOK
      <4>2. q2.kind = q.kind /\ q2.contents = q.contents /\ q2.at = "read"
        BY <4>1 DEF Requests
      <4> HIDE DEF q2
      <4> QED BY <2>2, <3>2, <4>1, <4>2, MovingKeepsDrafts DEF Ends
    <3> QED BY <2>9, <3>1, <3>2 DEF ReadForDiscard, IsBlankDraft, LeftBlank
  <2>10. ASSUME NEW q \in requests, WriteSave(q) PROVE QuietDrafts'
    <3>1. CASE /\ Stored /\ row' = [contents |-> q.contents, by |-> q.by] /\ Seen(q.by)
               /\ Becomes(q, "saved")
      <4> DEFINE q2 == [q EXCEPT !.at = "saved"]
      <4>1. q.kind = "save" /\ q \in Requests
        BY <2>10 DEF WriteSave, DialogInv, DialogTypeOK
      <4>2. q2.kind = q.kind /\ q2.contents = q.contents
        BY <4>1 DEF Requests
      <4>3. requests' = (requests \ {q}) \cup {q2}
        BY <3>1 DEF Becomes
      <4> HIDE DEF q2
      <4> QED BY <2>2, <3>1, <4>1, <4>2, <4>3, WritingKeepsDrafts
    <3>2. CASE Becomes(q, "failed") /\ UNCHANGED <<row, page>>
      BY <2>7, <2>10, <3>2 DEF WriteSave
    <3> QED BY <2>10, <3>1, <3>2 DEF WriteSave
  <2>11. ASSUME NEW q \in requests, DeleteDraft(q) \/ DeleteBooking(q) PROVE QuietDrafts'
    BY <2>2, <2>11, RemovingKeepsDrafts DEF DeleteDraft, DeleteBooking
  <2>12. ASSUME NEW q \in requests, ReceiveSave(q) PROVE QuietDrafts'
    BY <2>2, <2>12, AnswerKeepsDrafts
  <2>13. ASSUME NEW t \in Tabs, ClickName(t) PROVE QuietDrafts'
    <3>1. Open(t) /\ page[t] \in OpenPages /\ page[t].suggests
      BY <2>13, OpenIsOpen DEF ClickName, DialogInv
    <3>2. page[t].field \in Contents /\ page[t].field.name = "suggested"
      BY <2>2, <3>1 DEF QuietDrafts, Suggesting, OpenPages
    <3>3. LeftBlank(Wiped(page[t].field)) <=> LeftBlank(page[t].field)
      BY <3>2, WipedIsHeld DEF LeftBlank
    <3>4. page' = [page EXCEPT ![t] = Emptied(page[t])] /\ UNCHANGED <<row, requests>>
      BY <2>13 DEF ClickName
    <3> QED BY <2>2, <3>1, <3>3, <3>4, EmptiedIsOpen, PagesKeepDrafts
  <2> QED BY <1>1, <1>3, <2>3, <2>4, <2>5, <2>6, <2>8, <2>9, <2>10, <2>11, <2>12, <2>13 DEF DialogNext
<1> QED BY <1>2, <1>3

\* Unless its discard is lost on the way, a draft that nobody typed into is gone
\* when everything has come to rest, whatever was picked in it, in how many tabs
\* it was open, and in whatever order its requests were handled, lost or refused
\* (handlers_bookings.go:113-115).
THEOREM DraftsAreNotLeftBehind ==
    ASSUME "discard" \notin Losable
    PROVE  DialogSpec => []NoDeadDrafts
<1>1. DialogInit => DraftInv
  BY InitialDraft DEF DraftInv
<1>2. DraftInv => NoDeadDrafts
  BY DEF DraftInv, QuietDrafts, Discarded, LeftBlank, NoDeadDrafts, Quiet, Open, Closed
<1>3. DialogInv /\ DraftInv /\ [DialogNext]_dialogVars => DraftInv'
  BY DraftStep
<1> QED BY <1>1, <1>2, <1>3, InitialDialog, DialogStep, PTL DEF DialogSpec

-----------------------------------------------------------------------------
(***************************************************************************)
(* Rows are collected in order, each under its account.                    *)
(***************************************************************************)
\* What was read of a row.
Entry(read, n) == The(read[n])

\* The rows with the same account, and how many of them come not after one.
Alike(read, key) == {j \in DOMAIN read : Entry(read, j).key = key}
UpTo(rows, n) == {j \in rows : j <= n}
Count(rows, n) == Cardinality(UpTo(rows, n))

\* The rows up to the n-th are the payments of the accounts.
Account(read) == [key : {Entry(read, j).key : j \in DOMAIN read},
                  payments : Seq({Entry(read, j).payment : j \in DOMAIN read})]

Filled(read, n, account) ==
    LET rows == Alike(read, account.key)
    IN  /\ UpTo(rows, n) # {}
        /\ Len(account.payments) = Count(rows, n)
        /\ \A j \in UpTo(rows, n) : account.payments[Count(rows, j)] = Entry(read, j).payment

Collected(read, n, accounts) ==
    /\ accounts \in Seq(Account(read))
    /\ \A a \in DOMAIN accounts : Filled(read, n, accounts[a])
    /\ \A a, b \in DOMAIN accounts : accounts[a].key = accounts[b].key => a = b
    /\ \A j \in UpTo(DOMAIN read, n) : \E a \in DOMAIN accounts : accounts[a].key = Entry(read, j).key

\* Counting goes by one.
LEMMA CountOneMore ==
  ASSUME NEW S, IsFiniteSet(S), S \subseteq Nat, NEW n \in Nat
  PROVE  /\ IsFiniteSet(UpTo(S, n)) /\ Count(S, n) \in Nat
         /\ n + 1 \in S => /\ UpTo(S, n + 1) = UpTo(S, n) \cup {n + 1}
                           /\ Count(S, n + 1) = Count(S, n) + 1
         /\ n + 1 \notin S => UpTo(S, n + 1) = UpTo(S, n) /\ Count(S, n + 1) = Count(S, n)
         /\ \A j \in UpTo(S, n) : Count(S, j) \in 1..Count(S, n)
<1>0. \A j \in S : j \in Nat /\ (j <= n + 1 <=> j <= n \/ j = n + 1)
  OBVIOUS
<1>1. \A m : UpTo(S, m) \subseteq S /\ IsFiniteSet(UpTo(S, m)) /\ Count(S, m) \in Nat
  BY FS_Subset, FS_CardinalityType DEF UpTo, Count
<1>2. ASSUME n + 1 \in S
      PROVE  UpTo(S, n + 1) = UpTo(S, n) \cup {n + 1} /\ Count(S, n + 1) = Count(S, n) + 1
  <2>1. UpTo(S, n + 1) = UpTo(S, n) \cup {n + 1} /\ n + 1 \notin UpTo(S, n)
    <3>1. ~(n + 1 <= n)
      OBVIOUS
    <3>2. \A j : j \in UpTo(S, n + 1) <=> j \in UpTo(S, n) \cup {n + 1}
      BY <1>0, <1>2 DEF UpTo
    <3> QED
      BY <3>1, <3>2 DEF UpTo
  <2> QED
    BY <1>1, <2>1, FS_AddElement DEF Count
<1>3. ASSUME n + 1 \notin S
      PROVE  UpTo(S, n + 1) = UpTo(S, n)
  <2>1. \A j : j \in UpTo(S, n + 1) <=> j \in UpTo(S, n)
    BY <1>0, <1>3 DEF UpTo
  <2> QED
    BY <2>1
<1>4. ASSUME NEW j \in UpTo(S, n)
      PROVE  Count(S, j) \in 1..Count(S, n)
  <2>0. j \in S /\ j \in Nat /\ j <= n /\ j <= j
    BY <1>0 DEF UpTo
  <2>1. UpTo(S, j) \subseteq UpTo(S, n) /\ UpTo(S, j) # {}
    <3>1. \A k \in S : k <= j => k <= n
      BY <1>0, <2>0
    <3>2. j \in UpTo(S, j)
      BY <2>0 DEF UpTo
    <3> QED
      BY <3>1, <3>2 DEF UpTo
  <2>2. Count(S, j) <= Count(S, n) /\ Count(S, j) # 0
    BY <1>1, <2>1, FS_Subset, FS_EmptySet DEF Count
  <2> QED
    BY <1>1, <2>2
<1> QED
  BY <1>1, <1>2, <1>3, <1>4 DEF Count

\* One row more is one payment more, of its account or of a new one.
LEMMA OneMoreRow ==
  ASSUME NEW read, IsFiniteSet(DOMAIN read), DOMAIN read \subseteq Nat, NEW n \in Nat,
         NEW accounts, Collected(read, n, accounts)
  PROVE  /\ n + 1 \notin DOMAIN read => Collected(read, n + 1, accounts)
         /\ n + 1 \in DOMAIN read =>
                Collected(read, n + 1, WithPayment(accounts, Entry(read, n + 1)))
<1> DEFINE Of(key) == Alike(read, key)
<1>1. \A key : IsFiniteSet(Of(key)) /\ Of(key) \subseteq Nat
  BY FS_Subset DEF Alike
<1>2. ASSUME n + 1 \notin DOMAIN read
      PROVE  Collected(read, n + 1, accounts)
  <2>1. \A key : n + 1 \notin Of(key)
    BY <1>2 DEF Alike
  <2>2. \A key : UpTo(Of(key), n + 1) = UpTo(Of(key), n) /\ Count(Of(key), n + 1) = Count(Of(key), n)
    BY <1>1, <2>1, CountOneMore
  <2>3. UpTo(DOMAIN read, n + 1) = UpTo(DOMAIN read, n)
    BY <1>2, CountOneMore
  <2> HIDE DEF Of
  <2>4. \A account : Filled(read, n, account) => Filled(read, n + 1, account)
    BY <2>2 DEF Filled, Of
  <2> QED
    BY <2>3, <2>4 DEF Collected
<1>3. ASSUME n + 1 \in DOMAIN read
      PROVE  Collected(read, n + 1, WithPayment(accounts, Entry(read, n + 1)))
  <2> DEFINE r == Entry(read, n + 1)
             known == {a \in DOMAIN accounts : accounts[a].key = r.key}
             K == {Entry(read, j).key : j \in DOMAIN read}
             P == {Entry(read, j).payment : j \in DOMAIN read}
             more == WithPayment(accounts, r)
  <2>1. accounts \in Seq([key : K, payments : Seq(P)])
    BY DEF Collected, Account
  <2>2. r.key \in K /\ r.payment \in P
    BY <1>3
  <2>3. n + 1 \in Of(r.key) /\ \A key : key # r.key => n + 1 \notin Of(key)
    BY <1>3 DEF Alike
  <2>4. UpTo(DOMAIN read, n + 1) = UpTo(DOMAIN read, n) \cup {n + 1}
    BY <1>3, CountOneMore
  <2>5. /\ UpTo(Of(r.key), n + 1) = UpTo(Of(r.key), n) \cup {n + 1}
        /\ Count(Of(r.key), n + 1) = Count(Of(r.key), n) + 1
        /\ Count(Of(r.key), n) \in Nat
        /\ \A j \in UpTo(Of(r.key), n) : Count(Of(r.key), j) \in 1..Count(Of(r.key), n)
    BY <1>1, <2>3, CountOneMore
  <2>6. ASSUME NEW account, Filled(read, n, account), account.key # r.key
        PROVE  Filled(read, n + 1, account)
    <3>1. /\ UpTo(Of(account.key), n + 1) = UpTo(Of(account.key), n)
          /\ Count(Of(account.key), n + 1) = Count(Of(account.key), n)
      BY <1>1, <2>3, <2>6, CountOneMore
    <3> HIDE DEF Of
    <3> QED
      BY <2>6, <3>1 DEF Filled, Of
  <2>7. ASSUME NEW payments \in Seq(P), Len(payments) = Count(Of(r.key), n),
               \A j \in UpTo(Of(r.key), n) : payments[Count(Of(r.key), j)] = Entry(read, j).payment
        PROVE  Filled(read, n + 1, [key |-> r.key, payments |-> Append(payments, r.payment)])
    <3> DEFINE rows == Of(r.key)
               longer == Append(payments, r.payment)
    <3>1. Len(longer) = Count(rows, n + 1)
      BY <2>2, <2>5, <2>7
    <3>2. ASSUME NEW j \in UpTo(rows, n + 1)
          PROVE  longer[Count(rows, j)] = Entry(read, j).payment
      <4>1. CASE j \in UpTo(rows, n)
        <5>1. Count(rows, j) \in 1..Len(payments)
          BY <2>5, <2>7, <4>1
        <5>2. longer[Count(rows, j)] = payments[Count(rows, j)]
          BY <2>2, <5>1
        <5> QED
          BY <2>7, <4>1, <5>2
      <4>2. CASE j = n + 1
        <5>1. Count(rows, j) = Len(payments) + 1
          BY <2>5, <2>7, <4>2
        <5>2. longer[Len(payments) + 1] = r.payment
          BY <2>2
        <5> QED
          BY <4>2, <5>1, <5>2
      <4> QED
        BY <2>5, <4>1, <4>2
    <3>3. UpTo(rows, n + 1) # {}
      BY <2>5
    <3> HIDE DEF rows, longer, Of, r
    <3>4. /\ [key |-> r.key, payments |-> longer].key = r.key
          /\ [key |-> r.key, payments |-> longer].payments = longer
      OBVIOUS
    <3> QED
      BY <3>1, <3>2, <3>3, <3>4 DEF Filled, rows, longer, Of
  <2>8. CASE known = {}
    <3> DEFINE new == [key |-> r.key, payments |-> <<r.payment>>]
    <3>1. more = Append(accounts, new)
      BY <2>8 DEF WithPayment
    <3>2. UpTo(Of(r.key), n) = {}
      <4> SUFFICES ASSUME NEW j \in UpTo(Of(r.key), n)
                   PROVE  FALSE
        OBVIOUS
      <4>1. j \in UpTo(DOMAIN read, n) /\ Entry(read, j).key = r.key
        BY DEF UpTo, Alike
      <4> HIDE DEF r
      <4>2. \E a \in DOMAIN accounts : accounts[a].key = r.key
        BY <4>1 DEF Collected
      <4> QED
        BY <2>8, <4>2
    <3>3. Count(Of(r.key), n) = 0
      BY <3>2, FS_EmptySet DEF Count
    <3>4. <<>> \in Seq(P) /\ Len(<<>>) = 0 /\ Append(<<>>, r.payment) = <<r.payment>>
      OBVIOUS
    <3>5. Filled(read, n + 1, new)
      <4> HIDE DEF r, P, Of
      <4>1. Filled(read, n + 1, [key |-> r.key, payments |-> Append(<<>>, r.payment)])
        BY <2>7, <3>2, <3>3, <3>4
      <4> QED
        BY <3>4, <4>1
    <3>6. new \in [key : K, payments : Seq(P)] /\ new.key = r.key
      BY <2>2
    <3> HIDE DEF new, r, K, P, Of
    <3>7. /\ more \in Seq([key : K, payments : Seq(P)])
          /\ DOMAIN more = DOMAIN accounts \cup {Len(accounts) + 1}
          /\ \A a \in DOMAIN accounts : more[a] = accounts[a] /\ a # Len(accounts) + 1
          /\ more[Len(accounts) + 1] = new
      BY <2>1, <3>1, <3>6
    <3>8. \A a \in DOMAIN accounts : accounts[a].key # r.key
      BY <2>8
    <3>9. \A a \in DOMAIN more : Filled(read, n + 1, more[a])
      BY <2>6, <3>5, <3>7, <3>8 DEF Collected
    <3>10. \A a, b \in DOMAIN more : more[a].key = more[b].key => a = b
      BY <3>6, <3>7, <3>8 DEF Collected
    <3>11. \A j \in UpTo(DOMAIN read, n + 1) : \E a \in DOMAIN more : more[a].key = Entry(read, j).key
      <4>1. \A j \in UpTo(DOMAIN read, n) : \E a \in DOMAIN more : more[a].key = Entry(read, j).key
        BY <3>7 DEF Collected
      <4>2. more[Len(accounts) + 1].key = Entry(read, n + 1).key
        BY <3>6, <3>7 DEF r
      <4> QED
        BY <2>4, <3>7, <4>1, <4>2
    <3>12. more \in Seq(Account(read))
      BY <3>7 DEF Account, K, P
    <3> QED
      BY <3>9, <3>10, <3>11, <3>12 DEF Collected, r
  <2>9. CASE known # {}
    <3> DEFINE a == The(known)
               longer == [accounts[a] EXCEPT !.payments = Append(@, r.payment)]
    <3>1. a \in DOMAIN accounts /\ accounts[a].key = r.key
      BY <2>9 DEF The
    <3>2. more = [accounts EXCEPT ![a] = longer]
      BY <2>9 DEF WithPayment
    <3> HIDE DEF a, known
    <3>3. /\ accounts[a] \in [key : K, payments : Seq(P)]
          /\ longer = [key |-> r.key, payments |-> Append(accounts[a].payments, r.payment)]
      <4> DEFINE T == [key : K, payments : Seq(P)]
                 x == accounts[a]
      <4>1. accounts \in Seq(T)
        BY <2>1
      <4> HIDE DEF K, P, r, T
      <4>2. x \in T
        BY <3>1, <4>1
      <4>3. x.key = r.key
        BY <3>1
      <4> HIDE DEF x
      <4>4. [x EXCEPT !.payments = Append(@, r.payment)]
                = [key |-> r.key, payments |-> Append(x.payments, r.payment)]
        <5> DEFINE q == Append(x.payments, r.payment)
        <5>1. x = [key |-> x.key, payments |-> x.payments]
          BY <4>2 DEF T
        <5> HIDE DEF q
        <5>2. [x EXCEPT !.payments = q] = [key |-> x.key, payments |-> q]
          BY <5>1
        <5> QED
          BY <4>3, <5>2 DEF q
      <4> QED
        BY <4>2, <4>4 DEF T, x
    <3>4. Filled(read, n, accounts[a])
      BY <3>1 DEF Collected
    <3>5. Filled(read, n + 1, longer)
      <4>1. accounts[a].payments \in Seq(P)
        BY <3>3
      <4>2. /\ Len(accounts[a].payments) = Count(Of(r.key), n)
            /\ \A j \in UpTo(Of(r.key), n) :
                  accounts[a].payments[Count(Of(r.key), j)] = Entry(read, j).payment
        BY <3>1, <3>4 DEF Filled
      <4> HIDE DEF r, P, Of, longer
      <4> QED
        BY <2>7, <3>3, <4>1, <4>2
    <3>6. longer \in [key : K, payments : Seq(P)] /\ longer.key = r.key
      <4> DEFINE paid == accounts[a].payments
      <4>1. paid \in Seq(P) /\ r.key \in K /\ r.payment \in P
        BY <2>2, <3>3
      <4> HIDE DEF K, P, r, paid
      <4>2. Append(paid, r.payment) \in Seq(P)
        BY <4>1
      <4>3. [key |-> r.key, payments |-> Append(paid, r.payment)] \in [key : K, payments : Seq(P)]
        BY <4>1, <4>2
      <4> QED
        BY <3>3, <4>3 DEF paid
    <3> HIDE DEF longer, r, K, P, Of
    <3>7. /\ more \in Seq([key : K, payments : Seq(P)])
          /\ DOMAIN more = DOMAIN accounts
          /\ \A b \in DOMAIN accounts : more[b] = IF b = a THEN longer ELSE accounts[b]
      BY <2>1, <3>1, <3>2, <3>6
    <3>8. \A b \in DOMAIN accounts : more[b].key = accounts[b].key
      BY <3>1, <3>6, <3>7
    <3>9. \A b \in DOMAIN more : Filled(read, n + 1, more[b])
      <4> SUFFICES ASSUME NEW b \in DOMAIN more, b # a
                   PROVE  Filled(read, n + 1, accounts[b])
        BY <3>5, <3>7
      <4>1. accounts[b].key # r.key
        BY <3>1, <3>7 DEF Collected
      <4> QED
        BY <2>6, <3>7, <4>1 DEF Collected
    <3>10. \A b, d \in DOMAIN more : more[b].key = more[d].key => b = d
      BY <3>7, <3>8 DEF Collected
    <3>11. \A j \in UpTo(DOMAIN read, n + 1) : \E b \in DOMAIN more : more[b].key = Entry(read, j).key
      <4>1. \A j \in UpTo(DOMAIN read, n) : \E b \in DOMAIN more : more[b].key = Entry(read, j).key
        BY <3>7, <3>8 DEF Collected
      <4>2. more[a].key = Entry(read, n + 1).key
        BY <3>1, <3>8 DEF r
      <4> QED
        BY <2>4, <3>1, <3>7, <4>1, <4>2
    <3>12. more \in Seq(Account(read))
      BY <3>7 DEF Account, K, P
    <3> QED
      BY <3>9, <3>10, <3>11, <3>12 DEF Collected, r
  <2> QED
    BY <2>8, <2>9
<1> QED
  BY <1>2, <1>3

\* An account with a payment more is an account.
LEMMA PaymentTyped ==
  ASSUME NEW K, NEW P, NEW accounts \in Seq([key : K, payments : Seq(P)]),
         NEW r, r.key \in K, r.payment \in P
  PROVE  WithPayment(accounts, r) \in Seq([key : K, payments : Seq(P)])
<1> DEFINE T == [key : K, payments : Seq(P)]
           known == {a \in DOMAIN accounts : accounts[a].key = r.key}
<1>1. CASE known = {}
  <2>1. WithPayment(accounts, r) = Append(accounts, [key |-> r.key, payments |-> <<r.payment>>])
    BY <1>1 DEF WithPayment
  <2>2. <<r.payment>> \in Seq(P)
    OBVIOUS
  <2>3. [key |-> r.key, payments |-> <<r.payment>>] \in T
    BY <2>2
  <2> HIDE DEF T
  <2> QED
    BY <2>1, <2>3 DEF T
<1>2. CASE known # {}
  <2> DEFINE a == The(known)
             x == accounts[a]
             q == Append(x.payments, r.payment)
  <2>1. a \in DOMAIN accounts
    BY <1>2 DEF The
  <2>2. WithPayment(accounts, r) = [accounts EXCEPT ![a].payments = q]
    BY <1>2 DEF WithPayment
  <2>9. accounts \in Seq(T)
    OBVIOUS
  <2> HIDE DEF a, T
  <2>3. x \in T
    BY <2>1, <2>9
  <2> HIDE DEF x
  <2>4. x = [key |-> x.key, payments |-> x.payments] /\ x.key \in K /\ q \in Seq(P)
    BY <2>3 DEF T
  <2> HIDE DEF q
  <2>5. [x EXCEPT !.payments = q] = [key |-> x.key, payments |-> q]
    BY <2>4
  <2>6. [x EXCEPT !.payments = q] \in T
    BY <2>4, <2>5 DEF T
  <2>7. WithPayment(accounts, r) = [accounts EXCEPT ![a] = [x EXCEPT !.payments = q]]
    BY <2>2 DEF x
  <2>8. accounts \in Seq(T)
    BY DEF T
  <2> QED
    BY <2>1, <2>6, <2>7, <2>8 DEF T
<1> QED
  BY <1>1, <1>2

\* The accounts after each row.
Steps(read, last, upTo) ==
    upTo = [n \in 0..last |->
               IF n = 0 THEN <<>>
               ELSE IF n \in DOMAIN read THEN WithPayment(upTo[n - 1], The(read[n]))
               ELSE upTo[n - 1]]

\* Collecting goes by such steps, and such steps exist.
LEMMA CollectingOpened ==
  ASSUME NEW read, NEW last
  PROVE  CollectAccounts(read, last) = (CHOOSE upTo : Steps(read, last, upTo))[last]
  BY DEF CollectAccounts, Steps

LEMMA StepsExist ==
  ASSUME NEW read, NEW last \in Nat
  PROVE  \E upTo : Steps(read, last, upTo)
<1> DEFINE K == {Entry(read, j).key : j \in DOMAIN read}
           P == {Entry(read, j).payment : j \in DOMAIN read}
           V == Seq([key : K, payments : Seq(P)])
           next == [n \in 1..last |-> [accounts \in V |->
                       IF n \in DOMAIN read THEN WithPayment(accounts, The(read[n])) ELSE accounts]]
<1>1. <<>> \in V
  OBVIOUS
<1>2. \A n \in DOMAIN read : \A accounts \in V : WithPayment(accounts, The(read[n])) \in V
  <2> SUFFICES ASSUME NEW n \in DOMAIN read, NEW accounts \in V
               PROVE  WithPayment(accounts, The(read[n])) \in V
    OBVIOUS
  <2> DEFINE r == The(read[n])
  <2>1. r.key \in K /\ r.payment \in P
    BY DEF Entry
  <2> HIDE DEF r, K, P
  <2>2. WithPayment(accounts, r) \in V
    BY <2>1, PaymentTyped
  <2> QED
    BY <2>2 DEF r
<1>3. next \in [1..last -> [V -> V]]
  <2> HIDE DEF V
  <2> QED
    BY <1>2
<1> HIDE DEF V, K, P, next
<1>4. Recursions(last, V, <<>>, next) # {}
  BY <1>1, <1>3, RecursionExists
<1>5. PICK f \in [0..last -> V] : f[0] = <<>> /\ \A n \in 1..last : f[n] = next[n][f[n - 1]]
  BY <1>4 DEF Recursions
<1>6. \A n \in 1..last :
          f[n] = IF n \in DOMAIN read THEN WithPayment(f[n - 1], The(read[n])) ELSE f[n - 1]
  <2> SUFFICES ASSUME NEW n \in 1..last
               PROVE  f[n] = IF n \in DOMAIN read THEN WithPayment(f[n - 1], The(read[n])) ELSE f[n - 1]
    OBVIOUS
  <2>1. f[n - 1] \in V
    BY <1>5
  <2>2. next[n][f[n - 1]] = IF n \in DOMAIN read THEN WithPayment(f[n - 1], The(read[n])) ELSE f[n - 1]
    BY <2>1 DEF next
  <2> QED
    BY <1>5, <2>2
<1>7. Steps(read, last, f)
  <2>1. f = [n \in 0..last |-> f[n]]
    BY <1>5
  <2>2. \A n \in 0..last : f[n] = IF n = 0 THEN <<>>
                                 ELSE IF n \in DOMAIN read THEN WithPayment(f[n - 1], The(read[n]))
                                 ELSE f[n - 1]
    <3>1. \A n \in 0..last : n = 0 \/ n \in 1..last
      OBVIOUS
    <3> QED
      BY <1>5, <1>6, <3>1
  <2> QED
    BY <2>1, <2>2 DEF Steps
<1> QED
  BY <1>7

\* In the end all rows are collected.
LEMMA AllCollected ==
  ASSUME NEW last \in Nat, NEW read, DOMAIN read \subseteq 1..last
  PROVE  Collected(read, last, CollectAccounts(read, last))
<1>1. PICK upTo : Steps(read, last, upTo) /\ CollectAccounts(read, last) = upTo[last]
  BY StepsExist, CollectingOpened
<1>2. IsFiniteSet(DOMAIN read) /\ DOMAIN read \subseteq Nat /\ 0 \notin DOMAIN read
  <2>1. IsFiniteSet(1..last)
    BY FS_Interval
  <2> QED
    BY <2>1, FS_Subset
<1>3. /\ upTo[0] = <<>>
      /\ \A n \in Nat : n + 1 \in 0..last =>
             upTo[n + 1] = IF n + 1 \in DOMAIN read THEN WithPayment(upTo[n], The(read[n + 1])) ELSE upTo[n]
  <2>1. \A n \in 0..last : upTo[n] = IF n = 0 THEN <<>>
                                    ELSE IF n \in DOMAIN read THEN WithPayment(upTo[n - 1], The(read[n]))
                                    ELSE upTo[n - 1]
    BY <1>1 DEF Steps
  <2>2. ASSUME NEW n \in Nat, n + 1 \in 0..last
        PROVE  upTo[n + 1] = IF n + 1 \in DOMAIN read THEN WithPayment(upTo[n], The(read[n + 1])) ELSE upTo[n]
    <3>1. (n + 1) - 1 = n /\ n + 1 # 0
      OBVIOUS
    <3> DEFINE m == n + 1
    <3>2. m \in 0..last /\ m - 1 = n /\ m # 0
      BY <2>2, <3>1
    <3> HIDE DEF m
    <3>3. upTo[m] = IF m \in DOMAIN read THEN WithPayment(upTo[n], The(read[m])) ELSE upTo[n]
      BY <2>1, <3>2
    <3> QED
      BY <3>3 DEF m
  <2>3. 0 \in 0..last
    OBVIOUS
  <2>4. upTo[0] = <<>>
    BY <2>1, <2>3
  <2> QED
    BY <2>2, <2>4
<1> DEFINE Good == {n \in Nat : n <= last => Collected(read, n, upTo[n])}
<1>4. 0 \in Good
  <2>1. UpTo(DOMAIN read, 0) = {}
    <3>1. \A j \in DOMAIN read : j \in Nat /\ j # 0 /\ ~(j <= 0)
      BY <1>2
    <3> QED
      BY <3>1 DEF UpTo
  <2>2. <<>> \in Seq(Account(read)) /\ DOMAIN <<>> = {}
    OBVIOUS
  <2>3. Collected(read, 0, <<>>)
    BY <2>1, <2>2 DEF Collected
  <2> QED
    BY <1>3, <2>3
<1>5. ASSUME NEW n \in Nat, n \in Good
      PROVE  n + 1 \in Good
  <2> SUFFICES ASSUME n + 1 <= last
               PROVE  Collected(read, n + 1, upTo[n + 1])
    OBVIOUS
  <2>1. n + 1 \in 0..last /\ n <= last
    OBVIOUS
  <2>2. Collected(read, n, upTo[n])
    BY <1>5, <2>1
  <2>3. /\ n + 1 \notin DOMAIN read => Collected(read, n + 1, upTo[n])
        /\ n + 1 \in DOMAIN read =>
               Collected(read, n + 1, WithPayment(upTo[n], Entry(read, n + 1)))
    BY <1>2, <2>2, OneMoreRow
  <2> QED
    BY <1>3, <2>1, <2>3 DEF Entry
<1> HIDE DEF Good
<1>6. last \in Good
  BY <1>4, <1>5, UpTheNumbers
<1> QED
  BY <1>1, <1>6 DEF Good

\* Rows are of one account if they name the same.
Source(rows, c, i) == At(rows[i], IF c.account # {} THEN c.account ELSE c.accountName)

\* Numbers renamed one to one are as many.
LEMMA CountRenamed ==
  ASSUME NEW S, IsFiniteSet(S), NEW name, \A x, y \in S : name[x] = name[y] => x = y
  PROVE  Cardinality({name[x] : x \in S}) = Cardinality(S)
<1> DEFINE image == {name[x] : x \in S}
           f == [x \in S |-> name[x]]
<1>1. ExistsBijection(S, image)
  <2>1. f \in [S -> image]
    OBVIOUS
  <2>2. \A x, y \in S : f[x] = f[y] => x = y
    OBVIOUS
  <2>3. \A n \in image : \E x \in S : f[x] = n
    OBVIOUS
  <2> HIDE DEF f, image
  <2>4. f \in Bijection(S, image)
    BY <2>1, <2>2, <2>3 DEF Bijection, Injection, IsInjective, Surjection
  <2> QED
    BY <2>4 DEF ExistsBijection
<1> HIDE DEF f, image
<1>2. Cardinality(image) = Cardinality(S)
  BY <1>1, FS_Bijection
<1> QED
  BY <1>2 DEF image

\* What RowsAreKept says of accounts.
KeptIn(rows, header, c, accounts) ==
    LET body == Body(rows, header)
        Of(i) == {j \in body : Source(rows, c, j) = Source(rows, c, i)}
        Place(i) == Cardinality({j \in Of(i) : j <= i})
    IN  /\ Len(accounts) = Cardinality({Source(rows, c, i) : i \in body})
        /\ \A i \in body : \E a \in DOMAIN accounts :
              LET payments == accounts[a].payments
              IN  /\ Len(payments) = Cardinality(Of(i))
                  /\ \A j \in Of(i) : payments[Place(j)] \in Readings(rows[j], c)

\* The rows that are read, and what is read of them.
ReadOf(rows, header, c, decimal, order, kind) ==
    [i \in Body(rows, header) |->
        {[key |-> k, payment |-> p] :
            k \in AccountKey(rows[i], c),
            p \in {q \in TableRow(rows[i], c, decimal, order) :
                      WidthFits(rows[i], rows[header], c, kind)}}]

\* Accounts are made of rows that can all be read.
LEMMA ParsedAccounts ==
  ASSUME NEW rows, NEW header, NEW c, NEW decimal, NEW order, NEW kind,
         ParseAccounts(rows, header, c, decimal, order, kind) # {}
  PROVE  /\ AllRead(ReadOf(rows, header, c, decimal, order, kind))
         /\ ParseAccounts(rows, header, c, decimal, order, kind)
                = {CollectAccounts(ReadOf(rows, header, c, decimal, order, kind), Len(rows))}
  BY DEF ParseAccounts, ReadOf

\* Accounts that are made of the rows keep them.
LEMMA ParsedAreKept ==
  ASSUME NEW rows, Len(rows) \in Nat, DOMAIN rows = 1..Len(rows), NEW header, NEW c,
         NEW decimal \in {"comma", "dot"}, NEW order \in {"dmy", "mdy"}, NEW kind,
         ParseAccounts(rows, header, c, decimal, order, kind) # {}
  PROVE  KeptIn(rows, header, c, The(ParseAccounts(rows, header, c, decimal, order, kind)))
<1> DEFINE read == ReadOf(rows, header, c, decimal, order, kind)
           last == Len(rows)
           body == Body(rows, header)
           accounts == CollectAccounts(read, last)
<1>1. AllRead(read) /\ The(ParseAccounts(rows, header, c, decimal, order, kind)) = accounts
  BY ParsedAccounts DEF The
<1>2. last \in Nat /\ DOMAIN read = body /\ body \subseteq 1..last
  BY DEF Body, ReadOf
<1>3. ASSUME NEW i \in body
      PROVE  /\ Entry(read, i).key \in AccountKey(rows[i], c)
             /\ Entry(read, i).payment \in Readings(rows[i], c)
  <2>1. read[i] # {}
    BY <1>1, <1>2 DEF AllRead
  <2>2. Entry(read, i) \in read[i]
    BY <2>1 DEF Entry, The
  <2>3. PICK k \in AccountKey(rows[i], c), p \in TableRow(rows[i], c, decimal, order) :
          Entry(read, i) = [key |-> k, payment |-> p]
    <3>1. read[i] = {[key |-> k, payment |-> p] :
                        k \in AccountKey(rows[i], c),
                        p \in {q \in TableRow(rows[i], c, decimal, order) :
                                  WidthFits(rows[i], rows[header], c, kind)}}
      BY DEF ReadOf
    <3> DEFINE keys == AccountKey(rows[i], c)
               payments == TableRow(rows[i], c, decimal, order)
               fitting == {q \in payments : WidthFits(rows[i], rows[header], c, kind)}
    <3> HIDE DEF read
    <3>2. PICK k \in keys, p \in fitting : Entry(read, i) = [key |-> k, payment |-> p]
      <4> HIDE DEF keys, payments, fitting
      <4>1. read[i] = {[key |-> k, payment |-> p] : k \in keys, p \in fitting}
        BY <3>1 DEF keys, payments, fitting
      <4> QED
        BY <2>2, <4>1
    <3> QED
      BY <3>2
  <2>4. p \in Readings(rows[i], c)
    BY <2>3 DEF Readings
  <2> QED
    BY <2>3, <2>4
<1> HIDE DEF read, last
<1>4. Collected(read, last, accounts)
  BY <1>2, AllCollected
<1> HIDE DEF body, accounts
<1>5. \A i, k \in body : Entry(read, i).key = Entry(read, k).key <=> Source(rows, c, i) = Source(rows, c, k)
  <2> SUFFICES ASSUME NEW i \in body, NEW k \in body
               PROVE  Entry(read, i).key = Entry(read, k).key <=> Source(rows, c, i) = Source(rows, c, k)
    OBVIOUS
  <2>1. Entry(read, i).key \in AccountKey(rows[i], c) /\ Entry(read, k).key \in AccountKey(rows[k], c)
    BY <1>3
  <2> DEFINE key == Entry(read, i).key
             other == Entry(read, k).key
  <2> HIDE DEF key, other
  <2>2. key \in AccountKey(rows[i], c) /\ other \in AccountKey(rows[k], c)
    BY <2>1 DEF key, other
  <2>3. CASE c.account \cup c.accountName = {}
    <3>1. key = None /\ other = None
      BY <2>2, <2>3 DEF AccountKey
    <3>2. Source(rows, c, i) = Blank /\ Source(rows, c, k) = Blank
      BY <2>3 DEF Source, At
    <3> QED
      BY <3>1, <3>2 DEF key, other
  <2>4. CASE c.account \cup c.accountName # {}
    <3>1. key = Source(rows, c, i)
      BY <2>2, <2>4 DEF AccountKey, NumberOf, Source
    <3>2. other = Source(rows, c, k)
      BY <2>2, <2>4 DEF AccountKey, NumberOf, Source
    <3> QED
      BY <3>1, <3>2 DEF key, other
  <2> QED
    BY <2>3, <2>4
<1> DEFINE Of(i) == {j \in body : Source(rows, c, j) = Source(rows, c, i)}
           Place(i) == Cardinality({j \in Of(i) : j <= i})
<1>6. ASSUME NEW i \in body
      PROVE  /\ Of(i) = Alike(read, Entry(read, i).key)
             /\ UpTo(Of(i), last) = Of(i)
             /\ Count(Of(i), last) = Cardinality(Of(i))
             /\ \A j \in Of(i) : Place(j) = Count(Of(i), j)
  <2>1. Of(i) = Alike(read, Entry(read, i).key)
    BY <1>2, <1>5 DEF Alike
  <2>2. \A j \in Of(i) : j <= last
    BY <1>2
  <2>3. UpTo(Of(i), last) = Of(i)
    <3> HIDE DEF Of
    <3> QED
      BY <2>2 DEF UpTo
  <2>4. ASSUME NEW j \in Of(i)
        PROVE  Of(j) = Of(i)
    OBVIOUS
  <2> HIDE DEF Of
  <2> QED
    BY <2>1, <2>3, <2>4 DEF Count, UpTo
<1>7. \A i \in body : UpTo(body, last) = body
  <2>1. \A i \in body : i <= last
    BY <1>2
  <2> QED
    BY <2>1 DEF UpTo
<1>8. ASSUME NEW i \in body
      PROVE  \E a \in DOMAIN accounts :
                 /\ Len(accounts[a].payments) = Cardinality(Of(i))
                 /\ \A j \in Of(i) : accounts[a].payments[Place(j)] \in Readings(rows[j], c)
  <2>1. PICK a \in DOMAIN accounts : accounts[a].key = Entry(read, i).key
    BY <1>2, <1>4, <1>7 DEF Collected
  <2>2. Filled(read, last, accounts[a])
    BY <1>4 DEF Collected
  <2>3. /\ Len(accounts[a].payments) = Count(Of(i), last)
        /\ \A j \in UpTo(Of(i), last) : accounts[a].payments[Count(Of(i), j)] = Entry(read, j).payment
    BY <1>6, <2>1, <2>2 DEF Filled
  <2>4. \A j \in Of(i) : j \in body
    OBVIOUS
  <2> HIDE DEF Of, Place
  <2> QED
    BY <1>3, <1>6, <2>3, <2>4
<1>9. Len(accounts) = Cardinality({Source(rows, c, i) : i \in body})
  <2> DEFINE L == Len(accounts)
             S == 1..L
             some == [a \in S |-> CHOOSE j \in body : Entry(read, j).key = accounts[a].key]
             src == [a \in S |-> Source(rows, c, some[a])]
  <2>1. L \in Nat /\ DOMAIN accounts = S
    <3>1. accounts \in Seq(Account(read))
      BY <1>4 DEF Collected
    <3> QED
      BY <3>1
  <2>2. IsFiniteSet(S) /\ Cardinality(S) = L
    <3> HIDE DEF L
    <3>1. L \in Int /\ 1 \in Int /\ L >= 0
      BY <2>1
    <3> QED
      BY <3>1, FS_Interval
  <2>3. ASSUME NEW a \in S
        PROVE  some[a] \in body /\ Entry(read, some[a]).key = accounts[a].key
    <3>1. Filled(read, last, accounts[a])
      BY <1>4, <2>1 DEF Collected
    <3>2. PICK j \in Alike(read, accounts[a].key) : TRUE
      BY <3>1 DEF Filled, UpTo
    <3>3. j \in body /\ Entry(read, j).key = accounts[a].key
      BY <1>2, <3>2 DEF Alike
    <3> QED
      BY <3>3
  <2> HIDE DEF some, L
  <2>4. \A a, b \in S : src[a] = src[b] => a = b
    <3> SUFFICES ASSUME NEW a \in S, NEW b \in S, src[a] = src[b]
                 PROVE  a = b
      OBVIOUS
    <3>1. accounts[a].key = accounts[b].key
      BY <1>5, <2>3
    <3> QED
      BY <1>4, <2>1, <3>1 DEF Collected
  <2>5. {src[a] : a \in S} = {Source(rows, c, i) : i \in body}
    <3>1. \A a \in S : \E i \in body : src[a] = Source(rows, c, i)
      BY <2>3
    <3>2. ASSUME NEW i \in body
          PROVE  \E a \in S : src[a] = Source(rows, c, i)
      <4>1. PICK a \in S : accounts[a].key = Entry(read, i).key
        BY <1>2, <1>4, <1>7, <2>1 DEF Collected
      <4>2. Source(rows, c, some[a]) = Source(rows, c, i)
        BY <1>5, <2>3, <4>1
      <4> QED
        BY <4>2
    <3> HIDE DEF src
    <3> QED
      BY <3>1, <3>2
  <2> HIDE DEF S, src
  <2>6. Cardinality({src[a] : a \in S}) = Cardinality(S)
    BY <2>2, <2>4, CountRenamed
  <2> QED
    BY <2>2, <2>5, <2>6 DEF L
<1> QED
  BY <1>1, <1>8, <1>9 DEF KeptIn, body

-----------------------------------------------------------------------------
(***************************************************************************)
(* Statements (StatementTables).                                           *)
(***************************************************************************)
\* No text is one amount with decimal commas and another with decimal dots: the
\* mark before the last group is followed by at most two digits if it is the
\* decimal mark, and by three if it is not (parseTableMoney).
LEMMA OneAmount ==
    ASSUME NEW cell, Money(cell, "comma") # {}, Money(cell, "dot") # {}
    PROVE  Money(cell, "comma") = Money(cell, "dot")
<1>1. CASE cell.is = "number"
  BY <1>1 DEF Money
<1>2. CASE cell.is # "number"
  <2> DEFINE n == Len(cell.groups)
  <2>1. cell \in AmountText
    BY <1>2 DEF Money
  <2>2. /\ n \in Nat /\ DOMAIN cell.marks = 1..(n - 1) /\ n >= 1
        /\ cell.groups \in Seq(Group) /\ DOMAIN cell.groups = 1..n
    BY <2>1 DEF AmountText
  <2>3. ASSUME NEW d \in {"comma", "dot"}, NEW e \in {"comma", "dot"}, d # e,
               Money(cell, d) # {}, Money(cell, e) # {}, DecimalAt(cell, d) # {}
        PROVE  FALSE
    <3>1. DecimalAt(cell, d) = {n - 1} /\ cell.groups[n].length \in 1..2
      BY <1>2, <2>1, <2>3 DEF Money
    <3>2. DecimalAt(cell, e) \subseteq {n - 1}
      BY <1>2, <2>1, <2>3 DEF Money
    <3>3. n - 1 \in DOMAIN cell.marks /\ cell.marks[n - 1] = d
      BY <3>1 DEF DecimalAt
    <3>4. DecimalAt(cell, e) = {}
      BY <3>2, <3>3, <2>3 DEF DecimalAt
    <3>5. ThousandsGroups(cell.groups)
      BY <3>4, <1>2, <2>1, <2>3 DEF Money
    <3>6. n > 1
      BY <3>3, <2>2
    <3>7. cell.groups[n].length = 3
      BY <3>5, <3>6, <2>2 DEF ThousandsGroups
    <3> QED  BY <3>1, <3>7
  <2>4. DecimalAt(cell, "comma") = {} /\ DecimalAt(cell, "dot") = {}
    BY <2>3
  <2> QED  BY <2>4, <1>2, <2>1 DEF Money
<1> QED  BY <1>1, <1>2

\* The same of a line, with its two columns and its marker (tableAmount).
LEMMA OneMovement ==
    ASSUME NEW line, NEW c, TableAmount(line, c, "comma") # {}, TableAmount(line, c, "dot") # {}
    PROVE  TableAmount(line, c, "comma") = TableAmount(line, c, "dot")
<1> DEFINE written(d) == IF c.amount # {} THEN {Moved(m) : m \in Money(At(line, c.amount), d)}
                         ELSE Split(At(line, c.debit), At(line, c.credit), d)
<1>1. written("comma") # {} /\ written("dot") # {}
  BY DEF TableAmount
<1>2. written("comma") = written("dot")
  <2>1. CASE c.amount # {}
    <3>1. Money(At(line, c.amount), "comma") # {} /\ Money(At(line, c.amount), "dot") # {}
      BY <1>1, <2>1
    <3>2. Money(At(line, c.amount), "comma") = Money(At(line, c.amount), "dot")
      BY <3>1, OneAmount
    <3> QED  BY <3>2, <2>1
  <2>2. CASE c.amount = {}
    <3> DEFINE debit == At(line, c.debit)
               credit == At(line, c.credit)
               read(cell, d) == IF cell = Blank THEN {0} ELSE Money(cell, d)
    <3>1. Split(debit, credit, "comma") # {} /\ Split(debit, credit, "dot") # {}
      BY <1>1, <2>2
    <3>2. \A d \in {"comma", "dot"} : read(debit, d) # {} /\ read(credit, d) # {}
      BY <3>1 DEF Split
    <3>3. read(debit, "comma") = read(debit, "dot") /\ read(credit, "comma") = read(credit, "dot")
      BY <3>2, OneAmount
    <3>4. Split(debit, credit, "comma") = Split(debit, credit, "dot")
      BY <3>3 DEF Split
    <3> QED  BY <3>4, <2>2
  <2> QED  BY <2>1, <2>2
<1> QED  BY <1>2 DEF TableAmount

\* The same of all rows.
LEMMA OneSeries ==
    ASSUME NEW rows, NEW body, NEW c,
           AllRead(Amounts(rows, body, c)["comma"]), AllRead(Amounts(rows, body, c)["dot"])
    PROVE  Amounts(rows, body, c)["comma"] = Amounts(rows, body, c)["dot"]
BY OneMovement DEF AllRead, Amounts

\* The result is what the file and the options give, as long as it stands.
ReadOnce == result = Unread \/ result = Read(file, asked)

LEMMA ReadOnceHolds == TablesSpec => []ReadOnce
<1>1. TablesInit => ReadOnce
  BY DEF TablesInit, ReadOnce
<1>2. ReadOnce /\ [TablesNext]_tableVars => ReadOnce'
  BY DEF ReadOnce, TablesNext, WriteRow, ExtractStatement, tableVars
<1> QED  BY <1>1, <1>2, PTL DEF TablesSpec

AskedOnce == asked \in Asked

LEMMA AskedOnceHolds == TablesSpec => []AskedOnce
<1>1. TablesInit => AskedOnce
  BY DEF TablesInit, AskedOnce
<1>2. AskedOnce /\ [TablesNext]_tableVars => AskedOnce'
  BY DEF AskedOnce, TablesNext, WriteRow, ExtractStatement, tableVars
<1> QED  BY <1>1, <1>2, PTL DEF TablesSpec

\* No upload ends with the question which decimal mark the file uses.
THEOREM NumbersAlwaysSpeak == TablesSpec => []NumbersSpeak
<1>1. ASSUME NEW rows, NEW o, NEW kind, o.decimal \in {"auto", "comma", "dot"}
      PROVE  DetectTable(rows, o, kind).outcome # "numberFormat"
  <2> DEFINE c == FindColumns(rows[Min(HeaderRows(rows, o))], o)
             body == Body(rows, Min(HeaderRows(rows, o)))
  <2>1. Detected(o.decimal, "comma", "dot", Amounts(rows, body, c)) # "ambiguous"
    BY <1>1, OneSeries DEF Detected, Same
  <2> HIDE DEF c, body
  <2> QED  BY <2>1 DEF DetectTable, Refused, c, body
<1>2. ReadOnce /\ AskedOnce => NumbersSpeak
  BY <1>1, FormOptions DEF ReadOnce, AskedOnce, NumbersSpeak, Read, Refused, Unread
<1> QED  BY <1>2, ReadOnceHolds, AskedOnceHolds, PTL

-----------------------------------------------------------------------------
\* Options that differ only in what was left to the program look for the same
\* headings.
LEMMA SameSearch ==
    ASSUME NEW o, NEW p, o.header = p.header, o.names = p.names, NEW rows
    PROVE  /\ HeaderRows(rows, o) = HeaderRows(rows, p)
           /\ \A line : FindColumns(line, o) = FindColumns(line, p)
<1>1. \A role : Named(o, role) <=> Named(p, role)
  BY DEF Named
<1>2. \A line, role : Matching(line, o, role) = Matching(line, p, role)
  BY <1>1 DEF Matching
<1>3. \A line : FindColumns(line, o) = FindColumns(line, p)
  BY <1>1, <1>2 DEF FindColumns, Sought
<1>4. \A c : Fits(c, o) <=> Fits(c, p)
  BY DEF Fits
<1> QED  BY <1>3, <1>4 DEF HeaderRows, SearchedRows

\* A table that a choice by hand can read is the one that is found without.
LEMMA SameTable ==
    ASSUME NEW f, NEW o, NEW p, o.header = p.header, o.names = p.names,
           o.table # 0 => p.table = o.table,
           NEW t \in Candidates(f, o), Candidates(f, o) = {t},
           NEW k \in Candidates(f, p), Candidates(f, p) = {k},
           HeaderRows(f.tables[k].rows, p) # {}
    PROVE  k = t
<1> DEFINE chosen(q) == IF q.table = 0 THEN DOMAIN f.tables ELSE {q.table} \cap DOMAIN f.tables
<1>1. chosen(p) \subseteq chosen(o)
  OBVIOUS
<1>2. k \in chosen(o)
  BY <1>1 DEF Candidates
<1>3. HeaderRows(f.tables[k].rows, o) # {}
  BY SameSearch
<1>4. CASE f.kind = "csv"
  <2>1. ~f.tables[k].broken
    BY <1>4 DEF Candidates
  <2>2. k \in Candidates(f, o)
    BY <1>2, <1>3, <1>4, <2>1 DEF Candidates
  <2> QED  BY <2>2
<1>5. CASE f.kind # "csv"
  <2>1. ~\E i \in chosen(o) : f.tables[i].broken
    BY <1>5 DEF Candidates
  <2>2. k \in Candidates(f, o)
    BY <1>2, <1>3, <1>5, <2>1 DEF Candidates
  <2> QED  BY <2>2
<1> QED  BY <1>4, <1>5

\* A format under which all rows can be read reads them as the detected one does.
LEMMA DetectedReadsTheSame ==
    ASSUME NEW wanted, NEW first, NEW second, NEW values, NEW by \in {first, second},
           wanted # "auto" => by = wanted, AllRead(values[by]),
           Detected(wanted, first, second, values) \notin {"ambiguous", "none"}
    PROVE  values[Detected(wanted, first, second, values)] = values[by]
BY DEF Detected, Same

\* What is read of the rows depends on the formats only through their amounts and
\* dates.
LEMMA SameRows ==
    ASSUME NEW rows, NEW header, NEW c, NEW kind,
           NEW d \in {"comma", "dot"}, NEW e \in {"comma", "dot"},
           NEW x \in {"dmy", "mdy"}, NEW y \in {"dmy", "mdy"},
           Amounts(rows, Body(rows, header), c)[d] = Amounts(rows, Body(rows, header), c)[e],
           Dates(rows, Body(rows, header), c)[x] = Dates(rows, Body(rows, header), c)[y]
    PROVE  ParseAccounts(rows, header, c, d, x, kind) = ParseAccounts(rows, header, c, e, y, kind)
<1> DEFINE body == Body(rows, header)
           read(m, n) == ReadOf(rows, header, c, m, n, kind)
<1> HIDE DEF body
<1>1. \A i \in body : /\ TableAmount(rows[i], c, d) = TableAmount(rows[i], c, e)
                      /\ TableDate(At(rows[i], c.date), x) = TableDate(At(rows[i], c.date), y)
  <2> SUFFICES ASSUME NEW i \in body
               PROVE  /\ TableAmount(rows[i], c, d) = TableAmount(rows[i], c, e)
                      /\ TableDate(At(rows[i], c.date), x) = TableDate(At(rows[i], c.date), y)
    OBVIOUS
  <2>1. Amounts(rows, body, c)[d][i] = Amounts(rows, body, c)[e][i] /\ Dates(rows, body, c)[x][i] = Dates(rows, body, c)[y][i]
    BY DEF body
  <2> QED  BY <2>1 DEF Amounts, Dates
<1>2. \A i \in body : TableRow(rows[i], c, d, x) = TableRow(rows[i], c, e, y)
  BY <1>1 DEF TableRow
<1>3. read(d, x) = read(e, y)
  BY <1>2 DEF ReadOf, body
<1>4. \A m, n : ParseAccounts(rows, header, c, m, n, kind) =
                   IF Cardinality(DOMAIN read(m, n)) \in 1..MaxPayments /\ AllRead(read(m, n))
                   THEN {CollectAccounts(read(m, n), Len(rows))} ELSE {}
  BY DEF ParseAccounts, ReadOf
<1> QED  BY <1>3, <1>4

\* Rows that are read have amounts and dates.
LEMMA ReadRows ==
    ASSUME NEW rows, NEW header, NEW c, NEW kind,
           NEW d \in {"comma", "dot"}, NEW x \in {"dmy", "mdy"},
           ParseAccounts(rows, header, c, d, x, kind) # {}
    PROVE  /\ AllRead(Amounts(rows, Body(rows, header), c)[d])
           /\ AllRead(Dates(rows, Body(rows, header), c)[x])
<1> DEFINE read == ReadOf(rows, header, c, d, x, kind)
           body == Body(rows, header)
<1>1. AllRead(read) /\ DOMAIN read = body
  BY ParsedAccounts DEF ReadOf
<1>2. \A i \in body : TableRow(rows[i], c, d, x) # {}
  <2> SUFFICES ASSUME NEW i \in body, TableRow(rows[i], c, d, x) = {}
               PROVE  FALSE
    OBVIOUS
  <2>1. read[i] = {}
    BY DEF ReadOf
  <2> QED  BY <1>1, <2>1 DEF AllRead
<1> HIDE DEF body
<1>3. \A i \in body : TableAmount(rows[i], c, d) # {} /\ TableDate(At(rows[i], c.date), x) # {}
  BY <1>2 DEF TableRow
<1> QED  BY <1>3 DEF AllRead, Amounts, Dates, body

\* What an accepted table is read by.
LEMMA AcceptedTable ==
    ASSUME NEW rows, NEW o, NEW kind, Accepted(DetectTable(rows, o, kind)),
           o.decimal \in {"auto", "comma", "dot"}, o.dateOrder \in {"auto", "dmy", "mdy"}
    PROVE  LET r == DetectTable(rows, o, kind)
               header == Min(HeaderRows(rows, o))
               c == FindColumns(rows[header], o)
               decimal == Detected(o.decimal, "comma", "dot", Amounts(rows, Body(rows, header), c))
               order == Detected(o.dateOrder, "dmy", "mdy", Dates(rows, Body(rows, header), c))
               read == ParseAccounts(rows, header, c, decimal, order, kind)
           IN  /\ decimal \in {"comma", "dot"} /\ order \in {"dmy", "mdy"}
               /\ read # {} /\ r.accounts = The(read)
               /\ r.rows = rows /\ r.header = header /\ r.columns = c
<1> DEFINE header == Min(HeaderRows(rows, o))
           c == FindColumns(rows[header], o)
           body == Body(rows, header)
           decimal == Detected(o.decimal, "comma", "dot", Amounts(rows, body, c))
           order == Detected(o.dateOrder, "dmy", "mdy", Dates(rows, body, c))
           read == ParseAccounts(rows, header, c, decimal, order, kind)
<1>1. /\ decimal \in {"comma", "dot", "ambiguous", "none"}
      /\ order \in {"dmy", "mdy", "ambiguous", "none"}
  <2> HIDE DEF body, c, header
  <2> QED  BY DEF Detected
<1> HIDE DEF read, decimal, order, c, body, header
<1>2. DetectTable(rows, o, kind) =
          IF HeaderRows(rows, o) = {} THEN Refused("mapping")
          ELSE IF decimal = "ambiguous" THEN Refused("numberFormat")
          ELSE IF decimal = "none" THEN Refused("amount")
          ELSE IF order = "ambiguous" THEN Refused("dateOrder")
          ELSE IF order = "none" THEN Refused("date")
          ELSE IF read = {} THEN Refused("row")
          ELSE [outcome |-> "accepted", accounts |-> The(read), header |-> header,
                rows |-> rows, columns |-> c]
  BY DEF DetectTable, read, decimal, order, c, body, header
<1>3. /\ decimal \notin {"ambiguous", "none"} /\ order \notin {"ambiguous", "none"} /\ read # {}
      /\ DetectTable(rows, o, kind) = [outcome |-> "accepted", accounts |-> The(read),
                                      header |-> header, rows |-> rows, columns |-> c]
  BY <1>2 DEF Accepted, Refused
<1>4. /\ decimal \in {"comma", "dot"} /\ order \in {"dmy", "mdy"} /\ read # {}
      /\ DetectTable(rows, o, kind).accounts = The(read)
      /\ DetectTable(rows, o, kind).rows = rows
      /\ DetectTable(rows, o, kind).header = header
      /\ DetectTable(rows, o, kind).columns = c
  BY <1>1, <1>3
<1> QED  BY <1>4 DEF read, decimal, order, c, body, header

\* Any choice by hand that reads a table gives what is read without.
LEMMA SameAccounts ==
    ASSUME NEW rows, NEW o, NEW p, NEW kind, o.header = p.header, o.names = p.names,
           p.decimal \in {"comma", "dot"}, p.dateOrder \in {"dmy", "mdy"},
           o.decimal \in {"auto", "comma", "dot"}, o.dateOrder \in {"auto", "dmy", "mdy"},
           o.decimal # "auto" => p.decimal = o.decimal,
           o.dateOrder # "auto" => p.dateOrder = o.dateOrder,
           Accepted(DetectTable(rows, o, kind)), Accepted(DetectTable(rows, p, kind))
    PROVE  DetectTable(rows, o, kind).accounts = DetectTable(rows, p, kind).accounts
<1> DEFINE header(q) == Min(HeaderRows(rows, q))
           c(q) == FindColumns(rows[header(q)], q)
           body(q) == Body(rows, header(q))
           decimal(q) == Detected(q.decimal, "comma", "dot", Amounts(rows, body(q), c(q)))
           order(q) == Detected(q.dateOrder, "dmy", "mdy", Dates(rows, body(q), c(q)))
           read(q) == ParseAccounts(rows, header(q), c(q), decimal(q), order(q), kind)
<1>1. header(o) = header(p) /\ c(o) = c(p) /\ body(o) = body(p)
  BY SameSearch
<1>2. /\ decimal(o) \in {"comma", "dot"} /\ order(o) \in {"dmy", "mdy"}
      /\ DetectTable(rows, o, kind).accounts = The(read(o))
  BY AcceptedTable
<1>3. decimal(p) = p.decimal /\ order(p) = p.dateOrder
  BY DEF Detected
<1>4. read(p) # {} /\ DetectTable(rows, p, kind).accounts = The(read(p))
  BY AcceptedTable
<1>5. /\ AllRead(Amounts(rows, body(p), c(p))[p.decimal])
      /\ AllRead(Dates(rows, body(p), c(p))[p.dateOrder])
  <2> HIDE DEF header, c, decimal, order
  <2> QED  BY <1>3, <1>4, ReadRows
<1> HIDE DEF header, c
<1>6. /\ Amounts(rows, body(o), c(o))[decimal(o)] = Amounts(rows, body(o), c(o))[p.decimal]
      /\ Dates(rows, body(o), c(o))[order(o)] = Dates(rows, body(o), c(o))[p.dateOrder]
  <2> HIDE DEF body
  <2> QED  BY <1>1, <1>2, <1>5, DetectedReadsTheSame
<1> HIDE DEF decimal, order
<1>7. read(o) = read(p)
  BY <1>1, <1>2, <1>3, <1>6, SameRows
<1> QED  BY <1>2, <1>4, <1>7

\* For every file and all options: what is read without a choice by hand is what
\* every such choice reads, if it reads anything.
THEOREM NothingIsGuessed == TablesSpec => []NothingGuessed
<1>1. ASSUME NEW f, NEW o \in Asked, NEW p \in ByHand(f, o),
             Accepted(Read(f, o)), Accepted(Read(f, p))
      PROVE  Read(f, p).accounts = Read(f, o).accounts
  <2>1. /\ o.header = p.header /\ o.names = p.names
        /\ p.decimal \in {"comma", "dot"} /\ p.dateOrder \in {"dmy", "mdy"}
        /\ o.table # 0 => p.table = o.table
        /\ o.decimal # "auto" => p.decimal = o.decimal
        /\ o.dateOrder # "auto" => p.dateOrder = o.dateOrder
    BY DEF ByHand
  <2>2. PICK t \in Candidates(f, o) : Candidates(f, o) = {t}
    BY <1>1 DEF Read, Accepted, Refused
  <2>3. PICK k \in Candidates(f, p) : Candidates(f, p) = {k}
    BY <1>1 DEF Read, Accepted, Refused
  <2>4. /\ Read(f, o) = DetectTable(f.tables[t].rows, o, f.kind)
        /\ Read(f, p) = DetectTable(f.tables[k].rows, p, f.kind)
    BY <2>2, <2>3 DEF Read, The
  <2>5. HeaderRows(f.tables[k].rows, p) # {}
    <3> DEFINE rows == f.tables[k].rows
               kind == f.kind
    <3> HIDE DEF rows, kind
    <3>1. Accepted(DetectTable(rows, p, kind))
      BY <1>1, <2>4 DEF rows, kind
    <3>2. HeaderRows(rows, p) = {} => DetectTable(rows, p, kind) = Refused("mapping")
      BY DEF DetectTable
    <3> QED  BY <3>1, <3>2 DEF Accepted, Refused, rows
  <2>6. k = t
    BY <2>1, <2>2, <2>3, <2>5, SameTable
  <2> QED  BY <1>1, <2>1, <2>4, <2>6, SameAccounts, FormOptions
<1>2. ReadOnce /\ AskedOnce => NothingGuessed
  BY <1>1 DEF ReadOnce, AskedOnce, NothingGuessed, Accepted, Unread, Refused
<1> QED  BY <1>2, ReadOnceHolds, AskedOnceHolds, PTL

-----------------------------------------------------------------------------
\* Rows have numbers.
Numbered(rows) == Len(rows) \in Nat /\ DOMAIN rows = 1..Len(rows)

FileIsTables ==
    /\ DOMAIN file = {"kind", "tables"}
    /\ \A t \in DOMAIN file.tables :
          /\ DOMAIN file.tables[t] = {"broken", "rows"}
          /\ \E S : file.tables[t].rows \in Seq(S)

\* A bank that writes a row keeps the tables tables.
LEMMA FileStaysTables == TablesSpec => []FileIsTables
<1>1. TablesInit => FileIsTables
  BY FilesAreTables DEF TablesInit, FileIsTables
<1>2. FileIsTables /\ [TablesNext]_tableVars => FileIsTables'
  <2> SUFFICES ASSUME FileIsTables, [TablesNext]_tableVars
               PROVE  FileIsTables'
    OBVIOUS
  <2>1. CASE WriteRow
    <3>1. PICK line : file' = [file EXCEPT !.tables[1].rows = Append(@, line)]
      BY <2>1 DEF WriteRow
    <3> DEFINE tables == file.tables
               written == [tables EXCEPT ![1].rows = Append(@, line)]
    <3>2. DOMAIN file' = DOMAIN file /\ file'.tables = written
      BY <3>1 DEF FileIsTables
    <3>3. DOMAIN written = DOMAIN tables
      OBVIOUS
    <3>4. ASSUME NEW t \in DOMAIN tables
          PROVE  DOMAIN written[t] = {"broken", "rows"} /\ \E S : written[t].rows \in Seq(S)
      <4>1. PICK S : tables[t].rows \in Seq(S)
        BY DEF FileIsTables
      <4>2. CASE t = 1
        <5>1. written[t] = [tables[t] EXCEPT !.rows = Append(@, line)]
          BY <4>2
        <5>2. DOMAIN written[t] = {"broken", "rows"} /\ written[t].rows = Append(tables[t].rows, line)
          BY <5>1 DEF FileIsTables
        <5>3. tables[t].rows \in Seq(S \cup {line})
          BY <4>1
        <5>4. Append(tables[t].rows, line) \in Seq(S \cup {line})
          <6> DEFINE r == tables[t].rows
                     T == S \cup {line}
          <6>1. line \in T /\ r \in Seq(T)
            BY <5>3
          <6> HIDE DEF r, T
          <6>2. Append(r, line) \in Seq(T)
            BY <6>1
          <6> QED  BY <6>2 DEF r, T
        <5> QED  BY <5>2, <5>4
      <4>3. CASE t # 1
        BY <4>1, <4>3 DEF FileIsTables
      <4> QED  BY <4>2, <4>3
    <3> HIDE DEF tables, written
    <3>5. file'.tables = written /\ DOMAIN written = DOMAIN file.tables /\ DOMAIN file' = {"kind", "tables"}
      BY <3>2, <3>3 DEF FileIsTables, tables
    <3> QED  BY <3>4, <3>5 DEF FileIsTables, tables
  <2>2. CASE ExtractStatement \/ UNCHANGED tableVars
    BY <2>2 DEF ExtractStatement, tableVars, FileIsTables
  <2> QED  BY <2>1, <2>2 DEF TablesNext
<1> QED  BY <1>1, <1>2, PTL DEF TablesSpec

\* A table that is accepted keeps its rows.
LEMMA DetectedKeepsRows ==
    ASSUME NEW rows, Numbered(rows), NEW o, NEW kind, Accepted(DetectTable(rows, o, kind)),
           o.decimal \in {"auto", "comma", "dot"}, o.dateOrder \in {"auto", "dmy", "mdy"}
    PROVE  LET r == DetectTable(rows, o, kind) IN KeptIn(r.rows, r.header, r.columns, r.accounts)
<1> DEFINE r == DetectTable(rows, o, kind)
           header == Min(HeaderRows(rows, o))
           c == FindColumns(rows[header], o)
           decimal == Detected(o.decimal, "comma", "dot", Amounts(rows, Body(rows, header), c))
           order == Detected(o.dateOrder, "dmy", "mdy", Dates(rows, Body(rows, header), c))
           read == ParseAccounts(rows, header, c, decimal, order, kind)
<1>1. /\ decimal \in {"comma", "dot"} /\ order \in {"dmy", "mdy"}
      /\ read # {} /\ r.accounts = The(read)
      /\ r.rows = rows /\ r.header = header /\ r.columns = c
  BY AcceptedTable
<1> HIDE DEF r, header, c, decimal, order
<1>2. KeptIn(rows, header, c, The(read))
  BY <1>1, ParsedAreKept DEF Numbered
<1> QED  BY <1>1, <1>2 DEF r

\* For every file and all options: what is taken of a statement is all of its rows.
THEOREM RowsAreAlwaysKept == TablesSpec => []RowsAreKept
<1>1. ASSUME ReadOnce, AskedOnce, FileIsTables, Accepted(result)
      PROVE  KeptIn(result.rows, result.header, result.columns, result.accounts)
  <2>1. result = Read(file, asked)
    BY <1>1 DEF ReadOnce, Accepted, Unread, Refused
  <2>2. PICK t \in Candidates(file, asked) : Candidates(file, asked) = {t}
    BY <1>1, <2>1 DEF Read, Accepted, Refused
  <2>3. result = DetectTable(file.tables[t].rows, asked, file.kind)
    BY <2>1, <2>2 DEF Read, The
  <2>4. t \in DOMAIN file.tables
    BY DEF Candidates
  <2>5. Numbered(file.tables[t].rows)
    <3>1. PICK S : file.tables[t].rows \in Seq(S)
      BY <1>1, <2>4 DEF FileIsTables
    <3> QED  BY <3>1 DEF Numbered
  <2>6. asked.decimal \in {"auto", "comma", "dot"} /\ asked.dateOrder \in {"auto", "dmy", "mdy"}
    BY <1>1, FormOptions DEF AskedOnce
  <2> DEFINE rows == file.tables[t].rows
             kind == file.kind
  <2> HIDE DEF rows, kind
  <2>7. result = DetectTable(rows, asked, kind) /\ Numbered(rows)
    BY <2>3, <2>5 DEF rows, kind
  <2> QED  BY <1>1, <2>6, <2>7, DetectedKeepsRows
<1>2. ReadOnce /\ AskedOnce /\ FileIsTables => RowsAreKept
  BY <1>1 DEF RowsAreKept, KeptIn, Source
<1> QED  BY <1>2, ReadOnceHolds, AskedOnceHolds, FileStaysTables, PTL
=============================================================================
