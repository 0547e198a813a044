--------------------------- MODULE ImportPreviews ---------------------------
(***************************************************************************)
(* Uploading statements while the data may be replaced (internal/web:      *)
(* import_mapping.go, handlers_imports.go, handlers_data.go).              *)
(*                                                                         *)
(* A statement with one account is stored at once, one with several waits  *)
(* in memory as a preview until its accounts are mapped.  Restoring a      *)
(* backup, resetting, or deleting a household replaces the data under the  *)
(* mutex of importPreviews and counts up a generation; whatever was        *)
(* prepared for an earlier generation is to be refused.  The counter and   *)
(* the previews live in memory: a restart of the server starts them over.  *)
(*                                                                         *)
(* A data set is identified by `era`.  Payments within a data set are the  *)
(* business of BankLedger; here a write only matters by what it was        *)
(* prepared for and what it is applied to.                                 *)
(***************************************************************************)
EXTENDS Naturals, FiniteSets

CONSTANTS
    Tabs,          \* browser tabs showing the import page
    Uploads,       \* requests of handleBankUpload
    Tokens,        \* the tokens rand.Text hands out
    Households,
    MaxPreviews,   \* maxImportPreviews
    MaxEra,        \* bound: replacements of the data
    MaxStarts,     \* bound: starts of the server
    None

ASSUME BoundsAreNatural == MaxPreviews \in Nat /\ MaxEra \in Nat /\ MaxStarts \in Nat \ {0}
ASSUME TokensNeverRunOut == IsFiniteSet(Tokens) /\ Cardinality(Tokens) >= MaxPreviews
ASSUME NoneIsNothing == None \notin Nat \cup Households \cup Uploads

VARIABLES
    era,          \* the data set in the database
    start,        \* how often the server was started
    active,       \* the active household
    replacing,    \* reset holds the mutex and has replaced the data
    generation,   \* importPreviews.generation
    previews,     \* importPreviews.items; a token without an item is Absent
    gate,         \* the upload that holds importGate
    tab,          \* the page each tab shows
    upload,       \* how far each upload request is
    written       \* history: the last write to the data

vars == <<era, start, active, replacing, generation, previews, gate, tab, upload, written>>
database == <<era, active>>

Eras == 0..MaxEra
Starts == 1..MaxStarts
Generations == 0..MaxEra
Origins == [era: Eras, start: Starts]
Here == [era |-> era, start |-> start]

Absent == [phase |-> "absent"]
Pending == [phase: {"held"}, household: Households, origin: Origins, expired: BOOLEAN]
Blank == [phase |-> "blank"]
Pages == [phase: {"opening", "loaded", "open"}, generation: Generations,
          household: Households, origin: Origins]
Idle == [phase |-> "idle"]
UploadStates == [phase: {"received", "admitted", "one", "many"},
                 generation: Generations, form: Generations \cup {None},
                 household: Households, origin: Origins]
Writes == [by: {"upload", "mapping"}, prepared: Origins, applied: Origins]

\* What the variables hold.
SessionTypeOK ==
    /\ era \in Eras
    /\ start \in Starts
    /\ active \in Households
    /\ replacing \in BOOLEAN
    /\ generation \in Generations
    /\ previews \in [Tokens -> Pending \cup {Absent}]
    /\ gate \in Uploads \cup {None}
    /\ tab \in [Tabs -> Pages \cup {Blank}]
    /\ upload \in [Uploads -> UploadStates \cup {Idle}]
    /\ written \in Writes \cup {None}

Init ==
    /\ era = 0
    /\ start = 1
    /\ active \in Households
    /\ replacing = FALSE
    /\ generation = 0
    /\ previews = [k \in Tokens |-> Absent]
    /\ gate = None
    /\ tab = [t \in Tabs |-> Blank]
    /\ upload = [u \in Uploads |-> Idle]
    /\ written = None

-----------------------------------------------------------------------------
(***************************************************************************)
(* The previews held in memory.                                            *)
(***************************************************************************)
Held(items) == {k \in Tokens : items[k] # Absent}

\* prune: expired items are dropped when the previews are next looked at.
Pruned(items) == [k \in Tokens |-> IF k \in Held(items) /\ items[k].expired
                                   THEN Absent ELSE items[k]]

\* put: only for the current generation, only while there is room.
Room(items) == Cardinality(Held(items)) < MaxPreviews

\* Time passes: fifteen minutes after put an item is expired.
Expire(k) ==
    /\ k \in Held(previews)
    /\ previews' = [previews EXCEPT ![k].expired = TRUE]
    /\ UNCHANGED <<database, start, replacing, generation, gate, tab, upload, written>>

-----------------------------------------------------------------------------
(***************************************************************************)
(* Pages.  buildImportVM reads the generation first and the data after it, *)
(* without holding the mutex in between.                                   *)
(***************************************************************************)
ReadGeneration(t) ==
    /\ ~replacing
    /\ tab' = [tab EXCEPT ![t] = [phase |-> "opening", generation |-> generation,
                                  household |-> active, origin |-> Here]]
    /\ UNCHANGED <<database, start, replacing, generation, previews, gate, upload, written>>

\* The data is read while it may just be replaced.
PageGeneration(t) == tab[t].generation

ReadData(t) ==
    /\ tab[t].phase = "opening"
    /\ tab' = [tab EXCEPT ![t] = [phase |-> "loaded", generation |-> PageGeneration(t),
                                  household |-> tab[t].household, origin |-> Here]]
    /\ UNCHANGED <<database, start, replacing, generation, previews, gate, upload, written>>

\* list waits for the mutex before the page is shown.
ShowPage(t) ==
    /\ tab[t].phase = "loaded"
    /\ ~replacing
    /\ tab' = [tab EXCEPT ![t].phase = "open"]
    /\ previews' = Pruned(previews)
    /\ UNCHANGED <<database, start, replacing, generation, gate, upload, written>>

SwitchHousehold(h) ==
    /\ active' = h
    /\ UNCHANGED <<era, start, replacing, generation, previews, gate, tab, upload, written>>

-----------------------------------------------------------------------------
(***************************************************************************)
(* Uploads (handleBankUpload).                                             *)
(***************************************************************************)

\* A request from an open page.  A caller may leave the generation out; then
\* the request counts as prepared when it arrives.
Receive(u, t, tagged) ==
    /\ upload[u] = Idle
    /\ tab[t].phase = "open"
    /\ ~replacing
    /\ upload' = [upload EXCEPT ![u] =
                     [phase |-> "received", generation |-> generation,
                      form |-> IF tagged THEN tab[t].generation ELSE None,
                      household |-> tab[t].household,
                      origin |-> IF tagged THEN tab[t].origin ELSE Here]]
    /\ UNCHANGED <<database, start, replacing, generation, previews, gate, tab, written>>

\* Whoever finds the gate taken is sent away.
Admit(u) ==
    /\ upload[u].phase = "received"
    /\ IF gate = None
       THEN gate' = u /\ upload' = [upload EXCEPT ![u].phase = "admitted"]
       ELSE gate' = gate /\ upload' = [upload EXCEPT ![u] = Idle]
    /\ UNCHANGED <<database, start, replacing, generation, previews, tab, written>>

\* Every way out of the handler gives the gate back.
KeepGate(u) == upload' = [upload EXCEPT ![u] = Idle] /\ gate' = gate
Finish(u) == upload' = [upload EXCEPT ![u] = Idle] /\ gate' = None

FormFits(u) ==
    /\ upload[u].household = active
    /\ upload[u].form \in {None, upload[u].generation}

\* The form is checked and the statement read, with or without the model: it
\* holds one source account or many, or the request fails or runs out of time.
Extract(u) ==
    /\ upload[u].phase = "admitted"
    /\ \/ Finish(u)
       \/ /\ FormFits(u)
          /\ \E found \in {"one", "many"} : upload' = [upload EXCEPT ![u].phase = found]
          /\ gate' = gate
    /\ UNCHANGED <<database, start, replacing, generation, previews, tab, written>>

\* current: run a write unless the data was replaced since `since`.
AnyGeneration(since) == TRUE
Current(since) == since = generation

Write(by, prepared) == written' = [by |-> by, prepared |-> prepared, applied |-> Here]

\* One account: the payments are compared and stored, or refused as a whole.
StoreUpload(u) ==
    /\ upload[u].phase = "one"
    /\ ~replacing
    /\ \/ /\ Current(upload[u].generation)
          /\ Write("upload", upload[u].origin)
       \/ UNCHANGED written
    /\ Finish(u)
    /\ UNCHANGED <<database, start, replacing, generation, previews, tab>>

\* Several accounts: they wait for their mapping, if there is room.
StoreNothing(u) ==
    /\ upload[u].phase = "many"
    /\ ~replacing
    /\ ~(Current(upload[u].generation) /\ Room(Pruned(previews)))
    /\ previews' = Pruned(previews)
    /\ Finish(u)
    /\ UNCHANGED <<database, start, replacing, generation, tab, written>>

PutPreview(u, k) ==
    /\ upload[u].phase = "many"
    /\ ~replacing
    /\ Current(upload[u].generation)
    /\ Room(Pruned(previews))
    /\ k \notin Held(Pruned(previews))
    /\ previews' = [Pruned(previews) EXCEPT ![k] =
                       [phase |-> "held", household |-> upload[u].household, origin |-> upload[u].origin,
                        expired |-> FALSE]]
    /\ Finish(u)
    /\ UNCHANGED <<database, start, replacing, generation, tab, written>>

-----------------------------------------------------------------------------
(***************************************************************************)
(* Mapping (handleImportMappingConfirm, handleImportMappingCancel).  The   *)
(* form carries the token and its household, never the generation.         *)
(***************************************************************************)
SameHousehold(k, h) == previews[k].household = h

\* The household of the form was compared with the active one before the mutex
\* was taken; another one may have become active since.
Open(k, h) ==
    /\ ~replacing
    /\ k \in Held(Pruned(previews))
    /\ SameHousehold(k, h)

\* A refused mapping stays for another try; see BankLedger for the reasons.
Confirm(k, h) ==
    /\ Open(k, h)
    /\ previews' = [Pruned(previews) EXCEPT ![k] = Absent]
    /\ Write("mapping", previews[k].origin)
    /\ UNCHANGED <<database, start, replacing, generation, gate, tab, upload>>

Cancel(k, h) ==
    /\ Open(k, h)
    /\ previews' = [Pruned(previews) EXCEPT ![k] = Absent]
    /\ UNCHANGED <<database, start, replacing, generation, gate, tab, upload, written>>

-----------------------------------------------------------------------------
(***************************************************************************)
(* Replacing the data (restore, reset, reset of the bookings, deletion of  *)
(* a household): the mutex is held from the replacement to the new         *)
(* generation, but who only reads the database does not ask for it.        *)
(***************************************************************************)
Replace ==
    /\ ~replacing
    /\ era < MaxEra
    /\ era' = era + 1
    /\ active' \in Households
    /\ replacing' = TRUE
    /\ UNCHANGED <<start, generation, previews, gate, tab, upload, written>>

KeepPreviews == previews
NoPreviews == [k \in Tokens |-> Absent]

CountedTwice(number) == number + 2
NextGeneration(number) == number + 1

Publish ==
    /\ replacing
    /\ replacing' = FALSE
    /\ generation' = NextGeneration(generation)
    /\ previews' = NoPreviews
    /\ UNCHANGED <<database, start, gate, tab, upload, written>>

\* The database survives and so do the pages in the browsers.
Restart ==
    /\ start < MaxStarts
    /\ start' = start + 1
    /\ replacing' = FALSE
    /\ generation' = 0
    /\ previews' = NoPreviews
    /\ gate' = None
    /\ upload' = [u \in Uploads |-> Idle]
    /\ tab' = [t \in Tabs |-> IF tab[t].phase = "open" THEN tab[t] ELSE Blank]
    /\ UNCHANGED <<database, written>>

-----------------------------------------------------------------------------
Browse ==
    \/ \E t \in Tabs : ReadGeneration(t)
    \/ \E t \in Tabs : ReadData(t)
    \/ \E t \in Tabs : ShowPage(t)
    \/ \E h \in Households : SwitchHousehold(h)

Handle(u) ==
    \/ Admit(u)
    \/ Extract(u)
    \/ StoreUpload(u)
    \/ StoreNothing(u)
    \/ \E k \in Tokens : PutPreview(u, k)

Map ==
    \/ \E k \in Tokens, h \in Households : Confirm(k, h)
    \/ \E k \in Tokens, h \in Households : Cancel(k, h)
    \/ \E k \in Tokens : Expire(k)

Next ==
    \/ Browse
    \/ \E u \in Uploads, t \in Tabs, tagged \in BOOLEAN : Receive(u, t, tagged)
    \/ \E u \in Uploads : Handle(u)
    \/ Map
    \/ Replace
    \/ Publish
    \/ Restart

Spec == Init /\ [][Next]_vars

\* A handler that has begun runs on: reading a statement ends with its timeout
\* of 180 seconds at the latest, a database transaction is finite, and Go's
\* mutex serves every goroutine that keeps waiting for it.
Fairness == WF_vars(Publish) /\ \A u \in Uploads : SF_vars(Handle(u))
FairSpec == Spec /\ Fairness

-----------------------------------------------------------------------------
(***************************************************************************)
(* Properties.                                                             *)
(***************************************************************************)

\* What was prepared for one data set is never written into another one, as
\* TestUploadQueueScopeAndGeneration demands ("stale batch wrote to
\* replacement data").
NothingFromBeforeReset ==
    written # None => written.prepared.era = written.applied.era

\* While the server runs that holds for uploads and mappings, in every order of
\* page loads, uploads and replacements (epoch, put, current, reset).
NothingStaleWhileRunning ==
    written # None => \/ written.prepared.era = written.applied.era
                      \/ written.prepared.start # written.applied.start

\* Every preview that can be confirmed was prepared for the present data, which
\* is why Confirm may do without the generation; at most maxImportPreviews are
\* held.  Only a request from a page older than the server can break it.
PreviewsFitTheData ==
    /\ Cardinality(Held(previews)) <= MaxPreviews
    /\ ~replacing => \A k \in Held(previews) :
           \/ previews[k].origin.era = era
           \/ previews[k].origin.start # start

\* Every upload ends, and gives the gate back for the next one.
UploadsEnd ==
    /\ \A u \in Uploads : upload[u] # Idle ~> upload[u] = Idle
    /\ \A u \in Uploads : gate = u ~> gate # u
=============================================================================
