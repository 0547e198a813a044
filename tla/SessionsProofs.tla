---------------------------- MODULE SessionsProofs ----------------------------
(***************************************************************************)
(* Theorems about ImportPreviews and Households for every value of their   *)
(* constants.  MCSessions only brings the two together.                    *)
(***************************************************************************)
EXTENDS MCSessions, FiniteSetTheorems, TLAPS

USE DEF database, householdVars

-----------------------------------------------------------------------------
(***************************************************************************)
(* Previews and uploads: the inductive invariant.                          *)
(*                                                                         *)
(* The generation counts the replacements since the server was started,    *)
(* the data set counts all of them, so their difference stays the same     *)
(* until the next start.  With it a number from this run of the server     *)
(* stands for one data set.                                                *)
(***************************************************************************)
Counted == generation + (IF replacing THEN 1 ELSE 0)
EarlierRuns == era - Counted
EraOf(number) == number + EarlierRuns

\* Nothing was prepared in the future.
Past(origin) == origin.era <= era /\ origin.start <= start
OfThisRun(origin) == origin.start = start

\* A page knows at least the data its number stands for: the number is read
\* first (buildImportVM).
PagesAreBehind ==
    \A t \in Tabs : tab[t] # Blank =>
        /\ Past(tab[t].origin)
        /\ tab[t].phase = "opening" => tab[t].generation <= generation
        /\ tab[t].phase # "opening" /\ OfThisRun(tab[t].origin) =>
               tab[t].origin.era >= EraOf(tab[t].generation)

\* An upload whose form passes the check was prepared for the data its own
\* number stands for.
UploadsKnowTheirData ==
    \A u \in Uploads : upload[u] # Idle =>
        /\ Past(upload[u].origin)
        /\ upload[u].generation <= generation
        /\ \/ upload[u].form \in {None, upload[u].generation}
           \/ upload[u].phase \in {"received", "admitted"}
        /\ upload[u].form \in {None, upload[u].generation} /\ OfThisRun(upload[u].origin) =>
               upload[u].origin.era = EraOf(upload[u].generation)

PreviewsArePast == \A k \in Held(previews) : Past(previews[k].origin)

SessionInv ==
    /\ SessionTypeOK
    /\ EarlierRuns >= 0
    /\ PagesAreBehind
    /\ UploadsKnowTheirData
    /\ PreviewsArePast
    /\ PreviewsFitTheData
    /\ NothingStaleWhileRunning

-----------------------------------------------------------------------------
(***************************************************************************)
(* Households: the inductive invariant.  Without a lapse, a household is   *)
(* active or a deletion is about to select one.  That needs to know that   *)
(* an empty database is a lapse, and that a deletion which takes the       *)
(* active household for another one is.                                    *)
(***************************************************************************)
Known == 1..(nextId - 1)

Task(d) ==
    \/ d = H!Idle
    \/ \E h \in Known : d = [kind |-> "activate", id |-> h]
    \/ \E h \in Known, w \in Known \cup {0} :
          d = [kind |-> "delete", at |-> "read", id |-> h, was |-> w]
    \/ d = [kind |-> "delete", at |-> "deleted"]
    \/ d.kind = "delete" /\ d.at = "listed"
       /\ d = [kind |-> "delete", at |-> "listed", next |-> d.next]

WillSelect(d) == d.kind = "delete" /\ d.at \in {"deleted", "listed"}
Mistaken(d) == d.kind = "delete" /\ d.at = "read" /\ d.id = selected /\ d.was # selected

HouseholdsTyped ==
    /\ nextId \in Nat \ {0}
    /\ DOMAIN order \subseteq Known
    /\ \A file \in saved : DOMAIN file.order \subseteq Known
    /\ doing = [r \in Handlers |-> doing[r]]
    /\ \A r \in Handlers : Task(doing[r])

ActiveOrExplained ==
    \/ lapse
    \/ /\ DOMAIN order # {}
       /\ selected \in DOMAIN order \/ \E r \in Handlers : WillSelect(doing[r])
       /\ selected \in DOMAIN order => \A r \in Handlers : ~Mistaken(doing[r])

HouseholdInv == HouseholdsTyped /\ ActiveOrExplained

-----------------------------------------------------------------------------
(***************************************************************************)
(* Previews and uploads: one step.                                         *)
(***************************************************************************)

\* Numbers are numbers.
LEMMA SessionNumbers ==
    ASSUME SessionTypeOK
    PROVE  /\ era \in Nat /\ start \in Nat /\ generation \in Nat
           /\ Counted \in Nat /\ EarlierRuns \in Int
           /\ \A t \in Tabs : tab[t] # Blank => tab[t] \in Pages
           /\ \A u \in Uploads : upload[u] # Idle => upload[u] \in UploadStates
           /\ \A k \in Held(previews) : previews[k] \in Pending
           /\ Here \in Origins
  <1>1. era \in Eras /\ start \in Starts /\ generation \in Generations
    BY DEF SessionTypeOK
  <1>2. era \in Nat /\ start \in Nat /\ generation \in Nat
    BY <1>1 DEF Eras, Starts, Generations
  <1>3. Counted \in Nat /\ EarlierRuns \in Int
    BY <1>2 DEF Counted, EarlierRuns
  <1> QED
    BY <1>1, <1>2, <1>3 DEF SessionTypeOK, Held, Here, Origins

\* The offset between data sets and generations changes with a start only.
LEMMA OffsetStep ==
    ASSUME SessionTypeOK, EarlierRuns >= 0, [Next]_vars
    PROVE  /\ EarlierRuns' >= 0
           /\ era' \in Nat /\ era <= era' /\ generation' \in Nat
           /\ era' <= MaxEra /\ generation' <= era'
           /\ \/ Restart
              \/ /\ start' = start /\ EarlierRuns' = EarlierRuns
                 /\ generation <= generation'
  <1> USE SessionNumbers, BoundsAreNatural
  <1>0. era <= MaxEra /\ MaxEra \in Nat /\ generation <= era
    BY DEF SessionTypeOK, Eras, EarlierRuns, Counted
  <1>1. CASE Replace
    BY <1>0, <1>1 DEF Replace, EarlierRuns, Counted
  <1>2. CASE Publish
    BY <1>0, <1>2 DEF Publish, EarlierRuns, Counted, NextGeneration
  <1>3. CASE Restart
    BY <1>0, <1>3 DEF Restart, EarlierRuns, Counted
  <1>4. CASE UNCHANGED <<era, start, replacing, generation>>
    BY <1>0, <1>4 DEF EarlierRuns, Counted
  <1>5. CASE Browse \/ Map \/ UNCHANGED vars
    <2>1. UNCHANGED <<era, start, replacing, generation>>
      BY <1>5 DEF Browse, Map, vars, ReadGeneration, ReadData, ShowPage,
                  SwitchHousehold, Confirm, Cancel, Expire
    <2> QED
      BY <1>4, <2>1
  <1>6. ASSUME NEW u \in Uploads, NEW t \in Tabs, NEW tagged \in BOOLEAN, Receive(u, t, tagged)
        PROVE  UNCHANGED <<era, start, replacing, generation>>
    BY <1>6 DEF Receive
  <1>7. ASSUME NEW u \in Uploads, Handle(u)
        PROVE  UNCHANGED <<era, start, replacing, generation>>
    BY <1>7 DEF Handle, Admit, Extract, StoreUpload, StoreNothing, PutPreview
  <1> QED
    BY <1>1, <1>2, <1>3, <1>4, <1>5, <1>6, <1>7 DEF Next

\* What is in the past stays there.
LEMMA PastStays ==
    ASSUME NEW origin \in Origins, Past(origin), SessionTypeOK, EarlierRuns >= 0, [Next]_vars
    PROVE  /\ Past(origin)'
           /\ Restart => ~OfThisRun(origin)'
           /\ ~Restart => (OfThisRun(origin)' <=> OfThisRun(origin))
  <1>1. origin.era \in Nat /\ origin.start \in Nat
    BY DEF Origins, Eras, Starts
  <1>2. CASE Restart
    BY <1>1, <1>2, SessionNumbers DEF Restart, Past, OfThisRun
  <1>3. CASE ~Restart
    BY <1>1, <1>3, SessionNumbers, OffsetStep DEF Past, OfThisRun
  <1> QED
    BY <1>2, <1>3

\* The data at hand fits the present number unless they are just replaced.
LEMMA HereFits ==
    ASSUME SessionTypeOK
    PROVE  /\ Past(Here) /\ OfThisRun(Here)
           /\ ~replacing => Here.era = EraOf(generation)
           /\ \A n \in Nat : n <= generation => Here.era >= EraOf(n)
  BY SessionNumbers DEF Past, OfThisRun, Here, EraOf, EarlierRuns, Counted

\* Pages stay behind the data they show.
LEMMA PagesStep ==
    ASSUME SessionTypeOK, EarlierRuns >= 0, PagesAreBehind, [Next]_vars
    PROVE  PagesAreBehind'
  <1> DEFINE Behind(t) == /\ Past(tab[t].origin)
                          /\ tab[t].phase = "opening" => tab[t].generation <= generation
                          /\ tab[t].phase # "opening" /\ OfThisRun(tab[t].origin) =>
                                 tab[t].origin.era >= EraOf(tab[t].generation)
  <1> SUFFICES ASSUME NEW t \in Tabs, tab'[t] # Blank
               PROVE  Behind(t)'
    BY DEF PagesAreBehind
  <1>1. CASE tab'[t] = tab[t]
    <2>1. Behind(t) /\ tab[t] \in Pages
      BY <1>1, SessionNumbers DEF PagesAreBehind
    <2>2. PICK o \in Origins : o = tab[t].origin
      BY <2>1 DEF Pages
    <2>3. Past(o)' /\ (Restart => ~OfThisRun(o)') /\ (~Restart => (OfThisRun(o)' <=> OfThisRun(o)))
      BY <2>1, <2>2, PastStays
    <2>4. CASE Restart
      <3>1. tab[t].phase = "open"
        BY <1>1, <2>4 DEF Restart
      <3> QED
        BY <1>1, <2>2, <2>3, <2>4, <3>1 DEF Past, OfThisRun
    <2>5. CASE ~Restart
      <3>1. tab[t].generation \in Nat /\ o.era \in Nat
        BY <2>1 DEF Pages, Generations, Origins, Eras
      <3> QED
        BY <1>1, <2>1, <2>2, <2>3, <2>5, <3>1, OffsetStep, SessionNumbers DEF Past, OfThisRun, EraOf
    <2> QED
      BY <2>4, <2>5
  <1>2. ASSUME NEW s \in Tabs, ReadGeneration(s), tab'[t] # tab[t]
        PROVE  Behind(t)'
    <2>1. tab'[t] = [phase |-> "opening", generation |-> generation,
                     household |-> active, origin |-> Here]
      BY <1>2 DEF ReadGeneration, SessionTypeOK
    <2> QED
      BY <1>2, <2>1, HereFits, SessionNumbers DEF ReadGeneration, Past
  <1>3. ASSUME NEW s \in Tabs, ReadData(s), tab'[t] # tab[t]
        PROVE  Behind(t)'
    <2>1. s = t /\ tab[t] # Blank /\ tab[t].phase = "opening"
      BY <1>3 DEF ReadData, SessionTypeOK, Blank
    <2>2. tab[t] \in Pages /\ tab[t].generation <= generation /\ tab[t].generation \in Nat
      BY <2>1, SessionNumbers DEF PagesAreBehind, Pages, Generations
    <2>3. tab'[t].phase = "loaded" /\ tab'[t].origin = Here
          /\ tab'[t].generation = tab[t].generation
      BY <1>3, <2>1, <2>2 DEF ReadData, SessionTypeOK, Pages, PageGeneration
    <2>4. Here.era >= EraOf(tab[t].generation) /\ Past(Here)
      BY <2>2, HereFits
    <2> QED
      BY <1>3, <2>3, <2>4 DEF ReadData, Past, OfThisRun, EraOf, EarlierRuns, Counted
  <1>4. ASSUME NEW s \in Tabs, ShowPage(s), tab'[t] # tab[t]
        PROVE  Behind(t)'
    <2>1. s = t /\ tab[t] # Blank /\ tab[t].phase = "loaded"
      BY <1>4 DEF ShowPage, SessionTypeOK, Blank
    <2>2. tab[t] \in Pages
      BY <2>1, SessionNumbers
    <2>3. tab'[t].phase = "open" /\ tab'[t].origin = tab[t].origin
          /\ tab'[t].generation = tab[t].generation
      BY <1>4, <2>1, <2>2 DEF ShowPage, SessionTypeOK, Pages
    <2> QED
      BY <1>4, <2>1, <2>3 DEF ShowPage, PagesAreBehind, Past, OfThisRun, EraOf, EarlierRuns, Counted
  <1>5. CASE Restart
    BY <1>1, <1>5 DEF Restart
  <1>6. ASSUME NEW u \in Uploads, NEW s \in Tabs, NEW tagged \in BOOLEAN, Receive(u, s, tagged)
        PROVE  tab' = tab
    BY <1>6 DEF Receive
  <1>7. ASSUME NEW u \in Uploads, Handle(u)
        PROVE  tab' = tab
    BY <1>7 DEF Handle, Admit, Extract, StoreUpload, StoreNothing, PutPreview
  <1>8. CASE Map \/ Replace \/ Publish \/ UNCHANGED vars
    <2>1. tab' = tab
      BY <1>8 DEF Map, Confirm, Cancel, Expire, Replace, Publish, vars
    <2> QED
      BY <1>1, <2>1
  <1>9. ASSUME NEW h \in Households, SwitchHousehold(h)
        PROVE  tab' = tab
    BY <1>9 DEF SwitchHousehold
  <1> HIDE DEF Behind
  <1> QED
    BY <1>1, <1>2, <1>3, <1>4, <1>5, <1>6, <1>7, <1>8, <1>9 DEF Next, Browse

\* An upload keeps to what it was prepared for.
LEMMA UploadsStep ==
    ASSUME SessionTypeOK, EarlierRuns >= 0, PagesAreBehind, UploadsKnowTheirData, [Next]_vars
    PROVE  UploadsKnowTheirData'
  <1> DEFINE Checked(u) == upload[u].form \in {None, upload[u].generation}
             Knows(u) == /\ Past(upload[u].origin)
                         /\ upload[u].generation <= generation
                         /\ Checked(u) \/ upload[u].phase \in {"received", "admitted"}
                         /\ Checked(u) /\ OfThisRun(upload[u].origin) =>
                                upload[u].origin.era = EraOf(upload[u].generation)
  <1> SUFFICES ASSUME NEW u \in Uploads, upload'[u] # Idle
               PROVE  Knows(u)'
    BY DEF UploadsKnowTheirData
  <1>1. ASSUME upload[u] # Idle, ~Restart,
               upload'[u].origin = upload[u].origin,
               upload'[u].generation = upload[u].generation,
               upload'[u].form = upload[u].form,
               Checked(u) \/ upload'[u].phase \in {"received", "admitted"}
        PROVE  Knows(u)'
    <2>1. Knows(u) /\ upload[u] \in UploadStates
      BY <1>1, SessionNumbers DEF UploadsKnowTheirData
    <2>2. PICK o \in Origins : o = upload[u].origin
      BY <2>1 DEF UploadStates
    <2>3. Past(o)' /\ (OfThisRun(o)' <=> OfThisRun(o))
      BY <1>1, <2>1, <2>2, PastStays
    <2>4. upload[u].generation \in Nat
      BY <2>1 DEF UploadStates, Generations
    <2> QED
      BY <1>1, <2>1, <2>2, <2>3, <2>4, OffsetStep, SessionNumbers DEF Past, OfThisRun, EraOf
  <1>2. CASE upload' = upload
    <2>1. ~Restart
      BY <1>2 DEF Restart
    <2>2. Knows(u)
      BY <1>2 DEF UploadsKnowTheirData
    <2> QED
      BY <1>1, <1>2, <2>1, <2>2
  <1>3. ASSUME NEW v \in Uploads, upload' = [upload EXCEPT ![v] = Idle], ~Restart
        PROVE  Knows(u)'
    <2>1. upload'[u] = upload[u]
      BY <1>3 DEF SessionTypeOK
    <2>2. Knows(u)
      BY <2>1 DEF UploadsKnowTheirData
    <2> QED
      BY <1>1, <1>3, <2>1, <2>2
  <1>4. ASSUME NEW v \in Uploads, NEW t \in Tabs, NEW tagged \in BOOLEAN, Receive(v, t, tagged)
        PROVE  Knows(u)'
    <2>1. CASE u # v
      <3>1. upload'[u] = upload[u] /\ ~Restart
        BY <1>4, <2>1 DEF Receive, Restart, SessionTypeOK
      <3>2. Knows(u)
        BY <3>1 DEF UploadsKnowTheirData
      <3> QED
        BY <1>1, <3>1, <3>2
    <2>2. CASE u = v
      <3>1. tab[t] # Blank /\ tab[t].phase = "open" /\ ~replacing
        BY <1>4 DEF Receive, Blank
      <3>2. tab[t] \in Pages /\ Past(tab[t].origin)
            /\ (OfThisRun(tab[t].origin) => tab[t].origin.era >= EraOf(tab[t].generation))
        BY <3>1, SessionNumbers DEF PagesAreBehind
      <3>3. upload'[u] = [phase |-> "received", generation |-> generation,
                          form |-> IF tagged THEN tab[t].generation ELSE None,
                          household |-> tab[t].household,
                          origin |-> IF tagged THEN tab[t].origin ELSE Here]
        BY <1>4, <2>2 DEF Receive, SessionTypeOK
      <3>4. /\ upload'[u].phase = "received"
            /\ upload'[u].generation = generation
            /\ upload'[u].form = IF tagged THEN tab[t].generation ELSE None
            /\ upload'[u].origin = IF tagged THEN tab[t].origin ELSE Here
        BY <3>3
      <3>5. UNCHANGED <<era, start, replacing, generation>>
        BY <1>4 DEF Receive
      <3>6. Here.era = EraOf(generation) /\ Here.era = era /\ Past(Here)
        BY <3>1, HereFits DEF Here
      <3>7. tab[t].generation # None /\ tab[t].generation \in Nat /\ tab[t].origin.era \in Nat
        BY <3>2, NoneIsNothing DEF Pages, Generations, Origins, Eras
      <3>8. CASE tagged
        BY <3>2, <3>4, <3>5, <3>6, <3>7, <3>8, SessionNumbers
           DEF Past, OfThisRun, EraOf, EarlierRuns, Counted
      <3>9. CASE ~tagged
        BY <3>4, <3>5, <3>6, <3>9, SessionNumbers
           DEF Past, OfThisRun, EraOf, EarlierRuns, Counted
      <3> QED
        BY <3>8, <3>9
    <2> QED
      BY <2>1, <2>2
  <1>5. ASSUME NEW v \in Uploads, Admit(v)
        PROVE  Knows(u)'
    <2>1. upload[v] # Idle /\ upload[v].phase = "received" /\ ~Restart
      BY <1>5 DEF Admit, Idle, Restart
    <2>2. CASE gate = None /\ u = v
      <3>1. upload[v] \in UploadStates
        BY <2>1, SessionNumbers
      <3>2. /\ upload'[u].origin = upload[u].origin
            /\ upload'[u].generation = upload[u].generation
            /\ upload'[u].form = upload[u].form
            /\ upload'[u].phase = "admitted"
        BY <1>5, <2>2, <3>1 DEF Admit, SessionTypeOK, UploadStates
      <3> QED
        BY <1>1, <2>1, <2>2, <3>2
    <2>3. CASE gate = None /\ u # v
      <3>1. upload'[u] = upload[u]
        BY <1>5, <2>3 DEF Admit, SessionTypeOK
      <3>2. Knows(u)
        BY <3>1 DEF UploadsKnowTheirData
      <3> QED
        BY <1>1, <2>1, <3>1, <3>2
    <2>4. CASE gate # None
      BY <1>3, <1>5, <2>1, <2>4 DEF Admit
    <2> QED
      BY <2>2, <2>3, <2>4
  <1>6. ASSUME NEW v \in Uploads, Extract(v)
        PROVE  Knows(u)'
    <2>1. upload[v] # Idle /\ ~Restart
      BY <1>6 DEF Extract, Idle, Restart
    <2>2. CASE Finish(v)
      BY <1>3, <2>1, <2>2 DEF Finish
    <2>3. ASSUME FormFits(v), NEW found \in {"one", "many"},
                 upload' = [upload EXCEPT ![v].phase = found]
          PROVE  Knows(u)'
      <3>1. CASE u # v
        <4>1. upload'[u] = upload[u]
          BY <2>3, <3>1 DEF SessionTypeOK
        <4>2. Knows(u)
          BY <4>1 DEF UploadsKnowTheirData
        <4> QED
          BY <1>1, <2>1, <4>1, <4>2
      <3>2. CASE u = v
        <4>1. upload[u] \in UploadStates
          BY <2>1, <3>2, SessionNumbers
        <4>2. /\ upload'[u].origin = upload[u].origin
              /\ upload'[u].generation = upload[u].generation
              /\ upload'[u].form = upload[u].form
          BY <2>3, <3>2, <4>1 DEF SessionTypeOK, UploadStates
        <4>3. Checked(u)
          BY <2>3, <3>2 DEF FormFits
        <4> QED
          BY <1>1, <2>1, <3>2, <4>2, <4>3
      <3> QED
        BY <3>1, <3>2
    <2> QED
      BY <1>6, <2>2, <2>3 DEF Extract
  <1>7. ASSUME NEW v \in Uploads, StoreUpload(v) \/ StoreNothing(v) \/ \E k \in Tokens : PutPreview(v, k)
        PROVE  Knows(u)'
    <2>1. ~Restart
      BY <1>7 DEF StoreUpload, StoreNothing, PutPreview, Restart, Finish
    <2>2. upload' = [upload EXCEPT ![v] = Idle]
      BY <1>7 DEF StoreUpload, StoreNothing, PutPreview, Finish
    <2> QED
      BY <1>3, <2>1, <2>2
  <1>8. CASE Restart
    BY <1>8 DEF Restart
  <1>9. CASE Browse \/ Map \/ Replace \/ Publish \/ UNCHANGED vars
    <2>1. upload' = upload
      BY <1>9 DEF Browse, ReadGeneration, ReadData, ShowPage, SwitchHousehold, Map, Confirm,
                  Cancel, Expire, Replace, Publish, vars
    <2> QED
      BY <1>2, <2>1
  <1> HIDE DEF Knows
  <1> QED
    BY <1>4, <1>5, <1>6, <1>7, <1>8, <1>9 DEF Next, Handle

\* A preview is one of before, with its origin, or was put by an upload.
LEMMA PreviewOrigins ==
    ASSUME SessionTypeOK, [Next]_vars, NEW k \in Held(previews)'
    PROVE  \/ /\ k \in Held(previews)
              /\ previews'[k].origin = previews[k].origin
              /\ ~Publish /\ ~Restart
           \/ \E u \in Uploads : PutPreview(u, k) /\ previews'[k].origin = upload[u].origin
  <1> DEFINE Old == /\ k \in Held(previews)
                    /\ previews'[k].origin = previews[k].origin
                    /\ ~Publish /\ ~Restart
  <1>1. k \in Tokens /\ previews'[k] # Absent
    BY DEF Held
  <1>2. ~Publish /\ ~Restart
    BY <1>1 DEF Publish, Restart, NoPreviews
  <1>3. CASE previews' = previews
    BY <1>1, <1>2, <1>3 DEF Held
  <1>4. CASE previews' = Pruned(previews)
    BY <1>1, <1>2, <1>4 DEF Pruned, Held
  <1>5. ASSUME NEW j \in Tokens, Expire(j)
        PROVE  Old
    <2>1. previews[j] \in Pending /\ j \in Held(previews)
      BY <1>5, SessionNumbers DEF Expire
    <2>2. CASE k = j
      BY <1>2, <1>5, <2>1, <2>2 DEF Expire, SessionTypeOK, Pending
    <2>3. CASE k # j
      BY <1>1, <1>2, <1>5, <2>3 DEF Expire, SessionTypeOK, Held
    <2> QED
      BY <2>2, <2>3
  <1>6. ASSUME NEW j \in Tokens, NEW h \in Households, Confirm(j, h) \/ Cancel(j, h)
        PROVE  Old
    <2>1. previews' = [Pruned(previews) EXCEPT ![j] = Absent]
      BY <1>6 DEF Confirm, Cancel
    <2> QED
      BY <1>1, <1>2, <2>1 DEF Pruned, Held
  <1>7. ASSUME NEW u \in Uploads, NEW j \in Tokens, PutPreview(u, j)
        PROVE  Old \/ (PutPreview(u, k) /\ previews'[k].origin = upload[u].origin)
    <2>1. CASE k = j
      BY <1>7, <2>1 DEF PutPreview, Pruned
    <2>2. CASE k # j
      BY <1>1, <1>2, <1>7, <2>2 DEF PutPreview, Pruned, Held
    <2> QED
      BY <2>1, <2>2
  <1>8. ASSUME NEW u \in Uploads, Admit(u) \/ Extract(u) \/ StoreUpload(u) \/ StoreNothing(u)
        PROVE  previews' = previews \/ previews' = Pruned(previews)
    BY <1>8 DEF Admit, Extract, StoreUpload, StoreNothing
  <1>9. CASE Browse \/ Replace \/ UNCHANGED vars
    <2>1. previews' = previews \/ previews' = Pruned(previews)
      BY <1>9 DEF Browse, ReadGeneration, ReadData, ShowPage, SwitchHousehold, Replace, vars
    <2> QED
      BY <1>3, <1>4, <2>1
  <1>10. ASSUME NEW u \in Uploads, NEW t \in Tabs, NEW tagged \in BOOLEAN, Receive(u, t, tagged)
         PROVE  previews' = previews
    BY <1>10 DEF Receive
  <1> QED
    BY <1>2, <1>3, <1>4, <1>5, <1>6, <1>7, <1>8, <1>9, <1>10 DEF Next, Handle, Map

\* While the data stays and nothing was counted, they are not being replaced.
LEMMA ReplacingStep ==
    ASSUME SessionTypeOK, [Next]_vars, ~replacing', ~Publish, ~Restart
    PROVE  ~replacing /\ UNCHANGED <<era, start, generation>>
  <1>1. CASE Replace
    BY <1>1 DEF Replace
  <1>2. CASE Browse \/ Map \/ UNCHANGED vars
    BY <1>2 DEF Browse, ReadGeneration, ReadData, ShowPage, SwitchHousehold, Map, Confirm,
                Cancel, Expire, vars
  <1>3. ASSUME NEW u \in Uploads, Handle(u)
        PROVE  UNCHANGED <<era, start, generation, replacing>>
    BY <1>3 DEF Handle, Admit, Extract, StoreUpload, StoreNothing, PutPreview
  <1>4. ASSUME NEW u \in Uploads, NEW t \in Tabs, NEW tagged \in BOOLEAN, Receive(u, t, tagged)
        PROVE  UNCHANGED <<era, start, generation, replacing>>
    BY <1>4 DEF Receive
  <1> QED
    BY <1>1, <1>2, <1>3, <1>4 DEF Next

\* An upload that passes the check for the present number holds present data.
LEMMA CurrentUpload ==
    ASSUME SessionTypeOK, UploadsKnowTheirData, NEW u \in Uploads,
           upload[u].phase \in {"one", "many"}, upload[u] # Idle, ~replacing,
           Current(upload[u].generation)
    PROVE  upload[u].origin.era = era \/ upload[u].origin.start # start
  <1>1. OfThisRun(upload[u].origin) => upload[u].origin.era = EraOf(generation)
    BY DEF UploadsKnowTheirData, Current
  <1> QED
    BY <1>1, SessionNumbers DEF OfThisRun, EraOf, EarlierRuns, Counted

\* Previews were prepared in the past.
LEMMA PreviewsPastStep ==
    ASSUME SessionTypeOK, EarlierRuns >= 0, UploadsKnowTheirData, PreviewsArePast, [Next]_vars
    PROVE  PreviewsArePast'
  <1> SUFFICES ASSUME NEW k \in Held(previews)'
               PROVE  Past(previews[k].origin)'
    BY DEF PreviewsArePast
  <1>1. CASE k \in Held(previews) /\ previews'[k].origin = previews[k].origin
    <2>1. PICK o \in Origins : o = previews[k].origin
      BY <1>1, SessionNumbers DEF Pending
    <2>2. Past(o)'
      BY <1>1, <2>1, PastStays DEF PreviewsArePast
    <2> QED
      BY <1>1, <2>1, <2>2 DEF Past
  <1>2. ASSUME NEW u \in Uploads, PutPreview(u, k), previews'[k].origin = upload[u].origin
        PROVE  Past(previews[k].origin)'
    <2>1. upload[u] # Idle
      BY <1>2 DEF PutPreview, Idle
    <2>2. PICK o \in Origins : o = upload[u].origin
      BY <2>1, SessionNumbers DEF UploadStates
    <2>3. Past(o)'
      BY <2>1, <2>2, PastStays DEF UploadsKnowTheirData
    <2> QED
      BY <1>2, <2>2, <2>3 DEF Past
  <1> QED
    BY <1>1, <1>2, PreviewOrigins

\* Every preview that can be confirmed was prepared for the present data.
LEMMA PreviewsFitStep ==
    ASSUME SessionTypeOK, EarlierRuns >= 0, UploadsKnowTheirData, PreviewsFitTheData, [Next]_vars
    PROVE  PreviewsFitTheData'
  <1>1. ASSUME ~replacing', NEW k \in Held(previews)'
        PROVE  previews'[k].origin.era = era' \/ previews'[k].origin.start # start'
    <2>1. CASE k \in Held(previews) /\ previews'[k].origin = previews[k].origin
               /\ ~Publish /\ ~Restart
      <3>1. ~replacing /\ UNCHANGED <<era, start, generation>>
        BY <1>1, <2>1, ReplacingStep
      <3> QED
        BY <2>1, <3>1 DEF PreviewsFitTheData
    <2>2. ASSUME NEW u \in Uploads, PutPreview(u, k), previews'[k].origin = upload[u].origin
          PROVE  previews'[k].origin.era = era' \/ previews'[k].origin.start # start'
      <3>1. upload[u] # Idle /\ upload[u].phase = "many" /\ ~replacing
            /\ Current(upload[u].generation) /\ UNCHANGED <<era, start>>
        BY <2>2 DEF PutPreview, Idle
      <3> QED
        BY <2>2, <3>1, CurrentUpload
    <2> QED
      BY <2>1, <2>2, PreviewOrigins
  <1>2. Cardinality(Held(previews)') <= MaxPreviews
    <2>1. Held(previews) \subseteq Tokens /\ Held(Pruned(previews)) \subseteq Tokens
      BY DEF Held
    <2>2. IsFiniteSet(Held(previews)) /\ IsFiniteSet(Held(Pruned(previews)))
      BY <2>1, TokensNeverRunOut, FS_Subset
    <2>3. Cardinality(Held(previews)) \in Nat /\ Cardinality(Held(Pruned(previews))) \in Nat
      BY <2>2, FS_CardinalityType
    <2>4. CASE \E u \in Uploads, k \in Tokens : PutPreview(u, k)
      <3>1. PICK u \in Uploads, k \in Tokens : PutPreview(u, k)
        BY <2>4
      <3>2. Held(previews)' = Held(Pruned(previews)) \cup {k} /\ k \notin Held(Pruned(previews))
        BY <3>1 DEF PutPreview, Held, Pruned, Absent
      <3>3. Cardinality(Held(previews)') = Cardinality(Held(Pruned(previews))) + 1
        BY <2>2, <3>2, FS_AddElement
      <3>4. Cardinality(Held(Pruned(previews))) < MaxPreviews
        BY <3>1 DEF PutPreview, Room
      <3> QED
        BY <2>3, <3>3, <3>4, BoundsAreNatural
    <2>5. CASE ~\E u \in Uploads, k \in Tokens : PutPreview(u, k)
      <3>1. Held(previews)' \subseteq Held(previews)
        <4>1. ASSUME NEW k \in Held(previews)' PROVE k \in Held(previews)
          BY <2>5, PreviewOrigins DEF Held
        <4> QED
          BY <4>1
      <3>2. Cardinality(Held(previews)') <= Cardinality(Held(previews))
        BY <2>2, <3>1, FS_Subset
      <3>3. IsFiniteSet(Held(previews)')
        BY <2>2, <3>1, FS_Subset
      <3>4. Cardinality(Held(previews)') \in Nat
        BY <3>3, FS_CardinalityType
      <3> QED
        BY <2>3, <3>2, <3>4, BoundsAreNatural DEF PreviewsFitTheData
    <2> QED
      BY <2>4, <2>5
  <1>3. Cardinality(Held(previews))' <= MaxPreviews
    BY <1>2
  <1> QED
    BY <1>1, <1>3 DEF PreviewsFitTheData

\* What is written fits what it is written to.
LEMMA WriteStep ==
    ASSUME SessionTypeOK, UploadsKnowTheirData, PreviewsFitTheData,
           NothingStaleWhileRunning, [Next]_vars
    PROVE  NothingStaleWhileRunning'
  <1>1. CASE written' = written
    BY <1>1 DEF NothingStaleWhileRunning
  <1>2. ASSUME NEW u \in Uploads, StoreUpload(u), written' # written
        PROVE  NothingStaleWhileRunning'
    <2>1. upload[u] # Idle /\ upload[u].phase = "one" /\ ~replacing
          /\ Current(upload[u].generation)
      BY <1>2 DEF StoreUpload, Idle
    <2>2. upload[u].origin.era = era \/ upload[u].origin.start # start
      BY <2>1, CurrentUpload
    <2> QED
      BY <1>2, <2>2 DEF StoreUpload, Write, Here, NothingStaleWhileRunning
  <1>3. ASSUME NEW k \in Tokens, NEW h \in Households, Confirm(k, h)
        PROVE  NothingStaleWhileRunning'
    <2>1. k \in Held(previews) /\ ~replacing /\ previews[k].household = h
      BY <1>3 DEF Confirm, Open, Held, Pruned, SameHousehold
    <2>2. previews[k].origin.era = era \/ previews[k].origin.start # start
      BY <2>1 DEF PreviewsFitTheData
    <2> QED
      BY <1>3, <2>1, <2>2 DEF Confirm, Write, Here, NothingStaleWhileRunning
  <1>4. CASE Browse \/ Replace \/ Publish \/ Restart \/ UNCHANGED vars
    BY <1>1, <1>4 DEF Browse, ReadGeneration, ReadData, ShowPage, SwitchHousehold, Replace,
                      Publish, Restart, vars
  <1>5. ASSUME NEW u \in Uploads, NEW t \in Tabs, NEW tagged \in BOOLEAN, Receive(u, t, tagged)
        PROVE  written' = written
    BY <1>5 DEF Receive
  <1>6. ASSUME NEW u \in Uploads, Admit(u) \/ Extract(u) \/ StoreNothing(u) \/ \E k \in Tokens : PutPreview(u, k)
        PROVE  written' = written
    BY <1>6 DEF Admit, Extract, StoreNothing, PutPreview
  <1>7. ASSUME NEW k \in Tokens, NEW h \in Households, Cancel(k, h) \/ Expire(k)
        PROVE  written' = written
    BY <1>7 DEF Cancel, Expire
  <1>8. ASSUME NEW k \in Tokens, Expire(k)
        PROVE  written' = written
    BY <1>8 DEF Expire
  <1> QED
    BY <1>1, <1>2, <1>3, <1>4, <1>5, <1>6, <1>7, <1>8 DEF Next, Handle, Map

\* Dropping previews leaves previews.
LEMMA PrunedType ==
    ASSUME SessionTypeOK
    PROVE  Pruned(previews) \in [Tokens -> Pending \cup {Absent}]
  BY DEF SessionTypeOK, Pruned

\* An upload request keeps its type.
LEMMA UploadsType ==
    ASSUME SessionTypeOK, [Next]_vars
    PROVE  upload' \in [Uploads -> UploadStates \cup {Idle}] /\ gate' \in Uploads \cup {None}
  <1> USE DEF SessionTypeOK
  <1>1. ASSUME NEW u \in Uploads, NEW t \in Tabs, NEW tagged \in BOOLEAN, Receive(u, t, tagged)
        PROVE  upload' \in [Uploads -> UploadStates \cup {Idle}] /\ gate' = gate
    <2>1. tab[t] \in Pages
      BY <1>1 DEF Receive, Blank
    <2>2. Here \in Origins
      BY SessionNumbers
    <2>3. [phase |-> "received", generation |-> generation,
           form |-> IF tagged THEN tab[t].generation ELSE None,
           household |-> tab[t].household,
           origin |-> IF tagged THEN tab[t].origin ELSE Here] \in UploadStates
      BY <2>1, <2>2 DEF Pages, UploadStates
    <2> QED
      BY <1>1, <2>3 DEF Receive
  <1>2. ASSUME NEW u \in Uploads, Admit(u)
        PROVE  upload' \in [Uploads -> UploadStates \cup {Idle}] /\ gate' \in Uploads \cup {None}
    <2>1. upload[u] \in UploadStates
      BY <1>2 DEF Admit, Idle
    <2>2. [upload[u] EXCEPT !.phase = "admitted"] \in UploadStates
      BY <2>1 DEF UploadStates
    <2> QED
      BY <1>2, <2>2 DEF Admit
  <1>3. ASSUME NEW u \in Uploads, Extract(u)
        PROVE  upload' \in [Uploads -> UploadStates \cup {Idle}] /\ gate' \in Uploads \cup {None}
    <2>1. upload[u] \in UploadStates
      BY <1>3 DEF Extract, Idle
    <2>2. \A found \in {"one", "many"} : [upload[u] EXCEPT !.phase = found] \in UploadStates
      BY <2>1 DEF UploadStates
    <2> QED
      BY <1>3, <2>2 DEF Extract, Finish
  <1>4. ASSUME NEW u \in Uploads, StoreUpload(u) \/ StoreNothing(u) \/ \E k \in Tokens : PutPreview(u, k)
        PROVE  upload' \in [Uploads -> UploadStates \cup {Idle}] /\ gate' \in Uploads \cup {None}
    BY <1>4 DEF StoreUpload, StoreNothing, PutPreview, Finish
  <1>5. CASE Restart
    BY <1>5 DEF Restart
  <1>6. CASE Browse \/ Map \/ Replace \/ Publish \/ UNCHANGED vars
    <2>1. UNCHANGED <<upload, gate>>
      BY <1>6 DEF Browse, ReadGeneration, ReadData, ShowPage, SwitchHousehold, Map, Confirm,
                  Cancel, Expire, Replace, Publish, vars
    <2> QED
      BY <2>1
  <1> QED
    BY <1>1, <1>2, <1>3, <1>4, <1>5, <1>6 DEF Next, Handle

\* A page keeps its type.
LEMMA PagesType ==
    ASSUME SessionTypeOK, [Next]_vars
    PROVE  tab' \in [Tabs -> Pages \cup {Blank}]
  <1> USE DEF SessionTypeOK
  <1>0. Here \in Origins
    BY SessionNumbers
  <1>1. ASSUME NEW t \in Tabs, ReadGeneration(t)
        PROVE  tab' \in [Tabs -> Pages \cup {Blank}]
    BY <1>0, <1>1 DEF ReadGeneration, Pages
  <1>2. ASSUME NEW t \in Tabs, ReadData(t)
        PROVE  tab' \in [Tabs -> Pages \cup {Blank}]
    <2>1. tab[t] \in Pages
      BY <1>2 DEF ReadData, Blank
    <2>2. [phase |-> "loaded", generation |-> PageGeneration(t),
           household |-> tab[t].household, origin |-> Here] \in Pages
      BY <1>0, <2>1 DEF Pages, PageGeneration
    <2> QED
      BY <1>2, <2>2 DEF ReadData
  <1>3. ASSUME NEW t \in Tabs, ShowPage(t)
        PROVE  tab' \in [Tabs -> Pages \cup {Blank}]
    <2>1. tab[t] \in Pages
      BY <1>3 DEF ShowPage, Blank
    <2>2. [tab[t] EXCEPT !.phase = "open"] \in Pages
      BY <2>1 DEF Pages
    <2> QED
      BY <1>3, <2>2 DEF ShowPage
  <1>4. CASE Restart
    BY <1>4 DEF Restart
  <1>5. ASSUME NEW u \in Uploads, Handle(u)
        PROVE  tab' = tab
    BY <1>5 DEF Handle, Admit, Extract, StoreUpload, StoreNothing, PutPreview
  <1>6. ASSUME NEW u \in Uploads, NEW t \in Tabs, NEW tagged \in BOOLEAN, Receive(u, t, tagged)
        PROVE  tab' = tab
    BY <1>6 DEF Receive
  <1>7. CASE (\E h \in Households : SwitchHousehold(h)) \/ Map \/ Replace \/ Publish \/ UNCHANGED vars
    BY <1>7 DEF SwitchHousehold, Map, Confirm, Cancel, Expire, Replace, Publish, vars
  <1> QED
    BY <1>1, <1>2, <1>3, <1>4, <1>5, <1>6, <1>7 DEF Next, Browse

\* Previews keep their type, and so does what is written from them.
LEMMA PreviewsType ==
    ASSUME SessionTypeOK, [Next]_vars
    PROVE  previews' \in [Tokens -> Pending \cup {Absent}] /\ written' \in Writes \cup {None}
  <1> USE DEF SessionTypeOK
  <1>0. Here \in Origins
    BY SessionNumbers
  <1>1. ASSUME NEW u \in Uploads, NEW k \in Tokens, PutPreview(u, k)
        PROVE  previews' \in [Tokens -> Pending \cup {Absent}] /\ written' \in Writes \cup {None}
    <2>1. upload[u] \in UploadStates
      BY <1>1 DEF PutPreview, Idle
    <2>2. [phase |-> "held", household |-> upload[u].household, origin |-> upload[u].origin,
           expired |-> FALSE] \in Pending
      BY <2>1 DEF UploadStates, Pending
    <2> QED
      BY <1>1, <2>2, PrunedType DEF PutPreview
  <1>2. ASSUME NEW u \in Uploads, StoreUpload(u)
        PROVE  previews' \in [Tokens -> Pending \cup {Absent}] /\ written' \in Writes \cup {None}
    <2>1. upload[u] \in UploadStates
      BY <1>2 DEF StoreUpload, Idle
    <2>2. [by |-> "upload", prepared |-> upload[u].origin, applied |-> Here] \in Writes
      BY <1>0, <2>1 DEF UploadStates, Writes
    <2> QED
      BY <1>2, <2>2 DEF StoreUpload, Write
  <1>3. ASSUME NEW k \in Tokens, NEW h \in Households, Confirm(k, h)
        PROVE  previews' \in [Tokens -> Pending \cup {Absent}] /\ written' \in Writes \cup {None}
    <2>1. previews[k] \in Pending
      BY <1>3, SessionNumbers DEF Confirm, Open, Held, Pruned
    <2>2. [by |-> "mapping", prepared |-> previews[k].origin, applied |-> Here] \in Writes
      BY <1>0, <2>1 DEF Pending, Writes
    <2>3. written' \in Writes
      BY <1>3, <2>2 DEF Confirm, Write
    <2>4. previews' \in [Tokens -> Pending \cup {Absent}]
      BY <1>3, PrunedType DEF Confirm
    <2> QED
      BY <2>3, <2>4
  <1>4. ASSUME NEW k \in Tokens, Expire(k)
        PROVE  previews' \in [Tokens -> Pending \cup {Absent}] /\ written' = written
    <2>1. previews[k] \in Pending
      BY <1>4, SessionNumbers DEF Expire
    <2>2. [previews[k] EXCEPT !.expired = TRUE] \in Pending
      BY <2>1 DEF Pending
    <2> QED
      BY <1>4, <2>2 DEF Expire
  <1>5. ASSUME NEW k \in Tokens, NEW h \in Households, Cancel(k, h)
        PROVE  previews' \in [Tokens -> Pending \cup {Absent}] /\ written' = written
    BY <1>5, PrunedType DEF Cancel
  <1>6. CASE Publish \/ Restart
    BY <1>6 DEF Publish, Restart, NoPreviews
  <1>7. ASSUME NEW u \in Uploads, Admit(u) \/ Extract(u) \/ StoreNothing(u)
        PROVE  previews' \in {previews, Pruned(previews)} /\ written' = written
    BY <1>7 DEF Admit, Extract, StoreNothing
  <1>8. ASSUME NEW u \in Uploads, NEW t \in Tabs, NEW tagged \in BOOLEAN, Receive(u, t, tagged)
        PROVE  previews' = previews /\ written' = written
    BY <1>8 DEF Receive
  <1>9. CASE Browse \/ Replace \/ UNCHANGED vars
    <2>1. previews' \in {previews, Pruned(previews)} /\ written' = written
      BY <1>9 DEF Browse, ReadGeneration, ReadData, ShowPage, SwitchHousehold, Replace, vars
    <2> QED
      BY <2>1, PrunedType
  <1> QED
    BY <1>1, <1>2, <1>3, <1>4, <1>5, <1>6, <1>7, <1>8, <1>9, PrunedType DEF Next, Handle, Map

\* The variables keep their types; the generation stays below the data sets
\* because it counts some of their replacements.
LEMMA SessionTypeStep ==
    ASSUME SessionTypeOK, EarlierRuns >= 0, [Next]_vars
    PROVE  SessionTypeOK'
  <1>1. era' \in Eras /\ generation' \in Generations
    <2>1. era' \in Nat /\ generation' \in Nat /\ era' <= MaxEra /\ generation' <= era'
      BY OffsetStep
    <2> QED
      BY <2>1, BoundsAreNatural DEF Eras, Generations
  <1>2. start' \in Starts /\ active' \in Households /\ replacing' \in BOOLEAN
    <2> USE DEF SessionTypeOK
    <2>1. CASE Restart
      <3>1. start' \in Starts
        BY <2>1, BoundsAreNatural DEF Restart, Starts
      <3>2. active' \in Households /\ replacing' \in BOOLEAN
        BY <2>1 DEF Restart
      <3> QED
        BY <3>1, <3>2
    <2>2. CASE Replace \/ Publish
      BY <2>2 DEF Replace, Publish
    <2>3. ASSUME NEW h \in Households, SwitchHousehold(h)
          PROVE  start' = start /\ active' \in Households /\ replacing' = replacing
      BY <2>3 DEF SwitchHousehold
    <2>4. ASSUME NEW t \in Tabs, ReadGeneration(t) \/ ReadData(t) \/ ShowPage(t)
          PROVE  UNCHANGED <<start, active, replacing>>
      BY <2>4 DEF ReadGeneration, ReadData, ShowPage
    <2>5. ASSUME NEW u \in Uploads, Handle(u)
          PROVE  UNCHANGED <<start, active, replacing>>
      BY <2>5 DEF Handle, Admit, Extract, StoreUpload, StoreNothing, PutPreview
    <2>6. ASSUME NEW u \in Uploads, NEW t \in Tabs, NEW tagged \in BOOLEAN, Receive(u, t, tagged)
          PROVE  UNCHANGED <<start, active, replacing>>
      BY <2>6 DEF Receive
    <2>7. CASE Map \/ UNCHANGED vars
      <3>1. UNCHANGED <<start, active, replacing>>
        BY <2>7 DEF Map, Confirm, Cancel, Expire, vars
      <3> QED
        BY <3>1
    <2> QED
      BY <2>1, <2>2, <2>3, <2>4, <2>5, <2>6, <2>7 DEF Next, Browse
  <1> QED
    BY <1>1, <1>2, UploadsType, PagesType, PreviewsType DEF SessionTypeOK

\* A server that starts satisfies the invariant.
LEMMA SessionInit == Init => SessionInv
  <1> SUFFICES ASSUME Init PROVE SessionInv
    OBVIOUS
  <1>1. SessionTypeOK
    <2>1. era \in Eras /\ start \in Starts /\ generation \in Generations
      BY BoundsAreNatural DEF Init, Eras, Starts, Generations
    <2> QED
      BY <2>1 DEF Init, SessionTypeOK
  <1>2. Held(previews) = {}
    BY DEF Init, Held
  <1>3. Cardinality(Held(previews)) <= MaxPreviews
    BY <1>2, FS_EmptySet, BoundsAreNatural
  <1>4. EarlierRuns >= 0
    BY DEF Init, EarlierRuns, Counted
  <1> QED
    BY <1>1, <1>2, <1>3, <1>4 DEF Init, SessionInv, PagesAreBehind, UploadsKnowTheirData, PreviewsArePast,
          PreviewsFitTheData, NothingStaleWhileRunning

\* Every request and every replacement of the data keep the invariant.
LEMMA SessionNext == SessionInv /\ [Next]_vars => SessionInv'
  <1> SUFFICES ASSUME SessionInv, [Next]_vars PROVE SessionInv'
    OBVIOUS
  <1>1. SessionTypeOK' /\ EarlierRuns' >= 0
    BY SessionTypeStep, OffsetStep DEF SessionInv
  <1>2. PagesAreBehind' /\ UploadsKnowTheirData' /\ PreviewsArePast'
    BY PagesStep, UploadsStep, PreviewsPastStep DEF SessionInv
  <1>3. PreviewsFitTheData' /\ NothingStaleWhileRunning'
    BY PreviewsFitStep, WriteStep DEF SessionInv
  <1> QED
    BY <1>1, <1>2, <1>3 DEF SessionInv

LEMMA SessionInvariance == Spec => []SessionInv
  BY SessionInit, SessionNext, PTL DEF Spec

\* Pages, uploads, previews and their numbers stay what they are, for any
\* number of tabs, requests, replacements and starts.
THEOREM SessionsTypeCorrect == Spec => []SessionTypeOK
  <1>1. SessionInv => SessionTypeOK
    BY DEF SessionInv
  <1> QED
    BY <1>1, SessionInvariance, PTL

\* While the server runs, nothing that was prepared for one data set is written
\* into another one, by an upload or by a mapping (epoch, put, current, reset).
THEOREM NothingStaleIsWritten == Spec => []NothingStaleWhileRunning
  <1>1. SessionInv => NothingStaleWhileRunning
    BY DEF SessionInv
  <1> QED
    BY <1>1, SessionInvariance, PTL

\* What waits for its mapping was prepared for the present data, and there is
\* never more of it than maxImportPreviews (put, reset).
THEOREM PreviewsAlwaysFit == Spec => []PreviewsFitTheData
  <1>1. SessionInv => PreviewsFitTheData
    BY DEF SessionInv
  <1> QED
    BY <1>1, SessionInvariance, PTL

-----------------------------------------------------------------------------
(***************************************************************************)
(* Households: one step.                                                   *)
(***************************************************************************)

\* A handler that takes up a task leaves the others to theirs.
LEMMA DoesOne ==
    ASSUME HouseholdsTyped, NEW r \in Handlers, NEW d, H!Does(r, d)
    PROVE  /\ doing' = [t \in Handlers |-> doing'[t]]
           /\ doing'[r] = d
           /\ \A t \in Handlers \ {r} : doing'[t] = doing[t]
  BY DEF HouseholdsTyped, H!Does

\* A household added to the list is the next one to be numbered.
LEMMA AddedHousehold ==
    ASSUME NEW o
    PROVE  DOMAIN H!Added(o) = DOMAIN o \cup {nextId}
  BY DEF H!Added, H!Stored

\* A selection either succeeds and nobody is mistaken about it, or is a lapse.
LEMMA SelectExplains ==
    ASSUME NEW h, H!Select(h)
    PROVE  ActiveOrExplained'
  BY DEF H!Select, H!Stored, ActiveOrExplained, Mistaken

\* Seeding gives numbers out and explains what it does.
LEMMA SeedStep ==
    ASSUME HouseholdsTyped, NEW o, o = order \/ DOMAIN o = {}, H!EnsureSeed(o)
    PROVE  /\ nextId' \in {nextId, nextId + 1}
           /\ DOMAIN order' \subseteq Known'
           /\ \/ ActiveOrExplained'
              \/ order' = order /\ selected \in DOMAIN order /\ UNCHANGED <<selected, lapse>>
  <1>1. nextId \in Nat \ {0} /\ DOMAIN order \subseteq Known
    BY DEF HouseholdsTyped
  <1>2. CASE DOMAIN o = {}
    <2>1. order' = H!Added(o) /\ nextId' = nextId + 1 /\ H!Select(nextId)
      BY <1>2 DEF H!EnsureSeed, H!Stored
    <2>2. DOMAIN order' = {nextId}
      BY <1>2, <2>1, AddedHousehold
    <2> QED
      BY <1>1, <2>1, <2>2, SelectExplains DEF Known
  <1>3. CASE DOMAIN o # {}
    <2>1. o = order /\ order' = o /\ nextId' = nextId
      BY <1>3 DEF H!EnsureSeed, H!Stored
    <2>2. DOMAIN order' \subseteq Known'
      BY <1>1, <2>1 DEF Known
    <2>3. CASE H!Active = 0
      <3>1. H!Select(H!First(o))
        BY <1>3, <2>3 DEF H!EnsureSeed, H!Stored
      <3> QED
        BY <2>1, <2>2, <3>1, SelectExplains
    <2>4. CASE H!Active # 0
      <3>1. selected \in DOMAIN order /\ selected' = selected /\ lapse' = lapse
        BY <1>3, <2>4 DEF H!EnsureSeed, H!Stored, H!Active
      <3> QED
        BY <2>1, <2>2, <3>1
    <2> QED
      BY <2>3, <2>4
  <1> QED
    BY <1>2, <1>3

\* The tasks of the handlers and the numbers of the households keep their types.
LEMMA HouseholdsTypedStep ==
    ASSUME HouseholdsTyped, [H!Next]_(H!vars)
    PROVE  HouseholdsTyped'
  <1> DEFINE Numbers == /\ nextId' \in Nat /\ nextId <= nextId'
                        /\ DOMAIN order' \subseteq Known'
                        /\ saved' = saved \/ \A file \in saved' : DOMAIN file.order \subseteq Known'
             Tasks == /\ doing' = [t \in Handlers |-> doing'[t]]
                      /\ \A t \in Handlers : doing'[t] = doing[t] \/ Task(doing'[t])
  <1>0. nextId \in Nat \ {0} /\ DOMAIN order \subseteq Known
    BY DEF HouseholdsTyped
  <1>1. ASSUME Numbers, Tasks
        PROVE  HouseholdsTyped'
    <2>1. Known \subseteq Known'
      BY <1>0, <1>1 DEF Known
    <2>2. ASSUME NEW t \in Handlers
          PROVE  Task(doing[t])'
      <3>1. Task(doing'[t])
        BY <1>1 DEF HouseholdsTyped
      <3> QED
        BY <2>1, <3>1 DEF Task
    <2>3. \A file \in saved' : DOMAIN file.order \subseteq Known'
      BY <1>1, <2>1 DEF HouseholdsTyped
    <2>4. nextId' \in Nat \ {0}
      BY <1>0, <1>1
    <2> QED
      BY <1>1, <2>2, <2>3, <2>4 DEF HouseholdsTyped
  <1> USE DEF H!Stored
  <1>2. CASE UNCHANGED H!vars
    <2>1. Numbers /\ Tasks
      BY <1>0, <1>2 DEF H!vars, HouseholdsTyped, Known
    <2> QED
      BY <1>1, <2>1
  <1>3. CASE H!Restart
    <2>1. nextId' \in {nextId, nextId + 1} /\ DOMAIN order' \subseteq Known' /\ saved' = saved
      BY <1>3, SeedStep DEF H!Restart
    <2>2. Tasks
      BY <1>3 DEF H!Restart, Task
    <2> QED
      BY <1>0, <1>1, <2>1, <2>2
  <1>4. CASE H!CreateHouseholdSeeded
    <2>1. DOMAIN order' = DOMAIN order \cup {nextId} /\ nextId' = nextId + 1
          /\ saved' = saved /\ doing' = doing
      BY <1>4, AddedHousehold DEF H!CreateHouseholdSeeded
    <2>2. Numbers /\ Tasks
      BY <1>0, <2>1 DEF HouseholdsTyped, Known
    <2> QED
      BY <1>1, <2>2
  <1>5. ASSUME NEW h, NEW delta, H!MoveHousehold(h, delta)
        PROVE  HouseholdsTyped'
    <2>1. DOMAIN order' = DOMAIN order /\ UNCHANGED <<nextId, saved, doing>>
      BY <1>5 DEF H!MoveHousehold, H!Swapped, H!Renumbered
    <2>2. Numbers /\ Tasks
      BY <1>0, <2>1 DEF HouseholdsTyped, Known
    <2> QED
      BY <1>1, <2>2
  <1>6. CASE H!Reset
    <2>1. nextId' \in {nextId, nextId + 1} /\ DOMAIN order' \subseteq Known' /\ saved' = saved
      BY <1>6, SeedStep DEF H!Reset
    <2>2. Tasks
      BY <1>6 DEF H!Reset, HouseholdsTyped
    <2> QED
      BY <1>0, <1>1, <2>1, <2>2
  <1>7. CASE H!Export
    <2>1. UNCHANGED <<nextId, order, doing>> /\ \A file \in saved' : file.order = order
      BY <1>7 DEF H!Export
    <2>2. Numbers /\ Tasks
      BY <1>0, <2>1 DEF HouseholdsTyped, Known
    <2> QED
      BY <1>1, <2>2
  <1>8. CASE H!Import
    <2>1. UNCHANGED <<nextId, saved, doing>> /\ \E file \in saved : order' = file.order
      BY <1>8 DEF H!Import
    <2>2. Numbers /\ Tasks
      BY <1>0, <2>1 DEF HouseholdsTyped, Known
    <2> QED
      BY <1>1, <2>2
  <1>9. ASSUME NEW r \in Handlers, NEW h \in 1..(nextId - 1), H!CheckChosen(r, h) \/ H!ReadActive(r, h)
        PROVE  HouseholdsTyped'
    <2>1. UNCHANGED <<nextId, order, saved>>
      BY <1>9 DEF H!CheckChosen, H!ReadActive
    <2>2. PICK d : H!Does(r, d) /\ Task(d)
      <3>1. CASE H!CheckChosen(r, h)
        BY <1>9, <3>1 DEF H!CheckChosen, Task, Known
      <3>2. CASE H!ReadActive(r, h)
        <4>1. H!Active \in Known \cup {0}
          BY <1>0 DEF H!Active
        <4> QED
          BY <1>9, <3>2, <4>1 DEF H!ReadActive, Task, Known
      <3> QED
        BY <1>9, <3>1, <3>2
    <2>3. Numbers /\ Tasks
      BY <1>0, <2>1, <2>2, DoesOne DEF Known
    <2> QED
      BY <1>1, <2>3
  <1>10. ASSUME NEW r \in Handlers, H!DeleteHousehold(r)
         PROVE  HouseholdsTyped'
    <2>1. UNCHANGED <<nextId, saved>> /\ DOMAIN order' \subseteq DOMAIN order
      BY <1>10 DEF H!DeleteHousehold
    <2>2. PICK d : H!Does(r, d) /\ Task(d)
      BY <1>10 DEF H!DeleteHousehold, Task
    <2>3. Numbers /\ Tasks
      BY <1>0, <2>1, <2>2, DoesOne DEF Known
    <2> QED
      BY <1>1, <2>3
  <1>11. ASSUME NEW r \in Handlers,
                H!SelectChosen(r) \/ H!ListRest(r) \/ H!SelectNext(r) \/ H!Disconnect(r)
         PROVE  HouseholdsTyped'
    <2>1. UNCHANGED <<nextId, order, saved>>
      BY <1>11 DEF H!SelectChosen, H!ListRest, H!SelectNext, H!Disconnect
    <2>2. PICK d : H!Does(r, d) /\ Task(d)
      BY <1>11 DEF H!SelectChosen, H!ListRest, H!SelectNext, H!Disconnect, Task
    <2>3. Numbers /\ Tasks
      BY <1>0, <2>1, <2>2, DoesOne DEF Known
    <2> QED
      BY <1>1, <2>3
  <1> QED
    BY <1>2, <1>3, <1>4, <1>5, <1>6, <1>7, <1>8, <1>9, <1>10, <1>11 DEF H!Next

\* Without a lapse some household is active, or a deletion will select one.
LEMMA ActiveOrExplainedStep ==
    ASSUME HouseholdsTyped, ActiveOrExplained, [H!Next]_(H!vars)
    PROVE  ActiveOrExplained'
  <1> DEFINE Kept == /\ lapse' = lapse /\ selected' = selected
                     /\ DOMAIN order \subseteq DOMAIN order'
                     /\ \A h \in DOMAIN order' \ DOMAIN order : h \notin Known
  <1>0. \A r \in Handlers : Task(doing[r])
    BY DEF HouseholdsTyped
  <1>1. ASSUME Kept, doing' = doing
        PROVE  ActiveOrExplained'
    <2>1. CASE lapse
      BY <1>1, <2>1 DEF ActiveOrExplained
    <2>2. CASE ~lapse /\ selected \in DOMAIN order
      BY <1>1, <2>2 DEF ActiveOrExplained, Mistaken
    <2>3. CASE ~lapse /\ selected \notin DOMAIN order
      <3>1. selected \in DOMAIN order' => selected \notin Known
        BY <1>1, <2>3
      <3>2. ASSUME NEW r \in Handlers, Mistaken(doing[r])
            PROVE  selected \in Known
        <4>1. doing[r].kind = "delete" /\ doing[r].at = "read" /\ doing[r].id = selected
          BY <3>2 DEF Mistaken
        <4>2. /\ doing[r] # H!Idle
              /\ doing[r] # [kind |-> "delete", at |-> "deleted"]
              /\ doing[r].at # "listed"
              /\ \A h \in Known : doing[r] # [kind |-> "activate", id |-> h]
          BY <4>1 DEF H!Idle
        <4>3. PICK h \in Known, w \in Known \cup {0} :
                  doing[r] = [kind |-> "delete", at |-> "read", id |-> h, was |-> w]
          BY <1>0, <4>2, Zenon DEF Task
        <4> QED
          BY <4>1, <4>3
      <3> QED
        BY <1>1, <2>3, <3>1, <3>2 DEF ActiveOrExplained, Mistaken
    <2> QED
      BY <2>1, <2>2, <2>3
  <1> USE DEF H!Stored
  <1>2. CASE UNCHANGED H!vars
    BY <1>1, <1>2 DEF H!vars
  <1>3. CASE H!Restart
    <2>1. CASE order' = order /\ selected \in DOMAIN order /\ UNCHANGED <<selected, lapse>>
      <3>1. \A r \in Handlers : ~Mistaken(doing[r])'
        BY <1>3 DEF H!Restart, Mistaken, H!Idle
      <3> QED
        BY <2>1, <3>1 DEF ActiveOrExplained
    <2> QED
      BY <1>3, <2>1, SeedStep DEF H!Restart
  <1>4. CASE H!CreateHouseholdSeeded
    <2>1. DOMAIN order' = DOMAIN order \cup {nextId} /\ UNCHANGED <<lapse, selected, doing>>
      BY <1>4, AddedHousehold DEF H!CreateHouseholdSeeded
    <2>2. nextId \notin Known
      BY DEF HouseholdsTyped, Known
    <2> QED
      BY <1>1, <2>1, <2>2
  <1>5. ASSUME NEW h, NEW delta, H!MoveHousehold(h, delta)
        PROVE  ActiveOrExplained'
    <2>1. DOMAIN order' = DOMAIN order /\ UNCHANGED <<lapse, selected, doing>>
      BY <1>5 DEF H!MoveHousehold, H!Swapped, H!Renumbered
    <2> QED
      BY <1>1, <2>1
  <1>6. CASE H!Reset
    <2>1. H!EnsureSeed(<<>>) /\ doing' = doing /\ DOMAIN <<>> = {}
      BY <1>6 DEF H!Reset
    <2>2. CASE order' = order /\ selected \in DOMAIN order /\ UNCHANGED <<selected, lapse>>
      BY <1>1, <2>1, <2>2
    <2> QED
      BY <2>1, <2>2, SeedStep
  <1>7. CASE H!Export
    BY <1>1, <1>7 DEF H!Export
  <1>8. CASE H!Import
    <2>1. \E h : H!Select(h)
      BY <1>8 DEF H!Import
    <2> QED
      BY <2>1, SelectExplains
  <1>9. ASSUME NEW r \in Handlers, NEW h \in 1..(nextId - 1), H!CheckChosen(r, h) \/ H!ReadActive(r, h)
        PROVE  ActiveOrExplained'
    <2>1. UNCHANGED <<lapse, selected, order>> /\ doing[r] = H!Idle
      BY <1>9 DEF H!CheckChosen, H!ReadActive
    <2>2. PICK d : H!Does(r, d) /\ (selected \in DOMAIN order => ~Mistaken(d))
      <3>1. CASE H!CheckChosen(r, h)
        BY <1>9, <3>1 DEF H!CheckChosen, Mistaken
      <3>2. CASE H!ReadActive(r, h)
        <4>1. selected \in DOMAIN order => H!Active = selected
          BY DEF H!Active
        <4> QED
          BY <1>9, <3>2, <4>1 DEF H!ReadActive, Mistaken
      <3> QED
        BY <1>9, <3>1, <3>2
    <2>3. doing'[r] = d /\ \A t \in Handlers \ {r} : doing'[t] = doing[t]
      BY <2>2, DoesOne
    <2>4. ~WillSelect(doing[r])
      BY <2>1 DEF H!Idle, WillSelect
    <2> QED
      BY <2>1, <2>2, <2>3, <2>4 DEF ActiveOrExplained, Mistaken, WillSelect
  <1>10. ASSUME NEW r \in Handlers, H!DeleteHousehold(r)
         PROVE  ActiveOrExplained'
    <2>1. PICK d : H!Does(r, d)
      BY <1>10 DEF H!DeleteHousehold
    <2>2. doing'[r] = d /\ \A t \in Handlers \ {r} : doing'[t] = doing[t]
      BY <2>1, DoesOne
    <2>3. ~WillSelect(doing[r]) /\ doing[r].kind = "delete" /\ doing[r].at = "read"
          /\ selected' = selected
      BY <1>10 DEF H!DeleteHousehold, WillSelect
    <2>4. CASE doing[r].id \notin DOMAIN order
      <3>1. order' = order /\ lapse' = lapse /\ doing'[r] = H!Idle
        BY <1>10, <2>4, DoesOne DEF H!DeleteHousehold
      <3>2. ~Mistaken(doing[r])'
        BY <3>1 DEF Mistaken, H!Idle
      <3> QED
        BY <2>2, <2>3, <3>1, <3>2 DEF ActiveOrExplained, Mistaken, WillSelect
    <2>5. CASE doing[r].id \in DOMAIN order
      <3>1. /\ DOMAIN order' = DOMAIN order \ {doing[r].id}
            /\ lapse' = (lapse \/ DOMAIN order' = {})
            /\ doing'[r] = IF H!WasActive(r) THEN [kind |-> "delete", at |-> "deleted"]
                           ELSE H!Idle
        BY <1>10, <2>5, DoesOne DEF H!DeleteHousehold
      <3>2. ~Mistaken(doing[r])'
        BY <3>1 DEF Mistaken, H!Idle
      <3>3. CASE lapse \/ DOMAIN order' = {}
        BY <3>1, <3>3 DEF ActiveOrExplained
      <3>4. CASE ~lapse /\ DOMAIN order' # {} /\ selected = doing[r].id
        <4>1. H!WasActive(r)
          BY <2>3, <2>5, <3>4 DEF ActiveOrExplained, Mistaken, H!WasActive
        <4>2. WillSelect(doing[r])'
          BY <3>1, <4>1 DEF WillSelect
        <4>3. selected' \notin DOMAIN order'
          BY <2>3, <3>1, <3>4
        <4> QED
          BY <3>4, <4>2, <4>3 DEF ActiveOrExplained
      <3>5. CASE ~lapse /\ DOMAIN order' # {} /\ selected # doing[r].id
        BY <2>2, <2>3, <3>1, <3>2, <3>5 DEF ActiveOrExplained, Mistaken, WillSelect
      <3> QED
        BY <3>3, <3>4, <3>5
    <2> QED
      BY <2>4, <2>5
  <1>11. ASSUME NEW r \in Handlers, H!ListRest(r)
         PROVE  ActiveOrExplained'
    <2>1. UNCHANGED <<lapse, selected, order>>
      BY <1>11 DEF H!ListRest
    <2>2. /\ \A t \in Handlers \ {r} : doing'[t] = doing[t]
          /\ doing'[r] = IF DOMAIN order = {} THEN H!Idle
                         ELSE [kind |-> "delete", at |-> "listed", next |-> H!First(order)]
      BY <1>11, DoesOne DEF H!ListRest
    <2>3. ~Mistaken(doing[r])'
      BY <2>2 DEF Mistaken, H!Idle
    <2>4. DOMAIN order # {} => WillSelect(doing[r])'
      BY <2>2 DEF WillSelect
    <2> QED
      BY <2>1, <2>2, <2>3, <2>4 DEF ActiveOrExplained, Mistaken
  <1>12. ASSUME NEW r \in Handlers, H!SelectChosen(r) \/ H!SelectNext(r)
         PROVE  ActiveOrExplained'
    <2>1. \E h : H!Select(h)
      BY <1>12 DEF H!SelectChosen, H!SelectNext
    <2> QED
      BY <2>1, SelectExplains
  <1>13. ASSUME NEW r \in Handlers, H!Disconnect(r)
         PROVE  ActiveOrExplained'
    <2>1. UNCHANGED <<selected, order>> /\ lapse' = (lapse \/ WillSelect(doing[r]))
      BY <1>13 DEF H!Disconnect, WillSelect
    <2>2. doing'[r] = H!Idle /\ \A t \in Handlers \ {r} : doing'[t] = doing[t]
      BY <1>13, DoesOne DEF H!Disconnect
    <2>3. ~Mistaken(doing[r])'
      BY <2>2 DEF Mistaken, H!Idle
    <2> QED
      BY <2>1, <2>2, <2>3 DEF ActiveOrExplained, Mistaken, WillSelect
  <1> QED
    BY <1>2, <1>3, <1>4, <1>5, <1>6, <1>7, <1>8, <1>9, <1>10, <1>11, <1>12, <1>13 DEF H!Next

LEMMA HouseholdInvariance == H!Spec => []HouseholdInv
  <1>1. H!Init => HouseholdInv
    <2> SUFFICES ASSUME H!Init PROVE HouseholdInv
      OBVIOUS
    <2>1. HouseholdsTyped
      BY DEF H!Init, HouseholdsTyped, Known, Task
    <2>2. ActiveOrExplained
      BY DEF H!Init, ActiveOrExplained, Mistaken, H!Idle
    <2> QED
      BY <2>1, <2>2 DEF HouseholdInv
  <1>2. HouseholdInv /\ [H!Next]_(H!vars) => HouseholdInv'
    BY HouseholdsTypedStep, ActiveOrExplainedStep DEF HouseholdInv
  <1> QED
    BY <1>1, <1>2, PTL DEF H!Spec

\* However many requests create, move, choose, delete, reset and restore
\* households at the same time and are cut short: when nothing is under way and
\* no household is active, the last one had been deleted, a deletion was cut
\* short, or a household was chosen while it was being deleted.
THEOREM LapsesAreKnown == H!Spec => []OnlyKnownLapses
  <1>1. HouseholdInv => OnlyKnownLapses
    <2> SUFFICES ASSUME HouseholdInv, H!Quiet, DOMAIN order # {}, H!Active = 0, ~lapse
                 PROVE  FALSE
      BY DEF OnlyKnownLapses, H!OnlyKnownLapses, H!Stored
    <2>1. \A r \in Handlers : ~WillSelect(doing[r])
      BY DEF H!Quiet, H!Idle, WillSelect
    <2>2. selected \in DOMAIN order
      BY <2>1 DEF HouseholdInv, ActiveOrExplained
    <2>3. H!Active = selected /\ selected \in Known
      BY <2>2 DEF H!Active, H!Stored, HouseholdInv, HouseholdsTyped
    <2> QED
      BY <2>3 DEF Known, HouseholdInv, HouseholdsTyped
  <1> QED
    BY <1>1, HouseholdInvariance, PTL
=============================================================================
