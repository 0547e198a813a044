------------------------------ MODULE Households ------------------------------
(***************************************************************************)
(* The households of a database, their order, and the one that is active   *)
(* (internal/store: households.go, ordering.go, seed.go, snapshot.go;      *)
(* internal/web/handlers_settings.go).                                     *)
(*                                                                         *)
(* A store operation is one transaction, but activating and deleting take  *)
(* several of them, one request can run between those of another, and a    *)
(* browser that goes away ends its request after any of them, because all  *)
(* of them run under the context of the request.                           *)
(***************************************************************************)
EXTENDS Integers, FiniteSetsExt

CONSTANTS
    Handlers,   \* requests served at the same time
    MaxIds      \* bound: households ever created

VARIABLES
    order,      \* sort_order of each household
    selected,   \* app_state: active_household_id, 0 when there is none
    nextId,     \* sqlite_sequence
    doing,      \* what each handler has under way
    saved,      \* a backup outside of the application, {} or one file
    lapse       \* history: a known reason why no household is active

vars == <<order, selected, nextId, doing, saved, lapse>>

Idle == [kind |-> "idle"]
Stored(o) == DOMAIN o
Quiet == \A r \in Handlers : doing[r] = Idle

\* ListHouseholds shows the household with the lowest position first.
First(o) == CHOOSE h \in Stored(o) : \A k \in Stored(o) : o[h] <= o[k]

\* The order a move starts from: how many households come before h.
Before(o, a, b) == o[a] < o[b] \/ (o[a] = o[b] /\ a < b)
Position(o, h) == Cardinality({k \in Stored(o) : Before(o, k, h)})

\* ActiveHouseholdID: a household that is gone counts as none.
Active == IF selected \in Stored(order) THEN selected ELSE 0

\* CreateHousehold gives the next position: one behind the last.
NextPosition(o) == IF Stored(o) = {} THEN 0 ELSE Max({o[h] : h \in Stored(o)}) + 1

Added(o) == [h \in Stored(o) \cup {nextId} |-> IF h = nextId THEN NextPosition(o) ELSE o[h]]

\* SetActiveHousehold.  Two selections are doomed: of a household that is gone
\* already, and of one that a deletion under way did not find active.
Select(h) ==
    /\ selected' = h
    /\ lapse' = \/ h \notin Stored(order')
                \/ \E r \in Handlers : /\ doing'[r].kind = "delete" /\ doing'[r].at = "read"
                                       /\ doing'[r].id = h /\ doing'[r].was # h

Does(r, what) == doing' = [doing EXCEPT ![r] = what]

Init ==
    /\ order = [h \in {1} |-> 0] /\ selected = 1 /\ nextId = 2
    /\ doing = [r \in Handlers |-> Idle]
    /\ saved = {} /\ lapse = FALSE

-----------------------------------------------------------------------------
(***************************************************************************)
(* One transaction each.                                                   *)
(***************************************************************************)
\* handleHouseholdCreate
CreateHouseholdSeeded ==
    /\ nextId <= MaxIds
    /\ order' = Added(order) /\ nextId' = nextId + 1
    /\ UNCHANGED <<selected, doing, saved, lapse>>

\* reorder: swap with the neighbour and renumber all.
Renumbered(o) == [h \in Stored(o) |-> Position(o, h)]
Swapped(o, h, k) == [o EXCEPT ![h] = o[k], ![k] = o[h]]

MoveHousehold(h, delta) ==
    /\ h \in Stored(order)
    /\ \E k \in Stored(order) :
          /\ Position(order, k) = Position(order, h) + delta
          /\ order' = Swapped(Renumbered(order), h, k)
    /\ UNCHANGED <<selected, nextId, doing, saved, lapse>>

\* EnsureSeed over the households in o.
EnsureSeed(o) ==
    IF Stored(o) = {}
    THEN nextId <= MaxIds /\ order' = Added(o) /\ nextId' = nextId + 1 /\ Select(nextId)
    ELSE /\ order' = o /\ UNCHANGED nextId
         /\ IF Active = 0 THEN Select(First(o)) ELSE UNCHANGED <<selected, lapse>>

\* handleDataReset
Reset ==
    /\ UNCHANGED <<doing, saved>>
    /\ EnsureSeed(<<>>)

\* Requests end with the process.
Restart ==
    /\ doing' = [r \in Handlers |-> Idle]
    /\ EnsureSeed(order)
    /\ UNCHANGED saved

\* A backup without a household is refused by Import.
Export ==
    /\ Stored(order) # {}
    /\ saved' = {[order |-> order, active |-> Active]}
    /\ UNCHANGED <<order, selected, nextId, doing, lapse>>

Import ==
    /\ UNCHANGED <<nextId, doing, saved>>
    /\ \E file \in saved :
          /\ order' = file.order
          /\ Select(IF file.active \in Stored(file.order) THEN file.active ELSE First(file.order))

-----------------------------------------------------------------------------
(***************************************************************************)
(* Several transactions.                                                   *)
(***************************************************************************)
\* handleHouseholdActivate: the household exists, then it is selected.
CheckChosen(r, h) ==
    /\ doing[r] = Idle /\ h \in Stored(order)
    /\ Does(r, [kind |-> "activate", id |-> h])
    /\ UNCHANGED <<order, selected, nextId, saved, lapse>>

SelectChosen(r) ==
    /\ doing[r].kind = "activate"
    /\ Does(r, Idle)
    /\ UNCHANGED <<order, nextId, saved>>
    /\ Select(doing[r].id)

\* handleHouseholdDelete, from a page that may be old: which household is
\* active, the deletion, and if it was the active one, the next.
ReadActive(r, h) ==
    /\ doing[r] = Idle
    /\ Does(r, [kind |-> "delete", at |-> "read", id |-> h, was |-> Active])
    /\ UNCHANGED <<order, selected, nextId, saved, lapse>>

WasActiveAfterwards(r) == selected \in Stored(order') /\ selected = doing[r].id
WasActive(r) == doing[r].was = doing[r].id

DeleteHousehold(r) ==
    /\ doing[r].kind = "delete" /\ doing[r].at = "read"
    /\ \/ /\ doing[r].id \in Stored(order)
          /\ order' = [h \in Stored(order) \ {doing[r].id} |-> order[h]]
          /\ lapse' = (lapse \/ Stored(order') = {})
          /\ Does(r, IF WasActive(r) THEN [kind |-> "delete", at |-> "deleted"] ELSE Idle)
       \/ /\ doing[r].id \notin Stored(order)
          /\ Does(r, Idle)
          /\ UNCHANGED <<order, lapse>>
    /\ UNCHANGED <<selected, nextId, saved>>

ListRest(r) ==
    /\ doing[r].kind = "delete" /\ doing[r].at = "deleted"
    /\ Does(r, IF Stored(order) = {} THEN Idle
               ELSE [kind |-> "delete", at |-> "listed", next |-> First(order)])
    /\ UNCHANGED <<order, selected, nextId, saved, lapse>>

SelectNext(r) ==
    /\ doing[r].kind = "delete" /\ doing[r].at = "listed"
    /\ Does(r, Idle)
    /\ UNCHANGED <<order, nextId, saved>>
    /\ Select(doing[r].next)

\* The browser goes away; the next transaction fails.
Disconnect(r) ==
    /\ doing[r] # Idle
    /\ Does(r, Idle)
    /\ lapse' = (lapse \/ (doing[r].kind = "delete" /\ doing[r].at \in {"deleted", "listed"}))
    /\ UNCHANGED <<order, selected, nextId, saved>>

Next ==
    \/ Restart
    \/ \E r \in Handlers :
          \/ /\ doing[r] = Idle
             /\ \/ CreateHouseholdSeeded
                \/ \E h \in Stored(order) : \E delta \in {-1, 1} : MoveHousehold(h, delta)
                \/ Reset
                \/ Export
                \/ Import
          \/ \E h \in 1..(nextId - 1) : CheckChosen(r, h) \/ ReadActive(r, h)
          \/ SelectChosen(r)
          \/ DeleteHousehold(r)
          \/ ListRest(r)
          \/ SelectNext(r)
          \/ Disconnect(r)

Spec == Init /\ [][Next]_vars

-----------------------------------------------------------------------------
(***************************************************************************)
(* Properties.                                                             *)
(***************************************************************************)
\* When nothing is under way and no household is active although there are some,
\* then for a reason named here: the last one had been deleted, a deletion was cut
\* short, or a household was chosen while it was being deleted.
OnlyKnownLapses == Quiet /\ Stored(order) # {} /\ Active = 0 => lapse
=============================================================================
