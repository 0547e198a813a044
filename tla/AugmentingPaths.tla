-------------------------- MODULE AugmentingPaths ---------------------------
(***************************************************************************)
(* The algorithm of matchBankPayments (internal/store/bank_reconcile.go).  *)
(* PaymentMatching states what it has to return; a payment's keys are its  *)
(* fingerprints.                                                           *)
(*                                                                         *)
(* For each line, the function `assign` of the code calls itself along a   *)
(* path of payments that are taken: the key of each has to find another    *)
(* payment.  The path is the stack of these calls: `trail` holds the       *)
(* payment whose key each call tries to move.  A step is what one call     *)
(* does before it calls again or returns.  Cancellation of the context,    *)
(* which ends the whole upload, is left out.                               *)
(***************************************************************************)
EXTENDS PaymentMatching, FiniteSetsExt, SequencesExt

CONSTANTS
    Keys,        \* fingerprints
    MaxStored,   \* bound: payments the account holds
    MaxLines,    \* bound: lines of the statement
    None         \* no fingerprint: a payment stored before sources were kept,
                 \* or a payment not assigned

ASSUME MatchBounds == MaxStored \in Nat /\ MaxLines \in Nat
ASSUME NoneIsNoKey == None \notin Keys

VARIABLES
    existing,    \* the payments of the account, in ledger order
    incoming,    \* the keys of the statement's lines
    line,        \* the line to be assigned
    assigned,    \* the key each stored payment is used for
    trail,       \* the payments on the path, outermost call first
    visited,     \* the keys the search for this line has come to
    matched      \* the stored payment of each recognised line

pathVars == <<existing, incoming, line, assigned, trail, visited, matched>>

Stored == [current: Keys, source: Keys \cup {None}]
Nothing == [i \in {} |-> None]

AtMost(n, S) == UNION {[1..k -> S] : k \in 0..n}

MatchInit ==
    /\ existing \in AtMost(MaxStored, Stored)
    /\ incoming \in AtMost(MaxLines, Keys)
    /\ line = 1
    /\ assigned = [i \in DOMAIN existing |-> None]
    /\ trail = <<>> /\ visited = {}
    /\ matched = Nothing

\* candidates[key]
Candidates(key) == {i \in DOMAIN existing : Answers(existing[i], key)}

\* The key that the n-th call is for, and the one of the innermost call.
KeyOf(n) == IF n = 1 THEN incoming[line] ELSE assigned[trail[n - 1]]
Key == KeyOf(Len(trail) + 1)

Free == {i \in Candidates(Key) : assigned[i] = None}

NothingMovable(key) == {}

\* The payments whose keys can be asked to move: the second loop calls for them
\* in ledger order, and a call for a visited key returns at once.
Movable(key) == {i \in Candidates(key) : assigned[i] \notin visited \cup {key}}

Searching == line <= Len(incoming)
NextLine == line' = line + 1 /\ trail' = <<>> /\ visited' = {}

\* The first free payment is taken, and every call on the stack returns true: each
\* takes the payment whose key has moved.
TakeFree ==
    /\ Searching /\ Free # {}
    /\ assigned' = [i \in DOMAIN existing |->
                       IF i = Min(Free) THEN Key
                       ELSE IF \E n \in DOMAIN trail : trail[n] = i
                            THEN KeyOf(CHOOSE n \in DOMAIN trail : trail[n] = i)
                            ELSE assigned[i]]
    /\ NextLine
    /\ UNCHANGED <<existing, incoming, matched>>

Displace ==
    /\ Searching /\ Free = {} /\ Movable(Key) # {}
    /\ trail' = Append(trail, Min(Movable(Key)))
    /\ visited' = visited \cup {Key}
    /\ UNCHANGED <<existing, incoming, line, assigned, matched>>

\* The call returns false, and so does the search if it was the outermost.
GiveUp ==
    /\ Searching /\ Free = {} /\ Movable(Key) = {}
    /\ IF trail = <<>> THEN NextLine
       ELSE /\ trail' = Front(trail)
            /\ visited' = visited \cup {Key}
            /\ UNCHANGED line
    /\ UNCHANGED <<existing, incoming, assigned, matched>>

\* The payments assigned to a key go to the lines of that key, both in order.
Place(i) == Cardinality({j \in DOMAIN incoming : j < i /\ incoming[j] = incoming[i]})
Rank(r) == Cardinality({q \in DOMAIN existing : q < r /\ assigned[q] = assigned[r]})
Gets(i) == {r \in DOMAIN existing : assigned[r] = incoming[i] /\ Rank(r) = Place(i)}

Distribute ==
    /\ line = Len(incoming) + 1
    /\ matched' = [i \in {j \in DOMAIN incoming : Gets(j) # {}} |-> CHOOSE r \in Gets(i) : TRUE]
    /\ line' = line + 1
    /\ UNCHANGED <<existing, incoming, assigned, trail, visited>>

MatchNext == TakeFree \/ Displace \/ GiveUp \/ Distribute
MatchSpec == MatchInit /\ [][MatchNext]_pathVars

-----------------------------------------------------------------------------
\* The lines the algorithm recognises are exactly those the ledger may treat as
\* already imported, each with a payment of its own that answers to it: no alias
\* steals another line's only match, whatever the order of lines and payments
\* (the comment on matchBankPayments).
MatchesAreRecognised ==
    line > Len(incoming) + 1 =>
        /\ matched \in Injection(Recognised(incoming, existing), DOMAIN existing)
        /\ \A i \in DOMAIN matched : Answers(existing[matched[i]], incoming[i])
=============================================================================
