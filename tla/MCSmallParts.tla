----------------------------- MODULE MCSmallParts -----------------------------
(***************************************************************************)
(* Three parts that share no state, checked in one run: the matching of    *)
(* every ledger of up to three payments with every statement of up to four *)
(* lines, over three fingerprints; the limiter; and the upload queue.  One *)
(* part moves while the others rest where they start, so the states of the *)
(* run are the sum of theirs and not the product.                          *)
(***************************************************************************)
EXTENDS AugmentingPaths, RateLimiter, UploadQueue

MatchingRests == existing = <<>> /\ incoming = <<>> /\ line = 1
LimiterRests == LimiterInit
QueueRests == QueueInit

\* Renaming the fingerprints changes nothing: a statement brings in the numbers
\* 1, 2, 3 in that order.
InOrder(keys) ==
    \A i \in DOMAIN keys : keys[i] \in 1..(1 + Cardinality({keys[j] : j \in 1..(i - 1)}))

PartsInit == MatchInit /\ InOrder(incoming) /\ LimiterInit /\ QueueInit

PartsNext ==
    \/ /\ LimiterRests /\ QueueRests /\ MatchNext
       /\ UNCHANGED <<limiterVars, queueVars>>
    \/ /\ MatchingRests /\ QueueRests /\ LimiterNext
       /\ UNCHANGED <<pathVars, queueVars>>
    \/ /\ MatchingRests /\ LimiterRests /\ QueueNext
       /\ UNCHANGED <<pathVars, limiterVars>>

PartsSpec == PartsInit /\ [][PartsNext]_<<pathVars, limiterVars, queueVars>>

Interchangeable ==
    Permutations(Clients) \cup Permutations(Requests) \cup Permutations(Files)
=============================================================================
