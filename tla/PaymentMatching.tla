-------------------------- MODULE PaymentMatching --------------------------
(***************************************************************************)
(* How an uploaded statement is compared with the payments an account      *)
(* already holds (matchBankPayments in internal/store/bank_reconcile.go).  *)
(*                                                                         *)
(* A stored payment answers to its current fingerprint and, after a        *)
(* correction, still to the fingerprint it was imported with.  Every       *)
(* stored payment is used up by at most one uploaded line.                 *)
(*                                                                         *)
(* This module states what the comparison must return; the algorithm of    *)
(* the code, augmenting paths over fingerprints, is in AugmentingPaths.    *)
(***************************************************************************)
EXTENDS Naturals, Sequences, Functions

\* The candidate relation: a key is one of the two identities of a stored
\* payment.
AnswersToCurrent(payment, key) == key = payment.current
Answers(payment, key) == key \in {payment.current, payment.source}

(***************************************************************************)
(* Some assignment of the lines in `positions` to pairwise different       *)
(* stored payments that answer to them.                                    *)
(***************************************************************************)
Coverable(positions, incoming, existing) ==
    \E use \in Injection(positions, DOMAIN existing) :
        \A i \in positions : Answers(existing[use[i]], incoming[i])

(***************************************************************************)
(* The lines recognised as already stored: going through the statement in  *)
(* order, a line is recognised unless the lines recognised before it leave *)
(* it no payment under any assignment.                                     *)
(***************************************************************************)
Recognised(incoming, existing) ==
    CHOOSE known \in SUBSET DOMAIN incoming :
        \A i \in DOMAIN incoming :
            i \in known <=>
                Coverable({j \in known : j < i} \cup {i}, incoming, existing)

=============================================================================
