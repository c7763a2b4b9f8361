---------------------------- MODULE MCLedgerStore ----------------------------
(* Instances of LedgerStore for TLC. *)
EXTENDS LedgerInvariant, LedgerRefinement, TLC

CONSTANT ref1

(* Two users around a funding account, so that the lock order and the order of
   the command disagree, and a second funding account, so that transfers can
   meet in their reference without meeting in their rows. *)
MCProfile ==
    [a \in AccountIds |->
        [named |-> TRUE, kind |-> "asset", currency |-> "USD", allowNegative |-> a \in {2, 4}]]

Move(from, to, n, ref) ==
    [debit |-> to, credit |-> from, amount |-> n, currency |-> "USD", ref |-> ref]

Decoded ==
    [fund1    |-> Move(2, 1, 2, NoRef),
     move13   |-> Move(1, 3, 2, NoRef),
     move31   |-> Move(3, 1, 1, NoRef),
     invoice  |-> Move(2, 1, 2, ref1),
     invoice3 |-> Move(4, 3, 1, ref1)]

MCCommand == [b \in WellFormed |-> Decoded[b]]

(* Bodies that mean the same hash the same; here no two of them do. *)
MCFingerprint == [b \in Bodies |-> b]

Symmetry == Permutations(Requests) \cup Permutations(Keys)
=============================================================================
