------------------------------ MODULE MCSystem ------------------------------
(* Instances of System for TLC: one funding account and one user. *)
EXTENDS System, TLC

MCProfile ==
    [a \in AccountIds |->
        [named |-> TRUE, kind |-> "asset", currency |-> "USD", allowNegative |-> a = 1]]

MCCommand ==
    [b \in WellFormed |->
        [debit |-> 2, credit |-> 1, amount |-> 2, currency |-> "USD", ref |-> NoRef]]

MCFingerprint == [b \in Bodies |-> b]
=============================================================================
