-------------------------- MODULE LedgerRefinement --------------------------
(* Store.Transfer implements the exactly-once promise. *)
EXTENDS LedgerStore

(* The request whose response a key replays. *)
Posted == [k \in Keys |-> IF keys[k] = NoRow THEN NoTx ELSE keys[k].response]

Promise == INSTANCE ExactlyOnce WITH
    posted <- Posted,
    answer <- reply,
    CurrencyOf <- [a \in AccountIds |-> Profile[a].currency],
    MayGoNegative <- {a \in AccountIds : Profile[a].allowNegative}

(* Every behaviour of the handlers, the database sessions and their faults is
   one of the abstract service: each COMMIT is one atomic Post (or a late one
   after a 500), each refusal is justified at the instant it is sent, and all
   the other steps are invisible to clients. *)
ImplementsExactlyOnce == Promise!Spec
=============================================================================
