----------------------------- MODULE ExactlyOnce -----------------------------
(***************************************************************************)
(* What POST /transactions promises its clients, with no database in       *)
(* sight: a request is answered once; under each Idempotency-Key money     *)
(* moves at most once, in one instant, in one currency and with the funds  *)
(* there to cover it; a refusal is justified when it is made; and only an answer that     *)
(* says nothing (a 500) may be followed by the movement it did not report. *)
(***************************************************************************)
EXTENDS Integers

CONSTANTS
    Requests, Keys, Headers, Bodies,
    Command,        \* body -> the transfer it asks for
    Fingerprint,    \* body -> what makes two bodies the same request
    AccountIds,
    CurrencyOf,     \* account -> the currency it is kept in
    MayGoNegative,  \* accounts that fund others without limit
    NoRef, NoTx

VARIABLES
    req,            \* the key and the body of each request
    posted,         \* key -> the request that moved money under it, or NoTx
    balance,        \* account -> money
    answer          \* request -> what its client has been told

vars == <<req, posted, balance, answer>>

Unanswered == [kind |-> "none", tx |-> NoTx]

(* Answers that promise that nothing happened ... *)
Refusals == {"key_required", "key_invalid", "bad_request", "invalid_amount",
             "invalid_currency", "same_account", "account_not_found",
             "duplicate_ref", "key_reuse", "currency_mismatch", "insufficient_funds"}

Key(r) == req[r].key
Transfer(r) == Command[req[r].body]
SameRequest(r, s) == Fingerprint[req[r].body] = Fingerprint[req[s].body]

Init ==
    /\ req \in [Requests -> [key : Headers, body : Bodies]]
    /\ posted = [k \in Keys |-> NoTx]
    /\ balance = [a \in AccountIds |-> 0]
    /\ answer = [r \in Requests |-> Unanswered]

Covered(r) ==
    \/ Transfer(r).credit \in MayGoNegative
    \/ balance[Transfer(r).credit] >= Transfer(r).amount

OneCurrency(r) ==
    \A a \in {Transfer(r).debit, Transfer(r).credit} : CurrencyOf[a] = Transfer(r).currency

(* ... and what each of them claims about the ledger. *)
Justified(r, kind) ==
    /\ kind = "insufficient_funds" => ~Covered(r)
    /\ kind = "currency_mismatch" => ~OneCurrency(r)
    /\ kind = "key_reuse" =>
        /\ Key(r) \in Keys
        /\ posted[Key(r)] # NoTx
        /\ ~SameRequest(r, posted[Key(r)])
    /\ kind = "duplicate_ref" =>
        /\ Transfer(r).ref # NoRef
        /\ \E k \in Keys : posted[k] # NoTx /\ Transfer(posted[k]).ref = Transfer(r).ref

Says(r, kind, tx) == answer' = [answer EXCEPT ![r] = [kind |-> kind, tx |-> tx]]

(* The money moves. *)
Moves(r) ==
    /\ Key(r) \in Keys
    /\ posted[Key(r)] = NoTx
    /\ Covered(r) /\ OneCurrency(r)
    /\ posted' = [posted EXCEPT ![Key(r)] = r]
    /\ balance' = [a \in AccountIds |->
                    IF a = Transfer(r).debit THEN balance[a] + Transfer(r).amount
                    ELSE IF a = Transfer(r).credit THEN balance[a] - Transfer(r).amount
                    ELSE balance[a]]
    /\ UNCHANGED req

Post(r) == answer[r] = Unanswered /\ Moves(r) /\ Says(r, "created", r)

(* The client was told "internal error" before the commit went through. *)
PostLate(r) == answer[r].kind = "internal" /\ Moves(r) /\ UNCHANGED answer

Replay(r) ==
    /\ answer[r] = Unanswered
    /\ Key(r) \in Keys
    /\ posted[Key(r)] # NoTx
    /\ SameRequest(r, posted[Key(r)])
    /\ Says(r, "replayed", posted[Key(r)])
    /\ UNCHANGED <<req, posted, balance>>

Refuse(r, kind) ==
    /\ answer[r] = Unanswered
    /\ Says(r, kind, NoTx)
    /\ Justified(r, kind)
    /\ UNCHANGED <<req, posted, balance>>

GiveUp(r) ==
    /\ answer[r] = Unanswered
    /\ Says(r, "internal", NoTx)
    /\ UNCHANGED <<req, posted, balance>>

Next == \E r \in Requests :
            \/ Post(r) \/ PostLate(r) \/ Replay(r) \/ GiveUp(r)
            \/ \E kind \in Refusals : Refuse(r, kind)

Spec == Init /\ [][Next]_vars
=============================================================================
