--------------------------- MODULE MCTransferApi ---------------------------
(* Bodies and accounts of the instances of TransferApi. *)
EXTENDS TransferApi, TLC

MCAccountOf == [id1 |-> 1, id2 |-> 2, id4 |-> 4, id5 |-> 5]
MCIntegerOf == [zero |-> 0, two |-> 2, eight |-> 8, nine |-> 9] @@ ("0" :> 0)

(* A user, a funding account, one in another currency, and one that never
   passes CreateAccountCommand.Validate; another one has no valid currency. *)
MCProfile ==
    [a \in AccountIds |->
        [named |-> a # 5, kind |-> "asset",
         currency |-> CASE a = 4 -> "EUR" [] a = 6 -> "dollars" [] OTHER -> "USD",
         allowNegative |-> a \in {2, 4}]]

MCKeys == {<<32, 126>>, <<65, 66, 67>>}
MCNoKey == <<>>
MCBadKey == <<65, 66, 67, 68>>

Member(field, type, of, style) ==
    [field |-> field, spelling |-> "tag", value |-> W!Scalar(type, of, style)]

To(id) == Member("debit_account_id", "string", id, "lower")
From(id) == Member("credit_account_id", "string", id, "lower")
Amount(n) == Member("amount", "number", n, "int")
In(c) == Member("currency", "string", c, "")
About(text) == Member("description", "string", text, "")
Ref(text) == Member("external_ref", "string", text, "")
Nothing(field) == Member(field, "null", "", "")
Respelt(m) == [m EXCEPT !.spelling = "other"]

Sent(form, members) == [path |-> "/transactions", form |-> form, members |-> members]
Object(members) == Sent("object", members)

(* One transfer written in many ways, others that differ from it a little, and
   all the ways to be refused. *)
MCText ==
    LET fund == <<To("id1"), From("id2"), Amount("two"), In("USD")>> IN
    [plain       |-> Object(fund),
     reordered   |-> Object(<<In("USD"), Amount("two"), From("id2"), To("id1")>>),
     null        |-> Object(Append(fund, Nothing("description"))),
     described   |-> Object(Append(fund, About("rent"))),
     invoice     |-> Object(Append(fund, Ref("invoice"))),
     slash       |-> [Object(fund) EXCEPT !.path = "/transactions/"],
     uppercase   |-> Object([fund EXCEPT ![1].value.style = "upper"]),
     respelt     |-> Object([fund EXCEPT ![3] = Respelt(@)]),
     eight       |-> Object([fund EXCEPT ![3] = Amount("eight")]),
     nine        |-> Object([fund EXCEPT ![3] = Amount("nine")]),
     repeated    |-> Object(fund \o <<Amount("nine")>>),
     twoCases    |-> Object(fund \o <<Respelt(Amount("nine"))>>),
     otherCases  |-> Object(<<Respelt(Amount("nine"))>> \o fund),
     cross       |-> Object([fund EXCEPT ![2] = From("id4")]),
     nowhere     |-> Object([fund EXCEPT ![1] = To("id5")]),
     self        |-> Object([fund EXCEPT ![1] = To("id2")]),
     nonsense    |-> Object([fund EXCEPT ![1] = To("nonsense")]),
     zero        |-> Object([fund EXCEPT ![3] = Amount("zero")]),
     decimal     |-> Object([fund EXCEPT ![3].value.style = "decimal"]),
     beyond      |-> Object([fund EXCEPT ![3] = Amount("beyond int64")]),
     dollars     |-> Object([fund EXCEPT ![4] = In("dollars")]),
     unknown     |-> Object(Append(fund, Member("memo", "string", "rent", ""))),
     partial     |-> Object(SubSeq(fund, 1, 2)),
     twoValues   |-> Sent("two values", fund),
     tooLarge    |-> Sent("too large", fund),
     broken      |-> Sent("broken", <<>>)]

MCBodies == DOMAIN MCText
Decodable == {b \in Bodies : W!Acceptable(MCText[b])}
MCWellFormed == Decodable

(* The tables are definitions of their own because TLC computes those once. *)
CommandTable == [b \in WellFormed |-> W!CommandOf(MCText[b])] @@ <<>>
MCCommand == CommandTable

(* A fingerprint is named by one of the bodies that have it. *)
FingerprintTable ==
    [b \in Bodies |-> CHOOSE c \in Bodies : W!FingerprintOf(MCText[c]) = W!FingerprintOf(MCText[b])]
        @@ <<>>
MCFingerprint == FingerprintTable
=============================================================================
