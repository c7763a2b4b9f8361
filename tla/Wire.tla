-------------------------------- MODULE Wire --------------------------------
(***************************************************************************)
(* What POST /transactions makes of the bytes it is sent: the check of the *)
(* Idempotency-Key, the strict decoding into createTransactionRequest and  *)
(* TransferCommand, and the fingerprint of the body.  Pure functions.      *)
(*                                                                         *)
(* A body comes with the path it is sent to, with or without a slash at    *)
(* the end (the router takes both); it has the form of its text and the    *)
(* members of its JSON object in their order.  A member names a field, in  *)
(* the spelling of the struct tag or in another letter case, and a scalar: *)
(* its type, what it stands for and how it is written ("2" and "2.0", a UUID *)
(* in lower or upper case).  A key is the sequence of its bytes.           *)
(***************************************************************************)
EXTENDS Integers, Sequences, SequencesExt

CONSTANTS
    AccountOf,      \* names of UUIDs -> the account ids they parse to
    IntegerOf,      \* names of integer literals in the range of int64 -> their values
    MaxKeyLength,   \* idempotency.MaxKeyLength, 255 in the code
    NoRef           \* no external_ref

Scalar(type, of, style) == [type |-> type, of |-> of, style |-> style]

(* A member of the object; its field may be one the struct does not have. *)
MemberTexts ==
    [field : STRING, spelling : STRING, value : [type : STRING, of : STRING, style : STRING]]

Null == Scalar("null", "", "")
Empty == Scalar("string", "", "")

-----------------------------------------------------------------------------
(* ValidateKey: the violation, or "ok". *)
ValidateKey(key) ==
    IF key = <<>> THEN "key_required"
    ELSE IF Len(key) > MaxKeyLength THEN "key_invalid"
    ELSE IF \E i \in DOMAIN key : key[i] < 32 \/ key[i] > 126 THEN "key_invalid"
    ELSE "ok"

-----------------------------------------------------------------------------
(* unmarshalJSON into createTransactionRequest. *)

(* The request as it is before anything has been decoded into it. *)
Zero == [debit_account_id |-> Empty, credit_account_id |-> Empty,
         amount |-> Scalar("number", "0", "int"), currency |-> Empty,
         description |-> Empty, external_ref |-> Null]

(* A value of a type the field cannot take, a fraction or an integer beyond
   int64 is an error; null is none. *)
Fits(field, v) ==
    \/ v = Null
    \/ field = "amount" /\ v.type = "number" /\ v.style = "int" /\ v.of \in DOMAIN IntegerOf
    \/ field # "amount" /\ v.type = "string"

(* readJSONBody takes at most 1 MiB; DisallowUnknownFields, and exactly one
   value in the body. *)
Unmarshals(body) ==
    /\ body.form = "object"
    /\ \A i \in DOMAIN body.members :
        LET m == body.members[i] IN m.field \in DOMAIN Zero /\ Fits(m.field, m.value)

(* Members are assigned in the order of the text, in any letter case; null
   empties a pointer and leaves anything else as it is. *)
Assign(request, m) ==
    IF m.value = Null /\ m.field # "external_ref"
    THEN request
    ELSE [request EXCEPT ![m.field] = m.value]

Request(body) == FoldLeft(Assign, Zero, body.members)

(* parseUUIDField: uuid.Parse knows several ways to write a UUID. *)
ParsesUUID(v) == v.of \in DOMAIN AccountOf

(* The body makes it to the call of Service.Transfer. *)
Acceptable(body) ==
    /\ Unmarshals(body)
    /\ ParsesUUID(Request(body).debit_account_id)
    /\ ParsesUUID(Request(body).credit_account_id)

CommandOf(body) ==
    LET q == Request(body) IN
    [debit |-> AccountOf[q.debit_account_id.of],
     credit |-> AccountOf[q.credit_account_id.of],
     amount |-> IntegerOf[q.amount.of],
     currency |-> q.currency.of,
     ref |-> IF q.external_ref = Null THEN NoRef ELSE q.external_ref.of]

(* What a client asks for: the command with its description. *)
Meaning(body) == [command |-> CommandOf(body), description |-> Request(body).description.of]

-----------------------------------------------------------------------------
(* canonicalJSON and Fingerprint. *)

Names(body) == {[field |-> m.field, spelling |-> m.spelling] : m \in Range(body.members)}

(* Decoding into a map keeps the last of the members with one name. *)
Decoded(body, n) ==
    LET at == {i \in DOMAIN body.members :
                  /\ body.members[i].field = n.field
                  /\ body.members[i].spelling = n.spelling}
    IN body.members[Max(at)].value

(* Without UseNumber a literal becomes a float64, here one with three binary
   digits. *)
Rounded(v) ==
    IF v.type = "number" /\ v.of \in DOMAIN IntegerOf /\ IntegerOf[v.of] >= 8
    THEN [v EXCEPT !.of = "float", !.style = ToString(IntegerOf[v.of] \div 2)]
    ELSE v

canonicalJSON_FloatMutant(body) == [n \in Names(body) |-> Rounded(Decoded(body, n))]

(* The body is hashed as it was sent. *)
canonicalJSON_Mutant(body) == body.members

(* A map of names to scalars as they were written: the encoder sorts the
   names, so nothing is left of the order of the text. *)
canonicalJSON(body) == [n \in Names(body) |-> Decoded(body, n)]

(* SHA-256 of method, path and canonical body, taken to have no collisions;
   the method is always POST. *)
FingerprintOf(body) == <<body.path, canonicalJSON(body)>>
=============================================================================
