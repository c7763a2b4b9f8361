---------------------------- MODULE TransferApi ----------------------------
(***************************************************************************)
(* POST /transactions with real requests: LedgerStore, where keys are      *)
(* strings of bytes and each body stands for a text, and what is a valid   *)
(* key, a command and a fingerprint is what Wire computes from them.       *)
(***************************************************************************)
EXTENDS LedgerStore, Sequences

CONSTANTS
    Text,           \* body -> what was sent, in the form of Wire
    AccountOf, IntegerOf, MaxKeyLength

W == INSTANCE Wire

(* The constants of LedgerStore are what the handler computes. *)
ASSUME WireAssumption ==
    /\ \A b \in Bodies : Text[b].members \in Seq(W!MemberTexts)
    /\ \A k \in Keys : W!ValidateKey(k) = "ok"
    /\ W!ValidateKey(NoKey) = "key_required"
    /\ W!ValidateKey(BadKey) = "key_invalid"
    /\ WellFormed = {b \in Bodies : W!Acceptable(Text[b])}
    /\ \A b \in WellFormed : Command[b] = W!CommandOf(Text[b])
    /\ \A b, c \in Bodies :
        Fingerprint[b] = Fingerprint[c] <=> W!FingerprintOf(Text[b]) = W!FingerprintOf(Text[c])

(* No field is written twice, in any letter case. *)
Unrepeated(b) ==
    LET ms == Text[b].members IN
    \A i, j \in DOMAIN ms : ms[i].field = ms[j].field => i = j

(* s has moved money under the key that r carries as well. *)
RetryOf(r, s) == Wrote(s) /\ req[r].key = req[s].key

Members(b) == {Text[b].members[i] : i \in DOMAIN Text[b].members}

(* The same request but for the order of the members. *)
Reordered(b, c) ==
    /\ Text[b].path = Text[c].path
    /\ Unrepeated(b)
    /\ Members(b) = Members(c)

Means(r) == W!Meaning(Text[req[r].body])

(* A client whose request is answered with the stored response of an earlier
   one had asked for the same thing: the fingerprint never takes a different
   transfer for a retry, also where amounts are beyond the precision of a
   float.  (A body that writes one field twice in two letter cases is the
   exception: the map keeps both, the struct keeps the later one.) *)
ReplaysMeanTheSame ==
    \A r \in {q \in Requests : reply[q].kind = "replayed"} :
        LET s == reply[r].tx IN
        Unrepeated(req[r].body) /\ Unrepeated(req[s].body)
            => Means(r) = Means(s)

(* A retry that is sent to the same path with the same members in another
   order is never refused as a reuse of the key ("whitespace and field ordering
   do not change the fingerprint"). *)
ReorderedRetryAccepted ==
    \A r, s \in Requests :
        RetryOf(r, s) /\ Reordered(req[r].body, req[s].body) => reply[r].kind # "key_reuse"

-----------------------------------------------------------------------------
(* What the documentation says. *)

(* "Two requests that mean the same thing therefore hash the same"
   (internal/idempotency/idempotency.go): no retry of the same transfer is
   refused as a reuse of its key. *)
SameMeaningAccepted ==
    \A r, s \in Requests :
        RetryOf(r, s) /\ reply[r].kind = "key_reuse"
            => Means(r) # Means(s)
=============================================================================
