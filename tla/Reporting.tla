------------------------------ MODULE Reporting ------------------------------
(***************************************************************************)
(* What the ledger promises to those who listen to its events (package     *)
(* outbox): "an event can never describe a transfer that did not happen,   *)
(* and a transfer can never happen without its event", and "publishing is  *)
(* at-least-once".  Only transfers, the listeners and the stored verdict   *)
(* are left; sessions, relays and the two database schemas are not.        *)
(***************************************************************************)
CONSTANT Transfers

VARIABLES
    posted,         \* transfers that have happened
    reported,       \* transfers the listeners have been told about
    verdict         \* what the outbox says about each

Verdicts == {"absent", "pending", "published", "failed"}

Init ==
    /\ posted = {}
    /\ reported = {}
    /\ verdict = [t \in Transfers |-> "absent"]

(* A transfer happens and its event is there with it. *)
Post(t) ==
    /\ t \notin posted
    /\ posted' = posted \cup {t}
    /\ verdict' = [verdict EXCEPT ![t] = "pending"]
    /\ UNCHANGED reported

(* The listeners are told, once or again. *)
Report(t) ==
    /\ t \in posted
    /\ reported' = reported \cup {t}
    /\ UNCHANGED <<posted, verdict>>

(* The outcome of one or more attempts is written down. *)
Settle ==
    /\ verdict' \in [Transfers -> Verdicts]
    /\ \A t \in Transfers :
        verdict'[t] # verdict[t] =>
            /\ t \in posted
            /\ verdict'[t] # "absent"
            /\ verdict'[t] = "published" => t \in reported
    /\ UNCHANGED <<posted, reported>>

Next == (\E t \in Transfers : Post(t) \/ Report(t)) \/ Settle

(* Sooner or later every transfer is reported or handed to a human. *)
Decided == \A t \in Transfers : t \in posted ~> verdict[t] \in {"published", "failed"}

(* The promise without its last part. *)
Safety == Init /\ [][Next]_<<posted, reported, verdict>>

Spec == Safety /\ Decided
=============================================================================
