------------------------------ MODULE MCMigrate ------------------------------
(* Instances of Migrate for TLC. *)
EXTENDS Migrate

(* The files of three builds: an old one, the one after it, and one in which
   the first migration was edited and the last has no down file. *)
Release ==
    [old    |-> <<"a", "b", NoSum>>,
     new    |-> <<"a", "b", "c">>,
     edited |-> <<"x", "b", "c">>]

MCFiles == [b \in Builds |-> [v \in Versions |-> Release[b][v]]]
MCReversible == [b \in Builds |-> IF b = "edited" THEN {1, 2} ELSE {1, 2, 3}]
=============================================================================
