------------------------------ MODULE Backoff ------------------------------
(***************************************************************************)
(* outbox.Backoff: how long an event waits after a failed attempt.         *)
(*                                                                         *)
(* A time.Duration is an int64 of nanoseconds.  Every value here is a      *)
(* multiple of 2^9 ns (10^9 = 2^9 * 1953125), so an int64 is kept as its   *)
(* upper 55 bits in two halves, <<high 27 bits, low 28 bits>>, which is    *)
(* exact and within the integers of TLC.                                   *)
(***************************************************************************)
EXTENDS Integers

Word(n) == <<n \div 2^28, n % 2^28>>

(* A whole number of seconds that fits TLC's integers. *)
Seconds(n) == Word(1953125 * n)

MaxBackoff == Seconds(300)

(* d * 2, dropping the carry out of the 64 bits. *)
Twice(d) == <<(2 * d[1] + (2 * d[2]) \div 2^28) % 2^27, (2 * d[2]) % 2^28>>

(* time.Duration(1 << uint(n)) * time.Second *)
Shifted[n \in Nat] == IF n = 0 THEN Seconds(1) ELSE Twice(Shifted[n - 1])

Negative(d) == d[1] >= 2^26

(* d > e as int64, for an e that is not negative. *)
Exceeds(d, e) == ~Negative(d) /\ (d[1] > e[1] \/ (d[1] = e[1] /\ d[2] > e[2]))

(* The shift is not capped before it is made. *)
Backoff_Mutant(tries) ==
    LET d == Shifted[(IF tries < 1 THEN 1 ELSE tries) - 1]
    IN  IF Exceeds(d, MaxBackoff) THEN MaxBackoff ELSE d

Backoff(tries) ==
    IF tries > 20 THEN MaxBackoff
    ELSE LET d == Shifted[(IF tries < 1 THEN 1 ELSE tries) - 1]
         IN  IF Exceeds(d, MaxBackoff) THEN MaxBackoff ELSE d

(* The reference: one second, doubled by every further attempt, at most five
   minutes. *)
Doubling[n \in Nat] ==
    IF n <= 1 THEN 1
    ELSE IF 2 * Doubling[n - 1] > 300 THEN 300 ELSE 2 * Doubling[n - 1]

(* The numbers of attempts for which Backoff is the reference; from 65 on
   nothing would be left of the shifted bit. *)
Doubled == {n \in 0..66 : Backoff(n) = Seconds(Doubling[n])}
=============================================================================
