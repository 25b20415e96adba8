---------------------------- MODULE MCAntiCheat ----------------------------
(* Small instances of AntiCheat for TLC. *)
EXTENDS AntiCheat

(* Moves on both sides of each threshold of validatePosition. *)
M(distance, delta) == [distance |-> distance, delta |-> delta]
SomeMoves == {M(5, 16), M(101, 99), M(101, 400), M(51, 100), M(500, 0)}
LapTimes == {14999, 15000}
Speeds == {600, 601}
=============================================================================
