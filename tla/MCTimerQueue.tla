---------------------------- MODULE MCTimerQueue ----------------------------
(* TimerQueue for TLC: addresses are interchangeable. *)
EXTENDS TimerQueue, TLC

Perms == Permutations(Addresses)

=============================================================================
