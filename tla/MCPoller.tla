------------------------------ MODULE MCPoller ------------------------------
(* Poller for TLC: channel addresses are interchangeable. *)
EXTENDS Poller, TLC

Perms == Permutations(Channels)

=============================================================================
