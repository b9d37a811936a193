---------------------------- MODULE MCLogFollower ----------------------------
(* LogFollower for TLC: the polls are interchangeable.                     *)
EXTENDS LogFollower

PollSymmetry == Permutations(Polls)
==============================================================================
