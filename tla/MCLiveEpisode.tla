---------------------------- MODULE MCLiveEpisode ----------------------------
(***************************************************************************)
(* Instances of LiveEpisode for TLC.                                       *)
(***************************************************************************)
EXTENDS LiveEpisodeProperties, TLC

\* A grid with one square per position and a single line through all of them:
\* the smallest grid on which a pattern is more than one mark.
OneLine == {Squares}

Symmetry == Permutations(Users) \cup Permutations(Viewers)
==============================================================================
