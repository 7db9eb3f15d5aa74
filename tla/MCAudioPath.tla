---------------------------- MODULE MCAudioPath ----------------------------
(***************************************************************************)
(* AudioPath for TLC: PCM frames of the lowest sample, which is clipped,   *)
(* and of one that is not.                                                 *)
(***************************************************************************)
EXTENDS AudioPath

MCLevels == {-32768, 1000}

\* Listeners are interchangeable.
MCSymmetry == Permutations(Listeners)
=============================================================================
