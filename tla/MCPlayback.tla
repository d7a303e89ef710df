----------------------------- MODULE MCPlayback -----------------------------
(* Instances of Playback for TLC. *)
EXTENDS Playback

(* The code compares qualities for equality only: which two they are does not
   matter, nor which of them a restored queue was played with. *)
EitherQuality == Permutations(Qualities)
=============================================================================
