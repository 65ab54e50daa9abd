----------------------------- MODULE MCPlayback -----------------------------
(* Instances of Playback: the lengths of the tracks, in packets. *)
EXTENDS Playback

Sizes1 == <<3>>
Sizes2 == <<1, 1>>
Sizes3 == <<5, 1, 3>>
SizesShort == <<2, 1>>
==============================================================================
