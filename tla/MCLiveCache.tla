---------------------------- MODULE MCLiveCache ----------------------------
(***************************************************************************)
(* Instances of LiveCache for TLC.                                         *)
(***************************************************************************)
EXTENDS LiveCache

CONSTANTS k1, k2, c1, f1, f2, f3

OneKeyRefreshed == <<k1>>
TwoKeysRefreshed == <<k1, k2>>
=============================================================================
