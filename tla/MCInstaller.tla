---------------------------- MODULE MCInstaller ----------------------------
(* Two editor processes and two releases for model checking Installer. *)
EXTENDS Installer, TLC

CONSTANTS i1, i2, r1, r2

InstanceSymmetry == Permutations(Instances) \cup Permutations(Releases)
=============================================================================
