---------------------------- MODULE MCCompanion ----------------------------
(***************************************************************************)
(* Two addresses, one of them refused by the policy; a resolver that fails *)
(* or answers with either, with both in either order, or with one twice.   *)
(***************************************************************************)
EXTENDS Companion

CONSTANTS public, refused

MCAddrs == {public, refused}
MCDenied == {refused}
MCAnswers ==
  {<<>>, <<public>>, <<public, public>>, <<refused>>, <<public, refused>>}
=============================================================================
