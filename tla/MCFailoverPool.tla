---------------------------- MODULE MCFailoverPool ----------------------------
(***************************************************************************)
(* FailoverPool with two addresses at first, a third that only a redirect  *)
(* or an update brings in, and updates that reorder the pools or leave a   *)
(* single one, which may then become unhealthy.                            *)
(***************************************************************************)
EXTENDS FailoverPool

CONSTANTS a1, a2, a3

MCAddrs == <<a1, a2>>
MCUpdates == {<<a2, a1>>, <<a3>>}
================================================================================
