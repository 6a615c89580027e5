--------------------------- MODULE MCConfigDeploy ---------------------------
(***************************************************************************)
(* One deployer and one reader; two good configurations, one that parses   *)
(* and is not valid, one that does not parse.                              *)
(***************************************************************************)
EXTENDS ConfigDeploy

CONSTANTS small, large, invalid, broken, d, r
=============================================================================
