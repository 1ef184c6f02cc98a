------------------------------ MODULE MCPlatform ------------------------------
(***************************************************************************)
(* Instance of Platform for TLC: one monitor, the service alone, two       *)
(* tokens, two versions and two lease generations.  Tokens are only ever   *)
(* compared with each other, so they are symmetric; nothing checked here   *)
(* is a liveness property.                                                 *)
(***************************************************************************)
EXTENDS Platform, TLC

TokenSymmetry == Permutations(Tokens)

===============================================================================
