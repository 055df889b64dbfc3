-------------------------- MODULE MC_SkynetKernel ---------------------------
(***************************************************************************)
(* Small instances of the skynet kernel for TLC.                           *)
(***************************************************************************)
EXTENDS SkynetKernel, TLC

CONSTANTS w1, w2

(* The first workers of skynet_start have weight -1, later ones 0 and up.  *)
MCWeight == (w1 :> -1) @@ (w2 :> 0)
=============================================================================
