------------------------------ MODULE MCBridge ------------------------------
(***************************************************************************)
(* BridgeTransfer for TLC: a source net, a target net, the global bridge   *)
(* listener and HTTP terminations of the target.                           *)
(***************************************************************************)
EXTENDS BridgeTransfer

CONSTANTS src, dst, loop, lsn, h1, h2, ccl, cid
=============================================================================
