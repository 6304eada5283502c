------------------------------- MODULE MCEval -------------------------------
(***************************************************************************)
(* A small leased net for TLC: `grant' takes a claim and parks a lease and *)
(* a body token, `work' runs an effect, `exit' gives the lease up on       *)
(* success, `finally' is the finalizer that gives it up on failure.        *)
(***************************************************************************)
EXTENDS EvalLoop, TLC

CONSTANTS claim, held, body, result, out, grant, work, exit, finally, loop, http, c1

MCPre ==
    (grant :> {claim}) @@ (work :> {body}) @@ (exit :> {held, result}) @@ (finally :> {held})

MCPost ==
    (grant :> {held, body}) @@ (work :> {result}) @@ (exit :> {out}) @@ (finally :> {})
=============================================================================
