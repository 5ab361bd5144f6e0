----------------------------- MODULE MCRelayLink -----------------------------
(***************************************************************************)
(* Two calls in flight, a request's event that may still be delivered when *)
(* the health check has replaced the pool, and one page load.              *)
(***************************************************************************)
EXTENDS RelayLink, TLC
=============================================================================
