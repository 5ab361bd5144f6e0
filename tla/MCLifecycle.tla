----------------------------- MODULE MCLifecycle -----------------------------
(***************************************************************************)
(* Two keys that decode and one that does not, two deploys and two page    *)
(* loads by hand.                                                          *)
(***************************************************************************)
EXTENDS Lifecycle, TLC
=============================================================================
