----------------------------- MODULE MCCatalogue -----------------------------
(***************************************************************************)
(* One entity, observed with two different ends, over two days with one    *)
(* page load between.                                                      *)
(***************************************************************************)
EXTENDS CatalogueTopics, TLC
=============================================================================
