----------------------------- MODULE MCCatalog -----------------------------
(* Two table names, the ids of three creations, and one index name.        *)
EXTENDS Catalog
=============================================================================
