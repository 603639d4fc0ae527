------------------------------ MODULE MCCatalog ------------------------------
(* Small instances of Catalog for TLC. *)
EXTENDS Catalog

CONSTANTS d1, d2, i1, t1, t2, db

OneDatabase == [t \in Table |-> db]
=============================================================================
