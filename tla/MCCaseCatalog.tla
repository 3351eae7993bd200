----------------------------- MODULE MCCaseCatalog -----------------------------
(* CaseCatalog on small sets of actors.  The evidence contents are         *)
(* interchangeable, and so are the ingests that cannot die.                *)
EXTENDS CaseRows, TLC

IngestSymmetry == Permutations(Contents) \cup Permutations(Ingests \ Mortal)
================================================================================
