-------------------------- MODULE MCLegacyAdoption --------------------------
(* Three old files that share sources, one of which left no digest.        *)
EXTENDS LegacyAdoption, TLC

CONSTANTS l1, l2, l3, s1, s2, s3

ProvenanceOfThree == (l1 :> {s1}) @@ (l2 :> {s1, s2}) @@ (l3 :> {s3})
=============================================================================
