--------------------------- MODULE MCIngestPipelines ---------------------------
(* IngestPipelines on a few files of every kind.                           *)
EXTENDS IngestPipelines

CONSTANTS e1, e2, k1, w1, w2, u1

AllFiles == {e1, e2, k1, w1, w2, u1}
MixedScans == {{}, {e1, e2}, {w1, w2, u1}, {e1, k1, w1}}
================================================================================
