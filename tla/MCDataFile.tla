----------------------------- MODULE MCDataFile -----------------------------
(* Instances of DataFile for TLC: every CSV of at most MaxLines lines.      *)
EXTENDS DataFile
CONSTANTS e1, e2, MaxLines
MCEngines == {e1, e2}
MCCsvs == UNION {[1..n -> LineKinds] : n \in 0..MaxLines}
=============================================================================
