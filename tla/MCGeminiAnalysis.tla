--------------------------- MODULE MCGeminiAnalysis ---------------------------
(* Small instances of GeminiAnalysis for TLC. *)
EXTENDS GeminiAnalysis, TLC
=============================================================================
