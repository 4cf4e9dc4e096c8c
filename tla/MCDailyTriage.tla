--------------------------- MODULE MCDailyTriage ---------------------------
(* Small instances of DailyTriage for TLC. *)
EXTENDS DailyTriage, TLC

Together == [m \in Messages |-> "thread"]   \* one conversation
Mixed == [m \in Messages |-> m = 3]         \* the newest message on its own

(* Gmail lists the newest message first; ids grow with time. *)
NewestFirst == [m \in Messages |-> Cardinality({k \in Messages: k > m})]

DraftSymmetry == Permutations(Drafts \ {LegacyDraft})
=============================================================================
