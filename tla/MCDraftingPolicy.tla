--------------------------- MODULE MCDraftingPolicy ---------------------------
(* Small instances of DraftingPolicy for TLC. *)
EXTENDS DraftingPolicy, TLC

MCCategoryLabel == [c \in Categories |-> IF c = Fallback THEN "Admin" ELSE "Intro"]
MCSenderOf == [c \in Categories |-> IF c = Fallback THEN AnySender ELSE "recruit"]
MCRules == <<[year |-> "2030", categories |-> Categories \ {Fallback},
              senders |-> {"recruit"}]>>
MCYearLabel == [y \in {"2030"} |-> "class of 2030"]
Email(from, replyTo, bulk, meaningful, evidence) ==
  [headers |-> [from |-> from, replyTo |-> replyTo, bulk |-> bulk],
   meaningful |-> meaningful, complete |-> TRUE, evidence |-> evidence]
MCEmails ==
  {Email("person", "none", FALSE, TRUE, "2030"),
   Email("person", "none", TRUE, TRUE, "several"),
   Email("person", "none", FALSE, FALSE, "unknown"),
   Email("person", "malformed", FALSE, TRUE, "unknown"),
   Email("owner", "none", FALSE, TRUE, "several"),
   Email("bounce", "person", FALSE, TRUE, "unknown")}
  \cup {[Email("person", "none", FALSE, TRUE, "2030") EXCEPT !.complete = FALSE]}
(* A clear answer of either category and sender; one of low confidence or   *)
(* without a year; one that makes up a field; and no answer.                *)
Clear(c, s) == Answer("given", c, "2030", s, "high")
MCConsidered ==
  {Failed, Malformed} \cup {Clear(c, s): c \in Categories, s \in SenderTypes}
  \cup {[Clear("intro", "recruit") EXCEPT !.confidence = "low"]}
  \cup {[Clear("intro", "recruit") EXCEPT ![f] = Unsupported]:
          f \in {"category", "year", "sender", "confidence"}}
MCEditedKeys == {<<"intro", "2030">>}
MCNamed == {{}, {<<"intro", "unknown">>}}
MCProtectable == {"Intro", "class of 2030", Review}
P(global, intro, other, protected, style) ==
  [account |-> "coach", global |-> global, mode |-> [c \in Categories |-> IF c = Fallback THEN other ELSE intro],
   digest |-> [c \in Categories |-> 1], label |-> MCCategoryLabel,
   protected |-> protected, style |-> style]
MCFirstProfiles ==
  {P(TRUE, "off", "off", {"Intro", Review}, "plain"),
   P(FALSE, "generic", "off", {"class of 2030"}, "plain"),
   [P(FALSE, "template", "generic", {}, "plain") EXCEPT !.label["intro"] = NoLabel]}
=============================================================================
