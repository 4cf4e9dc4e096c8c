--------------------------- MODULE MessagePlanning ---------------------------
(***************************************************************************)
(* What is planned for one message: plan_message of triage.py with the     *)
(* headers (message_safety.py), the classifier's answer                    *)
(* (gemini_client.py), the labels (gmail_labeler.py), the approvals        *)
(* (drafting.py, taxonomy.py) and the templates it consults.  All of it is *)
(* a function of its arguments; DraftingPolicy supplies them.              *)
(***************************************************************************)
EXTENDS Integers, FiniteSets

CONSTANTS
  Categories,   \* slugs of the taxonomy
  Fallback,     \* fallback_category
  SenderOf,     \* expected_sender of each category, or AnySender
  Rules,        \* evidence_rules, in the order of the configuration
  YearLabel,    \* the label of each rule's year
  Review,       \* system_labels["needs_review"]
  SenderTypes   \* VALID_SENDER_TYPES without "unknown"

Unknown == "unknown"
AnySender == "any"
NoLabel == "no label"
Years == {Rules[i].year: i \in DOMAIN Rules}

ASSUME CategoryAssumption ==
  /\ Fallback \in Categories /\ Unknown \notin Categories
  /\ SenderOf \in [Categories -> SenderTypes \cup {AnySender}]
ASSUME RuleAssumption ==
  /\ \A i \in DOMAIN Rules:
       Rules[i].categories \subseteq Categories /\ Rules[i].senders \subseteq SenderTypes
  /\ DOMAIN YearLabel = Years /\ Unknown \notin Years

------------------------------------------------------------------------------
(* The headers: who would get the reply *)

Addresses == {"person", "owner", "bounce", "malformed"}

(* bulk: list, precedence, auto-submitted or a no-reply address.            *)
Headers == [from: Addresses, replyTo: Addresses \cup {"none"}, bulk: BOOLEAN]

Target(h) == IF h.replyTo \in {"none", "malformed"} THEN h.from ELSE h.replyTo

(* assess_delivery_headers                                                  *)
Delivery(h) ==
  IF "bounce" \in {h.from, Target(h)} THEN "automated"
  ELSE IF "malformed" \in {h.from, h.replyTo} \/ Target(h) = "owner" THEN "ambiguous"
  ELSE IF h.bulk THEN "bulk" ELSE "normal"

------------------------------------------------------------------------------
(* The classifier's answer *)

Unsupported == "unsupported"
Answer(how, category, year, sender, confidence) ==
  [how |-> how, category |-> category, year |-> year, sender |-> sender,
   confidence |-> confidence]
Failed == Answer("failed", Unknown, Unknown, Unknown, Unknown)
Malformed == Answer("malformed", Unknown, Unknown, Unknown, Unknown)

(* A field the classifier leaves out or makes up is unsupported.            *)
Answers == {Failed, Malformed} \cup
  {Answer("given", c, y, s, k):
     c \in Categories \cup {Unsupported}, y \in Years \cup {Unsupported},
     s \in SenderTypes \cup {Unsupported}, k \in {"high", "low", Unsupported}}

Known(value, values) == IF value \in values THEN value ELSE Unknown

Classification(category, year, sender, confidence, valid) ==
  [category |-> category, year |-> year, sender |-> sender,
   confidence |-> confidence, valid |-> valid]
Undetermined(confidence) ==
  Classification(Unknown, Unknown, Unknown, confidence, FALSE)

(* parse_result                                                             *)
Parsed(a) ==
  LET c == Known(a.category, Categories)
      s == Known(a.sender, SenderTypes)
      k == Known(a.confidence, {"high", "low"})
  IN IF a.how # "given" THEN Undetermined(Unknown)
     ELSE Classification(c, Known(a.year, Years), s, k, Unknown \notin {c, s, k})

(* Bulk mail counts as automated unless every message may be drafted.       *)
Status(e, p, appr) ==
  LET d == Delivery(e.headers)
  IN IF d = "bulk" /\ ~(p.global /\ appr.all /\ appr.bulk) THEN "automated" ELSE d

(* Whether the classifier is asked at all.                                  *)
Asked(e, p, appr) == Status(e, p, appr) \in {"normal", "bulk"} /\ e.meaningful

(* Automated mail is "administrative", if the taxonomy has that category.   *)
Administrative == "administrative"
Classified(e, p, appr, a) ==
  IF Status(e, p, appr) = "automated"
    THEN Classification(Known(Administrative, Categories), Unknown, Administrative, "high", TRUE)
  ELSE IF ~Asked(e, p, appr) THEN Undetermined("low")
  ELSE Parsed(a)

(* A classification counts only if its sender fits its category.            *)
Valid(k) ==
  /\ k.valid /\ k.confidence # Unknown
  /\ k.category \in Categories => SenderOf[k.category] \in {AnySender, k.sender}

Actionable(k) == Valid(k) /\ k.confidence = "high"

------------------------------------------------------------------------------
(* Labels *)

(* What the text itself says: one year, none, or several.                   *)
LocalYear(e) == IF e.evidence \in Years THEN e.evidence ELSE Unknown

Matching(e, k) == {i \in DOMAIN Rules: Rules[i].year \in {k.year, LocalYear(e)}}

(* The first rule about a year that was mentioned admits the message.       *)
Eligible(e, k) ==
  \E i \in Matching(e, k):
    /\ \A j \in Matching(e, k): i <= j
    /\ k.sender \in Rules[i].senders /\ k.category \in Rules[i].categories
    /\ k.confidence = "high"

(* The model and the text of an eligible message do not agree on a year.    *)
YearConflict(e, k) ==
  Actionable(k) /\ Eligible(e, k) /\ ~(k.year = LocalYear(e) /\ k.year # Unknown)

(* The category a label is chosen by.                                       *)
LabelCategory(p, k) ==
  IF Actionable(k) THEN k.category ELSE IF p.global THEN Fallback ELSE Unknown

CategoryLabels(p) == {p.label[c]: c \in Categories} \ {NoLabel}

(* Mutant: only the label that would be added is looked for.                *)
ConflictsWithItself(p, k, labels) == FALSE

(* decide_labels: the message has the label of another category.            *)
Conflicts(p, k, labels) ==
  LET c == LabelCategory(p, k)
  IN /\ c # Unknown /\ p.label[c] # NoLabel /\ p.label[c] \notin labels
     /\ CategoryLabels(p) \cap labels # {}

CategoryAdd(p, k, labels) ==
  LET c == LabelCategory(p, k)
  IN IF c = Unknown \/ Conflicts(p, k, labels) THEN {}
     ELSE {p.label[c]} \ (labels \cup {NoLabel})

YearLabels == {YearLabel[y]: y \in Years}

(* decide_labels: a year the message has no label of yet, on which the      *)
(* model and the text agree.                                                *)
YearAdd(e, k, labels) ==
  IF /\ Actionable(k) /\ Eligible(e, k) /\ ~YearConflict(e, k)
     /\ YearLabels \cap labels = {}
    THEN {YearLabel[k.year]} ELSE {}

(* The labels before anything is known of the draft.                        *)
Decided(e, p, k, labels, noLabel) ==
  IF noLabel THEN {} ELSE CategoryAdd(p, k, labels) \cup YearAdd(e, k, labels)

------------------------------------------------------------------------------
(* Permission *)

(* TaxonomyConfirmation.check                                               *)
Confirmed(p, conf, c) == c \in Categories /\ conf[c] = p.digest[c]

(* AiDraftingApprovals.check                                                *)
Permits(appr, c, protected) ==
  (appr.all \/ c \in appr.categories) /\ (protected => appr.allow)

(* Mutant: only the labels the message already has.                         *)
CarriesNow(p, labels, add) == labels \cap p.protected # {}

CarriesProtected(p, labels, add) == (labels \cup add) \cap p.protected # {}

(* resolve_template: the wording for the year before that for the category; *)
(* a placeholder is none, and what was not approved as it is, is not used.  *)
Placeholder == 1
Usable(texts, key) ==
  /\ texts.wording[key] > Placeholder
  /\ IF texts.approved[key] # 0 THEN texts.approved[key] = texts.wording[key]
     ELSE key \in texts.named

Template(texts, k) ==
  LET year == <<k.category, k.year>>
      any  == <<k.category, Unknown>>
  IN IF k.year # Unknown /\ Usable(texts, year) THEN {year}
     ELSE IF Usable(texts, any) THEN {any} ELSE {}

------------------------------------------------------------------------------
(* The draft *)

Drafted(source, category, key) == [source |-> source, category |-> category, key |-> key]
NoKey == <<>>
Skip == Drafted("none", Unknown, NoKey)
(* The planning of this message raised, and with it the whole run.          *)
Broken == Drafted("broken", Unknown, NoKey)

(* A message that never gets a reply: automated, of doubtful origin, empty  *)
(* (unless all are drafted), or without what a reply in its thread needs.   *)
Unanswerable(e, p, appr) ==
  \/ Status(e, p, appr) \in {"automated", "ambiguous"}
  \/ ~e.meaningful /\ ~p.global
  \/ ~e.complete

(* Mutant: uncertain answers are answered by their category.                *)
NeverGeneric(e, p, appr, a, k, labels, noLabel) == FALSE

(* The reply must not depend on the classification.                         *)
NeedsGeneric(e, p, appr, a, k, labels, noLabel) ==
  \/ ~Actionable(k) \/ YearConflict(e, k)
  \/ ~noLabel /\ Conflicts(p, k, labels)
  \/ ~e.meaningful

(* The reply of the same answer, or two attempts of its own; then the fixed *)
(* acknowledgement, with the signature.  Where the answer carried the reply *)
(* nobody catches that even this is refused.                                *)
Reply(p, good, combined, category) ==
  IF good THEN Drafted("ai", category, NoKey)
  ELSE IF p.style # "refused" THEN Drafted("fallback", category, NoKey)
  ELSE IF combined THEN Broken ELSE Skip

AllReplyable(e, p, conf, appr, a, k, labels, noLabel, good, combined) ==
  LET c == IF NeedsGeneric(e, p, appr, a, k, labels, noLabel) THEN Fallback ELSE k.category
      protected == CarriesProtected(p, labels, Decided(e, p, k, labels, noLabel))
  IN IF Confirmed(p, conf, c) /\ Permits(appr, c, protected)
       THEN Reply(p, good, combined, c) ELSE Skip

(* The owner's choice for each category; a reply that is refused is none.   *)
ByCategory(e, p, conf, appr, texts, k, labels, noLabel, good) ==
  LET protected == CarriesProtected(p, labels, Decided(e, p, k, labels, noLabel))
  IN IF \/ ~Actionable(k) \/ YearConflict(e, k)
        \/ ~noLabel /\ Conflicts(p, k, labels)
        \/ ~Confirmed(p, conf, k.category) \/ p.mode[k.category] = "off" THEN Skip
     ELSE IF p.mode[k.category] = "generic"
       THEN IF Permits(appr, k.category, protected) /\ good
              THEN Drafted("ai", k.category, NoKey) ELSE Skip
     ELSE IF Template(texts, k) = {} THEN Skip
     ELSE Drafted("template", k.category, CHOOSE key \in Template(texts, k): TRUE)

Draft(e, p, conf, appr, texts, a, k, labels, noLabel, good, combined) ==
  IF Unanswerable(e, p, appr) THEN Skip
  ELSE IF p.global
    THEN AllReplyable(e, p, conf, appr, a, k, labels, noLabel, good, combined)
  ELSE ByCategory(e, p, conf, appr, texts, k, labels, noLabel, good)

(* Whether the classification carried a reply: analyze_and_draft was asked, *)
(* which an approval without bulk mail gets from the daily run alone.  A    *)
(* failed analysis of the daily run is asked for again; a is the last one.  *)
CombinedReply(e, p, appr, a, kind) ==
  /\ p.global /\ appr.all /\ Asked(e, p, appr) /\ a.how # "failed"
  /\ appr.bulk \/ kind = "daily"

(* Drafting everything makes doubtful cases visible.                        *)
ReviewAll(e, p, k, labels, draft) ==
  \/ draft.source \in {"none", "fallback"}
  \/ ~Actionable(k) \/ YearConflict(e, k) \/ Conflicts(p, k, labels)

(* Mutant: a message is only shown when its classification is doubtful.     *)
ReviewDoubtful(e, p, appr, a, k, labels, draft) ==
  Unknown \in {k.category, k.sender} \/ ~Valid(k) \/ Conflicts(p, k, labels)

(* add_daily_review_policy                                                  *)
ReviewDaily(e, p, appr, a, k, labels, draft) ==
  /\ Status(e, p, appr) = "automated" => p.global
  /\ \/ Unknown \in {k.category, k.sender} \/ ~Valid(k) \/ Conflicts(p, k, labels)
     \/ draft.source \in {"none", "fallback"}

(* plan_message, and what the daily run adds to it.                         *)
Plan(e, p, conf, appr, texts, a, good, kind, labels) ==
  LET k        == Classified(e, p, appr, a)
      noLabel  == kind = "unlabelled"
      decided  == Decided(e, p, k, labels, noLabel)
      draft    == Draft(e, p, conf, appr, texts, a, k, labels, noLabel, good,
                        CombinedReply(e, p, appr, a, kind))
      review   == \/ p.global /\ ~noLabel /\ ReviewAll(e, p, k, labels, draft)
                  \/ kind = "daily" /\ ReviewDaily(e, p, appr, a, k, labels, draft)
  IN [class |-> k, draft |-> draft,
      add |-> decided \cup (IF review THEN {Review} \ labels ELSE {})]
=============================================================================
