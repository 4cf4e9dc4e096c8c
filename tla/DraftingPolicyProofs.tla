-------------------------- MODULE DraftingPolicyProofs --------------------------
(***************************************************************************)
(* Who allowed a draft, for any taxonomy, configurations, messages and     *)
(* answers, and any number of edits, statements and runs.  Inv says of     *)
(* every document that the owner typed it, of a run that it plans with the *)
(* files as they are, and of a plan that plan_message made it; what the    *)
(* properties promise then follows from plan_message alone.                *)
(***************************************************************************)
EXTENDS DraftingPolicy, FiniteSetTheorems, TLAPS

------------------------------------------------------------------------------
(* plan_message *)

LEMMA Taxonomy ==
  /\ Fallback \in Categories /\ Unknown \notin Categories /\ Unknown \notin Years
  /\ \A i \in DOMAIN Rules: Rules[i].categories \subseteq Categories
BY CategoryAssumption, RuleAssumption

(* What Google answered counts only if it names a category.                 *)
LEMMA ActionableNames ==
  ASSUME NEW e, NEW p, NEW appr, NEW a, NEW k, k = Classified(e, p, appr, a),
         Status(e, p, appr) # "automated", Actionable(k)
  PROVE  k.category \in Categories /\ Asked(e, p, appr)
<1>1. Asked(e, p, appr)
  BY DEF Classified, Undetermined, Classification, Actionable, Valid
<1>2. k = Parsed(a)
  BY <1>1 DEF Classified
<1>3. a.how = "given"
  BY <1>2 DEF Parsed, Undetermined, Classification, Actionable, Valid
<1>4. /\ k.category = Known(a.category, Categories)
      /\ k.valid = (Unknown \notin {Known(a.category, Categories), Known(a.sender, SenderTypes),
                                    Known(a.confidence, {"high", "low"})})
  BY <1>2, <1>3 DEF Parsed, Classification
<1>5. k.category # Unknown
  BY <1>4 DEF Actionable, Valid
<1> QED
  BY <1>1, <1>4, <1>5 DEF Known

(* The draft of a plan is none unless the message can be answered.  What is *)
(* generated was confirmed and permitted, a template is one in use.         *)
LEMMA DraftIs ==
  ASSUME NEW e, NEW p, NEW conf, NEW appr, NEW texts, NEW a, NEW k, NEW ls, NEW noLabel,
         NEW good, NEW combined,
         NEW d, d = Draft(e, p, conf, appr, texts, a, k, ls, noLabel, good, combined)
  PROVE  /\ d.source \in {"none", "ai", "fallback", "template", "broken"}
         /\ d.source # "none" => ~Unanswerable(e, p, appr)
         /\ d.source \in {"ai", "fallback"} =>
              /\ Confirmed(p, conf, d.category)
              /\ Permits(appr, d.category, CarriesProtected(p, ls, Decided(e, p, k, ls, noLabel)))
         /\ d.source = "template" => Actionable(k) /\ d.key \in Template(texts, k)
<1> DEFINE protected == CarriesProtected(p, ls, Decided(e, p, k, ls, noLabel))
<1>1. CASE Unanswerable(e, p, appr)
  BY <1>1 DEF Draft, Skip, Drafted
<1>2. CASE ~Unanswerable(e, p, appr) /\ p.global
  <2>1. d = AllReplyable(e, p, conf, appr, a, k, ls, noLabel, good, combined)
    BY <1>2 DEF Draft
  <2>2. PICK c: /\ c = IF NeedsGeneric(e, p, appr, a, k, ls, noLabel) THEN Fallback ELSE k.category
                /\ d = IF Confirmed(p, conf, c) /\ Permits(appr, c, protected)
                         THEN Reply(p, good, combined, c) ELSE Skip
    BY <2>1 DEF AllReplyable
  <2>3. CASE Confirmed(p, conf, c) /\ Permits(appr, c, protected)
    <3>1. d = Reply(p, good, combined, c)
      BY <2>2, <2>3
    <3>2. /\ d.source \in {"ai", "fallback", "broken", "none"}
          /\ d.source \in {"ai", "fallback"} => d.category = c
      BY <3>1 DEF Reply, Drafted, Skip, Broken
    <3> QED
      BY <1>2, <2>3, <3>2
  <2>4. CASE ~(Confirmed(p, conf, c) /\ Permits(appr, c, protected))
    <3>1. d.source = "none"
      BY <2>2, <2>4 DEF Skip, Drafted
    <3> QED
      BY <3>1
  <2> QED
    BY <2>3, <2>4
<1>3. CASE ~Unanswerable(e, p, appr) /\ ~p.global
  <2>1. d = ByCategory(e, p, conf, appr, texts, k, ls, noLabel, good)
    BY <1>3 DEF Draft
  <2>2. \/ d = Skip
        \/ /\ d = Drafted("ai", k.category, NoKey)
           /\ Confirmed(p, conf, k.category) /\ Permits(appr, k.category, protected)
        \/ /\ Template(texts, k) # {} /\ Actionable(k)
           /\ d = Drafted("template", k.category, CHOOSE key \in Template(texts, k): TRUE)
    BY <2>1 DEF ByCategory
  <2>3. CASE d = Skip
    BY <2>3 DEF Skip, Drafted
  <2>4. CASE /\ d = Drafted("ai", k.category, NoKey)
             /\ Confirmed(p, conf, k.category) /\ Permits(appr, k.category, protected)
    <3>1. d.source = "ai" /\ d.category = k.category
      BY <2>4 DEF Drafted
    <3> QED
      BY <1>3, <2>4, <3>1
  <2>5. CASE /\ Template(texts, k) # {} /\ Actionable(k)
             /\ d = Drafted("template", k.category, CHOOSE key \in Template(texts, k): TRUE)
    <3>1. d.source = "template" /\ d.key = CHOOSE key \in Template(texts, k): TRUE
      BY <2>5 DEF Drafted
    <3>2. d.key \in Template(texts, k)
      BY <2>5, <3>1
    <3> QED
      BY <1>3, <2>5, <3>1, <3>2
  <2> QED
    BY <2>2, <2>3, <2>4, <2>5
<1> QED
  BY <1>1, <1>2, <1>3

(* A message that can be answered is from a person, to a person.            *)
LEMMA AnswerableIs ==
  ASSUME NEW e, NEW p, NEW appr, e.headers \in Headers, ~Unanswerable(e, p, appr)
  PROVE  /\ Delivery(e.headers) \in {"normal", "bulk"} /\ e.complete
         /\ e.headers.bulk => p.global /\ appr.all /\ appr.bulk
         /\ IF e.headers.replyTo = "none" THEN e.headers.from = "person"
            ELSE e.headers.replyTo = "person" /\ e.headers.from \in {"person", "owner"}
<1>1. Delivery(e.headers) \in {"normal", "bulk"} /\ e.complete
  BY DEF Unanswerable, Status, Delivery
<1>2. e.headers.bulk => p.global /\ appr.all /\ appr.bulk
  BY <1>1 DEF Unanswerable, Status, Delivery
<1>3. e.headers.from \in Addresses /\ e.headers.replyTo \in Addresses \cup {"none"}
  BY DEF Headers
<1>4. /\ "bounce" \notin {e.headers.from, Target(e.headers)}
      /\ "malformed" \notin {e.headers.from, e.headers.replyTo} /\ Target(e.headers) # "owner"
  BY <1>1 DEF Delivery
<1> QED
  BY <1>1, <1>2, <1>3, <1>4 DEF Target, Addresses

(* A year label says what the text says.                                    *)
LEMMA YearAddIs ==
  ASSUME NEW e, NEW k, NEW ls, NEW label \in YearAdd(e, k, ls)
  PROVE  /\ label = YearLabel[k.year] /\ k.year = e.evidence /\ e.evidence \in Years
         /\ YearLabels \cap ls = {} /\ label \in YearLabels
         /\ Actionable(k) /\ Eligible(e, k) /\ ~YearConflict(e, k)
<1>1. /\ Actionable(k) /\ Eligible(e, k) /\ ~YearConflict(e, k) /\ YearLabels \cap ls = {}
      /\ label = YearLabel[k.year]
  BY DEF YearAdd
<1>2. k.year = LocalYear(e) /\ k.year # Unknown
  BY <1>1 DEF YearConflict
<1>3. e.evidence \in Years /\ k.year = e.evidence
  BY <1>2 DEF LocalYear
<1> QED
  BY <1>1, <1>3 DEF YearLabels

(* A category label is added where the message has none.                    *)
LEMMA CategoryAddIs ==
  ASSUME NEW p \in Profile, NEW k, NEW ls, k.category \in Categories \cup {Unknown}
  PROVE  \/ CategoryAdd(p, k, ls) = {}
         \/ \E c \in Categories: /\ c = LabelCategory(p, k) /\ CategoryAdd(p, k, ls) = {p.label[c]}
                     /\ p.label[c] \in CategoryLabels(p) /\ CategoryLabels(p) \cap ls = {}
<1>1. PICK c: c = LabelCategory(p, k)
  OBVIOUS
<1>2. c \in Categories \cup {Unknown}
  BY <1>1, Taxonomy DEF LabelCategory
<1>3. CASE c # Unknown /\ ~Conflicts(p, k, ls) /\ p.label[c] \notin ls \cup {NoLabel}
  <2>1. CategoryAdd(p, k, ls) = {p.label[c]} /\ p.label[c] \in CategoryLabels(p)
    BY <1>1, <1>2, <1>3 DEF CategoryAdd, CategoryLabels
  <2>2. CategoryLabels(p) \cap ls = {}
    BY <1>1, <1>3 DEF Conflicts
  <2> QED
    BY <1>1, <1>2, <1>3, <2>1, <2>2
<1>4. CASE ~(c # Unknown /\ ~Conflicts(p, k, ls) /\ p.label[c] \notin ls \cup {NoLabel})
  BY <1>1, <1>4 DEF CategoryAdd
<1> QED
  BY <1>3, <1>4

LEMMA CategoryOf ==
  ASSUME NEW e, NEW p, NEW appr, NEW a
  PROVE  Classified(e, p, appr, a).category \in Categories \cup {Unknown}
<1>0. CASE Status(e, p, appr) = "automated"
  <2>1. Classified(e, p, appr, a).category = Known(Administrative, Categories)
    BY <1>0 DEF Classified, Classification
  <2> QED
    BY <2>1 DEF Known
<1>1. CASE Classified(e, p, appr, a) = Parsed(a) /\ a.how = "given"
  <2>1. Parsed(a).category = Known(a.category, Categories)
    BY <1>1 DEF Parsed, Classification
  <2> QED
    BY <1>1, <2>1 DEF Known
<1>2. CASE \E s, c, v: Classified(e, p, appr, a) = Classification(Unknown, Unknown, s, c, v)
  BY <1>2 DEF Classification
<1> QED
  BY <1>0, <1>1, <1>2 DEF Classified, Parsed, Undetermined

LEMMA YearOf ==
  ASSUME NEW e, NEW p, NEW appr, NEW a
  PROVE  Classified(e, p, appr, a).year \in Years \cup {Unknown}
<1>1. CASE Classified(e, p, appr, a) = Parsed(a) /\ a.how = "given"
  <2>1. Parsed(a).year = Known(a.year, Years)
    BY <1>1 DEF Parsed, Classification
  <2> QED
    BY <1>1, <2>1 DEF Known
<1>2. CASE \E g, s, c, v: Classified(e, p, appr, a) = Classification(g, Unknown, s, c, v)
  BY <1>2 DEF Classification
<1> QED
  BY <1>1, <1>2 DEF Classified, Parsed, Undetermined

(* The review label is never among those that a decision adds.              *)
LEMMA DecidedIs ==
  ASSUME NEW e, NEW p \in Profile, NEW k, NEW ls, NEW noLabel,
         k.category \in Categories \cup {Unknown}
  PROVE  Review \notin Decided(e, p, k, ls, noLabel)
<1>1. Review \notin YearAdd(e, k, ls)
  BY YearAddIs, LabelAssumption
<1>2. \A c \in Categories: p.label[c] \in {CategoryLabel[b]: b \in Categories} \cup {NoLabel}
  BY DEF Profile
<1>3. CategoryLabels(p) \subseteq {CategoryLabel[b]: b \in Categories}
  BY <1>2 DEF CategoryLabels
<1>4. Review \notin CategoryAdd(p, k, ls)
  BY <1>3, CategoryAddIs, LabelAssumption
<1> QED
  BY <1>1, <1>4 DEF Decided

(* What the plan of a message consists of. *)
LEMMA PlanIs ==
  ASSUME NEW e, NEW p, NEW conf, NEW appr, NEW texts, NEW a, NEW good, NEW kind, NEW ls,
         NEW result, result = Plan(e, p, conf, appr, texts, a, good, kind, ls)
  PROVE  \E k, d, review:
           /\ k = Classified(e, p, appr, a) /\ k.category \in Categories \cup {Unknown}
           /\ d = Draft(e, p, conf, appr, texts, a, k, ls, kind = "unlabelled", good,
                        CombinedReply(e, p, appr, a, kind))
           /\ review \in BOOLEAN
           /\ kind = "daily" /\ ReviewDaily(e, p, appr, a, k, ls, d) => review
           /\ result.class = k /\ result.draft = d
           /\ result.add = Decided(e, p, k, ls, kind = "unlabelled")
                             \cup (IF review THEN {Review} \ ls ELSE {})
<1> DEFINE k == Classified(e, p, appr, a)
           d == Draft(e, p, conf, appr, texts, a, k, ls, kind = "unlabelled", good,
                      CombinedReply(e, p, appr, a, kind))
           decided == Decided(e, p, k, ls, kind = "unlabelled")
           review == \/ p.global /\ kind # "unlabelled" /\ ReviewAll(e, p, k, ls, d)
                     \/ kind = "daily" /\ ReviewDaily(e, p, appr, a, k, ls, d)
<1>1. result = [class |-> k, draft |-> d,
                add |-> decided \cup (IF review THEN {Review} \ ls ELSE {})]
  BY DEF Plan
<1>2. k.category \in Categories \cup {Unknown}
  BY CategoryOf
<1>3. (kind = "daily" /\ ReviewDaily(e, p, appr, a, k, ls, d)) => review
  OBVIOUS
<1> HIDE DEF k, d, decided
<1>4. /\ result.class = k /\ result.draft = d
      /\ result.add = decided \cup (IF review THEN {Review} \ ls ELSE {})
  BY <1>1
<1>5. review \in BOOLEAN
  OBVIOUS
<1> USE DEF k, d, decided
<1> QED
  BY ONLY <1>2, <1>3, <1>4, <1>5

------------------------------------------------------------------------------
(* What a plan promises *)

Holds == TypeOK /\ Founded /\ ToolHolds /\ RunHolds /\ PlanHolds

LEMMA Planned ==
  ASSUME TypeOK, PlanHolds, planned
  PROVE  /\ email \in Emails /\ email.headers \in Headers /\ run.profile \in Profile
         /\ \E a, k, d, review, good:
              /\ k = Classified(email, run.profile, run.approvals, a)
              /\ k.category \in Categories \cup {Unknown}
              /\ d = Draft(email, run.profile, run.confirmation, run.approvals, run.texts, a, k,
                           labels, run.kind = "unlabelled", good,
                           CombinedReply(email, run.profile, run.approvals, a, run.kind))
              /\ review \in BOOLEAN
              /\ run.kind = "daily"
                   /\ ReviewDaily(email, run.profile, run.approvals, a, k, labels, d) => review
              /\ plan.draft = d
              /\ plan.add = Decided(email, run.profile, k, labels, run.kind = "unlabelled")
                             \cup (IF review THEN {Review} \ labels ELSE {})
<1>1. run.pos = "planning" /\ email \in Emails
  BY DEF planned, PlanHolds, TypeOK
<1>2. email.headers \in Headers /\ run.profile \in Profile
  BY <1>1, EmailAssumption DEF TypeOK
<1>3. PICK a, good: plan = [draft |-> PlanOf(a, good).draft, add |-> PlanOf(a, good).add]
  BY DEF planned, PlanHolds
<1>4. PICK result: result = PlanOf(a, good) /\ plan = [draft |-> result.draft, add |-> result.add]
  BY <1>3
<1>5. plan.draft = result.draft /\ plan.add = result.add
  BY <1>4
<1> QED
  BY <1>1, <1>2, <1>4, <1>5, PlanIs DEF PlanOf

(* Who typed the approval a run plans with, and for what.                   *)
LEMMA Permitted ==
  ASSUME Holds, planned, NEW c, NEW protected \in BOOLEAN,
         Confirmed(run.profile, run.confirmation, c), Permits(run.approvals, c, protected)
  PROVE  /\ \E s \in typed: /\ Allowed(s, c) /\ (protected => s.allow)
                            /\ run.approvals.all /\ run.approvals.bulk => s.bulk
         /\ \E s \in typed: Reviewed(s, c)
<1> USE DEF Holds
<1>1. run.pos = "planning" /\ run.profile \in Profile
  BY Planned DEF planned, TypeOK
<1>2. c \in Categories /\ confirmation[c] = run.profile.digest[c] /\ run.profile.digest[c] # 0
  BY <1>1 DEF Confirmed, RunHolds, Profile
<1>3. confirmation # Nothing
  BY <1>2 DEF Nothing
<1>4. \E s \in typed: Reviewed(s, c)
  BY <1>1, <1>2, <1>3 DEF Founded, RunHolds, ConfirmationFits, Reviewed
<1>5. /\ run.approvals.all = (approval.version > 1) /\ run.approvals.bulk = (approval.version > 2)
      /\ run.approvals.categories = approval.categories /\ run.approvals.allow = approval.allow
  BY <1>1 DEF RunHolds, Approvals, Loaded
<1>6. (approval.version > 1 \/ c \in approval.categories) /\ (protected => approval.allow)
  BY <1>5 DEF Permits
<1>7. approval # NoApproval
  BY <1>6 DEF NoApproval
<1>8. PICK s \in typed:
        /\ s.profile.account = names["approval"] /\ s.allow = approval.allow
        /\ IF approval.version > 1
             THEN /\ s.profile.global /\ (approval.version > 2 => s.bulk)
                  /\ approval.digest = PolicyDigest(s.profile, s.allow)
             ELSE ~s.profile.global /\ approval.categories = Generic(s.profile)
  BY <1>7 DEF Founded
<1>9. names["approval"] = run.mailbox
  BY <1>1, <1>7 DEF RunHolds, Binds
<1>10. CASE approval.version > 1
  <2>1. approval.digest = PolicyDigest(run.profile, approval.allow)
    BY <1>1, <1>10 DEF RunHolds, Binds
  <2>2. s.profile = run.profile
    BY <1>8, <1>10, <2>1 DEF PolicyDigest
  <2>3. Allowed(s, c)
    BY <1>8, <1>9, <1>10, <2>2 DEF Allowed
  <2> QED
    BY <1>4, <1>5, <1>6, <1>8, <1>10, <2>3
<1>11. CASE ~(approval.version > 1)
  <2>1. Allowed(s, c)
    BY <1>6, <1>8, <1>9, <1>11 DEF Allowed
  <2> QED
    BY <1>4, <1>5, <1>6, <1>8, <1>11, <2>1
<1> QED
  BY <1>10, <1>11

LEMMA GeneratedIs ==
  ASSUME Holds, Generated
  PROVE  /\ \E s \in typed: /\ Allowed(s, plan.draft.category)
                            /\ Carried # {} => s.allow
                            /\ email.headers.bulk => s.bulk
         /\ \E s \in typed: Reviewed(s, plan.draft.category)
<1> USE DEF Holds
<1>1. planned /\ plan.draft.source \in {"ai", "fallback"}
  BY DEF Generated, Source
<1>2. PICK a, k, d, review, good:
        /\ d = Draft(email, run.profile, run.confirmation, run.approvals, run.texts, a, k,
                     labels, run.kind = "unlabelled", good,
                     CombinedReply(email, run.profile, run.approvals, a, run.kind))
        /\ plan.draft = d
        /\ plan.add = Decided(email, run.profile, k, labels, run.kind = "unlabelled")
                       \cup (IF review THEN {Review} \ labels ELSE {})
  BY <1>1, Planned
<1>3. email.headers \in Headers /\ run.profile \in Profile
  BY <1>1, Planned
<1>4. PICK protected \in BOOLEAN:
        protected = CarriesProtected(run.profile, labels,
                      Decided(email, run.profile, k, labels, run.kind = "unlabelled"))
  BY DEF CarriesProtected
<1>5. /\ ~Unanswerable(email, run.profile, run.approvals)
      /\ Confirmed(run.profile, run.confirmation, d.category)
      /\ Permits(run.approvals, d.category, protected)
  BY <1>1, <1>2, <1>4, DraftIs
<1>6. plan.add \ {Review} \subseteq Decided(email, run.profile, k, labels, run.kind = "unlabelled")
  BY <1>2
<1>7. Carried # {} => protected
  BY <1>4, <1>6 DEF CarriesProtected, Carried
<1>8. email.headers.bulk => run.approvals.all /\ run.approvals.bulk
  BY <1>3, <1>5, AnswerableIs
<1> QED
  BY <1>1, <1>2, <1>5, <1>7, <1>8, Permitted

LEMMA AnsweredIs ==
  ASSUME Holds, Answered
  PROVE  ~Unanswerable(email, run.profile, run.approvals) /\ email.headers \in Headers
<1>1. planned /\ plan.draft.source # "none"
  BY DEF Answered, Source
<1> QED
  BY <1>1, Planned, DraftIs DEF Holds

LEMMA TemplateIs ==
  ASSUME Holds, planned, Source = "template"
  PROVE  Usable(run.texts, plan.draft.key) /\ plan.draft.key \in Keys
<1>1. PICK a, k:
        /\ k = Classified(email, run.profile, run.approvals, a)
        /\ ~Unanswerable(email, run.profile, run.approvals)
        /\ Actionable(k) /\ plan.draft.key \in Template(run.texts, k)
  BY Planned, DraftIs DEF Holds, Source
<1>2. k.category \in Categories
  BY <1>1, ActionableNames DEF Unanswerable
<1>3. k.year \in Years \cup {Unknown}
  BY <1>1, YearOf
<1> QED
  BY <1>1, <1>2, <1>3 DEF Template, Keys

LEMMA ApprovedHolds == Holds => DraftApproved
<1> SUFFICES ASSUME Holds PROVE DraftApproved
  OBVIOUS
<1>1. ASSUME planned, Source = "template"
      PROVE  LET key == plan.draft.key
             IN \/ /\ run.texts.wording[key] = run.texts.approved[key]
                   /\ names["reviewed"] = run.mailbox
                \/ key \in run.texts.named /\ run.texts.approved[key] = 0
  <2>1. Usable(run.texts, plan.draft.key)
    BY <1>1, TemplateIs
  <2>2. CASE run.texts.approved[plan.draft.key] # 0
    <3>1. run.texts.approved = reviewed /\ ReviewFits(run.mailbox)
      BY <1>1 DEF Holds, RunHolds, planned
    <3>2. plan.draft.key \in Keys
      BY <1>1, TemplateIs
    <3>3. reviewed # NoReview
      BY <2>2, <3>1, <3>2 DEF NoReview
    <3> QED
      BY <2>1, <2>2, <3>1, <3>3 DEF Usable, ReviewFits
  <2>3. CASE run.texts.approved[plan.draft.key] = 0
    BY <2>1, <2>3 DEF Usable
  <2> QED
    BY <2>2, <2>3
<1>2. ASSUME Generated PROVE /\ \E s \in typed: Allowed(s, plan.draft.category)
                             /\ \E s \in typed: Reviewed(s, plan.draft.category)
  BY <1>2, GeneratedIs
<1> QED
  BY <1>1, <1>2 DEF DraftApproved

LEMMA InvHolds == Holds => Inv
<1> SUFFICES ASSUME Holds PROVE Inv
  OBVIOUS
<1>1. BulkApproved
  BY GeneratedIs DEF BulkApproved
<1>2. ProtectedApproved
  BY GeneratedIs DEF ProtectedApproved
<1>3. PersonAnswered
  <2> SUFFICES ASSUME Answered
               PROVE  IF email.headers.replyTo = "none" THEN email.headers.from = "person"
                      ELSE email.headers.replyTo = "person" /\ email.headers.from \in {"person", "owner"}
    BY DEF PersonAnswered
  <2> QED
    BY AnsweredIs, AnswerableIs
<1>4. YearWritten
  <2> SUFFICES ASSUME planned, NEW y \in Years, YearLabel[y] \in plan.add
               PROVE  email.evidence = y /\ YearLabels \cap labels = {}
    BY DEF YearWritten
  <2>1. PICK k, review:
          /\ k.category \in Categories \cup {Unknown}
          /\ plan.add = Decided(email, run.profile, k, labels, run.kind = "unlabelled")
                         \cup (IF review THEN {Review} \ labels ELSE {})
    BY Planned DEF Holds
  <2>2. run.profile \in Profile
    BY Planned DEF Holds
  <2>3. YearLabel[y] \in YearLabels
    BY DEF YearLabels
  <2>4. YearLabel[y] \notin CategoryAdd(run.profile, k, labels) /\ YearLabel[y] # Review
    <3>1. YearLabel[y] \notin {CategoryLabel[c]: c \in Categories} /\ YearLabel[y] # Review
      BY <2>3, LabelAssumption
    <3>2. CategoryAdd(run.profile, k, labels) \subseteq {CategoryLabel[c]: c \in Categories}
      <4>1. \A c \in Categories: run.profile.label[c] \in {CategoryLabel[b]: b \in Categories} \cup {NoLabel}
        BY <2>2 DEF Profile
      <4>2. CategoryLabels(run.profile) \subseteq {CategoryLabel[b]: b \in Categories}
        BY <4>1 DEF CategoryLabels
      <4> QED
        BY <2>1, <2>2, <4>2, CategoryAddIs
    <3> QED
      BY <3>1, <3>2
  <2>5. YearLabel[y] \in YearAdd(email, k, labels)
    BY <2>1, <2>4 DEF Decided
  <2> QED
    BY <2>5, YearAddIs, LabelAssumption
<1> QED
  BY <1>1, <1>2, <1>3, <1>4 DEF Inv, Holds

LEMMA UndraftedHolds == Holds => UndraftedIsShown
<1> SUFFICES ASSUME Holds, planned, run.kind = "daily", Source = "none",
                    Review \notin labels \cup plan.add
             PROVE  ~run.profile.global /\ Delivery(email.headers) \in {"automated", "bulk"}
  BY DEF UndraftedIsShown
<1>1. PICK a, k, d, review:
        /\ ReviewDaily(email, run.profile, run.approvals, a, k, labels, d) => review
        /\ plan.draft = d
        /\ {Review} \ labels \subseteq plan.add \/ ~review
  BY Planned DEF Holds
<1>2. ~ReviewDaily(email, run.profile, run.approvals, a, k, labels, d) /\ d.source = "none"
  BY <1>1 DEF Source
<1>3. Status(email, run.profile, run.approvals) = "automated" /\ ~run.profile.global
  BY <1>2 DEF ReviewDaily
<1> QED
  BY <1>3 DEF Status, Delivery

(* Where every message may be drafted, an answer of any kind leads to one.  *)
LEMMA GlobalDrafts ==
  ASSUME NEW e, NEW p, NEW conf, NEW appr, NEW texts, NEW a, NEW ls, NEW noLabel,
         NEW good \in BOOLEAN, NEW combined, NEW k, k = Classified(e, p, appr, a),
         p.global, appr.all, \A c \in Categories: Confirmed(p, conf, c),
         Delivery(e.headers) = "normal" \/ (Delivery(e.headers) = "bulk" /\ appr.bulk), e.complete,
         good \/ p.style # "refused",
         CarriesProtected(p, ls, Decided(e, p, k, ls, noLabel)) => appr.allow,
         NEW d, d = Draft(e, p, conf, appr, texts, a, k, ls, noLabel, good, combined)
  PROVE  d.source \in {"ai", "fallback"} /\ (good => d.source = "ai")
<1>1. Status(e, p, appr) \in {"normal", "bulk"}
  BY DEF Status
<1>2. ~Unanswerable(e, p, appr)
  BY <1>1 DEF Unanswerable
<1>3. PICK c: c = IF NeedsGeneric(e, p, appr, a, k, ls, noLabel) THEN Fallback ELSE k.category
  OBVIOUS
<1>4. ASSUME ~NeedsGeneric(e, p, appr, a, k, ls, noLabel) PROVE k.category \in Categories
  <2>1. Actionable(k)
    BY <1>4 DEF NeedsGeneric
  <2> QED
    BY <1>1, <2>1, ActionableNames
<1>5. c \in Categories
  BY <1>3, <1>4, Taxonomy
<1>6. Confirmed(p, conf, c) /\ Permits(appr, c, CarriesProtected(p, ls, Decided(e, p, k, ls, noLabel)))
  BY <1>5 DEF Permits
<1>7. d = Reply(p, good, combined, c)
  BY <1>2, <1>3, <1>6 DEF Draft, AllReplyable
<1> QED
  BY <1>7 DEF Reply, Drafted

LEMMA SafeHolds == Holds => SafeMessageDrafted
<1> SUFFICES ASSUME Holds, planned, run.profile.global, run.approvals.all,
                    \A c \in Categories: Confirmed(run.profile, run.confirmation, c),
                    Delivery(email.headers) \in {"normal"} \cup {b \in {"bulk"}: run.approvals.bulk},
                    email.complete, run.profile.style # "refused",
                    run.approvals.allow \/ Carried = {}
             PROVE  plan.draft.source \in {"ai", "fallback"}
  BY DEF SafeMessageDrafted, Source
<1>1. PICK a \in AnswersTo, good \in Verdicts:
        plan.draft = PlanOf(a, good).draft /\ plan.add = PlanOf(a, good).add
  <2>1. PICK a \in AnswersTo, good \in Verdicts:
          plan = [draft |-> PlanOf(a, good).draft, add |-> PlanOf(a, good).add]
    BY DEF Holds, planned, PlanHolds
  <2> QED
    BY <2>1
<1>2. PICK k, d:
        /\ k = Classified(email, run.profile, run.approvals, a)
        /\ d = Draft(email, run.profile, run.confirmation, run.approvals, run.texts, a, k,
                     labels, run.kind = "unlabelled", good,
                     CombinedReply(email, run.profile, run.approvals, a, run.kind))
        /\ plan.draft = d
        /\ Decided(email, run.profile, k, labels, run.kind = "unlabelled") \subseteq plan.add
        /\ k.category \in Categories \cup {Unknown}
  BY <1>1, PlanIs DEF PlanOf
<1>3. CarriesProtected(run.profile, labels,
        Decided(email, run.profile, k, labels, run.kind = "unlabelled")) => run.approvals.allow
  <2>1. Review \notin Decided(email, run.profile, k, labels, run.kind = "unlabelled")
    BY <1>2, DecidedIs, Planned DEF Holds
  <2> QED
    BY <1>2, <2>1 DEF CarriesProtected, Carried
<1>4. Delivery(email.headers) = "normal" \/ (Delivery(email.headers) = "bulk" /\ run.approvals.bulk)
  OBVIOUS
<1> QED
  BY <1>1, <1>2, <1>3, <1>4, GlobalDrafts DEF Verdicts


(* A configuration that readiness calls ready drafts what is not in doubt.  *)
LEMMA ReadyHolds == Holds => ReadyMeansDrafts
<1> SUFFICES ASSUME Holds, run.pos = "planning", email # NoEmail,
                    Ready(run.profile, run.confirmation, run.approvals, run.texts),
                    run.profile.global => run.approvals.allow,
                    Delivery(email.headers) = "normal", email.complete, email.meaningful,
                    labels = {},
                    NEW a \in Considered, NEW good \in BOOLEAN, good,
                    NEW result, result = PlanOf(a, good),
                    Actionable(result.class), ~YearConflict(email, result.class),
                    run.profile.global \/ run.profile.mode[result.class.category] # "off"
             PROVE  result.draft.source \in {"ai", "template"}
  BY DEF ReadyMeansDrafts
<1>0. run.profile \in Profile
  BY DEF Holds, TypeOK
<1>c. PICK noLabel \in BOOLEAN: noLabel = (run.kind = "unlabelled")
  OBVIOUS
<1>1. PICK k, d:
        /\ k = Classified(email, run.profile, run.approvals, a)
        /\ d = Draft(email, run.profile, run.confirmation, run.approvals, run.texts, a, k,
                     labels, noLabel, good,
                     CombinedReply(email, run.profile, run.approvals, a, run.kind))
        /\ result.class = k /\ result.draft = d
  BY ONLY result = PlanOf(a, good), <1>c, PlanIs DEF PlanOf
<1>d. result.class = k /\ result.draft = d
  BY <1>1
<1>2. Status(email, run.profile, run.approvals) = "normal"
  BY DEF Status
<1>3. k.category \in Categories
  BY <1>1, <1>2, ActionableNames
<1>4. /\ \A c \in Categories: Confirmed(run.profile, run.confirmation, c)
      /\ ApprovalReady(run.profile, run.approvals)
      /\ ~run.profile.global => TemplatesReady(run.profile, run.texts)
  BY DEF Ready
<1>5. CASE run.profile.global
  <2>1. run.approvals.all /\ run.approvals.allow
    BY <1>4, <1>5 DEF ApprovalReady
  <2>2. email.complete /\ Delivery(email.headers) = "normal"
    OBVIOUS
  <2>3. good \/ run.profile.style # "refused"
    OBVIOUS
  <2>4. d.source \in {"ai", "fallback"} /\ (good => d.source = "ai")
    BY ONLY <1>1, <1>4, <1>5, <2>1, <2>2, <2>3, good \in BOOLEAN, GlobalDrafts
  <2>5. d.source = "ai"
    BY ONLY <2>4, good
  <2> QED
    BY ONLY <1>d, <2>5
<1>6. CASE ~run.profile.global
  <2>1. ~Conflicts(run.profile, k, labels)
    BY DEF Conflicts
  <2>2. ~Unanswerable(email, run.profile, run.approvals)
    BY <1>2 DEF Unanswerable
  <2>3. /\ Actionable(k) /\ ~YearConflict(email, k) /\ Confirmed(run.profile, run.confirmation, k.category)
        /\ run.profile.mode[k.category] \in {"template", "generic"}
    BY <1>0, <1>1, <1>3, <1>4, <1>6 DEF Profile, Modes
  <2>4. d = ByCategory(email, run.profile, run.confirmation, run.approvals, run.texts, k,
                       labels, noLabel, good)
    BY <1>1, <1>6, <2>2 DEF Draft
  <2>5. CASE run.profile.mode[k.category] = "generic"
    <3>1. Permits(run.approvals, k.category, k.category \in ProtectedCategories(run.profile))
      BY <1>3, <1>4, <1>6, <2>5 DEF ApprovalReady, Generic
    <3>2. ASSUME CarriesProtected(run.profile, labels, Decided(email, run.profile, k, labels, noLabel))
          PROVE  k.category \in ProtectedCategories(run.profile)
      <4>1. PICK label \in Decided(email, run.profile, k, labels, noLabel): label \in run.profile.protected
        BY <3>2 DEF CarriesProtected
      <4>2. CASE label \in CategoryAdd(run.profile, k, labels)
        <5>1. LabelCategory(run.profile, k) = k.category
          BY <2>3 DEF LabelCategory
        <5>2. label = run.profile.label[k.category]
          BY <1>0, <1>3, <4>2, <5>1, CategoryAddIs
        <5> QED
          BY <1>3, <4>1, <5>2 DEF ProtectedCategories
      <4>3. CASE label \in YearAdd(email, k, labels)
        <5>1. /\ label = YearLabel[k.year] /\ Eligible(email, k)
              /\ k.year = LocalYear(email)
          BY <4>3, YearAddIs DEF YearConflict
        <5>2. PICK i \in DOMAIN Rules: Rules[i].year = k.year /\ k.category \in Rules[i].categories
          BY <5>1 DEF Eligible, Matching
        <5>3. i \in {j \in DOMAIN Rules: YearLabel[Rules[j].year] \in run.profile.protected}
          BY <4>1, <5>1, <5>2
        <5> QED
          BY <5>2, <5>3 DEF ProtectedCategories
      <4> QED
        BY <4>1, <4>2, <4>3 DEF Decided
    <3>3. Permits(run.approvals, k.category,
                  CarriesProtected(run.profile, labels, Decided(email, run.profile, k, labels, noLabel)))
      BY <3>1, <3>2 DEF Permits
    <3>4. d = Drafted("ai", k.category, NoKey)
      BY <2>1, <2>3, <2>4, <2>5, <3>3 DEF ByCategory
    <3> QED
      BY ONLY <1>d, <3>4 DEF Drafted
  <2>6. CASE run.profile.mode[k.category] = "template"
    <3>1. Usable([run.texts EXCEPT !.named = {}], <<k.category, Unknown>>)
      BY <1>3, <1>4, <1>6, <2>6 DEF TemplatesReady
    <3>2. Usable(run.texts, <<k.category, Unknown>>)
      <4>1. run.texts \in Texts
        BY DEF Holds, TypeOK
      <4> QED
        BY <3>1, <4>1 DEF Usable, Texts
    <3>3. Template(run.texts, k) # {}
      BY <3>2 DEF Template
    <3>4. d = Drafted("template", k.category, CHOOSE key \in Template(run.texts, k): TRUE)
      BY <2>1, <2>3, <2>4, <2>6, <3>3 DEF ByCategory
    <3> QED
      BY ONLY <1>d, <3>4 DEF Drafted
  <2> QED
    BY <2>3, <2>5, <2>6
<1> QED
  BY <1>5, <1>6


------------------------------------------------------------------------------
(* The owner *)

OwnersType ==
  /\ profile \in Profile /\ wording \in [Keys -> 0..MaxWording]
  /\ confirmation \in Digests
  /\ approval.version \in 0..4 /\ approval.categories \subseteq Categories
  /\ approval.allow \in BOOLEAN
  /\ reviewed \in [Keys -> 0..MaxWording] /\ names \in [Documents -> Accounts]
  /\ tool \in {NoTool} \cup Tool
  /\ edits \in 0..MaxEdits

LEMMA OwnersTypeIs == TypeOK => OwnersType
BY DEF TypeOK, OwnersType

LEMMA OwnerKeeps ==
  ASSUME Holds, run.pos # "planning", UNCHANGED <<run, labels, plan, email>>,
         OwnersType', Founded', ToolHolds'
  PROVE  Holds'
<1>1. plan = NoPlan /\ plan' = NoPlan /\ run'.pos # "planning"
  BY DEF Holds, PlanHolds
<1>2. RunHolds' /\ PlanHolds'
  BY <1>1 DEF RunHolds, PlanHolds
<1>3. TypeOK'
  BY DEF Holds, TypeOK, OwnersType
<1> QED
  BY <1>2, <1>3 DEF Holds

LEMMA ToolIs ==
  ASSUME TypeOK
  PROVE  /\ tool.pos = "none" => tool = NoTool
         /\ tool.pos # "none" => tool \in Tool
BY DEF TypeOK, Tool, NoTool

LEMMA ProfileIs ==
  ASSUME NEW p \in Profile
  PROVE  /\ p.account \in Accounts /\ p.global \in BOOLEAN /\ p.style \in Styles
         /\ p.mode \in [Categories -> Modes] /\ p.digest \in [Categories -> Nat \ {0}]
         /\ p.digest \in Digests /\ Generic(p) \subseteq Categories
<1>1. /\ p.account \in Accounts /\ p.global \in BOOLEAN /\ p.style \in Styles
      /\ p.mode \in [Categories -> Modes] /\ p.digest \in [Categories -> Nat \ {0}]
  BY DEF Profile
<1> QED
  BY <1>1 DEF Digests, Generic

LEMMA FoundedOn ==
  ASSUME Founded, UNCHANGED <<confirmation, approval>>, typed \subseteq typed',
         names'["confirmation"] = names["confirmation"], names'["approval"] = names["approval"]
  PROVE  Founded'
BY DEF Founded

LEMMA EditProfileStep ==
  ASSUME Holds, run.pos # "planning", EditProfile
  PROVE  Holds'
<1>1. /\ edits < MaxEdits /\ edits' = edits + 1 /\ profile' \in Edited
      /\ UNCHANGED <<wording, confirmation, approval, reviewed, names, tool, run, labels, plan,
                     typed, email>>
  BY DEF EditProfile
<1>2. profile' \in Profile
  <2>1. profile \in Profile
    BY DEF Holds, TypeOK
  <2>2. EditedModes \subseteq Modes
    BY BoundAssumption
  <2>3. CASE \E a \in Accounts: profile' = [profile EXCEPT !.account = a]
    BY <2>1, <2>3 DEF Profile
  <2>4. CASE profile' = [profile EXCEPT !.global = ~@]
    BY <2>1, <2>4 DEF Profile
  <2>5. CASE \E c \in Categories, m \in EditedModes: profile' = [profile EXCEPT !.mode[c] = m]
    BY <2>1, <2>2, <2>5 DEF Profile
  <2>6. CASE \E c \in Categories: profile' = [profile EXCEPT !.digest[c] = @ + 1]
    BY <2>1, <2>6 DEF Profile
  <2>7. CASE \E c \in Categories: profile' = [profile EXCEPT !.label[c] = NoLabel]
    BY <2>1, <2>7 DEF Profile
  <2>8. CASE profile' = [profile EXCEPT !.protected = Protectable]
    BY <2>1, <2>8 DEF Profile
  <2>9. CASE \E s \in Styles: profile' = [profile EXCEPT !.style = s]
    BY <2>1, <2>9 DEF Profile
  <2> QED
    BY <1>1, <2>3, <2>4, <2>5, <2>6, <2>7, <2>8, <2>9 DEF Edited
<1>3. edits' \in 0..MaxEdits
  BY <1>1, BoundAssumption, OwnersTypeIs DEF Holds, OwnersType
<1>4. OwnersType'
  BY <1>1, <1>2, <1>3, OwnersTypeIs DEF Holds, OwnersType
<1>5. Founded' /\ ToolHolds'
  BY <1>1, FoundedOn DEF Holds, ToolHolds
<1> QED
  BY <1>1, <1>4, <1>5, OwnerKeeps

LEMMA EditWordingStep ==
  ASSUME Holds, run.pos # "planning", NEW key \in EditedKeys, EditWording(key)
  PROVE  Holds'
<1>1. /\ edits < MaxEdits /\ edits' = edits + 1 /\ wording[key] < MaxWording
      /\ wording' = [wording EXCEPT ![key] = IF @ = 0 THEN Placeholder + 1 ELSE @ + 1]
      /\ UNCHANGED <<profile, confirmation, approval, reviewed, names, tool, run, labels, plan,
                     typed, email>>
  BY DEF EditWording
<1>2. key \in Keys /\ MaxWording \in Nat /\ MaxWording > 1 /\ MaxEdits \in Nat
  BY BoundAssumption DEF Placeholder
<1>3. wording \in [Keys -> 0..MaxWording] /\ edits \in 0..MaxEdits
  BY DEF Holds, TypeOK
<1>4. wording' \in [Keys -> 0..MaxWording] /\ edits' \in 0..MaxEdits
  BY <1>1, <1>2, <1>3 DEF Placeholder
<1>5. OwnersType'
  BY <1>1, <1>4, OwnersTypeIs DEF Holds, OwnersType
<1>6. Founded' /\ ToolHolds'
  BY <1>1, FoundedOn DEF Holds, ToolHolds
<1> QED
  BY <1>1, <1>5, <1>6, OwnerKeeps

LEMMA ReviewStep ==
  ASSUME Holds, run.pos # "planning", ReviewWording
  PROVE  Holds'
<1>1. /\ reviewed' = wording /\ names' = [names EXCEPT !["reviewed"] = profile.account]
      /\ UNCHANGED <<profile, wording, confirmation, approval, tool, run, labels, plan,
                     typed, edits, email>>
  BY DEF ReviewWording
<1>2. profile.account \in Accounts
  BY ProfileIs DEF Holds, TypeOK
<1>3. /\ names' \in [Documents -> Accounts] /\ names'["confirmation"] = names["confirmation"]
      /\ names'["approval"] = names["approval"]
  BY <1>1, <1>2 DEF Holds, TypeOK, Documents
<1>4. OwnersType'
  BY <1>1, <1>3, OwnersTypeIs DEF Holds, OwnersType
<1>5. Founded' /\ ToolHolds'
  BY <1>1, <1>3, FoundedOn DEF Holds, ToolHolds
<1> QED
  BY <1>1, <1>4, <1>5, OwnerKeeps

(* What the tool shows is what it writes. *)
LEMMA ShowStep ==
  ASSUME Holds, run.pos # "planning", (\E allow \in BOOLEAN: ShowReview(allow)) \/ TypeSentence \/ ToolDies
  PROVE  Holds'
<1>1. UNCHANGED <<profile, wording, confirmation, approval, reviewed, names, run, labels, plan,
                  edits, email>>
  BY DEF ShowReview, TypeSentence, ToolDies, files
<1>2. typed \subseteq typed'
  BY DEF ShowReview, TypeSentence, ToolDies
<1>3. Founded'
  BY <1>1, <1>2, FoundedOn DEF Holds
<1>4. profile \in Profile
  BY DEF Holds, TypeOK
<1>5. (tool' \in {NoTool} \cup Tool) /\ ToolHolds'
  <2>1. ASSUME NEW allow \in BOOLEAN, ShowReview(allow) PROVE (tool' \in {NoTool} \cup Tool) /\ ToolHolds'
    <3>1. PICK shown \in Tool: shown = [pos |-> "shown", profile |-> profile, allow |-> allow]
      BY <1>4 DEF Tool
    <3>2. tool' = shown /\ shown.pos = "shown"
      BY <2>1, <3>1 DEF ShowReview
    <3> QED
      BY <3>2 DEF ToolHolds
  <2>2. CASE TypeSentence
    <3>1. tool \in Tool /\ tool' = [tool EXCEPT !.pos = "typed"]
      BY <2>2, ToolIs DEF TypeSentence, Holds
    <3>2. /\ tool' \in Tool /\ tool'.pos = "typed" /\ tool'.profile = tool.profile
          /\ tool'.allow = tool.allow
      BY <3>1 DEF Tool
    <3>3. Statement(tool.profile, tool.allow, tool.profile.global) \in typed'
      BY <2>2 DEF TypeSentence
    <3> QED
      BY <3>2, <3>3 DEF ToolHolds
  <2>3. CASE ToolDies
    <3>1. tool' = NoTool
      BY <2>3 DEF ToolDies
    <3> QED
      BY <3>1 DEF ToolHolds, NoTool
  <2> QED
    BY <2>1, <2>2, <2>3
<1>6. OwnersType'
  BY <1>1, <1>5, OwnersTypeIs DEF Holds, OwnersType
<1> QED
  BY <1>1, <1>3, <1>5, <1>6, OwnerKeeps

(* What is written was typed. *)
LEMMA WriteConfirmationStep ==
  ASSUME Holds, run.pos # "planning", WriteConfirmation
  PROVE  Holds'
<1>1. /\ tool.pos = "typed"
      /\ UNCHANGED <<profile, wording, approval, reviewed, run, labels, plan, typed, edits, email>>
  BY DEF WriteConfirmation
<1>2. tool \in Tool /\ tool.profile \in Profile
  BY <1>1, ToolIs DEF Holds, Tool
<1>3. Statement(tool.profile, tool.allow, tool.profile.global) \in typed
  BY <1>1 DEF Holds, ToolHolds
<1>4. CASE /\ confirmation' = tool.profile.digest /\ tool' = [tool EXCEPT !.pos = "first"]
           /\ names' = [names EXCEPT !["confirmation"] = tool.profile.account]
  <2>1. /\ names' \in [Documents -> Accounts] /\ names'["confirmation"] = tool.profile.account
        /\ names'["approval"] = names["approval"]
    BY <1>2, <1>4, ProfileIs DEF Holds, TypeOK, Documents
  <2>2. /\ tool' \in Tool /\ tool'.pos = "first" /\ tool'.profile = tool.profile
        /\ tool'.allow = tool.allow
    BY <1>2, <1>4 DEF Tool
  <2>3. confirmation' \in Digests
    BY <1>2, <1>4, ProfileIs
  <2>4. OwnersType'
    BY <1>1, <2>1, <2>2, <2>3, OwnersTypeIs DEF Holds, OwnersType
  <2>5. ToolHolds'
    BY <1>1, <1>3, <2>2 DEF ToolHolds
  <2>6. PICK s \in typed: s.profile = tool.profile
    BY <1>3 DEF Statement
  <2>7. Founded'
    BY <1>1, <1>4, <2>1, <2>6 DEF Holds, Founded
  <2> QED
    BY <1>1, <2>4, <2>5, <2>7, OwnerKeeps
<1>5. CASE tool' = NoTool /\ UNCHANGED <<confirmation, names>>
  <2>1. OwnersType'
    BY <1>1, <1>5, OwnersTypeIs DEF Holds, OwnersType
  <2>2. ToolHolds'
    BY <1>5 DEF ToolHolds, NoTool
  <2>3. Founded'
    BY <1>1, <1>5, FoundedOn DEF Holds
  <2> QED
    BY <1>1, <2>1, <2>2, <2>3, OwnerKeeps
<1> QED
  BY <1>4, <1>5 DEF WriteConfirmation


(* build_documents: the approval says what the statement said.              *)
LEMMA ApprovalIs ==
  ASSUME NEW p \in Profile, NEW allow \in BOOLEAN, NEW document, document = ApprovalOf(p, allow)
  PROVE  /\ document.version \in 0..4 /\ document.categories \subseteq Categories
         /\ document.allow \in BOOLEAN
         /\ document # NoApproval =>
              /\ document.allow = allow
              /\ IF document.version > 1
                   THEN p.global /\ document.digest = PolicyDigest(p, allow)
                   ELSE ~p.global /\ document.categories = Generic(p)
<1>1. CASE p.global
  <2>1. document = [version |-> 4, categories |-> {}, allow |-> allow,
                    digest |-> PolicyDigest(p, allow)]
    BY <1>1 DEF ApprovalOf
  <2>2. /\ document.version = 4 /\ document.categories = {} /\ document.allow = allow
        /\ document.digest = PolicyDigest(p, allow)
    BY <2>1
  <2> QED
    BY <1>1, <2>2
<1>2. CASE ~p.global /\ Generic(p) # {}
  <2>1. document = [version |-> 1, categories |-> Generic(p), allow |-> allow, digest |-> NoDigest]
    BY <1>2 DEF ApprovalOf
  <2>2. document.version = 1 /\ document.categories = Generic(p) /\ document.allow = allow
    BY <2>1
  <2> QED
    BY <1>2, <2>2, ProfileIs
<1>3. CASE ~p.global /\ Generic(p) = {}
  <2>1. document = NoApproval
    BY <1>3 DEF ApprovalOf
  <2>2. /\ document.version \in 0..4 /\ document.categories \subseteq Categories
        /\ document.allow \in BOOLEAN
    BY <2>1 DEF NoApproval
  <2> QED
    BY <2>1, <2>2
<1> QED
  BY <1>1, <1>2, <1>3

LEMMA WriteApprovalStep ==
  ASSUME Holds, run.pos # "planning", WriteApproval
  PROVE  Holds'
<1>1. /\ tool.pos = "first" /\ tool' = NoTool
      /\ UNCHANGED <<profile, wording, confirmation, reviewed, run, labels, plan, typed, edits,
                     email>>
  BY DEF WriteApproval
<1>2. tool.profile \in Profile /\ tool.allow \in BOOLEAN
  BY <1>1, ToolIs DEF Holds, Tool
<1>3. PICK document: document = ApprovalOf(tool.profile, tool.allow)
  OBVIOUS
<1>4. ToolHolds'
  BY <1>1 DEF ToolHolds, NoTool
<1>5. CASE document = NoApproval
  <2>1. UNCHANGED <<approval, names>>
    BY <1>3, <1>5 DEF WriteApproval
  <2>2. OwnersType'
    BY <1>1, <2>1, OwnersTypeIs DEF Holds, OwnersType
  <2>3. Founded'
    BY <1>1, <2>1, FoundedOn DEF Holds
  <2> QED
    BY <1>1, <1>4, <2>2, <2>3, OwnerKeeps
<1>6. CASE document # NoApproval
  <2>1. approval' = document /\ names' = [names EXCEPT !["approval"] = tool.profile.account]
    BY <1>3, <1>6 DEF WriteApproval
  <2>2. /\ names' \in [Documents -> Accounts] /\ names'["approval"] = tool.profile.account
        /\ names'["confirmation"] = names["confirmation"]
    BY <1>2, <2>1, ProfileIs DEF Holds, TypeOK, Documents
  <2>3. /\ document.version \in 0..4 /\ document.categories \subseteq Categories
        /\ document.allow \in BOOLEAN /\ document.allow = tool.allow
        /\ IF document.version > 1
             THEN tool.profile.global /\ document.digest = PolicyDigest(tool.profile, tool.allow)
             ELSE ~tool.profile.global /\ document.categories = Generic(tool.profile)
    BY <1>2, <1>3, <1>6, ApprovalIs
  <2>4. OwnersType'
    BY <1>1, <2>1, <2>2, <2>3, OwnersTypeIs DEF Holds, OwnersType
  <2>5. PICK s \in typed: s = Statement(tool.profile, tool.allow, tool.profile.global)
    BY <1>1 DEF Holds, ToolHolds
  <2>6. s.profile = tool.profile /\ s.allow = tool.allow /\ s.bulk = tool.profile.global
    BY <2>5 DEF Statement
  <2>7. Founded'
    BY <1>1, <2>1, <2>2, <2>3, <2>6 DEF Holds, Founded
  <2> QED
    BY <1>1, <1>4, <2>4, <2>7, OwnerKeeps
<1> QED
  BY <1>5, <1>6

(* Documents that are taken away need nobody's word. *)
LEMMA RemovalSteps ==
  ASSUME Holds, run.pos # "planning", WriteFails \/ OwnerRemovesApprovals
  PROVE  Holds'
<1>1. /\ UNCHANGED <<profile, wording, reviewed, names, run, labels, plan, typed, edits, email>>
      /\ tool' \in {NoTool, tool}
      /\ confirmation' \in {Nothing, confirmation} /\ approval' \in {NoApproval, approval}
  BY DEF WriteFails, OwnerRemovesApprovals
<1>2. ToolHolds'
  BY <1>1 DEF Holds, ToolHolds, NoTool
<1>3. Nothing \in Digests
  BY DEF Nothing, Digests
<1>4. /\ NoApproval.version \in 0..4 /\ NoApproval.categories \subseteq Categories
      /\ NoApproval.allow \in BOOLEAN
  BY DEF NoApproval
<1>5. OwnersType'
  BY <1>1, <1>3, <1>4, OwnersTypeIs DEF Holds, OwnersType
<1>6. Founded'
  BY <1>1 DEF Holds, Founded
<1> QED
  BY <1>1, <1>2, <1>5, <1>6, OwnerKeeps

LEMMA EarlierStep ==
  ASSUME Holds, run.pos # "planning", NEW version \in 2..3, EarlierApproval(version)
  PROVE  Holds'
<1>0. PICK allow \in BOOLEAN, bulk \in BOOLEAN: allow = FALSE /\ bulk = (version = 3)
  OBVIOUS
<1>1. PICK document: document = [version |-> version, categories |-> {}, allow |-> allow,
                                 digest |-> PolicyDigest(profile, allow)]
  OBVIOUS
<1>2. /\ document.version = version /\ document.categories = {} /\ document.allow = allow
      /\ document.digest = PolicyDigest(profile, allow)
  BY <1>1
<1>3. /\ profile.global /\ confirmation' = profile.digest /\ approval' = document
      /\ names' = [names EXCEPT !["confirmation"] = profile.account,
                                !["approval"] = profile.account]
      /\ UNCHANGED <<profile, wording, reviewed, tool, run, labels, plan, edits, email>>
  BY <1>0, <1>1 DEF EarlierApproval
<1>4. PICK s: s = Statement(profile, allow, bulk) /\ typed' = typed \cup {s}
  BY <1>0 DEF EarlierApproval
<1>5. s.profile = profile /\ s.allow = allow /\ s.bulk = bulk
  BY ONLY <1>4 DEF Statement
<1>b. ASSUME version > 2 PROVE bulk
  <2>1. version = 3
    BY ONLY <1>b, version \in 2..3
  <2> QED
    BY ONLY <1>0, <2>1
<1>6. profile \in Profile /\ profile.account \in Accounts /\ profile.digest \in Digests
  BY ProfileIs DEF Holds, TypeOK
<1>7. /\ names' \in [Documents -> Accounts] /\ names'["confirmation"] = profile.account
      /\ names'["approval"] = profile.account
  BY <1>3, <1>6 DEF Holds, TypeOK, Documents
<1>8. OwnersType'
  BY <1>2, <1>3, <1>6, <1>7, OwnersTypeIs DEF Holds, OwnersType
<1>9. ToolHolds'
  BY <1>3, <1>4 DEF Holds, ToolHolds
<1>10. Founded'
  BY <1>2, <1>3, <1>4, <1>5, <1>b, <1>7 DEF Founded
<1> QED
  BY <1>3, <1>8, <1>9, <1>10, OwnerKeeps

(* The form of the dashboard. *)
LEMMA SaveSettingsStep ==
  ASSUME Holds, run.pos # "planning", SaveSettings
  PROVE  Holds'
<1>1. PICK style \in Styles:
        profile' = [account |-> profile.account, global |-> TRUE,
                    mode |-> [c \in Categories |-> "generic"], digest |-> profile.digest,
                    label |-> [c \in Categories |-> CategoryLabel[c]],
                    protected |-> {}, style |-> style]
  BY DEF SaveSettings
<1>2. PICK p: p = profile'
  OBVIOUS
<1>3. /\ confirmation' = p.digest /\ approval' = ApprovalOf(p, FALSE)
      /\ names' = [names EXCEPT !["confirmation"] = profile.account,
                                !["approval"] = profile.account]
      /\ edits < MaxEdits /\ edits' = edits + 1 /\ tool = NoTool
      /\ UNCHANGED <<wording, reviewed, tool, run, labels, plan, email>>
  BY <1>2 DEF SaveSettings
<1>4. p \in Profile /\ p.account = profile.account /\ p.global
  <2>1. profile.account \in Accounts /\ profile.digest \in [Categories -> Nat \ {0}]
    BY ProfileIs DEF Holds, TypeOK
  <2>2. [c \in Categories |-> "generic"] \in [Categories -> Modes]
    BY DEF Modes
  <2>3. [c \in Categories |-> CategoryLabel[c]]
          \in [Categories -> {CategoryLabel[c]: c \in Categories} \cup {NoLabel}]
    OBVIOUS
  <2> QED
    BY <1>1, <1>2, <2>1, <2>2, <2>3 DEF Profile
<1>5. PICK s: s = Statement(p, FALSE, TRUE) /\ typed' = typed \cup {s}
  BY <1>2 DEF SaveSettings
<1>6. s.profile = p /\ s.allow = FALSE /\ s.bulk
  BY <1>5 DEF Statement
<1>7. /\ names' \in [Documents -> Accounts] /\ names'["confirmation"] = p.account
      /\ names'["approval"] = p.account
  BY <1>3, <1>4, ProfileIs DEF Holds, TypeOK, Documents
<1>8. /\ approval'.version \in 0..4 /\ approval'.categories \subseteq Categories
      /\ approval'.allow \in BOOLEAN
      /\ approval' # NoApproval =>
           /\ approval'.allow = FALSE
           /\ IF approval'.version > 1 THEN approval'.digest = PolicyDigest(p, FALSE)
                                       ELSE ~p.global /\ approval'.categories = Generic(p)
  BY <1>3, <1>4, ApprovalIs
<1>9. confirmation' \in Digests
  BY <1>3, <1>4, ProfileIs
<1>10. edits' \in 0..MaxEdits
  BY <1>3, BoundAssumption DEF Holds, TypeOK
<1>11. OwnersType'
  BY <1>2, <1>3, <1>4, <1>7, <1>8, <1>9, <1>10, OwnersTypeIs DEF Holds, OwnersType
<1>12. ToolHolds'
  BY <1>3 DEF ToolHolds, NoTool
<1>13. Founded'
  BY <1>3, <1>4, <1>5, <1>6, <1>7, <1>8 DEF Founded
<1> QED
  BY <1>3, <1>11, <1>12, <1>13, OwnerKeeps

LEMMA OwnerStep ==
  ASSUME Holds, Owner
  PROVE  Holds'
<1>1. run.pos # "planning"
  BY DEF Owner
<1>2. CASE EditProfile \/ ReviewWording \/ \E key \in EditedKeys: EditWording(key)
  BY <1>1, <1>2, EditProfileStep, ReviewStep, EditWordingStep
<1>3. CASE (\E allow \in BOOLEAN: ShowReview(allow)) \/ TypeSentence \/ ToolDies
  BY <1>1, <1>3, ShowStep
<1>4. CASE WriteConfirmation \/ WriteApproval \/ WriteFails \/ OwnerRemovesApprovals
  BY <1>1, <1>4, WriteConfirmationStep, WriteApprovalStep, RemovalSteps
<1>5. CASE (\E version \in 2..3: EarlierApproval(version)) \/ SaveSettings
  BY <1>1, <1>5, EarlierStep, SaveSettingsStep
<1> QED
  BY <1>2, <1>3, <1>4, <1>5 DEF Owner

------------------------------------------------------------------------------
(* A run *)

(* What a run does leaves the documents, and what they rest on, alone.      *)
LEMMA RunKeeps ==
  ASSUME Holds, UNCHANGED <<files, tool, typed, edits>>
  PROVE  OwnersType' /\ Founded' /\ ToolHolds'
<1>1. UNCHANGED <<profile, wording, confirmation, approval, reviewed, names, tool, typed, edits>>
  BY DEF files
<1>2. OwnersType'
  BY <1>1, OwnersTypeIs DEF Holds, OwnersType
<1>3. Founded' /\ ToolHolds'
  BY <1>1, FoundedOn DEF Holds, ToolHolds
<1> QED
  BY <1>2, <1>3

LEMMA NoPlanIs == NoPlan.draft.source = "unplanned"
BY DEF NoPlan, Drafted

LEMMA LoadProfileStep ==
  ASSUME Holds, NEW kind \in Kinds, LoadProfile(kind)
  PROVE  Holds'
<1>1. OwnersType' /\ Founded' /\ ToolHolds'
  BY RunKeeps DEF LoadProfile
<1>2. UNCHANGED <<labels, plan, email>> /\ run.pos = "none"
  BY DEF LoadProfile, NoRun
<1>3. plan = NoPlan
  BY <1>2 DEF Holds, PlanHolds
<1>4. PICK loaded: loaded = [pos |-> "profile", kind |-> kind, profile |-> profile, wording |-> wording]
  OBVIOUS
<1>5. /\ run' = loaded /\ loaded.pos = "profile" /\ loaded.kind = kind /\ loaded.profile = profile
      /\ loaded.wording = wording
  BY <1>4 DEF LoadProfile
<1>6. RunHolds' /\ PlanHolds'
  BY <1>2, <1>3, <1>5 DEF RunHolds, PlanHolds
<1>7. TypeOK'
  BY <1>1, <1>2, <1>5 DEF Holds, TypeOK, OwnersType
<1> QED
  BY <1>1, <1>6, <1>7 DEF Holds

LEMMA LoadApprovalsStep ==
  ASSUME Holds, NEW named \in Named, NEW mailbox \in Accounts, LoadApprovals(named, mailbox)
  PROVE  Holds'
<1>1. OwnersType' /\ Founded' /\ ToolHolds'
  BY RunKeeps DEF LoadApprovals
<1>2. UNCHANGED <<labels, plan, email, files>> /\ run.pos = "profile"
  BY DEF LoadApprovals
<1>3. plan = NoPlan
  BY <1>2 DEF Holds, PlanHolds
<1>4. CASE run' = NoRun
  <2>1. run'.pos = "none"
    BY <1>4 DEF NoRun
  <2>2. RunHolds' /\ PlanHolds'
    BY <1>2, <1>3, <2>1 DEF RunHolds, PlanHolds
  <2>3. TypeOK'
    BY <1>1, <1>2, <2>1 DEF Holds, TypeOK, OwnersType
  <2> QED
    BY <1>1, <2>2, <2>3 DEF Holds
<1>5. CASE run' # NoRun
  <2>1. PICK texts: texts = [wording |-> run.wording, approved |-> reviewed, named |-> named]
    OBVIOUS
  <2>2. PICK begun: begun = [pos |-> "planning", kind |-> run.kind, profile |-> run.profile,
                             mailbox |-> mailbox, confirmation |-> confirmation,
                             approvals |-> Approvals, texts |-> texts]
    OBVIOUS
  <2>3. /\ run' = begun
        /\ MailboxFits(run.profile, mailbox) /\ ConfirmationFits(mailbox) /\ ReviewFits(mailbox)
        /\ Binds(run.profile, mailbox)
    BY <1>5, <2>1, <2>2 DEF LoadApprovals
  <2>4. /\ begun.pos = "planning" /\ begun.kind = run.kind /\ begun.profile = run.profile
        /\ begun.mailbox = mailbox /\ begun.confirmation = confirmation
        /\ begun.approvals = Approvals /\ begun.texts = texts
    BY <2>2
  <2>5. texts \in Texts /\ texts.approved = reviewed
    BY <1>2, <2>1 DEF Holds, TypeOK, Texts
  <2>6. UNCHANGED <<confirmation, approval, reviewed, names>>
    BY <1>2 DEF files
  <2>7. /\ MailboxFits(run'.profile, run'.mailbox) /\ ConfirmationFits(run.mailbox)'
        /\ ReviewFits(run.mailbox)'
    BY <2>3, <2>4, <2>6 DEF MailboxFits, ConfirmationFits, ReviewFits
  <2>8. Binds(run.profile, run.mailbox)' /\ Approvals' = Approvals
    BY <2>3, <2>4, <2>6 DEF Binds, Approvals
  <2>9. RunHolds'
    BY <2>3, <2>4, <2>5, <2>6, <2>7, <2>8 DEF RunHolds
  <2>10. PlanHolds'
    BY <1>2, <1>3 DEF PlanHolds
  <2>11. TypeOK'
    BY <1>1, <1>2, <2>3, <2>4, <2>5 DEF Holds, TypeOK, OwnersType
  <2> QED
    BY <1>1, <2>9, <2>10, <2>11 DEF Holds
<1> QED
  BY <1>4, <1>5

LEMMA FetchEmailStep ==
  ASSUME Holds, FetchEmail
  PROVE  Holds'
<1>1. OwnersType' /\ Founded' /\ ToolHolds'
  BY RunKeeps DEF FetchEmail
<1>2. /\ email = NoEmail /\ email' \in Emails /\ labels' \in FirstLabels
      /\ UNCHANGED <<run, plan, files>>
  BY DEF FetchEmail
<1>3. plan = NoPlan
  BY <1>2 DEF Holds, PlanHolds
<1>4. labels' \subseteq Labels
  BY <1>2, FirstAssumption
<1>5. PlanHolds'
  BY <1>2, <1>3 DEF PlanHolds
<1>6. RunHolds'
  BY <1>2 DEF files, Holds, RunHolds, ConfirmationFits, ReviewFits, Binds, Approvals
<1>7. TypeOK'
  BY <1>1, <1>2, <1>4 DEF Holds, TypeOK, OwnersType
<1> QED
  BY <1>1, <1>5, <1>6, <1>7 DEF Holds

LEMMA PlanMessageStep ==
  ASSUME Holds, PlanMessage
  PROVE  Holds'
<1>1. OwnersType' /\ Founded' /\ ToolHolds'
  BY RunKeeps DEF PlanMessage
<1>2. /\ run.pos = "planning" /\ email # NoEmail
      /\ UNCHANGED <<run, labels, files, email>>
  BY DEF PlanMessage
<1>3. PICK a \in Answers, good \in Verdicts:
        /\ a \in AnswersTo
        /\ plan' = [draft |-> PlanOf(a, good).draft, add |-> PlanOf(a, good).add]
  BY BoundAssumption DEF PlanMessage, AnswersTo
<1>4. PICK result: /\ result = PlanOf(a, good)
                   /\ plan' = [draft |-> result.draft, add |-> result.add]
  BY <1>3
<1>5. plan'.draft = result.draft
  BY <1>4
<1>6. plan'.draft.source \in {"none", "ai", "fallback", "template", "broken"}
  <2>1. PICK d, k: /\ result.draft = d
                   /\ d = Draft(email, run.profile, run.confirmation, run.approvals, run.texts,
                                a, k, labels, run.kind = "unlabelled", good,
                                CombinedReply(email, run.profile, run.approvals, a, run.kind))
    BY <1>4, PlanIs DEF PlanOf
  <2> QED
    BY <1>5, <2>1, DraftIs
<1>7. RunHolds'
  BY <1>2 DEF files, Holds, RunHolds, ConfirmationFits, ReviewFits, Binds, Approvals
<1>8. AnswersTo' = AnswersTo /\ PlanOf(a, good)' = PlanOf(a, good)
  BY <1>2 DEF AnswersTo, PlanOf
<1>9. PlanHolds'
  BY <1>2, <1>3, <1>8 DEF PlanHolds
<1>10. TypeOK'
  BY <1>1, <1>2, <1>6 DEF Holds, TypeOK, OwnersType
<1> QED
  BY <1>1, <1>7, <1>9, <1>10 DEF Holds


(* A plan adds at most one category label, where the message has none.      *)
LEMMA AddIs ==
  ASSUME Holds, planned
  PROVE  /\ plan.add \subseteq Labels /\ run.profile \in Profile
         /\ \/ plan.add \cap CategoryLabels(run.profile) = {}
            \/ /\ CategoryLabels(run.profile) \cap labels = {}
               /\ \E label: plan.add \cap CategoryLabels(run.profile) = {label}
<1> DEFINE ofCategories == CategoryLabels(run.profile)
<1>1. PICK k, review:
        /\ k.category \in Categories \cup {Unknown}
        /\ plan.add = Decided(email, run.profile, k, labels, run.kind = "unlabelled")
                       \cup (IF review THEN {Review} \ labels ELSE {})
  BY Planned DEF Holds
<1>2. run.profile \in Profile
  BY Planned DEF Holds
<1>3. ofCategories \subseteq {CategoryLabel[c]: c \in Categories}
  <2>1. \A c \in Categories: run.profile.label[c] \in {CategoryLabel[b]: b \in Categories} \cup {NoLabel}
    BY <1>2 DEF Profile
  <2> QED
    BY <2>1 DEF CategoryLabels
<1>4. YearAdd(email, k, labels) \subseteq YearLabels
  BY YearAddIs
<1>5. PICK added: added = CategoryAdd(run.profile, k, labels)
  OBVIOUS
<1>6. \/ added = {}
      \/ ofCategories \cap labels = {} /\ \E label \in ofCategories: added = {label}
  BY <1>1, <1>2, <1>5, CategoryAddIs
<1>7. plan.add \subseteq added \cup YearLabels \cup {Review}
  BY <1>1, <1>4, <1>5 DEF Decided
<1>8. ofCategories \cap (YearLabels \cup {Review}) = {}
  BY <1>3, LabelAssumption
<1>9. added \subseteq ofCategories
  BY <1>6
<1>10. plan.add \subseteq Labels
  BY <1>3, <1>7, <1>9 DEF Labels
<1>11. plan.add \cap ofCategories \subseteq added
  BY <1>7, <1>8
<1> HIDE DEF ofCategories
<1>12. \/ plan.add \cap ofCategories = {}
       \/ ofCategories \cap labels = {} /\ \E label: plan.add \cap ofCategories = {label}
  BY ONLY <1>6, <1>11
<1> USE DEF ofCategories
<1> QED
  BY ONLY <1>2, <1>10, <1>12

LEMMA EndStep ==
  ASSUME Holds, Execute \/ EndRun
  PROVE  Holds'
<1>1. OwnersType' /\ Founded' /\ ToolHolds'
  BY RunKeeps DEF Execute, EndRun
<1>2. run' = NoRun /\ plan' = NoPlan /\ UNCHANGED email
  BY DEF Execute, EndRun
<1>3. labels' \subseteq Labels
  <2>1. labels \subseteq Labels
    BY DEF Holds, TypeOK
  <2>2. CASE Execute
    <3>1. planned
      BY <2>2 DEF Execute, planned
    <3>2. labels' \subseteq labels \cup plan.add
      BY <2>2 DEF Execute
    <3> QED
      BY <2>1, <3>1, <3>2, AddIs
  <2>3. CASE EndRun
    BY <2>1, <2>3 DEF EndRun
  <2> QED
    BY <2>2, <2>3
<1>4. run'.pos = "none"
  BY <1>2 DEF NoRun
<1>5. RunHolds' /\ PlanHolds'
  BY <1>2, <1>4 DEF RunHolds, PlanHolds
<1>6. plan'.draft.source = "unplanned"
  BY <1>2, NoPlanIs
<1>7. TypeOK'
  BY <1>1, <1>2, <1>3, <1>4, <1>6 DEF Holds, TypeOK, OwnersType
<1> QED
  BY <1>1, <1>5, <1>7 DEF Holds

LEMMA IdleStep ==
  ASSUME Holds, UNCHANGED vars
  PROVE  Holds'
<1>1. UNCHANGED <<files, tool, run, email, labels, plan, typed, edits>>
  BY DEF vars
<1>2. UNCHANGED <<profile, wording, confirmation, approval, reviewed, names>>
  BY <1>1 DEF files
<1>3. OwnersType' /\ Founded' /\ ToolHolds'
  BY <1>1, RunKeeps
<1>4. RunHolds'
  BY <1>1, <1>2 DEF Holds, RunHolds, ConfirmationFits, ReviewFits, Binds, Approvals
<1>5. PlanHolds'
  <2>1. AnswersTo' = AnswersTo
    BY <1>1 DEF AnswersTo
  <2>2. ASSUME NEW a, NEW good PROVE PlanOf(a, good)' = PlanOf(a, good)
    BY <1>1 DEF PlanOf
  <2> QED
    BY <1>1, <2>1, <2>2 DEF Holds, PlanHolds
<1>6. TypeOK'
  BY <1>1, <1>3 DEF Holds, TypeOK, OwnersType
<1> QED
  BY <1>3, <1>4, <1>5, <1>6 DEF Holds

------------------------------------------------------------------------------
(* The invariant *)

LEMMA HoldsInit == Init => Holds
<1> SUFFICES ASSUME Init PROVE Holds
  OBVIOUS
<1>1. profile \in Profile
  BY FirstAssumption DEF Init
<1>2. MaxWording \in Nat /\ MaxWording > 1 /\ MaxEdits \in Nat
  BY BoundAssumption DEF Placeholder
<1>3. PICK w \in 0..MaxWording: wording = [k \in Keys |-> IF k[2] = Unknown THEN w ELSE 0]
  BY <1>2 DEF Init, Placeholder
<1>4. wording \in [Keys -> 0..MaxWording] /\ reviewed \in [Keys -> 0..MaxWording]
  BY <1>2, <1>3 DEF Init, NoReview
<1>5. confirmation \in Digests /\ names \in [Documents -> Accounts]
  BY <1>1, ProfileIs DEF Init, Nothing, Digests
<1>6. approval.version \in 0..4 /\ approval.categories \subseteq Categories /\ approval.allow \in BOOLEAN
  BY DEF Init, NoApproval
<1>7. run.pos = "none" /\ tool.pos = "none"
  BY DEF Init, NoRun, NoTool
<1>8. plan.draft.source = "unplanned"
  BY NoPlanIs DEF Init
<1>9. edits \in 0..MaxEdits
  BY <1>2 DEF Init
<1>10. TypeOK
  BY <1>1, <1>4, <1>5, <1>6, <1>7, <1>8, <1>9 DEF Init, TypeOK
<1>11. Founded /\ PlanHolds
  BY DEF Init, Founded, PlanHolds
<1>12. ToolHolds /\ RunHolds
  BY <1>7 DEF ToolHolds, RunHolds
<1> QED
  BY <1>10, <1>11, <1>12 DEF Holds

LEMMA HoldsStep == Holds /\ [Next]_vars => Holds'
<1> SUFFICES ASSUME Holds, [Next]_vars PROVE Holds'
  OBVIOUS
<1>1. CASE Owner
  BY <1>1, OwnerStep
<1>2. CASE \E kind \in Kinds: LoadProfile(kind)
  BY <1>2, LoadProfileStep
<1>3. CASE \E named \in Named, mailbox \in Accounts: LoadApprovals(named, mailbox)
  BY <1>3, LoadApprovalsStep
<1>4. CASE FetchEmail
  BY <1>4, FetchEmailStep
<1>5. CASE PlanMessage
  BY <1>5, PlanMessageStep
<1>6. CASE Execute \/ EndRun
  BY <1>6, EndStep
<1>7. CASE UNCHANGED vars
  BY <1>7, IdleStep
<1> QED
  BY <1>1, <1>2, <1>3, <1>4, <1>5, <1>6, <1>7 DEF Next

(* Labels are added by the execution of a plan alone.                       *)
LEMMA LabelStep ==
  Holds /\ [Next]_vars =>
    [email # NoEmail /\ labels' # labels =>
       LET ofCategories == CategoryLabels(run.profile)
       IN \/ labels' \cap ofCategories = labels \cap ofCategories
          \/ Cardinality(labels' \cap ofCategories) = 1]_labels
<1> SUFFICES ASSUME Holds, [Next]_vars, email # NoEmail, labels' # labels,
                    NEW ofCategories, ofCategories = CategoryLabels(run.profile)
             PROVE  \/ labels' \cap ofCategories = labels \cap ofCategories
                    \/ Cardinality(labels' \cap ofCategories) = 1
  OBVIOUS
<1>1. ~Owner
  BY DEF Owner, EditProfile, EditWording, ReviewWording, ShowReview, TypeSentence,
         WriteConfirmation, WriteApproval, WriteFails, ToolDies, OwnerRemovesApprovals,
         EarlierApproval, SaveSettings
<1>2. /\ \A kind \in Kinds: ~LoadProfile(kind)
      /\ \A named \in Named, mailbox \in Accounts: ~LoadApprovals(named, mailbox)
      /\ ~FetchEmail /\ ~PlanMessage /\ ~EndRun /\ vars' # vars
  BY DEF LoadProfile, LoadApprovals, FetchEmail, PlanMessage, EndRun, vars
<1>3. Execute
  BY <1>1, <1>2 DEF Next
<1>4. planned /\ (labels' = labels \cup plan.add)
  BY <1>3 DEF Execute, planned
<1>5. \/ plan.add \cap ofCategories = {}
      \/ ofCategories \cap labels = {} /\ \E label: plan.add \cap ofCategories = {label}
  BY <1>4, AddIs
<1>6. \/ labels' \cap ofCategories = labels \cap ofCategories
      \/ \E label: labels' \cap ofCategories = {label}
  BY ONLY <1>4, <1>5
<1>7. \A label: Cardinality({label}) = 1
  BY FS_Singleton
<1> QED
  BY <1>6, <1>7

(* Every plan rests on what the owner stated and on the files as they are;  *)
(* what it drafts and labels answers a person, and respects what the owner  *)
(* was shown of bulk mail and of protected labels (drafting.py, triage.py). *)
THEOREM Invariant == Spec => []Inv
<1>1. Holds => Inv
  BY InvHolds
<1> QED
  BY <1>1, HoldsInit, HoldsStep, PTL DEF Spec

(* No reply is drafted that the owner did not approve (drafting.py:         *)
(* AiDraftingApprovals.check; taxonomy.py: TaxonomyConfirmation.check;      *)
(* templates.py: resolve_template).                                         *)
THEOREM DraftsAreApproved == Spec => []DraftApproved
<1>1. Holds => DraftApproved
  BY ApprovedHolds
<1> QED
  BY <1>1, HoldsInit, HoldsStep, PTL DEF Spec

(* With everything approved, every message that can be answered is drafted  *)
(* (triage.py: plan_message).                                               *)
THEOREM SafeMessagesAreDrafted == Spec => []SafeMessageDrafted
<1>1. Holds => SafeMessageDrafted
  BY SafeHolds
<1> QED
  BY <1>1, HoldsInit, HoldsStep, PTL DEF Spec

(* A message the daily run leaves undrafted is shown (daily_triage.py:      *)
(* add_daily_review_policy).                                                *)
THEOREM UndraftedAreShown == Spec => []UndraftedIsShown
<1>1. Holds => UndraftedIsShown
  BY UndraftedHolds
<1> QED
  BY <1>1, HoldsInit, HoldsStep, PTL DEF Spec

(* What is called ready drafts a message nothing else is in doubt of        *)
(* (readiness.py: check_drafting_approvals, check_templates).               *)
THEOREM ReadinessIsKept == Spec => []ReadyMeansDrafts
<1>1. Holds => ReadyMeansDrafts
  BY ReadyHolds
<1> QED
  BY <1>1, HoldsInit, HoldsStep, PTL DEF Spec

(* A message never gets a second category label of the configuration, in    *)
(* however many runs (gmail_labeler.py: decide_labels).                     *)
THEOREM OneCategoryIsLabelled == Spec => OneCategoryLabel
<1> QED
  BY HoldsInit, HoldsStep, LabelStep, PTL DEF Spec, OneCategoryLabel

=============================================================================
