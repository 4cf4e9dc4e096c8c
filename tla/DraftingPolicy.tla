---------------------------- MODULE DraftingPolicy ----------------------------
(***************************************************************************)
(* Who allowed a draft: the owner edits the account's configuration and    *)
(* the templates, reviews them and types a sentence (approve_account.py)   *)
(* or saves the form of the dashboard (hosted_settings.py); a run loads    *)
(* the configuration, and a little later the approvals, and plans the same *)
(* message again and again (triage.py, daily_triage.py).                   *)
(***************************************************************************)
EXTENDS MessagePlanning

CONSTANTS
  Considered,    \* bound: what the classifier may answer
  CategoryLabel, \* the label of each category, as migrated
  Emails,        \* bound: what the message may look like
  Accounts,      \* mailboxes the owner has
  Protectable,   \* bound: labels the owner may protect
  Styles,        \* bound: signatures and guidance; "refused" fails validation
  Edits,         \* bound: what the owner edits
  Kinds,         \* bound: "daily", "triage", "unlabelled" (--no-label)
  EditedModes,   \* bound: modes the owner changes to
  EditedKeys,    \* bound: templates the owner edits
  Named,         \* bound: template keys named on the command line
  FirstProfiles, \* bound: configurations to begin with
  FirstLabels,   \* bound: labels the message may have at first
  MaxEdits, MaxApprovals, MaxWording   \* bounds

Keys == Categories \X (Years \cup {Unknown})
Modes == {"off", "template", "generic"}
Profile == [account: Accounts, global: BOOLEAN, mode: [Categories -> Modes],
            digest: [Categories -> Nat \ {0}],
            label: [Categories -> {CategoryLabel[c]: c \in Categories} \cup {NoLabel}],
            protected: SUBSET Protectable, style: Styles]
Labels == {CategoryLabel[c]: c \in Categories} \cup YearLabels \cup {Review}

ASSUME EmailAssumption ==
  Emails \subseteq [headers: Headers, meaningful: BOOLEAN, complete: BOOLEAN,
                    evidence: Years \cup {Unknown, "several"}]
ASSUME BoundAssumption ==
  /\ DOMAIN CategoryLabel = Categories
  /\ Considered \subseteq Answers /\ Failed \in Considered
  /\ {MaxEdits, MaxApprovals, MaxWording} \subseteq Nat /\ MaxWording > Placeholder
  /\ Kinds \subseteq {"daily", "triage", "unlabelled"}
  /\ EditedModes \subseteq Modes /\ EditedKeys \subseteq Keys
ASSUME FirstAssumption ==
  FirstProfiles \subseteq Profile /\ \A first \in FirstLabels: first \subseteq Labels
(* load_triage_label_config: each has a distinct Gmail name.                *)
ASSUME LabelAssumption ==
  /\ YearLabels \cap {CategoryLabel[c]: c \in Categories} = {}
  /\ Review \notin YearLabels \cup {CategoryLabel[c]: c \in Categories}
  /\ \A y, z \in Years: YearLabel[y] = YearLabel[z] => y = z

VARIABLES
  profile,       \* account.json
  wording,       \* the template of each key; 1 is the placeholder
  confirmation,  \* taxonomy-confirmation.json
  approval,      \* ai-drafting-approval.json
  reviewed,      \* the template approval: wording reviewed of each key
  names,         \* the account that each of these three documents names
  tool,          \* approve_account.py
  run,           \* a run of the planner
  email,         \* the message
  labels,        \* its labels
  plan,          \* what the run planned for it
  (* bookkeeping of the model *)
  typed,         \* what the owner stated
  edits

files == <<profile, wording, confirmation, approval, reviewed, names>>
vars == <<files, tool, run, email, labels, plan, typed, edits>>

------------------------------------------------------------------------------
(* Types *)

Digests == [Categories -> Nat]
Tool == [pos: {"shown", "typed", "first"}, profile: Profile, allow: BOOLEAN]
Texts == [wording: [Keys -> 0..MaxWording], approved: [Keys -> 0..MaxWording], named: Named]
Documents == {"confirmation", "approval", "reviewed"}
Nothing == [c \in Categories |-> 0]

(* A digest is what it was taken of.                                        *)
NoDigest == <<>>
PolicyDigest(p, allow) == <<p, allow>>

NoApproval == [version |-> 0, categories |-> {}, allow |-> FALSE, digest |-> NoDigest]
Loaded(all, bulk, categories, allow) ==
  [all |-> all, bulk |-> bulk, categories |-> categories, allow |-> allow]
NoReview == [k \in Keys |-> 0]
NoTool == [pos |-> "none"]
NoRun == [pos |-> "none"]
NoEmail == [headers |-> <<>>]
NoPlan == [draft |-> Drafted("unplanned", Unknown, NoKey), add |-> {}]

(* Every variable keeps its type; the message has only labels that exist.   *)
TypeOK ==
  /\ profile \in Profile /\ wording \in [Keys -> 0..MaxWording]
  /\ confirmation \in Digests
  /\ approval.version \in 0..4 /\ approval.categories \subseteq Categories
  /\ approval.allow \in BOOLEAN
  /\ reviewed \in [Keys -> 0..MaxWording] /\ names \in [Documents -> Accounts]
  /\ tool \in {NoTool} \cup Tool
  /\ run.pos \in {"none", "profile", "planning"}
  /\ run.pos # "none" => run.profile \in Profile /\ run.kind \in Kinds
  /\ run.pos = "profile" => run.wording \in [Keys -> 0..MaxWording]
  /\ run.pos = "planning" => run.texts \in Texts
  /\ plan.draft.source \in {"unplanned", "none", "ai", "fallback", "template", "broken"}
  /\ labels \subseteq Labels /\ email \in Emails \cup {NoEmail}
  /\ edits \in 0..MaxEdits

Templated(p) == \E c \in Categories: p.mode[c] = "template"

(* Configured, the templates of the categories written or not, and nothing  *)
(* approved yet.                                                            *)
Init ==
  /\ profile \in FirstProfiles
  /\ \E w \in IF Templated(profile) THEN {Placeholder, Placeholder + 1} ELSE {Placeholder}:
       wording = [k \in Keys |-> IF k[2] = Unknown THEN w ELSE 0]
  /\ confirmation = Nothing /\ approval = NoApproval
  /\ reviewed = NoReview /\ names = [d \in Documents |-> profile.account]
  /\ tool = NoTool /\ run = NoRun /\ plan = NoPlan
  /\ email = NoEmail /\ labels = {}
  /\ typed = {} /\ edits = 0

------------------------------------------------------------------------------
(* The owner edits *)

(* _load_account_document: the fallback needs a label, and drafting         *)
(* everything one for every category.                                       *)
ValidProfile(p) ==
  /\ p.label[Fallback] # NoLabel
  /\ p.global => \A c \in Categories: p.label[c] # NoLabel

Edited ==
  {[profile EXCEPT !.global = ~@]: x \in {"global"} \cap Edits}
  \cup {[profile EXCEPT !.account = a]: a \in
          IF "account" \in Edits THEN Accounts ELSE {}}
  \cup {[profile EXCEPT !.mode[c] = m]: c \in Categories,
          m \in EditedModes}
  \cup {[profile EXCEPT !.digest[c] = @ + 1]: c \in
          IF "category" \in Edits THEN Categories ELSE {}}
  \cup {[profile EXCEPT !.label[c] = NoLabel]: c \in
          IF "label" \in Edits THEN Categories ELSE {}}
  \cup {[profile EXCEPT !.protected = Protectable]: x \in {"protect"} \cap Edits}
  \cup {[profile EXCEPT !.style = s]: s \in
          IF "style" \in Edits THEN Styles ELSE {}}

EditProfile ==
  /\ edits < MaxEdits /\ edits' = edits + 1
  /\ \E p \in Edited \ {profile}: profile' = p
  /\ UNCHANGED <<wording, confirmation, approval, reviewed, names, tool, run, labels, plan,
                 typed, email>>

EditWording(key) ==
  /\ "wording" \in Edits /\ edits < MaxEdits /\ edits' = edits + 1
  /\ wording[key] < MaxWording
  /\ wording' = [wording EXCEPT ![key] = IF @ = 0 THEN Placeholder + 1 ELSE @ + 1]
  /\ UNCHANGED <<profile, confirmation, approval, reviewed, names, tool, run, labels, plan,
                 typed, email>>

(* The reviewed digests are written down by hand.                           *)
ReviewWording ==
  /\ "wording" \in Edits /\ Templated(profile) /\ reviewed # wording
  /\ reviewed' = wording /\ names' = [names EXCEPT !["reviewed"] = profile.account]
  /\ UNCHANGED <<profile, wording, confirmation, approval, tool, run, labels, plan,
                 typed, edits, email>>

------------------------------------------------------------------------------
(* The owner approves: approve_account.py *)

Generic(p) == {c \in Categories: p.mode[c] = "generic"}
Statement(p, allow, bulk) == [profile |-> p, allow |-> allow, bulk |-> bulk]

(* build_documents                                                          *)
ApprovalOf(p, allow) ==
  IF p.global
    THEN [version |-> 4, categories |-> {}, allow |-> allow,
          digest |-> PolicyDigest(p, allow)]
  ELSE IF Generic(p) # {}
    THEN [version |-> 1, categories |-> Generic(p), allow |-> allow, digest |-> NoDigest]
  ELSE NoApproval

(* The documents are built from the configuration that is shown, and        *)
(* written only after the owner typed the sentence that goes with it.       *)
ShowReview(allow) ==
  /\ tool = NoTool /\ Cardinality(typed) < MaxApprovals /\ ValidProfile(profile)
  /\ tool' = [pos |-> "shown", profile |-> profile, allow |-> allow]
  /\ UNCHANGED <<files, run, labels, plan, typed, edits, email>>

TypeSentence ==
  /\ tool.pos = "shown"
  /\ tool' = [tool EXCEPT !.pos = "typed"]
  /\ typed' = typed \cup {Statement(tool.profile, tool.allow, tool.profile.global)}
  /\ UNCHANGED <<files, run, labels, plan, edits, email>>

(* write_documents never replaces a file.                                   *)
Writable(p, allow) ==
  confirmation = Nothing /\ (ApprovalOf(p, allow) # NoApproval => approval = NoApproval)

WriteConfirmation ==
  /\ tool.pos = "typed"
  /\ IF Writable(tool.profile, tool.allow)
       THEN /\ confirmation' = tool.profile.digest /\ tool' = [tool EXCEPT !.pos = "first"]
            /\ names' = [names EXCEPT !["confirmation"] = tool.profile.account]
       ELSE tool' = NoTool /\ UNCHANGED <<confirmation, names>>
  /\ UNCHANGED <<profile, wording, approval, reviewed, run, labels, plan, typed, edits,
                 email>>

WriteApproval ==
  /\ tool.pos = "first"
  /\ LET document == ApprovalOf(tool.profile, tool.allow)
     IN IF document = NoApproval THEN UNCHANGED <<approval, names>>
        ELSE /\ approval' = document
             /\ names' = [names EXCEPT !["approval"] = tool.profile.account]
  /\ tool' = NoTool
  /\ UNCHANGED <<profile, wording, confirmation, reviewed, run, labels, plan, typed,
                 edits, email>>

(* The first file is taken back.                                            *)
WriteFails ==
  /\ tool.pos = "first"
  /\ confirmation' = Nothing /\ tool' = NoTool
  /\ UNCHANGED <<profile, wording, approval, reviewed, names, run, labels, plan, typed,
                 edits, email>>

(* The tool is left, or dies, anywhere.                                     *)
ToolDies ==
  /\ tool # NoTool /\ tool' = NoTool
  /\ UNCHANGED <<files, run, labels, plan, typed, edits, email>>

OwnerRemovesApprovals ==
  /\ tool.pos # "first"
  /\ \/ confirmation' = Nothing /\ approval' = NoApproval
     \/ confirmation' = Nothing /\ UNCHANGED approval
     \/ approval' = NoApproval /\ UNCHANGED confirmation
  /\ <<confirmation, approval>>' # <<confirmation, approval>>
  /\ UNCHANGED <<profile, wording, reviewed, names, tool, run, labels, plan, typed, edits,
                 email>>

(* An account-wide approval from before bulk mail was included (2), or from *)
(* after (3), whose owner stated as much.                                   *)
EarlierApproval(version) ==
  /\ "earlier" \in Edits /\ Cardinality(typed) < MaxApprovals
  /\ tool = NoTool /\ approval = NoApproval /\ profile.global /\ ValidProfile(profile)
  /\ confirmation' = profile.digest
  /\ approval' = [version |-> version, categories |-> {}, allow |-> FALSE,
                  digest |-> PolicyDigest(profile, FALSE)]
  /\ names' = [names EXCEPT !["confirmation"] = profile.account,
                            !["approval"] = profile.account]
  /\ typed' = typed \cup {Statement(profile, FALSE, version = 3)}
  /\ UNCHANGED <<profile, wording, reviewed, tool, run, labels, plan, edits, email>>

(* save_settings: the form replaces configuration and approvals, no run     *)
(* being under way.                                                         *)
SaveSettings ==
  /\ "settings" \in Edits /\ edits < MaxEdits /\ edits' = edits + 1
  /\ Cardinality(typed) < MaxApprovals
  /\ run = NoRun /\ tool = NoTool
  /\ \E s \in Styles:
       profile' = [account |-> profile.account, global |-> TRUE, mode |-> [c \in Categories |-> "generic"],
                   digest |-> profile.digest,
                   label |-> [c \in Categories |-> CategoryLabel[c]],
                   protected |-> {}, style |-> s]
  /\ confirmation' = profile'.digest /\ approval' = ApprovalOf(profile', FALSE)
  /\ names' = [names EXCEPT !["confirmation"] = profile.account,
                            !["approval"] = profile.account]
  /\ typed' = typed \cup {Statement(profile', FALSE, TRUE)}
  /\ UNCHANGED <<wording, reviewed, tool, run, labels, plan, email>>

------------------------------------------------------------------------------
(* A run *)

(* Configuration and templates first.                                       *)
LoadProfile(kind) ==
  /\ run = NoRun /\ ValidProfile(profile)
  /\ run' = [pos |-> "profile", kind |-> kind, profile |-> profile, wording |-> wording]
  /\ UNCHANGED <<files, tool, labels, plan, typed, edits, email>>

(* Mutant: an account-wide approval of any policy.                          *)
BindsAny(p, mailbox) ==
  /\ approval # NoApproval => names["approval"] = mailbox
  /\ approval.version > 1 => p.global

(* load_ai_drafting_approval, of the profile the run has loaded.            *)
Binds(p, mailbox) ==
  /\ approval # NoApproval => names["approval"] = mailbox
  /\ approval.version > 1 => p.global /\ approval.digest = PolicyDigest(p, approval.allow)

Approvals ==
  Loaded(approval.version > 1, approval.version > 2, approval.categories, approval.allow)

(* load_taxonomy_confirmation                                               *)
ConfirmationFits(mailbox) == confirmation # Nothing => names["confirmation"] = mailbox

(* load_template_approval, with or without the label that is triaged.       *)
ReviewFits(mailbox) == reviewed # NoReview => names["reviewed"] = mailbox

(* assert_profile_matches_account                                           *)
MailboxFits(p, mailbox) == p.account = mailbox

(* The mailbox says whose it is; then the approvals are read, each for that *)
(* account.  A file that is not there was not named on the command line.    *)
LoadApprovals(named, mailbox) ==
  /\ run.pos = "profile"
  /\ named # {} => Templated(run.profile) /\ run.kind # "daily"
  /\ IF /\ MailboxFits(run.profile, mailbox)
        /\ ConfirmationFits(mailbox) /\ ReviewFits(mailbox) /\ Binds(run.profile, mailbox)
       THEN run' = [pos |-> "planning", kind |-> run.kind, profile |-> run.profile,
                    mailbox |-> mailbox, confirmation |-> confirmation, approvals |-> Approvals,
                    texts |-> [wording |-> run.wording, approved |-> reviewed,
                               named |-> named]]
       ELSE run' = NoRun
  /\ UNCHANGED <<files, tool, labels, plan, typed, edits, email>>

(* A message that is not worth asking about has no answer.                  *)
AnswersTo == IF Asked(email, run.profile, run.approvals) THEN Considered ELSE {Failed}

PlanOf(a, good) ==
  Plan(email, run.profile, run.confirmation, run.approvals, run.texts, a, good,
       run.kind, labels)

(* The run finds the message; later runs find it again, as they left it.    *)
FetchEmail ==
  /\ run.pos = "planning" /\ email = NoEmail
  /\ email' \in Emails /\ labels' \in FirstLabels
  /\ UNCHANGED <<files, tool, run, plan, typed, edits>>

(* What validate_generated_reply says of the text of a reply.               *)
Verdicts == BOOLEAN

PlanMessage ==
  /\ run.pos = "planning" /\ plan = NoPlan /\ email # NoEmail
  /\ plan' \in {LET result == PlanOf(a, good) IN [draft |-> result.draft, add |-> result.add]:
                a \in AnswersTo, good \in Verdicts}
  /\ UNCHANGED <<files, tool, run, labels, typed, edits, email>>

(* execute_plan: labels may fail, the draft is made all the same.           *)
Execute ==
  /\ run.pos = "planning" /\ plan # NoPlan /\ plan.draft # Broken
  /\ \E done \in {{}, plan.add}: labels' = labels \cup done
  /\ plan' = NoPlan /\ run' = NoRun
  /\ UNCHANGED <<files, tool, typed, edits, email>>

(* Done, aborted at the prompt, or broken by a message.                     *)
EndRun ==
  /\ run # NoRun /\ run' = NoRun /\ plan' = NoPlan
  /\ UNCHANGED <<files, tool, labels, typed, edits, email>>

(* Once a run has loaded the approvals, it reads none of the files again:   *)
(* what the owner does from then on is left for when it is over.            *)
Owner ==
  /\ run.pos # "planning"
  /\ \/ EditProfile \/ ReviewWording \/ \E key \in EditedKeys: EditWording(key)
     \/ \E allow \in BOOLEAN: ShowReview(allow)
     \/ TypeSentence \/ WriteConfirmation \/ WriteApproval \/ WriteFails \/ ToolDies
     \/ OwnerRemovesApprovals \/ \E version \in 2..3: EarlierApproval(version)
     \/ SaveSettings

Next ==
  \/ Owner
  \/ \E kind \in Kinds: LoadProfile(kind)
  \/ \E named \in Named, mailbox \in Accounts: LoadApprovals(named, mailbox)
  \/ FetchEmail \/ PlanMessage \/ Execute \/ EndRun

Spec == Init /\ [][Next]_vars

------------------------------------------------------------------------------
(* Readiness: readiness.py says of a configuration that it may go live *)

(* Mutant: the labels of the evidence rules are forgotten.                  *)
ProtectedByLabel(p) == {c \in Categories: p.label[c] \in p.protected}

(* protected_drafting_categories                                            *)
ProtectedCategories(p) ==
  {c \in Categories: p.label[c] \in p.protected}
  \cup UNION {Rules[i].categories: i \in {j \in DOMAIN Rules:
                                           YearLabel[Rules[j].year] \in p.protected}}

(* check_drafting_approvals                                                 *)
ApprovalReady(p, appr) ==
  IF p.global THEN appr.all
  ELSE \A c \in Generic(p): Permits(appr, c, c \in ProtectedCategories(p))

(* check_templates: names given on a command line do not count.             *)
TemplatesReady(p, texts) ==
  \A c \in Categories: p.mode[c] = "template" =>
    Usable([texts EXCEPT !.named = {}], <<c, Unknown>>)

Ready(p, conf, appr, texts) ==
  /\ \A c \in Categories: Confirmed(p, conf, c)
  /\ ApprovalReady(p, appr) /\ (~p.global => TemplatesReady(p, texts))

------------------------------------------------------------------------------
(* Properties *)

planned == run.pos = "planning" /\ plan # NoPlan
Source == plan.draft.source
Generated == planned /\ Source \in {"ai", "fallback"}
Answered == planned /\ Source \in {"ai", "fallback", "template"}

(* The owner stated, for this account, that such replies may be drafted:    *)
(* for exactly this configuration where every message is, by the list of    *)
(* the generic categories otherwise (drafting.py).                          *)
Allowed(s, c) ==
  /\ s.profile.account = run.mailbox
  /\ IF s.profile.global THEN s.profile = run.profile ELSE c \in Generic(s.profile)

(* The owner reviewed, for this account, the category as it is now          *)
(* (taxonomy.py).                                                           *)
Reviewed(s, c) ==
  s.profile.account = run.mailbox /\ s.profile.digest[c] = run.profile.digest[c]

(* Nothing is written in the owner's name that the owner did not approve,   *)
(* whatever was edited since, and whenever the run loaded what: generated   *)
(* wording by a statement of the owner and a review of the category, which  *)
(* may be one or two; a template in the reviewed or the named wording       *)
(* (DETAILS.md:119, "approval artifacts are digest-bound").                 *)
DraftApproved ==
  /\ Generated => /\ \E s \in typed: Allowed(s, plan.draft.category)
                  /\ \E s \in typed: Reviewed(s, plan.draft.category)
  /\ planned /\ Source = "template" =>
       LET key == plan.draft.key
       IN \/ /\ run.texts.wording[key] = run.texts.approved[key]
             /\ names["reviewed"] = run.mailbox
          \/ key \in run.texts.named /\ run.texts.approved[key] = 0

(* Mail to a list or from a machine is answered only if the owner was shown *)
(* that it would be (drafting.py: include_bulk_messages, version 3 on).     *)
BulkApproved ==
  Generated /\ email.headers.bulk =>
    \E s \in typed: s.bulk /\ Allowed(s, plan.draft.category)

(* The protected labels of the message with its plan: those it has, the     *)
(* review label among them, and those that are added, except for the review *)
(* label, which the planner adds after it has asked for permission.         *)
Carried == (labels \cup (plan.add \ {Review})) \cap run.profile.protected

(* No generated draft for a message that has a protected label, or gets one *)
(* with this plan, unless that was allowed (triage.py: protected).          *)
ProtectedApproved ==
  Generated /\ Carried # {} =>
    \E s \in typed: s.allow /\ Allowed(s, plan.draft.category)

(* A draft is addressed to a person: never to the owner, to a bounce, or to *)
(* an address that cannot be read (message_safety.py).                      *)
PersonAnswered ==
  Answered => LET h == email.headers
              IN IF h.replyTo = "none" THEN h.from = "person"
                 ELSE h.replyTo = "person" /\ h.from \in {"person", "owner"}

(* A year label that is added says what the text of the message itself      *)
(* says, and is never a second one (triage.py: year_evidence_conflict).     *)
YearWritten ==
  planned => \A y \in Years: YearLabel[y] \in plan.add =>
    email.evidence = y /\ YearLabels \cap labels = {}

(* A document says what the owner typed a sentence for, whoever edits what. *)
Founded ==
  /\ confirmation # Nothing =>
       \E s \in typed: s.profile.digest = confirmation /\ s.profile.account = names["confirmation"]
  /\ approval # NoApproval =>
       \E s \in typed:
         /\ s.profile.account = names["approval"] /\ s.allow = approval.allow
         /\ IF approval.version > 1
              THEN /\ s.profile.global /\ (approval.version > 2 => s.bulk)
                   /\ approval.digest = PolicyDigest(s.profile, s.allow)
              ELSE ~s.profile.global /\ approval.categories = Generic(s.profile)

(* What the tool is about to write was typed.                               *)
ToolHolds ==
  tool.pos \in {"typed", "first"} =>
    Statement(tool.profile, tool.allow, tool.profile.global) \in typed

(* A run plans with the files as they are, all of its own mailbox.          *)
RunHolds ==
  run.pos = "planning" =>
    /\ MailboxFits(run.profile, run.mailbox) /\ ConfirmationFits(run.mailbox)
    /\ ReviewFits(run.mailbox) /\ Binds(run.profile, run.mailbox)
    /\ run.confirmation = confirmation /\ run.approvals = Approvals
    /\ run.texts.approved = reviewed

(* What is planned is what plan_message made of the message.                *)
PlanHolds ==
  plan # NoPlan =>
    /\ run.pos = "planning" /\ email # NoEmail
    /\ \E a \in AnswersTo, good \in Verdicts:
         LET result == PlanOf(a, good) IN plan = [draft |-> result.draft, add |-> result.add]

(* What is planned and labelled answers a person, respects what the owner   *)
(* was shown of bulk mail and protected labels, and says of the year what   *)
(* the message says; the rest is what makes that inductive.                 *)
Inv == /\ TypeOK /\ Founded /\ ToolHolds /\ RunHolds /\ PlanHolds
       /\ BulkApproved /\ ProtectedApproved /\ PersonAnswered /\ YearWritten

(* However often the message is planned, and whatever was answered: no      *)
(* second category label of the configuration (gmail_labeler.py).           *)
OneCategoryLabel ==
  [][email # NoEmail /\ labels' # labels =>
       LET ofCategories == CategoryLabels(run.profile)
       IN \/ labels' \cap ofCategories = labels \cap ofCategories
          \/ Cardinality(labels' \cap ofCategories) = 1]_labels

(* Once everything is approved, a message that can be answered is drafted,  *)
(* however uncertain or wrong the classifier is (DETAILS.md:63, "every      *)
(* technically safe, owner-unanswered message receives an unsent draft").   *)
SafeMessageDrafted ==
  /\ planned /\ run.profile.global /\ run.approvals.all
  /\ \A c \in Categories: Confirmed(run.profile, run.confirmation, c)
  /\ Delivery(email.headers) \in {"normal"} \cup {b \in {"bulk"}: run.approvals.bulk}
  /\ email.complete /\ run.profile.style # "refused"
  /\ run.approvals.allow \/ Carried = {}
  => Source \in {"ai", "fallback"}

(* The daily run shows the owner every message it leaves without a draft,   *)
(* except automated mail while only some categories are drafted             *)
(* (daily_triage.py: add_daily_review_policy).                              *)
UndraftedIsShown ==
  planned /\ run.kind = "daily" /\ Source = "none" =>
    \/ Review \in labels \cup plan.add
    \/ ~run.profile.global /\ Delivery(email.headers) \in {"automated", "bulk"}

(* The readiness report is no empty promise: a message for which nothing    *)
(* else is in doubt is drafted under every configuration it calls ready     *)
(* (readiness.py), unless protected labels stay blocked for a whole account *)
(* or the message already has one.                                          *)
ReadyMeansDrafts ==
  /\ run.pos = "planning" /\ plan = NoPlan /\ email # NoEmail
  /\ Ready(run.profile, run.confirmation, run.approvals, run.texts)
  /\ run.profile.global => run.approvals.allow
  /\ Delivery(email.headers) = "normal" /\ email.complete /\ email.meaningful
  /\ labels = {}
  => \A a \in Considered:
       LET result == PlanOf(a, TRUE)
           c      == result.class.category
       IN /\ Actionable(result.class) /\ ~YearConflict(email, result.class)
          /\ run.profile.global \/ run.profile.mode[c] # "off"
          => result.draft.source \in {"ai", "template"}
=============================================================================
