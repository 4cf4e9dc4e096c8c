----------------------------- MODULE DailyTriage -----------------------------
(***************************************************************************)
(* The mailbox pipeline of daily_triage.py with the two private journals   *)
(* that make it restartable: DailyState (daily-state.json) and the         *)
(* RollbackJournal of the run (rollback/<group>-<offset>.json).  One       *)
(* process at a time holds the account: either a run, which selects mail,  *)
(* plans a reply and labels for each message and hands the plans to a pool *)
(* of Gmail workers, or an undo of the most recent run.  Gmail keeps the   *)
(* drafts and the labels; its calls may fail, and a call that reports a    *)
(* failure may have taken effect.  A process may die between any two       *)
(* steps.                                                                  *)
(***************************************************************************)
EXTENDS Naturals, FiniteSets

CONSTANTS
  Messages,      \* Gmail messages, numbered as their ids are ordered
  Place,         \* the place of each message in Gmail's listing
  ThreadOf,      \* the conversation of each message
  Drafts,        \* the draft ids Gmail can hand out
  NoDraft,       \* the empty draft id
  TopicLabels,   \* category, year and review labels a plan may add
  Processed,     \* the label that marks a message as handled
  AccountWide,   \* account-wide drafting is configured and approved
  AlwaysReply,   \* messages every plan of which carries a reply
  Kinds,         \* the kinds of run that happen
  Troubles,      \* the disturbances that happen
  WriteLimit,    \* --limit: Gmail writes in one run
  MaxDrafts,     \* --max-drafts: new drafts in one run
  Workers,       \* authorised Gmail services, one worker thread each
  LegacyDraft,   \* a draft an older version recorded for several messages
  MaxRuns,       \* bound: runs started, resumed ones included
  MaxTroubles    \* bound: disturbances in a behaviour

RunKinds == {"daily", "forced", "retry", "history"}
TroubleKinds == {"crash", "read", "draft", "lost", "label", "save", "undo",
                 "owner", "cancel"}

ASSUME MessagesAssumption == /\ Messages \subseteq Nat \ {0}
                             /\ IsFiniteSet(Messages)
ASSUME PlaceAssumption == /\ Place \in [Messages -> Nat]
                          /\ \A k, m \in Messages: Place[k] = Place[m] => k = m
ASSUME DraftsAssumption == NoDraft \notin Drafts
                           /\ LegacyDraft \in Drafts \cup {NoDraft}
ASSUME LabelsAssumption == Processed \notin TopicLabels
ASSUME KindsAssumption == Kinds \subseteq RunKinds
                          /\ Troubles \subseteq TroubleKinds
                          /\ AlwaysReply \subseteq Messages
ASSUME LimitsAssumption == /\ WriteLimit \in Nat
                           /\ MaxDrafts \in Nat
                           /\ Workers \in Nat \ {0}
                           /\ MaxRuns \in Nat
                           /\ MaxTroubles \in Nat
                           /\ AccountWide \in BOOLEAN

VARIABLES
  (* Gmail *)
  draft,         \* each draft id: whose reply it is and whether it exists
  labels,        \* the program's labels on each message
  (* the account's files *)
  state,         \* daily-state.json, messages
  dailyDone,     \* daily-state.json, last_daily_date is today
  journal,       \* the rollback journal of each run group
  undone,        \* run groups whose journal carries undone_at
  stamp,         \* completed_at, or created_at, of each journal
  log,           \* the draft ids in the append-only draft logs
  retry,         \* retry-queue.json: the messages to attempt again
  backfill,      \* the history chunk to resume, as a run group and its ids
  (* the process that holds the account, lost when it dies *)
  proc,          \* what the process does
  kind,          \* the kind of the current run
  group,         \* the run group it writes or undoes
  smem,          \* its DailyState in memory
  jmem,          \* its RollbackJournal in memory
  plan,          \* the plan of each message
  pc,            \* where each message of the run stands
  lock,          \* the message whose worker holds the persistence lock
  cancel,        \* the owner's stop request
  (* bookkeeping of the model *)
  runs,          \* runs started so far
  trouble,       \* disturbances so far
  exposed        \* messages whose draft the program lost sight of

gmail == <<draft, labels>>
files == <<state, dailyDone, journal, undone, stamp, log, retry, backfill>>
process == <<proc, kind, group, smem, jmem, plan, pc, lock, cancel>>
book == <<runs, trouble, exposed>>
vars == <<gmail, files, process, book>>

------------------------------------------------------------------------------
(* Types *)

Groups == 1..MaxRuns
Labels == TopicLabels \cup {Processed}
MaybeDraft == Drafts \cup {NoDraft}
NoOne == 0

DraftState == [of: Messages \cup {NoOne}, live: BOOLEAN]
Record == [status: {"none", "draft_created", "complete"},
           draft: MaybeDraft, current: BOOLEAN]
Entry == [draft: MaybeDraft, labels: SUBSET Labels,
          draftUndone: BOOLEAN, labelsUndone: BOOLEAN]
Plan == [template: BOOLEAN, adds: SUBSET TopicLabels, replace: BOOLEAN,
         err: BOOLEAN, draft: MaybeDraft]

NoRecord == [status |-> "none", draft |-> NoDraft, current |-> FALSE]
NoEntry == [draft |-> NoDraft, labels |-> {},
            draftUndone |-> FALSE, labelsUndone |-> FALSE]
NoPlan == [template |-> FALSE, adds |-> {}, replace |-> FALSE,
           err |-> FALSE, draft |-> NoDraft]
NoBackfill == [group |-> 0, ids |-> {}]
Backfill == [group: Groups, ids: SUBSET Messages] \cup {NoBackfill}
EmptyJournal == [m \in Messages |-> NoEntry]

(* Positions of a message: outside the run; before the workers; in a      *)
(* worker; settled; and in an undo.                                       *)
Waiting == {"planned", "queued"}
(* Mutant: a thread lock that is never released. *)
InThreadForever == {"create", "created", "logged", "journaled", "label",
                    "labelled", "complete", "done", "failed"}
InThread == {"create", "created", "logged", "journaled", "label",
             "labelled", "complete"}
Busy == InThread \cup {"waiting"}
Settled == {"skipped", "deferred", "done", "failed", "cancelled"}
Position == {"none", "entry", "restored", "kept"}
            \cup Waiting \cup Busy \cup Settled

(* A draft exists in Gmail for the message, but state.record_draft has not *)
(* been reached yet.                                                       *)
Window == {"created", "logged", "journaled"}

------------------------------------------------------------------------------
(* Reading the journals and the mailbox *)

(* Gmail lists k before m; runs take their messages in this order. *)
Before(k, m) == Place[k] < Place[m]

Live(d) == d # NoDraft /\ draft[d].live

(* Mutant: a recorded draft is replaced although it exists.                *)
ReplaceAnyway(s, m) == s[m].draft # NoDraft

(* draft_is_shared_with_another_message: the record with the smallest id   *)
(* keeps a draft that several records name.                                *)
Shared(s, m) ==
  s[m].draft # NoDraft /\ \E k \in Messages: k < m /\ s[k].draft = s[m].draft

(* already_processed_for_draft_policy *)
AlreadyProcessed(m) ==
  /\ Processed \in labels[m] \/ state[m].status = "complete"
  /\ AccountWide => \/ /\ state[m].draft # NoDraft
                       /\ ~Shared(state, m)
                       /\ Live(state[m].draft)
                    \/ /\ state[m].draft = NoDraft
                       /\ state[m].current

(* reconcile_existing_drafts: the two flags it can raise on a plan *)
Owned(s, m) == Live(s[m].draft) /\ ~Shared(s, m)
MissingOrShared(s, m) ==
  s[m].draft # NoDraft /\ (~Live(s[m].draft) \/ Shared(s, m))

CandidateLimit ==
  IF AccountWide /\ MaxDrafts > 0 /\ MaxDrafts < WriteLimit
  THEN MaxDrafts ELSE WriteLimit

(* fetch_messages and select_candidates stop once CandidateLimit readable  *)
(* messages need work.                                                     *)
Fetched(scan, unread) ==
  {m \in scan:
     Cardinality({k \in scan \ unread: Before(k, m) /\ ~AlreadyProcessed(k)})
       < CandidateLimit}
Candidates(scan, unread) ==
  {m \in Fetched(scan, unread) \ unread: ~AlreadyProcessed(m)}

(* plans_within_draft_limit: a plan that needs a new draft is deferred once *)
(* MaxDrafts earlier plans need one.                                       *)
RequiresNewDraft(p, m) == p[m].template /\ ~Owned(state, m)
WithinDraftLimit(p, C) ==
  {m \in C: RequiresNewDraft(p, m) =>
     Cardinality({k \in C: Before(k, m) /\ RequiresNewDraft(p, k)}) < MaxDrafts}

(* plans_within_write_budget: whole plans, in order, up to the first one   *)
(* that does not fit.                                                      *)
Writes(p, m) ==
  {<<m, w>>: w \in p[m].adds \cup {Processed}
                   \cup (IF p[m].template THEN {"draft"} ELSE {})}
WithinWriteBudget(p, C) ==
  {m \in C:
     Cardinality(UNION {Writes(p, k): k \in {j \in C: j = m \/ Before(j, m)}})
       <= WriteLimit}

HasFile(g) == journal[g] # EmptyJournal

(* latest_summary: the journal not undone that was completed, or created,  *)
(* last.                                                                   *)
IsLatest(g) ==
  /\ HasFile(g) /\ g \notin undone
  /\ \A h \in Groups: HasFile(h) /\ h \notin undone => stamp[h] <= stamp[g]

------------------------------------------------------------------------------
(* Init: a new account, or one whose older version left a shared draft *)

LegacyRecord ==
  [status |-> "complete", draft |-> LegacyDraft, current |-> FALSE]

Init ==
  /\ \E owner \in Messages:
       /\ \A m \in Messages: owner <= m
       /\ draft = [d \in Drafts |->
                     IF d = LegacyDraft THEN [of |-> owner, live |-> TRUE]
                     ELSE [of |-> NoOne, live |-> FALSE]]
  /\ labels = [m \in Messages |-> {}]
  /\ state = [m \in Messages |->
                IF LegacyDraft = NoDraft THEN NoRecord ELSE LegacyRecord]
  /\ dailyDone = FALSE
  /\ journal = [g \in Groups |-> EmptyJournal]
  /\ undone = {}
  /\ stamp = [g \in Groups |-> 0]
  /\ log = {}
  /\ retry = {}
  /\ backfill = NoBackfill
  /\ proc = "idle" /\ kind = "daily" /\ group = 0
  /\ smem = state
  /\ jmem = EmptyJournal
  /\ plan = [m \in Messages |-> NoPlan]
  /\ pc = [m \in Messages |-> "none"]
  /\ lock = NoOne
  /\ cancel = FALSE
  /\ runs = 0 /\ trouble = 0 /\ exposed = {}

(* What the process leaves behind when it ends, s being the file it left.  *)
Release(s) ==
  /\ proc' = "idle" /\ kind' = "daily" /\ group' = 0
  /\ smem' = s
  /\ jmem' = EmptyJournal
  /\ plan' = [m \in Messages |-> NoPlan]
  /\ pc' = [m \in Messages |-> "none"]
  /\ lock' = NoOne
  /\ cancel' = FALSE

(* One disturbance of a kind that happens here. *)
Disturb(t) ==
  /\ t \in Troubles
  /\ trouble < MaxTroubles
  /\ trouble' = trouble + 1

------------------------------------------------------------------------------
(* Starting a run: select mail, plan each candidate, apply the limits *)

(* The journal group of the run: a new one, or that of the history chunk   *)
(* an earlier run left unfinished.                                         *)
BeginGroup(k, scan) ==
  \/ /\ k = "history" => backfill = NoBackfill
     /\ group' = runs + 1
     /\ jmem' = EmptyJournal
     /\ stamp' = [stamp EXCEPT ![runs + 1] = runs + 1]
     /\ backfill' = IF k = "history"
                    THEN [group |-> runs + 1, ids |-> scan] ELSE backfill
  \/ /\ k = "history"
     /\ backfill # NoBackfill
     /\ scan = backfill.ids
     /\ group' = backfill.group
     /\ jmem' = journal[backfill.group]
     /\ UNCHANGED <<stamp, backfill>>

(* A retry takes queued messages, those whose delay is over. *)
ScanOf(k) ==
  CASE k \in {"daily", "forced"} -> {Messages}
    [] k = "retry" -> SUBSET retry \ {{}}
    [] k = "history" -> SUBSET Messages \ {{}}

ReadFailures(scan) ==
  IF "read" \in Troubles /\ trouble < MaxTroubles THEN SUBSET scan ELSE {{}}

(* plan_message and the first reconcile_existing_drafts *)
PlanFor(C, wants, topics) ==
  [m \in Messages |->
     IF m \in C
     THEN [template |-> m \in wants \cup AlwaysReply,
           adds |-> IF m \in topics THEN TopicLabels \ labels[m] ELSE {},
           replace |-> MissingOrShared(state, m),
           err |-> FALSE, draft |-> NoDraft]
     ELSE NoPlan]

(* Where each message stands once it was read and the limits applied *)
Placed(C, p, read, unread) ==
  [m \in Messages |->
     CASE m \in WithinWriteBudget(p, WithinDraftLimit(p, C)) -> "planned"
       [] m \in C \ WithinWriteBudget(p, WithinDraftLimit(p, C)) -> "deferred"
       [] m \in read \cap unread -> "failed"
       [] m \in read \ (unread \cup C) -> "skipped"
       [] OTHER -> "none"]

Select(scan) ==
  \E unread \in ReadFailures(scan):
  \E wants \in SUBSET (Candidates(scan, unread) \ AlwaysReply),
     topics \in SUBSET Candidates(scan, unread):
    /\ plan' = PlanFor(Candidates(scan, unread), wants, topics)
    /\ pc' = Placed(Candidates(scan, unread), plan', Fetched(scan, unread),
                    unread)
    /\ trouble' = IF unread = {} THEN trouble ELSE trouble + 1

StartRun(k, scan) ==
  /\ proc = "idle" /\ runs < MaxRuns
  /\ k = "daily" => ~dailyDone
  /\ BeginGroup(k, scan)
  /\ Select(scan)
  /\ proc' = "selected" /\ kind' = k
  /\ smem' = state
  /\ cancel' = FALSE
  /\ runs' = runs + 1
  /\ UNCHANGED <<gmail, state, dailyDone, journal, undone, log, retry, lock,
                 exposed>>

(* The drafts are listed again before the first write. *)
Refresh ==
  /\ proc = "selected" /\ ~cancel
  /\ \E m \in Messages: pc[m] = "planned"
  /\ proc' = "writing"
  /\ plan' = [m \in Messages |->
                IF pc[m] = "planned" /\ MissingOrShared(smem, m)
                THEN [plan[m] EXCEPT !.replace = TRUE] ELSE plan[m]]
  /\ pc' = [m \in Messages |-> IF pc[m] = "planned" THEN "queued" ELSE pc[m]]
  /\ UNCHANGED <<gmail, files, book, kind, group, smem, jmem, lock, cancel>>

------------------------------------------------------------------------------
(* A worker executes one plan (execute_daily_plan) *)

Move(m, position) == pc' = [pc EXCEPT ![m] = position]

(* The pool hands the plans out in order, one to each free worker. *)
Begin(m) ==
  /\ proc = "writing" /\ pc[m] = "queued"
  /\ \A k \in Messages: pc[k] = "queued" => ~Before(k, m)
  /\ Cardinality({k \in Messages: pc[k] \in Busy}) < Workers
  /\ Move(m, IF cancel THEN "cancelled" ELSE "waiting")
  /\ UNCHANGED <<gmail, files, book, proc, kind, group, smem, jmem, plan,
                 lock, cancel>>

(* The worker enters the message's thread and reads its record. *)
Enter(m) ==
  /\ pc[m] = "waiting"
  /\ \A k \in Messages: ThreadOf[k] = ThreadOf[m] => pc[k] \notin InThread
  /\ \/ /\ ~plan[m].template
        /\ Move(m, "label")
        /\ UNCHANGED plan
     \/ /\ plan[m].template /\ lock = NoOne
        /\ smem[m].draft # NoDraft /\ ~plan[m].replace
        /\ plan' = [plan EXCEPT ![m].draft = smem[m].draft]
        /\ Move(m, "label")
     \/ /\ plan[m].template /\ lock = NoOne
        /\ smem[m].draft = NoDraft \/ plan[m].replace
        /\ Move(m, "create")
        /\ UNCHANGED plan
  /\ UNCHANGED <<gmail, files, book, proc, kind, group, smem, jmem, lock,
                 cancel>>

(* Gmail creates the draft of a reply to m. *)
NewDraft(m, d) ==
  /\ draft[d].of = NoOne
  /\ draft' = [draft EXCEPT ![d] = [of |-> m, live |-> TRUE]]

CreateDraft(m) ==
  /\ pc[m] = "create"
  /\ \E d \in Drafts:
       /\ NewDraft(m, d)
       /\ plan' = [plan EXCEPT ![m].draft = d]
  /\ Move(m, "created")
  /\ UNCHANGED <<labels, files, book, proc, kind, group, smem, jmem, lock,
                 cancel>>

CreateFails(m) ==
  /\ pc[m] = "create"
  /\ Disturb("draft")
  /\ plan' = [plan EXCEPT ![m].err = TRUE]
  /\ Move(m, "label")
  /\ UNCHANGED <<gmail, files, proc, kind, group, smem, jmem, lock, cancel,
                 runs, exposed>>

(* The draft is created but the answer is lost: gmail_execute tries again, *)
(* or gives up and the plan fails.                                         *)
CreateAnswerLost(m) ==
  /\ pc[m] = "create"
  /\ Disturb("lost")
  /\ \E d \in Drafts: NewDraft(m, d)
  /\ exposed' = exposed \cup {m}
  /\ \/ UNCHANGED <<pc, plan>>
     \/ plan' = [plan EXCEPT ![m].err = TRUE] /\ Move(m, "label")
  /\ UNCHANGED <<labels, files, proc, kind, group, smem, jmem, lock, cancel,
                 runs>>

(* draft_log.record, the first of the three writes under the lock *)
LogDraft(m) ==
  /\ pc[m] = "created" /\ lock = NoOne
  /\ lock' = m
  /\ log' = log \cup {plan[m].draft}
  /\ Move(m, "logged")
  /\ UNCHANGED <<gmail, book, state, dailyDone, journal, undone, stamp,
                 retry, backfill, proc, kind, group, smem, jmem, plan, cancel>>

(* Mutant: the journal is saved when the run completes. *)
JournalDraftLater(m) ==
  /\ pc[m] = "logged"
  /\ jmem' = [jmem EXCEPT ![m].draft = plan[m].draft]
  /\ Move(m, "journaled")
  /\ UNCHANGED <<gmail, book, files, proc, kind, group, smem, plan, lock,
                 cancel>>

JournalDraft(m) ==
  /\ pc[m] = "logged"
  /\ jmem' = [jmem EXCEPT ![m].draft = plan[m].draft]
  /\ journal' = [journal EXCEPT ![group] = jmem']
  /\ Move(m, "journaled")
  /\ UNCHANGED <<gmail, book, state, dailyDone, undone, stamp, log, retry,
                 backfill, proc, kind, group, smem, plan, lock, cancel>>

(* Mutant: a status _validate refuses. *)
DraftRecordBadStatus(m) ==
  [status |-> "drafted", draft |-> plan[m].draft, current |-> TRUE]

DraftRecord(m) ==
  [status |-> "draft_created", draft |-> plan[m].draft, current |-> TRUE]

RecordDraft(m) ==
  /\ pc[m] = "journaled"
  /\ smem' = [smem EXCEPT ![m] = DraftRecord(m)]
  /\ state' = smem'
  /\ lock' = NoOne
  /\ Move(m, "label")
  /\ UNCHANGED <<gmail, book, dailyDone, journal, undone, stamp, log, retry,
                 backfill, proc, kind, group, jmem, plan, cancel>>

(* One of the three writes raises.  What it had changed in memory stays    *)
(* there, to be saved with whatever is saved next.                         *)
PersistFails(m) ==
  /\ \/ pc[m] = "created" /\ lock = NoOne
     \/ pc[m] \in {"logged", "journaled"}
  /\ Disturb("save")
  /\ jmem' = IF pc[m] = "logged"
             THEN [jmem EXCEPT ![m].draft = plan[m].draft] ELSE jmem
  /\ smem' = IF pc[m] = "journaled"
             THEN [smem EXCEPT ![m] = DraftRecord(m)] ELSE smem
  /\ plan' = [plan EXCEPT ![m].err = TRUE]
  /\ exposed' = exposed \cup {m}
  /\ lock' = NoOne
  /\ Move(m, "label")
  /\ UNCHANGED <<gmail, files, proc, kind, group, cancel, runs>>

(* Mutant: Processed is added although the draft failed. *)
LabelsToAddAlways(m) == plan[m].adds \cup {Processed}

(* Processed is added only to a message whose draft did not fail. *)
LabelsToAdd(m) ==
  plan[m].adds \cup (IF plan[m].err THEN {} ELSE {Processed})

ApplyLabels(m) ==
  /\ pc[m] = "label"
  /\ labels' = [labels EXCEPT ![m] = @ \cup LabelsToAdd(m)]
  /\ Move(m, IF LabelsToAdd(m) = {} THEN "failed" ELSE "labelled")
  /\ UNCHANGED <<draft, files, book, proc, kind, group, smem, jmem, plan,
                 lock, cancel>>

LabelsFail(m) ==
  /\ pc[m] = "label" /\ LabelsToAdd(m) # {}
  /\ Disturb("label")
  /\ \/ UNCHANGED labels
     \/ labels' = [labels EXCEPT ![m] = @ \cup LabelsToAdd(m)]
  /\ Move(m, "failed")
  /\ UNCHANGED <<draft, files, proc, kind, group, smem, jmem, plan, lock,
                 cancel, runs, exposed>>

JournalLabels(m) ==
  /\ pc[m] = "labelled" /\ lock = NoOne
  /\ jmem' = [jmem EXCEPT ![m].labels = @ \cup LabelsToAdd(m)]
  /\ \/ /\ journal' = [journal EXCEPT ![group] = jmem']
        /\ Move(m, IF plan[m].err THEN "failed" ELSE "complete")
        /\ UNCHANGED trouble
     \/ /\ Disturb("save")
        /\ Move(m, "failed")
        /\ UNCHANGED journal
  /\ UNCHANGED <<gmail, state, dailyDone, undone, stamp, log, retry, backfill,
                 proc, kind, group, smem, plan, lock, cancel, runs,
                 exposed>>

(* record_complete replaces the record, its draft id included.  A plan     *)
(* without a template leaves no draft id, whatever the record held.        *)
Complete(m) ==
  /\ pc[m] = "complete" /\ lock = NoOne
  /\ smem' = [smem EXCEPT ![m] = [status |-> "complete",
                                  draft |-> plan[m].draft,
                                  current |-> AccountWide]]
  /\ \/ state' = smem' /\ Move(m, "done") /\ UNCHANGED trouble
     \/ Disturb("save") /\ Move(m, "failed") /\ UNCHANGED state
  /\ exposed' = IF Live(smem[m].draft) /\ plan[m].draft = NoDraft
                THEN exposed \cup {m} ELSE exposed
  /\ UNCHANGED <<gmail, dailyDone, journal, undone, stamp, log, retry,
                 backfill, proc, kind, group, jmem, plan, lock, cancel, runs>>

------------------------------------------------------------------------------
(* The end of a run *)

(* Mutant: deferred plans do not keep the day open. *)
MarksDailyDeferred ==
  kind # "history" /\ \A m \in Messages: pc[m] # "failed"

(* should_mark_daily_complete: no failure, nothing deferred, no history scan *)
MarksDaily ==
  /\ kind # "history"
  /\ \A m \in Messages: pc[m] \notin {"failed", "deferred"}

(* rollback_journal.complete: saves the journal, unless it has no entry.   *)
CompleteJournal ==
  /\ journal' = [journal EXCEPT ![group] = jmem]
  /\ stamp' = IF jmem = EmptyJournal THEN stamp
              ELSE [stamp EXCEPT ![group] = runs]

(* mark_daily_complete saves all records as they are in memory.            *)
Saved == IF MarksDaily THEN smem ELSE state

(* A run ends in three steps: it completes its journal; it closes the day, *)
(* at once where it has no plan; and the runner saves what is left to do.  *)
FinishJournal ==
  /\ proc = "writing" /\ ~cancel
  /\ \A m \in Messages: pc[m] \in Settled \cup {"none"}
  /\ CompleteJournal
  /\ proc' = "closing"
  /\ UNCHANGED <<gmail, state, dailyDone, undone, log, retry, backfill, kind,
                 group, smem, jmem, plan, pc, lock, cancel, book>>

CloseDay ==
  /\ \/ proc = "closing"
     \/ proc = "selected" /\ \A m \in Messages: pc[m] # "planned"
  /\ dailyDone' = (dailyDone \/ MarksDaily)
  /\ state' = Saved
  /\ proc' = "reporting"
  /\ UNCHANGED <<gmail, journal, undone, stamp, log, retry, backfill, kind,
                 group, smem, jmem, plan, pc, lock, cancel, book>>

ReportRun ==
  /\ proc = "reporting"
  /\ retry' = {m \in Messages: pc[m] = "failed"}
              \cup {m \in retry: pc[m] \notin {"skipped", "done"}}
  /\ backfill' = IF kind = "history" THEN NoBackfill ELSE backfill
  /\ Release(state)
  /\ UNCHANGED <<gmail, state, dailyDone, journal, undone, stamp, log, book>>

(* A cancelled run keeps what it did and reports neither its failures nor  *)
(* its completed messages to the retry queue.                              *)
FinishCancelled ==
  /\ cancel
  /\ \/ proc = "selected"
        /\ UNCHANGED <<journal, stamp>>
     \/ /\ proc = "writing"
        /\ \A m \in Messages: pc[m] \in Settled \cup {"none"}
        /\ CompleteJournal
  /\ backfill' = IF kind = "history" THEN NoBackfill ELSE backfill
  /\ Release(state)
  /\ UNCHANGED <<gmail, state, dailyDone, undone, log, retry, book>>

------------------------------------------------------------------------------
(* Undoing the latest run (_undo_group) *)

StartUndo(g) ==
  /\ proc = "idle" /\ backfill = NoBackfill
  /\ IsLatest(g)
  /\ proc' = "undoing" /\ group' = g
  /\ smem' = state
  /\ jmem' = journal[g]
  /\ pc' = [m \in Messages |->
              IF journal[g][m] = NoEntry THEN "none" ELSE "entry"]
  /\ UNCHANGED <<gmail, files, book, kind, plan, lock, cancel>>

(* Mutant: a draft is trashed only together with labels. *)
DraftPendingWithLabels(m) ==
  jmem[m].draft # NoDraft /\ ~jmem[m].draftUndone /\ jmem[m].labels # {}

DraftPending(m) == jmem[m].draft # NoDraft /\ ~jmem[m].draftUndone
LabelsPending(m) == jmem[m].labels # {} /\ ~jmem[m].labelsUndone

(* The two calls of one entry: what each reported and what it did.  A call *)
(* may fail before or after taking effect; the entry is then kept.         *)
UndoCalls(m, draftOk, labelsOk, draftEffect, labelsEffect) ==
  /\ draftOk => draftEffect
  /\ labelsOk => labelsEffect
  /\ ~DraftPending(m) => draftOk
  /\ ~LabelsPending(m) => labelsOk
  /\ IF draftOk /\ labelsOk THEN UNCHANGED trouble ELSE Disturb("undo")
  /\ draft' = IF DraftPending(m) /\ draftEffect
              THEN [draft EXCEPT ![jmem[m].draft].live = FALSE]
              ELSE draft
  /\ labels' = IF LabelsPending(m) /\ labelsEffect
               THEN [labels EXCEPT ![m] = @ \ jmem[m].labels]
               ELSE labels
  /\ jmem' = [jmem EXCEPT
                ![m].draftUndone = @ \/ (DraftPending(m) /\ draftOk),
                ![m].labelsUndone = @ \/ (LabelsPending(m) /\ labelsOk)]
  /\ Move(m, IF draftOk /\ labelsOk THEN "restored" ELSE "kept")
  /\ smem' = IF /\ draftOk /\ labelsOk
                /\ jmem[m].draft \in {NoDraft, smem[m].draft}
             THEN [smem EXCEPT ![m] = NoRecord] ELSE smem

(* Each call that succeeds is marked in the saved journal at once.         *)
UndoEntry(m) ==
  /\ proc = "undoing" /\ pc[m] = "entry"
  /\ \E draftOk, labelsOk, draftEffect, labelsEffect \in BOOLEAN:
       UndoCalls(m, draftOk, labelsOk, draftEffect, labelsEffect)
  /\ journal' = [journal EXCEPT ![group] = jmem']
  /\ UNCHANGED <<state, dailyDone, undone, stamp, log, retry, backfill, proc,
                 kind, group, plan, lock, cancel, runs, exposed>>

(* The records are saved once, at the end.                                 *)
FinishUndo ==
  /\ proc = "undoing"
  /\ \A m \in Messages: pc[m] # "entry"
  /\ state' = smem
  /\ dailyDone' = FALSE
  /\ exposed' = exposed \cup {m \in Messages: /\ Live(state[m].draft)
                                              /\ smem[m].draft = NoDraft
                                              /\ jmem[m].draft = NoDraft}
  /\ proc' = "marking"
  /\ UNCHANGED <<gmail, journal, undone, stamp, log, retry, backfill, kind,
                 group, smem, jmem, plan, pc, lock, cancel, runs, trouble>>

(* Mutant: an undo with failed calls counts as done. *)
AllRestoredAnyway == TRUE

(* The group is undone when every entry of it was restored. *)
AllRestored == \A m \in Messages: pc[m] # "kept"

MarkUndone ==
  /\ proc = "marking"
  /\ undone' = IF AllRestored THEN undone \cup {group} ELSE undone
  /\ Release(state)
  /\ UNCHANGED <<gmail, state, dailyDone, journal, stamp, log, retry, backfill,
                 book>>

------------------------------------------------------------------------------
(* Disturbances from outside *)

RequestCancel ==
  /\ "cancel" \in Troubles
  /\ proc \in {"selected", "writing"} /\ ~cancel
  /\ cancel' = TRUE
  /\ UNCHANGED <<gmail, files, book, proc, kind, group, smem, jmem, plan, pc,
                 lock>>

(* The process dies.  The files keep what was saved. *)
Crash ==
  /\ proc # "idle"
  /\ Disturb("crash")
  /\ exposed' = exposed \cup {m \in Messages: pc[m] \in Window}
  /\ Release(state)
  /\ UNCHANGED <<gmail, files, runs>>

(* The owner sends or discards a draft; its id leaves the mailbox. *)
OwnerRemovesDraft(d) ==
  /\ draft[d].live
  /\ Disturb("owner")
  /\ draft' = [draft EXCEPT ![d].live = FALSE]
  /\ UNCHANGED <<labels, files, process, runs, exposed>>

NewDay ==
  /\ proc = "idle" /\ dailyDone
  /\ dailyDone' = FALSE
  /\ UNCHANGED <<gmail, state, journal, undone, stamp, log, retry, backfill,
                 process, runs, trouble, exposed>>

Worker(m) ==
  \/ Begin(m) \/ Enter(m)
  \/ CreateDraft(m) \/ CreateFails(m) \/ CreateAnswerLost(m)
  \/ LogDraft(m) \/ JournalDraft(m) \/ RecordDraft(m) \/ PersistFails(m)
  \/ ApplyLabels(m) \/ LabelsFail(m) \/ JournalLabels(m) \/ Complete(m)

RunEnd == FinishJournal \/ CloseDay \/ ReportRun \/ FinishCancelled

Run == Refresh \/ RunEnd \/ \E m \in Messages: Worker(m)

Undo == FinishUndo \/ MarkUndone \/ \E m \in Messages: UndoEntry(m)

Next ==
  \/ \E k \in Kinds: \E scan \in ScanOf(k): StartRun(k, scan)
  \/ Run
  \/ \E g \in Groups: StartUndo(g)
  \/ Undo
  \/ RequestCancel
  \/ Crash
  \/ \E d \in Drafts: OwnerRemovesDraft(d)
  \/ NewDay

Spec == Init /\ [][Next]_vars

(* A started process keeps running: its threads are scheduled by the OS    *)
(* and every Gmail call returns or raises within its bounded retries.      *)
FairSpec ==
  /\ Spec
  /\ WF_vars(Refresh \/ RunEnd)
  /\ \A m \in Messages: WF_vars(Worker(m))
  /\ WF_vars(Undo)
------------------------------------------------------------------------------
(* Properties *)

(* Every variable keeps its type: records, journals and plans stay         *)
(* well-formed through failures, undo and restarts.                        *)
TypeOK ==
  /\ draft \in [Drafts -> DraftState]
  /\ labels \in [Messages -> SUBSET Labels]
  /\ state \in [Messages -> Record] /\ smem \in [Messages -> Record]
  /\ journal \in [Groups -> [Messages -> Entry]]
  /\ jmem \in [Messages -> Entry]
  /\ dailyDone \in BOOLEAN /\ cancel \in BOOLEAN
  /\ undone \in SUBSET Groups
  /\ stamp \in [Groups -> 0..MaxRuns]
  /\ log \in SUBSET MaybeDraft
  /\ retry \in SUBSET Messages
  /\ backfill \in Backfill
  /\ proc \in {"idle", "selected", "writing", "closing", "reporting",
               "undoing", "marking"}
  /\ kind \in RunKinds
  /\ group \in IF proc = "idle" THEN {0} ELSE Groups
  /\ plan \in [Messages -> Plan]
  /\ pc \in [Messages -> Position]
  /\ lock \in Messages \cup {NoOne}
  /\ runs \in 0..MaxRuns /\ trouble \in Nat
  /\ exposed \in SUBSET Messages

LiveDrafts(m) == {d \in Drafts: draft[d].of = m /\ draft[d].live}

(* A message has at most one draft in the mailbox, through every           *)
(* interleaving of workers, failure, restart, replacement and undo, unless *)
(* one of the four things happened to it that set "exposed": the process   *)
(* died or a save failed between drafts.create and state.record_draft, the *)
(* answer of drafts.create was lost, an undo dropped the record of a draft *)
(* an earlier run made, or a plan without a reply overwrote it             *)
(* (execute_daily_plan, _undo_group).                                      *)
DraftedOnce ==
  \A m \in Messages \ exposed: \A d, e \in LiveDrafts(m): d = e

(* Write-ahead order: a draft that the saved state names and that still    *)
(* exists is in the draft log, and in the journal of a run not yet undone  *)
(* whose undo would still trash it.                                        *)
RecordedDraftUndoable ==
  \A m \in Messages:
    LET d == state[m].draft IN
    d # NoDraft /\ d # LegacyDraft /\ Live(d) =>
      /\ d \in log
      /\ \E g \in Groups \ undone:
           journal[g][m].draft = d /\ ~journal[g][m].draftUndone

(* An undo is reported as done only after all of its drafts are gone, even *)
(* when calls failed, the process died halfway or the undo was repeated.   *)
UndoneDraftsGone ==
  \A g \in undone: \A m \in Messages: ~Live(journal[g][m].draft)

(* A run marks a message as processed only if the reply its plan asked for *)
(* is a draft the saved state already names, so that a restart cannot skip *)
(* a message whose draft was lost.                                         *)
ProcessedAfterDraft ==
  [][\A m \in Messages:
       pc[m] = "label" /\ pc'[m] = "labelled" /\ plan[m].template =>
         (Processed \in LabelsToAdd(m) =>
            /\ state[m].draft # NoDraft
            /\ state[m].draft = plan[m].draft)]_vars

Handled(m) ==
  /\ state[m].status = "complete" \/ Processed \in labels[m]
  /\ AccountWide => ~Shared(state, m)

(* The run read and handled as many messages before m as it may read. *)
PastReadLimit(m) ==
  Cardinality({k \in Messages: Before(k, m) /\ pc[k] = "done"})
    >= CandidateLimit

(* When the day is marked done, every message is handled, that is complete *)
(* or labelled as processed and, where drafting is account-wide, the only  *)
(* owner of its draft: nothing failed, was deferred, or was left by a      *)
(* cancelled worker.  The exceptions are the messages the run never        *)
(* fetched: those past the read limit (candidate_read_limit), and all but  *)
(* the queued ones in a retry, which closes the day as a scan does         *)
(* (should_mark_daily_complete).                                           *)
DailyDoneMeansHandled ==
  [][dailyDone' /\ ~dailyDone =>
       \A m \in Messages:
         \/ Handled(m)
         \/ pc[m] = "none" /\ (kind = "retry" \/ PastReadLimit(m))]_vars

(* "Deferred work means the day is NOT done. Marking it complete here      *)
(* would set the same-day guard and hide the remainder until tomorrow":    *)
(* the day is marked done only when every message of the scan is handled.  *)
(* Account-wide drafting breaks it: what lies past the read limit is not   *)
(* among the deferred plans.                                               *)
DoneDayHidesNothing ==
  [][dailyDone' /\ ~dailyDone => \A m \in Messages: Handled(m)]_vars

(* No thread lock, persistence lock or worker slot blocks the pool: every  *)
(* run and every undo that starts ends.                                    *)
RunEnds == proc # "idle" ~> proc = "idle"
------------------------------------------------------------------------------
(* The inductive invariant behind DraftedOnce, RecordedDraftUndoable,      *)
(* UndoneDraftsGone, ProcessedAfterDraft and DailyDoneMeansHandled         *)

(* Where a message can stand follows what the process does. *)
Phases ==
  \A m \in Messages:
    /\ pc[m] \in Busy \cup {"queued"} => proc = "writing"
    /\ pc[m] = "planned" => proc = "selected"
    /\ pc[m] \in {"restored", "kept"} => proc \in {"undoing", "marking"}
    /\ pc[m] = "entry" => proc = "undoing"

(* A draft id named anywhere was handed out by Gmail; a record or a plan   *)
(* names a draft of the same message or of one before it.                  *)
Names(d, m) == d # NoDraft => /\ draft[d].of \in Messages
                              /\ draft[d].of <= m
NamedDrafts ==
  /\ \A m \in Messages: /\ Names(state[m].draft, m)
                        /\ Names(smem[m].draft, m)
                        /\ Names(plan[m].draft, m)
                        /\ Names(jmem[m].draft, m)
  /\ \A g \in Groups: \A m \in Messages: Names(journal[g][m].draft, m)

(* What accounts for the live drafts of a message at each of its positions *)
OnlyLive(m, d) == LiveDrafts(m) \subseteq {d}
Accounted ==
  \A m \in Messages \ exposed:
    /\ pc[m] \notin Window => OnlyLive(m, state[m].draft)
    /\ pc[m] \notin Window /\ proc # "undoing" => OnlyLive(m, smem[m].draft)
    /\ pc[m] \in Window => OnlyLive(m, plan[m].draft)
    /\ pc[m] \in Waiting \cup {"waiting"} =>
         /\ plan[m].draft = NoDraft
         /\ plan[m].replace => LiveDrafts(m) = {}
    /\ pc[m] = "create" => LiveDrafts(m) = {}
    /\ pc[m] \in {"label", "labelled", "complete"} /\ plan[m].draft # NoDraft
         => OnlyLive(m, plan[m].draft)

(* While an undo is under way, a record it dropped in memory is that of a  *)
(* draft now gone, or that of an entry which holds labels only.            *)
Undoing ==
  proc \in {"undoing", "marking"} =>
    /\ backfill = NoBackfill
    /\ group \in Groups \ undone
    /\ journal[group] = jmem
    /\ \A m \in Messages:
         /\ pc[m] \in {"none", "entry", "restored", "kept"}
         /\ pc[m] = "none" => jmem[m] = NoEntry
         /\ pc[m] = "restored" =>
              jmem[m].draft = NoDraft \/ jmem[m].draftUndone
         /\ proc = "undoing" /\ m \notin exposed =>
              \/ smem[m].draft = state[m].draft
              \/ /\ smem[m].draft = NoDraft
                 /\ jmem[m].draft = NoDraft \/ LiveDrafts(m) = {}

(* Only an undo marks drafts as undone; groups are used once, or resumed   *)
(* before they can be undone.                                              *)
Progress ==
  /\ \A g \in Groups: \A m \in Messages:
       journal[g][m].draftUndone => ~Live(journal[g][m].draft)
  /\ \A m \in Messages: jmem[m].draftUndone => ~Live(jmem[m].draft)
  /\ proc \in {"selected", "writing"} =>
       /\ group \in Groups \ undone
       /\ \A m \in Messages: /\ ~jmem[m].draftUndone
                             /\ ~journal[group][m].draftUndone
  /\ proc = "idle" => jmem = EmptyJournal
  /\ backfill # NoBackfill =>
       /\ backfill.group \notin undone
       /\ \A m \in Messages: ~journal[backfill.group][m].draftUndone
  /\ \A g \in Groups: g > runs => g \notin undone /\ journal[g] = EmptyJournal
  /\ group <= runs /\ backfill.group <= runs

(* A draft the program need not answer for any more: none, that of an older *)
(* version, or one that is gone.                                           *)
Dead(d) == d \in {NoDraft, LegacyDraft} \/ ~Live(d)
Kept(m, d) == Dead(d) \/ (d \in log /\ \E g \in Groups: journal[g][m].draft = d)

(* The drafts the records of a message name, and the one they are about to *)
(* name                                                                    *)
Needed(m) ==
  {state[m].draft, smem[m].draft}
  \cup {d \in {plan[m].draft}:
          \/ pc[m] = "journaled"
          \/ pc[m] \in {"label", "labelled", "complete"} /\ ~plan[m].err}

(* A draft is logged and journaled before it is recorded, and a new one is *)
(* made only where none is left to lose from the journal it is written to. *)
(* A failed save leaves the journal in memory ahead of the saved one.      *)
Secured(m) ==
  /\ \A d \in {state[m].draft, smem[m].draft, plan[m].draft}:
       d \notin {NoDraft, LegacyDraft} => draft[d].of = m
  /\ \A d \in Needed(m): Kept(m, d)
  /\ pc[m] \in Waiting \cup {"waiting"} =>
       /\ plan[m].draft = NoDraft
       /\ plan[m].replace => Dead(smem[m].draft)
  /\ pc[m] \in Waiting \cup {"waiting", "create"} \cup Window =>
       smem[m].draft = state[m].draft
  /\ pc[m] \in {"create"} \cup Window => Dead(smem[m].draft)
  /\ pc[m] \in {"logged", "journaled"} => plan[m].draft \in log
  /\ pc[m] = "complete" => ~plan[m].err
  /\ proc \in {"selected", "writing"} /\ jmem[m].draft # journal[group][m].draft =>
       /\ plan[m].err /\ pc[m] \in {"label", "labelled", "failed"}
       /\ Dead(state[m].draft) /\ Dead(smem[m].draft)

Undoable == \A m \in Messages: Secured(m)

(* What a message that gets the processed label, or ends as handled, rests *)
(* on: the reply its plan asked for is a draft both copies of its record   *)
(* name, and it shares that draft with no message before it.               *)
Grounded(m) ==
  /\ pc[m] \in Waiting \cup {"waiting"} /\ ~plan[m].replace => ~Shared(state, m)
  /\ pc[m] \in {"create"} \cup Window => plan[m].template
  /\ pc[m] \in Window => plan[m].draft \notin {NoDraft, LegacyDraft}
  /\ pc[m] \in {"label", "labelled", "complete"} /\ ~plan[m].err =>
       IF plan[m].template
       THEN /\ plan[m].draft # NoDraft
            /\ state[m].draft = plan[m].draft /\ smem[m].draft = plan[m].draft
            /\ ~Shared(state, m)
       ELSE plan[m].draft = NoDraft
  /\ pc[m] \in {"skipped", "done"} => smem[m] = state[m] /\ Handled(m)
  /\ pc[m] = "cancelled" => cancel /\ proc = "writing"

(* The shared draft of an older version is never recorded anew. *)
Inherited ==
  LegacyDraft # NoDraft =>
    /\ draft[LegacyDraft].of # NoOne
    /\ \A m \in Messages:
         smem[m].draft = LegacyDraft => state[m].draft = LegacyDraft

(* A scan leaves a message out only when it took on as much as it may read *)
(* of those listed before it.                                              *)
Taken(m) == {k \in Messages: Before(k, m) /\ pc[k] \notin {"none", "skipped"}}
ReadInOrder ==
  kind \in {"daily", "forced"} /\ proc \in {"selected", "writing", "closing"} =>
    \A m \in Messages: pc[m] = "none" => Cardinality(Taken(m)) >= CandidateLimit

Settling == Inherited /\ ReadInOrder /\ \A m \in Messages: Grounded(m)

(* TypeOK is kept beside it: IInv is inductive given TypeOK. *)
IInv == /\ Phases /\ NamedDrafts /\ Accounted /\ Undoing /\ Progress
        /\ UndoneDraftsGone /\ Undoable /\ Settling
==============================================================================
