------------------------------- MODULE Campaign -------------------------------
(***************************************************************************)
(* One reply to everybody under a label (campaign.py), and taking it back: *)
(* a run reads the headers, keeps the newest safe message of each          *)
(* recipient, leaves out who is excluded or not approved, asks, and writes *)
(* every draft into a log; an undo moves what a log lists to the Trash,    *)
(* and lists that.  Meanwhile the owner writes, edits, sends and deletes   *)
(* drafts.                                                                 *)
(***************************************************************************)
EXTENDS Integers, Sequences, FiniteSets, Functions

CONSTANTS
  Messages,      \* the mail there may ever be
  Addresses,
  Owner,         \* the account's own address
  ExcludeLabel,  \* --exclude-label
  Reviewed,      \* PROTECTED_CAMPAIGN_LABELS
  Lower,         \* str.lower, of the names of labels
  Campaigns,     \* bound: labels a run may be for, as they are typed
  AliasFiles,    \* bound: --aliases, each a function from alias to address
  Exclusions,    \* bound: --exclude, each a set of addresses
  Approvals,     \* bound: --approval, each a document or NoApproval
  Limits,        \* bound: --limit
  MaxRuns, MaxDrafts, MaxUndos, MaxTouches   \* bounds

NoApproval == [recipients |-> <<>>]

ASSUME MessageAssumption ==
  \A m \in Messages:
    /\ {m.sender, m.target, Owner} \subseteq Addresses
    /\ m.date \in Nat /\ m.safe \in BOOLEAN /\ m.labels \subseteq DOMAIN Lower
ASSUME LabelAssumption == Campaigns \cup Reviewed \cup {ExcludeLabel} \subseteq DOMAIN Lower
ASSUME FileAssumption ==
  /\ \A f \in AliasFiles: DOMAIN f \subseteq Addresses /\ Range(f) \subseteq Addresses
  /\ \A x \in Exclusions: x \subseteq Addresses
  /\ \A a \in Approvals \ {NoApproval}: a.recipients \in Seq(Addresses)
ASSUME BoundAssumption ==
  {MaxRuns, MaxDrafts, MaxUndos, MaxTouches} \subseteq Nat /\ Limits \subseteq Nat \ {0}

VARIABLES
  drafts,    \* every draft there ever was, by id
  run,       \* campaign.py LABEL BODY
  logs,      \* the log of each run: draft ids
  undo,      \* campaign.py --undo LOG
  trashed,   \* the logs of the undos: what is in the Trash
  (* bookkeeping of the model *)
  runs, undos, touches,
  unlogged,  \* drafts whose id never reached a log
  unlisted,  \* messages in the Trash that no log of an undo got
  undone,    \* ids of the undos that reported no failure
  edited     \* drafts the owner edited between two steps of an undo

ghosts == <<runs, undos, touches, unlogged, unlisted, undone, edited>>
vars == <<drafts, run, logs, undo, trashed, ghosts>>

------------------------------------------------------------------------------
NoRun == [pos |-> "none"]
Ids == 1..Len(drafts)
Written(by, m) == [by |-> by, message |-> m, state |-> "live", version |-> 1]
ByHand == 0
NoMessage == [target |-> "none"]

(* canonical_address follows the aliases until there is none.               *)
Follow(aliases) ==
  LET follow[n \in 0..Cardinality(DOMAIN aliases), a \in Addresses] ==
        IF n = 0 \/ a \notin DOMAIN aliases THEN a ELSE follow[n - 1, aliases[a]]
  IN [a \in Addresses |-> follow[Cardinality(DOMAIN aliases), a]]

CanonicalOf(aliases) == Follow(aliases)

(* load_aliases refuses a cycle: every address leads to one that is none.   *)
Resolved(aliases) == CanonicalOf(aliases) \in [Addresses -> Addresses \ DOMAIN aliases]

Draft == [by: 0..MaxRuns, message: Messages \cup {NoMessage},
          state: {"live", "sent", "trash", "gone"}, version: Nat]
Going == [pos: {"exclusions", "scan", "confirm", "create", "record"},
          label: Campaigns, canonical: [Addresses -> Addresses],
          excluded: SUBSET Addresses, byFile: SUBSET Addresses,
          document: Approvals, limit: Limits, read: SUBSET Messages,
          todo: Seq(Messages)]
Asking == [pos: {"get"}, ids: Seq(Ids), todo: Seq(Ids), failed: BOOLEAN]
Moving == [pos: {"trash", "record"}, ids: Seq(Ids), todo: Seq(Ids), failed: BOOLEAN,
           message: [draft: Ids, version: Nat]]

(* Every variable keeps its type; a log names drafts that exist, the log of *)
(* an undo none that is where it was.                                       *)
TypeOK ==
  /\ runs \in 0..MaxRuns /\ undos \in 0..MaxUndos /\ touches \in 0..MaxTouches
  /\ drafts \in Seq(Draft) /\ \A d \in Ids: drafts[d].by <= runs
  /\ run \in {NoRun} \cup Going /\ undo \in {NoRun} \cup Asking \cup Moving
  /\ logs \in [1..MaxRuns -> Seq(Ids)]
  /\ (unlogged \cup undone \cup edited) \subseteq Ids
  /\ \A t \in trashed \cup unlisted: t.draft \in Ids /\ drafts[t.draft].state # "live"

Init ==
  /\ drafts = <<>> /\ run = NoRun /\ undo = NoRun
  /\ logs = [n \in 1..MaxRuns |-> <<>>] /\ trashed = {}
  /\ runs = 0 /\ undos = 0 /\ touches = 0
  /\ unlogged = {} /\ unlisted = {} /\ undone = {} /\ edited = {}

------------------------------------------------------------------------------
(* The owner's hand *)

Touch(d, state, version) ==
  /\ touches < MaxTouches /\ touches' = touches + 1
  /\ drafts[d].state = "live"
  /\ drafts' = [drafts EXCEPT ![d].state = state, ![d].version = version]
  /\ UNCHANGED <<run, logs, undo, trashed, runs, undos, unlogged, unlisted, undone>>

OwnerSends(d) == Touch(d, "sent", drafts[d].version) /\ UNCHANGED edited
OwnerDeletes(d) == Touch(d, "gone", drafts[d].version) /\ UNCHANGED edited

(* An edited draft keeps its id, and has another message.                   *)
OwnerEdits(d) ==
  /\ Touch(d, "live", drafts[d].version + 1)
  /\ edited' = IF undo.pos = "trash" /\ undo.message.draft = d
                 THEN edited \cup {d} ELSE edited

OwnerWrites ==
  /\ touches < MaxTouches /\ touches' = touches + 1 /\ Len(drafts) < MaxDrafts
  /\ drafts' = Append(drafts, Written(ByHand, NoMessage))
  /\ UNCHANGED <<run, logs, undo, trashed, runs, undos, unlogged, unlisted, undone,
                 edited>>

------------------------------------------------------------------------------
(* A run *)

(* load_exclusions                                                          *)
ByFile(canonical, addresses) == {canonical[a]: a \in addresses}

(* load_campaign_approval: of this account and label, and nobody is listed  *)
(* under two of his addresses.                                              *)
Fits(document, canonical, label) ==
  document # NoApproval =>
    /\ document.account = Owner /\ document.label = label /\ document.recipients # <<>>
    /\ IsInjective([i \in DOMAIN document.recipients |-> canonical[document.recipients[i]]])

(* main, up to the first request; what it is told is read once.  The label  *)
(* is looked for among the protected ones as it is typed.                   *)
StartRun ==
  /\ run = NoRun /\ runs < MaxRuns /\ runs' = runs + 1
  /\ \E label \in Campaigns, aliases \in AliasFiles, addresses \in Exclusions,
       document \in Approvals, limit \in Limits:
       /\ Resolved(aliases)
       /\ label \in Reviewed => document # NoApproval
       /\ LET canonical == CanonicalOf(aliases)
          IN run' = [pos |-> "exclusions", label |-> label, canonical |-> canonical,
                     excluded |-> ByFile(canonical, addresses), byFile |-> addresses,
                     document |-> document, limit |-> limit, read |-> {}, todo |-> <<>>]
  /\ UNCHANGED <<drafts, logs, undo, trashed, undos, touches, unlogged, unlisted, undone,
                 edited>>

(* get_label_id: Gmail's label is found in whatever case it is typed.       *)
SameLabel(a, b) == Lower[a] = Lower[b]

(* Mail arrives all the time: a run reads some of it.                       *)
Labelled(label) == {m \in Messages: \E l \in m.labels: SameLabel(l, label)}

(* exclusions_from_labels                                                   *)
Senders(canonical, read) == {canonical[m.sender]: m \in read}

(* What cannot be read of the exclusion label is not excluded.  Then the    *)
(* mailbox says whose it is, and an approval that does not fit ends the run.*)
ReadExclusions ==
  /\ run.pos = "exclusions"
  /\ \E read \in SUBSET Labelled(ExcludeLabel):
       run' = IF ~Fits(run.document, run.canonical, run.label) THEN NoRun
              ELSE [run EXCEPT !.pos = "scan",
                               !.excluded = @ \cup Senders(run.canonical, read)]
  /\ UNCHANGED <<drafts, logs, undo, trashed, ghosts>>

(* Mutant: an alias is a recipient of its own.                              *)
RecipientAsWritten(canonical, m) == m.target

Recipient(canonical, m) == canonical[m.target]

(* dedupe_by_sender: of several messages as new, whichever is read first.   *)
NewestOf(canonical, records, m) ==
  \A other \in records:
    other.safe /\ Recipient(canonical, other) = Recipient(canonical, m) =>
      other.date <= m.date

BySender(canonical, records) ==
  {m \in records: /\ m.safe /\ Recipient(canonical, m) # canonical[Owner]
                  /\ NewestOf(canonical, records, m)}

Approved(canonical, document) ==
  {canonical[a]: a \in Range(document.recipients)}

(* select_targets                                                           *)
Eligible(canonical, records, excluded, document) ==
  {m \in BySender(canonical, records):
     /\ Recipient(canonical, m) \notin excluded
     /\ document = NoApproval \/ Recipient(canonical, m) \in Approved(canonical, document)}

(* The newest are taken, one of each recipient, until there is no other or  *)
(* the limit is reached.                                                    *)
Targets(canonical, eligible, limit) ==
  {s \in UNION {[1..n -> eligible]: n \in 0..limit}:
     /\ \A i, j \in DOMAIN s:
          i < j => /\ Recipient(canonical, s[i]) # Recipient(canonical, s[j])
                   /\ s[i].date >= s[j].date
     /\ \A m \in eligible:
          \/ \E i \in DOMAIN s: Recipient(canonical, s[i]) = Recipient(canonical, m)
          \/ Len(s) = limit /\ \A i \in DOMAIN s: s[i].date >= m.date}

(* fetch_metadata: a batch, and once more what it dropped; the rest is left *)
(* out, like mail that comes later.  Nothing to draft ends the run.         *)
Scan ==
  /\ run.pos = "scan"
  /\ \E read \in SUBSET Labelled(run.label):
       \E targets \in Targets(run.canonical,
                       Eligible(run.canonical, read, run.excluded, run.document), run.limit):
         run' = IF targets = <<>> THEN NoRun
                ELSE [run EXCEPT !.pos = "confirm", !.read = read, !.todo = targets]
  /\ UNCHANGED <<drafts, logs, undo, trashed, ghosts>>

Confirm ==
  /\ run.pos = "confirm" /\ run' = [run EXCEPT !.pos = "create"]
  /\ UNCHANGED <<drafts, logs, undo, trashed, ghosts>>

Attempts == 5   \* MAX_GMAIL_ATTEMPTS

(* create_drafts: the answer to a request that was carried out may be lost; *)
(* the request is sent again, until it counts as failed.                    *)
CreateDraft ==
  /\ run.pos = "create" /\ run.todo # <<>>
  /\ \E made \in 0..1: \E lost \in 0..Attempts - made:
       LET new == [i \in 1..(lost + made) |-> Written(runs, Head(run.todo))]
       IN /\ Len(drafts) + lost + made <= MaxDrafts
          /\ drafts' = drafts \o new
          /\ unlogged' = unlogged \cup {Len(drafts) + i: i \in 1..lost}
          /\ run' = IF made = 0 THEN [run EXCEPT !.todo = Tail(@)]
                    ELSE [run EXCEPT !.pos = "record"]
  /\ UNCHANGED <<logs, undo, trashed, runs, undos, touches, unlisted, undone, edited>>

(* Mutant: the newest draft of the mailbox is logged.                       *)
LoggedNewest(log) == Append(log, Len(drafts))

(* DraftLog.record, of the draft the run has just made.                     *)
InHand(d) == drafts[d].by = runs /\ \A e \in Ids: drafts[e].by = runs => e <= d
Logged(log) == Append(log, CHOOSE d \in Ids: InHand(d))

RecordDraft ==
  /\ run.pos = "record"
  /\ logs' = [logs EXCEPT ![runs] = Logged(@)]
  /\ run' = [run EXCEPT !.pos = "create", !.todo = Tail(@)]
  /\ UNCHANGED <<drafts, undo, trashed, ghosts>>

(* Done, declined, Ctrl-C, a log that cannot be written, or the machine: a  *)
(* draft whose id is still in hand is lost with it.                         *)
EndRun ==
  /\ run # NoRun /\ run' = NoRun
  /\ unlogged' = IF run.pos = "record"
                   THEN unlogged \cup {d \in Ids: InHand(d)} ELSE unlogged
  /\ UNCHANGED <<drafts, logs, undo, trashed, runs, undos, touches, unlisted, undone, edited>>

------------------------------------------------------------------------------
(* An undo *)

StartUndo(n) ==
  /\ undo = NoRun /\ undos < MaxUndos /\ undos' = undos + 1
  /\ logs[n] # <<>>
  /\ undo' = [pos |-> "get", ids |-> logs[n], todo |-> logs[n], failed |-> FALSE]
  /\ UNCHANGED <<drafts, run, logs, trashed, runs, touches, unlogged, unlisted, undone, edited>>

Message(d) == [draft |-> d, version |-> drafts[d].version]

ToMove(d) ==
  [pos |-> "trash", ids |-> undo.ids, todo |-> undo.todo, failed |-> undo.failed,
   message |-> Message(d)]

(* trash_drafts asks for the message of a draft.  A draft that is not there *)
(* any more is missing, which is no failure.                                *)
GetDraft ==
  /\ undo.pos = "get" /\ undo.todo # <<>>
  /\ LET d == Head(undo.todo)
     IN \/ drafts[d].state = "live" /\ undo' = ToMove(d)
        \/ drafts[d].state # "live" /\ undo' = [undo EXCEPT !.todo = Tail(@)]
        \/ undo' = [undo EXCEPT !.todo = Tail(@), !.failed = TRUE]
  /\ UNCHANGED <<drafts, run, logs, trashed, ghosts>>

Next1(failed) ==
  [pos |-> "get", ids |-> undo.ids, todo |-> Tail(undo.todo), failed |-> failed]

(* Mutant: what could not be moved is missing.                              *)
TrashFailedQuietly == Next1(undo.failed)

TrashFailed == Next1(TRUE)

(* Then it moves that message; the answer may be lost again.                *)
TrashMessage ==
  /\ undo.pos = "trash"
  /\ LET m == undo.message
     IN \/ /\ drafts[m.draft].state = "live" /\ drafts[m.draft].version = m.version
           /\ drafts' = [drafts EXCEPT ![m.draft].state = "trash"]
           /\ \/ undo' = [undo EXCEPT !.pos = "record"] /\ UNCHANGED unlisted
              \/ undo' = TrashFailed /\ unlisted' = unlisted \cup {m}
        \/ /\ drafts[m.draft].state # "live" \/ drafts[m.draft].version # m.version
           /\ undo' = Next1(undo.failed) /\ UNCHANGED <<drafts, unlisted>>
        \/ undo' = TrashFailed /\ UNCHANGED <<drafts, unlisted>>
  /\ UNCHANGED <<run, logs, trashed, runs, undos, touches, unlogged, undone, edited>>

Listed(m) == m

RecordTrashed ==
  /\ undo.pos = "record"
  /\ trashed' = trashed \cup {Listed(undo.message)} /\ undo' = Next1(undo.failed)
  /\ UNCHANGED <<drafts, run, logs, ghosts>>

FinishUndo ==
  /\ undo.pos = "get" /\ undo.todo = <<>> /\ undo' = NoRun
  /\ undone' = IF undo.failed THEN undone
               ELSE undone \cup Range(undo.ids)
  /\ UNCHANGED <<drafts, run, logs, trashed, runs, undos, touches, unlogged, unlisted, edited>>

UndoStops ==
  /\ undo # NoRun /\ undo' = NoRun
  /\ unlisted' = IF undo.pos = "record" THEN unlisted \cup {undo.message} ELSE unlisted
  /\ UNCHANGED <<drafts, run, logs, trashed, runs, undos, touches, unlogged, undone, edited>>

------------------------------------------------------------------------------
Next ==
  \/ OwnerWrites
  \/ \E d \in Ids: OwnerSends(d) \/ OwnerDeletes(d) \/ OwnerEdits(d)
  \/ StartRun \/ ReadExclusions \/ Scan \/ Confirm \/ CreateDraft \/ RecordDraft \/ EndRun
  \/ \E n \in 1..MaxRuns: StartUndo(n)
  \/ GetDraft \/ TrashMessage \/ RecordTrashed \/ FinishUndo \/ UndoStops

Spec == Init /\ [][Next]_vars

------------------------------------------------------------------------------
(* Properties *)

OfRun(n) == {d \in Ids: drafts[d].by = n}

Writing == run.pos \in {"create", "record"}
RecipientOf(d) == run.canonical[drafts[d].message.target]

(* A run writes to nobody twice, whatever addresses they use, unless the    *)
(* answer to a request was lost (campaign.py: dedupe_by_sender).            *)
OneDraftEach ==
  Writing => \A d, e \in OfRun(runs) \ unlogged: RecipientOf(d) = RecipientOf(e) => d = e

(* A run writes to nobody it must leave out: not to the owner, not to who   *)
(* is excluded by address or by label; and to no more than its limit        *)
(* (campaign.py: select_targets).                                           *)
OnlyTargets ==
  Writing =>
    /\ \A d \in OfRun(runs):
         /\ drafts[d].message.safe /\ RecipientOf(d) # run.canonical[Owner]
         /\ RecipientOf(d) \notin run.excluded \cup {run.canonical[a]: a \in run.byFile}
    /\ Cardinality(OfRun(runs) \ unlogged) <= run.limit

(* A label the profile protects, however it is typed.                       *)
Protected(label) == \E p \in Reviewed: SameLabel(label, p)

(* The label is typed in another case than the profile's, and nobody gave   *)
(* an approval.                                                             *)
OtherCase == run.document = NoApproval /\ run.label \notin Reviewed

(* Under a protected label, and wherever there is an approval, a run writes *)
(* only to people listed once in a document that names this account and     *)
(* this label (campaign.py:241-243, "bound to the exact Gmail account and   *)
(* label", "cannot broaden a campaign unnoticed"), but for a label in       *)
(* another case.                                                            *)
OnlyApproved ==
  Writing /\ (Protected(run.label) \/ run.document # NoApproval) =>
    \/ OtherCase
    \/ /\ run.document.account = Owner /\ run.document.label = run.label
       /\ \A d \in OfRun(runs):
            Cardinality({i \in DOMAIN run.document.recipients:
                           run.canonical[run.document.recipients[i]] = RecipientOf(d)}) = 1

(* Nobody is written to under a protected label without an approval         *)
(* (campaign.py:737-739, "Real campaign writes for protected label ... are  *)
(* blocked").                                                               *)
ProtectedApproved ==
  Writing /\ Protected(run.label) /\ OfRun(runs) # {} => run.document # NoApproval

(* What a run was told, and what it may draft.                              *)
RunTold ==
  /\ run # NoRun =>
       /\ runs > 0 /\ ByFile(run.canonical, run.byFile) \subseteq run.excluded
       /\ run.label \in Reviewed => run.document # NoApproval
  /\ run.pos \in {"scan", "confirm", "create", "record"} =>
       Fits(run.document, run.canonical, run.label)

MayDraft == Eligible(run.canonical, run.read, run.excluded, run.document)

(* What is still to do has nobody twice, and nobody who has a draft but the *)
(* one whose draft is in hand; together they keep to the limit.             *)
RunGoesOn ==
  /\ run.pos \in {"exclusions", "scan", "confirm"} => OfRun(runs) = {}
  /\ run.pos \in {"confirm", "create", "record"} =>
       /\ Range(run.todo) \subseteq MayDraft
       /\ \A i, j \in DOMAIN run.todo:
            i < j => Recipient(run.canonical, run.todo[i]) # Recipient(run.canonical, run.todo[j])
       /\ \A d \in OfRun(runs): drafts[d].message \in MayDraft
       /\ \A d \in OfRun(runs) \ unlogged: \A i \in DOMAIN run.todo:
            RecipientOf(d) = Recipient(run.canonical, run.todo[i]) =>
              run.pos = "record" /\ i = 1 /\ InHand(d)
       /\ Cardinality(OfRun(runs) \ unlogged) + Len(run.todo)
            <= run.limit + IF run.pos = "record" THEN 1 ELSE 0
  /\ run.pos = "record" =>
       /\ run.todo # <<>>
       /\ \E d \in Ids \ (unlogged \cup Range(logs[runs])):
            InHand(d) /\ drafts[d].message = Head(run.todo)

(* A log lists drafts of its run, and none it was not told of.              *)
LogHolds ==
  \A n \in 1..MaxRuns: Range(logs[n]) \subseteq OfRun(n) \ unlogged

(* An undo takes what is in a log, one after the other; what it is done     *)
(* with is taken back, unless it reports a failure.                         *)
UndoGoesOn ==
  undo # NoRun =>
    /\ \E n \in 1..MaxRuns: Range(undo.ids) \subseteq Range(logs[n])
    /\ Range(undo.todo) \subseteq Range(undo.ids)
    /\ ~undo.failed =>
         \A d \in Range(undo.ids) \ Range(undo.todo): drafts[d].state # "live" \/ d \in edited
    /\ undo.pos \in {"trash", "record"} =>
         undo.todo # <<>> /\ undo.message.draft = Head(undo.todo)
    /\ undo.pos = "trash" =>
         undo.message = Message(undo.message.draft) \/ undo.message.draft \in edited
    /\ undo.pos = "record" =>
         /\ drafts[undo.message.draft].state = "trash"
         /\ undo.message = Message(undo.message.draft)

(* A run writes once to whom it may write to; the rest is what makes that,  *)
(* and what the logs and the undo keep, inductive.                          *)
Inv ==
  /\ TypeOK /\ OneDraftEach /\ OnlyTargets /\ OnlyApproved
  /\ RunTold /\ RunGoesOn /\ LogHolds /\ UndoGoesOn

(* The log of a run has every draft it made and no other, at every moment   *)
(* it may be interrupted; out of its reach is only a draft whose answer was *)
(* lost, or whose id was in hand when the run died (campaign.py: DraftLog). *)
LogExact ==
  \A n \in 1..runs:
    /\ Range(logs[n]) \subseteq OfRun(n)
    /\ \A d \in OfRun(n) \ Range(logs[n]):
         d \in unlogged \/ (n = runs /\ run.pos = "record" /\ InHand(d))

(* An undo moves nothing to the Trash that a run did not write and log: no  *)
(* draft of the owner's (campaign.py:587, "hand-written drafts are never    *)
(* affected").                                                              *)
UndoOnlyLogged ==
  \A d \in Ids: drafts[d].state = "trash" =>
    \E n \in 1..MaxRuns: d \in OfRun(n) /\ d \in Range(logs[n])

(* After an undo without failures no draft of its log is left, unless the   *)
(* owner edited it just then (campaign.py: trash_drafts).                   *)
UndoComplete == \A d \in undone: drafts[d].state # "live" \/ d \in edited

(* What an undo moved can be found again by its log, whatever stopped it,   *)
(* except the message it was at (campaign.py: trashed_log).                 *)
TrashListed ==
  \A d \in Ids: drafts[d].state = "trash" =>
    \/ Message(d) \in trashed \cup unlisted
    \/ undo.pos = "record" /\ undo.message = Message(d)

(* An undo takes back what the program wrote and logged, all of it, and     *)
(* leaves a list of it.                                                     *)
UndoExact == UndoOnlyLogged /\ UndoComplete /\ TrashListed
=============================================================================
