-------------------------- MODULE DailyTriageProofs --------------------------
(***************************************************************************)
(* Theorems about DailyTriage, for every set of messages, conversations,   *)
(* drafts and labels, every limit, pool size and combination of            *)
(* disturbances.                                                           *)
(***************************************************************************)
EXTENDS DailyTriage, TLAPS

(* The process ends: what Release sets is well typed. *)
LEMMA ReleaseTyped ==
  ASSUME NEW s \in [Messages -> Record], Release(s)
  PROVE  /\ smem' \in [Messages -> Record] /\ jmem' \in [Messages -> Entry]
         /\ plan' \in [Messages -> Plan] /\ pc' \in [Messages -> Position]
         /\ lock' \in Messages \cup {NoOne} /\ cancel' \in BOOLEAN
         /\ proc' = "idle" /\ kind' \in RunKinds /\ group' = 0
BY DEF Release, Record, Entry, EmptyJournal, NoEntry, Plan, NoPlan, Position,
       RunKinds, MaybeDraft, Labels

LEMMA TypeInit == Init => TypeOK
<1> SUFFICES ASSUME Init PROVE TypeOK
  OBVIOUS
<1>1. draft \in [Drafts -> DraftState]
  BY DEF Init, DraftState
<1>2. state \in [Messages -> Record] /\ smem \in [Messages -> Record]
  BY DraftsAssumption
     DEF Init, Record, LegacyRecord, NoRecord, MaybeDraft
<1>3. EmptyJournal \in [Messages -> Entry]
  BY DEF EmptyJournal, NoEntry, Entry, MaybeDraft
<1>4. plan \in [Messages -> Plan] /\ pc \in [Messages -> Position]
  BY DEF Init, Plan, NoPlan, MaybeDraft, Position
<1>5. journal \in [Groups -> [Messages -> Entry]] /\ jmem \in [Messages -> Entry]
  BY <1>3 DEF Init
<1>6. stamp \in [Groups -> 0..MaxRuns] /\ runs \in 0..MaxRuns
  BY LimitsAssumption DEF Init
<1>7. labels \in [Messages -> SUBSET Labels]
  BY DEF Init
<1> QED
  BY <1>1, <1>2, <1>4, <1>5, <1>6, <1>7
     DEF Init, TypeOK, Backfill, RunKinds

(* Selecting mail yields well-typed plans that name no draft, and places   *)
(* each message before the workers or outside the run.                     *)
LEMMA SelectTyped ==
  ASSUME TypeOK, NEW scan, Select(scan)
  PROVE  /\ plan' \in [Messages -> Plan]
         /\ pc' \in [Messages -> {"planned", "deferred", "failed",
                                  "skipped", "none"}]
         /\ trouble' \in Nat
         /\ \A m \in Messages: plan'[m].draft = NoDraft
         /\ \A m \in Messages: plan'[m].replace => MissingOrShared(state, m)
<1>1. ASSUME NEW C, NEW wants, NEW topics
      PROVE  LET p == PlanFor(C, wants, topics)
             IN  /\ p \in [Messages -> Plan]
                 /\ \A m \in Messages: p[m].draft = NoDraft
                 /\ \A m \in Messages: p[m].replace => MissingOrShared(state, m)
  <2>1. \A m \in Messages: MissingOrShared(state, m) \in BOOLEAN
    BY DEF MissingOrShared
  <2> QED
    BY <2>1 DEF PlanFor, NoPlan, Plan, MaybeDraft
<1>2. ASSUME NEW C, NEW p, NEW read, NEW unread
      PROVE  Placed(C, p, read, unread)
               \in [Messages -> {"planned", "deferred", "failed", "skipped",
                                "none"}]
  BY DEF Placed
<1>3. trouble' \in Nat
  BY DEF Select, TypeOK
<1> QED
  BY <1>1, <1>2, <1>3 DEF Select

LEMMA TypeStartRun ==
  ASSUME TypeOK, NEW k \in Kinds, NEW scan \in ScanOf(k), StartRun(k, scan)
  PROVE  TypeOK'
<1>1. k \in RunKinds /\ scan \in SUBSET Messages
  BY KindsAssumption DEF TypeOK, RunKinds, ScanOf
<1>2. EmptyJournal \in [Messages -> Entry]
  BY DEF EmptyJournal, NoEntry, Entry, MaybeDraft
<1>3. runs \in Nat /\ runs + 1 \in Groups /\ runs' \in 0..MaxRuns
  BY LimitsAssumption DEF StartRun, TypeOK, Groups
<1>4. /\ group' \in Groups /\ jmem' \in [Messages -> Entry]
      /\ stamp' \in [Groups -> 0..MaxRuns] /\ backfill' \in Backfill
  <2>1. CASE backfill # NoBackfill /\ group' = backfill.group
             /\ jmem' = journal[backfill.group] /\ UNCHANGED <<stamp, backfill>>
    BY <2>1 DEF TypeOK, Backfill
  <2>2. CASE /\ group' = runs + 1 /\ jmem' = EmptyJournal
             /\ stamp' = [stamp EXCEPT ![runs + 1] = runs + 1]
             /\ backfill' \in {backfill, [group |-> runs + 1, ids |-> scan]}
    BY <1>1, <1>2, <1>3, <2>2, LimitsAssumption
       DEF TypeOK, Backfill, Groups
  <2> QED
    BY <2>1, <2>2 DEF StartRun, BeginGroup
<1>5. plan' \in [Messages -> Plan] /\ trouble' \in Nat
  BY SelectTyped DEF StartRun
<1>6. pc' \in [Messages -> Position]
  BY SelectTyped DEF StartRun, Position, Waiting, Settled
<1> QED
  BY <1>1, <1>3, <1>4, <1>5, <1>6
     DEF StartRun, TypeOK, gmail

LEMMA MoveTyped ==
  ASSUME TypeOK, NEW m \in Messages, NEW s \in Position, Move(m, s)
  PROVE  pc' \in [Messages -> Position]
BY DEF TypeOK, Move

LEMMA PositionsNamed ==
  /\ InThread \subseteq Position /\ Settled \subseteq Position
  /\ {"waiting", "entry", "restored", "kept"} \subseteq Position
BY DEF Position, InThread, Busy, Settled

(* Updates of one field of one plan, entry or record *)
LEMMA PlanTyped ==
  ASSUME NEW f \in [Messages -> Plan], NEW m \in Messages
  PROVE  /\ [f EXCEPT ![m].err = TRUE] \in [Messages -> Plan]
         /\ \A d \in MaybeDraft: [f EXCEPT ![m].draft = d] \in [Messages -> Plan]
         /\ f[m].draft \in MaybeDraft
BY DEF Plan

LEMMA EntryTyped ==
  ASSUME NEW f \in [Messages -> Entry], NEW m \in Messages
  PROVE  /\ \A d \in MaybeDraft: [f EXCEPT ![m].draft = d] \in [Messages -> Entry]
         /\ \A L \in SUBSET Labels:
              [f EXCEPT ![m].labels = @ \cup L] \in [Messages -> Entry]
<1>1. \A d \in MaybeDraft: [f EXCEPT ![m].draft = d] \in [Messages -> Entry]
  BY DEF Entry
<1>2. ASSUME NEW L \in SUBSET Labels
      PROVE  [f EXCEPT ![m].labels = @ \cup L] \in [Messages -> Entry]
  <2>1. f[m].labels \cup L \in SUBSET Labels
    BY DEF Entry
  <2>2. ASSUME NEW K \in SUBSET Labels
        PROVE  [f EXCEPT ![m].labels = K] \in [Messages -> Entry]
    BY DEF Entry
  <2> QED
    BY <2>1, <2>2
<1> QED
  BY <1>1, <1>2

LEMMA LabelsToAddTyped ==
  ASSUME TypeOK, NEW m \in Messages
  PROVE  LabelsToAdd(m) \in SUBSET Labels
<1>1. plan[m].adds \in SUBSET TopicLabels
  BY DEF TypeOK, Plan
<1> QED
  BY <1>1 DEF LabelsToAdd, Labels

LEMMA NewDraftTyped ==
  ASSUME TypeOK, NEW m \in Messages, NEW d \in Drafts, NewDraft(m, d)
  PROVE  draft' \in [Drafts -> DraftState]
BY DEF TypeOK, NewDraft, DraftState

LEMMA TypeWorker ==
  ASSUME TypeOK, NEW m \in Messages, Worker(m)
  PROVE  TypeOK'
<1>1. CASE Begin(m)
  <2>1. pc' \in [Messages -> Position]
    <3>1. Move(m, "cancelled") \/ Move(m, "waiting")
      BY <1>1 DEF Begin
    <3> QED
      BY <3>1, MoveTyped, PositionsNamed DEF Settled
  <2> QED
    BY <1>1, <2>1 DEF Begin, TypeOK, gmail, files, book
<1>2. CASE Enter(m)
  <2>1. pc' \in [Messages -> Position]
    BY <1>2, MoveTyped, PositionsNamed DEF Enter, InThread
  <2>2. smem[m].draft \in MaybeDraft
    BY DEF TypeOK, Record
  <2>3. plan' \in [Messages -> Plan]
    <3>1. UNCHANGED plan \/ plan' = [plan EXCEPT ![m].draft = smem[m].draft]
      BY <1>2 DEF Enter
    <3>2. plan \in [Messages -> Plan]
      BY DEF TypeOK
    <3>3. \A d \in MaybeDraft: [plan EXCEPT ![m].draft = d] \in [Messages -> Plan]
      BY <3>2, PlanTyped
    <3> QED
      BY <2>2, <3>1, <3>2, <3>3
  <2> QED
    BY <1>2, <2>1, <2>3 DEF Enter, TypeOK, gmail, files, book
<1>3. CASE CreateDraft(m)
  <2>1. pc' \in [Messages -> Position]
    BY <1>3, MoveTyped, PositionsNamed DEF CreateDraft, InThread
  <2>2. PICK d \in Drafts: NewDraft(m, d) /\ plan' = [plan EXCEPT ![m].draft = d]
    BY <1>3 DEF CreateDraft
  <2>3. plan' \in [Messages -> Plan]
    BY <2>2, PlanTyped DEF TypeOK, MaybeDraft
  <2>4. draft' \in [Drafts -> DraftState]
    BY <2>2, NewDraftTyped
  <2> QED
    BY <1>3, <2>1, <2>3, <2>4 DEF CreateDraft, TypeOK, files, book
<1>4. CASE CreateFails(m)
  <2>1. pc' \in [Messages -> Position]
    BY <1>4, MoveTyped, PositionsNamed DEF CreateFails, InThread
  <2>2. plan' \in [Messages -> Plan]
    BY <1>4, PlanTyped DEF CreateFails, TypeOK
  <2> QED
    BY <1>4, <2>1, <2>2 DEF CreateFails, TypeOK, Disturb, gmail, files
<1>5. CASE CreateAnswerLost(m)
  <2>1. pc' \in [Messages -> Position]
    BY <1>5, MoveTyped, PositionsNamed DEF CreateAnswerLost, InThread, TypeOK
  <2>2. plan' \in [Messages -> Plan]
    <3>1. UNCHANGED plan \/ plan' = [plan EXCEPT ![m].err = TRUE]
      BY <1>5 DEF CreateAnswerLost
    <3>2. plan \in [Messages -> Plan]
      BY DEF TypeOK
    <3> QED
      BY <3>1, <3>2, PlanTyped
  <2>3. draft' \in [Drafts -> DraftState]
    BY <1>5, NewDraftTyped DEF CreateAnswerLost
  <2> QED
    BY <1>5, <2>1, <2>2, <2>3 DEF CreateAnswerLost, TypeOK, Disturb, files
<1>6. CASE LogDraft(m)
  <2>1. pc' \in [Messages -> Position]
    BY <1>6, MoveTyped, PositionsNamed DEF LogDraft, InThread
  <2>2. plan[m].draft \in MaybeDraft
    BY PlanTyped DEF TypeOK
  <2> QED
    BY <1>6, <2>1, <2>2 DEF LogDraft, TypeOK, gmail, book
<1>7. CASE JournalDraft(m)
  <2>1. pc' \in [Messages -> Position]
    BY <1>7, MoveTyped, PositionsNamed DEF JournalDraft, InThread
  <2>2. jmem' \in [Messages -> Entry]
    BY <1>7, PlanTyped, EntryTyped DEF JournalDraft, TypeOK
  <2>3. journal' \in [Groups -> [Messages -> Entry]]
    BY <1>7, <2>2 DEF JournalDraft, TypeOK
  <2> QED
    BY <1>7, <2>1, <2>2, <2>3 DEF JournalDraft, TypeOK, gmail, book
<1>0. DraftRecord(m) \in Record
  BY PlanTyped DEF DraftRecord, TypeOK, Record
<1>8. CASE RecordDraft(m)
  <2>1. pc' \in [Messages -> Position]
    BY <1>8, MoveTyped, PositionsNamed DEF RecordDraft, InThread
  <2>2. smem' \in [Messages -> Record]
    BY <1>8, <1>0 DEF RecordDraft, TypeOK
  <2> QED
    BY <1>8, <2>1, <2>2 DEF RecordDraft, TypeOK, gmail, book
<1>9. CASE PersistFails(m)
  <2>1. pc' \in [Messages -> Position]
    BY <1>9, MoveTyped, PositionsNamed DEF PersistFails, InThread
  <2>2. smem' \in [Messages -> Record]
    BY <1>9, <1>0 DEF PersistFails, TypeOK
  <2>3. jmem' \in [Messages -> Entry]
    BY <1>9, PlanTyped, EntryTyped DEF PersistFails, TypeOK
  <2>4. plan' \in [Messages -> Plan]
    BY <1>9, PlanTyped DEF PersistFails, TypeOK
  <2> QED
    BY <1>9, <2>1, <2>2, <2>3, <2>4 DEF PersistFails, TypeOK, Disturb, gmail, files
<1>10. CASE ApplyLabels(m)
  <2>1. pc' \in [Messages -> Position]
    BY <1>10, MoveTyped, PositionsNamed DEF ApplyLabels, InThread, Settled
  <2>2. labels' \in [Messages -> SUBSET Labels]
    BY <1>10, LabelsToAddTyped DEF ApplyLabels, TypeOK
  <2> QED
    BY <1>10, <2>1, <2>2 DEF ApplyLabels, TypeOK, files, book
<1>11. CASE LabelsFail(m)
  <2>1. pc' \in [Messages -> Position]
    BY <1>11, MoveTyped, PositionsNamed DEF LabelsFail, Settled
  <2>2. labels' \in [Messages -> SUBSET Labels]
    BY <1>11, LabelsToAddTyped DEF LabelsFail, TypeOK
  <2> QED
    BY <1>11, <2>1, <2>2 DEF LabelsFail, TypeOK, Disturb, files
<1>12. CASE JournalLabels(m)
  <2>1. pc' \in [Messages -> Position]
    BY <1>12, MoveTyped, PositionsNamed DEF JournalLabels, InThread, Settled
  <2>2. jmem' \in [Messages -> Entry]
    BY <1>12, LabelsToAddTyped, EntryTyped DEF JournalLabels, TypeOK
  <2>3. journal' \in [Groups -> [Messages -> Entry]]
    BY <1>12, <2>2 DEF JournalLabels, TypeOK
  <2> QED
    BY <1>12, <2>1, <2>2, <2>3 DEF JournalLabels, TypeOK, Disturb, gmail
<1>13. CASE Complete(m)
  <2>1. pc' \in [Messages -> Position]
    BY <1>13, MoveTyped, PositionsNamed DEF Complete, Settled
  <2>2. [status |-> "complete", draft |-> plan[m].draft,
         current |-> AccountWide] \in Record
    BY PlanTyped, LimitsAssumption DEF TypeOK, Record
  <2>3. smem' \in [Messages -> Record]
    BY <1>13, <2>2 DEF Complete, TypeOK
  <2>4. state' \in [Messages -> Record] /\ exposed' \in SUBSET Messages
    BY <1>13, <2>3 DEF Complete, TypeOK
  <2>5. trouble' \in Nat
    BY <1>13 DEF Complete, TypeOK, Disturb
  <2>6. UNCHANGED <<gmail, dailyDone, journal, undone, stamp, log, retry,
                    backfill, proc, kind, group, jmem, plan, lock, cancel, runs>>
    BY <1>13 DEF Complete
  <2> QED
    BY <2>1, <2>3, <2>4, <2>5, <2>6 DEF TypeOK, gmail
<1> QED
  BY <1>1, <1>2, <1>3, <1>4, <1>5, <1>6, <1>7, <1>8, <1>9, <1>10, <1>11,
     <1>12, <1>13 DEF Worker

LEMMA TypeRunEnd ==
  ASSUME TypeOK, Refresh \/ RunEnd
  PROVE  TypeOK'
<1>1. CASE Refresh
  <2>1. plan' \in [Messages -> Plan]
    BY <1>1 DEF Refresh, TypeOK, Plan
  <2>2. pc' \in [Messages -> Position]
    BY <1>1 DEF Refresh, TypeOK, Position, Waiting
  <2> QED
    BY <1>1, <2>1, <2>2 DEF Refresh, TypeOK, gmail, files, book
<1>2. ASSUME CompleteJournal \/ UNCHANGED <<journal, stamp>>
      PROVE  /\ journal' \in [Groups -> [Messages -> Entry]]
             /\ stamp' \in [Groups -> 0..MaxRuns]
  BY <1>2 DEF CompleteJournal, TypeOK
<1>3. CASE FinishJournal
  <2>1. /\ journal' \in [Groups -> [Messages -> Entry]]
        /\ stamp' \in [Groups -> 0..MaxRuns]
    BY <1>2, <1>3 DEF FinishJournal
  <2> QED
    BY <1>3, <2>1 DEF FinishJournal, TypeOK, gmail, book
<1>4. CASE CloseDay
  <2>1. state' \in [Messages -> Record] /\ dailyDone' \in BOOLEAN
    BY <1>4 DEF CloseDay, TypeOK, Saved
  <2> QED
    BY <1>4, <2>1 DEF CloseDay, TypeOK, gmail, book
<1>5. CASE ReportRun
  <2>1. Release(state) /\ state \in [Messages -> Record]
    BY <1>5 DEF ReportRun, TypeOK
  <2>2. retry' \in SUBSET Messages /\ backfill' \in Backfill
    BY <1>5 DEF ReportRun, TypeOK, Backfill
  <2> QED
    BY <1>5, <2>1, <2>2, ReleaseTyped DEF ReportRun, TypeOK, gmail, book
<1>6. CASE FinishCancelled
  <2>1. Release(state) /\ state \in [Messages -> Record]
    BY <1>6 DEF FinishCancelled, TypeOK
  <2>2. /\ journal' \in [Groups -> [Messages -> Entry]]
        /\ stamp' \in [Groups -> 0..MaxRuns]
    BY <1>2, <1>6 DEF FinishCancelled
  <2>3. backfill' \in Backfill
    BY <1>6 DEF FinishCancelled, TypeOK, Backfill
  <2> QED
    BY <1>6, <2>1, <2>2, <2>3, ReleaseTyped
       DEF FinishCancelled, TypeOK, gmail, book
<1> QED
  BY <1>1, <1>3, <1>4, <1>5, <1>6 DEF RunEnd

LEMMA TypeUndo ==
  ASSUME TypeOK, (\E g \in Groups: StartUndo(g)) \/ Undo
  PROVE  TypeOK'
<1>1. ASSUME NEW g \in Groups, StartUndo(g)
      PROVE  TypeOK'
  <2>1. pc' \in [Messages -> Position]
    BY <1>1 DEF StartUndo, Position
  <2>2. smem' \in [Messages -> Record] /\ jmem' \in [Messages -> Entry]
    BY <1>1 DEF StartUndo, TypeOK
  <2> QED
    BY <1>1, <2>1, <2>2 DEF StartUndo, TypeOK, gmail, files, book
<1>2. ASSUME NEW m \in Messages, UndoEntry(m)
      PROVE  TypeOK'
  <2>1. draft' \in [Drafts -> DraftState]
    <3>1. [draft EXCEPT ![jmem[m].draft].live = FALSE] \in [Drafts -> DraftState]
      BY DEF TypeOK, DraftState
    <3> QED
      BY <1>2, <3>1 DEF UndoEntry, UndoCalls, TypeOK
  <2>2. labels' \in [Messages -> SUBSET Labels]
    <3>1. [labels EXCEPT ![m] = @ \ jmem[m].labels]
            \in [Messages -> SUBSET Labels]
      BY DEF TypeOK
    <3> QED
      BY <1>2, <3>1 DEF UndoEntry, UndoCalls, TypeOK
  <2>3. jmem' \in [Messages -> Entry]
    <3>1. ASSUME NEW x \in BOOLEAN, NEW y \in BOOLEAN
          PROVE  [jmem EXCEPT ![m].draftUndone = @ \/ x,
                              ![m].labelsUndone = @ \/ y]
                   \in [Messages -> Entry]
      <4>1. (jmem[m].draftUndone \/ x) \in BOOLEAN
            /\ (jmem[m].labelsUndone \/ y) \in BOOLEAN
        OBVIOUS
      <4>2. ASSUME NEW u \in BOOLEAN, NEW v \in BOOLEAN
            PROVE  [jmem EXCEPT ![m].draftUndone = u, ![m].labelsUndone = v]
                     \in [Messages -> Entry]
        BY DEF TypeOK, Entry
      <4> QED
        BY <4>1, <4>2
    <3>2. DraftPending(m) \in BOOLEAN /\ LabelsPending(m) \in BOOLEAN
      BY DEF DraftPending, LabelsPending
    <3>3. \E x, y \in BOOLEAN:
            jmem' = [jmem EXCEPT
                       ![m].draftUndone = @ \/ (DraftPending(m) /\ x),
                       ![m].labelsUndone = @ \/ (LabelsPending(m) /\ y)]
      BY <1>2 DEF UndoEntry, UndoCalls
    <3>4. \A x, y \in BOOLEAN: /\ (DraftPending(m) /\ x) \in BOOLEAN
                               /\ (LabelsPending(m) /\ y) \in BOOLEAN
      OBVIOUS
    <3> QED
      BY <3>1, <3>3, <3>4
  <2>4. smem' \in [Messages -> Record]
    <3>1. NoRecord \in Record
      BY DEF NoRecord, Record, MaybeDraft
    <3> QED
      BY <1>2, <3>1 DEF UndoEntry, UndoCalls, TypeOK
  <2>5. pc' \in [Messages -> Position]
    BY <1>2, MoveTyped, PositionsNamed DEF UndoEntry, UndoCalls
  <2>6. journal' \in [Groups -> [Messages -> Entry]]
    BY <1>2, <2>3 DEF UndoEntry, UndoCalls, TypeOK
  <2>7. trouble' \in Nat
    BY <1>2 DEF UndoEntry, UndoCalls, TypeOK, Disturb
  <2> QED
    BY <1>2, <2>1, <2>2, <2>3, <2>4, <2>5, <2>6, <2>7 DEF UndoEntry, UndoCalls, TypeOK
<1>3. CASE FinishUndo
  <2>1. state' \in [Messages -> Record] /\ exposed' \in SUBSET Messages
    BY <1>3 DEF FinishUndo, TypeOK
  <2> QED
    BY <1>3, <2>1 DEF FinishUndo, TypeOK, gmail
<1>4. CASE MarkUndone
  <2>1. Release(state) /\ state \in [Messages -> Record]
    BY <1>4 DEF MarkUndone, TypeOK
  <2>2. undone' \in SUBSET Groups
    BY <1>4 DEF MarkUndone, TypeOK
  <2> QED
    BY <1>4, <2>1, <2>2, ReleaseTyped DEF MarkUndone, TypeOK, gmail, book
<1> QED
  BY <1>1, <1>2, <1>3, <1>4 DEF Undo

LEMMA TypeOutside ==
  ASSUME TypeOK,
         RequestCancel \/ Crash \/ NewDay \/ \E d \in Drafts: OwnerRemovesDraft(d)
  PROVE  TypeOK'
<1>1. CASE RequestCancel
  BY <1>1 DEF RequestCancel, TypeOK, gmail, files, book
<1>2. CASE Crash
  <2>1. Release(state) /\ state \in [Messages -> Record]
    BY <1>2 DEF Crash, TypeOK
  <2> QED
    BY <1>2, <2>1, ReleaseTyped DEF Crash, TypeOK, Disturb, gmail, files
<1>3. CASE NewDay
  BY <1>3 DEF NewDay, TypeOK, gmail, process
<1>4. ASSUME NEW d \in Drafts, OwnerRemovesDraft(d)
      PROVE  TypeOK'
  <2>1. draft' \in [Drafts -> DraftState]
    <3>1. [draft EXCEPT ![d].live = FALSE] \in [Drafts -> DraftState]
      BY DEF TypeOK, DraftState
    <3> QED
      BY <1>4, <3>1 DEF OwnerRemovesDraft
  <2> QED
    BY <1>4, <2>1 DEF OwnerRemovesDraft, TypeOK, Disturb, files, process
<1> QED
  BY <1>1, <1>2, <1>3, <1>4

LEMMA TypeStep == TypeOK /\ [Next]_vars => TypeOK'
<1> SUFFICES ASSUME TypeOK, [Next]_vars PROVE TypeOK'
  OBVIOUS
<1>1. CASE UNCHANGED vars
  BY <1>1 DEF vars, gmail, files, process, book, TypeOK
<1>2. CASE Next
  BY <1>2, TypeStartRun, TypeWorker, TypeRunEnd, TypeUndo, TypeOutside
     DEF Next, Run
<1> QED
  BY <1>1, <1>2

(* Type correctness: the saved records, journals and plans stay well       *)
(* formed in every reachable state (DailyState._validate, rollback_journal *)
(* _validate refuse anything else).                                        *)
THEOREM TypeCorrect == Spec => []TypeOK
<1> QED
  BY TypeInit, TypeStep, PTL DEF Spec
==============================================================================
