--------------------------- MODULE DailyDraftProofs ---------------------------
(***************************************************************************)
(* DraftedOnce, UndoneDraftsGone and RecordedDraftUndoable for every       *)
(* instance of DailyTriage: IInv is inductive given TypeOK.  A step of a   *)
(* worker touches one message only; the first part states that frame once, *)
(* so that the parts of IInv need no case analysis over the thirteen       *)
(* worker actions, but Undoable, which the order of their writes decides.  *)
(***************************************************************************)
EXTENDS DailyTriageProofs, FiniteSetTheorems, WellFoundedInduction

(* A worker step on m leaves every other message where it was. *)
OthersKept(m) ==
  \A k \in Messages \ {m}:
    /\ pc'[k] = pc[k] /\ plan'[k] = plan[k]
    /\ smem'[k] = smem[k] /\ jmem'[k] = jmem[k]
    /\ state'[k] \in {state[k], smem[k]}

(* The draft ids it can write for m itself *)
OwnDrafts(m) ==
  /\ jmem'[m].draft \in {jmem[m].draft, plan[m].draft}
  /\ jmem'[m].draftUndone = jmem[m].draftUndone
  /\ smem'[m].draft \in {smem[m].draft, plan[m].draft}
  /\ state'[m].draft \in {state[m].draft, smem[m].draft, plan[m].draft}
  /\ \/ plan'[m].draft \in {plan[m].draft, smem[m].draft}
     \/ \E d \in Drafts: NewDraft(m, d) /\ plan'[m].draft = d

(* The rest of the state as a worker step leaves it *)
RestKept(m) ==
  /\ pc[m] \in Busy \cup {"queued"}
  /\ pc'[m] \in (Busy \cup Settled) \ {"none", "skipped"}
  /\ UNCHANGED <<proc, kind, group, undone, backfill, runs>>
  /\ exposed \subseteq exposed'
  /\ UNCHANGED draft \/ \E d \in Drafts: NewDraft(m, d)
  /\ UNCHANGED journal \/ journal' = [journal EXCEPT ![group] = jmem']

LEMMA WorkerRest ==
  ASSUME TypeOK, NEW m \in Messages, Worker(m)
  PROVE  RestKept(m)
<1> USE DEF RestKept, Move, TypeOK, Busy, InThread
<1>1. CASE Begin(m)
  BY <1>1 DEF Begin, gmail, files, book, Settled
<1>2. CASE Enter(m)
  BY <1>2 DEF Enter, gmail, files, book
<1>3. CASE CreateDraft(m)
  BY <1>3 DEF CreateDraft, files, book
<1>4. CASE CreateFails(m)
  BY <1>4 DEF CreateFails, gmail, files
<1>5. CASE CreateAnswerLost(m)
  BY <1>5 DEF CreateAnswerLost, files
<1>6. CASE LogDraft(m)
  BY <1>6 DEF LogDraft, gmail, book
<1>7. CASE JournalDraft(m)
  BY <1>7 DEF JournalDraft, gmail, book
<1>8. CASE RecordDraft(m)
  BY <1>8 DEF RecordDraft, gmail, book
<1>9. CASE PersistFails(m)
  BY <1>9 DEF PersistFails, gmail, files
<1>10. CASE ApplyLabels(m)
  BY <1>10 DEF ApplyLabels, files, book, Settled
<1>11. CASE LabelsFail(m)
  BY <1>11 DEF LabelsFail, files, Settled
<1>12. CASE JournalLabels(m)
  BY <1>12 DEF JournalLabels, gmail, Settled
<1>13. CASE Complete(m)
  BY <1>13 DEF Complete, gmail, Settled
<1> QED
  BY <1>1, <1>2, <1>3, <1>4, <1>5, <1>6, <1>7, <1>8, <1>9, <1>10, <1>11,
     <1>12, <1>13 DEF Worker

LEMMA WorkerOthers ==
  ASSUME TypeOK, NEW m \in Messages, Worker(m)
  PROVE  OthersKept(m)
<1> USE DEF OthersKept, Move, TypeOK
<1>1. CASE Begin(m)
  BY <1>1 DEF Begin, files
<1>2. CASE Enter(m)
  BY <1>2 DEF Enter, files
<1>3. CASE CreateDraft(m)
  BY <1>3 DEF CreateDraft, files
<1>4. CASE CreateFails(m)
  BY <1>4 DEF CreateFails, files
<1>5. CASE CreateAnswerLost(m)
  BY <1>5 DEF CreateAnswerLost, files
<1>6. CASE LogDraft(m)
  BY <1>6 DEF LogDraft
<1>7. CASE JournalDraft(m)
  BY <1>7 DEF JournalDraft
<1>8. CASE RecordDraft(m)
  BY <1>8 DEF RecordDraft
<1>9. CASE PersistFails(m)
  BY <1>9 DEF PersistFails, files
<1>10. CASE ApplyLabels(m)
  BY <1>10 DEF ApplyLabels, files
<1>11. CASE LabelsFail(m)
  BY <1>11 DEF LabelsFail, files
<1>12. CASE JournalLabels(m)
  BY <1>12 DEF JournalLabels
<1>13. CASE Complete(m)
  BY <1>13 DEF Complete
<1> QED
  BY <1>1, <1>2, <1>3, <1>4, <1>5, <1>6, <1>7, <1>8, <1>9, <1>10, <1>11,
     <1>12, <1>13 DEF Worker

LEMMA WorkerOwn ==
  ASSUME TypeOK, NEW m \in Messages, Worker(m)
  PROVE  OwnDrafts(m)
<1> USE DEF OwnDrafts, TypeOK
<1>1. CASE Begin(m)
  BY <1>1 DEF Begin, files
<1>2. CASE Enter(m)
  <2>1. UNCHANGED plan \/ plan' = [plan EXCEPT ![m].draft = smem[m].draft]
    BY <1>2 DEF Enter
  <2>2. plan'[m].draft \in {plan[m].draft, smem[m].draft}
    BY <2>1 DEF Plan
  <2> QED
    BY <1>2, <2>2 DEF Enter, files
<1>3. CASE CreateDraft(m)
  <2>1. PICK d \in Drafts: NewDraft(m, d) /\ plan' = [plan EXCEPT ![m].draft = d]
    BY <1>3 DEF CreateDraft
  <2>2. plan'[m].draft = d
    BY <2>1 DEF Plan
  <2> QED
    BY <1>3, <2>1, <2>2 DEF CreateDraft, files
<1>4. CASE CreateFails(m)
  <2>1. plan'[m].draft = plan[m].draft
    BY <1>4 DEF CreateFails, Plan
  <2> QED
    BY <1>4, <2>1 DEF CreateFails, files
<1>5. CASE CreateAnswerLost(m)
  <2>1. UNCHANGED plan \/ plan' = [plan EXCEPT ![m].err = TRUE]
    BY <1>5 DEF CreateAnswerLost
  <2>2. plan'[m].draft = plan[m].draft
    BY <2>1 DEF Plan
  <2> QED
    BY <1>5, <2>2 DEF CreateAnswerLost, files
<1>6. CASE LogDraft(m)
  BY <1>6 DEF LogDraft
<1>7. CASE JournalDraft(m)
  <2>1. jmem'[m].draft = plan[m].draft /\ jmem'[m].draftUndone = jmem[m].draftUndone
    BY <1>7 DEF JournalDraft, Entry
  <2> QED
    BY <1>7, <2>1 DEF JournalDraft
<1>8. CASE RecordDraft(m)
  BY <1>8 DEF RecordDraft, DraftRecord
<1>9. CASE PersistFails(m)
  <2>1. plan'[m].draft = plan[m].draft
    BY <1>9 DEF PersistFails, Plan
  <2>2. UNCHANGED jmem \/ jmem' = [jmem EXCEPT ![m].draft = plan[m].draft]
    BY <1>9 DEF PersistFails
  <2>3. /\ jmem'[m].draft \in {jmem[m].draft, plan[m].draft}
        /\ jmem'[m].draftUndone = jmem[m].draftUndone
    BY <2>2 DEF Entry
  <2> QED
    BY <1>9, <2>1, <2>3 DEF PersistFails, DraftRecord, files
<1>10. CASE ApplyLabels(m)
  BY <1>10 DEF ApplyLabels, files
<1>11. CASE LabelsFail(m)
  BY <1>11 DEF LabelsFail, files
<1>12. CASE JournalLabels(m)
  <2>1. /\ jmem'[m].draft = jmem[m].draft
        /\ jmem'[m].draftUndone = jmem[m].draftUndone
    BY <1>12 DEF JournalLabels, Entry
  <2> QED
    BY <1>12, <2>1 DEF JournalLabels
<1>13. CASE Complete(m)
  <2>1. smem'[m].draft = plan[m].draft
    BY <1>13 DEF Complete
  <2> QED
    BY <1>13, <2>1 DEF Complete
<1> QED
  BY <1>1, <1>2, <1>3, <1>4, <1>5, <1>6, <1>7, <1>8, <1>9, <1>10, <1>11,
     <1>12, <1>13 DEF Worker

------------------------------------------------------------------------------
(* Every other step: a run or an undo starts or ends, an undo restores an  *)
(* entry, or something happens from outside.                               *)
Outer ==
  \/ \E k \in Kinds: \E scan \in ScanOf(k): StartRun(k, scan)
  \/ Refresh \/ RunEnd
  \/ \E g \in Groups: StartUndo(g)
  \/ Undo
  \/ RequestCancel \/ Crash \/ NewDay
  \/ \E d \in Drafts: OwnerRemovesDraft(d)
  \/ UNCHANGED vars

LEMMA StepCases == [Next]_vars => Outer \/ \E m \in Messages: Worker(m)
BY DEF Next, Run, Outer

(* The ids it leaves were there before. *)
IdsKept ==
  /\ \A m \in Messages:
       /\ state'[m].draft \in {NoDraft, state[m].draft, smem[m].draft}
       /\ smem'[m].draft \in {NoDraft, state[m].draft, smem[m].draft}
       /\ plan'[m].draft \in {NoDraft, plan[m].draft}
       /\ \/ jmem'[m].draft \in {NoDraft, jmem[m].draft}
          \/ \E g \in Groups: jmem'[m].draft = journal[g][m].draft
       /\ \A g \in Groups:
            journal'[g][m].draft \in {journal[g][m].draft, jmem[m].draft}

(* It hands out no draft and revives none. *)
DraftsOnlyGo ==
  \A d \in Drafts: /\ draft'[d].of = draft[d].of
                   /\ draft'[d].live => draft[d].live

(* A process on its way out keeps what it knows and saves part of it: the  *)
(* journal of a run, its records, or the records an undo restored.         *)
Settles == FinishJournal \/ CloseDay \/ FinishUndo

LEMMA SettlesKeeps ==
  ASSUME TypeOK, Settles
  PROVE  /\ UNCHANGED <<draft, labels, undone, log, backfill, kind, group, smem,
                        jmem, plan, pc, cancel, runs>>
         /\ state' \in {state, smem}
         /\ proc' \in {"closing", "reporting", "marking"}
         /\ \/ UNCHANGED journal
            \/ proc = "writing" /\ journal' = [journal EXCEPT ![group] = jmem]
BY DEF Settles, FinishJournal, CloseDay, FinishUndo, CompleteJournal, Saved, gmail, book

LEMMA SettlesPositions ==
  ASSUME Phases, Settles, NEW m \in Messages
  PROVE  /\ pc[m] \notin Busy \cup Waiting \cup {"entry"}
         /\ pc[m] \in {"restored", "kept"} => proc' = "marking"
BY DEF Settles, FinishJournal, CloseDay, FinishUndo, Phases, Settled, Busy, InThread, Waiting

(* A process that ends leaves the records as they are saved.               *)
Leaves == ReportRun \/ FinishCancelled \/ MarkUndone

LEMMA LeavesKeeps ==
  ASSUME Leaves
  PROVE  /\ Release(state) /\ UNCHANGED <<draft, labels, state, log, runs, exposed>>
         /\ backfill' \in {backfill, NoBackfill}
         /\ \/ UNCHANGED journal
            \/ proc = "writing" /\ journal' = [journal EXCEPT ![group] = jmem]
         /\ \/ UNCHANGED undone
            \/ proc = "marking" /\ UNCHANGED backfill /\ undone' = undone \cup {group}
         /\ proc # "undoing"
         /\ \A m \in Messages: proc # "writing" \/ pc[m] \notin Busy
BY DEF Leaves, ReportRun, FinishCancelled, MarkUndone, CompleteJournal, gmail, book,
       Settled, Busy, InThread

LEMMA EndCases == RunEnd \/ Undo => Settles \/ Leaves \/ \E m \in Messages: UndoEntry(m)
BY DEF RunEnd, Undo, Settles, Leaves

LEMMA ReleaseIds ==
  ASSUME NEW s, Release(s)
  PROVE  /\ smem' = s
         /\ \A m \in Messages: /\ plan'[m].draft = NoDraft
                              /\ jmem'[m].draft = NoDraft
BY DEF Release, NoPlan, EmptyJournal, NoEntry

LEMMA UndoEntryMarks ==
  ASSUME TypeOK, NEW m \in Messages, UndoEntry(m)
  PROVE  /\ \A k \in Messages: jmem'[k].draft = jmem[k].draft
         /\ \A k \in Messages \ {m}: jmem'[k] = jmem[k]
         /\ journal' = [journal EXCEPT ![group] = jmem']
<1>1. DraftPending(m) \in BOOLEAN /\ LabelsPending(m) \in BOOLEAN
  BY DEF DraftPending, LabelsPending
<1>2. \E x, y \in BOOLEAN:
        jmem' = [jmem EXCEPT ![m].draftUndone = @ \/ (DraftPending(m) /\ x),
                             ![m].labelsUndone = @ \/ (LabelsPending(m) /\ y)]
  BY DEF UndoEntry, UndoCalls
<1>3. \A k \in Messages: jmem'[k].draft = jmem[k].draft
  BY <1>1, <1>2 DEF TypeOK, Entry
<1>4. \A k \in Messages \ {m}: jmem'[k] = jmem[k]
  BY <1>1, <1>2 DEF TypeOK, Entry
<1> QED
  BY <1>3, <1>4 DEF UndoEntry, UndoCalls

LEMMA OuterIds ==
  ASSUME TypeOK, Outer
  PROVE  IdsKept
<1>1. ASSUME NEW k \in Kinds, NEW scan \in ScanOf(k), StartRun(k, scan)
      PROVE  IdsKept
  <2>1. \A m \in Messages: plan'[m].draft = NoDraft
    <3>1. Select(scan)
      BY <1>1 DEF StartRun
    <3> QED
      BY <3>1, SelectTyped
  <2>2. \/ jmem' = EmptyJournal
        \/ \E g \in Groups: jmem' = journal[g]
    <3>1. \/ jmem' = EmptyJournal
          \/ backfill # NoBackfill /\ jmem' = journal[backfill.group]
      BY <1>1 DEF StartRun, BeginGroup
    <3>2. backfill # NoBackfill => backfill.group \in Groups
      BY DEF TypeOK, Backfill
    <3> QED
      BY <3>1, <3>2
  <2>3. UNCHANGED <<state, journal>> /\ smem' = state
    BY <1>1 DEF StartRun
  <2> QED
    BY <2>1, <2>2, <2>3 DEF IdsKept, EmptyJournal, NoEntry
<1>2. CASE Refresh
  <2>1. \A m \in Messages: plan'[m].draft = plan[m].draft
    BY <1>2 DEF Refresh, TypeOK, Plan
  <2> QED
    BY <1>2, <2>1 DEF Refresh, IdsKept, files
<1>3. CASE Settles
  <2>1. \A g \in Groups: journal'[g] \in {journal[g], jmem}
    BY <1>3, SettlesKeeps DEF TypeOK
  <2> QED
    BY <1>3, <2>1, SettlesKeeps DEF IdsKept
<1>4. ASSUME NEW g \in Groups, StartUndo(g)
      PROVE  IdsKept
  BY <1>4 DEF StartUndo, IdsKept, files
<1>5. ASSUME NEW m \in Messages, UndoEntry(m)
      PROVE  IdsKept
  <2>1. \A g \in Groups: journal'[g] \in {journal[g], jmem'}
    BY <1>5, UndoEntryMarks DEF TypeOK
  <2>2. \A k \in Messages: smem'[k] \in {smem[k], NoRecord}
    BY <1>5 DEF UndoEntry, UndoCalls, TypeOK
  <2>3. UNCHANGED <<state, plan>>
    BY <1>5 DEF UndoEntry, UndoCalls
  <2> QED
    BY <1>5, <2>1, <2>2, <2>3, UndoEntryMarks DEF IdsKept, NoRecord
<1>6. CASE Leaves
  <2>1. \A g \in Groups: journal'[g] \in {journal[g], jmem}
    BY <1>6, LeavesKeeps DEF TypeOK
  <2> QED
    BY <1>6, <2>1, LeavesKeeps, ReleaseIds DEF IdsKept
<1>7. CASE RequestCancel \/ NewDay \/ UNCHANGED vars
  BY <1>7 DEF RequestCancel, NewDay, IdsKept, vars, files, process
<1>8. CASE Crash
  BY <1>8, ReleaseIds DEF Crash, IdsKept, files
<1>9. ASSUME NEW d \in Drafts, OwnerRemovesDraft(d)
      PROVE  IdsKept
  BY <1>9 DEF OwnerRemovesDraft, IdsKept, files, process
<1> QED
  BY <1>1, <1>2, <1>3, <1>4, <1>5, <1>6, <1>7, <1>8, <1>9, EndCases DEF Outer

LEMMA OuterDrafts ==
  ASSUME TypeOK, Outer
  PROVE  DraftsOnlyGo
<1>1. ASSUME NEW m \in Messages, UndoEntry(m)
      PROVE  DraftsOnlyGo
  <2>1. \/ UNCHANGED draft
        \/ draft' = [draft EXCEPT ![jmem[m].draft].live = FALSE]
    BY <1>1 DEF UndoEntry, UndoCalls
  <2>2. draft \in [Drafts -> DraftState]
    BY DEF TypeOK
  <2>3. CASE UNCHANGED draft
    BY <2>3 DEF DraftsOnlyGo
  <2>4. CASE draft' = [draft EXCEPT ![jmem[m].draft].live = FALSE]
    BY <2>2, <2>4 DEF DraftsOnlyGo, DraftState
  <2> QED
    BY <2>1, <2>3, <2>4
<1>2. ASSUME NEW e \in Drafts, OwnerRemovesDraft(e)
      PROVE  DraftsOnlyGo
  <2>1. draft' = [draft EXCEPT ![e].live = FALSE]
    BY <1>2 DEF OwnerRemovesDraft
  <2> QED
    BY <2>1 DEF DraftsOnlyGo, TypeOK, DraftState
<1>3. UNCHANGED draft => DraftsOnlyGo
  BY DEF DraftsOnlyGo
<1>4. Settles \/ Leaves => UNCHANGED draft
  BY SettlesKeeps, LeavesKeeps
<1> QED
  BY <1>1, <1>2, <1>3, <1>4, EndCases
     DEF Outer, StartRun, Refresh, StartUndo, RequestCancel, Crash, NewDay, vars, gmail

(* A draft id that a record of m names keeps its message, and a draft that *)
(* is gone stays gone: Gmail never hands an id out twice.                  *)
LEMMA NamesKept ==
  ASSUME TypeOK,
         DraftsOnlyGo \/ UNCHANGED draft
           \/ \E k \in Messages, e \in Drafts: NewDraft(k, e),
         NEW m \in Messages, NEW d \in MaybeDraft, Names(d, m)
  PROVE  /\ d # NoDraft => draft'[d].of \in Messages /\ draft'[d].of <= m
         /\ d # NoDraft /\ draft'[d].live => Live(d)
<1>1. ASSUME NEW k \in Messages, NEW e \in Drafts, NewDraft(k, e), d # NoDraft
      PROVE  draft'[d] = draft[d]
  <2>1. d # e
    BY <1>1, MessagesAssumption DEF NewDraft, Names, NoOne
  <2> QED
    BY <1>1, <2>1 DEF NewDraft, TypeOK, MaybeDraft
<1>2. ASSUME DraftsOnlyGo, d # NoDraft
      PROVE  draft'[d].of = draft[d].of /\ (draft'[d].live => draft[d].live)
  BY <1>2 DEF DraftsOnlyGo, MaybeDraft
<1> QED
  BY <1>1, <1>2 DEF Names, Live

------------------------------------------------------------------------------
(* IInv, part by part *)

LEMMA UndoableInit == Init => Undoable
<1> SUFFICES ASSUME Init, NEW m \in Messages
             PROVE  Secured(m)
  BY DEF Undoable
<1>1. /\ state[m].draft = LegacyDraft /\ smem[m].draft = LegacyDraft
      /\ plan[m].draft = NoDraft /\ pc[m] = "none" /\ proc = "idle"
  BY DEF Init, NoRecord, LegacyRecord, NoPlan
<1> QED
  BY <1>1 DEF Secured, Waiting, Window, Needed, Kept, Dead

LEMMA SettlingInit == Init => Settling
<1> SUFFICES ASSUME Init PROVE Settling
  OBVIOUS
<1>1. PICK owner \in Messages:
        draft = [d \in Drafts |->
                   IF d = LegacyDraft THEN [of |-> owner, live |-> TRUE]
                   ELSE [of |-> NoOne, live |-> FALSE]]
  BY DEF Init
<1>2. LegacyDraft # NoDraft => draft[LegacyDraft].of # NoOne
  BY <1>1, DraftsAssumption, MessagesAssumption DEF NoOne
<1>3. smem = state /\ proc = "idle" /\ \A m \in Messages: pc[m] = "none"
  BY DEF Init
<1> QED
  BY <1>2, <1>3 DEF Settling, Inherited, ReadInOrder, Grounded, Waiting, Window

LEMMA InvInit == Init => IInv
<1> SUFFICES ASSUME Init PROVE IInv
  OBVIOUS
<1>1. Phases /\ Undoing
  BY DEF Init, Phases, Busy, InThread, Undoing
<1>2. \A m \in Messages: /\ state[m].draft = LegacyDraft /\ smem[m].draft = LegacyDraft
                         /\ plan[m].draft = NoDraft /\ jmem[m].draft = NoDraft
  BY DEF Init, NoRecord, LegacyRecord, NoPlan, EmptyJournal, NoEntry
<1>3. \A g \in Groups, m \in Messages: /\ journal[g][m].draft = NoDraft
                                       /\ ~journal[g][m].draftUndone
                                       /\ ~jmem[m].draftUndone
  BY DEF Init, EmptyJournal, NoEntry
<1>4. PICK owner \in Messages:
        /\ \A m \in Messages: owner <= m
        /\ draft = [d \in Drafts |->
                      IF d = LegacyDraft THEN [of |-> owner, live |-> TRUE]
                      ELSE [of |-> NoOne, live |-> FALSE]]
  BY DEF Init
<1>5. NamedDrafts
  <2>1. \A m \in Messages: Names(LegacyDraft, m) /\ Names(NoDraft, m)
    BY <1>4, DraftsAssumption DEF Names
  <2> QED
    BY <1>2, <1>3, <2>1 DEF NamedDrafts
<1>6. Accounted
  <2>1. \A m \in Messages: OnlyLive(m, LegacyDraft)
    BY <1>4 DEF OnlyLive, LiveDrafts
  <2>2. \A m \in Messages: pc[m] = "none"
    BY DEF Init
  <2> QED
    BY <1>2, <2>1, <2>2 DEF Accounted, Window, Waiting
<1>7. Progress
  <2>1. /\ group = 0 /\ runs = 0 /\ backfill.group = 0 /\ backfill = NoBackfill
        /\ proc = "idle" /\ jmem = EmptyJournal /\ undone = {}
        /\ \A g \in Groups: journal[g] = EmptyJournal
    BY DEF Init, NoBackfill
  <2> QED
    <3>1. \A m \in Messages: ~jmem[m].draftUndone
      BY <2>1 DEF EmptyJournal, NoEntry
    <3>2. \A g \in Groups: \A m \in Messages: ~journal[g][m].draftUndone
      BY <1>3
    <3>3. group <= runs /\ backfill.group <= runs
      BY <2>1
    <3> QED
      BY <2>1, <3>1, <3>2, <3>3, Zenon DEF Progress
<1>8. UndoneDraftsGone
  BY DEF Init, UndoneDraftsGone
<1> QED
  BY <1>1, <1>5, <1>6, <1>7, <1>8, UndoableInit, SettlingInit DEF IInv

(* The drafts of a step, for NamesKept *)
DraftStep ==
  DraftsOnlyGo \/ UNCHANGED draft
    \/ \E k \in Messages, e \in Drafts: NewDraft(k, e)

LEMMA StepDrafts == TypeOK /\ [Next]_vars => DraftStep
<1> SUFFICES ASSUME TypeOK, [Next]_vars PROVE DraftStep
  OBVIOUS
<1>1. CASE Outer
  BY <1>1, OuterDrafts DEF DraftStep
<1>2. ASSUME NEW m \in Messages, Worker(m)
      PROVE  DraftStep
  <2>1. RestKept(m)
    BY <1>2, WorkerRest
  <2> QED
    BY <2>1 DEF DraftStep, RestKept
<1> QED
  BY <1>1, <1>2, StepCases

(* The ids of every record, plan and entry are typed. *)
LEMMA IdsTyped ==
  ASSUME TypeOK
  PROVE  /\ \A m \in Messages: /\ state[m].draft \in MaybeDraft
                              /\ smem[m].draft \in MaybeDraft
                              /\ plan[m].draft \in MaybeDraft
                              /\ jmem[m].draft \in MaybeDraft
         /\ \A g \in Groups, m \in Messages: journal[g][m].draft \in MaybeDraft
BY DEF TypeOK, Record, Plan, Entry

LEMMA NamedStep ==
  ASSUME TypeOK, IInv, [Next]_vars
  PROVE  NamedDrafts'
<1> DEFINE Still(d, m) ==
             d # NoDraft => draft'[d].of \in Messages /\ draft'[d].of <= m
<1>1. \A m \in Messages, d \in MaybeDraft: Names(d, m) => Still(d, m)
  BY StepDrafts, NamesKept DEF DraftStep
<1>2. \A m \in Messages: /\ Still(state[m].draft, m) /\ Still(smem[m].draft, m)
                         /\ Still(plan[m].draft, m) /\ Still(jmem[m].draft, m)
  BY <1>1, IdsTyped DEF IInv, NamedDrafts
<1>3. \A g \in Groups, m \in Messages: Still(journal[g][m].draft, m)
  BY <1>1, IdsTyped DEF IInv, NamedDrafts
<1>4. \A m \in Messages: Still(NoDraft, m)
  OBVIOUS
<1>5. CASE Outer
  <2>1. IdsKept
    BY <1>5, OuterIds
  <2>2. \A m \in Messages: /\ Still(state'[m].draft, m) /\ Still(smem'[m].draft, m)
                           /\ Still(plan'[m].draft, m) /\ Still(jmem'[m].draft, m)
    <3> SUFFICES ASSUME NEW m \in Messages
                 PROVE  /\ Still(state'[m].draft, m) /\ Still(smem'[m].draft, m)
                        /\ Still(plan'[m].draft, m) /\ Still(jmem'[m].draft, m)
      OBVIOUS
    <3> HIDE DEF Still
    <3>1. /\ Still(state'[m].draft, m) /\ Still(smem'[m].draft, m)
          /\ Still(plan'[m].draft, m)
      BY <1>2, <1>4, <2>1 DEF IdsKept
    <3>2. Still(jmem'[m].draft, m)
      BY <1>2, <1>3, <1>4, <2>1 DEF IdsKept
    <3> QED
      BY <3>1, <3>2
  <2>3. \A g \in Groups, m \in Messages: Still(journal'[g][m].draft, m)
    <3> HIDE DEF Still
    <3> QED
      BY <1>2, <1>3, <2>1 DEF IdsKept
  <2> QED
    BY <2>2, <2>3 DEF NamedDrafts, Names
<1>6. ASSUME NEW m \in Messages, Worker(m)
      PROVE  NamedDrafts'
  <2>1. OthersKept(m) /\ OwnDrafts(m) /\ RestKept(m)
    BY <1>6, WorkerOthers, WorkerOwn, WorkerRest
  <2>2. \A d \in Drafts: NewDraft(m, d) => Still(d, m)
    BY MessagesAssumption DEF NewDraft, TypeOK
  <2>3. \A k \in Messages: /\ Still(state'[k].draft, k) /\ Still(smem'[k].draft, k)
                           /\ Still(plan'[k].draft, k) /\ Still(jmem'[k].draft, k)
    <3> HIDE DEF Still
    <3>1. ASSUME NEW k \in Messages \ {m}
          PROVE  /\ Still(state'[k].draft, k) /\ Still(smem'[k].draft, k)
                 /\ Still(plan'[k].draft, k) /\ Still(jmem'[k].draft, k)
      BY <1>2, <2>1 DEF OthersKept
    <3>2. /\ Still(state'[m].draft, m) /\ Still(smem'[m].draft, m)
          /\ Still(plan'[m].draft, m) /\ Still(jmem'[m].draft, m)
      BY <1>2, <2>1, <2>2 DEF OwnDrafts
    <3> QED
      BY <3>1, <3>2
  <2>4. \A g \in Groups: journal'[g] \in {journal[g], jmem'}
    BY <2>1 DEF RestKept, TypeOK
  <2>5. \A g \in Groups, k \in Messages: Still(journal'[g][k].draft, k)
    <3> HIDE DEF Still
    <3> QED
      BY <1>3, <2>3, <2>4
  <2> QED
    BY <2>3, <2>5 DEF NamedDrafts, Names
<1> QED
  BY <1>5, <1>6, StepCases

LEMMA PhasesStep ==
  ASSUME TypeOK, IInv, [Next]_vars
  PROVE  Phases'
<1> USE DEF Phases
<1>0. Phases
  BY DEF IInv
<1>1. ASSUME NEW m \in Messages, Worker(m)
      PROVE  Phases'
  <2>1. OthersKept(m) /\ RestKept(m)
    BY <1>1, WorkerOthers, WorkerRest
  <2>2. proc = "writing" /\ proc' = proc
    BY <1>0, <2>1 DEF RestKept
  <2>3. pc'[m] \in Busy \cup Settled
    BY <2>1 DEF RestKept
  <2>4. \A k \in Messages \ {m}: pc'[k] = pc[k]
    BY <2>1 DEF OthersKept
  <2> QED
    BY <1>0, <2>2, <2>3, <2>4 DEF Busy, InThread, Settled
<1>2. CASE Outer
  <2>1. ASSUME NEW k \in Kinds, NEW scan \in ScanOf(k), StartRun(k, scan)
        PROVE  Phases'
    <3>1. pc' \in [Messages -> {"planned", "deferred", "failed", "skipped", "none"}]
      BY <2>1, SelectTyped DEF StartRun
    <3> QED
      BY <2>1, <3>1 DEF StartRun, Busy, InThread
  <2>2. CASE Refresh
    BY <1>0, <2>2 DEF Refresh, Busy, InThread
  <2>3. CASE Leaves \/ Crash
    <3>1. \A m \in Messages: pc'[m] = "none"
      BY <2>3, LeavesKeeps DEF Crash, Release
    <3> QED
      BY <3>1 DEF Busy, InThread
  <2>7. CASE Settles
    <3>1. pc' = pc
      BY <2>7, SettlesKeeps
    <3>2. \A m \in Messages: /\ pc[m] \notin Busy \cup Waiting \cup {"entry"}
                             /\ pc[m] \in {"restored", "kept"} => proc' = "marking"
      BY <1>0, <2>7, SettlesPositions
    <3> QED
      BY <3>1, <3>2 DEF Waiting
  <2>4. ASSUME NEW g \in Groups, StartUndo(g)
        PROVE  Phases'
    BY <2>4 DEF StartUndo, Busy, InThread
  <2>5. ASSUME NEW m \in Messages, UndoEntry(m)
        PROVE  Phases'
    <3>1. proc = "undoing" /\ proc' = proc
      BY <2>5 DEF UndoEntry, UndoCalls
    <3>2. pc' = [pc EXCEPT ![m] = "restored"] \/ pc' = [pc EXCEPT ![m] = "kept"]
      BY <2>5 DEF UndoEntry, UndoCalls, Move
    <3> QED
      BY <1>0, <3>1, <3>2 DEF TypeOK, Busy, InThread
  <2>6. CASE RequestCancel \/ NewDay \/ UNCHANGED vars
             \/ \E d \in Drafts: OwnerRemovesDraft(d)
    <3>1. UNCHANGED <<pc, proc>>
      BY <2>6 DEF RequestCancel, NewDay, OwnerRemovesDraft, vars, process
    <3> QED
      BY <1>0, <3>1
  <2> QED
    BY <1>2, <2>1, <2>2, <2>3, <2>4, <2>5, <2>6, <2>7, EndCases DEF Outer
<1> QED
  BY <1>1, <1>2, StepCases

(* A live draft of m is one of its records, so a record that is gone, or   *)
(* one shared with an earlier message, leaves m without a draft.           *)
LEMMA GoneOrShared ==
  ASSUME TypeOK, NEW s \in [Messages -> Record], NEW m \in Messages,
         \A k \in Messages: Names(s[k].draft, k),
         OnlyLive(m, s[m].draft), MissingOrShared(s, m)
  PROVE  LiveDrafts(m) = {}
<1>1. CASE ~Live(s[m].draft)
  BY <1>1 DEF OnlyLive, LiveDrafts, Live, MissingOrShared
<1>2. CASE Shared(s, m)
  <2>1. PICK k \in Messages: k < m /\ s[k].draft = s[m].draft
    BY <1>2 DEF Shared
  <2>2. draft[s[m].draft].of \in Messages /\ draft[s[m].draft].of <= k
    BY <1>2, <2>1 DEF Names, Shared
  <2>3. draft[s[m].draft].of # m
    BY <2>1, <2>2, MessagesAssumption
  <2> QED
    BY <2>3 DEF OnlyLive, LiveDrafts
<1> QED
  BY <1>1, <1>2 DEF MissingOrShared

LEMMA NothingRecorded ==
  ASSUME NEW m \in Messages, OnlyLive(m, NoDraft)
  PROVE  LiveDrafts(m) = {}
BY DraftsAssumption DEF OnlyLive, LiveDrafts

(* Outside the workers the live drafts of a message only decrease.         *)
LEMMA OuterLive ==
  ASSUME TypeOK, Outer
  PROVE  \A m \in Messages: LiveDrafts(m)' \subseteq LiveDrafts(m)
BY OuterDrafts DEF DraftsOnlyGo, LiveDrafts

LEMMA AccountedOuter ==
  ASSUME TypeOK, IInv, Outer
  PROVE  Accounted'
<1> USE DEF OnlyLive
<1>0. /\ Accounted /\ Phases /\ NamedDrafts
      /\ \A m \in Messages: LiveDrafts(m)' \subseteq LiveDrafts(m)
  BY OuterLive DEF IInv
<1>1. ASSUME proc # "writing"
      PROVE  \A m \in Messages: pc[m] \notin Window
  BY <1>0, <1>1 DEF Phases, Window, Busy, InThread
(* The process ends, or a new one starts, from the saved records. *)
<1>2. ASSUME \A m \in Messages \ exposed':
               /\ m \notin exposed
               /\ OnlyLive(m, state'[m].draft)
               /\ smem'[m].draft = state'[m].draft
               /\ pc'[m] \in {"none", "entry", "restored", "kept"}
      PROVE  Accounted'
  BY <1>0, <1>2 DEF Accounted, Window, Waiting
<1>3. ASSUME NEW k \in Kinds, NEW scan \in ScanOf(k), StartRun(k, scan)
      PROVE  Accounted'
  <2>1. \A m \in Messages:
          /\ plan'[m].draft = NoDraft
          /\ plan'[m].replace => MissingOrShared(state, m)
          /\ pc'[m] \in {"planned", "deferred", "failed", "skipped", "none"}
    BY <1>3, SelectTyped DEF StartRun
  <2>2. /\ proc = "idle" /\ proc' = "selected" /\ UNCHANGED <<draft, state, exposed>>
        /\ smem' = state
    BY <1>3 DEF StartRun, gmail
  <2>3. \A m \in Messages \ exposed: OnlyLive(m, state[m].draft)
    BY <1>0, <1>1, <2>2 DEF Accounted
  <2>4. \A m \in Messages \ exposed: MissingOrShared(state, m) => LiveDrafts(m) = {}
    BY <1>0, <2>3, GoneOrShared DEF TypeOK, NamedDrafts
  <2>5. \A m \in Messages: LiveDrafts(m)' = LiveDrafts(m)
    BY <2>2 DEF LiveDrafts
  <2> QED
    BY <2>1, <2>2, <2>3, <2>4, <2>5 DEF Accounted, Window, Waiting
<1>4. CASE Refresh
  <2>1. /\ proc = "selected" /\ proc' = "writing"
        /\ UNCHANGED <<draft, state, smem, exposed>>
    BY <1>4 DEF Refresh, gmail, files, book
  <2>2. \A m \in Messages:
          /\ plan'[m].draft = plan[m].draft
          /\ plan'[m].replace => plan[m].replace \/ MissingOrShared(smem, m)
    <3>1. \A m \in Messages: \/ plan'[m] = plan[m]
                            \/ /\ MissingOrShared(smem, m)
                               /\ plan'[m] = [plan[m] EXCEPT !.replace = TRUE]
      BY <1>4 DEF Refresh
    <3>2. \A m \in Messages: [plan[m] EXCEPT !.replace = TRUE].draft = plan[m].draft
      BY DEF TypeOK, Plan
    <3> QED
      BY <3>1, <3>2
  <2>3. \A m \in Messages:
          \/ pc'[m] = pc[m] /\ pc[m] # "planned"
          \/ pc[m] = "planned" /\ pc'[m] = "queued"
    BY <1>4 DEF Refresh
  <2>4. \A m \in Messages \ exposed:
          OnlyLive(m, state[m].draft) /\ OnlyLive(m, smem[m].draft)
    BY <1>0, <1>1, <2>1 DEF Accounted
  <2>5. \A m \in Messages \ exposed: MissingOrShared(smem, m) => LiveDrafts(m) = {}
    BY <1>0, <2>4, GoneOrShared DEF TypeOK, NamedDrafts
  <2>6. \A m \in Messages: LiveDrafts(m)' = LiveDrafts(m)
    BY <2>1 DEF LiveDrafts
  <2>7. \A m \in Messages: pc[m] \notin Busy
    BY <1>0, <2>1 DEF Phases
  <2> QED
    BY <1>0, <2>1, <2>2, <2>3, <2>4, <2>5, <2>6, <2>7
       DEF Accounted, Window, Waiting, Busy, InThread
<1>5. CASE Leaves
  <2>1. Release(state) /\ UNCHANGED <<state, exposed>>
    BY <1>5, LeavesKeeps
  <2>2. \A m \in Messages: pc[m] \notin Window
    BY <1>1, <1>5, LeavesKeeps DEF Window, Busy, InThread
  <2> QED
    BY <1>0, <1>2, <2>1, <2>2 DEF Release, Accounted
<1>11. CASE FinishJournal \/ CloseDay
  <2>1. /\ UNCHANGED <<draft, plan, pc, smem, exposed>> /\ state' \in {state, smem}
        /\ proc # "undoing"
    BY <1>11, SettlesKeeps DEF Settles, FinishJournal, CloseDay, book
  <2>2. \A m \in Messages: pc[m] \notin Window
    BY <1>0, <1>11, SettlesPositions DEF Settles, Window, Busy, InThread
  <2>3. \A m \in Messages: LiveDrafts(m)' = LiveDrafts(m)
    BY <2>1 DEF LiveDrafts
  <2> QED
    BY <1>0, <2>1, <2>2, <2>3 DEF Accounted
<1>6. ASSUME NEW g \in Groups, StartUndo(g)
      PROVE  Accounted'
  <2>1. /\ proc = "idle" /\ UNCHANGED <<draft, state, exposed>> /\ smem' = state
        /\ \A m \in Messages: pc'[m] \in {"none", "entry"}
    BY <1>6 DEF StartUndo, gmail, files, book
  <2> QED
    BY <1>0, <1>1, <1>2, <2>1 DEF Accounted
<1>7. ASSUME NEW m \in Messages, UndoEntry(m)
      PROVE  Accounted'
  <2>1. proc = "undoing" /\ proc' = proc /\ UNCHANGED <<state, exposed, plan>>
    BY <1>7 DEF UndoEntry, UndoCalls
  <2>2. \A k \in Messages: pc'[k] \in {pc[k], "restored", "kept"}
    BY <1>7 DEF UndoEntry, UndoCalls, Move, TypeOK
  <2>3. \A k \in Messages: pc[k] \notin Window
    BY <1>1, <2>1
  <2> QED
    BY <1>0, <2>1, <2>2, <2>3 DEF Accounted, Window, Waiting
<1>8. CASE FinishUndo
  <2>1. /\ proc = "undoing" /\ UNCHANGED <<draft, smem, pc>> /\ state' = smem
        /\ \A m \in Messages: pc[m] # "entry"
        /\ exposed' = exposed \cup {m \in Messages: /\ Live(state[m].draft)
                                                   /\ smem[m].draft = NoDraft
                                                   /\ jmem[m].draft = NoDraft}
    BY <1>8 DEF FinishUndo, gmail
  <2>2. ASSUME NEW m \in Messages \ exposed'
        PROVE  OnlyLive(m, smem[m].draft)
    <3>1. m \notin exposed /\ OnlyLive(m, state[m].draft)
      BY <1>0, <1>1, <2>1, <2>2 DEF Accounted
    <3>2. CASE smem[m].draft = state[m].draft
      BY <3>1, <3>2
    <3>3. CASE smem[m].draft = NoDraft /\ LiveDrafts(m) = {}
      BY <3>3
    <3>4. CASE smem[m].draft = NoDraft /\ jmem[m].draft = NoDraft
      <4>1. ~Live(state[m].draft)
        BY <2>1, <2>2, <3>4
      <4> QED
        BY <3>1, <4>1, DraftsAssumption DEF Live, LiveDrafts
    <3> QED
      BY <2>1, <3>1, <3>2, <3>3, <3>4 DEF IInv, Undoing
  <2>3. \A m \in Messages: pc[m] \in {"none", "entry", "restored", "kept"}
    BY <2>1 DEF IInv, Undoing
  <2> QED
    BY <1>2, <2>1, <2>2, <2>3
<1>9. CASE Crash
  <2>1. /\ Release(state) /\ UNCHANGED <<draft, state>>
        /\ exposed' = exposed \cup {m \in Messages: pc[m] \in Window}
    BY <1>9 DEF Crash, gmail, files
  <2> QED
    BY <1>0, <1>2, <2>1 DEF Release, Accounted
<1>10. CASE RequestCancel \/ NewDay \/ UNCHANGED vars
             \/ \E d \in Drafts: OwnerRemovesDraft(d)
  <2>1. UNCHANGED <<state, proc, smem, plan, pc, exposed>>
    BY <1>10 DEF RequestCancel, NewDay, OwnerRemovesDraft, vars, process, files, book
  <2> QED
    BY <1>0, <2>1 DEF Accounted
<1> QED
  BY <1>3, <1>4, <1>5, <1>6, <1>7, <1>8, <1>9, <1>10, <1>11, EndCases DEF Outer, Settles

(* What accounts for m itself after each step of its worker *)
LEMMA AccountedOwn ==
  ASSUME TypeOK, IInv, NEW m \in Messages, Worker(m), m \notin exposed'
  PROVE  /\ pc'[m] \notin Window =>
              OnlyLive(m, state[m].draft)' /\ OnlyLive(m, smem[m].draft)'
         /\ pc'[m] \in Window => OnlyLive(m, plan[m].draft)'
         /\ pc'[m] \in Waiting \cup {"waiting"} =>
              /\ plan'[m].draft = NoDraft
              /\ plan'[m].replace => LiveDrafts(m)' = {}
         /\ pc'[m] = "create" => LiveDrafts(m)' = {}
         /\ pc'[m] \in {"label", "labelled", "complete"} /\ plan'[m].draft # NoDraft
              => OnlyLive(m, plan[m].draft)'
<1>0. m \notin exposed /\ proc = "writing"
  BY WorkerRest DEF RestKept, IInv, Phases
<1>a. /\ pc[m] \notin Window => OnlyLive(m, state[m].draft) /\ OnlyLive(m, smem[m].draft)
      /\ pc[m] \in Window => OnlyLive(m, plan[m].draft)
      /\ pc[m] \in Waiting \cup {"waiting"} =>
           /\ plan[m].draft = NoDraft
           /\ plan[m].replace => LiveDrafts(m) = {}
      /\ pc[m] = "create" => LiveDrafts(m) = {}
      /\ pc[m] \in {"label", "labelled", "complete"} /\ plan[m].draft # NoDraft
           => OnlyLive(m, plan[m].draft)
  BY <1>0 DEF IInv, Accounted
<1>b. UNCHANGED draft => LiveDrafts(m)' = LiveDrafts(m)
  BY DEF LiveDrafts
<1> USE DEF Move, TypeOK, Window, Waiting, OnlyLive
<1>1. CASE Begin(m)
  BY <1>1, <1>a, <1>b DEF Begin, gmail, files
<1>2. CASE Enter(m)
  <2>1. /\ pc[m] = "waiting" /\ UNCHANGED <<draft, state, smem>>
        /\ \/ pc'[m] = "label" /\ plan' = plan
           \/ pc'[m] = "label" /\ plan'[m].draft = smem[m].draft
           \/ /\ pc'[m] = "create" /\ plan' = plan
              /\ smem[m].draft = NoDraft \/ plan[m].replace
    BY <1>2 DEF Enter, gmail, files, Plan
  <2>2. smem[m].draft = NoDraft => LiveDrafts(m) = {}
    BY <1>a, <2>1, NothingRecorded
  <2> QED
    BY <1>a, <1>b, <2>1, <2>2
<1>3. CASE CreateDraft(m)
  <2>1. PICK d \in Drafts: NewDraft(m, d) /\ plan' = [plan EXCEPT ![m].draft = d]
    BY <1>3 DEF CreateDraft
  <2>2. LiveDrafts(m) = {}
    BY <1>3, <1>a DEF CreateDraft
  <2>3. LiveDrafts(m)' \subseteq {d}
    BY <2>1, <2>2 DEF NewDraft, LiveDrafts
  <2>4. plan'[m].draft = d /\ pc'[m] = "created"
    BY <1>3, <2>1 DEF CreateDraft, Plan
  <2> QED
    BY <2>3, <2>4
<1>4. CASE CreateFails(m)
  <2>1. pc[m] = "create" /\ pc'[m] = "label" /\ UNCHANGED <<draft, state, smem>>
    BY <1>4 DEF CreateFails, gmail, files
  <2> QED
    BY <1>a, <1>b, <2>1
<1>5. CASE CreateAnswerLost(m)
  BY <1>5 DEF CreateAnswerLost
<1>6. CASE LogDraft(m)
  BY <1>6, <1>a, <1>b DEF LogDraft, gmail
<1>7. CASE JournalDraft(m)
  BY <1>7, <1>a, <1>b DEF JournalDraft, gmail
<1>8. CASE RecordDraft(m)
  <2>1. /\ pc[m] = "journaled" /\ pc'[m] = "label" /\ UNCHANGED <<draft, plan>>
        /\ smem'[m].draft = plan[m].draft /\ state' = smem'
    BY <1>8 DEF RecordDraft, DraftRecord, gmail
  <2> QED
    BY <1>a, <1>b, <2>1
<1>9. CASE PersistFails(m)
  BY <1>9 DEF PersistFails
<1>10. CASE ApplyLabels(m)
  BY <1>10, <1>a, <1>b DEF ApplyLabels, files
<1>11. CASE LabelsFail(m)
  BY <1>11, <1>a, <1>b DEF LabelsFail, files
<1>12. CASE JournalLabels(m)
  BY <1>12, <1>a, <1>b DEF JournalLabels, gmail
<1>13. CASE Complete(m)
  <2>1. /\ pc[m] = "complete" /\ pc'[m] \in {"done", "failed"}
        /\ UNCHANGED <<draft, plan>>
        /\ smem'[m].draft = plan[m].draft
        /\ state'[m].draft \in {state[m].draft, plan[m].draft}
        /\ Live(smem[m].draft) => plan[m].draft # NoDraft
    BY <1>13 DEF Complete, gmail
  <2>2. OnlyLive(m, plan[m].draft)
    <3>1. CASE plan[m].draft # NoDraft
      BY <1>a, <2>1, <3>1
    <3>2. CASE ~Live(smem[m].draft)
      <4>1. LiveDrafts(m) = {}
        BY <1>a, <2>1, <3>2, DraftsAssumption DEF Live, LiveDrafts
      <4> QED
        BY <4>1
    <3> QED
      BY <2>1, <3>1, <3>2
  <2> QED
    BY <1>a, <1>b, <2>1, <2>2
<1> QED
  BY <1>1, <1>2, <1>3, <1>4, <1>5, <1>6, <1>7, <1>8, <1>9, <1>10, <1>11,
     <1>12, <1>13 DEF Worker

LEMMA AccountedWorker ==
  ASSUME TypeOK, IInv, NEW m \in Messages, Worker(m)
  PROVE  Accounted'
<1>1. OthersKept(m) /\ RestKept(m)
  BY WorkerOthers, WorkerRest
<1>2. proc = "writing" /\ proc' = proc /\ Accounted
  BY <1>1 DEF RestKept, IInv, Phases
<1>3. ASSUME NEW k \in Messages \ {m}
      PROVE  LiveDrafts(k)' = LiveDrafts(k)
  <2>1. CASE UNCHANGED draft
    BY <2>1 DEF LiveDrafts
  <2>2. ASSUME NEW d \in Drafts, NewDraft(m, d)
        PROVE  LiveDrafts(k)' = LiveDrafts(k)
    <3>1. \A e \in Drafts \ {d}: draft'[e] = draft[e]
      BY <2>2 DEF NewDraft, TypeOK
    <3>2. draft[d].of # k /\ draft'[d].of # k
      BY <2>2, MessagesAssumption DEF NewDraft, TypeOK, NoOne
    <3> QED
      BY <3>1, <3>2 DEF LiveDrafts
  <2> QED
    BY <1>1, <2>1, <2>2 DEF RestKept
<1>4. ASSUME NEW k \in Messages \ exposed', k # m
      PROVE  /\ k \notin exposed /\ pc'[k] = pc[k] /\ plan'[k] = plan[k]
             /\ smem'[k] = smem[k] /\ state'[k] \in {state[k], smem[k]}
  BY <1>1, <1>4 DEF OthersKept, RestKept
<1> QED
  BY <1>2, <1>3, <1>4, AccountedOwn DEF Accounted, OnlyLive

------------------------------------------------------------------------------
(* The undo and the journals *)

(* A draft that is gone, and that a journal entry of m names, stays gone.  *)
LiveNext(d) == d # NoDraft /\ draft'[d].live

LEMMA GoneStays ==
  ASSUME TypeOK, IInv, [Next]_vars
  PROVE  /\ \A g \in Groups, m \in Messages:
              LiveNext(journal[g][m].draft) => Live(journal[g][m].draft)
         /\ \A m \in Messages: LiveNext(jmem[m].draft) => Live(jmem[m].draft)
<1>1. \A m \in Messages, d \in MaybeDraft:
        Names(d, m) /\ LiveNext(d) => Live(d)
  BY StepDrafts, NamesKept DEF DraftStep, LiveNext
<1>2. /\ \A g \in Groups, m \in Messages: Names(journal[g][m].draft, m)
      /\ \A m \in Messages: Names(jmem[m].draft, m)
  BY DEF IInv, NamedDrafts
<1> QED
  BY <1>1, <1>2, IdsTyped

(* The record an undo drops in memory is that of a draft it has trashed.   *)
LEMMA UndoEntryDrops ==
  ASSUME TypeOK, IInv, NEW m \in Messages, UndoEntry(m)
  PROVE  /\ pc'[m] = "restored" =>
              jmem'[m].draft = NoDraft \/ jmem'[m].draftUndone
         /\ jmem'[m].draftUndone => ~Live(jmem[m].draft)'
         /\ m \notin exposed =>
              \/ smem'[m].draft = state[m].draft
              \/ /\ smem'[m].draft = NoDraft
                 /\ jmem'[m].draft = NoDraft \/ LiveDrafts(m)' = {}
<1>0. PICK draftOk, labelsOk, draftEffect, labelsEffect \in BOOLEAN:
        UndoCalls(m, draftOk, labelsOk, draftEffect, labelsEffect)
  BY DEF UndoEntry
<1>1. /\ draftOk => draftEffect
      /\ ~DraftPending(m) => draftOk
      /\ draft' = IF DraftPending(m) /\ draftEffect
                  THEN [draft EXCEPT ![jmem[m].draft].live = FALSE]
                  ELSE draft
      /\ jmem' = [jmem EXCEPT
                    ![m].draftUndone = @ \/ (DraftPending(m) /\ draftOk),
                    ![m].labelsUndone = @ \/ (LabelsPending(m) /\ labelsOk)]
      /\ Move(m, IF draftOk /\ labelsOk THEN "restored" ELSE "kept")
      /\ smem' = IF /\ draftOk /\ labelsOk
                    /\ jmem[m].draft \in {NoDraft, smem[m].draft}
                 THEN [smem EXCEPT ![m] = NoRecord] ELSE smem
  BY <1>0, Zenon DEF UndoCalls
<1>2. /\ DraftPending(m) \in BOOLEAN /\ LabelsPending(m) \in BOOLEAN
      /\ jmem[m].draft \in MaybeDraft /\ jmem[m].draftUndone \in BOOLEAN
  BY DEF DraftPending, LabelsPending, TypeOK, Entry
<1>3. jmem'[m].draft = jmem[m].draft
  BY UndoEntryMarks
<1>4. jmem'[m].draftUndone = (jmem[m].draftUndone \/ (DraftPending(m) /\ draftOk))
  BY <1>1, <1>2 DEF TypeOK, Entry
<1>5. DraftPending(m) /\ draftEffect => ~draft'[jmem[m].draft].live
  BY <1>1, <1>2 DEF DraftPending, TypeOK, DraftState, MaybeDraft
<1>6. jmem[m].draftUndone => ~Live(jmem[m].draft)
  BY DEF IInv, Progress
<1>7. jmem'[m].draftUndone => ~Live(jmem[m].draft)'
  <2>1. CASE DraftPending(m) /\ draftOk
    BY <1>1, <1>3, <1>5, <2>1 DEF Live
  <2>2. CASE jmem[m].draftUndone
    <3>1. ~DraftPending(m)
      BY <2>2 DEF DraftPending
    <3>2. draft' = draft
      BY <1>1, <3>1
    <3> QED
      BY <1>3, <1>6, <2>2, <3>2 DEF Live
  <2> QED
    BY <1>4, <2>1, <2>2
<1>8. pc'[m] = "restored" => draftOk /\ labelsOk
  BY <1>1 DEF Move, TypeOK
<1>9. draftOk => jmem'[m].draft = NoDraft \/ jmem'[m].draftUndone
  BY <1>3, <1>4 DEF DraftPending
<1>10. ASSUME m \notin exposed
       PROVE  \/ smem'[m].draft = state[m].draft
              \/ /\ smem'[m].draft = NoDraft
                 /\ jmem'[m].draft = NoDraft \/ LiveDrafts(m)' = {}
  <2>0. proc = "undoing"
    BY DEF UndoEntry, UndoCalls
  <2>1. \/ smem[m].draft = state[m].draft
        \/ /\ smem[m].draft = NoDraft
           /\ jmem[m].draft = NoDraft \/ LiveDrafts(m) = {}
    BY <1>10, <2>0 DEF IInv, Undoing
  <2>2. LiveDrafts(m)' \subseteq LiveDrafts(m)
    BY OuterLive DEF Outer, Undo
  <2>3. CASE smem' = smem
    BY <1>3, <2>1, <2>2, <2>3
  <2>4. CASE /\ draftOk /\ labelsOk /\ jmem[m].draft = NoDraft
             /\ smem' = [smem EXCEPT ![m] = NoRecord]
    BY <1>3, <2>4 DEF TypeOK, NoRecord
  <2>5. CASE /\ draftOk /\ labelsOk /\ jmem[m].draft # NoDraft
             /\ jmem[m].draft = smem[m].draft
             /\ smem' = [smem EXCEPT ![m] = NoRecord]
    <3>1. jmem'[m].draftUndone
      BY <1>3, <1>9, <2>5
    <3>2. ~draft'[jmem[m].draft].live
      BY <1>3, <1>7, <2>5, <3>1 DEF Live
    <3>3. pc[m] \notin Window
      BY DEF UndoEntry, Window
    <3>4. OnlyLive(m, jmem[m].draft)
      BY <1>10, <2>1, <2>5, <3>3 DEF IInv, Accounted
    <3>5. LiveDrafts(m)' = {}
      BY <2>2, <3>2, <3>4 DEF OnlyLive, LiveDrafts
    <3>6. smem'[m].draft = NoDraft
      BY <2>5 DEF TypeOK, NoRecord
    <3> QED
      BY <3>5, <3>6
  <2> QED
    BY <1>1, <2>3, <2>4, <2>5
<1> QED
  BY <1>7, <1>8, <1>9, <1>10

LEMMA UndoingStep ==
  ASSUME TypeOK, IInv, [Next]_vars
  PROVE  Undoing'
<1>0. Undoing /\ Phases /\ Progress
  BY DEF IInv
<1>1. ASSUME NEW g \in Groups, StartUndo(g)
      PROVE  Undoing'
  <2>1. /\ group' = g /\ jmem' = journal[g] /\ smem' = state
        /\ UNCHANGED <<state, journal, undone, backfill>>
        /\ backfill = NoBackfill /\ g \notin undone
    BY <1>1 DEF StartUndo, IsLatest, files
  <2>2. pc' = [m \in Messages |-> IF journal[g][m] = NoEntry THEN "none" ELSE "entry"]
    BY <1>1 DEF StartUndo
  <2> QED
    BY <2>1, <2>2 DEF Undoing
<1>2. ASSUME NEW m \in Messages, UndoEntry(m)
      PROVE  Undoing'
  <2>1. /\ proc = "undoing" /\ UNCHANGED <<proc, group, undone, backfill, state, exposed>>
        /\ pc[m] = "entry" /\ journal' = [journal EXCEPT ![group] = jmem']
    BY <1>2 DEF UndoEntry, UndoCalls
  <2>2. journal'[group] = jmem'
    BY <1>0, <2>1 DEF Undoing, TypeOK
  <2>3. \A k \in Messages \ {m}: /\ pc'[k] = pc[k] /\ smem'[k] = smem[k]
                               /\ jmem'[k] = jmem[k]
    BY <1>2, UndoEntryMarks DEF UndoEntry, UndoCalls, Move, TypeOK
  <2>4. pc'[m] \in {"restored", "kept"}
    BY <1>2 DEF UndoEntry, UndoCalls, Move, TypeOK
  <2>5. \A k \in Messages: LiveDrafts(k)' \subseteq LiveDrafts(k)
    BY <1>2, OuterLive DEF Outer, Undo
  <2>6. /\ pc'[m] = "restored" =>
              jmem'[m].draft = NoDraft \/ jmem'[m].draftUndone
        /\ m \notin exposed =>
              \/ smem'[m].draft = state[m].draft
              \/ /\ smem'[m].draft = NoDraft
                 /\ jmem'[m].draft = NoDraft \/ LiveDrafts(m)' = {}
    BY <1>2, UndoEntryDrops
  <2>7. ASSUME NEW k \in Messages
        PROVE  /\ pc'[k] \in {"none", "entry", "restored", "kept"}
               /\ pc'[k] = "none" => jmem'[k] = NoEntry
               /\ pc'[k] = "restored" =>
                    jmem'[k].draft = NoDraft \/ jmem'[k].draftUndone
               /\ k \notin exposed' =>
                    \/ smem'[k].draft = state'[k].draft
                    \/ /\ smem'[k].draft = NoDraft
                       /\ jmem'[k].draft = NoDraft \/ LiveDrafts(k)' = {}
    <3>1. CASE k = m
      BY <2>1, <2>4, <2>6, <3>1
    <3>2. CASE k # m
      BY <1>0, <2>1, <2>3, <2>5, <3>2 DEF Undoing
    <3> QED
      BY <3>1, <3>2
  <2> QED
    BY <1>0, <2>1, <2>2, <2>7 DEF Undoing
<1>3. ASSUME NEW d \in Drafts, OwnerRemovesDraft(d)
      PROVE  Undoing'
  <2>1. \A k \in Messages: LiveDrafts(k)' \subseteq LiveDrafts(k)
    BY <1>3, OuterLive DEF Outer
  <2> QED
    BY <1>0, <1>3, <2>1 DEF OwnerRemovesDraft, files, process, Undoing
<1>4. CASE UNCHANGED vars
  <2>1. \A k \in Messages: LiveDrafts(k)' = LiveDrafts(k)
    BY <1>4 DEF vars, gmail, LiveDrafts
  <2> QED
    BY <1>0, <1>4, <2>1 DEF vars, files, process, book, Undoing
<1>5. proc' \notin {"undoing", "marking"} => Undoing'
  BY DEF Undoing
<1>6. ASSUME NEW m \in Messages, Worker(m)
      PROVE  proc' \notin {"undoing", "marking"}
  BY <1>0, <1>6, WorkerRest DEF RestKept, Phases
<1>7. CASE FinishJournal \/ CloseDay \/ Leaves \/ Crash \/ NewDay
           \/ Refresh \/ RequestCancel
  BY <1>5, <1>7, LeavesKeeps DEF FinishJournal, CloseDay, Crash, NewDay,
                                 Refresh, RequestCancel, Release, process
<1>8. ASSUME NEW k \in Kinds, NEW scan \in ScanOf(k), StartRun(k, scan)
      PROVE  proc' \notin {"undoing", "marking"}
  BY <1>8 DEF StartRun
<1>9. CASE FinishUndo
  BY <1>0, <1>9 DEF FinishUndo, Undoing
<1> QED
  BY <1>1, <1>2, <1>3, <1>4, <1>5, <1>6, <1>7, <1>8, <1>9, EndCases, StepCases
     DEF Outer, Settles

LEMMA ProgressOuter ==
  ASSUME TypeOK, IInv, Outer, [Next]_vars
  PROVE  Progress'
<1>0. Progress /\ Undoing /\ Phases
  BY DEF IInv
<1>a. \A g \in Groups, m \in Messages:
        journal[g][m].draftUndone => ~LiveNext(journal[g][m].draft)
  BY <1>0, GoneStays DEF Progress
<1>b. \A m \in Messages: jmem[m].draftUndone => ~LiveNext(jmem[m].draft)
  BY <1>0, GoneStays DEF Progress
<1>c. \A m \in Messages: EmptyJournal[m].draftUndone = FALSE
  BY DEF EmptyJournal, NoEntry
(* The process is at its end; what it saves holds no mark the journal      *)
(* lacked.                                                                 *)
<1>1. ASSUME proc' \notin {"selected", "writing"},
             \/ group' = 0 /\ jmem' = EmptyJournal
             \/ proc' # "idle" /\ UNCHANGED <<group, jmem>>,
             backfill' \in {backfill, NoBackfill}, runs' = runs,
             backfill' # NoBackfill => UNCHANGED undone,
             \A g \in Groups: g # group => journal'[g] = journal[g] /\ (g \in undone' => g \in undone),
             group \in Groups => journal'[group] \in {journal[group], jmem},
             UNCHANGED journal \/ proc = "writing"
      PROVE  Progress'
  <2>0. runs \in Nat /\ NoBackfill.group = 0 /\ group \in Groups \cup {0}
    BY LimitsAssumption DEF TypeOK, NoBackfill
  <2>1. \A g \in Groups, m \in Messages:
          journal'[g][m].draftUndone => ~LiveNext(journal'[g][m].draft)
    <3>1. \A g \in Groups: journal'[g] \in {journal[g], jmem}
      BY <1>1
    <3> QED
      BY <3>1, <1>a, <1>b
  <2>2. \A m \in Messages: jmem'[m].draftUndone => ~LiveNext(jmem'[m].draft)
    BY <1>1, <1>b, <1>c
  <2>3. group' <= runs' /\ backfill'.group <= runs'
    BY <1>0, <1>1, <2>0 DEF Progress
  <2>4. ASSUME backfill' # NoBackfill
        PROVE  /\ backfill'.group \notin undone'
               /\ \A m \in Messages: ~journal'[backfill'.group][m].draftUndone
    <3>1. backfill' = backfill /\ backfill.group \in Groups
      BY <1>1, <2>4 DEF TypeOK, Backfill
    <3>2. backfill.group \notin undone'
      BY <1>0, <1>1, <2>4, <3>1 DEF Progress
    <3>3. CASE group = backfill.group
      <4>1. proc = "writing" => \A m \in Messages: ~jmem[m].draftUndone
        BY <1>0 DEF Progress
      <4> QED
        BY <1>0, <1>1, <2>4, <3>1, <3>2, <3>3, <4>1 DEF Progress
    <3>4. CASE group # backfill.group
      BY <1>0, <1>1, <2>4, <3>1, <3>2, <3>4 DEF Progress
    <3> QED
      BY <3>3, <3>4
  <2>5. ASSUME NEW g \in Groups, g > runs'
        PROVE  g \notin undone' /\ journal'[g] = EmptyJournal
    <3>1. g # group
      BY <1>0, <1>1, <2>0, <2>5 DEF Progress, Groups
    <3> QED
      BY <1>0, <1>1, <2>5, <3>1 DEF Progress
  <2> QED
    BY <1>1, <2>1, <2>2, <2>3, <2>4, <2>5 DEF Progress, Live, LiveNext
<1>2. CASE Settles
  <2>1. /\ UNCHANGED <<undone, backfill, runs, group, jmem>>
        /\ proc' \in {"closing", "reporting", "marking"}
        /\ \/ UNCHANGED journal
           \/ proc = "writing" /\ journal' = [journal EXCEPT ![group] = jmem]
    BY <1>2, SettlesKeeps
  <2> QED
    BY <1>1, <2>1 DEF TypeOK
<1>3. CASE Leaves
  <2>1. /\ Release(state) /\ UNCHANGED runs
        /\ backfill' \in {backfill, NoBackfill}
        /\ \/ UNCHANGED journal
           \/ proc = "writing" /\ journal' = [journal EXCEPT ![group] = jmem]
        /\ \/ UNCHANGED undone
           \/ proc = "marking" /\ UNCHANGED backfill /\ undone' = undone \cup {group}
    BY <1>3, LeavesKeeps
  <2>2. proc = "marking" => backfill = NoBackfill
    BY <1>0 DEF Undoing
  <2> QED
    BY <1>1, <2>1, <2>2 DEF Release, TypeOK
<1>4. CASE Crash
  <2>1. Release(state) /\ UNCHANGED <<journal, backfill, runs, undone>>
    BY <1>4 DEF Crash, files
  <2> QED
    BY <1>1, <2>1 DEF Release
(* Nothing the invariant speaks of changes but drafts that go. *)
<1>5. ASSUME UNCHANGED <<journal, jmem, group, undone, backfill, runs>>,
             proc' \in {"selected", "writing"} => proc \in {"selected", "writing"},
             proc' = "idle" => proc = "idle"
      PROVE  Progress'
  BY <1>0, <1>5, <1>a, <1>b DEF Progress, Live, LiveNext
<1>6. CASE Refresh \/ RequestCancel \/ NewDay \/ UNCHANGED vars
            \/ \E d \in Drafts: OwnerRemovesDraft(d)
  BY <1>5, <1>6 DEF Refresh, RequestCancel, NewDay, OwnerRemovesDraft, vars,
                    files, process, book
<1>7. ASSUME NEW k \in Kinds, NEW scan \in ScanOf(k), StartRun(k, scan)
      PROVE  Progress'
  <2>1. /\ UNCHANGED <<draft, journal, undone>> /\ runs' = runs + 1
        /\ proc' = "selected" /\ runs < MaxRuns /\ runs \in Nat
    BY <1>7, LimitsAssumption DEF StartRun, gmail, TypeOK
  <2>2. \/ /\ group' = runs + 1 /\ jmem' = EmptyJournal
           /\ backfill' = backfill \/ backfill'.group = runs + 1
        \/ /\ backfill # NoBackfill /\ group' = backfill.group
           /\ jmem' = journal[backfill.group] /\ UNCHANGED backfill
    BY <1>7 DEF StartRun, BeginGroup
  <2>3. runs + 1 \in Groups /\ runs + 1 > runs
    BY <2>1, LimitsAssumption DEF Groups
  <2>4. runs + 1 \notin undone /\ journal[runs + 1] = EmptyJournal
    BY <1>0, <2>3 DEF Progress
  <2>5. backfill # NoBackfill =>
          /\ backfill.group \in Groups /\ backfill.group \notin undone
          /\ \A m \in Messages: ~journal[backfill.group][m].draftUndone
    BY <1>0 DEF Progress, TypeOK, Backfill
  <2>6. /\ group' \in Groups /\ group' \notin undone
        /\ \A m \in Messages: ~jmem'[m].draftUndone /\ ~journal[group'][m].draftUndone
    BY <1>c, <2>2, <2>3, <2>4, <2>5
  <2>7. backfill' # NoBackfill =>
          /\ backfill'.group \notin undone
          /\ \A m \in Messages: ~journal[backfill'.group][m].draftUndone
    BY <1>c, <2>2, <2>4, <2>5
  <2>8. group' <= runs' /\ backfill'.group <= runs'
    <3>1. backfill.group <= runs /\ backfill.group \in Nat
      BY <1>0 DEF Progress, TypeOK, Backfill, NoBackfill, Groups
    <3> QED
      BY <2>1, <2>2, <3>1
  <2>9. \A g \in Groups: g > runs' => g \notin undone' /\ journal'[g] = EmptyJournal
    BY <1>0, <2>1 DEF Progress, Groups
  <2> QED
    BY <1>0, <2>1, <2>6, <2>7, <2>8, <2>9 DEF Progress, Live
<1>8. ASSUME NEW g \in Groups, StartUndo(g)
      PROVE  Progress'
  <2>1. /\ UNCHANGED <<draft, journal, undone, runs, backfill>>
        /\ proc' = "undoing" /\ group' = g /\ jmem' = journal[g]
        /\ journal[g] # EmptyJournal
    BY <1>8 DEF StartUndo, gmail, files, book, IsLatest, HasFile
  <2>2. g <= runs
    BY <1>0, <2>1 DEF Progress, Groups, TypeOK
  <2> QED
    BY <1>0, <2>1, <2>2 DEF Progress, Live
<1>9. ASSUME NEW m \in Messages, UndoEntry(m)
      PROVE  Progress'
  <2>1. /\ UNCHANGED <<undone, runs, backfill, group, proc>>
        /\ proc = "undoing" /\ journal' = [journal EXCEPT ![group] = jmem']
    BY <1>9 DEF UndoEntry
  <2>2. backfill = NoBackfill /\ group \in Groups /\ group \notin undone
    BY <1>0, <2>1 DEF Undoing
  <2>3. \A k \in Messages: jmem'[k].draftUndone => ~LiveNext(jmem'[k].draft)
    <3>1. jmem'[m].draftUndone => ~LiveNext(jmem'[m].draft)
      BY <1>9, UndoEntryDrops DEF Live, LiveNext
    <3>2. \A k \in Messages \ {m}: jmem'[k] = jmem[k]
      BY <1>9, UndoEntryMarks
    <3> QED
      BY <1>b, <3>1, <3>2
  <2>4. \A h \in Groups: journal'[h] = IF h = group THEN jmem' ELSE journal[h]
    BY <2>1 DEF TypeOK
  <2>5. \A h \in Groups, k \in Messages:
          journal'[h][k].draftUndone => ~LiveNext(journal'[h][k].draft)
    BY <1>a, <2>3, <2>4
  <2>6. \A h \in Groups: h > runs' => h \notin undone' /\ journal'[h] = EmptyJournal
    <3>1. \A h \in Groups: h > runs => h # group
      BY <1>0, <2>2 DEF Progress, Groups, TypeOK
    <3> QED
      BY <1>0, <2>1, <2>4, <3>1 DEF Progress
  <2> QED
    BY <1>0, <2>1, <2>2, <2>3, <2>5, <2>6 DEF Progress, Live, LiveNext
<1> QED
  BY <1>2, <1>3, <1>4, <1>6, <1>7, <1>8, <1>9, EndCases DEF Outer

LEMMA ProgressWorker ==
  ASSUME TypeOK, IInv, NEW m \in Messages, Worker(m), [Next]_vars
  PROVE  Progress'
<1>0. Progress /\ Phases
  BY DEF IInv
<1>1. OthersKept(m) /\ OwnDrafts(m) /\ RestKept(m)
  BY WorkerOthers, WorkerOwn, WorkerRest
<1>2. /\ proc = "writing" /\ UNCHANGED <<proc, group, undone, backfill, runs>>
      /\ group \in Groups /\ group \notin undone
  BY <1>0, <1>1 DEF RestKept, Phases, Progress
<1>3. \A k \in Messages: ~jmem'[k].draftUndone
  <2>1. \A k \in Messages: ~jmem[k].draftUndone
    BY <1>0, <1>2 DEF Progress
  <2>2. \A k \in Messages: jmem'[k].draftUndone = jmem[k].draftUndone
    BY <1>1 DEF OthersKept, OwnDrafts
  <2> QED
    BY <2>1, <2>2
<1>4. \A g \in Groups:
        \/ journal'[g] = journal[g]
        \/ g = group /\ journal'[g] = jmem'
  BY <1>1 DEF RestKept, TypeOK
<1>5. \A g \in Groups, k \in Messages:
        journal'[g][k].draftUndone =>
          /\ journal'[g] = journal[g]
          /\ journal[g][k].draftUndone
          /\ ~LiveNext(journal[g][k].draft)
  BY <1>0, <1>3, <1>4, GoneStays DEF Progress
<1>6. \A k \in Messages: ~journal'[group][k].draftUndone
  BY <1>0, <1>2, <1>5 DEF Progress
<1>7. backfill # NoBackfill =>
        \A k \in Messages: ~journal'[backfill.group][k].draftUndone
  <2>1. backfill # NoBackfill => backfill.group \in Groups
    BY DEF TypeOK, Backfill
  <2> QED
    BY <1>0, <1>5, <2>1 DEF Progress
<1>8. \A g \in Groups: g > runs => g \notin undone /\ journal'[g] = EmptyJournal
  <2>1. \A g \in Groups: g > runs => g # group
    BY <1>0, <1>2 DEF Progress, Groups, TypeOK
  <2> QED
    BY <1>0, <1>4, <2>1 DEF Progress
<1> QED
  BY <1>0, <1>2, <1>3, <1>5, <1>6, <1>7, <1>8 DEF Progress, Live, LiveNext

LEMMA UndoneStep ==
  ASSUME TypeOK, IInv, [Next]_vars
  PROVE  UndoneDraftsGone'
<1>0. UndoneDraftsGone /\ Undoing /\ Progress /\ Phases
  BY DEF IInv
<1>1. \A g \in undone, m \in Messages: ~LiveNext(journal[g][m].draft)
  BY <1>0, GoneStays DEF UndoneDraftsGone, TypeOK
(* No step but the end of an undo changes a journal already undone. *)
<1>2. ASSUME UNCHANGED undone, \A g \in undone: journal'[g] = journal[g]
      PROVE  UndoneDraftsGone'
  BY <1>1, <1>2 DEF UndoneDraftsGone, Live, LiveNext
<1>3. ASSUME NEW m \in Messages, Worker(m)
      PROVE  UndoneDraftsGone'
  <2>1. RestKept(m) /\ group \notin undone
    BY <1>0, <1>3, WorkerRest DEF RestKept, Phases, Progress
  <2> QED
    BY <1>2, <2>1 DEF RestKept, TypeOK
<1>4. CASE Settles \/ (Leaves /\ UNCHANGED undone)
  <2>1. /\ UNCHANGED undone
        /\ \/ UNCHANGED journal
           \/ proc = "writing" /\ journal' = [journal EXCEPT ![group] = jmem]
    BY <1>4, SettlesKeeps, LeavesKeeps
  <2>2. proc = "writing" => group \notin undone
    BY <1>0 DEF Progress
  <2> QED
    BY <1>2, <2>1, <2>2 DEF TypeOK
<1>5. ASSUME NEW m \in Messages, UndoEntry(m)
      PROVE  UndoneDraftsGone'
  <2>1. /\ UNCHANGED undone /\ proc = "undoing"
        /\ journal' = [journal EXCEPT ![group] = jmem']
    BY <1>5 DEF UndoEntry
  <2>2. group \notin undone
    BY <1>0, <2>1 DEF Undoing
  <2> QED
    BY <1>2, <2>1, <2>2 DEF TypeOK
<1>6. CASE MarkUndone
  <2>1. /\ proc = "marking" /\ UNCHANGED <<draft, journal>>
        /\ undone' = undone \/ (AllRestored /\ undone' = undone \cup {group})
        /\ \A m \in Messages: pc[m] # "entry"
    BY <1>0, <1>6 DEF MarkUndone, gmail, Phases
  <2>2. ASSUME AllRestored, NEW m \in Messages
        PROVE  ~Live(jmem[m].draft)
    <3>1. pc[m] \in {"none", "restored"}
      BY <1>0, <2>1, <2>2 DEF Undoing, AllRestored
    <3>2. jmem[m].draft = NoDraft \/ jmem[m].draftUndone
      BY <1>0, <2>1, <3>1 DEF Undoing, NoEntry
    <3> QED
      BY <1>0, <3>2 DEF Progress, Live
  <2>3. journal[group] = jmem
    BY <1>0, <2>1 DEF Undoing
  <2> QED
    BY <1>0, <2>1, <2>2, <2>3 DEF UndoneDraftsGone, Live
<1>7. ASSUME NEW k \in Kinds, NEW scan \in ScanOf(k), StartRun(k, scan)
      PROVE  UndoneDraftsGone'
  BY <1>2, <1>7 DEF StartRun
<1>8. ASSUME NEW g \in Groups, StartUndo(g)
      PROVE  UndoneDraftsGone'
  BY <1>2, <1>8 DEF StartUndo, files
<1>9. CASE Refresh \/ RequestCancel \/ Crash \/ NewDay \/ UNCHANGED vars
           \/ \E d \in Drafts: OwnerRemovesDraft(d)
  BY <1>2, <1>9 DEF Refresh, RequestCancel, Crash, NewDay, OwnerRemovesDraft,
                    vars, files
<1>10. Leaves => UNCHANGED undone \/ MarkUndone
  BY DEF Leaves, ReportRun, FinishCancelled
<1> QED
  BY <1>3, <1>4, <1>5, <1>6, <1>7, <1>8, <1>9, <1>10, EndCases, StepCases DEF Outer

------------------------------------------------------------------------------
(* The order of the writes *)

(* What a draft named by a record of m keeps: whose it is, and that it is  *)
(* gone.                                                                   *)
LEMMA NamedKeeps ==
  ASSUME TypeOK, IInv, [Next]_vars, NEW m \in Messages, NEW d \in MaybeDraft, Names(d, m)
  PROVE  /\ d # NoDraft => draft'[d].of = draft[d].of
         /\ Dead(d) => Dead(d)'
<1>1. DraftStep
  BY StepDrafts
<1>2. ASSUME NEW k \in Messages, NEW e \in Drafts, NewDraft(k, e), d # NoDraft
      PROVE  draft'[d] = draft[d]
  <2>1. d # e
    BY <1>2, MessagesAssumption DEF NewDraft, Names, NoOne
  <2> QED
    BY <1>2, <2>1 DEF NewDraft, TypeOK, MaybeDraft
<1>3. d # NoDraft => draft'[d].of = draft[d].of /\ (draft'[d].live => draft[d].live)
  BY <1>1, <1>2 DEF DraftStep, DraftsOnlyGo, MaybeDraft
<1> QED
  BY <1>3 DEF Dead, Live

(* A draft the program needs stays in the journal it was written to: what  *)
(* is written over the entry of a message is what the entry says, or is    *)
(* written where nothing is left to lose.                                  *)
LEMMA JournalKeeps ==
  ASSUME TypeOK, IInv, [Next]_vars, NEW m \in Messages, NEW d \in Needed(m), ~Dead(d),
         NEW g \in Groups, journal[g][m].draft = d
  PROVE  journal'[g][m].draft = d
<1>0. Undoable /\ Phases /\ Undoing
  BY DEF IInv
<1>1. ASSUME g = group, proc \in {"selected", "writing"}
      PROVE  jmem[m].draft = d
  BY <1>0, <1>1 DEF Undoable, Secured, Needed
<1>2. CASE UNCHANGED journal
  BY <1>2
<1>3. CASE Settles \/ Leaves
  <2>1. \/ UNCHANGED journal
        \/ proc = "writing" /\ journal' = [journal EXCEPT ![group] = jmem]
    BY <1>3, SettlesKeeps, LeavesKeeps
  <2> QED
    BY <1>1, <2>1 DEF TypeOK
<1>4. ASSUME NEW k \in Messages, UndoEntry(k)
      PROVE  journal'[g][m].draft = d
  <2>1. journal[group] = jmem
    BY <1>0, <1>4 DEF Undoing, UndoEntry
  <2> QED
    BY <1>4, <2>1, UndoEntryMarks DEF TypeOK
<1>5. ASSUME NEW k \in Messages, Worker(k)
      PROVE  journal'[g][m].draft = d
  <2>1. /\ UNCHANGED journal \/ journal' = [journal EXCEPT ![group] = jmem']
        /\ proc = "writing"
    BY <1>0, <1>5, WorkerRest DEF RestKept, Phases
  <2>2. CASE k # m
    <3>1. jmem'[m] = jmem[m]
      BY <1>5, <2>2, WorkerOthers DEF OthersKept
    <3> QED
      BY <1>1, <2>1, <3>1 DEF TypeOK
  <2>3. CASE k = m /\ JournalDraft(m)
    <3>1. pc[m] = "logged"
      BY <2>3 DEF JournalDraft
    <3>2. Dead(state[m].draft) /\ Dead(smem[m].draft)
      BY <1>0, <3>1 DEF Undoable, Secured, Window
    <3> QED
      BY <3>1, <3>2 DEF Needed
  <2>4. CASE k = m /\ JournalLabels(m)
    <3>1. jmem'[m].draft = jmem[m].draft
      BY <2>4 DEF JournalLabels, TypeOK, Entry
    <3> QED
      BY <1>1, <2>1, <3>1 DEF TypeOK
  <2>5. CASE k = m /\ ~JournalDraft(m) /\ ~JournalLabels(m)
    <3>1. UNCHANGED journal
      BY <1>5, <2>5
         DEF Worker, Begin, Enter, CreateDraft, CreateFails, CreateAnswerLost, LogDraft,
             RecordDraft, PersistFails, ApplyLabels, LabelsFail, Complete, files
    <3> QED
      BY <1>2, <3>1
  <2> QED
    BY <2>2, <2>3, <2>4, <2>5
<1>6. \/ UNCHANGED journal \/ Settles \/ Leaves
      \/ (\E k \in Messages: UndoEntry(k)) \/ \E k \in Messages: Worker(k)
  BY StepCases, EndCases
     DEF Outer, StartRun, Refresh, StartUndo, RequestCancel, Crash, NewDay,
         OwnerRemovesDraft, vars, files
<1> QED
  BY <1>2, <1>3, <1>4, <1>5, <1>6

LEMMA LogGrows ==
  ASSUME TypeOK, [Next]_vars
  PROVE  log \subseteq log'
<1>1. ASSUME NEW k \in Messages, Worker(k)
      PROVE  log \subseteq log'
  BY <1>1 DEF Worker, Begin, Enter, CreateDraft, CreateFails, CreateAnswerLost, LogDraft,
              JournalDraft, RecordDraft, PersistFails, ApplyLabels, LabelsFail, JournalLabels,
              Complete, files
<1> QED
  BY <1>1, StepCases, EndCases, SettlesKeeps, LeavesKeeps
     DEF Outer, StartRun, Refresh, StartUndo, UndoEntry, UndoCalls, RequestCancel, Crash,
         NewDay, OwnerRemovesDraft, vars, files

LEMMA NeededTyped ==
  ASSUME TypeOK, IInv, NEW m \in Messages
  PROVE  /\ \A d \in {state[m].draft, smem[m].draft, plan[m].draft}: d \in MaybeDraft /\ Names(d, m)
         /\ Needed(m) \subseteq {state[m].draft, smem[m].draft, plan[m].draft}
<1>1. Names(state[m].draft, m) /\ Names(smem[m].draft, m) /\ Names(plan[m].draft, m)
  BY DEF IInv, NamedDrafts
<1> QED
  BY <1>1, IdsTyped DEF Needed

(* What the next state keeps of the drafts this one names *)
LEMMA DraftsKept ==
  ASSUME TypeOK, IInv, [Next]_vars, NEW m \in Messages
  PROVE  /\ \A d \in {state[m].draft, smem[m].draft, plan[m].draft}:
              /\ d \notin {NoDraft, LegacyDraft} => draft'[d].of = m
              /\ Dead(d) => Dead(d)'
         /\ \A d \in Needed(m): Kept(m, d)'
<1>1. ASSUME NEW d \in {state[m].draft, smem[m].draft, plan[m].draft}
      PROVE  /\ d \notin {NoDraft, LegacyDraft} => draft'[d].of = m
             /\ Dead(d) => Dead(d)'
  <2>1. d \in MaybeDraft /\ Names(d, m)
    BY NeededTyped
  <2>2. d \notin {NoDraft, LegacyDraft} => draft[d].of = m
    BY DEF IInv, Undoable, Secured
  <2> QED
    BY <2>1, <2>2, NamedKeeps
<1>2. ASSUME NEW d \in Needed(m)
      PROVE  Kept(m, d)'
  <2>1. Kept(m, d)
    BY DEF IInv, Undoable, Secured
  <2>2. CASE Dead(d)
    BY <1>1, <2>2, NeededTyped DEF Kept
  <2>3. CASE ~Dead(d)
    <3>1. PICK g \in Groups: d \in log /\ journal[g][m].draft = d
      BY <2>1, <2>3 DEF Kept
    <3>2. journal'[g][m].draft = d
      BY <2>3, <3>1, JournalKeeps
    <3> QED
      BY <3>1, <3>2, LogGrows DEF Kept
  <2> QED
    BY <2>2, <2>3
<1> QED
  BY <1>1, <1>2

(* A message of which only records, and of them only drafts that were      *)
(* needed, are left                                                        *)
LEMMA SecuredAtRest ==
  ASSUME TypeOK, IInv, [Next]_vars, NEW m \in Messages,
         state'[m].draft \in {NoDraft, state[m].draft, smem[m].draft},
         smem'[m].draft \in {NoDraft, state[m].draft, smem[m].draft},
         plan'[m].draft \in {NoDraft, plan[m].draft},
         pc'[m] \notin Waiting \cup InThread \cup {"waiting"},
         proc' \notin {"selected", "writing"}
  PROVE  Secured(m)'
<1>1. PICK s, t, p: s = state'[m].draft /\ t = smem'[m].draft /\ p = plan'[m].draft
  OBVIOUS
<1>2. /\ \A d \in {s, t, p}: d \notin {NoDraft, LegacyDraft} => draft'[d].of = m
      /\ Kept(m, s)' /\ Kept(m, t)'
  BY <1>1, DraftsKept DEF Needed, Kept, Dead
<1>3. Needed(m)' = {s, t}
  BY <1>1 DEF Needed, InThread
<1> QED
  BY <1>1, <1>2, <1>3 DEF Secured, Waiting, InThread, Window

(* A message no step is about                                              *)
LEMMA SecuredAside ==
  ASSUME TypeOK, IInv, [Next]_vars, NEW m \in Messages,
         UNCHANGED <<pc[m], plan[m], smem[m], proc>>,
         state'[m].draft \in {state[m].draft, smem[m].draft},
         proc \in {"selected", "writing"} =>
           \/ UNCHANGED <<jmem[m], journal, group>>
           \/ jmem'[m].draft = journal'[group'][m].draft
  PROVE  Secured(m)'
<1>0. Secured(m)
  BY DEF IInv, Undoable
<1>1. PICK s, t, p: s = state'[m].draft /\ t = smem[m].draft /\ p = plan[m].draft
  OBVIOUS
<1>2. /\ \A d \in {s, t, p}: /\ d \notin {NoDraft, LegacyDraft} => draft'[d].of = m
                             /\ Dead(d) => Dead(d)'
      /\ \A d \in Needed(m): Kept(m, d)'
  BY <1>1, DraftsKept
<1>3. Needed(m)' \subseteq Needed(m)
  BY DEF Needed
<1>4. Dead(state[m].draft) /\ Dead(smem[m].draft) => Dead(s)' /\ Dead(t)'
  BY <1>1, <1>2
<1>5. log \subseteq log'
  BY LogGrows
<1>6. \A d \in {state'[m].draft, smem'[m].draft, plan'[m].draft}:
        d \notin {NoDraft, LegacyDraft} => draft'[d].of = m
  BY <1>1, <1>2
<1>7. \A d \in Needed(m)': Kept(m, d)'
  BY <1>2, <1>3
<1>8. /\ pc'[m] \in Waiting \cup {"waiting"} =>
           /\ plan'[m].draft = NoDraft
           /\ plan'[m].replace => Dead(t)'
      /\ pc'[m] \in Waiting \cup {"waiting", "create"} \cup Window => smem'[m].draft = state'[m].draft
      /\ pc'[m] \in {"create"} \cup Window => Dead(t)'
      /\ pc'[m] \in {"logged", "journaled"} => plan'[m].draft \in log'
      /\ pc'[m] = "complete" => ~plan'[m].err
  BY <1>0, <1>1, <1>2, <1>5 DEF Secured
<1>9. proc' \in {"selected", "writing"} /\ jmem'[m].draft # journal'[group'][m].draft =>
        /\ plan'[m].err /\ pc'[m] \in {"label", "labelled", "failed"}
        /\ Dead(s)' /\ Dead(t)'
  BY <1>0, <1>4 DEF Secured
<1> QED
  BY <1>1, <1>6, <1>7, <1>8, <1>9 DEF Secured

(* A draft is replaced only if it is gone: only that of an older version is *)
(* shared.                                                                 *)
LEMMA ReplacedIsDead ==
  ASSUME TypeOK, NEW s \in [Messages -> Record], NEW m \in Messages,
         \A k \in Messages: s[k].draft \notin {NoDraft, LegacyDraft} => draft[s[k].draft].of = k,
         MissingOrShared(s, m)
  PROVE  Dead(s[m].draft)
<1>1. CASE ~Live(s[m].draft)
  BY <1>1 DEF Dead
<1>2. CASE Shared(s, m)
  <2>1. PICK k \in Messages: k < m /\ s[k].draft = s[m].draft
    BY <1>2 DEF Shared
  <2>2. k # m
    BY <2>1, MessagesAssumption
  <2> QED
    BY <2>1, <2>2 DEF Dead
<1> QED
  BY <1>1, <1>2 DEF MissingOrShared

LEMMA UndoableOuter ==
  ASSUME TypeOK, IInv, Outer, [Next]_vars
  PROVE  Undoable'
<1> SUFFICES ASSUME NEW m \in Messages PROVE Secured(m)'
  BY DEF Undoable
<1>0. /\ Secured(m) /\ Phases /\ Undoing /\ Progress
      /\ \A k \in Messages:
           /\ state[k].draft \notin {NoDraft, LegacyDraft} => draft[state[k].draft].of = k
           /\ smem[k].draft \notin {NoDraft, LegacyDraft} => draft[smem[k].draft].of = k
  BY DEF IInv, Undoable, Secured
<1>1. ASSUME NEW k \in Kinds, NEW scan \in ScanOf(k), StartRun(k, scan)
      PROVE  Secured(m)'
  <2>1. /\ UNCHANGED <<state, journal, draft>> /\ smem' = state /\ proc' = "selected"
        /\ runs < MaxRuns /\ runs \in Nat /\ Select(scan)
    BY <1>1, LimitsAssumption DEF StartRun, gmail, TypeOK
  <2>2. /\ plan'[m].draft = NoDraft
        /\ pc'[m] \in {"planned", "deferred", "failed", "skipped", "none"}
        /\ plan'[m].replace => Dead(state[m].draft)
    BY <1>0, <2>1, SelectTyped, ReplacedIsDead DEF TypeOK
  <2>3. jmem'[m].draft = journal'[group'][m].draft
    <3>1. \/ group' = runs + 1 /\ jmem' = EmptyJournal
          \/ jmem' = journal[group']
      BY <1>1 DEF StartRun, BeginGroup
    <3>2. runs + 1 \in Groups /\ runs + 1 > runs
      BY <2>1, LimitsAssumption DEF Groups
    <3>3. journal[runs + 1] = EmptyJournal
      BY <1>0, <3>2 DEF Progress
    <3> QED
      BY <2>1, <3>1, <3>3
  <2>4. PICK d: d = state[m].draft /\ d = state'[m].draft /\ d = smem'[m].draft
    BY <2>1
  <2>5. /\ Kept(m, d)' /\ (Dead(d) => Dead(d)')
        /\ d \notin {NoDraft, LegacyDraft} => draft'[d].of = m
    BY <2>4, DraftsKept DEF Needed
  <2>6. Needed(m)' = {d}
    BY <2>2, <2>4 DEF Needed
  <2> QED
    BY <2>2, <2>3, <2>4, <2>5, <2>6 DEF Secured, Waiting, Window
<1>2. CASE Refresh
  <2>1. /\ UNCHANGED <<state, smem, journal, jmem, group, draft, log>>
        /\ proc = "selected" /\ proc' = "writing"
        /\ plan'[m] = plan[m] \/ (pc[m] = "planned" /\ MissingOrShared(smem, m)
                                  /\ plan'[m] = [plan[m] EXCEPT !.replace = TRUE])
        /\ pc'[m] = IF pc[m] = "planned" THEN "queued" ELSE pc[m]
    BY <1>2 DEF Refresh, gmail, files
  <2>2. /\ plan'[m].draft = plan[m].draft /\ plan'[m].err = plan[m].err
        /\ plan'[m].replace => plan[m].replace \/ Dead(smem[m].draft)
    BY <1>0, <2>1, ReplacedIsDead DEF TypeOK, Plan
  <2>3. PICK s, t, p: s = state[m].draft /\ t = smem[m].draft /\ p = plan[m].draft
    OBVIOUS
  <2>4. /\ \A d \in {s, t, p}: /\ d \notin {NoDraft, LegacyDraft} => draft'[d].of = m
                               /\ Dead(d) => Dead(d)'
        /\ \A d \in Needed(m): Kept(m, d)'
    BY <2>3, DraftsKept
  <2>5. Needed(m)' \subseteq Needed(m)
    BY <2>1, <2>2 DEF Needed
  <2> QED
    BY <1>0, <2>1, <2>2, <2>3, <2>4, <2>5 DEF Secured, Waiting, Window
<1>3. IdsKept
  BY OuterIds
<1>4. CASE Settles \/ Leaves \/ Crash
  <2>1. /\ pc'[m] \notin Busy \cup Waiting
        /\ proc' \notin {"selected", "writing"}
    <3>1. CASE Settles
      BY <1>0, <3>1, SettlesKeeps, SettlesPositions
    <3>2. CASE Leaves \/ Crash
      BY <3>2, LeavesKeeps DEF Crash, Release, Busy, InThread, Waiting
    <3> QED
      BY <1>4, <3>1, <3>2
  <2> QED
    BY <1>3, <2>1, SecuredAtRest DEF IdsKept, Busy
<1>5. ASSUME (\E g \in Groups: StartUndo(g)) \/ \E k \in Messages: UndoEntry(k)
      PROVE  Secured(m)'
  <2>1. proc' = "undoing"
    BY <1>5 DEF StartUndo, UndoEntry
  <2>2. pc'[m] \in {"none", "entry", "restored", "kept"}
    BY <2>1, UndoingStep DEF Undoing
  <2> QED
    BY <1>3, <2>1, <2>2, SecuredAtRest DEF IdsKept, Waiting, InThread
<1>6. CASE RequestCancel \/ NewDay \/ UNCHANGED vars \/ \E d \in Drafts: OwnerRemovesDraft(d)
  <2>1. UNCHANGED <<pc, plan, smem, proc, state, jmem, journal, group>>
    BY <1>6 DEF RequestCancel, NewDay, OwnerRemovesDraft, vars, files, process
  <2> QED
    BY <2>1, SecuredAside
<1> QED
  BY <1>1, <1>2, <1>4, <1>5, <1>6, EndCases DEF Outer

(* What a worker does to its own message *)
LEMMA SecuredOwn ==
  ASSUME TypeOK, IInv, [Next]_vars, NEW m \in Messages, Worker(m)
  PROVE  Secured(m)'
<1>0. Secured(m) /\ proc = "writing" /\ UNCHANGED <<proc, group>> /\ group \in Groups
  BY WorkerRest DEF IInv, Undoable, RestKept, Phases, Progress
<1>1. PICK s, t, p, j, r:
        /\ s = state[m].draft /\ t = smem[m].draft /\ p = plan[m].draft
        /\ j = jmem[m].draft /\ r = journal[group][m].draft
  OBVIOUS
<1>2. /\ \A d \in {s, t, p}: /\ d \notin {NoDraft, LegacyDraft} => draft'[d].of = m
                             /\ Dead(d) => Dead(d)'
      /\ \A d \in Needed(m): Kept(m, d)'
      /\ log \subseteq log'
  BY <1>1, DraftsKept, LogGrows
<1>3. /\ Kept(m, s)' /\ Kept(m, t)'
      /\ pc[m] = "journaled" => Kept(m, p)'
      /\ pc[m] \in {"label", "labelled", "complete"} /\ ~plan[m].err => Kept(m, p)'
  BY <1>1, <1>2 DEF Needed
<1>4. /\ pc[m] \in Waiting \cup {"waiting"} => p = NoDraft /\ (plan[m].replace => Dead(t)')
      /\ pc[m] \in Waiting \cup {"waiting", "create"} \cup Window => t = s
      /\ pc[m] \in {"create"} \cup Window => Dead(t)'
      /\ pc[m] \in {"logged", "journaled"} => p \in log'
      /\ pc[m] = "complete" => ~plan[m].err
      /\ j # r => /\ plan[m].err /\ pc[m] \in {"label", "labelled", "failed"}
                  /\ Dead(s)' /\ Dead(t)'
  BY <1>0, <1>1, <1>2 DEF Secured
(* What has to be shown, of the drafts the next state names *)
<1>5. ASSUME NEW q, NEW u, NEW v, NEW w,
             q = state'[m].draft, u = smem'[m].draft, v = plan'[m].draft, w = jmem'[m].draft,
             \A d \in {q, u, v}: d \in {s, t, p, NoDraft} \/ draft'[d].of = m,
             Kept(m, q)', Kept(m, u)',
             pc'[m] = "journaled" => Kept(m, v)',
             pc'[m] \in {"label", "labelled", "complete"} /\ ~plan'[m].err => Kept(m, v)',
             pc'[m] \in Waiting \cup {"waiting"} => v = NoDraft /\ (plan'[m].replace => Dead(u)'),
             pc'[m] \in Waiting \cup {"waiting", "create"} \cup Window => u = q,
             pc'[m] \in {"create"} \cup Window => Dead(u)',
             pc'[m] \in {"logged", "journaled"} => v \in log',
             pc'[m] = "complete" => ~plan'[m].err,
             w # journal'[group][m].draft =>
               /\ plan'[m].err /\ pc'[m] \in {"label", "labelled", "failed"}
               /\ Dead(q)' /\ Dead(u)'
      PROVE  Secured(m)'
  <2>1. \A d \in {state'[m].draft, smem'[m].draft, plan'[m].draft}:
          d \notin {NoDraft, LegacyDraft} => draft'[d].of = m
    BY <1>2, <1>5
  <2>2. \A d \in Needed(m)': Kept(m, d)'
    <3>1. Needed(m)' = {q, u} \cup {d \in {v}:
            \/ pc'[m] = "journaled"
            \/ pc'[m] \in {"label", "labelled", "complete"} /\ ~plan'[m].err}
      BY <1>5 DEF Needed
    <3>2. ASSUME NEW d \in Needed(m)' PROVE Kept(m, d)'
      BY ONLY <1>5, <3>1, <3>2
    <3> QED
      BY <3>2
  <2>3. /\ pc'[m] \in Waiting \cup {"waiting"} =>
             /\ plan'[m].draft = NoDraft
             /\ plan'[m].replace => Dead(smem[m].draft)'
        /\ pc'[m] \in Waiting \cup {"waiting", "create"} \cup Window =>
             smem'[m].draft = state'[m].draft
        /\ pc'[m] \in {"create"} \cup Window => Dead(smem[m].draft)'
    BY <1>5
  <2>4. /\ pc'[m] \in {"logged", "journaled"} => plan'[m].draft \in log'
        /\ pc'[m] = "complete" => ~plan'[m].err
    BY <1>5
  <2>5. jmem'[m].draft # journal'[group'][m].draft =>
          /\ plan'[m].err /\ pc'[m] \in {"label", "labelled", "failed"}
          /\ Dead(state[m].draft)' /\ Dead(smem[m].draft)'
    BY <1>0, <1>5
  <2> QED
    BY ONLY <2>1, <2>2, <2>3, <2>4, <2>5 DEF Secured
<1>6. /\ smem[m] \in Record /\ plan[m] \in Plan /\ jmem[m] \in Entry /\ state[m] \in Record
      /\ smem \in [Messages -> Record] /\ plan \in [Messages -> Plan]
      /\ jmem \in [Messages -> Entry] /\ pc \in [Messages -> Position]
      /\ journal \in [Groups -> [Messages -> Entry]]
  BY DEF TypeOK
<1>7. Kept(m, NoDraft)' /\ Dead(NoDraft)'
  BY DEF Kept, Dead
<1> USE DEF Move
<1>11. CASE Begin(m)
  <2>1. /\ UNCHANGED <<state, smem, plan, jmem, journal>> /\ pc[m] = "queued"
        /\ pc'[m] \in {"waiting", "cancelled"}
    BY <1>6, <1>11 DEF Begin, files
  <2> QED
    BY <1>1, <1>3, <1>4, <1>5, <2>1 DEF Waiting, Window
<1>12. CASE Enter(m)
  <2>1. /\ UNCHANGED <<state, smem, jmem, journal>> /\ pc[m] = "waiting"
        /\ \/ pc'[m] = "label" /\ plan'[m].draft \in {p, t}
           \/ /\ pc'[m] = "create" /\ plan'[m] = plan[m]
              /\ smem[m].draft = NoDraft \/ plan[m].replace
    <3>1. plan' = [plan EXCEPT ![m].draft = smem[m].draft] => plan'[m].draft = t
      BY <1>1, <1>6 DEF Plan
    <3> QED
      BY <1>1, <1>6, <1>12, <3>1 DEF Enter, files
  <2>2. p = NoDraft
    BY <1>4, <2>1
  <2>3. CASE pc'[m] = "label" /\ plan'[m].draft \in {p, t}
    BY <1>1, <1>3, <1>4, <1>5, <1>7, <2>1, <2>2, <2>3 DEF Waiting, Window
  <2>4. CASE /\ pc'[m] = "create" /\ plan'[m] = plan[m]
             /\ smem[m].draft = NoDraft \/ plan[m].replace
    <3>1. Dead(t)'
      BY <1>1, <1>4, <1>7, <2>1, <2>4
    <3> QED
      BY <1>1, <1>3, <1>4, <1>5, <2>1, <2>4, <3>1 DEF Waiting, Window
  <2> QED
    BY <2>1, <2>3, <2>4
<1>13. CASE CreateDraft(m)
  <2>1. PICK d \in Drafts: NewDraft(m, d) /\ plan' = [plan EXCEPT ![m].draft = d]
    BY <1>13 DEF CreateDraft
  <2>2. draft'[d].of = m
    BY <2>1 DEF NewDraft, TypeOK
  <2>3. /\ UNCHANGED <<state, smem, jmem, journal>> /\ pc[m] = "create" /\ pc'[m] = "created"
        /\ plan'[m].draft = d
    BY <1>6, <1>13, <2>1 DEF CreateDraft, files, Plan
  <2> QED
    BY <1>1, <1>3, <1>4, <1>5, <2>2, <2>3 DEF Waiting, Window
<1>14. CASE CreateFails(m) \/ CreateAnswerLost(m)
  <2>1. /\ UNCHANGED <<state, smem, jmem, journal>> /\ pc[m] = "create"
        /\ \/ pc'[m] = "create" /\ plan'[m] = plan[m]
           \/ pc'[m] = "label" /\ plan'[m].err /\ plan'[m].draft = p
    <3>1. plan' = [plan EXCEPT ![m].err = TRUE] => plan'[m].err /\ plan'[m].draft = p
      BY <1>1, <1>6 DEF Plan
    <3> QED
      BY <1>6, <1>14, <3>1 DEF CreateFails, CreateAnswerLost, files
  <2> QED
    BY <1>1, <1>3, <1>4, <1>5, <2>1 DEF Waiting, Window
<1>15. CASE LogDraft(m)
  <2>1. /\ UNCHANGED <<state, smem, plan, jmem, journal>> /\ pc[m] = "created"
        /\ pc'[m] = "logged" /\ p \in log'
    BY <1>1, <1>6, <1>15 DEF LogDraft
  <2> QED
    BY <1>1, <1>3, <1>4, <1>5, <2>1 DEF Waiting, Window
<1>16. CASE JournalDraft(m)
  <2>1. /\ UNCHANGED <<state, smem, plan>> /\ pc[m] = "logged" /\ pc'[m] = "journaled"
        /\ jmem'[m].draft = p /\ journal'[group] = jmem'
    BY <1>0, <1>1, <1>6, <1>16 DEF JournalDraft, Entry
  <2>2. p \in log'
    BY <1>4, <2>1
  <2>3. Kept(m, p)'
    BY <1>0, <2>1, <2>2 DEF Kept
  <2> QED
    BY <1>1, <1>3, <1>4, <1>5, <2>1, <2>2, <2>3 DEF Waiting, Window
<1>17. CASE RecordDraft(m)
  <2>1. /\ UNCHANGED <<plan, jmem, journal>> /\ pc[m] = "journaled" /\ pc'[m] = "label"
        /\ smem'[m].draft = p /\ state'[m].draft = p
    BY <1>1, <1>6, <1>17 DEF RecordDraft, DraftRecord
  <2> QED
    BY <1>1, <1>3, <1>4, <1>5, <2>1 DEF Waiting, Window
<1>18. CASE PersistFails(m)
  <2>1. /\ UNCHANGED <<state, journal>> /\ pc'[m] = "label" /\ pc[m] \in Window
        /\ plan'[m].err /\ plan'[m].draft = p
        /\ \/ pc[m] = "created" /\ UNCHANGED <<smem, jmem>>
           \/ pc[m] = "logged" /\ UNCHANGED smem /\ jmem'[m].draft = p
           \/ pc[m] = "journaled" /\ UNCHANGED jmem /\ smem'[m].draft = p
    <3>1. plan'[m].err /\ plan'[m].draft = p
      BY <1>1, <1>6, <1>18 DEF PersistFails, Plan
    <3>2. pc[m] = "logged" => jmem'[m].draft = p
      BY <1>1, <1>6, <1>18 DEF PersistFails, Entry
    <3>3. pc[m] = "journaled" => smem'[m].draft = p
      BY <1>1, <1>6, <1>18 DEF PersistFails, DraftRecord
    <3> QED
      BY <1>6, <1>18, <3>1, <3>2, <3>3 DEF PersistFails, files, Window
  <2>2. Dead(t)' /\ Dead(s)' /\ t = s /\ j = r
    BY <1>4, <2>1 DEF Window
  <2>3. PICK u, w: u = smem'[m].draft /\ w = jmem'[m].draft
    OBVIOUS
  <2>4. /\ pc'[m] = "label" /\ plan'[m].err /\ s = state'[m].draft /\ p = plan'[m].draft
        /\ journal'[group][m].draft = r
    BY <1>1, <2>1
  <2>5. /\ u = t \/ u = p
        /\ Kept(m, u)'
        /\ w # r => Dead(u)'
    <3>1. /\ pc[m] = "journaled" => w = j
          /\ pc[m] \in {"created", "logged"} => u = t
          /\ pc[m] = "journaled" => u = p
      BY <1>1, <2>1, <2>3
    <3>2. CASE pc[m] \in {"created", "logged"}
      BY <1>3, <2>2, <3>1, <3>2
    <3>3. CASE pc[m] = "journaled"
      BY <1>3, <2>2, <3>1, <3>3
    <3> QED
      BY <2>1, <3>2, <3>3 DEF Window
  <2> QED
    BY <1>3, <1>5, <2>2, <2>3, <2>4, <2>5 DEF Waiting, Window
<1>19. CASE ApplyLabels(m) \/ LabelsFail(m)
  <2>1. /\ UNCHANGED <<state, smem, plan, jmem, journal>> /\ pc[m] = "label"
        /\ pc'[m] \in {"labelled", "failed"}
    BY <1>6, <1>19 DEF ApplyLabels, LabelsFail, files
  <2> QED
    BY <1>1, <1>3, <1>4, <1>5, <2>1 DEF Waiting, Window
<1>20. CASE JournalLabels(m)
  <2>1. /\ UNCHANGED <<state, smem, plan>> /\ pc[m] = "labelled" /\ jmem'[m].draft = j
        /\ \/ /\ journal'[group] = jmem'
              /\ pc'[m] = IF plan[m].err THEN "failed" ELSE "complete"
           \/ UNCHANGED journal /\ pc'[m] = "failed"
    <3>1. jmem'[m].draft = j
      BY <1>1, <1>6, <1>20 DEF JournalLabels, Entry
    <3> QED
      BY <1>0, <1>6, <1>20, <3>1 DEF JournalLabels
  <2> QED
    BY <1>1, <1>3, <1>4, <1>5, <2>1 DEF Waiting, Window
<1>21. CASE Complete(m)
  <2>1. /\ UNCHANGED <<plan, jmem, journal>> /\ pc[m] = "complete"
        /\ pc'[m] \in {"done", "failed"}
        /\ smem'[m].draft = p /\ state'[m].draft \in {p, s}
    BY <1>1, <1>6, <1>21 DEF Complete
  <2> QED
    BY <1>1, <1>3, <1>4, <1>5, <2>1 DEF Waiting, Window
<1> QED
  BY <1>11, <1>12, <1>13, <1>14, <1>15, <1>16, <1>17, <1>18, <1>19, <1>20, <1>21 DEF Worker

LEMMA UndoableWorker ==
  ASSUME TypeOK, IInv, NEW k \in Messages, Worker(k), [Next]_vars
  PROVE  Undoable'
<1> SUFFICES ASSUME NEW m \in Messages PROVE Secured(m)'
  BY DEF Undoable
<1>1. CASE m = k
  BY <1>1, SecuredOwn
<1>2. CASE m # k
  <2>1. OthersKept(k) /\ RestKept(k)
    BY WorkerOthers, WorkerRest
  <2>2. /\ UNCHANGED <<pc[m], plan[m], smem[m], jmem[m], proc, group>>
        /\ state'[m] \in {state[m], smem[m]}
        /\ UNCHANGED journal \/ journal' = [journal EXCEPT ![group] = jmem']
    BY <1>2, <2>1 DEF OthersKept, RestKept
  <2>3. proc = "writing" /\ group \in Groups
    BY <2>1 DEF RestKept, IInv, Phases, Progress
  <2> QED
    BY <2>2, <2>3, SecuredAside DEF TypeOK
<1> QED
  BY <1>1, <1>2

------------------------------------------------------------------------------
(* What a message marked as handled rests on *)

(* Between two saves a record keeps its draft id, loses it, or names a new *)
(* draft: the shared draft of an older version reaches no other record.    *)
LegacyKept ==
  LegacyDraft # NoDraft =>
    \A m \in Messages:
      /\ smem'[m].draft = LegacyDraft => state'[m].draft = LegacyDraft
      /\ state'[m].draft = LegacyDraft => state[m].draft = LegacyDraft

LEMMA LegacyOuter ==
  ASSUME TypeOK, IInv, Outer
  PROVE  LegacyKept
<1>1. \A m \in Messages: smem[m].draft = LegacyDraft /\ LegacyDraft # NoDraft =>
                           state[m].draft = LegacyDraft
  BY DEF IInv, Settling, Inherited
<1>2. IdsKept
  BY OuterIds
<1>3. UNCHANGED state \/ smem' = state'
  BY EndCases, LeavesKeeps
     DEF Outer, StartRun, Refresh, Settles, FinishJournal, CloseDay, FinishUndo, Saved,
         StartUndo, UndoEntry, RequestCancel, Crash, NewDay, OwnerRemovesDraft, vars, files
<1>4. ASSUME NEW m \in Messages, LegacyDraft # NoDraft
      PROVE  /\ smem'[m].draft = LegacyDraft => state'[m].draft = LegacyDraft
             /\ state'[m].draft = LegacyDraft => state[m].draft = LegacyDraft
  <2>1. /\ state'[m].draft \in {NoDraft, state[m].draft, smem[m].draft}
        /\ smem'[m].draft \in {NoDraft, state[m].draft, smem[m].draft}
    BY <1>2 DEF IdsKept
  <2> QED
    BY <1>1, <1>3, <1>4, <2>1
<1> QED
  BY <1>4 DEF LegacyKept

LEMMA LegacyWorker ==
  ASSUME TypeOK, IInv, NEW k \in Messages, Worker(k)
  PROVE  LegacyKept
<1>1. \A m \in Messages: smem[m].draft = LegacyDraft /\ LegacyDraft # NoDraft =>
                           state[m].draft = LegacyDraft
  BY DEF IInv, Settling, Inherited
<1>2. Grounded(k)
  BY DEF IInv, Settling
<1>3. /\ smem \in [Messages -> Record] /\ state \in [Messages -> Record]
  BY DEF TypeOK
<1>4. ASSUME NEW m \in Messages \ {k}, LegacyDraft # NoDraft
      PROVE  /\ smem'[m].draft = LegacyDraft => state'[m].draft = LegacyDraft
             /\ state'[m].draft = LegacyDraft => state[m].draft = LegacyDraft
  <2>1. smem'[m] = smem[m] /\ state'[m] \in {state[m], smem[m]}
    BY <1>4, WorkerOthers DEF OthersKept
  <2> QED
    BY <1>1, <1>4, <2>1
<1>5. ASSUME LegacyDraft # NoDraft
      PROVE  /\ smem'[k].draft = LegacyDraft => state'[k].draft = LegacyDraft
             /\ state'[k].draft = LegacyDraft => state[k].draft = LegacyDraft
  <2>1. CASE UNCHANGED <<smem, state>>
    BY <1>1, <1>5, <2>1
  <2>2. CASE RecordDraft(k) \/ PersistFails(k)
    <3>1. UNCHANGED <<smem, state>> \/ plan[k].draft # LegacyDraft
      BY <1>2, <2>2 DEF Grounded, RecordDraft, PersistFails, Window, files
    <3>2. /\ smem'[k].draft \in {smem[k].draft, plan[k].draft}
          /\ UNCHANGED state \/ (state' = smem' /\ state'[k].draft = plan[k].draft)
          /\ smem'[k].draft = plan[k].draft \/ UNCHANGED smem
      BY <1>3, <2>2 DEF RecordDraft, PersistFails, DraftRecord, files
    <3> QED
      BY <1>1, <1>5, <3>1, <3>2
  <2>3. CASE Complete(k)
    <3>1. /\ smem'[k].draft = plan[k].draft
          /\ UNCHANGED state \/ state' = smem'
          /\ pc[k] = "complete"
      BY <1>3, <2>3 DEF Complete
    <3>2. plan[k].draft \in {NoDraft, state[k].draft}
      BY <1>2, <3>1 DEF Grounded, IInv, Undoable, Secured
    <3> QED
      BY <1>5, <3>1, <3>2
  <2> QED
    BY <2>1, <2>2, <2>3
       DEF Worker, Begin, Enter, CreateDraft, CreateFails, CreateAnswerLost, LogDraft,
           JournalDraft, ApplyLabels, LabelsFail, JournalLabels, files
<1> QED
  BY <1>4, <1>5 DEF LegacyKept

LEMMA InheritedStep ==
  ASSUME TypeOK, IInv, [Next]_vars
  PROVE  LegacyKept /\ Inherited'
<1>1. LegacyKept
  BY LegacyOuter, LegacyWorker, StepCases
<1>2. ASSUME LegacyDraft # NoDraft
      PROVE  draft'[LegacyDraft].of # NoOne
  <2>1. LegacyDraft \in Drafts /\ draft[LegacyDraft].of # NoOne
    BY <1>2, DraftsAssumption DEF IInv, Settling, Inherited
  <2>2. DraftStep
    BY StepDrafts
  <2>3. ASSUME NEW k \in Messages, NEW e \in Drafts, NewDraft(k, e)
        PROVE  draft'[LegacyDraft] = draft[LegacyDraft]
    BY <2>1, <2>3 DEF NewDraft, TypeOK
  <2> QED
    BY <2>1, <2>2, <2>3 DEF DraftStep, DraftsOnlyGo
<1> QED
  BY <1>1, <1>2 DEF LegacyKept, Inherited

(* No step makes a message share its draft with one before it.             *)
LEMMA SharedFalls ==
  ASSUME TypeOK, IInv, [Next]_vars, Undoable', NEW m \in Messages, Shared(state, m)'
  PROVE  Shared(state, m) /\ state'[m].draft = LegacyDraft /\ LegacyDraft # NoDraft
<1>1. PICK k \in Messages:
        k < m /\ state'[k].draft = state'[m].draft /\ state'[m].draft # NoDraft
  BY DEF Shared
<1>2. \A n \in Messages: state'[n].draft \notin {NoDraft, LegacyDraft} =>
                           draft'[state'[n].draft].of = n
  BY DEF Undoable, Secured
<1>3. k # m
  BY <1>1, MessagesAssumption
<1>4. state'[m].draft = LegacyDraft
  BY <1>1, <1>2, <1>3
<1>5. state[m].draft = LegacyDraft /\ state[k].draft = LegacyDraft
  BY <1>1, <1>4, InheritedStep DEF LegacyKept
<1> QED
  BY <1>1, <1>4, <1>5 DEF Shared

(* The selection plans to keep a recorded draft only if it is the          *)
(* message's own, and skips only what already_processed_for_draft_policy   *)
(* accepts.                                                                *)
LEMMA SelectGrounds ==
  ASSUME TypeOK, NEW scan, Select(scan), NEW m \in Messages
  PROVE  /\ pc'[m] \in {"planned", "deferred", "failed", "skipped", "none"}
         /\ pc'[m] = "planned" => plan'[m].replace = MissingOrShared(state, m)
         /\ pc'[m] = "skipped" => AlreadyProcessed(m)
<1>1. PICK unread, wants, topics:
        /\ plan' = PlanFor(Candidates(scan, unread), wants, topics)
        /\ pc' = Placed(Candidates(scan, unread), plan', Fetched(scan, unread), unread)
  BY DEF Select
<1>2. PICK C, read: C = Candidates(scan, unread) /\ read = Fetched(scan, unread)
  OBVIOUS
<1>3. pc'[m] = CASE m \in WithinWriteBudget(plan', WithinDraftLimit(plan', C)) -> "planned"
                 [] m \in C \ WithinWriteBudget(plan', WithinDraftLimit(plan', C)) -> "deferred"
                 [] m \in read \cap unread -> "failed"
                 [] m \in read \ (unread \cup C) -> "skipped"
                 [] OTHER -> "none"
  BY <1>1, <1>2 DEF Placed
<1>4. pc'[m] = "planned" => m \in C
  BY <1>3 DEF WithinWriteBudget, WithinDraftLimit
<1>5. m \in C => plan'[m].replace = MissingOrShared(state, m)
  BY <1>1, <1>2 DEF PlanFor
<1>6. pc'[m] = "skipped" => m \in read \ (unread \cup C)
  BY <1>3
<1>7. m \in read \ (unread \cup C) => AlreadyProcessed(m)
  BY <1>2 DEF Candidates
<1> QED
  BY <1>3, <1>4, <1>5, <1>6, <1>7

(* What Grounded asks of m, left standing by a step that leaves its plan,  *)
(* its position and its records alone                                      *)
LEMMA GroundedAside ==
  ASSUME TypeOK, IInv, [Next]_vars, Undoable', NEW m \in Messages,
         UNCHANGED <<pc[m], plan[m], smem[m]>>,
         state'[m] \in {state[m], smem[m]},
         Processed \in labels[m] => Processed \in labels'[m],
         cancel /\ proc = "writing" => cancel' /\ proc' = "writing"
  PROVE  Grounded(m)'
<1>1. Grounded(m)
  BY DEF IInv, Settling
<1>2. Shared(state, m)' => Shared(state, m)
  BY SharedFalls
<1>3. /\ pc[m] \in {"label", "labelled", "complete"} /\ ~plan[m].err /\ plan[m].template =>
           state'[m].draft = state[m].draft
      /\ pc[m] \in {"skipped", "done"} => state'[m] = state[m]
  BY <1>1 DEF Grounded
<1> QED
  BY <1>1, <1>2, <1>3 DEF Grounded, Handled

LEMMA GroundedOuter ==
  ASSUME TypeOK, IInv, Outer, [Next]_vars, Undoable', NEW m \in Messages
  PROVE  Grounded(m)'
<1>0. Grounded(m)
  BY DEF IInv, Settling
<1>1. ASSUME pc'[m] \in {"none", "entry", "restored", "kept", "deferred", "failed"}
      PROVE  Grounded(m)'
  BY <1>1 DEF Grounded, Waiting, Window
<1>2. ASSUME NEW s, Release(s)
      PROVE  Grounded(m)'
  BY <1>1, <1>2 DEF Release
<1>3. ASSUME NEW k \in Kinds, NEW scan \in ScanOf(k), StartRun(k, scan)
      PROVE  Grounded(m)'
  <2>1. /\ pc'[m] \in {"planned", "deferred", "failed", "skipped", "none"}
        /\ pc'[m] = "planned" => plan'[m].replace = MissingOrShared(state, m)
        /\ pc'[m] = "skipped" => AlreadyProcessed(m)
    BY <1>3, SelectGrounds DEF StartRun
  <2>2. smem' = state /\ state' = state /\ labels' = labels
    BY <1>3 DEF StartRun, gmail
  <2>3. Shared(state, m)' <=> Shared(state, m)
    BY <2>2 DEF Shared
  <2>4. ~MissingOrShared(state, m) => ~Shared(state, m)
    BY DEF MissingOrShared, Shared
  <2>5. AlreadyProcessed(m) => /\ state[m].status = "complete" \/ Processed \in labels[m]
                               /\ AccountWide => ~Shared(state, m)
    BY DEF AlreadyProcessed, Shared
  <2>6. CASE pc'[m] = "planned"
    BY <2>1, <2>3, <2>4, <2>6 DEF Grounded, Waiting, Window
  <2>7. CASE pc'[m] = "skipped"
    BY <2>1, <2>2, <2>3, <2>5, <2>7 DEF Grounded, Handled, Waiting, Window
  <2> QED
    BY <1>1, <2>1, <2>6, <2>7
<1>4. CASE Refresh
  <2>1. /\ state' = state /\ smem' = smem /\ labels' = labels /\ cancel' = cancel
        /\ pc'[m] = IF pc[m] = "planned" THEN "queued" ELSE pc[m]
        /\ plan'[m] = IF pc[m] = "planned" /\ MissingOrShared(smem, m)
                      THEN [plan[m] EXCEPT !.replace = TRUE] ELSE plan[m]
        /\ proc = "selected"
    BY <1>4 DEF Refresh, gmail, files
  <2>2. Shared(state, m)' <=> Shared(state, m)
    BY <2>1 DEF Shared
  <2>3. CASE pc[m] = "planned"
    <3>1. plan[m] \in Plan
      BY DEF TypeOK
    <3>2. ~plan'[m].replace => ~plan[m].replace
      BY <2>1, <3>1 DEF Plan
    <3> QED
      BY <1>0, <2>1, <2>2, <2>3, <3>2 DEF Grounded, Waiting, Window
  <2>4. CASE pc[m] # "planned"
    BY <1>0, <2>1, <2>2, <2>4 DEF Grounded, Handled, Waiting, Window
  <2> QED
    BY <2>3, <2>4
<1>5. CASE Leaves \/ Crash
  BY <1>2, <1>5, LeavesKeeps DEF Crash
<1>9. CASE Settles
  <2>1. /\ UNCHANGED <<pc, plan, smem, labels, cancel>>
        /\ state' \in {state, smem}
    BY <1>9, SettlesKeeps
  <2>2. ~(cancel /\ proc = "writing")
    BY <1>9 DEF Settles, FinishJournal, CloseDay, FinishUndo
  <2> QED
    BY <2>1, <2>2, GroundedAside
<1>6. ASSUME NEW g \in Groups, StartUndo(g)
      PROVE  Grounded(m)'
  BY <1>1, <1>6 DEF StartUndo
<1>7. ASSUME NEW k \in Messages, UndoEntry(k)
      PROVE  Grounded(m)'
  <2>1. pc[m] \in {"none", "entry", "restored", "kept"}
    BY <1>7 DEF UndoEntry, IInv, Undoing
  <2>2. pc'[m] \in {pc[m], "restored", "kept"}
    BY <1>7 DEF UndoEntry, UndoCalls, Move, TypeOK
  <2> QED
    BY <1>1, <2>1, <2>2
<1>8. CASE RequestCancel \/ NewDay \/ UNCHANGED vars \/ \E d \in Drafts: OwnerRemovesDraft(d)
  <2>1. /\ UNCHANGED <<pc, plan, smem, proc, state, labels>>
        /\ cancel => cancel'
    BY <1>8 DEF RequestCancel, NewDay, OwnerRemovesDraft, vars, gmail, files, process
  <2> QED
    BY <2>1, GroundedAside
<1> QED
  BY <1>3, <1>4, <1>5, <1>6, <1>7, <1>8, <1>9, EndCases DEF Outer

LEMMA GroundedOwn ==
  ASSUME TypeOK, IInv, [Next]_vars, Undoable', NEW m \in Messages, Worker(m)
  PROVE  Grounded(m)'
<1>0. Grounded(m) /\ Secured(m)
  BY DEF IInv, Settling, Undoable
<1>1. /\ Shared(state, m)' => Shared(state, m) /\ state'[m].draft = LegacyDraft
      /\ Shared(state, m)' => state'[m].draft # NoDraft
  BY SharedFalls DEF Shared
<1>2. /\ smem[m] \in Record /\ plan[m] \in Plan /\ state[m] \in Record
      /\ smem \in [Messages -> Record] /\ plan \in [Messages -> Plan]
      /\ pc \in [Messages -> Position] /\ labels \in [Messages -> SUBSET Labels]
  BY DEF TypeOK
<1>3. ASSUME pc'[m] \in {"failed", "deferred"}
      PROVE  Grounded(m)'
  BY <1>3 DEF Grounded, Waiting, Window
<1>4. ASSUME pc'[m] \in {"label", "labelled"}, plan'[m].err
      PROVE  Grounded(m)'
  BY <1>4 DEF Grounded, Waiting, Window
<1> USE DEF Move
<1>11. CASE Begin(m)
  <2>1. /\ UNCHANGED <<state, smem, plan, labels, cancel, proc>> /\ pc[m] = "queued"
        /\ \/ pc'[m] = "waiting"
           \/ pc'[m] = "cancelled" /\ cancel /\ proc = "writing"
    BY <1>2, <1>11 DEF Begin, gmail, files
  <2> QED
    BY <1>0, <1>1, <2>1 DEF Grounded, Waiting, Window
<1>12. CASE Enter(m)
  <2>1. /\ UNCHANGED <<state, smem>> /\ pc[m] = "waiting"
        /\ plan'[m].template = plan[m].template
        /\ \/ pc'[m] = "label" /\ ~plan[m].template /\ plan'[m].draft = plan[m].draft
           \/ /\ pc'[m] = "label" /\ plan'[m].draft = smem[m].draft
              /\ smem[m].draft # NoDraft /\ ~plan[m].replace /\ plan[m].template
           \/ pc'[m] = "create" /\ plan[m].template
    BY <1>2, <1>12 DEF Enter, files, Plan
  <2>2. plan[m].draft = NoDraft /\ smem[m].draft = state[m].draft
    BY <1>0, <2>1 DEF Secured
  <2>3. plan'[m].replace = plan[m].replace /\ (~plan[m].replace => ~Shared(state, m)')
    BY <1>0, <1>1, <1>2, <1>12, <2>1 DEF Enter, Plan, Grounded
  <2>4. CASE pc'[m] = "label" /\ ~plan[m].template
    BY <2>1, <2>2, <2>4 DEF Grounded, Waiting, Window
  <2>5. CASE pc'[m] = "label" /\ plan[m].template
    <3>1. /\ plan'[m].template /\ plan'[m].draft # NoDraft
          /\ state'[m].draft = plan'[m].draft /\ smem'[m].draft = plan'[m].draft
      BY <2>1, <2>2, <2>5
    <3>2. ~Shared(state, m)'
      BY <2>1, <2>3, <2>5
    <3> QED
      BY <2>5, <3>1, <3>2 DEF Grounded, Waiting, Window
  <2>6. CASE pc'[m] = "create"
    BY <2>1, <2>6 DEF Grounded, Waiting, Window
  <2> QED
    BY <2>1, <2>4, <2>5, <2>6
<1>13. CASE CreateDraft(m)
  <2>1. PICK d \in Drafts: NewDraft(m, d) /\ plan' = [plan EXCEPT ![m].draft = d]
    BY <1>13 DEF CreateDraft
  <2>2. pc[m] = "create" /\ pc'[m] = "created" /\ plan'[m].draft = d
        /\ plan'[m].template = plan[m].template
    BY <1>2, <1>13, <2>1 DEF CreateDraft, Plan
  <2>3. d # NoDraft /\ d # LegacyDraft
    BY <2>1, DraftsAssumption DEF NewDraft, IInv, Settling, Inherited
  <2> QED
    BY <1>0, <2>2, <2>3 DEF Grounded, Waiting, Window
<1>14. CASE CreateFails(m) \/ CreateAnswerLost(m)
  <2>1. \/ pc'[m] = "create" /\ plan' = plan /\ pc[m] = "create"
        \/ pc'[m] = "label" /\ plan' = [plan EXCEPT ![m].err = TRUE]
    BY <1>2, <1>14 DEF CreateFails, CreateAnswerLost
  <2>2. plan' = [plan EXCEPT ![m].err = TRUE] => plan'[m].err
    BY <1>2 DEF Plan
  <2>3. CASE pc'[m] = "create" /\ plan' = plan /\ pc[m] = "create"
    BY <1>0, <2>3 DEF Grounded, Waiting, Window
  <2> QED
    BY <1>4, <2>1, <2>2, <2>3
<1>15. CASE LogDraft(m) \/ JournalDraft(m)
  <2>1. /\ plan' = plan /\ pc[m] \in Window /\ pc'[m] \in {"logged", "journaled"}
    BY <1>2, <1>15 DEF LogDraft, JournalDraft, Window
  <2> QED
    BY <1>0, <2>1 DEF Grounded, Waiting, Window
<1>16. CASE RecordDraft(m)
  <2>1. /\ plan' = plan /\ pc[m] = "journaled" /\ pc'[m] = "label"
        /\ smem'[m].draft = plan[m].draft /\ state'[m].draft = plan[m].draft
    BY <1>2, <1>16 DEF RecordDraft, DraftRecord
  <2> QED
    BY <1>0, <1>1, <2>1 DEF Grounded, Waiting, Window
<1>17. CASE PersistFails(m)
  <2>1. pc'[m] = "label" /\ plan'[m].err
    BY <1>2, <1>17 DEF PersistFails, Plan
  <2> QED
    BY <1>4, <2>1
<1>18. CASE ApplyLabels(m) \/ LabelsFail(m) \/ JournalLabels(m)
  <2>1. /\ UNCHANGED <<state, smem, plan>> /\ pc[m] \in {"label", "labelled"}
        /\ pc'[m] \in {"labelled", "failed", "complete"}
    BY <1>2, <1>18 DEF ApplyLabels, LabelsFail, JournalLabels, files
  <2> QED
    BY <1>0, <1>1, <1>3, <2>1 DEF Grounded, Waiting, Window
<1>19. CASE Complete(m)
  <2>1. /\ plan' = plan /\ pc[m] = "complete"
        /\ smem'[m].draft = plan[m].draft /\ smem'[m].status = "complete"
        /\ \/ pc'[m] = "failed"
           \/ pc'[m] = "done" /\ state' = smem'
    BY <1>2, <1>19 DEF Complete
  <2>2. /\ plan[m].draft = NoDraft \/ ~Shared(state, m)
    BY <1>0, <2>1 DEF Grounded, Secured
  <2>3. CASE pc'[m] = "done" /\ state' = smem'
    <3>1. ~Shared(state, m)'
      BY <1>1, <2>1, <2>2, <2>3
    <3> QED
      BY <2>1, <2>3, <3>1 DEF Grounded, Handled, Waiting, Window
  <2> QED
    BY <1>3, <2>1, <2>3
<1> QED
  BY <1>11, <1>12, <1>13, <1>14, <1>15, <1>16, <1>17, <1>18, <1>19 DEF Worker

LEMMA GroundedWorker ==
  ASSUME TypeOK, IInv, [Next]_vars, Undoable', NEW k \in Messages, Worker(k), NEW m \in Messages
  PROVE  Grounded(m)'
<1>1. CASE m = k
  BY <1>1, GroundedOwn
<1>2. CASE m # k
  <2>1. /\ UNCHANGED <<pc[m], plan[m], smem[m], proc>>
        /\ state'[m] \in {state[m], smem[m]}
    BY <1>2, WorkerOthers, WorkerRest DEF OthersKept, RestKept
  <2>2. labels'[m] = labels[m] /\ cancel' = cancel
    BY <1>2
       DEF Worker, Begin, Enter, CreateDraft, CreateFails, CreateAnswerLost, LogDraft,
           JournalDraft, RecordDraft, PersistFails, ApplyLabels, LabelsFail, JournalLabels,
           Complete, gmail, TypeOK
  <2> QED
    BY <2>1, <2>2, GroundedAside
<1> QED
  BY <1>1, <1>2

(* ------------------------ What a scan leaves out ------------------------ *)

(* A scan of the whole mailbox that leaves m out takes on as many messages *)
(* before m as it may read: the first one it leaves out has that many      *)
(* before it, all of them candidates.                                      *)
LEMMA ReadLimitReached ==
  ASSUME NEW unread, NEW m \in Messages \ Fetched(Messages, unread)
  PROVE  Cardinality({k \in Candidates(Messages, unread): Before(k, m)})
           >= CandidateLimit
<1> DEFINE Out == {Place[n]: n \in Messages \ Fetched(Messages, unread)}
           Todo(n) == {k \in Messages \ unread: Before(k, n) /\ ~AlreadyProcessed(k)}
           Chosen == {k \in Candidates(Messages, unread): Before(k, m)}
<1>1. PICK n \in Messages \ Fetched(Messages, unread):
        \A k \in Messages \ Fetched(Messages, unread): ~Before(k, n)
  <2>1. Out \subseteq Nat /\ Out # {}
    BY PlaceAssumption
  <2>2. PICK x \in Out: \A y \in Out: ~(<<y, x>> \in OpToRel(<, Nat))
    BY <2>1, NatLessThanWellFounded, WFMin
  <2>3. \A y \in Out: ~(y < x)
    BY <2>1, <2>2 DEF OpToRel
  <2> QED
    BY <2>2, <2>3 DEF Before
<1>2. Place[n] <= Place[m]
  BY <1>1, PlaceAssumption DEF Before
<1>3. Todo(n) \subseteq Chosen
  <2> SUFFICES ASSUME NEW k \in Todo(n) PROVE k \in Chosen
    OBVIOUS
  <2>1. k \in Fetched(Messages, unread)
    BY <1>1
  <2>2. Before(k, m)
    BY <1>2, PlaceAssumption DEF Before
  <2> QED
    BY <2>1, <2>2 DEF Candidates
<1>4. IsFiniteSet(Chosen)
  BY MessagesAssumption, FS_Subset DEF Candidates, Fetched
<1>5. /\ Cardinality(Todo(n)) \in Nat /\ Cardinality(Chosen) \in Nat
      /\ Cardinality(Todo(n)) <= Cardinality(Chosen)
  BY <1>3, <1>4, FS_Subset, FS_CardinalityType
<1>6. ~(Cardinality(Todo(n)) < CandidateLimit)
  BY <1>1 DEF Fetched
<1> QED
  BY <1>5, <1>6, LimitsAssumption DEF CandidateLimit

LEMMA StartReadsInOrder ==
  ASSUME TypeOK, NEW k \in Kinds, NEW scan \in ScanOf(k), StartRun(k, scan)
  PROVE  ReadInOrder'
<1> SUFFICES ASSUME kind' \in {"daily", "forced"}, NEW m \in Messages, pc'[m] = "none"
             PROVE  Cardinality(Taken(m)') >= CandidateLimit
  BY DEF ReadInOrder
<1>1. scan = Messages /\ Select(Messages)
  <2>1. k = kind' /\ Select(scan)
    BY DEF StartRun
  <2>2. ScanOf(k) = {Messages}
    BY <2>1 DEF ScanOf
  <2> QED
    BY <2>1, <2>2
<1>2. PICK unread, C:
        /\ C = Candidates(Messages, unread)
        /\ pc' = Placed(C, plan', Fetched(Messages, unread), unread)
  BY <1>1 DEF Select
<1>3. m \notin Fetched(Messages, unread)
  BY <1>2 DEF Placed, WithinWriteBudget, WithinDraftLimit
<1>4. \A j \in C: pc'[j] \notin {"none", "skipped"}
  BY <1>2 DEF Placed, Candidates, Fetched
<1>5. {j \in C: Before(j, m)} \subseteq Taken(m)'
  BY <1>2, <1>4 DEF Taken, Candidates, Fetched, Before
<1>6. IsFiniteSet(Taken(m)')
  BY MessagesAssumption, FS_Subset DEF Taken
<1>7. /\ Cardinality({j \in C: Before(j, m)}) \in Nat /\ Cardinality(Taken(m)') \in Nat
      /\ Cardinality({j \in C: Before(j, m)}) <= Cardinality(Taken(m)')
  BY <1>5, <1>6, FS_Subset, FS_CardinalityType
<1>8. Cardinality({j \in C: Before(j, m)}) >= CandidateLimit
  BY <1>2, <1>3, ReadLimitReached
<1>9. CandidateLimit \in Nat
  BY LimitsAssumption DEF CandidateLimit
<1> QED
  BY <1>7, <1>8, <1>9

(* No later step of the run takes a message on or drops one.               *)
LEMMA ReadInOrderKept ==
  ASSUME IInv, kind' = kind,
         proc' \in {"selected", "writing", "closing"} =>
           proc \in {"selected", "writing", "closing"},
         \A m \in Messages: /\ pc'[m] = "none" <=> pc[m] = "none"
                            /\ pc'[m] = "skipped" <=> pc[m] = "skipped"
  PROVE  ReadInOrder'
<1>1. \A m \in Messages: Taken(m)' = Taken(m)
  BY DEF Taken, Before
<1> QED
  BY <1>1 DEF IInv, Settling, ReadInOrder

LEMMA ReadInOrderStep ==
  ASSUME TypeOK, IInv, [Next]_vars
  PROVE  ReadInOrder'
<1>0. Phases
  BY DEF IInv
<1>1. ASSUME NEW m \in Messages, Worker(m)
      PROVE  ReadInOrder'
  <2>1. OthersKept(m) /\ RestKept(m)
    BY <1>1, WorkerOthers, WorkerRest
  <2>2. \A k \in Messages: /\ pc'[k] = "none" <=> pc[k] = "none"
                           /\ pc'[k] = "skipped" <=> pc[k] = "skipped"
    BY <2>1 DEF OthersKept, RestKept, Busy, InThread
  <2> QED
    BY <2>1, <2>2, ReadInOrderKept DEF RestKept
<1>2. CASE Outer
  <2>1. ASSUME NEW k \in Kinds, NEW scan \in ScanOf(k), StartRun(k, scan)
        PROVE  ReadInOrder'
    BY <2>1, StartReadsInOrder
  <2>2. CASE Refresh
    BY <2>2, ReadInOrderKept DEF Refresh, TypeOK
  <2>3. CASE FinishJournal \/ CloseDay
    BY <2>3, ReadInOrderKept DEF FinishJournal, CloseDay
  <2>4. proc' \notin {"selected", "writing", "closing"} => ReadInOrder'
    BY DEF ReadInOrder
  <2>5. CASE FinishUndo \/ Leaves \/ Crash \/ (\E g \in Groups: StartUndo(g))
             \/ \E m \in Messages: UndoEntry(m)
    BY <2>4, <2>5, LeavesKeeps DEF FinishUndo, Crash, Release, StartUndo, UndoEntry
  <2>6. CASE RequestCancel \/ NewDay \/ UNCHANGED vars
             \/ \E d \in Drafts: OwnerRemovesDraft(d)
    <3>1. UNCHANGED <<pc, proc, kind>>
      BY <2>6 DEF RequestCancel, NewDay, OwnerRemovesDraft, vars, process
    <3> QED
      BY <3>1, ReadInOrderKept
  <2> QED
    BY <1>2, <2>1, <2>2, <2>3, <2>5, <2>6, EndCases DEF Outer, Settles
<1> QED
  BY <1>1, <1>2, StepCases

LEMMA SettlingStep ==
  ASSUME TypeOK, IInv, [Next]_vars, Undoable'
  PROVE  Settling'
<1>1. \A m \in Messages: Grounded(m)'
  BY StepCases, GroundedOuter, GroundedWorker
<1> QED
  BY <1>1, InheritedStep, ReadInOrderStep DEF Settling

------------------------------------------------------------------------------
LEMMA InvStep == TypeOK /\ IInv /\ [Next]_vars => IInv'
<1> SUFFICES ASSUME TypeOK, IInv, [Next]_vars PROVE IInv'
  OBVIOUS
<1>1. Phases' /\ NamedDrafts' /\ Undoing' /\ UndoneDraftsGone'
  BY PhasesStep, NamedStep, UndoingStep, UndoneStep
<1>2. Accounted' /\ Progress' /\ Undoable'
  BY StepCases, AccountedOuter, AccountedWorker, ProgressOuter, ProgressWorker, UndoableOuter,
     UndoableWorker
<1>3. Settling'
  BY <1>2, SettlingStep
<1> QED
  BY <1>1, <1>2, <1>3 DEF IInv

(* The invariant that accounts for every live draft, at every position of  *)
(* every message, through runs, failures, crashes and undos                *)
(* (execute_daily_plan, _undo_group, RollbackJournal).                     *)
THEOREM Invariant == Spec => []IInv
<1>1. TypeOK /\ IInv /\ [Next]_vars => (TypeOK /\ IInv)'
  BY TypeStep, InvStep
<1>2. Init => TypeOK /\ IInv
  BY TypeInit, InvInit
<1> QED
  BY <1>1, <1>2, PTL DEF Spec

(* A message outside the named exceptions never has two drafts: whatever   *)
(* the number of messages, workers, runs and failures, the journals and    *)
(* the order of the writes keep a second drafts.create from happening.     *)
THEOREM OneDraftPerMessage == Spec => []DraftedOnce
<1>1. IInv => DraftedOnce
  <2> SUFFICES ASSUME IInv, NEW m \in Messages \ exposed
               PROVE  \A d, e \in LiveDrafts(m): d = e
    BY DEF DraftedOnce
  <2>1. \/ OnlyLive(m, state[m].draft)
        \/ OnlyLive(m, plan[m].draft)
    BY DEF IInv, Accounted
  <2> QED
    BY <2>1 DEF OnlyLive
<1> QED
  BY <1>1, Invariant, PTL

(* Every run group reported as undone has none of its drafts left.         *)
THEOREM UndoIsComplete == Spec => []UndoneDraftsGone
<1>1. IInv => UndoneDraftsGone
  BY DEF IInv
<1> QED
  BY <1>1, Invariant, PTL

(* A draft the saved state names is in the draft log, and in a journal     *)
(* whose undo would still trash it: drafts are logged and journaled before *)
(* they are recorded, and a resumed chunk writes over no entry that is     *)
(* still needed (DraftLog, RollbackJournal.record_draft,                   *)
(* DailyState.record_draft).                                               *)
THEOREM RecordedDraftsAreUndoable == Spec => []RecordedDraftUndoable
<1>1. IInv => RecordedDraftUndoable
  <2> SUFFICES ASSUME IInv, NEW m \in Messages, NEW d, d = state[m].draft,
                      d # NoDraft, d # LegacyDraft, Live(d)
               PROVE  /\ d \in log
                      /\ \E g \in Groups \ undone:
                           journal[g][m].draft = d /\ ~journal[g][m].draftUndone
    BY DEF RecordedDraftUndoable
  <2>1. PICK g \in Groups: d \in log /\ journal[g][m].draft = d
    BY DEF IInv, Undoable, Secured, Needed, Kept, Dead
  <2>2. g \notin undone
    BY <2>1 DEF IInv, UndoneDraftsGone
  <2>3. ~journal[g][m].draftUndone
    BY <2>1 DEF IInv, Progress
  <2> QED
    BY <2>1, <2>2, <2>3
<1> QED
  BY <1>1, Invariant, PTL

(* Whatever fails, the processed label goes only to a message whose reply  *)
(* the saved state already names (execute_daily_plan: record_draft comes   *)
(* before labels_to_add is applied, and a failed draft adds no mark).      *)
THEOREM ProcessedOnlyWithDraft == Spec => ProcessedAfterDraft
<1>1. TypeOK /\ IInv =>
        \A m \in Messages:
          pc[m] = "label" /\ pc'[m] = "labelled" /\ plan[m].template =>
            (Processed \in LabelsToAdd(m) =>
               /\ state[m].draft # NoDraft
               /\ state[m].draft = plan[m].draft)
  <2> SUFFICES ASSUME TypeOK, IInv, NEW m \in Messages, pc[m] = "label", plan[m].template,
                      Processed \in LabelsToAdd(m)
               PROVE  state[m].draft # NoDraft /\ state[m].draft = plan[m].draft
    OBVIOUS
  <2>1. plan[m].adds \subseteq TopicLabels
    BY DEF TypeOK, Plan
  <2>2. ~plan[m].err
    BY <2>1, LabelsAssumption DEF LabelsToAdd
  <2> QED
    BY <2>2 DEF IInv, Settling, Grounded
<1> QED
  BY <1>1, TypeCorrect, Invariant, PTL DEF ProcessedAfterDraft

(* The day is marked done only when every message of the mailbox is        *)
(* complete or labelled, and owns its draft alone where drafting is        *)
(* account-wide; the only ones left out are those a scan may not read, and *)
(* those a retry was not about (should_mark_daily_complete,                *)
(* select_candidates, reconcile_existing_drafts,                           *)
(* already_processed_for_draft_policy).                                    *)
THEOREM DoneDaysAreHandled == Spec => DailyDoneMeansHandled
<1>1. TypeOK /\ IInv /\ [Next]_vars =>
        (dailyDone' /\ ~dailyDone =>
           \A m \in Messages:
             \/ Handled(m)
             \/ pc[m] = "none" /\ (kind = "retry" \/ PastReadLimit(m)))
  <2> SUFFICES ASSUME TypeOK, IInv, [Next]_vars, dailyDone', ~dailyDone,
                      NEW m \in Messages
               PROVE  \/ Handled(m)
                      \/ pc[m] = "none" /\ (kind = "retry" \/ PastReadLimit(m))
    OBVIOUS
  <2>1. ASSUME NEW k \in Messages, Worker(k)
        PROVE  FALSE
    BY <2>1
       DEF Worker, Begin, Enter, CreateDraft, CreateFails, CreateAnswerLost, LogDraft,
           JournalDraft, RecordDraft, PersistFails, ApplyLabels, LabelsFail, JournalLabels,
           Complete, files
  <2>2. CloseDay /\ MarksDaily
    BY <2>1, StepCases
       DEF Outer, StartRun, Refresh, RunEnd, FinishJournal, CloseDay, ReportRun,
           FinishCancelled, StartUndo, Undo, UndoEntry, FinishUndo, MarkUndone,
           RequestCancel, Crash, NewDay, OwnerRemovesDraft, vars, files
  <2>3. \A k \in Messages: pc[k] \in {"none", "skipped", "done"}
    <3> SUFFICES ASSUME NEW k \in Messages
                 PROVE  pc[k] \in {"none", "skipped", "done"}
      OBVIOUS
    <3>1. proc # "writing" /\ pc[k] \notin {"failed", "deferred"}
      BY <2>2 DEF CloseDay, MarksDaily
    <3>2. /\ pc[k] \notin Busy \cup Waiting \cup {"entry"}
          /\ pc[k] \notin {"restored", "kept"}
      BY <2>2, SettlesPositions DEF Settles, CloseDay, IInv
    <3>3. pc[k] # "cancelled"
      BY <3>1 DEF IInv, Settling, Grounded
    <3> QED
      BY <3>1, <3>2, <3>3 DEF TypeOK, Position, Settled
  <2>4. CASE pc[m] # "none"
    BY <2>3, <2>4 DEF IInv, Settling, Grounded
  <2>5. CASE pc[m] = "none" /\ kind # "retry"
    <3>1. kind \in {"daily", "forced"} /\ proc \in {"selected", "closing"}
      BY <2>2, <2>5 DEF CloseDay, MarksDaily, TypeOK, RunKinds
    <3>2. Cardinality(Taken(m)) >= CandidateLimit
      BY <2>5, <3>1 DEF IInv, Settling, ReadInOrder
    <3>3. Taken(m) = {k \in Messages: Before(k, m) /\ pc[k] = "done"}
      BY <2>3 DEF Taken
    <3> QED
      BY <2>5, <3>2, <3>3 DEF PastReadLimit
  <2> QED
    BY <2>4, <2>5
<1> QED
  BY <1>1, TypeCorrect, Invariant, PTL DEF DailyDoneMeansHandled, Spec
==============================================================================
