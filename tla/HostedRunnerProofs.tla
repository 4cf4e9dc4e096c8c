-------------------------- MODULE HostedRunnerProofs --------------------------
(***************************************************************************)
(* Theorems about HostedRunner, for every length of the history, size of   *)
(* a pass and of the queue, and whatever the owner and the disturbances do.*)
(***************************************************************************)
EXTENDS HostedRunner, FiniteSetTheorems, SequenceTheorems, TLAPS

LEMMA MessagesFinite ==
  /\ IsFiniteSet(Messages) /\ Messages \subseteq Nat
  /\ \A S \in SUBSET Messages: IsFiniteSet(S) /\ Cardinality(S) \in Nat
<1>1. IsFiniteSet(Messages)
  BY FS_Interval, SizesAssumption DEF Messages
<1>2. \A S \in SUBSET Messages: IsFiniteSet(S) /\ Cardinality(S) \in Nat
  BY <1>1, FS_Subset, FS_CardinalityType
<1> QED
  BY <1>1, <1>2, SizesAssumption DEF Messages

(* Taking a group out of the order of the journals leaves an order.        *)
LEMMA WithoutTyped ==
  ASSUME journals \in Seq(Groups), NEW g
  PROVE  Without(g) \in Seq(Groups)
<1>1. CASE g \in Journaled
  <2>1. Place(g) \in 1..Len(journals)
    BY <1>1 DEF Journaled, Place
  <2>2. SubSeq(journals, 1, Place(g) - 1) \in Seq(Groups)
    BY <2>1, SubSeqProperties
  <2>3. SubSeq(journals, Place(g) + 1, Len(journals)) \in Seq(Groups)
    BY <2>1, SubSeqProperties
  <2> QED
    BY <1>1, <2>2, <2>3, ConcatProperties DEF Without
<1>2. CASE g \notin Journaled
  BY <1>2 DEF Without
<1> QED
  BY <1>1, <1>2

LEMMA RecordedTyped ==
  ASSUME journals \in Seq(Groups), NEW g \in Groups \cup {NoGroup}
  PROVE  Recorded(g) \in Seq(Groups)
BY WithoutTyped, AppendProperties DEF Recorded

LEMMA LatestTyped ==
  ASSUME journals \in Seq(Groups)
  PROVE  Latest \in Groups \cup {NoGroup}
BY DEF Latest

LEMMA UpdatedTyped ==
  ASSUME retries \in [Messages -> Entry], NEW F, NEW C, NEW q \in Updated(F, C)
  PROVE  q \in [Messages -> Entry]
<1>1. Attempted(F, C) \in [Messages -> Entry]
  BY SizesAssumption DEF Attempted, Entry, NoEntry, AtMost
<1>2. NoEntry \in Entry
  BY SizesAssumption DEF NoEntry, Entry
<1>3. PICK S: q = [m \in Messages |->
                     IF m \in S THEN Attempted(F, C)[m] ELSE NoEntry]
  BY DEF Updated
<1> QED
  BY <1>1, <1>2, <1>3

LEMMA ChunkTyped ==
  ASSUME backfill \in Backfill
  PROVE  Chunk \subseteq Messages
BY SizesAssumption DEF Chunk, Backfill, NoBackfill, Messages, AtMost

LEMMA StatusTyped ==
  ASSUME TypeOK, NEW o \in {"running", "success", "failed", "cancelled"},
         Report(o)
  PROVE  status' \in Status /\ orphaned' \in BOOLEAN
<1>1. runner.group \in Groups \cup {NoGroup}
  BY DEF TypeOK, Runner, Active, Idle
<1> QED
  BY <1>1 DEF Report, Status

LEMMA RunnerActive ==
  ASSUME TypeOK, ~At("idle")
  PROVE  runner \in Active
BY DEF TypeOK, Runner, Idle, At

(* The cancel file and what the model remembers of it have their types.    *)
StoppingTyped == /\ cancelFile \in {"no", NoGroup} \cup Groups
                 /\ astray \in BOOLEAN

LEMMA StoppingStays ==
  ASSUME TypeOK
  PROVE  /\ StoppingTyped
         /\ UNCHANGED stopping \/ Discard => StoppingTyped'
BY DEF TypeOK, StoppingTyped, stopping, Discard, DiscardCancel, DiscardFails

(* Steps of the runner that only move on, leave or end.                    *)
LEMMA MovesTyped ==
  ASSUME TypeOK
  PROVE  /\ \A s \in Steps: ~At("idle") /\ Goto(s)
              => runner' \in Runner /\ StoppingTyped'
         /\ Leave \/ End => runner' \in Runner /\ StoppingTyped'
<1>1. ASSUME NEW s \in Steps, ~At("idle"), Goto(s)
      PROVE  runner' \in Runner /\ StoppingTyped'
  <2>1. runner' \in Active
    BY <1>1, RunnerActive DEF Goto, Active
  <2> QED
    BY <1>1, <2>1, StoppingStays DEF Goto, Runner
<1>2. ASSUME Leave PROVE StoppingTyped'
  BY <1>2 DEF TypeOK, Leave, StoppingTyped
<1>3. ASSUME End PROVE StoppingTyped'
  BY <1>3, StoppingStays DEF End
<1> QED
  BY <1>1, <1>2, <1>3 DEF Leave, End, Runner

LEMMA HandlesTyped ==
  ASSUME TypeOK, NEW S \in SUBSET Messages, Handles(S)
  PROVE  handled' \in SUBSET Messages /\ journals' \in Seq(Groups)
<1>1. runner.group \in Groups \cup {NoGroup}
  BY DEF TypeOK, Runner, Active, Idle
<1> QED
  BY <1>1, RecordedTyped DEF TypeOK, Handles

LEMMA ScannedTyped ==
  ASSUME TypeOK, NEW S \in Scanned
  PROVE  S \in SUBSET Messages
BY DEF TypeOK, Scanned, Runner, Active, Idle

LEMMA TypeInit == Init => TypeOK
<1> SUFFICES ASSUME Init PROVE TypeOK
  OBVIOUS
<1>1. retries \in [Messages -> Entry]
  BY SizesAssumption DEF Init, Entry, NoEntry
<1>2. status \in Status
  BY DEF Init, Status
<1>3. journals \in Seq(Groups)
  BY DEF Init
<1>4. lastDone \in 0..MaxDays /\ day \in 1..MaxDays
  BY BoundsAssumption DEF Init
<1> QED
  BY <1>1, <1>2, <1>3, <1>4
     DEF Init, TypeOK, Request, Backfill, Runner

(* What is left to show of a step of the runner.                           *)
LEMMA StepTyped ==
  ASSUME TypeOK, UNCHANGED outside,
         pending' \in {"none", "good", "outdated"},
         runner' \in Runner, StoppingTyped',
         status' \in Status, orphaned' \in BOOLEAN,
         backfill' \in Backfill, retries' \in [Messages -> Entry],
         journals' \in Seq(Groups), lastDone' \in 0..MaxDays,
         handled' \in SUBSET Messages, passed' \in SUBSET Messages,
         trouble' \in Nat
  PROVE  TypeOK'
BY DEF TypeOK, StoppingTyped, outside, clock

LEMMA TroubleTyped ==
  ASSUME TypeOK, Calm \/ \E kind: Happens(kind)
  PROVE  trouble' \in Nat
BY DEF TypeOK, Calm, Happens

LEMMA TypeDecide == TypeOK /\ Decide => TypeOK'
<1> SUFFICES ASSUME TypeOK, Decide PROVE TypeOK'
  OBVIOUS
<1>1. ~At("idle")
  BY DEF Decide, At
<1>2. runner' \in Runner /\ StoppingTyped'
  <2>1. CASE Leave
    BY <2>1, MovesTyped
  <2>2. CASE /\ UNCHANGED <<shown, stopping>>
             /\ \E ids \in RetrySelections:
                  runner' = [runner EXCEPT
                    !.pc = "connect", !.kind = Choice, !.asked = Forced,
                    !.ids = IF Choice = "retry" THEN ids ELSE {}]
    <3>1. Choice \in Kinds
      BY DEF Choice, Forced, Kinds, Scopes
    <3>0. Forced \in BOOLEAN /\ "connect" \in Steps
      BY DEF Forced, Steps
    <3>2. RetrySelections \subseteq SUBSET Messages
      BY DEF RetrySelections, Ripe, Queued
    <3>3. runner' \in Active
      <4>1. runner \in Active
        BY <1>1, RunnerActive
      <4>2. PICK ids \in SUBSET Messages:
               runner' = [runner EXCEPT
                 !.pc = "connect", !.kind = Choice, !.asked = Forced,
                 !.ids = IF Choice = "retry" THEN ids ELSE {}]
        BY <2>2, <3>2
      <4> QED
        BY <4>1, <4>2, <3>0, <3>1 DEF Active
    <3> QED
      BY <2>2, <3>3, StoppingStays DEF Runner
  <2> QED
    BY <2>1, <2>2 DEF Decide
<1>3. status' \in Status /\ orphaned' \in BOOLEAN
  BY StatusTyped DEF Decide, shown, TypeOK
<1>4. UNCHANGED <<outside, pending, backfill, retries, mail,
                  passed, trouble>>
  BY DEF Decide
<1> QED
  BY <1>2, <1>3, <1>4, StepTyped DEF TypeOK, mail

LEMMA TypeConnect == TypeOK /\ Connect => TypeOK'
<1> SUFFICES ASSUME TypeOK, Connect PROVE TypeOK'
  OBVIOUS
<1>1. ~At("idle")
  BY DEF Connect, At
<1>2. runner' \in Runner /\ StoppingTyped'
  <2>1. CASE Leave
    BY <2>1, MovesTyped
  <2>2. CASE /\ UNCHANGED <<shown, stopping>>
             /\ \E g \in NewGroup:
                  runner' = [runner EXCEPT !.group = g, !.pc = FirstStep]
    <3>1. NewGroup \subseteq Groups \cup {NoGroup}
      <4>1. runner.group \in Groups \cup {NoGroup}
        BY DEF TypeOK, Runner, Active, Idle
      <4>2. backfill.group \in Groups \cup {NoGroup}
        BY DEF TypeOK, Backfill, NoBackfill
      <4> QED
        BY <4>1, <4>2 DEF NewGroup, Fresh
    <3>2. FirstStep \in Steps
      BY DEF FirstStep, Work, Steps
    <3>3. runner' \in Active
      BY <1>1, <2>2, <3>1, <3>2, RunnerActive DEF Active
    <3> QED
      BY <2>2, <3>3, StoppingStays DEF Runner
  <2> QED
    BY <2>1, <2>2 DEF Connect
<1>3. status' \in Status /\ orphaned' \in BOOLEAN
  BY StatusTyped DEF Connect, shown, TypeOK
<1>4. trouble' \in Nat
  BY TroubleTyped DEF Connect
<1>5. UNCHANGED <<outside, pending, backfill, retries, mail,
                  passed>>
  BY DEF Connect
<1> QED
  BY <1>2, <1>3, <1>4, <1>5, StepTyped DEF TypeOK, mail

LEMMA TypeUndoStarts == TypeOK /\ UndoStarts => TypeOK'
<1> SUFFICES ASSUME TypeOK, UndoStarts PROVE TypeOK'
  OBVIOUS
<1>1. runner' \in Runner /\ StoppingTyped'
  BY MovesTyped DEF UndoStarts, At, Steps
<1>2. status' \in Status /\ orphaned' \in BOOLEAN
  BY StatusTyped DEF UndoStarts
<1>3. UNCHANGED <<outside, pending, backfill, retries, mail,
                  passed, trouble>>
  BY DEF UndoStarts
<1> QED
  BY <1>1, <1>2, <1>3, StepTyped DEF TypeOK, mail

LEMMA TypeUndoEnds == TypeOK /\ UndoEnds => TypeOK'
<1> SUFFICES ASSUME TypeOK, UndoEnds PROVE TypeOK'
  OBVIOUS
<1>1. runner' \in Runner /\ StoppingTyped'
  BY MovesTyped DEF UndoEnds
<1>2. status' \in Status /\ orphaned' \in BOOLEAN
  BY StatusTyped DEF UndoEnds
<1>3. trouble' \in Nat
  BY TroubleTyped DEF UndoEnds
<1>4. /\ lastDone' \in 0..MaxDays /\ handled' \in SUBSET Messages
      /\ passed' \in SUBSET Messages
  <2>1. CASE Reopened
    BY <2>1, BoundsAssumption DEF TypeOK, Reopened
  <2>2. CASE UNCHANGED <<mail, passed>>
    BY <2>2 DEF TypeOK, mail
  <2> QED
    BY <2>1, <2>2 DEF UndoEnds
<1>5. journals' \in Seq(Groups)
  BY WithoutTyped DEF UndoEnds, mail, TypeOK
<1>6. UNCHANGED <<outside, pending, backfill, retries>>
  BY DEF UndoEnds
<1> QED
  BY <1>1, <1>2, <1>3, <1>4, <1>5, <1>6, StepTyped DEF TypeOK

LEMMA TypeLabels == TypeOK /\ Labels => TypeOK'
<1> SUFFICES ASSUME TypeOK, Labels PROVE TypeOK'
  OBVIOUS
<1>1. runner' \in Runner /\ StoppingTyped'
  <2>1. Work \in Steps
    BY DEF Work, Steps
  <2> QED
    BY <2>1, MovesTyped DEF Labels, At
<1>2. status' \in Status /\ orphaned' \in BOOLEAN
  BY StatusTyped DEF Labels, TypeOK, shown
<1>3. trouble' \in Nat
  BY TroubleTyped DEF Labels
<1>4. pending' \in {"none", "good", "outdated"}
  BY DEF Labels, TypeOK
<1>5. UNCHANGED <<outside, backfill, retries, mail, passed>>
  BY DEF Labels
<1> QED
  BY <1>1, <1>2, <1>3, <1>4, <1>5, StepTyped DEF TypeOK, mail

LEMMA TypePreflightStarts == TypeOK /\ PreflightStarts => TypeOK'
<1> SUFFICES ASSUME TypeOK, PreflightStarts PROVE TypeOK'
  OBVIOUS
<1>1. runner' \in Runner /\ StoppingTyped'
  BY MovesTyped DEF PreflightStarts, At, Steps
<1>2. status' \in Status /\ orphaned' \in BOOLEAN
  BY StatusTyped DEF PreflightStarts
<1>3. UNCHANGED <<outside, pending, backfill, retries, mail,
                  passed, trouble>>
  BY DEF PreflightStarts
<1> QED
  BY <1>1, <1>2, <1>3, StepTyped DEF TypeOK, mail

LEMMA TypePreflightEnds == TypeOK /\ PreflightEnds => TypeOK'
<1> SUFFICES ASSUME TypeOK, PreflightEnds PROVE TypeOK'
  OBVIOUS
<1>1. runner' \in Runner /\ StoppingTyped'
  BY MovesTyped DEF PreflightEnds, NothingFound, At, Steps
<1>2. status' \in Status /\ orphaned' \in BOOLEAN
  BY StatusTyped DEF PreflightEnds, NothingFound, TypeOK, shown
<1>3. trouble' \in Nat
  BY TroubleTyped DEF PreflightEnds, NothingFound
<1>4. backfill' \in Backfill
  <2>1. CASE UNCHANGED backfill
    BY <2>1 DEF TypeOK
  <2>2. ASSUME NEW n \in 1..runner.count,
               backfill' = [group |-> runner.group, count |-> n, next |-> 0]
        PROVE  backfill' \in Backfill
    <3>1. /\ runner.group \in Groups \cup {NoGroup}
          /\ runner.count \in 0..Newest
      BY SizesAssumption DEF TypeOK, Runner, Active, Idle
    <3>2. n \in Messages /\ 0 \in 0..Newest
      BY <3>1, SizesAssumption DEF Messages
    <3> QED
      BY <2>2, <3>1, <3>2 DEF Backfill
  <2> QED
    BY <2>1, <2>2 DEF PreflightEnds, NothingFound
<1>5. UNCHANGED <<outside, pending, retries, mail, passed>>
  BY DEF PreflightEnds, NothingFound
<1> QED
  BY <1>1, <1>2, <1>3, <1>4, <1>5, StepTyped DEF TypeOK, mail

LEMMA TypeRunStarts == TypeOK /\ RunStarts => TypeOK'
<1> SUFFICES ASSUME TypeOK, RunStarts PROVE TypeOK'
  OBVIOUS
<1>1. runner' \in Active
  <2>1. runner \in Active
    BY RunnerActive DEF RunStarts, At
  <2>2. (IF At("chunk") THEN Chunk ELSE runner.ids) \in SUBSET Messages
    BY <2>1, ChunkTyped DEF TypeOK, Active
  <2>3. "daily" \in Steps /\ day \in 0..MaxDays
    BY BoundsAssumption DEF TypeOK, Steps
  <2>4. runner' = [runner EXCEPT
          !.pc = "daily", !.day = day, !.stop = cancelFile # "no",
          !.ids = IF At("chunk") THEN Chunk ELSE @]
    BY DEF RunStarts
  <2> QED
    BY <2>1, <2>2, <2>3, <2>4 DEF Active
<1>2. status' \in Status /\ orphaned' \in BOOLEAN
  BY StatusTyped DEF RunStarts
<1>3. UNCHANGED <<outside, pending, stopping, backfill, retries,
                  mail, passed, trouble>>
  BY DEF RunStarts
<1> QED
  BY <1>1, <1>2, <1>3, StoppingStays, StepTyped DEF TypeOK, mail, Runner

LEMMA TypeRunFinishes == TypeOK /\ RunFinishes => TypeOK'
<1> SUFFICES ASSUME TypeOK, RunFinishes PROVE TypeOK'
  OBVIOUS
<1>0. PICK S \in Scanned: \E failed \in SUBSET S:
        /\ IF failed = {} THEN Calm ELSE Happens("messages")
        /\ Handles(S \ failed)
        /\ lastDone' = IF IsHistory \/ failed # {} THEN lastDone ELSE runner.day
        /\ Report(IF failed = {} THEN "success" ELSE "failed")
        /\ runner' = [runner EXCEPT !.pc = "settle", !.ids = S,
                                    !.failed = failed]
  BY Zenon DEF RunFinishes
<1>1. PICK failed \in SUBSET S:
        /\ IF failed = {} THEN Calm ELSE Happens("messages")
        /\ Handles(S \ failed)
        /\ lastDone' = IF IsHistory \/ failed # {} THEN lastDone ELSE runner.day
        /\ Report(IF failed = {} THEN "success" ELSE "failed")
        /\ runner' = [runner EXCEPT !.pc = "settle", !.ids = S,
                                    !.failed = failed]
  BY <1>0, Zenon
<1>2. runner \in Active
  BY RunnerActive DEF RunFinishes, At
<1>3. S \in SUBSET Messages /\ failed \in SUBSET Messages
  BY ScannedTyped
<1>4. runner' \in Runner
  BY <1>1, <1>2, <1>3 DEF Active, Steps, Runner
<1>5. handled' \in SUBSET Messages /\ journals' \in Seq(Groups)
  BY <1>1, <1>3, HandlesTyped
<1>6. lastDone' \in 0..MaxDays
  BY <1>1, <1>2 DEF TypeOK, Active
<1>7. status' \in Status /\ orphaned' \in BOOLEAN
  BY <1>1, StatusTyped
<1>8. trouble' \in Nat
  BY <1>1, TroubleTyped
<1>9. UNCHANGED <<outside, pending, stopping, backfill, retries,
                  passed>>
  BY DEF RunFinishes
<1> QED
  BY <1>4, <1>5, <1>6, <1>7, <1>8, <1>9, StoppingStays, StepTyped DEF TypeOK

LEMMA TypeRunCancelled == TypeOK /\ RunCancelled => TypeOK'
<1> SUFFICES ASSUME TypeOK, RunCancelled PROVE TypeOK'
  OBVIOUS
<1>1. runner \in Active
  BY RunnerActive DEF RunCancelled, At
<1>2. runner' \in Runner
  BY <1>1 DEF RunCancelled, Active, Steps, Runner
<1>3. handled' \in SUBSET Messages /\ journals' \in Seq(Groups)
  <2>1. PICK S \in Scanned: \E done \in SUBSET S: Handles(done)
    BY DEF RunCancelled
  <2>2. PICK done \in SUBSET S: Handles(done)
    BY <2>1
  <2> QED
    BY <2>2, ScannedTyped, HandlesTyped
<1>4. status' \in Status /\ orphaned' \in BOOLEAN
  BY StatusTyped DEF RunCancelled
<1>5. UNCHANGED <<outside, pending, stopping, backfill, retries,
                  lastDone, passed, trouble>>
  BY DEF RunCancelled
<1> QED
  BY <1>2, <1>3, <1>4, <1>5, StoppingStays, StepTyped
     DEF TypeOK

LEMMA TypeRunBreaks == TypeOK /\ RunBreaks => TypeOK'
<1> SUFFICES ASSUME TypeOK, RunBreaks PROVE TypeOK'
  OBVIOUS
<1>1. runner \in Active
  BY RunnerActive DEF RunBreaks, At
<1>2. runner' \in Runner
  BY <1>1 DEF RunBreaks, Active, Steps, Runner
<1>3. handled' \in SUBSET Messages /\ journals' \in Seq(Groups)
  <2>1. CASE UNCHANGED <<handled, journals>>
    BY <2>1 DEF TypeOK
  <2>2. ASSUME NEW S \in Scanned, NEW done \in SUBSET S, Handles(done)
        PROVE  handled' \in SUBSET Messages /\ journals' \in Seq(Groups)
    BY <2>2, ScannedTyped, HandlesTyped
  <2> QED
    BY <2>1, <2>2 DEF RunBreaks
<1>4. trouble' \in Nat
  BY TroubleTyped DEF RunBreaks
<1>5. status' \in Status /\ orphaned' \in BOOLEAN
  BY StatusTyped DEF RunBreaks
<1>6. UNCHANGED <<outside, pending, stopping, backfill, retries,
                  lastDone, passed>>
  BY DEF RunBreaks
<1> QED
  BY <1>2, <1>3, <1>4, <1>5, <1>6, StoppingStays, StepTyped
     DEF TypeOK

LEMMA TypeSettle == TypeOK /\ Settle => TypeOK'
<1> SUFFICES ASSUME TypeOK, Settle PROVE TypeOK'
  OBVIOUS
<1>1. runner' \in Runner /\ StoppingTyped'
  BY MovesTyped DEF Settle
<1>2. retries' \in [Messages -> Entry]
  BY UpdatedTyped DEF Settle, TypeOK
<1>3. UNCHANGED <<outside, pending, backfill, shown, mail, passed, trouble>>
  BY DEF Settle
<1> QED
  BY <1>1, <1>2, <1>3, StepTyped DEF TypeOK, mail, shown

LEMMA NoBackfillTyped == NoBackfill \in Backfill
BY DEF NoBackfill, Backfill

LEMMA TypeSettleHistory == TypeOK /\ SettleHistory => TypeOK'
<1> SUFFICES ASSUME TypeOK, SettleHistory PROVE TypeOK'
  OBVIOUS
<1>1. runner' \in Runner /\ StoppingTyped'
  BY MovesTyped DEF SettleHistory, At, Steps
<1>2. retries' \in [Messages -> Entry]
  BY UpdatedTyped DEF SettleHistory, TypeOK
<1>3. backfill' \in Backfill
  BY NoBackfillTyped DEF SettleHistory, TypeOK
<1>4. UNCHANGED <<outside, pending, shown, mail, passed, trouble>>
  BY DEF SettleHistory
<1> QED
  BY <1>1, <1>2, <1>3, <1>4, StepTyped DEF TypeOK, mail, shown

LEMMA TypeAdvance == TypeOK /\ Advance => TypeOK'
<1> SUFFICES ASSUME TypeOK, Advance PROVE TypeOK'
  OBVIOUS
<1>1. Chunk \subseteq Messages /\ Cardinality(Chunk) \in Nat
  BY ChunkTyped, MessagesFinite DEF TypeOK
<1>2. runner' \in Runner /\ StoppingTyped'
  BY MovesTyped DEF Advance, At, Steps
<1>3. backfill' \in Backfill
  <2>1. backfill' = IF More THEN [backfill EXCEPT !.next = Completed]
                    ELSE NoBackfill
    BY DEF Advance
  <2>2. CASE More
    <3>1. backfill # NoBackfill
      <4>1. SUFFICES ASSUME backfill = NoBackfill PROVE FALSE
        OBVIOUS
      <4> QED
        BY <1>1, <2>2, <4>1 DEF NoBackfill, More, Completed
    <3>2. /\ backfill.count \in Messages /\ backfill.next \in 0..Newest
          /\ backfill \in [group: Groups \cup {NoGroup}, count: Messages,
                           next: 0..Newest]
      BY <3>1 DEF TypeOK, Backfill
    <3>3. Completed \in 0..Newest
      BY <1>1, <2>2, <3>2, SizesAssumption DEF Messages, More, Completed
    <3>4. backfill' = [backfill EXCEPT !.next = Completed]
      BY <2>1, <2>2
    <3> QED
      BY <3>2, <3>3, <3>4 DEF Backfill
  <2>3. CASE ~More
    BY <2>1, <2>3, NoBackfillTyped
  <2> QED
    BY <2>2, <2>3
<1>4. passed' \in SUBSET Messages
  BY <1>1 DEF Advance, TypeOK
<1>5. UNCHANGED <<outside, pending, shown, retries, mail, trouble>>
  BY DEF Advance
<1> QED
  BY <1>2, <1>3, <1>4, <1>5, StepTyped DEF TypeOK, mail, shown

LEMMA TypePublish == TypeOK /\ Publish => TypeOK'
<1> SUFFICES ASSUME TypeOK, Publish PROVE TypeOK'
  OBVIOUS
<1>1. runner' \in Runner /\ StoppingTyped'
  BY MovesTyped DEF Publish
<1>2. status' \in Status /\ orphaned' \in BOOLEAN
  BY StatusTyped DEF Publish
<1>3. UNCHANGED <<outside, pending, backfill, retries, mail,
                  passed, trouble>>
  BY DEF Publish
<1> QED
  BY <1>1, <1>2, <1>3, StepTyped DEF TypeOK, mail

LEMMA TypeCrash == TypeOK /\ Crash => TypeOK'
<1> SUFFICES ASSUME TypeOK, Crash PROVE TypeOK'
  OBVIOUS
<1>1. runner' \in Runner /\ StoppingTyped'
  BY MovesTyped DEF Crash
<1>2. handled' \in SUBSET Messages /\ journals' \in Seq(Groups)
  <2>1. CASE UNCHANGED <<handled, journals>>
    BY <2>1 DEF TypeOK
  <2>2. ASSUME NEW S \in Scanned, NEW done \in SUBSET S, Handles(done)
        PROVE  handled' \in SUBSET Messages /\ journals' \in Seq(Groups)
    BY <2>2, ScannedTyped, HandlesTyped
  <2> QED
    BY <2>1, <2>2 DEF Crash
<1>3. orphaned' \in BOOLEAN
  BY DEF Crash
<1>4. trouble' \in Nat
  BY TroubleTyped DEF Crash
<1>5. UNCHANGED <<outside, pending, backfill, status, retries,
                  lastDone, passed>>
  BY DEF Crash
<1> QED
  BY <1>1, <1>2, <1>3, <1>4, <1>5, StepTyped DEF TypeOK

LEMMA RequestTyped ==
  ASSUME request \in Request
  PROVE  /\ request.scope \in Scopes \cup {"none"}
         /\ request.group \in Groups \cup {NoGroup}
         /\ request.count \in 0..Newest
         /\ NoRequest \in Request
BY SizesAssumption DEF Request, NoRequest

LEMMA TypeStart == TypeOK /\ Start => TypeOK'
<1> SUFFICES ASSUME TypeOK, Start PROVE TypeOK'
  OBVIOUS
<1>1. runner' \in Runner
  <2>1. CASE UNCHANGED runner
    BY <2>1 DEF TypeOK
  <2>2. CASE runner' = [Idle EXCEPT
             !.pc = "decide", !.group = request.group, !.count = request.count,
             !.kind = IF request = NoRequest THEN "timer" ELSE request.scope]
    <3>1. (IF request = NoRequest THEN "timer" ELSE request.scope) \in Kinds
      BY DEF TypeOK, Request, NoRequest, Kinds
    <3>2. /\ request.group \in Groups \cup {NoGroup}
          /\ request.count \in 0..Newest
      BY RequestTyped DEF TypeOK
    <3>3. 0 \in 0..MaxDays /\ "decide" \in Steps
      BY BoundsAssumption DEF Steps
    <3> QED
      BY <2>2, <3>1, <3>2, <3>3 DEF Runner, Active, Idle
  <2> QED
    BY <2>1, <2>2 DEF Start
<1>2. status' \in Status /\ orphaned' \in BOOLEAN
  BY StatusTyped DEF Start, TypeOK, shown
<1>3. request' \in Request /\ StoppingTyped'
  BY RequestTyped, StoppingStays DEF Start, TypeOK
<1>4. UNCHANGED <<account, reading, backfill, retries, mail,
                  saving, clock, book>>
  BY DEF Start
<1> QED
  BY <1>1, <1>2, <1>3, <1>4
     DEF TypeOK, StoppingTyped, account, mail, clock, book

(* The dashboard and time leave the files of the runner alone.             *)
LEMMA DashboardTyped ==
  ASSUME TypeOK, UNCHANGED everythingElse,
         enabled' \in BOOLEAN, bundle' \in {"none", "whole", "mixed"},
         pending' \in {"none", "good", "outdated"}, request' \in Request,
         StoppingTyped', saving' \in BOOLEAN,
         reading' \in {"no", NoGroup} \cup Groups,
         orders' \in Nat, trouble' \in Nat
  PROVE  TypeOK'
BY DEF TypeOK, StoppingTyped, everythingElse, shown, mail, clock

LEMMA TypeRequests ==
  ASSUME TypeOK, \/ \E scope \in {"recent", "history"}: RequestRun(scope)
                 \/ RequestUndo \/ RequestExpires
  PROVE  TypeOK'
<1>1. request' \in Request
  <2>1. ASSUME NEW scope \in {"recent", "history"}, RequestRun(scope)
        PROVE  request' \in Request
    <3>1. PICK n \in IF scope = "history" THEN Messages ELSE {0}:
            request' = [scope |-> scope, group |-> NoGroup, count |-> n,
                        expired |-> FALSE]
      BY <2>1 DEF RequestRun
    <3>2. n \in 0..Newest
      BY SizesAssumption DEF Messages
    <3> QED
      BY <3>1, <3>2 DEF Request, Scopes
  <2>2. CASE RequestUndo
    <3>1. Latest \in Groups \cup {NoGroup} /\ 0 \in 0..Newest
      BY LatestTyped, SizesAssumption DEF TypeOK
    <3> QED
      BY <2>2, <3>1 DEF RequestUndo, Request, Scopes
  <2>3. CASE RequestExpires
    BY <2>3 DEF RequestExpires, TypeOK, Request
  <2> QED
    BY <2>1, <2>2, <2>3
<1>2. orders' \in Nat /\ trouble' \in Nat
  BY DEF RequestRun, RequestUndo, RequestExpires, Order, Happens, TypeOK
<1>3. UNCHANGED <<account, cancelling, saving, everythingElse>>
  BY DEF RequestRun, RequestUndo, RequestExpires
<1> QED
  BY <1>1, <1>2, <1>3, DashboardTyped, StoppingStays
     DEF TypeOK, account, cancelling

LEMMA TypeCancels ==
  ASSUME TypeOK, ReadRunning \/ WriteCancel
  PROVE  TypeOK'
<1>1. CASE ReadRunning
  <2>1. reading' \in {"no", NoGroup} \cup Groups
    BY <1>1 DEF ReadRunning, TypeOK, Status
  <2>2. orders' \in Nat
    BY <1>1 DEF ReadRunning, Order, TypeOK
  <2>3. UNCHANGED <<account, request, stopping, saving, everythingElse,
                    trouble>>
    BY <1>1 DEF ReadRunning
  <2> QED
    BY <2>1, <2>2, <2>3, DashboardTyped, StoppingStays DEF TypeOK, account
<1>2. CASE WriteCancel
  <2>1. StoppingTyped' /\ reading' \in {"no", NoGroup} \cup Groups
    BY <1>2 DEF WriteCancel, Another, TypeOK, StoppingTyped
  <2>2. UNCHANGED <<account, request, saving, everythingElse, orders, trouble>>
    BY <1>2 DEF WriteCancel
  <2> QED
    BY <2>1, <2>2, DashboardTyped DEF TypeOK, account
<1> QED
  BY <1>1, <1>2

LEMMA TypeSaves ==
  ASSUME TypeOK, SaveStarts \/ SaveEnds \/ SaveFails
  PROVE  TypeOK'
<1>1. enabled' \in BOOLEAN /\ saving' \in BOOLEAN
  BY DEF SaveStarts, SaveEnds, SaveFails, Pause, TypeOK
<1>2. /\ bundle' \in {"none", "whole", "mixed"}
      /\ pending' \in {"none", "good", "outdated"}
  BY DEF SaveStarts, SaveEnds, SaveFails, Pause, TypeOK
<1>3. orders' \in Nat /\ trouble' \in Nat
  BY DEF SaveStarts, SaveEnds, SaveFails, Order, Happens, TypeOK
<1>4. UNCHANGED <<request, cancelling, everythingElse>>
  BY DEF SaveStarts, SaveEnds, SaveFails
<1> QED
  BY <1>1, <1>2, <1>3, <1>4, DashboardTyped, StoppingStays
     DEF TypeOK, cancelling

LEMMA TypeTime ==
  ASSUME TypeOK, TimePasses \/ \E m \in Messages: RetryComesDue(m)
  PROVE  TypeOK'
<1>1. CASE TimePasses
  <2>1. day' \in 1..MaxDays /\ window' \in {"before", "open", "missed"}
    BY <1>1, BoundsAssumption DEF TimePasses, TypeOK
  <2>2. UNCHANGED <<account, request, cancelling, backfill, shown, retries,
                    mail, runner, saving, book>>
    BY <1>1 DEF TimePasses
  <2> QED
    BY <2>1, <2>2 DEF TypeOK, account, cancelling, stopping, shown, mail, book
<1>2. CASE \E m \in Messages: RetryComesDue(m)
  <2>1. PICK m \in Messages: RetryComesDue(m)
    BY <1>2
  <2>2. retries' \in [Messages -> Entry]
    <3>1. retries' = [retries EXCEPT ![m].due = TRUE]
      BY <2>1 DEF RetryComesDue
    <3>2. [retries[m] EXCEPT !.due = TRUE] \in Entry
      BY DEF TypeOK, Entry
    <3> QED
      BY <3>1, <3>2 DEF TypeOK
  <2>3. UNCHANGED <<account, request, cancelling, backfill, shown, mail,
                    runner, saving, clock, book>>
    BY <2>1 DEF RetryComesDue
  <2> QED
    BY <2>2, <2>3 DEF TypeOK, account, cancelling, stopping, shown, mail, clock, book
<1> QED
  BY <1>1, <1>2

LEMMA TypeStutter == TypeOK /\ UNCHANGED vars => TypeOK'
BY DEF TypeOK, vars, account, cancelling, stopping, shown, mail, clock, book

LEMMA TypeNext == TypeOK /\ [Next]_vars => TypeOK'
<1> SUFFICES ASSUME TypeOK, [Next]_vars PROVE TypeOK'
  OBVIOUS
<1>1. CASE RunnerStep
  BY <1>1, TypeDecide, TypeConnect, TypeUndoStarts, TypeUndoEnds, TypeLabels,
     TypePreflightStarts, TypePreflightEnds, TypeRunStarts, TypeRunFinishes,
     TypeRunCancelled, TypeRunBreaks, TypeSettle, TypeSettleHistory,
     TypeAdvance, TypePublish, Zenon DEF RunnerStep
<1>2. CASE Start \/ Crash
  BY <1>2, TypeStart, TypeCrash, Zenon
<1>3. CASE \/ \E scope \in {"recent", "history"}: RequestRun(scope)
           \/ RequestUndo \/ RequestExpires
  BY <1>3, TypeRequests, Zenon
<1>4. CASE ReadRunning \/ WriteCancel
  BY <1>4, TypeCancels, Zenon
<1>5. CASE SaveStarts \/ SaveEnds \/ SaveFails
  BY <1>5, TypeSaves, Zenon
<1>6. CASE TimePasses \/ \E m \in Messages: RetryComesDue(m)
  BY <1>6, TypeTime, Zenon
<1>7. CASE UNCHANGED vars
  BY <1>7, TypeStutter, Zenon
<1> QED
  BY <1>1, <1>2, <1>3, <1>4, <1>5, <1>6, <1>7, Zenon DEF Next

(* Every file of the account and every process keeps its type through all  *)
(* that the runner, the dashboard, crashes and failures do.                *)
THEOREM TypeCorrect == Spec => []TypeOK
<1> QED
  BY TypeInit, TypeNext, PTL DEF Spec

------------------------------------------------------------------------------
(* The safety properties.  First what the two sides leave to each other.   *)

Dashboard == \/ \E scope \in {"recent", "history"}: RequestRun(scope)
             \/ RequestUndo \/ RequestExpires \/ ReadRunning \/ WriteCancel
             \/ SaveStarts \/ SaveEnds \/ SaveFails \/ TimePasses
             \/ \E m \in Messages: RetryComesDue(m)

LEMMA NextSplit == [Next]_vars <=> \/ Start \/ RunnerStep \/ Crash
                                   \/ Dashboard \/ UNCHANGED vars
BY Zenon DEF Next, Dashboard

LEMMA RunnerLocks ==
  ASSUME RunnerStep \/ Crash
  PROVE  ~At("idle") /\ UNCHANGED outside
<1>1. CASE RunnerStep
  <2>1. runner.pc # "idle"
    BY <1>1 DEF RunnerStep, Decide, Connect, UndoStarts, UndoEnds, Labels,
         PreflightStarts, PreflightEnds, RunStarts, RunFinishes, RunCancelled,
         RunBreaks, Settle, SettleHistory, Advance, Publish, At
  <2>2. UNCHANGED outside
    BY <1>1, Zenon DEF RunnerStep, Decide, Connect, UndoStarts, UndoEnds,
         Labels, PreflightStarts, PreflightEnds, RunStarts, RunFinishes,
         RunCancelled, RunBreaks, Settle, SettleHistory, Advance, Publish
  <2> QED
    BY <2>1, <2>2 DEF At
<1>2. CASE Crash
  BY <1>2 DEF Crash
<1> QED
  BY <1>1, <1>2

LEMMA DashboardLeaves ==
  ASSUME Dashboard
  PROVE  /\ UNCHANGED <<backfill, shown, mail, runner, passed>>
         /\ request' = request \/ At("idle")
BY DEF Dashboard, RequestRun, RequestUndo, RequestExpires, ReadRunning,
     WriteCancel, SaveStarts, SaveEnds, SaveFails, TimePasses, RetryComesDue,
     everythingElse, mail, shown, book, LockFree

(* What each step of the runner makes of the run.                          *)
LEMMA LeavesIdle ==
  ASSUME Leave \/ End
  PROVE  /\ runner' = Idle /\ runner'.pc = "idle" /\ runner'.kind = "none"
         /\ runner'.group = NoGroup /\ runner'.failed = {}
BY DEF Leave, End, Idle

LEMMA GoesTo ==
  ASSUME TypeOK, ~At("idle"), NEW s, Goto(s)
  PROVE  /\ runner'.pc = s /\ runner'.kind = runner.kind
         /\ runner'.group = runner.group /\ runner'.ids = runner.ids
         /\ runner'.failed = runner.failed
BY RunnerActive DEF Goto, Active

LEMMA ConnectGoes ==
  ASSUME TypeOK, Connect
  PROVE  \/ Leave
         \/ /\ runner'.pc = FirstStep /\ runner'.kind = runner.kind
            /\ runner'.group \in NewGroup /\ runner'.failed = runner.failed
<1>1. runner \in Active
  BY RunnerActive DEF Connect, At
<1>2. CASE \E g \in NewGroup:
            runner' = [runner EXCEPT !.group = g, !.pc = FirstStep]
  BY <1>1, <1>2 DEF Active
<1> QED
  BY <1>2, Zenon DEF Connect

LEMMA LockedInit == Init => Locked
BY DEF Init, Locked, At, Idle

LEMMA LockedNext == Locked /\ [Next]_vars => Locked'
<1> SUFFICES ASSUME Locked, [Next]_vars PROVE Locked'
  OBVIOUS
<1>1. CASE RunnerStep \/ Crash
  BY <1>1, RunnerLocks DEF Locked, outside
<1>2. CASE Start
  BY <1>2 DEF Start, Locked
<1>3. CASE Dashboard
  <2>1. UNCHANGED runner
    BY <1>3, DashboardLeaves
  <2>2. saving' => At("idle") /\ ~enabled'
    BY <1>3 DEF Dashboard, RequestRun, RequestUndo, RequestExpires,
         ReadRunning, WriteCancel, SaveStarts, SaveEnds, SaveFails,
         TimePasses, RetryComesDue, account, LockFree, Locked, Pause
  <2>3. request' # NoRequest => At("idle")
    BY <1>3, DashboardLeaves DEF Locked
  <2> QED
    BY <2>1, <2>2, <2>3 DEF Locked, At
<1>4. CASE UNCHANGED vars
  BY <1>4 DEF vars, account, Locked, At
<1> QED
  BY <1>1, <1>2, <1>3, <1>4, NextSplit

LEMMA PhasesInit == Init => Phases
BY DEF Init, Phases, Idle

LEMMA PhasesNext == TypeOK /\ Phases /\ [Next]_vars => Phases'
<1> SUFFICES ASSUME TypeOK, Phases, [Next]_vars PROVE Phases'
  OBVIOUS
<1>1. CASE Start
  <2>1. CASE UNCHANGED runner
    BY <2>1 DEF Phases
  <2>2. CASE runner'.pc = "decide"
    BY <2>2 DEF Phases
  <2> QED
    BY <1>1, <2>1, <2>2 DEF Start, Idle
<1>2. CASE RunnerStep
  <2>1. ~At("idle") /\ runner \in Active
    BY <1>2, RunnerLocks, RunnerActive
  <2>2. CASE Leave \/ End
    BY <2>2, LeavesIdle DEF Phases
  <2>3. CASE Decide
    <3>1. runner'.pc = "connect"  \/ Leave
      BY <2>1, <2>3 DEF Decide, Active
    <3> QED
      BY <2>2, <3>1 DEF Phases
  <2>4. CASE Connect
    <3>1. Leave \/ (runner'.pc = FirstStep /\ runner'.kind = runner.kind)
      BY <2>1, <2>4, ConnectGoes
    <3> QED
      BY <2>2, <3>1 DEF Phases, FirstStep, Work
  <2>5. CASE Labels
    <3>1. Leave \/ Goto(Work)
      BY <2>5 DEF Labels
    <3>2. Leave \/ (runner'.pc = Work /\ runner'.kind = runner.kind)
      BY <2>1, <3>1, GoesTo
    <3>3. runner.kind # "rollback"
      BY <2>5 DEF Labels, Phases, At
    <3> QED
      BY <2>2, <3>2, <3>3 DEF Phases, Work
  <2>6. CASE UndoStarts \/ UndoEnds
    <3>1. Leave \/ (runner'.pc = "undoing" /\ runner'.kind = runner.kind)
      BY <2>1, <2>6, GoesTo DEF UndoStarts, UndoEnds
    <3> QED
      BY <2>2, <2>6, <3>1 DEF Phases, UndoStarts, UndoEnds, At
  <2>7. CASE PreflightStarts \/ PreflightEnds
    <3>1. End \/ (runner'.pc \in {"list", "chunk"} /\ runner'.kind = runner.kind)
      BY <2>1, <2>7, GoesTo DEF PreflightStarts, PreflightEnds, NothingFound
    <3> QED
      BY <2>2, <2>7, <3>1 DEF Phases, PreflightStarts, PreflightEnds, At
  <2>8. CASE RunStarts \/ RunFinishes \/ RunCancelled \/ RunBreaks
    <3>1. runner'.pc \in {"daily", "settle"} /\ runner'.kind = runner.kind
      BY <2>1, <2>8
         DEF RunStarts, RunFinishes, RunCancelled, RunBreaks, Active
    <3> QED
      BY <2>8, <3>1
         DEF Phases, RunStarts, RunFinishes, RunCancelled, RunBreaks, At
  <2>9. CASE Settle \/ SettleHistory \/ Advance \/ Publish
    <3>1. End \/ (/\ runner'.pc \in {"advance", "publish"}
                  /\ runner'.kind = runner.kind)
      BY <2>1, <2>9, GoesTo DEF Settle, SettleHistory, Advance, Publish
    <3> QED
      BY <2>2, <2>9, <3>1
         DEF Phases, Settle, SettleHistory, Advance, Publish, At
  <2> QED
    BY <1>2, <2>3, <2>4, <2>5, <2>6, <2>7, <2>8, <2>9, Zenon DEF RunnerStep
<1>3. CASE Crash
  BY <1>3, LeavesIdle DEF Crash, Phases
<1>4. CASE Dashboard
  BY <1>4, DashboardLeaves DEF Phases
<1>5. CASE UNCHANGED vars
  BY <1>5 DEF vars, Phases
<1> QED
  BY <1>1, <1>2, <1>3, <1>4, <1>5, NextSplit

LEMMA AloneInit == Init => HistoryAlone
BY DEF Init, HistoryAlone, NoRequest, Idle

LEMMA AloneNext ==
  TypeOK /\ Locked /\ Phases /\ HistoryAlone /\ [Next]_vars => HistoryAlone'
<1> SUFFICES ASSUME TypeOK, Locked, Phases, HistoryAlone, [Next]_vars
             PROVE  HistoryAlone'
  OBVIOUS
<1>1. CASE Start
  <2>1. request'.scope = "none" /\ backfill' = backfill
    BY <1>1 DEF Start, NoRequest
  <2>2. CASE UNCHANGED runner
    BY <2>1, <2>2 DEF HistoryAlone
  <2>3. CASE runner'.kind = IF request = NoRequest THEN "timer"
                            ELSE request.scope
    BY <2>1, <2>3 DEF HistoryAlone
  <2> QED
    BY <1>1, <2>2, <2>3 DEF Start, Idle
<1>2. CASE RunnerStep
  <2>1. ~At("idle") /\ runner \in Active
    BY <1>2, RunnerLocks, RunnerActive
  <2>2. request'.scope = "none"
    BY <1>2, <2>1, RunnerLocks DEF Locked, outside, NoRequest
  <2>3. CASE Leave \/ End
    BY <2>2, <2>3, LeavesIdle DEF HistoryAlone
  <2>4. CASE Decide
    <3>1. Leave \/ (runner'.pc = "connect" /\ runner'.kind = Choice)
      BY <2>1, <2>4 DEF Decide, Active
    <3>2. runner.pc = "decide" /\ backfill' = backfill
      BY <2>4 DEF Decide, At
    <3>3. Choice \in {"history", "rollback"} => Choice = runner.kind
      BY DEF Choice
    <3> QED
      BY <2>2, <2>3, <3>1, <3>2, <3>3 DEF HistoryAlone
  <2>5. CASE Connect \/ Labels
    <3>1. Leave \/ runner'.kind = runner.kind
      BY <2>1, <2>5, ConnectGoes, GoesTo DEF Labels
    <3>2. runner.pc \in {"connect", "labels"} /\ backfill' = backfill
      BY <2>5 DEF Connect, Labels, At
    <3> QED
      BY <2>2, <2>3, <3>1, <3>2 DEF HistoryAlone
  <2>6. CASE UndoStarts \/ UndoEnds
    <3>1. Leave \/ (runner'.pc = "undoing" /\ runner'.kind = runner.kind)
      BY <2>1, <2>6, GoesTo DEF UndoStarts, UndoEnds
    <3>2. backfill' = backfill
      BY <2>6 DEF UndoStarts, UndoEnds
    <3> QED
      BY <2>2, <2>3, <3>1, <3>2 DEF HistoryAlone
  <2>7. CASE PreflightStarts
    <3>1. /\ runner'.kind = runner.kind /\ runner.pc = "preflight"
          /\ backfill' = backfill
      BY <2>1, <2>7, GoesTo DEF PreflightStarts, At
    <3> QED
      BY <2>2, <3>1 DEF HistoryAlone
  <2>8. CASE PreflightEnds
    <3>1. End \/ (runner'.pc = "chunk" /\ runner'.kind = runner.kind)
      BY <2>1, <2>8, GoesTo DEF PreflightEnds, NothingFound
    <3>2. runner.kind = "history"
      BY <2>8 DEF PreflightEnds, NothingFound, Phases, At
    <3> QED
      BY <2>2, <2>3, <3>1, <3>2 DEF HistoryAlone
  <2>9. CASE RunStarts \/ RunFinishes \/ RunCancelled \/ RunBreaks
    <3>1. runner'.pc \in {"daily", "settle"} /\ runner'.kind = runner.kind
      BY <2>1, <2>9
         DEF RunStarts, RunFinishes, RunCancelled, RunBreaks, Active
    <3>2. runner.kind # "rollback"
      BY <2>9
         DEF Phases, RunStarts, RunFinishes, RunCancelled, RunBreaks, At
    <3> QED
      BY <2>2, <3>1, <3>2 DEF HistoryAlone
  <2>10. CASE Settle \/ SettleHistory \/ Advance \/ Publish
    <3>1. End \/ (/\ runner'.pc \in {"advance", "publish"}
                  /\ runner'.kind = runner.kind)
      BY <2>1, <2>10, GoesTo DEF Settle, SettleHistory, Advance, Publish
    <3>2. runner.kind # "rollback"
      BY <2>10 DEF Phases, Settle, SettleHistory, Advance, Publish, At
    <3> QED
      BY <2>2, <2>3, <3>1, <3>2 DEF HistoryAlone
  <2> QED
    BY <1>2, <2>4, <2>5, <2>6, <2>7, <2>8, <2>9, <2>10, Zenon DEF RunnerStep
<1>3. CASE Crash
  <2>1. request' = NoRequest
    BY <1>3, RunnerLocks DEF Locked, outside
  <2> QED
    BY <1>3, <2>1, LeavesIdle DEF Crash, HistoryAlone, NoRequest
<1>4. CASE Dashboard
  <2>1. request'.scope \in {"history", "rollback"}
          => \/ request.scope \in {"history", "rollback"}
             \/ backfill = NoBackfill
    <3>1. CASE \E scope \in {"recent", "history"}: RequestRun(scope)
      BY <3>1 DEF RequestRun, NoSecondHistory
    <3>2. CASE RequestUndo
      BY <3>2 DEF RequestUndo
    <3>3. CASE RequestExpires
      BY <3>3 DEF RequestExpires, TypeOK, Request, NoRequest
    <3>4. CASE UNCHANGED request
      BY <3>4
    <3> QED
      BY <1>4, <3>1, <3>2, <3>3, <3>4
         DEF Dashboard, ReadRunning, WriteCancel, SaveStarts, SaveEnds,
             SaveFails, TimePasses, RetryComesDue
  <2> QED
    BY <1>4, <2>1, DashboardLeaves DEF HistoryAlone
<1>5. CASE UNCHANGED vars
  BY <1>5 DEF vars, HistoryAlone
<1> QED
  BY <1>1, <1>2, <1>3, <1>4, <1>5, NextSplit

LEMMA UndoInit == Init => UndoLatest /\ UndoWaits
BY DEF Init, UndoLatest, UndoWaits, NoRequest, Idle

LEMMA UndoNext ==
  /\ TypeOK /\ Locked /\ Phases /\ UndoLatest /\ UndoWaits /\ [Next]_vars
  => UndoLatest' /\ UndoWaits'
<1> SUFFICES ASSUME TypeOK, Locked, Phases, UndoLatest, UndoWaits, [Next]_vars
             PROVE  UndoLatest' /\ UndoWaits'
  OBVIOUS
<1>1. CASE Start
  <2>1. request'.scope = "none" /\ UNCHANGED journals
    BY <1>1 DEF Start, NoRequest, mail
  <2>2. Latest' = Latest
    BY <2>1 DEF Latest
  <2>3. CASE UNCHANGED runner
    BY <2>1, <2>2, <2>3 DEF UndoLatest, UndoWaits
  <2>4. CASE /\ runner'.group = request.group
             /\ runner'.kind = IF request = NoRequest THEN "timer"
                               ELSE request.scope
    BY <2>1, <2>2, <2>4 DEF UndoLatest, UndoWaits
  <2> QED
    BY <1>1, <2>3, <2>4 DEF Start, Idle
<1>2. CASE RunnerStep \/ Crash
  <2>1. ~At("idle") /\ runner \in Active
    BY <1>2, RunnerLocks, RunnerActive
  <2>2. request'.scope = "none"
    BY <1>2, <2>1, RunnerLocks DEF Locked, outside, NoRequest
  <2>3. UndoWaits'
    BY <2>2 DEF UndoWaits
  <2>4. CASE Leave \/ End
    BY <2>3, <2>4, LeavesIdle DEF UndoLatest
  <2>5. CASE runner'.kind # "rollback"
    BY <2>3, <2>5 DEF UndoLatest
  <2>6. CASE /\ runner.kind = "rollback" /\ runner'.group = runner.group
             /\ UNCHANGED journals
    BY <2>3, <2>6 DEF UndoLatest, Latest
  <2>7. CASE Decide
    <3>1. \/ Leave
          \/ runner'.kind = Choice /\ runner'.group = runner.group
      BY <2>1, <2>7 DEF Decide, Active
    <3>2. Choice = "rollback" => runner.kind = "rollback"
      BY DEF Choice
    <3>3. UNCHANGED journals
      BY <2>7 DEF Decide, mail
    <3> QED
      BY <2>4, <2>5, <2>6, <3>1, <3>2, <3>3
  <2>8. CASE Connect
    <3>1. runner.kind = "rollback" => NewGroup = {runner.group}
      BY DEF NewGroup
    <3>2. UNCHANGED journals
      BY <2>8 DEF Connect, mail
    <3> QED
      BY <2>4, <2>5, <2>6, <2>8, <3>1, <3>2, ConnectGoes
  <2>9. CASE UndoStarts \/ Labels \/ PreflightStarts \/ PreflightEnds
    <3>1. Leave \/ End \/ (/\ runner'.kind = runner.kind
                           /\ runner'.group = runner.group)
      BY <2>1, <2>9, GoesTo
         DEF UndoStarts, Labels, PreflightStarts, PreflightEnds, NothingFound
    <3>2. UNCHANGED journals
      BY <2>9 DEF UndoStarts, Labels, PreflightStarts, PreflightEnds, mail
    <3> QED
      BY <2>4, <2>5, <2>6, <3>1, <3>2
  <2>10. CASE UndoEnds \/ Crash
    BY <2>4, <2>10 DEF UndoEnds, Crash
  <2>11. CASE RunStarts \/ RunFinishes \/ RunCancelled \/ RunBreaks
    <3>1. runner'.kind = runner.kind
      BY <2>1, <2>11
         DEF RunStarts, RunFinishes, RunCancelled, RunBreaks, Active
    <3>2. runner.kind # "rollback"
      BY <2>11
         DEF Phases, RunStarts, RunFinishes, RunCancelled, RunBreaks, At
    <3> QED
      BY <2>5, <3>1, <3>2
  <2>12. CASE Settle \/ SettleHistory \/ Advance \/ Publish
    <3>1. End \/ runner'.kind = runner.kind
      BY <2>1, <2>12, GoesTo DEF Settle, SettleHistory, Advance, Publish
    <3>2. runner.kind # "rollback"
      BY <2>12 DEF Phases, Settle, SettleHistory, Advance, Publish, At
    <3> QED
      BY <2>4, <2>5, <3>1, <3>2
  <2> QED
    BY <1>2, <2>7, <2>8, <2>9, <2>10, <2>11, <2>12, Zenon DEF RunnerStep
<1>3. CASE Dashboard
  <2>1. UNCHANGED <<runner, journals>>
    BY <1>3, DashboardLeaves DEF mail
  <2>2. Latest' = Latest
    BY <2>1 DEF Latest
  <2>3. request'.scope = "rollback" => request'.group = Latest
    <3>1. CASE \E scope \in {"recent", "history"}: RequestRun(scope)
      BY <3>1 DEF RequestRun, NoSecondHistory
    <3>2. CASE RequestUndo
      BY <3>2 DEF RequestUndo
    <3>3. CASE RequestExpires
      BY <3>3 DEF RequestExpires, TypeOK, Request, NoRequest, UndoWaits
    <3>4. CASE UNCHANGED request
      BY <3>4 DEF UndoWaits
    <3> QED
      BY <1>3, <3>1, <3>2, <3>3, <3>4
         DEF Dashboard, ReadRunning, WriteCancel, SaveStarts, SaveEnds,
             SaveFails, TimePasses, RetryComesDue
  <2> QED
    BY <2>1, <2>2, <2>3 DEF UndoLatest, UndoWaits
<1>4. CASE UNCHANGED vars
  BY <1>4 DEF vars, mail, UndoLatest, UndoWaits, Latest
<1> QED
  BY <1>1, <1>2, <1>3, <1>4, NextSplit

LEMMA BundleNext ==
  TypeOK /\ Locked /\ BundleCommitted /\ [Next]_vars => BundleCommitted'
<1> SUFFICES ASSUME TypeOK, Locked, BundleCommitted, [Next]_vars
             PROVE  BundleCommitted'
  OBVIOUS
<1>1. CASE RunnerStep \/ Crash
  <2>1. UNCHANGED <<enabled, bundle>>
    BY <1>1, RunnerLocks DEF outside
  <2>2. pending' = pending \/ pending' = "none"
    BY <1>1, Zenon
       DEF RunnerStep, Crash, Decide, Connect, UndoStarts, UndoEnds, Labels,
           PreflightStarts, PreflightEnds, RunStarts, RunFinishes,
           RunCancelled, RunBreaks, Settle, SettleHistory, Advance, Publish
  <2> QED
    BY <2>1, <2>2 DEF BundleCommitted
<1>2. CASE SaveStarts \/ SaveEnds \/ SaveFails
  BY <1>2 DEF SaveStarts, SaveEnds, SaveFails, Pause, Locked, BundleCommitted
<1>3. CASE UNCHANGED account
  BY <1>3 DEF account, BundleCommitted
<1>4. UNCHANGED account \/ RunnerStep \/ Crash
      \/ SaveStarts \/ SaveEnds \/ SaveFails
  BY NextSplit, Zenon
     DEF Start, Dashboard, RequestRun, RequestUndo, RequestExpires,
         ReadRunning, WriteCancel, TimePasses, RetryComesDue, vars
<1> QED
  BY <1>1, <1>2, <1>3, <1>4

LEMMA ShownInit == Init => ShownRunning
BY DEF Init, ShownRunning, Idle

LEMMA ShownNext ==
  TypeOK /\ ShownRunning /\ [Next]_vars => ShownRunning'
<1> SUFFICES ASSUME TypeOK, ShownRunning, [Next]_vars PROVE ShownRunning'
  OBVIOUS
<1>1. CASE Start
  <2>1. \/ status'.outcome = "failed" /\ UNCHANGED runner
        \/ UNCHANGED shown /\ runner'.pc = "decide"
    <3>1. \/ Report("failed") /\ UNCHANGED runner
          \/ UNCHANGED shown /\ runner'.pc = "decide"
      BY <1>1 DEF Start, Idle
    <3> QED
      BY <3>1 DEF Report
  <2>2. backfill' = backfill /\ runner.pc = "idle"
    BY <1>1 DEF Start, At
  <2> QED
    BY <2>1, <2>2 DEF ShownRunning, shown
<1>2. CASE RunnerStep
  <2>1. ~At("idle") /\ runner \in Active
    BY <1>2, RunnerLocks, RunnerActive
  <2>2. \A o: Report(o) => status'.outcome = o
    BY DEF Report
  <2>3. CASE Decide
    <3>1. \/ Report("failed") /\ Leave
          \/ UNCHANGED shown /\ (Leave \/ runner'.pc = "connect")
      BY <2>1, <2>3 DEF Decide, Active
    <3>2. backfill' = backfill /\ runner.pc = "decide"
      BY <2>3 DEF Decide, At
    <3> QED
      BY <2>2, <3>1, <3>2, LeavesIdle DEF ShownRunning, shown
  <2>4. CASE Connect
    <3>1. \/ Report("failed") /\ Leave
          \/ UNCHANGED shown /\ (Leave \/ runner'.pc = FirstStep)
      <4>1. CASE \E g \in NewGroup:
                  runner' = [runner EXCEPT !.group = g, !.pc = FirstStep]
        <5>1. runner'.pc = FirstStep
          BY <2>1, <4>1 DEF Active
        <5>2. UNCHANGED shown \/ (Report("failed") /\ Leave)
          BY <2>4, Zenon DEF Connect
        <5> QED
          BY <5>1, <5>2
      <4> QED
        BY <2>4, <4>1, Zenon DEF Connect
    <3>2. backfill' = backfill /\ runner.pc = "connect"
      BY <2>4 DEF Connect, At
    <3>3. FirstStep \notin {"settle", "advance", "publish", "undoing", "list",
                            "daily"}
      BY DEF FirstStep, Work
    <3> QED
      BY <2>2, <3>1, <3>2, <3>3, LeavesIdle DEF ShownRunning, shown
  <2>5. CASE UndoStarts \/ PreflightStarts
    <3>1. runner'.pc \in {"undoing", "list"}
      BY <2>1, <2>5, GoesTo DEF UndoStarts, PreflightStarts
    <3> QED
      BY <3>1 DEF ShownRunning
  <2>6. CASE UndoEnds
    <3>1. Report("success") \/ Report("failed")
      BY <2>6 DEF UndoEnds
    <3> QED
      BY <2>2, <3>1 DEF ShownRunning
  <2>7. CASE Labels
    <3>1. \/ Report("failed")
          \/ UNCHANGED shown /\ (runner'.pc = "idle" \/ runner'.pc = Work)
      BY <2>1, <2>7, LeavesIdle, GoesTo DEF Labels
    <3>2. backfill' = backfill /\ runner.pc = "labels"
      BY <2>7 DEF Labels, At
    <3>3. Work \notin {"settle", "advance", "publish", "undoing", "list",
                       "daily"}
      BY DEF Work
    <3> QED
      BY <2>2, <3>1, <3>2, <3>3 DEF ShownRunning, shown
  <2>8. CASE PreflightEnds
    <3>1. \/ Report("failed") \/ Report("success")
          \/ \E n \in 1..runner.count:
               backfill' = [group |-> runner.group, count |-> n, next |-> 0]
      BY <2>8 DEF PreflightEnds, NothingFound
    <3>2. ASSUME NEW n \in 1..runner.count
          PROVE  [group |-> runner.group, count |-> n, next |-> 0] # NoBackfill
      BY <2>1 DEF NoBackfill, Active
    <3>3. runner'.pc \in {"idle", "chunk"}
      BY <2>1, <2>8, LeavesIdle, GoesTo DEF PreflightEnds, NothingFound
    <3> QED
      BY <2>2, <3>1, <3>2, <3>3 DEF ShownRunning
  <2>9. CASE RunStarts
    <3>1. runner'.pc = "daily"
      BY <2>1, <2>9 DEF RunStarts, Active
    <3> QED
      BY <3>1 DEF ShownRunning
  <2>10. CASE RunFinishes \/ RunCancelled \/ RunBreaks
    <3>1. Report("failed") \/ Report("success") \/ Report("cancelled")
      <4>1. RunFinishes => Report("failed") \/ Report("success")
        BY DEF RunFinishes
      <4> QED
        BY <2>10, <4>1, Zenon DEF RunCancelled, RunBreaks
    <3> QED
      BY <2>2, <3>1 DEF ShownRunning
  <2>11. CASE Settle \/ SettleHistory \/ Advance
    <3>1. UNCHANGED shown /\ status.outcome # "running"
      BY <2>11 DEF Settle, SettleHistory, Advance, ShownRunning, At
    <3> QED
      BY <3>1 DEF ShownRunning, shown
  <2>12. CASE Publish
    <3>1. runner'.pc = "idle" /\ backfill' = backfill
      BY <2>12, LeavesIdle DEF Publish
    <3>2. backfill = NoBackfill => status'.outcome = "success"
      BY <2>12 DEF Publish, Report
    <3> QED
      BY <3>1, <3>2 DEF ShownRunning
  <2> QED
    BY <1>2, <2>3, <2>4, <2>5, <2>6, <2>7, <2>8, <2>9, <2>10, <2>11, <2>12,
       Zenon DEF RunnerStep
<1>3. CASE Crash
  <2>1. /\ runner'.pc = "idle" /\ UNCHANGED <<backfill, status>>
        /\ orphaned' = (orphaned \/ runner.pc \in {"undoing", "list", "daily"})
    BY <1>3, LeavesIdle DEF Crash
  <2> QED
    BY <2>1 DEF ShownRunning
<1>4. CASE Dashboard
  BY <1>4, DashboardLeaves DEF ShownRunning, shown
<1>5. CASE UNCHANGED vars
  BY <1>5 DEF vars, shown, ShownRunning
<1> QED
  BY <1>1, <1>2, <1>3, <1>4, <1>5, NextSplit

(* Updating a queue that has room for every message forgets none but those *)
(* that were completed.                                                    *)
LEMMA UpdatedKeeps ==
  ASSUME TypeOK, QueueSize >= Newest,
         NEW F \in SUBSET Messages, NEW C, retries' \in Updated(F, C)
  PROVE  F \cup (Queued \ C) \subseteq Queued'
<1> DEFINE q == Attempted(F, C)
           entries == {m \in Messages: q[m].attempts > 0}
<1>1. PICK S \in SUBSET entries:
        /\ Cardinality(S) = AtMost(Cardinality(entries), QueueSize)
        /\ retries' = [m \in Messages |-> IF m \in S THEN q[m] ELSE NoEntry]
  BY DEF Updated
<1>2. IsFiniteSet(entries) /\ Cardinality(entries) <= QueueSize
  <2>1. entries \subseteq Messages
    OBVIOUS
  <2>2. Cardinality(Messages) = Newest
    BY FS_Interval, SizesAssumption DEF Messages
  <2>3. IsFiniteSet(entries) /\ Cardinality(entries) <= Cardinality(Messages)
    BY <2>1, MessagesFinite, FS_Subset
  <2>4. Cardinality(entries) \in Nat
    BY <2>3, FS_CardinalityType
  <2> QED
    BY <2>2, <2>3, <2>4, SizesAssumption
<1>3. Cardinality(S) = Cardinality(entries)
  BY <1>1, <1>2, FS_CardinalityType, SizesAssumption DEF AtMost
<1>4. S = entries
  BY <1>1, <1>2, <1>3, FS_Subset
<1>5. ASSUME NEW m \in F \cup (Queued \ C)
      PROVE  m \in Messages /\ q[m].attempts > 0
  <2>1. CASE m \in F
    <3>1. retries[m].attempts \in 0..MaxAttempts
      BY <2>1 DEF TypeOK, Entry
    <3> QED
      BY <2>1, <3>1, SizesAssumption DEF Attempted, AtMost
  <2>2. CASE m \notin F
    BY <1>5, <2>2 DEF Attempted, Queued
  <2> QED
    BY <2>1, <2>2
<1> HIDE DEF q
<1>6. ASSUME NEW m \in F \cup (Queued \ C)
      PROVE  m \in Messages /\ retries'[m].attempts > 0
  BY <1>1, <1>4, <1>5
<1> QED
  BY <1>6 DEF Queued

LEMMA PassInit == Init => PassAccounted /\ NothingDropped
BY DEF Init, PassAccounted, NothingDropped, At, Idle

LEMMA QueueStays ==
  ASSUME TypeOK, UNCHANGED retries \/ \E m \in Messages: RetryComesDue(m)
  PROVE  Queued' = Queued
<1>1. CASE UNCHANGED retries
  BY <1>1 DEF Queued
<1>2. CASE \E m \in Messages: RetryComesDue(m)
  <2>1. PICK m \in Messages: retries' = [retries EXCEPT ![m].due = TRUE]
    BY <1>2 DEF RetryComesDue
  <2>2. \A n \in Messages: retries'[n].attempts = retries[n].attempts
    BY <2>1 DEF TypeOK, Entry
  <2> QED
    BY <2>2 DEF Queued
<1> QED
  BY <1>1, <1>2

(* No pass loses a message between the queue, the backfill and the status. *)
LEMMA PassNext ==
  /\ TypeOK /\ QueueSize >= Newest /\ PassAccounted /\ NothingDropped
  /\ [Next]_vars
  => PassAccounted' /\ NothingDropped'
<1> SUFFICES ASSUME TypeOK, QueueSize >= Newest, PassAccounted, NothingDropped,
                    [Next]_vars
             PROVE  PassAccounted' /\ NothingDropped'
  OBVIOUS
<1>1. CASE /\ UNCHANGED passed /\ handled \subseteq handled' /\ Queued' = Queued
           /\ runner'.pc \notin {"daily", "settle", "advance"}
           /\ runner'.failed = {}
           /\ runner'.pc = "work" => runner'.kind \notin {"history", "resume"}
  BY <1>1 DEF PassAccounted, NothingDropped, At, IsHistory
<1>2. CASE RunnerStep
  <2>1. ~At("idle") /\ runner \in Active
    BY <1>2, RunnerLocks, RunnerActive
  <2>2. CASE Decide \/ Connect \/ Labels \/ UndoStarts \/ PreflightStarts
             \/ PreflightEnds
    <3>1. UNCHANGED <<passed, handled, retries>>
      BY <2>2, Zenon DEF Decide, Connect, Labels, UndoStarts, PreflightStarts,
                         PreflightEnds, mail
    <3>2. runner.failed = {}
      BY <2>2 DEF Decide, Connect, Labels, UndoStarts, PreflightStarts,
                  PreflightEnds, At, PassAccounted
    <3>3. CASE Leave \/ End
      BY <1>1, <3>1, <3>3, LeavesIdle, QueueStays
    <3>4. CASE /\ runner'.pc \in {"connect", "undoing", "list", "chunk"}
               /\ runner'.failed = runner.failed
      BY <1>1, <3>1, <3>2, <3>4, QueueStays
    <3>5. CASE /\ runner'.pc \in {FirstStep, Work}
               /\ runner'.kind = runner.kind /\ runner'.failed = runner.failed
      <4>1. /\ {FirstStep, Work} \cap {"daily", "settle", "advance"} = {}
            /\ "work" \in {FirstStep, Work}
                 => runner.kind \notin {"history", "resume"}
        BY DEF FirstStep, Work
      <4> QED
        BY <1>1, <3>1, <3>2, <3>5, <4>1, QueueStays
    <3>6. Decide => \/ Leave
                    \/ /\ runner'.pc = "connect"
                       /\ runner'.failed = runner.failed
      BY <2>1 DEF Decide, Active
    <3>7. Labels => \/ Leave
                    \/ /\ runner'.pc = Work /\ runner'.kind = runner.kind
                       /\ runner'.failed = runner.failed
      BY <2>1, GoesTo DEF Labels
    <3>8. UndoStarts \/ PreflightStarts \/ PreflightEnds
            => \/ End
               \/ /\ runner'.pc \in {"undoing", "list", "chunk"}
                  /\ runner'.failed = runner.failed
      BY <2>1, GoesTo
         DEF UndoStarts, PreflightStarts, PreflightEnds, NothingFound
    <3> QED
      BY <2>2, <3>3, <3>4, <3>5, <3>6, <3>7, <3>8, ConnectGoes
  <2>3. CASE UndoEnds
    <3>1. \/ UNCHANGED <<handled, passed>>
          \/ \E back: handled' = handled \ back /\ passed' = passed \ back
      BY <2>3 DEF UndoEnds, Reopened, mail
    <3>2. UNCHANGED retries /\ runner'.pc = "idle" /\ runner'.failed = {}
      BY <2>3, LeavesIdle DEF UndoEnds
    <3> QED
      BY <3>1, <3>2, QueueStays DEF PassAccounted, NothingDropped, At
  <2>4. CASE RunStarts
    <3>1. /\ runner'.pc = "daily" /\ runner'.failed = runner.failed
          /\ runner'.kind = runner.kind
          /\ At("chunk") => runner'.ids = Chunk
      BY <2>1, <2>4 DEF RunStarts, Active
    <3>2. /\ runner.failed = {}
          /\ IsHistory => At("chunk")
      BY <2>4 DEF RunStarts, PassAccounted, At
    <3>3. UNCHANGED <<passed, handled, retries, backfill>>
      BY <2>4 DEF RunStarts, mail
    <3>4. IsHistory' = IsHistory /\ Chunk' = Chunk
      BY <3>1, <3>3 DEF IsHistory, Chunk
    <3> QED
      BY <3>1, <3>2, <3>3, <3>4, QueueStays
         DEF PassAccounted, NothingDropped, At
  <2>5. CASE RunFinishes
    <3>1. PICK S \in Scanned: \E failed \in SUBSET S:
                 /\ Handles(S \ failed)
                 /\ runner' = [runner EXCEPT !.pc = "settle", !.ids = S,
                                             !.failed = failed]
      BY <2>5, Zenon DEF RunFinishes
    <3>2. PICK failed \in SUBSET S:
                 /\ Handles(S \ failed)
                 /\ runner' = [runner EXCEPT !.pc = "settle", !.ids = S,
                                             !.failed = failed]
      BY <3>1
    <3>3. /\ runner'.pc = "settle" /\ runner'.ids = S
          /\ runner'.failed = failed /\ runner'.kind = runner.kind
      BY <2>1, <3>2 DEF Active
    <3>4. handled' = handled \cup (S \ failed)
      BY <3>2 DEF Handles
    <3>5. UNCHANGED <<passed, retries, backfill>>
      BY <2>5 DEF RunFinishes
    <3>6. IsHistory' = IsHistory /\ Chunk' = Chunk
      BY <3>3, <3>5 DEF IsHistory, Chunk
    <3>7. IsHistory => S = Chunk
      BY <2>5 DEF RunFinishes, Scanned, IsHistory, PassAccounted
    <3> QED
      BY <3>3, <3>4, <3>5, <3>6, <3>7, QueueStays
         DEF PassAccounted, NothingDropped, At
  <2>6. CASE RunCancelled \/ RunBreaks
    <3>1. /\ runner'.pc = "settle" /\ runner'.ids = {}
          /\ runner'.failed = runner.failed
      BY <2>1, <2>6 DEF RunCancelled, RunBreaks, Active
    <3>2. handled \subseteq handled'
      BY <2>6 DEF RunCancelled, RunBreaks, Handles
    <3>3. UNCHANGED <<passed, retries>>
      BY <2>6 DEF RunCancelled, RunBreaks
    <3>4. status'.outcome = "cancelled" \/ Broken'
      <4>1. runner.failed = {}
        BY <2>6 DEF RunCancelled, RunBreaks, PassAccounted, At
      <4> QED
        BY <2>6, <3>1, <4>1 DEF RunCancelled, RunBreaks, Report, Broken
    <3> QED
      BY <3>1, <3>2, <3>3, <3>4, QueueStays
         DEF PassAccounted, NothingDropped, At
  <2>7. CASE Settle \/ SettleHistory
    <3>1. runner.ids \ runner.failed \subseteq handled
      BY <2>7 DEF Settle, SettleHistory, PassAccounted
    <3>2. UNCHANGED <<passed, handled>>
      BY <2>7 DEF Settle, SettleHistory, mail
    <3>3. CASE UNCHANGED retries /\ End
      BY <1>1, <3>2, <3>3, QueueStays, LeavesIdle
    <3>4. CASE retries' \in Updated(runner.failed, runner.ids \ runner.failed)
      <4>1. runner.failed \cup (Queued \ (runner.ids \ runner.failed))
              \subseteq Queued'
        BY <2>1, <3>4, UpdatedKeeps DEF Active
      <4>2. NothingDropped'
        BY <3>1, <3>2, <4>1 DEF NothingDropped
      <4>3. CASE End
        BY <3>2, <4>2, <4>3, LeavesIdle DEF PassAccounted, At
      <4>4. CASE /\ SettleHistory /\ status.outcome # "cancelled" /\ ~Broken
                 /\ Goto("advance") /\ UNCHANGED backfill
        <5>1. runner.ids = Chunk
          BY <4>4 DEF SettleHistory, PassAccounted
        <5>2. Chunk' = Chunk /\ runner'.pc = "advance"
          BY <2>1, <4>4, GoesTo DEF Chunk
        <5>3. Chunk \subseteq handled \cup Queued'
          BY <3>1, <4>1, <5>1
        <5> QED
          BY <3>2, <4>2, <5>2, <5>3 DEF PassAccounted, At
      <4> QED
        BY <2>7, <4>3, <4>4 DEF Settle, SettleHistory
    <3> QED
      BY <2>7, <3>3, <3>4 DEF Settle, SettleHistory
  <2>8. CASE Advance
    <3>1. Chunk \subseteq handled \cup Queued
      BY <2>8 DEF Advance, PassAccounted
    <3>2. /\ UNCHANGED <<handled, retries>> /\ runner'.pc = "publish"
          /\ passed' = passed \cup Chunk
      BY <2>1, <2>8, GoesTo DEF Advance, mail
    <3> QED
      BY <3>1, <3>2, QueueStays DEF PassAccounted, NothingDropped, At
  <2>9. CASE Publish
    <3>1. /\ UNCHANGED <<passed, handled, retries>>
          /\ runner'.pc = "idle" /\ runner'.failed = {}
      BY <2>9, LeavesIdle DEF Publish, mail
    <3> QED
      BY <1>1, <3>1, QueueStays
  <2> QED
    BY <1>2, <2>2, <2>3, <2>4, <2>5, <2>6, <2>7, <2>8, <2>9, Zenon
       DEF RunnerStep
<1>3. CASE Crash
  <2>1. /\ UNCHANGED <<passed, retries>>
        /\ runner'.pc = "idle" /\ runner'.failed = {}
    BY <1>3, LeavesIdle DEF Crash
  <2>2. handled \subseteq handled'
    BY <1>3 DEF Crash, Handles
  <2> QED
    BY <1>1, <2>1, <2>2, QueueStays
<1>4. CASE Start
  <2>1. UNCHANGED <<passed, handled, retries>>
    BY <1>4 DEF Start, mail, book
  <2>2. runner'.pc \in {"idle", "decide"} /\ runner'.failed = {}
    BY <1>4 DEF Start, At, Idle, PassAccounted
  <2> QED
    BY <1>1, <2>1, <2>2, QueueStays
<1>5. CASE Dashboard \/ UNCHANGED vars
  <2>1. UNCHANGED <<passed, handled, runner, backfill, status>>
    BY <1>5, DashboardLeaves DEF mail, vars, book, shown
  <2>2. Queued' = Queued
    <3>1. UNCHANGED retries \/ \E m \in Messages: RetryComesDue(m)
      BY <1>5, Zenon
         DEF Dashboard, RequestRun, RequestUndo, RequestExpires, ReadRunning,
             WriteCancel, SaveStarts, SaveEnds, SaveFails, TimePasses, vars,
             everythingElse
    <3> QED
      BY <3>1, QueueStays
  <2>3. Chunk' = Chunk /\ Broken' = Broken /\ IsHistory' = IsHistory
    BY <2>1 DEF Chunk, Broken, IsHistory
  <2> QED
    BY <2>1, <2>2, <2>3 DEF PassAccounted, NothingDropped, At
<1> QED
  BY <1>2, <1>3, <1>4, <1>5, NextSplit

LEMMA MeantInit == Init => Meant
BY DEF Init, Meant

(* What each step of the runner does to the group and to the cancel file.  *)
LEMMA RunnerStops ==
  ASSUME TypeOK, RunnerStep \/ Crash
  PROVE  \/ runner'.pc = "idle"
         \/ /\ UNCHANGED stopping /\ runner'.pc # "decide"
            /\ \/ runner.pc = "decide"
               \/ runner.pc = "connect" /\ runner'.pc # "connect"
               \/ runner'.pc # "connect" /\ runner'.group = runner.group
<1>1. ~At("idle") /\ runner \in Active
  BY RunnerLocks, RunnerActive
<1>2. CASE Leave \/ End
  BY <1>2, LeavesIdle
<1>3. CASE Decide
  <2>1. Leave \/ (runner'.pc = "connect" /\ runner.pc = "decide"
                   /\ UNCHANGED stopping)
    BY <1>1, <1>3 DEF Decide, Active, At
  <2> QED
    BY <1>2, <2>1
<1>4. CASE Connect
  <2>1. Leave \/ (runner'.pc = FirstStep /\ UNCHANGED stopping)
    BY <1>1, <1>4, ConnectGoes DEF Connect
  <2>2. FirstStep \notin {"decide", "connect"}
    BY DEF FirstStep, Work
  <2>3. runner.pc = "connect"
    BY <1>4 DEF Connect, At
  <2> QED
    BY <1>2, <2>1, <2>2, <2>3
<1>5. ASSUME NEW s \in {"undoing", Work, "list", "chunk", "advance", "publish"},
             Goto(s)
      PROVE  /\ UNCHANGED stopping /\ runner'.group = runner.group
             /\ runner'.pc \notin {"decide", "connect"}
  BY <1>1, <1>5, GoesTo DEF Goto, Work
<1>6. CASE \/ UndoStarts \/ UndoEnds \/ Labels \/ PreflightStarts
           \/ PreflightEnds \/ Settle \/ SettleHistory \/ Advance \/ Publish
  <2>1. \/ Leave \/ End
        \/ \E s \in {"undoing", Work, "list", "chunk", "advance", "publish"}:
             Goto(s)
    BY <1>6
       DEF UndoStarts, UndoEnds, Labels, PreflightStarts, PreflightEnds,
           NothingFound, Settle, SettleHistory, Advance, Publish
  <2> QED
    BY <1>2, <1>5, <2>1
<1>7. CASE RunStarts \/ RunFinishes \/ RunCancelled \/ RunBreaks
  BY <1>1, <1>7
     DEF RunStarts, RunFinishes, RunCancelled, RunBreaks, Active
<1>8. CASE Crash
  BY <1>2, <1>8 DEF Crash
<1> QED
  BY <1>3, <1>4, <1>6, <1>7, <1>8, Zenon DEF RunnerStep

LEMMA MeantNext == TypeOK /\ Meant /\ [Next]_vars => Meant'
<1> SUFFICES ASSUME TypeOK, Meant, [Next]_vars PROVE Meant'
  OBVIOUS
<1>1. CASE Start
  <2>1. Discard
    BY <1>1 DEF Start
  <2>2. cancelFile' = "no" \/ astray'
    BY <2>1 DEF Discard, DiscardCancel, DiscardFails
  <2> QED
    BY <2>2 DEF Meant
<1>2. CASE RunnerStep \/ Crash
  BY <1>2, RunnerStops, RunnerLocks DEF Meant, At, stopping
<1>3. CASE WriteCancel
  <2>1. UNCHANGED runner /\ reading # "no" /\ cancelFile' = reading
        /\ astray' = Another
    BY <1>3 DEF WriteCancel, everythingElse
  <2> QED
    BY <2>1 DEF Meant, Another, At
<1>4. CASE Dashboard /\ ~WriteCancel
  <2>1. UNCHANGED <<stopping, runner>>
    BY <1>4
       DEF Dashboard, RequestRun, RequestUndo, RequestExpires, ReadRunning,
           SaveStarts, SaveEnds, SaveFails, TimePasses, RetryComesDue,
           cancelling, everythingElse
  <2> QED
    BY <2>1 DEF Meant, At, stopping
<1>5. CASE UNCHANGED vars
  BY <1>5 DEF vars, cancelling, stopping, Meant, At
<1> QED
  BY <1>1, <1>2, <1>3, <1>4, <1>5, NextSplit

(* IInv is inductive.                                                      *)
THEOREM Invariant == Spec => []IInv
<1>1. Init => IInv
  <2> SUFFICES ASSUME Init PROVE IInv
    OBVIOUS
  <2>1. BundleCommitted
    BY DEF Init, BundleCommitted
  <2> QED
    BY <2>1, TypeInit, LockedInit, PhasesInit, AloneInit, UndoInit, ShownInit,
       MeantInit, PassInit DEF IInv
<1>2. IInv /\ [Next]_vars => IInv'
  <2> SUFFICES ASSUME IInv, [Next]_vars PROVE IInv'
    OBVIOUS
  <2>1. TypeOK' /\ Locked' /\ Phases' /\ HistoryAlone'
    BY TypeNext, LockedNext, PhasesNext, AloneNext, Zenon DEF IInv
  <2>2. /\ UndoLatest' /\ UndoWaits' /\ BundleCommitted' /\ ShownRunning'
        /\ Meant'
    BY UndoNext, BundleNext, ShownNext, MeantNext, Zenon DEF IInv
  <2>3. QueueSize >= Newest => PassAccounted' /\ NothingDropped'
    BY PassNext, Zenon DEF IInv
  <2> QED
    BY <2>1, <2>2, <2>3, Zenon DEF IInv
<1> QED
  BY <1>1, <1>2, PTL DEF Spec

(* A history scan and an undo never meet the backfill of an earlier scan,  *)
(* whatever crashes, expires or is requested in between.                   *)
THEOREM HistoryIsAlone == Spec => []HistoryAlone
<1>1. IInv => HistoryAlone
  BY DEF IInv
<1> QED
  BY <1>1, Invariant, PTL

(* What an undo takes back is the latest recorded run when it begins.      *)
THEOREM UndoIsOfLatest == Spec => []UndoLatest
<1>1. IInv => UndoLatest
  BY DEF IInv
<1> QED
  BY <1>1, Invariant, PTL

(* No failure or crash of a save leaves a mixed bundle enabled.            *)
THEOREM EnabledMeansCommitted == Spec => []BundleCommitted
<1>1. IInv => BundleCommitted
  BY DEF IInv
<1> QED
  BY <1>1, Invariant, PTL

(* A status that says running, and is not left by a dead process, is of a  *)
(* runner at work or of a history scan between its passes.                 *)
THEOREM RunningIsShownTruly == Spec => []RunningIsTrue
<1>1. IInv => RunningIsTrue
  BY DEF IInv, ShownRunning, RunningIsTrue, At
<1> QED
  BY <1>1, Invariant, PTL

(* As long as the retry queue has room for the whole history, a message    *)
(* counted as checked is handled or queued.                                *)
THEOREM NothingIsDropped == Spec => [](QueueSize >= Newest => NothingDropped)
<1>1. IInv => (QueueSize >= Newest => NothingDropped)
  BY DEF IInv
<1> QED
  BY <1>1, Invariant, PTL

(* A run is cancelled only by a request meant for it: whatever else left a *)
(* cancel file behind, it is discarded before the next run asks, unless it *)
(* is astray, written under another run than was read as running or kept   *)
(* by a failing discard.                                                   *)
THEOREM CancelReachesItsRunHolds == Spec => CancelReachesItsRun
<1>1. IInv /\ [Next]_vars =>
        [status.outcome # "cancelled" /\ status'.outcome = "cancelled"
           => cancelFile = runner.group \/ astray]_vars
  <2> SUFFICES ASSUME IInv, [Next]_vars, status.outcome # "cancelled",
                      status'.outcome = "cancelled"
               PROVE  cancelFile = runner.group \/ astray
    OBVIOUS
  <2>1. RunCancelled
    <3>1. ASSUME NEW o \in {"running", "success", "failed"}
          PROVE  ~Report(o)
      BY DEF Report
    <3>2. ~UNCHANGED status
      OBVIOUS
    <3>3. CASE Start \/ Crash
      BY <3>1, <3>2, <3>3 DEF Start, Crash, shown
    <3>4. CASE Dashboard \/ UNCHANGED vars
      BY <3>2, <3>4, DashboardLeaves DEF shown, vars
    <3>5. CASE RunnerStep /\ ~RunCancelled
      <4>1. \/ UNCHANGED status
            \/ \E o \in {"running", "success", "failed"}: Report(o)
        BY <3>5
           DEF RunnerStep, Decide, Connect, UndoStarts, UndoEnds, Labels,
               PreflightStarts, PreflightEnds, NothingFound, RunStarts,
               RunFinishes, RunBreaks, Settle, SettleHistory, Advance,
               Publish, shown
      <4> QED
        BY <3>1, <3>2, <4>1
    <3> QED
      BY <3>3, <3>4, <3>5, NextSplit
  <2>2. cancelFile # "no" /\ ~At("idle")
    BY <2>1 DEF RunCancelled, At
  <2> QED
    BY <2>2 DEF IInv, Meant
<1> QED
  BY <1>1, Invariant, PTL DEF Spec, CancelReachesItsRun
==============================================================================
