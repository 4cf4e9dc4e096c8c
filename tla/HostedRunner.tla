----------------------------- MODULE HostedRunner -----------------------------
(***************************************************************************)
(* The hosted variant: one connected account whose directory is shared by  *)
(* the short-lived runner (hosted_runner.py, started every minute and when *)
(* a request file appears) and the dashboard (hosted_run_request.py,       *)
(* hosted_settings.py).  Both take the lifecycle lock, except a request to *)
(* cancel.  The runner decides what is due, hands the mail to a daily run  *)
(* and keeps the retry queue (retry_queue.py) and the history backfill.    *)
(* What a daily run does to each message is the subject of DailyTriage;    *)
(* here it is one step that handles some messages and may fail on others.  *)
(***************************************************************************)
EXTENDS Naturals, Sequences, FiniteSets

CONSTANTS
  Newest,        \* mail in the history: messages 1..Newest, newest first
  ChunkSize,     \* messages of a history scan in one pass
  MaxScan,       \* messages a scan or a retry may select
  MaxAttempts,   \* retry_queue.MAX_ATTEMPTS
  QueueSize,     \* retry_queue.MAX_ENTRIES
  Groups,        \* ids a run can give its rollback journals
  NoGroup,       \* no run group
  Owner,         \* what the owner of the account does
  Troubles,      \* the disturbances that happen
  MaxDays,       \* bound: days that pass
  MaxOrders,     \* bound: operations of the owner
  MaxTroubles    \* bound: disturbances in a behaviour

Messages == 1..Newest
Scopes == {"recent", "history", "rollback"}

ASSUME SizesAssumption ==
  /\ Newest \in Nat /\ MaxScan \in Nat \ {0} /\ ChunkSize \in Nat \ {0}
  /\ MaxAttempts \in Nat \ {0} /\ QueueSize \in Nat
ASSUME GroupsAssumption == NoGroup \notin Groups
ASSUME BoundsAssumption == /\ MaxDays \in Nat \ {0} /\ MaxOrders \in Nat
                           /\ MaxTroubles \in Nat
ASSUME ChoicesAssumption ==
  /\ Owner \subseteq Scopes \cup {"cancel", "settings"}
  /\ Troubles \subseteq {"crash", "expire", "token", "grant", "labels", "unlink",
                         "listing", "messages", "run", "undo", "save"}

VARIABLES
  (* files of the account *)
  enabled,       \* the connection record, enabled
  bundle,        \* the reviewed settings: "none", "whole" or "mixed"
  pending,       \* pending-label-setup.json: "none", "good" or "outdated"
  request,       \* run-now-request.json
  cancelFile,    \* cancel-run-request.json: "no", or the run it was meant for
  backfill,      \* backfill-job.json
  status,        \* daily-status.json: outcome of last_run, and whose it is
  retries,       \* retry-queue.json: attempts of each message, and is it due
  journals,      \* groups not undone, the last completed one last
  lastDone,      \* daily-state.json, last_daily_date
  handled,       \* messages the daily state knows as handled
  (* processes *)
  runner,        \* the runner, which holds the lifecycle lock unless idle
  saving,        \* save_settings holds the lifecycle lock
  reading,       \* the run a request_cancel has read as running
  (* time *)
  day,           \* the local date
  window,        \* before, in or after the grace period of the schedule
  (* bookkeeping of the model *)
  astray,        \* the cancel file was not meant for the run at work
  orphaned,      \* the status was left behind by a process that died
  passed,        \* messages of history passes that were counted as checked
  orders,        \* operations of the owner so far
  trouble        \* disturbances so far

account == <<enabled, bundle, pending>>
mail == <<handled, journals, lastDone>>
clock == <<day, window>>
stopping == <<cancelFile, astray>>
cancelling == <<stopping, reading>>
shown == <<status, orphaned>>
book == <<passed, orders, trouble>>
vars == <<account, request, cancelling, backfill, shown, retries, mail,
          runner, saving, clock, book>>

------------------------------------------------------------------------------
(* Types *)

NoRequest == [scope |-> "none", group |-> NoGroup, count |-> 0,
              expired |-> FALSE]
Request == [scope: Scopes, group: Groups \cup {NoGroup}, count: 0..Newest,
            expired: BOOLEAN] \cup {NoRequest}
NoBackfill == [group |-> NoGroup, count |-> 0, next |-> 0]
Backfill == [group: Groups \cup {NoGroup}, count: Messages, next: 0..Newest]
            \cup {NoBackfill}
Entry == [attempts: 0..MaxAttempts, due: BOOLEAN]
NoEntry == [attempts |-> 0, due |-> FALSE]
Status == [outcome: {"none", "running", "success", "failed", "cancelled"},
           group: Groups \cup {NoGroup}]

Idle == [pc |-> "idle", kind |-> "none", group |-> NoGroup, count |-> 0,
         ids |-> {}, failed |-> {}, day |-> 0, asked |-> FALSE,
         stop |-> FALSE]
Steps == {"decide", "connect", "undo", "undoing", "labels", "preflight",
          "list", "chunk", "work", "daily", "settle", "advance", "publish"}
Kinds == {"timer", "retry", "resume", "labels"} \cup Scopes
Active == [pc: Steps, kind: Kinds, group: Groups \cup {NoGroup},
           count: 0..Newest, ids: SUBSET Messages, failed: SUBSET Messages,
           day: 0..MaxDays, asked: BOOLEAN, stop: BOOLEAN]
Runner == Active \cup {Idle}

Init ==
  /\ enabled = TRUE /\ bundle \in {"none", "whole"} /\ pending = "none"
  /\ request = NoRequest /\ backfill = NoBackfill
  /\ cancelFile = "no" /\ reading = "no" /\ astray = FALSE
  /\ status = [outcome |-> "none", group |-> NoGroup]
  /\ retries = [m \in Messages |-> NoEntry]
  /\ journals = <<>> /\ lastDone = 0 /\ handled = {}
  /\ runner = Idle /\ saving = FALSE
  /\ day = 1 /\ window = "before"
  /\ orphaned = FALSE /\ passed = {}
  /\ orders = 0 /\ trouble = 0

------------------------------------------------------------------------------
(* What the files say *)

Happens(kind) == /\ kind \in Troubles /\ trouble < MaxTroubles
                 /\ trouble' = trouble + 1
Calm == UNCHANGED trouble
Order(kind) == /\ kind \in Owner /\ orders < MaxOrders
               /\ orders' = orders + 1

Forced == runner.kind \in Scopes
Due == enabled /\ lastDone < day /\ window = "open"
Queued == {m \in Messages: retries[m].attempts > 0}
Ripe == {m \in Queued: retries[m].due /\ retries[m].attempts < MaxAttempts}

AtMost(n, k) == IF n < k THEN n ELSE k

(* RetryQueue.due: the first of the ripe entries, as many as a scan takes. *)
RetrySelections ==
  {S \in SUBSET Ripe: Cardinality(S) = AtMost(Cardinality(Ripe), MaxScan)}

(* Mutant: completed messages stay in the queue.                           *)
AttemptedStays(failed, completed) ==
  [m \in Messages |->
     IF m \in failed
     THEN [attempts |-> AtMost(retries[m].attempts + 1, MaxAttempts),
           due |-> FALSE]
     ELSE retries[m]]

(* Mutant: a failure is counted only for messages already in the queue.    *)
AttemptedIfKnown(failed, completed) ==
  [m \in Messages |->
     IF m \in failed \cap Queued
     THEN [attempts |-> AtMost(retries[m].attempts + 1, MaxAttempts),
           due |-> FALSE]
     ELSE IF m \in completed THEN NoEntry ELSE retries[m]]

(* RetryQueue.update.  When the queue outgrows its size the entries with   *)
(* the earliest next attempt are forgotten, so due ones before others.     *)
Attempted(failed, completed) ==
  [m \in Messages |->
     IF m \in failed
     THEN [attempts |-> AtMost(retries[m].attempts + 1, MaxAttempts),
           due |-> FALSE]
     ELSE IF m \in completed THEN NoEntry ELSE retries[m]]

Updated(failed, completed) ==
  LET q == Attempted(failed, completed)
      entries == {m \in Messages: q[m].attempts > 0}
      kept == {S \in SUBSET entries:
                 /\ Cardinality(S) = AtMost(Cardinality(entries), QueueSize)
                 /\ \A m \in S, n \in entries \ S: q[m].due => q[n].due}
  IN {[m \in Messages |-> IF m \in S THEN q[m] ELSE NoEntry]: S \in kept}

(* A new run is named after the second it starts in; when the model has no *)
(* unused name left, the run finds nothing to change in the mailbox.       *)
Journaled == {journals[i]: i \in 1..Len(journals)}
Used == Journaled \cup {backfill.group, request.group, reading, cancelFile}
Fresh == IF Groups \subseteq Used THEN {NoGroup} ELSE Groups \ Used

(* A journal that is created or completed makes its group the latest.      *)
Place(g) == CHOOSE i \in 1..Len(journals): journals[i] = g
Without(g) ==
  IF g \in Journaled
  THEN SubSeq(journals, 1, Place(g) - 1)
       \o SubSeq(journals, Place(g) + 1, Len(journals))
  ELSE journals
Recorded(g) == IF g = NoGroup THEN journals ELSE Append(Without(g), g)
Latest == IF journals = <<>> THEN NoGroup ELSE journals[Len(journals)]

------------------------------------------------------------------------------
(* The runner.  Report writes the status file; the group in it is the      *)
(* model's own, to tell which run a cancellation was meant for.  Leave is  *)
(* a return before the try block whose finally clause discards the cancel  *)
(* file, End one inside it.                                                *)

At(step) == runner.pc = step
Report(outcome) ==
  /\ status' = [outcome |-> outcome, group |-> runner.group]
  /\ orphaned' = FALSE
Goto(step) == runner' = [runner EXCEPT !.pc = step] /\ UNCHANGED stopping
Leave == runner' = Idle /\ astray' = FALSE /\ UNCHANGED cancelFile

(* Mutant: the runner starts and ends without discarding it.               *)
DiscardNothing == UNCHANGED cancelFile /\ astray' = FALSE

DiscardCancel == cancelFile' = "no" /\ astray' = FALSE

(* A file that cannot be removed is left to whatever runs next.            *)
DiscardFails ==
  "unlink" \in Troubles /\ UNCHANGED cancelFile /\ astray' = (cancelFile # "no")
Discard == DiscardCancel \/ DiscardFails
End == runner' = Idle /\ Discard

(* What no step of the runner changes once it has started.                 *)
outside == <<enabled, bundle, request, reading, saving, clock, orders>>

(* The lock is taken, a cancel file from an earlier run is discarded and   *)
(* the request consumed; a request that is too old is discarded instead.   *)
Start ==
  /\ At("idle") /\ ~saving
  /\ Discard
  /\ request' = NoRequest
  /\ \/ request.expired /\ Report("failed") /\ UNCHANGED runner
     \/ /\ ~request.expired /\ UNCHANGED shown
        /\ runner' = [Idle EXCEPT
             !.pc = "decide", !.group = request.group, !.count = request.count,
             !.kind = IF request = NoRequest THEN "timer" ELSE request.scope]
  /\ UNCHANGED <<account, reading, backfill, retries, mail,
                 saving, clock, book>>

(* Reasons to stop before Gmail is contacted, each recorded as a failure.  *)
Blocked ==
  \/ Forced /\ ~enabled
  \/ bundle = "none"
  \/ pending = "outdated"
  \/ backfill # NoBackfill /\ ~enabled

NothingToDo == /\ ~Due /\ ~Forced /\ pending = "none" /\ Ripe = {}
               /\ backfill = NoBackfill

(* What the run is for: the owner's request before the schedule, the       *)
(* schedule before retries, retries before labels and history.             *)
Choice ==
  IF Forced THEN runner.kind
  ELSE IF Due THEN "recent"
  ELSE IF Ripe # {} THEN "retry"
  ELSE IF pending = "good" THEN "labels" ELSE "resume"

Decide ==
  /\ At("decide")
  /\ \/ Blocked /\ Report("failed") /\ Leave
     \/ ~Blocked /\ NothingToDo /\ UNCHANGED shown /\ Leave
     \/ /\ ~Blocked /\ ~NothingToDo /\ UNCHANGED <<shown, stopping>>
        /\ \E ids \in RetrySelections:
             runner' = [runner EXCEPT
               !.pc = "connect", !.kind = Choice, !.asked = Forced,
               !.ids = IF Choice = "retry" THEN ids ELSE {}]
  /\ UNCHANGED <<outside, pending, backfill, retries, mail, passed, trouble>>

(* Where the run goes on after the labels, and where it begins.            *)
Work == CASE runner.kind \in {"recent", "retry"} -> "work"
          [] runner.kind = "history" /\ backfill = NoBackfill -> "preflight"
          [] OTHER -> "chunk"
FirstStep == CASE runner.kind = "rollback" -> "undo"
               [] runner.kind # "rollback" /\ pending = "good" -> "labels"
               [] OTHER -> Work
NewGroup == CASE runner.kind = "rollback" -> {runner.group}
              [] runner.kind = "resume" -> {backfill.group}
              [] OTHER -> Fresh

(* The credential is unwrapped and refreshed.  Any exception but a refused *)
(* grant leaves the status as it was.                                      *)
Connect ==
  /\ At("connect")
  /\ \/ Happens("token") /\ UNCHANGED shown /\ Leave
     \/ Happens("grant") /\ Report("failed") /\ Leave
     \/ /\ Calm /\ UNCHANGED <<shown, stopping>>
        /\ \E g \in NewGroup:
             runner' = [runner EXCEPT !.group = g, !.pc = FirstStep]
  /\ UNCHANGED <<outside, pending, backfill, retries, mail, passed>>

(* _undo_group: progress is published, then the entries are taken back.    *)
UndoStarts ==
  /\ At("undo") /\ Report("running") /\ Goto("undoing")
  /\ UNCHANGED <<outside, pending, backfill, retries, mail, passed, trouble>>

(* The messages of the group are open again and so is the day.             *)
Reopened ==
  /\ lastDone' = 0
  /\ \E back \in SUBSET handled: /\ handled' = handled \ back
                                 /\ passed' = passed \ back

(* Calls may fail, which leaves entries to undo later; only when none did  *)
(* is the group marked undone.  Its journals may be unusable.              *)
UndoEnds ==
  /\ At("undoing") /\ Leave
  /\ \/ /\ Calm /\ Report("success") /\ Reopened
        /\ journals' = Without(runner.group)
     \/ Happens("undo") /\ Report("failed") /\ Reopened /\ UNCHANGED journals
     \/ Happens("undo") /\ Report("failed") /\ UNCHANGED <<mail, passed>>
  /\ UNCHANGED <<outside, pending, backfill, retries>>

(* _apply_pending_label_plan. *)
Labels ==
  /\ At("labels")
  /\ \/ /\ Happens("labels") /\ Report("failed") /\ Leave
        /\ UNCHANGED pending
     \/ /\ Calm /\ UNCHANGED shown /\ pending' = "none"
        /\ IF runner.kind = "labels" THEN Leave ELSE Goto(Work)
  /\ UNCHANGED <<outside, backfill, retries, mail, passed>>

(* A history scan publishes its status, lists its messages and saves them. *)
PreflightStarts ==
  /\ At("preflight") /\ Report("running") /\ Goto("list")
  /\ UNCHANGED <<outside, pending, backfill, retries, mail, passed, trouble>>

(* Mutant: a scan that finds nothing ends without a word.                  *)
NothingFoundSilently == Calm /\ UNCHANGED shown /\ End /\ UNCHANGED backfill

NothingFound == Calm /\ Report("success") /\ End /\ UNCHANGED backfill

PreflightEnds ==
  /\ At("list")
  /\ \/ Happens("listing") /\ Report("failed") /\ End /\ UNCHANGED backfill
     \/ NothingFound
     \/ /\ Calm /\ UNCHANGED shown /\ Goto("chunk")
        /\ \E n \in 1..runner.count:
             backfill' = [group |-> runner.group, count |-> n, next |-> 0]
  /\ UNCHANGED <<outside, pending, retries, mail, passed>>

------------------------------------------------------------------------------
(* The daily run, as the runner sees it.                                   *)

Chunk == (backfill.next + 1)..AtMost(backfill.next + ChunkSize, backfill.count)

RunStarts ==
  /\ runner.pc \in {"work", "chunk"} /\ Report("running")
  /\ runner' = [runner EXCEPT
       !.pc = "daily", !.day = day, !.stop = cancelFile # "no",
       !.ids = IF At("chunk") THEN Chunk ELSE @]
  /\ UNCHANGED <<outside, pending, stopping, backfill, retries,
                 mail, passed, trouble>>

IsHistory == runner.kind \in {"history", "resume"}

(* The messages the run works on: given to it, or found in the inbox.      *)
Scanned == IF runner.kind = "recent"
           THEN {S \in SUBSET Messages: Cardinality(S) <= MaxScan}
           ELSE {runner.ids}

(* Some messages of the run are dealt with, and its journal knows of it.   *)
Handles(S) ==
  /\ handled' = handled \cup S
  /\ journals' \in IF S = {} THEN {journals}
                   ELSE {journals, Recorded(runner.group)}

RunFinishes ==
  /\ At("daily") /\ ~runner.stop /\ bundle # "mixed"
  /\ \E S \in Scanned: \E failed \in SUBSET S:
       /\ IF failed = {} THEN Calm ELSE Happens("messages")
       /\ Handles(S \ failed)
       /\ lastDone' = IF IsHistory \/ failed # {} THEN lastDone ELSE runner.day
       /\ Report(IF failed = {} THEN "success" ELSE "failed")
       /\ runner' = [runner EXCEPT !.pc = "settle", !.ids = S,
                                   !.failed = failed]
  /\ UNCHANGED <<outside, pending, stopping, backfill, retries,
                 passed>>

(* A cancel file seen at one of the run's checks stops it; one that was    *)
(* there from the beginning is seen at the first check.                    *)
RunCancelled ==
  /\ At("daily") /\ cancelFile # "no" /\ bundle # "mixed"
  /\ \E S \in Scanned: \E done \in IF runner.stop THEN {{}} ELSE SUBSET S:
       Handles(done)
  /\ Report("cancelled")
  /\ runner' = [runner EXCEPT !.pc = "settle", !.ids = {}]
  /\ UNCHANGED <<outside, pending, stopping, backfill, retries,
                 lastDone, passed, trouble>>

(* The run is refused because the approvals do not match the settings, or  *)
(* stops in an exception, somewhere between its messages.                  *)
RunBreaks ==
  /\ At("daily")
  /\ \/ bundle = "mixed" /\ Calm /\ UNCHANGED <<handled, journals>>
     \/ /\ bundle # "mixed" /\ ~runner.stop /\ Happens("run")
        /\ \E S \in Scanned: \E done \in SUBSET S: Handles(done)
  /\ Report("failed")
  /\ runner' = [runner EXCEPT !.pc = "settle", !.ids = {}]
  /\ UNCHANGED <<outside, pending, stopping, backfill, retries,
                 lastDone, passed>>

(* _update_reliability after a scan of current mail or a retry.            *)
Settle ==
  /\ At("settle") /\ ~IsHistory /\ End
  /\ retries' \in Updated(runner.failed, runner.ids \ runner.failed)
  /\ UNCHANGED <<outside, pending, backfill, shown, mail, passed, trouble>>

(* After a history chunk: a cancelled scan is over, a broken one is tried  *)
(* again by the next runner, any other goes on once its failures are       *)
(* queued.                                                                 *)

(* Mutant: a pass that broke counts as checked.                            *)
NeverBroken == FALSE

Broken == status.outcome = "failed" /\ runner.failed = {}

SettleHistory ==
  /\ At("settle") /\ IsHistory
  /\ \/ /\ status.outcome = "cancelled" /\ End
        /\ backfill' = NoBackfill /\ UNCHANGED retries
     \/ /\ status.outcome # "cancelled" /\ Broken /\ End
        /\ UNCHANGED <<backfill, retries>>
     \/ /\ status.outcome # "cancelled" /\ ~Broken /\ Goto("advance")
        /\ retries' \in Updated(runner.failed, runner.ids \ runner.failed)
        /\ UNCHANGED backfill
  /\ UNCHANGED <<outside, pending, shown, mail, passed, trouble>>

Completed == backfill.next + Cardinality(Chunk)

(* Mutant: a scan goes on when its last message was checked.               *)
MoreThanAll == Completed <= backfill.count

More == Completed < backfill.count

(* The chunk counts as checked.                                            *)
Advance ==
  /\ At("advance") /\ Goto("publish")
  /\ backfill' = IF More THEN [backfill EXCEPT !.next = Completed]
                 ELSE NoBackfill
  /\ passed' = passed \cup Chunk
  /\ UNCHANGED <<outside, pending, shown, retries, mail, trouble>>

(* Between two passes the status says that the scan is running.            *)
Publish ==
  /\ At("publish") /\ End
  /\ Report(IF backfill = NoBackfill THEN "success" ELSE "running")
  /\ UNCHANGED <<outside, pending, backfill, retries, mail, passed, trouble>>

(* The process dies; a running daily run leaves what it has done.          *)
Crash ==
  /\ ~At("idle") /\ Happens("crash") /\ Leave
  /\ orphaned' = (orphaned \/ runner.pc \in {"undoing", "list", "daily"})
  /\ \/ UNCHANGED <<handled, journals>>
     \/ At("daily") /\ \E S \in Scanned: \E done \in SUBSET S: Handles(done)
  /\ UNCHANGED <<outside, pending, backfill, status, retries,
                 lastDone, passed>>

------------------------------------------------------------------------------
(* The dashboard.                                                          *)

(* Mutant: requests are written under a running scan.                      *)
RunnerIgnored == ~saving

LockFree == At("idle") /\ ~saving
everythingElse == <<backfill, shown, retries, mail, runner, clock, passed>>

(* Mutant: a second history scan may be requested.                         *)
AnyHistory(scope) == TRUE

NoSecondHistory(scope) == scope = "history" => backfill = NoBackfill

(* request_run. *)
RequestRun(scope) ==
  /\ Order(scope)
  /\ LockFree /\ enabled /\ request = NoRequest /\ bundle # "none"
  /\ NoSecondHistory(scope)
  /\ \E n \in IF scope = "history" THEN Messages ELSE {0}:
       request' = [scope |-> scope, group |-> NoGroup, count |-> n,
                   expired |-> FALSE]
  /\ UNCHANGED <<account, cancelling, saving, everythingElse, trouble>>

(* request_undo: of the latest group only. *)
RequestUndo ==
  /\ Order("rollback")
  /\ LockFree /\ request = NoRequest /\ backfill = NoBackfill
  /\ Latest # NoGroup
  /\ request' = [scope |-> "rollback", group |-> Latest, count |-> 0,
                 expired |-> FALSE]
  /\ UNCHANGED <<account, cancelling, saving, everythingElse, trouble>>

(* The machine was down for longer than a request stays valid.             *)
RequestExpires ==
  /\ At("idle") /\ request # NoRequest /\ ~request.expired
  /\ Happens("expire")
  /\ request' = [request EXCEPT !.expired = TRUE]
  /\ UNCHANGED <<account, cancelling, saving, everythingElse, orders>>

(* request_cancel takes no lock: it reads the status, then writes.         *)
ReadRunning ==
  /\ Order("cancel")
  /\ reading = "no" /\ status.outcome = "running"
  /\ reading' = status.group
  /\ UNCHANGED <<account, request, stopping, saving, everythingElse, trouble>>

(* The run it read as running may have ended and another be at work; one   *)
(* that has not come to its first step has no group yet.                   *)
Another == /\ ~At("idle")
           /\ runner.pc \in {"decide", "connect"} \/ runner.group # reading

WriteCancel ==
  /\ reading # "no"
  /\ cancelFile' = reading /\ astray' = Another
  /\ reading' = "no"
  /\ UNCHANGED <<account, request, saving, everythingElse, orders, trouble>>

(* Mutant: settings are written under an enabled account.                  *)
NoPause == UNCHANGED enabled

Pause == enabled' = FALSE

(* save_settings: disabled first, enabled again last.                      *)
SaveStarts ==
  /\ Order("settings") /\ LockFree
  /\ saving' = TRUE /\ Pause
  /\ UNCHANGED <<bundle, pending, request, cancelling, everythingElse,
                 trouble>>

SaveEnds ==
  /\ saving /\ saving' = FALSE
  /\ enabled' = TRUE /\ bundle' = "whole" /\ pending' = "good"
  /\ UNCHANGED <<request, cancelling, everythingElse, orders, trouble>>

(* A write fails, or the dashboard dies, before, between or after the      *)
(* files of the bundle.                                                    *)
SaveFails ==
  /\ saving /\ saving' = FALSE /\ Happens("save") /\ UNCHANGED enabled
  /\ \/ UNCHANGED <<bundle, pending>>
     \/ /\ bundle' \in {IF bundle = "none" THEN "none" ELSE "mixed", "whole"}
        /\ pending' = IF pending = "none" THEN "none" ELSE "outdated"
     \/ bundle' = "whole" /\ pending' = "good"
  /\ UNCHANGED <<request, cancelling, everythingElse, orders>>

------------------------------------------------------------------------------
(* Time.  The schedule opens a window each day; delays of the queue pass.  *)

TimePasses ==
  /\ \/ window = "before" /\ window' = "open" /\ UNCHANGED day
     \/ window = "open" /\ window' = "missed" /\ UNCHANGED day
     \/ window # "before" /\ day < MaxDays /\ window' = "before"
        /\ day' = day + 1
  /\ UNCHANGED <<account, request, cancelling, backfill, shown, retries, mail,
                 runner, saving, book>>

RetryComesDue(m) ==
  /\ m \in Queued /\ ~retries[m].due
  /\ retries' = [retries EXCEPT ![m].due = TRUE]
  /\ UNCHANGED <<account, request, cancelling, backfill, shown, mail, runner,
                 saving, clock, book>>

RunnerStep ==
  \/ Decide \/ Connect \/ UndoStarts \/ UndoEnds \/ Labels
  \/ PreflightStarts \/ PreflightEnds \/ RunStarts \/ RunFinishes
  \/ RunCancelled \/ RunBreaks \/ Settle \/ SettleHistory \/ Advance \/ Publish

Next ==
  \/ Start \/ RunnerStep \/ Crash
  \/ \E scope \in {"recent", "history"}: RequestRun(scope)
  \/ RequestUndo \/ RequestExpires \/ ReadRunning \/ WriteCancel
  \/ SaveStarts \/ SaveEnds \/ SaveFails
  \/ TimePasses
  \/ \E m \in Messages: RetryComesDue(m)

Spec == Init /\ [][Next]_vars

(* The timer starts the runner every minute, a process that runs gets on,  *)
(* and the schedule's window passes.                                       *)
FairSpec == /\ Spec /\ WF_vars(Start) /\ WF_vars(RunnerStep)
            /\ WF_vars(SaveEnds) /\ WF_vars(TimePasses)
------------------------------------------------------------------------------
(* Properties *)

(* Every file and process keeps its type through requests, crashes and     *)
(* failures.                                                               *)
TypeOK ==
  /\ enabled \in BOOLEAN /\ saving \in BOOLEAN
  /\ astray \in BOOLEAN /\ orphaned \in BOOLEAN
  /\ bundle \in {"none", "whole", "mixed"}
  /\ pending \in {"none", "good", "outdated"}
  /\ request \in Request /\ backfill \in Backfill /\ status \in Status
  /\ retries \in [Messages -> Entry]
  /\ journals \in Seq(Groups) /\ lastDone \in 0..MaxDays
  /\ handled \in SUBSET Messages /\ passed \in SUBSET Messages
  /\ runner \in Runner
  /\ {reading, cancelFile} \subseteq {"no", NoGroup} \cup Groups
  /\ day \in 1..MaxDays /\ window \in {"before", "open", "missed"}
  /\ orders \in Nat /\ trouble \in Nat

(* A history scan or an undo never meets the history scan of an earlier    *)
(* request: while either is requested, or has been consumed and has not    *)
(* begun, no backfill exists.  run_if_due relies on it: with a backfill it *)
(* would ignore the requested count and scan the old list under a new      *)
(* group (hosted_runner.py:646), or undo beneath a scan that goes on.      *)
HistoryAlone ==
  /\ request.scope \in {"history", "rollback"} => backfill = NoBackfill
  /\ runner.kind = "rollback" => backfill = NoBackfill
  /\ runner.kind = "history"
       /\ runner.pc \in {"decide", "connect", "labels", "preflight", "list"}
     => backfill = NoBackfill

(* The group that is undone is the latest recorded one still when the undo *)
(* begins, however long its request waited (request_undo,                  *)
(* latest_summary): no other run got in between.                           *)
UndoLatest == runner.kind = "rollback" => runner.group = Latest

(* A message that a history scan counted as checked was handled or is in   *)
(* the retry queue, also when the runner dies between the queue, the       *)
(* backfill and the status, when a chunk is scanned again and when a retry *)
(* is cancelled; at most an undo opens it again.                           *)
NothingDropped == passed \subseteq handled \cup Queued

(* The record is never enabled over a half-written set of settings and     *)
(* approvals or over an outdated label plan: enabling is the commit marker *)
(* of save_settings.                                                       *)
BundleCommitted == enabled => bundle # "mixed" /\ pending # "outdated"

(* The status says that a scan is running only while one runs, or between  *)
(* the passes of a history scan; only a runner that died leaves it behind. *)
(* The dashboard offers to cancel on the strength of it.                   *)
RunningIsTrue ==
  At("idle") /\ status.outcome = "running" /\ ~orphaned
    => backfill # NoBackfill

(* The inductive invariant behind the properties above.                    *)

(* Who holds the lifecycle lock, and what that keeps out.                  *)
Locked ==
  /\ saving => At("idle") /\ ~enabled
  /\ request # NoRequest => At("idle")

(* Which kind of run is where.                                             *)
Phases ==
  /\ runner.pc \in {"undo", "undoing"} => runner.kind = "rollback"
  /\ runner.pc \in {"preflight", "list"} => runner.kind = "history"
  /\ runner.pc \in {"labels", "work", "chunk", "daily", "settle", "advance",
                    "publish"} => runner.kind # "rollback"

(* A requested undo is of the latest group already while it waits.         *)
UndoWaits == request.scope = "rollback" => request.group = Latest

(* Who answers for a status that says running.                             *)
ShownRunning ==
  /\ runner.pc \in {"settle", "advance", "publish"}
       => status.outcome # "running"
  /\ status.outcome = "running" /\ ~orphaned
       /\ runner.pc \notin {"undoing", "list", "daily"}
     => backfill # NoBackfill

(* What a run has to account for: a history pass for its whole chunk.      *)
PassAccounted ==
  /\ runner.pc \notin {"settle", "advance", "publish"} => runner.failed = {}
  /\ At("work") => ~IsHistory
  /\ At("daily") /\ IsHistory => runner.ids = Chunk
  /\ At("settle") =>
       /\ runner.ids \ runner.failed \subseteq handled
       /\ IsHistory /\ status.outcome # "cancelled" /\ ~Broken
            => runner.ids = Chunk
  /\ At("advance") => Chunk \subseteq handled \cup Queued

(* Once a run is at work, a cancel file is its own or astray.              *)
Meant ==
  cancelFile # "no" /\ ~At("idle") /\ ~astray =>
    runner.pc \notin {"decide", "connect"} /\ cancelFile = runner.group

(* The steps of a run, the lock and the files never disagree: each of the  *)
(* properties above holds after every step because all of this does.       *)
IInv ==
  /\ TypeOK /\ Locked /\ Phases /\ HistoryAlone /\ UndoLatest /\ UndoWaits
  /\ BundleCommitted /\ ShownRunning /\ Meant
  /\ QueueSize >= Newest => PassAccounted /\ NothingDropped

(* A run is cancelled only by a request for it, although the file names no *)
(* run: one that an undo, a crash, a request between two passes or a       *)
(* failing unlink left behind is discarded before the next run asks        *)
(* (hosted_runner.py:439, 758).  The exceptions are those the code cannot  *)
(* tell apart: a request that was read under one run and written under     *)
(* another (request_cancel holds no lock), and a file that could not be    *)
(* discarded at the start either.                                          *)
CancelReachesItsRun ==
  [][status.outcome # "cancelled" /\ status'.outcome = "cancelled"
       => cancelFile = runner.group \/ astray]_vars

(* Once begun, a history scan ends: completed, cancelled or, as long as    *)
(* the account stays disabled, paused.  Requests, the schedule and retries *)
(* interrupt it only finitely often, and a broken pass is tried again.     *)
BackfillEnds == backfill # NoBackfill ~> backfill = NoBackfill \/ ~enabled

(* A due retry is attempted: requests, the daily scan and history passes   *)
(* do not starve the queue, and messages that fail again drop out after    *)
(* the last attempt.                                                       *)
RetriesServed ==
  \A m \in Messages: m \in Ripe ~> m \notin Ripe \/ ~enabled

(* hosted_settings.py:346 tells the owner after a failed save that daily   *)
(* runs remain paused: no scan or retry starts on a disabled account.      *)
DisabledRunsNothing ==
  [][~At("daily") /\ runner'.pc = "daily" => enabled]_vars
==============================================================================
