---------------------------- MODULE GeminiAnalysis ----------------------------
(***************************************************************************)
(* The analysis of a scan (daily_triage.py:1118-1209) by the Gemini client *)
(* (gemini_client.py): up to a hundred messages in a pool of threads that  *)
(* share one client and one adaptive throttle, or more in groups that are  *)
(* batch jobs at Google; then the main thread plans message by message and *)
(* asks again for what has no result, and then for a reply.  An item is a  *)
(* message of the pool, or a group; its result is named by the item that   *)
(* was asked about.                                                        *)
(***************************************************************************)
EXTENDS Integers, FiniteSets

CONSTANTS
  MaxItems,       \* bound: messages to analyse, or groups
  Workers,        \* threads of the executor
  Main,           \* the thread of the run
  Attempts,       \* max_retries
  MinInterval, MaxInterval, FirstInterval,  \* *_THROTTLE_SECONDS, in hundredths
  Beat,           \* bound: how much time passes at once
  CancelAllowed   \* whether the owner may ask to stop

Threads == Workers \cup {Main}
Free == "free"

ASSUME MainAssumption == Main \notin Workers /\ Workers # {} /\ Free \notin Threads
ASSUME ItemAssumption == MaxItems \in Nat \ {0} /\ Attempts \in Nat \ {0}
ASSUME IntervalAssumption ==
  /\ {MinInterval, MaxInterval, FirstInterval, Beat} \subseteq Nat \ {0}
  /\ MinInterval <= FirstInterval /\ FirstInterval <= MaxInterval
ASSUME CancelAssumption == CancelAllowed \in BOOLEAN

Items == 1..MaxItems
None == 0
Unknown == -1      \* the classification of a message that could not be analysed
ReplyTries == 2    \* bodies _generate_global_reply asks for, one attempt each
MostTries == IF Attempts > ReplyTries THEN Attempts ELSE ReplyTries

VARIABLES
  mode,          \* "many" or "groups"
  total,         \* items of this scan
  next,          \* the executor's queue: items from next on are not begun
  future,        \* what became of each submitted item
  collected,     \* items whose future the main thread has looked at
  results,       \* the list the pool returns
  planned,       \* the classification each item was planned with
  phase,         \* where the main thread is
  failedGroup,   \* the exception that ended the collecting, or none
  thread,        \* per thread: the request it is making
  throttleLock,  \* _throttle_lock
  interval,      \* _adaptive_interval
  since,         \* time since _last_call_time, up to MaxInterval
  clients,       \* clients get_client has created
  cancel,        \* the owner asked to stop
  (* bookkeeping of the model *)
  calls,         \* requests made about each item
  late           \* the request to stop came when the last plan was begun

scan == <<mode, total>>
pool == <<next, future, collected, results, failedGroup>>
pacing == <<throttleLock, interval, since>>
vars == <<scan, pool, planned, phase, thread, pacing, clients, cancel, calls, late>>

------------------------------------------------------------------------------
(* Types *)

Idle == [pc |-> "idle"]
Request == [pc: {"throttle", "sleep", "client", "create", "call", "report"},
            item: Items, attempt: 1..MostTries, wait: 0..MaxInterval,
            outcome: {"ok", "quota", "transient", "none"}]
Job == [pc: {"job"}, item: Items]
Ended == {"planned", "cancelled", "broken"}

(* Every variable keeps its type, and the interval its bounds, however the  *)
(* reports of concurrent calls follow each other.                           *)
TypeOK ==
  /\ mode \in {"many", "groups"} /\ total \in Items /\ next \in 1..MaxItems + 1
  /\ future \in [Items -> {"waiting", "running", "ok", "failed", "cancelled"}]
  /\ collected \subseteq Items
  /\ results \in [Items -> Items \cup {None}]
  /\ planned \in [Items -> Items \cup {None, Unknown}]
  /\ phase \in {"begin", "only", "pool", "drain", "plan", "planning",
                "replying"} \cup Ended
  /\ failedGroup \in {"", "failed", "cancelled"}
  /\ thread \in [Threads -> {Idle} \cup Request \cup Job]
  /\ throttleLock \in Threads \cup {Free}
  /\ interval \in MinInterval..MaxInterval /\ since \in 0..MaxInterval
  /\ clients \in Nat /\ cancel \in BOOLEAN /\ late \in BOOLEAN
  /\ calls \in [Items -> 0..2 * Attempts + ReplyTries]

Init ==
  /\ mode \in {"many", "groups"} /\ total \in Items
  /\ next = 1 /\ future = [i \in Items |-> "waiting"] /\ collected = {}
  /\ results = [i \in Items |-> None] /\ planned = [i \in Items |-> None]
  /\ phase = "begin" /\ failedGroup = ""
  /\ thread = [t \in Threads |-> Idle]
  /\ throttleLock = Free /\ interval = FirstInterval /\ since = MaxInterval
  /\ clients = 0 /\ cancel = FALSE
  /\ calls = [i \in Items |-> 0] /\ late = FALSE

At(t, pc) == thread[t].pc = pc
Goto(t, pc) == thread' = [thread EXCEPT ![t].pc = pc]
Scan == 1..total

------------------------------------------------------------------------------
(* One request: analyze_and_draft *)

Asking(i) == [pc |-> "throttle", item |-> i, attempt |-> 1, wait |-> 0,
              outcome |-> "none"]

(* Mutant: the lock is only held to read the interval.                      *)
NotHeld(t) == UNCHANGED throttleLock

Held(t) == throttleLock' = t

(* _throttle: under the lock, how long to sleep.                            *)
Throttle(t) ==
  /\ At(t, "throttle") /\ throttleLock = Free
  /\ Held(t)
  /\ thread' = [thread EXCEPT ![t].pc = "sleep",
                  ![t].wait = IF interval > since THEN interval - since ELSE 0]
  /\ UNCHANGED <<scan, pool, planned, phase, interval, since, clients, cancel,
                 calls, late>>

(* Mutant: the lock is kept over the call.                                  *)
HeldOn == UNCHANGED throttleLock

Released == throttleLock' = Free

(* The sleep is over: the time of this call is noted, and the call counted. *)
Wake(t) ==
  /\ At(t, "sleep") /\ thread[t].wait = 0
  /\ since' = 0 /\ Released
  /\ calls' = [calls EXCEPT ![thread[t].item] = @ + 1]
  /\ Goto(t, "client")
  /\ UNCHANGED <<scan, pool, planned, phase, interval, clients, cancel, late>>

Less(n, by) == IF n > by THEN n - by ELSE 0

(* Time passes for whoever sleeps.                                          *)
Tick ==
  /\ since < MaxInterval
  /\ since' = IF since + Beat < MaxInterval THEN since + Beat ELSE MaxInterval
  /\ thread' = [t \in Threads |->
                  IF At(t, "sleep") THEN [thread[t] EXCEPT !.wait = Less(@, Beat)]
                                    ELSE thread[t]]
  /\ UNCHANGED <<scan, pool, planned, phase, throttleLock, interval, clients,
                 cancel, calls, late>>

(* get_client: a look without the lock.                                     *)
GetClient(t) ==
  /\ At(t, "client")
  /\ Goto(t, IF clients = 0 THEN "create" ELSE "call")
  /\ UNCHANGED <<scan, pool, planned, phase, pacing, clients, cancel, calls, late>>

(* Under _client_lock the client is looked at again, and created.           *)
Created == clients' = IF clients = 0 THEN 1 ELSE clients

CreateClient(t) ==
  /\ At(t, "create")
  /\ Created
  /\ Goto(t, "call")
  /\ UNCHANGED <<scan, pool, planned, phase, pacing, cancel, calls, late>>

(* A thread of the executor is done with its item.                          *)
Result(t, what) ==
  /\ thread' = [thread EXCEPT ![t] = Idle]
  /\ future' = [future EXCEPT ![thread[t].item] = what]

(* The only request of analyze_many raises when it fails.                   *)
OnlyResult(i, what) ==
  /\ phase = "only" /\ phase' = (IF what = "ok" THEN "plan" ELSE "broken")
  /\ results' = IF what = "ok" THEN [results EXCEPT ![i] = i] ELSE results
  /\ thread' = [thread EXCEPT ![Main] = Idle] /\ UNCHANGED planned

(* plan_message goes on with the classification, or as unknown.  Where the  *)
(* approvals allow a reply and the answer has none in it (none came, or the *)
(* approval covers no bulk mail and classify was asked), the reply is asked *)
(* for next.                                                                *)
PlanResult(i, what) ==
  /\ phase = "planning" /\ UNCHANGED results
  /\ planned' = [planned EXCEPT ![i] = IF what = "ok" THEN i ELSE Unknown]
  /\ \/ phase' = "plan" /\ thread' = [thread EXCEPT ![Main] = Idle]
     \/ phase' = "replying" /\ thread' = [thread EXCEPT ![Main] = Asking(i)]

(* _generate_global_reply: a text that cannot be used is as good as none;   *)
(* after the last of them the reply is the fallback's.                      *)
ReplyResult(i, what) ==
  /\ phase = "replying" /\ UNCHANGED <<planned, results>>
  /\ \/ /\ what = "ok" \/ thread[Main].attempt = ReplyTries
        /\ phase' = "plan" /\ thread' = [thread EXCEPT ![Main] = Idle]
     \/ /\ thread[Main].attempt < ReplyTries /\ UNCHANGED phase
        /\ thread' = [thread EXCEPT ![Main] =
                        [Asking(i) EXCEPT !.attempt = thread[Main].attempt + 1]]

MainResult(what) ==
  LET i == thread[Main].item
  IN OnlyResult(i, what) \/ PlanResult(i, what) \/ ReplyResult(i, what)

Done(t, what) ==
  IF t = Main THEN MainResult(what) /\ UNCHANGED <<next, future, collected, failedGroup>>
              ELSE /\ Result(t, what)
                   /\ UNCHANGED <<next, collected, results, failedGroup, planned, phase>>

(* Google answers.                                                          *)
Call(t) ==
  /\ At(t, "call")
  /\ \E o \in {"ok", "quota", "transient"}:
       thread' = [thread EXCEPT ![t].pc = "report", ![t].outcome = o]
  /\ UNCHANGED <<scan, pool, planned, phase, pacing, clients, cancel, calls, late>>

(* A permanent error is neither retried nor reported.                       *)
PermanentError(t) ==
  /\ At(t, "call")
  /\ Done(t, "failed")
  /\ UNCHANGED <<scan, pacing, clients, cancel, calls, late>>

AtLeast(n, bound) == IF n < bound THEN bound ELSE n
AtMost(n, bound) == IF n > bound THEN bound ELSE n

(* _record_throttle_success, _record_throttle_pressure                      *)
Adapted(outcome) ==
  CASE outcome = "ok"    -> AtLeast((interval * 85) \div 100, MinInterval)
    [] outcome = "quota" -> AtMost(AtLeast(interval * 2, MinInterval), MaxInterval)
    [] OTHER -> AtMost(AtLeast((interval * 135) \div 100, MinInterval), MaxInterval)

(* Each request for a reply is made with max_retries=1.                     *)
Again(t) == thread[t].attempt < Attempts /\ ~(t = Main /\ phase = "replying")

(* There is another attempt, until they are used up.                        *)
NextAttempt(t) ==
  /\ Again(t)
  /\ thread' = [thread EXCEPT ![t].pc = "throttle", ![t].attempt = @ + 1,
                  ![t].outcome = "none"]
  /\ UNCHANGED <<pool, planned, phase>>

Fails(t) == NextAttempt(t) \/ (~Again(t) /\ Done(t, "failed"))

(* The report waits for the lock, after a transient error, an analysis that *)
(* does not parse or an answer.                                             *)
Report(t) ==
  /\ At(t, "report") /\ throttleLock = Free
  /\ interval' = Adapted(thread[t].outcome)
  /\ \/ thread[t].outcome = "ok" /\ Done(t, "ok")
     \/ thread[t].outcome # "ok" /\ Fails(t)
  /\ UNCHANGED <<scan, throttleLock, since, clients, cancel, calls, late>>

(* classify and generate_text report nothing about an empty answer.         *)
EmptyAnswer(t) ==
  /\ At(t, "call") /\ t = Main /\ phase \in {"planning", "replying"}
  /\ Fails(t)
  /\ UNCHANGED <<scan, pacing, clients, cancel, calls, late>>

------------------------------------------------------------------------------
(* The executor: analyze_many, analyze_batch_groups *)

(* A thread takes the next item; before it asks, it looks for a request to  *)
(* stop.                                                                    *)
TakeItem(w) ==
  /\ w \in Workers /\ At(w, "idle")
  /\ phase \in {"pool", "drain"} /\ next \in Scan
  /\ next' = next + 1
  /\ IF cancel
       THEN future' = [future EXCEPT ![next] = "cancelled"] /\ UNCHANGED thread
       ELSE /\ future' = [future EXCEPT ![next] = "running"]
            /\ thread' = [thread EXCEPT ![w] =
                 IF mode = "many" THEN Asking(next) ELSE [pc |-> "job", item |-> next]]
  /\ UNCHANGED <<scan, collected, results, failedGroup, planned, phase, pacing,
                 clients, cancel, calls, late>>

(* analyze_batch: the job succeeds with all its answers; it fails, is       *)
(* incomplete, does not parse, or meets its deadline; or the poll sees the  *)
(* request to stop.                                                         *)
BatchEnds(w) ==
  /\ At(w, "job")
  /\ \E what \in {"ok", "failed"} \cup (IF cancel THEN {"cancelled"} ELSE {}):
       Done(w, what)
  /\ clients' = 1
  /\ UNCHANGED <<scan, pacing, cancel, calls, late>>

Over == {"ok", "failed", "cancelled"}
Completed == {i \in Scan: future[i] \in Over}

(* Mutant: results in the order of their completion.                        *)
PlaceInTurn(i) == Cardinality(collected) + 1

(* results[futures[future]] *)
PlaceOf(i) == i

(* as_completed hands out a finished future; a failed message keeps None, a *)
(* failed group raises.                                                     *)
Collect(i) ==
  /\ phase = "pool" /\ i \in Completed \ collected
  /\ collected' = collected \cup {i}
  /\ results' = IF future[i] = "ok" THEN [results EXCEPT ![PlaceOf(i)] = i] ELSE results
  /\ IF mode = "groups" /\ future[i] # "ok"
       THEN phase' = "drain" /\ failedGroup' = future[i]
       ELSE UNCHANGED <<phase, failedGroup>>
  /\ UNCHANGED <<scan, next, future, planned, thread, pacing, clients, cancel,
                 calls, late>>

(* analyze_many, after the pool.                                            *)
Stopped == cancel \/ \E i \in Scan: future[i] = "cancelled"

PoolEnds ==
  /\ phase = "pool" /\ collected = Scan
  /\ phase' = IF mode = "many" /\ Stopped THEN "cancelled" ELSE "plan"
  /\ UNCHANGED <<scan, pool, planned, thread, pacing, clients, cancel, calls, late>>

(* The executor is left by an exception: it waits for every group, then the *)
(* run goes on without results, or is cancelled.                            *)
Drained ==
  /\ phase = "drain" /\ Completed = Scan
  /\ phase' = IF failedGroup = "cancelled" THEN "cancelled" ELSE "plan"
  /\ results' = [i \in Items |-> None]
  /\ UNCHANGED <<scan, next, future, collected, failedGroup, planned, thread, pacing,
                 clients, cancel, calls, late>>

------------------------------------------------------------------------------
(* The run *)

(* Mutant: the run asks only before it begins.                              *)
StopAskedOnce == cancel /\ phase = "begin"

(* stop_if_cancelled *)
StopIfCancelled == cancel

(* One message, or one thread, is analysed without a pool, and then only    *)
(* the first of them.                                                       *)
OnlyFirst == mode = "many" /\ (total = 1 \/ Cardinality(Workers) = 1)

(* The run may be cancelled already; then the pool.                         *)
Begin ==
  /\ phase = "begin"
  /\ IF StopIfCancelled THEN phase' = "cancelled" /\ UNCHANGED thread
     ELSE IF OnlyFirst
       THEN phase' = "only" /\ thread' = [thread EXCEPT ![Main] = Asking(1)]
       ELSE phase' = "pool" /\ UNCHANGED thread
  /\ UNCHANGED <<scan, pool, planned, pacing, clients, cancel, calls, late>>

Unplanned == {i \in Scan: planned[i] = None}
Current == CHOOSE i \in Unplanned: \A j \in Unplanned: i <= j

(* Before each message the run may be cancelled; plan_message asks for      *)
(* itself when the pool had no result.                                      *)
Plan ==
  /\ phase = "plan" /\ Unplanned # {}
  /\ IF StopIfCancelled THEN phase' = "cancelled" /\ UNCHANGED <<planned, thread>>
     ELSE IF results[Current] # None
       THEN planned' = [planned EXCEPT ![Current] = results[Current]]
            /\ UNCHANGED <<phase, thread>>
       ELSE phase' = "planning" /\ thread' = [thread EXCEPT ![Main] = Asking(Current)]
            /\ UNCHANGED planned
  /\ UNCHANGED <<scan, pool, pacing, clients, cancel, calls, late>>

AllPlanned ==
  /\ phase = "plan" /\ Unplanned = {}
  /\ phase' = "planned"
  /\ UNCHANGED <<scan, pool, planned, thread, pacing, clients, cancel, calls, late>>

(* The owner asks to stop, at any time.                                     *)
RequestCancel ==
  /\ CancelAllowed /\ ~cancel /\ phase \notin Ended
  /\ cancel' = TRUE
  /\ late' = \/ Unplanned = {}
             \/ phase = "planning" /\ Unplanned = {total}
  /\ UNCHANGED <<scan, pool, planned, phase, thread, pacing, clients, calls>>

------------------------------------------------------------------------------
Asks(t) == \/ Throttle(t) \/ Wake(t) \/ GetClient(t) \/ CreateClient(t)
           \/ Call(t) \/ PermanentError(t) \/ Report(t) \/ EmptyAnswer(t)

WorkerStep(w) == TakeItem(w) \/ BatchEnds(w) \/ Asks(w)

MainStep == \/ Begin \/ PoolEnds \/ Drained \/ Plan \/ AllPlanned \/ Asks(Main)
            \/ \E i \in Items: Collect(i)

Next == \/ \E w \in Workers: WorkerStep(w)
        \/ MainStep \/ Tick \/ RequestCancel

Spec == Init /\ [][Next]_vars

(* Threads run, time passes, a call or a job comes back or times out, and   *)
(* the locks are handed to those who wait (each takes one bounded number of *)
(* times).                                                                  *)
FairSpec == /\ Spec /\ WF_vars(Tick) /\ WF_vars(MainStep)
            /\ \A w \in Workers: WF_vars(WorkerStep(w))

------------------------------------------------------------------------------
(* Properties *)

(* A message is planned with the analysis of that message, or as unknown,   *)
(* in whatever order the calls come back.                                   *)
OwnResult == \A i \in Scan: planned[i] \in {None, Unknown, i}

(* Between two calls passes the interval that is in force when the second   *)
(* is made, whatever other threads report while it sleeps.                  *)
Spaced ==
  [][\A i \in Items: calls'[i] > calls[i] => since >= interval]_vars

(* One client serves every thread.                                          *)
OneClient == clients <= 1

(* Only who has the lock sleeps, until the interval is over.                *)
Pacing ==
  \A t \in Threads:
    /\ At(t, "sleep") <=> throttleLock = t
    /\ At(t, "sleep") => since + thread[t].wait >= interval

(* What waits is in nobody's hands; what runs, in those of one thread.      *)
PoolHolds ==
  /\ \A i \in Items: results[i] \in {None, i} /\ (i >= next => future[i] = "waiting")
  /\ collected \subseteq Completed /\ (phase = "begin" => next = 1)
  /\ \A w \in Workers: ~At(w, "idle") =>
       /\ phase \in {"pool", "drain"} /\ thread[w].item \in Scan
       /\ future[thread[w].item] = "running"
       /\ \A v \in Workers: ~At(v, "idle") /\ thread[v].item = thread[w].item => v = w

(* The main thread asks about the first message, the next to be planned or  *)
(* the one just classified: it plans one after the other.                   *)
MainHolds ==
  /\ ~At(Main, "idle") <=> phase \in {"only", "planning", "replying"}
  /\ ~At(Main, "idle") => thread[Main] \in Request
  /\ phase = "only" => thread[Main].item = 1
  /\ phase = "planning" =>
       thread[Main].item \in Unplanned /\ \A i \in Unplanned: thread[Main].item <= i
  /\ phase = "replying" =>
       thread[Main].item \in Scan /\ planned[thread[Main].item] # None
  /\ \A i, j \in Scan: i < j /\ planned[i] = None => planned[j] = None
  /\ phase \in {"begin", "only", "pool", "drain"} => \A i \in Items: planned[i] = None

(* The requests a thread has made about its item: each attempt is one.      *)
Made(t) == thread[t].attempt - IF thread[t].pc \in {"throttle", "sleep"} THEN 1 ELSE 0

(* How often the request of a thread may be made.                           *)
Tries(t) == IF t = Main /\ phase = "replying" THEN ReplyTries ELSE Attempts

CallsCounted ==
  /\ \A t \in Threads: thread[t] \in Request => thread[t].attempt <= Tries(t)
  /\ \A w \in Workers: thread[w] \in Request => calls[thread[w].item] <= Made(w)
  /\ phase = "only" => calls[1] <= Made(Main)
  /\ phase = "planning" => calls[thread[Main].item] <= Attempts + Made(Main)
  /\ phase = "replying" => calls[thread[Main].item] <= 2 * Attempts + Made(Main)
  /\ \A i \in Items:
       /\ phase \in {"begin", "pool", "drain"} /\ future[i] = "waiting" => calls[i] = 0
       /\ planned[i] = None /\ ~(phase = "planning" /\ thread[Main].item = i) =>
            calls[i] <= Attempts

(* The state of an analysis: results are of their own messages, the threads *)
(* share one client, and no message costs more requests than max_retries in *)
(* the pool, max_retries in the plan and two for a reply (TypeOK); the rest *)
(* is what makes that inductive.                                            *)
Inv == /\ TypeOK /\ OwnResult /\ OneClient
       /\ Pacing /\ PoolHolds /\ MainHolds /\ CallsCounted

(* After the owner asked to stop, no run plans all its messages, unless     *)
(* only the last was left (hosted_dashboard.py:332-334).                    *)
CancelStops == phase = "planned" => ~cancel \/ late

(* Every analysis ends.                                                     *)
AnalysisEnds == <>(phase \in Ended)
=============================================================================
