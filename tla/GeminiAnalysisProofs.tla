-------------------------- MODULE GeminiAnalysisProofs --------------------------
(***************************************************************************)
(* The analysis of a scan, for any number of messages, threads and         *)
(* attempts and any intervals: Inv is inductive, and with CancelHeeded     *)
(* makes that a request to stop is heeded; calls keep their distance.      *)
(***************************************************************************)
EXTENDS GeminiAnalysis, WellFoundedInduction, TLAPS

(* While a request to stop is not late, there is a message whose plan has   *)
(* not begun.                                                               *)
CancelHeeded ==
  cancel /\ ~late =>
    /\ phase \in {"plan", "replying"} => total \in Unplanned
    /\ phase = "planning" => thread[Main].item # total

IInv == Inv /\ CancelStops /\ CancelHeeded

LEMMA Bounds ==
  /\ MaxItems \in Nat \ {0} /\ Attempts \in Nat \ {0} /\ 1 \in Items
  /\ ReplyTries = 2 /\ MostTries \in Nat /\ Attempts <= MostTries /\ ReplyTries <= MostTries
  /\ MinInterval \in Nat \ {0} /\ MaxInterval \in Nat \ {0} /\ FirstInterval \in Nat \ {0}
  /\ Beat \in Nat \ {0} /\ MinInterval <= FirstInterval /\ FirstInterval <= MaxInterval
  /\ Main \in Threads /\ Main \notin Workers /\ Workers \subseteq Threads
  /\ Free \notin Threads
BY MainAssumption, ItemAssumption, IntervalAssumption
   DEF Threads, Items, ReplyTries, MostTries

(* Who throttles, sleeps, calls or reports makes a request. *)
LEMMA WhoAsks ==
  ASSUME TypeOK, NEW t \in Threads,
         thread[t].pc \in {"throttle", "sleep", "client", "create", "call", "report"}
  PROVE  thread[t] \in Request
<1>1. thread[t] \in {Idle} \cup Request \cup Job
  BY DEF TypeOK
<1>2. thread[t] # Idle
  BY DEF Idle
<1>3. thread[t] \notin Job
  BY DEF Job
<1> QED
  BY <1>1, <1>2, <1>3

LEMMA WhoRests ==
  ASSUME TypeOK, NEW t \in Threads
  PROVE  /\ thread[t] \in Request \cup Job => ~At(t, "idle") /\ thread[t].item \in Items
         /\ thread[t] \notin Request \cup Job => thread[t] = Idle /\ At(t, "idle")
<1>1. thread[t] \in {Idle} \cup Request \cup Job
  BY DEF TypeOK
<1>2. thread[t] \in Request => ~At(t, "idle") /\ thread[t].item \in Items
  BY DEF At, Request
<1>3. thread[t] \in Job => ~At(t, "idle") /\ thread[t].item \in Items
  BY DEF At, Job
<1>4. thread[t] = Idle => At(t, "idle")
  BY DEF At, Idle
<1> QED
  BY <1>1, <1>2, <1>3, <1>4

(* Types *)

LEMMA TypeInit == Init => TypeOK
<1> SUFFICES ASSUME Init PROVE TypeOK
  OBVIOUS
<1>0. /\ interval = FirstInterval /\ since = MaxInterval /\ next = 1 /\ clients = 0
      /\ calls = [i \in Items |-> 0]
  BY DEF Init
<1>1. interval \in MinInterval..MaxInterval /\ since \in 0..MaxInterval
  BY <1>0, Bounds
<1>2. thread \in [Threads -> {Idle} \cup Request \cup Job]
  BY DEF Init
<1>3. calls \in [Items -> 0..2 * Attempts + ReplyTries]
  BY <1>0, Bounds
<1>4. next \in 1..MaxItems + 1 /\ clients \in Nat
  BY <1>0, Bounds
<1> QED
  BY <1>1, <1>2, <1>3, <1>4 DEF Init, TypeOK, Free

(* The numbers of TypeOK *)
LEMMA Numbers ==
  TypeOK => /\ interval \in MinInterval..MaxInterval /\ since \in 0..MaxInterval
            /\ next \in 1..MaxItems + 1 /\ total \in Items /\ clients \in Nat
            /\ calls \in [Items -> 0..2 * Attempts + ReplyTries]
BY DEF TypeOK

(* The interval keeps its bounds. *)
LEMMA AdaptedTyped == TypeOK => \A o: Adapted(o) \in MinInterval..MaxInterval
<1> SUFFICES ASSUME TypeOK, NEW o PROVE Adapted(o) \in MinInterval..MaxInterval
  OBVIOUS
<1>1. /\ interval \in Nat /\ MinInterval <= interval /\ interval <= MaxInterval
      /\ MinInterval \in Nat /\ MaxInterval \in Nat /\ MinInterval <= MaxInterval
  BY Bounds, Numbers
<1>2. /\ (interval * 85) \div 100 \in Int /\ (interval * 85) \div 100 <= interval
      /\ (interval * 135) \div 100 \in Int /\ interval * 2 \in Int
  BY <1>1
<1>3. \A n \in Int: /\ AtLeast(n, MinInterval) \in Int /\ MinInterval <= AtLeast(n, MinInterval)
                    /\ n <= MaxInterval => AtLeast(n, MinInterval) <= MaxInterval
  BY <1>1 DEF AtLeast
<1>4. \A n \in Int: MinInterval <= n => AtMost(n, MaxInterval) \in MinInterval..MaxInterval
  BY <1>1 DEF AtMost
<1>5. AtLeast((interval * 85) \div 100, MinInterval) \in MinInterval..MaxInterval
  BY <1>1, <1>2, <1>3
<1>6. AtMost(AtLeast(interval * 2, MinInterval), MaxInterval) \in MinInterval..MaxInterval
  BY <1>2, <1>3, <1>4
<1>7. AtMost(AtLeast((interval * 135) \div 100, MinInterval), MaxInterval) \in MinInterval..MaxInterval
  BY <1>2, <1>3, <1>4
<1> QED
  BY <1>5, <1>6, <1>7 DEF Adapted

------------------------------------------------------------------------------
(* A request goes on *)

LEMMA AskOn ==
  ASSUME TypeOK, PoolHolds, MainHolds, OwnResult,
         NEW t \in Threads, thread[t] \in Request,
         NEW r \in Request, r.item = thread[t].item, thread' = [thread EXCEPT ![t] = r],
         UNCHANGED <<scan, pool, planned, phase>>
  PROVE  /\ thread' \in [Threads -> {Idle} \cup Request \cup Job]
         /\ thread'[t] = r /\ \A u \in Threads \ {t}: thread'[u] = thread[u]
         /\ \A u \in Threads: thread'[u].item = thread[u].item /\ (At(u, "idle")' <=> At(u, "idle"))
         /\ PoolHolds' /\ MainHolds' /\ OwnResult'
<1>1. /\ thread' \in [Threads -> {Idle} \cup Request \cup Job]
      /\ thread'[t] = r /\ \A u \in Threads \ {t}: thread'[u] = thread[u]
  BY DEF TypeOK
<1>2. ASSUME NEW u \in Threads
      PROVE  thread'[u].item = thread[u].item /\ (At(u, "idle")' <=> At(u, "idle"))
  BY <1>1 DEF At, Request
<1>3. UNCHANGED <<mode, total, next, future, collected, results, failedGroup, planned, phase>>
  BY DEF scan, pool
<1>4. PoolHolds'
  BY <1>2, <1>3, Bounds DEF PoolHolds, Scan, Completed
<1>5. thread[Main] \in Request => thread'[Main] \in Request
  BY <1>1, Bounds
<1>6. MainHolds'
  BY <1>2, <1>3, <1>5, Bounds DEF MainHolds, Scan, Unplanned
<1>7. OwnResult'
  BY <1>3 DEF OwnResult, Scan
<1> QED
  BY <1>1, <1>2, <1>4, <1>6, <1>7

(* One thread at most makes requests about an item. *)
LEMMA OneAsks ==
  ASSUME TypeOK, PoolHolds, MainHolds, NEW t \in Threads, NEW u \in Threads,
         thread[t] \in Request, thread[u] \in Request, thread[t].item = thread[u].item
  PROVE  t = u
<1>1. ~At(t, "idle") /\ ~At(u, "idle")
  BY WhoRests
<1>2. CASE t \in Workers /\ u \in Workers
  BY <1>1, <1>2 DEF PoolHolds
<1>3. CASE t = Main \/ u = Main
  BY <1>1, <1>3 DEF PoolHolds, MainHolds, Threads
<1> QED
  BY <1>2, <1>3 DEF Threads

(* The count stays below what was made: a call that is counted is made.     *)
LEMMA CountOn ==
  ASSUME TypeOK, PoolHolds, MainHolds, CallsCounted,
         NEW t \in Threads, thread[t] \in Request,
         NEW r \in Request, r.item = thread[t].item, thread' = [thread EXCEPT ![t] = r],
         UNCHANGED <<scan, pool, planned, phase>>, r.attempt <= Tries(t),
         NEW more \in 0..1, Made(t)' >= Made(t) + more,
         calls' \in [Items -> Int], calls'[thread[t].item] = calls[thread[t].item] + more,
         \A i \in Items: i # thread[t].item => calls'[i] = calls[i]
  PROVE  calls' \in [Items -> 0..2 * Attempts + ReplyTries] /\ CallsCounted'
<1>a. PICK i \in Items: i = thread[t].item
  BY DEF Request
<1>b. calls \in [Items -> 0..2 * Attempts + ReplyTries] /\ Attempts \in Nat
  BY Bounds, Numbers
<1>1. /\ calls' \in [Items -> Int]
      /\ UNCHANGED <<mode, total, next, future, collected, results, failedGroup, planned, phase>>
  BY <1>a DEF scan, pool
<1>2. /\ thread'[t] = r /\ \A u \in Threads \ {t}: thread'[u] = thread[u] /\ Made(u)' = Made(u)
      /\ thread' \in [Threads -> {Idle} \cup Request \cup Job]
  BY DEF TypeOK, Made
<1>3. Made(t) \in 0..Tries(t) /\ Made(t)' \in 0..Tries(t) /\ Tries(t) \in {ReplyTries, Attempts}
  BY <1>2, Bounds DEF Made, Request, CallsCounted, Tries
<1>4. t \in Workers \/ t = Main
  BY DEF Threads
<1>5. ~At(t, "idle") /\ thread[t] \notin Job
  BY DEF At, Request, Job
(* before the call that is counted *)
<1>6. /\ t \in Workers => calls[i] <= Made(t) /\ phase \in {"pool", "drain"} /\ future[i] = "running"
      /\ t = Main => \/ phase = "only" /\ i = 1 /\ calls[i] <= Made(t)
                     \/ phase = "planning" /\ calls[i] <= Attempts + Made(t)
                     \/ phase = "replying" /\ calls[i] <= 2 * Attempts + Made(t)
  BY <1>a, <1>5 DEF CallsCounted, PoolHolds, MainHolds
<1>7. \A j \in Items: j # i => calls'[j] = calls[j]
  BY <1>a
<1>8. calls'[i] = calls[i] + more /\ calls[i] \in Nat
  BY <1>a, <1>b
<1>9. /\ t \in Workers => calls'[i] <= Made(t)'
      /\ phase = "only" => calls'[i] <= Made(t)'
      /\ phase = "planning" => calls'[i] <= Attempts + Made(t)'
      /\ phase = "replying" => calls'[i] <= 2 * Attempts + Made(t)'
  BY <1>3, <1>4, <1>6, <1>8, <1>b, Bounds
<1>10. /\ calls'[i] \in 0..2 * Attempts + ReplyTries
       /\ phase \notin {"planning", "replying"} => calls'[i] <= Attempts
  BY <1>3, <1>4, <1>6, <1>8, <1>9, <1>b, Bounds DEF Tries
<1>11. calls' \in [Items -> 0..2 * Attempts + ReplyTries]
  <2>1. \A j \in Items: calls'[j] \in 0..2 * Attempts + ReplyTries
    BY <1>7, <1>10, <1>b
  <2> QED
    BY <1>1, <2>1
<1>12. ASSUME NEW w \in Workers, thread'[w] \in Request PROVE calls'[thread'[w].item] <= Made(w)'
  <2>1. CASE w = t
    BY <1>2, <1>9, <1>a, <2>1
  <2>2. CASE w # t
    <3>1. w \in Threads /\ thread[w] \in Request /\ thread'[w] = thread[w]
      BY <1>2, <1>12, <2>2, Bounds
    <3>2. thread[w].item # i
      BY <1>a, <2>2, <3>1, OneAsks
    <3>3. thread[w].item \in Items
      BY <3>1 DEF Request
    <3> QED
      BY <1>2, <1>7, <2>2, <3>1, <3>2, <3>3 DEF CallsCounted
  <2> QED
    BY <2>1, <2>2
<1>13. phase \in {"only", "planning", "replying"} => t = Main
  BY <1>4, <1>6
<1>14. phase' = "only" => calls'[1] <= Made(Main)'
  BY <1>1, <1>6, <1>9, <1>13
<1>15. phase' = "planning" => calls'[thread'[Main].item] <= Attempts + Made(Main)'
  BY <1>1, <1>2, <1>9, <1>13, <1>a
<1>18. phase' = "replying" => calls'[thread'[Main].item] <= 2 * Attempts + Made(Main)'
  BY <1>1, <1>2, <1>9, <1>13, <1>a
<1>19. ASSUME NEW u \in Threads, thread'[u] \in Request PROVE thread'[u].attempt <= Tries(u)'
  BY <1>1, <1>2, <1>19 DEF CallsCounted, Tries
<1>16. ASSUME NEW j \in Items, phase' \in {"begin", "pool", "drain"}, future'[j] = "waiting"
       PROVE  calls'[j] = 0
  BY <1>1, <1>4, <1>6, <1>7, <1>16 DEF CallsCounted
<1>17. ASSUME NEW j \in Items, planned'[j] = None, ~(phase' = "planning" /\ thread'[Main].item = j)
       PROVE  calls'[j] <= Attempts
  <2>1. CASE j = i
    <3>1. phase # "replying"
      BY <1>1, <1>13, <1>17, <1>a, <2>1 DEF MainHolds
    <3> QED
      BY <1>1, <1>2, <1>10, <1>13, <1>17, <1>a, <2>1, <3>1
  <2>2. CASE j # i
    <3>1. phase = "planning" => thread'[Main].item = thread[Main].item
      BY <1>2, <1>13, <1>a
    <3> QED
      BY <1>1, <1>7, <1>17, <2>2, <3>1 DEF CallsCounted
  <2> QED
    BY <2>1, <2>2
<1> QED
  BY <1>11, <1>12, <1>14, <1>15, <1>16, <1>17, <1>18, <1>19 DEF CallsCounted


LEMMA CountSame ==
  ASSUME TypeOK, PoolHolds, MainHolds, CallsCounted,
         NEW t \in Threads, thread[t] \in Request,
         NEW r \in Request, r.item = thread[t].item, thread' = [thread EXCEPT ![t] = r],
         UNCHANGED <<scan, pool, planned, phase, calls>>, Made(t)' = Made(t),
         r.attempt <= Tries(t)
  PROVE  CallsCounted'
<1>1. PICK more \in 0..1: more = 0
  OBVIOUS
<1>2. /\ calls \in [Items -> 0..2 * Attempts + ReplyTries] /\ Attempts \in Nat /\ Made(t) \in Int
      /\ thread[t].item \in Items
  BY Numbers, Bounds DEF Made, Request
<1>3. /\ Made(t)' >= Made(t) + more /\ calls' \in [Items -> Int]
      /\ calls'[thread[t].item] = calls[thread[t].item] + more
  BY <1>1, <1>2
<1> QED
  BY <1>3, CountOn

(* Who does not sleep, and does not begin to, disturbs nobody's sleep.      *)
LEMMA PacingOn ==
  ASSUME Pacing, NEW t \in Threads, ~At(t, "sleep"), ~At(t, "sleep")',
         \A u \in Threads \ {t}: thread'[u] = thread[u],
         UNCHANGED <<throttleLock, since>>, UNCHANGED interval \/ throttleLock = Free
  PROVE  Pacing'
<1>1. throttleLock = Free => \A u \in Threads: ~At(u, "sleep")
  BY Bounds DEF Pacing
<1>2. \A u \in Threads: At(u, "sleep")' <=> At(u, "sleep")
  BY DEF At
<1>3. ASSUME NEW u \in Threads, At(u, "sleep")' PROVE since' + thread'[u].wait >= interval'
  <2>1. u # t /\ At(u, "sleep") /\ UNCHANGED interval
    BY <1>1, <1>2, <1>3
  <2> QED
    BY <2>1 DEF Pacing
<1> QED
  BY <1>2, <1>3 DEF Pacing

LEMMA ThrottleStep ==
  ASSUME Inv, NEW t \in Threads, Throttle(t)
  PROVE  Inv'
<1> USE DEF Inv
<1>0. /\ thread[t] \in Request /\ thread[t].pc = "throttle"
      /\ UNCHANGED <<scan, pool, planned, phase, interval, since, clients, cancel, calls, late>>
  BY WhoAsks DEF Throttle, At
<1>1. /\ interval \in Nat /\ since \in Nat /\ interval <= MaxInterval /\ MaxInterval \in Nat
  BY Numbers, Bounds
<1>2. PICK wait \in 0..MaxInterval: wait = IF interval > since THEN interval - since ELSE 0
  BY <1>1
<1>3. PICK r \in Request: r = [thread[t] EXCEPT !.pc = "sleep", !.wait = wait]
  BY <1>0 DEF Request
<1>4. r.item = thread[t].item /\ r.attempt = thread[t].attempt /\ r.pc = "sleep" /\ r.wait = wait
  BY <1>0, <1>3 DEF Request
<1>5. thread' = [thread EXCEPT ![t] = r]
  BY <1>2, <1>3 DEF Throttle
<1>6. /\ thread' \in [Threads -> {Idle} \cup Request \cup Job]
      /\ thread'[t] = r /\ \A u \in Threads \ {t}: thread'[u] = thread[u]
      /\ PoolHolds' /\ MainHolds' /\ OwnResult'
  BY <1>0, <1>4, <1>5, AskOn
<1>7. Made(t)' = Made(t) /\ r.attempt <= Tries(t)
  BY <1>0, <1>4, <1>6 DEF Made, Request, CallsCounted
<1>9. CallsCounted'
  BY <1>0, <1>4, <1>5, <1>7, CountSame
<1>10. throttleLock' = t /\ throttleLock = Free
  BY DEF Throttle, Held
<1>11. Pacing'
  <2>1. \A u \in Threads: ~At(u, "sleep")
    BY <1>10, Bounds DEF Pacing
  <2>2. \A u \in Threads: At(u, "sleep")' <=> u = t
    BY <1>4, <1>6, <2>1 DEF At
  <2>3. since + wait >= interval
    BY <1>1, <1>2
  <2> QED
    BY <1>0, <1>4, <1>6, <1>10, <2>2, <2>3 DEF Pacing
<1>12. TypeOK'
  BY <1>0, <1>6, <1>10 DEF TypeOK, scan, pool
<1> QED
  BY <1>0, <1>6, <1>9, <1>11, <1>12 DEF OneClient

LEMMA WakeStep ==
  ASSUME Inv, NEW t \in Threads, Wake(t)
  PROVE  Inv'
<1> USE DEF Inv
<1>0. /\ thread[t] \in Request /\ thread[t].pc = "sleep"
      /\ UNCHANGED <<scan, pool, planned, phase, interval, clients, cancel, late>>
  BY WhoAsks DEF Wake, At
<1>1. PICK r \in Request: r = [thread[t] EXCEPT !.pc = "client"]
  BY <1>0 DEF Request
<1>2. r.item = thread[t].item /\ r.attempt = thread[t].attempt /\ r.pc = "client"
  BY <1>0, <1>1 DEF Request
<1>3. thread' = [thread EXCEPT ![t] = r]
  BY <1>1 DEF Wake, Goto
<1>4. /\ thread' \in [Threads -> {Idle} \cup Request \cup Job]
      /\ thread'[t] = r /\ \A u \in Threads \ {t}: thread'[u] = thread[u]
      /\ PoolHolds' /\ MainHolds' /\ OwnResult'
  BY <1>0, <1>2, <1>3, AskOn
<1>6. calls' \in [Items -> 0..2 * Attempts + ReplyTries] /\ CallsCounted'
  <2>1. PICK more \in 0..1: more = 1
    OBVIOUS
  <2>2. Made(t)' >= Made(t) + more
    BY <1>0, <1>2, <1>4, <2>1 DEF Made, Request
  <2>3. PICK i \in Items: i = thread[t].item
    BY <1>0 DEF Request
  <2>4. calls \in [Items -> 0..2 * Attempts + ReplyTries] /\ Attempts \in Nat
    BY Numbers, Bounds
  <2>5. calls' = [calls EXCEPT ![i] = @ + more]
    BY <2>1, <2>3 DEF Wake
  <2>6. /\ calls' \in [Items -> Int] /\ calls'[i] = calls[i] + more
        /\ \A j \in Items: j # i => calls'[j] = calls[j]
    BY <2>4, <2>5
  <2>7. r.attempt <= Tries(t)
    BY <1>0, <1>2 DEF CallsCounted
  <2> QED
    BY <1>0, <1>2, <1>3, <2>2, <2>3, <2>6, <2>7, CountOn
<1>7. throttleLock' = Free /\ throttleLock = t
  BY DEF Wake, Released, Pacing
<1>8. Pacing'
  <2>1. \A u \in Threads: At(u, "sleep") => u = t
    BY <1>7 DEF Pacing
  <2>2. \A u \in Threads: ~At(u, "sleep")'
    BY <1>2, <1>4, <2>1 DEF At
  <2> QED
    BY <1>7, <2>2, Bounds DEF Pacing
<1>9. since' \in 0..MaxInterval
  BY Bounds DEF Wake
<1>10. TypeOK'
  BY <1>0, <1>4, <1>6, <1>7, <1>9 DEF TypeOK, scan, pool
<1> QED
  BY <1>0, <1>4, <1>6, <1>8, <1>10 DEF OneClient

(* What does not throttle: a client is looked for, a call is made. *)
LEMMA CallStep ==
  ASSUME Inv, NEW t \in Threads, GetClient(t) \/ CreateClient(t) \/ Call(t)
  PROVE  Inv'
<1> USE DEF Inv
<1>0. /\ thread[t] \in Request /\ thread[t].pc \in {"client", "create", "call"}
      /\ UNCHANGED <<scan, pool, planned, phase, pacing, cancel, calls, late>>
  BY WhoAsks DEF GetClient, CreateClient, Call, At
<1>1. PICK r \in Request: /\ thread' = [thread EXCEPT ![t] = r]
                          /\ r.item = thread[t].item /\ r.attempt = thread[t].attempt
                          /\ r.pc \in {"create", "call", "report"}
  <2>1. CASE GetClient(t) \/ CreateClient(t)
    <3>1. PICK pc \in {"create", "call"}: thread' = [thread EXCEPT ![t] = [thread[t] EXCEPT !.pc = pc]]
      BY <2>1 DEF GetClient, CreateClient, Goto
    <3>2. PICK r \in Request: r = [thread[t] EXCEPT !.pc = pc]
      BY <1>0 DEF Request
    <3>3. r.item = thread[t].item /\ r.attempt = thread[t].attempt /\ r.pc = pc
      BY <1>0, <3>2 DEF Request
    <3> QED
      BY <3>1, <3>2, <3>3
  <2>2. CASE Call(t)
    <3>1. PICK o \in {"ok", "quota", "transient"}:
            thread' = [thread EXCEPT ![t] = [thread[t] EXCEPT !.pc = "report", !.outcome = o]]
      BY <2>2 DEF Call
    <3>2. PICK r \in Request: r = [thread[t] EXCEPT !.pc = "report", !.outcome = o]
      BY <1>0 DEF Request
    <3>3. r.item = thread[t].item /\ r.attempt = thread[t].attempt /\ r.pc = "report"
      BY <1>0, <3>2 DEF Request
    <3> QED
      BY <3>1, <3>2, <3>3
  <2> QED
    BY <2>1, <2>2
<1>2. /\ thread' \in [Threads -> {Idle} \cup Request \cup Job]
      /\ thread'[t] = r /\ \A u \in Threads \ {t}: thread'[u] = thread[u]
      /\ PoolHolds' /\ MainHolds' /\ OwnResult'
  BY <1>0, <1>1, AskOn
<1>3. Made(t)' = Made(t) /\ r.attempt <= Tries(t)
  BY <1>0, <1>1, <1>2 DEF Made, Request, CallsCounted
<1>5. CallsCounted'
  BY <1>0, <1>1, <1>3, CountSame DEF pacing
<1>6. ~At(t, "sleep") /\ ~At(t, "sleep")' /\ UNCHANGED <<throttleLock, since, interval>>
  BY <1>0, <1>1, <1>2 DEF At, pacing
<1>7. Pacing'
  BY <1>2, <1>6, PacingOn
<1>8. clients' \in Nat /\ OneClient'
  BY Numbers DEF GetClient, CreateClient, Created, Call, OneClient
<1>9. TypeOK'
  BY <1>0, <1>2, <1>6, <1>8 DEF TypeOK, scan, pool
<1> QED
  BY <1>0, <1>2, <1>5, <1>7, <1>8, <1>9

(* Time passes. *)
LEMMA TickStep ==
  ASSUME Inv, Tick
  PROVE  Inv'
<1> USE DEF Inv
<1>0. UNCHANGED <<mode, total, next, future, collected, results, failedGroup, planned, phase,
                  throttleLock, interval, clients, cancel, calls, late>>
  BY DEF Tick, scan, pool
<1>1. /\ since \in Nat /\ since' \in 0..MaxInterval /\ Beat \in Nat /\ interval <= MaxInterval
      /\ interval \in Nat /\ MaxInterval \in Nat
      /\ since' = MaxInterval \/ since' = since + Beat
  BY Numbers, Bounds DEF Tick
<1>2. ASSUME NEW t \in Threads
      PROVE  /\ thread'[t] \in {Idle} \cup Request \cup Job
             /\ thread'[t].pc = thread[t].pc /\ thread'[t].item = thread[t].item
             /\ thread'[t] \in Request <=> thread[t] \in Request
             /\ thread[t] \in Request => /\ Made(t)' = Made(t)
                                        /\ thread'[t].attempt = thread[t].attempt
             /\ At(t, "sleep") => since' + thread'[t].wait >= interval
  <2>1. CASE ~At(t, "sleep")
    BY <2>1 DEF Tick, TypeOK, Made
  <2>2. CASE At(t, "sleep")
    <3>1. thread[t] \in Request
      BY <2>2, WhoAsks DEF At
    <3>2. thread[t].wait \in 0..MaxInterval /\ since + thread[t].wait >= interval
      BY <2>2, <3>1 DEF Request, Pacing
    <3>3. PICK wait \in 0..MaxInterval: wait = Less(thread[t].wait, Beat)
      BY <1>1, <3>2 DEF Less
    <3>4. thread'[t] = [thread[t] EXCEPT !.wait = wait]
      BY <2>2, <3>3 DEF Tick
    <3>a. wait >= 0 /\ wait >= thread[t].wait - Beat
      BY <1>1, <3>2, <3>3 DEF Less
    <3>5. since' + wait >= interval
      <4>1. CASE since' = MaxInterval
        BY <1>1, <3>a, <4>1
      <4>2. CASE since' = since + Beat
        BY <1>1, <3>2, <3>a, <4>2
      <4> QED
        BY <1>1, <4>1, <4>2
    <3>6. /\ thread'[t] \in Request /\ thread'[t].pc = thread[t].pc /\ thread'[t].wait = wait
          /\ thread'[t].item = thread[t].item /\ thread'[t].attempt = thread[t].attempt
      BY <3>1, <3>4 DEF Request
    <3> QED
      BY <3>1, <3>5, <3>6 DEF Made
  <2> QED
    BY <2>1, <2>2
<1>3. thread' \in [Threads -> {Idle} \cup Request \cup Job]
  BY <1>2 DEF Tick
<1>4. Pacing'
  BY <1>0, <1>2 DEF Pacing, At
<1>5. PoolHolds' /\ OwnResult'
  BY <1>0, <1>2, Bounds DEF PoolHolds, OwnResult, Scan, Completed, At
<1>6. MainHolds'
  BY <1>0, <1>2, Bounds DEF MainHolds, Scan, Unplanned, At
<1>7. CallsCounted'
  <2>1. \A w \in Workers: thread'[w] \in Request => calls'[thread'[w].item] <= Made(w)'
    BY <1>0, <1>2, Bounds DEF CallsCounted
  <2>2. phase \in {"only", "planning", "replying"} => Made(Main)' = Made(Main)
    BY <1>2, Bounds DEF MainHolds
  <2>4. \A t \in Threads: thread'[t] \in Request => thread'[t].attempt <= Tries(t)'
    BY <1>0, <1>2 DEF CallsCounted, Tries
  <2>3. thread'[Main].item = thread[Main].item
    BY <1>2, Bounds
  <2> QED
    BY <1>0, <2>1, <2>2, <2>3, <2>4 DEF CallsCounted
<1>8. TypeOK'
  BY <1>0, <1>1, <1>3 DEF TypeOK
<1> QED
  BY <1>0, <1>4, <1>5, <1>6, <1>7, <1>8 DEF OneClient


------------------------------------------------------------------------------
(* A request is over *)

(* What a thread of the pool leaves behind it *)
LEMMA WorkerDone ==
  ASSUME Inv, NEW t \in Workers, thread[t] \in Request \cup Job,
         NEW what \in Over, Done(t, what), UNCHANGED <<scan, calls>>
  PROVE  /\ thread' \in [Threads -> {Idle} \cup Request \cup Job]
         /\ future' \in [Items -> {"waiting", "running", "ok", "failed", "cancelled"}]
         /\ UNCHANGED <<next, collected, results, failedGroup, planned, phase>>
         /\ thread'[t] = Idle /\ \A u \in Threads \ {t}: thread'[u] = thread[u]
         /\ PoolHolds' /\ MainHolds' /\ OwnResult' /\ CallsCounted'
<1> USE DEF Inv
<1>1. /\ t \in Threads /\ t # Main /\ ~At(t, "idle") /\ thread[t].item \in Items
  BY Bounds, WhoRests
<1>2. PICK i \in Items: i = thread[t].item
  BY <1>1
<1>3. /\ thread' = [thread EXCEPT ![t] = Idle] /\ future' = [future EXCEPT ![i] = what]
      /\ UNCHANGED <<mode, total, next, collected, results, failedGroup, planned, phase, calls>>
  BY <1>1, <1>2 DEF Done, Result, scan
<1>4. /\ thread' \in [Threads -> {Idle} \cup Request \cup Job]
      /\ thread'[t] = Idle /\ \A u \in Threads \ {t}: thread'[u] = thread[u]
  BY <1>1, <1>3 DEF TypeOK
<1>5. /\ future' \in [Items -> {"waiting", "running", "ok", "failed", "cancelled"}]
      /\ future'[i] = what /\ \A j \in Items: j # i => future'[j] = future[j]
  BY <1>3 DEF TypeOK, Over
<1>6. i \in Scan /\ future[i] = "running" /\ phase \in {"pool", "drain"}
  BY <1>1, <1>2 DEF PoolHolds
<1>7. PoolHolds'
  <2>1. \A j \in Items: results'[j] \in {None, j} /\ (j >= next' => future'[j] = "waiting")
    BY <1>3, <1>5, <1>6 DEF PoolHolds
  <2>2. collected' \subseteq Completed'
    <3>1. \A j \in Scan: j \in Items
      BY Numbers, Bounds DEF Scan, Items
    <3> QED
      BY <1>3, <1>5, <3>1 DEF PoolHolds, Completed, Scan
  <2>3. ASSUME NEW w \in Workers, ~At(w, "idle")'
        PROVE  /\ w # t /\ ~At(w, "idle") /\ thread'[w] = thread[w] /\ thread[w].item # i
               /\ thread[w].item \in Items
    <3>1. w # t
      BY <1>4, <2>3 DEF At, Idle
    <3>2. w \in Threads /\ thread'[w] = thread[w] /\ ~At(w, "idle")
      BY <1>4, <2>3, <3>1, Bounds DEF At
    <3>3. thread[w].item \in Items
      BY <3>2, WhoRests
    <3> QED
      BY <1>1, <1>2, <3>1, <3>2, <3>3 DEF PoolHolds
  <2>4. ASSUME NEW w \in Workers, ~At(w, "idle")'
        PROVE  /\ phase' \in {"pool", "drain"} /\ thread'[w].item \in Scan'
               /\ future'[thread'[w].item] = "running"
               /\ \A v \in Workers: ~At(v, "idle")' /\ thread'[v].item = thread'[w].item => v = w
    BY <1>3, <1>5, <2>3, <2>4 DEF PoolHolds, Scan
  <2>5. phase' # "begin"
    BY <1>3, <1>6
  <2> QED
    BY <2>1, <2>2, <2>4, <2>5 DEF PoolHolds
<1>8. thread'[Main] = thread[Main] /\ (At(Main, "idle")' <=> At(Main, "idle"))
  BY <1>1, <1>4, Bounds DEF At
<1>9. MainHolds'
  BY <1>3, <1>8 DEF MainHolds, Unplanned, Scan
<1>10. OwnResult'
  BY <1>3 DEF OwnResult, Scan
<1>11. CallsCounted'
  <2>1. ASSUME NEW w \in Workers, thread'[w] \in Request
        PROVE  calls[thread'[w].item] <= Made(w)'
    <3>1. w # t /\ thread'[w] = thread[w] /\ Made(w)' = Made(w)
      BY <1>4, <2>1, Bounds DEF Idle, Request, Made
    <3> QED
      BY <2>1, <3>1 DEF CallsCounted
  <2>2. Made(Main)' = Made(Main)
    BY <1>8 DEF Made
  <2>3. \A j \in Items: future'[j] = "waiting" => future[j] = "waiting"
    BY <1>5 DEF Over
  <2>4. ASSUME NEW u \in Threads, thread'[u] \in Request PROVE thread'[u].attempt <= Tries(u)'
    <3>1. u # t /\ thread'[u] = thread[u]
      BY <1>4, <2>4 DEF Idle, Request
    <3> QED
      BY <1>3, <2>4, <3>1 DEF CallsCounted, Tries
  <2> QED
    BY <1>3, <1>8, <2>1, <2>2, <2>3, <2>4 DEF CallsCounted
<1> QED
  BY <1>3, <1>4, <1>5, <1>7, <1>9, <1>10, <1>11

LEMMA AskingTyped == \A i \in Items: Asking(i) \in Request /\ Asking(i).item = i
                                     /\ Asking(i).pc = "throttle" /\ Asking(i).attempt = 1
<1>1. 1 \in 1..MostTries /\ 0 \in 0..MaxInterval
  BY Bounds
<1> QED
  BY <1>1 DEF Asking, Request

(* What the main thread does with an answer: it is done with the request,   *)
(* or asks for a reply.                                                     *)
LEMMA MainDone ==
  ASSUME Inv, thread[Main] \in Request, NEW what \in {"ok", "failed"}, Done(Main, what),
         thread[Main].pc \in {"call", "report"}, UNCHANGED <<scan, calls>>
  PROVE  /\ thread' \in [Threads -> {Idle} \cup Request \cup Job]
         /\ UNCHANGED <<next, future, collected, failedGroup>>
         /\ results' \in [Items -> Items \cup {None}]
         /\ planned' \in [Items -> Items \cup {None, Unknown}]
         /\ phase' \in {"plan", "broken", "replying"}
         /\ ~At(Main, "sleep")' /\ \A u \in Threads \ {Main}: thread'[u] = thread[u]
         /\ PoolHolds' /\ MainHolds' /\ OwnResult' /\ CallsCounted'
<1> USE DEF Inv
<1>1. phase \in {"only", "planning", "replying"} /\ Main \in Threads /\ ~At(Main, "idle")
  BY Bounds, WhoRests DEF MainHolds
<1>2. PICK i \in Items: i = thread[Main].item
  BY DEF Request
<1>0. PICK m \in 1..MostTries: m = thread[Main].attempt
  BY DEF Request
<1>3. /\ UNCHANGED <<mode, total, next, future, collected, failedGroup, calls>>
      /\ \/ /\ phase = "only" /\ phase' = "plan" /\ results' = [results EXCEPT ![i] = i]
            /\ UNCHANGED planned
         \/ /\ phase = "only" /\ phase' = "broken" /\ UNCHANGED <<results, planned>>
         \/ /\ phase = "planning" /\ phase' \in {"plan", "replying"} /\ UNCHANGED results
            /\ \/ planned' = [planned EXCEPT ![i] = i]
               \/ planned' = [planned EXCEPT ![i] = Unknown]
         \/ /\ phase = "replying" /\ phase' \in {"plan", "replying"}
            /\ UNCHANGED <<results, planned>>
  BY <1>1, <1>2 DEF Done, MainResult, OnlyResult, PlanResult, ReplyResult, scan
<1>a. PICK r \in Request \cup {Idle}:
         /\ thread' = [thread EXCEPT ![Main] = r]
         /\ \/ r = Idle /\ phase' \in {"plan", "broken"}
            \/ /\ r \in Request /\ phase' = "replying" /\ phase \in {"planning", "replying"}
               /\ r.item = i /\ r.pc = "throttle" /\ r.attempt <= ReplyTries
               /\ r.attempt = IF phase = "planning" THEN 1 ELSE m + 1
  <2>1. CASE thread' = [thread EXCEPT ![Main] = Idle] /\ phase' \in {"plan", "broken"}
    <3>1. WITNESS Idle \in Request \cup {Idle}
    <3> QED
      BY <2>1
  <2>2. CASE phase = "planning" /\ phase' = "replying" /\ thread' = [thread EXCEPT ![Main] = Asking(i)]
    <3>1. /\ Asking(i) \in Request /\ Asking(i).item = i /\ Asking(i).pc = "throttle"
          /\ Asking(i).attempt = 1
      BY AskingTyped
    <3>2. 1 <= ReplyTries
      BY Bounds
    <3>3. WITNESS Asking(i) \in Request \cup {Idle}
    <3> QED
      BY <2>2, <3>1, <3>2
  <2>3. CASE /\ phase = "replying" /\ m < ReplyTries /\ UNCHANGED phase
             /\ thread' = [thread EXCEPT ![Main] = [Asking(i) EXCEPT !.attempt = m + 1]]
    <3>1. m + 1 \in 1..MostTries /\ m + 1 <= ReplyTries
      BY <2>3, Bounds
    <3>2. PICK q \in Request: q = Asking(i) /\ q.item = i /\ q.pc = "throttle"
      BY AskingTyped
    <3>3. PICK attempt \in 1..MostTries: attempt = m + 1
      BY <3>1
    <3>4. PICK r \in Request: r = [q EXCEPT !.attempt = attempt]
      BY DEF Request
    <3>5. r.item = i /\ r.pc = "throttle" /\ r.attempt = m + 1
      BY <3>2, <3>3, <3>4 DEF Request
    <3>6. thread' = [thread EXCEPT ![Main] = r]
      BY <2>3, <3>2, <3>3, <3>4
    <3> QED
      BY <2>3, <3>1, <3>5, <3>6
  <2>4. OnlyResult(i, what) \/ PlanResult(i, what) \/ ReplyResult(i, what)
    BY <1>2 DEF Done, MainResult
  <2> QED
    BY <1>0, <2>1, <2>2, <2>3, <2>4 DEF OnlyResult, PlanResult, ReplyResult
<1>4. /\ thread' \in [Threads -> {Idle} \cup Request \cup Job]
      /\ thread'[Main] = r /\ \A u \in Threads \ {Main}: thread'[u] = thread[u]
  BY <1>1, <1>a DEF TypeOK
<1>5. /\ results \in [Items -> Items \cup {None}] /\ planned \in [Items -> Items \cup {None, Unknown}]
  BY DEF TypeOK
<1>6. /\ results' \in [Items -> Items \cup {None}]
      /\ \A j \in Items: results'[j] \in {None, j}
  <2>1. \A j \in Items: results[j] \in {None, j}
    BY DEF PoolHolds
  <2> QED
    BY <1>3, <1>5, <2>1
<1>7. None # Unknown /\ i # None /\ i # Unknown
  BY Bounds DEF None, Unknown, Items
<1>8. /\ planned' \in [Items -> Items \cup {None, Unknown}]
      /\ \A j \in Items: j # i => planned'[j] = planned[j]
      /\ phase # "planning" => UNCHANGED planned
      /\ phase = "planning" => planned'[i] \in {i, Unknown}
  BY <1>3, <1>5, <1>7
<1>9. phase' \in {"plan", "broken", "replying"} /\ (phase' # "replying" => r = Idle)
  BY <1>3, <1>a
<1>b. /\ ~At(Main, "sleep")' /\ (At(Main, "idle")' <=> phase' # "replying")
      /\ r \in Request <=> phase' = "replying"
  BY <1>4, <1>a DEF At, Idle, Request
<1>10. \A w \in Workers: thread'[w] = thread[w] /\ At(w, "idle") /\ At(w, "idle")' /\ thread[w] = Idle
  BY <1>1, <1>4, Bounds, WhoRests DEF PoolHolds, At
<1>11. PoolHolds'
  BY <1>3, <1>6, <1>10 DEF PoolHolds, Completed, Scan
<1>12. Scan' = Scan /\ Scan \subseteq Items
  BY <1>3, Numbers, Bounds DEF Scan, Items
<1>13. MainHolds'
  <2>2. ASSUME NEW j \in Scan, NEW k \in Scan, j < k, planned'[j] = None PROVE planned'[k] = None
    <3>1. j \in Items /\ k \in Items
      BY <1>12
    <3>2. CASE phase # "planning"
      BY <1>8, <2>2, <3>2 DEF MainHolds
    <3>3. CASE phase = "planning"
      <4>1. j # i
        BY <1>7, <1>8, <2>2, <3>3
      <4>2. planned[j] = None /\ planned[k] = None
        BY <1>8, <2>2, <3>1, <4>1 DEF MainHolds
      <4>3. i <= j
        BY <1>2, <2>2, <3>3, <4>2 DEF MainHolds, Unplanned
      <4>4. k # i
        BY <2>2, <3>1, <4>3 DEF Items
      <4> QED
        BY <1>8, <3>1, <4>2, <4>4
    <3> QED
      BY <3>2, <3>3
  <2>3. phase' = "replying" => i \in Scan /\ planned'[i] # None
    <3>1. phase \in {"planning", "replying"} => i \in Scan
      BY <1>2 DEF MainHolds, Unplanned
    <3>2. phase = "replying" => planned[i] # None
      BY <1>2 DEF MainHolds
    <3> QED
      BY <1>7, <1>8, <1>a, <3>1, <3>2
  <2>4. phase' = "replying" => thread'[Main].item = i
    BY <1>4, <1>a
  <2> QED
    BY <1>4, <1>9, <1>b, <1>12, <2>2, <2>3, <2>4 DEF MainHolds
<1>14. OwnResult'
  BY <1>1, <1>8, <1>12 DEF OwnResult
<1>15. CallsCounted'
  <2>1. \A w \in Workers: thread'[w] \notin Request
    BY <1>10 DEF Idle, Request
  <2>2. ASSUME NEW j \in Items, planned'[j] = None PROVE calls[j] <= Attempts
    <3>1. CASE phase = "planning"
      <4>1. j # i /\ planned[j] = None
        BY <1>7, <1>8, <2>2, <3>1
      <4> QED
        BY <1>2, <4>1 DEF CallsCounted
    <3>2. CASE phase # "planning"
      BY <1>8, <2>2, <3>2 DEF CallsCounted
    <3> QED
      BY <3>1, <3>2
  <2>3. ASSUME phase' = "replying" PROVE calls[i] <= 2 * Attempts + Made(Main)'
    <3>1. /\ r \in Request /\ r.pc = "throttle" /\ phase \in {"planning", "replying"}
          /\ r.attempt = IF phase = "planning" THEN 1 ELSE m + 1
      BY <1>a, <1>b, <2>3
    <3>2. Made(Main)' = (IF phase = "planning" THEN 0 ELSE m) /\ Made(Main) = m
      BY <1>0, <1>4, <3>1 DEF Made
    <3>3. phase = "planning" => calls[i] <= Attempts + m /\ m <= Attempts
      BY <1>0, <1>1, <1>2, <3>2 DEF CallsCounted, Tries
    <3>4. phase = "replying" => calls[i] <= 2 * Attempts + m
      BY <1>2, <3>2 DEF CallsCounted
    <3>5. calls[i] \in Nat /\ Attempts \in Nat
      BY Numbers, Bounds
    <3> QED
      BY <3>1, <3>2, <3>3, <3>4, <3>5
  <2>4. ASSUME NEW u \in Threads, thread'[u] \in Request PROVE thread'[u].attempt <= Tries(u)'
    <3>1. u = Main
      BY <2>1, <2>4 DEF Threads
    <3>2. phase' = "replying" /\ thread'[u] = r
      BY <1>4, <1>b, <2>4, <3>1
    <3> QED
      BY <1>a, <1>b, <3>1, <3>2 DEF Tries
  <2>5. phase' = "replying" => thread'[Main].item = i
    BY <1>4, <1>a
  <2> QED
    BY <1>3, <1>9, <2>1, <2>2, <2>3, <2>4, <2>5 DEF CallsCounted
<1> QED
  BY <1>3, <1>4, <1>6, <1>8, <1>9, <1>b, <1>11, <1>13, <1>14, <1>15

(* Who is done *)
LEMMA DoneStep ==
  ASSUME Inv, NEW t \in Threads, NEW what \in Over, Done(t, what),
         \/ thread[t] \in Request /\ what # "cancelled" /\ thread[t].pc \in {"call", "report"}
         \/ thread[t] \in Job /\ t \in Workers,
         UNCHANGED <<scan, calls, throttleLock, since, cancel, late>>,
         ~At(t, "sleep"), clients' \in Nat, OneClient',
         interval' \in MinInterval..MaxInterval, UNCHANGED interval \/ throttleLock = Free
  PROVE  Inv'
<1> USE DEF Inv
<1>1. /\ thread' \in [Threads -> {Idle} \cup Request \cup Job]
      /\ future' \in [Items -> {"waiting", "running", "ok", "failed", "cancelled"}]
      /\ UNCHANGED <<next, collected, failedGroup>>
      /\ results' \in [Items -> Items \cup {None}]
      /\ planned' \in [Items -> Items \cup {None, Unknown}]
      /\ phase' = phase \/ phase' \in {"plan", "broken", "replying"}
      /\ ~At(t, "sleep")' /\ \A u \in Threads \ {t}: thread'[u] = thread[u]
      /\ PoolHolds' /\ MainHolds' /\ OwnResult' /\ CallsCounted'
  <2>1. CASE t \in Workers
    <3>1. t # Main /\ thread'[t] = Idle
      BY <2>1, Bounds, WorkerDone
    <3>2. ~At(t, "sleep")'
      BY <3>1 DEF At, Idle
    <3>3. /\ results \in [Items -> Items \cup {None}]
          /\ planned \in [Items -> Items \cup {None, Unknown}]
      BY DEF TypeOK
    <3> QED
      BY <2>1, <3>2, <3>3, WorkerDone
  <2>2. CASE t = Main
    <3>1. /\ thread[Main] \in Request /\ what \in {"ok", "failed"}
          /\ thread[Main].pc \in {"call", "report"}
      BY <2>2, Bounds DEF Over
    <3> QED
      BY <2>2, <3>1, MainDone DEF TypeOK
  <2> QED
    BY <2>1, <2>2 DEF Threads
<1>2. Pacing'
  BY <1>1, PacingOn
<1>3. TypeOK'
  BY <1>1 DEF TypeOK, scan, Ended
<1> QED
  BY <1>1, <1>2, <1>3

(* Another attempt of the same request *)
LEMMA AgainStep ==
  ASSUME Inv, NEW t \in Threads, thread[t] \in Request, thread[t].pc \in {"call", "report"},
         NextAttempt(t), UNCHANGED <<scan, throttleLock, since, clients, cancel, calls, late>>,
         interval' \in MinInterval..MaxInterval, UNCHANGED interval \/ throttleLock = Free
  PROVE  Inv'
<1> USE DEF Inv
<1>1. ~At(t, "sleep") /\ clients' \in Nat /\ OneClient'
  BY Numbers DEF At, OneClient
<1>2. thread[t].attempt \in 1..MostTries /\ thread[t].attempt < Attempts /\ Attempts \in Nat
  BY Bounds DEF Request, NextAttempt, Again
<1>3. PICK attempt \in 1..MostTries: attempt = thread[t].attempt + 1
  BY <1>2, Bounds
<1>4. PICK r \in Request:
        r = [thread[t] EXCEPT !.pc = "throttle", !.attempt = attempt, !.outcome = "none"]
  BY DEF Request
<1>5. /\ r.item = thread[t].item /\ r.pc = "throttle" /\ r.attempt = attempt
  BY <1>4 DEF Request
<1>6. thread' = [thread EXCEPT ![t] = r] /\ UNCHANGED <<pool, planned, phase>>
  BY <1>3, <1>4 DEF NextAttempt
<1>7. /\ thread' \in [Threads -> {Idle} \cup Request \cup Job]
      /\ thread'[t] = r /\ \A u \in Threads \ {t}: thread'[u] = thread[u]
      /\ PoolHolds' /\ MainHolds' /\ OwnResult'
  BY <1>5, <1>6, AskOn
<1>8. Made(t)' = Made(t)
  BY <1>2, <1>3, <1>5, <1>7 DEF Made
<1>9. r.attempt <= Tries(t)
  BY <1>2, <1>3, <1>5 DEF Tries, NextAttempt, Again
<1>10. CallsCounted'
  BY <1>5, <1>6, <1>8, <1>9, CountSame
<1>11. Pacing'
  <2>1. ~At(t, "sleep")'
    BY <1>5, <1>7 DEF At
  <2> QED
    BY <1>1, <1>7, <2>1, PacingOn
<1>12. TypeOK'
  BY <1>1, <1>6, <1>7 DEF TypeOK, scan, pool
<1> QED
  BY <1>1, <1>7, <1>10, <1>11, <1>12

(* A report, or an empty answer, ends the request or begins another attempt. *)
LEMMA ReportStep ==
  ASSUME Inv, NEW t \in Threads, Report(t) \/ EmptyAnswer(t)
  PROVE  Inv'
<1> USE DEF Inv
<1>1. /\ thread[t] \in Request /\ thread[t].pc \in {"call", "report"}
      /\ UNCHANGED <<scan, throttleLock, since, clients, cancel, calls, late>>
      /\ UNCHANGED interval \/ throttleLock = Free
  BY WhoAsks DEF Report, EmptyAnswer, At, pacing
<1>2. interval' \in MinInterval..MaxInterval
  BY AdaptedTyped, Numbers DEF Report, EmptyAnswer, pacing
<1>3. ~At(t, "sleep") /\ clients' \in Nat /\ OneClient'
  BY <1>1, Numbers DEF At, OneClient
<1>4. CASE NextAttempt(t)
  BY <1>1, <1>2, <1>4, AgainStep
<1>5. ASSUME NEW what \in {"ok", "failed"}, Done(t, what) PROVE Inv'
  <2>1. what \in Over /\ what # "cancelled"
    BY DEF Over
  <2>2. UNCHANGED <<scan, calls, throttleLock, since, cancel, late>>
    BY <1>1
  <2> QED
    BY ONLY Inv, t \in Threads, <1>1, <1>2, <1>3, <1>5, <2>1, <2>2, DoneStep
<1> QED
  BY <1>4, <1>5 DEF Report, EmptyAnswer, Fails

LEMMA PermanentStep ==
  ASSUME Inv, NEW t \in Threads, PermanentError(t)
  PROVE  Inv'
<1> USE DEF Inv
<1>1. /\ thread[t] \in Request /\ thread[t].pc = "call" /\ Done(t, "failed")
      /\ UNCHANGED <<scan, throttleLock, interval, since, clients, cancel, calls, late>>
  BY WhoAsks DEF PermanentError, At, pacing
<1>2. ~At(t, "sleep") /\ clients' \in Nat /\ OneClient' /\ interval' \in MinInterval..MaxInterval
  BY <1>1, Numbers DEF At, OneClient
<1> QED
  <2>1. PICK what \in Over: what = "failed"
    BY DEF Over
  <2>2. Done(t, what) /\ what # "cancelled" /\ UNCHANGED <<scan, calls, throttleLock, since, cancel, late>>
    BY <1>1, <2>1
  <2> QED
    BY ONLY Inv, t \in Threads, what \in Over, <1>1, <1>2, <2>2, DoneStep

LEMMA BatchStep ==
  ASSUME Inv, NEW w \in Workers, BatchEnds(w)
  PROVE  Inv'
<1> USE DEF Inv
<1>1. /\ w \in Threads /\ thread[w] \in Job /\ thread[w].pc = "job"
      /\ UNCHANGED <<scan, throttleLock, interval, since, cancel, calls, late>>
  <2>1. thread[w] \in {Idle} \cup Request \cup Job
    BY Bounds DEF TypeOK
  <2> QED
    BY <2>1, Bounds DEF BatchEnds, At, Idle, Request, pacing
<1>2. ~At(w, "sleep") /\ clients' \in Nat /\ OneClient'
  BY <1>1 DEF At, BatchEnds, OneClient
<1>3. interval' \in MinInterval..MaxInterval
  BY <1>1, Numbers
<1>4. PICK what \in Over: Done(w, what)
  BY DEF BatchEnds, Over
<1> QED
  BY <1>1, <1>2, <1>3, <1>4, DoneStep


------------------------------------------------------------------------------
(* The pool *)

LEMMA TakeStep ==
  ASSUME Inv, NEW w \in Workers, TakeItem(w)
  PROVE  Inv'
<1> USE DEF Inv
<1>1. /\ w \in Threads /\ At(w, "idle") /\ phase \in {"pool", "drain"} /\ next' = next + 1
      /\ UNCHANGED <<mode, total, collected, results, failedGroup, planned, phase, throttleLock,
                     interval, since, clients, cancel, calls, late>>
  BY Bounds DEF TakeItem, scan, pacing
<1>2. next \in Scan /\ next \in Items /\ next \in Nat /\ next' \in 1..MaxItems + 1
  BY <1>1, Numbers, Bounds DEF TakeItem, Scan, Items
<1>3. PICK n \in Items: n = next
  BY <1>2
<1>4. n \in Scan /\ \A i \in Items: i >= next' => i >= next /\ i # n
  BY <1>1, <1>2, <1>3 DEF Items
<1>5. future[n] = "waiting" /\ calls[n] = 0
  BY <1>1, <1>2, <1>3 DEF PoolHolds, CallsCounted
<1>6. ASSUME NEW what \in {"running", "cancelled"}, future' = [future EXCEPT ![n] = what]
      PROVE  /\ future' \in [Items -> {"waiting", "running", "ok", "failed", "cancelled"}]
             /\ future'[n] = what /\ \A i \in Items: i # n => future'[i] = future[i]
             /\ \A i \in Items: results'[i] \in {None, i} /\ (i >= next' => future'[i] = "waiting")
             /\ collected' \subseteq Completed'
             /\ \A v \in Workers: ~At(v, "idle") =>
                  thread[v].item \in Scan /\ thread[v].item # n /\ future'[thread[v].item] = "running"
  <2>1. /\ future' \in [Items -> {"waiting", "running", "ok", "failed", "cancelled"}]
        /\ future'[n] = what /\ \A i \in Items: i # n => future'[i] = future[i]
    BY <1>6 DEF TypeOK
  <2>2. Scan \subseteq Items
    BY Numbers, Bounds DEF Scan, Items
  <2>3. \A i \in Items: results'[i] \in {None, i} /\ (i >= next' => future'[i] = "waiting")
    BY <1>1, <1>4, <2>1 DEF PoolHolds
  <2>4. collected' \subseteq Completed'
    BY <1>1, <1>5, <2>1, <2>2 DEF PoolHolds, Completed, Scan, Over
  <2>5. \A v \in Workers: ~At(v, "idle") =>
          thread[v].item \in Scan /\ thread[v].item # n /\ future'[thread[v].item] = "running"
    BY <1>5, <2>1, <2>2 DEF PoolHolds
  <2> QED
    BY <2>1, <2>3, <2>4, <2>5
<1>7. OwnResult' /\ OneClient'
  BY <1>1 DEF OwnResult, OneClient, Scan
<1>8. CASE future' = [future EXCEPT ![n] = "cancelled"] /\ UNCHANGED thread
  <2>1. PoolHolds'
    BY <1>1, <1>6, <1>8 DEF PoolHolds, Scan, At
  <2>2. MainHolds'
    BY <1>1, <1>8 DEF MainHolds, Scan, Unplanned, At
  <2>3. Pacing'
    BY <1>1, <1>8 DEF Pacing, At
  <2>4. \A i \in Items: future'[i] = "waiting" => future[i] = "waiting"
    BY <1>6, <1>8
  <2>5. CallsCounted'
    BY <1>1, <1>8, <2>4 DEF CallsCounted, Made, Tries
  <2>6. TypeOK'
    BY <1>1, <1>2, <1>6, <1>8 DEF TypeOK
  <2> QED
    BY <1>7, <2>1, <2>2, <2>3, <2>5, <2>6
<1>9. CASE /\ future' = [future EXCEPT ![n] = "running"]
           /\ \/ thread' = [thread EXCEPT ![w] = Asking(n)]
              \/ thread' = [thread EXCEPT ![w] = [pc |-> "job", item |-> n]]
  <2>1. PICK r \in Request \cup Job:
          /\ thread' = [thread EXCEPT ![w] = r] /\ r.item = n /\ r.pc \in {"throttle", "job"}
          /\ r \in Request => r.attempt = 1 /\ r.pc = "throttle"
    <3>1. CASE thread' = [thread EXCEPT ![w] = Asking(n)]
      BY <3>1, AskingTyped
    <3>2. CASE thread' = [thread EXCEPT ![w] = [pc |-> "job", item |-> n]]
      <4>1. PICK r \in Job: r = [pc |-> "job", item |-> n]
        BY DEF Job
      <4>2. r \notin Request
        BY DEF Job, Request
      <4> QED
        BY <3>2, <4>1, <4>2
    <3> QED
      BY <1>9, <3>1, <3>2
  <2>2. /\ thread' \in [Threads -> {Idle} \cup Request \cup Job]
        /\ thread'[w] = r /\ \A u \in Threads \ {w}: thread'[u] = thread[u]
    BY <1>1, <2>1 DEF TypeOK
  <2>3. ~At(w, "sleep") /\ ~At(w, "sleep")' /\ ~At(w, "idle")'
    BY <1>1, <2>1, <2>2 DEF At
  <2>4. Pacing'
    BY <1>1, <2>2, <2>3, PacingOn
  <2>5. PoolHolds'
    <3>1. ASSUME NEW v \in Workers, ~At(v, "idle")', v # w
          PROVE  thread'[v] = thread[v] /\ ~At(v, "idle")
      BY <2>2, <3>1, Bounds DEF At
    <3>2. ASSUME NEW v \in Workers, ~At(v, "idle")'
          PROVE  /\ phase' \in {"pool", "drain"} /\ thread'[v].item \in Scan'
                 /\ future'[thread'[v].item] = "running"
                 /\ \A u \in Workers: ~At(u, "idle")' /\ thread'[u].item = thread'[v].item => u = v
      <4>1. CASE v = w
        BY <1>1, <1>4, <1>6, <1>9, <2>1, <2>2, <3>1, <4>1 DEF Scan
      <4>2. CASE v # w
        <5>1. thread'[v] = thread[v] /\ ~At(v, "idle")
          BY <3>1, <3>2, <4>2
        <5>2. thread[v].item \in Scan /\ thread[v].item # n /\ future'[thread[v].item] = "running"
          BY <1>6, <1>9, <5>1
        <5> QED
          BY <1>1, <2>1, <2>2, <3>1, <5>1, <5>2 DEF PoolHolds, Scan
      <4> QED
        BY <4>1, <4>2
    <3> QED
      BY <1>1, <1>6, <1>9, <3>2 DEF PoolHolds
  <2>6. thread'[Main] = thread[Main] /\ (At(Main, "idle")' <=> At(Main, "idle"))
    BY <2>2, Bounds DEF At
  <2>7. MainHolds'
    BY <1>1, <2>6 DEF MainHolds, Scan, Unplanned
  <2>8. CallsCounted'
    <3>1. ASSUME NEW v \in Workers, thread'[v] \in Request PROVE calls[thread'[v].item] <= Made(v)'
      <4>1. CASE v = w
        BY <1>5, <2>1, <2>2, <3>1, <4>1 DEF Made
      <4>2. CASE v # w
        <5>1. thread'[v] = thread[v] /\ Made(v)' = Made(v)
          BY <2>2, <4>2, Bounds DEF Made
        <5> QED
          BY <3>1, <5>1 DEF CallsCounted
      <4> QED
        BY <4>1, <4>2
    <3>2. Made(Main)' = Made(Main)
      BY <2>6 DEF Made
    <3>3. \A i \in Items: future'[i] = "waiting" => future[i] = "waiting"
      BY <1>6, <1>9
    <3>4. ASSUME NEW u \in Threads, thread'[u] \in Request PROVE thread'[u].attempt <= Tries(u)'
      <4>1. CASE u = w
        BY <2>1, <2>2, <3>4, <4>1, Bounds DEF Tries
      <4>2. CASE u # w
        BY <1>1, <2>2, <3>4, <4>2 DEF CallsCounted, Tries
      <4> QED
        BY <4>1, <4>2
    <3> QED
      BY <1>1, <2>6, <3>1, <3>2, <3>3, <3>4 DEF CallsCounted
  <2>9. TypeOK'
    BY <1>1, <1>2, <1>6, <1>9, <2>2 DEF TypeOK
  <2> QED
    BY <1>7, <2>4, <2>5, <2>7, <2>8, <2>9
<1> QED
  BY <1>3, <1>8, <1>9 DEF TakeItem

Asked == cancel \in BOOLEAN /\ late \in BOOLEAN

(* What the main thread does between its requests: it leaves the threads    *)
(* alone, and those of the pool are idle unless it waits for them.          *)
LEMMA MainMoves ==
  ASSUME Inv, UNCHANGED <<scan, next, future, thread, pacing, clients, calls>>,
         phase' \in {"pool", "drain"} \/ \A w \in Workers: At(w, "idle"),
         phase \notin {"begin", "only", "planning", "replying"},
         phase' \in {"drain", "pool", "plan"} \cup Ended,
         phase' \in {"drain", "pool"} => phase = "pool",
         collected' \subseteq Completed, failedGroup' \in {"", "failed", "cancelled"},
         results' \in [Items -> Items \cup {None}], \A i \in Items: results'[i] \in {None, i},
         planned' \in [Items -> Items \cup {None, Unknown}],
         \A i \in Items: planned'[i] = None => planned[i] = None,
         \A i \in Items: planned'[i] # planned[i] => planned'[i] \in {i, Unknown},
         phase' \in {"drain", "pool"} => UNCHANGED planned,
         \A i, j \in Scan: i < j /\ planned'[i] = None => planned'[j] = None,
         Asked'
  PROVE  Inv'
<1> USE DEF Inv
<1>1. UNCHANGED <<mode, total, next, future, thread, throttleLock, interval, since, clients, calls>>
  BY DEF scan, pacing
<1>2. Pacing' /\ OneClient'
  BY <1>1 DEF Pacing, OneClient, At
<1>a. /\ collected' \subseteq Completed /\ \A i \in Items: results'[i] \in {None, i}
      /\ phase' \in {"pool", "drain"} \/ \A w \in Workers: At(w, "idle")
      /\ phase' # "begin"
  BY DEF Ended
<1>3. PoolHolds'
  BY ONLY PoolHolds, <1>1, <1>a DEF PoolHolds, Scan, Completed, At
<1>4. At(Main, "idle") /\ thread[Main] \notin Request
      /\ phase' \notin {"begin", "only", "planning", "replying"}
  BY DEF MainHolds, Ended, At, Request
<1>5. MainHolds'
  BY <1>1, <1>4 DEF MainHolds, Scan, At
<1>6. CallsCounted'
  <2>1. \A w \in Workers: Made(w)' = Made(w)
    BY <1>1 DEF Made
  <2>2. \A t \in Threads: thread'[t] \in Request => thread'[t].attempt <= Tries(t)'
    BY <1>1, <1>4 DEF CallsCounted, Tries
  <2> QED
    BY <1>1, <1>4, <2>1, <2>2 DEF CallsCounted
<1>7. Scan' = Scan /\ Scan \subseteq Items
  BY ONLY TypeOK, <1>1, Numbers, Bounds DEF Scan, Items
<1>8. OwnResult'
  BY <1>7 DEF OwnResult
<1>9. collected' \subseteq Items
  BY <1>7 DEF Completed
<1>10. TypeOK'
  BY <1>1, <1>9 DEF TypeOK, Ended, Asked
<1> QED
  BY <1>2, <1>3, <1>5, <1>6, <1>8, <1>10

(* Before it moves: nothing is planned, the results are in their places.    *)
LEMMA BeforePlan ==
  ASSUME Inv
  PROVE  /\ results \in [Items -> Items \cup {None}] /\ \A i \in Items: results[i] \in {None, i}
         /\ planned \in [Items -> Items \cup {None, Unknown}] /\ collected \subseteq Completed
         /\ \A i, j \in Scan: i < j /\ planned[i] = None => planned[j] = None
         /\ Asked /\ failedGroup \in {"", "failed", "cancelled"}
         /\ \A w \in Workers: ~At(w, "idle") => /\ phase \in {"pool", "drain"}
                                                /\ thread[w].item \in Scan \ Completed
<1> USE DEF Inv
<1>1. /\ results \in [Items -> Items \cup {None}] /\ planned \in [Items -> Items \cup {None, Unknown}]
      /\ Asked /\ failedGroup \in {"", "failed", "cancelled"}
  BY DEF TypeOK, Asked
<1> QED
  BY <1>1 DEF PoolHolds, MainHolds, Completed, Over

LEMMA CollectStep ==
  ASSUME Inv, NEW i \in Items, Collect(i)
  PROVE  Inv'
<1>1. /\ phase = "pool" /\ i \in Completed /\ collected' = collected \cup {i}
      /\ UNCHANGED <<scan, next, future, planned, thread, pacing, clients, cancel, calls, late>>
  BY DEF Collect
<1>2. /\ results' \in [Items -> Items \cup {None}] /\ \A j \in Items: results'[j] \in {None, j}
  BY BeforePlan DEF Collect, PlaceOf
<1>3. phase' \in {"pool", "drain"} /\ failedGroup' \in {"", "failed", "cancelled"}
  BY <1>1, BeforePlan DEF Collect, Completed, Over
<1>4. Asked'
  BY <1>1, BeforePlan DEF Asked
<1> QED
  BY <1>1, <1>2, <1>3, <1>4, BeforePlan, MainMoves

LEMMA PoolEndsStep ==
  ASSUME Inv, PoolEnds \/ Drained
  PROVE  Inv'
<1>1. /\ phase \in {"pool", "drain"} /\ phase' \in {"cancelled", "plan"}
      /\ UNCHANGED <<scan, next, future, planned, thread, pacing, clients, calls>>
      /\ UNCHANGED <<collected, failedGroup, cancel, late>>
  BY DEF PoolEnds, Drained, pool
<1>2. \A w \in Workers: At(w, "idle")
  BY BeforePlan DEF PoolEnds, Drained
<1>4. Asked'
  BY <1>1, BeforePlan DEF Asked
<1>3. /\ results' \in [Items -> Items \cup {None}] /\ \A j \in Items: results'[j] \in {None, j}
  BY BeforePlan DEF PoolEnds, Drained, pool
<1> QED
  BY <1>1, <1>2, <1>3, <1>4, BeforePlan, MainMoves DEF Ended

(* The main thread asks about an item itself. *)
LEMMA MainAsks ==
  ASSUME Inv, NEW i \in Items, At(Main, "idle"), \A w \in Workers: At(w, "idle"),
         thread' = [thread EXCEPT ![Main] = Asking(i)],
         UNCHANGED <<scan, pool, planned, pacing, clients, cancel, calls, late>>,
         \/ phase' = "only" /\ i = 1 /\ calls[1] = 0 /\ \A j \in Items: planned[j] = None
         \/ phase' = "planning" /\ i \in Unplanned /\ \A j \in Unplanned: i <= j
  PROVE  Inv'
<1> USE DEF Inv
<1>1. UNCHANGED <<mode, total, next, future, collected, results, failedGroup, planned,
                  throttleLock, interval, since, clients, cancel, calls, late>>
  BY DEF scan, pool, pacing
<1>2. PICK r \in Request: r = Asking(i) /\ r.item = i /\ r.attempt = 1 /\ r.pc = "throttle"
  BY AskingTyped
<1>3. /\ thread' \in [Threads -> {Idle} \cup Request \cup Job]
      /\ thread'[Main] = r /\ \A u \in Threads \ {Main}: thread'[u] = thread[u]
  BY <1>2, Bounds DEF TypeOK
<1>4. /\ ~At(Main, "idle")' /\ ~At(Main, "sleep")' /\ ~At(Main, "sleep")
      /\ \A w \in Workers: thread'[w] = thread[w] /\ At(w, "idle")' /\ thread[w] \notin Request
  <2>1. \A w \in Workers: thread'[w] = thread[w] /\ thread[w] \notin Request
    BY <1>3, Bounds DEF At, Request
  <2> QED
    BY <1>2, <1>3, <2>1 DEF At
<1>5. Pacing'
  BY <1>1, <1>3, <1>4, Bounds, PacingOn
<1>6. phase' \in {"only", "planning"}
  OBVIOUS
<1>7. PoolHolds' /\ OwnResult' /\ OneClient'
  BY <1>1, <1>4 DEF PoolHolds, OwnResult, OneClient, Scan, Completed
<1>8. MainHolds'
  BY <1>1, <1>2, <1>3, <1>4, <1>6 DEF MainHolds, Scan, Unplanned
<1>9. CallsCounted'
  <2>1. Made(Main)' = 0
    BY <1>2, <1>3 DEF Made
  <2>2. calls \in [Items -> 0..2 * Attempts + ReplyTries] /\ Attempts \in Nat
    BY Numbers, Bounds
  <2>3. \A j \in Items: planned[j] = None => calls[j] <= Attempts
    BY <1>4, Bounds DEF CallsCounted, MainHolds
  <2>4. \A w \in Workers: thread'[w] \notin Request
    BY <1>4
  <2>5. phase' = "planning" => calls[i] <= Attempts
    BY <2>3 DEF Unplanned, Scan
  <2>6. ASSUME NEW t \in Threads, thread'[t] \in Request PROVE thread'[t].attempt <= Tries(t)'
    <3>1. t = Main
      BY <2>4, <2>6 DEF Threads
    <3> QED
      BY <1>2, <1>3, <1>6, <3>1, Bounds DEF Tries
  <2> QED
    BY <1>1, <1>2, <1>3, <1>6, <2>1, <2>2, <2>3, <2>4, <2>5, <2>6 DEF CallsCounted
<1>10. TypeOK'
  BY <1>1, <1>3, <1>6 DEF TypeOK
<1> QED
  BY <1>5, <1>7, <1>8, <1>9, <1>10

LEMMA BeginStep ==
  ASSUME Inv, Begin
  PROVE  Inv'
<1> USE DEF Inv
<1>1. /\ phase = "begin"
      /\ UNCHANGED <<scan, pool, planned, pacing, clients, cancel, calls, late>>
  BY DEF Begin
<1>2. /\ \A w \in Workers: At(w, "idle") /\ thread[w] = Idle
      /\ At(Main, "idle") /\ \A i \in Items: planned[i] = None
  BY <1>1, Bounds, WhoRests DEF PoolHolds, MainHolds
<1>3. CASE phase' = "only" /\ thread' = [thread EXCEPT ![Main] = Asking(1)]
  <2>1. calls[1] = 0
    <3>1. future[1] = "waiting"
      BY <1>1, Bounds DEF PoolHolds, Items
    <3> QED
      BY <1>1, <3>1, Bounds DEF CallsCounted
  <2> QED
    BY <1>1, <1>2, <1>3, <2>1, Bounds, MainAsks
<1>4. CASE phase' \in {"pool", "cancelled"} /\ UNCHANGED thread
  <2>1. UNCHANGED <<mode, total, next, future, collected, results, failedGroup, planned, thread,
                    throttleLock, interval, since, clients, cancel, calls, late>>
    BY <1>1, <1>4 DEF scan, pool, pacing
  <2>2. Pacing' /\ OwnResult' /\ OneClient'
    BY <2>1 DEF Pacing, OwnResult, OneClient, At, Scan
  <2>3. PoolHolds'
    BY <1>2, <1>4, <2>1 DEF PoolHolds, Scan, Completed, At
  <2>4. MainHolds'
    BY <1>2, <1>4, <2>1 DEF MainHolds, Scan, Unplanned, At
  <2>5. CallsCounted'
    <3>1. \A t \in Threads: thread'[t] \notin Request
      BY <1>2, <2>1 DEF Idle, Request, At, Threads
    <3> QED
      BY <1>1, <1>4, <2>1, <3>1, Bounds DEF CallsCounted
  <2>6. TypeOK'
    BY <1>4, <2>1 DEF TypeOK, Ended
  <2> QED
    BY <2>2, <2>3, <2>4, <2>5, <2>6
<1> QED
  BY <1>3, <1>4 DEF Begin

(* A set of numbers has a least one. *)
LEMMA LeastOf ==
  ASSUME NEW U \in SUBSET Nat, U # {}
  PROVE  \E i \in U: \A j \in U: i <= j
<1> DEFINE R == OpToRel(<, Nat)
<1>0. IsWellFoundedOn(R, Nat)
  BY NatLessThanWellFounded
<1>2. \A i, j \in Nat: j < i => <<j, i>> \in R
  BY Zenon DEF OpToRel
<1> HIDE DEF R
<1>1. PICK i \in U: \A j \in U: ~(<<j, i>> \in R)
  BY <1>0, WFMin
<1>3. \A j \in U: ~(j < i)
  BY <1>1, <1>2
<1>4. \A j \in U: i <= j
  BY <1>3
<1> QED
  BY <1>4

(* The next message to be planned is the first of those that are not. *)
LEMMA CurrentIs ==
  ASSUME TypeOK, Unplanned # {}
  PROVE  /\ Current \in Unplanned /\ Current \in Items
         /\ \A j \in Unplanned: Current <= j
<1>1. Unplanned \subseteq Items /\ Items \subseteq Nat
  BY Numbers, Bounds DEF Unplanned, Scan, Items
<1>2. \E i \in Unplanned: \A j \in Unplanned: i <= j
  BY <1>1, LeastOf
<1> QED
  BY <1>1, <1>2 DEF Current

LEMMA PlanStep ==
  ASSUME Inv, Plan
  PROVE  Inv'
<1>1. /\ phase = "plan" /\ Unplanned # {}
      /\ UNCHANGED <<scan, pool, pacing, clients, cancel, calls, late>>
  BY DEF Plan
<1>2. UNCHANGED <<next, future, collected, results, failedGroup>>
  BY <1>1 DEF pool
<1>3. /\ TypeOK /\ \A w \in Workers: At(w, "idle")
  BY <1>1, BeforePlan DEF Inv
<1>4. At(Main, "idle")
  BY <1>1 DEF Inv, MainHolds
<1>5. Asked'
  BY <1>1, BeforePlan DEF Asked
<1>6. PICK i \in Items: i = Current /\ i \in Unplanned /\ \A j \in Unplanned: i <= j
  BY <1>1, <1>3, CurrentIs
<1>7. CASE phase' = "cancelled" /\ UNCHANGED <<planned, thread>>
  BY <1>1, <1>2, <1>3, <1>5, <1>7, BeforePlan, MainMoves DEF Ended
<1>8. CASE results[i] # None /\ planned' = [planned EXCEPT ![i] = results[i]] /\ UNCHANGED <<phase, thread>>
  <2>1. results[i] = i
    BY <1>8, BeforePlan
  <2>2. /\ planned' \in [Items -> Items \cup {None, Unknown}] /\ planned'[i] = i
        /\ \A j \in Items: j # i => planned'[j] = planned[j]
    BY <1>8, <2>1, BeforePlan
  <2>3. i # None /\ \A j \in Items: planned'[j] = None => planned[j] = None
    BY <1>8, <2>1, <2>2
  <2>4. \A j \in Items: planned'[j] # planned[j] => planned'[j] \in {j, Unknown}
    BY <2>2
  <2>5. Scan \subseteq Items /\ Items \subseteq Nat
    BY <1>3, Numbers, Bounds DEF Scan, Items
  <2>6. ASSUME NEW j \in Scan, NEW k \in Scan, j < k, planned'[j] = None PROVE planned'[k] = None
    <3>1. planned[j] = None /\ j \in Unplanned
      BY <2>3, <2>5, <2>6 DEF Unplanned
    <3>2. planned[k] = None
      BY <2>6, <3>1, BeforePlan
    <3>3. i <= j
      BY <1>6, <3>1
    <3>4. k # i
      BY <2>5, <2>6, <3>3
    <3> QED
      BY <2>2, <2>5, <3>2, <3>4
  <2> QED
    BY <1>1, <1>2, <1>3, <1>5, <1>8, <2>2, <2>3, <2>4, <2>6, BeforePlan, MainMoves
<1>9. CASE phase' = "planning" /\ thread' = [thread EXCEPT ![Main] = Asking(i)] /\ UNCHANGED planned
  BY <1>1, <1>3, <1>4, <1>6, <1>9, MainAsks
<1> QED
  BY <1>6, <1>7, <1>8, <1>9 DEF Plan

LEMMA AllPlannedStep ==
  ASSUME Inv, AllPlanned
  PROVE  Inv'
<1>1. /\ phase = "plan" /\ phase' = "planned"
      /\ UNCHANGED <<scan, pool, planned, thread, pacing, clients, cancel, calls, late>>
  BY DEF AllPlanned
<1>2. UNCHANGED <<next, future, collected, results, failedGroup>>
  BY <1>1 DEF pool
<1>3. Asked'
  BY <1>1, BeforePlan DEF Asked
<1> QED
  BY <1>1, <1>2, <1>3, BeforePlan, MainMoves DEF Ended

(* The owner's request, and a step of nobody. *)
LEMMA RequestStep ==
  ASSUME Inv, UNCHANGED <<scan, pool, planned, phase, thread, pacing, clients, calls>>, Asked'
  PROVE  Inv'
<1> USE DEF Inv
<1>1. UNCHANGED <<mode, total, next, future, collected, results, failedGroup, planned, phase,
                  thread, throttleLock, interval, since, clients, calls>>
  BY DEF scan, pool, pacing
<1>2. Pacing' /\ OwnResult' /\ OneClient'
  BY ONLY Pacing, OwnResult, OneClient, <1>1 DEF Pacing, OwnResult, OneClient, At, Scan
<1>3. PoolHolds'
  BY ONLY PoolHolds, <1>1 DEF PoolHolds, Scan, Completed, At
<1>4. MainHolds'
  BY ONLY MainHolds, <1>1 DEF MainHolds, Scan, Unplanned, At
<1>5. CallsCounted'
  BY ONLY CallsCounted, <1>1 DEF CallsCounted, Made, Tries
<1>6. TypeOK'
  BY ONLY TypeOK, <1>1, Asked' DEF TypeOK, Asked
<1> QED
  BY <1>2, <1>3, <1>4, <1>5, <1>6

LEMMA AsksStep ==
  ASSUME Inv, NEW t \in Threads, Asks(t)
  PROVE  Inv'
BY ThrottleStep, WakeStep, CallStep, PermanentStep, ReportStep DEF Asks

LEMMA InvStep == Inv /\ [Next]_vars => Inv'
<1> SUFFICES ASSUME Inv, [Next]_vars PROVE Inv'
  OBVIOUS
<1>1. ASSUME NEW w \in Workers, WorkerStep(w) PROVE Inv'
  <2>1. w \in Threads
    BY Bounds
  <2> QED
    BY <1>1, <2>1, TakeStep, BatchStep, AsksStep DEF WorkerStep
<1>2. CASE MainStep
  BY <1>2, Bounds, BeginStep, PoolEndsStep, PlanStep, AllPlannedStep, AsksStep, CollectStep DEF MainStep
<1>3. CASE Tick
  BY <1>3, TickStep
<1>4. CASE RequestCancel
  <2>1. UNCHANGED <<scan, pool, planned, phase, thread, pacing, clients, calls>> /\ Asked'
    BY <1>4, Zenon DEF RequestCancel, Asked
  <2> QED
    BY <2>1, RequestStep
<1>5. CASE UNCHANGED vars
  <2>1. UNCHANGED <<scan, pool, planned, phase, thread, pacing, clients, calls>> /\ Asked'
    BY <1>5, BeforePlan DEF vars, Asked
  <2> QED
    BY <2>1, RequestStep
<1> QED
  BY <1>1, <1>2, <1>3, <1>4, <1>5 DEF Next

LEMMA InvInit == Init => Inv
<1> SUFFICES ASSUME Init PROVE Inv
  OBVIOUS
<1>1. TypeOK
  BY TypeInit
<1>2. /\ \A t \in Threads: At(t, "idle") /\ ~At(t, "sleep") /\ thread[t] \notin Request
      /\ phase = "begin" /\ throttleLock = Free /\ next = 1 /\ collected = {} /\ clients = 0
  BY DEF Init, At, Idle, Request
<1>3. \A i \in Items: /\ results[i] = None /\ planned[i] = None /\ calls[i] = 0
                      /\ future[i] = "waiting"
  BY DEF Init
<1>4. Scan \subseteq Items
  BY <1>1, Numbers, Bounds DEF Scan, Items
<1>5. OwnResult /\ OneClient
  BY <1>2, <1>3, <1>4 DEF OwnResult, OneClient
<1>6. Pacing
  BY <1>2, Bounds DEF Pacing
<1>7. PoolHolds
  BY <1>2, <1>3, Bounds DEF PoolHolds
<1>8. MainHolds
  BY <1>2, <1>3, <1>4, Bounds DEF MainHolds
<1>9. CallsCounted
  BY <1>2, <1>3, Bounds DEF CallsCounted, Tries
<1> QED
  BY <1>1, <1>5, <1>6, <1>7, <1>8, <1>9 DEF Inv

(* The analysis holds its invariant, for any number of messages and threads *)
(* (daily_triage.py:1118-1209, gemini_client.py): results go to their own   *)
(* messages, one client is created, and no message costs more requests than *)
(* max_retries in the pool, max_retries in the plan and two for a reply.    *)
THEOREM Invariant == Spec => []Inv
<1> QED
  BY InvInit, InvStep, PTL DEF Spec

------------------------------------------------------------------------------
(* A request to stop *)

Heeded == CancelStops /\ CancelHeeded

(* Nothing is planned, and the owner does not ask. *)
LEMMA HeededOn ==
  ASSUME Heeded, UNCHANGED <<total, planned, phase, cancel, late>>,
         phase = "planning" => thread'[Main].item = thread[Main].item
  PROVE  Heeded'
BY DEF Heeded, CancelStops, CancelHeeded, Unplanned, Scan

(* Messages are planned in their order: the last one is planned last.       *)
LEMMA LastIsLast ==
  ASSUME Inv, NEW i \in Unplanned
  PROVE  total \in Unplanned /\ i <= total
<1>1. total \in Scan /\ i \in Scan /\ i <= total /\ planned[i] = None
  BY Numbers, Bounds DEF Inv, Unplanned, Scan, Items
<1>2. \A j \in Scan: i < j => planned[j] = None
  BY <1>1 DEF Inv, MainHolds
<1>3. i = total \/ i < total
  BY <1>1, Numbers DEF Inv, Scan, Items
<1> QED
  BY <1>1, <1>2, <1>3 DEF Unplanned

LEMMA DoneHeeded ==
  ASSUME Inv, Heeded, NEW t \in Threads, thread[t] \in Request \cup Job, NEW what, Done(t, what),
         UNCHANGED <<scan, cancel, late>>
  PROVE  Heeded'
<1>0. UNCHANGED <<total, cancel, late>>
  BY DEF scan
<1>1. CASE t # Main
  <2>1. thread'[Main] = thread[Main] /\ UNCHANGED <<planned, phase>>
    BY <1>1, Bounds DEF Done, Result, Inv, TypeOK
  <2> QED
    BY <1>0, <2>1, HeededOn
<1>2. CASE t = Main
  <2>1. ~At(Main, "idle")
    BY <1>2, WhoRests DEF Inv
  <2>2. MainResult(what) /\ phase' # "planning" /\ phase' # "planned"
    BY <1>2 DEF Done, MainResult, OnlyResult, PlanResult, ReplyResult
  <2>3. CancelStops'
    BY <2>2 DEF CancelStops
  <2>4. total \in Scan /\ Scan \subseteq Items
    BY Numbers, Bounds DEF Inv, Scan, Items
  <2>5. CASE phase = "only"
    <3>1. planned'[total] = None
      BY <2>2, <2>4, <2>5 DEF Inv, MainHolds, MainResult, OnlyResult, PlanResult, ReplyResult
    <3>2. total' \in Unplanned'
      BY <1>0, <2>4, <3>1 DEF Unplanned, Scan
    <3> QED
      BY <2>2, <2>3, <3>2 DEF Heeded, CancelHeeded
  <2>6. CASE phase = "planning"
    <3>1. PICK i \in Unplanned: i = thread[Main].item
      BY <2>6 DEF Inv, MainHolds
    <3>2. total \in Unplanned
      BY <3>1, LastIsLast
    <3>3. ASSUME cancel, ~late PROVE total' \in Unplanned'
      <4>1. i # total
        BY <2>6, <3>1, <3>3 DEF Heeded, CancelHeeded
      <4>2. planned'[total] = planned[total]
        BY <2>2, <2>4, <2>6, <3>1, <4>1
           DEF MainResult, OnlyResult, PlanResult, ReplyResult, Inv, TypeOK
      <4> QED
        BY <1>0, <3>2, <4>2 DEF Unplanned, Scan
    <3> QED
      BY <1>0, <2>2, <2>3, <3>3 DEF Heeded, CancelHeeded
  <2>7. CASE phase = "replying"
    <3>1. UNCHANGED planned
      BY <2>2, <2>7 DEF MainResult, OnlyResult, PlanResult, ReplyResult
    <3>2. cancel /\ ~late => total' \in Unplanned'
      BY <1>0, <2>7, <3>1 DEF Heeded, CancelHeeded, Unplanned, Scan
    <3> QED
      BY <1>0, <2>2, <2>3, <3>2 DEF Heeded, CancelHeeded
  <2> QED
    BY <2>1, <2>5, <2>6, <2>7 DEF Inv, MainHolds
<1> QED
  BY <1>1, <1>2

LEMMA AsksHeeded ==
  ASSUME Inv, Heeded, NEW t \in Threads, Asks(t)
  PROVE  Heeded'
<1>1. thread[t] \in Request /\ UNCHANGED <<scan, cancel, late>>
  BY WhoAsks DEF Inv, Asks, At, Throttle, Wake, GetClient, CreateClient, Call, PermanentError, Report,
                 EmptyAnswer
<1>2. UNCHANGED total /\ Main \in Threads /\ thread \in [Threads -> {Idle} \cup Request \cup Job]
  BY <1>1, Bounds DEF scan, Inv, TypeOK
<1>3. CASE Throttle(t) \/ Wake(t) \/ GetClient(t) \/ CreateClient(t) \/ Call(t)
  <2>1. UNCHANGED <<planned, phase>>
    BY <1>3 DEF Throttle, Wake, GetClient, CreateClient, Call
  <2>2. thread'[Main].item = thread[Main].item
    BY <1>1, <1>2, <1>3 DEF Throttle, Wake, GetClient, CreateClient, Call, Goto, Request
  <2> QED
    BY <1>1, <1>2, <2>1, <2>2, HeededOn
<1>4. CASE PermanentError(t)
  BY <1>1, <1>4, DoneHeeded DEF PermanentError
<1>5. CASE Report(t) \/ EmptyAnswer(t)
  <2>1. CASE Done(t, "ok") \/ Done(t, "failed")
    BY <1>1, <2>1, DoneHeeded
  <2>2. CASE NextAttempt(t)
    <3>1. /\ UNCHANGED <<planned, phase>>
          /\ thread' = [thread EXCEPT ![t].pc = "throttle", ![t].attempt = @ + 1,
                          ![t].outcome = "none"]
      BY <2>2 DEF NextAttempt
    <3>2. thread'[Main].item = thread[Main].item
      BY <1>1, <1>2, <3>1 DEF Request
    <3> QED
      BY <1>1, <1>2, <3>1, <3>2, HeededOn
  <2> QED
    BY <1>5, <2>1, <2>2 DEF Report, EmptyAnswer, Fails
<1> QED
  BY <1>3, <1>4, <1>5 DEF Asks

(* The run's own steps: it looks for the request before each message.       *)
LEMMA MainHeeded ==
  ASSUME Inv, Heeded, Begin \/ PoolEnds \/ Drained \/ Plan \/ AllPlanned \/ (\E i \in Items: Collect(i))
  PROVE  Heeded'
<1>1. UNCHANGED <<total, cancel, late>>
  BY DEF Begin, PoolEnds, Drained, Plan, AllPlanned, Collect, scan
<1>2. total \in Scan /\ Scan \subseteq Items
  BY Numbers, Bounds DEF Inv, Scan, Items
<1>3. CASE Begin \/ (\E i \in Items: Collect(i))
  BY <1>3 DEF Begin, Collect, Heeded, CancelStops, CancelHeeded
<1>4. CASE PoolEnds \/ Drained
  <2>1. planned'[total] = None /\ phase' \in {"plan", "cancelled"}
    BY <1>2, <1>4 DEF PoolEnds, Drained, Inv, MainHolds
  <2>2. total' \in Unplanned'
    BY <1>1, <1>2, <2>1 DEF Unplanned, Scan
  <2> QED
    BY <2>1, <2>2 DEF Heeded, CancelStops, CancelHeeded
<1>5. CASE Plan
  BY <1>1, <1>5 DEF Plan, StopIfCancelled, Heeded, CancelStops, CancelHeeded
<1>6. CASE AllPlanned
  BY <1>1, <1>6 DEF AllPlanned, Heeded, CancelStops, CancelHeeded
<1> QED
  BY <1>3, <1>4, <1>5, <1>6

LEMMA RequestHeeded ==
  ASSUME Inv, Heeded, RequestCancel
  PROVE  Heeded'
<1>1. UNCHANGED <<total, planned, phase, thread>> /\ phase \notin Ended
  BY DEF RequestCancel, scan
<1>2. CancelStops'
  BY <1>1 DEF CancelStops, Ended
<1>3. ASSUME ~late', phase = "planning"
      PROVE  \E i \in Unplanned: i # total
  BY <1>3 DEF RequestCancel
<1>a. ASSUME ~late', phase \in {"plan", "replying"}
      PROVE  total \in Unplanned
  <2>1. PICK i \in Unplanned: TRUE
    BY <1>a DEF RequestCancel
  <2> QED
    BY <2>1, LastIsLast
<1>4. ASSUME ~late', phase = "planning"
      PROVE  thread[Main].item # total
  <2>1. PICK i \in Unplanned: i # total
    BY <1>3, <1>4
  <2>2. total \in Unplanned /\ i <= total
    BY LastIsLast
  <2>3. i \in Nat /\ total \in Nat
    BY Numbers, Bounds DEF Inv, Unplanned, Scan, Items
  <2>4. ASSUME phase = "planning", thread[Main].item = total PROVE FALSE
    <3>1. total <= i
      BY <2>1, <2>4 DEF Inv, MainHolds
    <3> QED
      BY <2>1, <2>2, <2>3, <3>1
  <2> QED
    BY <1>4, <2>4
<1>5. Unplanned' = Unplanned
  BY <1>1 DEF Unplanned, Scan
<1> QED
  BY <1>1, <1>2, <1>4, <1>5, <1>a DEF Heeded, CancelHeeded

LEMMA HeededStep == Inv /\ Heeded /\ [Next]_vars => Heeded'
<1> SUFFICES ASSUME Inv, Heeded, [Next]_vars PROVE Heeded'
  OBVIOUS
<1>0. thread \in [Threads -> {Idle} \cup Request \cup Job] /\ Main \in Threads
  BY Bounds DEF Inv, TypeOK
<1>1. ASSUME NEW w \in Workers, WorkerStep(w) PROVE Heeded'
  <2>0. w \in Threads /\ w # Main
    BY Bounds
  <2>1. CASE TakeItem(w)
    BY <1>0, <2>0, <2>1, HeededOn DEF TakeItem, scan
  <2>2. CASE BatchEnds(w)
    <3>1. PICK what: Done(w, what)
      BY <2>2 DEF BatchEnds
    <3>2. thread'[Main] = thread[Main] /\ UNCHANGED <<planned, phase>>
      BY <1>0, <2>0, <3>1 DEF Done, Result
    <3>3. UNCHANGED <<total, cancel, late>>
      BY <2>2 DEF BatchEnds, scan
    <3> QED
      BY <3>2, <3>3, HeededOn
  <2> QED
    BY <1>1, <2>0, <2>1, <2>2, AsksHeeded DEF WorkerStep
<1>2. CASE MainStep
  BY <1>0, <1>2, AsksHeeded, MainHeeded DEF MainStep
<1>3. CASE Tick
  <2>1. UNCHANGED <<total, planned, phase, cancel, late>>
    BY <1>3 DEF Tick, scan
  <2>2. thread'[Main] = IF At(Main, "sleep") THEN [thread[Main] EXCEPT !.wait = Less(@, Beat)]
                                             ELSE thread[Main]
    BY <1>0, <1>3 DEF Tick
  <2>3. ASSUME phase = "planning" PROVE thread'[Main].item = thread[Main].item
    <3>1. thread[Main] \in Request
      BY <2>3 DEF Inv, MainHolds
    <3> QED
      BY <2>2, <3>1 DEF Request
  <2> QED
    BY <2>1, <2>3, HeededOn
<1>4. CASE RequestCancel
  BY <1>4, RequestHeeded
<1>5. CASE UNCHANGED vars
  BY <1>5, HeededOn DEF vars, scan
<1> QED
  BY <1>1, <1>2, <1>3, <1>4, <1>5 DEF Next

(* A run whose owner asked to stop does not plan all its messages, unless   *)
(* only the last was left: it looks for the request before each message     *)
(* (daily_triage.py:1180-1182, hosted_dashboard.py:332-334).                *)
THEOREM CancelIsHeeded == Spec => []CancelStops
<1>1. Init => IInv
  BY InvInit DEF Init, IInv, CancelStops, CancelHeeded
<1>2. IInv /\ [Next]_vars => IInv'
  BY InvStep, HeededStep DEF IInv, Heeded
<1>3. IInv => CancelStops
  BY DEF IInv
<1> QED
  BY <1>1, <1>2, <1>3, PTL DEF Spec

(* Between two calls passes the interval that is in force when the second   *)
(* is made (gemini_client.py:261-268): who sleeps has the lock, and who    *)
(* reports changes the interval only with the lock.                         *)
THEOREM CallsAreSpaced == Spec => Spaced
<1> DEFINE Distant == \A i \in Items: calls'[i] > calls[i] => since >= interval
<1>1. ASSUME NEW t \in Threads, Inv, Wake(t) PROVE since >= interval
  <2>1. At(t, "sleep") /\ thread[t].wait = 0 /\ since \in Nat
    BY <1>1, Numbers, Bounds DEF Wake, Inv
  <2>2. since + thread[t].wait >= interval
    BY <1>1, <2>1 DEF Inv, Pacing
  <2>3. since + 0 = since
    BY <2>1
  <2> QED
    BY <2>1, <2>2, <2>3
<1>2. Inv /\ [Next]_vars => [Distant]_vars
  <2> SUFFICES ASSUME Inv, [Next]_vars PROVE Distant
    OBVIOUS
  <2>1. CASE UNCHANGED calls
    <3>1. \A i \in Items: calls[i] \in Int
      BY Numbers, Bounds DEF Inv
    <3> QED
      BY <2>1, <3>1
  <2>2. ASSUME NEW t \in Threads, Asks(t), ~Wake(t) PROVE UNCHANGED calls
    BY <2>2 DEF Asks, Throttle, GetClient, CreateClient, Call, PermanentError, Report, EmptyAnswer
  <2>3. ASSUME NEW t \in Threads, Wake(t) PROVE Distant
    BY <1>1, <2>3
  <2>4. ASSUME NEW w \in Workers, WorkerStep(w) PROVE Distant
    <3>1. w \in Threads
      BY Bounds
    <3> QED
      BY <2>1, <2>2, <2>3, <2>4, <3>1 DEF WorkerStep, TakeItem, BatchEnds
  <2>5. CASE MainStep
    BY <2>1, <2>2, <2>3, <2>5, Bounds
       DEF MainStep, Begin, PoolEnds, Drained, Plan, AllPlanned, Collect
  <2> QED
    BY <2>1, <2>4, <2>5 DEF Next, Tick, RequestCancel, vars
<1> QED
  BY Invariant, <1>2, PTL DEF Spec, Spaced

=====
