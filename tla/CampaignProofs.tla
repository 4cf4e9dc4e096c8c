----------------------------- MODULE CampaignProofs -----------------------------
(***************************************************************************)
(* The campaign's properties for any mail, aliases, exclusions, approvals, *)
(* limits and bounds: Inv, LogExact and UndoExact are together inductive.  *)
(***************************************************************************)
EXTENDS Campaign, FiniteSetTheorems, TLAPS

(* Sequences *)

LEMMA TailOf ==
  ASSUME NEW S, NEW s \in Seq(S), s # <<>>
  PROVE  /\ Tail(s) \in Seq(S) /\ Len(Tail(s)) = Len(s) - 1 /\ Len(s) > 0
         /\ Head(s) = s[1] /\ 1 \in DOMAIN s /\ Head(s) \in Range(s) /\ Head(s) \in S
         /\ \A i \in DOMAIN Tail(s): i + 1 \in DOMAIN s /\ Tail(s)[i] = s[i + 1]
         /\ Range(s) = Range(Tail(s)) \cup {Head(s)}
<1>1. /\ Tail(s) \in Seq(S) /\ Len(Tail(s)) = Len(s) - 1 /\ Len(s) > 0
      /\ Head(s) = s[1] /\ 1 \in DOMAIN s /\ Head(s) \in S
      /\ \A i \in DOMAIN Tail(s): i + 1 \in DOMAIN s /\ Tail(s)[i] = s[i + 1]
  OBVIOUS
<1>2. \A i \in DOMAIN s: i = 1 \/ (i - 1 \in DOMAIN Tail(s) /\ Tail(s)[i - 1] = s[i])
  OBVIOUS
<1>3. ASSUME NEW i \in DOMAIN s PROVE s[i] \in Range(Tail(s)) \cup {Head(s)}
  <2>1. CASE i = 1
    BY <1>1, <2>1
  <2>2. CASE i # 1
    BY <1>2, <2>2 DEF Range
  <2> QED
    BY <2>1, <2>2
<1>4. Range(Tail(s)) \cup {Head(s)} \subseteq Range(s)
  BY <1>1 DEF Range
<1>5. Range(s) \subseteq Range(Tail(s)) \cup {Head(s)}
  BY <1>3 DEF Range
<1>6. Head(s) \in Range(s)
  BY <1>4
<1> QED
  BY <1>1, <1>4, <1>5, <1>6

LEMMA AppendOf ==
  ASSUME NEW S, NEW s \in Seq(S), NEW e \in S
  PROVE  /\ Append(s, e) \in Seq(S) /\ Len(Append(s, e)) = Len(s) + 1
         /\ \A i \in DOMAIN s: Append(s, e)[i] = s[i]
         /\ Append(s, e)[Len(s) + 1] = e
         /\ Range(Append(s, e)) = Range(s) \cup {e}
<1>1. /\ Append(s, e) \in Seq(S) /\ Len(Append(s, e)) = Len(s) + 1
      /\ DOMAIN Append(s, e) = DOMAIN s \cup {Len(s) + 1}
      /\ \A i \in DOMAIN s: Append(s, e)[i] = s[i]
      /\ Append(s, e)[Len(s) + 1] = e
  OBVIOUS
<1> QED
  BY <1>1 DEF Range

LEMMA ExceptOf ==
  ASSUME NEW S, NEW s \in Seq(S), NEW i \in 1..Len(s), NEW e \in S
  PROVE  /\ [s EXCEPT ![i] = e] \in Seq(S) /\ Len([s EXCEPT ![i] = e]) = Len(s)
         /\ [s EXCEPT ![i] = e][i] = e
         /\ \A j \in 1..Len(s): j # i => [s EXCEPT ![i] = e][j] = s[j]
OBVIOUS

LEMMA RangeIn == ASSUME NEW S, NEW s \in Seq(S) PROVE Range(s) \subseteq S
BY DEF Range

LEMMA SeqGrows == ASSUME NEW S, NEW T, S \subseteq T PROVE Seq(S) \subseteq Seq(T)
OBVIOUS

------------------------------------------------------------------------------
(* What a step does to the drafts *)

(* Drafts are never removed, never change their author or what they answer, *)
(* and never change at all once they are sent, deleted or in the Trash.     *)
Kept ==
  /\ drafts' \in Seq(Draft) /\ Len(drafts) <= Len(drafts') /\ Ids \subseteq Ids'
  /\ \A d \in Ids: /\ drafts'[d].by = drafts[d].by
                   /\ drafts'[d].message = drafts[d].message
                   /\ drafts[d].state # "live" => drafts'[d] = drafts[d]

(* Only a run writes under its own number. *)
NoneWritten == \A d \in Ids' \ Ids: drafts'[d].by = ByHand

LEMMA TouchKeeps ==
  ASSUME TypeOK, NEW d \in Ids, NEW state \in {"live", "sent", "trash", "gone"},
         NEW version \in Nat, drafts[d].state = "live",
         drafts' = [drafts EXCEPT ![d].state = state, ![d].version = version]
  PROVE  /\ Kept /\ NoneWritten /\ Ids' = Ids /\ \A e \in Ids \ {d}: drafts'[e] = drafts[e]
         /\ drafts'[d].state = state /\ drafts'[d].version = version
<1>1. drafts \in Seq(Draft) /\ drafts[d] \in Draft
  BY DEF TypeOK, Ids
<1> DEFINE new == [drafts[d] EXCEPT !.state = state, !.version = version]
<1>2. new \in Draft
  BY <1>1 DEF Draft
<1>3. drafts' = [drafts EXCEPT ![d] = new]
  OBVIOUS
<1>4. /\ drafts' \in Seq(Draft) /\ Len(drafts') = Len(drafts) /\ drafts'[d] = new
      /\ \A e \in Ids \ {d}: drafts'[e] = drafts[e]
  <2>1. d \in 1..Len(drafts)
    BY DEF Ids
  <2>2. PICK e \in Draft: e = new
    BY <1>2
  <2>3. drafts' = [drafts EXCEPT ![d] = e]
    BY <1>3, <2>2
  <2>4. /\ [drafts EXCEPT ![d] = e] \in Seq(Draft)
        /\ Len([drafts EXCEPT ![d] = e]) = Len(drafts)
        /\ [drafts EXCEPT ![d] = e][d] = e
        /\ \A j \in 1..Len(drafts): j # d => [drafts EXCEPT ![d] = e][j] = drafts[j]
    BY ONLY <1>1, <2>1, ExceptOf
  <2> QED
    BY <2>2, <2>3, <2>4 DEF Ids
<1>7. /\ drafts'[d].by = drafts[d].by /\ drafts'[d].message = drafts[d].message
      /\ drafts'[d].state = state /\ drafts'[d].version = version
  BY <1>1, <1>4 DEF Draft
<1> QED
  BY <1>4, <1>7 DEF Kept, NoneWritten, Ids

LEMMA ConcatOf ==
  ASSUME NEW S, NEW s \in Seq(S), NEW e \in S, NEW n \in Nat, NEW t, t = [i \in 1..n |-> e]
  PROVE  /\ s \o t \in Seq(S) /\ Len(s \o t) = Len(s) + n
         /\ \A i \in 1..Len(s): (s \o t)[i] = s[i]
         /\ \A i \in (Len(s) + 1)..(Len(s) + n): (s \o t)[i] = e
<1>1. t \in Seq(S) /\ Len(t) = n /\ \A i \in 1..n: t[i] = e
  OBVIOUS
<1>2. s \o t \in Seq(S) /\ Len(s \o t) = Len(s) + n
  BY <1>1
<1>3. \A i \in 1..Len(s): (s \o t)[i] = s[i]
  BY <1>1
<1>4. \A i \in (Len(s) + 1)..(Len(s) + n): (s \o t)[i] = t[i - Len(s)] /\ i - Len(s) \in 1..n
  BY <1>1
<1> QED
  BY <1>1, <1>2, <1>3, <1>4

LEMMA CreateKeeps ==
  ASSUME TypeOK, RunTold, CreateDraft
  PROVE  /\ Kept /\ run \in Going /\ runs \in 1..MaxRuns /\ run.todo # <<>> /\ run.pos = "create"
         /\ \E made \in 0..1, lost \in 0..Attempts:
              /\ Len(drafts') = Len(drafts) + lost + made
              /\ unlogged' = unlogged \cup {Len(drafts) + i: i \in 1..lost}
              /\ run' = IF made = 0 THEN [run EXCEPT !.todo = Tail(@)]
                        ELSE [run EXCEPT !.pos = "record"]
              /\ \A d \in Ids' \ Ids: drafts'[d] = Written(runs, Head(run.todo))
              /\ \A d \in Ids: drafts'[d] = drafts[d]
<1>1. run \in Going /\ run.todo \in Seq(Messages) /\ run.todo # <<>> /\ run.pos = "create"
  BY DEF CreateDraft, TypeOK, NoRun, Going
<1>2. runs \in 1..MaxRuns /\ drafts \in Seq(Draft)
  BY <1>1, BoundAssumption DEF TypeOK, RunTold, NoRun, Going
<1> DEFINE w == Written(runs, Head(run.todo))
<1>3. w \in Draft
  BY <1>1, <1>2, TailOf DEF Written, Draft
<1>4. PICK made \in 0..1, lost \in 0..Attempts:
        /\ drafts' = drafts \o [i \in 1..(lost + made) |-> w]
        /\ unlogged' = unlogged \cup {Len(drafts) + i: i \in 1..lost}
        /\ run' = IF made = 0 THEN [run EXCEPT !.todo = Tail(@)]
                  ELSE [run EXCEPT !.pos = "record"]
  <2>1. PICK made \in 0..1: \E lost \in 0..Attempts - made:
          /\ drafts' = drafts \o [i \in 1..(lost + made) |-> w]
          /\ unlogged' = unlogged \cup {Len(drafts) + i: i \in 1..lost}
          /\ run' = IF made = 0 THEN [run EXCEPT !.todo = Tail(@)]
                    ELSE [run EXCEPT !.pos = "record"]
    BY DEF CreateDraft
  <2>2. 0..Attempts - made \subseteq 0..Attempts
    BY DEF Attempts
  <2> QED
    BY <2>1, <2>2
<1>5. PICK e \in Draft: e = w
  BY <1>3
<1>6. PICK n \in Nat: n = lost + made
  BY <1>4 DEF Attempts
<1>7. drafts' = drafts \o [i \in 1..n |-> e]
  BY <1>4, <1>5, <1>6
<1>8. /\ drafts' \in Seq(Draft) /\ Len(drafts') = Len(drafts) + n
      /\ \A i \in 1..Len(drafts): drafts'[i] = drafts[i]
      /\ \A i \in (Len(drafts) + 1)..(Len(drafts) + n): drafts'[i] = e
  <2>2. drafts \in Seq(Draft)
    BY <1>2
  <2>1. PICK t: t = [i \in 1..n |-> e]
    OBVIOUS
  <2>3. /\ drafts \o t \in Seq(Draft) /\ Len(drafts \o t) = Len(drafts) + n
        /\ \A i \in 1..Len(drafts): (drafts \o t)[i] = drafts[i]
        /\ \A i \in (Len(drafts) + 1)..(Len(drafts) + n): (drafts \o t)[i] = e
    BY ONLY <2>1, <2>2, ConcatOf, e \in Draft, n \in Nat
  <2> QED
    BY <1>7, <2>1, <2>3
<1>9. Kept
  BY <1>2, <1>8 DEF Kept, Ids
<1>10. /\ \A d \in Ids' \ Ids: drafts'[d] = w
       /\ \A d \in Ids: drafts'[d] = drafts[d]
  BY <1>2, <1>5, <1>8 DEF Ids
<1>11. Len(drafts') = Len(drafts) + lost + made
  BY <1>2, <1>6, <1>8
<1> QED
  BY <1>1, <1>2, <1>4, <1>9, <1>10, <1>11

LEMMA WriteKeeps ==
  ASSUME TypeOK, OwnerWrites
  PROVE  Kept /\ NoneWritten /\ Len(drafts') = Len(drafts) + 1 /\ \A d \in Ids: drafts'[d] = drafts[d]
<1>1. Written(ByHand, NoMessage) \in Draft
  BY BoundAssumption DEF Written, ByHand, Draft
<1>2. PICK e \in Draft: e = Written(ByHand, NoMessage)
  BY <1>1
<1>3. drafts \in Seq(Draft) /\ drafts' = Append(drafts, e)
  BY <1>2 DEF OwnerWrites, TypeOK
<1>4. e.by = ByHand
  BY <1>2 DEF Written
<1> QED
  BY <1>3, <1>4, AppendOf DEF Kept, NoneWritten, Ids

LEMMA TrashKeeps ==
  ASSUME TypeOK, TrashMessage
  PROVE  /\ Kept /\ NoneWritten /\ Ids' = Ids
         /\ \A e \in Ids \ {undo.message.draft}: drafts'[e] = drafts[e]
         /\ \/ UNCHANGED drafts
            \/ /\ drafts'[undo.message.draft].state = "trash"
               /\ drafts'[undo.message.draft].version = drafts[undo.message.draft].version
<1>1. undo \in Moving /\ undo.message.draft \in Ids /\ drafts \in Seq(Draft)
  BY DEF TrashMessage, TypeOK, NoRun, Asking, Moving
<1> DEFINE d == undo.message.draft
<1>2. CASE UNCHANGED drafts
  BY <1>1, <1>2 DEF Kept, NoneWritten, Ids
<1>3. CASE drafts[d].state = "live" /\ drafts' = [drafts EXCEPT ![d].state = "trash"]
  <2>1. drafts[d] \in Draft
    BY <1>1 DEF Ids
  <2>2. drafts[d].version \in Nat
    BY <2>1 DEF Draft
  <2>3. [drafts[d] EXCEPT !.state = "trash"]
          = [drafts[d] EXCEPT !.state = "trash", !.version = drafts[d].version]
    BY <2>1 DEF Draft
  <2>4. drafts' = [drafts EXCEPT ![d].state = "trash", ![d].version = drafts[d].version]
    BY <1>1, <1>3, <2>1, <2>3 DEF Ids
  <2>5. d \in Ids /\ drafts[d].state = "live" /\ "trash" \in {"live", "sent", "trash", "gone"}
    BY <1>1, <1>3
  <2>6. PICK version \in Nat: version = drafts[d].version
    BY <2>2
  <2>7. drafts' = [drafts EXCEPT ![d].state = "trash", ![d].version = version]
    BY <2>4, <2>6
  <2> HIDE DEF d
  <2>8. /\ Kept /\ NoneWritten /\ Ids' = Ids /\ \A e \in Ids \ {d}: drafts'[e] = drafts[e]
        /\ drafts'[d].state = "trash" /\ drafts'[d].version = version
    BY ONLY TypeOK, <2>5, <2>6, <2>7, TouchKeeps
  <2>9. \/ UNCHANGED drafts
        \/ drafts'[d].state = "trash" /\ drafts'[d].version = drafts[d].version
    BY ONLY <2>6, <2>8
  <2> USE DEF d
  <2> QED
    BY ONLY <2>8, <2>9
<1> QED
  BY <1>2, <1>3 DEF TrashMessage

------------------------------------------------------------------------------
(* Types *)

LEMMA TypeInit == Init => TypeOK
<1> SUFFICES ASSUME Init PROVE TypeOK
  OBVIOUS
<1> USE DEF Init
<1>1. Ids = {} /\ drafts \in Seq(Draft)
  BY DEF Ids
<1>2. logs \in [1..MaxRuns -> Seq(Ids)]
  OBVIOUS
<1>3. runs \in 0..MaxRuns /\ undos \in 0..MaxUndos /\ touches \in 0..MaxTouches
  BY BoundAssumption
<1> QED
  BY <1>1, <1>2, <1>3 DEF TypeOK

LEMMA DocumentTyped ==
  ASSUME NEW document \in Approvals
  PROVE  /\ document.recipients \in Seq(Addresses)
         /\ \A i \in DOMAIN document.recipients: document.recipients[i] \in Addresses
<1>1. CASE document = NoApproval
  BY <1>1 DEF NoApproval
<1>2. CASE document # NoApproval
  <2>1. document.recipients \in Seq(Addresses)
    BY <1>2, FileAssumption
  <2> QED
    BY <2>1
<1> QED
  BY <1>1, <1>2

LEMMA EligibleIn ==
  ASSUME NEW canonical, NEW records, NEW excluded, NEW document
  PROVE  Eligible(canonical, records, excluded, document) \subseteq records
BY DEF Eligible, BySender

(* What a scan takes *)
LEMMA TargetsTyped ==
  ASSUME NEW canonical, NEW E, NEW limit \in Nat, NEW s \in Targets(canonical, E, limit)
  PROVE  /\ s \in Seq(E) /\ Len(s) <= limit /\ Range(s) \subseteq E
         /\ \A i, j \in DOMAIN s:
              i < j => Recipient(canonical, s[i]) # Recipient(canonical, s[j])
<1>1. PICK n \in 0..limit: s \in [1..n -> E]
  BY DEF Targets
<1>2. s \in Seq(E) /\ Len(s) = n
  BY <1>1
<1>3. \A i, j \in DOMAIN s:
         i < j => Recipient(canonical, s[i]) # Recipient(canonical, s[j])
  BY DEF Targets
<1> QED
  BY <1>1, <1>2, <1>3, RangeIn

(* The types that speak of drafts only grow. *)
LEMMA TypesGrow ==
  ASSUME Ids \subseteq Ids'
  PROVE  /\ Seq(Ids) \subseteq Seq(Ids')
         /\ [1..MaxRuns -> Seq(Ids)] \subseteq [1..MaxRuns -> Seq(Ids')]
         /\ ({NoRun} \cup Asking \cup Moving) \subseteq ({NoRun} \cup Asking' \cup Moving')
<1>1. Seq(Ids) \subseteq Seq(Ids')
  BY SeqGrows
<1>2. Asking \subseteq Asking'
  BY <1>1 DEF Asking
<1>3. Moving \subseteq Moving'
  BY <1>1 DEF Moving
<1> QED
  BY <1>1, <1>2, <1>3

(* What a step is to preserve of the types, given what it does to drafts *)
TypedRest ==
  /\ runs' \in 0..MaxRuns /\ undos' \in 0..MaxUndos /\ touches' \in 0..MaxTouches
  /\ runs <= runs'
  /\ run' \in {NoRun} \cup Going /\ undo' \in {NoRun} \cup Asking' \cup Moving'
  /\ logs' \in [1..MaxRuns -> Seq(Ids')]
  /\ (unlogged' \cup undone' \cup edited') \subseteq Ids'
  /\ \A t \in trashed' \cup unlisted': t.draft \in Ids' /\ drafts'[t.draft].state # "live"

LEMMA TypedBy ==
  ASSUME TypeOK, Kept, NoneWritten, TypedRest
  PROVE  TypeOK'
<1>1. runs \in Nat /\ runs' \in Nat /\ runs <= runs'
  BY BoundAssumption DEF TypeOK, TypedRest
<1>2. ASSUME NEW d \in Ids' PROVE drafts'[d].by <= runs'
  <2>1. CASE d \in Ids
    <3>1. drafts[d] \in Draft /\ drafts[d].by <= runs /\ drafts'[d].by = drafts[d].by
      BY <2>1 DEF TypeOK, Kept, Ids
    <3>2. drafts[d].by \in Nat
      BY <3>1, BoundAssumption DEF Draft
    <3> QED
      BY <1>1, <3>1, <3>2
  <2>2. CASE d \notin Ids
    BY <1>1, <2>2 DEF NoneWritten, ByHand
  <2> QED
    BY <2>1, <2>2
<1> QED
  BY <1>2 DEF TypeOK, Kept, TypedRest

(* What a step leaves alone keeps its type. *)
LEMMA SameTyped ==
  ASSUME TypeOK, Kept
  PROVE  /\ UNCHANGED runs => runs' \in 0..MaxRuns /\ runs <= runs'
         /\ UNCHANGED undos => undos' \in 0..MaxUndos
         /\ UNCHANGED touches => touches' \in 0..MaxTouches
         /\ UNCHANGED run => run' \in {NoRun} \cup Going
         /\ UNCHANGED undo => undo' \in {NoRun} \cup Asking' \cup Moving'
         /\ UNCHANGED logs => logs' \in [1..MaxRuns -> Seq(Ids')]
         /\ UNCHANGED unlogged => unlogged' \subseteq Ids'
         /\ UNCHANGED undone => undone' \subseteq Ids'
         /\ UNCHANGED edited => edited' \subseteq Ids'
         /\ UNCHANGED <<trashed, unlisted>> =>
              \A t \in trashed' \cup unlisted': t.draft \in Ids' /\ drafts'[t.draft].state # "live"
<1>1. Ids \subseteq Ids'
  BY DEF Kept
<1>2. /\ UNCHANGED undo => undo' \in {NoRun} \cup Asking' \cup Moving'
      /\ UNCHANGED logs => logs' \in [1..MaxRuns -> Seq(Ids')]
  BY <1>1, TypesGrow DEF TypeOK
<1>3. UNCHANGED <<trashed, unlisted>> =>
        \A t \in trashed' \cup unlisted': t.draft \in Ids' /\ drafts'[t.draft].state # "live"
  BY DEF TypeOK, Kept
<1>4. /\ UNCHANGED unlogged => unlogged' \subseteq Ids'
      /\ UNCHANGED undone => undone' \subseteq Ids'
      /\ UNCHANGED edited => edited' \subseteq Ids'
  BY <1>1 DEF TypeOK
<1>5. /\ UNCHANGED runs => runs' \in 0..MaxRuns /\ runs <= runs'
      /\ UNCHANGED undos => undos' \in 0..MaxUndos
      /\ UNCHANGED touches => touches' \in 0..MaxTouches
      /\ UNCHANGED run => run' \in {NoRun} \cup Going
  BY BoundAssumption DEF TypeOK
<1> QED
  BY <1>2, <1>3, <1>4, <1>5

LEMMA SameKeeps == TypeOK /\ UNCHANGED drafts => Kept /\ NoneWritten /\ Ids' = Ids
BY DEF Kept, NoneWritten, Ids, TypeOK

(* The draft a run has in hand is one, so it is the one it logs. *)
LEMMA OneInHand ==
  ASSUME TypeOK, NEW d \in Ids, NEW e \in Ids, InHand(d), InHand(e)
  PROVE  d = e
BY DEF InHand, Ids, TypeOK

LEMMA HandLogged ==
  ASSUME TypeOK, RunGoesOn, run.pos = "record"
  PROVE  /\ (CHOOSE d \in Ids: InHand(d)) \in Ids \ (unlogged \cup Range(logs[runs]))
         /\ InHand(CHOOSE d \in Ids: InHand(d))
         /\ run.todo # <<>>
<1>1. PICK d \in Ids \ (unlogged \cup Range(logs[runs])): InHand(d)
  BY DEF RunGoesOn
<1>2. (CHOOSE e \in Ids: InHand(e)) = d
  BY <1>1, OneInHand
<1> QED
  BY <1>1, <1>2 DEF RunGoesOn

LEMMA OwnerKeeps ==
  ASSUME TypeOK, NEW d \in Ids, OwnerSends(d) \/ OwnerDeletes(d) \/ OwnerEdits(d)
  PROVE  /\ Kept /\ NoneWritten /\ Ids' = Ids
         /\ \A e \in Ids \ {d}: drafts'[e] = drafts[e]
         /\ drafts[d].state = "live" /\ drafts'[d].state # "trash"
         /\ drafts'[d].version = drafts[d].version \/ OwnerEdits(d)
         /\ UNCHANGED <<run, logs, undo, trashed, runs, undos, unlogged, unlisted, undone>>
         /\ touches' \in 0..MaxTouches
<1>1. drafts[d] \in Draft
  BY DEF TypeOK, Ids
<1>2. drafts[d].version \in Nat
  BY <1>1 DEF Draft
<1>3. drafts[d].version + 1 \in Nat
  BY <1>2
<1>4. touches' \in 0..MaxTouches
  BY BoundAssumption DEF OwnerSends, OwnerDeletes, OwnerEdits, Touch, TypeOK
<1>5. CASE OwnerSends(d)
  BY <1>2, <1>4, <1>5, TouchKeeps DEF OwnerSends, Touch
<1>6. CASE OwnerDeletes(d)
  BY <1>2, <1>4, <1>6, TouchKeeps DEF OwnerDeletes, Touch
<1>7. CASE OwnerEdits(d)
  BY <1>3, <1>4, <1>7, TouchKeeps DEF OwnerEdits, Touch
<1> QED
  BY <1>5, <1>6, <1>7

LEMMA TypeStep == TypeOK /\ RunTold /\ RunGoesOn /\ UndoGoesOn /\ [Next]_vars => TypeOK'
<1> SUFFICES ASSUME TypeOK, RunTold, RunGoesOn, UndoGoesOn, [Next]_vars PROVE TypeOK'
  OBVIOUS
<1> USE BoundAssumption
<1>0. /\ runs \in Nat /\ undos \in Nat /\ touches \in Nat /\ MaxRuns \in Nat
      /\ \A d \in Ids: drafts[d] \in Draft
  BY DEF TypeOK, Ids
<1>1. ASSUME NEW d \in Ids, OwnerSends(d) \/ OwnerDeletes(d) \/ OwnerEdits(d) PROVE TypeOK'
  <2>1. edited' \subseteq Ids'
    BY <1>1, OwnerKeeps DEF TypeOK, OwnerSends, OwnerDeletes, OwnerEdits
  <2> QED
    BY <1>1, <2>1, OwnerKeeps, SameTyped, TypedBy DEF TypedRest
<1>2. CASE OwnerWrites
  <2>1. touches' \in 0..MaxTouches
    BY <1>0, <1>2 DEF OwnerWrites
  <2> QED
    BY <1>2, <2>1, WriteKeeps, SameTyped, TypedBy DEF OwnerWrites, TypedRest
<1>3. CASE StartRun
  <2>1. run' \in Going
    <3>1. PICK label \in Campaigns, aliases \in AliasFiles, addresses \in Exclusions,
               document \in Approvals, limit \in Limits:
            /\ CanonicalOf(aliases) \in [Addresses -> Addresses \ DOMAIN aliases]
            /\ run' = [pos |-> "exclusions", label |-> label,
                       canonical |-> CanonicalOf(aliases),
                       excluded |-> ByFile(CanonicalOf(aliases), addresses),
                       byFile |-> addresses, document |-> document, limit |-> limit,
                       read |-> {}, todo |-> <<>>]
      BY <1>3 DEF StartRun, Resolved
    <3>2. addresses \subseteq Addresses
      BY FileAssumption
    <3>3. CanonicalOf(aliases) \in [Addresses -> Addresses]
      BY <3>1
    <3>4. ByFile(CanonicalOf(aliases), addresses) \subseteq Addresses
      BY <3>2, <3>3 DEF ByFile
    <3>5. <<>> \in Seq(Messages) /\ {} \in SUBSET Messages
      OBVIOUS
    <3> QED
      BY <3>1, <3>2, <3>3, <3>4, <3>5 DEF Going
  <2>2. runs' \in 0..MaxRuns /\ runs <= runs'
    BY <1>0, <1>3 DEF StartRun
  <2> QED
    BY <1>3, <2>1, <2>2, SameKeeps, SameTyped, TypedBy DEF StartRun, TypedRest
<1>4. CASE ReadExclusions
  <2>1. run \in Going
    BY <1>4 DEF ReadExclusions, TypeOK, NoRun
  <2>2. PICK read \in SUBSET Labelled(ExcludeLabel):
          run' \in {NoRun, [run EXCEPT !.pos = "scan",
                              !.excluded = @ \cup Senders(run.canonical, read)]}
    BY <1>4 DEF ReadExclusions
  <2>3. \A m \in read: m.sender \in Addresses
    BY MessageAssumption DEF Labelled
  <2>4. Senders(run.canonical, read) \subseteq Addresses
    BY <2>1, <2>3 DEF Senders, Going
  <2>5. run' \in {NoRun} \cup Going
    <3> DEFINE X == run.excluded \cup Senders(run.canonical, read)
    <3>1. X \in SUBSET Addresses
      BY <2>1, <2>4 DEF Going
    <3>2. run' \in {NoRun, [run EXCEPT !.pos = "scan", !.excluded = X]}
      BY <2>1, <2>2
    <3> HIDE DEF X
    <3> QED
      BY <2>1, <3>1, <3>2 DEF Going
  <2> QED
    BY <1>4, <2>5, SameKeeps, SameTyped, TypedBy DEF ReadExclusions, ghosts, TypedRest
<1>5. CASE Scan
  <2>1. run \in Going
    BY <1>5 DEF Scan, TypeOK, NoRun
  <2>2. PICK read \in SUBSET Labelled(run.label):
          \E targets \in Targets(run.canonical,
                       Eligible(run.canonical, read, run.excluded, run.document), run.limit):
            run' \in {NoRun, [run EXCEPT !.pos = "confirm", !.read = read, !.todo = targets]}
    BY <1>5 DEF Scan
  <2>3. PICK targets \in Targets(run.canonical,
                       Eligible(run.canonical, read, run.excluded, run.document), run.limit):
            run' \in {NoRun, [run EXCEPT !.pos = "confirm", !.read = read, !.todo = targets]}
    BY <2>2
  <2>4. read \subseteq Messages /\ run.limit \in Nat
    BY <2>1 DEF Labelled, Going
  <2>5. targets \in Seq(Eligible(run.canonical, read, run.excluded, run.document))
    BY <2>4, TargetsTyped
  <2>6. Eligible(run.canonical, read, run.excluded, run.document) \subseteq Messages
    BY <2>4, EligibleIn
  <2>7. targets \in Seq(Messages)
    BY <2>5, <2>6, SeqGrows
  <2>8. run' \in {NoRun} \cup Going
    BY <2>1, <2>3, <2>4, <2>7 DEF Going
  <2> QED
    BY <1>5, <2>8, SameKeeps, SameTyped, TypedBy DEF Scan, ghosts, TypedRest
<1>6. CASE Confirm
  <2>1. run \in Going
    BY <1>6 DEF Confirm, TypeOK, NoRun
  <2>2. run' \in Going
    BY <1>6, <2>1 DEF Confirm, Going
  <2> QED
    BY <1>6, <2>2, SameKeeps, SameTyped, TypedBy DEF Confirm, ghosts, TypedRest
<1>7. CASE CreateDraft
  <2>1. Kept /\ run \in Going /\ run.todo # <<>> /\ runs \in 1..MaxRuns
    BY <1>7, CreateKeeps
  <2>2. PICK made \in 0..1, lost \in 0..Attempts:
              /\ Len(drafts') = Len(drafts) + lost + made
              /\ unlogged' = unlogged \cup {Len(drafts) + i: i \in 1..lost}
              /\ run' = IF made = 0 THEN [run EXCEPT !.todo = Tail(@)]
                        ELSE [run EXCEPT !.pos = "record"]
              /\ \A d \in Ids' \ Ids: drafts'[d] = Written(runs, Head(run.todo))
    BY <1>7, CreateKeeps
  <2>3. Tail(run.todo) \in Seq(Messages)
    BY <2>1, TailOf DEF Going
  <2>4. [run EXCEPT !.todo = Tail(@)] \in Going /\ [run EXCEPT !.pos = "record"] \in Going
    BY <2>1, <2>3 DEF Going
  <2>5. \A i \in 1..lost: Len(drafts) + i \in Ids'
    BY <2>2 DEF Ids, TypeOK
  <2>6. ASSUME NEW d \in Ids' PROVE drafts'[d].by <= runs
    <3>1. CASE d \in Ids
      BY <3>1, <2>1 DEF Kept, TypeOK
    <3>2. CASE d \notin Ids
      BY <1>0, <3>2, <2>2 DEF Written
    <3> QED
      BY <3>1, <3>2
  <2>7. UNCHANGED <<logs, undo, trashed, runs, undos, touches, unlisted, undone, edited>>
    BY <1>7 DEF CreateDraft
  <2>8. unlogged' \subseteq Ids'
    BY <2>1, <2>2, <2>5 DEF TypeOK, Kept
  <2>9. drafts' \in Seq(Draft)
    BY <2>1 DEF Kept
  <2> QED
    BY <2>1, <2>2, <2>4, <2>6, <2>7, <2>8, <2>9, SameTyped DEF TypeOK
<1>8. CASE RecordDraft
  <2>1. run \in Going /\ runs \in 1..MaxRuns /\ run.pos = "record"
    BY <1>0, <1>8 DEF RecordDraft, TypeOK, RunTold, NoRun
  <2>2. Tail(run.todo) \in Seq(Messages)
    BY <2>1, TailOf, HandLogged DEF Going
  <2>3. run' \in Going
    BY <1>8, <2>1, <2>2 DEF RecordDraft, Going
  <2>4. logs[runs] \in Seq(Ids) /\ Logged(logs[runs]) \in Seq(Ids)
    BY <2>1, HandLogged, AppendOf DEF Logged, TypeOK
  <2>5. logs' \in [1..MaxRuns -> Seq(Ids)]
    BY <1>8, <2>1, <2>4 DEF RecordDraft, TypeOK
  <2> QED
    BY <1>8, <2>3, <2>5, SameKeeps, SameTyped, TypedBy DEF RecordDraft, ghosts, TypedRest
<1>9. CASE EndRun
  <2>1. unlogged' \subseteq Ids
    BY <1>9 DEF EndRun, TypeOK
  <2> QED
    BY <1>9, <2>1, SameKeeps, SameTyped, TypedBy DEF EndRun, TypedRest
<1>10. ASSUME NEW n \in 1..MaxRuns, StartUndo(n) PROVE TypeOK'
  <2>1. undo' \in Asking
    BY <1>10 DEF StartUndo, Asking, TypeOK
  <2>2. undos' \in 0..MaxUndos
    BY <1>0, <1>10 DEF StartUndo
  <2>3. Kept /\ NoneWritten /\ Asking' = Asking
    BY <1>10, SameKeeps DEF StartUndo, Asking
  <2> QED
    BY <1>10, <2>1, <2>2, <2>3, SameTyped, TypedBy DEF StartUndo, TypedRest
<1>11. CASE GetDraft
  <2>1. undo \in Asking
    BY <1>11 DEF GetDraft, TypeOK, NoRun, Moving
  <2>2. undo.todo \in Seq(Ids) /\ undo.todo # <<>>
    BY <1>11, <2>1 DEF GetDraft, Asking
  <2>3. Head(undo.todo) \in Ids /\ Tail(undo.todo) \in Seq(Ids)
    BY <2>2, TailOf
  <2>4. drafts[Head(undo.todo)].version \in Nat
    BY <1>0, <2>3 DEF Draft
  <2>5. ToMove(Head(undo.todo)) \in Moving
    BY <2>1, <2>3, <2>4 DEF ToMove, Message, Moving, Asking
  <2>6. /\ [undo EXCEPT !.todo = Tail(@)] \in Asking
        /\ [undo EXCEPT !.todo = Tail(@), !.failed = TRUE] \in Asking
    BY <2>1, <2>3 DEF Asking
  <2>7. undo' \in Asking \cup Moving
    BY <1>11, <2>5, <2>6 DEF GetDraft
  <2>8. Kept /\ NoneWritten /\ Asking' = Asking /\ Moving' = Moving
    BY <1>11, SameKeeps DEF GetDraft, Asking, Moving
  <2> QED
    BY <1>11, <2>7, <2>8, SameTyped, TypedBy DEF GetDraft, ghosts, TypedRest
<1>12. CASE TrashMessage
  <2>1. undo \in Moving /\ undo.todo # <<>> /\ undo.pos = "trash"
    BY <1>12 DEF TrashMessage, TypeOK, NoRun, Asking, UndoGoesOn
  <2>2. Tail(undo.todo) \in Seq(Ids)
    BY <2>1, TailOf DEF Moving
  <2>3. \A f \in BOOLEAN: Next1(f) \in Asking
    BY <2>1, <2>2 DEF Next1, Asking, Moving
  <2>4. [undo EXCEPT !.pos = "record"] \in Moving
    BY <2>1 DEF Moving
  <2>5. undo' \in Asking \cup Moving
    BY <1>12, <2>1, <2>3, <2>4 DEF TrashMessage, TrashFailed, Moving
  <2>6. Kept /\ NoneWritten /\ Ids' = Ids
    BY <1>12, TrashKeeps
  <2>7. \A t \in trashed \cup unlisted: t.draft \in Ids /\ drafts'[t.draft].state # "live"
    BY <2>6 DEF TypeOK, Kept
  <2>8. unlisted' = unlisted \/ (unlisted' = unlisted \cup {undo.message} /\ drafts'[undo.message.draft].state = "trash")
    <3>1. drafts' = [drafts EXCEPT ![undo.message.draft].state = "trash"]
            => drafts'[undo.message.draft].state = "trash"
      BY <1>0, <2>1 DEF Moving, Draft, TypeOK, Ids
    <3> QED
      BY <1>12, <3>1 DEF TrashMessage
  <2>9. \A t \in trashed' \cup unlisted': t.draft \in Ids /\ drafts'[t.draft].state # "live"
    BY <1>12, <2>1, <2>7, <2>8 DEF TrashMessage, Moving
  <2>10. Asking' = Asking /\ Moving' = Moving
    BY <2>6 DEF Asking, Moving
  <2> QED
    BY <1>12, <2>5, <2>6, <2>9, <2>10, SameTyped, TypedBy DEF TrashMessage, TypedRest
<1>13. CASE RecordTrashed
  <2>1. undo \in Moving /\ undo.todo # <<>> /\ undo.pos = "record"
    BY <1>13 DEF RecordTrashed, TypeOK, NoRun, Asking, UndoGoesOn
  <2>2. Tail(undo.todo) \in Seq(Ids)
    BY <2>1, TailOf DEF Moving
  <2>3. undo' \in Asking
    BY <1>13, <2>1, <2>2 DEF RecordTrashed, Next1, Asking, Moving
  <2>4. Kept /\ NoneWritten /\ Ids' = Ids /\ Asking' = Asking
    BY <1>13, SameKeeps DEF RecordTrashed, Asking
  <2>5. undo.message.draft \in Ids /\ drafts[undo.message.draft].state # "live"
    BY <2>1 DEF UndoGoesOn, NoRun, Moving
  <2>6. \A t \in trashed' \cup unlisted': t.draft \in Ids' /\ drafts'[t.draft].state # "live"
    BY <1>13, <2>4, <2>5 DEF RecordTrashed, Listed, ghosts, TypeOK
  <2> QED
    BY <1>13, <2>3, <2>4, <2>6, SameTyped, TypedBy DEF RecordTrashed, ghosts, TypedRest
<1>14. CASE FinishUndo
  <2>1. undo \in Asking
    BY <1>14 DEF FinishUndo, TypeOK, NoRun, Moving
  <2>2. Range(undo.ids) \subseteq Ids
    BY <2>1, RangeIn DEF Asking
  <2>3. undone' \subseteq Ids
    BY <1>14, <2>2 DEF FinishUndo, TypeOK
  <2> QED
    BY <1>14, <2>3, SameKeeps, SameTyped, TypedBy DEF FinishUndo, TypedRest
<1>15. CASE UndoStops
  <2>1. undo.pos = "record" => undo.message.draft \in Ids /\ drafts[undo.message.draft].state # "live"
    BY <1>15 DEF UndoStops, UndoGoesOn, NoRun, Moving, Asking, TypeOK
  <2>2. Kept /\ NoneWritten /\ Ids' = Ids
    BY <1>15, SameKeeps DEF UndoStops
  <2>3. \A t \in trashed' \cup unlisted': t.draft \in Ids' /\ drafts'[t.draft].state # "live"
    BY <1>15, <2>1, <2>2 DEF UndoStops, TypeOK
  <2> QED
    BY <1>15, <2>2, <2>3, SameTyped, TypedBy DEF UndoStops, TypedRest
<1>16. CASE UNCHANGED vars
  BY <1>16, SameKeeps, SameTyped, TypedBy DEF vars, ghosts, TypedRest
<1> QED
  BY <1>1, <1>2, <1>3, <1>4, <1>5, <1>6, <1>7, <1>8, <1>9, <1>10, <1>11, <1>12, <1>13,
     <1>14, <1>15, <1>16 DEF Next

------------------------------------------------------------------------------
(* A run *)

LEMMA Aside ==
  ASSUME TypeOK, [Next]_vars
  PROVE  \/ StartRun \/ ReadExclusions \/ Scan \/ Confirm \/ CreateDraft \/ RecordDraft \/ EndRun
         \/ Kept /\ NoneWritten /\ UNCHANGED <<run, runs, logs, unlogged>>
<1>1. ASSUME NEW d \in Ids, OwnerSends(d) \/ OwnerDeletes(d) \/ OwnerEdits(d)
      PROVE  Kept /\ NoneWritten /\ UNCHANGED <<run, runs, logs, unlogged>>
  BY <1>1, OwnerKeeps
<1>2. CASE OwnerWrites
  BY <1>2, WriteKeeps DEF OwnerWrites
<1>3. CASE TrashMessage
  BY <1>3, TrashKeeps DEF TrashMessage
<1>4. ASSUME NEW n \in 1..MaxRuns, StartUndo(n)
      PROVE  Kept /\ NoneWritten /\ UNCHANGED <<run, runs, logs, unlogged>>
  BY <1>4, SameKeeps DEF StartUndo
<1>5. CASE GetDraft \/ RecordTrashed \/ FinishUndo \/ UndoStops \/ UNCHANGED vars
  BY <1>5, SameKeeps DEF GetDraft, RecordTrashed, FinishUndo, UndoStops, vars, ghosts
<1> QED
  BY <1>1, <1>2, <1>3, <1>4, <1>5 DEF Next

(* What nobody but a run writes changes no run's drafts. *)
LEMMA OfRunSame ==
  ASSUME TypeOK, Kept, NoneWritten
  PROVE  /\ \A n \in Nat \ {0}: {d \in Ids': drafts'[d].by = n} = OfRun(n)
         /\ runs > 0 /\ UNCHANGED runs =>
              /\ OfRun(runs)' = OfRun(runs)
              /\ \A d \in Ids: InHand(d)' <=> InHand(d)
<1>1. ASSUME NEW n \in Nat \ {0} PROVE {d \in Ids': drafts'[d].by = n} = OfRun(n)
  BY DEF OfRun, Kept, NoneWritten, ByHand
<1>2. ASSUME runs > 0, UNCHANGED runs PROVE OfRun(runs)' = OfRun(runs)
  BY <1>1, <1>2, BoundAssumption DEF OfRun, TypeOK
<1>3. ASSUME runs > 0, UNCHANGED runs, NEW d \in Ids PROVE InHand(d)' <=> InHand(d)
  <2>1. \A e: (e \in Ids' /\ drafts'[e].by = runs') <=> (e \in Ids /\ drafts[e].by = runs)
    BY <1>2, <1>3 DEF OfRun
  <2> QED
    BY <1>3, <2>1 DEF InHand, Kept
<1> QED
  BY <1>1, <1>2, <1>3

LEMMA ToldStep == TypeOK /\ RunTold /\ RunGoesOn /\ [Next]_vars => RunTold'
<1> SUFFICES ASSUME TypeOK, RunTold, RunGoesOn, [Next]_vars PROVE RunTold'
  OBVIOUS
<1> USE DEF RunTold
<1>0. runs \in Nat
  BY BoundAssumption DEF TypeOK
<1>1. CASE StartRun
  BY <1>0, <1>1 DEF StartRun, NoRun
<1>2. CASE ReadExclusions
  <2>1. run \in Going
    BY <1>2 DEF ReadExclusions, TypeOK, NoRun
  <2>2. CASE run' = NoRun
    BY <2>2 DEF NoRun
  <2>3. CASE Fits(run.document, run.canonical, run.label) /\ run' # NoRun
    <3>1. PICK read \in SUBSET Labelled(ExcludeLabel):
            run' = [run EXCEPT !.pos = "scan",
                               !.excluded = @ \cup Senders(run.canonical, read)]
      BY <1>2, <2>3 DEF ReadExclusions
    <3>2. /\ run'.document = run.document /\ run'.canonical = run.canonical
          /\ run'.label = run.label /\ run'.byFile = run.byFile
          /\ run.excluded \subseteq run'.excluded
      BY <2>1, <3>1 DEF Going
    <3>3. run # NoRun /\ runs' = runs
      BY <1>2, <2>1 DEF Going, NoRun, ReadExclusions, ghosts
    <3> QED
      BY <2>3, <3>2, <3>3
  <2> QED
    BY <1>2, <2>2, <2>3 DEF ReadExclusions
<1>3. ASSUME run \in Going, run.pos # "exclusions", UNCHANGED runs,
             run' = NoRun \/ /\ run'.document = run.document /\ run'.canonical = run.canonical
                             /\ run'.label = run.label /\ run'.byFile = run.byFile
                             /\ run'.excluded = run.excluded
      PROVE  RunTold'
  BY <1>3 DEF NoRun, Going
<1>4. CASE Scan
  <2>1. run \in Going /\ run.pos = "scan" /\ UNCHANGED runs
    BY <1>4 DEF Scan, TypeOK, NoRun, ghosts
  <2>2. \E read, targets:
          run' \in {NoRun, [run EXCEPT !.pos = "confirm", !.read = read, !.todo = targets]}
    BY <1>4 DEF Scan
  <2> QED
    BY <1>3, <2>1, <2>2 DEF Going
<1>9. CASE Confirm
  BY <1>3, <1>9 DEF Confirm, ghosts, TypeOK, NoRun, Going
<1>5. CASE CreateDraft
  BY <1>3, <1>5, CreateKeeps DEF CreateDraft, Going
<1>6. CASE RecordDraft
  BY <1>3, <1>6 DEF RecordDraft, ghosts, TypeOK, NoRun, Going
<1>7. CASE EndRun
  BY <1>7 DEF EndRun, NoRun
<1>8. CASE UNCHANGED <<run, runs>>
  BY <1>8
<1> QED
  BY <1>1, <1>2, <1>4, <1>5, <1>6, <1>7, <1>8, <1>9, Aside

(* What a step that leaves the run's own fields alone leaves true *)
LEMMA GoingOnSame ==
  ASSUME TypeOK, RunTold, RunGoesOn, Kept, NoneWritten,
         UNCHANGED <<run, runs, unlogged>>, Range(logs'[runs]) \subseteq Range(logs[runs])
  PROVE  RunGoesOn'
<1>1. CASE run = NoRun
  BY <1>1 DEF RunGoesOn, NoRun
<1>2. CASE run # NoRun
  <2>1. runs > 0 /\ run \in Going
    BY <1>2 DEF RunTold, TypeOK
  <2>2. OfRun(runs)' = OfRun(runs) /\ \A d \in Ids: InHand(d)' <=> InHand(d)
    BY <2>1, OfRunSame
  <2>3. OfRun(runs) \subseteq Ids /\ \A d \in Ids: drafts'[d].message = drafts[d].message
    BY DEF OfRun, Kept
  <2>4. \A d \in OfRun(runs): RecipientOf(d)' = RecipientOf(d)
    BY <2>3 DEF RecipientOf
  <2>5. MayDraft' = MayDraft
    BY DEF MayDraft
  <2>6. Ids \subseteq Ids'
    BY DEF Kept
  <2>7. CASE run.pos = "record"
    <3>1. PICK d \in Ids \ (unlogged \cup Range(logs[runs])):
            InHand(d) /\ drafts[d].message = Head(run.todo)
      BY <2>7 DEF RunGoesOn
    <3>2. d \in Ids' \ (unlogged' \cup Range(logs'[runs'])) /\ InHand(d)'
          /\ drafts'[d].message = Head(run'.todo)
      BY <2>2, <2>3, <2>6, <3>1
    <3> QED
      BY <2>2, <2>3, <2>4, <2>5, <2>7, <3>2 DEF RunGoesOn
  <2>8. CASE run.pos # "record"
    BY <2>2, <2>3, <2>4, <2>5, <2>8 DEF RunGoesOn
  <2> QED
    BY <2>7, <2>8
<1> QED
  BY <1>1, <1>2

(* A run is about to write its first drafts, of what it has read. *)
LEMMA ScanGoesOn == TypeOK /\ RunTold /\ RunGoesOn /\ Scan => RunGoesOn'
<1> SUFFICES ASSUME TypeOK, RunTold, RunGoesOn, Scan PROVE RunGoesOn'
  OBVIOUS
<1>1. run \in Going /\ run.pos = "scan" /\ runs > 0
  BY DEF Scan, TypeOK, NoRun, RunTold
<1>2. UNCHANGED <<drafts, logs, runs, unlogged>>
  BY DEF Scan, ghosts
<1>3. OfRun(runs) = {} /\ OfRun(runs)' = {}
  BY <1>1, <1>2 DEF RunGoesOn, OfRun, Ids
<1>4. CASE run' = NoRun
  BY <1>4 DEF RunGoesOn, NoRun
<1>5. CASE run' # NoRun
  <2>1. PICK read \in SUBSET Labelled(run.label):
          \E targets \in Targets(run.canonical,
                       Eligible(run.canonical, read, run.excluded, run.document), run.limit):
            run' = [run EXCEPT !.pos = "confirm", !.read = read, !.todo = targets]
    BY <1>5 DEF Scan
  <2> DEFINE E == Eligible(run.canonical, read, run.excluded, run.document)
  <2>2. PICK targets \in Targets(run.canonical, E, run.limit):
            run' = [run EXCEPT !.pos = "confirm", !.read = read, !.todo = targets]
    BY <2>1
  <2>3. run.limit \in Nat
    BY <1>1, BoundAssumption DEF Going
  <2>4. /\ targets \in Seq(E) /\ Len(targets) <= run.limit /\ Range(targets) \subseteq E
        /\ \A i, j \in DOMAIN targets:
              i < j => Recipient(run.canonical, targets[i]) # Recipient(run.canonical, targets[j])
    BY <2>3, TargetsTyped
  <2>5. /\ run'.pos = "confirm" /\ run'.todo = targets /\ run'.read = read
        /\ run'.canonical = run.canonical /\ run'.excluded = run.excluded
        /\ run'.document = run.document /\ run'.limit = run.limit
    BY <1>1, <2>2 DEF Going
  <2>6. MayDraft' = E
    BY <2>5 DEF MayDraft
  <2>7. Cardinality({}) = 0
    BY FS_EmptySet
  <2>8. Cardinality(OfRun(runs)' \ unlogged') + Len(run'.todo) <= run'.limit
    BY <1>3, <2>3, <2>4, <2>5, <2>7
  <2>9. run'.limit + 0 = run'.limit
    BY <2>3, <2>5
  <2> HIDE DEF E
  <2> QED
    BY <1>3, <2>4, <2>5, <2>6, <2>8, <2>9 DEF RunGoesOn
<1> QED
  BY <1>4, <1>5

(* There are finitely many drafts. *)
LEMMA DraftsFinite ==
  ASSUME TypeOK, NEW D \in SUBSET Ids
  PROVE  IsFiniteSet(D) /\ Cardinality(D) \in Nat
<1>1. IsFiniteSet(Ids)
  BY FS_Interval DEF Ids, TypeOK
<1>2. IsFiniteSet(D)
  BY <1>1, FS_Subset
<1> QED
  BY <1>2, FS_CardinalityType

(* The drafts a run has made, after it has made another *)
LEMMA CreateOf ==
  ASSUME TypeOK, RunTold, RunGoesOn, CreateDraft
  PROVE  \E made \in 0..1, new \in Nat:
           /\ Len(drafts') = new
           /\ OfRun(runs)' = OfRun(runs) \cup (Ids' \ Ids)
           /\ Ids' \ Ids = (Len(drafts) + 1)..new
           /\ OfRun(runs)' \ unlogged' = (OfRun(runs) \ unlogged) \cup (IF made = 0 THEN {} ELSE {new})
           /\ made = 1 => new \in Ids' \ Ids /\ InHand(new)' /\ new \notin unlogged'
           /\ \A d \in Ids' \ Ids: drafts'[d].message = Head(run.todo)
           /\ run' = IF made = 0 THEN [run EXCEPT !.todo = Tail(@)]
                     ELSE [run EXCEPT !.pos = "record"]
<1>1. Kept /\ runs \in 1..MaxRuns /\ UNCHANGED runs
  BY CreateKeeps DEF CreateDraft
<1>2. PICK made \in 0..1, lost \in 0..Attempts:
              /\ Len(drafts') = Len(drafts) + lost + made
              /\ unlogged' = unlogged \cup {Len(drafts) + i: i \in 1..lost}
              /\ run' = IF made = 0 THEN [run EXCEPT !.todo = Tail(@)]
                        ELSE [run EXCEPT !.pos = "record"]
              /\ \A d \in Ids' \ Ids: drafts'[d] = Written(runs, Head(run.todo))
              /\ \A d \in Ids: drafts'[d] = drafts[d]
  BY CreateKeeps
<1>a. Len(drafts) \in Nat
  BY DEF TypeOK
<1>b. PICK new \in Nat: new = Len(drafts) + lost + made
  BY <1>a DEF Attempts
<1>3. Len(drafts) \in Nat /\ Ids = 1..Len(drafts) /\ Ids' = 1..new
  BY <1>2, <1>a, <1>b DEF Ids
<1>4. Ids' \ Ids = (Len(drafts) + 1)..new
  BY <1>3
<1>5. /\ \A d \in Ids' \ Ids: drafts'[d].by = runs /\ drafts'[d].message = Head(run.todo)
      /\ \A d \in Ids: drafts'[d] = drafts[d]
  BY <1>2 DEF Written
<1>6. OfRun(runs)' = OfRun(runs) \cup (Ids' \ Ids)
  <2>1. Ids \subseteq Ids'
    BY <1>1 DEF Kept
  <2>2. ASSUME NEW d \in Ids' PROVE d \in OfRun(runs)' <=> d \in OfRun(runs) \cup (Ids' \ Ids)
    <3>1. CASE d \in Ids
      BY <1>1, <1>5, <3>1 DEF OfRun
    <3>2. CASE d \notin Ids
      BY <1>1, <1>5, <3>2 DEF OfRun
    <3> QED
      BY <3>1, <3>2
  <2> QED
    BY <2>1, <2>2 DEF OfRun
<1>7. unlogged \subseteq Ids /\ OfRun(runs) \subseteq Ids
  BY DEF TypeOK, OfRun
<1>8. {Len(drafts) + i: i \in 1..lost} = (Len(drafts) + 1)..(Len(drafts) + lost)
  <2>1. lost \in Nat
    BY DEF Attempts
  <2>2. ASSUME NEW d \in (Len(drafts) + 1)..(Len(drafts) + lost)
        PROVE  \E i \in 1..lost: d = Len(drafts) + i
    <3>1. d - Len(drafts) \in 1..lost /\ d = Len(drafts) + (d - Len(drafts))
      BY <1>a, <2>1
    <3> QED
      BY <3>1
  <2>3. \A i \in 1..lost: Len(drafts) + i \in (Len(drafts) + 1)..(Len(drafts) + lost)
    BY <1>a, <2>1
  <2> QED
    BY <2>2, <2>3
<1>9. unlogged' = unlogged \cup ((Len(drafts) + 1)..(Len(drafts) + lost))
  BY <1>2, <1>8
<1>10. OfRun(runs)' \ unlogged' = (OfRun(runs) \ unlogged) \cup (IF made = 0 THEN {} ELSE {new})
  <2>1. (Ids' \ Ids) \ unlogged' = IF made = 0 THEN {} ELSE {new}
    BY <1>3, <1>4, <1>7, <1>9, <1>b
  <2>2. OfRun(runs) \ unlogged' = OfRun(runs) \ unlogged
    BY <1>3, <1>7, <1>9, <1>b
  <2> QED
    BY <1>6, <2>1, <2>2
<1>11. made = 1 => new \in Ids' \ Ids /\ InHand(new)' /\ new \notin unlogged'
  <2> SUFFICES ASSUME made = 1 PROVE new \in Ids' \ Ids /\ InHand(new)' /\ new \notin unlogged'
    OBVIOUS
  <2>1. new \in Ids' \ Ids /\ new \notin unlogged'
    BY <1>3, <1>7, <1>9, <1>b
  <2> QED
    BY <1>1, <1>3, <1>5, <2>1 DEF InHand
<1> QED
  BY <1>2, <1>4, <1>5, <1>6, <1>10, <1>11, <1>b

LEMMA CreateGoesOn ==
  ASSUME TypeOK, RunTold, RunGoesOn, LogHolds, OneDraftEach, CreateDraft
  PROVE  RunGoesOn' /\ OneDraftEach'
<1>1. /\ Kept /\ run \in Going /\ runs \in 1..MaxRuns /\ run.todo # <<>> /\ run.pos = "create"
      /\ UNCHANGED <<logs, runs>> /\ run.todo \in Seq(Messages) /\ run.limit \in Nat
  BY CreateKeeps, BoundAssumption DEF CreateDraft, Going
<1>2. PICK made \in 0..1, new \in Nat:
           /\ Len(drafts') = new
           /\ OfRun(runs)' = OfRun(runs) \cup (Ids' \ Ids)
           /\ OfRun(runs)' \ unlogged' = (OfRun(runs) \ unlogged) \cup (IF made = 0 THEN {} ELSE {new})
           /\ made = 1 => new \in Ids' \ Ids /\ InHand(new)' /\ new \notin unlogged'
           /\ \A d \in Ids' \ Ids: drafts'[d].message = Head(run.todo)
           /\ run' = IF made = 0 THEN [run EXCEPT !.todo = Tail(@)]
                     ELSE [run EXCEPT !.pos = "record"]
  BY CreateOf
<1> DEFINE H == Head(run.todo)
           R(m) == Recipient(run.canonical, m)
<1>3. /\ Tail(run.todo) \in Seq(Messages) /\ Len(Tail(run.todo)) = Len(run.todo) - 1
      /\ H = run.todo[1] /\ 1 \in DOMAIN run.todo /\ H \in Range(run.todo)
      /\ \A i \in DOMAIN Tail(run.todo): i + 1 \in DOMAIN run.todo /\ Tail(run.todo)[i] = run.todo[i + 1]
      /\ Range(Tail(run.todo)) \subseteq Range(run.todo)
  BY <1>1, TailOf
<1>4. /\ run'.canonical = run.canonical /\ run'.read = run.read /\ run'.excluded = run.excluded
      /\ run'.document = run.document /\ run'.limit = run.limit
      /\ run'.pos = IF made = 0 THEN "create" ELSE "record"
      /\ run'.todo = IF made = 0 THEN Tail(run.todo) ELSE run.todo
  BY <1>1, <1>2 DEF Going
<1>5. MayDraft' = MayDraft /\ H \in MayDraft /\ Range(run.todo) \subseteq MayDraft
  BY <1>1, <1>3, <1>4 DEF MayDraft, RunGoesOn
<1>6. \A d \in OfRun(runs): RecipientOf(d)' = RecipientOf(d) /\ drafts'[d].message \in MayDraft
  BY <1>1, <1>4 DEF Kept, RecipientOf, OfRun, RunGoesOn
<1>7. \A d \in Ids' \ Ids: RecipientOf(d)' = R(H)
  BY <1>2, <1>4 DEF RecipientOf, Recipient
<1>8. \A d \in OfRun(runs) \ unlogged: \A i \in DOMAIN run.todo: RecipientOf(d) # R(run.todo[i])
  BY <1>1 DEF RunGoesOn
<1>9. \A i, j \in DOMAIN run.todo: i < j => R(run.todo[i]) # R(run.todo[j])
  BY <1>1 DEF RunGoesOn
<1>10. \A d \in OfRun(runs)': drafts'[d].message \in MayDraft'
  BY <1>2, <1>5, <1>6
<1>11. /\ IsFiniteSet(OfRun(runs) \ unlogged) /\ Cardinality(OfRun(runs) \ unlogged) \in Nat
       /\ Cardinality(OfRun(runs) \ unlogged) + Len(run.todo) <= run.limit
       /\ Len(run.todo) \in Nat
  BY <1>1, DraftsFinite DEF RunGoesOn, OfRun
<1>12. OneDraftEach'
  <2> SUFFICES ASSUME NEW d \in OfRun(runs)' \ unlogged', NEW e \in OfRun(runs)' \ unlogged',
                      RecipientOf(d)' = RecipientOf(e)'
               PROVE  d = e
    BY DEF OneDraftEach
  <2>1. CASE d \in OfRun(runs) \ unlogged /\ e \in OfRun(runs) \ unlogged
    BY <1>1, <1>6, <2>1 DEF OneDraftEach, Writing
  <2>2. CASE d \notin OfRun(runs) \ unlogged /\ e \notin OfRun(runs) \ unlogged
    BY <1>2, <2>2
  <2>3. CASE d \in OfRun(runs) \ unlogged /\ e \notin OfRun(runs) \ unlogged
    BY <1>2, <1>3, <1>6, <1>7, <1>8, <2>3
  <2>4. CASE d \notin OfRun(runs) \ unlogged /\ e \in OfRun(runs) \ unlogged
    BY <1>2, <1>3, <1>6, <1>7, <1>8, <2>4
  <2> QED
    BY <2>1, <2>2, <2>3, <2>4
<1>13. CASE made = 0
  <2>1. OfRun(runs)' \ unlogged' = OfRun(runs) \ unlogged
    BY <1>2, <1>13
  <2>2. \A i, j \in DOMAIN run'.todo: i < j => R(run'.todo[i]) # R(run'.todo[j])
    <3> SUFFICES ASSUME NEW i \in DOMAIN Tail(run.todo), NEW j \in DOMAIN Tail(run.todo), i < j
                 PROVE  R(Tail(run.todo)[i]) # R(Tail(run.todo)[j])
      BY <1>4, <1>13
    <3>1. i \in Nat /\ j \in Nat /\ i + 1 < j + 1
      BY <1>3
    <3> HIDE DEF R
    <3> QED
      BY <1>3, <1>9, <3>1
  <2>3. \A d \in OfRun(runs)' \ unlogged': \A i \in DOMAIN run'.todo:
          RecipientOf(d)' # R(run'.todo[i])
    BY <1>3, <1>4, <1>6, <1>8, <1>13, <2>1
  <2>4. Cardinality(OfRun(runs)' \ unlogged') + Len(run'.todo) <= run'.limit + 0
    <3>1. Len(run'.todo) = Len(run.todo) - 1
      BY <1>3, <1>4, <1>13
    <3>2. run'.limit = run.limit /\ run.limit \in Nat
      BY <1>1, <1>4
    <3>3. Cardinality(OfRun(runs)' \ unlogged') = Cardinality(OfRun(runs) \ unlogged)
      BY <2>1
    <3> QED
      BY <1>11, <3>1, <3>2, <3>3
  <2>5. Range(run'.todo) \subseteq MayDraft'
    BY <1>3, <1>4, <1>5, <1>13
  <2> QED
    BY <1>4, <1>10, <1>12, <1>13, <2>2, <2>3, <2>4, <2>5 DEF RunGoesOn
<1>14. CASE made = 1
  <2>1. OfRun(runs)' \ unlogged' = (OfRun(runs) \ unlogged) \cup {new} /\ new \in Ids' \ Ids
    BY <1>2, <1>14
  <2>2. \A d \in OfRun(runs)' \ unlogged': \A i \in DOMAIN run.todo:
          RecipientOf(d)' = R(run.todo[i]) => i = 1 /\ InHand(d)'
    <3> SUFFICES ASSUME NEW d \in OfRun(runs)' \ unlogged', NEW i \in DOMAIN run.todo,
                        RecipientOf(d)' = R(run.todo[i])
                 PROVE  i = 1 /\ InHand(d)'
      OBVIOUS
    <3>1. d = new
      BY <1>6, <1>8, <2>1
    <3>2. R(run.todo[1]) = R(run.todo[i])
      BY <1>3, <1>7, <2>1, <3>1
    <3>3. i \in Nat /\ i >= 1
      BY <1>1
    <3>4. i = 1
      BY <1>3, <1>9, <3>2, <3>3
    <3> QED
      BY <1>2, <1>14, <3>1, <3>4
  <2>3. Cardinality(OfRun(runs)' \ unlogged') = Cardinality(OfRun(runs) \ unlogged) + 1
    <3>1. new \notin OfRun(runs) \ unlogged
      BY <2>1 DEF OfRun
    <3> QED
      BY <1>11, <2>1, <3>1, FS_AddElement
  <2>4. Cardinality(OfRun(runs)' \ unlogged') + Len(run'.todo) <= run'.limit + 1
    BY <1>1, <1>4, <1>11, <1>14, <2>3
  <2>5. new \in Ids' \ (unlogged' \cup Range(logs'[runs'])) /\ drafts'[new].message = Head(run'.todo)
    BY <1>1, <1>2, <1>4, <1>14, <2>1 DEF LogHolds, OfRun
  <2> HIDE DEF R
  <2>6. \A i, j \in DOMAIN run'.todo: i < j => R(run'.todo[i]) # R(run'.todo[j])
    BY <1>4, <1>9, <1>14
  <2> QED
    BY <1>1, <1>2, <1>4, <1>5, <1>10, <1>12, <1>14, <2>2, <2>4, <2>5, <2>6 DEF RunGoesOn, R
<1> QED
  BY <1>13, <1>14

LEMMA RecordGoesOn ==
  ASSUME TypeOK, RunTold, RunGoesOn, OneDraftEach, RecordDraft
  PROVE  RunGoesOn' /\ OneDraftEach'
<1>1. /\ Kept /\ NoneWritten /\ UNCHANGED <<runs, drafts, unlogged>> /\ run \in Going /\ runs > 0
      /\ run.pos = "record" /\ run.todo # <<>> /\ run.todo \in Seq(Messages) /\ run.limit \in Nat
  BY SameKeeps, BoundAssumption DEF RecordDraft, ghosts, RunTold, RunGoesOn, TypeOK, NoRun, Going
<1>2. /\ run'.canonical = run.canonical /\ run'.read = run.read /\ run'.excluded = run.excluded
      /\ run'.document = run.document /\ run'.limit = run.limit
      /\ run'.pos = "create" /\ run'.todo = Tail(run.todo)
  BY <1>1 DEF RecordDraft, Going
<1>3. /\ Tail(run.todo) \in Seq(Messages) /\ Len(Tail(run.todo)) = Len(run.todo) - 1
      /\ \A i \in DOMAIN Tail(run.todo): i + 1 \in DOMAIN run.todo /\ Tail(run.todo)[i] = run.todo[i + 1]
      /\ Range(Tail(run.todo)) \subseteq Range(run.todo)
  BY <1>1, TailOf
<1>4. OfRun(runs)' = OfRun(runs) /\ MayDraft' = MayDraft
  BY <1>1, <1>2, OfRunSame DEF MayDraft
<1>5. \A d \in OfRun(runs): RecipientOf(d)' = RecipientOf(d)
  BY <1>1, <1>2 DEF RecipientOf
<1> DEFINE R(m) == Recipient(run.canonical, m)
<1>6. \A i, j \in DOMAIN run'.todo: i < j => R(run'.todo[i]) # R(run'.todo[j])
  <2> SUFFICES ASSUME NEW i \in DOMAIN Tail(run.todo), NEW j \in DOMAIN Tail(run.todo), i < j
               PROVE  R(Tail(run.todo)[i]) # R(Tail(run.todo)[j])
    BY <1>2
  <2>1. i \in Nat /\ j \in Nat /\ i + 1 < j + 1
    BY <1>3
  <2> QED
    BY <1>1, <1>3, <2>1 DEF RunGoesOn
<1>7. \A d \in OfRun(runs) \ unlogged: \A i \in DOMAIN run'.todo: RecipientOf(d) # R(run'.todo[i])
  <2> SUFFICES ASSUME NEW d \in OfRun(runs) \ unlogged, NEW i \in DOMAIN Tail(run.todo)
               PROVE  RecipientOf(d) # R(Tail(run.todo)[i])
    BY <1>2
  <2>1. i \in Nat /\ i >= 1 /\ i + 1 # 1
    BY <1>3
  <2> QED
    BY <1>1, <1>3, <2>1 DEF RunGoesOn
<1>8. /\ Cardinality(OfRun(runs) \ unlogged) \in Nat /\ Len(run.todo) \in Nat
      /\ Cardinality(OfRun(runs) \ unlogged) + Len(run.todo) <= run.limit + 1
  BY <1>1, DraftsFinite DEF RunGoesOn, OfRun
<1>9. Cardinality(OfRun(runs)' \ unlogged') + Len(run'.todo) <= run'.limit + 0
  BY <1>1, <1>2, <1>3, <1>4, <1>8
<1>10. Range(run'.todo) \subseteq MayDraft' /\ \A d \in OfRun(runs)': drafts'[d].message \in MayDraft'
  BY <1>1, <1>2, <1>3, <1>4 DEF RunGoesOn
<1>11. OneDraftEach'
  BY <1>1, <1>4, <1>5 DEF OneDraftEach, Writing
<1> QED
  BY <1>1, <1>2, <1>4, <1>5, <1>6, <1>7, <1>9, <1>10, <1>11 DEF RunGoesOn

LEMMA RunStep ==
  TypeOK /\ RunTold /\ RunGoesOn /\ LogHolds /\ OneDraftEach /\ [Next]_vars
    => RunGoesOn' /\ OneDraftEach'
<1> SUFFICES ASSUME TypeOK, RunTold, RunGoesOn, LogHolds, OneDraftEach, [Next]_vars
             PROVE  RunGoesOn' /\ OneDraftEach'
  OBVIOUS
<1>0. runs \in Nat
  BY BoundAssumption DEF TypeOK
<1>1. CASE StartRun
  <2>1. run'.pos = "exclusions" /\ runs' = runs + 1 /\ UNCHANGED drafts
    BY <1>1 DEF StartRun
  <2>2. OfRun(runs)' = {}
    BY <1>0, <2>1 DEF OfRun, Ids, TypeOK
  <2> QED
    BY <2>1, <2>2 DEF RunGoesOn, OneDraftEach, Writing
<1>2. CASE ReadExclusions
  <2>1. /\ run \in Going /\ runs > 0 /\ run.pos = "exclusions" /\ UNCHANGED <<runs, drafts>>
    BY <1>2 DEF ReadExclusions, RunTold, TypeOK, NoRun, ghosts
  <2>2. run'.pos \in {"none", "scan"}
    BY <1>2, <2>1 DEF ReadExclusions, NoRun, Going
  <2>3. OfRun(runs)' = {}
    BY <2>1 DEF RunGoesOn, OfRun, Ids
  <2> QED
    BY <2>2, <2>3 DEF RunGoesOn, OneDraftEach, Writing
<1>3. CASE Scan
  <2>1. run \in Going /\ (run' = NoRun \/ run'.pos = "confirm")
    BY <1>3 DEF Scan, TypeOK, NoRun, Going
  <2> QED
    BY <1>3, <2>1, ScanGoesOn DEF OneDraftEach, Writing, NoRun
<1>4. CASE Confirm
  <2>1. /\ run \in Going /\ runs > 0 /\ run.pos = "confirm" /\ UNCHANGED <<runs, drafts, unlogged>>
    BY <1>4 DEF Confirm, RunTold, TypeOK, NoRun, ghosts
  <2>2. /\ run'.canonical = run.canonical /\ run'.read = run.read /\ run'.excluded = run.excluded
        /\ run'.document = run.document /\ run'.limit = run.limit
        /\ run'.pos = "create" /\ run'.todo = run.todo
    BY <1>4, <2>1 DEF Confirm, Going
  <2>3. OfRun(runs) = {} /\ OfRun(runs)' = {} /\ MayDraft' = MayDraft
    BY <2>1, <2>2 DEF RunGoesOn, OfRun, Ids, MayDraft
  <2>4. OfRun(runs)' \ unlogged' = {} /\ OfRun(runs) \ unlogged = {}
    BY <2>3
  <2>a. run.limit \in Nat
    BY <2>1, BoundAssumption DEF Going
  <2>b. Len(run.todo) \in Nat
    BY <2>1 DEF Going
  <2>5. run.limit \in Nat /\ Len(run.todo) \in Nat /\ run.limit + 0 = run.limit
    BY <2>a, <2>b
  <2>6. Cardinality(OfRun(runs) \ unlogged) + Len(run.todo) <= run.limit
    BY <2>1, <2>5 DEF RunGoesOn
  <2>7. Cardinality(OfRun(runs)' \ unlogged') + Len(run'.todo) <= run'.limit + 0
    BY <2>2, <2>4, <2>5, <2>6
  <2>8. /\ Range(run'.todo) \subseteq MayDraft'
        /\ \A i, j \in DOMAIN run'.todo:
             i < j => Recipient(run'.canonical, run'.todo[i]) # Recipient(run'.canonical, run'.todo[j])
    BY <2>1, <2>2, <2>3 DEF RunGoesOn
  <2>9. RunGoesOn'
    BY <2>2, <2>3, <2>4, <2>7, <2>8 DEF RunGoesOn
  <2> QED
    BY <2>3, <2>9 DEF OneDraftEach
<1>5. CASE CreateDraft
  BY <1>5, CreateGoesOn
<1>6. CASE RecordDraft
  BY <1>6, RecordGoesOn
<1>7. CASE EndRun
  <2>1. run'.pos = "none"
    BY <1>7 DEF EndRun, NoRun
  <2> QED
    BY <2>1 DEF RunGoesOn, OneDraftEach, Writing
<1>8. CASE Kept /\ NoneWritten /\ UNCHANGED <<run, runs, logs, unlogged>>
  <2>1. RunGoesOn'
    BY <1>8, GoingOnSame
  <2>2. CASE run = NoRun
    BY <1>8, <2>1, <2>2 DEF OneDraftEach, Writing, NoRun
  <2>3. CASE run # NoRun
    <3>1. OfRun(runs)' = OfRun(runs)
      BY <1>8, <2>3, OfRunSame DEF RunTold
    <3>2. \A d \in OfRun(runs): RecipientOf(d)' = RecipientOf(d)
      BY <1>8 DEF RecipientOf, OfRun, Kept
    <3> QED
      BY <1>8, <2>1, <3>1, <3>2 DEF OneDraftEach, Writing
  <2> QED
    BY <2>1, <2>2, <2>3
<1> QED
  BY <1>1, <1>2, <1>3, <1>4, <1>5, <1>6, <1>7, <1>8, Aside

(* What a run may draft, and what it was told, make it a campaign that      *)
(* leaves out who is to be left out.                                        *)
LEMMA RunWritesWell ==
  TypeOK /\ RunTold /\ RunGoesOn => OnlyTargets /\ OnlyApproved
<1> SUFFICES ASSUME TypeOK, RunTold, RunGoesOn, Writing
             PROVE  OnlyTargets /\ OnlyApproved
  BY DEF OnlyTargets, OnlyApproved
<1>1. /\ run \in Going /\ runs > 0 /\ run.document \in Approvals
      /\ Fits(run.document, run.canonical, run.label)
  BY DEF Writing, RunTold, TypeOK, NoRun, Going
<1>2. ASSUME NEW d \in OfRun(runs)
      PROVE  /\ drafts[d].message.safe
             /\ RecipientOf(d) = Recipient(run.canonical, drafts[d].message)
             /\ RecipientOf(d) # run.canonical[Owner]
             /\ RecipientOf(d) \notin run.excluded
             /\ run.document = NoApproval \/ RecipientOf(d) \in Approved(run.canonical, run.document)
  BY <1>2 DEF Writing, RunGoesOn, MayDraft, Eligible, BySender, RecipientOf, Recipient
<1>3. OnlyTargets
  <2>1. {run.canonical[a]: a \in run.byFile} \subseteq run.excluded
    BY <1>1 DEF RunTold, ByFile, NoRun, Going
  <2>a. Cardinality(OfRun(runs) \ unlogged) \in Nat
    BY DraftsFinite DEF OfRun
  <2>b. Len(run.todo) \in Nat
    BY <1>1 DEF Going
  <2>c. run.limit \in Nat
    BY <1>1, BoundAssumption DEF Going
  <2>2. /\ Cardinality(OfRun(runs) \ unlogged) \in Nat /\ Len(run.todo) \in Nat
        /\ run.limit \in Nat
    BY <2>a, <2>b, <2>c
  <2>3. Cardinality(OfRun(runs) \ unlogged) <= run.limit
    <3>1. CASE run.pos = "create"
      BY <2>2, <3>1 DEF RunGoesOn
    <3>2. CASE run.pos = "record"
      <4>1. run.todo # <<>> /\ run.todo \in Seq(Messages)
        BY <1>1, <3>2 DEF RunGoesOn, Going
      <4>2. Len(run.todo) > 0
        BY <4>1
      <4>3. Cardinality(OfRun(runs) \ unlogged) + Len(run.todo) <= run.limit + 1
        BY <3>2 DEF RunGoesOn
      <4> QED
        BY <2>2, <4>2, <4>3
    <3> QED
      BY <3>1, <3>2 DEF Writing
  <2> QED
    BY <1>2, <2>1, <2>3 DEF OnlyTargets
<1>4. OnlyApproved
  <2> SUFFICES ASSUME ~OtherCase, Protected(run.label) \/ run.document # NoApproval
               PROVE  /\ run.document.account = Owner /\ run.document.label = run.label
                      /\ \A d \in OfRun(runs):
                           Cardinality({i \in DOMAIN run.document.recipients:
                             run.canonical[run.document.recipients[i]] = RecipientOf(d)}) = 1
    BY DEF OnlyApproved
  <2>1. run.document # NoApproval
    BY <1>1 DEF RunTold, NoRun, Going, OtherCase
  <2> DEFINE rs == run.document.recipients
             c == run.canonical
  <2>2. /\ run.document.account = Owner /\ run.document.label = run.label
        /\ IsInjective([i \in DOMAIN rs |-> c[rs[i]]])
    BY <1>1, <2>1 DEF Fits
  <2>3. \A i, j \in DOMAIN rs: c[rs[i]] = c[rs[j]] => i = j
    BY <2>2 DEF IsInjective
  <2>4. ASSUME NEW d \in OfRun(runs)
        PROVE  Cardinality({i \in DOMAIN rs: c[rs[i]] = RecipientOf(d)}) = 1
    <3>1. PICK k \in DOMAIN rs: c[rs[k]] = RecipientOf(d)
      BY <1>2, <2>1 DEF Approved, Range
    <3>2. {i \in DOMAIN rs: c[rs[i]] = RecipientOf(d)} = {k}
      BY <2>3, <3>1
    <3>3. Cardinality({k}) = 1
      BY FS_Singleton
    <3> QED
      BY <3>2, <3>3
  <2> QED
    BY <2>2, <2>4
<1> QED
  BY <1>3, <1>4

------------------------------------------------------------------------------
(* The logs *)

(* Who writes no draft of a run's, and no log, leaves the logs exact. *)
LEMMA LogsSame ==
  ASSUME TypeOK, LogHolds, LogExact, Kept, NoneWritten, UNCHANGED <<runs, logs, unlogged>>,
         run.pos = "record" => UNCHANGED run
  PROVE  LogHolds' /\ LogExact'
<1>0. runs \in 0..MaxRuns /\ MaxRuns \in Nat
  BY BoundAssumption DEF TypeOK
<1>1. \A n \in 1..MaxRuns: OfRun(n)' = OfRun(n)
  BY <1>0, OfRunSame DEF OfRun
<1>2. LogHolds'
  BY <1>1 DEF LogHolds
<1>3. ASSUME NEW n \in 1..runs, NEW d \in OfRun(n) \ Range(logs[n])
      PROVE  d \in unlogged' \/ (n = runs' /\ run'.pos = "record" /\ InHand(d)')
  <2>1. d \in unlogged \/ (n = runs /\ run.pos = "record" /\ InHand(d))
    BY <1>3 DEF LogExact
  <2>2. d \in Ids
    BY <1>3 DEF OfRun
  <2> QED
    BY <1>0, <2>1, <2>2, OfRunSame
<1>4. \A n \in 1..runs: n \in 1..MaxRuns
  BY <1>0
<1> QED
  BY <1>1, <1>2, <1>3, <1>4 DEF LogExact, LogHolds

LEMMA LogStep ==
  TypeOK /\ RunTold /\ RunGoesOn /\ LogHolds /\ LogExact /\ [Next]_vars => LogHolds' /\ LogExact'
<1> SUFFICES ASSUME TypeOK, RunTold, RunGoesOn, LogHolds, LogExact, [Next]_vars
             PROVE  LogHolds' /\ LogExact'
  OBVIOUS
<1>0. runs \in 0..MaxRuns /\ MaxRuns \in Nat /\ \A n \in 1..runs: n \in 1..MaxRuns
  BY BoundAssumption DEF TypeOK
<1>1. CASE StartRun
  <2>1. UNCHANGED <<drafts, logs, unlogged>> /\ run.pos # "record" /\ runs' = runs + 1
    BY <1>1 DEF StartRun, NoRun
  <2>2. \A n \in 1..MaxRuns: OfRun(n)' = OfRun(n)
    BY <2>1 DEF OfRun, Ids
  <2>3. LogHolds'
    BY <2>1, <2>2 DEF LogHolds
  <2>4. OfRun(runs + 1) = {}
    BY <1>0 DEF OfRun, TypeOK
  <2>5. ASSUME NEW n \in 1..(runs + 1) PROVE OfRun(n) \ Range(logs[n]) \subseteq unlogged
    <3>1. CASE n \in 1..runs
      BY <2>1, <3>1 DEF LogExact
    <3>2. CASE n \notin 1..runs
      BY <1>0, <2>4, <3>2
    <3> QED
      BY <3>1, <3>2
  <2>6. runs' \in 0..MaxRuns
    BY <1>0, <1>1 DEF StartRun
  <2>7. \A n \in 1..runs': n \in 1..MaxRuns
    BY <1>0, <2>6
  <2> QED
    BY <2>1, <2>2, <2>3, <2>5, <2>7 DEF LogExact, LogHolds
<1>2. CASE ReadExclusions \/ Scan \/ Confirm
  BY <1>2, LogsSame, SameKeeps DEF ReadExclusions, Scan, Confirm, ghosts
<1>3. CASE CreateDraft
  <2>1. Kept /\ UNCHANGED <<runs, logs>> /\ run.pos = "create" /\ run \in Going /\ runs \in 1..MaxRuns
    BY <1>3, CreateKeeps DEF CreateDraft
  <2>2. PICK made \in 0..1, new \in Nat:
           /\ OfRun(runs)' = OfRun(runs) \cup (Ids' \ Ids)
           /\ OfRun(runs)' \ unlogged' = (OfRun(runs) \ unlogged) \cup (IF made = 0 THEN {} ELSE {new})
           /\ made = 1 => InHand(new)'
           /\ run' = IF made = 0 THEN [run EXCEPT !.todo = Tail(@)]
                     ELSE [run EXCEPT !.pos = "record"]
    BY <1>3, CreateOf
  <2>3. \A d \in Ids' \ Ids: drafts'[d].by = runs
    BY <2>1, <2>2 DEF OfRun
  <2>4. ASSUME NEW n \in 1..MaxRuns, n # runs PROVE OfRun(n)' = OfRun(n)
    BY <2>1, <2>3, <2>4 DEF OfRun, Kept
  <2>5. /\ \A d \in unlogged': d \in unlogged \/ d \in Ids' \ Ids
        /\ unlogged \subseteq unlogged'
    <3>1. PICK made1 \in 0..1, lost \in 0..Attempts:
              /\ Len(drafts') = Len(drafts) + lost + made1
              /\ unlogged' = unlogged \cup {Len(drafts) + i: i \in 1..lost}
      BY <1>3, CreateKeeps
    <3>2. Len(drafts) \in Nat
      BY DEF TypeOK
    <3> QED
      BY <3>1, <3>2 DEF Ids
  <2>6. ASSUME NEW n \in 1..MaxRuns PROVE Range(logs[n]) \subseteq OfRun(n)' \ unlogged'
    <3>1. Range(logs[n]) \subseteq OfRun(n) \ unlogged
      BY DEF LogHolds
    <3>2. OfRun(n) \subseteq OfRun(n)' /\ OfRun(n) \subseteq Ids
      BY <2>1 DEF OfRun, Kept
    <3> QED
      BY <2>5, <3>1, <3>2
  <2>7. LogHolds'
    BY <2>1, <2>6 DEF LogHolds
  <2>8. ASSUME NEW n \in 1..runs, NEW d \in OfRun(n)' \ Range(logs[n]), d \notin unlogged'
        PROVE  n = runs /\ run'.pos = "record" /\ InHand(d)'
    <3>1. d \notin OfRun(n) \ unlogged
      BY <2>1, <2>8 DEF LogExact
    <3>2. n = runs
      BY <1>0, <2>4, <2>5, <2>8, <3>1
    <3>3. OfRun(n)' = OfRun(runs)'
      BY <2>1, <3>2 DEF OfRun
    <3>4. made = 1 /\ d = new
      BY <2>2, <2>8, <3>1, <3>2, <3>3
    <3> QED
      BY <2>1, <2>2, <3>2, <3>4 DEF Going
  <2> QED
    BY <1>0, <2>1, <2>6, <2>7, <2>8 DEF LogExact
<1>4. CASE RecordDraft
  <2> DEFINE h == CHOOSE d \in Ids: InHand(d)
  <2>1. /\ run.pos = "record" /\ run \in Going /\ runs \in 1..MaxRuns
        /\ UNCHANGED <<drafts, runs, unlogged>> /\ Ids' = Ids
    BY <1>0, <1>4 DEF RecordDraft, ghosts, TypeOK, NoRun, RunTold, Ids
  <2>2. h \in Ids \ (unlogged \cup Range(logs[runs])) /\ InHand(h)
    BY <2>1, HandLogged
  <2>3. logs' = [logs EXCEPT ![runs] = Append(logs[runs], h)]
    BY <1>4 DEF RecordDraft, Logged
  <2>4. logs \in [1..MaxRuns -> Seq(Ids)]
    BY DEF TypeOK
  <2>5. logs[runs] \in Seq(Ids)
    BY <2>1, <2>4
  <2> HIDE DEF h
  <2>6. Range(Append(logs[runs], h)) = Range(logs[runs]) \cup {h}
    BY <2>2, <2>5, AppendOf
  <2>7. /\ Range(logs'[runs]) = Range(logs[runs]) \cup {h}
        /\ \A n \in 1..MaxRuns: n # runs => logs'[n] = logs[n]
    BY <2>1, <2>3, <2>4, <2>6
  <2>8. h \in OfRun(runs) \ unlogged
    BY <2>2 DEF OfRun, InHand
  <2>9. \A n \in 1..MaxRuns: OfRun(n)' = OfRun(n)
    BY <2>1 DEF OfRun
  <2>10. LogHolds'
    BY <2>1, <2>7, <2>8, <2>9 DEF LogHolds
  <2>11. ASSUME NEW n \in 1..runs, NEW d \in OfRun(n) \ Range(logs'[n]) PROVE d \in unlogged
    <3>1. d \in Ids /\ d \notin Range(logs[n])
      BY <1>0, <2>7, <2>11 DEF OfRun
    <3>2. d \in unlogged \/ (n = runs /\ InHand(d))
      BY <2>11, <3>1 DEF LogExact
    <3>3. InHand(d) => d = h
      BY <2>2, <3>1, OneInHand
    <3> QED
      BY <2>7, <2>11, <3>2, <3>3
  <2> QED
    BY <1>0, <2>1, <2>9, <2>10, <2>11 DEF LogExact, LogHolds
<1>5. CASE EndRun
  <2>1. UNCHANGED <<drafts, logs, runs>> /\ Ids' = Ids /\ unlogged \subseteq unlogged'
    BY <1>5 DEF EndRun, Ids
  <2>2. \A n \in 1..MaxRuns: OfRun(n)' = OfRun(n)
    BY <2>1 DEF OfRun
  <2>3. ASSUME NEW d \in unlogged' PROVE d \in unlogged \/ (run.pos = "record" /\ d \in Ids /\ InHand(d))
    BY <1>5, <2>3 DEF EndRun
  <2>4. ASSUME NEW n \in 1..MaxRuns, NEW d \in Range(logs[n]) PROVE d \notin unlogged'
    <3>1. d \in OfRun(n) \ unlogged
      BY <2>4 DEF LogHolds
    <3>2. CASE run.pos = "record" /\ InHand(d)
      <4>1. n = runs
        BY <3>1, <3>2 DEF OfRun, InHand
      <4>2. PICK e \in Ids \ (unlogged \cup Range(logs[runs])): InHand(e)
        BY <3>2 DEF RunGoesOn
      <4>3. e = d
        BY <3>1, <3>2, <4>2, OneInHand DEF OfRun
      <4> QED
        BY <2>4, <4>1, <4>2, <4>3
    <3> QED
      BY <2>3, <3>1, <3>2
  <2>5. LogHolds'
    BY <2>1, <2>2, <2>4 DEF LogHolds
  <2>6. ASSUME NEW n \in 1..runs, NEW d \in OfRun(n) \ Range(logs[n]) PROVE d \in unlogged'
    <3>1. d \in unlogged \/ (run.pos = "record" /\ InHand(d))
      BY <2>6 DEF LogExact
    <3> QED
      BY <1>5, <2>6, <3>1 DEF EndRun, OfRun
  <2> QED
    BY <1>0, <2>1, <2>2, <2>5, <2>6 DEF LogExact, LogHolds
<1>6. CASE Kept /\ NoneWritten /\ UNCHANGED <<run, runs, logs, unlogged>>
  BY <1>6, LogsSame
<1> QED
  BY <1>1, <1>2, <1>3, <1>4, <1>5, <1>6, Aside


------------------------------------------------------------------------------
(* An undo *)

LEMMA LogsGrow ==
  ASSUME TypeOK, RunTold, RunGoesOn, [Next]_vars, NEW n \in 1..MaxRuns
  PROVE  Range(logs[n]) \subseteq Range(logs'[n])
<1>1. CASE RecordDraft
  <2>1. run.pos = "record" /\ runs \in 1..MaxRuns
    BY <1>1, BoundAssumption DEF RecordDraft, TypeOK, NoRun, RunTold
  <2> DEFINE h == CHOOSE d \in Ids: InHand(d)
  <2>2. h \in Ids /\ Logged(logs[runs]) = Append(logs[runs], h)
    BY <2>1, HandLogged DEF Logged
  <2> HIDE DEF h
  <2>3. logs[runs] \in Seq(Ids) /\ logs \in [1..MaxRuns -> Seq(Ids)]
    BY <2>1 DEF TypeOK
  <2>4. Range(Append(logs[runs], h)) = Range(logs[runs]) \cup {h}
    BY <2>2, <2>3, AppendOf
  <2> QED
    BY <1>1, <2>1, <2>2, <2>3, <2>4 DEF RecordDraft
<1>2. CASE UNCHANGED logs
  BY <1>2
<1> QED
  BY <1>1, <1>2, Aside DEF StartRun, ReadExclusions, Scan, Confirm, CreateDraft, EndRun

(* What was said of an undo stays so while others write, edit, send or      *)
(* delete drafts, if an edit of the one it moves is noticed.                *)
LEMMA UndoSame ==
  ASSUME TypeOK, UndoGoesOn, UndoExact, Kept,
         UNCHANGED <<undo, trashed, unlisted, undone>>, edited \subseteq edited',
         \A n \in 1..MaxRuns: Range(logs[n]) \subseteq Range(logs'[n]),
         \A d \in Ids': drafts'[d].state = "trash" => d \in Ids /\ drafts[d].state = "trash",
         undo.pos = "trash" => \/ drafts'[undo.message.draft].version = drafts[undo.message.draft].version
                               \/ undo.message.draft \in edited'
  PROVE  UndoGoesOn' /\ UndoExact'
<1>1. \A d \in Ids: drafts[d].state # "live" => drafts'[d] = drafts[d] /\ Message(d)' = Message(d)
  BY DEF Kept, Message
<1>2. ASSUME undo # NoRun PROVE UndoGoesOn'
  <2>1. undo \in Asking \cup Moving
    BY <1>2 DEF TypeOK
  <2>2. Range(undo.ids) \subseteq Ids
    BY <2>1, RangeIn DEF Asking, Moving
  <2>3. \E n \in 1..MaxRuns: Range(undo'.ids) \subseteq Range(logs'[n])
    BY <1>2 DEF UndoGoesOn
  <2>4. ~undo'.failed => \A d \in Range(undo'.ids) \ Range(undo'.todo):
                           drafts'[d].state # "live" \/ d \in edited'
    BY <1>1, <1>2, <2>2 DEF UndoGoesOn
  <2>5. undo.pos = "trash" =>
          undo.message = Message(undo.message.draft)' \/ undo.message.draft \in edited'
    BY <1>2 DEF UndoGoesOn, Message
  <2>6. undo.pos = "record" => undo.message.draft \in Ids
    BY <2>1 DEF Asking, Moving
  <2>7. undo.pos = "record" => /\ drafts'[undo.message.draft].state = "trash"
                               /\ undo.message = Message(undo.message.draft)'
    BY <1>1, <1>2, <2>6 DEF UndoGoesOn, Message
  <2> QED
    BY <1>2, <2>3, <2>4, <2>5, <2>7 DEF UndoGoesOn, Message
<1>3. UndoGoesOn'
  BY <1>2 DEF UndoGoesOn
<1>4. UndoOnlyLogged'
  BY DEF UndoExact, UndoOnlyLogged, OfRun, Kept
<1>5. UndoComplete'
  BY <1>1 DEF UndoExact, UndoComplete, TypeOK
<1>6. TrashListed'
  BY <1>1 DEF UndoExact, TrashListed
<1> QED
  BY <1>3, <1>4, <1>5, <1>6 DEF UndoExact

(* The undo itself, where it moves nothing *)
LEMMA UndoRests ==
  ASSUME UndoExact, UNCHANGED <<drafts, logs, undone, edited>>, trashed \subseteq trashed',
         unlisted \subseteq unlisted',
         undo.pos = "record" => undo.message \in trashed' \cup unlisted'
  PROVE  UndoExact'
<1>1. Ids' = Ids /\ \A d \in Ids: Message(d)' = Message(d)
  BY DEF Ids, Message
<1>2. UndoOnlyLogged'
  BY <1>1 DEF UndoExact, UndoOnlyLogged, OfRun
<1>3. UndoComplete'
  BY DEF UndoExact, UndoComplete
<1>4. TrashListed'
  BY <1>1 DEF UndoExact, TrashListed
<1> QED
  BY <1>2, <1>3, <1>4 DEF UndoExact

LEMMA GetGoesOn ==
  ASSUME TypeOK, UndoGoesOn, UndoExact, GetDraft
  PROVE  UndoGoesOn' /\ UndoExact'
<1>1. /\ undo \in Asking /\ undo # NoRun /\ undo.pos = "get"
      /\ undo.todo \in Seq(Ids) /\ undo.todo # <<>>
      /\ UNCHANGED <<drafts, logs, trashed, unlisted, undone, edited>>
  BY DEF GetDraft, TypeOK, NoRun, Moving, Asking, ghosts
<1> DEFINE d == Head(undo.todo)
<1>2. Range(undo.todo) = Range(Tail(undo.todo)) \cup {d}
  BY <1>1, TailOf
<1>3. \A e: Message(e)' = Message(e)
  BY <1>1 DEF Message
<1>4. UndoExact'
  BY <1>1, UndoRests
<1>5. CASE undo' = ToMove(d)
  <2>1. /\ undo'.pos = "trash" /\ undo'.ids = undo.ids /\ undo'.todo = undo.todo
        /\ undo'.failed = undo.failed /\ undo'.message = Message(d) /\ undo'.message.draft = d
    BY <1>5 DEF ToMove, Message
  <2> QED
    BY <1>1, <1>3, <1>4, <2>1 DEF UndoGoesOn
<1>6. CASE drafts[d].state # "live" /\ undo' = [undo EXCEPT !.todo = Tail(@)]
  <2>1. /\ undo'.pos = "get" /\ undo'.ids = undo.ids /\ undo'.todo = Tail(undo.todo)
        /\ undo'.failed = undo.failed
    BY <1>1, <1>6 DEF Asking
  <2> QED
    BY <1>1, <1>2, <1>4, <1>6, <2>1 DEF UndoGoesOn
<1>7. CASE undo' = [undo EXCEPT !.todo = Tail(@), !.failed = TRUE]
  <2>1. /\ undo'.pos = "get" /\ undo'.ids = undo.ids /\ undo'.todo = Tail(undo.todo)
        /\ undo'.failed = TRUE
    BY <1>1, <1>7 DEF Asking
  <2> QED
    BY <1>1, <1>2, <1>4, <2>1 DEF UndoGoesOn
<1> QED
  BY <1>5, <1>6, <1>7 DEF GetDraft

LEMMA TrashGoesOn ==
  ASSUME TypeOK, LogHolds, UndoGoesOn, UndoExact, TrashMessage
  PROVE  UndoGoesOn' /\ UndoExact'
<1>a. /\ undo \in Moving /\ undo # NoRun /\ undo.pos = "trash" /\ undo.todo \in Seq(Ids)
      /\ undo.todo # <<>> /\ undo.message.draft = Head(undo.todo)
      /\ undo.message \in [draft: Ids, version: Nat]
      /\ UNCHANGED <<logs, trashed, undone, edited>>
  BY DEF TrashMessage, TypeOK, NoRun, Moving, Asking, UndoGoesOn
<1>b. PICK d \in Ids, version \in Nat: undo.message = [draft |-> d, version |-> version]
  BY <1>a
<1>c. PICK m \in [draft: Ids, version: Nat]: m = undo.message
  BY <1>a
<1>1. /\ undo \in Moving /\ undo # NoRun /\ undo.pos = "trash" /\ undo.todo \in Seq(Ids)
      /\ undo.todo # <<>> /\ d = Head(undo.todo) /\ d \in Ids
      /\ m = undo.message /\ m = [draft |-> d, version |-> version] /\ m.version = version
      /\ undo.message.draft = d
      /\ UNCHANGED <<logs, trashed, undone, edited>>
  BY <1>a, <1>b, <1>c
<1>2. Range(undo.todo) = Range(Tail(undo.todo)) \cup {d}
  BY <1>1, TailOf
<1>3. /\ Kept /\ NoneWritten /\ Ids' = Ids
      /\ \A e \in Ids \ {d}: drafts'[e] = drafts[e] /\ Message(e)' = Message(e)
  BY <1>1, TrashKeeps DEF Message
<1>4. /\ \E n \in 1..MaxRuns: Range(undo.ids) \subseteq Range(logs[n])
      /\ Range(undo.todo) \subseteq Range(undo.ids) /\ Range(undo.ids) \subseteq Ids
      /\ ~undo.failed => \A e \in Range(undo.ids) \ Range(undo.todo):
                           drafts'[e].state # "live" \/ e \in edited
  <2>1. Range(undo.ids) \subseteq Ids
    BY <1>1, RangeIn DEF Moving
  <2> QED
    BY <1>1, <1>3, <2>1 DEF UndoGoesOn, Kept
<1>5. \A f: LET u == Next1(f)
            IN u.pos = "get" /\ u.ids = undo.ids /\ u.todo = Tail(undo.todo) /\ u.failed = f
  BY DEF Next1
<1>6. CASE /\ drafts[d].state = "live" /\ drafts[d].version = m.version
           /\ drafts' = [drafts EXCEPT ![d].state = "trash"]
           /\ \/ undo' = [undo EXCEPT !.pos = "record"] /\ UNCHANGED unlisted
              \/ undo' = TrashFailed /\ unlisted' = unlisted \cup {m}
  <2>1. drafts'[d].state = "trash" /\ drafts'[d].version = m.version
    <3>1. drafts[d] \in Draft /\ d \in DOMAIN drafts
      BY <1>1 DEF TypeOK, Ids
    <3> QED
      BY <1>6, <3>1 DEF Draft
  <2>2. Message(d)' = m
    BY <1>1, <2>1 DEF Message
  <2>3. UndoOnlyLogged'
    <3>1. PICK n \in 1..MaxRuns: d \in Range(logs[n]) /\ d \in OfRun(n)
      BY <1>2, <1>4 DEF LogHolds
    <3>2. d \in OfRun(n)' /\ d \in Range(logs'[n])
      BY <1>1, <1>3, <3>1 DEF OfRun, Kept
    <3>3. \A e \in Ids \ {d}: \A k \in 1..MaxRuns: e \in OfRun(k) => e \in OfRun(k)'
      BY <1>3 DEF OfRun
    <3> QED
      BY <1>1, <1>3, <3>2, <3>3 DEF UndoExact, UndoOnlyLogged
  <2>4. UndoComplete'
    BY <1>1, <1>3 DEF UndoExact, UndoComplete, TypeOK, Kept
  <2>5. \A e \in Ids \ {d}: drafts'[e].state = "trash" => Message(e)' \in trashed \cup unlisted
    BY <1>1, <1>3 DEF UndoExact, TrashListed
  <2>6. CASE undo' = [undo EXCEPT !.pos = "record"] /\ UNCHANGED unlisted
    <3>1. /\ undo'.pos = "record" /\ undo'.ids = undo.ids /\ undo'.todo = undo.todo
          /\ undo'.failed = undo.failed /\ undo'.message = m
      BY <1>1, <2>6 DEF Moving
    <3>2. TrashListed'
      BY <1>1, <1>3, <2>2, <2>5, <2>6, <3>1 DEF TrashListed
    <3>3. UndoGoesOn'
      BY <1>1, <1>4, <2>1, <2>2, <3>1 DEF UndoGoesOn
    <3> QED
      BY <2>3, <2>4, <3>2, <3>3 DEF UndoExact
  <2>7. CASE undo' = TrashFailed /\ unlisted' = unlisted \cup {m}
    <3>1. TrashListed'
      BY <1>1, <1>3, <1>5, <2>2, <2>5, <2>7 DEF TrashListed, TrashFailed
    <3>2. UndoGoesOn'
      BY <1>1, <1>2, <1>4, <1>5, <2>7 DEF UndoGoesOn, TrashFailed
    <3> QED
      BY <2>3, <2>4, <3>1, <3>2 DEF UndoExact
  <2> QED
    BY <1>6, <2>6, <2>7
<1>7. CASE /\ drafts[d].state # "live" \/ drafts[d].version # m.version
           /\ undo' = Next1(undo.failed) /\ UNCHANGED <<drafts, unlisted>>
  <2>1. drafts[d].state # "live" \/ d \in edited
    BY <1>1, <1>7 DEF UndoGoesOn, Message
  <2>2. ~undo.failed => \A e \in Range(undo.ids) \ Range(Tail(undo.todo)):
                          drafts[e].state # "live" \/ e \in edited
    BY <1>2, <1>4, <1>7, <2>1
  <2>3. UndoGoesOn'
    BY <1>1, <1>2, <1>4, <1>5, <1>7, <2>2 DEF UndoGoesOn
  <2> QED
    BY <1>1, <1>7, <2>3, UndoRests
<1>8. CASE undo' = TrashFailed /\ UNCHANGED <<drafts, unlisted>>
  <2>1. UndoGoesOn'
    BY <1>1, <1>2, <1>4, <1>5, <1>8 DEF UndoGoesOn, TrashFailed
  <2> QED
    BY <1>1, <1>8, <2>1, UndoRests
<1> QED
  BY <1>1, <1>6, <1>7, <1>8 DEF TrashMessage

LEMMA UndoStep ==
  TypeOK /\ RunTold /\ RunGoesOn /\ LogHolds /\ UndoGoesOn /\ UndoExact /\ [Next]_vars
    => UndoGoesOn' /\ UndoExact'
<1> SUFFICES ASSUME TypeOK, RunTold, RunGoesOn, LogHolds, UndoGoesOn, UndoExact, [Next]_vars
             PROVE  UndoGoesOn' /\ UndoExact'
  OBVIOUS
<1>0. \A n \in 1..MaxRuns: Range(logs[n]) \subseteq Range(logs'[n])
  BY LogsGrow
<1>1. ASSUME NEW d \in Ids, OwnerSends(d) \/ OwnerDeletes(d) \/ OwnerEdits(d)
      PROVE  UndoGoesOn' /\ UndoExact'
  <2>1. /\ Kept /\ Ids' = Ids /\ \A e \in Ids \ {d}: drafts'[e] = drafts[e]
        /\ drafts[d].state = "live" /\ drafts'[d].state # "trash"
        /\ drafts'[d].version = drafts[d].version \/ OwnerEdits(d)
        /\ UNCHANGED <<undo, trashed, unlisted, undone>>
    BY <1>1, OwnerKeeps
  <2>2. edited \subseteq edited'
    BY <1>1 DEF OwnerSends, OwnerDeletes, OwnerEdits
  <2>3. undo.pos = "trash" => undo.message.draft \in Ids
    BY DEF TypeOK, NoRun, Asking, Moving
  <2>4. undo.pos = "trash" => \/ drafts'[undo.message.draft].version = drafts[undo.message.draft].version
                              \/ undo.message.draft \in edited'
    BY <2>1, <2>3 DEF OwnerEdits
  <2> QED
    BY <1>0, <2>1, <2>2, <2>4, UndoSame
<1>2. ASSUME Kept, UNCHANGED <<undo, trashed, unlisted, undone, edited>>,
             \A d \in Ids: drafts'[d] = drafts[d],
             \A d \in Ids' \ Ids: drafts'[d].state = "live"
      PROVE  UndoGoesOn' /\ UndoExact'
  <2>1. undo.pos = "trash" => undo.message.draft \in Ids
    BY DEF TypeOK, NoRun, Asking, Moving
  <2> QED
    BY <1>0, <1>2, <2>1, UndoSame
<1>3. CASE OwnerWrites
  <2>1. \A d \in Ids' \ Ids: drafts'[d].state = "live"
    <3>1. PICK e: e = Written(ByHand, NoMessage)
      OBVIOUS
    <3>2. drafts' = Append(drafts, e) /\ e.state = "live"
      BY <1>3, <3>1 DEF OwnerWrites, Written
    <3> QED
      BY <3>2 DEF Ids, TypeOK
  <2> QED
    BY <1>2, <1>3, <2>1, WriteKeeps DEF OwnerWrites
<1>4. CASE CreateDraft
  <2>1. \A d \in Ids' \ Ids: drafts'[d].state = "live"
    BY <1>4, CreateKeeps DEF Written
  <2> QED
    BY <1>2, <1>4, <2>1, CreateKeeps DEF CreateDraft
<1>5. CASE StartRun \/ ReadExclusions \/ Scan \/ Confirm \/ RecordDraft \/ EndRun \/ UNCHANGED vars
  <2>1. UNCHANGED <<drafts, undo, trashed, unlisted, undone, edited>>
    BY <1>5 DEF StartRun, ReadExclusions, Scan, Confirm, RecordDraft, EndRun, ghosts, vars
  <2> QED
    BY <1>2, <2>1, SameKeeps
<1>6. ASSUME NEW n \in 1..MaxRuns, StartUndo(n) PROVE UndoGoesOn' /\ UndoExact'
  <2>1. /\ undo.pos = "none" /\ UNCHANGED <<drafts, logs, trashed, unlisted, undone, edited>>
        /\ undo'.pos = "get" /\ undo'.ids = logs[n] /\ undo'.todo = logs[n]
    BY <1>6 DEF StartUndo, NoRun
  <2> QED
    BY <2>1, UndoRests DEF UndoGoesOn
<1>7. CASE GetDraft
  BY <1>7, GetGoesOn
<1>8. CASE TrashMessage
  BY <1>8, TrashGoesOn
<1>9. CASE RecordTrashed
  <2>1. /\ undo \in Moving /\ undo # NoRun /\ undo.todo \in Seq(Ids) /\ undo.todo # <<>>
        /\ undo.pos = "record" /\ UNCHANGED <<drafts, logs, unlisted, undone, edited>>
        /\ trashed' = trashed \cup {undo.message}
    BY <1>9 DEF RecordTrashed, Listed, TypeOK, NoRun, Asking, Moving, UndoGoesOn, ghosts
  <2>2. Range(undo.todo) = Range(Tail(undo.todo)) \cup {undo.message.draft}
    BY <2>1, TailOf DEF UndoGoesOn
  <2>3. /\ undo'.pos = "get" /\ undo'.ids = undo.ids /\ undo'.todo = Tail(undo.todo)
        /\ undo'.failed = undo.failed
    BY <1>9 DEF RecordTrashed, Next1
  <2>4. UndoExact'
    BY <2>1, UndoRests
  <2>5. drafts[undo.message.draft].state # "live"
    BY <2>1 DEF UndoGoesOn
  <2>6. ~undo.failed => \A e \in Range(undo.ids) \ Range(Tail(undo.todo)):
                          drafts[e].state # "live" \/ e \in edited
    BY <2>1, <2>2, <2>5 DEF UndoGoesOn
  <2> QED
    BY <2>1, <2>2, <2>3, <2>4, <2>6 DEF UndoGoesOn
<1>10. CASE FinishUndo
  <2>1. /\ undo.pos = "get" /\ undo # NoRun /\ undo.todo = <<>> /\ undo' = NoRun /\ undo \in Asking
        /\ UNCHANGED <<drafts, logs, trashed, unlisted, edited>>
    BY <1>10 DEF FinishUndo, TypeOK, NoRun, Moving
  <2>2. Range(undo.todo) = {}
    BY <2>1 DEF Range
  <2>3. UndoComplete'
    BY <1>10, <2>1, <2>2 DEF FinishUndo, UndoGoesOn, UndoExact, UndoComplete
  <2>4. UndoOnlyLogged' /\ TrashListed'
    BY <2>1 DEF UndoExact, UndoOnlyLogged, TrashListed, OfRun, Ids, Message
  <2> QED
    BY <2>1, <2>3, <2>4 DEF UndoExact, UndoGoesOn
<1>11. CASE UndoStops
  <2>1. /\ undo' = NoRun /\ UNCHANGED <<drafts, logs, trashed, undone, edited>>
        /\ unlisted \subseteq unlisted'
        /\ undo.pos = "record" => undo.message \in unlisted'
    BY <1>11 DEF UndoStops
  <2> QED
    BY <2>1, UndoRests DEF UndoGoesOn
<1> QED
  BY <1>1, <1>3, <1>4, <1>5, <1>6, <1>7, <1>8, <1>9, <1>10, <1>11 DEF Next

------------------------------------------------------------------------------
IInv == Inv /\ LogExact /\ UndoExact

LEMMA InvInit == Init => IInv
<1> SUFFICES ASSUME Init PROVE IInv
  OBVIOUS
<1>1. TypeOK /\ MaxRuns \in Nat
  BY TypeInit, BoundAssumption
<1>2. Ids = {} /\ run.pos = "none" /\ undo = NoRun /\ runs = 0 /\ undone = {} /\ run = NoRun
  BY DEF Init, Ids, NoRun
<1>3. \A n \in 1..MaxRuns: Range(logs[n]) = {}
  BY DEF Init, Range
<1>4. OneDraftEach /\ OnlyTargets /\ OnlyApproved
  BY <1>2 DEF OneDraftEach, OnlyTargets, OnlyApproved, Writing
<1>5. RunTold /\ RunGoesOn
  BY <1>2 DEF RunTold, RunGoesOn
<1>6. LogHolds /\ LogExact
  BY <1>2, <1>3 DEF LogHolds, LogExact
<1>7. UndoGoesOn /\ UndoExact
  BY <1>2 DEF UndoGoesOn, UndoExact, UndoOnlyLogged, UndoComplete, TrashListed
<1> QED
  BY <1>1, <1>4, <1>5, <1>6, <1>7 DEF IInv, Inv

LEMMA InvStep == IInv /\ [Next]_vars => IInv'
<1> SUFFICES ASSUME IInv, [Next]_vars PROVE IInv'
  OBVIOUS
<1> USE DEF IInv, Inv
<1>1. TypeOK'
  BY TypeStep
<1>2. RunTold'
  BY ToldStep
<1>3. RunGoesOn' /\ OneDraftEach'
  BY RunStep
<1>4. LogHolds' /\ LogExact'
  BY LogStep
<1>5. UndoGoesOn' /\ UndoExact'
  BY UndoStep
<1>6. (OnlyTargets /\ OnlyApproved)'
  BY <1>1, <1>2, <1>3, RunWritesWell, PTL
<1> QED
  BY <1>1, <1>2, <1>3, <1>4, <1>5, <1>6

LEMMA InvAlways == Spec => []IInv
BY InvInit, InvStep, PTL DEF Spec

(* However the runs, the undos and the owner's own hand interleave, and     *)
(* whatever is lost or interrupted: a run writes once, and only to whom it  *)
(* may write; under a protected label only to whom an approval lists, but   *)
(* for a label typed in another case (campaign.py: main, create_drafts).    *)
THEOREM Invariant == Spec => []Inv
<1>1. IInv => Inv
  BY DEF IInv
<1> QED
  BY <1>1, InvAlways, PTL

(* A log never lacks a draft of its run but one whose answer was lost or    *)
(* whose id was still in hand, and never has another's (campaign.py:        *)
(* DraftLog.record).                                                        *)
THEOREM LogIsExact == Spec => []LogExact
<1>1. IInv => LogExact
  BY DEF IInv
<1> QED
  BY <1>1, InvAlways, PTL

(* An undo takes back only what the program logged, all of it if it says    *)
(* so, and its list leads to whatever it moved (campaign.py: trash_drafts). *)
THEOREM UndoIsExact == Spec => []UndoExact
<1>1. IInv => UndoExact
  BY DEF IInv
<1> QED
  BY <1>1, InvAlways, PTL

=============================================================================
