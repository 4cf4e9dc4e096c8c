--------------------------- MODULE OAuthBrokerProofs ---------------------------
(***************************************************************************)
(* The broker's properties for any number of invites, states and threads:  *)
(* Inv is inductive; that a state is in one place (Placed) is what makes   *)
(* every exchange and every pickup happen once, and that an invite closes  *)
(* before its sign-in is told (ToldCloses) what makes it single use.       *)
(***************************************************************************)
EXTENDS OAuthBroker, TLAPS

LEMMA TypeInit == Init => TypeOK
<1> USE NoStateAssumption, BoundAssumption
<1> QED
  BY DEF Init, TypeOK, NoWork, NotCollecting, Credentials

(* How a thread's record may change *)
LEMMA ThreadTyped ==
  ASSUME TypeOK, NEW t \in Threads, ~At(t, "idle")
  PROVE  /\ thread[t] \in Working
         /\ \A p \in {"check", "exchange", "put", "mark"}:
              Goto(t, p) => /\ thread' \in [Threads -> {NoWork} \cup Working]
                            /\ thread'[t].pc = p /\ thread'[t].state = thread[t].state
                            /\ thread'[t].invite = thread[t].invite
                            /\ \A u \in Threads \ {t}: thread'[u] = thread[u]
BY DEF TypeOK, At, Goto, NoWork, Working

LEMMA Happened ==
  ASSUME TypeOK, NEW k, Calm \/ Happens(k)
  PROVE  trouble' \in 0..MaxTroubles
BY BoundAssumption DEF TypeOK, Calm, Happens

LEMMA TypeStep == TypeOK /\ [Next]_vars => TypeOK'
<1> SUFFICES ASSUME TypeOK, [Next]_vars PROVE TypeOK'
  OBVIOUS
<1> USE NoStateAssumption, BoundAssumption DEF Credentials
<1>1. ASSUME NEW t \in Threads, NEW i \in Invites, Start(t, i) PROVE TypeOK'
  BY <1>1, Happened DEF Start, TypeOK, At, Working, NoWork, stores, operatorVars, book
<1>2. ASSUME NEW t \in Threads, NEW s \in States, Mint(t, s) PROVE TypeOK'
  <2>1. thread[t] \in Working
    BY <1>2, ThreadTyped DEF Mint, At
  <2> QED
    BY <1>2, <2>1, Happened DEF Mint, Answer, Unused, TypeOK, At, NoWork, Working, operatorVars, book
<1>3. ASSUME NEW t \in Threads, NEW s \in States, Callback(t, s) PROVE TypeOK'
  BY <1>3, Happened DEF Callback, Taken, TypeOK, At, NoWork, Working, operatorVars, book
<1>4. ASSUME NEW t \in Threads, Check(t) PROVE TypeOK'
  BY <1>4, Happened, ThreadTyped DEF Check, Answer, TypeOK, At, NoWork, stores, operatorVars
<1>5. ASSUME NEW t \in Threads, Exchange(t) PROVE TypeOK'
  BY <1>5, Happened, ThreadTyped DEF Exchange, Answer, TypeOK, At, NoWork, stores, operatorVars, book
<1>6. ASSUME NEW t \in Threads, PutPickup(t) PROVE TypeOK'
  BY <1>6, Happened, ThreadTyped DEF PutPickup, TypeOK, At, Working, operatorVars
<1>7. ASSUME NEW t \in Threads, Mark(t) PROVE TypeOK'
  BY <1>7, Happened, ThreadTyped DEF Mark, Marked, Answer, TypeOK, At, NoWork, Working, operatorVars
<1>8. ASSUME NEW i \in Invites, Collect(i) PROVE TypeOK'
  <2>1. pickups[i] \in States /\ pickups' = [pickups EXCEPT ![i] = NoState]
    BY <1>8 DEF Collect, Collected, TypeOK
  <2>2. operator' \in {NotCollecting} \cup Collecting
    BY <1>8, <2>1 DEF Collect, TypeOK, Collecting
  <2>3. lost' \subseteq States /\ fetched' \in [States -> Nat]
    BY <1>8, <2>1 DEF Collect, TypeOK
  <2>4. Calm \/ Happens("answer")
    BY <1>8 DEF Collect
  <2> QED
    BY <1>8, <2>1, <2>2, <2>3, <2>4, Happened DEF Collect, TypeOK
<1>9. CASE WriteFile
  BY <1>9, Happened DEF WriteFile, NoFile, TypeOK, NotCollecting, Collecting, stores
<1>10. CASE Connect
  BY <1>10, Happened DEF Connect, Removed, Kept, TypeOK, stores
<1>11. CASE RemoveByHand
  BY <1>11, Happened DEF RemoveByHand, Removed, TypeOK, stores, book
<1>12. CASE Expire
  <2>1. ASSUME NEW s \in States, pending' = [pending EXCEPT ![s] = NoState],
               UNCHANGED <<invites, pickups, lost>>
        PROVE  TypeOK'
    BY <1>12, <2>1, Happened DEF Expire, TypeOK, operatorVars
  <2>2. ASSUME NEW i \in Invites, invites' = [invites EXCEPT ![i] = "gone"],
               UNCHANGED <<pending, pickups, lost>>
        PROVE  TypeOK'
    BY <1>12, <2>2, Happened DEF Expire, TypeOK, operatorVars
  <2>3. ASSUME NEW i \in Invites, pickups[i] # NoState,
               pickups' = [pickups EXCEPT ![i] = NoState],
               lost' = lost \cup {pickups[i]}, UNCHANGED <<invites, pending>>
        PROVE  TypeOK'
    BY <1>12, <2>3, Happened DEF Expire, TypeOK, operatorVars
  <2> QED
    BY <1>12, <2>1, <2>2, <2>3 DEF Expire
<1>13. CASE Restart
  <2>1. lost' \subseteq States
    BY <1>13 DEF Restart, TypeOK
  <2>2. thread' \in [Threads -> {NoWork} \cup Working] /\ \A t \in Threads: thread'[t].pc = "idle"
    BY <1>13 DEF Restart, NoWork
  <2> QED
    BY <1>13, <2>1, <2>2, Happened DEF Restart, TypeOK, operatorVars
<1>14. CASE UNCHANGED vars
  BY <1>14 DEF vars, stores, operatorVars, book, TypeOK, At
<1> QED
  BY <1>1, <1>2, <1>3, <1>4, <1>5, <1>6, <1>7, <1>8, <1>9, <1>10, <1>11, <1>12, <1>13,
     <1>14 DEF Next, Broker, Operator

------------------------------------------------------------------------------
LEMMA InvInit == Init => Inv
<1> SUFFICES ASSUME Init PROVE Inv
  OBVIOUS
<1>1. TypeOK
  BY TypeInit
<1> QED
  BY <1>1 DEF Init, Inv, Once, Placed, PickedUpOnce, ToldCloses, Serves, At, NoWork

(* A request that is not idle anew is at the same state, one place on. *)
LEMMA PlacedStep == TypeOK /\ Placed /\ [Next]_vars => Placed'
<1> SUFFICES ASSUME TypeOK, Placed, [Next]_vars PROVE Placed'
  OBVIOUS
<1> USE NoStateAssumption DEF Credentials, Serves, At
<1>1. ASSUME NEW t \in Threads, NEW i \in Invites, Start(t, i) PROVE Placed'
  BY <1>1 DEF Start, Placed, TypeOK, stores, book
<1>2. ASSUME NEW t \in Threads, NEW s \in States, Mint(t, s) PROVE Placed'
  BY <1>2 DEF Mint, Answer, Unused, Placed, TypeOK, NoWork, book
<1>3. ASSUME NEW t \in Threads, NEW s \in States, Callback(t, s) PROVE Placed'
  BY <1>3 DEF Callback, Taken, Placed, TypeOK, book
<1>4. ASSUME NEW t \in Threads, Check(t) PROVE Placed'
  BY <1>4, ThreadTyped DEF Check, Answer, Placed, TypeOK, NoWork, stores
<1>5. ASSUME NEW t \in Threads, Exchange(t) PROVE Placed'
  BY <1>5, ThreadTyped DEF Exchange, Answer, Placed, TypeOK, NoWork, stores, book
<1>6. ASSUME NEW t \in Threads, PutPickup(t) PROVE Placed'
  BY <1>6, ThreadTyped DEF PutPickup, Placed, TypeOK
<1>7. ASSUME NEW t \in Threads, Mark(t) PROVE Placed'
  BY <1>7, ThreadTyped DEF Mark, Marked, Answer, Placed, TypeOK, NoWork
<1>8. CASE Operator
  BY <1>8 DEF Operator, Collect, WriteFile, Connect, RemoveByHand, Placed, stores, book
<1>9. CASE Expire
  BY <1>9 DEF Expire, Placed, TypeOK
<1>10. CASE Restart
  BY <1>10 DEF Restart, Placed, TypeOK, NoWork
<1>11. CASE UNCHANGED vars
  BY <1>11 DEF vars, stores, book, Placed
<1> QED
  BY <1>1, <1>2, <1>3, <1>4, <1>5, <1>6, <1>7, <1>8, <1>9, <1>10, <1>11 DEF Next, Broker

LEMMA OnceStep == TypeOK /\ Placed /\ PickedUpOnce /\ Once /\ [Next]_vars => Once'
<1> SUFFICES ASSUME TypeOK, Placed, PickedUpOnce, Once, [Next]_vars PROVE Once'
  OBVIOUS
<1>1. UNCHANGED <<exchanged, fetched>> => Once'
  BY DEF Once
<1>2. ASSUME NEW t \in Threads, Check(t) PROVE Once'
  BY <1>2 DEF Check, Once, TypeOK, Placed, Serves, At
<1>3. ASSUME NEW i \in Invites, Collect(i) PROVE Once'
  BY <1>3 DEF Collect, Once, TypeOK, PickedUpOnce, Credentials
<1> QED
  BY <1>1, <1>2, <1>3 DEF Next, Broker, Operator, Start, Mint, Callback, Exchange, PutPickup, Mark,
     WriteFile, Connect, RemoveByHand, Expire, Restart, vars, book

LEMMA PickedUpStep ==
  TypeOK /\ Placed /\ PickedUpOnce /\ [Next]_vars => PickedUpOnce'
<1> SUFFICES ASSUME TypeOK, Placed, PickedUpOnce, [Next]_vars PROVE PickedUpOnce'
  OBVIOUS
<1> USE NoStateAssumption DEF Credentials
<1>1. ASSUME UNCHANGED <<pickups, sealed, fetched, minted>> PROVE PickedUpOnce'
  BY <1>1 DEF PickedUpOnce
<1>2. ASSUME NEW t \in Threads, NEW s \in States, Mint(t, s) PROVE PickedUpOnce'
  BY <1>2 DEF Mint, Unused, PickedUpOnce, Placed, TypeOK, book
<1>3. ASSUME NEW t \in Threads, PutPickup(t) PROVE PickedUpOnce'
  BY <1>3 DEF PutPickup, PickedUpOnce, Placed, Serves, At, TypeOK
<1>4. ASSUME NEW i \in Invites, Collect(i) PROVE PickedUpOnce'
  BY <1>4 DEF Collect, Collected, PickedUpOnce, TypeOK
<1>5. CASE Expire
  BY <1>5 DEF Expire, PickedUpOnce, TypeOK
<1>6. CASE Restart
  BY <1>6 DEF Restart, PickedUpOnce, TypeOK
<1> QED
  BY <1>1, <1>2, <1>3, <1>4, <1>5, <1>6 DEF Next, Broker, Operator, Start, Callback, Taken, Check,
     Exchange, Mark, Marked, WriteFile, Connect, RemoveByHand, vars, stores, book

LEMMA ToldStep == TypeOK /\ Placed /\ ToldCloses /\ [Next]_vars => ToldCloses'
<1> SUFFICES ASSUME TypeOK, Placed, ToldCloses, [Next]_vars PROVE ToldCloses'
  OBVIOUS
<1> USE NoStateAssumption
<1>0. \A s \in told: minted[s] \in Invites
  BY DEF ToldCloses, Placed, TypeOK
<1>1. ASSUME UNCHANGED <<told, invites, minted, before>>, sealed \subseteq sealed'
      PROVE  ToldCloses'
  BY <1>1 DEF ToldCloses
<1>2. ASSUME NEW t \in Threads, NEW s \in States, Mint(t, s) PROVE ToldCloses'
  BY <1>2 DEF Mint, Unused, ToldCloses, Placed, TypeOK, book
<1>3. ASSUME NEW t \in Threads, Check(t) PROVE ToldCloses'
  BY <1>3 DEF Check, Open, ToldCloses, Placed, At, TypeOK, stores
<1>4. ASSUME NEW t \in Threads, Mark(t) PROVE ToldCloses'
  <2>1. thread[t].state \in States /\ thread[t].invite \in Invites
        /\ minted[thread[t].state] = thread[t].invite /\ thread[t].state \in sealed
    BY <1>4, ThreadTyped DEF Mark, Placed, Serves, At, TypeOK, Working
  <2> QED
    BY <1>4, <1>0, <2>1 DEF Mark, Marked, ToldCloses, TypeOK
<1>5. CASE Expire
  BY <1>5, <1>0 DEF Expire, ToldCloses, TypeOK
<1>6. CASE Restart
  BY <1>6 DEF Restart, ToldCloses, TypeOK
<1> QED
  BY <1>1, <1>2, <1>3, <1>4, <1>5, <1>6 DEF Next, Broker, Operator, Start, Callback, Exchange,
     PutPickup, Collect, WriteFile, Connect, RemoveByHand, vars, stores, book

(* A state and a pickup serve once, whatever callbacks and pickups are      *)
(* repeated or overlap, and through expiry and restarts (MemoryStore.take). *)
THEOREM Invariant == Spec => []Inv
<1>1. Inv /\ [Next]_vars => Inv'
  BY TypeStep, OnceStep, PlacedStep, PickedUpStep, ToldStep DEF Inv
<1> QED
  BY <1>1, InvInit, PTL DEF Spec

(* A second credential of an invite comes only from a callback that         *)
(* overlapped the first (oauth_broker.py: _callback).                       *)
THEOREM InviteIsSingleUse == Spec => []SingleUseInvite
<1>1. Inv => SingleUseInvite
  BY DEF Inv, Placed, ToldCloses, SingleUseInvite, TypeOK
<1> QED
  BY <1>1, Invariant, PTL

------------------------------------------------------------------------------
LEMMA KeptStep == TypeOK /\ CredentialKept /\ [Next]_vars => CredentialKept'
<1> SUFFICES ASSUME TypeOK, CredentialKept, [Next]_vars PROVE CredentialKept'
  OBVIOUS
<1> USE NoStateAssumption DEF Credentials
<1>1. ASSUME UNCHANGED <<sealed, lost, pickups, operatorVars>> PROVE CredentialKept'
  BY <1>1 DEF CredentialKept, operatorVars
<1>2. ASSUME NEW t \in Threads, PutPickup(t) PROVE CredentialKept'
  BY <1>2 DEF PutPickup, CredentialKept, TypeOK, At, Working, NoWork, operatorVars
<1>3. ASSUME NEW i \in Invites, Collect(i) PROVE CredentialKept'
  BY <1>3 DEF Collect, Collected, CredentialKept, TypeOK, NotCollecting
<1>4. CASE WriteFile
  BY <1>4 DEF WriteFile, NoFile, CredentialKept, TypeOK, stores
<1>5. CASE Connect
  BY <1>5 DEF Connect, Removed, Kept, CredentialKept, TypeOK, stores
<1>6. CASE RemoveByHand
  BY <1>6 DEF RemoveByHand, Removed, CredentialKept, TypeOK, stores, book
<1>7. CASE Expire
  BY <1>7 DEF Expire, CredentialKept, TypeOK, operatorVars
<1>8. CASE Restart
  BY <1>8 DEF Restart, CredentialKept, TypeOK, operatorVars
<1> QED
  BY <1>1, <1>2, <1>3, <1>4, <1>5, <1>6, <1>7, <1>8 DEF Next, Broker, Operator, Start, Mint,
     Callback, Check, Exchange, Mark, Marked, vars, stores, operatorVars, book

(* No credential disappears between its exchange and the token store,       *)
(* except by a named cause (broker_client.py, connect_account.py).          *)
THEOREM CredentialIsKept == Spec => []CredentialKept
<1>1. Init => CredentialKept
  BY DEF Init, CredentialKept
<1>2. Inv /\ CredentialKept /\ [Next]_vars => CredentialKept'
  BY KeptStep DEF Inv
<1> QED
  BY <1>1, <1>2, Invariant, PTL DEF Spec

(* The plaintext file is written only when there is none and removed only   *)
(* once it is connected (connect_account.py:207).                           *)
THEOREM FileIsKeptUntilConnected == Spec => FileUntilConnected
<1>1. [Next]_vars => [tokenFile' # tokenFile => tokenFile \in {NoState, connected'}]_vars
  BY DEF Next, Broker, Operator, Start, Mint, Callback, Check, Exchange, PutPickup, Mark, Collect,
     WriteFile, NoFile, Connect, Kept, RemoveByHand, Expire, Restart, vars, operatorVars
<1> QED
  BY <1>1, PTL DEF Spec, FileUntilConnected
==============================================================================
