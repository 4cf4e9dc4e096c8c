------------------------- MODULE HostedConnectionProofs -------------------------
(***************************************************************************)
(* The connection's properties for any number of accounts, sign-ins and    *)
(* threads, any cap on pending states and any disturbances: Inv is         *)
(* inductive, the connection implements ConnectionSlot, and a disconnect   *)
(* that was not broken off leaves a whole archive.                         *)
(***************************************************************************)
EXTENDS HostedConnection, FiniteSetTheorems, TLAPS

LEMMA FilesAre ==
  /\ Files = {"config", "approval", "journal", "catalog", "locks", "token"}
  /\ Archivable = {"config", "approval", "journal", "catalog"}
  /\ \A a \in Accounts: CanRestore(a) \subseteq {"config", "journal"}
BY DEF Files, Rank, Archivable, Destroyed, CanRestore, Restorable

------------------------------------------------------------------------------
(* Types *)

LEMMA TypeInit == Init => TypeOK
<1> SUFFICES ASSUME Init PROVE TypeOK
  OBVIOUS
<1> USE FilesAre DEF Init
<1>1. Pending = {}
  BY DEF Pending
<1>2. IsFiniteSet(Pending) /\ Cardinality(Pending) <= MaxPending
  BY <1>1, FS_EmptySet, PendingAssumption
<1>3. archive \in [Accounts -> SUBSET Archivable]
  OBVIOUS
<1>4. manifest \in [Accounts -> [written: BOOLEAN, archived: SUBSET Archivable]]
  BY DEF NoManifest
<1>5. leaving \in [pc: LeavingStep, account: Accounts \cup {Nobody},
                   todo: SUBSET Files, archived: SUBSET Archivable]
  BY DEF NotLeaving, LeavingStep
<1>6. callback \in [Callbacks -> [pc: CallbackStep, existing: BOOLEAN,
                                  account: Accounts \cup {Nobody}]]
  BY DEF NoCallback, CallbackStep
<1>7. active \in [Files -> Accounts \cup {Nobody}] /\ held \subseteq Archivable
  OBVIOUS
<1>8. /\ record \in Accounts \cup {Nobody}
      /\ lock \in Callbacks \cup {Free, Disconnecting}
      /\ signin \in [Signins -> {"unused", "pending", "expired", "taken"}]
      /\ exchanged \in [Signins -> Nat]
  OBVIOUS
<1>9. given \in BOOLEAN /\ broken \in BOOLEAN /\ stranded \in BOOLEAN
  OBVIOUS
<1>10. trouble \in 0..MaxTroubles /\ disconnects \in 0..MaxDisconnects
  BY BoundAssumption
<1> QED
  BY <1>2, <1>3, <1>4, <1>5, <1>6, <1>7, <1>8, <1>9, <1>10 DEF TypeOK

LEMMA Happened ==
  ASSUME TypeOK, NEW k, Calm \/ Happens(k)
  PROVE  trouble' \in 0..MaxTroubles
BY BoundAssumption DEF TypeOK, Calm, Happens

(* The states that are pending, and so are counted against the cap *)
LEMMA PendingSame == TypeOK /\ UNCHANGED signin => Pending' = Pending
BY DEF Pending

LEMMA PendingFewer ==
  ASSUME TypeOK, Pending' \subseteq Pending
  PROVE  IsFiniteSet(Pending') /\ Cardinality(Pending') <= MaxPending
<1>1. IsFiniteSet(Pending) /\ Cardinality(Pending) <= MaxPending
  BY DEF TypeOK
<1>2. IsFiniteSet(Pending') /\ Cardinality(Pending') <= Cardinality(Pending)
  BY <1>1, FS_Subset
<1>3. Cardinality(Pending) \in Nat /\ Cardinality(Pending') \in Nat
  BY <1>1, <1>2, FS_CardinalityType
<1> QED
  BY <1>1, <1>2, <1>3, PendingAssumption

(* How a thread's record may change *)
Thread == [pc: CallbackStep, existing: BOOLEAN, account: Accounts \cup {Nobody}]

LEMMA CallbackTyped ==
  ASSUME TypeOK, NEW c \in Callbacks
  PROVE  /\ callback[c] \in Thread
         /\ \A p \in CallbackStep:
              Goto(c, p) => callback' \in [Callbacks -> Thread]
         /\ Return(c) => callback' \in [Callbacks -> Thread]
<1> USE DEF Thread
<1>1. callback[c] \in Thread /\ callback \in [Callbacks -> Thread]
  BY DEF TypeOK
<1>2. ASSUME NEW p \in CallbackStep PROVE [callback[c] EXCEPT !.pc = p] \in Thread
  BY <1>1
<1>3. ASSUME NEW p \in CallbackStep, Goto(c, p) PROVE callback' \in [Callbacks -> Thread]
  BY <1>1, <1>3 DEF Goto
<1>4. NoCallback \in Thread
  BY DEF NoCallback, CallbackStep
<1>5. Return(c) => callback' \in [Callbacks -> Thread]
  BY <1>1, <1>4 DEF Return
<1> QED
  BY <1>1, <1>3, <1>5

LEMMA TypeStep == TypeOK /\ [Next]_vars => TypeOK'
<1> SUFFICES ASSUME TypeOK, [Next]_vars PROVE TypeOK'
  OBVIOUS
<1> USE BoundAssumption, FilesAre
<1> USE DEF Thread
<1>1. ASSUME NEW s \in Signins, BeginConnect(s) PROVE TypeOK'
  <2>1. Pending' = Pending \cup {s} /\ s \notin Pending
    BY <1>1 DEF BeginConnect, TypeOK, Pending
  <2>2. IsFiniteSet(Pending) /\ Cardinality(Pending) < MaxPending
    BY <1>1 DEF BeginConnect, TypeOK, Room
  <2>3. IsFiniteSet(Pending') /\ Cardinality(Pending') = Cardinality(Pending) + 1
    BY <2>1, <2>2, FS_AddElement
  <2>4. Cardinality(Pending') <= MaxPending
    BY <2>2, <2>3, FS_CardinalityType, PendingAssumption
  <2> QED
    BY <1>1, <2>3, <2>4, Happened DEF BeginConnect, TypeOK, files, book
<1>2. ASSUME NEW s \in Signins, StateExpires(s) PROVE TypeOK'
  <2>1. Pending' \subseteq Pending
    BY <1>2 DEF StateExpires, TypeOK, Pending
  <2> QED
    BY <1>2, <2>1, PendingFewer, Happened DEF StateExpires, TypeOK, files, book
<1>3. ASSUME NEW c \in Callbacks, NEW s \in Signins, TakeState(c, s) PROVE TypeOK'
  <2>1. Pending' \subseteq Pending
    BY <1>3 DEF TakeState, Taken, TypeOK, Pending
  <2>2. callback' \in [Callbacks -> Thread]
    BY <1>3, CallbackTyped DEF TakeState, TypeOK, CallbackStep
  <2> QED
    BY <1>3, <2>1, <2>2, PendingFewer, Happened DEF TakeState, Taken, TypeOK, files, book
<1>4. ASSUME NEW c \in Callbacks, Exchange(c) PROVE TypeOK'
  <2>1. callback' \in [Callbacks -> Thread]
    BY <1>4, CallbackTyped DEF Exchange, TypeOK, CallbackStep
  <2> QED
    BY <1>4, <2>1, PendingSame, Happened DEF Exchange, TypeOK, files, book
<1>5. ASSUME NEW c \in Callbacks, Prepare(c) PROVE TypeOK'
  <2>1. callback' \in [Callbacks -> Thread]
    BY <1>5, CallbackTyped DEF Prepare, TypeOK, CallbackStep
  <2> QED
    BY <1>5, <2>1, PendingSame, Happened DEF Prepare, TypeOK, files, book
<1>6. ASSUME NEW c \in Callbacks, StoreToken(c) PROVE TypeOK'
  <2>1. callback' \in [Callbacks -> Thread]
    BY <1>6, CallbackTyped DEF StoreToken, CallbackStep
  <2>2. active' \in [Files -> Accounts \cup {Nobody}]
    BY <1>6, CallbackTyped DEF StoreToken, TypeOK
  <2> QED
    BY <1>6, <2>1, <2>2, PendingSame, Happened DEF StoreToken, Unlock, TypeOK, book
<1>7. ASSUME NEW c \in Callbacks, Publish(c) PROVE TypeOK'
  <2>1. callback' \in [Callbacks -> Thread]
    BY <1>7, CallbackTyped DEF Publish, CallbackStep
  <2> QED
    BY <1>7, <2>1, CallbackTyped, PendingSame, Happened DEF Publish, Unlock, TypeOK
<1>8. ASSUME NEW c \in Callbacks, Cleanup(c) PROVE TypeOK'
  BY <1>8, CallbackTyped, PendingSame, Happened DEF Cleanup, ForgetToken, Unlock, TypeOK
<1>9. ASSUME NEW c \in Callbacks, FetchLabels(c) PROVE TypeOK'
  <2>1. callback' \in [Callbacks -> Thread]
    BY <1>9, CallbackTyped DEF FetchLabels, CallbackStep
  <2> QED
    BY <1>9, <2>1, PendingSame, Happened DEF FetchLabels, TypeOK, files, book
<1>10. ASSUME NEW c \in Callbacks, SaveCatalog(c) PROVE TypeOK'
  BY <1>10, CallbackTyped, PendingSame, Happened DEF SaveCatalog, TypeOK, book
<1>11. CASE SaveSettings
  BY <1>11, PendingSame, Happened DEF SaveSettings, TypeOK
<1>12. CASE Run
  BY <1>12, PendingSame, Happened DEF Run, TypeOK, book
<1>13. CASE Restore
  BY <1>13, PendingSame, Happened DEF Restore, TypeOK
<1>14. CASE AskDisconnect
  <2>1. leaving' \in [pc: LeavingStep, account: Accounts \cup {Nobody},
                      todo: SUBSET Files, archived: SUBSET Archivable]
    BY <1>14 DEF AskDisconnect, TypeOK, LeavingStep
  <2>2. disconnects' \in 0..MaxDisconnects
    BY <1>14 DEF AskDisconnect, TypeOK
  <2> QED
    BY <1>14, <2>1, <2>2, PendingSame, Happened DEF AskDisconnect, TypeOK, files, book
<1>15. CASE BeginDisconnect
  BY <1>15, PendingSame, Happened DEF BeginDisconnect, TypeOK, LeavingStep, NotLeaving, files, book
<1>16. CASE ClearArchive
  BY <1>16, PendingSame, Happened DEF ClearArchive, NoManifest, TypeOK, LeavingStep, book
<1>17. CASE Revoke
  BY <1>17, PendingSame, Happened DEF Revoke, Present, TypeOK, LeavingStep, files
<1>18. CASE DisposeEntry
  <2>1. PICK f \in leaving.todo:
          /\ active' = [active EXCEPT ![f] = Nobody]
          /\ archive' = [archive EXCEPT ![leaving.account] = @ \cup ({f} \cap Kept)]
          /\ leaving' = [leaving EXCEPT !.todo = @ \ {f},
                           !.archived = @ \cup ({f} \cap Kept)]
    BY <1>18 DEF DisposeEntry
  <2>2. {f} \cap Kept \subseteq Archivable
    BY DEF Kept
  <2> QED
    BY <1>18, <2>1, <2>2, PendingSame, Happened DEF DisposeEntry, TypeOK, book
<1>19. CASE WriteManifest
  BY <1>19, PendingSame, Happened DEF WriteManifest, TypeOK, LeavingStep, book
<1>20. CASE RemoveActive
  BY <1>20, PendingSame, Happened DEF RemoveActive, TypeOK, LeavingStep, book
<1>21. CASE UnlinkRecord
  BY <1>21, PendingSame, Happened DEF UnlinkRecord, Unlock, NotLeaving, LeavingStep, TypeOK
<1>22. CASE DisconnectFails
  BY <1>22, PendingSame, Happened DEF DisconnectFails, Unlock, NotLeaving, LeavingStep, TypeOK, files
<1>23. CASE Crash
  <2>1. Pending' \subseteq Pending
    BY <1>23 DEF Crash, TypeOK, Pending
  <2> QED
    BY <1>23, <2>1, PendingFewer, Happened DEF Crash, NotLeaving, NoCallback, CallbackStep, LeavingStep, TypeOK, files
<1>24. CASE UNCHANGED vars
  BY <1>24, PendingSame DEF vars, files, book, TypeOK
<1> QED
  BY <1>1, <1>2, <1>3, <1>4, <1>5, <1>6, <1>7, <1>8, <1>9, <1>10, <1>11, <1>12, <1>13,
     <1>14, <1>15, <1>16, <1>17, <1>18, <1>19, <1>20, <1>21, <1>22, <1>23, <1>24
  DEF Next, SigninStep, DisconnectStep

------------------------------------------------------------------------------
(* The transactions *)

(* What a step of one thread changes in the records of the threads *)
LEMMA Moved ==
  ASSUME TypeOK, NEW c \in Callbacks
  PROVE  /\ \A p \in CallbackStep:
              Goto(c, p) => /\ callback'[c].pc = p
                            /\ callback'[c].account = callback[c].account
                            /\ callback'[c].existing = callback[c].existing
                            /\ \A d \in Callbacks \ {c}: callback'[d] = callback[d]
         /\ Return(c) => /\ callback'[c].pc = "idle"
                         /\ \A d \in Callbacks \ {c}: callback'[d] = callback[d]
BY DEF TypeOK, Goto, Return, NoCallback

LEMMA LockStep == Inv /\ [Next]_vars => LockHeld'
<1> SUFFICES ASSUME TypeOK, LockHeld, [Next]_vars PROVE LockHeld'
  BY DEF Inv
<1> USE ThreadsAssumption DEF LockHeld, Free, Disconnecting, At
<1>1. ASSUME NEW s \in Signins, BeginConnect(s) PROVE LockHeld'
  BY <1>1 DEF BeginConnect
<1>2. ASSUME NEW s \in Signins, StateExpires(s) PROVE LockHeld'
  BY <1>2 DEF StateExpires
<1>3. ASSUME NEW c \in Callbacks, NEW s \in Signins, TakeState(c, s) PROVE LockHeld'
  BY <1>3, Moved DEF TakeState, CallbackStep
<1>4. ASSUME NEW c \in Callbacks, Exchange(c) PROVE LockHeld'
  BY <1>4, Moved DEF Exchange, TypeOK
<1>5. ASSUME NEW c \in Callbacks, Prepare(c) PROVE LockHeld'
  BY <1>5, Moved DEF Prepare, CanLock, TypeOK
<1>6. ASSUME NEW c \in Callbacks, StoreToken(c) PROVE LockHeld'
  BY <1>6, Moved DEF StoreToken, Unlock, CallbackStep
<1>7. ASSUME NEW c \in Callbacks, Publish(c) PROVE LockHeld'
  BY <1>7, Moved DEF Publish, Unlock, CallbackStep
<1>8. ASSUME NEW c \in Callbacks, Cleanup(c) PROVE LockHeld'
  BY <1>8, Moved DEF Cleanup, Unlock
<1>9. ASSUME NEW c \in Callbacks, FetchLabels(c) PROVE LockHeld'
  BY <1>9, Moved DEF FetchLabels, CallbackStep
<1>10. ASSUME NEW c \in Callbacks, SaveCatalog(c) PROVE LockHeld'
  BY <1>10, Moved DEF SaveCatalog
<1>11. CASE SaveSettings
  BY <1>11 DEF SaveSettings
<1>12. CASE Run
  BY <1>12 DEF Run
<1>13. CASE Restore
  BY <1>13 DEF Restore
<1>14. CASE AskDisconnect
  BY <1>14 DEF AskDisconnect, Leaves, TypeOK
<1>15. CASE BeginDisconnect
  BY <1>15 DEF BeginDisconnect, CanLock, Leaves, NotLeaving, LeavingStep, TypeOK
<1>16. CASE ClearArchive
  BY <1>16 DEF ClearArchive, Leaves, LeavingStep, TypeOK
<1>17. CASE Revoke
  BY <1>17 DEF Revoke, Leaves, LeavingStep, TypeOK
<1>18. CASE DisposeEntry
  BY <1>18 DEF DisposeEntry, Leaves, LeavingStep, TypeOK
<1>19. CASE WriteManifest
  BY <1>19 DEF WriteManifest, Leaves, LeavingStep, TypeOK
<1>20. CASE RemoveActive
  BY <1>20 DEF RemoveActive, Leaves, LeavingStep, TypeOK
<1>21. CASE UnlinkRecord
  BY <1>21 DEF UnlinkRecord, Unlock, Leaves, NotLeaving, LeavingStep
<1>22. CASE DisconnectFails
  BY <1>22 DEF DisconnectFails, Unlock, Leaves, NotLeaving, LeavingStep
<1>23. CASE Crash
  BY <1>23 DEF Crash, NotLeaving, NoCallback
<1>24. CASE UNCHANGED vars
  BY <1>24 DEF vars
<1> QED
  BY <1>1, <1>2, <1>3, <1>4, <1>5, <1>6, <1>7, <1>8, <1>9, <1>10, <1>11, <1>12, <1>13,
     <1>14, <1>15, <1>16, <1>17, <1>18, <1>19, <1>20, <1>21, <1>22, <1>23, <1>24
  DEF Next, SigninStep, DisconnectStep

(* A thread in the middle of its transaction is alone with the slot. *)
LEMMA Alone ==
  ASSUME TypeOK, LockHeld
  PROVE  /\ \A c \in Callbacks:
              callback[c].pc \in {"store", "publish", "cleanup"} =>
                /\ lock = c /\ lock # Free /\ lock # Disconnecting
                /\ leaving.pc \in {"idle", "lock"}
                /\ \A d \in Callbacks \ {c}:
                     callback[d].pc \notin {"store", "publish", "cleanup"}
         /\ leaving.pc \notin {"idle", "lock"} =>
              /\ lock = Disconnecting /\ lock # Free
              /\ \A c \in Callbacks:
                   callback[c].pc \notin {"store", "publish", "cleanup"}
         /\ lock = Free =>
              /\ leaving.pc \in {"idle", "lock"}
              /\ \A c \in Callbacks:
                   callback[c].pc \notin {"store", "publish", "cleanup"}
BY ThreadsAssumption DEF TypeOK, LockHeld, Free, Disconnecting, LeavingStep

LEMMA SigninHoldsStep == Inv /\ [Next]_vars => SigninHolds'
<1> SUFFICES ASSUME TypeOK, LockHeld, SigninHolds, DisconnectHolds, [Next]_vars
             PROVE  SigninHolds'
  BY DEF Inv
<1> USE FilesAre, NobodyAssumption, Alone DEF SigninHolds, At, CallbackStep
<1>1. ASSUME NEW s \in Signins, BeginConnect(s) PROVE SigninHolds'
  BY <1>1 DEF BeginConnect, files
<1>2. ASSUME NEW s \in Signins, StateExpires(s) PROVE SigninHolds'
  BY <1>2 DEF StateExpires, files
<1>3. ASSUME NEW c \in Callbacks, NEW s \in Signins, TakeState(c, s) PROVE SigninHolds'
  BY <1>3, Moved DEF TakeState, files
<1>4. ASSUME NEW c \in Callbacks, Exchange(c) PROVE SigninHolds'
  BY <1>4, Moved DEF Exchange, TypeOK, files
<1>5. ASSUME NEW c \in Callbacks, Prepare(c) PROVE SigninHolds'
  BY <1>5, Moved DEF Prepare, Fits, CanLock, TypeOK, files
<1>6. ASSUME NEW c \in Callbacks, StoreToken(c) PROVE SigninHolds'
  BY <1>6, Moved DEF StoreToken, TypeOK
<1>7. ASSUME NEW c \in Callbacks, Publish(c) PROVE SigninHolds'
  BY <1>7, Moved DEF Publish, TypeOK
<1>8. ASSUME NEW c \in Callbacks, Cleanup(c) PROVE SigninHolds'
  BY <1>8, Moved DEF Cleanup
<1>9. ASSUME NEW c \in Callbacks, FetchLabels(c) PROVE SigninHolds'
  BY <1>9, Moved DEF FetchLabels, files
<1>10. ASSUME NEW c \in Callbacks, SaveCatalog(c) PROVE SigninHolds'
  BY <1>10, Moved DEF SaveCatalog, TypeOK
<1>11. CASE SaveSettings
  BY <1>11 DEF SaveSettings
<1>12. CASE Run
  BY <1>12 DEF Run
<1>13. CASE Restore
  BY <1>13 DEF Restore
<1>14. CASE AskDisconnect
  BY <1>14 DEF AskDisconnect, files
<1>15. CASE BeginDisconnect
  BY <1>15 DEF BeginDisconnect, files
<1>16. CASE ClearArchive
  BY <1>16 DEF ClearArchive
<1>17. CASE Revoke
  BY <1>17 DEF Revoke, files
<1>18. CASE DisposeEntry
  BY <1>18 DEF DisposeEntry, Leaves
<1>19. CASE WriteManifest
  BY <1>19 DEF WriteManifest
<1>20. CASE RemoveActive
  BY <1>20 DEF RemoveActive, Leaves
<1>21. CASE UnlinkRecord
  BY <1>21 DEF UnlinkRecord, Leaves
<1>22. CASE DisconnectFails
  BY <1>22 DEF DisconnectFails, files
<1>23. CASE Crash
  BY <1>23 DEF Crash, NoCallback
<1>24. CASE UNCHANGED vars
  BY <1>24 DEF vars, files
<1> QED
  BY <1>1, <1>2, <1>3, <1>4, <1>5, <1>6, <1>7, <1>8, <1>9, <1>10, <1>11, <1>12, <1>13,
     <1>14, <1>15, <1>16, <1>17, <1>18, <1>19, <1>20, <1>21, <1>22, <1>23, <1>24
  DEF Next, SigninStep, DisconnectStep

LEMMA DisconnectHoldsStep == Inv /\ [Next]_vars => DisconnectHolds'
<1> SUFFICES ASSUME TypeOK, LockHeld, SigninHolds, DisconnectHolds, [Next]_vars
             PROVE  DisconnectHolds'
  BY DEF Inv
<1> USE FilesAre, NobodyAssumption, ThreadsAssumption, Alone
    DEF DisconnectHolds, Leaves, At, Free, Disconnecting, Present
<1>1. ASSUME NEW s \in Signins, BeginConnect(s) PROVE DisconnectHolds'
  BY <1>1 DEF BeginConnect, files, book
<1>2. ASSUME NEW s \in Signins, StateExpires(s) PROVE DisconnectHolds'
  BY <1>2 DEF StateExpires, files, book
<1>3. ASSUME NEW c \in Callbacks, NEW s \in Signins, TakeState(c, s) PROVE DisconnectHolds'
  BY <1>3 DEF TakeState, files, book
<1>4. ASSUME NEW c \in Callbacks, Exchange(c) PROVE DisconnectHolds'
  BY <1>4 DEF Exchange, files, book
<1>5. ASSUME NEW c \in Callbacks, Prepare(c) PROVE DisconnectHolds'
  BY <1>5 DEF Prepare, CanLock, TypeOK, LeavingStep, LockHeld, files, book
<1>6. ASSUME NEW c \in Callbacks, StoreToken(c) PROVE DisconnectHolds'
  BY <1>6 DEF StoreToken, Unlock, book
<1>7. ASSUME NEW c \in Callbacks, Publish(c) PROVE DisconnectHolds'
  BY <1>7 DEF Publish, Unlock
<1>8. ASSUME NEW c \in Callbacks, Cleanup(c) PROVE DisconnectHolds'
  BY <1>8 DEF Cleanup, Unlock
<1>9. ASSUME NEW c \in Callbacks, FetchLabels(c) PROVE DisconnectHolds'
  BY <1>9 DEF FetchLabels, files, book
<1>10. ASSUME NEW c \in Callbacks, SaveCatalog(c) PROVE DisconnectHolds'
  BY <1>10 DEF SaveCatalog, TypeOK, book
<1>11. CASE SaveSettings
  BY <1>11 DEF SaveSettings
<1>12. CASE Run
  BY <1>12 DEF Run, book
<1>13. CASE Restore
  BY <1>13 DEF Restore
<1>14. CASE AskDisconnect
  BY <1>14 DEF AskDisconnect, LockHeld, TypeOK, LeavingStep, files, book
<1>15. CASE BeginDisconnect
  <2>1. lock = Free /\ UNCHANGED <<record, active, archive, manifest, held, broken>>
    BY <1>15 DEF BeginDisconnect, CanLock, files, book
  <2>2. CASE Confirmed(leaving.account)
    <3>1. /\ leaving'.pc = "clear" /\ leaving'.archived = {}
          /\ leaving'.account = record /\ record \in Accounts
      BY <1>15, <2>1, <2>2 DEF BeginDisconnect, Confirmed, TypeOK
    <3> QED
      BY <2>1, <3>1
  <2>3. CASE ~Confirmed(leaving.account)
    BY <1>15, <2>1, <2>3 DEF BeginDisconnect, NotLeaving
  <2> QED
    BY <2>2, <2>3
<1>16. CASE ClearArchive
  BY <1>16 DEF ClearArchive, TypeOK, book
<1>17. CASE Revoke
  BY <1>17 DEF Revoke, TypeOK, files
<1>18. CASE DisposeEntry
  <2> PICK f \in leaving.todo:
          /\ active' = [active EXCEPT ![f] = Nobody]
          /\ archive' = [archive EXCEPT ![leaving.account] = @ \cup ({f} \cap Kept)]
          /\ leaving' = [leaving EXCEPT !.todo = @ \ {f},
                           !.archived = @ \cup ({f} \cap Kept)]
    BY <1>18 DEF DisposeEntry
  <2> DEFINE a == leaving.account
  <2>1. /\ a \in Accounts /\ record = a /\ leaving.pc = "entries" /\ lock = Disconnecting
        /\ leaving'.pc = "entries" /\ leaving'.account = a
        /\ UNCHANGED <<record, lock, held, broken>>
    BY <1>18 DEF DisposeEntry, TypeOK, book
  <2>2. Present' \ {"catalog"} \subseteq leaving'.todo
    BY <2>1 DEF TypeOK
  <2>3. /\ archive'[a] = archive[a] \cup ({f} \cap Kept)
        /\ leaving'.archived = leaving.archived \cup ({f} \cap Kept)
        /\ leaving'.todo = leaving.todo \ {f}
    BY <2>1 DEF TypeOK
  <2>4. ~broken => held \subseteq leaving'.todo \cup archive'[a]
    BY <2>1, <2>3 DEF Kept, TypeOK
  <2> QED
    BY <2>1, <2>2, <2>3, <2>4
<1>19. CASE WriteManifest
  BY <1>19 DEF WriteManifest, TypeOK, book
<1>20. CASE RemoveActive
  BY <1>20 DEF RemoveActive, TypeOK, book
<1>21. CASE UnlinkRecord
  BY <1>21 DEF UnlinkRecord, Unlock, NotLeaving
<1>22. CASE DisconnectFails
  BY <1>22 DEF DisconnectFails, Unlock, NotLeaving, files
<1>23. CASE Crash
  BY <1>23 DEF Crash, NotLeaving, files
<1>24. CASE UNCHANGED vars
  BY <1>24 DEF vars, files, book
<1> QED
  BY <1>1, <1>2, <1>3, <1>4, <1>5, <1>6, <1>7, <1>8, <1>9, <1>10, <1>11, <1>12, <1>13,
     <1>14, <1>15, <1>16, <1>17, <1>18, <1>19, <1>20, <1>21, <1>22, <1>23, <1>24
  DEF Next, SigninStep, DisconnectStep

------------------------------------------------------------------------------
(* What the slot keeps *)

SlotHolds == NoStrayCredential /\ OwnFiles /\ ConsentFresh

LEMMA SlotStep == Inv /\ [Next]_vars => SlotHolds'
<1> SUFFICES ASSUME TypeOK, LockHeld, SigninHolds, DisconnectHolds, SlotHolds,
                    [Next]_vars
             PROVE  SlotHolds'
  BY DEF Inv, SlotHolds
<1> USE FilesAre, NobodyAssumption, ThreadsAssumption, Alone
    DEF SlotHolds, NoStrayCredential, OwnFiles, ConsentFresh, At, Leaves, Present
<1>1. ASSUME NEW s \in Signins, BeginConnect(s) PROVE SlotHolds'
  BY <1>1 DEF BeginConnect, files, book
<1>2. ASSUME NEW s \in Signins, StateExpires(s) PROVE SlotHolds'
  BY <1>2 DEF StateExpires, files, book
<1>3. ASSUME NEW c \in Callbacks, NEW s \in Signins, TakeState(c, s) PROVE SlotHolds'
  BY <1>3, Moved DEF TakeState, CallbackStep, files, book
<1>4. ASSUME NEW c \in Callbacks, Exchange(c) PROVE SlotHolds'
  BY <1>4, Moved DEF Exchange, TypeOK, files, book
<1>5. ASSUME NEW c \in Callbacks, Prepare(c) PROVE SlotHolds'
  BY <1>5, Moved DEF Prepare, CanLock, TypeOK, files, book
<1>6. ASSUME NEW c \in Callbacks, StoreToken(c) PROVE SlotHolds'
  <2>1. CASE /\ active' = [active EXCEPT !["token"] = callback[c].account]
             /\ Goto(c, "publish")
    <3>1. callback'[c].pc = "publish"
      BY <2>1, Moved DEF CallbackStep
    <3>2. /\ active'["token"] = callback[c].account
          /\ \A f \in Files \ {"token"}: active'[f] = active[f]
          /\ UNCHANGED <<record, given, stranded>>
      BY <1>6, <2>1 DEF StoreToken, TypeOK, book
    <3> QED
      BY <1>6, <3>1, <3>2 DEF StoreToken, SigninHolds
  <2>2. CASE Return(c) /\ UNCHANGED active
    BY <1>6, <2>2, Moved DEF StoreToken, book
  <2> QED
    BY <1>6, <2>1, <2>2 DEF StoreToken
<1>7. ASSUME NEW c \in Callbacks, Publish(c) PROVE SlotHolds'
  <2>1. CASE record' = callback[c].account /\ UNCHANGED <<active, given>>
    BY <1>7, <2>1 DEF Publish, SigninHolds, CallbackStep, TypeOK
  <2>2. CASE /\ IF callback[c].existing THEN Return(c) ELSE Goto(c, "cleanup")
             /\ UNCHANGED <<record, stranded, active, given>>
    BY <1>7, <2>2, Moved DEF Publish, SigninHolds, CallbackStep
  <2> QED
    BY <1>7, <2>1, <2>2 DEF Publish
<1>8. ASSUME NEW c \in Callbacks, Cleanup(c) PROVE SlotHolds'
  BY <1>8, Moved DEF Cleanup, ForgetToken, TypeOK
<1>9. ASSUME NEW c \in Callbacks, FetchLabels(c) PROVE SlotHolds'
  BY <1>9, Moved DEF FetchLabels, CallbackStep, files, book
<1>10. ASSUME NEW c \in Callbacks, SaveCatalog(c) PROVE SlotHolds'
  BY <1>10, Moved DEF SaveCatalog, TypeOK, book
<1>11. CASE SaveSettings
  BY <1>11 DEF SaveSettings, TypeOK
<1>12. CASE Run
  BY <1>12 DEF Run, TypeOK, book
<1>13. CASE Restore
  <2>1. /\ record \in Accounts /\ CanRestore(record) \subseteq {"config", "journal"}
        /\ UNCHANGED <<record, callback, stranded>>
    BY <1>13 DEF Restore, TypeOK
  <2>2. \A f \in Files: active'[f] \in {active[f], record}
    BY <1>13 DEF Restore
  <2>3. active'["token"] = active["token"] /\ active'["approval"] = active["approval"]
    BY <1>13, <2>1 DEF Restore
  <2>4. given' = given
    BY <1>13, <2>1 DEF Restore, TypeOK
  <2> QED
    BY <2>1, <2>2, <2>3, <2>4
<1>14. CASE AskDisconnect
  BY <1>14 DEF AskDisconnect, files, book
<1>15. CASE BeginDisconnect
  BY <1>15 DEF BeginDisconnect, files, book
<1>16. CASE ClearArchive
  BY <1>16 DEF ClearArchive, book
<1>17. CASE Revoke
  BY <1>17 DEF Revoke, files
<1>18. CASE DisposeEntry
  BY <1>18 DEF DisposeEntry, DisconnectHolds, TypeOK, book
<1>19. CASE WriteManifest
  BY <1>19 DEF WriteManifest, book
<1>20. CASE RemoveActive
  BY <1>20 DEF RemoveActive, DisconnectHolds, TypeOK, book
<1>21. CASE UnlinkRecord
  BY <1>21 DEF UnlinkRecord, DisconnectHolds, TypeOK
<1>22. CASE DisconnectFails
  BY <1>22 DEF DisconnectFails, files
<1>23. CASE Crash
  BY <1>23 DEF Crash, SigninHolds, files
<1>24. CASE UNCHANGED vars
  BY <1>24 DEF vars, files, book
<1> QED
  BY <1>1, <1>2, <1>3, <1>4, <1>5, <1>6, <1>7, <1>8, <1>9, <1>10, <1>11, <1>12, <1>13,
     <1>14, <1>15, <1>16, <1>17, <1>18, <1>19, <1>20, <1>21, <1>22, <1>23, <1>24
  DEF Next, SigninStep, DisconnectStep

------------------------------------------------------------------------------
(* The properties *)

LEMMA InvInit == Init => Inv
<1> SUFFICES ASSUME Init PROVE Inv
  OBVIOUS
<1> USE ThreadsAssumption, FilesAre DEF Init
<1>1. LockHeld
  BY DEF LockHeld, NoCallback, NotLeaving, LeavingStep, Free, Disconnecting
<1>2. SigninHolds
  BY DEF SigninHolds, NoCallback, CallbackStep
<1>3. DisconnectHolds
  BY DEF DisconnectHolds, NotLeaving, Free, Disconnecting
<1>4. NoStrayCredential /\ OwnFiles /\ ConsentFresh
  BY DEF NoStrayCredential, OwnFiles, ConsentFresh
<1> QED
  BY <1>1, <1>2, <1>3, <1>4, TypeInit DEF Inv

(* A vacant slot has no credential, a held one only files and consent of    *)
(* its own connection, whatever sign-ins, disconnects, restores and crashes *)
(* do (connection.py, connection_archive.py, connect_account.py).           *)
THEOREM Invariant == Spec => []Inv
<1>1. Init => Inv
  BY InvInit
<1>2. Inv /\ [Next]_vars => Inv'
  <2> SUFFICES ASSUME Inv, [Next]_vars PROVE Inv'
    OBVIOUS
  <2>1. TypeOK'
    BY TypeStep DEF Inv
  <2> QED
    BY <2>1, LockStep, SigninHoldsStep, DisconnectHoldsStep, SlotStep DEF Inv, SlotHolds
<1> QED
  BY <1>1, <1>2, PTL DEF Spec

(* A state that can still be taken was never exchanged. *)
Unexchanged ==
  \A s \in Signins: /\ exchanged[s] <= 1
                    /\ signin[s] \in {"unused", "pending"} => exchanged[s] = 0

(* A callback delivered twice, or to two threads, is exchanged once         *)
(* (HostedControl._take_state pops the state under its lock).               *)
THEOREM StateIsSingleUse == Spec => []SingleUse
<1>1. Init => Unexchanged
  BY DEF Init, Unexchanged
<1>2. TypeOK /\ Unexchanged /\ [Next]_vars => Unexchanged'
  <2> SUFFICES ASSUME TypeOK, Unexchanged, [Next]_vars PROVE Unexchanged'
    OBVIOUS
  <2>1. ASSUME NEW s \in Signins, BeginConnect(s) \/ StateExpires(s) PROVE Unexchanged'
    BY <2>1 DEF BeginConnect, StateExpires, Unexchanged, TypeOK
  <2>2. ASSUME NEW c \in Callbacks, NEW s \in Signins, TakeState(c, s) PROVE Unexchanged'
    BY <2>2 DEF TakeState, Taken, Unexchanged, TypeOK
  <2>3. ASSUME NEW c \in Callbacks, SigninStep(c) PROVE Unexchanged'
    BY <2>3 DEF SigninStep, Exchange, Prepare, StoreToken, Publish, Cleanup, FetchLabels,
                SaveCatalog, Unexchanged
  <2>4. CASE SaveSettings \/ Run \/ Restore \/ AskDisconnect \/ DisconnectStep \/ DisconnectFails
    BY <2>4 DEF SaveSettings, Run, Restore, AskDisconnect, DisconnectStep, BeginDisconnect,
                ClearArchive, Revoke, DisposeEntry, WriteManifest, RemoveActive,
                UnlinkRecord, DisconnectFails, Unexchanged
  <2>5. CASE Crash
    BY <2>5 DEF Crash, Unexchanged, TypeOK
  <2>6. CASE UNCHANGED vars
    BY <2>6 DEF vars, Unexchanged
  <2> QED
    BY <2>1, <2>2, <2>3, <2>4, <2>5, <2>6 DEF Next
<1>3. Unexchanged => SingleUse
  BY DEF Unexchanged, SingleUse
<1>4. Inv => TypeOK
  BY DEF Inv
<1> QED
  BY <1>1, <1>2, <1>3, <1>4, Invariant, PTL DEF Spec

------------------------------------------------------------------------------
(* The steps seen from outside *)

(* Only these steps write the record, the token or the approval. *)
LEMMA Untouched ==
  ASSUME TypeOK, [Next]_vars
  PROVE  \/ \E c \in Callbacks: StoreToken(c) \/ Publish(c) \/ Cleanup(c)
         \/ SaveSettings \/ DisposeEntry \/ RemoveActive \/ UnlinkRecord
         \/ /\ UNCHANGED record
            /\ active'["token"] = active["token"] /\ active'["approval"] = active["approval"]
<1> DEFINE Same == /\ UNCHANGED record
                   /\ active'["token"] = active["token"]
                   /\ active'["approval"] = active["approval"]
<1>1. ASSUME NEW s \in Signins, BeginConnect(s) \/ StateExpires(s) PROVE Same
  BY <1>1 DEF BeginConnect, StateExpires, files
<1>2. ASSUME NEW c \in Callbacks, NEW s \in Signins, TakeState(c, s) PROVE Same
  BY <1>2 DEF TakeState, files
<1>3. ASSUME NEW c \in Callbacks, Exchange(c) \/ Prepare(c) \/ FetchLabels(c) PROVE Same
  BY <1>3 DEF Exchange, Prepare, FetchLabels, files
<1>4. ASSUME NEW c \in Callbacks, SaveCatalog(c) PROVE Same
  BY <1>4, FilesAre DEF SaveCatalog, TypeOK
<1>5. CASE Run
  BY <1>5, FilesAre DEF Run, TypeOK
<1>6. CASE Restore
  <2>1. CanRestore(record) \subseteq {"config", "journal"}
    BY <1>6, FilesAre DEF Restore, TypeOK
  <2> QED
    BY <1>6, <2>1, FilesAre DEF Restore
<1>7. CASE AskDisconnect \/ BeginDisconnect \/ ClearArchive \/ Revoke \/ WriteManifest
  BY <1>7 DEF AskDisconnect, BeginDisconnect, ClearArchive, Revoke, WriteManifest, files
<1>8. CASE DisconnectFails \/ Crash \/ UNCHANGED vars
  BY <1>8 DEF DisconnectFails, Crash, vars, files
<1> QED
  BY <1>1, <1>2, <1>3, <1>4, <1>5, <1>6, <1>7, <1>8 DEF Next, SigninStep, DisconnectStep

(* The slot is vacated by the last step of a disconnect. *)
LEMMA VacatedLast ==
  ASSUME Inv, [Next]_vars, record # Nobody, record' = Nobody
  PROVE  UnlinkRecord
<1>1. ASSUME NEW c \in Callbacks, StoreToken(c) \/ Publish(c) \/ Cleanup(c)
      PROVE  record' # Nobody
  BY <1>1, NobodyAssumption DEF Inv, SigninHolds, StoreToken, Publish, Cleanup, At, CallbackStep
<1>2. CASE SaveSettings \/ DisposeEntry \/ RemoveActive
  BY <1>2 DEF SaveSettings, DisposeEntry, RemoveActive
<1> QED
  BY <1>1, <1>2, Untouched DEF Inv

(* A disconnect that was not broken off before leaves an archive that holds *)
(* every file to be kept that was there when it listed the directory, and a *)
(* manifest that lists the archive (connection_archive.disconnect).         *)
THEOREM ArchiveIsWhole == Spec => ArchiveWhole
<1>1. Inv /\ [Next]_vars =>
        [record # Nobody /\ record' = Nobody /\ ~broken =>
           /\ held \subseteq archive'[record]
           /\ manifest'[record] = [written |-> TRUE, archived |-> archive'[record]]]_vars
  <2> SUFFICES ASSUME Inv, [Next]_vars, record # Nobody, record' = Nobody, ~broken
               PROVE  /\ held \subseteq archive'[record]
                      /\ manifest'[record] = [written |-> TRUE, archived |-> archive'[record]]
    OBVIOUS
  <2>1. UnlinkRecord
    BY VacatedLast
  <2>2. record = leaving.account /\ leaving.pc = "unlink"
    BY <2>1 DEF Inv, UnlinkRecord, Leaves, LockHeld, LeavingStep, DisconnectHolds
  <2> QED
    BY <2>1, <2>2 DEF Inv, UnlinkRecord, DisconnectHolds
<1> QED
  BY <1>1, Invariant, PTL DEF Spec, ArchiveWhole

LEMMA SlotInit == Init => Slot!Init
BY FilesAre DEF Init, Slot!Init

(* Every step is one of the abstract slot's, or leaves the slot alone. *)
LEMMA SlotNext == Inv /\ [Next]_vars => [Slot!Next]_(Slot!slot)
<1> SUFFICES ASSUME Inv, [Next]_vars PROVE Slot!Next \/ UNCHANGED Slot!slot
  OBVIOUS
<1> USE FilesAre, NobodyAssumption DEF Slot!slot, Inv, TypeOK
<1> USE Alone DEF At, Leaves
<1>1. ASSUME NEW c \in Callbacks, StoreToken(c) PROVE Slot!Next \/ UNCHANGED Slot!slot
  <2>1. UNCHANGED record /\ active'["approval"] = active["approval"]
        /\ active'["token"] \in {active["token"], callback[c].account}
    BY <1>1 DEF StoreToken
  <2>2. callback[c].account # Nobody
    BY <1>1 DEF StoreToken, SigninHolds, CallbackStep
  <2> QED
    BY <2>1, <2>2 DEF Slot!Next, Slot!Reauthorise
<1>2. ASSUME NEW c \in Callbacks, Publish(c) PROVE Slot!Next \/ UNCHANGED Slot!slot
  <2> DEFINE a == callback[c].account
  <2>1. /\ a \in Accounts /\ record \in {Nobody, a} /\ active["token"] = a
        /\ record' \in {record, a} /\ UNCHANGED active
    BY <1>2 DEF Publish, SigninHolds, CallbackStep
  <2>2. CASE record = Nobody /\ record' = a
    <3>1. active["approval"] = Nobody
      BY <2>2 DEF OwnFiles
    <3>2. Slot!Connect(a)
      BY <2>1, <2>2, <3>1 DEF Slot!Connect
    <3> QED
      BY <2>1, <3>2 DEF Slot!Next
  <2> QED
    BY <2>1, <2>2
<1>3. ASSUME NEW c \in Callbacks, Cleanup(c) PROVE Slot!Next \/ UNCHANGED Slot!slot
  BY <1>3 DEF Cleanup, SigninHolds, CallbackStep
<1>4. CASE SaveSettings
  BY <1>4 DEF SaveSettings, Slot!Next, Slot!Approve
<1>5. CASE DisposeEntry
  <2> PICK f \in leaving.todo:
          /\ \A g \in leaving.todo: Rank[f] <= Rank[g]
          /\ active' = [active EXCEPT ![f] = Nobody]
    BY <1>5 DEF DisposeEntry
  <2>1. /\ record # Nobody /\ UNCHANGED record
        /\ Present \ {"catalog"} \subseteq leaving.todo
    BY <1>5 DEF DisposeEntry, DisconnectHolds
  <2>2. CASE f = "approval"
    BY <2>1, <2>2 DEF Slot!Next, Slot!Withdraw
  <2>3. CASE f = "token"
    <3>1. "approval" \notin leaving.todo
      BY <2>3 DEF Rank
    <3>2. active["approval"] = Nobody
      BY <2>1, <3>1 DEF Present
    <3> QED
      BY <2>1, <2>3, <3>2 DEF Slot!Next, Slot!Forget
  <2>4. CASE f \notin {"approval", "token"}
    BY <2>1, <2>4
  <2> QED
    BY <2>2, <2>3, <2>4
<1>6. CASE RemoveActive
  BY <1>6 DEF RemoveActive, DisconnectHolds, Present
<1>7. CASE UnlinkRecord
  BY <1>7 DEF UnlinkRecord, DisconnectHolds, Present, Slot!Next, Slot!Vacate
<1> QED
  BY <1>1, <1>2, <1>3, <1>4, <1>5, <1>6, <1>7, Untouched

(* The slot changes hands only as ConnectionSlot allows: connected with a   *)
(* stored credential and without consent, vacated after consent and then    *)
(* the credential are gone.                                                 *)
THEOREM SlotImplemented == Spec => ImplementsSlot
<1>1. Init => Slot!Init
  BY SlotInit
<1>2. Inv /\ [Next]_vars => [Slot!Next]_(Slot!slot)
  BY SlotNext
<1> QED
  BY <1>1, <1>2, Invariant, PTL DEF Spec, ImplementsSlot, Slot!Spec
=============================================================================
