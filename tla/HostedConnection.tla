---------------------------- MODULE HostedConnection ----------------------------
(***************************************************************************)
(* The life of the one hosted connection: sign-in through the dashboard    *)
(* (hosted_dashboard.py, hosted_control.py), the transaction that stores   *)
(* the credential and publishes the record (connect_account.py,            *)
(* connection_tokens.py, connection.py), and the disconnect that archives  *)
(* or destroys each file (connection_archive.py).  Callbacks and the       *)
(* disconnect are threads of one process; the lifecycle lock orders their  *)
(* transactions, and the process may die between any two writes.           *)
(***************************************************************************)
EXTENDS Naturals, FiniteSets

CONSTANTS
  Accounts, Nobody,  \* Google accounts, and none
  Signins,           \* OAuth states the dashboard gives out
  Callbacks,         \* threads that serve /oauth/callback
  MaxPending,        \* hosted_control.MAX_PENDING_OAUTH_STATES
  Troubles,          \* the disturbances that happen
  MaxTroubles,       \* bound: disturbances in a behaviour
  MaxDisconnects     \* bound: disconnects the owner asks for

ASSUME NobodyAssumption == Nobody \notin Accounts
ASSUME ThreadsAssumption == {"free", "disconnecting"} \cap Callbacks = {}
ASSUME PendingAssumption == MaxPending \in Nat \ {0}
ASSUME BoundAssumption == MaxTroubles \in Nat /\ MaxDisconnects \in Nat
ASSUME TroublesAssumption ==
  Troubles \subseteq {"crash", "store", "publish", "cleanup", "archive"}

(* The files of the active directory, in the order of their names:          *)
(* account.json, ai-drafting-approval.json, daily-state.json,               *)
(* gmail-label-catalog.json, locks, token.enc.json.                         *)
Rank == [config |-> 1, approval |-> 2, journal |-> 3, catalog |-> 4, locks |-> 5,
         token |-> 6]
Files == DOMAIN Rank

Destroyed == {"token", "locks"}
Archivable == Files \ Destroyed
Restorable == {"config", "journal"}

VARIABLES
  record,        \* connection.json: the account connected
  active,        \* the active directory: the account each file is of
  archive,       \* per account: the files of its archive
  manifest,      \* per account: the files its archive-manifest.json lists
  signin,        \* HostedControl._states, and what became of each state
  callback,      \* the threads that complete a sign-in
  leaving,       \* the thread that disconnects
  lock,          \* who holds the lifecycle lock
  (* bookkeeping of the model *)
  exchanged,     \* how often each state was exchanged for a token
  given,         \* the approval was given in the present connection
  held,          \* files to be kept that disconnects of this connection listed
  broken,        \* a disconnect of this connection stopped halfway
  stranded,      \* a token may be left that no record was published for
  trouble,       \* disturbances so far
  disconnects    \* disconnects asked for so far

files == <<record, active, archive, manifest>>
book == <<given, held, broken, stranded>>
vars == <<files, signin, callback, leaving, lock, exchanged, book, trouble,
          disconnects>>

------------------------------------------------------------------------------
(* Types *)

Free == "free"
Disconnecting == "disconnecting"
Present == {f \in Files: active[f] # Nobody}

NoCallback == [pc |-> "idle", account |-> Nobody, existing |-> FALSE]
CallbackStep == {"idle", "exchange", "lock", "store", "publish", "cleanup",
                 "labels", "catalog"}
NotLeaving == [pc |-> "idle", account |-> Nobody, todo |-> {}, archived |-> {}]
LeavingStep == {"idle", "lock", "clear", "revoke", "entries", "remove", "unlink"}
NoManifest == [written |-> FALSE, archived |-> {}]
Pending == {s \in Signins: signin[s] = "pending"}

(* Every variable keeps its type, and no more states are pending than       *)
(* begin_connect allows.                                                    *)
TypeOK ==
  /\ record \in Accounts \cup {Nobody}
  /\ active \in [Files -> Accounts \cup {Nobody}]
  /\ archive \in [Accounts -> SUBSET Archivable]
  /\ manifest \in [Accounts -> [written: BOOLEAN, archived: SUBSET Archivable]]
  /\ signin \in [Signins -> {"unused", "pending", "expired", "taken"}]
  /\ IsFiniteSet(Pending) /\ Cardinality(Pending) <= MaxPending
  /\ callback \in [Callbacks -> [pc: CallbackStep, existing: BOOLEAN,
                                 account: Accounts \cup {Nobody}]]
  /\ leaving \in [pc: LeavingStep, account: Accounts \cup {Nobody},
                  todo: SUBSET Files, archived: SUBSET Archivable]
  /\ lock \in Callbacks \cup {Free, Disconnecting}
  /\ exchanged \in [Signins -> Nat]
  /\ held \subseteq Archivable
  /\ given \in BOOLEAN /\ broken \in BOOLEAN /\ stranded \in BOOLEAN
  /\ trouble \in 0..MaxTroubles /\ disconnects \in 0..MaxDisconnects

Init ==
  /\ record = Nobody /\ active = [f \in Files |-> Nobody]
  /\ archive = [a \in Accounts |-> {}]
  /\ manifest = [a \in Accounts |-> NoManifest]
  /\ signin = [s \in Signins |-> "unused"]
  /\ callback = [c \in Callbacks |-> NoCallback]
  /\ leaving = NotLeaving /\ lock = Free
  /\ exchanged = [s \in Signins |-> 0]
  /\ given = FALSE /\ held = {} /\ broken = FALSE /\ stranded = FALSE
  /\ trouble = 0 /\ disconnects = 0

Happens(kind) == /\ kind \in Troubles /\ trouble < MaxTroubles
                 /\ trouble' = trouble + 1
Calm == UNCHANGED trouble

At(c, pc) == callback[c].pc = pc
Goto(c, pc) == callback' = [callback EXCEPT ![c].pc = pc]
Return(c) == callback' = [callback EXCEPT ![c] = NoCallback]
Leaves(pc) == leaving.pc = pc

------------------------------------------------------------------------------
(* Sign-in *)

Room == Cardinality(Pending) < MaxPending

(* /login and /connect hand out a state; at the cap they report an error.   *)
BeginConnect(s) ==
  /\ signin[s] = "unused" /\ Room
  /\ signin' = [signin EXCEPT ![s] = "pending"]
  /\ Calm
  /\ UNCHANGED <<files, callback, leaving, lock, exchanged, book, disconnects>>

(* Ten minutes pass; the next begin_connect or callback prunes the state.   *)
StateExpires(s) ==
  /\ signin[s] = "pending"
  /\ signin' = [signin EXCEPT ![s] = "expired"]
  /\ Calm
  /\ UNCHANGED <<files, callback, leaving, lock, exchanged, book, disconnects>>

(* Mutant: the state is read, and removed only when the sign-in ends.       *)
TakenLater(s) == signin[s] = "pending" /\ UNCHANGED signin

(* The state is popped under its own lock, so one callback gets it.         *)
Taken(s) == signin[s] = "pending" /\ signin' = [signin EXCEPT ![s] = "taken"]

(* The browser arrives, perhaps twice, with the state it was given; consent *)
(* was refused, or there is a code to exchange.                             *)
TakeState(c, s) ==
  /\ At(c, "idle") /\ Taken(s)
  /\ \/ UNCHANGED <<callback, exchanged>>
     \/ /\ Goto(c, "exchange")
        /\ exchanged' = [exchanged EXCEPT ![s] = @ + 1]
  /\ Calm /\ UNCHANGED <<files, leaving, lock, book, disconnects>>

(* The code becomes a token and Gmail names the account it is of; or one of *)
(* the two calls fails and nothing is kept.                                 *)
Exchange(c) ==
  /\ At(c, "exchange")
  /\ \/ Return(c)
     \/ \E a \in Accounts:
          callback' = [callback EXCEPT ![c].pc = "lock", ![c].account = a]
  /\ Calm
  /\ UNCHANGED <<files, signin, leaving, lock, exchanged, book, disconnects>>

(* Mutant: any account may refresh the slot.                                *)
AnyAccountFits(a) == a \in Accounts

(* prepare_connection: the slot is vacant, or held by the same account.     *)
Fits(a) == record \in {Nobody, a}

(* Mutants: the lifecycle lock is not waited for, or not released.          *)
LockIgnored == lock \in Callbacks \cup {Free, Disconnecting}
StaysLocked == UNCHANGED lock

(* lifecycle_lock: flock of the state root.                                 *)
CanLock == lock = Free
Unlock == lock' = Free

(* connect_token_document takes the lifecycle lock and checks occupancy     *)
(* before it writes anything.                                               *)
Prepare(c) ==
  /\ At(c, "lock") /\ CanLock
  /\ IF Fits(callback[c].account)
       THEN /\ lock' = c
            /\ callback' = [callback EXCEPT ![c].pc = "store",
                                            ![c].existing = record # Nobody]
       ELSE Return(c) /\ UNCHANGED lock
  /\ Calm
  /\ UNCHANGED <<files, signin, leaving, exchanged, book, disconnects>>

(* The token is encrypted and written over whatever token is there; KMS or  *)
(* the disk may fail first.                                                 *)
StoreToken(c) ==
  /\ At(c, "store")
  /\ \/ /\ active' = [active EXCEPT !["token"] = callback[c].account]
        /\ Goto(c, "publish") /\ UNCHANGED lock /\ Calm
     \/ /\ Happens("store")
        /\ Return(c) /\ Unlock /\ UNCHANGED active
  /\ UNCHANGED <<record, archive, manifest, signin, leaving, exchanged, book,
                 disconnects>>

(* The record is replaced as a whole.  If that fails on a slot that was     *)
(* vacant, the token is removed again; a slot in use keeps the new token.   *)
Publish(c) ==
  /\ At(c, "publish")
  /\ \/ /\ record' = callback[c].account
        /\ Goto(c, "labels") /\ Unlock
        /\ stranded' = FALSE /\ Calm
     \/ /\ Happens("publish")
        /\ IF callback[c].existing THEN Return(c) /\ Unlock
                                   ELSE Goto(c, "cleanup") /\ UNCHANGED lock
        /\ UNCHANGED <<record, stranded>>
  /\ UNCHANGED <<active, archive, manifest, signin, leaving, exchanged, given,
                 held, broken, disconnects>>

(* forget_token *)
ForgetToken == active' = [active EXCEPT !["token"] = Nobody]

Cleanup(c) ==
  /\ At(c, "cleanup")
  /\ \/ ForgetToken /\ Calm /\ UNCHANGED stranded
     \/ Happens("cleanup") /\ stranded' = TRUE /\ UNCHANGED active
  /\ Return(c) /\ Unlock
  /\ UNCHANGED <<record, archive, manifest, signin, leaving, exchanged, given,
                 held, broken, disconnects>>

(* Without the lock: whoever is connected now gets the label names of the   *)
(* mailbox that signed in.                                                  *)
FetchLabels(c) ==
  /\ At(c, "labels")
  /\ \/ record # Nobody /\ Goto(c, "catalog")
     \/ Return(c)
  /\ Calm
  /\ UNCHANGED <<files, signin, leaving, lock, exchanged, book, disconnects>>

SaveCatalog(c) ==
  /\ At(c, "catalog")
  /\ active' = [active EXCEPT !["catalog"] = callback[c].account]
  /\ Return(c) /\ Calm
  /\ UNCHANGED <<record, archive, manifest, signin, leaving, lock, exchanged,
                 book, disconnects>>

------------------------------------------------------------------------------
(* The connected account at work *)

(* save_settings writes configuration and approval under the lock; its      *)
(* steps are those of HostedRunner.                                         *)
SaveSettings ==
  /\ lock = Free /\ record # Nobody
  /\ {active["config"], active["approval"]} # {record} \/ ~given
  /\ active' = [active EXCEPT !["config"] = record, !["approval"] = record]
  /\ given' = TRUE
  /\ Calm
  /\ UNCHANGED <<record, archive, manifest, signin, callback, leaving, lock,
                 exchanged, held, broken, stranded, disconnects>>

(* A scheduled run holds the lock, needs credential and settings, and       *)
(* leaves a journal and its lock files.                                     *)
Run ==
  /\ lock = Free /\ record # Nobody
  /\ {"token", "config", "approval"} \subseteq Present
  /\ active["journal"] # record
  /\ active' = [active EXCEPT !["journal"] = record, !["locks"] = record]
  /\ Calm
  /\ UNCHANGED <<record, archive, manifest, signin, callback, leaving, lock,
                 exchanged, book, disconnects>>

(* What an archive may give back to a returning account.                    *)
CanRestore(a) == manifest[a].archived \cap Restorable \cap archive[a]

(* restore refuses to overwrite; no caller of it is in the source, so it is *)
(* an act of the operator while no other operation is under way.            *)
Restore ==
  /\ lock = Free /\ record # Nobody
  /\ CanRestore(record) # {} /\ CanRestore(record) \cap Present = {}
  /\ active' = [f \in Files |-> IF f \in CanRestore(record) THEN record
                                                           ELSE active[f]]
  /\ given' = (given /\ "approval" \notin CanRestore(record))
  /\ Calm
  /\ UNCHANGED <<record, archive, manifest, signin, callback, leaving, lock,
                 exchanged, held, broken, stranded, disconnects>>

------------------------------------------------------------------------------
(* Disconnect *)

(* The owner types an address; /logout and /disconnect wait for the lock.   *)
AskDisconnect ==
  /\ Leaves("idle") /\ disconnects < MaxDisconnects /\ record # Nobody
  /\ disconnects' = disconnects + 1
  /\ \E typed \in Accounts:
       leaving' = [leaving EXCEPT !.pc = "lock", !.account = typed]
  /\ Calm
  /\ UNCHANGED <<files, signin, callback, lock, exchanged, book>>

(* Under the lock: is anybody connected, and is it the address typed?       *)
Confirmed(a) == record = a

BeginDisconnect ==
  /\ Leaves("lock") /\ CanLock
  /\ IF Confirmed(leaving.account)
       THEN /\ lock' = Disconnecting
            /\ leaving' = [leaving EXCEPT !.pc = "clear"]
       ELSE leaving' = NotLeaving /\ UNCHANGED lock
  /\ Calm
  /\ UNCHANGED <<files, signin, callback, exchanged, book, disconnects>>

(* The archive of an earlier connection of this account makes room.         *)
ClearArchive ==
  /\ Leaves("clear")
  /\ archive' = [archive EXCEPT ![leaving.account] = {}]
  /\ manifest' = [manifest EXCEPT ![leaving.account] = NoManifest]
  /\ leaving' = [leaving EXCEPT !.pc = "revoke"]
  /\ Calm
  /\ UNCHANGED <<record, active, signin, callback, lock, exchanged, book,
                 disconnects>>

(* Google is asked to revoke a token that can be read; neither its answer   *)
(* nor a token that cannot be decrypted changes what happens to the files.  *)
(* Then the directory is listed.                                            *)
Revoke ==
  /\ Leaves("revoke")
  /\ leaving' = [leaving EXCEPT !.pc = "entries", !.todo = Present]
  /\ held' = held \cup (Present \cap Archivable)
  /\ Calm
  /\ UNCHANGED <<files, signin, callback, lock, exchanged, given, broken, stranded,
                 disconnects>>

(* Mutant: only what can be restored is moved.                              *)
KeptRestorable == Restorable

(* DISPOSITION: everything but the token and the coordination files.        *)
Kept == Archivable

(* The next entry in the order of names is destroyed, or moved to the       *)
(* archive.                                                                 *)
DisposeEntry ==
  /\ Leaves("entries")
  /\ \E f \in leaving.todo:
       /\ \A g \in leaving.todo: Rank[f] <= Rank[g]
       /\ active' = [active EXCEPT ![f] = Nobody]
       /\ archive' = [archive EXCEPT ![leaving.account] = @ \cup ({f} \cap Kept)]
       /\ leaving' = [leaving EXCEPT !.todo = @ \ {f},
                        !.archived = @ \cup ({f} \cap Kept)]
  /\ Calm
  /\ UNCHANGED <<record, manifest, signin, callback, lock, exchanged, book,
                 disconnects>>

WriteManifest ==
  /\ Leaves("entries") /\ leaving.todo = {}
  /\ manifest' = [manifest EXCEPT ![leaving.account] =
                    [written |-> TRUE, archived |-> leaving.archived]]
  /\ leaving' = [leaving EXCEPT !.pc = "remove"]
  /\ Calm
  /\ UNCHANGED <<record, active, archive, signin, callback, lock, exchanged,
                 book, disconnects>>

(* What cannot be removed stays, silently: only the catalog can be there.   *)
RemoveActive ==
  /\ Leaves("remove")
  /\ \E swept \in SUBSET Present:
       active' = [f \in Files |-> IF f \in swept THEN Nobody ELSE active[f]]
  /\ leaving' = [leaving EXCEPT !.pc = "unlink"]
  /\ Calm
  /\ UNCHANGED <<record, archive, manifest, signin, callback, lock, exchanged,
                 book, disconnects>>

UnlinkRecord ==
  /\ Leaves("unlink")
  /\ record' = Nobody
  /\ leaving' = NotLeaving /\ Unlock
  /\ broken' = FALSE /\ given' = FALSE /\ held' = {}
  /\ Calm
  /\ UNCHANGED <<active, archive, manifest, signin, callback, exchanged,
                 stranded, disconnects>>

(* A move or the manifest fails on the disk; the lock is released and the   *)
(* owner is told to try again.                                              *)
DisconnectFails ==
  /\ Leaves("entries") /\ Happens("archive")
  /\ leaving' = NotLeaving /\ Unlock /\ broken' = TRUE
  /\ UNCHANGED <<files, signin, callback, exchanged, given, held, stranded,
                 disconnects>>

(* The dashboard dies: its threads, its pending states and its lock go.     *)
Crash ==
  /\ Happens("crash")
  /\ signin' = [s \in Signins |-> IF signin[s] = "pending" THEN "expired"
                                                           ELSE signin[s]]
  /\ callback' = [c \in Callbacks |-> NoCallback]
  /\ leaving' = NotLeaving /\ lock' = Free
  /\ broken' = (broken \/ leaving.pc \in {"entries", "remove", "unlink"})
  /\ stranded' = (stranded \/ \E c \in Callbacks: /\ callback[c].pc \in {"publish", "cleanup"}
                                                  /\ ~callback[c].existing)
  /\ UNCHANGED <<files, exchanged, given, held, disconnects>>

------------------------------------------------------------------------------
SigninStep(c) == \/ Exchange(c) \/ Prepare(c) \/ StoreToken(c) \/ Publish(c)
                 \/ Cleanup(c) \/ FetchLabels(c) \/ SaveCatalog(c)

DisconnectStep == \/ BeginDisconnect \/ ClearArchive \/ Revoke \/ DisposeEntry
                  \/ WriteManifest \/ RemoveActive \/ UnlinkRecord

Next ==
  \/ \E s \in Signins: BeginConnect(s) \/ StateExpires(s)
  \/ \E c \in Callbacks, s \in Signins: TakeState(c, s)
  \/ \E c \in Callbacks: SigninStep(c)
  \/ SaveSettings \/ Run \/ Restore
  \/ AskDisconnect \/ DisconnectStep \/ DisconnectFails \/ Crash

Spec == Init /\ [][Next]_vars

(* A thread that can go on does; nothing makes the owner or Google act.     *)
FairSpec == /\ Spec /\ WF_vars(DisconnectStep)
            /\ \A c \in Callbacks: WF_vars(SigninStep(c))

------------------------------------------------------------------------------
(* Properties *)

(* The connection implements the abstract slot.  Consent counts while the   *)
(* slot is held; the approval file is archived before the token goes.       *)
Slot == INSTANCE ConnectionSlot WITH
  holder <- record,
  credential <- record # Nobody /\ active["token"] # Nobody,
  consent <- record # Nobody /\ active["approval"] # Nobody

(* Refinement: whatever sign-ins, disconnects, restores and crashes do, the *)
(* slot changes hands only as ConnectionSlot allows.                        *)
ImplementsSlot == Slot!Spec

(* The lifecycle lock is held by the thread whose transaction is under way, *)
(* and by no other.                                                         *)
LockHeld ==
  /\ \A c \in Callbacks: callback[c].pc \in {"store", "publish", "cleanup"} <=> lock = c
  /\ leaving.pc \in LeavingStep \ {"idle", "lock"} <=> lock = Disconnecting

(* A sign-in that holds the lock still finds the slot as prepare_connection *)
(* found it; once the token is stored, it is the one of this sign-in.       *)
SigninHolds ==
  \A c \in Callbacks: LET going == callback[c] IN
    /\ going.pc \in CallbackStep \ {"idle", "exchange"} => going.account \in Accounts
    /\ going.pc \in {"store", "publish", "cleanup"} =>
         /\ record \in {Nobody, going.account}
         /\ going.existing <=> record # Nobody
    /\ going.pc \in {"publish", "cleanup"} => active["token"] = going.account
    /\ going.pc = "cleanup" => record = Nobody

(* While the entries are disposed of, what is left of them is still to do,  *)
(* the archive holds what was moved, and afterwards nothing but the catalog *)
(* (written without the lock) is left and the manifest lists the archive.   *)
(* What an earlier attempt moved is in the archive unless it broke off.     *)
DisconnectHolds ==
  LET a == leaving.account IN
  /\ leaving.pc # "idle" => a \in Accounts
  /\ lock = Disconnecting => record = a
  /\ leaving.pc \notin {"entries", "remove", "unlink"} =>
       leaving.archived = {} /\ (~broken => held = {})
  /\ leaving.pc = "revoke" => archive[a] = {}
  /\ leaving.pc = "entries" =>
       /\ Present \ {"catalog"} \subseteq leaving.todo
       /\ archive[a] = leaving.archived
       /\ ~broken => held \subseteq leaving.todo \cup archive[a]
  /\ leaving.pc \in {"remove", "unlink"} =>
       /\ Present \subseteq {"catalog"}
       /\ manifest[a] = [written |-> TRUE, archived |-> archive[a]]
       /\ ~broken => held \subseteq archive[a]

(* A vacant slot keeps no credential, unless a sign-in was interrupted      *)
(* between storing and publishing or its cleanup could not be confirmed.    *)
NoStrayCredential ==
  record = Nobody /\ ~stranded /\ active["token"] # Nobody =>
    \E c \in Callbacks: callback[c].pc \in {"publish", "cleanup"}

(* The credential, the approval, the settings and the journal of the slot   *)
(* are of the account that holds it (connection_tokens.py binds the token   *)
(* to the slot, not to the account); a vacant slot has none of the latter.  *)
OwnFiles ==
  /\ record # Nobody => active["token"] \in {record, Nobody}
  /\ \A f \in {"approval", "config", "journal"}: active[f] \in {record, Nobody}

(* One state is exchanged once, however often its callback is delivered.    *)
SingleUse == \A s \in Signins: exchanged[s] <= 1

(* No consent outlives the connection it was given in: neither a restore    *)
(* nor files left behind put an earlier approval in force                   *)
(* (connection_archive.py:11-18).                                           *)
ConsentFresh == active["approval"] # Nobody => given

(* A vacant slot has no credential, a held one only files and consent of    *)
(* this connection, at every step of every transaction; the rest is what    *)
(* makes that inductive.                                                    *)
Inv ==
  /\ TypeOK /\ LockHeld /\ SigninHolds /\ DisconnectHolds
  /\ NoStrayCredential /\ OwnFiles /\ ConsentFresh

(* When a disconnect that was not interrupted before vacates the slot, its  *)
(* archive holds, and its manifest lists, everything that was to be kept.   *)
ArchiveWhole ==
  [][record # Nobody /\ record' = Nobody /\ ~broken =>
       /\ held \subseteq archive'[record]
       /\ manifest'[record] = [written |-> TRUE, archived |-> archive'[record]]]_vars

(* A disconnect of the connected account that is asked for comes to an end, *)
(* and so does every sign-in, whatever the other does with the lock.        *)
ThreadsEnd ==
  /\ leaving.pc # "idle" ~> leaving.pc = "idle"
  /\ \A c \in Callbacks: callback[c].pc # "idle" ~> callback[c].pc = "idle"
=============================================================================
