------------------------------ MODULE OAuthBroker ------------------------------
(***************************************************************************)
(* The OAuth broker (oauth_broker.py), served by several threads of one    *)
(* process over three stores in memory, and the operator's two commands    *)
(* (broker_client.py collect, connect_account.py), which carry a collected *)
(* credential to the token store.  A credential is named by the state that *)
(* was exchanged for it; what is sealed in it is not modelled.             *)
(***************************************************************************)
EXTENDS Naturals, FiniteSets

CONSTANTS
  Invites,       \* BROKER_INVITE_IDS: what every start of the process seeds
  States,        \* OAuth states the broker mints
  NoState,
  Threads,       \* threads of the web worker
  Troubles,      \* the disturbances that happen
  MaxTroubles    \* bound: disturbances in a behaviour

ASSUME NoStateAssumption == NoState \notin States \cup Invites
ASSUME BoundAssumption == MaxTroubles \in Nat
ASSUME TroublesAssumption ==
  Troubles \subseteq {"restart", "expire", "answer", "refused", "unlink"}

VARIABLES
  invites,       \* each invite: "open", "used" or "gone"
  pending,       \* each state: the invite it was minted for, while it is stored
  pickups,       \* per invite: the sealed credential to be collected
  minted,        \* each state handed out: the invite it was minted for
  thread,        \* what each thread of the worker is doing
  operator,      \* the collect command
  tokenFile,     \* the file --token-out of collect, and --token of connect
  connected,     \* the credential in the token store
  (* bookkeeping of the model *)
  exchanged,     \* how often each state reached the exchange
  fetched,       \* how often each credential was answered to a pickup
  told,          \* sign-ins reported as complete, in this life of the process
  before,        \* per state: what had been told when it passed its check
  sealed,        \* credentials put into pickups
  lost,          \* credentials that a named cause took away
  trouble        \* disturbances so far

stores == <<invites, pending, pickups>>
operatorVars == <<operator, tokenFile, connected>>
book == <<exchanged, fetched, told, before, sealed, lost>>
vars == <<stores, minted, thread, operatorVars, book, trouble>>

------------------------------------------------------------------------------
(* Types *)

Credentials == States \cup {NoState}

(* What a thread does: nothing, or a request for an invite and a state.     *)
NoWork == [pc |-> "idle"]
Working == [pc: {"start", "check", "exchange", "put", "mark"}, invite: Invites,
            state: Credentials]

NotCollecting == [pc |-> "idle"]
Collecting == [pc: {"write"}, credential: States]

(* Every variable keeps its type; a stored state, and a callback, are of    *)
(* the invite the state was minted for.                                     *)
TypeOK ==
  /\ invites \in [Invites -> {"open", "used", "gone"}]
  /\ pending \in [States -> Invites \cup {NoState}]
  /\ \A s \in States: pending[s] \in {NoState, minted[s]}
  /\ pickups \in [Invites -> Credentials]
  /\ minted \in [States -> Invites \cup {NoState}]
  /\ thread \in [Threads -> {NoWork} \cup Working]
  /\ \A t \in Threads: thread[t].pc \notin {"idle", "start"} =>
       thread[t].state \in States /\ minted[thread[t].state] = thread[t].invite
  /\ operator \in {NotCollecting} \cup Collecting
  /\ tokenFile \in Credentials /\ connected \in Credentials
  /\ exchanged \in [States -> Nat] /\ fetched \in [States -> Nat]
  /\ before \in [States -> SUBSET States]
  /\ (told \cup sealed \cup lost) \subseteq States
  /\ trouble \in 0..MaxTroubles

Init ==
  /\ invites = [i \in Invites |-> "open"]
  /\ pending = [s \in States |-> NoState]
  /\ pickups = [i \in Invites |-> NoState]
  /\ minted = [s \in States |-> NoState]
  /\ thread = [t \in Threads |-> NoWork]
  /\ operator = NotCollecting /\ tokenFile = NoState /\ connected = NoState
  /\ exchanged = [s \in States |-> 0] /\ fetched = [s \in States |-> 0]
  /\ told = {} /\ sealed = {} /\ lost = {}
  /\ before = [s \in States |-> {}]
  /\ trouble = 0

Happens(kind) == /\ kind \in Troubles /\ trouble < MaxTroubles
                 /\ trouble' = trouble + 1
Calm == UNCHANGED trouble

At(t, pc) == thread[t].pc = pc
Goto(t, pc) == thread' = [thread EXCEPT ![t].pc = pc]
Answer(t) == thread' = [thread EXCEPT ![t] = NoWork]

------------------------------------------------------------------------------
(* /start *)

(* Mutant: an invite opens sign-ins as long as it is stored.                *)
StillStored(i) == invites[i] # "gone"

Open(i) == invites[i] = "open"

(* The invite is looked at; an unknown, used or expired one gets the same   *)
(* 404.                                                                     *)
Start(t, i) ==
  /\ At(t, "idle") /\ Open(i)
  /\ thread' = [thread EXCEPT ![t] =
                  [pc |-> "start", invite |-> i, state |-> NoState]]
  /\ Calm /\ UNCHANGED <<stores, minted, operatorVars, book>>

(* secrets.token_urlsafe                                                    *)
Unused(s) == minted[s] = NoState

(* The state is stored and the browser redirected to Google.                *)
Mint(t, s) ==
  /\ At(t, "start") /\ Unused(s)
  /\ minted' = [minted EXCEPT ![s] = thread[t].invite]
  /\ pending' = [pending EXCEPT ![s] = thread[t].invite]
  /\ Answer(t)
  /\ Calm /\ UNCHANGED <<invites, pickups, operatorVars, book>>

------------------------------------------------------------------------------
(* /callback *)

(* Mutant: the state is looked up and left in the store.                    *)
Looked(s) == pending[s] # NoState /\ UNCHANGED pending

(* MemoryStore.take *)
Taken(s) == pending[s] # NoState /\ pending' = [pending EXCEPT ![s] = NoState]

(* Google sends the browser back, perhaps twice; without a code, or with a  *)
(* state that is not stored, it gets an error page.                         *)
Callback(t, s) ==
  /\ At(t, "idle") /\ Taken(s)
  /\ \/ UNCHANGED thread
     \/ thread' = [thread EXCEPT ![t] =
                     [pc |-> "check", invite |-> pending[s], state |-> s]]
  /\ Calm /\ UNCHANGED <<invites, pickups, minted, operatorVars, book>>

(* The invite of the state is looked at again.                              *)
Check(t) ==
  /\ At(t, "check")
  /\ IF Open(thread[t].invite)
       THEN /\ Goto(t, "exchange")
            /\ before' = [before EXCEPT ![thread[t].state] = told]
            /\ exchanged' = [exchanged EXCEPT ![thread[t].state] = @ + 1]
       ELSE Answer(t) /\ UNCHANGED <<before, exchanged>>
  /\ Calm
  /\ UNCHANGED <<stores, minted, operatorVars, fetched, told, sealed, lost>>

(* The code becomes a refresh token and is sealed; or the exchange fails,   *)
(* or returns nothing durable.                                              *)
Exchange(t) ==
  /\ At(t, "exchange")
  /\ Goto(t, "put") \/ Answer(t)
  /\ Calm /\ UNCHANGED <<stores, minted, operatorVars, book>>

(* The sealed credential replaces whatever waits under the invite.          *)
PutPickup(t) ==
  /\ At(t, "put")
  /\ LET i == thread[t].invite
         s == thread[t].state
     IN /\ pickups' = [pickups EXCEPT ![i] = s]
        /\ sealed' = sealed \cup {s}
        /\ lost' = lost \cup ({pickups[i]} \ {NoState})
  /\ Goto(t, "mark")
  /\ Calm
  /\ UNCHANGED <<invites, pending, minted, operatorVars, exchanged, fetched, told,
                 before>>

(* Mutant: marking the invite forgets what waits.                           *)
MarkedAfresh(i) == /\ invites' = [invites EXCEPT ![i] = "used"]
                   /\ pickups' = [pickups EXCEPT ![i] = NoState]

Marked(i) == invites' = [invites EXCEPT ![i] = "used"] /\ UNCHANGED pickups

(* The invite is used up and the owner told that the account is connected.  *)
Mark(t) ==
  /\ At(t, "mark")
  /\ Marked(thread[t].invite)
  /\ told' = told \cup {thread[t].state}
  /\ Answer(t)
  /\ Calm
  /\ UNCHANGED <<pending, minted, operatorVars, exchanged, fetched, before, sealed,
                 lost>>

------------------------------------------------------------------------------
(* /pickup and the operator's commands *)

(* MemoryStore.take of the pickup.                                          *)
Collected(i) == pickups' = [pickups EXCEPT ![i] = NoState]

(* broker_client collect fetches once; an answer that is lost is not        *)
(* fetched again.                                                           *)
Collect(i) ==
  /\ operator.pc = "idle" /\ pickups[i] # NoState
  /\ Collected(i)
  /\ fetched' = [fetched EXCEPT ![pickups[i]] = @ + 1]
  /\ \/ /\ operator' = [pc |-> "write", credential |-> pickups[i]]
        /\ Calm /\ UNCHANGED lost
     \/ /\ Happens("answer")
        /\ lost' = lost \cup {pickups[i]} /\ UNCHANGED operator
  /\ UNCHANGED <<invites, pending, minted, thread, tokenFile, connected,
                 exchanged, told, before, sealed>>

NoFile == tokenFile = NoState

(* The credential is unsealed and written to a file of its own; with a file *)
(* in the way, collect refuses, and the broker no longer has it either.     *)
WriteFile ==
  /\ operator.pc = "write"
  /\ IF NoFile
       THEN tokenFile' = operator.credential /\ UNCHANGED lost
       ELSE lost' = lost \cup {operator.credential} /\ UNCHANGED tokenFile
  /\ operator' = NotCollecting
  /\ Calm
  /\ UNCHANGED <<stores, minted, thread, connected, exchanged, fetched, told, before,
                 sealed>>

Removed == tokenFile' = NoState

(* Mutant: the file goes, whether or not it was connected.                  *)
KeptRemoving == Removed

(* connect_account leaves the file in place unless it was connected.        *)
Kept == UNCHANGED tokenFile

(* connect_account: the credential is stored and the record published, or   *)
(* one of the two is refused; the plaintext is removed, if it can be.       *)
Connect ==
  /\ operator.pc = "idle" /\ tokenFile # NoState
  /\ \/ /\ connected' = tokenFile
        /\ \/ Removed /\ Calm
           \/ UNCHANGED tokenFile /\ Happens("unlink")
        /\ lost' = lost \cup ({connected} \ {tokenFile, NoState})
     \/ Happens("refused") /\ Kept /\ UNCHANGED <<connected, lost>>
  /\ UNCHANGED <<stores, minted, thread, operator, exchanged, fetched, told, before,
                 sealed>>

(* The operator removes a file that connect_account said is still there.    *)
RemoveByHand ==
  /\ operator.pc = "idle" /\ tokenFile # NoState /\ tokenFile = connected
  /\ Removed
  /\ Calm /\ UNCHANGED <<stores, minted, thread, operator, connected, book>>

------------------------------------------------------------------------------
(* Time and restarts *)

(* Ten minutes, or a day, pass over an entry of a store.                    *)
Expire ==
  /\ Happens("expire")
  /\ \/ \E s \in States:
          /\ pending[s] # NoState
          /\ pending' = [pending EXCEPT ![s] = NoState]
          /\ UNCHANGED <<invites, pickups, lost>>
     \/ \E i \in Invites:
          /\ invites[i] # "gone"
          /\ invites' = [invites EXCEPT ![i] = "gone"]
          /\ UNCHANGED <<pending, pickups, lost>>
     \/ \E i \in Invites:
          /\ pickups[i] # NoState
          /\ pickups' = [pickups EXCEPT ![i] = NoState]
          /\ lost' = lost \cup {pickups[i]}
          /\ UNCHANGED <<invites, pending>>
  /\ UNCHANGED <<minted, thread, operatorVars, exchanged, fetched, told, before,
                 sealed>>

(* The host spins the process down: its stores and its threads are gone,    *)
(* and the invites of the environment are seeded again.                     *)
Restart ==
  /\ Happens("restart")
  /\ invites' = [i \in Invites |-> "open"]
  /\ pending' = [s \in States |-> NoState]
  /\ pickups' = [i \in Invites |-> NoState]
  /\ thread' = [t \in Threads |-> NoWork]
  /\ lost' = lost \cup ({pickups[i]: i \in Invites} \ {NoState})
  /\ told' = {}
  /\ UNCHANGED <<minted, operatorVars, exchanged, fetched, before, sealed>>

------------------------------------------------------------------------------
Broker == \E t \in Threads:
            \/ \E i \in Invites: Start(t, i)
            \/ \E s \in States: Mint(t, s) \/ Callback(t, s)
            \/ Check(t) \/ Exchange(t) \/ PutPickup(t) \/ Mark(t)

Operator == \/ \E i \in Invites: Collect(i)
            \/ WriteFile \/ Connect \/ RemoveByHand

Next == Broker \/ Operator \/ Expire \/ Restart

Spec == Init /\ [][Next]_vars

------------------------------------------------------------------------------
(* Properties *)

(* A state reaches the exchange once, and a credential is answered to one   *)
(* pickup, however often callback and pickup are repeated.                  *)
Once == \A s \in States: exchanged[s] <= 1 /\ fetched[s] <= 1

Serves(t, s) == ~At(t, "idle") /\ thread[t].state = s

(* A state is somewhere once: not handed out, stored, or taken by a thread  *)
(* of its own; its credential exists once that thread has put it.           *)
Placed ==
  \A s \in States:
    /\ minted[s] = NoState => s \notin sealed /\ exchanged[s] = 0 /\ before[s] = {}
    /\ minted[s] = NoState \/ pending[s] # NoState =>
         s \notin sealed /\ exchanged[s] = 0 /\ \A t \in Threads: ~Serves(t, s)
    /\ \A t \in Threads: Serves(t, s) =>
         /\ At(t, "check") => exchanged[s] = 0
         /\ s \in sealed <=> At(t, "mark")
         /\ \A u \in Threads: Serves(u, s) => u = t

(* A pickup holds a credential of its own invite that nobody has fetched.   *)
PickedUpOnce ==
  /\ \A i \in Invites: pickups[i] # NoState =>
       pickups[i] \in sealed /\ minted[pickups[i]] = i /\ fetched[pickups[i]] = 0
  /\ \A s \in States \ sealed: fetched[s] = 0

(* An invite of a sign-in that was told is not open; so whoever was past    *)
(* the check had seen no sign-in of the same invite told.                   *)
ToldCloses ==
  /\ \A s \in told: s \in sealed /\ invites[minted[s]] # "open"
  /\ \A s \in States: \A u \in before[s]: minted[u] \notin {NoState, minted[s]}

(* Every entry has its type and belongs to the invite its state was minted  *)
(* for; every state and every pickup serves once (MemoryStore.take), since  *)
(* each is in one place only; inductive.                                    *)
Inv == TypeOK /\ Once /\ Placed /\ PickedUpOnce /\ ToldCloses

(* While the process lives, a second credential of an invite comes only     *)
(* from a callback that was past its check before the first was told; but   *)
(* for that overlap the invite is single use (oauth_broker.py:14, 300).     *)
SingleUseInvite ==
  \A s, u \in sealed: minted[s] = minted[u] => u \notin before[s]

(* A credential that was sealed waits for pickup, is being collected, is in *)
(* the file or connected, unless it was replaced, expired or was wiped with *)
(* the stores, or was refused or lost on the way to the file.               *)
CredentialKept ==
  \A s \in sealed \ lost:
    \/ \E i \in Invites: pickups[i] = s
    \/ operator.pc = "write" /\ operator.credential = s
    \/ s \in {tokenFile, connected}

(* The plaintext file changes only when it is empty or connected: nothing   *)
(* overwrites a credential, and only success destroys it                    *)
(* (connect_account.py:207).                                                *)
FileUntilConnected ==
  [][tokenFile' # tokenFile => tokenFile \in {NoState, connected'}]_vars
=============================================================================
