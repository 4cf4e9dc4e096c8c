----------------------------- MODULE ConnectionSlot -----------------------------
(***************************************************************************)
(* What the hosted deployment promises about its one slot (the header of   *)
(* connection.py and of connection_archive.py): one account at a time,     *)
(* visible as connected only once its credential is stored, replaced only  *)
(* after the credential is gone and the slot vacated, and with no consent  *)
(* in force that was given before the present connection.                  *)
(***************************************************************************)
CONSTANTS Accounts, Nobody

VARIABLES
  holder,        \* the account connected, or Nobody
  credential,    \* a credential of the holder is stored
  consent        \* an approval of the holder is in force

slot == <<holder, credential, consent>>

Init == holder = Nobody /\ credential = FALSE /\ consent = FALSE

(* The slot is vacant: the account enters with a credential, without consent. *)
Connect(a) == /\ holder = Nobody
              /\ holder' = a /\ credential' = TRUE /\ consent' = FALSE

(* The same account signs in again. *)
Reauthorise == /\ holder # Nobody
               /\ credential' = TRUE /\ UNCHANGED <<holder, consent>>

Approve == holder # Nobody /\ consent' = TRUE /\ UNCHANGED <<holder, credential>>

(* Consent ends, then the credential, then the connection. *)
Withdraw == /\ holder # Nobody
            /\ consent' = FALSE /\ UNCHANGED <<holder, credential>>

Forget == /\ holder # Nobody /\ ~consent
          /\ credential' = FALSE /\ UNCHANGED <<holder, consent>>

Vacate == /\ holder # Nobody /\ ~credential /\ ~consent
          /\ holder' = Nobody /\ UNCHANGED <<credential, consent>>

Next == \/ \E a \in Accounts: Connect(a)
        \/ Reauthorise \/ Approve \/ Withdraw \/ Forget \/ Vacate

Spec == Init /\ [][Next]_slot
=============================================================================
