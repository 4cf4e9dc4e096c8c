------------------------------ MODULE MCCampaign ------------------------------
(* Small instances of Campaign for TLC. *)
EXTENDS Campaign, TLC

Mail(sender, target, date, safe, labels) ==
  [sender |-> sender, target |-> target, date |-> date, safe |-> safe, labels |-> labels]
MCMessages ==
  {Mail("ann", "ann", 1, TRUE, {"news"}), Mail("ann2", "ann2", 2, TRUE, {"news", "recruits"}),
   Mail("ben", "cat", 3, TRUE, {"news"}), Mail("me2", "me2", 4, TRUE, {"news"}),
   Mail("cat", "cat", 5, FALSE, {"recruits"}), Mail("cat", "cat", 0, TRUE, {"closed"}),
   Mail("ben", "ben", 3, TRUE, {"recruits"})}
(* The names of labels, and one of them in another case. *)
MCLower ==
  "Recruits" :> "recruits" @@ [l \in {"news", "recruits", "closed"} |-> l]
(* A chain, and a cycle. *)
MCAliasFiles ==
  {"ann3" :> "ann2" @@ "ann2" :> "ann" @@ "me2" :> "me", "ann" :> "ann2" @@ "ann2" :> "ann"}
MCExclusions == {{}, {"ann3"}}
Document(account, label, recipients) ==
  [account |-> account, label |-> label, recipients |-> recipients]
MCApprovals ==
  {NoApproval, Document("me", "recruits", <<"ann3">>),
   Document("me", "recruits", <<"ann", "ann3">>), Document("ben", "recruits", <<"ann">>)}
=============================================================================
