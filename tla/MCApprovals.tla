----------------------------- MODULE MCApprovals -----------------------------
(* Two requests of one requester; the directory versions cover a one-step  *)
(* and a two-step policy, a manual one, a manager who also owns the data,  *)
(* a missing owner, and a requester who becomes owner.                     *)
EXTENDS Approvals, TLC

CONSTANTS r1, r2, eve, mia, oto

MCRequesterOf == [r \in {r1, r2} |-> eve]

MCRoles == (eve :> {"data_owner"}) @@ (mia :> {"manager", "data_owner"})
           @@ (oto :> {"data_owner"})

MCDir(policy1, owner1, roles) ==
    [manager |-> (eve :> mia) @@ (mia :> Nobody) @@ (oto :> mia),
     roles   |-> roles,
     policy  |-> (r1 :> policy1) @@ (r2 :> "manager_and_data_owner"),
     owner   |-> (r1 :> owner1) @@ (r2 :> mia)]

MCDirectories ==
    {MCDir("manager_and_data_owner", oto, MCRoles),
     MCDir("manager_and_data_owner", eve, MCRoles),
     MCDir("manager_and_data_owner", Nobody, MCRoles),
     MCDir("manager", Nobody, MCRoles),
     MCDir("manual_security", oto, [MCRoles EXCEPT ![mia] = {"data_owner"}])}
=============================================================================
