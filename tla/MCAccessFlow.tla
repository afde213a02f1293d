---------------------------- MODULE MCAccessFlow ------------------------------
(* One request under a two-step and a one-step policy; a re-seeding makes  *)
(* the requester data owner, and another takes the admin's role away.      *)
EXTENDS AccessFlow, TLC

CONSTANTS r1, eve, mia, oto, pam, w1, w2

MCRequesterOf == [r \in {r1} |-> eve]

MCRoles == (eve :> {}) @@ (mia :> {"manager"}) @@ (oto :> {"data_owner"})
           @@ (pam :> {"permissions_admin"})

MCDir(policy, owner, roles) ==
    [manager |-> (eve :> mia) @@ (mia :> Nobody) @@ (oto :> mia) @@ (pam :> mia),
     roles   |-> roles,
     policy  |-> (r1 :> policy),
     owner   |-> (r1 :> owner)]

MCDirectories ==
    {MCDir("manager_and_data_owner", oto, MCRoles),
     MCDir("manager_and_data_owner", eve, [MCRoles EXCEPT ![eve] = {"data_owner"}]),
     MCDir("manager", Nobody, [MCRoles EXCEPT ![pam] = {}])}
===============================================================================
