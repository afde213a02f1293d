----------------------------- MODULE AccessGrant -----------------------------
(***************************************************************************)
(* What the provisioning of approved requests promises, without attempts,  *)
(* workers or answers: the identity system carries out an operation only   *)
(* for an approved request, and access is granted, once and for good, only *)
(* after it was carried out.                                               *)
(***************************************************************************)
CONSTANT Requests

VARIABLES approved,  \* requests every approver has approved
          carried,   \* requests the identity system carried out at least once
          granted    \* requests with an access grant

grantVars == <<approved, carried, granted>>

Init ==
    /\ approved \subseteq Requests
    /\ carried \subseteq approved
    /\ granted = carried

Approve(r) ==
    /\ r \in Requests \ approved
    /\ approved' = approved \cup {r}
    /\ UNCHANGED <<carried, granted>>

CarryOut(r) ==
    /\ r \in approved \ carried
    /\ carried' = carried \cup {r}
    /\ UNCHANGED <<approved, granted>>

GrantAccess(r) ==
    /\ r \in carried \ granted
    /\ granted' = granted \cup {r}
    /\ UNCHANGED <<approved, carried>>

Next == \E r \in Requests : Approve(r) \/ CarryOut(r) \/ GrantAccess(r)

Spec == Init /\ [][Next]_grantVars
=============================================================================
