--------------------------- MODULE CollectorLease ---------------------------
(***************************************************************************)
(* What the runtime manager promises about collectors: a device is polled   *)
(* by one collector at a time.  A collector is granted a device nobody      *)
(* holds, keeps it until it is told to end, and only its own end gives the  *)
(* device back.                                                             *)
(***************************************************************************)
CONSTANTS Device, Runner

VARIABLES
    holders,   \* device -> the collectors at work on it
    revoked    \* the collectors told to end

Init ==
    /\ holders = [d \in Device |-> {}]
    /\ revoked = {}

Grant(d, r) ==
    /\ holders[d] = {}
    /\ \A e \in Device : r \notin holders[e]
    /\ holders' = [holders EXCEPT ![d] = {r}]
    /\ UNCHANGED revoked

Revoke(d, r) ==
    /\ r \in holders[d]
    /\ revoked' = revoked \cup {r}
    /\ UNCHANGED holders

End(d, r) ==
    /\ r \in holders[d] /\ r \in revoked
    /\ holders' = [holders EXCEPT ![d] = @ \ {r}]
    /\ revoked' = revoked \ {r}

Next == \E d \in Device, r \in Runner : Grant(d, r) \/ Revoke(d, r) \/ End(d, r)

Spec == Init /\ [][Next]_<<holders, revoked>>

============================================================================
