----------------------------- MODULE Directory ------------------------------
(***************************************************************************)
(* What accounts promise: "an application user keyed by the stable `sub`   *)
(* claim", at most one per Google identity, to which the keys that proved  *)
(* that identity are linked, and stay linked.                              *)
(***************************************************************************)
CONSTANTS Identity, Pubkey, UserId, NoUser

VARIABLES
    user,       \* identity -> its application user, or NoUser
    keys,       \* identity -> the pubkeys linked to that user
    proven      \* who has shown a valid token: <<identity, pubkey>>

vars == <<user, keys, proven>>

Init ==
    /\ user = [s \in Identity |-> NoUser]
    /\ keys = [s \in Identity |-> {}]
    /\ proven = {}

Prove(s, k) ==
    /\ proven' = proven \cup {<<s, k>>}
    /\ UNCHANGED <<user, keys>>

Create(s) ==
    /\ user[s] = NoUser
    /\ \E k \in Pubkey : <<s, k>> \in proven
    /\ \E u \in UserId \ {user[t] : t \in Identity} : user' = [user EXCEPT ![s] = u]
    /\ UNCHANGED <<keys, proven>>

Link(s, k) ==
    /\ user[s] # NoUser
    /\ <<s, k>> \in proven
    /\ keys' = [keys EXCEPT ![s] = @ \cup {k}]
    /\ UNCHANGED <<user, proven>>

Next == \E s \in Identity : Create(s) \/ \E k \in Pubkey : Prove(s, k) \/ Link(s, k)

Spec == Init /\ [][Next]_vars
=============================================================================
