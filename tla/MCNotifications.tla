--------------------------- MODULE MCNotifications ---------------------------
(***************************************************************************)
(* One device registers, registers anew with keys that do not decode, and  *)
(* turns notifications off; another publishes preferences that cannot be   *)
(* matched, then a registration nothing can be sent to.  The spawn is      *)
(* announced twice.                                                        *)
(***************************************************************************)
EXTENDS Notifications, TLC

CONSTANTS d1, d2, x1, r1, r2

MCSpawnOf == [a \in Announcement |-> x1]

MCConfig ==
    {[device |-> d1, created |-> 1, enabled |-> TRUE, reg |-> r1, wants |-> {x1}],
     [device |-> d1, created |-> 2, enabled |-> TRUE, reg |-> r2, wants |-> {x1}],
     [device |-> d1, created |-> 3, enabled |-> FALSE, reg |-> NoRow, wants |-> {}],
     [device |-> d2, created |-> 1, enabled |-> TRUE, reg |-> r1, wants |-> Unreadable],
     [device |-> d2, created |-> 2, enabled |-> TRUE, reg |-> NoRow, wants |-> {}]}
=============================================================================
