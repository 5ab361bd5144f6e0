------------------------------ MODULE Accounts ------------------------------
(***************************************************************************)
(* Application users and the sign-in that links a device's key to one      *)
(* (accounts.js): the Google token is verified, the user is looked up by   *)
(* its identity, written back or created, and written once more with the   *)
(* key.  Each write carries the row as it was read, and between any two    *)
(* steps another sign-in may run.                                          *)
(*                                                                         *)
(* Of a row the Google identity and the linked keys are kept.  Of several  *)
(* rows with an identity a look-up takes the first in the order of their   *)
(* ids, which are random: CHOOSE stands for that order.                    *)
(***************************************************************************)

CONSTANTS
    Identity,   \* Google accounts, by `sub`
    Pubkey,     \* devices' keys, as authenticated by the transport
    UserId,
    Handler,    \* linkGoogleAccount calls
    NoUser

Row == [sub: Identity, keys: SUBSET Pubkey]

ASSUME NoUserAssumption == NoUser \notin UserId /\ NoUser \notin Row

VARIABLES
    users,      \* id -> row, or NoUser
    task,       \* linkGoogleAccount calls
    proven,     \* history: <<identity, key>> whose token was verified
    told,       \* history: <<identity, key>> that was answered to be linked
    overlapped  \* history: two sign-ins of one identity have been between the
                \* look-up and the last write at once

vars == <<users, task, proven, told, overlapped>>

NoTask == [at |-> "idle"]

Found(s) == {u \in UserId : users[u] # NoUser /\ users[u].sub = s}
First(us) == CHOOSE u \in us : TRUE

(* getCurrentUser *)
CurrentUser(k) ==
    LET us == {u \in UserId : users[u] # NoUser /\ k \in users[u].keys}
    IN  IF us = {} THEN NoUser ELSE First(us)

Writing(h) == task[h].at \in {"found", "linking"}

-----------------------------------------------------------------------------

Init ==
    /\ users = [u \in UserId |-> NoUser]
    /\ task = [h \in Handler |-> NoTask]
    /\ proven = {} /\ told = {}
    /\ overlapped = FALSE

Begin(h, s, k) ==
    /\ task[h] = NoTask
    /\ task' = [task EXCEPT ![h] = [at |-> "verifying", sub |-> s, key |-> k]]
    /\ UNCHANGED <<users, proven, told, overlapped>>

(* findByIdentity: the first row with the identity, as it is now. *)
LookUp(t) ==
    LET u == First(Found(t.sub))
    IN  IF Found(t.sub) = {}
        THEN [at |-> "found", sub |-> t.sub, key |-> t.key, user |-> NoUser, keys |-> {}]
        ELSE [at |-> "found", sub |-> t.sub, key |-> t.key, user |-> u, keys |-> users[u].keys]

(* Slip: a token that does not verify is believed. *)
VerifyLoosely(h, ok) ==
    /\ task[h].at = "verifying"
    /\ task' = [task EXCEPT ![h] = LookUp(@)]
    /\ proven' = IF ok THEN proven \cup {<<task[h].sub, task[h].key>>} ELSE proven
    /\ overlapped' = (overlapped \/ \E g \in Handler : Writing(g) /\ task[g].sub = task[h].sub)
    /\ UNCHANGED <<users, told>>

(* verifyGoogleIdToken settles, and on success the user is looked up.      *)
Verify(h, ok) ==
    /\ task[h].at = "verifying"
    /\ IF ok
       THEN /\ task' = [task EXCEPT ![h] = LookUp(@)]
            /\ proven' = proven \cup {<<task[h].sub, task[h].key>>}
            /\ overlapped' = (overlapped \/ \E g \in Handler :
                                               Writing(g) /\ task[g].sub = task[h].sub)
       ELSE /\ task' = [task EXCEPT ![h] = NoTask]
            /\ UNCHANGED <<proven, overlapped>>
    /\ UNCHANGED <<users, told>>

(* Slip: the update writes back the identity alone. *)
UpsertAfresh(h) ==
    /\ task[h].at = "found"
    /\ \E u \in UserId :
          /\ IF task[h].user = NoUser THEN users[u] = NoUser ELSE u = task[h].user
          /\ users' = [users EXCEPT ![u] = [sub |-> task[h].sub, keys |-> {}]]
          /\ task' = [task EXCEPT ![h] = [@ EXCEPT !.at = "linking", !.user = u, !.keys = {}]]
    /\ UNCHANGED <<proven, told, overlapped>>

(* #findOrCreateByIdentity: the row that was found, or a new one. *)
Upsert(h) ==
    /\ task[h].at = "found"
    /\ \E u \in UserId :
          /\ IF task[h].user = NoUser THEN users[u] = NoUser ELSE u = task[h].user
          /\ users' = [users EXCEPT ![u] = [sub |-> task[h].sub, keys |-> task[h].keys]]
          /\ task' = [task EXCEPT ![h] = [@ EXCEPT !.at = "linking", !.user = u]]
    /\ UNCHANGED <<proven, told, overlapped>>

Answered(h) ==
    /\ task' = [task EXCEPT ![h] = NoTask]
    /\ told' = told \cup {<<task[h].sub, task[h].key>>}
    /\ UNCHANGED <<proven, overlapped>>

(* Slip: the answer is given without the row's being written again. *)
LinkInMemory(h) ==
    /\ task[h].at = "linking"
    /\ Answered(h)
    /\ UNCHANGED users

(* The key that signed the request is added, unless it was there, and the  *)
(* handler returns.                                                        *)
Link(h) ==
    /\ task[h].at = "linking"
    /\ users' = IF task[h].key \in task[h].keys THEN users
                ELSE [users EXCEPT ![task[h].user] =
                        [sub |-> task[h].sub, keys |-> task[h].keys \cup {task[h].key}]]
    /\ Answered(h)

(* The page is loaded anew: what handlers held is gone. *)
Reload ==
    /\ task' = [h \in Handler |-> NoTask]
    /\ UNCHANGED <<users, proven, told, overlapped>>

Next ==
    \/ \E h \in Handler :
          \/ \E s \in Identity, k \in Pubkey : Begin(h, s, k)
          \/ \E ok \in BOOLEAN : Verify(h, ok)
          \/ Upsert(h)
          \/ Link(h)
    \/ Reload

Spec == Init /\ [][Next]_vars

-----------------------------------------------------------------------------

Task ==
    [at: {"verifying"}, sub: Identity, key: Pubkey]
    \cup [at: {"found", "linking"}, sub: Identity, key: Pubkey,
          user: UserId \cup {NoUser}, keys: SUBSET Pubkey]
    \cup {NoTask}

TypeOK ==
    /\ users \in [UserId -> Row \cup {NoUser}]
    /\ task \in [Handler -> Task]
    /\ proven \subseteq Identity \X Pubkey /\ told \subseteq Identity \X Pubkey
    /\ overlapped \in BOOLEAN

(* A key is linked to no Google account it has not proved to hold, in no   *)
(* row, however sign-ins overlap and whoever's old row is written back     *)
(* ("never trusts the viewer's own decode of it").                         *)
LinksAreProven ==
    \A u \in UserId : users[u] # NoUser =>
        \A k \in users[u].keys : <<users[u].sub, k>> \in proven

UserOf(s) == IF Found(s) = {} THEN NoUser ELSE First(Found(s))
KeysOf(s) == IF Found(s) = {} THEN {} ELSE users[First(Found(s))].keys

(* As long as no two sign-ins of one identity overlap, there is one user   *)
(* per identity and a link once made stays: the store implements the       *)
(* directory accounts.js:44 describes ("upserts an application user keyed  *)
(* by the stable `sub` claim"), each sign-in in two steps at most.         *)
OneEach == \A s \in Identity : \A u, v \in Found(s) : u = v
Promise ==
    INSTANCE Directory WITH
        user <- [s \in Identity |-> UserOf(s)], keys <- [s \in Identity |-> KeysOf(s)]
ImplementsDirectory ==
    Promise!Init /\ [][overlapped' \/ (OneEach' /\ [Promise!Next]_(Promise!vars))]_vars

(* Who was told the account is linked finds it linked, whatever came in    *)
(* between, unless sign-ins overlapped.                                    *)
ToldIsLinked == overlapped \/ \A p \in told : p[2] \in KeysOf(p[1]) /\ CurrentUser(p[2]) # NoUser
=============================================================================
