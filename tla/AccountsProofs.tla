--------------------------- MODULE AccountsProofs ---------------------------
(***************************************************************************)
(* Accounts: type correctness; that no row holds a link that was not       *)
(* proved; and that, until two sign-ins of one identity overlap, they      *)
(* implement the directory and an answered sign-in stays linked - for any  *)
(* number of identities, keys, users and handlers.                         *)
(***************************************************************************)
EXTENDS Accounts, TLAPS

(* What the sign-ins in flight hold besides the store: a row is copied, a  *)
(* key awaits its being linked, and both must have been proved as well.    *)
HeldIsProven ==
    \A h \in Handler : Writing(h) =>
        /\ <<task[h].sub, task[h].key>> \in proven
        /\ \A k \in task[h].keys : <<task[h].sub, k>> \in proven

IInv == TypeOK /\ LinksAreProven /\ HeldIsProven

-----------------------------------------------------------------------------

LEMMA TaskForms ==
    ASSUME NEW t \in Task
    PROVE  /\ t.at = "verifying" => t \in [at: {"verifying"}, sub: Identity, key: Pubkey]
           /\ t.at \in {"found", "linking"} =>
                t \in [at: {"found", "linking"}, sub: Identity, key: Pubkey,
                       user: UserId \cup {NoUser}, keys: SUBSET Pubkey]
BY DEF Task, NoTask

(* What a look-up returns is a task that writes, with the keys of a row it *)
(* found or with none.                                                     *)
LEMMA LookUpForm ==
    ASSUME TypeOK, NEW t \in [at: {"verifying"}, sub: Identity, key: Pubkey]
    PROVE  /\ LookUp(t) \in Task
           /\ LookUp(t).at = "found" /\ LookUp(t).sub = t.sub /\ LookUp(t).key = t.key
           /\ LinksAreProven => \A k \in LookUp(t).keys : <<t.sub, k>> \in proven
<1>1. CASE Found(t.sub) = {}
  BY <1>1 DEF LookUp, Task
<1>2. CASE Found(t.sub) # {}
  <2> DEFINE u == First(Found(t.sub))
  <2>1. u \in Found(t.sub)
    BY <1>2 DEF First
  <2>2. u \in UserId /\ users[u] \in Row /\ users[u] # NoUser /\ users[u].sub = t.sub
    BY <2>1 DEF Found, TypeOK
  <2>3. users[u].keys \in SUBSET Pubkey
    BY <2>2 DEF Row
  <2>4. LookUp(t) = [at |-> "found", sub |-> t.sub, key |-> t.key, user |-> u,
                     keys |-> users[u].keys]
    BY <1>2 DEF LookUp
  <2>5. LookUp(t) \in Task
    BY <2>2, <2>3, <2>4 DEF Task
  <2>6. LinksAreProven => \A k \in users[u].keys : <<t.sub, k>> \in proven
    BY <2>2 DEF LinksAreProven
  <2> QED BY <2>4, <2>5, <2>6
<1> QED BY <1>1, <1>2

-----------------------------------------------------------------------------

LEMMA BeginKeeps ==
    ASSUME IInv, NEW h \in Handler, NEW s \in Identity, NEW k \in Pubkey, Begin(h, s, k)
    PROVE  IInv'
<1>1. TypeOK'
  BY DEF Begin, IInv, TypeOK, Task
<1>2. LinksAreProven'
  BY DEF Begin, IInv, LinksAreProven
<1>3. HeldIsProven'
  <2> SUFFICES ASSUME NEW g \in Handler, Writing(g)'
               PROVE  (/\ <<task[g].sub, task[g].key>> \in proven
                       /\ \A l \in task[g].keys : <<task[g].sub, l>> \in proven)'
    BY DEF HeldIsProven
  <2>1. g # h
    BY DEF Begin, Writing, IInv, TypeOK
  <2>2. task'[g] = task[g]
    BY <2>1 DEF Begin
  <2> QED BY <2>2 DEF Begin, IInv, HeldIsProven, Writing
<1> QED BY <1>1, <1>2, <1>3 DEF IInv

LEMMA VerifyKeeps ==
    ASSUME IInv, NEW h \in Handler, NEW ok \in BOOLEAN, Verify(h, ok)
    PROVE  IInv'
<1> DEFINE t == task[h]
<1>1. t \in [at: {"verifying"}, sub: Identity, key: Pubkey]
  BY TaskForms DEF Verify, IInv, TypeOK
<1>2. CASE ~ ok
  <2>1. TypeOK'
    BY <1>2 DEF Verify, IInv, TypeOK, Task
  <2>2. LinksAreProven'
    BY <1>2 DEF Verify, IInv, LinksAreProven
  <2>3. ASSUME NEW g \in Handler, Writing(g)'
        PROVE  g # h /\ task'[g] = task[g]
    BY <1>2, <2>3 DEF Verify, Writing, IInv, TypeOK, NoTask
  <2>4. HeldIsProven'
    BY <1>2, <2>3 DEF Verify, IInv, HeldIsProven, Writing
  <2> QED BY <2>1, <2>2, <2>4 DEF IInv
<1>3. CASE ok
  <2>1. task' = [task EXCEPT ![h] = LookUp(t)] /\ proven' = proven \cup {<<t.sub, t.key>>}
        /\ users' = users /\ told' = told
    BY <1>3 DEF Verify
  <2>2. /\ LookUp(t) \in Task
        /\ LookUp(t).sub = t.sub /\ LookUp(t).key = t.key
        /\ \A k \in LookUp(t).keys : <<t.sub, k>> \in proven
    BY <1>1, LookUpForm DEF IInv
  <2>3. overlapped' \in BOOLEAN
    BY <1>3 DEF Verify, IInv, TypeOK
  <2>4. TypeOK'
    BY <1>1, <2>1, <2>2, <2>3 DEF IInv, TypeOK
  <2>5. LinksAreProven'
    BY <2>1 DEF IInv, LinksAreProven
  <2>6. HeldIsProven'
    <3> SUFFICES ASSUME NEW g \in Handler, Writing(g)'
                 PROVE  (/\ <<task[g].sub, task[g].key>> \in proven
                         /\ \A k \in task[g].keys : <<task[g].sub, k>> \in proven)'
      BY DEF HeldIsProven
    <3>1. CASE g = h
      <4>1. task'[g] = LookUp(t)
        BY <2>1, <3>1 DEF IInv, TypeOK
      <4> QED BY <2>1, <2>2, <4>1
    <3>2. CASE g # h
      <4>1. task'[g] = task[g]
        BY <2>1, <3>2
      <4> QED BY <2>1, <4>1 DEF IInv, HeldIsProven, Writing
    <3> QED BY <3>1, <3>2
  <2> QED BY <2>4, <2>5, <2>6 DEF IInv
<1> QED BY <1>2, <1>3

LEMMA UpsertKeeps ==
    ASSUME IInv, NEW h \in Handler, Upsert(h)
    PROVE  IInv'
<1> DEFINE t == task[h]
<1>1. t \in [at: {"found", "linking"}, sub: Identity, key: Pubkey,
             user: UserId \cup {NoUser}, keys: SUBSET Pubkey]
  BY TaskForms DEF Upsert, IInv, TypeOK
<1>2. PICK u \in UserId :
        /\ users' = [users EXCEPT ![u] = [sub |-> t.sub, keys |-> t.keys]]
        /\ task' = [task EXCEPT ![h] = [t EXCEPT !.at = "linking", !.user = u]]
  BY DEF Upsert
<1>3. UNCHANGED <<proven, told, overlapped>> /\ Writing(h)
  BY DEF Upsert, Writing
<1>4. TypeOK'
  BY <1>1, <1>2, <1>3 DEF IInv, TypeOK, Row, Task
<1>5. /\ <<t.sub, t.key>> \in proven
      /\ \A k \in t.keys : <<t.sub, k>> \in proven
  BY <1>3 DEF IInv, HeldIsProven
<1>6. LinksAreProven'
  <2> SUFFICES ASSUME NEW v \in UserId, users'[v] # NoUser, NEW k \in users'[v].keys
               PROVE  <<users'[v].sub, k>> \in proven'
    BY DEF LinksAreProven
  <2>1. CASE v = u
    <3>1. users'[v] = [sub |-> t.sub, keys |-> t.keys]
      BY <1>2, <2>1 DEF IInv, TypeOK
    <3> QED BY <1>3, <1>5, <3>1
  <2>2. CASE v # u
    <3>1. users'[v] = users[v]
      BY <1>2, <2>2
    <3> QED BY <1>3, <3>1 DEF IInv, LinksAreProven
  <2> QED BY <2>1, <2>2
<1>7. HeldIsProven'
  <2> SUFFICES ASSUME NEW g \in Handler, Writing(g)'
               PROVE  (/\ <<task[g].sub, task[g].key>> \in proven
                       /\ \A k \in task[g].keys : <<task[g].sub, k>> \in proven)'
    BY DEF HeldIsProven
  <2>1. Writing(g) /\ task'[g].sub = task[g].sub /\ task'[g].key = task[g].key
        /\ task'[g].keys = task[g].keys
    BY <1>1, <1>2, <1>3 DEF Writing, IInv, TypeOK
  <2> QED BY <1>3, <2>1 DEF IInv, HeldIsProven
<1> QED BY <1>4, <1>6, <1>7 DEF IInv

LEMMA LinkKeeps ==
    ASSUME IInv, NEW h \in Handler, Link(h)
    PROVE  IInv'
<1> DEFINE t == task[h]
           row == [sub |-> t.sub, keys |-> t.keys \cup {t.key}]
<1>1. t \in [at: {"found", "linking"}, sub: Identity, key: Pubkey,
             user: UserId \cup {NoUser}, keys: SUBSET Pubkey]
  BY TaskForms DEF Link, IInv, TypeOK
<1>2. users' = users \/ users' = [users EXCEPT ![t.user] = row]
  BY DEF Link
<1>3. /\ task' = [task EXCEPT ![h] = NoTask]
      /\ told' = told \cup {<<t.sub, t.key>>}
      /\ UNCHANGED <<proven, overlapped>>
  BY DEF Link, Answered
<1>4. Writing(h)
  BY DEF Link, Writing
<1>5. row \in Row
  BY <1>1 DEF Row
<1>6. users' \in [UserId -> Row \cup {NoUser}]
  BY <1>2, <1>5 DEF IInv, TypeOK
<1>7. TypeOK'
  BY <1>1, <1>3, <1>6 DEF IInv, TypeOK, Task
<1>8. \A k \in row.keys : <<t.sub, k>> \in proven
  BY <1>4 DEF IInv, HeldIsProven
<1>9. LinksAreProven'
  <2> SUFFICES ASSUME NEW v \in UserId, users'[v] # NoUser, NEW k \in users'[v].keys
               PROVE  <<users'[v].sub, k>> \in proven'
    BY DEF LinksAreProven
  <2>1. users'[v] = users[v] \/ users'[v] = row
    BY <1>2 DEF IInv, TypeOK
  <2>2. CASE users'[v] = users[v]
    BY <1>3, <2>2 DEF IInv, LinksAreProven
  <2>3. CASE users'[v] = row
    BY <1>3, <1>8, <2>3
  <2> QED BY <2>1, <2>2, <2>3
<1>10. HeldIsProven'
  <2>1. ASSUME NEW g \in Handler, Writing(g)'
        PROVE  task'[g] = task[g]
    BY <1>3, <2>1 DEF Writing, IInv, TypeOK, NoTask
  <2> QED BY <1>3, <2>1 DEF IInv, HeldIsProven, Writing
<1> QED BY <1>7, <1>9, <1>10 DEF IInv

LEMMA ReloadKeeps == ASSUME IInv, Reload PROVE IInv'
<1>1. TypeOK'
  BY DEF Reload, IInv, TypeOK, Task
<1>2. LinksAreProven'
  BY DEF Reload, IInv, LinksAreProven
<1>3. HeldIsProven'
  BY DEF Reload, HeldIsProven, Writing, NoTask
<1> QED BY <1>1, <1>2, <1>3 DEF IInv

LEMMA InitHolds == Init => IInv
<1> SUFFICES ASSUME Init PROVE IInv
  OBVIOUS
<1>1. TypeOK
  BY DEF Init, TypeOK, Task
<1>2. LinksAreProven
  BY DEF Init, LinksAreProven
<1>3. HeldIsProven
  BY DEF Init, HeldIsProven, Writing, NoTask
<1> QED BY <1>1, <1>2, <1>3 DEF IInv

LEMMA StepKeeps == IInv /\ [Next]_vars => IInv'
<1> SUFFICES ASSUME IInv, [Next]_vars PROVE IInv'
  OBVIOUS
<1>1. ASSUME NEW h \in Handler, NEW s \in Identity, NEW k \in Pubkey, Begin(h, s, k)
      PROVE  IInv'
  BY <1>1, BeginKeeps
<1>2. ASSUME NEW h \in Handler, NEW ok \in BOOLEAN, Verify(h, ok) PROVE IInv'
  BY <1>2, VerifyKeeps
<1>3. ASSUME NEW h \in Handler, Upsert(h) PROVE IInv'
  BY <1>3, UpsertKeeps
<1>4. ASSUME NEW h \in Handler, Link(h) PROVE IInv'
  BY <1>4, LinkKeeps
<1>5. CASE Reload
  BY <1>5, ReloadKeeps
<1>6. CASE UNCHANGED vars
  <2>1. TypeOK'
    BY <1>6 DEF vars, IInv, TypeOK
  <2>2. LinksAreProven' /\ HeldIsProven'
    BY <1>6 DEF vars, IInv, LinksAreProven, HeldIsProven, Writing
  <2> QED BY <2>1, <2>2 DEF IInv
<1> QED BY <1>1, <1>2, <1>3, <1>4, <1>5, <1>6 DEF Next

LEMMA Invariance == Spec => []IInv
BY InitHolds, StepKeeps, PTL DEF Spec

(* Every variable of the accounts keeps its type. *)
THEOREM TypeCorrect == Spec => []TypeOK
<1>1. IInv => TypeOK
  BY DEF IInv
<1> QED BY <1>1, Invariance, PTL

(* No key is ever linked to a Google account it has not proved to hold,    *)
(* though every write of accounts.js puts back a row read earlier.         *)
THEOREM LinksTheorem == Spec => []LinksAreProven
<1>1. IInv => LinksAreProven
  BY DEF IInv
<1> QED BY <1>1, Invariance, PTL

-----------------------------------------------------------------------------

(* What holds as long as no two sign-ins of one identity have overlapped:  *)
(* a sign-in that is writing is its identity's only one and holds its row  *)
(* as it is, or there is none.                                             *)
Alone == \A g, h \in Handler : Writing(g) /\ Writing(h) /\ task[g].sub = task[h].sub => g = h

Current ==
    \A h \in Handler : Writing(h) =>
        /\ task[h].user = NoUser =>
              task[h].at = "found" /\ Found(task[h].sub) = {} /\ task[h].keys = {}
        /\ task[h].user # NoUser =>
              task[h].user \in UserId /\ users[task[h].user] = [sub |-> task[h].sub, keys |-> task[h].keys]

ToldKept == \A p \in told : \E u \in Found(p[1]) : p[2] \in users[u].keys

Orderly == Alone /\ OneEach /\ Current /\ ToldKept

(* With one row per identity no look-up depends on the order of the ids.   *)
OnlyRow ==
    OneEach => \A s \in Identity :
        /\ \A u \in Found(s) : UserOf(s) = u /\ KeysOf(s) = users[u].keys
        /\ Found(s) = {} => UserOf(s) = NoUser /\ KeysOf(s) = {}

LEMMA OnlyOne == OnlyRow
<1> SUFFICES ASSUME OneEach, NEW s \in Identity
             PROVE  /\ \A u \in Found(s) : UserOf(s) = u /\ KeysOf(s) = users[u].keys
                    /\ Found(s) = {} => UserOf(s) = NoUser /\ KeysOf(s) = {}
  BY DEF OnlyRow
<1>1. ASSUME NEW u \in Found(s) PROVE UserOf(s) = u /\ KeysOf(s) = users[u].keys
  <2>1. First(Found(s)) \in Found(s)
    BY DEF First
  <2>2. First(Found(s)) = u
    BY <2>1 DEF OneEach
  <2>3. QED
    BY <2>2 DEF UserOf, KeysOf
<1>2. QED
  BY <1>1 DEF UserOf, KeysOf

LEMMA OnlyOneAfter == OnlyRow'
BY OnlyOne, PTL

LEMMA StoreWrite ==
    ASSUME TypeOK, NEW u \in UserId, NEW row \in Row, users' = [users EXCEPT ![u] = row]
    PROVE  /\ users'[u] = row /\ \A v \in UserId \ {u} : users'[v] = users[v]
           /\ \A s : Found(s)' = IF row.sub = s THEN Found(s) \cup {u} ELSE Found(s) \ {u}
<1>1. row # NoUser /\ users'[u] = row /\ \A v \in UserId \ {u} : users'[v] = users[v]
  BY NoUserAssumption DEF TypeOK
<1>2. QED
  BY <1>1 DEF Found

LEMMA SameStore ==
    ASSUME users' = users, OneEach
    PROVE  /\ OneEach'
           /\ \A s \in Identity : Found(s)' = Found(s) /\ UserOf(s)' = UserOf(s) /\ KeysOf(s)' = KeysOf(s)
<1>1. \A s : Found(s)' = Found(s)
  BY DEF Found
<1>2. OneEach'
  BY <1>1 DEF OneEach
<1>3. QED
  BY <1>1, <1>2, OnlyOne, OnlyOneAfter DEF OnlyRow

-----------------------------------------------------------------------------

LEMMA StutterStep ==
    ASSUME users' = users, proven' = proven, OneEach
    PROVE  UNCHANGED Promise!vars
<1>1. /\ [s \in Identity |-> UserOf(s)]' = [s \in Identity |-> UserOf(s)]
      /\ [s \in Identity |-> KeysOf(s)]' = [s \in Identity |-> KeysOf(s)]
  BY SameStore
<1>2. QED
  BY <1>1 DEF Promise!vars

LEMMA ProveStep ==
    ASSUME users' = users, OneEach, NEW s \in Identity, NEW k \in Pubkey,
           proven' = proven \cup {<<s, k>>}
    PROVE  Promise!Next
<1>1. /\ [t \in Identity |-> UserOf(t)]' = [t \in Identity |-> UserOf(t)]
      /\ [t \in Identity |-> KeysOf(t)]' = [t \in Identity |-> KeysOf(t)]
  BY SameStore
<1>2. Promise!Prove(s, k)
  BY <1>1 DEF Promise!Prove
<1>3. QED
  BY <1>2 DEF Promise!Next

(* Sign-ins that begin, go on or vanish without a write. *)
LEMMA ReadOnlyOrderly ==
    ASSUME TypeOK, Orderly, users' = users, told' = told,
           \A g \in Handler : Writing(g)' => Writing(g) /\ task'[g] = task[g]
    PROVE  Orderly'
<1>1. Alone'
  BY DEF Orderly, Alone
<1>2. OneEach'
  BY SameStore DEF Orderly
<1>3. \A s : Found(s)' = Found(s)
  BY DEF Found
<1>4. Current'
  BY <1>3 DEF Orderly, Current
<1>5. ToldKept'
  BY <1>3 DEF Orderly, ToldKept
<1>6. QED
  BY <1>1, <1>2, <1>4, <1>5 DEF Orderly

LEMMA VerifyOrderly ==
    ASSUME IInv, Orderly, NEW h \in Handler, Verify(h, TRUE), ~ overlapped'
    PROVE  Orderly' /\ Promise!Next
<1> DEFINE t == task[h]
<1>1. t \in [at: {"verifying"}, sub: Identity, key: Pubkey] /\ ~ Writing(h)
  BY TaskForms DEF Verify, IInv, TypeOK, Writing
<1>2. /\ task' = [task EXCEPT ![h] = LookUp(t)]
      /\ proven' = proven \cup {<<t.sub, t.key>>}
      /\ users' = users /\ told' = told
      /\ \A g \in Handler : Writing(g) => task[g].sub # t.sub
  BY DEF Verify
<1>3. /\ task'[h] = LookUp(t) /\ LookUp(t).sub = t.sub /\ LookUp(t).at = "found"
      /\ \A g \in Handler \ {h} : task'[g] = task[g]
  BY <1>1, <1>2, LookUpForm DEF IInv, TypeOK
<1>4. \A g \in Handler \ {h} : Writing(g)' <=> Writing(g)
  BY <1>3 DEF Writing
<1>5. Alone'
  BY <1>2, <1>3, <1>4 DEF Orderly, Alone
<1>6. OneEach' /\ \A s : Found(s)' = Found(s)
  BY <1>2, SameStore DEF Orderly, Found
<1>7. Current'
  <2> SUFFICES ASSUME NEW g \in Handler, Writing(g)'
               PROVE  /\ task'[g].user = NoUser =>
                            task'[g].at = "found" /\ Found(task'[g].sub) = {} /\ task'[g].keys = {}
                      /\ task'[g].user # NoUser =>
                            task'[g].user \in UserId
                               /\ users[task'[g].user] = [sub |-> task'[g].sub, keys |-> task'[g].keys]
    BY <1>2, <1>6 DEF Current
  <2>1. CASE g # h
    BY <1>3, <1>4, <2>1 DEF Orderly, Current
  <2>2. CASE g = h /\ Found(t.sub) = {}
    BY <1>3, <2>2 DEF LookUp
  <2>3. CASE g = h /\ Found(t.sub) # {}
    <3> DEFINE u == First(Found(t.sub))
    <3>1. u \in Found(t.sub)
      BY <2>3 DEF First
    <3>2. u \in UserId /\ users[u] \in Row /\ users[u].sub = t.sub /\ u # NoUser
      BY <3>1, NoUserAssumption DEF Found, IInv, TypeOK
    <3>3. task'[g] = [at |-> "found", sub |-> t.sub, key |-> t.key, user |-> u, keys |-> users[u].keys]
      BY <1>3, <2>3 DEF LookUp
    <3>4. users[u] = [sub |-> t.sub, keys |-> users[u].keys]
      BY <3>2 DEF Row
    <3>5. QED
      BY <3>2, <3>3, <3>4
  <2>4. QED
    BY <2>1, <2>2, <2>3
<1>8. ToldKept'
  BY <1>2, <1>6 DEF Orderly, ToldKept
<1>9. Promise!Next
  BY <1>1, <1>2, ProveStep DEF Orderly
<1>10. QED
  BY <1>5, <1>6, <1>7, <1>8, <1>9 DEF Orderly

LEMMA UpsertOrderly ==
    ASSUME IInv, Orderly, NEW h \in Handler, Upsert(h)
    PROVE  Orderly' /\ [Promise!Next]_(Promise!vars)
<1>0. PICK t : t = task[h]
  OBVIOUS
<1> DEFINE row == [sub |-> t.sub, keys |-> t.keys]
<1>1. /\ t \in [at: {"found", "linking"}, sub: Identity, key: Pubkey,
                user: UserId \cup {NoUser}, keys: SUBSET Pubkey]
      /\ t.at = "found" /\ Writing(h) /\ row \in Row
  BY <1>0, TaskForms DEF Upsert, IInv, TypeOK, Writing, Row
<1>2. PICK u \in UserId :
        /\ IF t.user = NoUser THEN users[u] = NoUser ELSE u = t.user
        /\ users' = [users EXCEPT ![u] = row]
        /\ task' = [task EXCEPT ![h] = [t EXCEPT !.at = "linking", !.user = u]]
  BY <1>0 DEF Upsert
<1>3. UNCHANGED <<proven, told, overlapped>> /\ u # NoUser
  BY NoUserAssumption DEF Upsert
<1>4. /\ task'[h].at = "linking" /\ task'[h].sub = t.sub /\ task'[h].keys = t.keys /\ task'[h].user = u
      /\ \A g \in Handler \ {h} : task'[g] = task[g]
  BY <1>1, <1>2 DEF IInv, TypeOK
<1>5. \A g \in Handler : Writing(g)' => Writing(g) /\ task'[g].sub = task[g].sub
  BY <1>0, <1>1, <1>4 DEF Writing
<1>6. Alone' /\ \A g \in Handler \ {h} : Writing(g) => task[g].sub # t.sub
  BY <1>0, <1>1, <1>5 DEF Orderly, Alone
<1>7. /\ users'[u] = row /\ \A v \in UserId \ {u} : users'[v] = users[v]
      /\ \A s : Found(s)' = IF t.sub = s THEN Found(s) \cup {u} ELSE Found(s) \ {u}
  <2>1. TypeOK /\ row \in Row /\ users' = [users EXCEPT ![u] = row] /\ u \in UserId
    BY <1>1, <1>2 DEF IInv
  <2>2. /\ users'[u] = row /\ \A v \in UserId \ {u} : users'[v] = users[v]
        /\ \A s : Found(s)' = IF row.sub = s THEN Found(s) \cup {u} ELSE Found(s) \ {u}
    <3> HIDE DEF row
    <3>1. QED
      BY <2>1, StoreWrite
  <2>3. QED
    BY <2>2
<1>8. CASE t.user # NoUser
  <2>1. users[u] = row
    BY <1>0, <1>1, <1>2, <1>8 DEF Orderly, Current
  <2>2. users' = users
    BY <1>2, <2>1 DEF IInv, TypeOK
  <2>3. \A s : Found(s)' = Found(s)
    BY <2>2 DEF Found
  <2>4. OneEach' /\ ToldKept'
    BY <1>3, <2>2, <2>3, SameStore DEF Orderly, ToldKept
  <2>5. Current'
    BY <1>3, <1>4, <1>5, <1>7, <2>2, <2>3 DEF Orderly, Current
  <2>6. UNCHANGED Promise!vars
    BY <1>3, <2>2, StutterStep DEF Orderly
  <2>7. QED
    BY <1>6, <2>4, <2>5, <2>6 DEF Orderly
<1>9. CASE t.user = NoUser
  <2>1. users[u] = NoUser /\ Found(t.sub) = {} /\ t.keys = {}
    BY <1>0, <1>1, <1>2, <1>9 DEF Orderly, Current
  <2>2. \A s : u \notin Found(s)
    BY <2>1 DEF Found
  <2>3. Found(t.sub)' = {u} /\ \A s : s # t.sub => Found(s)' = Found(s)
    BY <1>7, <2>1, <2>2
  <2>4. OneEach'
    BY <2>3 DEF Orderly, OneEach
  <2>5. Current'
    <3> SUFFICES ASSUME NEW g \in Handler, Writing(g)'
                 PROVE  /\ task'[g].user = NoUser =>
                              task'[g].at = "found" /\ Found(task[g].sub)' = {} /\ task'[g].keys = {}
                        /\ task'[g].user # NoUser =>
                              task'[g].user \in UserId
                                 /\ users'[task'[g].user] = [sub |-> task'[g].sub, keys |-> task'[g].keys]
      BY DEF Current
    <3>1. CASE g = h
      BY <1>3, <1>4, <1>7, <3>1
    <3>2. CASE g # h
      <4>1. task'[g] = task[g] /\ Writing(g) /\ task[g].sub # t.sub
        BY <1>4, <1>5, <1>6, <3>2
      <4>2. task[g].user # NoUser => task[g].user # u
        <5>1. ASSUME task[g].user # NoUser, task[g].user = u PROVE FALSE
          <6>1. task[g].sub \in Identity /\ task[g].keys \in SUBSET Pubkey
            BY <4>1, TaskForms DEF Writing, IInv, TypeOK
          <6>2. [sub |-> task[g].sub, keys |-> task[g].keys] \in Row
            BY <6>1 DEF Row
          <6>3. QED
            BY <2>1, <4>1, <5>1, <6>2, NoUserAssumption DEF Orderly, Current
        <5>2. QED
          BY <5>1
      <4>3. QED
        BY <1>7, <2>3, <4>1, <4>2 DEF Orderly, Current
    <3>3. QED
      BY <3>1, <3>2
  <2>6. ToldKept'
    <3> SUFFICES ASSUME NEW p \in told PROVE \E v \in Found(p[1])' : p[2] \in users'[v].keys
      BY <1>3 DEF ToldKept
    <3>1. PICK v \in Found(p[1]) : p[2] \in users[v].keys
      BY DEF Orderly, ToldKept
    <3>2. v # u /\ v \in UserId /\ p[1] # t.sub
      BY <2>1, <2>2, <3>1 DEF Found
    <3>3. QED
      BY <1>7, <2>3, <3>1, <3>2
  <2>7. Promise!Next
    <3> DEFINE U == [s \in Identity |-> UserOf(s)]
               K == [s \in Identity |-> KeysOf(s)]
    <3>1. /\ UserOf(t.sub) = NoUser /\ KeysOf(t.sub) = {}
          /\ UserOf(t.sub)' = u /\ KeysOf(t.sub)' = {}
      <4>1. t.sub \in Identity /\ u \in Found(t.sub)' /\ users'[u].keys = {}
        BY <1>1, <1>7, <2>1, <2>3
      <4>2. QED
        BY <2>1, <2>4, <4>1, OnlyOne, OnlyOneAfter DEF OnlyRow, Orderly
    <3>2. \A s \in Identity \ {t.sub} : UserOf(s)' = UserOf(s) /\ KeysOf(s)' = KeysOf(s)
      <4> SUFFICES ASSUME NEW s \in Identity \ {t.sub}
                   PROVE  UserOf(s)' = UserOf(s) /\ KeysOf(s)' = KeysOf(s)
        OBVIOUS
      <4>1. CASE Found(s) = {}
        BY <2>3, <2>4, <4>1, OnlyOne, OnlyOneAfter DEF OnlyRow, Orderly
      <4>2. ASSUME NEW v \in Found(s) PROVE UserOf(s)' = UserOf(s) /\ KeysOf(s)' = KeysOf(s)
        <5>1. v \in Found(s)' /\ users'[v] = users[v]
          BY <1>7, <2>2, <2>3 DEF Found
        <5>2. QED
          BY <2>4, <5>1, OnlyOne, OnlyOneAfter DEF OnlyRow, Orderly
      <4>3. QED
        BY <4>1, <4>2
    <3>3. \A s \in Identity : UserOf(s) # u
      <4>1. \A s \in Identity : UserOf(s) = NoUser \/ UserOf(s) \in Found(s)
        BY OnlyOne DEF OnlyRow, Orderly
      <4>2. QED
        BY <1>3, <2>2, <4>1
    <3>4. U' = [U EXCEPT ![t.sub] = u] /\ K' = K
      BY <1>1, <3>1, <3>2
    <3>5. <<t.sub, t.key>> \in proven /\ t.key \in Pubkey /\ t.sub \in Identity
      BY <1>0, <1>1 DEF IInv, HeldIsProven
    <3>6. Promise!Create(t.sub)
      BY <1>3, <3>1, <3>3, <3>4, <3>5 DEF Promise!Create
    <3>7. QED
      BY <3>5, <3>6 DEF Promise!Next
  <2>8. QED
    BY <1>6, <2>4, <2>5, <2>6, <2>7 DEF Orderly
<1>10. QED
  BY <1>8, <1>9

LEMMA LinkOrderly ==
    ASSUME IInv, Orderly, NEW h \in Handler, Link(h)
    PROVE  Orderly' /\ Promise!Next
<1>0. PICK t : t = task[h]
  OBVIOUS
<1>00. PICK u : u = t.user
  OBVIOUS
<1> DEFINE old == [sub |-> t.sub, keys |-> t.keys]
           row == [sub |-> t.sub, keys |-> t.keys \cup {t.key}]
<1>1. /\ t \in [at: {"found", "linking"}, sub: Identity, key: Pubkey,
                user: UserId \cup {NoUser}, keys: SUBSET Pubkey]
      /\ t.at = "linking" /\ Writing(h) /\ row \in Row /\ old \in Row
  BY <1>0, TaskForms DEF Link, IInv, TypeOK, Writing, Row
<1>2. u \in UserId /\ users[u] = old /\ old # NoUser
  BY <1>0, <1>00, <1>1, NoUserAssumption DEF Orderly, Current
<1>3. /\ task' = [task EXCEPT ![h] = NoTask] /\ told' = told \cup {<<t.sub, t.key>>}
      /\ UNCHANGED <<proven, overlapped>>
  BY <1>0 DEF Link, Answered
<1>4. users' = [users EXCEPT ![u] = row]
  <2>1. CASE t.key \in t.keys
    <3>1. row = old /\ users' = users
      BY <1>0, <2>1 DEF Link
    <3>2. QED
      BY <1>2, <3>1 DEF IInv, TypeOK
  <2>2. CASE t.key \notin t.keys
    BY <1>0, <1>00, <2>2 DEF Link
  <2>3. QED
    BY <2>1, <2>2
<1>5. /\ users'[u] = row /\ \A v \in UserId \ {u} : users'[v] = users[v]
      /\ \A s : Found(s)' = Found(s)
  <2>1. /\ users'[u] = row /\ \A v \in UserId \ {u} : users'[v] = users[v]
        /\ \A s : Found(s)' = IF row.sub = s THEN Found(s) \cup {u} ELSE Found(s) \ {u}
    <3>1. TypeOK /\ row \in Row
      BY <1>1 DEF IInv
    <3> HIDE DEF row
    <3>2. QED
      BY <1>2, <1>4, <3>1, StoreWrite
  <2>2. \A s : u \in Found(s) <=> s = t.sub
    BY <1>2 DEF Found
  <2>3. QED
    BY <2>1, <2>2
<1>6. u \in Found(t.sub)
  BY <1>2 DEF Found
<1>7. \A g \in Handler : Writing(g)' => g # h /\ Writing(g) /\ task'[g] = task[g]
  BY <1>3 DEF Writing, NoTask, IInv, TypeOK
<1>8. Alone' /\ \A g \in Handler \ {h} : Writing(g) => task[g].sub # t.sub
  BY <1>0, <1>1, <1>7 DEF Orderly, Alone
<1>9. OneEach'
  BY <1>5 DEF Orderly, OneEach
<1>10. Current'
  <2> SUFFICES ASSUME NEW g \in Handler, Writing(g)'
               PROVE  /\ task[g].user = NoUser =>
                            task[g].at = "found" /\ Found(task[g].sub)' = {} /\ task[g].keys = {}
                      /\ task[g].user # NoUser =>
                            task[g].user \in UserId
                               /\ users'[task[g].user] = [sub |-> task[g].sub, keys |-> task[g].keys]
    BY <1>7 DEF Current
  <2>1. Writing(g) /\ task[g].sub # t.sub
    BY <1>7, <1>8
  <2>2. CASE task[g].user = NoUser
    <3>1. task[g].at = "found" /\ Found(task[g].sub) = {} /\ task[g].keys = {}
      BY <2>1, <2>2 DEF Orderly, Current
    <3>2. Found(task[g].sub)' = Found(task[g].sub)
      BY <1>5, <1>7 DEF Found
    <3>3. QED
      BY <2>2, <3>1, <3>2
  <2>3. CASE task[g].user # NoUser
    <3>1. /\ task[g].user \in UserId
          /\ users[task[g].user] = [sub |-> task[g].sub, keys |-> task[g].keys]
      BY <2>1, <2>3 DEF Orderly, Current
    <3>2. users[task[g].user].sub = task[g].sub /\ users[u].sub = t.sub
      BY <1>2, <3>1
    <3>3. users'[task[g].user] = users[task[g].user]
      BY <1>5, <2>1, <3>1, <3>2
    <3>4. QED
      BY <2>3, <3>1, <3>3
  <2>4. QED
    BY <2>2, <2>3
<1>11. ToldKept'
  <2> SUFFICES ASSUME NEW p \in told'
               PROVE  \E v \in Found(p[1]) : p[2] \in users'[v].keys
    BY <1>5 DEF ToldKept
  <2>1. CASE p = <<t.sub, t.key>>
    BY <1>5, <1>6, <2>1
  <2>2. CASE p \in told
    <3>1. PICK v \in Found(p[1]) : p[2] \in users[v].keys
      BY <2>2 DEF Orderly, ToldKept
    <3>2. v \in UserId /\ users[v].keys \subseteq users'[v].keys
      BY <1>2, <1>5, <3>1 DEF Found
    <3>3. QED
      BY <3>1, <3>2
  <2>3. QED
    BY <1>3, <2>1, <2>2
<1>12. Promise!Next
  <2> DEFINE U == [s \in Identity |-> UserOf(s)]
             K == [s \in Identity |-> KeysOf(s)]
  <2>1. /\ t.sub \in Identity /\ t.key \in Pubkey /\ <<t.sub, t.key>> \in proven
        /\ OneEach /\ OnlyRow /\ OnlyRow'
    BY <1>0, <1>1, OnlyOne, OnlyOneAfter DEF IInv, HeldIsProven, Orderly
  <2>2. /\ UserOf(t.sub) = u /\ UserOf(t.sub)' = u
        /\ KeysOf(t.sub) = t.keys /\ KeysOf(t.sub)' = t.keys \cup {t.key}
    <3>1. UserOf(t.sub) = u /\ KeysOf(t.sub) = users[u].keys
      BY <1>6, <2>1 DEF OnlyRow
    <3>2. UserOf(t.sub)' = u /\ KeysOf(t.sub)' = users'[u].keys
      BY <1>5, <1>6, <1>9, <2>1 DEF OnlyRow
    <3>3. QED
      BY <1>2, <1>5, <3>1, <3>2
  <2>3. ASSUME NEW s \in Identity, s # t.sub
        PROVE  UserOf(s)' = UserOf(s) /\ KeysOf(s)' = KeysOf(s)
    <3>1. CASE Found(s) = {}
      BY <1>5, <1>9, <2>1, <3>1 DEF OnlyRow
    <3>2. ASSUME NEW v \in Found(s) PROVE UserOf(s)' = UserOf(s) /\ KeysOf(s)' = KeysOf(s)
      <4>1. users'[v] = users[v] /\ v \in Found(s)'
        BY <1>2, <1>5, <2>3, <3>2 DEF Found
      <4>2. QED
        BY <1>9, <2>1, <3>2, <4>1 DEF OnlyRow
    <3>3. QED
      BY <3>1, <3>2
  <2>4. U' = U /\ K' = [K EXCEPT ![t.sub] = @ \cup {t.key}]
    BY <2>1, <2>2, <2>3
  <2>5. Promise!Link(t.sub, t.key)
    BY <1>2, <1>3, <2>1, <2>2, <2>4, NoUserAssumption DEF Promise!Link
  <2>6. QED
    BY <2>1, <2>5 DEF Promise!Next
<1>13. QED
  BY <1>8, <1>9, <1>10, <1>11, <1>12 DEF Orderly

LEMMA InitOrderly == Init => Orderly /\ Promise!Init
<1> SUFFICES ASSUME Init PROVE Orderly /\ Promise!Init
  OBVIOUS
<1>1. \A s : Found(s) = {}
  BY DEF Init, Found
<1>2. OneEach /\ Alone /\ Current /\ ToldKept
  BY <1>1 DEF Init, OneEach, Alone, Current, ToldKept, Writing, NoTask
<1>3. Promise!Init
  BY <1>1 DEF Init, Promise!Init, UserOf, KeysOf
<1>4. QED
  BY <1>2, <1>3 DEF Orderly

LEMMA StepOrderly ==
    ASSUME IInv, overlapped \/ Orderly, [Next]_vars
    PROVE  overlapped' \/ (Orderly' /\ [Promise!Next]_(Promise!vars))
<1> SUFFICES ASSUME ~ overlapped' PROVE Orderly' /\ [Promise!Next]_(Promise!vars)
  OBVIOUS
<1>0. Orderly
  BY DEF Next, vars, Begin, Verify, Upsert, Link, Answered, Reload
<1>1. ASSUME users' = users, told' = told, proven' = proven,
             \A g \in Handler : Writing(g)' => Writing(g) /\ task'[g] = task[g]
      PROVE  Orderly' /\ UNCHANGED Promise!vars
  BY <1>0, <1>1, ReadOnlyOrderly, StutterStep DEF IInv, Orderly
<1>2. ASSUME NEW h \in Handler, NEW s \in Identity, NEW k \in Pubkey, Begin(h, s, k)
      PROVE  Orderly' /\ UNCHANGED Promise!vars
  <2>1. UNCHANGED <<users, told, proven>>
    BY <1>2 DEF Begin
  <2>2. \A g \in Handler : Writing(g)' => Writing(g) /\ task'[g] = task[g]
    BY <1>2 DEF Begin, Writing, IInv, TypeOK
  <2>3. QED
    BY <1>1, <2>1, <2>2
<1>3. ASSUME NEW h \in Handler, Verify(h, FALSE)
      PROVE  Orderly' /\ UNCHANGED Promise!vars
  <2>1. UNCHANGED <<users, told, proven>>
    BY <1>3 DEF Verify
  <2>2. \A g \in Handler : Writing(g)' => Writing(g) /\ task'[g] = task[g]
    BY <1>3 DEF Verify, Writing, NoTask, IInv, TypeOK
  <2>3. QED
    BY <1>1, <2>1, <2>2
<1>4. ASSUME NEW h \in Handler, Verify(h, TRUE)
      PROVE  Orderly' /\ Promise!Next
  BY <1>0, <1>4, VerifyOrderly
<1>5. ASSUME NEW h \in Handler, Upsert(h)
      PROVE  Orderly' /\ [Promise!Next]_(Promise!vars)
  BY <1>0, <1>5, UpsertOrderly
<1>6. ASSUME NEW h \in Handler, Link(h)
      PROVE  Orderly' /\ Promise!Next
  BY <1>0, <1>6, LinkOrderly
<1>7. CASE Reload
  <2>1. UNCHANGED <<users, told, proven>> /\ \A g \in Handler : ~ Writing(g)'
    BY <1>7 DEF Reload, Writing, NoTask
  <2>2. QED
    BY <1>1, <2>1
<1>8. CASE UNCHANGED vars
  <2>1. UNCHANGED <<users, told, proven, task>> /\ \A g \in Handler : Writing(g)' = Writing(g)
    BY <1>8 DEF vars, Writing
  <2>2. QED
    BY <1>1, <2>1
<1>9. QED
  BY <1>2, <1>3, <1>4, <1>5, <1>6, <1>7, <1>8 DEF Next

(* As long as no two sign-ins of one identity overlap, the accounts are    *)
(* the directory: one user per identity, keyed by its `sub`, its links     *)
(* only ever added to.                                                     *)
THEOREM DirectoryTheorem == Spec => ImplementsDirectory
<1>1. Init => overlapped \/ Orderly
  BY InitOrderly
<1>2. IInv /\ (overlapped \/ Orderly) /\ [Next]_vars => (overlapped \/ Orderly)'
  BY StepOrderly
<1>3. IInv /\ (overlapped \/ Orderly) /\ [Next]_vars
        => [overlapped' \/ (OneEach' /\ [Promise!Next]_(Promise!vars))]_vars
  BY StepOrderly DEF Orderly
<1>4. Init => Promise!Init
  BY InitOrderly
<1>5. QED
  BY <1>1, <1>2, <1>3, <1>4, Invariance, PTL DEF Spec, ImplementsDirectory

(* A sign-in that was answered stays linked, and its key finds a user,     *)
(* until two sign-ins of one identity overlap.                             *)
THEOREM ToldTheorem == Spec => []ToldIsLinked
<1>1. Init => overlapped \/ Orderly
  BY InitOrderly
<1>2. IInv /\ (overlapped \/ Orderly) /\ [Next]_vars => (overlapped \/ Orderly)'
  BY StepOrderly
<1>3. IInv /\ (overlapped \/ Orderly) => ToldIsLinked
  <2> SUFFICES ASSUME IInv, Orderly, NEW p \in told
               PROVE  p[2] \in KeysOf(p[1]) /\ CurrentUser(p[2]) # NoUser
    BY DEF ToldIsLinked
  <2> DEFINE us == {u \in UserId : users[u] # NoUser /\ p[2] \in users[u].keys}
  <2>1. PICK u \in Found(p[1]) : p[2] \in users[u].keys
    BY DEF Orderly, ToldKept
  <2>2. u \in us
    BY <2>1 DEF Found
  <2>3. First(us) \in us
    BY <2>2 DEF First
  <2>4. CurrentUser(p[2]) # NoUser
    BY <2>2, <2>3, NoUserAssumption DEF CurrentUser
  <2>5. p[2] \in KeysOf(p[1])
    <3>1. p[1] \in Identity
      BY DEF IInv, TypeOK
    <3>2. QED
      BY <2>1, <3>1, OnlyOne DEF OnlyRow, Orderly
  <2>6. QED
    BY <2>4, <2>5
<1>4. QED
  BY <1>1, <1>2, <1>3, Invariance, PTL DEF Spec
=============================================================================
