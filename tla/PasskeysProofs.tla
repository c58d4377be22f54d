--------------------------- MODULE PasskeysProofs ---------------------------
(* Passkeys, proved for any people, keys, links and requests at once: who   *)
(* has a passkey is a passkey account and no operator, and a counter value  *)
(* and a set-up link are used once, whatever statements come between those  *)
(* of a sign-in, a set-up, a removal and an administrator's.                *)
EXTENDS Passkeys, FiniteSetTheorems, WellFoundedInduction, TLAPS

Pcs == {"check", "account", "use", "sync", "session", "code", "options", "known", "link", "store",
        "answer", "count", "lock", "remove", "sessions", "codes", "tokens",
        "make", "issue", "disable", "enable"}
Ops == {"signin", "options", "setup", "own", "admin", "issue", "disable", "enable"}

Task == [op : Ops, pc : Pcs, row : Rows \cup {NoRow}, key : KeyIds \cup {0}, count : 0..MaxCount,
         cli : BOOLEAN, role : Roles, link : LinkIds \cup {0}, left : Nat]

\* A row an account can be made of without making an operator one.
Eligible(us, row) == us[row].ext \in Idents \/ us[row].role # "operator"

\* What a request that is under way knows, whatever has happened since it
\* learned it.
TaskOK(us, t) ==
  /\ t \in Task
  /\ t.pc # "check" => t.row \in Rows /\ Exists(us, t.row)
  /\ t.pc \in {"check", "account", "use", "known", "link", "answer", "store"} => t.key \in KeyIds
  /\ t.pc \in {"answer", "store"} => PasskeyRow(us, t.row)
  /\ t.pc = "answer" => t.op = "own" /\ t.link = 0
  /\ t.pc = "make" => Eligible(us, t.row)
  /\ t.pc \in {"check", "use"} => t.op = "signin"
  /\ t.pc = "check" => t.link = 0
  /\ t.op = "signin" => (t.key \in Counting <=> t.count > 0)

TasksOK == /\ task \in [Slots -> Task \cup {Idle}]
           /\ \A h \in Slots : task[h] # Idle => TaskOK(users, task[h])

\* The tables are consistent, and requests know what they should.
Sane ==
  /\ UsersOK(users) /\ CredsOK(users, creds) /\ KeysOK(users, keys)
  /\ OwnersOK(users, links, LinkIds) /\ OwnersOK(users, challenges, ChallengeIds)
  /\ flows \in [FlowIds -> FlowRow \cup {Unused, Ended}]
  /\ TasksOK

\* A counter value that was accepted is not above the stored one, for as long
\* as the key is there; and a key that was removed does not come back.
Counted ==
  /\ accepted \subseteq Counting \X (1..MaxCount)
  /\ \A u \in accepted : /\ keys[u[1]] # Unused
                         /\ Open(keys, u[1]) => keys[u[1]].count >= u[2]
  /\ copies = {}

\* The requests that have taken link l and may still make a passkey of it.
Claims(h, l) == task[h].pc \in {"account", "store"} /\ task[h].link = l

\* A link is taken by one request, makes its passkey after that, and is not
\* given out again.
Linked ==
  /\ made \in [LinkIds -> SUBSET KeyIds]
  /\ \A l \in LinkIds : links[l] # Ended => made[l] = {} /\ \A h \in Slots : ~Claims(h, l)
  /\ \A l \in LinkIds, h \in Slots : Claims(h, l) => made[l] = {}
  /\ \A l \in LinkIds, g, h \in Slots : Claims(g, l) /\ Claims(h, l) => g = h
  /\ \A l \in LinkIds : \A j, k \in made[l] : j = k

\* The inductive invariant.
Inv == Sane /\ Counted /\ Linked

-----------------------------------------------------------------------------
(* What the statements on people keep.                                     *)

\* From table us to table vs nobody is removed, a passkey account stays one,
\* and a row that may become one still may.
Grows(us, vs) ==
  \A row \in Rows :
    Exists(us, row) => /\ Exists(vs, row)
                       /\ IsPasskeyAccount(us[row].ext) => IsPasskeyAccount(vs[row].ext)
                       /\ Eligible(us, row) => Eligible(vs, row)

LEMMA Least ==
  ASSUME NEW T, T \subseteq Nat, T # {}
  PROVE  \E i \in T : \A j \in T : i <= j
  <1> DEFINE R == {ss \in Nat \X Nat : ss[1] < ss[2]}
  <1>1. OpToRel(<, Nat) = R
    BY Zenon DEF OpToRel
  <1>2. IsWellFoundedOn(R, Nat)
    BY <1>1, NatLessThanWellFounded, Zenon
  <1>3. T \subseteq Nat /\ T # {}
    OBVIOUS
  <1> HIDE DEF R
  <1>4. \E x \in T : \A y \in T : ~(<<y, x>> \in R)
    BY <1>2, <1>3, WFMin, Zenon
  <1>5. PICK x \in T : \A y \in T : ~(<<y, x>> \in R)
    BY <1>4
  <1>6. ASSUME NEW y \in T PROVE x <= y
    <2>1. x \in Nat /\ y \in Nat
      BY <1>3
    <2>2. <<y, x>> \in R <=> y < x
      BY <2>1 DEF R
    <2> QED
      BY <1>5, <2>1, <2>2
  <1> QED
    BY <1>6

LEMMA FirstFreshIsFresh ==
  ASSUME NEW table, DOMAIN table \subseteq Nat, Fresh(table) # {}
  PROVE  FirstFresh(table) \in DOMAIN table /\ table[FirstFresh(table)] = Unused
  <1>1. \E i \in Fresh(table) : \A j \in Fresh(table) : i <= j
    BY Least DEF Fresh
  <1>2. FirstFresh(table) \in Fresh(table)
    BY <1>1 DEF FirstFresh
  <1> QED
    BY <1>2 DEF Fresh

LEMMA UserAt ==
  ASSUME NEW us, UsersOK(us), NEW row \in Rows
  PROVE  /\ Exists(us, row) <=> us[row] \in UserRow
         /\ Exists(us, row) => /\ us[row].ext \in Idents \cup {NoExt, OperatorKey}
                                                    \cup {PasskeyExternalID(r) : r \in Rows}
                               /\ us[row].role \in Roles /\ us[row].email \in Emails
                               /\ us[row].off \in BOOLEAN
  BY PasskeysAssumption DEF PasskeysAssumption, UsersOK, Exists, UserRow, ExternalIDs

LEMMA IdentIsNoPasskey ==
  ASSUME NEW d \in Idents
  PROVE  ~IsPasskeyAccount(d)
  BY PasskeysAssumption DEF PasskeysAssumption, IsPasskeyAccount

LEMMA PasskeyIsPasskey ==
  ASSUME NEW row \in Rows
  PROVE  IsPasskeyAccount(PasskeyExternalID(row))
  BY PasskeysAssumption DEF PasskeysAssumption, IsPasskeyAccount, PasskeyExternalID

LEMMA GrowsItself ==
  ASSUME NEW us
  PROVE  Grows(us, us)
  BY DEF Grows

LEMMA GrowsOn ==
  ASSUME NEW us, NEW vs, NEW ws, Grows(us, vs), Grows(vs, ws)
  PROVE  Grows(us, ws)
  BY DEF Grows

\* One row is written.
LEMMA RowWritten ==
  ASSUME NEW us, UsersOK(us), NEW row \in Rows, NEW u \in UserRow,
         IsPasskeyAccount(u.ext) => u.role # "operator",
         Exists(us, row) => /\ IsPasskeyAccount(us[row].ext) => IsPasskeyAccount(u.ext)
                            /\ Eligible(us, row) => u.ext \in Idents \/ u.role # "operator"
  PROVE  /\ UsersOK([us EXCEPT ![row] = u])
         /\ Grows(us, [us EXCEPT ![row] = u])
  <1> DEFINE vs == [us EXCEPT ![row] = u]
  <1>1. us \in [Rows -> UserRow \cup {NoRow}]
    BY DEF UsersOK
  <1>2. /\ vs \in [Rows -> UserRow \cup {NoRow}]
        /\ vs[row] = u
        /\ \A r \in Rows : r # row => vs[r] = us[r]
    BY <1>1
  <1>3. Exists(vs, row)
    BY <1>2, PasskeysAssumption DEF PasskeysAssumption, Exists
  <1> HIDE DEF vs
  <1>4. ASSUME NEW r \in Rows, PasskeyRow(vs, r)
        PROVE  vs[r].role # "operator"
    <2>1. CASE r = row
      BY <1>2, <1>4, <2>1 DEF PasskeyRow
    <2>2. CASE r # row
      BY <1>2, <1>4, <2>2 DEF PasskeyRow, UsersOK, Exists
    <2> QED
      BY <2>1, <2>2
  <1>5. ASSUME NEW r \in Rows, Exists(us, r)
        PROVE  /\ Exists(vs, r)
               /\ IsPasskeyAccount(us[r].ext) => IsPasskeyAccount(vs[r].ext)
               /\ Eligible(us, r) => Eligible(vs, r)
    <2>1. CASE r = row
      BY <1>2, <1>3, <1>5, <2>1 DEF Eligible
    <2>2. CASE r # row
      BY <1>2, <1>5, <2>2 DEF Eligible, Exists
    <2> QED
      BY <2>1, <2>2
  <1>6. UsersOK(vs) /\ Grows(us, vs)
    BY <1>2, <1>4, <1>5 DEF UsersOK, Grows
  <1> QED
    BY <1>6 DEF vs

\* SetUserRole, to a role that does not make an operator of a passkey account.
LEMMA RoleSet ==
  ASSUME NEW us, UsersOK(us), NEW row \in Rows, Exists(us, row), NEW role \in Roles,
         role # "operator" \/ us[row].ext \in Idents
  PROVE  UsersOK(SetUserRole(us, row, role)) /\ Grows(us, SetUserRole(us, row, role))
  <1> DEFINE u == [us[row] EXCEPT !.role = role]
  <1>1. us[row] \in UserRow
    BY UserAt
  <1>2. u \in UserRow /\ u.ext = us[row].ext /\ u.role = role
    BY <1>1 DEF UserRow, ExternalIDs
  <1>3. SetUserRole(us, row, role) = [us EXCEPT ![row] = u]
    BY DEF SetUserRole, UsersOK
  <1> HIDE DEF u
  <1>4. IsPasskeyAccount(u.ext) => u.role # "operator"
    BY <1>2, IdentIsNoPasskey
  <1>5. UsersOK([us EXCEPT ![row] = u]) /\ Grows(us, [us EXCEPT ![row] = u])
    BY <1>2, <1>4, RowWritten
  <1> QED
    BY <1>3, <1>5

\* DisableUser and EnableUser on the row itself.
LEMMA OffSet ==
  ASSUME NEW us, UsersOK(us), NEW row \in Rows, Exists(us, row), NEW b \in BOOLEAN
  PROVE  UsersOK([us EXCEPT ![row].off = b]) /\ Grows(us, [us EXCEPT ![row].off = b])
  <1> DEFINE u == [us[row] EXCEPT !.off = b]
  <1>1. us[row] \in UserRow
    BY UserAt
  <1>2. u \in UserRow /\ u.ext = us[row].ext /\ u.role = us[row].role
    BY <1>1 DEF UserRow, ExternalIDs
  <1>3. [us EXCEPT ![row].off = b] = [us EXCEPT ![row] = u]
    BY DEF UsersOK
  <1> HIDE DEF u
  <1>4. IsPasskeyAccount(u.ext) => u.role # "operator"
    BY <1>2 DEF UsersOK, PasskeyRow
  <1>5. Eligible(us, row) => u.ext \in Idents \/ u.role # "operator"
    BY <1>2 DEF Eligible
  <1>6. UsersOK([us EXCEPT ![row] = u]) /\ Grows(us, [us EXCEPT ![row] = u])
    BY <1>2, <1>4, <1>5, RowWritten
  <1> QED
    BY <1>3, <1>6

\* MakePasskeyAccount.
LEMMA AccountMade ==
  ASSUME NEW us, UsersOK(us), NEW row \in Rows, Exists(us, row), Eligible(us, row),
         OK(MakePasskeyAccount(us, row))
  PROVE  /\ UsersOK(MakePasskeyAccount(us, row).users)
         /\ Grows(us, MakePasskeyAccount(us, row).users)
  <1> DEFINE u == [us[row] EXCEPT !.ext = PasskeyExternalID(row)]
  <1>1. us[row] \in UserRow
    BY UserAt
  <1>2. u \in UserRow /\ u.ext = PasskeyExternalID(row) /\ u.role = us[row].role
    BY <1>1 DEF UserRow, ExternalIDs
  <1>3. us[row].ext \in {NoExt, PasskeyExternalID(row)}
    BY DEF MakePasskeyAccount, OK, Refused
  <1>4. MakePasskeyAccount(us, row).users = [us EXCEPT ![row] = u]
    BY <1>3 DEF MakePasskeyAccount, UsersOK
  <1> HIDE DEF u
  <1>5. IsPasskeyAccount(PasskeyExternalID(row))
    BY PasskeyIsPasskey
  <1>6. us[row].ext \notin Idents
    BY <1>3, <1>5, IdentIsNoPasskey, PasskeysAssumption DEF PasskeysAssumption
  <1>7. u.role # "operator"
    BY <1>2, <1>6 DEF Eligible
  <1>8. UsersOK([us EXCEPT ![row] = u]) /\ Grows(us, [us EXCEPT ![row] = u])
    BY <1>2, <1>5, <1>7, RowWritten
  <1> QED
    BY <1>4, <1>8

\* AddUser, for a passkey account.
LEMMA UserAdded ==
  ASSUME NEW us, UsersOK(us), NEW org \in Orgs, NEW email \in Emails,
         NEW role \in Roles \ {"operator"}, NEW ext, ext = PasskeyExternalID(<<org, email>>),
         OK(AddUser(us, org, email, ext, role))
  PROVE  /\ UsersOK(AddUser(us, org, email, ext, role).users)
         /\ Grows(us, AddUser(us, org, email, ext, role).users)
         /\ Exists(AddUser(us, org, email, ext, role).users, <<org, email>>)
  <1> DEFINE row == <<org, email>>
             u == User(email, ext, role)
             vs == [us EXCEPT ![row] = u]
  <1>1. row \in Rows
    BY DEF Rows
  <1>2. u \in UserRow /\ u.ext = ext /\ u.role = role
    BY <1>1 DEF UserRow, ExternalIDs, User
  <1>3. AddUser(us, org, email, ext, role).users = vs /\ ~Exists(us, row)
    BY DEF AddUser, OK, Refused
  <1> HIDE DEF u, row
  <1>4. UsersOK(vs) /\ Grows(us, vs)
    BY <1>1, <1>2, <1>3, RowWritten
  <1>5. vs[row] = u
    BY <1>1 DEF UsersOK
  <1>6. Exists(vs, row)
    BY <1>1, <1>2, <1>5, PasskeysAssumption DEF PasskeysAssumption, Exists
  <1> QED
    BY <1>3, <1>4, <1>6 DEF row

\* An address that follows the directory changes nothing else.
LEMMA AddressFollows ==
  ASSUME NEW us, UsersOK(us), NEW d \in Idents, NEW email \in Emails,
         OK(FollowDirectory(us, d, email))
  PROVE  /\ UsersOK(FollowDirectory(us, d, email).users)
         /\ Grows(us, FollowDirectory(us, d, email).users)
         /\ \A r \in RowsOf(us, d) : FollowDirectory(us, d, email).users[r].ext = d
  <1> DEFINE vs == [r \in Rows |-> IF r \in RowsOf(us, d) THEN [us[r] EXCEPT !.email = email] ELSE us[r]]
  <1>1. FollowDirectory(us, d, email).users = vs
    BY DEF FollowDirectory, OK, Refused
  <1>2. ASSUME NEW r \in Rows
        PROVE  /\ vs[r] \in UserRow \cup {NoRow}
               /\ Exists(vs, r) <=> Exists(us, r)
               /\ Exists(us, r) => vs[r].ext = us[r].ext /\ vs[r].role = us[r].role
    <2>1. CASE r \in RowsOf(us, d)
      <3>1. Exists(us, r)
        BY <2>1 DEF RowsOf
      <3>2. us[r] \in UserRow
        BY <3>1, UserAt
      <3>3. vs[r] = [us[r] EXCEPT !.email = email]
        BY <2>1
      <3>4. vs[r] \in UserRow /\ vs[r].ext = us[r].ext /\ vs[r].role = us[r].role
        BY <3>2, <3>3 DEF UserRow, ExternalIDs
      <3>5. Exists(vs, r)
        BY <3>4, PasskeysAssumption DEF PasskeysAssumption, Exists
      <3> QED
        BY <3>1, <3>4, <3>5
    <2>2. CASE r \notin RowsOf(us, d)
      <3>1. vs[r] = us[r]
        BY <2>2
      <3> QED
        BY <3>1 DEF UsersOK, Exists
    <2> QED
      BY <2>1, <2>2
  <1>3. vs \in [Rows -> UserRow \cup {NoRow}]
    BY <1>2
  <1> HIDE DEF vs
  <1>4. UsersOK(vs)
    BY <1>2, <1>3 DEF UsersOK, PasskeyRow
  <1>5. Grows(us, vs)
    BY <1>2 DEF Grows, Eligible
  <1>6. \A r \in RowsOf(us, d) : vs[r].ext = d
    BY <1>2 DEF RowsOf
  <1> QED
    BY <1>1, <1>4, <1>5, <1>6

\* LinkUser, for a person who has a row or finds one made for the address.
LEMMA DirectoryLinks ==
  ASSUME NEW us, UsersOK(us), NEW d \in Idents, NEW row \in Rows, Exists(us, row), NEW res,
         res = LinkUser(us, OrgOf(row), us[row].email, d, "member"), OK(res), res.row = row
  PROVE  /\ UsersOK(res.users) /\ Grows(us, res.users)
         /\ Exists(res.users, row) /\ res.users[row].ext = d
  <1> DEFINE org == OrgOf(row)
             email == us[row].email
             mine == {r \in RowsOf(us, d) : OrgOf(r) = org}
             at == At(us, org, email)
  <1>0. email \in Emails /\ us[row] \in UserRow
    BY UserAt
  <1>1. row \in at
    BY DEF At
  <1>2. CASE mine # {}
    <2> DEFINE r == CHOOSE r \in mine : TRUE
    <2>1. r \in mine
      BY <1>2
    <2>2. \/ res = [row |-> r, users |-> us]
          \/ /\ OK(FollowDirectory(us, d, email))
             /\ res = [row |-> r, users |-> FollowDirectory(us, d, email).users]
      BY <1>2 DEF LinkUser
    <2> HIDE DEF r
    <2>3. row \in RowsOf(us, d)
      BY <2>1, <2>2
    <2>4. CASE res = [row |-> r, users |-> us]
      BY <2>3, <2>4, GrowsItself DEF RowsOf
    <2>5. CASE /\ OK(FollowDirectory(us, d, email))
               /\ res = [row |-> r, users |-> FollowDirectory(us, d, email).users]
      <3>1. /\ UsersOK(res.users) /\ Grows(us, res.users)
            /\ \A q \in RowsOf(us, d) : res.users[q].ext = d
        BY <1>0, <2>5, AddressFollows
      <3> QED
        BY <2>3, <3>1 DEF Grows
    <2> QED
      BY <2>2, <2>4, <2>5
  <1>3. CASE mine = {}
    <2> DEFINE r == CHOOSE r \in at : TRUE
               u == [us[row] EXCEPT !.ext = d]
               vs == [us EXCEPT ![r].ext = d]
    <2>1. r \in at
      BY <1>1
    <2>2. us[r].ext = NoExt /\ res = [row |-> r, users |-> vs]
      BY <1>1, <1>3 DEF LinkUser, OK, Refused
    <2> HIDE DEF r
    <2>3. r = row
      BY <2>2
    <2>4. u \in UserRow /\ u.ext = d /\ u.role = us[row].role
      BY <1>0 DEF UserRow, ExternalIDs
    <2>5. res.users = [us EXCEPT ![row] = u]
      <3>0. res.users = vs
        <4> HIDE DEF vs
        <4> QED
          BY <2>2
      <3>1. res.users = [us EXCEPT ![row].ext = d]
        BY <2>3, <3>0, Zenon
      <3>2. us \in [Rows -> UserRow \cup {NoRow}]
        BY DEF UsersOK
      <3>3. [us EXCEPT ![row].ext = d] = [us EXCEPT ![row] = u]
        BY <3>2
      <3> QED
        BY <3>1, <3>3
    <2> HIDE DEF u
    <2>6. ~IsPasskeyAccount(us[row].ext) /\ ~IsPasskeyAccount(u.ext)
      BY <2>2, <2>3, <2>4, IdentIsNoPasskey DEF IsPasskeyAccount
    <2>7. UsersOK(res.users) /\ Grows(us, res.users)
      BY <2>4, <2>5, <2>6, RowWritten
    <2>8. res.users[row] = u
      BY <2>5 DEF UsersOK
    <2> QED
      BY <2>4, <2>7, <2>8 DEF Grows
  <1> QED
    BY <1>2, <1>3

\* What syncRole stores after a sign-in with a passkey is never operator.
LEMMA RoleSynced ==
  ASSUME NEW row, NEW email, NEW stored \in Roles
  PROVE  SyncedRole(Providers, Orgs, row, email, stored, "member") \in Roles \ {"operator"}
  <1>1. RoleAtSignIn(Providers, stored, "member") \in Roles \ {"operator"}
    BY DEF RoleAtSignIn, Roles
  <1> QED
    BY <1>1 DEF SyncedRole, Roles

-----------------------------------------------------------------------------
(* What the tables and the requests refer to is kept when people change.   *)

LEMMA CredsStay ==
  ASSUME NEW us, NEW vs, Grows(us, vs), NEW cs, CredsOK(us, cs)
  PROVE  CredsOK(vs, cs)
  <1>1. \A i \in CredIds : Open(cs, i) => cs[i] \in CredRow
    BY DEF CredsOK, Open
  <1>2. \A i \in CredIds : Open(cs, i) => cs[i].row \in Rows
    BY <1>1 DEF CredRow
  <1> QED
    BY <1>2 DEF CredsOK, Grows

LEMMA KeysStay ==
  ASSUME NEW us, NEW vs, Grows(us, vs), NEW ks, KeysOK(us, ks)
  PROVE  KeysOK(vs, ks)
  BY DEF KeysOK, Grows, PasskeyRow

LEMMA OwnersStay ==
  ASSUME NEW us, NEW vs, Grows(us, vs), NEW table, NEW ids, OwnersOK(us, table, ids)
  PROVE  OwnersOK(vs, table, ids)
  <1>1. \A i \in ids : Open(table, i) => table[i] \in Rows
    BY DEF OwnersOK, Open
  <1> QED
    BY <1>1 DEF OwnersOK, Grows

LEMMA TaskStays ==
  ASSUME NEW us, NEW vs, Grows(us, vs), NEW t, TaskOK(us, t)
  PROVE  TaskOK(vs, t)
  <1>1. t.pc # "check" => t.row \in Rows /\ Exists(vs, t.row)
    BY DEF TaskOK, Grows
  <1>2. t.pc \in {"answer", "store"} => PasskeyRow(vs, t.row)
    BY DEF TaskOK, Grows, PasskeyRow
  <1>3. t.pc = "make" => Eligible(vs, t.row)
    BY DEF TaskOK, Grows
  <1> QED
    BY <1>1, <1>2, <1>3 DEF TaskOK

\* A step of one request, or of the surroundings.
LEMMA Moves ==
  ASSUME Sane, UsersOK(users'), Grows(users, users'),
         CredsOK(users', creds'), KeysOK(users', keys'),
         OwnersOK(users', links', LinkIds), OwnersOK(users', challenges', ChallengeIds),
         flows' \in [FlowIds -> FlowRow \cup {Unused, Ended}],
         NEW h \in Slots, NEW t, task' = [task EXCEPT ![h] = t], t = Idle \/ TaskOK(users', t)
  PROVE  Sane'
  <1>1. task \in [Slots -> Task \cup {Idle}]
    BY DEF Sane, TasksOK
  <1>2. t \in Task \cup {Idle}
    BY DEF TaskOK
  <1>3. task' \in [Slots -> Task \cup {Idle}]
    BY <1>1, <1>2
  <1>4. ASSUME NEW g \in Slots, task'[g] # Idle
        PROVE  TaskOK(users', task'[g])
    <2>1. CASE g = h
      BY <1>1, <1>4, <2>1
    <2>2. CASE g # h
      <3>1. task'[g] = task[g]
        BY <1>1, <2>2
      <3>2. TaskOK(users, task[g])
        BY <1>4, <3>1 DEF Sane, TasksOK
      <3>3. TaskOK(users', task[g])
        BY <3>2, TaskStays
      <3> QED
        BY <3>1, <3>3
    <2> QED
      BY <2>1, <2>2
  <1>5. TasksOK'
    BY <1>3, <1>4 DEF TasksOK
  <1> QED
    BY <1>5 DEF Sane

\* The same when nobody's task moves.
LEMMA Rests ==
  ASSUME Sane, UsersOK(users'), Grows(users, users'),
         CredsOK(users', creds'), KeysOK(users', keys'),
         OwnersOK(users', links', LinkIds), OwnersOK(users', challenges', ChallengeIds),
         flows' \in [FlowIds -> FlowRow \cup {Unused, Ended}],
         task' = task
  PROVE  Sane'
  <1>1. ASSUME NEW g \in Slots, task[g] # Idle
        PROVE  TaskOK(users', task[g])
    BY <1>1, TaskStays DEF Sane, TasksOK
  <1>2. TasksOK'
    BY <1>1 DEF TasksOK, Sane
  <1> QED
    BY <1>2 DEF Sane

\* A step that only moves a request.
LEMMA OnlyMoves ==
  ASSUME Sane, UNCHANGED <<users, creds, flows, keys, links, challenges>>,
         NEW h \in Slots, NEW t, Run(h, t), t = Idle \/ TaskOK(users, t)
  PROVE  Sane'
  <1>1. Grows(users, users')
    BY GrowsItself
  <1> QED
    BY <1>1, Moves DEF Sane, Run

\* A request that is under way.
LEMMA UnderWay ==
  ASSUME Sane, NEW h \in Slots, task[h].pc # "idle"
  PROVE  TaskOK(users, task[h])
  BY DEF Sane, TasksOK, Idle

\* One cell is written, wherever it is.
LEMMA SetAt ==
  ASSUME NEW S, NEW T, NEW f \in [S -> T], NEW x, NEW v \in T
  PROVE  /\ [f EXCEPT ![x] = v] \in [S -> T]
         /\ \A y \in S : [f EXCEPT ![x] = v][y] = IF y = x THEN v ELSE f[y]
  OBVIOUS

LEMMA OwnersSet ==
  ASSUME NEW us, NEW table, NEW ids, OwnersOK(us, table, ids), NEW x,
         NEW v, v = Ended \/ (v \in Rows /\ Exists(us, v))
  PROVE  OwnersOK(us, [table EXCEPT ![x] = v], ids)
  <1>1. table \in [ids -> Rows \cup {Unused, Ended}] /\ v \in Rows \cup {Unused, Ended}
    BY DEF OwnersOK
  <1> DEFINE new == [table EXCEPT ![x] = v]
  <1>2. new \in [ids -> Rows \cup {Unused, Ended}] /\ \A y \in ids : new[y] = IF y = x THEN v ELSE table[y]
    BY <1>1, SetAt
  <1> HIDE DEF new
  <1>3. \A i \in ids : Open(new, i) => Exists(us, new[i])
    BY <1>2 DEF OwnersOK, Open
  <1>4. OwnersOK(us, new, ids)
    BY <1>2, <1>3 DEF OwnersOK
  <1> QED
    BY <1>4 DEF new

LEMMA CredsSet ==
  ASSUME NEW us, NEW cs, CredsOK(us, cs), NEW x,
         NEW v \in CredRow, Exists(us, v.row)
  PROVE  CredsOK(us, [cs EXCEPT ![x] = v])
  <1>1. cs \in [CredIds -> CredRow \cup {Unused, Ended}] /\ v \in CredRow \cup {Unused, Ended}
    BY DEF CredsOK
  <1> DEFINE new == [cs EXCEPT ![x] = v]
  <1>2. new \in [CredIds -> CredRow \cup {Unused, Ended}] /\ \A y \in CredIds : new[y] = IF y = x THEN v ELSE cs[y]
    BY <1>1, SetAt
  <1> HIDE DEF new
  <1>3. \A i \in CredIds : Open(new, i) => Exists(us, new[i].row)
    BY <1>2 DEF CredsOK, Open
  <1>4. CredsOK(us, new)
    BY <1>2, <1>3 DEF CredsOK
  <1> QED
    BY <1>4 DEF new

LEMMA KeysSet ==
  ASSUME NEW us, NEW ks, KeysOK(us, ks), NEW x,
         NEW v, v = Ended \/ (v \in KeyRow /\ PasskeyRow(us, v.owner))
  PROVE  KeysOK(us, [ks EXCEPT ![x] = v])
  <1>1. ks \in [KeyIds -> KeyRow \cup {Unused, Ended}] /\ v \in KeyRow \cup {Unused, Ended}
    BY DEF KeysOK
  <1> DEFINE new == [ks EXCEPT ![x] = v]
  <1>2. new \in [KeyIds -> KeyRow \cup {Unused, Ended}] /\ \A y \in KeyIds : new[y] = IF y = x THEN v ELSE ks[y]
    BY <1>1, SetAt
  <1> HIDE DEF new
  <1>3. \A k \in KeyIds : Open(new, k) => PasskeyRow(us, new[k].owner)
    BY <1>2 DEF KeysOK, Open
  <1>4. KeysOK(us, new)
    BY <1>2, <1>3 DEF KeysOK
  <1> QED
    BY <1>4 DEF new

LEMMA CredsDeleted ==
  ASSUME NEW us, NEW cs, CredsOK(us, cs), NEW which
  PROVE  CredsOK(us, DeleteCreds(cs, which))
  <1> DEFINE new == DeleteCreds(cs, which)
  <1>1. DOMAIN cs = CredIds
    BY DEF CredsOK
  <1>2. new = [i \in CredIds |-> IF i \in which THEN Ended ELSE cs[i]]
    BY <1>1 DEF DeleteCreds
  <1> HIDE DEF new
  <1>3. new \in [CredIds -> CredRow \cup {Unused, Ended}] /\ \A i \in CredIds : new[i] = Ended \/ new[i] = cs[i]
    BY <1>2 DEF CredsOK
  <1>4. \A i \in CredIds : Open(new, i) => Exists(us, new[i].row)
    BY <1>3 DEF CredsOK, Open
  <1>5. CredsOK(us, new)
    BY <1>3, <1>4 DEF CredsOK
  <1> QED
    BY <1>5 DEF new

\* A new task.
LEMMA NewTask ==
  ASSUME NEW op \in Ops, NEW pc \in Pcs, NEW row \in Rows \cup {NoRow}, NEW k \in KeyIds \cup {0}
  PROVE  /\ TaskOf(op, pc, row, k) \in Task
         /\ TaskOf(op, pc, row, k).op = op /\ TaskOf(op, pc, row, k).pc = pc
         /\ TaskOf(op, pc, row, k).row = row /\ TaskOf(op, pc, row, k).key = k
         /\ TaskOf(op, pc, row, k).count = 0 /\ TaskOf(op, pc, row, k).link = 0
  BY PasskeysAssumption DEF PasskeysAssumption, TaskOf, Task, Roles

\* An open row of a table.
LEMMA OwnerAt ==
  ASSUME NEW us, NEW table, NEW ids, OwnersOK(us, table, ids), NEW i \in ids, Open(table, i)
  PROVE  table[i] \in Rows /\ Exists(us, table[i])
  BY DEF OwnersOK, Open

LEMMA CredAt ==
  ASSUME NEW us, NEW cs, CredsOK(us, cs), NEW i \in CredIds, Open(cs, i)
  PROVE  cs[i] \in CredRow /\ cs[i].row \in Rows /\ Exists(us, cs[i].row)
  BY DEF CredsOK, Open, CredRow

LEMMA KeyAt ==
  ASSUME NEW us, NEW ks, KeysOK(us, ks), NEW k \in KeyIds, Open(ks, k)
  PROVE  /\ ks[k] \in KeyRow /\ ks[k].owner \in Rows /\ ks[k].count \in 0..MaxCount
         /\ PasskeyRow(us, ks[k].owner) /\ Exists(us, ks[k].owner)
  BY DEF KeysOK, Open, KeyRow, PasskeyRow

-----------------------------------------------------------------------------
(* Sane is kept by the beginning of a request ...                          *)

LEMMA PasskeySignInSane ==
  ASSUME Sane, NEW h \in Slots, NEW f \in FlowIds, NEW k \in KeyIds, NEW n \in 0..MaxCount,
         PasskeySignIn(h, f, k, n)
  PROVE  Sane'
  <1> DEFINE a == TaskOf("signin", "check", NoRow, k)
             t == [a EXCEPT !.count = n, !.cli = flows[f].cli]
  <1>1. flows[f].cli \in BOOLEAN
    BY DEF PasskeySignIn, Open, Sane, FlowRow
  <1>0. "signin" \in Ops /\ "check" \in Pcs
    BY DEF Ops, Pcs
  <1>2. a \in Task /\ a.op = "signin" /\ a.pc = "check" /\ a.key = k /\ a.row = NoRow /\ a.link = 0
    BY <1>0, NewTask
  <1> HIDE DEF a
  <1>3. t \in Task /\ t.op = "signin" /\ t.pc = "check" /\ t.key = k /\ t.count = n /\ t.link = 0
    BY <1>1, <1>2 DEF Task
  <1>4. task' = [task EXCEPT ![h] = t]
    BY DEF PasskeySignIn, Run, a
  <1> HIDE DEF t
  <1>5. n > 0 <=> k \in Counting
    BY DEF PasskeySignIn
  <1>6. TaskOK(users, t)
    BY <1>3, <1>5 DEF TaskOK
  <1>7. flows' \in [FlowIds -> FlowRow \cup {Unused, Ended}]
    BY SetAt DEF PasskeySignIn, Sane
  <1>8. UNCHANGED <<users, creds, keys, links, challenges>>
    BY DEF PasskeySignIn
  <1> QED
    BY <1>4, <1>6, <1>7, <1>8, GrowsItself, Moves DEF Sane

LEMMA SetupOptionsSane ==
  ASSUME Sane, NEW h \in Slots, NEW l \in LinkIds, SetupOptions(h, l)
  PROVE  Sane'
  <1> DEFINE a == TaskOf("options", "options", links[l], 0)
  <1>1. links[l] \in Rows /\ Exists(users, links[l])
    BY OwnerAt DEF SetupOptions, Sane
  <1>2. a \in Task /\ a.op = "options" /\ a.pc = "options" /\ a.row = links[l] /\ a.link = 0
    BY <1>1, NewTask DEF Ops, Pcs
  <1>3. UNCHANGED <<users, creds, flows, keys, links, challenges>> /\ (Run(h, a) \/ Run(h, Idle))
    BY DEF SetupOptions, Done
  <1> HIDE DEF a
  <1>4. TaskOK(users, a)
    BY <1>1, <1>2 DEF TaskOK
  <1> QED
    BY <1>3, <1>4, OnlyMoves

LEMMA PasskeySetupSane ==
  ASSUME Sane, NEW h \in Slots, NEW c \in ChallengeIds, NEW l \in LinkIds, NEW k \in KeyIds,
         PasskeySetup(h, c, l, k)
  PROVE  Sane'
  <1> DEFINE a == TaskOf("setup", "known", challenges[c], k)
             b == [a EXCEPT !.link = l]
  <1>1. challenges[c] \in Rows /\ Exists(users, challenges[c])
    BY OwnerAt DEF PasskeySetup, TakeChallenge, Sane
  <1>2. a \in Task /\ a.op = "setup" /\ a.pc = "known" /\ a.row = challenges[c] /\ a.key = k /\ a.count = 0
    BY <1>1, NewTask DEF Ops, Pcs
  <1>3. TakeChallenge(h, c, b) /\ UNCHANGED <<users, creds, flows, keys, links>>
    BY DEF PasskeySetup
  <1> HIDE DEF a
  <1>4. b \in Task /\ b.op = "setup" /\ b.pc = "known" /\ b.row = challenges[c] /\ b.key = k
    BY <1>2 DEF Task
  <1> HIDE DEF b
  <1>5. PICK r \in Registrations : Run(h, IF VerifyRegistration("this", r) /\ b # Idle
                                          THEN [b EXCEPT !.count = r.count] ELSE Idle)
    BY <1>3 DEF TakeChallenge
  <1> DEFINE t == [b EXCEPT !.count = r.count]
  <1>6. r.count \in 0..MaxCount
    BY PasskeysAssumption DEF PasskeysAssumption
  <1>7. t \in Task /\ t.op = "setup" /\ t.pc = "known" /\ t.row = challenges[c] /\ t.key = k
    BY <1>4, <1>6 DEF Task
  <1>8. Run(h, t) \/ Run(h, Idle)
    BY <1>5
  <1> HIDE DEF t
  <1>9. TaskOK(users, t)
    BY <1>1, <1>7 DEF TaskOK
  <1>10. OwnersOK(users, challenges', ChallengeIds)
    BY <1>3, OwnersSet DEF TakeChallenge, Sane
  <1> QED
    BY <1>3, <1>8, <1>9, <1>10, GrowsItself, Moves DEF Sane, Run

LEMMA OwnPasskeyOptionsSane ==
  ASSUME Sane, NEW h \in Slots, NEW i \in CredIds, OwnPasskeyOptions(h, i)
  PROVE  Sane'
  <1> DEFINE a == TaskOf("options", "options", creds[i].row, 0)
  <1>1. creds[i].row \in Rows /\ Exists(users, creds[i].row)
    BY CredAt DEF OwnPasskeyOptions, OwnAccount, Sane
  <1>2. a \in Task /\ a.op = "options" /\ a.pc = "options" /\ a.row = creds[i].row /\ a.link = 0
    BY <1>1, NewTask DEF Ops, Pcs
  <1>3. UNCHANGED <<users, creds, flows, keys, links, challenges>> /\ Run(h, a)
    BY DEF OwnPasskeyOptions
  <1> HIDE DEF a
  <1>4. TaskOK(users, a)
    BY <1>1, <1>2 DEF TaskOK
  <1> QED
    BY <1>3, <1>4, OnlyMoves

LEMMA AddOwnPasskeySane ==
  ASSUME Sane, NEW h \in Slots, NEW i \in CredIds, NEW k \in KeyIds, AddOwnPasskey(h, i, k)
  PROVE  Sane'
  <1> DEFINE a == TaskOf("own", "answer", creds[i].row, k)
  <1>1. creds[i].row \in Rows /\ Exists(users, creds[i].row)
    BY CredAt DEF AddOwnPasskey, OwnAccount, Sane
  <1>2. a \in Task /\ a.op = "own" /\ a.pc = "answer" /\ a.row = creds[i].row /\ a.key = k /\ a.link = 0
    BY <1>1, NewTask DEF Ops, Pcs
  <1>3. UNCHANGED <<users, creds, flows, keys, links, challenges>> /\ Run(h, a)
    BY DEF AddOwnPasskey
  <1>4. PasskeyRow(users, creds[i].row)
    BY <1>1 DEF AddOwnPasskey, OwnAccount, PasskeyRow
  <1> HIDE DEF a
  <1>5. TaskOK(users, a)
    BY <1>1, <1>2, <1>4 DEF TaskOK
  <1> QED
    BY <1>3, <1>5, OnlyMoves

LEMMA DeletePasskeySane ==
  ASSUME Sane, NEW h \in Slots, NEW p, NEW k \in KeyIds, DeletePasskey(h, p, k)
  PROVE  Sane'
  <1> DEFINE a(op) == TaskOf(op, "count", keys[k].owner, k)
  <1>1. keys[k].owner \in Rows /\ Exists(users, keys[k].owner)
    BY KeyAt DEF DeletePasskey, Sane
  <1>2. \A op \in {"own", "admin"} :
          a(op) \in Task /\ a(op).op = op /\ a(op).pc = "count" /\ a(op).row = keys[k].owner
    BY <1>1, NewTask DEF Ops, Pcs
  <1>3. UNCHANGED <<users, creds, flows, keys, links, challenges>>
        /\ (Run(h, a("own")) \/ Run(h, a("admin")) \/ Run(h, Idle))
    BY DEF DeletePasskey
  <1> HIDE DEF a
  <1>4. \A op \in {"own", "admin"} : TaskOK(users, a(op))
    BY <1>1, <1>2 DEF TaskOK
  <1> QED
    BY <1>3, <1>4, OnlyMoves

LEMMA IssuePasskeyLinkSane ==
  ASSUME Sane, NEW h \in Slots, NEW p, NEW row \in Rows, IssuePasskeyLink(h, p, row)
  PROVE  Sane'
  <1> DEFINE a == TaskOf("issue", "make", row, 0)
  <1>1. Exists(users, row)
    BY DEF IssuePasskeyLink
  <1>2. a \in Task /\ a.op = "issue" /\ a.pc = "make" /\ a.row = row /\ a.link = 0
    BY NewTask DEF Ops, Pcs
  <1>3. UNCHANGED <<users, creds, flows, keys, links, challenges>>
        /\ ((Run(h, a) /\ users[row].role # "operator") \/ Run(h, Idle))
    BY DEF IssuePasskeyLink
  <1> HIDE DEF a
  <1>4. users[row].role # "operator" => TaskOK(users, a)
    BY <1>1, <1>2 DEF TaskOK, Eligible
  <1> QED
    BY <1>3, <1>4, OnlyMoves

LEMMA AddPasskeyUserSane ==
  ASSUME Sane, NEW h \in Slots, NEW p, NEW row \in Rows, NEW role \in Roles,
         AddPasskeyUser(h, p, row, role)
  PROVE  Sane'
  <1> DEFINE ext == PasskeyExternalID(row)
             res == AddUser(users, OrgOf(row), row[2], ext, role)
             a == TaskOf("issue", "issue", row, 0)
  <1>1. UNCHANGED <<creds, flows, keys, links, challenges>>
        /\ \/ OK(res) /\ Assignable(role) /\ users' = res.users /\ Run(h, a)
           \/ UNCHANGED users /\ Run(h, Idle)
    BY DEF AddPasskeyUser, OK, Refused, Done
  <1>2. CASE OK(res) /\ Assignable(role) /\ users' = res.users /\ Run(h, a)
    <2>1. row = <<OrgOf(row), row[2]>> /\ OrgOf(row) \in Orgs /\ row[2] \in Emails
      BY DEF Rows, OrgOf
    <2>2. role # "operator"
      BY <1>2 DEF Assignable
    <2>3. UsersOK(users)
      BY DEF Sane
    <2>4. UsersOK(res.users) /\ Grows(users, res.users) /\ Exists(res.users, row)
      BY <1>2, <2>1, <2>2, <2>3, UserAdded
    <2>5. a \in Task /\ a.op = "issue" /\ a.pc = "issue" /\ a.row = row /\ a.link = 0
      BY NewTask DEF Ops, Pcs
    <2> HIDE DEF a, res
    <2>6. TaskOK(users', a)
      BY <1>2, <2>4, <2>5 DEF TaskOK
    <2>7. CredsOK(users', creds) /\ KeysOK(users', keys)
      BY <1>2, <2>4, CredsStay, KeysStay DEF Sane
    <2>8. OwnersOK(users', links, LinkIds) /\ OwnersOK(users', challenges, ChallengeIds)
      BY <1>2, <2>4, OwnersStay DEF Sane
    <2>9. /\ UsersOK(users') /\ Grows(users, users')
          /\ CredsOK(users', creds') /\ KeysOK(users', keys')
          /\ OwnersOK(users', links', LinkIds) /\ OwnersOK(users', challenges', ChallengeIds)
          /\ flows' \in [FlowIds -> FlowRow \cup {Unused, Ended}]
          /\ task' = [task EXCEPT ![h] = a]
      BY <1>1, <1>2, <2>4, <2>7, <2>8 DEF Sane, Run
    <2> QED
      BY <2>6, <2>9, Moves
  <1>3. CASE UNCHANGED users /\ Run(h, Idle)
    BY <1>1, <1>3, OnlyMoves
  <1> QED
    BY <1>1, <1>2, <1>3

LEMMA SwitchUserSane ==
  ASSUME Sane, NEW h \in Slots, NEW p, NEW row \in Rows, NEW op \in {"disable", "enable"},
         SwitchUser(h, p, row, op)
  PROVE  Sane'
  <1> DEFINE a == TaskOf(op, op, row, 0)
  <1>1. Exists(users, row)
    BY DEF SwitchUser
  <1>2. a \in Task /\ a.op = op /\ a.pc = op /\ a.row = row /\ a.link = 0
    BY NewTask DEF Ops, Pcs
  <1>3. UNCHANGED <<users, creds, flows, keys, links, challenges>> /\ (Run(h, a) \/ Run(h, Idle))
    BY DEF SwitchUser
  <1> HIDE DEF a
  <1>4. TaskOK(users, a)
    BY <1>1, <1>2 DEF TaskOK
  <1> QED
    BY <1>3, <1>4, OnlyMoves

LEMMA StartSane ==
  ASSUME Sane, NEW h \in Slots, Start(h)
  PROVE  Sane'
  BY PasskeySignInSane, SetupOptionsSane, PasskeySetupSane, OwnPasskeyOptionsSane, AddOwnPasskeySane,
     DeletePasskeySane, IssuePasskeyLinkSane, AddPasskeyUserSane, SwitchUserSane DEF Start

-----------------------------------------------------------------------------
(* ... by its further statements ...                                       *)

LEMMA CheckPasskeySane ==
  ASSUME Sane, NEW h \in Slots, CheckPasskey(h)
  PROVE  Sane'
  <1>1. task[h].pc = "check" /\ TaskOK(users, task[h])
    BY UnderWay DEF CheckPasskey
  <1> DEFINE t == task[h]
             n == [t EXCEPT !.pc = "account", !.row = keys[t.key].owner]
  <1>2. t \in Task /\ t.key \in KeyIds /\ t.op = "signin" /\ (t.key \in Counting <=> t.count > 0)
    BY <1>1 DEF TaskOK
  <1>3. UNCHANGED <<users, creds, flows, keys, links, challenges>>
        /\ ((Open(keys, t.key) /\ Run(h, n)) \/ Run(h, Idle))
    BY DEF CheckPasskey, Done, tables
  <1>4. CASE Open(keys, t.key) /\ Run(h, n)
    <2>1. keys[t.key].owner \in Rows /\ Exists(users, keys[t.key].owner)
      BY <1>2, <1>4, KeyAt DEF Sane
    <2>2. n \in Task /\ n.op = "signin" /\ n.pc = "account" /\ n.row = keys[t.key].owner
          /\ n.key = t.key /\ n.count = t.count /\ n.link = t.link
      BY <1>2, <2>1 DEF Task, Pcs
    <2> HIDE DEF n
    <2>3. TaskOK(users, n)
      BY <1>2, <2>1, <2>2 DEF TaskOK
    <2> QED
      BY <1>3, <1>4, <2>3, OnlyMoves
  <1>5. CASE Run(h, Idle)
    BY <1>3, <1>5, OnlyMoves
  <1> QED
    BY <1>3, <1>4, <1>5

LEMMA AccountSane ==
  ASSUME Sane, NEW h \in Slots, Account(h)
  PROVE  Sane'
  <1>1. task[h].pc = "account" /\ TaskOK(users, task[h])
    BY UnderWay DEF Account
  <1> DEFINE t == task[h]
             u == users[t.row]
             pc == IF t.op = "signin" THEN "use" ELSE "store"
             n == [t EXCEPT !.role = u.role, !.pc = pc]
  <1>2. t \in Task /\ t.key \in KeyIds /\ t.row \in Rows /\ Exists(users, t.row)
        /\ (t.op = "signin" => (t.key \in Counting <=> t.count > 0))
    BY <1>1 DEF TaskOK
  <1>3. UNCHANGED <<users, creds, flows, keys, links, challenges>>
        /\ ((IsPasskeyAccount(u.ext) /\ Run(h, n)) \/ Run(h, Idle))
    BY DEF Account, Done, tables
  <1>4. CASE IsPasskeyAccount(u.ext) /\ Run(h, n)
    <2>1. u.role \in Roles
      BY <1>2, UserAt DEF Sane
    <2>2. n \in Task /\ n.op = t.op /\ n.pc = pc /\ n.row = t.row
          /\ n.key = t.key /\ n.count = t.count /\ n.link = t.link
      BY <1>2, <2>1 DEF Task, Pcs
    <2>3. PasskeyRow(users, t.row)
      BY <1>2, <1>4 DEF PasskeyRow
    <2> HIDE DEF n
    <2>4. TaskOK(users, n)
      BY <1>2, <2>2, <2>3 DEF TaskOK
    <2> QED
      BY <1>3, <1>4, <2>4, OnlyMoves
  <1>5. CASE Run(h, Idle)
    BY <1>3, <1>5, OnlyMoves
  <1> QED
    BY <1>3, <1>4, <1>5

LEMMA UsePasskeySane ==
  ASSUME Sane, NEW h \in Slots, UsePasskey(h)
  PROVE  Sane'
  <1>1. task[h].pc = "use" /\ TaskOK(users, task[h])
    BY UnderWay DEF UsePasskey
  <1> DEFINE t == task[h]
             n == [t EXCEPT !.pc = "sync"]
             v == [keys[t.key] EXCEPT !.count = t.count]
  <1>2. t \in Task /\ t.key \in KeyIds /\ t.row \in Rows /\ Exists(users, t.row)
        /\ (t.op = "signin" => (t.key \in Counting <=> t.count > 0)) /\ t.count \in 0..MaxCount
    BY <1>1 DEF TaskOK, Task
  <1>3. UNCHANGED <<users, creds, flows, links, challenges>>
        /\ \/ Open(keys, t.key) /\ keys' = [keys EXCEPT ![t.key].count = t.count] /\ Run(h, n)
           \/ Run(h, Idle) /\ UNCHANGED keys
    BY DEF UsePasskey, Done, Goto
  <1>4. CASE Open(keys, t.key) /\ keys' = [keys EXCEPT ![t.key].count = t.count] /\ Run(h, n)
    <2>1. keys[t.key] \in KeyRow /\ PasskeyRow(users, keys[t.key].owner)
      BY <1>2, <1>4, KeyAt DEF Sane
    <2>2. v \in KeyRow /\ v.owner = keys[t.key].owner
      BY <1>2, <2>1 DEF KeyRow
    <2>3. keys' = [keys EXCEPT ![t.key] = v]
      BY <1>2, <1>4 DEF Sane, KeysOK
    <2> HIDE DEF v
    <2>4. KeysOK(users, keys')
      BY <2>1, <2>2, <2>3, KeysSet DEF Sane
    <2>5. n \in Task /\ n.op = t.op /\ n.pc = "sync" /\ n.row = t.row
          /\ n.key = t.key /\ n.count = t.count /\ n.link = t.link
      BY <1>2 DEF Task, Pcs
    <2> HIDE DEF n
    <2>6. TaskOK(users, n)
      BY <1>2, <2>5 DEF TaskOK
    <2> QED
      BY <1>3, <1>4, <2>4, <2>6, GrowsItself, Moves DEF Sane, Run
  <1>5. CASE Run(h, Idle) /\ UNCHANGED keys
    BY <1>3, <1>5, OnlyMoves
  <1> QED
    BY <1>3, <1>4, <1>5

LEMMA SyncRoleSane ==
  ASSUME Sane, NEW h \in Slots, SyncRole(h)
  PROVE  Sane'
  <1>1. task[h].pc = "sync" /\ TaskOK(users, task[h])
    BY UnderWay DEF SyncRole
  <1> DEFINE t == task[h]
             n == [t EXCEPT !.pc = "session"]
             role == SyncedRole(Providers, Orgs, t.row, users[t.row].email, t.role, "member")
  <1>2. t \in Task /\ t.row \in Rows /\ Exists(users, t.row) /\ t.role \in Roles
        /\ (t.op = "signin" => (t.key \in Counting <=> t.count > 0))
    BY <1>1 DEF TaskOK, Task
  <1>3. UNCHANGED <<creds, flows, keys, links, challenges>> /\ Run(h, n)
        /\ (users' = users \/ users' = SetUserRole(users, t.row, role))
    BY DEF SyncRole, Goto
  <1>4. role \in Roles \ {"operator"}
    BY <1>2, RoleSynced
  <1>5. UsersOK(users)
    BY DEF Sane
  <1> HIDE DEF role
  <1>6. UsersOK(users') /\ Grows(users, users')
    BY <1>2, <1>3, <1>4, <1>5, RoleSet, GrowsItself
  <1>7. n \in Task /\ n.op = t.op /\ n.pc = "session" /\ n.row = t.row
        /\ n.key = t.key /\ n.count = t.count /\ n.link = t.link
    BY <1>2 DEF Task, Pcs
  <1> HIDE DEF n
  <1>8. TaskOK(users', n)
    <2>1. TaskOK(users, n)
      BY <1>2, <1>7 DEF TaskOK
    <2> QED
      BY <1>6, <2>1, TaskStays
  <1>9. CredsOK(users', creds) /\ KeysOK(users', keys)
    BY <1>6, CredsStay, KeysStay DEF Sane
  <1>10. OwnersOK(users', links, LinkIds) /\ OwnersOK(users', challenges, ChallengeIds)
    BY <1>6, OwnersStay DEF Sane
  <1> QED
    BY <1>3, <1>6, <1>8, <1>9, <1>10, Moves DEF Sane, Run

LEMMA StartSessionSane ==
  ASSUME Sane, NEW h \in Slots, StartSession(h)
  PROVE  Sane'
  <1>1. task[h].pc \in {"session", "code"} /\ TaskOK(users, task[h])
    BY UnderWay DEF StartSession
  <1> DEFINE t == task[h]
             n == [t EXCEPT !.pc = "code"]
             v == NewCred(IF t.pc = "session" THEN "session" ELSE "code", t.row)
  <1>2. t \in Task /\ t.row \in Rows /\ Exists(users, t.row)
        /\ (t.op = "signin" => (t.key \in Counting <=> t.count > 0))
    BY <1>1 DEF TaskOK, Task
  <1>3. UNCHANGED <<users, flows, keys, links, challenges>>
        /\ (Run(h, n) \/ Run(h, Idle)) /\ creds' = [creds EXCEPT ![FirstFresh(creds)] = v]
    BY DEF StartSession, Done, Goto
  <1>4. v \in CredRow /\ v.row = t.row
    BY <1>2 DEF NewCred, CredRow
  <1> HIDE DEF v
  <1>5. CredsOK(users, creds')
    BY <1>2, <1>3, <1>4, CredsSet DEF Sane
  <1>6. n \in Task /\ n.op = t.op /\ n.pc = "code" /\ n.row = t.row
        /\ n.key = t.key /\ n.count = t.count /\ n.link = t.link
    BY <1>2 DEF Task, Pcs
  <1> HIDE DEF n
  <1>7. TaskOK(users, n)
    BY <1>2, <1>6 DEF TaskOK
  <1> QED
    BY <1>3, <1>5, <1>7, GrowsItself, Moves DEF Sane, Run

LEMMA RegistrationOptionsSane ==
  ASSUME Sane, NEW h \in Slots, RegistrationOptions(h)
  PROVE  Sane'
  <1>1. task[h].pc = "options" /\ TaskOK(users, task[h])
    BY UnderWay DEF RegistrationOptions
  <1>2. task[h].row \in Rows /\ Exists(users, task[h].row)
    BY <1>1 DEF TaskOK
  <1>3. OwnersOK(users, challenges', ChallengeIds)
    BY <1>2, OwnersSet DEF RegistrationOptions, Sane
  <1>4. UNCHANGED <<users, creds, flows, keys, links>> /\ Run(h, Idle)
    BY DEF RegistrationOptions, Done
  <1> QED
    BY <1>3, <1>4, GrowsItself, Moves DEF Sane, Run

LEMMA KnownSane ==
  ASSUME Sane, NEW h \in Slots, Known(h)
  PROVE  Sane'
  <1>1. task[h].pc = "known" /\ TaskOK(users, task[h])
    BY UnderWay DEF Known
  <1> DEFINE t == task[h]
             n == [t EXCEPT !.pc = "link"]
  <1>2. UNCHANGED <<users, creds, flows, keys, links, challenges>> /\ (Run(h, n) \/ Run(h, Idle))
    BY DEF Known, Done, Goto, tables
  <1>3. t \in Task
    BY <1>1 DEF TaskOK
  <1>4. n \in Task /\ n.op = t.op /\ n.pc = "link" /\ n.row = t.row
        /\ n.key = t.key /\ n.count = t.count /\ n.link = t.link
    BY <1>3 DEF Task, Pcs
  <1> HIDE DEF n
  <1>5. TaskOK(users, n)
    BY <1>1, <1>4 DEF TaskOK
  <1> QED
    BY <1>2, <1>5, OnlyMoves

LEMMA TakePasskeyLinkSane ==
  ASSUME Sane, NEW h \in Slots, TakePasskeyLink(h)
  PROVE  Sane'
  <1>1. task[h].pc = "link" /\ TaskOK(users, task[h])
    BY UnderWay DEF TakePasskeyLink
  <1> DEFINE t == task[h]
             n == [t EXCEPT !.pc = "account"]
  <1>2. UNCHANGED <<users, creds, flows, keys, challenges>> /\ (Run(h, n) \/ Run(h, Idle))
        /\ (links' = links \/ links' = [links EXCEPT ![t.link] = Ended])
    BY DEF TakePasskeyLink, LinkTaken, Done, Goto
  <1>3. t \in Task
    BY <1>1 DEF TaskOK
  <1>4. n \in Task /\ n.op = t.op /\ n.pc = "account" /\ n.row = t.row
        /\ n.key = t.key /\ n.count = t.count /\ n.link = t.link
    BY <1>3 DEF Task, Pcs
  <1> HIDE DEF n
  <1>5. TaskOK(users, n)
    BY <1>1, <1>4 DEF TaskOK
  <1>6. OwnersOK(users, links', LinkIds)
    BY <1>2, OwnersSet, SMTT(30) DEF Sane
  <1> QED
    BY <1>2, <1>5, <1>6, GrowsItself, Moves DEF Sane, Run

LEMMA StorePasskeySane ==
  ASSUME Sane, NEW h \in Slots, StorePasskey(h)
  PROVE  Sane'
  <1>1. task[h].pc = "store" /\ TaskOK(users, task[h])
    BY UnderWay DEF StorePasskey
  <1> DEFINE t == task[h]
             n == [t EXCEPT !.pc = "sync"]
             v == [owner |-> t.row, count |-> t.count]
  <1>2. UNCHANGED <<users, creds, flows, links, challenges>> /\ (Run(h, n) \/ Run(h, Idle))
        /\ (keys' = keys \/ keys' = [keys EXCEPT ![t.key] = v])
    BY DEF StorePasskey, Done, Goto
  <1>3. t \in Task /\ t.row \in Rows /\ t.count \in 0..MaxCount /\ PasskeyRow(users, t.row)
    BY <1>1 DEF TaskOK, Task
  <1>4. v \in KeyRow /\ v.owner = t.row
    BY <1>3 DEF KeyRow
  <1> HIDE DEF v
  <1>5. KeysOK(users, keys')
    <2>1. KeysOK(users, keys)
      BY DEF Sane
    <2>2. KeysOK(users, [keys EXCEPT ![t.key] = v])
      BY <1>3, <1>4, <2>1, KeysSet
    <2> QED
      BY <1>2, <2>1, <2>2
  <1>6. n \in Task /\ n.op = t.op /\ n.pc = "sync" /\ n.row = t.row
        /\ n.key = t.key /\ n.count = t.count /\ n.link = t.link
    BY <1>3 DEF Task, Pcs
  <1> HIDE DEF n
  <1>7. TaskOK(users, n)
    BY <1>1, <1>6 DEF TaskOK
  <1> QED
    BY <1>2, <1>5, <1>7, GrowsItself, Moves DEF Sane, Run

LEMMA OwnAnswerSane ==
  ASSUME Sane, NEW h \in Slots, NEW c \in ChallengeIds, OwnAnswer(h, c)
  PROVE  Sane'
  <1>1. task[h].pc = "answer" /\ TaskOK(users, task[h])
    BY UnderWay DEF OwnAnswer
  <1> DEFINE t == task[h]
             b == [t EXCEPT !.pc = "store"]
  <1>2. UNCHANGED <<users, creds, flows, keys, links>> /\ (TakeChallenge(h, c, b) \/ TakeChallenge(h, c, Idle))
    BY DEF OwnAnswer
  <1>3. t \in Task
    BY <1>1 DEF TaskOK
  <1>4. b \in Task /\ b.op = t.op /\ b.pc = "store" /\ b.row = t.row /\ b.key = t.key
    BY <1>3 DEF Task, Pcs
  <1> HIDE DEF b
  <1>5. PICK r \in Registrations : Run(h, [b EXCEPT !.count = r.count]) \/ Run(h, Idle)
    BY <1>2 DEF TakeChallenge
  <1> DEFINE n == [b EXCEPT !.count = r.count]
  <1>6. r.count \in 0..MaxCount
    BY PasskeysAssumption DEF PasskeysAssumption
  <1>7. n \in Task /\ n.op = t.op /\ n.pc = "store" /\ n.row = t.row /\ n.key = t.key
    BY <1>4, <1>6 DEF Task
  <1> HIDE DEF n
  <1>8. TaskOK(users, n)
    BY <1>1, <1>7 DEF TaskOK
  <1>9. OwnersOK(users, challenges', ChallengeIds)
    BY <1>2, OwnersSet DEF TakeChallenge, Sane
  <1>10. Run(h, n) \/ Run(h, Idle)
    BY <1>5 DEF n
  <1> QED
    BY <1>2, <1>8, <1>9, <1>10, GrowsItself, Moves DEF Sane, Run

LEMMA CountKeysSane ==
  ASSUME Sane, NEW h \in Slots, CountKeys(h)
  PROVE  Sane'
  <1>1. task[h].pc = "count" /\ TaskOK(users, task[h])
    BY UnderWay DEF CountKeys
  <1> DEFINE t == task[h]
             left == IF Open(keys, t.key) THEN Cardinality(KeysOf(t.row)) ELSE 0
             n == [t EXCEPT !.pc = "lock", !.left = left]
  <1>2. UNCHANGED <<users, creds, flows, keys, links, challenges>> /\ Run(h, n)
    BY DEF CountKeys, tables
  <1>3. left \in Nat
    <2>1. KeysOf(t.row) \subseteq KeyIds
      BY DEF KeysOf
    <2>2. IsFiniteSet(KeysOf(t.row))
      BY <2>1, FS_Subset, PasskeysAssumption DEF PasskeysAssumption
    <2>3. Cardinality(KeysOf(t.row)) \in Nat
      BY <2>2, FS_CardinalityType
    <2> QED
      BY <2>3
  <1> HIDE DEF left
  <1>4. t \in Task
    BY <1>1 DEF TaskOK
  <1>5. n \in Task /\ n.op = t.op /\ n.pc = "lock" /\ n.row = t.row
        /\ n.key = t.key /\ n.count = t.count /\ n.link = t.link
    BY <1>3, <1>4 DEF Task, Pcs
  <1> HIDE DEF n
  <1>6. TaskOK(users, n)
    BY <1>1, <1>5 DEF TaskOK
  <1> QED
    BY <1>2, <1>6, OnlyMoves

LEMMA LockOwnerSane ==
  ASSUME Sane, NEW h \in Slots, LockOwner(h)
  PROVE  Sane'
  <1>1. task[h].pc = "lock" /\ TaskOK(users, task[h])
    BY UnderWay DEF LockOwner
  <1> DEFINE t == task[h]
             n == [t EXCEPT !.pc = "remove"]
  <1>2. UNCHANGED <<users, creds, flows, keys, links, challenges>> /\ (Run(h, n) \/ Run(h, Idle))
    BY DEF LockOwner, Done, Goto
  <1>3. t \in Task
    BY <1>1 DEF TaskOK
  <1>4. n \in Task /\ n.op = t.op /\ n.pc = "remove" /\ n.row = t.row
        /\ n.key = t.key /\ n.count = t.count /\ n.link = t.link
    BY <1>3 DEF Task, Pcs
  <1> HIDE DEF n
  <1>5. TaskOK(users, n)
    BY <1>1, <1>4 DEF TaskOK
  <1> QED
    BY <1>2, <1>5, OnlyMoves

LEMMA RemoveKeySane ==
  ASSUME Sane, NEW h \in Slots, RemoveKey(h)
  PROVE  Sane'
  <1>1. task[h].pc = "remove" /\ TaskOK(users, task[h])
    BY UnderWay DEF RemoveKey
  <1> DEFINE t == task[h]
             n == [t EXCEPT !.pc = "sessions"]
  <1>2. UNCHANGED <<users, creds, flows, links, challenges>> /\ (Run(h, n) \/ Run(h, Idle))
        /\ (keys' = keys \/ keys' = [keys EXCEPT ![t.key] = Ended])
    BY DEF RemoveKey, Done, Goto
  <1>3. KeysOK(users, keys')
    <2>1. KeysOK(users, keys)
      BY DEF Sane
    <2>2. KeysOK(users, [keys EXCEPT ![t.key] = Ended])
      BY <2>1, KeysSet
    <2> QED
      BY <1>2, <2>1, <2>2
  <1>4. t \in Task
    BY <1>1 DEF TaskOK
  <1>5. n \in Task /\ n.op = t.op /\ n.pc = "sessions" /\ n.row = t.row
        /\ n.key = t.key /\ n.count = t.count /\ n.link = t.link
    BY <1>4 DEF Task, Pcs
  <1> HIDE DEF n
  <1>6. TaskOK(users, n)
    BY <1>1, <1>5 DEF TaskOK
  <1> QED
    BY <1>2, <1>3, <1>6, GrowsItself, Moves DEF Sane, Run

LEMMA SignOutSane ==
  ASSUME Sane, NEW h \in Slots, SignOut(h)
  PROVE  Sane'
  <1>1. task[h].pc \in {"sessions", "codes", "tokens"} /\ TaskOK(users, task[h])
    BY UnderWay DEF SignOut, KindIn
  <1> DEFINE t == task[h]
             next(pc) == [t EXCEPT !.pc = pc]
  <1>2. UNCHANGED <<users, flows, keys, links, challenges>>
        /\ (Run(h, Idle) \/ \E pc \in {"codes", "tokens"} : Run(h, next(pc)))
    BY <1>1 DEF SignOut, Done, Goto, TableAfter
  <1>3. CredsOK(users, creds')
    BY CredsDeleted DEF Sane, SignOut
  <1>4. CASE Run(h, Idle)
    BY <1>2, <1>3, <1>4, GrowsItself, Moves DEF Sane, Run
  <1>5. ASSUME NEW pc \in {"codes", "tokens"}, Run(h, next(pc)) PROVE Sane'
    <2> DEFINE n == next(pc)
    <2>1. t \in Task /\ t.row \in Rows /\ Exists(users, t.row)
          /\ (t.op = "signin" => (t.key \in Counting <=> t.count > 0))
      BY <1>1 DEF TaskOK
    <2>2. n \in Task /\ n.op = t.op /\ n.pc = pc /\ n.row = t.row
          /\ n.key = t.key /\ n.count = t.count /\ n.link = t.link
      BY <2>1 DEF Task, Pcs
    <2> HIDE DEF n
    <2>3. TaskOK(users, n)
      BY <2>1, <2>2 DEF TaskOK
    <2> QED
      BY <1>2, <1>3, <1>5, <2>3, GrowsItself, Moves DEF Sane, Run, n
  <1> QED
    BY <1>2, <1>4, <1>5

LEMMA MakeAccountSane ==
  ASSUME Sane, NEW h \in Slots, MakeAccount(h)
  PROVE  Sane'
  <1>1. task[h].pc = "make" /\ TaskOK(users, task[h])
    BY UnderWay DEF MakeAccount
  <1> DEFINE t == task[h]
             n == [t EXCEPT !.pc = "issue"]
             res == MakePasskeyAccount(users, t.row)
  <1>2. t \in Task /\ t.row \in Rows /\ Exists(users, t.row) /\ Eligible(users, t.row)
        /\ (t.op = "signin" => (t.key \in Counting <=> t.count > 0))
    BY <1>1 DEF TaskOK
  <1>3. UNCHANGED <<creds, flows, keys, links, challenges>>
        /\ \/ OK(res) /\ users' = res.users /\ Run(h, n)
           \/ UNCHANGED users /\ Run(h, Idle)
    BY DEF MakeAccount, Done, Goto
  <1>4. CASE OK(res) /\ users' = res.users /\ Run(h, n)
    <2>1. UsersOK(users') /\ Grows(users, users')
      BY <1>2, <1>4, AccountMade DEF Sane
    <2>2. n \in Task /\ n.op = t.op /\ n.pc = "issue" /\ n.row = t.row
          /\ n.key = t.key /\ n.count = t.count /\ n.link = t.link
      BY <1>2 DEF Task, Pcs
    <2> HIDE DEF n, res
    <2>3. TaskOK(users, n)
      BY <1>2, <2>2 DEF TaskOK
    <2>4. TaskOK(users', n)
      BY <2>1, <2>3, TaskStays
    <2>5. CredsOK(users', creds) /\ KeysOK(users', keys)
      BY <2>1, CredsStay, KeysStay DEF Sane
    <2>6. OwnersOK(users', links, LinkIds) /\ OwnersOK(users', challenges, ChallengeIds)
      BY <2>1, OwnersStay DEF Sane
    <2> QED
      BY <1>3, <1>4, <2>1, <2>4, <2>5, <2>6, Moves DEF Sane, Run
  <1>5. CASE UNCHANGED users /\ Run(h, Idle)
    BY <1>3, <1>5, OnlyMoves
  <1> QED
    BY <1>3, <1>4, <1>5

LEMMA CreatePasskeyLinkSane ==
  ASSUME Sane, NEW h \in Slots, CreatePasskeyLink(h)
  PROVE  Sane'
  <1>1. task[h].pc = "issue" /\ TaskOK(users, task[h])
    BY UnderWay DEF CreatePasskeyLink
  <1>2. task[h].row \in Rows /\ Exists(users, task[h].row)
    BY <1>1 DEF TaskOK
  <1>3. links' \in [LinkIds -> Rows \cup {Unused, Ended}]
        /\ \A l \in LinkIds : links'[l] \in {task[h].row, Ended, links[l]}
    BY <1>2 DEF CreatePasskeyLink, Sane, OwnersOK
  <1>4. \A l \in LinkIds : Open(links', l) => Exists(users, links'[l])
    BY <1>2, <1>3 DEF Open, Sane, OwnersOK
  <1>5. OwnersOK(users, links', LinkIds)
    BY <1>3, <1>4 DEF OwnersOK
  <1>6. UNCHANGED <<users, creds, flows, keys, challenges>> /\ Run(h, Idle)
    BY DEF CreatePasskeyLink, Done
  <1> QED
    BY <1>5, <1>6, GrowsItself, Moves DEF Sane, Run

\* Rows that are only deleted.
LEMMA OwnersGo ==
  ASSUME NEW us, NEW table, NEW new, NEW ids, OwnersOK(us, table, ids),
         new \in [ids -> Rows \cup {Unused, Ended}],
         \A i \in ids : new[i] \in {Ended, table[i]}
  PROVE  OwnersOK(us, new, ids)
  BY DEF OwnersOK, Open

LEMMA KeysGo ==
  ASSUME NEW us, NEW ks, NEW new, KeysOK(us, ks),
         new \in [KeyIds -> KeyRow \cup {Unused, Ended}],
         \A k \in KeyIds : new[k] \in {Ended, ks[k]}
  PROVE  KeysOK(us, new)
  BY DEF KeysOK, Open

LEMMA DisableUserSane ==
  ASSUME Sane, NEW h \in Slots, DisableUser(h)
  PROVE  Sane'
  <1>1. task[h].pc = "disable" /\ TaskOK(users, task[h])
    BY UnderWay DEF DisableUser
  <1> DEFINE row == task[h].row
  <1>2. row \in Rows /\ Exists(users, row)
    BY <1>1 DEF TaskOK
  <1>3. UsersOK(users') /\ Grows(users, users')
    BY <1>2, OffSet DEF DisableUser, Sane
  <1>4. CredsOK(users, creds')
    BY CredsDeleted DEF DisableUser, DeleteSessionsWhere, Sane
  <1>5. KeysOK(users, keys')
    <2>1. keys' = [k \in KeyIds |-> IF k \in KeysOf(row) THEN Ended ELSE keys[k]]
      BY DEF DisableUser
    <2>2. keys' \in [KeyIds -> KeyRow \cup {Unused, Ended}] /\ \A k \in KeyIds : keys'[k] \in {Ended, keys[k]}
      BY <2>1 DEF Sane, KeysOK
    <2> QED
      BY <2>2, KeysGo DEF Sane
  <1>6. OwnersOK(users, links', LinkIds)
    <2>1. links' = [l \in LinkIds |-> IF links[l] = row THEN Ended ELSE links[l]]
      BY DEF DisableUser
    <2>2. links' \in [LinkIds -> Rows \cup {Unused, Ended}] /\ \A l \in LinkIds : links'[l] \in {Ended, links[l]}
      BY <2>1 DEF Sane, OwnersOK
    <2> QED
      BY <2>2, OwnersGo DEF Sane
  <1>7. OwnersOK(users, challenges', ChallengeIds)
    <2>1. challenges' = [c \in ChallengeIds |-> IF challenges[c] = row THEN Ended ELSE challenges[c]]
      BY DEF DisableUser
    <2>2. /\ challenges' \in [ChallengeIds -> Rows \cup {Unused, Ended}]
          /\ \A c \in ChallengeIds : challenges'[c] \in {Ended, challenges[c]}
      BY <2>1 DEF Sane, OwnersOK
    <2> QED
      BY <2>2, OwnersGo DEF Sane
  <1>8. CredsOK(users', creds') /\ KeysOK(users', keys')
    BY <1>3, <1>4, <1>5, CredsStay, KeysStay
  <1>9. OwnersOK(users', links', LinkIds) /\ OwnersOK(users', challenges', ChallengeIds)
    BY <1>3, <1>6, <1>7, OwnersStay
  <1>10. UNCHANGED flows /\ Run(h, Idle)
    BY DEF DisableUser, Done
  <1> QED
    BY <1>3, <1>8, <1>9, <1>10, Moves DEF Sane, Run

\* A step that changes people alone.
LEMMA PeopleChange ==
  ASSUME Sane, UsersOK(users'), Grows(users, users'),
         UNCHANGED <<creds, flows, keys, links, challenges>>,
         task' = task \/ \E h \in Slots : Run(h, Idle)
  PROVE  Sane'
  <1>1. CredsOK(users', creds) /\ KeysOK(users', keys)
    BY CredsStay, KeysStay DEF Sane
  <1>2. OwnersOK(users', links, LinkIds) /\ OwnersOK(users', challenges, ChallengeIds)
    BY OwnersStay DEF Sane
  <1>3. CASE task' = task
    BY <1>1, <1>2, <1>3, Rests DEF Sane
  <1>4. CASE \E h \in Slots : Run(h, Idle)
    BY <1>1, <1>2, <1>4, Moves DEF Sane, Run
  <1> QED
    BY <1>3, <1>4

LEMMA EnableUserSane ==
  ASSUME Sane, NEW h \in Slots, EnableUser(h)
  PROVE  Sane'
  <1>1. task[h].pc = "enable" /\ TaskOK(users, task[h])
    BY UnderWay DEF EnableUser
  <1>2. task[h].row \in Rows /\ Exists(users, task[h].row)
    BY <1>1 DEF TaskOK
  <1>3. UsersOK(users') /\ Grows(users, users')
    BY <1>2, OffSet DEF EnableUser, Sane
  <1> QED
    BY <1>3, PeopleChange DEF EnableUser, Done

LEMMA StepSane ==
  ASSUME Sane, NEW h \in Slots, Step(h)
  PROVE  Sane'
  BY CheckPasskeySane, AccountSane, UsePasskeySane, SyncRoleSane, StartSessionSane,
     RegistrationOptionsSane, KnownSane, TakePasskeyLinkSane, StorePasskeySane, OwnAnswerSane,
     CountKeysSane, LockOwnerSane, RemoveKeySane, SignOutSane, MakeAccountSane,
     CreatePasskeyLinkSane, DisableUserSane, EnableUserSane DEF Step

-----------------------------------------------------------------------------
(* ... and by the surroundings.                                            *)

LEMMA DirectoryTakesSane ==
  ASSUME Sane, NEW d \in Idents, NEW row \in Rows, DirectoryTakes(d, row)
  PROVE  Sane'
  <1> DEFINE res == LinkUser(users, OrgOf(row), users[row].email, d, "member")
  <1>1. Exists(users, row) /\ OK(res) /\ res.row = row /\ UsersOK(users)
    BY DEF DirectoryTakes, Sane
  <1>2. PICK role \in Roles : users' = SetUserRole(res.users, row, role)
    BY DEF DirectoryTakes
  <1>3. UsersOK(res.users) /\ Grows(users, res.users) /\ Exists(res.users, row) /\ res.users[row].ext = d
    BY <1>1, DirectoryLinks
  <1> HIDE DEF res
  <1>4. UsersOK(users') /\ Grows(res.users, users')
    BY <1>2, <1>3, RoleSet
  <1>5. Grows(users, users')
    BY <1>3, <1>4, GrowsOn
  <1>6. UNCHANGED <<creds, flows, keys, links, challenges, task>>
    BY DEF DirectoryTakes, Change
  <1> QED
    BY <1>4, <1>5, <1>6, PeopleChange

LEMMA TimePassesSane ==
  ASSUME Sane, TimePasses
  PROVE  Sane'
  <1>1. UNCHANGED <<users, keys, task, flows>>
    BY DEF TimePasses, Change
  <1>2. CredsOK(users, creds')
    <2>1. CASE creds' = creds
      BY <2>1 DEF Sane
    <2>2. ASSUME NEW i \in CredIds, Open(creds, i), creds' = [creds EXCEPT ![i].recent = FALSE]
          PROVE  CredsOK(users, creds')
      <3> DEFINE v == [creds[i] EXCEPT !.recent = FALSE]
      <3>1. creds[i] \in CredRow /\ Exists(users, creds[i].row)
        BY <2>2, CredAt DEF Sane
      <3>2. v \in CredRow /\ v.row = creds[i].row
        BY <3>1 DEF CredRow
      <3>3. creds' = [creds EXCEPT ![i] = v]
        BY <2>2 DEF Sane, CredsOK
      <3> HIDE DEF v
      <3> QED
        BY <3>1, <3>2, <3>3, CredsSet DEF Sane
    <2> QED
      BY <2>1, <2>2 DEF TimePasses
  <1>3. OwnersOK(users, links', LinkIds)
    BY OwnersSet DEF TimePasses, Sane
  <1>4. OwnersOK(users, challenges', ChallengeIds)
    BY OwnersSet DEF TimePasses, Sane
  <1> QED
    BY <1>1, <1>2, <1>3, <1>4, GrowsItself, Rests DEF Sane

LEMMA SignInOptionsSane ==
  ASSUME Sane, NEW cli \in BOOLEAN, SignInOptions(cli)
  PROVE  Sane'
  <1>1. UNCHANGED <<users, creds, keys, links, challenges, task>>
    BY DEF SignInOptions
  <1>2. [cli |-> cli] \in FlowRow
    BY DEF FlowRow
  <1>3. flows' \in [FlowIds -> FlowRow \cup {Unused, Ended}]
    BY <1>2, SetAt DEF SignInOptions, Sane
  <1> QED
    BY <1>1, <1>3, GrowsItself, Rests DEF Sane

LEMMA AbortSane ==
  ASSUME Sane, NEW h \in Slots, Abort(h)
  PROVE  Sane'
  BY OnlyMoves DEF Abort, Done

LEMMA NextSane ==
  ASSUME Sane, Next
  PROVE  Sane'
  BY StartSane, StepSane, AbortSane, SignInOptionsSane, DirectoryTakesSane, TimePassesSane DEF Next

-----------------------------------------------------------------------------
(* Counters.                                                               *)

\* Keys that are only removed.
LEMMA CountedGo ==
  ASSUME Counted, UNCHANGED <<accepted, copies>>,
         \A k \in KeyIds : keys'[k] \in {Ended, keys[k]}
  PROVE  Counted'
  <1>1. \A u \in accepted : u[1] \in KeyIds
    BY PasskeysAssumption DEF PasskeysAssumption, Counted
  <1>2. Unused # Ended
    BY PasskeysAssumption DEF PasskeysAssumption
  <1>3. \A u \in accepted : keys'[u[1]] # Unused /\ (Open(keys', u[1]) => keys'[u[1]].count >= u[2])
    BY <1>1, <1>2 DEF Counted, Open
  <1> QED
    BY <1>3 DEF Counted

LEMMA UsePasskeyCounted ==
  ASSUME Sane, Counted, NEW h \in Slots, UsePasskey(h)
  PROVE  Counted'
  <1>1. task[h].pc = "use" /\ TaskOK(users, task[h])
    BY UnderWay DEF UsePasskey
  <1> DEFINE k == task[h].key
             n == task[h].count
             use == <<k, n>>
  <1>2. k \in KeyIds /\ n \in 0..MaxCount /\ (k \in Counting <=> n > 0)
    BY <1>1 DEF TaskOK, Task
  <1>3. CASE UNCHANGED <<keys, accepted, copies>>
    BY <1>3, CountedGo
  <1>4. CASE /\ Open(keys, k) /\ StillMoves(keys[k].count, n)
             /\ keys' = [keys EXCEPT ![k].count = n]
             /\ accepted' = IF n > 0 THEN accepted \cup {use} ELSE accepted
             /\ copies' = IF use \in accepted THEN copies \cup {use} ELSE copies
    <2>1. keys[k] \in KeyRow /\ keys[k].count \in 0..MaxCount
      BY <1>2, <1>4, KeyAt DEF Sane
    <2>2. keys \in [KeyIds -> KeyRow \cup {Unused, Ended}] /\ MaxCount \in Nat
      BY PasskeysAssumption DEF Sane, KeysOK, PasskeysAssumption
    <2>3. /\ keys'[k] = [keys[k] EXCEPT !.count = n]
          /\ \A j \in KeyIds : j # k => keys'[j] = keys[j]
      BY <1>2, <1>4, <2>2
    <2>4. keys'[k] \in KeyRow /\ keys'[k].count = n
      BY <1>2, <2>1, <2>3 DEF KeyRow
    <2>5. keys'[k] # Unused
      BY <2>4, PasskeysAssumption DEF PasskeysAssumption
    <2>6. \A u \in accepted : u[1] \in Counting /\ u[1] \in KeyIds /\ u[2] \in 1..MaxCount /\ u = <<u[1], u[2]>>
      BY PasskeysAssumption DEF PasskeysAssumption, Counted
    <2>7. ASSUME NEW u \in accepted, u[1] = k
          PROVE  u[2] < n
      <3>1. keys[k].count >= u[2] /\ n > 0
        BY <1>2, <1>4, <2>6, <2>7 DEF Counted
      <3>2. keys[k].count < n
        BY <1>2, <1>4, <3>1 DEF StillMoves
      <3> QED
        BY <1>2, <2>1, <2>2, <2>6, <3>1, <3>2
    <2>8. use \notin accepted
      <3>1. SUFFICES ASSUME use \in accepted PROVE FALSE
        OBVIOUS
      <3>2. n < n
        BY <2>7, <3>1
      <3> QED
        BY <1>2, <2>2, <3>2
    <2>9. copies' = {}
      BY <1>4, <2>8 DEF Counted
    <2>10. accepted' \subseteq Counting \X (1..MaxCount)
      <3>1. CASE n > 0
        <4>1. n \in 1..MaxCount /\ k \in Counting
          BY <1>2, <2>2, <3>1
        <4> QED
          BY <1>4, <3>1, <4>1 DEF Counted
      <3>2. CASE ~(n > 0)
        BY <1>4, <3>2 DEF Counted
      <3> QED
        BY <3>1, <3>2
    <2>11. ASSUME NEW u \in accepted'
           PROVE  keys'[u[1]] # Unused /\ (Open(keys', u[1]) => keys'[u[1]].count >= u[2])
      <3>1. CASE u \in accepted /\ u[1] # k
        BY <2>3, <2>6, <3>1 DEF Counted, Open
      <3>2. CASE u \in accepted /\ u[1] = k
        <4>1. u[2] < n /\ u[2] \in 1..MaxCount
          BY <2>6, <2>7, <3>2
        <4>2. keys'[u[1]].count >= u[2]
          BY <1>2, <2>2, <2>4, <3>2, <4>1
        <4> QED
          BY <2>5, <3>2, <4>2
      <3>3. CASE u = use
        <4>1. u[1] = k /\ u[2] = n
          BY <3>3
        <4>2. keys'[k].count >= n
          BY <1>2, <2>2, <2>4
        <4> QED
          BY <2>5, <4>1, <4>2
      <3> QED
        BY <1>4, <2>11, <3>1, <3>2, <3>3
    <2> QED
      BY <2>9, <2>10, <2>11 DEF Counted
  <1> QED
    BY <1>3, <1>4 DEF UsePasskey

LEMMA StorePasskeyCounted ==
  ASSUME Sane, Counted, NEW h \in Slots, StorePasskey(h)
  PROVE  Counted'
  <1> DEFINE k == task[h].key
             v == [owner |-> task[h].row, count |-> task[h].count]
  <1>0. UNCHANGED <<accepted, copies>>
    BY DEF StorePasskey
  <1>1. CASE UNCHANGED keys
    BY <1>0, <1>1, CountedGo
  <1>2. CASE keys[k] = Unused /\ keys' = [keys EXCEPT ![k] = v]
    <2>1. \A u \in accepted : u[1] \in KeyIds /\ u[1] # k
      BY <1>2, PasskeysAssumption DEF PasskeysAssumption, Counted
    <2>2. \A j \in KeyIds : j # k => keys'[j] = keys[j]
      BY <1>2 DEF Sane, KeysOK
    <2>3. \A u \in accepted : keys'[u[1]] = keys[u[1]]
      BY <2>1, <2>2
    <2>4. \A u \in accepted : keys'[u[1]] # Unused /\ (Open(keys', u[1]) => keys'[u[1]].count >= u[2])
      BY <2>3 DEF Counted, Open
    <2> QED
      BY <1>0, <2>4 DEF Counted
  <1> QED
    BY <1>1, <1>2 DEF StorePasskey

LEMMA NextCounted ==
  ASSUME Sane, Counted, Next
  PROVE  Counted'
  <1>1. ASSUME UNCHANGED <<keys, accepted, copies>> PROVE Counted'
    BY <1>1, CountedGo
  <1>2. ASSUME NEW h \in Slots, Start(h) PROVE Counted'
    <2>1. UNCHANGED <<keys, accepted, copies>>
      BY <1>2 DEF Start, PasskeySignIn, SetupOptions, PasskeySetup, OwnPasskeyOptions, AddOwnPasskey,
         DeletePasskey, IssuePasskeyLink, AddPasskeyUser, SwitchUser, Begin, ghosts
    <2> QED
      BY <1>1, <2>1
  <1>3. ASSUME NEW h \in Slots, Step(h) PROVE Counted'
    <2>1. CASE UsePasskey(h)
      BY <2>1, UsePasskeyCounted
    <2>2. CASE StorePasskey(h)
      BY <2>2, StorePasskeyCounted
    <2>3. CASE RemoveKey(h)
      <3>1. keys' = keys \/ keys' = [keys EXCEPT ![task[h].key] = Ended]
        BY <2>3 DEF RemoveKey
      <3>2. \A k \in KeyIds : keys'[k] \in {Ended, keys[k]}
        BY <3>1 DEF Sane, KeysOK
      <3> QED
        BY <2>3, <3>2, CountedGo DEF RemoveKey
    <2>4. CASE DisableUser(h)
      <3>1. \A k \in KeyIds : keys'[k] \in {Ended, keys[k]}
        BY <2>4 DEF DisableUser
      <3> QED
        BY <2>4, <3>1, CountedGo DEF DisableUser, ghosts
    <2>5. ASSUME ~UsePasskey(h), ~StorePasskey(h), ~RemoveKey(h), ~DisableUser(h)
          PROVE  UNCHANGED <<keys, accepted, copies>>
      BY <1>3, <2>5 DEF Step, CheckPasskey, Account, SyncRole, StartSession, RegistrationOptions, Known,
         TakePasskeyLink, OwnAnswer, CountKeys, LockOwner, SignOut, MakeAccount,
         CreatePasskeyLink, EnableUser, tables, ghosts
    <2> QED
      BY <1>1, <2>1, <2>2, <2>3, <2>4, <2>5
  <1>4. ASSUME NEW h \in Slots, Abort(h) PROVE Counted'
    BY <1>1, <1>4 DEF Abort, ghosts
  <1>5. ASSUME NEW cli \in BOOLEAN, SignInOptions(cli) PROVE Counted'
    BY <1>1, <1>5 DEF SignInOptions, ghosts
  <1>6. ASSUME NEW d \in Idents, NEW row \in Rows, DirectoryTakes(d, row) PROVE Counted'
    BY <1>1, <1>6 DEF DirectoryTakes, Change, ghosts
  <1>7. ASSUME TimePasses PROVE Counted'
    BY <1>1, <1>7 DEF TimePasses, Change, ghosts
  <1> QED
    BY <1>2, <1>3, <1>4, <1>5, <1>6, <1>7 DEF Next

-----------------------------------------------------------------------------
(* Links.                                                                  *)

\* A step that takes no link and makes no passkey of one: nobody claims a link
\* they did not, and no link that was used up comes back.
LEMMA LinkedStays ==
  ASSUME Linked, made' = made,
         \A l \in LinkIds : links'[l] # Ended => links[l] # Ended,
         \A l \in LinkIds, g \in Slots : Claims(g, l)' => Claims(g, l)
  PROVE  Linked'
  BY DEF Linked

LEMMA ClaimsStay ==
  ASSUME Sane, NEW h \in Slots, NEW n, Run(h, n),
         n.pc \in {"account", "store"} /\ n.link # 0
           => task[h].pc \in {"account", "store"} /\ n.link = task[h].link
  PROVE  \A l \in LinkIds, g \in Slots : Claims(g, l)' => Claims(g, l)
  <1> SUFFICES ASSUME NEW l \in LinkIds, NEW g \in Slots, Claims(g, l)'
               PROVE  Claims(g, l)
    OBVIOUS
  <1>1. task \in [Slots -> Task \cup {Idle}] /\ task' = [task EXCEPT ![h] = n]
    BY DEF Sane, TasksOK, Run
  <1>2. l # 0
    BY PasskeysAssumption DEF PasskeysAssumption
  <1>3. CASE g = h
    <2>1. task'[h] = n
      BY <1>1
    <2>2. n.pc \in {"account", "store"} /\ n.link = l
      BY <1>3, <2>1 DEF Claims
    <2> QED
      BY <1>2, <1>3, <2>2 DEF Claims
  <1>4. CASE g # h
    <2>1. task'[g] = task[g]
      BY <1>1, <1>4
    <2> QED
      BY <2>1 DEF Claims
  <1> QED
    BY <1>3, <1>4

LEMMA LinkedIdle ==
  ASSUME Sane, Linked, NEW h \in Slots, Run(h, Idle), made' = made,
         \A l \in LinkIds : links'[l] # Ended => links[l] # Ended
  PROVE  Linked'
  <1>1. Idle.pc \notin {"account", "store"}
    BY DEF Idle
  <1>2. \A l \in LinkIds, g \in Slots : Claims(g, l)' => Claims(g, l)
    BY <1>1, ClaimsStay
  <1> QED
    BY <1>2, LinkedStays

\* A request begins, and claims nothing yet.
LEMMA StartLinked ==
  ASSUME Sane, Linked, NEW h \in Slots, Start(h)
  PROVE  Linked'
  <1>1. made' = made /\ links' = links
    BY DEF Start, PasskeySignIn, SetupOptions, PasskeySetup, OwnPasskeyOptions, AddOwnPasskey,
         DeletePasskey, IssuePasskeyLink, AddPasskeyUser, SwitchUser, Begin, ghosts
  <1>2. ASSUME NEW n, Run(h, n), n.pc \notin {"account", "store"} PROVE Linked'
    BY <1>1, <1>2, ClaimsStay, LinkedStays
  <1>3. \A op, pc, row, k : TaskOf(op, pc, row, k).pc = pc
    BY DEF TaskOf
  <1>4. Idle.pc \notin {"account", "store"}
    BY DEF Idle
  <1>5. ASSUME NEW f \in FlowIds, NEW k \in KeyIds, NEW n \in 0..MaxCount, PasskeySignIn(h, f, k, n)
        PROVE  Linked'
    <2> DEFINE t == [TaskOf("signin", "check", NoRow, k) EXCEPT !.count = n, !.cli = flows[f].cli]
    <2>1. Run(h, t)
      BY <1>5 DEF PasskeySignIn
    <2>2. t.pc = "check"
      BY DEF TaskOf
    <2> QED
      BY <1>2, <2>1, <2>2
  <1>6. ASSUME NEW c \in ChallengeIds, NEW l \in LinkIds, NEW k \in KeyIds, PasskeySetup(h, c, l, k)
        PROVE  Linked'
    <2> DEFINE b == [TaskOf("setup", "known", challenges[c], k) EXCEPT !.link = l]
    <2>1. PICK r \in Registrations : Run(h, [b EXCEPT !.count = r.count]) \/ Run(h, Idle)
      BY <1>6 DEF PasskeySetup, TakeChallenge
    <2>2. [b EXCEPT !.count = r.count].pc = "known"
      BY DEF TaskOf
    <2> HIDE DEF b
    <2> QED
      BY <1>2, <1>4, <2>1, <2>2
  <1>7. ASSUME NEW l \in LinkIds, SetupOptions(h, l) PROVE Linked'
    BY <1>2, <1>3, <1>4, <1>7 DEF SetupOptions, Done
  <1>8. ASSUME NEW i \in CredIds, OwnPasskeyOptions(h, i) PROVE Linked'
    BY <1>2, <1>3, <1>8 DEF OwnPasskeyOptions
  <1>9. ASSUME NEW i \in CredIds, NEW k \in KeyIds, AddOwnPasskey(h, i, k) PROVE Linked'
    BY <1>2, <1>3, <1>9 DEF AddOwnPasskey
  <1>10. ASSUME NEW p, NEW k \in KeyIds, DeletePasskey(h, p, k) PROVE Linked'
    BY <1>2, <1>3, <1>4, <1>10 DEF DeletePasskey
  <1>11. ASSUME NEW p, NEW row \in Rows, IssuePasskeyLink(h, p, row) PROVE Linked'
    BY <1>2, <1>3, <1>4, <1>11 DEF IssuePasskeyLink
  <1>12. ASSUME NEW p, NEW row \in Rows, NEW role \in Roles, AddPasskeyUser(h, p, row, role) PROVE Linked'
    BY <1>2, <1>3, <1>4, <1>12 DEF AddPasskeyUser, Done
  <1>13. ASSUME NEW p, NEW row \in Rows, NEW op \in {"disable", "enable"}, SwitchUser(h, p, row, op)
         PROVE  Linked'
    BY <1>2, <1>3, <1>4, <1>13 DEF SwitchUser
  <1> QED
    BY <1>5, <1>6, <1>7, <1>8, <1>9, <1>10, <1>11, <1>12, <1>13 DEF Start

\* The first request that takes a link claims it.
LEMMA TakePasskeyLinkLinked ==
  ASSUME Sane, Linked, NEW h \in Slots, TakePasskeyLink(h)
  PROVE  Linked'
  <1>1. task[h].pc = "link" /\ TaskOK(users, task[h])
    BY UnderWay DEF TakePasskeyLink
  <1> DEFINE t == task[h]
             n == [t EXCEPT !.pc = "account"]
             k == t.link
  <1>2. t \in Task /\ k \in LinkIds \cup {0}
    BY <1>1 DEF TaskOK, Task
  <1>3. made' = made
    BY DEF TakePasskeyLink, ghosts
  <1>4. links \in [LinkIds -> Rows \cup {Unused, Ended}] /\ task \in [Slots -> Task \cup {Idle}]
    BY DEF Sane, OwnersOK, TasksOK
  <1>5. CASE Run(h, Idle)
    <2>1. links' = links \/ links' = [links EXCEPT ![k] = Ended]
      BY DEF TakePasskeyLink, LinkTaken
    <2>2. \A l \in LinkIds : links'[l] # Ended => links[l] # Ended
      BY <1>4, <2>1
    <2> QED
      BY <1>3, <1>5, <2>2, LinkedIdle
  <1>6. CASE Open(links, k) /\ links' = [links EXCEPT ![k] = Ended] /\ Run(h, n)
    <2>1. n.pc = "account" /\ n.link = k
      BY <1>2 DEF Task
    <2>2. task'[h] = n /\ \A g \in Slots : g # h => task'[g] = task[g]
      BY <1>4, <1>6 DEF Run
    <2> HIDE DEF n
    <2>3. \A l \in LinkIds : l # k => links'[l] = links[l]
      BY <1>4, <1>6
    <2>4. \A g \in Slots, l \in LinkIds : Claims(g, l)' <=> IF g = h THEN l = k ELSE Claims(g, l)
      BY <2>1, <2>2 DEF Claims
    <2>5. \A l \in LinkIds : ~Claims(h, l)
      BY <1>1 DEF Claims
    <2>6. CASE k = 0
      <3>1. \A l \in LinkIds : l # k
        BY <2>6, PasskeysAssumption DEF PasskeysAssumption
      <3>2. \A l \in LinkIds, g \in Slots : Claims(g, l)' => Claims(g, l)
        BY <2>4, <3>1
      <3> QED
        BY <1>3, <2>3, <3>1, <3>2, LinkedStays
    <2>7. CASE k \in LinkIds
      <3>1. links[k] # Ended /\ links'[k] = Ended
        BY <1>4, <1>6, <2>7 DEF Open
      <3>2. made[k] = {} /\ \A g \in Slots : ~Claims(g, k)
        BY <2>7, <3>1 DEF Linked
      <3>3. ASSUME NEW l \in LinkIds, links'[l] # Ended
            PROVE  made[l] = {} /\ \A g \in Slots : ~Claims(g, l)'
        BY <2>3, <2>4, <3>1, <3>3 DEF Linked
      <3>4. \A l \in LinkIds, g \in Slots : Claims(g, l)' => made[l] = {}
        BY <2>4, <3>2 DEF Linked
      <3>5. \A l \in LinkIds, g, f \in Slots : Claims(g, l)' /\ Claims(f, l)' => g = f
        BY <2>4, <3>2 DEF Linked
      <3> QED
        BY <1>3, <3>3, <3>4, <3>5 DEF Linked
    <2> QED
      BY <1>2, <2>6, <2>7
  <1> QED
    BY <1>5, <1>6 DEF TakePasskeyLink, LinkTaken, Goto, Done

\* It makes the passkey, and has no claim after that.
LEMMA StorePasskeyLinked ==
  ASSUME Sane, Linked, NEW h \in Slots, StorePasskey(h)
  PROVE  Linked'
  <1>1. task[h].pc = "store" /\ TaskOK(users, task[h])
    BY UnderWay DEF StorePasskey
  <1> DEFINE t == task[h]
             n == [t EXCEPT !.pc = "sync"]
             k == t.link
  <1>2. t \in Task /\ k \in LinkIds \cup {0} /\ t.key \in KeyIds
    BY <1>1 DEF TaskOK, Task
  <1>3. links' = links
    BY DEF StorePasskey
  <1>4. made \in [LinkIds -> SUBSET KeyIds] /\ task \in [Slots -> Task \cup {Idle}]
    BY DEF Sane, TasksOK, Linked
  <1>5. n.pc = "sync" /\ Idle.pc = "idle"
    BY <1>2 DEF Task, Idle
  <1>6. Run(h, n) \/ Run(h, Idle)
    BY DEF StorePasskey, Goto, Done
  <1>7. \A g \in Slots, l \in LinkIds : Claims(g, l)' => g # h /\ Claims(g, l)
    <2>1. task'[h].pc \notin {"account", "store"} /\ \A g \in Slots : g # h => task'[g] = task[g]
      <3> HIDE DEF n
      <3> QED
        BY <1>4, <1>5, <1>6 DEF Run
    <2> QED
      BY <2>1 DEF Claims
  <1>8. CASE made' = made
    BY <1>3, <1>7, <1>8, LinkedStays
  <1>9. CASE k # 0 /\ made' = [made EXCEPT ![k] = @ \cup {t.key}]
    <2>1. k \in LinkIds /\ Claims(h, k)
      BY <1>1, <1>2, <1>9 DEF Claims
    <2>2. made[k] = {} /\ links[k] = Ended /\ \A g \in Slots : Claims(g, k) => g = h
      BY <2>1 DEF Linked
    <2>3. made'[k] = {t.key} /\ made' \in [LinkIds -> SUBSET KeyIds]
          /\ \A l \in LinkIds : l # k => made'[l] = made[l]
      BY <1>2, <1>4, <1>9, <2>1, <2>2
    <2>4. \A l \in LinkIds : links'[l] # Ended => made'[l] = {} /\ \A g \in Slots : ~Claims(g, l)'
      BY <1>3, <1>7, <2>2, <2>3 DEF Linked
    <2>5. \A l \in LinkIds, g \in Slots : Claims(g, l)' => made'[l] = {}
      BY <1>7, <2>2, <2>3 DEF Linked
    <2>6. \A l \in LinkIds, g, f \in Slots : Claims(g, l)' /\ Claims(f, l)' => g = f
      BY <1>7 DEF Linked
    <2>7. \A l \in LinkIds : \A i, j \in made'[l] : i = j
      BY <2>3 DEF Linked
    <2> QED
      BY <2>3, <2>4, <2>5, <2>6, <2>7 DEF Linked
  <1> QED
    BY <1>8, <1>9 DEF StorePasskey

LEMMA StepLinked ==
  ASSUME Sane, Linked, NEW h \in Slots, Step(h)
  PROVE  Linked'
  <1> DEFINE t == task[h]
  <1>1. ASSUME NEW n, Run(h, n), n.pc \notin {"account", "store"}, made' = made, links' = links
        PROVE  Linked'
    BY <1>1, ClaimsStay, LinkedStays
  <1>2. ASSUME NEW pc, t \in Task
        PROVE  [t EXCEPT !.pc = pc].pc = pc
    BY <1>2 DEF Task
  <1>3. Idle.pc \notin {"account", "store"}
    BY DEF Idle
  <1>4. t.pc # "idle" => t \in Task
    BY UnderWay DEF TaskOK
  <1>5. CASE CheckPasskey(h)
    <2> DEFINE n == [t EXCEPT !.pc = "account", !.row = keys[t.key].owner]
    <2>1. t.link = 0 /\ t \in Task
      BY <1>5, UnderWay DEF CheckPasskey, TaskOK
    <2>2. n.link = 0
      BY <2>1 DEF Task
    <2>3. made' = made /\ links' = links /\ (Run(h, n) \/ Run(h, Idle))
      BY <1>5 DEF CheckPasskey, tables, ghosts, Done
    <2> HIDE DEF n
    <2> QED
      BY <1>3, <2>2, <2>3, ClaimsStay, LinkedStays
  <1>6. CASE Account(h)
    <2> DEFINE n == [t EXCEPT !.role = users[t.row].role, !.pc = IF t.op = "signin" THEN "use" ELSE "store"]
    <2>1. t.pc = "account" /\ t \in Task
      BY <1>4, <1>6 DEF Account
    <2>2. n.link = t.link
      BY <2>1 DEF Task
    <2>3. made' = made /\ links' = links /\ (Run(h, n) \/ Run(h, Idle))
      BY <1>6 DEF Account, tables, ghosts, Done
    <2> HIDE DEF n
    <2> QED
      BY <1>3, <2>1, <2>2, <2>3, ClaimsStay, LinkedStays
  <1>7. CASE \E c \in ChallengeIds : OwnAnswer(h, c)
    <2>1. PICK c \in ChallengeIds : OwnAnswer(h, c)
      BY <1>7
    <2>2. t.link = 0 /\ t \in Task
      BY <2>1, UnderWay DEF OwnAnswer, TaskOK
    <2> DEFINE b == [t EXCEPT !.pc = "store"]
    <2>3. PICK r \in Registrations : Run(h, [b EXCEPT !.count = r.count]) \/ Run(h, Idle)
      BY <2>1 DEF OwnAnswer, TakeChallenge
    <2> DEFINE n == [b EXCEPT !.count = r.count]
    <2>4. n.link = 0
      BY <2>2 DEF Task
    <2>5. made' = made /\ links' = links
      BY <2>1 DEF OwnAnswer, ghosts
    <2>6. Run(h, n) \/ Run(h, Idle)
      BY <2>3
    <2> HIDE DEF n, b
    <2> QED
      BY <1>3, <2>4, <2>5, <2>6, ClaimsStay, LinkedStays
  <1>8. CASE UsePasskey(h) \/ SyncRole(h) \/ StartSession(h) \/ Known(h) \/ CountKeys(h)
             \/ LockOwner(h) \/ RemoveKey(h) \/ SignOut(h) \/ MakeAccount(h)
    <2>1. made' = made /\ links' = links /\ t.pc # "idle"
      BY <1>8 DEF UsePasskey, SyncRole, StartSession, Known, CountKeys, LockOwner, RemoveKey, SignOut, MakeAccount,
         KindIn, tables, ghosts
    <2>2. t \in Task
      BY <1>4, <2>1
    <2>3. CASE CountKeys(h)
      <3> DEFINE left == IF Open(keys, t.key) THEN Cardinality(KeysOf(t.row)) ELSE 0
                 n == [t EXCEPT !.pc = "lock", !.left = left]
      <3>1. Run(h, n)
        BY <2>3 DEF CountKeys
      <3> HIDE DEF left
      <3>2. n.pc = "lock"
        BY <2>2 DEF Task
      <3> QED
        BY <1>1, <2>1, <3>1, <3>2
    <2>4. CASE ~CountKeys(h)
      <3>1. \/ Run(h, Idle)
            \/ \E pc \in {"sync", "session", "code", "link", "remove", "sessions", "codes", "tokens", "issue"} :
                 Run(h, [t EXCEPT !.pc = pc])
        BY <1>8, <2>4 DEF UsePasskey, SyncRole, StartSession, Known, LockOwner, RemoveKey, SignOut, MakeAccount,
           KindIn, TableAfter, Goto, Done
      <3> QED
        BY <1>1, <1>2, <1>3, <2>1, <2>2, <3>1
    <2> QED
      BY <2>3, <2>4
  <1>9. CASE RegistrationOptions(h) \/ EnableUser(h)
    <2>1. made' = made /\ links' = links /\ Run(h, Idle)
      BY <1>9 DEF RegistrationOptions, EnableUser, Done, ghosts
    <2> QED
      BY <1>1, <1>3, <2>1
  <1>10. CASE CreatePasskeyLink(h)
    <2>1. DOMAIN links = LinkIds /\ LinkIds \subseteq Nat
      BY PasskeysAssumption DEF PasskeysAssumption, Sane, OwnersOK
    <2>2. links[FirstFresh(links)] = Unused
      BY <1>10, <2>1, FirstFreshIsFresh DEF CreatePasskeyLink
    <2>3. Unused # Ended
      BY PasskeysAssumption DEF PasskeysAssumption
    <2>4. \A l \in LinkIds : links'[l] # Ended => links[l] # Ended
      BY <1>10, <2>2, <2>3 DEF CreatePasskeyLink
    <2> QED
      BY <1>10, <2>4, LinkedIdle DEF CreatePasskeyLink, Done, ghosts
  <1>11. CASE DisableUser(h)
    <2>1. \A l \in LinkIds : links'[l] # Ended => links[l] # Ended
      BY <1>11 DEF DisableUser
    <2> QED
      BY <1>11, <2>1, LinkedIdle DEF DisableUser, Done, ghosts
  <1> QED
    BY <1>5, <1>6, <1>7, <1>8, <1>9, <1>10, <1>11, TakePasskeyLinkLinked, StorePasskeyLinked DEF Step

LEMMA NextLinked ==
  ASSUME Sane, Linked, Next
  PROVE  Linked'
  <1>1. ASSUME NEW h \in Slots, Abort(h) PROVE Linked'
    BY <1>1, LinkedIdle DEF Abort, Done, ghosts
  <1>2. ASSUME task' = task, made' = made, \A l \in LinkIds : links'[l] # Ended => links[l] # Ended
        PROVE  Linked'
    BY <1>2, LinkedStays DEF Claims
  <1>3. ASSUME NEW cli \in BOOLEAN, SignInOptions(cli) PROVE Linked'
    BY <1>2, <1>3 DEF SignInOptions, ghosts
  <1>4. ASSUME NEW d \in Idents, NEW row \in Rows, DirectoryTakes(d, row) PROVE Linked'
    BY <1>2, <1>4 DEF DirectoryTakes, Change, ghosts
  <1>5. ASSUME TimePasses PROVE Linked'
    <2>1. links' = links \/ \E l \in LinkIds : links' = [links EXCEPT ![l] = Ended]
      BY <1>5 DEF TimePasses
    <2>2. \A l \in LinkIds : links'[l] # Ended => links[l] # Ended
      BY <2>1 DEF Sane, OwnersOK
    <2> QED
      BY <1>2, <1>5, <2>2 DEF TimePasses, Change, ghosts
  <1> QED
    BY <1>1, <1>3, <1>4, <1>5, StartLinked, StepLinked DEF Next

-----------------------------------------------------------------------------
LEMMA InitInv == Init => Inv
  <1> SUFFICES ASSUME Init PROVE Inv
    OBVIOUS
  <1>1. Sane
    <2>1. TasksOK
      BY DEF Init, TasksOK
    <2> QED
      BY <2>1, PasskeysAssumption DEF PasskeysAssumption, Init, Sane
  <1>2. Counted
    BY DEF Init, Counted
  <1>3. Linked
    <2>1. \A h \in Slots : task[h].pc = "idle"
      BY DEF Init, Idle
    <2>2. \A h \in Slots, l \in LinkIds : ~Claims(h, l)
      BY <2>1 DEF Claims
    <2> QED
      BY <2>2 DEF Init, Linked
  <1> QED
    BY <1>1, <1>2, <1>3 DEF Inv

LEMMA InvKept == Inv /\ [Next]_vars => Inv'
  <1>1. CASE Next
    BY <1>1, NextSane, NextCounted, NextLinked DEF Inv
  <1>2. CASE UNCHANGED vars
    <2>1. ASSUME Sane PROVE Sane'
      BY <1>2, <2>1, GrowsItself, Rests DEF Sane, vars, tables
    <2>2. ASSUME Counted PROVE Counted'
      BY <1>2, <2>2 DEF Counted, Open, vars, tables, ghosts
    <2>3. ASSUME Linked PROVE Linked'
      BY <1>2, <2>3 DEF Linked, Claims, vars, tables, ghosts
    <2> QED
      BY <2>1, <2>2, <2>3 DEF Inv
  <1> QED
    BY <1>1, <1>2

LEMMA InvHolds == Spec => []Inv
  BY InitInv, InvKept, PTL DEF Spec

(* Passkeys do not weaken single sign-on, for any people and requests at    *)
(* once: the account is checked two statements before its passkey is stored *)
(* (control/passkeys.go), and still no directory's row and no operator has  *)
(* one.                                                                     *)
THEOREM PasskeysStayApart == Spec => []PasskeysApart
  <1>1. Inv => PasskeysApart
    <2> SUFFICES ASSUME Inv, NEW k \in KeyIds, Open(keys, k)
                 PROVE  /\ IsPasskeyAccount(users[keys[k].owner].ext)
                        /\ users[keys[k].owner].role # "operator"
      BY DEF PasskeysApart
    <2>1. keys[k].owner \in Rows /\ PasskeyRow(users, keys[k].owner)
      BY KeyAt DEF Inv, Sane
    <2> QED
      BY <2>1 DEF Inv, Sane, UsersOK, PasskeyRow
  <1> QED
    BY InvHolds, <1>1, PTL

(* What is to be used once is used once, however many copies of a key sign  *)
(* in and however many browsers finish one set-up link: UsePasskey and      *)
(* TakePasskeyLink in internal/store/passkeys.go.                           *)
THEOREM PasskeysUsedOnce == Spec => []UsedOnce
  <1>1. Inv => UsedOnce
    <2> SUFFICES ASSUME Inv, NEW l \in LinkIds
                 PROVE  copies = {} /\ Cardinality(made[l]) <= 1
      BY DEF UsedOnce, Inv, Counted
    <2>1. copies = {} /\ \A j, k \in made[l] : j = k
      BY DEF Inv, Counted, Linked
    <2>2. CASE made[l] = {}
      BY <2>1, <2>2, FS_EmptySet
    <2>3. ASSUME NEW k \in made[l]
          PROVE  Cardinality(made[l]) <= 1
      <3>1. made[l] = {k}
        BY <2>1, <2>3
      <3>2. Cardinality({k}) = 1
        BY FS_Singleton
      <3> QED
        BY <3>1, <3>2
    <2> QED
      BY <2>1, <2>2, <2>3
  <1> QED
    BY InvHolds, <1>1, PTL
=============================================================================
