------------------------------- MODULE Passkeys -------------------------------
(* Passkeys: accounts no directory vouches for (internal/control/passkeys.go,*)
(* internal/store/passkeys.go, internal/authn/passkey.go).                   *)
(*                                                                           *)
(* As in SignIn, a request is a task that runs one store statement per step. *)
(* The one transaction that is longer than a statement is the removal of a   *)
(* passkey: under READ COMMITTED its first statement reads the rows as they  *)
(* were when it started, also when it then waits for the owner's row.        *)
EXTENDS Accounts, Principals, TLC

CONSTANTS Slots,
          Providers,    \* the identity providers beside the passkeys
          KeyIds,       \* ids of the rows of passkeys, a new one for each
          CredentialOf, \* row -> the credential id an authenticator made for it
          Counting,     \* those whose authenticator counts; the others send zero
          MaxCount,     \* bound: a counter
          Assertions, Registrations,  \* what browsers send back
          CredIds, FlowIds, ChallengeIds, LinkIds,
          Setups,       \* tables to start from, see setup below
          MaxChanges    \* bound: changes of the surroundings

VARIABLES
    setup,      \* the tables at the start, the requests people make (calls)
                \* and how many (maxStarts)
    users, creds, flows,
    keys,       \* passkeys: row -> [owner, count]
    links,      \* passkey_links: link -> row, Unused or Ended
    challenges, \* passkey_challenges: id -> row
    locked,     \* rows of users a removal has locked
    task, started, changes,
    \* what the properties remember
    accepted,   \* <<key, counter>> of every sign-in that was let through
    copies,     \* the counters accepted twice
    made,       \* link -> passkeys it has made
    stranded    \* people whose own removal left them without a passkey

tables == <<users, creds, flows, keys, links, challenges, locked>>
ghosts == <<accepted, copies, made, stranded>>
vars == <<setup, tables, task, started, changes, ghosts>>

Idle == [pc |-> "idle"]
Open(table, i) == table[i] \notin {Unused, Ended}
Fresh(table) == {i \in DOMAIN table : table[i] = Unused}
FirstFresh(table) == CHOOSE i \in Fresh(table) : \A j \in Fresh(table) : i <= j
KeysOf(row) == {k \in KeyIds : Open(keys, k) /\ keys[k].owner = row}

Run(h, t) == task' = [task EXCEPT ![h] = t]
Done(h) == Run(h, Idle)
Goto(h, pc) == Run(h, [task[h] EXCEPT !.pc = pc])

Begin(h, op) ==
    /\ task[h] = Idle
    /\ op \in setup.calls
    /\ started < setup.maxStarts
    /\ started' = started + 1
    /\ UNCHANGED <<setup, changes, ghosts, locked>>

(* A statement that writes a row of users, or a row that refers to one, waits *)
(* for the transaction that has locked it.                                    *)
Unlocked(row) == row \notin locked

-----------------------------------------------------------------------------
(* The rows of the tables, and what foreign keys and checks keep true of them. *)

KeyRow  == [owner : Rows, count : 0..MaxCount]
CredRow == [kind : {"session", "token", "code"}, row : Rows, recent : BOOLEAN]
FlowRow == [cli : BOOLEAN]

PasskeyRow(us, row) == row \in Rows /\ Exists(us, row) /\ IsPasskeyAccount(us[row].ext)

UsersOK(us) == /\ us \in [Rows -> UserRow \cup {NoRow}]
               /\ \A row \in Rows : PasskeyRow(us, row) => us[row].role # "operator"
CredsOK(us, cs) == /\ cs \in [CredIds -> CredRow \cup {Unused, Ended}]
                   /\ \A i \in CredIds : Open(cs, i) => Exists(us, cs[i].row)
KeysOK(us, ks) == /\ ks \in [KeyIds -> KeyRow \cup {Unused, Ended}]
                  /\ \A k \in KeyIds : Open(ks, k) => PasskeyRow(us, ks[k].owner)
OwnersOK(us, table, ids) == /\ table \in [ids -> Rows \cup {Unused, Ended}]
                            /\ \A i \in ids : Open(table, i) => Exists(us, table[i])

(* Ids and values that mean nothing are no rows, a provider cannot be called  *)
(* passkey (authn/oidc.go), and the tables at the start are consistent.       *)
ASSUME PasskeysAssumption ==
    /\ Unused # Ended
    /\ \A x \in {Unused, Ended} : x \notin KeyRow /\ x \notin CredRow /\ x \notin FlowRow /\ x \notin Rows
    /\ NoRow \notin UserRow /\ NoRow \notin Rows
    /\ NoExt \notin Idents
    /\ \A d \in Idents : d[1] # "passkey"
    /\ \A row \in Rows : PasskeyExternalID(row) \notin {NoExt, OperatorKey}
    /\ IsFiniteSet(KeyIds) /\ Counting \subseteq KeyIds
    /\ LinkIds \subseteq Nat \ {0}
    /\ MaxCount \in Nat
    /\ \A r \in Registrations : r.count \in 0..MaxCount
    /\ \A s \in Setups :
         /\ UsersOK(s.users) /\ CredsOK(s.users, s.creds) /\ KeysOK(s.users, s.keys)
         /\ OwnersOK(s.users, s.links, LinkIds) /\ OwnersOK(s.users, s.challenges, ChallengeIds)
         /\ s.flows \in [FlowIds -> FlowRow \cup {Unused, Ended}]

-----------------------------------------------------------------------------
(* WebAuthn *)

CheckClientData(a, kind, challenge) ==
    /\ a.kind = kind
    /\ challenge # Nobody /\ a.challenge = "this"
    /\ a.origin = "own" /\ ~a.cross

ParseAuthData(a) == a.site = "own" /\ a.present /\ a.verified

ParseKey(a) == a.alg = "fits"

VerifyRegistration(challenge, r) ==
    /\ CheckClientData(r, "create", challenge)
    /\ ParseAuthData(r)
    /\ r.attested /\ r.sameId
    /\ ParseKey(r)

OwnedBy(a, owner) == a.handle \in {Nobody, owner}

(* Zero is what a synced passkey always sends. *)
CounterMoves(stored, count) == (stored = 0 /\ count = 0) \/ count > stored

VerifyAssertion(challenge, a, stored, count) ==
    /\ CheckClientData(a, "get", challenge)
    /\ ParseAuthData(a)
    /\ ParseKey(a) /\ a.signed
    /\ CounterMoves(stored, count)

-----------------------------------------------------------------------------
(* Signing in *)

(* newPasskeyFlow, from /auth/login for the command line or from the panel. *)
SignInOptions(cli) ==
    /\ "signin" \in setup.calls /\ started < setup.maxStarts
    /\ Fresh(flows) # {}
    /\ flows' = [flows EXCEPT ![FirstFresh(flows)] = [cli |-> cli]]
    /\ started' = started + 1
    /\ UNCHANGED <<users, creds, keys, links, challenges, locked, setup, task, changes, ghosts>>

TaskOf(op, pc, row, key) ==
    [op |-> op, pc |-> pc, row |-> row, key |-> key, count |-> 0, cli |-> FALSE,
     role |-> "member", link |-> 0, left |-> 0]

(* Taking the flow deletes it, so an answer works once.  Then the passkey is  *)
(* read by its id and the answer checked against it.                          *)
PasskeySignIn(h, f, k, count) ==
    /\ Begin(h, "signin")
    /\ Open(flows, f)
    /\ k \in Counting <=> count > 0
    /\ flows' = [flows EXCEPT ![f] = Ended]
    /\ Run(h, [TaskOf("signin", "check", NoRow, k) EXCEPT !.count = count, !.cli = flows[f].cli])
    /\ UNCHANGED <<users, creds, keys, links, challenges>>

CheckPasskey(h) ==
    /\ task[h].pc = "check"
    /\ \E a \in Assertions :
         LET t == task[h]
         IN  IF Open(keys, t.key) /\ OwnedBy(a, keys[t.key].owner)
                /\ VerifyAssertion("this", a, keys[t.key].count, t.count)
             THEN Run(h, [t EXCEPT !.pc = "account", !.row = keys[t.key].owner])
             ELSE Done(h)
    /\ UNCHANGED <<tables, setup, started, changes, ghosts>>

(* The account is checked before the use is recorded. *)
Account(h) ==
    /\ task[h].pc = "account"
    /\ LET t == task[h]
           u == users[t.row]
       IN  IF IsPasskeyAccount(u.ext) /\ ~u.off
           THEN Run(h, [t EXCEPT !.role = u.role, !.pc = IF t.op = "signin" THEN "use" ELSE "store"])
           ELSE Done(h)
    /\ UNCHANGED <<tables, setup, started, changes, ghosts>>

(* Mutant: the counter is stored without being compared again. *)
UseAnyway(stored, count) == TRUE

(* The comparison UsePasskey repeats in its statement. *)
StillMoves(stored, count) == count = 0 \/ stored < count

UsePasskey(h) ==
    /\ task[h].pc = "use"
    /\ LET t == task[h]
           use == <<t.key, t.count>>
       IN  IF Open(keys, t.key) /\ StillMoves(keys[t.key].count, t.count)
           THEN /\ keys' = [keys EXCEPT ![t.key].count = t.count]
                /\ accepted' = IF t.count > 0 THEN accepted \cup {use} ELSE accepted
                /\ copies' = IF use \in accepted THEN copies \cup {use} ELSE copies
                /\ Goto(h, "sync")
           ELSE Done(h) /\ UNCHANGED <<keys, accepted, copies>>
    /\ UNCHANGED <<users, creds, flows, links, challenges, locked, setup, started, changes, made, stranded>>

(* syncRole to member: the operator role goes, and admin where groups decide. *)
SyncRole(h) ==
    /\ task[h].pc = "sync"
    /\ LET t == task[h]
           role == SyncedRole(Providers, Orgs, t.row, users[t.row].email, t.role, "member")
       IN  /\ role # t.role => Unlocked(t.row)
           /\ users' = IF role = t.role THEN users ELSE SetUserRole(users, t.row, role)
    /\ Goto(h, "session")
    /\ UNCHANGED <<creds, flows, keys, links, challenges, locked, setup, started, changes, ghosts>>

NewCred(kind, row) == [kind |-> kind, row |-> row, recent |-> TRUE]

(* startSession, and the code for the command line. *)
StartSession(h) ==
    /\ task[h].pc \in {"session", "code"}
    /\ Unlocked(task[h].row)
    /\ Fresh(creds) # {}
    /\ creds' = [creds EXCEPT ![FirstFresh(creds)] =
                   NewCred(IF task[h].pc = "session" THEN "session" ELSE "code", task[h].row)]
    /\ IF task[h].pc = "session" /\ task[h].cli THEN Goto(h, "code") ELSE Done(h)
    /\ UNCHANGED <<users, flows, keys, links, challenges, locked, setup, started, changes, ghosts>>

-----------------------------------------------------------------------------
(* Adding a passkey *)

(* PasskeyLinkUser: read, not taken, so a cancelled prompt does not cost it. *)
SetupOptions(h, l) ==
    /\ Begin(h, "setup")
    /\ Open(links, l)
    /\ IF ~users[links[l]].off /\ IsPasskeyAccount(users[links[l]].ext)
       THEN Run(h, TaskOf("options", "options", links[l], 0)) ELSE Done(h)
    /\ UNCHANGED <<users, creds, flows, keys, links, challenges>>

(* registrationOptions: the existing passkeys are read for the browser, and a *)
(* challenge is stored.                                                       *)
RegistrationOptions(h) ==
    /\ task[h].pc = "options"
    /\ Unlocked(task[h].row)
    /\ Fresh(challenges) # {}
    /\ challenges' = [challenges EXCEPT ![FirstFresh(challenges)] = task[h].row]
    /\ Done(h)
    /\ UNCHANGED <<users, creds, flows, keys, links, locked, setup, started, changes, ghosts>>

(* verifyRegistration uses up the challenge, whatever the answer is worth. *)
TakeChallenge(h, c, t) ==
    /\ Open(challenges, c)
    /\ challenges' = [challenges EXCEPT ![c] = Ended]
    /\ \E r \in Registrations : Run(h, IF VerifyRegistration("this", r) /\ t # Idle
                                       THEN [t EXCEPT !.count = r.count] ELSE Idle)

(* An authenticator answers with a new credential, or a browser sends an old *)
(* one again, whose row may be gone.                                         *)
Offered == {k \in KeyIds : keys[k] # Ended}
Registered(k) == \E j \in KeyIds : Open(keys, j) /\ CredentialOf[j] = CredentialOf[k]

PasskeySetup(h, c, l, k) ==
    /\ Begin(h, "setup")
    /\ k \in Offered
    /\ TakeChallenge(h, c, [TaskOf("setup", "known", challenges[c], k) EXCEPT !.link = l])
    /\ UNCHANGED <<users, creds, flows, keys, links>>

Known(h) ==
    /\ task[h].pc = "known"
    /\ IF Registered(task[h].key) THEN Done(h) ELSE Goto(h, "link")
    /\ UNCHANGED <<tables, setup, started, changes, ghosts>>

(* TakePasskeyLink: deleted as it is read. *)
LinkTaken(ls, l) == [ls EXCEPT ![l] = Ended]

(* The link is used up only now, and has to be the challenge's person's. *)
TakePasskeyLink(h) ==
    /\ task[h].pc = "link"
    /\ LET l == task[h].link
       IN  IF Open(links, l)
           THEN /\ links' = LinkTaken(links, l)
                /\ IF links[l] = task[h].row THEN Goto(h, "account") ELSE Done(h)
           ELSE UNCHANGED links /\ Done(h)
    /\ UNCHANGED <<users, creds, flows, keys, challenges, locked, setup, started, changes, ghosts>>

(* storePasskey: the credential id is unique among the rows there are. *)
StorePasskey(h) ==
    /\ task[h].pc = "store"
    /\ Unlocked(task[h].row)
    /\ LET t == task[h]
       IN  IF keys[t.key] # Unused \/ Registered(t.key) THEN Done(h) /\ UNCHANGED <<keys, made>>
           ELSE /\ keys' = [keys EXCEPT ![t.key] = [owner |-> t.row, count |-> t.count]]
                /\ made' = IF t.link = 0 THEN made ELSE [made EXCEPT ![t.link] = @ \cup {t.key}]
                /\ IF t.op = "setup" THEN Goto(h, "sync") ELSE Done(h)
    /\ UNCHANGED <<users, creds, flows, links, challenges, locked, setup, started, changes, accepted, copies, stranded>>

(* ownPasskeyAccount: from a browser, signed in moments ago. *)
OwnAccount(i) ==
    /\ Open(creds, i) /\ ~users[creds[i].row].off
    /\ creds[i].kind = "session" /\ creds[i].recent
    /\ IsPasskeyAccount(users[creds[i].row].ext)

OwnPasskeyOptions(h, i) ==
    /\ Begin(h, "own")
    /\ OwnAccount(i)
    /\ Run(h, TaskOf("options", "options", creds[i].row, 0))
    /\ UNCHANGED <<users, creds, flows, keys, links, challenges>>

AddOwnPasskey(h, i, k) ==
    /\ Begin(h, "own")
    /\ OwnAccount(i)
    /\ k \in Offered
    /\ Run(h, TaskOf("own", "answer", creds[i].row, k))
    /\ UNCHANGED <<users, creds, flows, keys, links, challenges>>

(* The challenge has to be the caller's own. *)
OwnAnswer(h, c) ==
    /\ task[h].pc = "answer"
    /\ TakeChallenge(h, c, IF challenges[c] = task[h].row THEN [task[h] EXCEPT !.pc = "store"] ELSE Idle)
    /\ UNCHANGED <<users, creds, flows, keys, links, locked, setup, started, changes, ghosts>>

-----------------------------------------------------------------------------
(* Who asks: a signed-in person, or the operator key. *)
Callers == {OperatorPrincipal} \cup
    {[via |-> creds[i].kind, user |-> creds[i].row, org |-> OrgOf(creds[i].row),
      role |-> users[creds[i].row].role] :
       i \in {j \in CredIds : Open(creds, j) /\ creds[j].kind # "code" /\ ~users[creds[j].row].off}}

(* deletePasskey: the passkey and its owner are read, and who may remove it. *)
DeletePasskey(h, p, k) ==
    /\ Begin(h, "delete")
    /\ Open(keys, k)
    /\ LET row == keys[k].owner
           own == row = p.user
       IN  Run(h, IF own \/ RequireOwnerAdmin(p, OrgOf(row))
                  THEN TaskOf(IF own THEN "own" ELSE "admin", "count", row, k) ELSE Idle)
    /\ UNCHANGED <<users, creds, flows, keys, links, challenges>>

(* The first statement of the removal starts: what it will count is fixed. *)
CountKeys(h) ==
    /\ task[h].pc = "count"
    /\ Run(h, [task[h] EXCEPT !.pc = "lock",
                 !.left = IF Open(keys, task[h].key) THEN Cardinality(KeysOf(task[h].row)) ELSE 0])
    /\ UNCHANGED <<tables, setup, started, changes, ghosts>>

(* It gets the owner's row, at once or after another transaction. *)
LockOwner(h) ==
    /\ task[h].pc = "lock"
    /\ Unlocked(task[h].row)
    /\ LET t == task[h]
           refused == t.left = 0 \/ (t.op = "own" /\ t.left <= 1)
       IN  IF refused THEN Done(h) /\ UNCHANGED locked
           ELSE locked' = locked \cup {t.row} /\ Goto(h, "remove")
    /\ UNCHANGED <<users, creds, flows, keys, links, challenges, setup, started, changes, ghosts>>

RemoveKey(h) ==
    /\ task[h].pc = "remove"
    /\ LET t == task[h]
           mine == Open(keys, t.key)
       IN  /\ keys' = IF mine THEN [keys EXCEPT ![t.key] = Ended] ELSE keys
           /\ locked' = locked \ {t.row}
           /\ stranded' = IF t.op = "own" /\ mine /\ KeysOf(t.row) = {t.key}
                          THEN stranded \cup {t.row} ELSE stranded
           /\ IF t.op = "admin" THEN Goto(h, "sessions") ELSE Done(h)
    /\ UNCHANGED <<users, creds, flows, links, challenges, setup, started, changes, accepted, copies, made>>

(* Somebody else's removal also signs the person out, a table at a time; a    *)
(* failure is logged and leaves the rest (Abort).                             *)
SignOut(h) ==
    /\ task[h].pc \in DOMAIN KindIn
    /\ creds' = DeleteCreds(creds, CredsIn(creds, {task[h].row}, task[h].pc))
    /\ IF task[h].pc \in DOMAIN TableAfter THEN Goto(h, TableAfter[task[h].pc]) ELSE Done(h)
    /\ UNCHANGED <<users, flows, keys, links, challenges, locked, setup, started, changes, ghosts>>

-----------------------------------------------------------------------------
(* Administering passkey accounts *)

(* mayVouchFor: an administrator, only at the organisation's own domain. *)
MayVouchFor(p, org, email) ==
    Unrestricted(p) \/ OrgDomain[org] \in {Nobody, DomainOf[email]}

(* issuePasskeyLinkRoute up to the account: the person is read here. *)
IssuePasskeyLink(h, p, row) ==
    /\ Begin(h, "issue")
    /\ Exists(users, row)
    /\ LET u == users[row]
       IN  Run(h, IF RequireOwnerAdmin(p, OrgOf(row)) /\ u.role # "operator" /\ ~u.off
                     /\ MayVouchFor(p, OrgOf(row), u.email)
                  THEN TaskOf("issue", "make", row, 0) ELSE Idle)
    /\ UNCHANGED <<users, creds, flows, keys, links, challenges>>

MakeAccount(h) ==
    /\ task[h].pc = "make"
    /\ Unlocked(task[h].row)
    /\ LET res == MakePasskeyAccount(users, task[h].row)
       IN  IF OK(res) THEN users' = res.users /\ Goto(h, "issue")
           ELSE UNCHANGED users /\ Done(h)
    /\ UNCHANGED <<creds, flows, keys, links, challenges, locked, setup, started, changes, ghosts>>

(* A new link replaces the person's last one. *)
CreatePasskeyLink(h) ==
    /\ task[h].pc = "issue"
    /\ Unlocked(task[h].row)
    /\ Fresh(links) # {}
    /\ links' = [l \in LinkIds |-> IF l = FirstFresh(links) THEN task[h].row
                                   ELSE IF links[l] = task[h].row THEN Ended ELSE links[l]]
    /\ Done(h)
    /\ UNCHANGED <<users, creds, flows, keys, challenges, locked, setup, started, changes, ghosts>>

(* addUser for a passkey account: never an operator, and its link comes with  *)
(* it.                                                                        *)
AddPasskeyUser(h, p, row, role) ==
    /\ Begin(h, "add")
    /\ LET res == IF OrgOf(row) \in OrgToAdmin(p, OrgOf(row)) /\ Assignable(role)
                     /\ (role # "member" => ~AdminFromDirectory(Providers))
                     /\ MayVouchFor(p, OrgOf(row), row[2])
                  THEN AddUser(users, OrgOf(row), row[2], PasskeyExternalID(row), role)
                  ELSE Refused("forbidden")
       IN  IF OK(res) THEN users' = res.users /\ Run(h, TaskOf("issue", "issue", row, 0))
           ELSE UNCHANGED users /\ Done(h)
    /\ UNCHANGED <<creds, flows, keys, links, challenges>>

(* disableUser and enableUser; DisableUser removes the sessions, passkeys,    *)
(* links and challenges with the row.                                         *)
SwitchUser(h, p, row, op) ==
    /\ Begin(h, op)
    /\ Exists(users, row)
    /\ Run(h, IF RequireOwnerAdmin(p, OrgOf(row)) /\ users[row].role # "operator" /\ row # p.user
              THEN TaskOf(op, op, row, 0) ELSE Idle)
    /\ UNCHANGED <<users, creds, flows, keys, links, challenges>>

DisableUser(h) ==
    /\ task[h].pc = "disable"
    /\ Unlocked(task[h].row)
    /\ LET row == task[h].row
       IN  /\ users' = [users EXCEPT ![row].off = TRUE]
           /\ creds' = DeleteSessionsWhere(creds, {row})
           /\ keys' = [k \in KeyIds |-> IF k \in KeysOf(row) THEN Ended ELSE keys[k]]
           /\ links' = [l \in LinkIds |-> IF links[l] = row THEN Ended ELSE links[l]]
           /\ challenges' = [c \in ChallengeIds |-> IF challenges[c] = row THEN Ended ELSE challenges[c]]
    /\ Done(h)
    /\ UNCHANGED <<flows, locked, setup, started, changes, ghosts>>

EnableUser(h) ==
    /\ task[h].pc = "enable"
    /\ Unlocked(task[h].row)
    /\ users' = [users EXCEPT ![task[h].row].off = FALSE]
    /\ Done(h)
    /\ UNCHANGED <<creds, flows, keys, links, challenges, locked, setup, started, changes, ghosts>>

-----------------------------------------------------------------------------
(* The surroundings *)

Change == changes < MaxChanges /\ changes' = changes + 1 /\ UNCHANGED <<setup, task, started, ghosts, locked>>

(* A person signs in through a directory and takes the row made for their     *)
(* address (LinkUser), perhaps as an operator.                                *)
DirectoryTakes(d, row) ==
    /\ Change
    /\ Exists(users, row) /\ Unlocked(row)
    /\ LET res == LinkUser(users, OrgOf(row), users[row].email, d, "member")
       IN  /\ OK(res) /\ res.row = row
           /\ \E role \in Roles : users' = SetUserRole(res.users, row, role)
    /\ UNCHANGED <<creds, flows, keys, links, challenges>>

(* Time: a sign-in is no longer recent; a link, a challenge or a flow has     *)
(* expired.                                                                   *)
TimePasses ==
    /\ Change
    /\ \/ /\ \E i \in CredIds : Open(creds, i) /\ creds[i].recent /\ creds' = [creds EXCEPT ![i].recent = FALSE]
          /\ UNCHANGED <<links, challenges, flows>>
       \/ /\ \E l \in LinkIds : Open(links, l) /\ links' = [links EXCEPT ![l] = Ended]
          /\ UNCHANGED <<creds, challenges, flows>>
       \/ /\ \E c \in ChallengeIds : Open(challenges, c) /\ challenges' = [challenges EXCEPT ![c] = Ended]
          /\ UNCHANGED <<creds, links, flows>>
    /\ UNCHANGED <<users, keys>>

(* A request stops half way; a transaction it was in is rolled back. *)
Abort(h) ==
    /\ task[h] # Idle
    /\ locked' = IF task[h].pc = "remove" THEN locked \ {task[h].row} ELSE locked
    /\ Done(h)
    /\ UNCHANGED <<users, creds, flows, keys, links, challenges, setup, started, changes, ghosts>>

-----------------------------------------------------------------------------
Init ==
    /\ setup \in Setups
    /\ users = setup.users /\ creds = setup.creds /\ keys = setup.keys
    /\ links = setup.links /\ challenges = setup.challenges /\ flows = setup.flows
    /\ locked = {}
    /\ task = [h \in Slots |-> Idle]
    /\ started = 0 /\ changes = 0
    /\ accepted = {} /\ copies = {} /\ stranded = {}
    /\ made = [l \in LinkIds |-> {}]

Start(h) ==
    \/ \E f \in FlowIds, k \in KeyIds, n \in 0..MaxCount : PasskeySignIn(h, f, k, n)
    \/ \E l \in LinkIds : SetupOptions(h, l)
    \/ \E c \in ChallengeIds, l \in LinkIds, k \in KeyIds : PasskeySetup(h, c, l, k)
    \/ \E i \in CredIds : OwnPasskeyOptions(h, i)
    \/ \E i \in CredIds, k \in KeyIds : AddOwnPasskey(h, i, k)
    \/ \E p \in Callers, k \in KeyIds : DeletePasskey(h, p, k)
    \/ \E p \in Callers, row \in Rows : IssuePasskeyLink(h, p, row)
    \/ \E p \in Callers, row \in Rows, role \in Roles : AddPasskeyUser(h, p, row, role)
    \/ \E p \in Callers, row \in Rows, op \in {"disable", "enable"} : SwitchUser(h, p, row, op)

Step(h) ==
    \/ CheckPasskey(h) \/ Account(h) \/ UsePasskey(h) \/ SyncRole(h) \/ StartSession(h)
    \/ RegistrationOptions(h) \/ Known(h) \/ TakePasskeyLink(h) \/ StorePasskey(h)
    \/ (\E c \in ChallengeIds : OwnAnswer(h, c))
    \/ CountKeys(h) \/ LockOwner(h) \/ RemoveKey(h) \/ SignOut(h)
    \/ MakeAccount(h) \/ CreatePasskeyLink(h) \/ DisableUser(h) \/ EnableUser(h)

Next ==
    \/ \E cli \in BOOLEAN : SignInOptions(cli)
    \/ \E h \in Slots : Start(h) \/ Step(h) \/ Abort(h)
    \/ \E d \in Idents, row \in Rows : DirectoryTakes(d, row)
    \/ TimePasses

Spec == Init /\ [][Next]_vars

-----------------------------------------------------------------------------
(* Properties *)

(* Passkeys do not weaken single sign-on: whoever has one is a passkey        *)
(* account, which no directory has taken and which is no operator.            *)
PasskeysApart ==
    \A k \in KeyIds : Open(keys, k) =>
        IsPasskeyAccount(users[keys[k].owner].ext) /\ users[keys[k].owner].role # "operator"

(* What is to be used once is used once.  Two sign-ins with copies of one     *)
(* counting key do not both pass: a value of the signature counter is         *)
(* accepted once.  And a set-up link makes one passkey, however many browsers *)
(* finish it at once.                                                         *)
UsedOnce == copies = {} /\ \A l \in LinkIds : Cardinality(made[l]) <= 1

(* store/passkeys.go says of DeletePasskey that the owner's row is locked     *)
(* first, so two removals cannot both pass: a person keeps a passkey.  The    *)
(* code does not keep it, as TLC shows under MCPasskeys (README).             *)
LastPasskeyStays == stranded = {}

(* docs/sso.md says that enabling a disabled person lets them back in only    *)
(* with a new link: a disabled person has no passkey.  The code does not keep *)
(* it, as TLC shows under MCPasskeys (README).                                *)
DisabledHasNone == \A k \in KeyIds : Open(keys, k) => ~users[keys[k].owner].off

=============================================================================
