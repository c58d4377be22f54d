-------------------------------- MODULE SignIn --------------------------------
(* Signing in to the control plane, and what a signed-in caller does to      *)
(* other sign-ins (internal/control: auth.go, cliauth.go, password.go,       *)
(* signup.go, directory.go, memberships.go, users.go, server.go).            *)
(*                                                                           *)
(* A request is a task in a slot.  It runs one store statement or one call   *)
(* to an identity provider per step, so that requests interleave between     *)
(* any two of them, and any of them may stop half way: a database error, a   *)
(* client that hangs up or a killed process (Abort).                         *)
EXTENDS Accounts, Principals, TLC

CONSTANTS Slots,      \* requests that run at the same time
          Setups,     \* deployments and the tables they start from
          Answers,    \* what a provider can answer
          CredIds, FlowIds, SignupIds,
          MaxTokens,  \* bound: refresh tokens issued
          MaxChanges, \* bound: changes of the surroundings
          LocalEmail  \* address of the operator key's stand-in

VARIABLES
    setup,      \* the deployment: providers, what their directories can come
                \* to hold (entries), the requests people make (starts,
                \* routes) and how many (maxStarts)
    orgs,       \* organisations that exist
    users,      \* the users table
    idents,     \* the identities table
    creds,      \* sessions, cli_tokens and cli_codes
    flows,      \* login_flows
    signups,    \* signups, one per token handed to a browser
    dir,        \* what each directory holds
    task,       \* slot -> the request it runs
    \* counters the bounds are about
    tokens, started, changes,
    \* what the properties remember
    spent,      \* refresh tokens a rotating provider has taken back
    reused,     \* spent tokens that were presented again
    lost,       \* spent tokens whose successor was not stored
    over,       \* sign-ins an ending was meant for
    appointed,  \* rows made administrator by those who may
    crossed,    \* requests beside which another request, or a sign-up, of the
                \* same person carried the operator role
    settled     \* identities a request that was not crossed has demoted

db == <<orgs, users, idents, creds, flows, signups>>
ghosts == <<spent, reused, lost, over, appointed, crossed, settled>>
counters == <<tokens, started, changes>>
vars == <<setup, db, dir, task, counters, ghosts>>

Providers == setup.providers

-----------------------------------------------------------------------------
Idle == [pc |-> "idle"]

ProviderOf(d) == Providers[d[1]]
Rotating(ps, d) == d[1] \in DOMAIN ps /\ ps[d[1]].kind \in {"oidc", "entra"}
Rotates(d) == Rotating(Providers, d)

(* directoryOf: no provider knows a passkey account or the stand-in. *)
HasDirectory(ext) == VouchedByDirectory(ext) /\ ext[1] \in DOMAIN Providers

Fresh(table) == {i \in DOMAIN table : table[i] = Unused}
FirstFresh(table) == CHOOSE i \in Fresh(table) : \A j \in Fresh(table) : i <= j

(* The rows of the tables, what keys and checks keep true of them, and what   *)
(* deployments and requests are like: an id or a value that means nothing is  *)
(* no row, no provider issues the operator key's stand-in, nobody is invited  *)
(* as an operator, two people have no rotating refresh token in common, an    *)
(* address of a directory's entry is one there can be.                        *)
CredRow  == [kind : {"session", "token", "code"}, row : Rows, who : ExternalIDs, long : BOOLEAN,
             from : CredIds \cup {0}]
IdentRow == [token : Nat, due : BOOLEAN, failing : {"no", "short", "long"}]
Mail     == [addr : Emails, primary : BOOLEAN, verified : {"yes", "no", "unsaid"}]

UsersOK(us, os) == /\ os \subseteq Orgs
                   /\ us \in [Rows -> UserRow \cup {NoRow}]
                   /\ \A row \in Rows : Exists(us, row) => OrgOf(row) \in os
InvitationsOK(us) == \A row \in Rows : Exists(us, row) /\ us[row].ext = NoExt => us[row].role # "operator"
CredsOK(us, cs) ==
    /\ cs \in [CredIds -> CredRow \cup {Unused, Ended}]
    /\ \A i \in CredIds : Live(cs, i) =>
         /\ Exists(us, cs[i].row) /\ us[cs[i].row].ext = cs[i].who
         /\ cs[i].from # 0 => cs[cs[i].from] = Ended
IdentsOK(ps, ids, issued) ==
    /\ ids \in [Idents -> IdentRow]
    /\ \A d \in Idents : Rotating(ps, d) => ids[d].token <= issued
    /\ \A d, e \in Idents : Rotating(ps, d) /\ Rotating(ps, e) /\ ids[d].token # 0
                             /\ ids[d].token = ids[e].token => d = e
EntriesOK(es) == 1 \in DOMAIN es /\ \A e \in Range(es) : e.mails \in Seq(Mail)
RouteOK(arg) == /\ arg.op = "add" => arg.ext \in ExternalIDs \cup {NoExt}
                /\ arg.op \in {"role", "disable", "enable"} => arg.row \in Rows

ASSUME SignInAssumption ==
    /\ Unused # Ended /\ Unused \notin CredRow /\ Ended \notin CredRow
    /\ NoRow \notin UserRow /\ NoExt \notin ExternalIDs /\ OperatorKey \notin Idents
    /\ \A o \in Orgs \cup {Nobody} : <<"signup", o>> \notin Orgs
    /\ CredIds \subseteq Nat \ {0} /\ FlowIds \subseteq Nat \ {0} /\ SignupIds \subseteq Nat
    /\ LocalEmail \in Emails
    /\ \A s \in Setups :
         /\ UsersOK(s.users, s.orgs) /\ InvitationsOK(s.users) /\ CredsOK(s.users, s.creds)
         /\ s.tokens \in Nat /\ IdentsOK(s.providers, s.idents, s.tokens)
         /\ \A d \in Idents : EntriesOK(s.entries[d])
         /\ \A arg \in s.routes : RouteOK(arg)

Run(h, t) == task' = [task EXCEPT ![h] = t]
Done(h) == Run(h, Idle)
Goto(h, pc) == Run(h, [task[h] EXCEPT !.pc = pc])

(* Who is about to write the operator role on a row of d: a request whose     *)
(* directory said so, a switch of organisation that read it of the row it     *)
(* comes from, a sign-up that was opened by an operator and is not used yet.  *)
Bears(t, d) ==
    /\ t # Idle /\ t.d = d
    /\ t.want = "operator" \/ (t.pc \in {"target", "carry"} /\ t.role = "operator")
Pending(d) == \E s \in SignupIds : signups[s] # Nobody /\ signups[s].d = d /\ signups[s].want = "operator"
Carried(d) == Pending(d) \/ \E g \in Slots : Bears(task[g], d)

(* Whom such a request meets. *)
Of(d) == {g \in Slots : task[g] # Idle /\ task[g].d = d}

(* A request of d starts in a free slot. *)
Begin(h, kind, d) ==
    /\ task[h] = Idle
    /\ kind \in setup.starts
    /\ started < setup.maxStarts
    /\ started' = started + 1
    /\ crossed' = IF Carried(d) THEN crossed \cup {h} ELSE crossed \ {h}
    /\ UNCHANGED <<setup, tokens, changes, spent, reused, lost, over, settled>>

-----------------------------------------------------------------------------
(* The rules for roles *)

(* mayGrant: never the operator role, and none where groups decide. *)
MayGrant(role) == Assignable(role) /\ ~AdminFromDirectory(Providers)

(* The rows a role change leaves to be accounted for. *)
Appoint(row, role, how) ==
    appointed' = IF role = "admin" /\ how THEN appointed \cup {row} ELSE appointed

-----------------------------------------------------------------------------
(* Starting a sign-in *)

(* login and startPasswordLogin: a flow, for the panel or the command line. *)
Login(p, cli) ==
    /\ "login" \in setup.starts
    /\ started < setup.maxStarts
    /\ Fresh(flows) # {}
    /\ Password(Providers[p]) => cli
    /\ flows' = [flows EXCEPT ![FirstFresh(flows)] = [provider |-> p, cli |-> cli]]
    /\ started' = started + 1
    /\ UNCHANGED <<orgs, users, idents, creds, signups, setup, dir, task, tokens, changes, ghosts>>

NoRest == [row \in {} |-> "member"]

SignInTask(d, pc, flow, cli) ==
    [pc |-> pc, op |-> "signin", d |-> d, flow |-> flow, cli |-> cli, tok |-> 0,
     mail |-> Nobody, want |-> "member", row |-> NoRow, role |-> "member", long |-> FALSE,
     arg |-> [op |-> "none"], via |-> "none", rest |-> NoRest]

(* callback up to the exchange: the flow is taken before anything else, and a *)
(* provider's own refusal ends it there.                                      *)
Callback(h, f, d) ==
    /\ Begin(h, "signin", d)
    /\ flows[f] \notin {Unused, Ended}
    /\ flows[f].provider = d[1]
    /\ flows' = [flows EXCEPT ![f] = Ended]
    /\ \/ ~Password(ProviderOf(d)) /\ Run(h, SignInTask(d, "exchange", 0, flows[f].cli))
       \/ Done(h)
    /\ UNCHANGED <<orgs, users, idents, creds, signups, dir, appointed>>

(* passwordSignIn up to the directory: a flow is read, not taken. *)
PasswordSignIn(h, f, d) ==
    /\ Begin(h, "signin", d)
    /\ d[1] \in DOMAIN Providers /\ Password(ProviderOf(d))
    /\ f # 0 => flows[f] \notin {Unused, Ended} /\ flows[f].provider = d[1]
    /\ Run(h, SignInTask(d, "password", f, f # 0 /\ flows[f].cli))
    /\ UNCHANGED <<db, dir, appointed>>

(* What a sign-in goes on with once its provider has vouched for the person.  *)
(* A rotating provider issues a new refresh token, the others one that stays. *)
NewToken(d) == IF Rotates(d) THEN tokens + 1 ELSE 1

(* The directory has spoken of the role.  An operator is demoted no longer,   *)
(* and whatever else runs for them now runs beside the operator role.         *)
Says(d, role) ==
    /\ settled' = IF role = "operator" THEN settled \ {d} ELSE settled
    /\ crossed' = IF role = "operator" THEN crossed \cup Of(d) ELSE crossed

Vouched(h, id, a, pc) ==
    LET t == task[h]
        role == RoleFor(ProviderOf(t.d), id)
        issue == a.token /\ (Rotates(t.d) => tokens < MaxTokens)
    IN  /\ Run(h, [t EXCEPT !.pc = pc, !.mail = id.email, !.want = role,
                            !.tok = IF issue THEN NewToken(t.d) ELSE 0])
        /\ tokens' = IF issue /\ Rotates(t.d) THEN tokens + 1 ELSE tokens
        /\ Says(t.d, role)

ExchangeStep(h) ==
    /\ task[h].pc = "exchange"
    /\ \E a \in Answers :
         LET id == Exchange(ProviderOf(task[h].d), dir[task[h].d], a)
         IN  IF OK(id) THEN Vouched(h, id, a, "place")
             ELSE Done(h) /\ UNCHANGED <<tokens, settled, crossed>>
    /\ UNCHANGED <<setup, db, dir, started, changes, spent, reused, lost, over, appointed>>

(* Authenticate, behind the throttles of the name and of the entry. *)
AuthenticateStep(h) ==
    /\ task[h].pc = "password"
    /\ \E a \in Answers, admitted \in BOOLEAN :
         LET id == Authenticate(ProviderOf(task[h].d), dir[task[h].d], a, admitted)
         IN  IF OK(id) THEN Vouched(h, id, a, IF task[h].flow = 0 THEN "place" ELSE "take")
             ELSE Done(h) /\ UNCHANGED <<tokens, settled, crossed>>
    /\ UNCHANGED <<setup, db, dir, started, changes, spent, reused, lost, over, appointed>>

(* Taking the flow now makes the hand-over work once. *)
TakeFlow(h) ==
    /\ task[h].pc = "take"
    /\ IF flows[task[h].flow] = Ended THEN Done(h) /\ UNCHANGED flows
       ELSE /\ flows' = [flows EXCEPT ![task[h].flow] = Ended]
            /\ Goto(h, "place")
    /\ UNCHANGED <<orgs, users, idents, creds, signups, setup, dir, counters, ghosts>>

-----------------------------------------------------------------------------
(* Placing a sign-in in an organisation *)

(* lastOrg: an organisation the person is enabled in, the browser's cookie or *)
(* the last use deciding which; one they are disabled in only if all are.     *)
LastOrg(ms) ==
    LET on == {row \in ms : ~users[row].off}
    IN  {OrgOf(row) : row \in IF on = {} THEN ms ELSE on}

(* sameIdentity: no other directory signs this address in. *)
SameIdentity(d, email) ==
    \A ext \in ExternalIDsFor(users, email) : ext = d \/ ~VouchedByDirectory(ext)

(* orgFor: where the person already is, else the organisation of the domain,  *)
(* else the sign-up screen or the only organisation there is.  Nothing means  *)
(* the sign-in is refused; a pair <<"signup", invited>> that it goes there.   *)
OrgFor(d, email) ==
    LET ms       == Memberships(users, d, Nobody, FALSE)
        byDomain == OrgByEmailDomain(orgs, DomainOf[email])
        invited  == InvitationFor(users, email)
    IN  IF ms # {} THEN LastOrg(ms)
        ELSE IF ~SameIdentity(d, email) THEN {}
        ELSE IF byDomain # {} THEN byDomain
        ELSE IF ProviderOf(d).signUp
        THEN {<<"signup", o>> : o \in IF invited = {} THEN {Nobody} ELSE invited}
        ELSE IF ~SignUpAllowed(Providers) THEN OnlyOrg(orgs)
        ELSE {}

(* A sign-up screen is for a browser: the command line is told to open one.   *)
(* startSignup keeps what the provider said, under a token of its own: a      *)
(* person who starts twice has two sign-ups open.                             *)
StartSignup(h, invited) ==
    LET t == task[h]
    IN  IF t.cli THEN UNCHANGED signups
        ELSE \E s \in SignupIds :
               /\ signups[s] = Nobody
               /\ signups' = [signups EXCEPT ![s] =
                    [d |-> t.d, mail |-> t.mail, want |-> t.want, tok |-> t.tok, invited |-> invited]]

Place(h) ==
    /\ task[h].pc = "place"
    /\ LET where == OrgFor(task[h].d, task[h].mail)
       IN  \/ where = {} /\ Done(h) /\ UNCHANGED signups
           \/ \E o \in where \cap Orgs :
                /\ Run(h, [task[h] EXCEPT !.pc = "link", !.row = <<o, task[h].mail>>])
                /\ UNCHANGED signups
           \/ \E o \in where \ Orgs : StartSignup(h, o[2]) /\ Done(h)
    /\ UNCHANGED <<orgs, users, idents, creds, flows, setup, dir, counters, ghosts>>

-----------------------------------------------------------------------------
(* Linking the identity and applying its role *)

(* linkIdentity's LinkUser, and the refusal of a disabled person. *)
Link(h) ==
    /\ task[h].pc = "link"
    /\ LET t == task[h]
           res == LinkUser(users, OrgOf(t.row), t.mail, t.d, t.want)
       IN  IF ~OK(res) THEN Done(h) /\ UNCHANGED <<users, appointed>>
           ELSE LET u == res.users[res.row]
                IN  /\ users' = res.users
                    /\ Appoint(res.row, u.role, ~Exists(users, res.row)
                          /\ OrgOf(res.row) \in DirectoryOrg(orgs, Providers, t.mail))
                    /\ IF u.off THEN Done(h)
                       ELSE Run(h, [t EXCEPT !.pc = "sync", !.row = res.row, !.role = u.role])
    /\ UNCHANGED <<orgs, idents, creds, flows, signups, setup, dir, counters,
                   spent, reused, lost, over, crossed, settled>>

(* What follows the role: the person's other rows, or the session. *)
AfterSync(t) ==
    CASE t.op = "signin" -> "others"
      [] t.op = "request" -> "others"
      [] OTHER -> "ttl"

(* syncRole on the row the request is about, from the role it read.  In a     *)
(* re-check a failure is logged, and the request goes on.                     *)
Sync(h) ==
    /\ task[h].pc = "sync"
    /\ LET t == task[h]
           role == SyncedRole(Providers, orgs, t.row, t.mail, t.role, t.want)
       IN  \/ /\ users' = IF role = t.role THEN users ELSE SetUserRole(users, t.row, role)
              /\ Appoint(t.row, role, role # t.role
                           /\ OrgOf(t.row) \in DirectoryOrg(orgs, Providers, t.mail))
              /\ Run(h, [t EXCEPT !.pc = AfterSync(t), !.role = role])
           \/ t.op = "request" /\ Goto(h, "route") /\ UNCHANGED <<users, appointed>>
    /\ UNCHANGED <<orgs, idents, creds, flows, signups, setup, dir, counters,
                   spent, reused, lost, over, crossed, settled>>

Others(t) == RowsOf(users, t.d) \ {t.row}

(* syncOtherRoles: the directory is asked once per person, not per row.  The  *)
(* person's other rows are read at once, with their roles...                  *)
SyncOthers(h) ==
    /\ task[h].pc = "others"
    /\ LET t == task[h]
       IN  \/ Run(h, [t EXCEPT !.pc = "each", !.rest = [row \in Others(t) |-> users[row].role]])
           \/ t.op = "request" /\ Goto(h, "route")
    /\ UNCHANGED <<db, setup, dir, counters, ghosts>>

(* ...and then syncRole is applied to one after the other, from the role read *)
(* then, until one of them fails.                                             *)
SyncEach(h) ==
    /\ task[h].pc = "each"
    /\ LET t == task[h]
           after == IF t.op = "signin" THEN "remember" ELSE "route"
       IN  \/ /\ DOMAIN t.rest = {}
              /\ settled' = IF t.want # "operator" /\ h \notin crossed THEN settled \cup {t.d} ELSE settled
              /\ Run(h, [t EXCEPT !.pc = after])
              /\ UNCHANGED <<users, appointed>>
           \/ \E row \in DOMAIN t.rest :
                LET was  == t.rest[row]
                    role == SyncedRole(Providers, orgs, row, t.mail, was, t.want)
                IN  /\ users' = IF role = was THEN users ELSE SetUserRole(users, row, role)
                    /\ Appoint(row, role, role # was /\ OrgOf(row) \in DirectoryOrg(orgs, Providers, t.mail))
                    /\ Run(h, [t EXCEPT !.rest = [r \in DOMAIN t.rest \ {row} |-> t.rest[r]]])
                    /\ UNCHANGED settled
           \/ /\ t.op = "request" /\ DOMAIN t.rest # {}
              /\ Run(h, [t EXCEPT !.pc = "route", !.rest = NoRest])
              /\ UNCHANGED <<users, appointed, settled>>
    /\ UNCHANGED <<orgs, idents, creds, flows, signups, setup, dir, counters, spent, reused, lost, over, crossed>>

(* rememberDirectory: a failure is logged, the sign-in goes on. *)
Remember(h) ==
    /\ task[h].pc = "remember"
    /\ idents' \in {idents, RecordDirectoryCheck(idents, task[h].d, task[h].tok)}
    /\ Goto(h, IF task[h].op = "join" THEN "sync" ELSE "ttl")
    /\ UNCHANGED <<orgs, users, creds, flows, signups, setup, dir, counters, ghosts>>

-----------------------------------------------------------------------------
(* The sign-in itself *)

(* signInTTL: a month relies on asking the directory again meanwhile. *)
LongSignIn(ext) ==
    ext # OperatorKey /\ (HasDirectory(ext) => idents[ext].token # 0)

Ttl(h) ==
    /\ task[h].pc = "ttl"
    /\ Run(h, [task[h] EXCEPT !.long = LongSignIn(task[h].d),
                              !.pc = IF task[h].op = "redeem" THEN "token" ELSE "session"])
    /\ UNCHANGED <<db, setup, dir, counters, ghosts>>

NewCred(kind, t) == [kind |-> kind, row |-> t.row, who |-> t.d, long |-> t.long, from |-> t.flow]

(* startSession, and for the command line the code it hands over next. *)
StartSession(h) ==
    /\ task[h].pc = "session"
    /\ Fresh(creds) # {}
    /\ creds' = [creds EXCEPT ![FirstFresh(creds)] = NewCred("session", [task[h] EXCEPT !.flow = 0])]
    /\ IF task[h].cli THEN Goto(h, "code") ELSE Done(h)
    /\ UNCHANGED <<orgs, users, idents, flows, signups, setup, dir, counters, ghosts>>

CliHandOver(h) ==
    /\ task[h].pc = "code"
    /\ Fresh(creds) # {}
    /\ creds' = [creds EXCEPT ![FirstFresh(creds)] = NewCred("code", [task[h] EXCEPT !.flow = 0])]
    /\ Done(h)
    /\ UNCHANGED <<orgs, users, idents, flows, signups, setup, dir, counters, ghosts>>

(* cliToken: the code is deleted as it is read, then the proof key is         *)
(* checked, and the person is read without asking whether they are disabled.  *)
CliToken(h, i, proof) ==
    /\ Live(creds, i) /\ creds[i].kind = "code"
    /\ Begin(h, "redeem", creds[i].who)
    /\ creds' = [creds EXCEPT ![i] = Ended]
    /\ IF proof
       THEN Run(h, [SignInTask(users[creds[i].row].ext, "ttl", i, FALSE)
                      EXCEPT !.op = "redeem", !.row = creds[i].row])
       ELSE Done(h)
    /\ UNCHANGED <<orgs, users, idents, flows, signups, dir, appointed>>

CreateToken(h) ==
    /\ task[h].pc = "token"
    /\ Fresh(creds) # {}
    /\ creds' = [creds EXCEPT ![FirstFresh(creds)] = NewCred("token", task[h])]
    /\ Done(h)
    /\ UNCHANGED <<orgs, users, idents, flows, signups, setup, dir, counters, ghosts>>

(* operatorKeyOrg: where the stand-in is, else an organisation there is, else *)
(* a new one.  localLogin makes it an operator through the same steps.        *)
OperatorKeyOrg ==
    LET mine == {OrgOf(row) : row \in RowsOf(users, OperatorKey)}
    IN  IF mine # {} THEN mine ELSE IF orgs # {} THEN orgs ELSE Orgs

LocalLogin(h) ==
    /\ Begin(h, "local", OperatorKey)
    /\ \E o \in OperatorKeyOrg :
         LET res == LinkUser(users, o, LocalEmail, OperatorKey, "operator")
         IN  IF OK(res)
             THEN /\ users' = res.users
                  /\ orgs' = orgs \cup {o}
                  /\ Run(h, [SignInTask(OperatorKey, "sync", 0, FALSE) EXCEPT
                               !.op = "local", !.row = res.row, !.mail = LocalEmail,
                               !.want = "operator", !.role = res.users[res.row].role])
             ELSE UNCHANGED <<orgs, users>> /\ Done(h)
    /\ UNCHANGED <<idents, creds, flows, signups, dir, appointed>>

-----------------------------------------------------------------------------
(* Signing up *)

SignUpTask(su, op, row, role) ==
    [SignInTask(su.d, "remember", 0, FALSE) EXCEPT
        !.op = op, !.tok = su.tok, !.mail = su.mail, !.want = su.want, !.row = row, !.role = role]

(* SignUp: the sign-up, the organisation and its administrator, or nothing. A *)
(* name that is taken is tried again with the address in it.                  *)
CreateOrg(h, s, o) ==
    LET su == signups[s]
        row == <<o, su.mail>>
        role == IF su.want = "operator" THEN "operator" ELSE "admin"
    IN  /\ o \notin orgs /\ OrgDomain[o] = Nobody
        /\ orgs' = orgs \cup {o}
        /\ users' = [users EXCEPT ![row] = User(su.mail, su.d, role)]
        /\ signups' = [signups EXCEPT ![s] = Nobody]
        /\ Appoint(row, role, TRUE)
        /\ Run(h, SignUpTask(su, "create", row, role))

(* JoinInvitation: the sign-up and the invitation go together. *)
JoinInvitation(h, s) ==
    LET su == signups[s]
        res == IF su.invited = Nobody THEN Refused("gone")
               ELSE TakeInvitation(users, su.invited, su.mail, su.d)
    IN  /\ IF OK(res)
           THEN /\ users' = res.users
                /\ signups' = [signups EXCEPT ![s] = Nobody]
                /\ Run(h, SignUpTask(su, "join", res.row, res.users[res.row].role))
           ELSE UNCHANGED <<users, signups>> /\ Done(h)
        /\ UNCHANGED <<orgs, appointed>>

CompleteSignup(h, s) ==
    /\ signups[s] # Nobody
    /\ Begin(h, "signup", signups[s].d)
    /\ (\E o \in Orgs : CreateOrg(h, s, o)) \/ JoinInvitation(h, s)
    /\ UNCHANGED <<idents, creds, flows, dir>>

-----------------------------------------------------------------------------
(* Requests of a signed-in caller *)

RequestTask(i, arg) ==
    LET row == creds[i].row
    IN  [SignInTask(users[row].ext, "route", i, FALSE) EXCEPT
           !.op = "request", !.row = row, !.role = users[row].role, !.mail = users[row].email,
           !.arg = arg, !.via = creds[i].kind]

(* sessionPrincipal and cliPrincipal: look the credential up with its person  *)
(* and directory, and ask the directory again when that is due.               *)
Request(h, i, arg) ==
    /\ Lookup(users, creds, i)
    /\ Begin(h, "request", users[creds[i].row].ext)
    /\ LET t == RequestTask(i, arg)
       IN  Run(h, IF HasDirectory(t.d) /\ Claimable(idents, t.d) THEN [t EXCEPT !.pc = "claim"] ELSE t)
    /\ UNCHANGED <<db, dir, appointed>>

(* The operator key is a principal of its own, with no row. *)
KeyRequest(h, arg) ==
    /\ Begin(h, "key", OperatorKey)
    /\ Run(h, [SignInTask(OperatorKey, "route", 0, FALSE) EXCEPT !.op = "key", !.role = "operator",
                                                             !.arg = arg, !.via = "key"])
    /\ UNCHANGED <<db, dir, appointed>>

(* checkDirectory: one request wins the check, the others go on. *)
Claim(h) ==
    /\ task[h].pc = "claim"
    /\ LET d == task[h].d
       IN  IF Claimable(idents, d)
           THEN /\ idents' = ClaimDirectoryCheck(idents, d)
                /\ Run(h, [task[h] EXCEPT !.pc = "ask", !.tok = idents[d].token])
           ELSE Goto(h, "route") /\ UNCHANGED idents
    /\ UNCHANGED <<orgs, users, creds, flows, signups, setup, dir, counters, ghosts>>

(* Asking again.  A provider that rotates refresh tokens takes the old one    *)
(* back when it sees it, and refuses one it has taken back.  A sealed token   *)
(* that does not open is a refusal, and is not shown; an answer about         *)
(* somebody else is a refusal too.                                            *)
Again(t) == Rotates(t.d) /\ t.tok \in spent
Rotated(t, a, seen) == seen /\ Rotates(t.d) /\ ~Again(t) /\ ~dir[t.d].gone /\ a.token

Heard(t, a) ==
    LET said == Recheck(ProviderOf(t.d), dir[t.d], a)
    IN  IF a.sealed \/ (Again(t) /\ a.code = "good") \/ (OK(said) /\ a.other)
        THEN Refused("refused") ELSE said

(* What the provider did to the tokens it did whatever becomes of its answer: *)
(* an ID token that does not verify, an answer about somebody else or one     *)
(* that comes after the ten seconds loses the new token.                      *)
Shown(t, a, seen) ==
    /\ a.sealed => ~seen
    /\ a.code = "good" /\ ~a.sealed => seen
    /\ Rotated(t, a, seen) => tokens < MaxTokens
    /\ tokens' = IF Rotated(t, a, seen) THEN tokens + 1 ELSE tokens
    /\ spent' = IF Rotated(t, a, seen) THEN spent \cup {t.tok} ELSE spent
    /\ lost' = IF Rotated(t, a, seen) /\ ~OK(Heard(t, a)) THEN lost \cup {t.tok} ELSE lost
    /\ reused' = IF Again(t) /\ seen THEN reused \cup {t.tok} ELSE reused

Answered(h, id, new) ==
    LET t == task[h]
        role == RoleFor(ProviderOf(t.d), id)
    IN  IF ~OK(id)
        THEN Goto(h, IF id.err = "refused" THEN "end" ELSE "failed") /\ UNCHANGED <<settled, crossed>>
        ELSE IF "stale" \in DOMAIN id
        THEN /\ Run(h, [t EXCEPT !.pc = "record", !.tok = new, !.long = TRUE])
             /\ UNCHANGED <<settled, crossed>>
        ELSE /\ Run(h, [t EXCEPT !.pc = "record", !.tok = new, !.want = role])
             /\ Says(t.d, role)

Ask(h) ==
    /\ task[h].pc = "ask"
    /\ \E a \in Answers, seen \in BOOLEAN :
         /\ Shown(task[h], a, seen)
         /\ Answered(h, Heard(task[h], a),
                     IF Rotated(task[h], a, seen) THEN tokens + 1
                     ELSE IF Rotates(task[h].d) THEN 0 ELSE task[h].tok)
    /\ UNCHANGED <<setup, db, dir, started, changes, over, appointed>>

(* directoryFailed: kept while the directory has not answered for a short     *)
(* time, or when that cannot be stored; ended after that.                     *)
Failed(h) ==
    /\ task[h].pc = "failed"
    /\ \/ /\ idents' = RecordDirectoryFailure(idents, task[h].d)
          /\ Goto(h, IF idents'[task[h].d].failing = "long" THEN "end" ELSE "route")
       \/ UNCHANGED idents /\ Goto(h, "route")
    /\ UNCHANGED <<orgs, users, creds, flows, signups, setup, dir, counters, ghosts>>

(* EndDirectoryLink, or a database that fails; this request is refused both   *)
(* ways.                                                                      *)
MineNow(who) == {i \in CredIds : Live(creds, i) /\ creds[i].who = who}

EndLink(h) ==
    /\ task[h].pc = "end"
    /\ LET d == task[h].d
       IN  \/ /\ idents' = EndedLink(idents, d)
              /\ creds' = DeleteSessionsWhere(creds, RowsOf(users, d))
              /\ over' = over \cup MineNow(d)
           \/ UNCHANGED <<idents, creds, over>>
    /\ Done(h)
    /\ UNCHANGED <<orgs, users, flows, signups, setup, dir, counters, spent, reused, lost, appointed, crossed, settled>>

(* The directory vouched: keep the new token, or lose it and keep the one it  *)
(* replaces.  Only a fresh answer says what the role is now (a stale one      *)
(* marks the task long).                                                      *)
Forgone(d) == {k \in spent : Rotates(d) /\ idents[d].token = k}

Record(h) ==
    /\ task[h].pc = "record"
    /\ LET t == task[h]
       IN  /\ \/ idents' = RecordDirectoryCheck(idents, t.d, t.tok) /\ UNCHANGED lost
              \/ UNCHANGED idents /\ lost' = lost \cup Forgone(t.d)
           /\ Run(h, [t EXCEPT !.pc = IF t.long THEN "route" ELSE "sync", !.long = FALSE])
    /\ UNCHANGED <<orgs, users, creds, flows, signups, setup, dir, counters,
                   spent, reused, over, appointed, crossed, settled>>

(* rowInRequestedOrg: a token acts in the organisation a command names, with  *)
(* the row its person has there.                                              *)
RowInRequestedOrg(t, org) ==
    IF t.via # "token" \/ org = AnyOrg \/ org = OrgOf(t.row) \/ t.d = NoExt \/ t.role = "operator"
       \/ UserInOrg(users, t.d, org) = {}
    THEN t.row ELSE CHOOSE row \in UserInOrg(users, t.d, org) : TRUE

PrincipalOf(t) ==
    IF t.via = "key" THEN OperatorPrincipal
    ELSE LET row == RowInRequestedOrg(t, t.arg.org)
         IN  [via |-> t.via, user |-> row, org |-> OrgOf(row),
              role |-> IF row = t.row THEN t.role ELSE users[row].role]

-----------------------------------------------------------------------------
(* Signing out *)

(* logout: of this sign-in, or DeletePersonSessions. *)
Logout(h) ==
    /\ task[h].pc = "route" /\ task[h].arg.op \in {"logout", "everywhere"}
    /\ LET t == task[h]
           mine == IF t.via = "key" THEN {} ELSE {t.flow}
       IN  IF t.arg.op = "everywhere" /\ t.via # "key" THEN Goto(h, "sessions") /\ UNCHANGED <<creds, over>>
           ELSE /\ creds' = DeleteCreds(creds, mine)
                /\ over' = over \cup mine
                /\ Done(h)
    /\ UNCHANGED <<orgs, users, idents, flows, signups, setup, dir, counters,
                   spent, reused, lost, appointed, crossed, settled>>

(* deleteSessionsWhere on the pool, a table at a time: after a sign-out       *)
(* everywhere of the person, after a role change of the row.  A DELETE that   *)
(* fails leaves the rest (Abort).                                             *)
SignOut(h) ==
    /\ task[h].pc \in DOMAIN KindIn
    /\ LET t == task[h]
           all == t.arg.op = "everywhere"
           rows == IF all THEN PersonRows(users, t.row) ELSE {t.arg.row}
           meant == IF all THEN MineNow(t.d) ELSE CredsOf(creds, rows)
       IN  /\ creds' = DeleteCreds(creds, CredsIn(creds, rows, t.pc))
           /\ over' = over \cup {i \in meant : creds[i].kind = KindIn[t.pc]}
           /\ IF t.pc \in DOMAIN TableAfter THEN Goto(h, TableAfter[t.pc]) ELSE Done(h)
    /\ UNCHANGED <<orgs, users, idents, flows, signups, setup, dir, counters,
                   spent, reused, lost, appointed, crossed, settled>>

-----------------------------------------------------------------------------
(* switchOrg: read the rows, take the target, give it the operator role or    *)
(* take it away, move the credential.                                         *)
SwitchOrg(h) ==
    /\ task[h].pc = "route" /\ task[h].arg.op = "switch"
    /\ LET t == task[h]
           cur == users[t.row]
           ms == {row \in Memberships(users, cur.ext, cur.email, VouchedByDirectory(cur.ext)) :
                    OrgOf(row) = t.arg.org}
       IN  IF t.via = "key" \/ ms = {} THEN Done(h) /\ UNCHANGED crossed
           ELSE \E row \in ms :
                  IF users[row].off \/ row = t.row THEN Done(h) /\ UNCHANGED crossed
                  ELSE /\ Run(h, [t EXCEPT !.pc = "target", !.role = cur.role, !.mail = cur.email,
                                           !.arg = [op |-> "switch", org |-> t.arg.org, to |-> row,
                                                    invited |-> users[row].ext = NoExt]])
                       /\ crossed' = IF cur.role = "operator" THEN crossed \cup Of(t.d) ELSE crossed
    /\ UNCHANGED <<db, setup, dir, counters, spent, reused, lost, over, appointed, settled>>

(* AcceptInvitation, or the row as it is now. *)
Target(h) ==
    /\ task[h].pc = "target"
    /\ LET t == task[h]
           res == IF t.arg.invited THEN TakeInvitation(users, t.arg.org, t.mail, t.d)
                  ELSE [row |-> t.arg.to, users |-> users]
       IN  IF OK(res) THEN /\ users' = res.users
                           /\ Run(h, [t EXCEPT !.pc = "carry",
                                 !.arg = [op |-> "switch", to |-> res.row, was |-> users'[res.row].role]])
           ELSE UNCHANGED users /\ Done(h)
    /\ UNCHANGED <<orgs, idents, creds, flows, signups, setup, dir, counters, ghosts>>

(* The operator role goes where the person goes, from the row read first. *)
CarryRole(h) ==
    /\ task[h].pc = "carry"
    /\ LET t == task[h]
           op == t.role = "operator"
       IN  users' = IF op = (t.arg.was = "operator") THEN users
                    ELSE SetUserRole(users, t.arg.to, IF op THEN "operator" ELSE "member")
    /\ Goto(h, "move")
    /\ UNCHANGED <<orgs, idents, creds, flows, signups, setup, dir, counters, ghosts>>

Move(h) ==
    /\ task[h].pc = "move"
    /\ creds' = MoveSignIn(creds, task[h].flow, task[h].arg.to)
    /\ Done(h)
    /\ UNCHANGED <<orgs, users, idents, flows, signups, setup, dir, counters, ghosts>>

-----------------------------------------------------------------------------
(* Administering people *)

(* newUserRole: only an operator may say whose sign-in a new row is. *)
MayAdd(p, arg) ==
    /\ arg.org \in OrgToAdmin(p, arg.org)
    /\ arg.ext # NoExt => Unrestricted(p)
    /\ arg.role # "member" => MayGrant(arg.role)

AddUserRoute(h) ==
    /\ task[h].pc = "route" /\ task[h].arg.op = "add"
    /\ LET arg == task[h].arg
           res == IF MayAdd(PrincipalOf(task[h]), arg) /\ arg.org \in orgs
                  THEN AddUser(users, arg.org, arg.email, arg.ext, arg.role)
                  ELSE Refused("forbidden")
       IN  IF OK(res) THEN users' = res.users /\ Appoint(<<arg.org, arg.email>>, arg.role, TRUE)
           ELSE UNCHANGED <<users, appointed>>
    /\ Done(h)
    /\ UNCHANGED <<orgs, idents, creds, flows, signups, setup, dir, counters,
                   spent, reused, lost, over, crossed, settled>>

(* userToSwitch and the checks of updateUser: the row is read here, and       *)
(* changed in the next step.                                                  *)
MayChange(p, arg) ==
    /\ Exists(users, arg.row)
    /\ RequireOwnerAdmin(p, OrgOf(arg.row))
    /\ users[arg.row].role # "operator"
    /\ IF arg.op = "role" THEN MayGrant(arg.role) /\ (arg.row = p.user => arg.role = p.role)
       ELSE arg.row # p.user

Administer(h) ==
    /\ task[h].pc = "route" /\ task[h].arg.op \in {"role", "disable", "enable"}
    /\ IF MayChange(PrincipalOf(task[h]), task[h].arg) THEN Goto(h, task[h].arg.op) ELSE Done(h)
    /\ UNCHANGED <<db, setup, dir, counters, ghosts>>

UpdateUser(h) ==
    /\ task[h].pc = "role"
    /\ users' = SetUserRole(users, task[h].arg.row, task[h].arg.role)
    /\ Appoint(task[h].arg.row, task[h].arg.role, TRUE)
    /\ Goto(h, "sessions")
    /\ UNCHANGED <<orgs, idents, creds, flows, signups, setup, dir, counters,
                   spent, reused, lost, over, crossed, settled>>

(* DisableUser: the row, its sign-ins and its passkeys in one transaction. *)
DisableUser(h) ==
    /\ task[h].pc = "disable"
    /\ LET row == task[h].arg.row
       IN  /\ users' = [users EXCEPT ![row].off = TRUE]
           /\ creds' = DeleteSessionsWhere(creds, {row})
           /\ over' = over \cup CredsOf(creds, {row})
    /\ Done(h)
    /\ UNCHANGED <<orgs, idents, flows, signups, setup, dir, counters, spent, reused, lost, appointed, crossed, settled>>

EnableUser(h) ==
    /\ task[h].pc = "enable"
    /\ users' = [users EXCEPT ![task[h].arg.row].off = FALSE]
    /\ Done(h)
    /\ UNCHANGED <<orgs, idents, creds, flows, signups, setup, dir, counters, ghosts>>

-----------------------------------------------------------------------------
(* The surroundings *)

Change == changes < MaxChanges /\ changes' = changes + 1 /\ UNCHANGED <<setup, tokens, started>>

(* A directory changes what it holds of a person: their groups, their         *)
(* address, or that they are there at all.                                    *)
ChangeEntry(d, e) ==
    /\ Change
    /\ dir[d] # e
    /\ dir' = [dir EXCEPT ![d] = e]
    /\ UNCHANGED <<db, task, ghosts>>

(* Time.  A check is given ten seconds and is due every fifteen minutes, so   *)
(* none becomes due while one runs.                                           *)
Checking(d) == \E h \in Slots : task[h] # Idle /\ task[h].d = d
                                 /\ task[h].pc \in {"ask", "failed", "end", "record"}

BecomeDue(d) ==
    /\ Change
    /\ ~Checking(d) /\ ~idents[d].due
    /\ \/ idents' = [idents EXCEPT ![d].due = TRUE]
       \/ idents[d].failing = "short" /\ idents' = [idents EXCEPT ![d].due = TRUE, ![d].failing = "long"]
    /\ UNCHANGED <<orgs, users, creds, flows, signups, dir, task, ghosts>>

Expire ==
    /\ Change
    /\ \/ \E i \in CredIds : Live(creds, i) /\ creds' = DeleteCreds(creds, {i}) /\ UNCHANGED <<flows, signups>>
       \/ \E f \in FlowIds : flows[f] \notin {Unused, Ended}
                             /\ flows' = [flows EXCEPT ![f] = Ended] /\ UNCHANGED <<creds, signups>>
       \/ \E s \in SignupIds : signups[s] # Nobody
                               /\ signups' = [signups EXCEPT ![s] = Nobody] /\ UNCHANGED <<creds, flows>>
    /\ UNCHANGED <<orgs, users, idents, dir, task, ghosts>>

(* PurgeExpired, as the housekeeping runs it; expired rows are gone already. *)
Purge ==
    /\ Change
    /\ idents' = PurgeIdentities(users, idents)
    /\ UNCHANGED <<orgs, users, creds, flows, signups, dir, task, ghosts>>

(* A request stops half way.  A check that was answered loses the new token.  *)
Abort(h) ==
    /\ task[h] # Idle
    /\ lost' = IF task[h].pc = "record" THEN lost \cup Forgone(task[h].d) ELSE lost
    /\ Done(h)
    /\ UNCHANGED <<setup, db, dir, counters, spent, reused, over, appointed, crossed, settled>>

-----------------------------------------------------------------------------
Init ==
    /\ \E s \in Setups :
         /\ setup = [providers |-> s.providers, entries |-> s.entries, starts |-> s.starts,
                     routes |-> s.routes, maxStarts |-> s.maxStarts]
         /\ orgs = s.orgs
         /\ users = s.users
         /\ idents = s.idents
         /\ creds = s.creds
         /\ tokens = s.tokens
    /\ flows = [f \in FlowIds |-> Unused]
    /\ signups = [s \in SignupIds |-> Nobody]
    /\ dir = [d \in Idents |-> setup.entries[d][1]]
    /\ task = [h \in Slots |-> Idle]
    /\ started = 0 /\ changes = 0
    /\ crossed = {} /\ spent = {} /\ reused = {} /\ lost = {} /\ over = {} /\ settled = {}
    /\ appointed = {row \in Rows : Exists(users, row) /\ users[row].role = "admin"}

Step(h) ==
    \/ ExchangeStep(h) \/ AuthenticateStep(h) \/ TakeFlow(h) \/ Place(h) \/ Link(h)
    \/ Sync(h) \/ SyncOthers(h) \/ SyncEach(h) \/ Remember(h) \/ Ttl(h) \/ StartSession(h)
    \/ CliHandOver(h) \/ CreateToken(h) \/ Claim(h) \/ Ask(h) \/ Failed(h)
    \/ EndLink(h) \/ Record(h) \/ Logout(h) \/ SwitchOrg(h) \/ Target(h)
    \/ CarryRole(h) \/ Move(h) \/ AddUserRoute(h) \/ Administer(h)
    \/ UpdateUser(h) \/ SignOut(h) \/ DisableUser(h) \/ EnableUser(h)

Start(h) == task[h] = Idle /\ started < setup.maxStarts /\
   (\/ \E f \in FlowIds, d \in Idents : Callback(h, f, d)
    \/ \E f \in FlowIds \cup {0}, d \in Idents : PasswordSignIn(h, f, d)
    \/ \E i \in CredIds, proof \in BOOLEAN : CliToken(h, i, proof)
    \/ \E s \in SignupIds : CompleteSignup(h, s)
    \/ \E i \in CredIds, arg \in setup.routes : Request(h, i, arg)
    \/ \E arg \in setup.routes : KeyRequest(h, arg)
    \/ LocalLogin(h))

Surroundings ==
    \/ \E d \in Idents : \E e \in Range(setup.entries[d]) : ChangeEntry(d, e)
    \/ \E d \in Idents : BecomeDue(d)
    \/ Expire \/ Purge

Next ==
    \/ \E p \in DOMAIN Providers, cli \in BOOLEAN : Login(p, cli)
    \/ \E h \in Slots : Start(h) \/ Step(h) \/ Abort(h)
    \/ Surroundings

Spec == Init /\ [][Next]_vars

-----------------------------------------------------------------------------
(* Properties *)

(* A sign-in acts as its own person, always: whatever was linked, accepted,   *)
(* switched or handed over, the row behind a session, a token or a code       *)
(* belongs to the identity that signed in.  And what an ending was meant for  *)
(* stays ended: each DELETE of a sign-out everywhere or of a role change, and *)
(* the whole of a disabled person's or of a refusal by the directory, leaves  *)
(* nothing of its kind that the person had when it ran, and no code that was  *)
(* there then becomes a token.  (A code that a terminal had taken by then,    *)
(* and that is no token yet, is in no table and does become one.)             *)
SignInsHold ==
    \A i \in CredIds : Live(creds, i) =>
        /\ users[creds[i].row].ext = creds[i].who
        /\ i \notin over /\ creds[i].from \notin over

(* A rotating provider sees a refresh token once, whatever requests and       *)
(* checks run beside each other.  It sees one again only when what it gave in *)
(* exchange was lost: an answer that failed a check or came too late, a write *)
(* that failed, a process that stopped before it.                             *)
TokenSpentOnce == reused \subseteq lost

(* Roles come from those who may give them.  Whoever administers an           *)
(* organisation was made administrator by it, or by the directory its         *)
(* addresses land in: never by another tenant's directory.  And an operator   *)
(* a check or a sign-in has demoted is no operator in any organisation, until *)
(* the directory makes them one again: unless, at some time since that        *)
(* request began, another request or an open sign-up of the same person was   *)
(* carrying the operator role (crossed).  A switch of organisation writes the *)
(* role it read of the row it left, a sign-up the role it was opened with,    *)
(* and either may do so after the demotion.                                   *)
RolesAppointed ==
    /\ \A row \in Rows : Exists(users, row) /\ users[row].role = "admin" => row \in appointed
    /\ \A d \in settled : \A row \in RowsOf(users, d) : users[row].role # "operator"

=============================================================================
