---------------------------- MODULE SignInProofs ----------------------------
(* SignIn, proved for any people, directories, organisations and requests   *)
(* at once: a rotating provider sees a refresh token once unless a fresh    *)
(* one could not be stored, a sign-in acts as its own person until it ends, *)
(* and roles come from those who may give them.                             *)
EXTENDS SignIn, TLAPS, FiniteSetTheorems, WellFoundedInduction, NaturalsInduction

-----------------------------------------------------------------------------
(* The inductive invariant *)

Fields == {"pc", "op", "d", "flow", "cli", "tok", "mail", "want", "row", "role", "long", "arg", "via", "rest"}

SetupOK == \E s \in Setups :
    setup = [providers |-> s.providers, entries |-> s.entries, starts |-> s.starts,
             routes |-> s.routes, maxStarts |-> s.maxStarts]

\* A request carries a refresh token that is not stored yet.
Carries(t) == \/ t.pc \in {"remember", "record"}
              \/ t.pc \in {"take", "place", "link", "sync", "others", "each"} /\ t.op = "signin"

\* A request is asking a directory again.
Checks(t) == t.pc \in {"ask", "failed", "end", "record"}

\* A request that is under way knows whom it is about before a token comes in.
Whom(t) == /\ DOMAIN t = Fields
           /\ t.tok \in Nat
           /\ t.pc # "idle"
           /\ t.pc = "ask" => t.tok # 0
           /\ Checks(t) \/ t.pc = "claim" => t.op # "signin"
           /\ t.pc \in {"exchange", "password", "take", "place", "link"} => t.op = "signin"
           /\ Carries(t) \/ Checks(t) \/ t.pc \in {"claim", "exchange", "password"} => t.d \in Idents

Typed ==
  /\ SetupOK
  /\ tokens \in Nat
  /\ idents \in [Idents -> IdentRow]
  /\ DOMAIN signups = SignupIds
  /\ \A s \in SignupIds : signups[s] # Nobody => signups[s].tok \in Nat /\ signups[s].d \in Idents
  /\ DOMAIN task = Slots
  /\ \A h \in Slots : task[h] = Idle \/ Whom(task[h])

\* Whoever has a token of a rotating provider: an identity, as stored or as a
\* check read it; a sign-up; a request.
Has(w, x, k) ==
  /\ k # 0
  /\ \/ /\ w = "identity" /\ x \in Idents /\ Rotates(x)
        /\ \/ idents[x].token = k
           \/ \E h \in Slots : task[h].pc = "ask" /\ task[h].d = x /\ task[h].tok = k
     \/ /\ w = "signup" /\ x \in SignupIds /\ signups[x] # Nobody
        /\ Rotates(signups[x].d) /\ signups[x].tok = k
     \/ /\ w = "request" /\ x \in Slots /\ Carries(task[x])
        /\ Rotates(task[x].d) /\ task[x].tok = k

\* Nobody else has it.
Alone == \A w, x, v, y, k : Has(w, x, k) /\ Has(v, y, k) => w = v /\ x = y

Issued == (\A w, x, k : Has(w, x, k) => k \in 1..tokens) /\ spent \subseteq 1..tokens

\* A check of d has been answered and has a fresh token to store.
Renews(d) == \E h \in Slots : task[h].pc = "record" /\ task[h].d = d /\ task[h].tok # 0

\* A token that was taken back is the stored one of a check that has the next
\* one in hand, or one whose successor was lost.
Unspent == \A w, x, k : Has(w, x, k) /\ k \in spent => w = "identity" /\ (k \in lost \/ Renews(x))

\* One request at a time asks a directory about a person, and no check of them
\* is due meanwhile.
OneCheck ==
  /\ \A h \in Slots : Checks(task[h]) => ~idents[task[h].d].due
  /\ \A g, h \in Slots : Checks(task[g]) /\ Checks(task[h]) /\ task[g].d = task[h].d => g = h

TokenInv == Typed /\ Alone /\ Issued /\ Unspent /\ OneCheck /\ TokenSpentOnce

\* What the refresh tokens depend on, beside the requests.
tokenVars == <<setup, idents, signups, tokens, spent, reused, lost>>

-----------------------------------------------------------------------------
(* Tokens change hands *)

\* A step in which tokens stay where they are, are dropped, go from one holder
\* to another, or come in new.
GoesTo(w0, x0, w1, x1) ==
  \A w, x, k : Has(w, x, k)' =>
     \/ Has(w, x, k)
     \/ w = w1 /\ x = x1 /\ Has(w0, x0, k) /\ ~Has(w0, x0, k)'
     \/ w = w1 /\ x = x1 /\ k = tokens + 1 /\ tokens' = tokens + 1

\* An answered check is stored, is lost or is still under way.
Renewed == \A d : Renews(d) => \/ Renews(d)'
                               \/ \A k : Has("identity", d, k)' => k \notin spent \/ k \in lost'

LEMMA StillAlone ==
  ASSUME Alone, Issued, tokens \in Nat, tokens' \in Nat, tokens' >= tokens,
         NEW w0, NEW x0, NEW w1, NEW x1, GoesTo(w0, x0, w1, x1)
  PROVE  Alone' /\ \A w, x, k : Has(w, x, k)' => k \in 1..tokens'
<1> USE DEF GoesTo
<1>1. ASSUME NEW w, NEW x, NEW k, Has(w, x, k) PROVE k \in 1..tokens /\ k \in 1..tokens'
  BY <1>1 DEF Issued
<1>2. ASSUME NEW w, NEW x, NEW k, Has(w, x, k)' PROVE k \in 1..tokens'
  BY <1>1, <1>2
<1>3. ASSUME NEW w, NEW x, NEW v, NEW y, NEW k, Has(w, x, k)', Has(v, y, k)' PROVE w = v /\ x = y
  <2>1. CASE Has(w, x, k) /\ Has(v, y, k)
    BY <2>1 DEF Alone
  <2>2. CASE Has(w0, x0, k) /\ ~Has(w0, x0, k)'
    <3>1. ~Has(w, x, k) /\ ~Has(v, y, k)
      BY <2>2, <1>3 DEF Alone
    <3>2. k # tokens + 1
      BY <2>2, <1>1
    <3> QED BY <3>1, <3>2, <1>3
  <2>3. CASE k = tokens + 1
    <3>1. ~Has(w, x, k) /\ ~Has(v, y, k)
      BY <2>3, <1>1
    <3> QED BY <3>1, <1>3
  <2> QED BY <2>1, <2>2, <2>3, <1>3
<1> QED BY <1>2, <1>3 DEF Alone

LEMMA PassedOn ==
  ASSUME Alone, Issued, Unspent, TokenSpentOnce, tokens \in Nat, tokens' \in Nat, tokens' >= tokens,
         NEW w0, NEW x0, NEW w1, NEW x1, w0 # "identity", GoesTo(w0, x0, w1, x1),
         spent' = spent, reused' \subseteq reused \cup lost, lost \subseteq lost', Renewed
  PROVE  Alone' /\ Issued' /\ Unspent' /\ TokenSpentOnce'
<1>1. Alone' /\ \A w, x, k : Has(w, x, k)' => k \in 1..tokens'
  BY StillAlone
<1>2. ASSUME NEW w, NEW x, NEW k, Has(w, x, k)', k \in spent
      PROVE w = "identity" /\ (k \in lost' \/ Renews(x)')
  <2>1. k # tokens + 1
    BY <1>2 DEF Issued
  <2>2. ~Has(w0, x0, k)
    BY <1>2 DEF Unspent
  <2>3. Has(w, x, k)
    BY <2>1, <2>2, <1>2 DEF GoesTo
  <2>4. w = "identity" /\ (k \in lost \/ Renews(x))
    BY <2>3, <1>2 DEF Unspent
  <2> QED BY <2>4, <1>2 DEF Renewed
<1>3. Issued'
  BY <1>1 DEF Issued
<1>4. Unspent'
  BY <1>2 DEF Unspent
<1> QED BY <1>1, <1>3, <1>4 DEF TokenSpentOnce

\* The request of a slot is under way.
LEMMA Busy == ASSUME Typed, NEW h \in Slots, task[h].pc # "idle" PROVE Whom(task[h]) /\ task[h] # Idle
  BY DEF Typed, Idle

\* A request goes on without touching what tokens depend on.
LEMMA Quiet ==
  ASSUME TokenInv, NEW h \in Slots, NEW t, Run(h, t), t = Idle \/ Whom(t), UNCHANGED tokenVars,
         task[h].pc # "record", ~Checks(t),
         Carries(t) => Carries(task[h]) /\ t.d = task[h].d /\ t.tok = task[h].tok
  PROVE  TokenInv'
<1> USE DEF tokenVars
<1>1. DOMAIN task' = Slots /\ task'[h] = t /\ \A g \in Slots \ {h} : task'[g] = task[g]
  BY DEF Run, TokenInv, Typed
<1>2. Typed'
  <2>1. \A g \in Slots : task'[g] = Idle \/ Whom(task'[g])
    BY <1>1 DEF TokenInv, Typed
  <2> QED BY <1>1, <2>1 DEF TokenInv, Typed, SetupOK, Whom, Carries, Checks
<1>3. \A d : Rotates(d)' <=> Rotates(d)
  BY DEF Rotates, Rotating, Providers
<1>4. ASSUME NEW w, NEW x, NEW k, Has(w, x, k)' PROVE Has(w, x, k)
  <2>1. CASE w = "identity"
    <3>1. \A g \in Slots : task'[g].pc = "ask" => task'[g] = task[g]
      BY <1>1 DEF Checks
    <3> QED BY <2>1, <3>1, <1>3, <1>4 DEF Has
  <2>2. CASE w = "signup"
    BY <2>2, <1>3, <1>4 DEF Has
  <2>3. CASE w = "request"
    <3>1. x \in Slots /\ Carries(task'[x]) /\ Rotates(task'[x].d) /\ task'[x].tok = k /\ k # 0
      BY <2>3, <1>3, <1>4 DEF Has, Carries
    <3>2. Carries(task[x]) /\ task'[x].d = task[x].d /\ task'[x].tok = task[x].tok
      BY <3>1, <1>1
    <3> QED BY <2>3, <3>1, <3>2 DEF Has
  <2> QED BY <2>1, <2>2, <2>3, <1>4 DEF Has
<1>5. ASSUME NEW d, Renews(d) PROVE Renews(d)'
  <2>1. PICK g \in Slots : task[g].pc = "record" /\ task[g].d = d /\ task[g].tok # 0
    BY <1>5 DEF Renews
  <2> QED BY <2>1, <1>1 DEF Renews
<1>6. Alone' /\ Issued' /\ Unspent' /\ TokenSpentOnce'
  <2>1. tokens \in Nat /\ tokens' \in Nat /\ tokens' >= tokens
    BY DEF TokenInv, Typed
  <2>2. GoesTo("request", h, "request", h) /\ Renewed
    BY <1>4, <1>5 DEF GoesTo, Renewed
  <2> QED BY <2>1, <2>2, PassedOn DEF TokenInv
<1>7. OneCheck'
  <2>1. \A g \in Slots : Checks(task'[g]) => g # h /\ task'[g] = task[g]
    BY <1>1
  <2> QED BY <2>1 DEF TokenInv, OneCheck, Checks
<1> QED BY <1>2, <1>6, <1>7 DEF TokenInv

LEMMA QuietDone ==
  ASSUME TokenInv, NEW h \in Slots, Done(h), UNCHANGED tokenVars, task[h].pc # "record"
  PROVE  TokenInv'
<1>1. Idle.pc = "idle" /\ ~Checks(Idle) /\ ~Carries(Idle)
  BY DEF Idle, Checks, Carries
<1> QED BY <1>1, Quiet DEF Done

LEMMA StandStill == ASSUME TokenInv, UNCHANGED <<tokenVars, task>> PROVE TokenInv'
<1> USE DEF tokenVars
<1>1. \A d : Rotates(d)' <=> Rotates(d)
  BY DEF Rotates, Rotating, Providers
<1>2. \A w, x, k : Has(w, x, k)' <=> Has(w, x, k)
  BY <1>1 DEF Has, Carries
<1>3. \A d : Renews(d)' <=> Renews(d)
  BY DEF Renews
<1>4. Typed'
  BY DEF TokenInv, Typed, SetupOK, Whom, Carries, Checks
<1>5. Alone'
  BY <1>2 DEF TokenInv, Alone
<1>6. Issued' /\ Unspent'
  BY <1>2, <1>3 DEF TokenInv, Issued, Unspent
<1>7. OneCheck' /\ TokenSpentOnce'
  BY DEF TokenInv, OneCheck, TokenSpentOnce, Checks
<1> QED BY <1>4, <1>5, <1>6, <1>7 DEF TokenInv

-----------------------------------------------------------------------------
(* Steps the tokens do not notice *)

\* Of a step of a request that is under way.
LEMMA QuietStep ==
  ASSUME TokenInv, NEW h \in Slots, UNCHANGED tokenVars, task[h].pc \notin {"idle", "record"},
         NEW t, Run(h, t), DOMAIN t = DOMAIN task[h],
         t.d = task[h].d, t.tok = task[h].tok,
         t.op = task[h].op, ~Checks(t), t.pc # "idle",
         Carries(t) => Carries(task[h]),
         t.pc \notin {"claim", "exchange", "password"},
         t.pc \in {"take", "place", "link"} => t.op = "signin"
  PROVE  TokenInv'
<1>1. Whom(task[h])
  BY Busy DEF TokenInv
<1>2. Whom(t)
  BY <1>1 DEF Whom, Checks
<1> QED BY <1>1, <1>2, Quiet

LEMMA QuietGoto ==
  ASSUME TokenInv, NEW h \in Slots, UNCHANGED tokenVars, task[h].pc \notin {"idle", "record"},
         NEW pc, Goto(h, pc), pc \notin {"idle", "ask", "failed", "end", "record", "claim", "exchange", "password"},
         pc \in {"take", "place", "link"} => task[h].op = "signin",
         pc = "remember" => task[h].pc = "each" /\ task[h].op = "signin",
         pc \in {"take", "place", "link", "sync", "others", "each"} /\ task[h].op = "signin" => Carries(task[h])
  PROVE  TokenInv'
<1> DEFINE t == [task[h] EXCEPT !.pc = pc]
<1>1. Whom(task[h])
  BY Busy DEF TokenInv
<1>2. DOMAIN t = DOMAIN task[h] /\ t.pc = pc /\ t.d = task[h].d /\ t.tok = task[h].tok
      /\ t.op = task[h].op
  BY <1>1 DEF Whom, Fields
<1>3. ~Checks(t) /\ (Carries(t) => Carries(task[h]))
  BY <1>1, <1>2 DEF Whom, Checks, Carries
<1>4. Run(h, t)
  BY DEF Goto
<1> HIDE DEF t
<1> QED BY <1>2, <1>3, <1>4, QuietStep

\* Of a request that begins.
LEMMA QuietBegin ==
  ASSUME TokenInv, NEW h \in Slots, UNCHANGED tokenVars, task[h] = Idle,
         NEW t, Run(h, t), DOMAIN t = Fields, t.tok = 0,
         t.pc \notin {"idle", "remember", "record", "take", "place", "link", "ask", "failed", "end"},
         t.pc \in {"sync", "others", "each"} => t.op # "signin",
         t.pc \in {"exchange", "password"} => t.op = "signin",
         t.pc = "claim" => t.op # "signin",
         t.pc \in {"claim", "exchange", "password"} => t.d \in Idents
  PROVE  TokenInv'
<1>1. task[h].pc = "idle"
  BY DEF Idle
<1>2. ~Checks(t) /\ ~Carries(t)
  BY DEF Checks, Carries
<1>3. Whom(t)
  BY <1>2 DEF Whom
<1> QED BY <1>1, <1>2, <1>3, Quiet

LEMMA ANewTask ==
  ASSUME NEW d, NEW pc, NEW flow, NEW cli, NEW t, t = SignInTask(d, pc, flow, cli)
  PROVE  /\ DOMAIN t = Fields /\ t.pc = pc /\ t.op = "signin" /\ t.d = d /\ t.flow = flow
         /\ t.tok = 0 /\ t.want = "member" /\ t.row = NoRow /\ t.role = "member" /\ t.mail = Nobody
         /\ t.via = "none"
  BY DEF SignInTask, Fields

LEMMA CallbackTokens ==
  ASSUME TokenInv, NEW h \in Slots, NEW f \in FlowIds, NEW d \in Idents, Callback(h, f, d)
  PROVE  TokenInv'
<1>1. UNCHANGED tokenVars /\ task[h] = Idle
  BY DEF Callback, Begin, tokenVars
<1>2. CASE Done(h)
  BY <1>1, <1>2, QuietDone DEF Idle
<1>3. CASE Run(h, SignInTask(d, "exchange", 0, flows[f].cli))
  <2> DEFINE t == SignInTask(d, "exchange", 0, flows[f].cli)
  <2>1. DOMAIN t = Fields /\ t.pc = "exchange" /\ t.op = "signin" /\ t.tok = 0 /\ t.d = d
    BY ANewTask
  <2> HIDE DEF t
  <2> QED BY <1>1, <1>3, <2>1, QuietBegin DEF t
<1> QED BY <1>2, <1>3 DEF Callback

LEMMA PasswordTokens ==
  ASSUME TokenInv, NEW h \in Slots, NEW f, NEW d \in Idents, PasswordSignIn(h, f, d)
  PROVE  TokenInv'
<1> DEFINE t == SignInTask(d, "password", f, f # 0 /\ flows[f].cli)
<1>1. UNCHANGED tokenVars /\ task[h] = Idle /\ Run(h, t)
  BY DEF PasswordSignIn, Begin, tokenVars, db
<1>2. DOMAIN t = Fields /\ t.pc = "password" /\ t.op = "signin" /\ t.tok = 0 /\ t.d = d
  BY ANewTask
<1> HIDE DEF t
<1> QED BY <1>1, <1>2, QuietBegin

LEMMA CliTokenTokens ==
  ASSUME TokenInv, NEW h \in Slots, NEW i \in CredIds, NEW proof \in BOOLEAN, CliToken(h, i, proof)
  PROVE  TokenInv'
<1> DEFINE s == SignInTask(users[creds[i].row].ext, "ttl", i, FALSE)
           t == [s EXCEPT !.op = "redeem", !.row = creds[i].row]
<1>1. UNCHANGED tokenVars /\ task[h] = Idle
  BY DEF CliToken, Begin, tokenVars
<1>2. Done(h) \/ Run(h, t)
  BY DEF CliToken
<1>3. DOMAIN s = Fields /\ s.pc = "ttl" /\ s.tok = 0
  BY DEF SignInTask, Fields
<1> HIDE DEF s
<1>4. DOMAIN t = Fields /\ t.pc = "ttl" /\ t.tok = 0
  BY <1>3 DEF Fields
<1> HIDE DEF t
<1>5. CASE Done(h)
  BY <1>1, <1>5, QuietDone DEF Idle
<1>6. CASE Run(h, t)
  BY <1>1, <1>4, <1>6, QuietBegin
<1> QED BY <1>2, <1>5, <1>6

LEMMA RequestTokens ==
  ASSUME TokenInv, NEW h \in Slots, NEW i \in CredIds, NEW arg, Request(h, i, arg)
  PROVE  TokenInv'
<1> DEFINE r == RequestTask(i, arg)
           c == [r EXCEPT !.pc = "claim"]
<1>1. UNCHANGED tokenVars /\ task[h] = Idle
  BY DEF Request, Begin, tokenVars, db
<1>2. DOMAIN r = Fields /\ r.pc = "route" /\ r.tok = 0 /\ r.op = "request"
  BY DEF RequestTask, SignInTask, Fields
<1>3. (HasDirectory(r.d) /\ Run(h, c)) \/ Run(h, r)
  BY DEF Request
<1> HIDE DEF r
<1>4. DOMAIN c = Fields /\ c.pc = "claim" /\ c.tok = 0 /\ c.d = r.d /\ c.op = "request"
  BY <1>2 DEF Fields
<1> HIDE DEF c
<1>5. CASE HasDirectory(r.d) /\ Run(h, c)
  BY <1>1, <1>4, <1>5, QuietBegin DEF HasDirectory, VouchedByDirectory
<1>6. CASE Run(h, r)
  BY <1>1, <1>2, <1>6, QuietBegin
<1> QED BY <1>3, <1>5, <1>6

LEMMA KeyRequestTokens ==
  ASSUME TokenInv, NEW h \in Slots, NEW arg, KeyRequest(h, arg)
  PROVE  TokenInv'
<1> DEFINE t == [SignInTask(OperatorKey, "route", 0, FALSE) EXCEPT !.op = "key", !.role = "operator",
                                                                !.arg = arg, !.via = "key"]
<1>1. UNCHANGED tokenVars /\ task[h] = Idle /\ Run(h, t)
  BY DEF KeyRequest, Begin, tokenVars, db
<1>2. DOMAIN t = Fields /\ t.pc = "route" /\ t.tok = 0
  BY DEF SignInTask, Fields
<1> HIDE DEF t
<1> QED BY <1>1, <1>2, QuietBegin

LEMMA LocalLoginTokens ==
  ASSUME TokenInv, NEW h \in Slots, LocalLogin(h)
  PROVE  TokenInv'
<1>1. UNCHANGED tokenVars /\ task[h] = Idle
  BY DEF LocalLogin, Begin, tokenVars
<1>2. CASE Done(h)
  BY <1>1, <1>2, QuietDone DEF Idle
<1>3. ASSUME NEW row, NEW role,
             Run(h, [SignInTask(OperatorKey, "sync", 0, FALSE) EXCEPT
                               !.op = "local", !.row = row, !.mail = LocalEmail,
                               !.want = "operator", !.role = role])
      PROVE TokenInv'
  <2> DEFINE t == [SignInTask(OperatorKey, "sync", 0, FALSE) EXCEPT
                               !.op = "local", !.row = row, !.mail = LocalEmail,
                               !.want = "operator", !.role = role]
  <2>1. DOMAIN t = Fields /\ t.pc = "sync" /\ t.op = "local" /\ t.tok = 0
    BY DEF SignInTask, Fields
  <2>2. Run(h, t)
    BY <1>3
  <2> HIDE DEF t
  <2> QED BY <1>1, <2>1, <2>2, QuietBegin
<1> QED
  <2>1. PICK o \in OperatorKeyOrg :
         LET res == LinkUser(users, o, LocalEmail, OperatorKey, "operator")
         IN  \/ Run(h, [SignInTask(OperatorKey, "sync", 0, FALSE) EXCEPT
                               !.op = "local", !.row = res.row, !.mail = LocalEmail,
                               !.want = "operator", !.role = res.users[res.row].role])
             \/ Done(h)
    BY DEF LocalLogin
  <2> QED BY <2>1, <1>2, <1>3

\* The steps of a request that leave the tokens to others.
LEMMA PlainSteps ==
  ASSUME TokenInv, NEW h \in Slots,
         \/ TakeFlow(h) \/ Link(h) \/ Sync(h) \/ SyncOthers(h) \/ SyncEach(h) \/ Ttl(h) \/ StartSession(h)
         \/ CliHandOver(h) \/ CreateToken(h) \/ Logout(h) \/ SwitchOrg(h) \/ Target(h) \/ CarryRole(h)
         \/ Move(h) \/ AddUserRoute(h) \/ Administer(h) \/ UpdateUser(h) \/ SignOut(h)
         \/ DisableUser(h) \/ EnableUser(h)
  PROVE  TokenInv'
<1> USE DEF tokenVars, db, ghosts, counters
<1>0. ASSUME task[h].pc \notin {"idle", "record"}, UNCHANGED tokenVars, Done(h) PROVE TokenInv'
  BY <1>0, QuietDone
<1>a. ASSUME task[h].pc \notin {"idle"} PROVE Whom(task[h])
  BY <1>a, Busy DEF TokenInv
<1>1. CASE TakeFlow(h)
  <2>1. task[h].pc = "take" /\ UNCHANGED tokenVars /\ (Done(h) \/ Goto(h, "place"))
    BY <1>1 DEF TakeFlow
  <2>2. CASE Goto(h, "place")
    BY <2>1, <2>2, <1>a, QuietGoto DEF Carries, Whom
  <2> QED BY <2>1, <2>2, <1>0
<1>2. CASE Link(h)
  <2> DEFINE res == LinkUser(users, OrgOf(task[h].row), task[h].mail, task[h].d, task[h].want)
             t == [task[h] EXCEPT !.pc = "sync", !.row = res.row, !.role = res.users[res.row].role]
  <2>1. task[h].pc = "link" /\ UNCHANGED tokenVars /\ (Done(h) \/ Run(h, t))
    BY <1>2 DEF Link
  <2>2. DOMAIN t = DOMAIN task[h] /\ t.pc = "sync" /\ t.d = task[h].d /\ t.tok = task[h].tok
        /\ t.op = task[h].op
    BY <2>1, <1>a DEF Whom, Fields
  <2> HIDE DEF t
  <2>3. CASE Run(h, t)
    <3>1. ~Checks(t) /\ (Carries(t) => Carries(task[h]))
      BY <2>1, <2>2 DEF Checks, Carries
    <3> QED BY <2>1, <2>2, <2>3, <3>1, QuietStep
  <2> QED BY <2>1, <2>3, <1>0
<1>3. CASE Sync(h)
  <2> DEFINE role == SyncedRole(Providers, orgs, task[h].row, task[h].mail, task[h].role, task[h].want)
             t == [task[h] EXCEPT !.pc = AfterSync(task[h]), !.role = role]
  <2>1. task[h].pc = "sync" /\ UNCHANGED tokenVars
        /\ (Run(h, t) \/ (task[h].op = "request" /\ Goto(h, "route")))
    BY <1>3 DEF Sync
  <2>2. DOMAIN t = DOMAIN task[h] /\ t.pc = AfterSync(task[h]) /\ t.d = task[h].d /\ t.tok = task[h].tok
        /\ t.op = task[h].op
    BY <2>1, <1>a DEF Whom, Fields
  <2> HIDE DEF t
  <2>3. CASE Run(h, t)
    <3>1. t.pc \in {"others", "ttl"}
      BY <2>2 DEF AfterSync
    <3>2. ~Checks(t) /\ (Carries(t) => Carries(task[h]))
      BY <2>1, <2>2, <3>1 DEF Checks, Carries
    <3> QED BY <2>1, <2>2, <2>3, <3>1, <3>2, QuietStep
  <2>4. CASE Goto(h, "route")
    BY <2>1, <2>4, QuietGoto
  <2> QED BY <2>1, <2>3, <2>4
<1>4. CASE SyncOthers(h) \/ SyncEach(h)
  <2>1. UNCHANGED tokenVars
        /\ \/ task[h].pc = "others" /\ \E rest : Run(h, [task[h] EXCEPT !.pc = "each", !.rest = rest])
           \/ task[h].pc = "others" /\ Goto(h, "route")
           \/ task[h].pc = "each" /\ \E rest : Run(h, [task[h] EXCEPT !.rest = rest])
           \/ task[h].pc = "each" /\ \E rest : Run(h, [task[h] EXCEPT !.pc = "route", !.rest = rest])
           \/ task[h].pc = "each" /\ Goto(h, "route")
           \/ task[h].pc = "each" /\ task[h].op = "signin" /\ Goto(h, "remember")
    <3>1. CASE SyncOthers(h)
      BY <3>1 DEF SyncOthers
    <3>2. CASE SyncEach(h)
      BY <3>2 DEF SyncEach, Goto
    <3> QED BY <1>4, <3>1, <3>2
  <2>2. CASE Goto(h, "route") \/ (task[h].pc = "each" /\ task[h].op = "signin" /\ Goto(h, "remember"))
    BY <2>1, <2>2, QuietGoto
  <2>3. ASSUME NEW t, Run(h, t), task[h].pc \in {"others", "each"}, t.pc \in {"each", "route"},
               DOMAIN t = DOMAIN task[h], t.d = task[h].d, t.tok = task[h].tok, t.op = task[h].op
        PROVE TokenInv'
    <3>1. ~Checks(t) /\ (Carries(t) => Carries(task[h]))
      BY <2>3 DEF Checks, Carries
    <3> QED BY <2>1, <2>3, <3>1, QuietStep
  <2>4. ASSUME NEW rest, NEW pc \in {"each", "route"}, task[h].pc \in {"others", "each"},
               Run(h, [task[h] EXCEPT !.pc = pc, !.rest = rest])
        PROVE TokenInv'
    <3> DEFINE t == [task[h] EXCEPT !.pc = pc, !.rest = rest]
    <3>1. DOMAIN t = DOMAIN task[h] /\ t.pc = pc /\ t.d = task[h].d /\ t.tok = task[h].tok
          /\ t.op = task[h].op /\ Run(h, t)
      BY <2>4, <1>a DEF Whom, Fields
    <3> HIDE DEF t
    <3> QED BY <2>3, <2>4, <3>1
  <2>5. ASSUME NEW rest, task[h].pc = "each", Run(h, [task[h] EXCEPT !.rest = rest])
        PROVE TokenInv'
    <3> DEFINE t == [task[h] EXCEPT !.rest = rest]
    <3>1. DOMAIN t = DOMAIN task[h] /\ t.pc = "each" /\ t.d = task[h].d /\ t.tok = task[h].tok
          /\ t.op = task[h].op /\ Run(h, t)
      BY <2>5, <1>a DEF Whom, Fields
    <3> HIDE DEF t
    <3> QED BY <2>3, <2>5, <3>1
  <2> QED BY <2>1, <2>2, <2>4, <2>5
<1>5. CASE Ttl(h)
  <2> DEFINE t == [task[h] EXCEPT !.long = LongSignIn(task[h].d),
                              !.pc = IF task[h].op = "redeem" THEN "token" ELSE "session"]
  <2>1. task[h].pc = "ttl" /\ UNCHANGED tokenVars /\ Run(h, t)
    BY <1>5 DEF Ttl
  <2>2. DOMAIN t = DOMAIN task[h] /\ t.pc \in {"token", "session"} /\ t.d = task[h].d /\ t.tok = task[h].tok
        /\ t.op = task[h].op
    BY <2>1, <1>a DEF Whom, Fields
  <2> HIDE DEF t
  <2>3. ~Checks(t) /\ ~Carries(t)
    BY <2>2 DEF Checks, Carries
  <2> QED BY <2>1, <2>2, <2>3, QuietStep
<1>6. CASE StartSession(h)
  <2>1. task[h].pc = "session" /\ UNCHANGED tokenVars /\ (Done(h) \/ Goto(h, "code"))
    BY <1>6 DEF StartSession
  <2> QED BY <2>1, <1>0, QuietGoto
<1>7. CASE CliHandOver(h) \/ CreateToken(h) \/ Logout(h) \/ Move(h) \/ AddUserRoute(h) \/ SignOut(h)
           \/ DisableUser(h) \/ EnableUser(h)
  <2>1. task[h].pc \notin {"idle", "record"} /\ UNCHANGED tokenVars
        /\ (Done(h) \/ \E pc \in {"sessions", "codes", "tokens"} : Goto(h, pc))
    <3>1. CASE CliHandOver(h) \/ CreateToken(h) \/ Move(h) \/ AddUserRoute(h) \/ DisableUser(h) \/ EnableUser(h)
      BY <3>1 DEF CliHandOver, CreateToken, Move, AddUserRoute, DisableUser, EnableUser
    <3>2. CASE Logout(h)
      BY <3>2 DEF Logout
    <3>3. CASE SignOut(h)
      <4>1. task[h].pc \in {"sessions", "codes", "tokens"} /\ UNCHANGED tokenVars
        BY <3>3 DEF SignOut, KindIn
      <4>2. Done(h) \/ (task[h].pc \in DOMAIN TableAfter /\ Goto(h, TableAfter[task[h].pc]))
        BY <3>3 DEF SignOut
      <4>3. task[h].pc \in DOMAIN TableAfter => TableAfter[task[h].pc] \in {"codes", "tokens"}
        BY DEF TableAfter
      <4> QED BY <4>1, <4>2, <4>3
    <3> QED BY <1>7, <3>1, <3>2, <3>3
  <2> QED BY <2>1, <1>0, QuietGoto
<1>8. CASE SwitchOrg(h)
  <2>1. task[h].pc = "route" /\ UNCHANGED tokenVars
        /\ (Done(h) \/ \E role, mail, arg :
              Run(h, [task[h] EXCEPT !.pc = "target", !.role = role, !.mail = mail, !.arg = arg]))
    BY <1>8 DEF SwitchOrg
  <2>2. ASSUME NEW role, NEW mail, NEW arg,
               Run(h, [task[h] EXCEPT !.pc = "target", !.role = role, !.mail = mail, !.arg = arg])
        PROVE TokenInv'
    <3> DEFINE t == [task[h] EXCEPT !.pc = "target", !.role = role, !.mail = mail, !.arg = arg]
    <3>1. DOMAIN t = DOMAIN task[h] /\ t.pc = "target" /\ t.d = task[h].d /\ t.tok = task[h].tok
          /\ t.op = task[h].op /\ Run(h, t)
      BY <2>1, <2>2, <1>a DEF Whom, Fields
    <3> HIDE DEF t
    <3>2. ~Checks(t) /\ ~Carries(t)
      BY <3>1 DEF Checks, Carries
    <3> QED BY <2>1, <3>1, <3>2, QuietStep
  <2> QED BY <2>1, <2>2, <1>0
<1>9. CASE Target(h)
  <2>1. task[h].pc = "target" /\ UNCHANGED tokenVars
        /\ (Done(h) \/ \E arg : Run(h, [task[h] EXCEPT !.pc = "carry", !.arg = arg]))
    BY <1>9 DEF Target
  <2>2. ASSUME NEW arg, Run(h, [task[h] EXCEPT !.pc = "carry", !.arg = arg])
        PROVE TokenInv'
    <3> DEFINE t == [task[h] EXCEPT !.pc = "carry", !.arg = arg]
    <3>1. DOMAIN t = DOMAIN task[h] /\ t.pc = "carry" /\ t.d = task[h].d /\ t.tok = task[h].tok
          /\ t.op = task[h].op /\ Run(h, t)
      BY <2>1, <2>2, <1>a DEF Whom, Fields
    <3> HIDE DEF t
    <3>2. ~Checks(t) /\ ~Carries(t)
      BY <3>1 DEF Checks, Carries
    <3> QED BY <2>1, <3>1, <3>2, QuietStep
  <2> QED BY <2>1, <2>2, <1>0
<1>10. CASE CarryRole(h) \/ UpdateUser(h)
  <2>1. task[h].pc \in {"carry", "role"} /\ UNCHANGED tokenVars /\ (Goto(h, "move") \/ Goto(h, "sessions"))
    BY <1>10 DEF CarryRole, UpdateUser
  <2> QED BY <2>1, QuietGoto
<1>11. CASE Administer(h)
  <2>1. task[h].pc = "route" /\ UNCHANGED tokenVars
        /\ (Done(h) \/ \E pc \in {"role", "disable", "enable"} : Goto(h, pc))
    BY <1>11 DEF Administer
  <2> QED BY <2>1, <1>0, QuietGoto
<1> QED BY <1>1, <1>2, <1>3, <1>4, <1>5, <1>6, <1>7, <1>8, <1>9, <1>10, <1>11

-----------------------------------------------------------------------------
(* Steps that move tokens *)

LEMMA TaskAfter ==
  ASSUME Typed, NEW h \in Slots, NEW t, Run(h, t)
  PROVE  DOMAIN task' = Slots /\ task'[h] = t /\ \A g \in Slots \ {h} : task'[g] = task[g]
  BY DEF Run, Typed

LEMMA SameProviders == ASSUME setup' = setup PROVE \A d : Rotates(d)' <=> Rotates(d)
  BY DEF Rotates, Rotating, Providers

LEMMA ChecksKept ==
  ASSUME Typed, OneCheck, NEW h \in Slots, \A g \in Slots \ {h} : task'[g] = task[g],
         Checks(task'[h]) => Checks(task[h]) /\ task'[h].d = task[h].d,
         \A d \in Idents : idents'[d].due => idents[d].due
  PROVE  OneCheck'
<1>1. ASSUME NEW g \in Slots, Checks(task'[g])
      PROVE  Checks(task[g]) /\ task'[g].d = task[g].d /\ task[g].d \in Idents
  <2>1. Checks(task[g]) /\ task'[g].d = task[g].d
    BY <1>1
  <2>2. Whom(task[g])
    BY <2>1, Busy DEF Checks
  <2> QED BY <2>1, <2>2 DEF Whom
<1>2. ASSUME NEW g \in Slots, Checks(task'[g]) PROVE ~idents'[task'[g].d].due
  BY <1>1, <1>2 DEF OneCheck
<1>3. ASSUME NEW f \in Slots, NEW g \in Slots, Checks(task'[f]), Checks(task'[g]), task'[f].d = task'[g].d
      PROVE f = g
  BY <1>1, <1>3 DEF OneCheck
<1> QED BY <1>2, <1>3 DEF OneCheck, Checks

\* What Renews and Has look at of a request.
LEMMA StillRenews ==
  ASSUME NEW h \in Slots, \A g \in Slots \ {h} : task'[g] = task[g], task[h].pc # "record"
  PROVE  \A d : Renews(d) => Renews(d)'
<1>1. ASSUME NEW d, Renews(d) PROVE Renews(d)'
  <2>1. PICK g \in Slots : task[g].pc = "record" /\ task[g].d = d /\ task[g].tok # 0
    BY <1>1 DEF Renews
  <2> QED BY <2>1 DEF Renews
<1> QED BY <1>1

LEMMA VouchedTokens ==
  ASSUME TokenInv, NEW h \in Slots, NEW id, NEW a, NEW pc \in {"place", "take"}, Vouched(h, id, a, pc),
         task[h].pc \in {"exchange", "password"}, UNCHANGED <<setup, idents, signups, spent, reused, lost>>
  PROVE  TokenInv'
<1> DEFINE issue == a.token /\ (Rotates(task[h].d) => tokens < MaxTokens)
           want == RoleFor(ProviderOf(task[h].d), id)
           tok == IF issue THEN NewToken(task[h].d) ELSE 0
           t == [task[h] EXCEPT !.pc = pc, !.mail = id.email, !.want = want, !.tok = tok]
<1>1. Run(h, t) /\ tokens' = IF issue /\ Rotates(task[h].d) THEN tokens + 1 ELSE tokens
  BY DEF Vouched
<1>2. Whom(task[h]) /\ Typed /\ tokens \in Nat
  BY Busy DEF TokenInv, Typed
<1>3. tok \in Nat /\ tokens' \in Nat /\ tokens' >= tokens
      /\ (Rotates(task[h].d) /\ tok # 0 => tok = tokens + 1 /\ tokens' = tokens + 1)
  BY <1>1, <1>2 DEF NewToken
<1>4. DOMAIN t = Fields /\ t.pc = pc /\ t.tok = tok /\ t.d = task[h].d /\ t.op = "signin" /\ t.d \in Idents
  BY <1>2 DEF Whom, Fields
<1> HIDE DEF t, tok, want, issue
<1>5. Whom(t) /\ ~Checks(t) /\ t.pc # "ask"
  BY <1>3, <1>4 DEF Whom, Checks, Carries
<1>6. DOMAIN task' = Slots /\ task'[h] = t /\ \A g \in Slots \ {h} : task'[g] = task[g]
  BY <1>1, <1>2, TaskAfter
<1>7. Typed'
  <2>1. \A g \in Slots : task'[g] = Idle \/ Whom(task'[g])
    BY <1>5, <1>6 DEF TokenInv, Typed
  <2> QED BY <1>3, <1>6, <2>1 DEF TokenInv, Typed, SetupOK, Whom, Carries, Checks
<1>8. ASSUME NEW w, NEW x, NEW k, Has(w, x, k)'
      PROVE \/ Has(w, x, k)
            \/ w = "request" /\ x = h /\ k = tokens + 1 /\ tokens' = tokens + 1
  <2>0. \A d : Rotates(d)' <=> Rotates(d)
    BY SameProviders
  <2>1. CASE w = "identity"
    <3>1. \A g \in Slots : task'[g].pc = "ask" => task'[g] = task[g]
      BY <1>5, <1>6
    <3> QED BY <2>1, <3>1, <2>0, <1>8 DEF Has
  <2>2. CASE w = "signup"
    BY <2>2, <2>0, <1>8 DEF Has
  <2>3. CASE w = "request"
    <3>1. x \in Slots /\ Carries(task'[x]) /\ Rotates(task'[x].d) /\ task'[x].tok = k /\ k # 0
      BY <2>3, <2>0, <1>8 DEF Has, Carries
    <3>2. CASE x = h
      BY <3>1, <3>2, <2>3, <1>3, <1>4, <1>6
    <3>3. CASE x # h
      BY <3>1, <3>3, <2>3, <1>6 DEF Has
    <3> QED BY <3>2, <3>3
  <2> QED BY <2>1, <2>2, <2>3, <1>8 DEF Has
<1>9. \A d : Renews(d) => Renews(d)'
  BY <1>6, StillRenews
<1>10. Alone' /\ Issued' /\ Unspent' /\ TokenSpentOnce'
  <2>1. GoesTo("request", h, "request", h) /\ Renewed
    BY <1>8, <1>9 DEF GoesTo, Renewed
  <2> QED BY <2>1, <1>2, <1>3, PassedOn DEF TokenInv
<1>11. OneCheck'
  BY <1>2, <1>5, <1>6, ChecksKept DEF TokenInv
<1> QED BY <1>7, <1>10, <1>11 DEF TokenInv

LEMMA ExchangeTokens == ASSUME TokenInv, NEW h \in Slots, ExchangeStep(h) PROVE TokenInv'
<1>1. task[h].pc = "exchange" /\ UNCHANGED <<setup, idents, signups, spent, reused, lost>>
  BY DEF ExchangeStep, db
<1>2. CASE Done(h) /\ UNCHANGED tokens
  BY <1>1, <1>2, QuietDone DEF tokenVars
<1>3. CASE \E id, a : Vouched(h, id, a, "place")
  BY <1>1, <1>3, VouchedTokens
<1> QED BY <1>2, <1>3 DEF ExchangeStep

LEMMA AuthenticateTokens == ASSUME TokenInv, NEW h \in Slots, AuthenticateStep(h) PROVE TokenInv'
<1>1. task[h].pc = "password" /\ UNCHANGED <<setup, idents, signups, spent, reused, lost>>
  BY DEF AuthenticateStep, db
<1>2. CASE Done(h) /\ UNCHANGED tokens
  BY <1>1, <1>2, QuietDone DEF tokenVars
<1>3. CASE \E id, a : \E pc \in {"place", "take"} : Vouched(h, id, a, pc)
  BY <1>1, <1>3, VouchedTokens
<1> QED BY <1>2, <1>3 DEF AuthenticateStep

\* A sign-up keeps what the provider said.
LEMMA PlaceTokens == ASSUME TokenInv, NEW h \in Slots, Place(h) PROVE TokenInv'
<1>1. task[h].pc = "place" /\ UNCHANGED <<setup, idents, tokens, spent, reused, lost>>
  BY DEF Place, counters, ghosts
<1>2. Whom(task[h]) /\ Typed /\ tokens \in Nat
  BY <1>1, Busy DEF TokenInv, Typed
<1>3. CASE Done(h) /\ UNCHANGED signups
  BY <1>1, <1>3, QuietDone DEF tokenVars
<1>4. ASSUME NEW o, Run(h, [task[h] EXCEPT !.pc = "link", !.row = <<o, task[h].mail>>]), UNCHANGED signups
      PROVE TokenInv'
  <2> DEFINE t == [task[h] EXCEPT !.pc = "link", !.row = <<o, task[h].mail>>]
  <2>1. DOMAIN t = DOMAIN task[h] /\ t.pc = "link" /\ t.d = task[h].d /\ t.tok = task[h].tok
        /\ t.op = task[h].op /\ t.op = "signin"
    BY <1>1, <1>2 DEF Whom, Fields
  <2>2. Run(h, t) /\ UNCHANGED tokenVars
    BY <1>1, <1>4 DEF tokenVars
  <2> HIDE DEF t
  <2>3. ~Checks(t) /\ Carries(task[h])
    BY <1>1, <2>1 DEF Checks, Carries
  <2> QED BY <1>1, <2>1, <2>2, <2>3, QuietStep
<1>5. ASSUME NEW o, StartSignup(h, o), Done(h), ~task[h].cli PROVE TokenInv'
  <2> DEFINE su == [d |-> task[h].d, mail |-> task[h].mail, want |-> task[h].want, tok |-> task[h].tok,
                    invited |-> o]
  <2>0. PICK s \in SignupIds : signups' = [signups EXCEPT ![s] = su]
    BY <1>5 DEF StartSignup
  <2>1. su.tok = task[h].tok /\ su.d = task[h].d /\ task[h].d \in Idents /\ task[h].tok \in Nat
    BY <1>1, <1>2 DEF Whom, Carries
  <2> HIDE DEF su
  <2>2. DOMAIN signups' = SignupIds /\ signups'[s] = su /\ \A e \in SignupIds \ {s} : signups'[e] = signups[e]
    BY <2>0, <1>2 DEF Typed
  <2>3. DOMAIN task' = Slots /\ task'[h] = Idle /\ \A g \in Slots \ {h} : task'[g] = task[g]
    BY <1>2, <1>5, TaskAfter DEF Done
  <2>4. ~Checks(Idle) /\ ~Carries(Idle) /\ Idle.pc = "idle"
    BY DEF Idle, Checks, Carries
  <2>5. Typed'
    <3>1. \A g \in Slots : task'[g] = Idle \/ Whom(task'[g])
      BY <2>3 DEF TokenInv, Typed
    <3>2. \A e \in SignupIds : signups'[e] # Nobody => signups'[e].tok \in Nat /\ signups'[e].d \in Idents
      BY <2>1, <2>2 DEF TokenInv, Typed
    <3> QED BY <1>1, <2>2, <2>3, <3>1, <3>2 DEF TokenInv, Typed, SetupOK, Whom, Carries, Checks
  <2>6. ASSUME NEW k PROVE ~Has("request", h, k)'
    BY <2>3, <2>4 DEF Has, Carries
  <2>7. ASSUME NEW w, NEW x, NEW k, Has(w, x, k)'
        PROVE Has(w, x, k) \/ (w = "signup" /\ x = s /\ Has("request", h, k))
    <3>0. \A e : Rotates(e)' <=> Rotates(e)
      BY <1>1, SameProviders
    <3>1. CASE w = "identity"
      <4>1. \A g \in Slots : task'[g].pc = "ask" => task'[g] = task[g]
        BY <2>3, <2>4
      <4> QED BY <3>1, <4>1, <3>0, <1>1, <2>7 DEF Has
    <3>2. CASE w = "signup"
      <4>1. x \in SignupIds /\ signups'[x] # Nobody /\ Rotates(signups'[x].d) /\ signups'[x].tok = k /\ k # 0
        BY <3>2, <3>0, <2>7 DEF Has
      <4>2. CASE x = s
        <5>1. Carries(task[h])
          BY <1>1, <1>2 DEF Whom, Carries
        <5> QED BY <4>1, <4>2, <5>1, <3>2, <2>1, <2>2 DEF Has
      <4>3. CASE x # s
        BY <4>1, <4>3, <3>2, <2>2 DEF Has
      <4> QED BY <4>2, <4>3
    <3>3. CASE w = "request"
      <4>1. x \in Slots /\ Carries(task'[x]) /\ Rotates(task'[x].d) /\ task'[x].tok = k /\ k # 0
        BY <3>3, <3>0, <2>7 DEF Has, Carries
      <4> QED BY <4>1, <3>3, <2>3, <2>4 DEF Has
    <3> QED BY <3>1, <3>2, <3>3, <2>7 DEF Has
  <2>8. \A e : Renews(e) => Renews(e)'
    BY <1>1, <2>3, StillRenews
  <2>9. Alone' /\ Issued' /\ Unspent' /\ TokenSpentOnce'
    <3>1. GoesTo("request", h, "signup", s) /\ Renewed
      BY <2>6, <2>7, <2>8 DEF GoesTo, Renewed
    <3> QED BY <3>1, <1>1, <1>2, PassedOn DEF TokenInv
  <2>10. OneCheck'
    BY <1>1, <1>2, <2>3, <2>4, ChecksKept DEF TokenInv
  <2> QED BY <2>5, <2>9, <2>10 DEF TokenInv
<1>6. CASE Done(h) /\ \E o : StartSignup(h, o)
  <2>1. CASE task[h].cli
    BY <1>6, <2>1, <1>3 DEF StartSignup
  <2> QED BY <1>5, <1>6, <2>1
<1> QED BY <1>3, <1>4, <1>6 DEF Place

\* A sign-up is completed, and its token goes on with the request.
LEMMA SignUpTokens ==
  ASSUME TokenInv, NEW h \in Slots, NEW s \in SignupIds, CompleteSignup(h, s) PROVE TokenInv'
<1>1. task[h] = Idle /\ signups[s] # Nobody /\ UNCHANGED <<setup, idents, tokens, spent, reused, lost>>
  BY DEF CompleteSignup, Begin
<1>2. Typed /\ tokens \in Nat /\ task[h].pc = "idle" /\ signups[s].tok \in Nat /\ signups[s].d \in Idents
  BY <1>1 DEF TokenInv, Typed, Idle
<1>3. CASE Done(h) /\ UNCHANGED signups
  BY <1>1, <1>2, <1>3, QuietDone DEF tokenVars
<1>4. ASSUME NEW op, NEW row, NEW role, Run(h, SignUpTask(signups[s], op, row, role)),
             signups' = [signups EXCEPT ![s] = Nobody]
      PROVE  TokenInv'
  <2> DEFINE t == SignUpTask(signups[s], op, row, role)
  <2>1. DOMAIN t = Fields /\ t.pc = "remember" /\ t.d = signups[s].d /\ t.tok = signups[s].tok
    BY DEF SignUpTask, SignInTask, Fields
  <2>2. Run(h, t)
    BY <1>4
  <2> HIDE DEF t
  <2>3. Whom(t) /\ ~Checks(t)
    BY <1>2, <2>1 DEF Whom, Checks, Carries
  <2>4. DOMAIN task' = Slots /\ task'[h] = t /\ \A g \in Slots \ {h} : task'[g] = task[g]
    BY <1>2, <2>2, TaskAfter
  <2>5. DOMAIN signups' = SignupIds /\ signups'[s] = Nobody /\ \A e \in SignupIds \ {s} : signups'[e] = signups[e]
    BY <1>2, <1>4 DEF Typed
  <2>6. Typed'
    <3>1. \A g \in Slots : task'[g] = Idle \/ Whom(task'[g])
      BY <2>3, <2>4 DEF TokenInv, Typed
    <3>2. \A e \in SignupIds : signups'[e] # Nobody => signups'[e].tok \in Nat /\ signups'[e].d \in Idents
      BY <2>5 DEF TokenInv, Typed
    <3> QED BY <1>1, <2>4, <2>5, <3>1, <3>2 DEF TokenInv, Typed, SetupOK, Whom, Carries, Checks
  <2>7. ASSUME NEW k PROVE ~Has("signup", s, k)'
    BY <2>5 DEF Has
  <2>8. ASSUME NEW w, NEW x, NEW k, Has(w, x, k)'
        PROVE Has(w, x, k) \/ (w = "request" /\ x = h /\ Has("signup", s, k))
    <3>0. \A e : Rotates(e)' <=> Rotates(e)
      BY <1>1, SameProviders
    <3>1. CASE w = "identity"
      <4>1. \A g \in Slots : task'[g].pc = "ask" => task'[g] = task[g]
        BY <2>4, <2>1
      <4> QED BY <3>1, <4>1, <3>0, <1>1, <2>8 DEF Has
    <3>2. CASE w = "signup"
      BY <3>2, <3>0, <2>5, <2>8 DEF Has
    <3>3. CASE w = "request"
      <4>1. x \in Slots /\ Carries(task'[x]) /\ Rotates(task'[x].d) /\ task'[x].tok = k /\ k # 0
        BY <3>3, <3>0, <2>8 DEF Has, Carries
      <4>2. CASE x = h
        BY <4>1, <4>2, <3>3, <2>1, <2>4, <1>1 DEF Has
      <4>3. CASE x # h
        BY <4>1, <4>3, <3>3, <2>4 DEF Has
      <4> QED BY <4>2, <4>3
    <3> QED BY <3>1, <3>2, <3>3, <2>8 DEF Has
  <2>9. \A e : Renews(e) => Renews(e)'
    BY <1>2, <2>4, StillRenews
  <2>10. Alone' /\ Issued' /\ Unspent' /\ TokenSpentOnce'
    <3>1. GoesTo("signup", s, "request", h) /\ Renewed
      BY <2>7, <2>8, <2>9 DEF GoesTo, Renewed
    <3> QED BY <3>1, <1>1, <1>2, PassedOn DEF TokenInv
  <2>11. OneCheck'
    BY <1>1, <1>2, <2>3, <2>4, ChecksKept DEF TokenInv
  <2> QED BY <2>6, <2>10, <2>11 DEF TokenInv
<1>5. ASSUME NEW o \in Orgs, CreateOrg(h, s, o) PROVE TokenInv'
  BY <1>4, <1>5 DEF CreateOrg
<1>6. CASE JoinInvitation(h, s)
  BY <1>3, <1>4, <1>6 DEF JoinInvitation
<1> QED BY <1>5, <1>6 DEF CompleteSignup

\* Identities and sign-ups lose tokens, or an identity gets the one that a
\* request has carried.
LEMMA Stored ==
  ASSUME TokenInv, UNCHANGED <<setup, tokens, spent, reused>>, lost \subseteq lost',
         idents' \in [Idents -> IdentRow], DOMAIN signups' = SignupIds, DOMAIN task' = Slots,
         \A s \in SignupIds : signups'[s] = Nobody \/ signups'[s] = signups[s],
         \A g \in Slots : task'[g] = Idle \/ Whom(task'[g]),
         \A g \in Slots : Carries(task'[g]) =>
            Carries(task[g]) /\ task'[g].d = task[g].d /\ task'[g].tok = task[g].tok,
         \A g \in Slots : task'[g].pc = "ask" =>
            task'[g] = task[g] \/ (task'[g].d \in Idents /\ task'[g].tok = idents[task'[g].d].token),
         NEW h, NEW e,
         \A d \in Idents :
            \/ idents'[d].token \in {0, idents[d].token}
            \/ /\ h \in Slots /\ Carries(task[h]) /\ ~Carries(task'[h]) /\ d = e /\ e = task[h].d
               /\ idents'[d].token = task[h].tok,
         Renewed
  PROVE  Typed' /\ Alone' /\ Issued' /\ Unspent' /\ TokenSpentOnce'
<1>1. Typed'
  BY DEF TokenInv, Typed, SetupOK, Whom, Carries, Checks
<1>2. ASSUME NEW w, NEW x, NEW k, Has(w, x, k)'
      PROVE \/ Has(w, x, k)
            \/ w = "identity" /\ x = e /\ Has("request", h, k) /\ ~Has("request", h, k)'
  <2>0. \A d : Rotates(d)' <=> Rotates(d)
    BY SameProviders
  <2>1. CASE w = "identity"
    <3>1. x \in Idents /\ Rotates(x) /\ k # 0
      BY <2>0, <2>1, <1>2 DEF Has
    <3>2. CASE idents'[x].token = k
      <4>1. CASE idents'[x].token \in {0, idents[x].token}
        BY <2>1, <3>1, <3>2, <4>1 DEF Has
      <4>2. CASE /\ h \in Slots /\ Carries(task[h]) /\ ~Carries(task'[h]) /\ x = e /\ e = task[h].d
                 /\ idents'[x].token = task[h].tok
        <5>1. Has("request", h, k)
          BY <3>1, <3>2, <4>2 DEF Has
        <5>2. ~Has("request", h, k)'
          BY <4>2 DEF Has, Carries
        <5> QED BY <2>1, <4>2, <5>1, <5>2
      <4> QED BY <3>1, <4>1, <4>2
    <3>3. ASSUME NEW g \in Slots, task'[g].pc = "ask", task'[g].d = x, task'[g].tok = k
          PROVE Has(w, x, k)
      <4>1. CASE task'[g] = task[g]
        BY <4>1, <3>1, <3>3, <2>1 DEF Has
      <4>2. CASE task'[g].tok = idents[task'[g].d].token
        BY <4>2, <3>1, <3>3, <2>1 DEF Has
      <4> QED BY <3>3, <4>1, <4>2
    <3> QED BY <2>1, <3>2, <3>3, <1>2 DEF Has
  <2>2. CASE w = "signup"
    BY <2>0, <2>2, <1>2 DEF Has
  <2>3. CASE w = "request"
    <3>1. x \in Slots /\ Carries(task'[x]) /\ Rotates(task'[x].d) /\ task'[x].tok = k /\ k # 0
      BY <2>3, <2>0, <1>2 DEF Has, Carries
    <3>2. Carries(task[x]) /\ Rotates(task[x].d) /\ task[x].tok = k
      BY <3>1
    <3> QED BY <3>1, <3>2, <2>3 DEF Has
  <2> QED BY <2>1, <2>2, <2>3, <1>2 DEF Has
<1>3. GoesTo("request", h, "identity", e)
  BY <1>2 DEF GoesTo
<1>4. tokens \in Nat /\ tokens' \in Nat /\ tokens' >= tokens
  BY DEF TokenInv, Typed
<1>5. Alone' /\ Issued' /\ Unspent' /\ TokenSpentOnce'
  BY <1>3, <1>4, PassedOn DEF TokenInv
<1> QED BY <1>1, <1>5

LEMMA RememberTokens == ASSUME TokenInv, NEW h \in Slots, Remember(h) PROVE TokenInv'
<1>0. PICK d : d = task[h].d
  OBVIOUS
<1>1. task[h].pc = "remember" /\ UNCHANGED <<setup, signups, tokens, spent, reused>>
      /\ lost' = lost /\ idents' \in {idents, RecordDirectoryCheck(idents, d, task[h].tok)}
      /\ \E pc \in {"sync", "ttl"} : Goto(h, pc) /\ (pc = "sync" => task[h].op = "join")
  BY <1>0 DEF Remember, counters, ghosts
<1>2. Typed /\ OneCheck /\ Whom(task[h]) /\ d \in Idents
  BY <1>0, <1>1, Busy DEF TokenInv, Whom, Carries
<1>3. PICK pc \in {"sync", "ttl"} : Goto(h, pc) /\ (pc = "sync" => task[h].op = "join")
  BY <1>1
<1> DEFINE t == [task[h] EXCEPT !.pc = pc]
<1>4. DOMAIN t = Fields /\ t.pc = pc /\ t.tok = task[h].tok /\ t.op = task[h].op /\ Run(h, t)
  BY <1>2, <1>3 DEF Whom, Fields, Goto
<1> HIDE DEF t
<1>5. Whom(t) /\ ~Checks(t) /\ ~Carries(t) /\ t.pc # "ask"
  BY <1>2, <1>3, <1>4 DEF Whom, Checks, Carries
<1>6. DOMAIN task' = Slots /\ task'[h] = t /\ \A g \in Slots \ {h} : task'[g] = task[g]
  BY <1>2, <1>4, TaskAfter
<1>7. /\ idents' \in [Idents -> IdentRow]
      /\ \A c \in Idents : /\ idents'[c].due => idents[c].due
                           /\ idents'[c].token = idents[c].token \/ (c = d /\ idents'[c].token = task[h].tok)
  <2>1. idents \in [Idents -> IdentRow] /\ task[h].tok \in Nat
    BY <1>2 DEF Typed, Whom
  <2>2. CASE idents' = RecordDirectoryCheck(idents, d, task[h].tok)
    <3> DEFINE row == [token |-> IF task[h].tok # 0 THEN task[h].tok ELSE idents[d].token,
                       due |-> FALSE, failing |-> "no"]
    <3>1. row \in IdentRow /\ row.due = FALSE /\ row.token \in {task[h].tok, idents[d].token}
      BY <2>1, <1>2 DEF IdentRow
    <3>2. idents' = [idents EXCEPT ![d] = row]
      BY <2>2 DEF RecordDirectoryCheck
    <3> HIDE DEF row
    <3> QED BY <2>1, <3>1, <3>2
  <2> QED BY <1>1, <2>1, <2>2
<1>8. Carries(task[h])
  BY <1>1 DEF Carries
<1>9. Renewed
  <2>1. \A c : Renews(c) => Renews(c)'
    BY <1>1, <1>6, StillRenews
  <2> QED BY <2>1 DEF Renewed
<1>10. \A g \in Slots : task'[g] = Idle \/ Whom(task'[g])
  BY <1>2, <1>5, <1>6 DEF Typed
<1>11. Typed' /\ Alone' /\ Issued' /\ Unspent' /\ TokenSpentOnce'
  <2>1. DOMAIN signups' = SignupIds
    BY <1>1, <1>2 DEF Typed
  <2>2. \A g \in Slots : Carries(task'[g]) =>
            Carries(task[g]) /\ task'[g].d = task[g].d /\ task'[g].tok = task[g].tok
    BY <1>5, <1>6
  <2>3. \A g \in Slots : task'[g].pc = "ask" => task'[g] = task[g]
    BY <1>5, <1>6
  <2>4. \A c \in Idents :
            \/ idents'[c].token \in {0, idents[c].token}
            \/ /\ h \in Slots /\ Carries(task[h]) /\ ~Carries(task'[h]) /\ c = d /\ d = task[h].d
               /\ idents'[c].token = task[h].tok
    BY <1>0, <1>5, <1>6, <1>7, <1>8
  <2> QED BY <1>1, <1>6, <1>7, <1>9, <1>10, <2>1, <2>2, <2>3, <2>4, Stored
<1>12. OneCheck'
  BY <1>2, <1>5, <1>6, <1>7, ChecksKept
<1> QED BY <1>11, <1>12 DEF TokenInv

LEMMA ClaimTokens == ASSUME TokenInv, NEW h \in Slots, Claim(h) PROVE TokenInv'
<1>0. PICK d : d = task[h].d
  OBVIOUS
<1>1. task[h].pc = "claim" /\ UNCHANGED <<setup, signups, tokens, spent, reused, lost>>
  BY DEF Claim, counters, ghosts
<1>2. Typed /\ OneCheck /\ Whom(task[h]) /\ d \in Idents
  BY <1>0, <1>1, Busy DEF TokenInv, Whom
<1>3. CASE Goto(h, "route") /\ UNCHANGED idents
  BY <1>1, <1>3, QuietGoto DEF tokenVars
<1>4. CASE /\ Claimable(idents, d)
           /\ idents' = ClaimDirectoryCheck(idents, d)
           /\ Run(h, [task[h] EXCEPT !.pc = "ask", !.tok = idents[d].token])
  <2> DEFINE t == [task[h] EXCEPT !.pc = "ask", !.tok = idents[d].token]
  <2>1. idents \in [Idents -> IdentRow] /\ idents[d].token \in Nat /\ idents[d].token # 0 /\ idents[d].due
    BY <1>2, <1>4 DEF Typed, IdentRow, Claimable
  <2>2. DOMAIN t = Fields /\ t.pc = "ask" /\ t.tok = idents[d].token /\ t.op = task[h].op /\ t.d = d /\ Run(h, t)
    BY <1>0, <1>2, <1>4 DEF Whom, Fields
  <2> HIDE DEF t
  <2>3. Whom(t) /\ Checks(t) /\ ~Carries(t)
    BY <1>1, <1>2, <2>1, <2>2 DEF Whom, Checks, Carries
  <2>4. DOMAIN task' = Slots /\ task'[h] = t /\ \A g \in Slots \ {h} : task'[g] = task[g]
    BY <1>2, <2>2, TaskAfter
  <2>5. /\ idents' \in [Idents -> IdentRow] /\ ~idents'[d].due
        /\ \A c \in Idents : idents'[c].token = idents[c].token /\ (idents'[c].due => idents[c].due)
    <3> DEFINE row == [idents[d] EXCEPT !.due = FALSE]
    <3>1. row \in IdentRow /\ row.due = FALSE /\ row.token = idents[d].token
      BY <2>1, <1>2 DEF IdentRow
    <3>2. idents' = [idents EXCEPT ![d] = row]
      BY <1>4 DEF ClaimDirectoryCheck
    <3> HIDE DEF row
    <3> QED BY <2>1, <3>1, <3>2, <1>2
  <2>6. Renewed
    <3>1. \A c : Renews(c) => Renews(c)'
      BY <1>1, <2>4, StillRenews
    <3> QED BY <3>1 DEF Renewed
  <2>7. \A g \in Slots : task'[g] = Idle \/ Whom(task'[g])
    BY <1>2, <2>3, <2>4 DEF Typed
  <2>8. Typed' /\ Alone' /\ Issued' /\ Unspent' /\ TokenSpentOnce'
    <3>1. DOMAIN signups' = SignupIds
      BY <1>1, <1>2 DEF Typed
    <3>2. \A g \in Slots : Carries(task'[g]) =>
              Carries(task[g]) /\ task'[g].d = task[g].d /\ task'[g].tok = task[g].tok
      BY <2>3, <2>4
    <3>3. \A g \in Slots : task'[g].pc = "ask" =>
              task'[g] = task[g] \/ (task'[g].d \in Idents /\ task'[g].tok = idents[task'[g].d].token)
      BY <1>2, <2>2, <2>4
    <3>4. \A c \in Idents : idents'[c].token \in {0, idents[c].token}
      BY <2>5
    <3> QED BY <1>1, <2>4, <2>5, <2>6, <2>7, <3>1, <3>2, <3>3, <3>4, Stored
  <2>9. OneCheck'
    <3>1. ASSUME NEW g \in Slots, Checks(task'[g]) PROVE task'[g].d \in Idents /\ ~idents'[task'[g].d].due
      <4>1. CASE g = h
        BY <4>1, <1>2, <2>2, <2>4, <2>5
      <4>2. CASE g # h
        <5>1. task'[g] = task[g] /\ ~idents[task[g].d].due
          BY <4>2, <2>4, <3>1, <1>2 DEF OneCheck
        <5>2. Whom(task'[g]) /\ task'[g].d \in Idents
          BY <5>1, <3>1, <1>2, Busy DEF Checks, Whom
        <5> QED BY <5>1, <5>2, <2>5
      <4> QED BY <4>1, <4>2
    <3>2. ASSUME NEW g \in Slots, g # h, Checks(task'[g]) PROVE task'[g].d # d
      BY <3>2, <2>1, <2>4, <1>2 DEF OneCheck
    <3>3. ASSUME NEW f \in Slots, NEW g \in Slots, Checks(task'[f]), Checks(task'[g]), task'[f].d = task'[g].d
          PROVE f = g
      <4>1. CASE f # h /\ g # h
        BY <4>1, <3>3, <2>4, <1>2 DEF OneCheck
      <4>2. CASE f = h \/ g = h
        BY <4>2, <3>2, <3>3, <2>2, <2>4
      <4> QED BY <4>1, <4>2
    <3> QED BY <3>1, <3>3 DEF OneCheck, Checks
  <2> QED BY <2>8, <2>9 DEF TokenInv
<1> QED BY <1>0, <1>3, <1>4 DEF Claim

LEMMA FailedTokens == ASSUME TokenInv, NEW h \in Slots, Failed(h) PROVE TokenInv'
<1>0. PICK d : d = task[h].d
  OBVIOUS
<1>1. task[h].pc = "failed" /\ UNCHANGED <<setup, signups, tokens, spent, reused, lost>>
      /\ idents' \in {idents, RecordDirectoryFailure(idents, d)} /\ \E pc \in {"end", "route"} : Goto(h, pc)
  BY <1>0 DEF Failed, counters, ghosts
<1>2. Typed /\ OneCheck /\ Whom(task[h]) /\ d \in Idents /\ Checks(task[h])
  BY <1>0, <1>1, Busy DEF TokenInv, Whom, Checks
<1>3. PICK pc \in {"end", "route"} : Goto(h, pc)
  BY <1>1
<1> DEFINE t == [task[h] EXCEPT !.pc = pc]
<1>4. DOMAIN t = Fields /\ t.pc = pc /\ t.tok = task[h].tok /\ t.op = task[h].op /\ t.d = d /\ Run(h, t)
  BY <1>0, <1>2, <1>3 DEF Whom, Fields, Goto
<1> HIDE DEF t
<1>5. Whom(t) /\ ~Carries(t) /\ t.pc # "ask"
  BY <1>2, <1>3, <1>4 DEF Whom, Checks, Carries
<1>6. DOMAIN task' = Slots /\ task'[h] = t /\ \A g \in Slots \ {h} : task'[g] = task[g]
  BY <1>2, <1>4, TaskAfter
<1>7. /\ idents' \in [Idents -> IdentRow]
      /\ \A c \in Idents : idents'[c].token = idents[c].token /\ idents'[c].due = idents[c].due
  <2>1. idents \in [Idents -> IdentRow]
    BY <1>2 DEF Typed
  <2> DEFINE row == [idents[d] EXCEPT !.failing = IF @ = "no" THEN "short" ELSE @]
  <2>2. row \in IdentRow /\ row.due = idents[d].due /\ row.token = idents[d].token
    BY <2>1, <1>2 DEF IdentRow
  <2>3. idents' = idents \/ idents' = [idents EXCEPT ![d] = row]
    BY <1>1 DEF RecordDirectoryFailure
  <2> HIDE DEF row
  <2> QED BY <2>1, <2>2, <2>3
<1>8. Renewed
  <2>1. \A c : Renews(c) => Renews(c)'
    BY <1>1, <1>6, StillRenews
  <2> QED BY <2>1 DEF Renewed
<1>9. \A g \in Slots : task'[g] = Idle \/ Whom(task'[g])
  BY <1>2, <1>5, <1>6 DEF Typed
<1>10. Typed' /\ Alone' /\ Issued' /\ Unspent' /\ TokenSpentOnce'
  <2>1. DOMAIN signups' = SignupIds
    BY <1>1, <1>2 DEF Typed
  <2>2. \A g \in Slots : Carries(task'[g]) =>
            Carries(task[g]) /\ task'[g].d = task[g].d /\ task'[g].tok = task[g].tok
    BY <1>5, <1>6
  <2>3. \A g \in Slots : task'[g].pc = "ask" => task'[g] = task[g]
    BY <1>5, <1>6
  <2>4. \A c \in Idents : idents'[c].token \in {0, idents[c].token}
    BY <1>7
  <2> QED BY <1>1, <1>6, <1>7, <1>8, <1>9, <2>1, <2>2, <2>3, <2>4, Stored
<1>11. OneCheck'
  BY <1>0, <1>2, <1>4, <1>6, <1>7, ChecksKept
<1> QED BY <1>10, <1>11 DEF TokenInv

\* Identities lose tokens, sign-ups expire, and a request may end meanwhile.
LEMMA Dropped ==
  ASSUME TokenInv, UNCHANGED <<setup, tokens, spent, reused, lost>>,
         idents' \in [Idents -> IdentRow], DOMAIN signups' = SignupIds,
         \A s \in SignupIds : signups'[s] = Nobody \/ signups'[s] = signups[s],
         \A d \in Idents : idents'[d].token \in {0, idents[d].token},
         task' = task \/ \E h \in Slots : Done(h) /\ task[h].pc # "record"
  PROVE  Typed' /\ Alone' /\ Issued' /\ Unspent' /\ TokenSpentOnce'
<1>1. DOMAIN task' = Slots /\ \A g \in Slots : task'[g] = task[g] \/ (task'[g] = Idle /\ task[g].pc # "record")
  <2>1. ASSUME NEW h \in Slots, Done(h), task[h].pc # "record"
        PROVE DOMAIN task' = Slots /\ \A g \in Slots : task'[g] = task[g] \/ (task'[g] = Idle /\ task[g].pc # "record")
    BY <2>1, TaskAfter DEF Done, TokenInv
  <2> QED BY <2>1 DEF TokenInv, Typed
<1>2. ~Carries(Idle) /\ Idle.pc = "idle"
  BY DEF Idle, Carries
<1>3. \A g \in Slots : task'[g] = Idle \/ Whom(task'[g])
  BY <1>1 DEF TokenInv, Typed
<1>4. Renewed
  <2>1. ASSUME NEW c, Renews(c) PROVE Renews(c)'
    <3>1. PICK g \in Slots : task[g].pc = "record" /\ task[g].d = c /\ task[g].tok # 0
      BY <2>1 DEF Renews
    <3> QED BY <3>1, <1>1 DEF Renews
  <2> QED BY <2>1 DEF Renewed
<1>5. \A g \in Slots : Carries(task'[g]) =>
            Carries(task[g]) /\ task'[g].d = task[g].d /\ task'[g].tok = task[g].tok
  BY <1>1, <1>2
<1>6. \A g \in Slots : task'[g].pc = "ask" => task'[g] = task[g]
  BY <1>1, <1>2
<1> QED BY <1>1, <1>3, <1>4, <1>5, <1>6, Stored

LEMMA EndLinkTokens == ASSUME TokenInv, NEW h \in Slots, EndLink(h) PROVE TokenInv'
<1>0. PICK d : d = task[h].d
  OBVIOUS
<1>1. task[h].pc = "end" /\ UNCHANGED <<setup, signups, tokens, spent, reused, lost>> /\ Done(h)
      /\ idents' \in {idents, EndedLink(idents, d)}
  BY <1>0 DEF EndLink, counters
<1>2. Typed /\ OneCheck
  BY DEF TokenInv
<1>3. CASE idents' = idents
  BY <1>1, <1>3, QuietDone DEF tokenVars
<1>4. CASE idents' = EndedLink(idents, d)
  <2>1. idents \in [Idents -> IdentRow] /\ DOMAIN signups' = SignupIds
    BY <1>1, <1>2 DEF Typed
  <2>2. /\ idents' \in [Idents -> IdentRow]
        /\ \A c \in Idents : idents'[c].token \in {0, idents[c].token} /\ (idents'[c].due => idents[c].due)
    BY <2>1, <1>4 DEF EndedLink, IdentRow
  <2>3. Typed' /\ Alone' /\ Issued' /\ Unspent' /\ TokenSpentOnce'
    BY <1>1, <2>1, <2>2, Dropped
  <2>4. task'[h] = Idle /\ ~Checks(Idle) /\ \A g \in Slots \ {h} : task'[g] = task[g]
    BY <1>1, <1>2, TaskAfter DEF Done, Checks, Idle
  <2>5. OneCheck'
    BY <1>2, <2>2, <2>4, ChecksKept
  <2> QED BY <2>3, <2>5 DEF TokenInv
<1> QED BY <1>1, <1>3, <1>4

\* An identity whose check has been answered has no other check under way.
LEMMA RecordedAlone ==
  ASSUME TokenInv, NEW h \in Slots, task[h].pc = "record", NEW g \in Slots, task[g].pc = "ask"
  PROVE  task[g].d # task[h].d
  BY DEF TokenInv, OneCheck, Checks

LEMMA RecordTokens == ASSUME TokenInv, NEW h \in Slots, Record(h) PROVE TokenInv'
<1>0. PICK d : d = task[h].d
  OBVIOUS
<1>1. task[h].pc = "record" /\ UNCHANGED <<setup, signups, tokens, spent, reused>>
      /\ lost \subseteq lost'
      /\ (idents' = RecordDirectoryCheck(idents, d, task[h].tok) \/ (idents' = idents /\ Forgone(d) \subseteq lost'))
  BY <1>0 DEF Record, counters
<1>2. Typed /\ OneCheck /\ Whom(task[h]) /\ d \in Idents /\ Carries(task[h])
  BY <1>0, <1>1, Busy DEF TokenInv, Whom, Carries
<1> DEFINE pc == IF task[h].long THEN "route" ELSE "sync"
           t == [task[h] EXCEPT !.pc = pc, !.long = FALSE]
<1>4. DOMAIN t = Fields /\ t.pc \in {"route", "sync"} /\ t.tok = task[h].tok /\ t.op = task[h].op /\ Run(h, t)
  BY <1>2 DEF Whom, Fields, Record
<1> HIDE DEF t, pc
<1>4a. task[h].op # "signin"
  BY <1>1, <1>2 DEF Whom, Checks
<1>5. Whom(t) /\ ~Checks(t) /\ ~Carries(t) /\ t.pc # "ask"
  BY <1>2, <1>4, <1>4a DEF Whom, Checks, Carries
<1>6. DOMAIN task' = Slots /\ task'[h] = t /\ \A g \in Slots \ {h} : task'[g] = task[g]
  BY <1>2, <1>4, TaskAfter
<1>7. /\ idents' \in [Idents -> IdentRow]
      /\ \A c \in Idents : /\ idents'[c].due => idents[c].due
                           /\ idents'[c].token = idents[c].token \/ (c = d /\ idents'[c].token = task[h].tok)
      /\ (idents' = idents /\ Forgone(d) \subseteq lost')
         \/ idents'[d].token = IF task[h].tok # 0 THEN task[h].tok ELSE idents[d].token
  <2>1. idents \in [Idents -> IdentRow] /\ task[h].tok \in Nat
    BY <1>2 DEF Typed, Whom
  <2>2. CASE idents' = RecordDirectoryCheck(idents, d, task[h].tok)
    <3> DEFINE row == [token |-> IF task[h].tok # 0 THEN task[h].tok ELSE idents[d].token,
                       due |-> FALSE, failing |-> "no"]
    <3>1. row \in IdentRow /\ row.due = FALSE /\ row.token = IF task[h].tok # 0 THEN task[h].tok ELSE idents[d].token
      BY <2>1, <1>2 DEF IdentRow
    <3>2. idents' = [idents EXCEPT ![d] = row]
      BY <2>2 DEF RecordDirectoryCheck
    <3> HIDE DEF row
    <3> QED BY <2>1, <3>1, <3>2, <1>2
  <2>3. CASE idents' = idents /\ Forgone(d) \subseteq lost'
    BY <2>1, <2>3
  <2> QED BY <1>1, <2>2, <2>3
<1>8. Renewed
  <2>1. ASSUME NEW c, Renews(c)
        PROVE  Renews(c)' \/ \A k : Has("identity", c, k)' => k \notin spent \/ k \in lost'
    <3>1. PICK g \in Slots : task[g].pc = "record" /\ task[g].d = c /\ task[g].tok # 0
      BY <2>1 DEF Renews
    <3>2. CASE g # h
      BY <3>1, <3>2, <1>6 DEF Renews
    <3>3. CASE g = h
      <4>1. c = d /\ task[h].tok # 0
            /\ ((idents' = idents /\ Forgone(d) \subseteq lost') \/ idents'[d].token = task[h].tok)
        BY <3>1, <3>3, <1>0, <1>7
      <4>2. ASSUME NEW k, Has("identity", d, k)' PROVE k \notin spent \/ k \in lost'
        <5>1. k # 0 /\ Rotates(d)
          BY <4>2, <1>1, SameProviders DEF Has
        <5>2. ASSUME NEW f \in Slots, task'[f].pc = "ask", task'[f].d = d PROVE FALSE
          BY <5>2, <1>0, <1>1, <1>5, <1>6, RecordedAlone
        <5>3. idents'[d].token = k
          BY <4>2, <5>2 DEF Has
        <5>4. CASE k = task[h].tok
          <6>1. Has("request", h, k)
            BY <5>1, <5>4, <1>0, <1>2 DEF Has
          <6> QED BY <6>1 DEF TokenInv, Unspent
        <5>5. CASE idents' = idents /\ Forgone(d) \subseteq lost'
          BY <5>1, <5>3, <5>5 DEF Forgone
        <5> QED BY <4>1, <5>3, <5>4, <5>5
      <4> QED BY <4>1, <4>2
    <3> QED BY <3>1, <3>2, <3>3, <1>0
  <2> QED BY <2>1 DEF Renewed
<1>10. \A g \in Slots : task'[g] = Idle \/ Whom(task'[g])
  BY <1>2, <1>5, <1>6 DEF Typed
<1>11. Typed' /\ Alone' /\ Issued' /\ Unspent' /\ TokenSpentOnce'
  <2>1. DOMAIN signups' = SignupIds
    BY <1>1, <1>2 DEF Typed
  <2>2. \A g \in Slots : Carries(task'[g]) =>
            Carries(task[g]) /\ task'[g].d = task[g].d /\ task'[g].tok = task[g].tok
    BY <1>5, <1>6
  <2>3. \A g \in Slots : task'[g].pc = "ask" => task'[g] = task[g]
    BY <1>5, <1>6
  <2>4. \A c \in Idents :
            \/ idents'[c].token \in {0, idents[c].token}
            \/ /\ h \in Slots /\ Carries(task[h]) /\ ~Carries(task'[h]) /\ c = d /\ d = task[h].d
               /\ idents'[c].token = task[h].tok
    BY <1>0, <1>2, <1>5, <1>6, <1>7
  <2> QED BY <1>1, <1>6, <1>7, <1>8, <1>10, <2>1, <2>2, <2>3, <2>4, Stored
<1>12. OneCheck'
  BY <1>2, <1>5, <1>6, <1>7, ChecksKept
<1> QED BY <1>11, <1>12 DEF TokenInv

LEMMA AbortTokens == ASSUME TokenInv, NEW h \in Slots, Abort(h) PROVE TokenInv'
<1>1. task[h] # Idle /\ UNCHANGED <<setup, idents, signups, tokens, spent, reused>> /\ Done(h)
      /\ lost' = IF task[h].pc = "record" THEN lost \cup Forgone(task[h].d) ELSE lost
  BY DEF Abort, db, counters
<1>2. CASE task[h].pc # "record"
  BY <1>1, <1>2, QuietDone DEF tokenVars
<1>3. CASE task[h].pc = "record"
  <2>1. Typed /\ OneCheck /\ idents \in [Idents -> IdentRow] /\ DOMAIN signups' = SignupIds
    BY <1>1 DEF TokenInv, Typed
  <2>2. DOMAIN task' = Slots /\ task'[h] = Idle /\ \A g \in Slots \ {h} : task'[g] = task[g]
    BY <1>1, <2>1, TaskAfter DEF Done
  <2>3. ~Checks(Idle) /\ ~Carries(Idle) /\ Idle.pc = "idle"
    BY DEF Idle, Checks, Carries
  <2>4. Renewed
    <3>1. ASSUME NEW c, Renews(c)
          PROVE  Renews(c)' \/ \A k : Has("identity", c, k)' => k \notin spent \/ k \in lost'
      <4>1. PICK g \in Slots : task[g].pc = "record" /\ task[g].d = c /\ task[g].tok # 0
        BY <3>1 DEF Renews
      <4>2. CASE g # h
        BY <4>1, <4>2, <2>2 DEF Renews
      <4>3. CASE g = h
        <5>1. ASSUME NEW k, Has("identity", c, k)' PROVE k \in spent => k \in Forgone(c)
          <6>1. k # 0 /\ Rotates(c)
            BY <5>1, <1>1, SameProviders DEF Has
          <6>2. ASSUME NEW f \in Slots, task'[f].pc = "ask", task'[f].d = c PROVE FALSE
            BY <6>2, <4>1, <4>3, <2>2, <2>3, RecordedAlone
          <6>3. idents[c].token = k
            BY <5>1, <6>2, <1>1 DEF Has
          <6> QED BY <6>1, <6>3 DEF Forgone
        <5> QED BY <5>1, <4>1, <4>3, <1>1, <1>3
      <4> QED BY <4>2, <4>3
    <3> QED BY <3>1 DEF Renewed
  <2>5. \A g \in Slots : task'[g] = Idle \/ Whom(task'[g])
    BY <2>1, <2>2 DEF Typed
  <2>6. \A g \in Slots : Carries(task'[g]) =>
            Carries(task[g]) /\ task'[g].d = task[g].d /\ task'[g].tok = task[g].tok
    BY <2>2, <2>3
  <2>7. \A g \in Slots : task'[g].pc = "ask" => task'[g] = task[g]
    BY <2>2, <2>3
  <2>8. Typed' /\ Alone' /\ Issued' /\ Unspent' /\ TokenSpentOnce'
    <3>1. lost \subseteq lost' /\ signups' = signups /\ \A d \in Idents : idents'[d].token \in {0, idents[d].token}
      BY <1>1
    <3>2. idents' \in [Idents -> IdentRow]
      BY <1>1, <2>1
    <3> QED BY <1>1, <2>1, <2>2, <2>4, <2>5, <2>6, <2>7, <3>1, <3>2, Stored
  <2>9. OneCheck'
    BY <1>1, <2>1, <2>2, <2>3, ChecksKept
  <2> QED BY <2>8, <2>9 DEF TokenInv
<1> QED BY <1>2, <1>3

\* No request notices, and no check becomes due that is under way.
LEMMA SurroundingsTokens ==
  ASSUME TokenInv, (\E d \in Idents : \E e \in Range(setup.entries[d]) : ChangeEntry(d, e))
                   \/ (\E d \in Idents : BecomeDue(d)) \/ Expire \/ Purge
  PROVE  TokenInv'
<1>1. Typed /\ OneCheck /\ idents \in [Idents -> IdentRow] /\ DOMAIN signups = SignupIds
  BY DEF TokenInv, Typed
<1>2. ASSUME NEW d \in Idents, NEW e, ChangeEntry(d, e) PROVE TokenInv'
  BY <1>2, StandStill DEF ChangeEntry, Change, db, ghosts, tokenVars
<1>3. UNCHANGED <<setup, tokens, spent, reused, lost, task>>
  BY DEF ChangeEntry, BecomeDue, Expire, Purge, Change, ghosts
<1>4. ASSUME idents' \in [Idents -> IdentRow],
             \A d \in Idents : idents'[d].token \in {0, idents[d].token},
             \A d \in Idents : idents'[d].due => idents[d].due \/ ~Checking(d),
             DOMAIN signups' = SignupIds, \A s \in SignupIds : signups'[s] = Nobody \/ signups'[s] = signups[s]
      PROVE  TokenInv'
  <2>1. Typed' /\ Alone' /\ Issued' /\ Unspent' /\ TokenSpentOnce'
    BY <1>3, <1>4, Dropped
  <2>2. ASSUME NEW g \in Slots, Checks(task[g]) PROVE ~idents'[task[g].d].due
    <3>1. Whom(task[g]) /\ task[g] # Idle /\ task[g].d \in Idents
      BY <2>2, <1>1, Busy DEF Whom, Checks
    <3>2. Checking(task[g].d) /\ ~idents[task[g].d].due
      BY <3>1, <2>2, <1>1 DEF Checking, Checks, OneCheck
    <3> QED BY <3>1, <3>2, <1>4
  <2>3. OneCheck'
    BY <2>2, <1>1, <1>3 DEF OneCheck, Checks
  <2> QED BY <2>1, <2>3 DEF TokenInv
<1>5. ASSUME NEW d \in Idents, BecomeDue(d) PROVE TokenInv'
  <2>1. ~Checking(d) /\ signups' = signups
        /\ (idents' = [idents EXCEPT ![d].due = TRUE] \/ idents' = [idents EXCEPT ![d].due = TRUE, ![d].failing = "long"])
    BY <1>5 DEF BecomeDue
  <2>2. \E f \in {"no", "short", "long"} :
          idents' = [idents EXCEPT ![d] = [token |-> idents[d].token, due |-> TRUE, failing |-> f]]
    BY <2>1, <1>1 DEF IdentRow
  <2>3. PICK f \in {"no", "short", "long"} :
          idents' = [idents EXCEPT ![d] = [token |-> idents[d].token, due |-> TRUE, failing |-> f]]
    BY <2>2
  <2> DEFINE row == [token |-> idents[d].token, due |-> TRUE, failing |-> f]
  <2>4. row \in IdentRow /\ row.token = idents[d].token
    BY <1>1 DEF IdentRow
  <2>5. idents' = [idents EXCEPT ![d] = row]
    BY <2>3
  <2> HIDE DEF row
  <2>6. /\ idents' \in [Idents -> IdentRow]
        /\ \A c \in Idents : idents'[c].token = idents[c].token /\ (c # d => idents'[c] = idents[c])
    BY <2>4, <2>5, <1>1
  <2>7. \A c \in Idents : idents'[c].due => idents[c].due \/ ~Checking(c)
    BY <2>1, <2>6
  <2>8. \A c \in Idents : idents'[c].token \in {0, idents[c].token}
    BY <2>6
  <2>9. DOMAIN signups' = SignupIds /\ \A s \in SignupIds : signups'[s] = Nobody \/ signups'[s] = signups[s]
    BY <2>1, <1>1
  <2> QED BY <2>6, <2>7, <2>8, <2>9, <1>4
<1>6. CASE Expire
  <2>1. idents' = idents
    BY <1>6 DEF Expire
  <2>2. signups' = signups \/ \E s \in SignupIds : signups' = [signups EXCEPT ![s] = Nobody]
    BY <1>6 DEF Expire
  <2>3. DOMAIN signups' = SignupIds /\ \A s \in SignupIds : signups'[s] = Nobody \/ signups'[s] = signups[s]
    BY <2>2, <1>1
  <2> QED BY <2>1, <2>3, <1>1, <1>4
<1>7. CASE Purge
  <2> DEFINE none == [token |-> 0, due |-> FALSE, failing |-> "no"]
  <2>1. none \in IdentRow /\ none.token = 0 /\ none.due = FALSE
    BY DEF IdentRow
  <2>2. idents' = [d \in Idents |-> IF \E row \in RowsOf(users, d) : ~users[row].off THEN idents[d] ELSE none]
    BY <1>1, <1>7 DEF Purge, PurgeIdentities
  <2>3. signups' = signups
    BY <1>7 DEF Purge
  <2> HIDE DEF none
  <2>4. idents' \in [Idents -> IdentRow] /\ \A c \in Idents : idents'[c] = idents[c] \/ idents'[c] = none
    BY <2>1, <2>2, <1>1
  <2> QED BY <2>1, <2>3, <2>4, <1>1, <1>4
<1> QED BY <1>2, <1>5, <1>6, <1>7

-----------------------------------------------------------------------------
(* Asking again *)

\* What an answer makes of the request: nothing to keep, or a token to record.
LEMMA AskTokens == ASSUME TokenInv, NEW h \in Slots, Ask(h) PROVE TokenInv'
<1>0. PICK d, tok : d = task[h].d /\ tok = task[h].tok
  OBVIOUS
<1>1. task[h].pc = "ask" /\ UNCHANGED <<setup, idents, signups>>
  BY DEF Ask, db
<1>2. Typed /\ OneCheck /\ tokens \in Nat /\ Whom(task[h]) /\ d \in Idents /\ tok \in Nat /\ tok # 0
      /\ Checks(task[h]) /\ ~Carries(task[h])
  BY <1>0, <1>1, Busy DEF TokenInv, Typed, Whom, Checks, Carries
<1>3. PICK rot, t : /\ rot \in BOOLEAN /\ Run(h, t)
                    /\ rot => Rotates(d) /\ tokens' = tokens + 1 /\ spent' = spent \cup {tok}
                              /\ (t.pc = "record" => t.tok = tokens + 1) /\ (t.pc # "record" => tok \in lost')
                    /\ ~rot => tokens' = tokens /\ spent' = spent /\ (Rotates(d) => t.tok = 0 \/ t.pc # "record")
                    /\ reused' \subseteq reused \cup (IF Rotates(d) /\ tok \in spent THEN {tok} ELSE {})
                    /\ lost \subseteq lost'
                    /\ DOMAIN t = Fields /\ t.d = d /\ t.op = task[h].op /\ t.tok \in Nat
                    /\ t.pc \in {"end", "failed", "record"}
  <2> DEFINE tk == task[h]
  <2>1. PICK a \in Answers, seen \in BOOLEAN :
             /\ Shown(tk, a, seen)
             /\ Answered(h, Heard(tk, a), IF Rotated(tk, a, seen) THEN tokens + 1
                                          ELSE IF Rotates(tk.d) THEN 0 ELSE tk.tok)
    BY DEF Ask
  <2> DEFINE r == Rotated(tk, a, seen)
             w == IF r THEN tokens + 1 ELSE IF Rotates(tk.d) THEN 0 ELSE tk.tok
             ok == OK(Heard(tk, a))
             again == Again(tk)
  <2>2. w \in Nat /\ (r => Rotates(tk.d) /\ w = tokens + 1) /\ (~r /\ Rotates(tk.d) => w = 0) /\ r \in BOOLEAN
    BY <1>0, <1>2 DEF Rotated
  <2>3. /\ tokens' = IF r THEN tokens + 1 ELSE tokens
        /\ spent' = IF r THEN spent \cup {tk.tok} ELSE spent
        /\ lost' = IF r /\ ~ok THEN lost \cup {tk.tok} ELSE lost
        /\ reused' = IF again /\ seen THEN reused \cup {tk.tok} ELSE reused
        /\ \/ ~ok /\ \E pc \in {"end", "failed"} : Run(h, [tk EXCEPT !.pc = pc])
           \/ ok /\ Run(h, [tk EXCEPT !.pc = "record", !.tok = w, !.long = TRUE])
           \/ ok /\ \E role : Run(h, [tk EXCEPT !.pc = "record", !.tok = w, !.want = role])
    <3>1. /\ tokens' = IF r THEN tokens + 1 ELSE tokens
          /\ spent' = IF r THEN spent \cup {tk.tok} ELSE spent
          /\ lost' = IF r /\ ~ok THEN lost \cup {tk.tok} ELSE lost
          /\ reused' = IF again /\ seen THEN reused \cup {tk.tok} ELSE reused
      BY <2>1 DEF Shown
    <3>2. Answered(h, Heard(tk, a), w)
      BY <2>1
    <3> HIDE DEF w
    <3>3. \/ ~ok /\ \E pc \in {"end", "failed"} : Run(h, [tk EXCEPT !.pc = pc])
          \/ ok /\ Run(h, [tk EXCEPT !.pc = "record", !.tok = w, !.long = TRUE])
          \/ ok /\ \E role : Run(h, [tk EXCEPT !.pc = "record", !.tok = w, !.want = role])
      BY <3>2 DEF Answered, Goto
    <3> QED BY <3>1, <3>3
  <2> HIDE DEF r, w, ok, again
  <2>4. PICK n : /\ Run(h, n) /\ DOMAIN n = Fields /\ n.d = d /\ n.op = tk.op /\ n.tok \in Nat
                 /\ n.pc \in {"end", "failed", "record"} /\ (n.pc = "record" <=> ok) /\ (ok => n.tok = w)
    <3>1. ASSUME NEW n, \/ ~ok /\ \E pc \in {"end", "failed"} : n = [tk EXCEPT !.pc = pc]
                        \/ ok /\ n = [tk EXCEPT !.pc = "record", !.tok = w, !.long = TRUE]
                        \/ ok /\ \E role : n = [tk EXCEPT !.pc = "record", !.tok = w, !.want = role]
          PROVE  /\ DOMAIN n = Fields /\ n.d = d /\ n.op = tk.op /\ n.tok \in Nat
                 /\ n.pc \in {"end", "failed", "record"} /\ (n.pc = "record" <=> ok) /\ (ok => n.tok = w)
      BY <3>1, <2>2, <1>0, <1>2 DEF Whom, Fields
    <3> QED BY <2>3, <3>1
  <2>5. reused' \subseteq reused \cup (IF Rotates(d) /\ tok \in spent THEN {tok} ELSE {})
    BY <1>0, <2>3 DEF again, Again
  <2>6. lost \subseteq lost' /\ (r /\ ~ok => tok \in lost')
    BY <1>0, <2>3
  <2> QED BY <1>0, <2>2, <2>3, <2>4, <2>5, <2>6
<1>4. DOMAIN task' = Slots /\ task'[h] = t /\ \A g \in Slots \ {h} : task'[g] = task[g]
  BY <1>2, <1>3, TaskAfter
<1>5. Whom(t) /\ Checks(t) /\ t.pc # "ask"
  <2>1. t.op # "signin"
    BY <1>2, <1>3 DEF Whom
  <2> QED BY <1>2, <1>3, <2>1 DEF Whom, Checks, Carries
<1>6. tokens' \in Nat /\ tokens' >= tokens
  BY <1>2, <1>3
<1>7. Typed'
  <2>1. \A g \in Slots : task'[g] = Idle \/ Whom(task'[g])
    BY <1>2, <1>4, <1>5 DEF Typed
  <2> QED BY <1>1, <1>2, <1>4, <1>6, <2>1 DEF Typed, SetupOK, Whom, Carries, Checks
<1>8. ASSUME NEW w, NEW x, NEW k, Has(w, x, k)'
      PROVE \/ Has(w, x, k)
            \/ w = "request" /\ x = h /\ k = tokens + 1 /\ tokens' = tokens + 1
  <2>0. \A e : Rotates(e)' <=> Rotates(e)
    BY <1>1, SameProviders
  <2>1. CASE w = "identity"
    <3>1. \A g \in Slots : task'[g].pc = "ask" => task'[g] = task[g]
      BY <1>4, <1>5
    <3> QED BY <2>1, <3>1, <2>0, <1>1, <1>8 DEF Has
  <2>2. CASE w = "signup"
    BY <2>2, <2>0, <1>1, <1>8 DEF Has
  <2>3. CASE w = "request"
    <3>1. x \in Slots /\ Carries(task'[x]) /\ Rotates(task'[x].d) /\ task'[x].tok = k /\ k # 0
      BY <2>3, <2>0, <1>8 DEF Has, Carries
    <3>2. CASE x = h
      <4>1. t.pc = "record"
        BY <3>1, <3>2, <1>3, <1>4 DEF Carries
      <4> QED BY <3>1, <3>2, <4>1, <2>3, <1>3, <1>4
    <3>3. CASE x # h
      BY <3>1, <3>3, <2>3, <1>4 DEF Has
    <3> QED BY <3>2, <3>3
  <2> QED BY <2>1, <2>2, <2>3, <1>8 DEF Has
<1>9. GoesTo("request", h, "request", h)
  BY <1>8 DEF GoesTo
<1>10. \A e : Renews(e) => Renews(e)'
  BY <1>1, <1>4, StillRenews
<1>11. Rotates(d) => Has("identity", d, tok)
  BY <1>0, <1>1, <1>2 DEF Has
<1>12. Rotates(d) /\ tok \in spent => tok \in lost
  <2>1. ~Renews(d)
    <3>1. ASSUME NEW g \in Slots, task[g].pc = "record", task[g].d = d PROVE FALSE
      BY <3>1, <1>0, <1>1, RecordedAlone
    <3> QED BY <3>1 DEF Renews
  <2> QED BY <2>1, <1>11 DEF TokenInv, Unspent
<1>13. TokenSpentOnce'
  BY <1>1, <1>3, <1>12 DEF TokenInv, TokenSpentOnce
<1>14. OneCheck'
  BY <1>0, <1>1, <1>2, <1>3, <1>4, ChecksKept
<1>15. CASE ~rot
  <2>1. reused' \subseteq reused \cup lost /\ spent' = spent /\ lost \subseteq lost'
    BY <1>1, <1>3, <1>12, <1>15
  <2>2. Renewed
    BY <1>10 DEF Renewed
  <2>3. Alone' /\ Issued' /\ Unspent'
    BY <2>1, <2>2, <1>2, <1>6, <1>9, PassedOn DEF TokenInv
  <2> QED BY <2>3, <1>7, <1>13, <1>14 DEF TokenInv
<1>16. CASE rot
  <2>1. Alone' /\ \A w, x, k : Has(w, x, k)' => k \in 1..tokens'
    BY <1>2, <1>6, <1>9, StillAlone DEF TokenInv
  <2>2. tok \in 1..tokens /\ spent \subseteq 1..tokens
    BY <1>3, <1>11, <1>16 DEF TokenInv, Issued
  <2>3. spent' \subseteq 1..tokens' /\ tokens + 1 \notin spent'
    <3>1. spent' = spent \cup {tok} /\ tokens' = tokens + 1
      BY <1>3, <1>16
    <3>2. \A k \in spent : k \in 1..tokens
      BY <2>2
    <3>3. \A k \in spent' : k \in 1..tokens
      BY <3>1, <3>2, <2>2
    <3>4. \A k \in 1..tokens : k \in 1..(tokens + 1) /\ k # tokens + 1
      BY <1>2
    <3> QED BY <3>1, <3>3, <3>4
  <2>4. Issued'
    BY <2>1, <2>3 DEF Issued
  <2>5. Renews(d)' \/ tok \in lost'
    BY <1>2, <1>3, <1>4, <1>16 DEF Renews
  <2>6. ASSUME NEW w, NEW x, NEW k, Has(w, x, k)', k \in spent' PROVE w = "identity" /\ (k \in lost' \/ Renews(x)')
    <3>1. Has(w, x, k)
      BY <2>3, <2>6, <1>8
    <3>2. CASE k = tok
      <4>1. w = "identity" /\ x = d
        BY <3>1, <3>2, <1>3, <1>11, <1>16 DEF TokenInv, Alone
      <4> QED BY <4>1, <3>2, <2>5
    <3>3. CASE k \in spent
      <4>1. w = "identity" /\ (k \in lost \/ Renews(x))
        BY <3>1, <3>3 DEF TokenInv, Unspent
      <4> QED BY <4>1, <1>3, <1>10
    <3> QED BY <3>2, <3>3, <2>6, <1>3, <1>16
  <2>7. Unspent'
    BY <2>6 DEF Unspent
  <2> QED BY <2>1, <2>4, <2>7, <1>7, <1>13, <1>14 DEF TokenInv
<1> QED BY <1>3, <1>15, <1>16

-----------------------------------------------------------------------------
LEMMA InitTokens == Init => TokenInv
<1> SUFFICES ASSUME Init PROVE TokenInv
  OBVIOUS
<1>1. PICK s \in Setups :
         /\ setup = [providers |-> s.providers, entries |-> s.entries, starts |-> s.starts,
                     routes |-> s.routes, maxStarts |-> s.maxStarts]
         /\ idents = s.idents /\ tokens = s.tokens
  BY DEF Init
<1>2. tokens \in Nat /\ IdentsOK(Providers, idents, tokens)
  BY <1>1, SignInAssumption DEF Providers
<1>3. Idle.pc = "idle" /\ DOMAIN task = Slots /\ \A h \in Slots : task[h] = Idle
  BY DEF Init, Idle
<1>4. signups = [n \in SignupIds |-> Nobody] /\ spent = {} /\ reused = {}
  BY DEF Init
<1>5. Typed
  BY <1>1, <1>2, <1>3, <1>4 DEF Typed, SetupOK, IdentsOK
<1>6. \A w, x, k : Has(w, x, k) => w = "identity" /\ x \in Idents /\ Rotates(x) /\ idents[x].token = k /\ k # 0
  BY <1>3, <1>4 DEF Has, Carries
<1>7. Alone
  BY <1>2, <1>6 DEF Alone, IdentsOK, Rotates
<1>8. \A d \in Idents : idents[d].token \in Nat
  BY <1>2 DEF IdentsOK, IdentRow
<1>9. Issued
  BY <1>2, <1>4, <1>6, <1>8 DEF Issued, IdentsOK, Rotates
<1>10. Unspent /\ OneCheck /\ TokenSpentOnce
  BY <1>3, <1>4 DEF Unspent, OneCheck, TokenSpentOnce, Checks
<1> QED BY <1>5, <1>7, <1>9, <1>10 DEF TokenInv

LEMMA NextTokens == TokenInv /\ [Next]_vars => TokenInv'
<1> SUFFICES ASSUME TokenInv, [Next]_vars PROVE TokenInv'
  OBVIOUS
<1>1. ASSUME NEW p, NEW cli, Login(p, cli) PROVE TokenInv'
  BY <1>1, StandStill DEF Login, tokenVars, ghosts
<1>2. ASSUME NEW h \in Slots, Start(h) PROVE TokenInv'
  BY <1>2, CallbackTokens, PasswordTokens, CliTokenTokens, SignUpTokens, RequestTokens, KeyRequestTokens,
     LocalLoginTokens DEF Start
<1>3. ASSUME NEW h \in Slots, Step(h) PROVE TokenInv'
  BY <1>3, ExchangeTokens, AuthenticateTokens, PlaceTokens, RememberTokens, ClaimTokens, AskTokens,
     FailedTokens, EndLinkTokens, RecordTokens, PlainSteps DEF Step
<1>4. ASSUME NEW h \in Slots, Abort(h) PROVE TokenInv'
  BY <1>4, AbortTokens
<1>5. CASE Surroundings
  BY <1>5, SurroundingsTokens DEF Surroundings
<1>6. CASE UNCHANGED vars
  BY <1>6, StandStill DEF vars, db, ghosts, counters, tokenVars
<1> QED BY <1>1, <1>2, <1>3, <1>4, <1>5, <1>6 DEF Next

LEMMA TokensHold == Spec => []TokenInv
<1> QED BY InitTokens, NextTokens, PTL DEF Spec

(* A rotating provider sees a refresh token once, for any people, directories *)
(* and requests at once, unless the token it gave instead was lost: the       *)
(* answer failed a check or came too late, or the row was not written         *)
(* (checkDirectory, control/directory.go).                                    *)
THEOREM SignInTokenSpentOnce == Spec => []TokenSpentOnce
<1>1. TokenInv => TokenSpentOnce
  BY DEF TokenInv
<1> QED BY <1>1, TokensHold, PTL

-----------------------------------------------------------------------------
(* Whose sign-ins they are *)

\* The row is there and d has taken it.
Own(row, d) == row \in Rows /\ Exists(users, row) /\ users[row].ext = d

\* Where a request of each kind can be.
Places(op) ==
  CASE op = "signin"  -> {"exchange", "password", "take", "place", "link", "sync", "others", "each",
                          "remember", "ttl", "session", "code"}
    [] op = "redeem"  -> {"ttl", "token"}
    [] op = "local"   -> {"sync", "ttl", "session", "code"}
    [] op = "create"  -> {"remember", "ttl", "session", "code"}
    [] op = "join"    -> {"remember", "sync", "ttl", "session", "code"}
    [] op = "request" -> {"claim", "ask", "failed", "end", "record", "sync", "others", "each", "route",
                          "target", "carry", "move", "role", "disable", "enable",
                          "sessions", "codes", "tokens"}
    [] op = "key"     -> {"route", "role", "disable", "enable", "sessions", "codes", "tokens"}
    [] OTHER          -> {}

\* The requests that have yet to find the row they are about.
Early == {"exchange", "password", "take", "place", "link"}

\* What a request under way knows of the person it is about.
Knows(t) ==
  /\ t.d \in ExternalIDs /\ t.want \in Roles /\ t.role \in Roles /\ t.long \in BOOLEAN
  /\ t.pc \in Places(t.op)
  /\ t.via = "key" <=> t.op = "key"
  /\ t.pc \in {"take", "place", "link"} => t.mail \in Emails
  /\ t.pc = "link" => OrgOf(t.row) \in orgs
  /\ t.op # "key" /\ t.pc \notin Early => Own(t.row, t.d)

\* What it knows of what it was asked for.
Asked(t) ==
  /\ t.op \in {"request", "key"} /\ t.pc \notin {"target", "carry", "move"} => RouteOK(t.arg)
  /\ t.pc \in {"role", "disable", "enable"} => t.arg.op = t.pc /\ Exists(users, t.arg.row)
  /\ t.pc = "role" => Assignable(t.arg.role)
  /\ t.pc = "target" => t.arg.invited \/ Own(t.arg.to, t.d)
  /\ t.pc \in {"carry", "move"} => Own(t.arg.to, t.d)
  /\ t.pc \in {"sessions", "codes", "tokens"} => t.arg.op # "everywhere" \/ t.op # "key"
  /\ t.pc = "each" => \A r \in DOMAIN t.rest : Own(r, t.d) /\ t.rest[r] \in Roles

\* Of its credential: the one it came with, or the code it redeems.
Came(t) ==
  /\ t.op = "request" => /\ t.flow \in CredIds /\ creds[t.flow] # Unused
                         /\ Live(creds, t.flow) => creds[t.flow].who = t.d /\ creds[t.flow].kind # "code"
  /\ t.op = "redeem" => t.flow \in CredIds /\ creds[t.flow] = Ended /\ t.flow \notin over

\* No code has become, or becomes, a token and is also what a request came with.
Redeemed(f) == \/ \E i \in CredIds : Live(creds, i) /\ creds[i].from = f
               \/ \E h \in Slots : task[h] # Idle /\ task[h].op = "redeem" /\ task[h].flow = f

SignedIn ==
  /\ UsersOK(users, orgs) /\ CredsOK(users, creds)
  /\ over \subseteq {i \in CredIds : creds[i] = Ended}
  /\ \A i \in CredIds : Live(creds, i) => creds[i].from \notin over

Kept ==
  /\ \A s \in SignupIds : signups[s] # Nobody => signups[s].mail \in Emails /\ signups[s].want \in Roles
  /\ \A d \in Idents : dir[d] \in Range(setup.entries[d])

Fine(t) == Knows(t) /\ Asked(t) /\ Came(t)

\* A request under way.
Good(h) == Fine(task[h]) /\ (task[h].op = "request" => ~Redeemed(task[h].flow))

SignInv == SignedIn /\ Kept /\ \A h \in Slots : task[h] # Idle => Good(h)

-----------------------------------------------------------------------------
(* The statements of Accounts *)

UserTable == [Rows -> UserRow \cup {NoRow}]

\* Rows stay, and so does whoever has taken one.
Grows(us, vs) ==
  /\ vs \in UserTable
  /\ \A row \in Rows : Exists(us, row) =>
       Exists(vs, row) /\ (us[row].ext # NoExt => vs[row].ext = us[row].ext)

\* At most this row is new, and it gets this role; the others keep theirs.
MakesOne(us, vs, new, role) ==
  \A row \in Rows :
    /\ Exists(us, row) => vs[row].role = us[row].role
    /\ Exists(vs, row) /\ ~Exists(us, row) => row = new /\ vs[row].role = role
    /\ Exists(vs, row) /\ Exists(us, row) /\ vs[row].ext = NoExt => us[row].ext = NoExt

LEMMA RowFacts ==
  /\ NoRow \notin UserRow /\ NoExt \notin ExternalIDs
  /\ \A us \in UserTable : \A row \in Rows : Exists(us, row) => us[row] \in UserRow
  /\ \A o \in Orgs, e \in Emails : <<o, e>> \in Rows /\ OrgOf(<<o, e>>) = o
  /\ \A row \in Rows : OrgOf(row) \in Orgs
<1>1. NoRow \notin UserRow /\ NoExt \notin ExternalIDs
  BY SignInAssumption
<1>2. \A us \in UserTable : \A row \in Rows : Exists(us, row) => us[row] \in UserRow
  BY DEF UserTable, Exists
<1>3. /\ \A o \in Orgs, e \in Emails : <<o, e>> \in Rows /\ OrgOf(<<o, e>>) = o
      /\ \A row \in Rows : OrgOf(row) \in Orgs
  BY DEF Rows, OrgOf
<1> QED BY <1>1, <1>2, <1>3

\* The row somebody takes.
LEMMA Takes ==
  ASSUME NEW us \in UserTable, NEW row \in Rows, NEW ext \in ExternalIDs,
         Exists(us, row), us[row].ext = NoExt
  PROVE  LET vs == [us EXCEPT ![row].ext = ext]
         IN  Grows(us, vs) /\ Exists(vs, row) /\ vs[row].ext = ext
             /\ \A new, role : MakesOne(us, vs, new, role)
<1> DEFINE vs == [us EXCEPT ![row].ext = ext]
<1>1. us[row] \in UserRow /\ NoRow \notin UserRow /\ NoExt \notin ExternalIDs
  BY RowFacts
<1>2. [us[row] EXCEPT !.ext = ext] \in UserRow
  BY <1>1 DEF UserRow
<1>3. vs \in UserTable /\ vs[row] = [us[row] EXCEPT !.ext = ext]
      /\ \A r \in Rows : r # row => vs[r] = us[r]
  BY <1>2 DEF UserTable
<1>4. vs[row].ext = ext /\ vs[row].role = us[row].role
  BY <1>3, <1>1 DEF UserRow
<1>5. Exists(vs, row)
  BY <1>1, <1>2, <1>3 DEF Exists
<1>6. Grows(us, vs)
  BY <1>3, <1>4, <1>5 DEF Grows, Exists
<1>7. \A new, role : MakesOne(us, vs, new, role)
  BY <1>1, <1>3, <1>4, <1>5 DEF MakesOne, Exists
<1> QED BY <1>4, <1>5, <1>6, <1>7

\* The row somebody makes.
LEMMA Makes ==
  ASSUME NEW us \in UserTable, NEW row \in Rows, NEW u \in UserRow, ~Exists(us, row)
  PROVE  LET vs == [us EXCEPT ![row] = u]
         IN  Grows(us, vs) /\ Exists(vs, row) /\ vs[row] = u /\ MakesOne(us, vs, row, u.role)
<1> DEFINE vs == [us EXCEPT ![row] = u]
<1>1. NoRow \notin UserRow
  BY RowFacts
<1>2. vs \in UserTable /\ vs[row] = u /\ \A r \in Rows : r # row => vs[r] = us[r]
  BY DEF UserTable
<1>3. Exists(vs, row)
  BY <1>1, <1>2 DEF Exists
<1>4. Grows(us, vs)
  BY <1>2, <1>3 DEF Grows, Exists
<1>5. MakesOne(us, vs, row, u.role)
  BY <1>2, <1>3 DEF MakesOne, Exists
<1> QED BY <1>2, <1>3, <1>4, <1>5

LEMMA ANewUser ==
  ASSUME NEW email \in Emails, NEW ext \in ExternalIDs \cup {NoExt}, NEW role \in Roles
  PROVE  LET u == User(email, ext, role) IN u \in UserRow /\ u.ext = ext /\ u.role = role
BY DEF User, UserRow

\* FollowDirectory changes addresses.
LEMMA Follows ==
  ASSUME NEW us \in UserTable, NEW ext, NEW email \in Emails,
         NEW res, res = FollowDirectory(us, ext, email), OK(res)
  PROVE  /\ Grows(us, res.users)
         /\ \A row \in Rows : Exists(us, row) => res.users[row].ext = us[row].ext
         /\ \A new, role : MakesOne(us, res.users, new, role)
<1> DEFINE vs == [row \in Rows |-> IF row \in RowsOf(us, ext)
                                   THEN [us[row] EXCEPT !.email = email] ELSE us[row]]
<1>1. res.users = vs
  BY DEF FollowDirectory, OK, Refused
<1>2. NoRow \notin UserRow
  BY RowFacts
<1>3. ASSUME NEW row \in Rows
      PROVE  /\ Exists(us, row) => vs[row] \in UserRow /\ vs[row].ext = us[row].ext
                                   /\ vs[row].role = us[row].role
             /\ ~Exists(us, row) => vs[row] = us[row]
  <2>1. CASE row \in RowsOf(us, ext)
    <3>1. Exists(us, row) /\ us[row] \in UserRow
      BY <2>1, RowFacts DEF RowsOf
    <3>2. vs[row] = [us[row] EXCEPT !.email = email]
      BY <2>1
    <3> QED BY <3>1, <3>2 DEF UserRow
  <2>2. CASE row \notin RowsOf(us, ext)
    <3>1. vs[row] = us[row]
      BY <2>2
    <3> QED BY <3>1, RowFacts
  <2> QED BY <2>1, <2>2
<1> HIDE DEF vs
<1>4. vs = [row \in Rows |-> vs[row]]
  BY DEF vs
<1>5. vs \in UserTable
  <2>1. \A row \in Rows : vs[row] \in UserRow \cup {NoRow}
    BY <1>3 DEF Exists
  <2> QED BY <2>1, <1>4 DEF UserTable
<1>6. \A row \in Rows : Exists(us, row) => Exists(vs, row)
  BY <1>2, <1>3 DEF Exists
<1>7. \A row \in Rows : ~Exists(us, row) => ~Exists(vs, row)
  BY <1>3 DEF Exists
<1>8. Grows(us, vs)
  BY <1>3, <1>5, <1>6 DEF Grows
<1>9. \A new, role : MakesOne(us, vs, new, role)
  BY <1>3, <1>6, <1>7 DEF MakesOne
<1> QED BY <1>1, <1>3, <1>8, <1>9

LEMMA Taken ==
  ASSUME NEW us \in UserTable, NEW org, NEW email, NEW ext \in ExternalIDs,
         NEW res, res = TakeInvitation(us, org, email, ext), OK(res)
  PROVE  /\ Grows(us, res.users)
         /\ res.row \in Rows /\ Exists(us, res.row) /\ Exists(res.users, res.row)
         /\ res.users[res.row].ext = ext
         /\ \A new, role : MakesOne(us, res.users, new, role)
<1> DEFINE inv == {row \in At(us, org, email) : Invited(us, row, email)}
           row == CHOOSE r \in inv : TRUE
<1>1. inv # {} /\ res = [row |-> row, users |-> [us EXCEPT ![row].ext = ext]]
  BY DEF TakeInvitation, OK, Refused
<1>2. row \in inv
  BY <1>1
<1>3. row \in Rows /\ Exists(us, row) /\ us[row].ext = NoExt
  BY <1>2 DEF At, Invited, Enabled
<1> HIDE DEF inv, row
<1> DEFINE vs == [us EXCEPT ![row].ext = ext]
<1>4. Grows(us, vs) /\ Exists(vs, row) /\ vs[row].ext = ext /\ \A new, role : MakesOne(us, vs, new, role)
  BY <1>3, Takes
<1>5. res.row = row /\ res.users = vs
  BY <1>1
<1> HIDE DEF vs
<1> QED BY <1>3, <1>4, <1>5

LEMMA Linked ==
  ASSUME NEW us \in UserTable, NEW org \in Orgs, NEW email \in Emails, NEW ext \in ExternalIDs,
         NEW role \in Roles, NEW res, res = LinkUser(us, org, email, ext, role), OK(res)
  PROVE  /\ Grows(us, res.users)
         /\ res.row \in Rows /\ OrgOf(res.row) = org
         /\ Exists(res.users, res.row) /\ res.users[res.row].ext = ext
         /\ MakesOne(us, res.users, res.row, role)
         /\ HasExt(us, org, ext) => Exists(us, res.row)
<1> DEFINE mine == {row \in RowsOf(us, ext) : OrgOf(row) = org}
           at   == At(us, org, email)
           me   == CHOOSE r \in mine : TRUE
           new  == FollowDirectory(us, ext, email)
           inv  == CHOOSE r \in at : TRUE
           made == <<org, email>>
<1>0. /\ mine # {} => res = (IF us[me].email = email THEN [row |-> me, users |-> us]
                             ELSE IF OK(new) THEN [row |-> me, users |-> new.users] ELSE new)
      /\ mine = {} /\ at # {} => res = (IF us[inv].ext # NoExt THEN Refused("taken")
                                        ELSE [row |-> inv, users |-> [us EXCEPT ![inv].ext = ext]])
      /\ mine = {} /\ at = {} => res = (IF Exists(us, made) THEN Refused("bound")
                                        ELSE [row |-> made,
                                              users |-> [us EXCEPT ![made] = User(email, ext, role)]])
  BY DEF LinkUser
<1>1. ~OK(Refused("taken")) /\ ~OK(Refused("bound"))
  BY DEF OK, Refused
<1>2. CASE mine # {}
  <2>1. me \in mine
    BY <1>2
  <2>2. me \in Rows /\ Exists(us, me) /\ us[me].ext = ext /\ OrgOf(me) = org
    BY <2>1 DEF RowsOf
  <2> HIDE DEF mine, me
  <2>3. CASE us[me].email = email
    <3>1. res.row = me /\ res.users = us
      BY <1>0, <1>2, <2>3
    <3>2. Grows(us, us) /\ MakesOne(us, us, me, role)
      BY DEF Grows, MakesOne
    <3> QED BY <2>2, <3>1, <3>2
  <2>4. CASE us[me].email # email
    <3>1. OK(new) /\ res.row = me /\ res.users = new.users
      BY <1>0, <1>2, <2>4
    <3>2. PICK n : n = new
      OBVIOUS
    <3>3. /\ Grows(us, n.users) /\ n.users[me].ext = us[me].ext
          /\ MakesOne(us, n.users, me, role)
      BY <3>1, <3>2, <2>2, Follows
    <3>4. Exists(n.users, me)
      BY <3>3, <2>2 DEF Grows
    <3> QED BY <2>2, <3>1, <3>2, <3>3, <3>4
  <2> QED BY <2>3, <2>4
<1>3. CASE mine = {}
  <2>1. ~HasExt(us, org, ext)
    BY <1>3 DEF HasExt
  <2>2. CASE at # {}
    <3>1. inv \in at
      BY <2>2
    <3>2. inv \in Rows /\ Exists(us, inv) /\ OrgOf(inv) = org
      BY <3>1 DEF At
    <3> HIDE DEF at, inv, mine
    <3>3. us[inv].ext = NoExt /\ res = [row |-> inv, users |-> [us EXCEPT ![inv].ext = ext]]
      BY <1>0, <1>1, <1>3, <2>2
    <3> DEFINE vs == [us EXCEPT ![inv].ext = ext]
    <3>4. Grows(us, vs) /\ Exists(vs, inv) /\ vs[inv].ext = ext /\ MakesOne(us, vs, inv, role)
      BY <3>2, <3>3, Takes
    <3>5. res.row = inv /\ res.users = vs
      BY <3>3
    <3> HIDE DEF vs
    <3> QED BY <2>1, <3>2, <3>4, <3>5
  <2>3. CASE at = {}
    <3> DEFINE u == User(email, ext, role)
               vs == [us EXCEPT ![made] = u]
    <3>1. ~Exists(us, made) /\ res = [row |-> made, users |-> vs]
      BY <1>0, <1>1, <1>3, <2>3
    <3>2. made \in Rows /\ OrgOf(made) = org
      BY RowFacts
    <3>3. u \in UserRow /\ u.ext = ext /\ u.role = role
      BY ANewUser
    <3> HIDE DEF made, u
    <3>4. Grows(us, vs) /\ Exists(vs, made) /\ vs[made] = u /\ MakesOne(us, vs, made, u.role)
      BY <3>1, <3>2, <3>3, Makes
    <3>5. res.row = made /\ res.users = vs
      BY <3>1
    <3> HIDE DEF vs
    <3> QED BY <2>1, <3>2, <3>3, <3>4, <3>5
  <2> QED BY <2>2, <2>3
<1> QED BY <1>2, <1>3

\* A row that is not there changes nothing.
LEMMA Added ==
  ASSUME NEW us \in UserTable, NEW org \in Orgs, NEW email, NEW ext \in ExternalIDs \cup {NoExt},
         NEW role \in Roles, NEW res, res = AddUser(us, org, email, ext, role), OK(res)
  PROVE  Grows(us, res.users) /\ MakesOne(us, res.users, <<org, email>>, role)
<1> DEFINE u == User(email, ext, role)
           made == <<org, email>>
           vs == [us EXCEPT ![made] = u]
<1>1. ~Exists(us, made) /\ res.users = vs
  BY DEF AddUser, OK, Refused
<1>2. CASE email \in Emails
  <2>1. made \in Rows /\ u \in UserRow /\ u.role = role
    BY <1>2, RowFacts, ANewUser
  <2> HIDE DEF made, u
  <2>2. Grows(us, vs) /\ MakesOne(us, vs, made, u.role)
    BY <1>1, <2>1, Makes
  <2> QED BY <1>1, <2>1, <2>2 DEF made
<1>3. CASE email \notin Emails
  <2>1. made \notin Rows
    BY <1>3 DEF Rows
  <2>2. DOMAIN us = Rows
    BY DEF UserTable
  <2> HIDE DEF made, u
  <2>3. vs = us
    BY <2>1, <2>2 DEF UserTable
  <2>4. Grows(us, us) /\ \A new : MakesOne(us, us, new, role)
    BY DEF Grows, MakesOne
  <2> QED BY <1>1, <2>3, <2>4 DEF made
<1> QED BY <1>2, <1>3

\* Roles and the switch change nothing else of a row.
LEMMA SetsRole ==
  ASSUME NEW us \in UserTable, NEW row \in Rows, Exists(us, row), NEW role \in Roles
  PROVE  LET vs == SetUserRole(us, row, role)
         IN  /\ Grows(us, vs) /\ vs[row].role = role
             /\ \A r \in Rows : /\ r # row => vs[r] = us[r]
                                /\ Exists(vs, r) => Exists(us, r) /\ vs[r].ext = us[r].ext
<1> DEFINE vs == SetUserRole(us, row, role)
<1>1. us[row] \in UserRow /\ NoRow \notin UserRow
  BY RowFacts
<1>2. [us[row] EXCEPT !.role = role] \in UserRow
  BY <1>1 DEF UserRow
<1>3. vs \in UserTable /\ vs[row] = [us[row] EXCEPT !.role = role] /\ \A r \in Rows : r # row => vs[r] = us[r]
  BY <1>2 DEF UserTable, SetUserRole
<1>4. vs[row].ext = us[row].ext /\ vs[row].role = role
  BY <1>3, <1>1 DEF UserRow
<1>5. Exists(vs, row)
  BY <1>1, <1>2, <1>3 DEF Exists
<1> HIDE DEF vs
<1>6. Grows(us, vs)
  BY <1>3, <1>4, <1>5 DEF Grows, Exists
<1>7. \A r \in Rows : Exists(vs, r) => Exists(us, r) /\ vs[r].ext = us[r].ext
  BY <1>3, <1>4 DEF Exists
<1> QED BY <1>3, <1>4, <1>6, <1>7 DEF vs

LEMMA Switches ==
  ASSUME NEW us \in UserTable, NEW row \in Rows, Exists(us, row), NEW off \in BOOLEAN
  PROVE  LET vs == [us EXCEPT ![row].off = off]
         IN  /\ Grows(us, vs)
             /\ \A r \in Rows : Exists(vs, r) =>
                  Exists(us, r) /\ vs[r].ext = us[r].ext /\ vs[r].role = us[r].role
<1> DEFINE vs == [us EXCEPT ![row].off = off]
<1>1. us[row] \in UserRow /\ NoRow \notin UserRow
  BY RowFacts
<1>2. [us[row] EXCEPT !.off = off] \in UserRow
  BY <1>1 DEF UserRow
<1>3. vs \in UserTable /\ vs[row] = [us[row] EXCEPT !.off = off] /\ \A r \in Rows : r # row => vs[r] = us[r]
  BY <1>2 DEF UserTable
<1>4. vs[row].ext = us[row].ext /\ vs[row].role = us[row].role
  BY <1>3, <1>1 DEF UserRow
<1>5. Exists(vs, row)
  BY <1>1, <1>2, <1>3 DEF Exists
<1> HIDE DEF vs
<1>6. Grows(us, vs)
  BY <1>3, <1>4, <1>5 DEF Grows, Exists
<1>7. \A r \in Rows : Exists(vs, r) => Exists(us, r) /\ vs[r].ext = us[r].ext /\ vs[r].role = us[r].role
  BY <1>3, <1>4 DEF Exists
<1> QED BY <1>6, <1>7 DEF vs

-----------------------------------------------------------------------------
(* What a step leaves true *)

CredTable == [CredIds -> CredRow \cup {Unused, Ended}]

LEMMA CredFacts ==
  /\ Unused # Ended
  /\ \A cs \in CredTable : \A i \in CredIds : Live(cs, i) <=> cs[i] \in CredRow
  /\ \A cs \in CredTable : \A i \in CredIds : cs[i] = Ended => ~Live(cs, i)
  /\ 0 \notin CredIds
<1>1. Unused # Ended /\ Unused \notin CredRow /\ Ended \notin CredRow /\ CredIds \subseteq Nat \ {0}
  BY SignInAssumption
<1>2. \A cs \in CredTable : \A i \in CredIds : cs[i] \in CredRow \cup {Unused, Ended}
  BY DEF CredTable
<1> QED BY <1>1, <1>2 DEF Live

\* Credentials end, and until then keep what they are.
Ages(cs, es) == \A i \in CredIds :
  /\ cs[i] = Ended => es[i] = Ended
  /\ Live(cs, i) => \/ es[i] = Ended
                    \/ Live(es, i) /\ es[i].who = cs[i].who /\ es[i].kind = cs[i].kind
                                   /\ es[i].from = cs[i].from

\* What has ended besides was no code that became a token.
Endings == over' \subseteq over \cup {i \in CredIds : ~Redeemed(i)}

\* What is redeemed besides was a code.
Redeems == \A f \in CredIds : Redeemed(f)' => Redeemed(f) \/ (Live(creds, f) /\ creds[f].kind = "code")

LEMMA FineStays ==
  ASSUME NEW t, Fine(t), Grows(users, users'), orgs \subseteq orgs', Ages(creds, creds'),
         creds \in CredTable, creds' \in CredTable, t.op = "redeem" => t.flow \notin over'
  PROVE  Fine(t)'
<1>1. ASSUME NEW row, NEW d \in ExternalIDs, Own(row, d) PROVE Own(row, d)'
  BY <1>1, RowFacts DEF Own, Grows
<1>2. t.d \in ExternalIDs
  BY DEF Fine, Knows
<1>3. Knows(t)'
  BY <1>1, <1>2 DEF Fine, Knows
<1>4. t.pc \in {"role", "disable", "enable"} => t.arg.op = t.pc /\ Exists(users, t.arg.row)'
  <2>1. SUFFICES ASSUME t.pc \in {"role", "disable", "enable"} PROVE t.arg.op = t.pc /\ Exists(users, t.arg.row)'
    OBVIOUS
  <2>2. t.arg.op = t.pc /\ Exists(users, t.arg.row)
    BY <2>1 DEF Fine, Asked
  <2>3. t.op \in {"request", "key"} => RouteOK(t.arg)
    BY <2>1 DEF Fine, Asked
  <2>4. t.op \in {"request", "key"}
    BY <2>1 DEF Fine, Knows, Places
  <2>5. t.arg.row \in Rows
    BY <2>1, <2>2, <2>3, <2>4 DEF RouteOK
  <2> QED BY <2>2, <2>5 DEF Grows
<1>5. Asked(t)'
  BY <1>1, <1>2, <1>4 DEF Fine, Asked
<1>6. t.op = "request" => /\ t.flow \in CredIds /\ creds'[t.flow] # Unused
                          /\ Live(creds', t.flow) => creds'[t.flow].who = t.d /\ creds'[t.flow].kind # "code"
  <2>1. SUFFICES ASSUME t.op = "request"
                 PROVE /\ t.flow \in CredIds /\ creds'[t.flow] # Unused
                       /\ Live(creds', t.flow) => creds'[t.flow].who = t.d /\ creds'[t.flow].kind # "code"
    OBVIOUS
  <2>2. /\ t.flow \in CredIds /\ creds[t.flow] # Unused
        /\ Live(creds, t.flow) => creds[t.flow].who = t.d /\ creds[t.flow].kind # "code"
    BY <2>1 DEF Fine, Came
  <2>3. CASE creds[t.flow] = Ended
    BY <2>2, <2>3, CredFacts DEF Ages
  <2>4. CASE Live(creds, t.flow)
    <3>1. \/ creds'[t.flow] = Ended
          \/ Live(creds', t.flow) /\ creds'[t.flow].who = t.d /\ creds'[t.flow].kind # "code"
      BY <2>2, <2>4 DEF Ages
    <3> QED BY <2>2, <3>1, CredFacts DEF Live
  <2> QED BY <2>2, <2>3, <2>4 DEF Live
<1>7. t.op = "redeem" => t.flow \in CredIds /\ creds'[t.flow] = Ended /\ t.flow \notin over'
  BY DEF Fine, Came, Ages
<1>8. Came(t)'
  BY <1>6, <1>7 DEF Came, Live
<1> QED BY <1>3, <1>5, <1>8 DEF Fine

LEMMA OthersStay ==
  ASSUME SignInv, NEW g \in Slots, task[g] # Idle, task'[g] = task[g],
         Grows(users, users'), orgs \subseteq orgs', Ages(creds, creds'), creds' \in CredTable, Endings, Redeems
  PROVE  Good(g)'
<1>1. PICK t : t = task[g]
  OBVIOUS
<1>2. Fine(t) /\ (t.op = "request" => ~Redeemed(t.flow)) /\ creds \in CredTable
  BY <1>1 DEF SignInv, Good, SignedIn, CredsOK, CredTable
<1>3. t.op = "redeem" => t.flow \notin over' /\ t.flow \in CredIds
  <2>1. t.op = "redeem" => t.flow \notin over /\ Redeemed(t.flow) /\ t.flow \in CredIds
    BY <1>1, <1>2 DEF Fine, Came, Redeemed
  <2> QED BY <2>1 DEF Endings
<1>4. Fine(t)'
  BY <1>2, <1>3, FineStays
<1>5. t.op = "request" => ~Redeemed(t.flow)'
  <2>1. SUFFICES ASSUME t.op = "request" PROVE ~Redeemed(t.flow)'
    OBVIOUS
  <2>2. t.flow \in CredIds /\ (Live(creds, t.flow) => creds[t.flow].kind # "code") /\ ~Redeemed(t.flow)
    BY <2>1, <1>2 DEF Fine, Came
  <2>3. PICK f \in CredIds : f = t.flow
    BY <2>2
  <2> QED BY <2>2, <2>3 DEF Redeems
<1>6. task'[g] = t
  BY <1>1
<1> QED BY <1>1, <1>4, <1>5, <1>6 DEF Good

\* The tables of people grow.
PeopleGrow == /\ Grows(users, users') /\ orgs \subseteq orgs' /\ orgs' \subseteq Orgs
              /\ \A row \in Rows : Exists(users', row) /\ ~Exists(users, row) => OrgOf(row) \in orgs'

LEMMA PeopleFine == ASSUME SignedIn, PeopleGrow PROVE UsersOK(users, orgs)'
<1>1. users' \in UserTable /\ orgs' \subseteq Orgs
  BY DEF PeopleGrow, Grows
<1>2. \A row \in Rows : Exists(users', row) => OrgOf(row) \in orgs'
  BY DEF SignedIn, UsersOK, PeopleGrow
<1> QED BY <1>1, <1>2 DEF UsersOK, UserTable, Exists

LEMMA PeopleSame == ASSUME SignedIn, UNCHANGED <<users, orgs>> PROVE PeopleGrow
BY DEF SignedIn, UsersOK, PeopleGrow, Grows, UserTable

\* What a live credential is.
Holds(i) == /\ creds[i].row \in Rows /\ Exists(users, creds[i].row)
            /\ users[creds[i].row].ext = creds[i].who /\ creds[i].who \in ExternalIDs
            /\ creds[i].from \in CredIds \cup {0}
            /\ creds[i].from # 0 => creds[creds[i].from] = Ended
            /\ creds[i].from \notin over

LEMMA CredHolds == ASSUME SignedIn, NEW i \in CredIds, Live(creds, i) PROVE Holds(i)
<1>1. creds \in CredTable /\ creds[i] \in CredRow
  BY CredFacts DEF SignedIn, CredsOK, CredTable
<1> QED BY <1>1 DEF SignedIn, CredsOK, Holds, CredRow

LEMMA CredsFine ==
  ASSUME SignedIn, PeopleGrow, creds' \in CredTable, over' \subseteq {i \in CredIds : creds'[i] = Ended},
         \A i \in CredIds : Live(creds', i) => Holds(i)'
  PROVE  SignedIn'
<1>1. UsersOK(users, orgs)'
  BY PeopleFine
<1>2. CredsOK(users, creds)'
  BY DEF CredsOK, CredTable, Holds, Live, Exists
<1>3. over' \subseteq {i \in CredIds : creds'[i] = Ended} /\ \A i \in CredIds : Live(creds', i) => creds'[i].from \notin over'
  BY DEF Holds
<1> QED BY <1>1, <1>2, <1>3 DEF SignedIn, Live

\* A credential that was there goes on to hold.
LEMMA HoldsOn ==
  ASSUME SignedIn, PeopleGrow, Ages(creds, creds'), Endings, NEW i \in CredIds, Live(creds, i),
         creds'[i] = creds[i]
  PROVE  Holds(i)'
<1>1. Holds(i)
  BY CredHolds
<1>2. creds[i].from \notin over'
  <2>1. creds[i].from \in CredIds => Redeemed(creds[i].from)
    BY DEF Redeemed
  <2> QED BY <2>1, <1>1 DEF Endings, Holds
<1>3. PICK row \in Rows : row = creds[i].row
  BY <1>1 DEF Holds
<1>4. Exists(users, row) /\ users[row].ext # NoExt
  BY <1>1, <1>3, RowFacts DEF Holds
<1>5. Exists(users', row) /\ users'[row].ext = users[row].ext
  BY <1>4 DEF PeopleGrow, Grows
<1>6. creds[i].from # 0 => creds'[creds[i].from] = Ended
  BY <1>1 DEF Holds, Ages
<1> QED BY <1>1, <1>2, <1>3, <1>5, <1>6 DEF Holds, Exists

\* Credentials are left alone.
LEMMA CredsStay ==
  ASSUME SignedIn, PeopleGrow, UNCHANGED <<creds, over>>
  PROVE  SignedIn' /\ creds' \in CredTable /\ Ages(creds, creds') /\ Endings
<1>1. creds' \in CredTable /\ Ages(creds, creds') /\ Endings
  BY DEF SignedIn, CredsOK, CredTable, Ages, Endings
<1>2. \A i \in CredIds : Live(creds', i) => Holds(i)'
  BY <1>1, HoldsOn DEF Live
<1>3. over' \subseteq {i \in CredIds : creds'[i] = Ended}
  BY DEF SignedIn
<1> QED BY <1>1, <1>2, <1>3, CredsFine

\* Credentials end.
LEMMA CredsEnd ==
  ASSUME SignedIn, PeopleGrow, NEW which, creds' = DeleteCreds(creds, which),
         over' \subseteq over \cup {i \in CredIds : i \in which /\ ~Redeemed(i)}
  PROVE  SignedIn' /\ creds' \in CredTable /\ Ages(creds, creds') /\ Endings
<1>0. creds \in CredTable
  BY DEF SignedIn, CredsOK, CredTable
<1>1. creds' = [i \in CredIds |-> IF i \in which THEN Ended ELSE creds[i]]
  BY <1>0 DEF DeleteCreds, CredTable
<1>2. creds' \in CredTable
  BY <1>0, <1>1 DEF CredTable
<1>3. Ages(creds, creds') /\ Endings
  BY <1>1 DEF Ages, Endings, Live
<1>4. \A i \in CredIds : Live(creds', i) => Live(creds, i) /\ creds'[i] = creds[i]
  BY <1>1, CredFacts DEF Live
<1>5. \A i \in CredIds : Live(creds', i) => Holds(i)'
  BY <1>3, <1>4, HoldsOn
<1>6. over' \subseteq {i \in CredIds : creds'[i] = Ended}
  BY <1>1 DEF SignedIn
<1> QED BY <1>2, <1>3, <1>5, <1>6, CredsFine

\* A step of one request.
LEMMA StepKeeps ==
  ASSUME SignInv, DOMAIN task = Slots, NEW h \in Slots, NEW t, Run(h, t), PeopleGrow,
         SignedIn', Kept', creds' \in CredTable, Ages(creds, creds'), Endings, Redeems,
         t # Idle => Fine(t)' /\ (t.op = "request" => ~Redeemed(t.flow)')
  PROVE  SignInv'
<1>1. task'[h] = t /\ \A g \in Slots : g # h => task'[g] = task[g]
  BY DEF Run
<1>2. task'[h] # Idle => Good(h)'
  BY <1>1 DEF Good
<1>3. ASSUME NEW g \in Slots, g # h, task'[g] # Idle PROVE Good(g)'
  BY <1>1, <1>3, OthersStay DEF PeopleGrow
<1> QED BY <1>2, <1>3 DEF SignInv

\* Nothing is redeemed besides.
LEMMA NoneRedeemed ==
  ASSUME DOMAIN task = Slots, NEW h \in Slots, NEW t, Run(h, t),
         \A i \in CredIds : Live(creds', i) => Live(creds, i) /\ creds'[i].from = creds[i].from,
         t # Idle /\ t.op = "redeem" =>
           task[h] # Idle /\ task[h].op = "redeem" /\ t.flow = task[h].flow
  PROVE  Redeems /\ \A f \in CredIds : Redeemed(f)' => Redeemed(f)
<1>1. ASSUME NEW f \in CredIds, Redeemed(f)' PROVE Redeemed(f)
  <2>1. CASE \E i \in CredIds : Live(creds', i) /\ creds'[i].from = f
    BY <2>1 DEF Redeemed
  <2>2. CASE \E g \in Slots : task'[g] # Idle /\ task'[g].op = "redeem" /\ task'[g].flow = f
    <3>1. PICK g \in Slots : task'[g] # Idle /\ task'[g].op = "redeem" /\ task'[g].flow = f
      BY <2>2
    <3>2. task[g] # Idle /\ task[g].op = "redeem" /\ task[g].flow = f
      <4>1. CASE g = h
        BY <3>1, <4>1 DEF Run
      <4>2. CASE g # h
        BY <3>1, <4>2 DEF Run
      <4> QED BY <4>1, <4>2
    <3> QED BY <3>2 DEF Redeemed
  <2> QED BY <1>1, <2>1, <2>2 DEF Redeemed, Live
<1> QED BY <1>1 DEF Redeems

\* A request goes on with the same person, or ends.
LEMMA PlainStep ==
  ASSUME SignInv, DOMAIN task = Slots, NEW h \in Slots, task[h] # Idle, NEW t, Run(h, t),
         PeopleGrow, Kept', UNCHANGED <<creds, over>>,
         t # Idle => /\ Knows(t)' /\ Asked(t)'
                     /\ t.op = task[h].op /\ t.flow = task[h].flow /\ t.d = task[h].d
  PROVE  SignInv'
<1>1. SignedIn' /\ creds' \in CredTable /\ Ages(creds, creds') /\ Endings
  BY CredsStay DEF SignInv
<1>2. \A i \in CredIds : Live(creds', i) => Live(creds, i) /\ creds'[i].from = creds[i].from
  BY DEF Live
<1>3. Redeems /\ \A f \in CredIds : Redeemed(f)' => Redeemed(f)
  BY <1>2, NoneRedeemed
<1>4. ASSUME t # Idle PROVE Fine(t)' /\ (t.op = "request" => ~Redeemed(t.flow)')
  <2>1. Came(task[h]) /\ (task[h].op = "request" => ~Redeemed(task[h].flow))
    BY DEF SignInv, Good, Fine
  <2>2. PICK s : s = task[h]
    OBVIOUS
  <2>3. Came(s)'
    BY <2>1, <2>2 DEF Came, Live
  <2>4. Came(t)'
    BY <1>4, <2>2, <2>3 DEF Came
  <2>5. t.op = "request" => t.flow \in CredIds
    BY <2>4 DEF Came
  <2>6. t.op = "request" => ~Redeemed(t.flow)'
    <3>1. SUFFICES ASSUME t.op = "request" PROVE ~Redeemed(t.flow)'
      OBVIOUS
    <3>2. PICK f \in CredIds : f = t.flow
      BY <2>5, <3>1
    <3>3. ~Redeemed(f)
      BY <2>1, <1>4, <3>1, <3>2
    <3>4. ~Redeemed(f)'
      BY <1>3, <3>3
    <3> QED BY <3>2, <3>4
  <2> QED BY <1>4, <2>4, <2>6 DEF Fine
<1> QED BY <1>1, <1>3, <1>4, StepKeeps

\* A request ends credentials and ends.
LEMMA EndStep ==
  ASSUME SignInv, DOMAIN task = Slots, NEW h \in Slots, Done(h), PeopleGrow, Kept',
         NEW which, creds' = DeleteCreds(creds, which),
         over' \subseteq over \cup {i \in CredIds : i \in which /\ ~Redeemed(i)}
  PROVE  SignInv'
<1>1. SignedIn' /\ creds' \in CredTable /\ Ages(creds, creds') /\ Endings
  BY CredsEnd DEF SignInv
<1>2. \A i \in CredIds : Live(creds', i) => Live(creds, i) /\ creds'[i].from = creds[i].from
  <2>1. DOMAIN creds = CredIds
    BY DEF SignInv, SignedIn, CredsOK
  <2> QED BY <2>1, CredFacts DEF DeleteCreds, Live
<1>3. PICK t : t = Idle
  OBVIOUS
<1>4. Run(h, t)
  BY <1>3 DEF Done
<1>5. Redeems
  BY <1>2, <1>3, <1>4, NoneRedeemed
<1> QED BY <1>1, <1>3, <1>4, <1>5, StepKeeps

LEMMA KeptStays == ASSUME Kept, UNCHANGED <<signups, dir, setup>> PROVE Kept'
BY DEF Kept

\* A live credential is no redeemed code, nor is what a request came with.
LEMMA LiveNotRedeemed == ASSUME SignInv, NEW i \in CredIds, Live(creds, i) PROVE ~Redeemed(i)
<1>1. SUFFICES ASSUME Redeemed(i) PROVE FALSE
  OBVIOUS
<1>2. creds[i] # Ended
  BY DEF Live
<1>3. CASE \E j \in CredIds : Live(creds, j) /\ creds[j].from = i
  BY <1>2, <1>3, CredFacts DEF SignInv, SignedIn, CredsOK
<1>4. CASE \E h \in Slots : task[h] # Idle /\ task[h].op = "redeem" /\ task[h].flow = i
  BY <1>2, <1>4 DEF SignInv, Good, Fine, Came
<1> QED BY <1>1, <1>3, <1>4 DEF Redeemed

\* What is true of a request before a step is true after it.
LEMMA StillFine ==
  ASSUME SignInv, NEW h \in Slots, task[h] # Idle, PeopleGrow, UNCHANGED <<creds, over>>,
         NEW t, t = task[h]
  PROVE  Knows(t)' /\ Asked(t)'
<1>1. SignedIn' /\ creds' \in CredTable /\ Ages(creds, creds')
  BY CredsStay DEF SignInv
<1>2. Fine(t) /\ creds \in CredTable
  BY DEF SignInv, Good, SignedIn, CredsOK, CredTable
<1>3. t.op = "redeem" => t.flow \notin over'
  BY <1>2 DEF Fine, Came
<1>4. Fine(t)'
  BY <1>1, <1>2, <1>3, FineStays DEF PeopleGrow
<1> QED BY <1>4 DEF Fine

\* It goes on without a new row or a new question.
Goes(t, u) ==
  /\ u.d = t.d /\ u.op = t.op /\ u.row = t.row /\ u.via = t.via /\ u.arg = t.arg
  /\ u.flow = t.flow
  /\ u.want \in Roles /\ u.role \in Roles /\ u.long \in BOOLEAN
  /\ u.pc \in Places(t.op)
  /\ u.pc \notin {"link", "target", "carry", "move", "role", "disable", "enable", "each"}
  /\ u.pc \in {"sessions", "codes", "tokens"} => t.arg.op # "everywhere" \/ t.op # "key"
  /\ u.pc \in {"take", "place"} => u.mail \in Emails
  /\ u.pc \notin Early => t.pc \notin Early
  /\ t.pc \notin {"target", "carry", "move"}

LEMMA GoesFine ==
  ASSUME NEW t, NEW u, Goes(t, u), Knows(t)', Asked(t)'
  PROVE  Knows(u)' /\ Asked(u)'
<1>1. Knows(u)'
  BY DEF Knows, Goes, Own
<1>2. Asked(u)'
  BY DEF Asked, Goes
<1> QED BY <1>1, <1>2

LEMMA GoesOn ==
  ASSUME TokenInv, SignInv, NEW h \in Slots, task[h] # Idle, NEW t, t = task[h], NEW u, Run(h, u),
         Goes(t, u), PeopleGrow, Kept', UNCHANGED <<creds, over>>
  PROVE  SignInv'
<1>1. Knows(t)' /\ Asked(t)'
  BY StillFine
<1>2. Knows(u)' /\ Asked(u)'
  BY <1>1, GoesFine
<1>3. DOMAIN task = Slots
  BY DEF TokenInv, Typed
<1> QED BY <1>2, <1>3, PlainStep DEF Goes

\* It ends credentials and goes on.
LEMMA EndGoes ==
  ASSUME TokenInv, SignInv, NEW h \in Slots, task[h] # Idle, NEW t, t = task[h], NEW u, Run(h, u),
         Goes(t, u), PeopleGrow, Kept', NEW which, creds' = DeleteCreds(creds, which),
         over' \subseteq over \cup {i \in CredIds : i \in which /\ ~Redeemed(i)}
  PROVE  SignInv'
<1>1. SignedIn' /\ creds' \in CredTable /\ Ages(creds, creds') /\ Endings
  BY CredsEnd DEF SignInv
<1>2. Fine(t) /\ (t.op = "request" => ~Redeemed(t.flow)) /\ creds \in CredTable /\ DOMAIN task = Slots
  BY DEF SignInv, Good, SignedIn, CredsOK, CredTable, TokenInv, Typed
<1>3. t.op = "redeem" => t.flow \notin over'
  <2>1. t.op = "redeem" => t.flow \notin over /\ Redeemed(t.flow) /\ t.flow \in CredIds
    BY <1>2 DEF Fine, Came, Redeemed
  <2> QED BY <1>1, <2>1 DEF Endings
<1>4. Fine(t)'
  BY <1>1, <1>2, <1>3, FineStays DEF PeopleGrow
<1>5. Knows(u)' /\ Asked(u)'
  BY <1>4, GoesFine DEF Fine
<1>6. u.op = t.op /\ u.flow = t.flow /\ u.d = t.d
  BY DEF Goes
<1>7. Came(u)'
  BY <1>4, <1>6 DEF Fine, Came
<1>8. \A i \in CredIds : Live(creds', i) => Live(creds, i) /\ creds'[i].from = creds[i].from
  <2>1. DOMAIN creds = CredIds
    BY DEF SignInv, SignedIn, CredsOK
  <2> QED BY <2>1, CredFacts DEF DeleteCreds, Live
<1>9. Redeems /\ \A f \in CredIds : Redeemed(f)' => Redeemed(f)
  BY <1>2, <1>6, <1>8, NoneRedeemed
<1>10. u.op = "request" => ~Redeemed(u.flow)'
  <2>1. SUFFICES ASSUME u.op = "request" PROVE ~Redeemed(u.flow)'
    OBVIOUS
  <2>2. PICK f \in CredIds : f = u.flow
    BY <1>2, <1>6, <2>1 DEF Fine, Came
  <2>3. ~Redeemed(f)'
    BY <1>2, <1>6, <1>9, <2>1, <2>2
  <2> QED BY <2>2, <2>3
<1> QED BY <1>1, <1>2, <1>5, <1>7, <1>9, <1>10, StepKeeps DEF Fine

-----------------------------------------------------------------------------
(* A person signs in *)

LEMMA Least ==
  ASSUME NEW T, T \subseteq Nat, T # {}
  PROVE  \E i \in T : \A j \in T : i <= j
<1> DEFINE R == {ss \in Nat \X Nat : ss[1] < ss[2]}
<1>1. OpToRel(<, Nat) = R
  BY Zenon DEF OpToRel
<1>2. IsWellFoundedOn(R, Nat)
  BY <1>1, NatLessThanWellFounded, Zenon
<1>3. T \subseteq Nat /\ T # {}
  OBVIOUS
<1> HIDE DEF R
<1>4. \E x \in T : \A y \in T : ~(<<y, x>> \in R)
  BY <1>2, <1>3, WFMin, Zenon
<1>5. PICK x \in T : \A y \in T : ~(<<y, x>> \in R)
  BY <1>4
<1>6. ASSUME NEW y \in T PROVE x <= y
  <2>1. x \in Nat /\ y \in Nat
    BY <1>3
  <2>2. <<y, x>> \in R <=> y < x
    BY <2>1 DEF R
  <2> QED BY <1>5, <2>1, <2>2
<1> QED BY <1>6

LEMMA MaxMin ==
  ASSUME NEW n \in Nat, NEW T, T \subseteq 1..n, T # {}
  PROVE  Max(T) \in T /\ Min(T) \in T
<1>0. T \subseteq Nat
  OBVIOUS
<1>1. \E i \in T : \A j \in T : i <= j
  BY <1>0, Least
<1>2. \E i \in T : \A j \in T : i >= j
  <2> DEFINE U == {n - i : i \in T}
  <2>0. \A i \in 1..n : n - i \in Nat
    OBVIOUS
  <2>1. U \subseteq Nat /\ U # {}
    BY <2>0
  <2>2. PICK k \in U : \A j \in U : k <= j
    BY <2>1, Least
  <2>3. PICK i \in T : k = n - i
    BY <2>2
  <2>4. ASSUME NEW j \in T PROVE i >= j
    <3>1. n - j \in U
      OBVIOUS
    <3>2. n - i <= n - j
      BY <2>2, <2>3, <3>1
    <3> QED BY <2>3, <2>4, <3>2
  <2> QED BY <2>3, <2>4
<1> QED BY <1>1, <1>2 DEF Max, Min

\* The addresses a directory gives are addresses there can be.
LEMMA Addresses ==
  ASSUME NEW mails \in Seq(Mail), NEW i \in DOMAIN mails
  PROVE  mails[i].addr \in Emails
<1>1. mails[i] \in Mail
  OBVIOUS
<1> QED BY <1>1 DEF Mail

LEMMA PicksAddress ==
  ASSUME NEW p, NEW mails \in Seq(Mail), PickEmail(p, mails) # Nobody
  PROVE  PickEmail(p, mails) \in Emails
<1> DEFINE proved  == {i \in DOMAIN mails : mails[i].verified = "yes"}
           primary == {i \in proved : mails[i].primary}
           fit     == {i \in proved : VouchesFor(p, DomainOf[mails[i].addr])}
           both    == fit \cap primary
<1>1. PickEmail(p, mails) = IF both # {} THEN mails[Max(both)].addr
                            ELSE IF fit # {} THEN mails[Min(fit)].addr
                            ELSE IF primary # {} THEN mails[Max(primary)].addr ELSE Nobody
  BY DEF PickEmail
<1>2. PICK n \in Nat : DOMAIN mails = 1..n
  <2>1. Len(mails) \in Nat /\ DOMAIN mails = 1..Len(mails)
    OBVIOUS
  <2> QED BY <2>1
<1>3. both \subseteq 1..n /\ fit \subseteq 1..n /\ primary \subseteq 1..n
  BY <1>2
<1> HIDE DEF both, fit, primary
<1>4. \A T \in SUBSET (1..n) : T # {} => mails[Max(T)].addr \in Emails /\ mails[Min(T)].addr \in Emails
  BY <1>2, MaxMin, Addresses
<1>5. both # {} => mails[Max(both)].addr \in Emails
  BY <1>3, <1>4
<1>6. fit # {} => mails[Min(fit)].addr \in Emails
  BY <1>3, <1>4
<1>7. primary # {} => mails[Max(primary)].addr \in Emails
  BY <1>3, <1>4
<1> QED BY <1>1, <1>5, <1>6, <1>7

LEMMA HeadAddress ==
  ASSUME NEW mails \in Seq(Mail), mails # <<>>
  PROVE  Head(mails).addr \in Emails
<1>1. Head(mails) \in Mail
  OBVIOUS
<1> QED BY <1>1 DEF Mail

LEMMA Checks0 ==
  ASSUME NEW p, NEW e, NEW id, NEW said, NEW res, res = CheckIdentity(p, e, id, said), OK(res)
  PROVE  res = id
BY DEF CheckIdentity, OK, Refused

LEMMA ExchangedAddress ==
  ASSUME NEW p, NEW e, e.mails \in Seq(Mail), NEW a, NEW id, id = Exchange(p, e, a), OK(id)
  PROVE  id.email \in Emails
<1>0. \A why : ~OK(Refused(why))
  BY DEF OK, Refused
<1>1. ~Password(p)
  BY <1>0 DEF Exchange, Password
<1>2. CASE p.kind = "github"
  <2> DEFINE gh == GitHubIdentity(p, e, a)
             mail == PickEmail(p, e.mails)
  <2>1. id = CheckGitHub(p, e, gh)
    BY <1>1, <1>2 DEF Exchange
  <2>2. OK(gh) /\ gh.email # Nobody /\ id = CheckIdentity(p, e, gh, "yes")
    BY <2>1, <1>0 DEF CheckGitHub
  <2>3. gh.email = mail
    BY <2>2, <1>0 DEF GitHubIdentity
  <2> HIDE DEF gh
  <2>4. id = gh
    BY <2>2, Checks0
  <2> QED BY <2>2, <2>3, <2>4, PicksAddress
<1>3. CASE p.kind # "github"
  <2>1. id = OidcExchange(p, e, a)
    BY <1>1, <1>3 DEF Exchange
  <2>2. id = OidcIdentity(p, e)
    BY <2>1, <1>0 DEF OidcExchange
  <2> DEFINE one == [email |-> Head(e.mails).addr, groups |-> e.groups]
  <2>3. e.mails # <<>> /\ id = CheckIdentity(p, e, one, Head(e.mails).verified)
    BY <2>2, <1>0 DEF OidcIdentity
  <2>4. one.email = Head(e.mails).addr
    OBVIOUS
  <2> HIDE DEF one
  <2>5. id = one
    BY <2>3, Checks0
  <2> QED BY <2>3, <2>4, <2>5, HeadAddress
<1> QED BY <1>2, <1>3

LEMMA AuthenticatedAddress ==
  ASSUME NEW p, NEW e, e.mails \in Seq(Mail), NEW a, NEW admitted,
         NEW id, id = Authenticate(p, e, a, admitted), OK(id)
  PROVE  id.email \in Emails
<1>0. \A why : ~OK(Refused(why))
  BY DEF OK, Refused
<1>1. id = LdapIdentity(p, e)
  BY <1>0 DEF Authenticate
<1> DEFINE one == [email |-> Head(e.mails).addr, groups |-> e.groups]
<1>2. e.mails # <<>> /\ id = CheckIdentity(p, e, one, "unsaid")
  BY <1>0, <1>1 DEF LdapIdentity
<1>3. one.email = Head(e.mails).addr
  OBVIOUS
<1> HIDE DEF one
<1>4. id = one
  BY <1>2, Checks0
<1> QED BY <1>2, <1>3, <1>4, HeadAddress

LEMMA RoleForIn == \A p, id : RoleFor(p, id) \in Roles
BY DEF RoleFor, Roles, Assignable

LEMMA SetupFacts ==
  ASSUME TokenInv, Kept, NEW d \in Idents
  PROVE  dir[d].mails \in Seq(Mail)
<1>1. PICK s \in Setups : setup.entries = s.entries
  BY DEF TokenInv, Typed, SetupOK
<1>2. EntriesOK(s.entries[d])
  BY SignInAssumption
<1>3. dir[d] \in Range(s.entries[d])
  BY <1>1 DEF Kept
<1> QED BY <1>2, <1>3 DEF EntriesOK

\* Of a request that is somewhere.
LEMMA Here ==
  ASSUME TokenInv, SignInv, NEW h \in Slots, task[h].pc # "idle"
  PROVE  /\ task[h] # Idle /\ DOMAIN task = Slots /\ Whom(task[h]) /\ DOMAIN task[h] = Fields
         /\ Fine(task[h]) /\ Good(h)
<1>1. task[h] # Idle
  BY DEF Idle
<1>2. Whom(task[h]) /\ DOMAIN task = Slots
  BY <1>1 DEF TokenInv, Typed
<1> QED BY <1>1, <1>2 DEF SignInv, Good, Whom

LEMMA VouchedSigns ==
  ASSUME TokenInv, SignInv, NEW h \in Slots, task[h].pc \in {"exchange", "password"}, NEW id, NEW a,
         NEW pc \in {"place", "take"}, id.email \in Emails, Vouched(h, id, a, pc),
         UNCHANGED <<setup, db, dir, over>>
  PROVE  SignInv'
<1>1. /\ task[h] # Idle /\ DOMAIN task = Slots /\ Whom(task[h]) /\ DOMAIN task[h] = Fields
      /\ Fine(task[h])
  BY Here
<1>2. PICK t : t = task[h]
  OBVIOUS
<1>3. PICK k, w : w = RoleFor(ProviderOf(t.d), id)
                  /\ Run(h, [t EXCEPT !.pc = pc, !.mail = id.email, !.want = w, !.tok = k])
  BY <1>2 DEF Vouched
<1>4. PICK u : u = [t EXCEPT !.pc = pc, !.mail = id.email, !.want = w, !.tok = k]
  OBVIOUS
<1>5. w \in Roles
  BY <1>3, RoleForIn
<1>6. t.op = "signin" /\ t.role \in Roles /\ t.long \in BOOLEAN
  BY <1>1, <1>2 DEF Whom, Fine, Knows
<1>7. Goes(t, u)
  BY <1>1, <1>2, <1>4, <1>5, <1>6 DEF Goes, Fields, Places, Early
<1>8. PeopleGrow /\ Kept' /\ UNCHANGED <<creds, over>>
  BY PeopleSame, KeptStays DEF db, SignInv
<1>9. Run(h, u)
  BY <1>3, <1>4
<1> QED BY <1>1, <1>2, <1>7, <1>8, <1>9, GoesOn

\* A request that ends and changes nothing of the tables.
LEMMA JustDone ==
  ASSUME TokenInv, SignInv, NEW h \in Slots, task[h] # Idle, Done(h), PeopleGrow, Kept', UNCHANGED <<creds, over>>
  PROVE  SignInv'
<1>1. DOMAIN task = Slots
  BY DEF TokenInv, Typed
<1>2. PICK u : u = Idle /\ Run(h, u)
  BY DEF Done
<1> QED BY <1>1, <1>2, PlainStep

LEMMA DbSame == ASSUME SignInv, UNCHANGED <<users, orgs, signups, dir, setup>> PROVE PeopleGrow /\ Kept'
BY PeopleSame, KeptStays DEF SignInv

LEMMA ExchangeSigns == ASSUME TokenInv, SignInv, NEW h \in Slots, ExchangeStep(h) PROVE SignInv'
<1>1. PICK a \in Answers :
        LET id == Exchange(ProviderOf(task[h].d), dir[task[h].d], a)
        IN  IF OK(id) THEN Vouched(h, id, a, "place") ELSE Done(h) /\ UNCHANGED <<tokens, settled>>
  BY DEF ExchangeStep
<1>2. task[h].pc = "exchange" /\ UNCHANGED <<setup, db, dir, over>>
  BY DEF ExchangeStep
<1>3. task[h] # Idle /\ Whom(task[h])
  BY <1>2, Here
<1>4. PICK id : id = Exchange(ProviderOf(task[h].d), dir[task[h].d], a)
  OBVIOUS
<1>5. CASE OK(id)
  <2>1. task[h].d \in Idents
    BY <1>2, <1>3 DEF Whom
  <2>2. dir[task[h].d].mails \in Seq(Mail)
    BY <2>1, SetupFacts DEF SignInv
  <2>3. PICK p, e : p = ProviderOf(task[h].d) /\ e = dir[task[h].d]
    OBVIOUS
  <2>4. id.email \in Emails
    BY <1>4, <1>5, <2>2, <2>3, ExchangedAddress
  <2>5. Vouched(h, id, a, "place")
    BY <1>1, <1>4, <1>5
  <2> QED BY <1>2, <2>4, <2>5, VouchedSigns
<1>6. CASE ~OK(id)
  <2>1. Done(h)
    BY <1>1, <1>4, <1>6
  <2> QED BY <1>2, <1>3, <2>1, JustDone, DbSame DEF db
<1> QED BY <1>5, <1>6

LEMMA AuthenticateSigns == ASSUME TokenInv, SignInv, NEW h \in Slots, AuthenticateStep(h) PROVE SignInv'
<1>1. PICK a \in Answers, admitted \in BOOLEAN :
        LET id == Authenticate(ProviderOf(task[h].d), dir[task[h].d], a, admitted)
        IN  IF OK(id) THEN Vouched(h, id, a, IF task[h].flow = 0 THEN "place" ELSE "take")
            ELSE Done(h) /\ UNCHANGED <<tokens, settled>>
  BY DEF AuthenticateStep
<1>2. task[h].pc = "password" /\ UNCHANGED <<setup, db, dir, over>>
  BY DEF AuthenticateStep
<1>3. task[h] # Idle /\ Whom(task[h])
  BY <1>2, Here
<1>4. PICK id : id = Authenticate(ProviderOf(task[h].d), dir[task[h].d], a, admitted)
  OBVIOUS
<1>5. CASE OK(id)
  <2>1. task[h].d \in Idents
    BY <1>2, <1>3 DEF Whom
  <2>2. dir[task[h].d].mails \in Seq(Mail)
    BY <2>1, SetupFacts DEF SignInv
  <2>3. PICK p, e : p = ProviderOf(task[h].d) /\ e = dir[task[h].d]
    OBVIOUS
  <2>4. id.email \in Emails
    BY <1>4, <1>5, <2>2, <2>3, AuthenticatedAddress
  <2>5. PICK pc \in {"place", "take"} : pc = IF task[h].flow = 0 THEN "place" ELSE "take"
    OBVIOUS
  <2>6. Vouched(h, id, a, pc)
    BY <1>1, <1>4, <1>5, <2>5
  <2> QED BY <1>2, <2>4, <2>6, VouchedSigns
<1>6. CASE ~OK(id)
  <2>1. Done(h)
    BY <1>1, <1>4, <1>6
  <2> QED BY <1>2, <1>3, <2>1, JustDone, DbSame DEF db
<1> QED BY <1>5, <1>6

\* A request goes to another place with what it has.
LEMMA JustGoes ==
  ASSUME TokenInv, SignInv, NEW h \in Slots, NEW t, t = task[h], t.pc # "idle", NEW pc, Goto(h, pc),
         pc \in Places(t.op),
         pc \notin {"take", "link", "target", "carry", "move", "role", "disable", "enable", "each"},
         pc \in {"sessions", "codes", "tokens"} => t.arg.op # "everywhere" \/ t.op # "key",
         pc = "place" => t.mail \in Emails, pc \notin Early => t.pc \notin Early,
         t.pc \notin {"target", "carry", "move"},
         PeopleGrow, Kept', UNCHANGED <<creds, over>>
  PROVE  SignInv'
<1>1. t # Idle /\ DOMAIN t = Fields /\ Fine(t)
  BY Here
<1>2. PICK u : u = [t EXCEPT !.pc = pc]
  OBVIOUS
<1>3. Run(h, u)
  BY <1>2 DEF Goto
<1>4. Goes(t, u)
  BY <1>1, <1>2 DEF Goes, Fields, Fine, Knows
<1> QED BY <1>1, <1>3, <1>4, GoesOn

LEMMA TakeFlowSigns == ASSUME TokenInv, SignInv, NEW h \in Slots, TakeFlow(h) PROVE SignInv'
<1>1. task[h].pc = "take" /\ UNCHANGED <<users, orgs, creds, signups, setup, dir, over>>
  BY DEF TakeFlow, ghosts
<1>2. task[h] # Idle /\ Whom(task[h]) /\ Fine(task[h])
  BY <1>1, Here
<1>3. PeopleGrow /\ Kept' /\ UNCHANGED <<creds, over>>
  BY <1>1, DbSame
<1>4. CASE Done(h)
  BY <1>2, <1>3, <1>4, JustDone
<1>5. CASE Goto(h, "place")
  <2>1. PICK t : t = task[h]
    OBVIOUS
  <2>2. PICK pc : pc = "place"
    OBVIOUS
  <2>3. t.op = "signin" /\ t.mail \in Emails
    BY <1>1, <1>2, <2>1 DEF Whom, Fine, Knows
  <2>4. pc \in Places(t.op)
    BY <2>2, <2>3 DEF Places
  <2>5. pc \in Early
    BY <2>2 DEF Early
  <2> QED BY <1>1, <1>3, <1>5, <2>1, <2>2, <2>3, <2>4, <2>5, JustGoes
<1> QED BY <1>4, <1>5 DEF TakeFlow

\* Where a sign-in may be placed.
LEMMA PlacedIn ==
  ASSUME SignedIn, NEW d, NEW email, NEW o \in OrgFor(d, email)
  PROVE  /\ o \in Orgs => o \in orgs
         /\ o \notin Orgs => o[2] \in Orgs \cup {Nobody}
<1> DEFINE ms       == Memberships(users, d, Nobody, FALSE)
           byDomain == OrgByEmailDomain(orgs, DomainOf[email])
           invited  == InvitationFor(users, email)
           pairs    == {<<"signup", x>> : x \in IF invited = {} THEN {Nobody} ELSE invited}
<1>0. orgs \subseteq Orgs
  BY DEF SignedIn, UsersOK
<1>1. o \in LastOrg(ms) \/ o \in byDomain \/ o \in pairs \/ o \in OnlyOrg(orgs)
  BY DEF OrgFor
<1>2. ASSUME o \in LastOrg(ms) PROVE o \in orgs
  <2>1. PICK row \in ms : o = OrgOf(row)
    BY <1>2 DEF LastOrg
  <2>2. row \in Rows /\ Exists(users, row)
    BY <2>1 DEF Memberships, RowsOf
  <2> QED BY <2>1, <2>2 DEF SignedIn, UsersOK
<1>3. o \in byDomain => o \in orgs
  BY DEF OrgByEmailDomain
<1>4. o \in OnlyOrg(orgs) => o \in orgs
  BY DEF OnlyOrg
<1>5. ASSUME o \in pairs PROVE o \notin Orgs /\ o[2] \in Orgs \cup {Nobody}
  <2>1. invited \subseteq Orgs
    BY RowFacts DEF InvitationFor
  <2> HIDE DEF invited
  <2>2. PICK x \in Orgs \cup {Nobody} : o = <<"signup", x>>
    BY <1>5, <2>1
  <2>3. <<"signup", x>> \notin Orgs
    BY SignInAssumption
  <2> QED BY <2>2, <2>3
<1> HIDE DEF pairs, byDomain, ms, invited
<1> QED BY <1>0, <1>1, <1>2, <1>3, <1>4, <1>5

\* A request goes on with a row its person has taken.
Finds(t, u) ==
  /\ u.d = t.d /\ u.op = t.op /\ u.via = t.via /\ u.arg = t.arg /\ u.flow = t.flow
  /\ u.want \in Roles /\ u.role \in Roles /\ u.long \in BOOLEAN
  /\ u.pc \in Places(t.op) \ Early
  /\ u.pc \notin {"target", "carry", "move", "role", "disable", "enable", "each",
                 "sessions", "codes", "tokens"}
  /\ t.pc \notin {"target", "carry", "move"}

LEMMA FindsRow ==
  ASSUME TokenInv, SignInv, NEW h \in Slots, task[h] # Idle, NEW t, t = task[h], NEW u, Run(h, u),
         Finds(t, u), Own(u.row, t.d)', PeopleGrow, Kept', UNCHANGED <<creds, over>>
  PROVE  SignInv'
<1>1. Knows(t)' /\ Asked(t)'
  BY StillFine
<1>2. Knows(u)'
  BY <1>1 DEF Knows, Finds, Early, Own
<1>3. Asked(u)'
  BY <1>1 DEF Asked, Finds
<1>4. DOMAIN task = Slots
  BY DEF TokenInv, Typed
<1> QED BY <1>2, <1>3, <1>4, PlainStep DEF Finds

LEMMA PlaceSigns == ASSUME TokenInv, SignInv, NEW h \in Slots, Place(h) PROVE SignInv'
<1>1. task[h].pc = "place" /\ UNCHANGED <<users, orgs, creds, setup, dir, over>>
  BY DEF Place, ghosts
<1>2. /\ task[h] # Idle /\ Whom(task[h]) /\ Fine(task[h]) /\ DOMAIN task = Slots
      /\ DOMAIN task[h] = Fields
  BY <1>1, Here
<1>3. PICK t : t = task[h]
  OBVIOUS
<1>4. t.op = "signin" /\ t.mail \in Emails /\ t.d \in Idents /\ t.want \in Roles
  BY <1>1, <1>2, <1>3 DEF Whom, Fine, Knows, Carries
<1>5. PeopleGrow
  BY <1>1, PeopleSame DEF SignInv
<1>6. ASSUME signups' = signups PROVE Kept'
  BY <1>1, <1>6, KeptStays DEF SignInv
<1>7. CASE Done(h) /\ UNCHANGED signups
  BY <1>1, <1>2, <1>5, <1>6, <1>7, JustDone
<1>8. CASE \E o \in OrgFor(t.d, t.mail) \cap Orgs :
             Run(h, [t EXCEPT !.pc = "link", !.row = <<o, t.mail>>]) /\ UNCHANGED signups
  <2>1. PICK o \in OrgFor(t.d, t.mail) \cap Orgs :
             Run(h, [t EXCEPT !.pc = "link", !.row = <<o, t.mail>>]) /\ UNCHANGED signups
    BY <1>8
  <2>2. PICK u : u = [t EXCEPT !.pc = "link", !.row = <<o, t.mail>>]
    OBVIOUS
  <2>3. Run(h, u)
    BY <2>1, <2>2
  <2>4. o \in orgs
    BY <2>1, PlacedIn DEF SignInv
  <2>5. /\ u.pc = "link" /\ OrgOf(u.row) = o /\ u.d = t.d /\ u.want = t.want /\ u.role = t.role
        /\ u.long = t.long /\ u.op = t.op /\ u.via = t.via /\ u.mail = t.mail /\ u.flow = t.flow
        /\ u.arg = t.arg
    BY <1>2, <1>3, <2>2 DEF Fields, OrgOf
  <2>6. Knows(t)' /\ Asked(t)'
    BY <1>1, <1>2, <1>3, <1>5, StillFine
  <2>7. Knows(u)'
    BY <1>1, <1>4, <2>4, <2>5, <2>6 DEF Knows, Places, Early
  <2>8. Asked(u)'
    BY <1>4, <2>5 DEF Asked
  <2> QED BY <1>1, <1>2, <1>3, <1>5, <1>6, <2>1, <2>3, <2>5, <2>7, <2>8, PlainStep
<1>9. CASE \E o \in OrgFor(t.d, t.mail) \ Orgs : StartSignup(h, o[2]) /\ Done(h)
  <2>1. PICK o \in OrgFor(t.d, t.mail) \ Orgs : StartSignup(h, o[2]) /\ Done(h)
    BY <1>9
  <2>2. CASE t.cli
    <3>1. signups' = signups
      BY <2>1, <2>2, <1>3 DEF StartSignup
    <3> QED BY <1>1, <1>2, <1>5, <1>6, <2>1, <3>1, JustDone
  <2>3. CASE ~t.cli
    <3>1. PICK s \in SignupIds : signups' = [signups EXCEPT ![s] =
               [d |-> t.d, mail |-> t.mail, want |-> t.want, tok |-> t.tok, invited |-> o[2]]]
      BY <2>1, <2>3, <1>3 DEF StartSignup
    <3>2. DOMAIN signups = SignupIds
      BY DEF TokenInv, Typed
    <3>3. signups'[s].mail = t.mail /\ signups'[s].want = t.want
          /\ \A r \in SignupIds : r # s => signups'[r] = signups[r]
      BY <1>4, <3>1, <3>2
    <3>4. Kept'
      BY <1>1, <1>4, <3>3 DEF Kept, SignInv
    <3> QED BY <1>1, <1>2, <1>5, <2>1, <3>4, JustDone
  <2> QED BY <2>2, <2>3
<1> QED BY <1>3, <1>7, <1>8, <1>9 DEF Place

LEMMA LinkSigns == ASSUME TokenInv, SignInv, NEW h \in Slots, Link(h) PROVE SignInv'
<1>1. task[h].pc = "link" /\ UNCHANGED <<orgs, creds, signups, setup, dir, over>>
  BY DEF Link
<1>2. task[h] # Idle /\ Whom(task[h]) /\ Fine(task[h]) /\ DOMAIN task[h] = Fields
  BY <1>1, Here
<1>3. PICK t : t = task[h]
  OBVIOUS
<1>4. t.op = "signin" /\ t.mail \in Emails /\ t.d \in ExternalIDs /\ t.want \in Roles
      /\ OrgOf(t.row) \in orgs
  BY <1>1, <1>2, <1>3 DEF Whom, Fine, Knows
<1>5. Kept'
  BY <1>1, KeptStays DEF SignInv
<1>6. PICK org, us, res : org = OrgOf(t.row) /\ us = users /\ res = LinkUser(us, org, t.mail, t.d, t.want)
  OBVIOUS
<1>7. org \in Orgs /\ org \in orgs /\ us \in UserTable
  BY <1>4, <1>6 DEF SignInv, SignedIn, UsersOK, UserTable
<1>8. CASE ~OK(res)
  <2>1. Done(h) /\ users' = users
    BY <1>3, <1>6, <1>8 DEF Link
  <2> QED BY <1>1, <1>2, <1>5, <2>1, PeopleSame, JustDone DEF SignInv
<1>9. CASE OK(res)
  <2>1. /\ Grows(us, res.users) /\ res.row \in Rows /\ OrgOf(res.row) = org
        /\ Exists(res.users, res.row) /\ res.users[res.row].ext = t.d
        /\ MakesOne(us, res.users, res.row, t.want)
    <3>1. PICK email \in Emails, ext \in ExternalIDs, role \in Roles : email = t.mail /\ ext = t.d /\ role = t.want
      BY <1>4
    <3> QED BY <1>6, <1>7, <1>9, <3>1, Linked
  <2>2. users' = res.users
        /\ \/ Done(h)
           \/ Run(h, [t EXCEPT !.pc = "sync", !.row = res.row, !.role = res.users[res.row].role])
    BY <1>3, <1>6, <1>9 DEF Link
  <2>3. PeopleGrow
    <3>1. \A row \in Rows : Exists(users', row) /\ ~Exists(users, row) => OrgOf(row) = org
      BY <1>6, <2>1, <2>2 DEF MakesOne
    <3> QED BY <1>1, <1>6, <1>7, <2>1, <2>2, <3>1 DEF PeopleGrow, SignInv, SignedIn, UsersOK
  <2>4. CASE Done(h)
    BY <1>1, <1>2, <1>5, <2>3, <2>4, JustDone
  <2>5. CASE Run(h, [t EXCEPT !.pc = "sync", !.row = res.row, !.role = res.users[res.row].role])
    <3>1. PICK u : u = [t EXCEPT !.pc = "sync", !.row = res.row, !.role = res.users[res.row].role]
      OBVIOUS
    <3>2. res.users[res.row] \in UserRow
      BY <2>1, RowFacts DEF Grows
    <3>3. res.users[res.row].role \in Roles
      BY <3>2 DEF UserRow
    <3>4. /\ u.pc = "sync" /\ u.row = res.row /\ u.role \in Roles /\ u.d = t.d /\ u.want = t.want
          /\ u.long = t.long /\ u.op = t.op /\ u.via = t.via /\ u.flow = t.flow /\ u.arg = t.arg
      BY <1>2, <1>3, <3>1, <3>3 DEF Fields
    <3>5. Finds(t, u)
      BY <1>1, <1>2, <1>3, <1>4, <3>4 DEF Finds, Places, Early, Fine, Knows
    <3>6. Own(u.row, t.d)'
      BY <2>1, <2>2, <3>4 DEF Own, Exists
    <3>7. Run(h, u)
      BY <2>5, <3>1
    <3> QED BY <1>1, <1>2, <1>3, <1>5, <2>3, <3>5, <3>6, <3>7, FindsRow
  <2> QED BY <2>2, <2>4, <2>5
<1> QED BY <1>8, <1>9

LEMMA SyncedIn ==
  \A ps, os, row, email : \A stored, fromIDP \in Roles : SyncedRole(ps, os, row, email, stored, fromIDP) \in Roles
BY DEF SyncedRole, RoleAtSignIn, Roles

\* No row is new.
LEMMA NoNewRows ==
  ASSUME SignedIn, Grows(users, users'), orgs' = orgs, \A r \in Rows : Exists(users', r) => Exists(users, r)
  PROVE  PeopleGrow
BY DEF PeopleGrow, SignedIn, UsersOK

LEMMA SyncSigns == ASSUME TokenInv, SignInv, NEW h \in Slots, Sync(h) PROVE SignInv'
<1>1. task[h].pc = "sync" /\ UNCHANGED <<orgs, creds, signups, setup, dir, over>>
  BY DEF Sync
<1>2. task[h] # Idle /\ Whom(task[h]) /\ Fine(task[h]) /\ DOMAIN task[h] = Fields
  BY <1>1, Here
<1>3. PICK t : t = task[h]
  OBVIOUS
<1>4. /\ t.op \in {"signin", "local", "join", "request"} /\ Own(t.row, t.d)
      /\ t.role \in Roles /\ t.want \in Roles /\ t.long \in BOOLEAN
  BY <1>1, <1>2, <1>3 DEF Fine, Knows, Places, Early
<1>5. Kept' /\ users \in UserTable
  BY <1>1, KeptStays DEF SignInv, SignedIn, UsersOK, UserTable
<1>6. PICK role : role = SyncedRole(Providers, orgs, t.row, t.mail, t.role, t.want)
  OBVIOUS
<1>7. role \in Roles
  BY <1>4, <1>6, SyncedIn
<1>8. CASE users' = (IF role = t.role THEN users ELSE SetUserRole(users, t.row, role))
           /\ Run(h, [t EXCEPT !.pc = AfterSync(t), !.role = role])
  <2>1. PeopleGrow
    <3>1. CASE role = t.role
      BY <1>1, <1>8, <3>1, PeopleSame DEF SignInv
    <3>2. CASE role # t.role
      <4>1. PICK row \in Rows, us \in UserTable : row = t.row /\ us = users /\ Exists(us, row)
        BY <1>4, <1>5 DEF Own
      <4>2. PICK vs : vs = SetUserRole(us, row, role)
        OBVIOUS
      <4>3. Grows(us, vs) /\ \A r \in Rows : Exists(vs, r) => Exists(us, r)
        BY <1>7, <4>1, <4>2, SetsRole
      <4> QED BY <1>1, <1>8, <3>2, <4>1, <4>2, <4>3, NoNewRows DEF SignInv
    <3> QED BY <3>1, <3>2
  <2>2. PICK u : u = [t EXCEPT !.pc = AfterSync(t), !.role = role]
    OBVIOUS
  <2>3. AfterSync(t) \in Places(t.op) /\ AfterSync(t) \in {"others", "ttl"}
    BY <1>4 DEF AfterSync, Places
  <2>4. Goes(t, u)
    BY <1>1, <1>2, <1>3, <1>4, <1>7, <2>2, <2>3 DEF Goes, Fields, Early
  <2>5. Run(h, u)
    BY <1>8, <2>2
  <2> QED BY <1>1, <1>2, <1>3, <1>5, <2>1, <2>4, <2>5, GoesOn
<1>9. CASE t.op = "request" /\ Goto(h, "route") /\ UNCHANGED users
  <2>1. PeopleGrow
    BY <1>1, <1>9, PeopleSame DEF SignInv
  <2>2. PICK pc : pc = "route"
    OBVIOUS
  <2>3. pc \in Places(t.op) /\ pc \notin Early /\ t.pc \notin Early
    BY <1>1, <1>3, <1>9, <2>2 DEF Places, Early
  <2> QED BY <1>1, <1>3, <1>5, <1>9, <2>1, <2>2, <2>3, JustGoes
<1> QED BY <1>3, <1>6, <1>8, <1>9 DEF Sync

\* It reads the person's other rows, or has seen to one of them.
LEMMA EachGoes ==
  ASSUME TokenInv, SignInv, NEW h \in Slots, task[h] # Idle, NEW t, t = task[h], t.pc \in {"others", "each"},
         NEW u, Run(h, u), u.pc = "each", t.op \in {"signin", "request"},
         u.d = t.d, u.op = t.op, u.row = t.row, u.via = t.via, u.arg = t.arg, u.flow = t.flow,
         u.want = t.want, u.role = t.role, u.long = t.long,
         \A r \in DOMAIN u.rest : Own(r, t.d) /\ u.rest[r] \in Roles,
         PeopleGrow, Kept', UNCHANGED <<creds, over>>
  PROVE  SignInv'
<1>1. Knows(t)' /\ Asked(t)' /\ DOMAIN task = Slots
  BY StillFine DEF TokenInv, Typed
<1>2. t.d \in ExternalIDs
  BY <1>1 DEF Knows
<1>3. ASSUME NEW r, Own(r, t.d) PROVE Own(r, t.d)'
  BY <1>2, <1>3, RowFacts DEF Own, PeopleGrow, Grows
<1>4. Knows(u)'
  BY <1>1 DEF Knows, Places, Early, Own
<1>5. \A r \in DOMAIN u.rest : Own(r, u.d)' /\ u.rest[r] \in Roles
  BY <1>3
<1>6. RouteOK(u.arg) \/ u.op = "signin"
  BY <1>1 DEF Asked
<1>7. Asked(u)'
  BY <1>5, <1>6 DEF Asked
<1> QED BY <1>1, <1>4, <1>7, PlainStep

LEMMA SyncOthersSigns == ASSUME TokenInv, SignInv, NEW h \in Slots, SyncOthers(h) PROVE SignInv'
<1>1. task[h].pc = "others" /\ UNCHANGED <<users, orgs, creds, signups, setup, dir, over>>
  BY DEF SyncOthers, db, ghosts
<1>2. task[h] # Idle /\ Fine(task[h]) /\ DOMAIN task[h] = Fields
  BY <1>1, Here
<1>3. PICK t : t = task[h]
  OBVIOUS
<1>4. t.op \in {"signin", "request"}
  BY <1>1, <1>2, <1>3 DEF Fine, Knows, Places
<1>5. PeopleGrow /\ Kept' /\ users \in UserTable
  BY <1>1, DbSame DEF SignInv, SignedIn, UsersOK, UserTable
<1>6. CASE Run(h, [t EXCEPT !.pc = "each", !.rest = [row \in Others(t) |-> users[row].role]])
  <2>1. PICK rest : rest = [row \in Others(t) |-> users[row].role]
    OBVIOUS
  <2>2. PICK u : u = [t EXCEPT !.pc = "each", !.rest = rest] /\ Run(h, u)
    BY <1>6, <2>1
  <2>3. /\ u.pc = "each" /\ u.d = t.d /\ u.op = t.op /\ u.row = t.row /\ u.via = t.via /\ u.arg = t.arg
        /\ u.flow = t.flow /\ u.want = t.want /\ u.role = t.role /\ u.long = t.long /\ u.rest = rest
    BY <1>2, <1>3, <2>2 DEF Fields
  <2>4. ASSUME NEW r \in DOMAIN rest PROVE Own(r, t.d) /\ rest[r] \in Roles
    <3>1. r \in Rows /\ Exists(users, r) /\ users[r].ext = t.d /\ rest[r] = users[r].role
      BY <2>1 DEF Others, RowsOf
    <3>2. users[r] \in UserRow
      BY <1>5, <3>1, RowFacts
    <3> QED BY <3>1, <3>2 DEF Own, UserRow
  <2>5. t.pc \in {"others", "each"} /\ \A r \in DOMAIN u.rest : Own(r, t.d) /\ u.rest[r] \in Roles
    BY <1>1, <1>3, <2>3, <2>4
  <2>6. UNCHANGED <<creds, over>>
    BY <1>1
  <2> QED BY <1>2, <1>3, <1>4, <1>5, <2>2, <2>3, <2>5, <2>6, EachGoes
<1>7. CASE t.op = "request" /\ Goto(h, "route")
  <2>1. PICK pc : pc = "route"
    OBVIOUS
  <2>2. pc \in Places(t.op) /\ pc \notin Early /\ t.pc \notin Early
    BY <1>1, <1>3, <1>7, <2>1 DEF Places, Early
  <2> QED BY <1>1, <1>3, <1>5, <1>7, <2>1, <2>2, JustGoes
<1> QED BY <1>3, <1>6, <1>7 DEF SyncOthers

\* One of the rows that were read gets the role it is due.
LEMMA GivesOne ==
  ASSUME SignedIn, NEW row \in Rows, Exists(users, row), NEW role \in Roles, NEW was, orgs' = orgs,
         users' = (IF role = was THEN users ELSE SetUserRole(users, row, role))
  PROVE  PeopleGrow
<1>1. CASE role = was
  BY <1>1, PeopleSame
<1>2. CASE role # was
  <2>1. PICK us \in UserTable : us = users /\ Exists(us, row)
    BY DEF SignedIn, UsersOK, UserTable
  <2>2. PICK vs : vs = SetUserRole(us, row, role)
    OBVIOUS
  <2>3. Grows(us, vs) /\ \A r \in Rows : Exists(vs, r) => Exists(us, r)
    BY <2>1, <2>2, SetsRole
  <2> QED BY <1>2, <2>1, <2>2, <2>3, NoNewRows
<1> QED BY <1>1, <1>2

LEMMA SyncEachSigns == ASSUME TokenInv, SignInv, NEW h \in Slots, SyncEach(h) PROVE SignInv'
<1>1. task[h].pc = "each" /\ UNCHANGED <<orgs, creds, signups, setup, dir, over>>
  BY DEF SyncEach
<1>2. task[h] # Idle /\ Fine(task[h]) /\ DOMAIN task[h] = Fields
  BY <1>1, Here
<1>3. PICK t : t = task[h]
  OBVIOUS
<1>4. /\ t.op \in {"signin", "request"} /\ t.want \in Roles /\ t.role \in Roles /\ t.long \in BOOLEAN
      /\ \A r \in DOMAIN t.rest : Own(r, t.d) /\ t.rest[r] \in Roles
  BY <1>1, <1>2, <1>3 DEF Fine, Knows, Asked, Places
<1>5. Kept'
  BY <1>1, KeptStays DEF SignInv
<1>6. ASSUME UNCHANGED users PROVE PeopleGrow
  BY <1>1, <1>6, PeopleSame DEF SignInv
<1>7. CASE Run(h, [t EXCEPT !.pc = IF t.op = "signin" THEN "remember" ELSE "route"]) /\ UNCHANGED users
  <2>1. PICK pc : pc = IF t.op = "signin" THEN "remember" ELSE "route"
    OBVIOUS
  <2>2. pc \in Places(t.op) /\ pc \notin Early /\ t.pc \notin Early /\ pc \in {"remember", "route"}
    BY <1>1, <1>3, <1>4, <2>1 DEF Places, Early
  <2>3. Goto(h, pc)
    BY <1>3, <1>7, <2>1 DEF Goto
  <2> QED BY <1>1, <1>3, <1>5, <1>6, <1>7, <2>2, <2>3, JustGoes
<1>8. ASSUME NEW row \in DOMAIN t.rest, NEW role,
             role = SyncedRole(Providers, orgs, row, t.mail, t.rest[row], t.want),
             users' = IF role = t.rest[row] THEN users ELSE SetUserRole(users, row, role),
             Run(h, [t EXCEPT !.rest = [r \in DOMAIN t.rest \ {row} |-> t.rest[r]]])
      PROVE SignInv'
  <2>1. Own(row, t.d) /\ t.rest[row] \in Roles
    BY <1>4
  <2>2. role \in Roles /\ row \in Rows /\ Exists(users, row)
    BY <1>4, <1>8, <2>1, SyncedIn DEF Own
  <2>3. PeopleGrow
    BY <1>1, <1>8, <2>2, GivesOne DEF SignInv
  <2>4. PICK rest : rest = [r \in DOMAIN t.rest \ {row} |-> t.rest[r]]
    OBVIOUS
  <2>5. PICK u : u = [t EXCEPT !.rest = rest] /\ Run(h, u)
    BY <1>8, <2>4
  <2>6. /\ u.pc = "each" /\ u.d = t.d /\ u.op = t.op /\ u.row = t.row /\ u.via = t.via /\ u.arg = t.arg
        /\ u.flow = t.flow /\ u.want = t.want /\ u.role = t.role /\ u.long = t.long /\ u.rest = rest
    BY <1>1, <1>2, <1>3, <2>5 DEF Fields
  <2>7. \A r \in DOMAIN rest : Own(r, t.d) /\ rest[r] \in Roles
    BY <1>4, <2>4
  <2> QED BY <1>1, <1>2, <1>3, <1>4, <1>5, <2>3, <2>5, <2>6, <2>7, EachGoes
<1>9. CASE t.op = "request" /\ Run(h, [t EXCEPT !.pc = "route", !.rest = NoRest]) /\ UNCHANGED users
  <2>1. PICK u, rest : rest = NoRest /\ u = [t EXCEPT !.pc = "route", !.rest = rest]
    OBVIOUS
  <2>2. Run(h, u)
    BY <1>9, <2>1
  <2>3. Goes(t, u)
    BY <1>1, <1>2, <1>3, <1>4, <1>9, <2>1 DEF Goes, Fields, Places, Early
  <2> QED BY <1>1, <1>2, <1>3, <1>5, <1>6, <1>9, <2>2, <2>3, GoesOn
<1>10. \/ Run(h, [t EXCEPT !.pc = IF t.op = "signin" THEN "remember" ELSE "route"]) /\ UNCHANGED users
       \/ \E row \in DOMAIN t.rest : \E role :
             /\ role = SyncedRole(Providers, orgs, row, t.mail, t.rest[row], t.want)
             /\ users' = IF role = t.rest[row] THEN users ELSE SetUserRole(users, row, role)
             /\ Run(h, [t EXCEPT !.rest = [r \in DOMAIN t.rest \ {row} |-> t.rest[r]]])
       \/ t.op = "request" /\ Run(h, [t EXCEPT !.pc = "route", !.rest = NoRest]) /\ UNCHANGED users
  BY <1>3, Zenon DEF SyncEach
<1> QED BY <1>7, <1>8, <1>9, <1>10

\* A request goes on, and its step leaves the people and the credentials alone.
LEMMA Learns ==
  ASSUME TokenInv, SignInv, NEW h \in Slots, NEW t, t = task[h], t.pc # "idle",
         UNCHANGED <<users, orgs, creds, signups, setup, dir, over>>, NEW u, Run(h, u), Goes(t, u)
  PROVE  SignInv'
<1>1. t # Idle
  BY Here
<1>2. PeopleGrow /\ Kept' /\ UNCHANGED <<creds, over>>
  BY DbSame
<1> QED BY <1>1, <1>2, GoesOn

LEMMA RememberSigns == ASSUME TokenInv, SignInv, NEW h \in Slots, Remember(h) PROVE SignInv'
<1>1. task[h].pc = "remember" /\ UNCHANGED <<users, orgs, creds, signups, setup, dir, over>>
  BY DEF Remember, ghosts
<1>2. Fine(task[h]) /\ DOMAIN task[h] = Fields
  BY <1>1, Here
<1>3. PICK t : t = task[h]
  OBVIOUS
<1>4. t.op \in {"signin", "create", "join"} /\ t.want \in Roles /\ t.role \in Roles /\ t.long \in BOOLEAN
  BY <1>1, <1>2, <1>3 DEF Fine, Knows, Places
<1>5. PICK u : u = [t EXCEPT !.pc = IF t.op = "join" THEN "sync" ELSE "ttl"] /\ Run(h, u)
  BY <1>3 DEF Remember, Goto
<1>6. Goes(t, u)
  BY <1>1, <1>2, <1>3, <1>4, <1>5 DEF Goes, Fields, Places, Early
<1> QED BY <1>1, <1>3, <1>5, <1>6, Learns

LEMMA TtlSigns == ASSUME TokenInv, SignInv, NEW h \in Slots, Ttl(h) PROVE SignInv'
<1>1. task[h].pc = "ttl" /\ UNCHANGED <<users, orgs, creds, signups, setup, dir, over>>
  BY DEF Ttl, db, ghosts
<1>2. Fine(task[h]) /\ DOMAIN task[h] = Fields
  BY <1>1, Here
<1>3. PICK t : t = task[h]
  OBVIOUS
<1>4. t.op \in {"signin", "create", "join", "local", "redeem"} /\ t.want \in Roles /\ t.role \in Roles
  BY <1>1, <1>2, <1>3 DEF Fine, Knows, Places
<1>5. PICK b \in BOOLEAN : b = LongSignIn(t.d)
  BY DEF LongSignIn
<1>6. PICK u : u = [t EXCEPT !.long = b, !.pc = IF t.op = "redeem" THEN "token" ELSE "session"] /\ Run(h, u)
  BY <1>3, <1>5 DEF Ttl
<1>7. Goes(t, u)
  BY <1>1, <1>2, <1>3, <1>4, <1>6 DEF Goes, Fields, Places, Early
<1> QED BY <1>1, <1>3, <1>6, <1>7, Learns

LEMMA ClaimSigns == ASSUME TokenInv, SignInv, NEW h \in Slots, Claim(h) PROVE SignInv'
<1>1. task[h].pc = "claim" /\ UNCHANGED <<users, orgs, creds, signups, setup, dir, over>>
  BY DEF Claim, ghosts
<1>2. Fine(task[h]) /\ DOMAIN task[h] = Fields
  BY <1>1, Here
<1>3. PICK t : t = task[h]
  OBVIOUS
<1>4. t.op = "request" /\ t.want \in Roles /\ t.role \in Roles /\ t.long \in BOOLEAN
  BY <1>1, <1>2, <1>3 DEF Fine, Knows, Places
<1>5. PICK u : /\ u = [t EXCEPT !.pc = "ask", !.tok = idents[t.d].token] \/ u = [t EXCEPT !.pc = "route"]
               /\ Run(h, u)
  BY <1>3 DEF Claim, Goto
<1>6. Goes(t, u)
  BY <1>1, <1>2, <1>3, <1>4, <1>5 DEF Goes, Fields, Places, Early
<1> QED BY <1>1, <1>3, <1>5, <1>6, Learns

LEMMA FailedSigns == ASSUME TokenInv, SignInv, NEW h \in Slots, Failed(h) PROVE SignInv'
<1>1. task[h].pc = "failed" /\ UNCHANGED <<users, orgs, creds, signups, setup, dir, over>>
  BY DEF Failed, ghosts
<1>2. Fine(task[h]) /\ DOMAIN task[h] = Fields
  BY <1>1, Here
<1>3. PICK t : t = task[h]
  OBVIOUS
<1>4. t.op = "request" /\ t.want \in Roles /\ t.role \in Roles /\ t.long \in BOOLEAN
  BY <1>1, <1>2, <1>3 DEF Fine, Knows, Places
<1>5. PICK u : (u = [t EXCEPT !.pc = "end"] \/ u = [t EXCEPT !.pc = "route"]) /\ Run(h, u)
  BY <1>3 DEF Failed, Goto
<1>6. Goes(t, u)
  BY <1>1, <1>2, <1>3, <1>4, <1>5 DEF Goes, Fields, Places, Early
<1> QED BY <1>1, <1>3, <1>5, <1>6, Learns

LEMMA RecordSigns == ASSUME TokenInv, SignInv, NEW h \in Slots, Record(h) PROVE SignInv'
<1>1. task[h].pc = "record" /\ UNCHANGED <<users, orgs, creds, signups, setup, dir, over>>
  BY DEF Record
<1>2. Fine(task[h]) /\ DOMAIN task[h] = Fields
  BY <1>1, Here
<1>3. PICK t : t = task[h]
  OBVIOUS
<1>4. t.op = "request" /\ t.want \in Roles /\ t.role \in Roles
  BY <1>1, <1>2, <1>3 DEF Fine, Knows, Places
<1>5. PICK u : u = [t EXCEPT !.pc = IF t.long THEN "route" ELSE "sync", !.long = FALSE] /\ Run(h, u)
  BY <1>3 DEF Record
<1>6. Goes(t, u)
  BY <1>1, <1>2, <1>3, <1>4, <1>5 DEF Goes, Fields, Places, Early
<1> QED BY <1>1, <1>3, <1>5, <1>6, Learns

\* What an answer makes of the request that asked.
LEMMA AskGoes ==
  ASSUME NEW h \in Slots, Ask(h)
  PROVE  \E k, w, u :
           /\ w \in Roles
           /\ \/ u = [task[h] EXCEPT !.pc = "end"] \/ u = [task[h] EXCEPT !.pc = "failed"]
              \/ u = [task[h] EXCEPT !.pc = "record", !.tok = k, !.long = TRUE]
              \/ u = [task[h] EXCEPT !.pc = "record", !.tok = k, !.want = w]
           /\ Run(h, u)
<1>1. PICK a, k : a \in Answers /\ Answered(h, Heard(task[h], a), k)
  BY Zenon DEF Ask
<1>2. RoleFor(ProviderOf(task[h].d), Heard(task[h], a)) \in Roles
  BY RoleForIn
<1>3. \/ Run(h, [task[h] EXCEPT !.pc = "end"]) \/ Run(h, [task[h] EXCEPT !.pc = "failed"])
      \/ Run(h, [task[h] EXCEPT !.pc = "record", !.tok = k, !.long = TRUE])
      \/ \E w \in Roles : Run(h, [task[h] EXCEPT !.pc = "record", !.tok = k, !.want = w])
  BY <1>1, <1>2, Zenon DEF Answered, Goto
<1> QED BY <1>2, <1>3, ZenonT(60)

LEMMA AskSigns == ASSUME TokenInv, SignInv, NEW h \in Slots, Ask(h) PROVE SignInv'
<1>1. task[h].pc = "ask" /\ UNCHANGED <<users, orgs, creds, signups, setup, dir, over>>
  BY DEF Ask, db
<1>2. Fine(task[h]) /\ DOMAIN task[h] = Fields
  BY <1>1, Here
<1>3. PICK t : t = task[h]
  OBVIOUS
<1>4. t.op = "request" /\ t.want \in Roles /\ t.role \in Roles /\ t.long \in BOOLEAN
  BY <1>1, <1>2, <1>3 DEF Fine, Knows, Places
<1>5. PICK k, w, u :
           /\ w \in Roles
           /\ \/ u = [t EXCEPT !.pc = "end"] \/ u = [t EXCEPT !.pc = "failed"]
              \/ u = [t EXCEPT !.pc = "record", !.tok = k, !.long = TRUE]
              \/ u = [t EXCEPT !.pc = "record", !.tok = k, !.want = w]
           /\ Run(h, u)
  BY <1>3, AskGoes, ZenonT(60)
<1>6. Goes(t, u)
  BY <1>1, <1>2, <1>3, <1>4, <1>5 DEF Goes, Fields, Places, Early
<1> QED BY <1>1, <1>3, <1>5, <1>6, Learns

-----------------------------------------------------------------------------
(* Credentials are made, handed over, moved and ended *)

LEMMA FreshCred ==
  ASSUME SignInv, Fresh(creds) # {}
  PROVE  FirstFresh(creds) \in CredIds /\ creds[FirstFresh(creds)] = Unused
<1>1. Fresh(creds) \subseteq CredIds /\ CredIds \subseteq Nat
  BY SignInAssumption DEF SignInv, SignedIn, CredsOK, Fresh
<1>2. PICK T : T = Fresh(creds)
  OBVIOUS
<1>3. \E i \in T : \A j \in T : i <= j
  <2>1. T \subseteq Nat /\ T # {}
    BY <1>1, <1>2
  <2> QED BY <2>1, Least
<1>4. FirstFresh(creds) \in Fresh(creds)
  BY <1>2, <1>3 DEF FirstFresh
<1> QED BY <1>1, <1>4 DEF Fresh

\* A new credential.
NewFor(c) == /\ c \in CredRow /\ Own(c.row, c.who)
             /\ c.from # 0 => c.from \in CredIds /\ creds[c.from] = Ended /\ Redeemed(c.from)
             /\ c.from \notin over

LEMMA CredMade ==
  ASSUME SignedIn, UNCHANGED <<users, orgs, over>>, NEW f \in CredIds, creds[f] = Unused,
         NEW c, NewFor(c), creds' = [creds EXCEPT ![f] = c]
  PROVE  SignedIn' /\ creds' \in CredTable /\ Ages(creds, creds') /\ Endings
<1>0. creds \in CredTable /\ PeopleGrow
  BY PeopleSame DEF SignedIn, CredsOK, CredTable
<1>1. creds'[f] = c /\ \A i \in CredIds : i # f => creds'[i] = creds[i]
  BY <1>0 DEF CredTable
<1>2. creds' \in CredTable
  BY <1>0 DEF CredTable, NewFor
<1>3. creds[f] # Ended /\ ~Live(creds, f)
  BY CredFacts DEF Live
<1>4. Ages(creds, creds') /\ Endings
  BY <1>1, <1>3 DEF Ages, Endings, Live
<1>5. Holds(f)'
  <2>1. c.row \in Rows /\ Exists(users, c.row) /\ users[c.row].ext = c.who /\ c.who \in ExternalIDs
        /\ c.from \in CredIds \cup {0}
    BY DEF NewFor, Own, CredRow
  <2>2. c.from # 0 => creds'[c.from] = Ended
    BY <1>1, <1>3 DEF NewFor
  <2>3. c.from \notin over'
    BY DEF NewFor
  <2> QED BY <1>1, <2>1, <2>2, <2>3 DEF Holds, Exists
<1>6. ASSUME NEW i \in CredIds, i # f, Live(creds', i) PROVE Holds(i)'
  <2>1. Live(creds, i) /\ creds'[i] = creds[i]
    BY <1>1, <1>6 DEF Live
  <2> QED BY <1>0, <1>4, <2>1, HoldsOn
<1>7. over' \subseteq {i \in CredIds : creds'[i] = Ended}
  BY <1>1, <1>3 DEF SignedIn
<1> QED BY <1>0, <1>2, <1>4, <1>5, <1>6, <1>7, CredsFine

\* A request makes a credential, and goes on as it was or ends.
LEMMA MakesCred ==
  ASSUME TokenInv, SignInv, UNCHANGED <<users, orgs, signups, dir, setup, over>>,
         NEW h \in Slots, task[h] # Idle, NEW f \in CredIds, creds[f] = Unused,
         NEW c, NewFor(c), creds' = [creds EXCEPT ![f] = c], NEW u, Run(h, u),
         u = Idle \/ (Goes(task[h], u) /\ task[h].op \notin {"request", "redeem"})
  PROVE  SignInv'
<1>1. SignedIn' /\ creds' \in CredTable /\ Ages(creds, creds') /\ Endings
  BY CredMade DEF SignInv
<1>2. PeopleGrow /\ Kept' /\ DOMAIN task = Slots /\ creds \in CredTable
  BY DbSame DEF TokenInv, Typed, SignInv, SignedIn, CredsOK, CredTable
<1>3. ASSUME NEW x \in CredIds, Redeemed(x)' PROVE Redeemed(x)
  <2>1. CASE \E i \in CredIds : Live(creds', i) /\ creds'[i].from = x
    <3>1. PICK i \in CredIds : Live(creds', i) /\ creds'[i].from = x
      BY <2>1
    <3>2. CASE i = f
      <4>1. c.from = x /\ x # 0
        BY <1>2, <3>1, <3>2, CredFacts DEF CredTable
      <4> QED BY <4>1 DEF NewFor
    <3>3. CASE i # f
      <4>1. Live(creds, i) /\ creds[i].from = x
        BY <1>2, <3>1, <3>3 DEF Live, CredTable
      <4> QED BY <4>1 DEF Redeemed
    <3> QED BY <3>2, <3>3
  <2>2. CASE \E g \in Slots : task'[g] # Idle /\ task'[g].op = "redeem" /\ task'[g].flow = x
    <3>1. PICK g \in Slots : task'[g] # Idle /\ task'[g].op = "redeem" /\ task'[g].flow = x
      BY <2>2
    <3>2. task'[h] = u /\ (u = Idle \/ u.op # "redeem")
      BY <1>2 DEF Run, Goes
    <3>3. task[g] = task'[g]
      BY <1>2, <3>1, <3>2 DEF Run
    <3> QED BY <3>1, <3>3 DEF Redeemed
  <2> QED BY <1>3, <2>1, <2>2 DEF Redeemed, Live
<1>4. Redeems
  BY <1>3 DEF Redeems
<1>5. ASSUME u # Idle PROVE Fine(u)' /\ (u.op = "request" => ~Redeemed(u.flow)')
  <2>1. PICK t : t = task[h]
    OBVIOUS
  <2>2. Fine(t) /\ Goes(t, u) /\ t.op \notin {"request", "redeem"}
    BY <1>5, <2>1 DEF SignInv, Good
  <2>3. Fine(t)'
    BY <1>1, <1>2, <2>2, FineStays DEF PeopleGrow
  <2>4. Knows(u)'
    BY <2>2, <2>3 DEF Knows, Goes, Own, Fine
  <2>5. Asked(u)'
    BY <2>2, <2>3 DEF Asked, Goes, Fine
  <2>6. Came(u)' /\ u.op # "request"
    BY <2>2 DEF Came, Goes
  <2> QED BY <2>4, <2>5, <2>6 DEF Fine
<1> QED BY <1>1, <1>2, <1>4, <1>5, StepKeeps

LEMMA StartSessionSigns == ASSUME TokenInv, SignInv, NEW h \in Slots, StartSession(h) PROVE SignInv'
<1>1. task[h].pc = "session" /\ UNCHANGED <<users, orgs, signups, setup, dir, over>> /\ Fresh(creds) # {}
  BY DEF StartSession, ghosts
<1>2. task[h] # Idle /\ Fine(task[h]) /\ DOMAIN task[h] = Fields
  BY <1>1, Here
<1>3. PICK t : t = task[h]
  OBVIOUS
<1>4. /\ t.op \in {"signin", "create", "join", "local"} /\ t.want \in Roles /\ t.role \in Roles
      /\ t.long \in BOOLEAN /\ t.d \in ExternalIDs /\ Own(t.row, t.d)
  BY <1>1, <1>2, <1>3 DEF Fine, Knows, Places, Early
<1>5. PICK f \in CredIds : f = FirstFresh(creds) /\ creds[f] = Unused
  BY <1>1, FreshCred
<1>6. PICK c : c = NewCred("session", [t EXCEPT !.flow = 0])
  OBVIOUS
<1>7. c = [kind |-> "session", row |-> t.row, who |-> t.d, long |-> t.long, from |-> 0]
  BY <1>2, <1>3, <1>6 DEF NewCred, Fields
<1>8. NewFor(c)
  <2>1. 0 \notin over
    BY CredFacts DEF SignInv, SignedIn
  <2> QED BY <1>4, <1>7, <2>1 DEF NewFor, CredRow, Own
<1>9. creds' = [creds EXCEPT ![f] = c]
  BY <1>3, <1>5, <1>6 DEF StartSession
<1>10. PICK u : Run(h, u) /\ (u = Idle \/ u = [t EXCEPT !.pc = "code"])
  BY <1>3 DEF StartSession, Goto, Done
<1>11. u = Idle \/ Goes(t, u)
  BY <1>1, <1>2, <1>3, <1>4, <1>10 DEF Goes, Fields, Places, Early
<1> QED BY <1>1, <1>2, <1>3, <1>4, <1>5, <1>8, <1>9, <1>10, <1>11, MakesCred

LEMMA CliHandOverSigns == ASSUME TokenInv, SignInv, NEW h \in Slots, CliHandOver(h) PROVE SignInv'
<1>1. task[h].pc = "code" /\ UNCHANGED <<users, orgs, signups, setup, dir, over>> /\ Fresh(creds) # {}
  BY DEF CliHandOver, ghosts
<1>2. task[h] # Idle /\ Fine(task[h]) /\ DOMAIN task[h] = Fields
  BY <1>1, Here
<1>3. PICK t : t = task[h]
  OBVIOUS
<1>4. t.op # "key" /\ t.long \in BOOLEAN /\ t.d \in ExternalIDs /\ Own(t.row, t.d)
  BY <1>1, <1>2, <1>3 DEF Fine, Knows, Places, Early
<1>5. PICK f \in CredIds : f = FirstFresh(creds) /\ creds[f] = Unused
  BY <1>1, FreshCred
<1>6. PICK c : c = NewCred("code", [t EXCEPT !.flow = 0])
  OBVIOUS
<1>7. c = [kind |-> "code", row |-> t.row, who |-> t.d, long |-> t.long, from |-> 0]
  BY <1>2, <1>3, <1>6 DEF NewCred, Fields
<1>8. NewFor(c)
  <2>1. 0 \notin over
    BY CredFacts DEF SignInv, SignedIn
  <2> QED BY <1>4, <1>7, <2>1 DEF NewFor, CredRow, Own
<1>9. creds' = [creds EXCEPT ![f] = c]
  BY <1>3, <1>5, <1>6 DEF CliHandOver
<1>10. PICK u : Run(h, u) /\ u = Idle
  BY DEF CliHandOver, Done
<1> QED BY <1>1, <1>2, <1>5, <1>8, <1>9, <1>10, MakesCred

LEMMA CreateTokenSigns == ASSUME TokenInv, SignInv, NEW h \in Slots, CreateToken(h) PROVE SignInv'
<1>1. task[h].pc = "token" /\ UNCHANGED <<users, orgs, signups, setup, dir, over>> /\ Fresh(creds) # {}
  BY DEF CreateToken, ghosts
<1>2. task[h] # Idle /\ Fine(task[h]) /\ DOMAIN task[h] = Fields
  BY <1>1, Here
<1>3. PICK t : t = task[h]
  OBVIOUS
<1>4. t.op = "redeem" /\ t.long \in BOOLEAN /\ t.d \in ExternalIDs /\ Own(t.row, t.d)
  BY <1>1, <1>2, <1>3 DEF Fine, Knows, Places, Early
<1>5. PICK f \in CredIds : f = FirstFresh(creds) /\ creds[f] = Unused
  BY <1>1, FreshCred
<1>6. PICK c : c = NewCred("token", t)
  OBVIOUS
<1>7. c = [kind |-> "token", row |-> t.row, who |-> t.d, long |-> t.long, from |-> t.flow]
  BY <1>6 DEF NewCred
<1>8. NewFor(c)
  <2>1. t.flow \in CredIds /\ creds[t.flow] = Ended /\ t.flow \notin over
    BY <1>2, <1>3, <1>4 DEF Fine, Came
  <2>2. Redeemed(t.flow)
    BY <1>2, <1>3, <1>4 DEF Redeemed
  <2>3. c \in CredRow /\ c.row = t.row /\ c.who = t.d /\ c.from = t.flow
    BY <1>4, <1>7, <2>1 DEF CredRow, Own
  <2> QED BY <1>4, <2>1, <2>2, <2>3 DEF NewFor
<1>9. creds' = [creds EXCEPT ![f] = c]
  BY <1>3, <1>5, <1>6 DEF CreateToken
<1>10. PICK u : Run(h, u) /\ u = Idle
  BY DEF CreateToken, Done
<1> QED BY <1>1, <1>2, <1>5, <1>8, <1>9, <1>10, MakesCred

-----------------------------------------------------------------------------
(* Requests begin *)

LEMMA BeginSigns ==
  ASSUME TokenInv, SignInv, NEW h \in Slots, task[h] = Idle, NEW u, Run(h, u), PeopleGrow, Kept',
         UNCHANGED <<creds, over>>,
         u = Idle \/ (u.op \notin {"request", "redeem"} /\ Knows(u)' /\ Asked(u)')
  PROVE  SignInv'
<1>1. SignedIn' /\ creds' \in CredTable /\ Ages(creds, creds') /\ Endings /\ DOMAIN task = Slots
  BY CredsStay DEF SignInv, TokenInv, Typed
<1>2. \A i \in CredIds : Live(creds', i) => Live(creds, i) /\ creds'[i].from = creds[i].from
  BY DEF Live
<1>3. Redeems
  BY <1>1, <1>2, NoneRedeemed
<1>4. u # Idle => Fine(u)' /\ u.op # "request"
  BY DEF Fine, Came
<1> QED BY <1>1, <1>3, <1>4, StepKeeps

LEMMA IdentsOut == Idents \subseteq ExternalIDs /\ OperatorKey \in ExternalIDs /\ "member" \in Roles
                   /\ "operator" \in Roles /\ "admin" \in Roles
BY DEF ExternalIDs, Roles

LEMMA CallbackSigns ==
  ASSUME TokenInv, SignInv, NEW h \in Slots, NEW f \in FlowIds, NEW d \in Idents, Callback(h, f, d)
  PROVE  SignInv'
<1>1. task[h] = Idle /\ UNCHANGED <<users, orgs, creds, signups, setup, dir, over>>
  BY DEF Callback, Begin
<1>2. PeopleGrow /\ Kept'
  BY <1>1, DbSame
<1>3. PICK u : Run(h, u) /\ (u = Idle \/ u = SignInTask(d, "exchange", 0, flows[f].cli))
  BY DEF Callback, Done
<1>4. ASSUME u # Idle PROVE u.op \notin {"request", "redeem"} /\ Knows(u)' /\ Asked(u)'
  <2>1. PICK pc, flow, cli : pc = "exchange" /\ flow = 0 /\ cli = flows[f].cli
    OBVIOUS
  <2>2. u = SignInTask(d, pc, flow, cli)
    BY <1>3, <1>4, <2>1
  <2>3. /\ u.pc = "exchange" /\ u.d = d /\ u.op = "signin" /\ u.want = "member"
        /\ u.role = "member" /\ u.long = FALSE /\ u.via = "none"
    BY <2>1, <2>2 DEF SignInTask
  <2> QED BY <2>3, IdentsOut DEF Knows, Asked, Places, Early
<1> QED BY <1>1, <1>2, <1>3, <1>4, BeginSigns

LEMMA PasswordSigns ==
  ASSUME TokenInv, SignInv, NEW h \in Slots, NEW f, NEW d \in Idents, PasswordSignIn(h, f, d)
  PROVE  SignInv'
<1>1. task[h] = Idle /\ UNCHANGED <<users, orgs, creds, signups, setup, dir, over>>
  BY DEF PasswordSignIn, Begin, db
<1>2. PeopleGrow /\ Kept'
  BY <1>1, DbSame
<1>3. PICK pc, cli, u : pc = "password" /\ u = SignInTask(d, pc, f, cli) /\ Run(h, u)
  BY DEF PasswordSignIn
<1>4. /\ u.pc = "password" /\ u.d = d /\ u.op = "signin" /\ u.want = "member"
      /\ u.role = "member" /\ u.long = FALSE /\ u.via = "none"
  BY <1>3 DEF SignInTask
<1>5. u.op \notin {"request", "redeem"} /\ Knows(u)' /\ Asked(u)'
  BY <1>4, IdentsOut DEF Knows, Asked, Places, Early
<1> QED BY <1>1, <1>2, <1>3, <1>5, BeginSigns

LEMMA RoutesFine == ASSUME TokenInv, NEW arg \in setup.routes PROVE RouteOK(arg)
<1>1. PICK s \in Setups : setup.routes = s.routes
  BY DEF TokenInv, Typed, SetupOK
<1> QED BY <1>1, SignInAssumption

LEMMA KeyRequestSigns ==
  ASSUME TokenInv, SignInv, NEW h \in Slots, NEW arg \in setup.routes, KeyRequest(h, arg)
  PROVE  SignInv'
<1>1. task[h] = Idle /\ UNCHANGED <<users, orgs, creds, signups, setup, dir, over>>
  BY DEF KeyRequest, Begin, db
<1>2. PeopleGrow /\ Kept'
  BY <1>1, DbSame
<1>3. PICK s : s = SignInTask(OperatorKey, "route", 0, FALSE)
  OBVIOUS
<1>4. PICK u : /\ u = [s EXCEPT !.op = "key", !.role = "operator", !.arg = arg, !.via = "key"]
               /\ Run(h, u)
  BY <1>3 DEF KeyRequest
<1>5. /\ u.pc = "route" /\ u.d = OperatorKey /\ u.op = "key" /\ u.want = "member"
      /\ u.role = "operator" /\ u.long = FALSE /\ u.via = "key" /\ u.arg = arg
  BY <1>3, <1>4 DEF SignInTask
<1>6. RouteOK(arg)
  BY RoutesFine
<1>7. u.op \notin {"request", "redeem"} /\ Knows(u)' /\ Asked(u)'
  BY <1>5, <1>6, IdentsOut DEF Knows, Asked, Places, Early
<1> QED BY <1>1, <1>2, <1>4, <1>7, BeginSigns

LEMMA LocalLoginSigns == ASSUME TokenInv, SignInv, NEW h \in Slots, LocalLogin(h) PROVE SignInv'
<1>1. task[h] = Idle /\ UNCHANGED <<creds, signups, setup, dir, over>>
  BY DEF LocalLogin, Begin
<1>2. Kept'
  BY <1>1, KeptStays DEF SignInv
<1>3. users \in UserTable /\ orgs \subseteq Orgs
  BY DEF SignInv, SignedIn, UsersOK, UserTable
<1>4. PICK o \in OperatorKeyOrg :
         LET res == LinkUser(users, o, LocalEmail, OperatorKey, "operator")
         IN  IF OK(res)
             THEN /\ users' = res.users
                  /\ orgs' = orgs \cup {o}
                  /\ Run(h, [SignInTask(OperatorKey, "sync", 0, FALSE) EXCEPT
                               !.op = "local", !.row = res.row, !.mail = LocalEmail,
                               !.want = "operator", !.role = res.users[res.row].role])
             ELSE UNCHANGED <<orgs, users>> /\ Done(h)
  BY DEF LocalLogin
<1>5. o \in Orgs
  BY <1>3, <1>4, RowFacts DEF OperatorKeyOrg, RowsOf
<1>6. PICK us, email, ext, role, res : /\ us = users /\ email = LocalEmail /\ ext = OperatorKey /\ role = "operator"
                                       /\ res = LinkUser(us, o, email, ext, role)
  OBVIOUS
<1>7. us \in UserTable /\ email \in Emails /\ ext \in ExternalIDs /\ role \in Roles
  BY <1>3, <1>6, IdentsOut, SignInAssumption
<1>8. CASE ~OK(res)
  <2>1. UNCHANGED <<orgs, users>> /\ Done(h)
    BY <1>4, <1>6, <1>8
  <2>2. PICK u : u = Idle /\ Run(h, u)
    BY <2>1 DEF Done
  <2>3. PeopleGrow
    BY <2>1, PeopleSame DEF SignInv
  <2> QED BY <1>1, <1>2, <2>2, <2>3, BeginSigns
<1>9. CASE OK(res)
  <2>1. /\ Grows(us, res.users) /\ res.row \in Rows /\ OrgOf(res.row) = o
        /\ Exists(res.users, res.row) /\ res.users[res.row].ext = ext
        /\ MakesOne(us, res.users, res.row, role)
    BY <1>5, <1>6, <1>7, <1>9, Linked
  <2>2. PICK s : s = SignInTask(OperatorKey, "sync", 0, FALSE)
    OBVIOUS
  <2>3. PICK u : /\ users' = res.users /\ orgs' = orgs \cup {o} /\ Run(h, u)
                 /\ u = [s EXCEPT !.op = "local", !.row = res.row, !.mail = LocalEmail,
                                  !.want = "operator", !.role = res.users[res.row].role]
    BY <1>4, <1>6, <1>9, <2>2
  <2>4. PeopleGrow
    <3>1. \A row \in Rows : Exists(users', row) /\ ~Exists(users, row) => OrgOf(row) = o
      BY <1>6, <2>1, <2>3 DEF MakesOne
    <3> QED BY <1>3, <1>5, <1>6, <2>1, <2>3, <3>1 DEF PeopleGrow
  <2>5. res.users[res.row] \in UserRow
    BY <2>1, RowFacts DEF Grows
  <2>6. /\ u.pc = "sync" /\ u.d = OperatorKey /\ u.op = "local" /\ u.want = "operator" /\ u.row = res.row
        /\ u.role \in Roles /\ u.long = FALSE /\ u.via = "none"
    BY <2>2, <2>3, <2>5 DEF SignInTask, UserRow
  <2>7. Own(u.row, u.d)'
    BY <1>6, <2>1, <2>3, <2>6 DEF Own, Exists
  <2>8. u.op \notin {"request", "redeem"} /\ Knows(u)' /\ Asked(u)'
    BY <2>6, <2>7, IdentsOut DEF Knows, Asked, Places, Early
  <2> QED BY <1>1, <1>2, <2>3, <2>4, <2>8, BeginSigns
<1> QED BY <1>8, <1>9

LEMMA RequestSigns ==
  ASSUME TokenInv, SignInv, NEW h \in Slots, NEW i \in CredIds, NEW arg \in setup.routes, Request(h, i, arg)
  PROVE  SignInv'
<1>1. /\ task[h] = Idle /\ UNCHANGED <<users, orgs, creds, signups, setup, dir, over>>
      /\ Live(creds, i) /\ creds[i].kind # "code"
  BY DEF Request, Begin, db, Lookup
<1>2. PeopleGrow /\ Kept' /\ DOMAIN task = Slots
  BY <1>1, DbSame DEF TokenInv, Typed
<1>3. creds \in CredTable /\ creds[i] \in CredRow /\ Holds(i) /\ users \in UserTable
  BY <1>1, CredFacts, CredHolds DEF SignInv, SignedIn, CredsOK, CredTable, UsersOK, UserTable
<1>4. PICK c, row : c = creds[i] /\ row = c.row
  OBVIOUS
<1>5. /\ row \in Rows /\ Exists(users, row) /\ users[row].ext = c.who /\ c.who \in ExternalIDs
      /\ c.kind \in {"session", "token"}
  BY <1>1, <1>3, <1>4 DEF Holds, CredRow
<1>6. users[row] \in UserRow
  BY <1>3, <1>5, RowFacts
<1>7. PICK s : s = SignInTask(users[row].ext, "route", i, FALSE)
  OBVIOUS
<1>8. PICK r : r = [s EXCEPT !.op = "request", !.row = row, !.role = users[row].role,
                             !.mail = users[row].email, !.arg = arg, !.via = c.kind]
  OBVIOUS
<1>9. PICK u : (u = r \/ u = [r EXCEPT !.pc = "claim"]) /\ Run(h, u)
  BY <1>4, <1>7, <1>8 DEF Request, RequestTask
<1>10. /\ u.pc \in {"route", "claim"} /\ u.d = c.who /\ u.op = "request" /\ u.want = "member" /\ u.row = row
       /\ u.role \in Roles /\ u.long = FALSE /\ u.via = c.kind /\ u.arg = arg /\ u.flow = i
  BY <1>5, <1>6, <1>7, <1>8, <1>9, ZenonT(60) DEF SignInTask, UserRow
<1>11. Own(u.row, u.d)'
  BY <1>1, <1>5, <1>10 DEF Own, Exists
<1>12. RouteOK(arg)
  BY RoutesFine
<1>13. Knows(u)'
  BY <1>5, <1>10, <1>11, IdentsOut DEF Knows, Places, Early
<1>14. Asked(u)'
  BY <1>10, <1>12 DEF Asked
<1>15. Came(u)'
  BY <1>1, <1>4, <1>10 DEF Came, Live
<1>16. SignedIn' /\ creds' \in CredTable /\ Ages(creds, creds') /\ Endings
  BY <1>1, <1>2, CredsStay DEF SignInv
<1>17. \A j \in CredIds : Live(creds', j) => Live(creds, j) /\ creds'[j].from = creds[j].from
  BY <1>1 DEF Live
<1>18. Redeems /\ \A f \in CredIds : Redeemed(f)' => Redeemed(f)
  BY <1>2, <1>9, <1>10, <1>17, NoneRedeemed
<1>19. ~Redeemed(u.flow)'
  BY <1>1, <1>10, <1>18, LiveNotRedeemed
<1>20. Fine(u)'
  BY <1>13, <1>14, <1>15 DEF Fine
<1> QED BY <1>2, <1>9, <1>16, <1>18, <1>19, <1>20, StepKeeps

LEMMA CliTokenSigns ==
  ASSUME TokenInv, SignInv, NEW h \in Slots, NEW i \in CredIds, NEW proof \in BOOLEAN, CliToken(h, i, proof)
  PROVE  SignInv'
<1>1. /\ task[h] = Idle /\ UNCHANGED <<users, orgs, signups, setup, dir, over>>
      /\ Live(creds, i) /\ creds[i].kind = "code" /\ creds' = [creds EXCEPT ![i] = Ended]
  BY DEF CliToken, Begin
<1>2. PeopleGrow /\ Kept' /\ DOMAIN task = Slots
  BY <1>1, DbSame DEF TokenInv, Typed
<1>3. creds \in CredTable /\ creds[i] \in CredRow /\ Holds(i) /\ users \in UserTable
  BY <1>1, CredFacts, CredHolds DEF SignInv, SignedIn, CredsOK, CredTable, UsersOK, UserTable
<1>4. PICK c, row, which : c = creds[i] /\ row = c.row /\ which = {i}
  OBVIOUS
<1>5. row \in Rows /\ Exists(users, row) /\ users[row].ext = c.who /\ c.who \in ExternalIDs
  BY <1>3, <1>4 DEF Holds
<1>6. creds' = DeleteCreds(creds, which) /\ creds'[i] = Ended /\ \A j \in CredIds : j # i => creds'[j] = creds[j]
  BY <1>1, <1>3, <1>4 DEF DeleteCreds, CredTable
<1>7. SignedIn' /\ creds' \in CredTable /\ Ages(creds, creds') /\ Endings
  BY <1>1, <1>2, <1>6, CredsEnd DEF SignInv
<1>8. PICK s : s = SignInTask(users[row].ext, "ttl", i, FALSE)
  OBVIOUS
<1>9. PICK u : (u = Idle \/ u = [s EXCEPT !.op = "redeem", !.row = row]) /\ Run(h, u)
  BY <1>4, <1>8 DEF CliToken, Done
<1>10. u # Idle => /\ u.pc = "ttl" /\ u.d = c.who /\ u.op = "redeem" /\ u.want = "member" /\ u.row = row
                   /\ u.role = "member" /\ u.long = FALSE /\ u.via = "none" /\ u.flow = i
  BY <1>5, <1>8, <1>9 DEF SignInTask
<1>11. ASSUME u # Idle PROVE Fine(u)'
  <2>1. Own(u.row, u.d)'
    BY <1>1, <1>5, <1>10, <1>11 DEF Own, Exists
  <2>2. Knows(u)'
    BY <1>5, <1>10, <1>11, <2>1, IdentsOut DEF Knows, Places, Early
  <2>3. Asked(u)'
    BY <1>10, <1>11 DEF Asked
  <2>4. i \notin over
    BY <1>1 DEF SignInv, SignedIn, Live
  <2>5. Came(u)'
    BY <1>1, <1>6, <1>10, <1>11, <2>4 DEF Came
  <2> QED BY <2>2, <2>3, <2>5 DEF Fine
<1>12. Redeems
  <2>1. ASSUME NEW f \in CredIds, Redeemed(f)', f # i PROVE Redeemed(f)
    <3>1. CASE \E j \in CredIds : Live(creds', j) /\ creds'[j].from = f
      <4>1. PICK j \in CredIds : Live(creds', j) /\ creds'[j].from = f
        BY <3>1
      <4>2. Live(creds, j) /\ creds[j].from = f
        BY <1>6, <4>1 DEF Live
      <4> QED BY <4>2 DEF Redeemed
    <3>2. CASE \E g \in Slots : task'[g] # Idle /\ task'[g].op = "redeem" /\ task'[g].flow = f
      <4>1. PICK g \in Slots : task'[g] # Idle /\ task'[g].op = "redeem" /\ task'[g].flow = f
        BY <3>2
      <4>2. task'[h] = u
        BY <1>2, <1>9 DEF Run
      <4>3. task[g] = task'[g]
        BY <1>2, <1>9, <1>10, <2>1, <4>1, <4>2 DEF Run
      <4> QED BY <4>1, <4>3 DEF Redeemed
    <3> QED BY <2>1, <3>1, <3>2 DEF Redeemed, Live
  <2> QED BY <1>1, <2>1 DEF Redeems
<1> QED BY <1>2, <1>7, <1>9, <1>10, <1>11, <1>12, StepKeeps

\* A sign-up is completed.
LEMMA SignedUp ==
  ASSUME TokenInv, SignInv, NEW h \in Slots, task[h] = Idle, NEW s \in SignupIds, signups[s] # Nobody,
         NEW op \in {"create", "join"}, NEW row, NEW role \in Roles, NEW d, d = signups[s].d, PeopleGrow, Own(row, d)',
         Run(h, SignUpTask(signups[s], op, row, role)), signups' = [signups EXCEPT ![s] = Nobody],
         UNCHANGED <<creds, over, dir, setup>>
  PROVE  SignInv'
<1>1. PICK su : su = signups[s]
  OBVIOUS
<1>2. su.want \in Roles /\ DOMAIN signups = SignupIds /\ d \in Idents
  BY <1>1 DEF SignInv, Kept, TokenInv, Typed
<1>3. Kept'
  BY <1>2 DEF SignInv, Kept
<1>4. PICK u : u = SignUpTask(su, op, row, role) /\ Run(h, u)
  BY <1>1
<1>5. /\ u.pc = "remember" /\ u.d = d /\ u.op = op /\ u.want = su.want /\ u.row = row
      /\ u.role = role /\ u.long = FALSE /\ u.via = "none"
  BY <1>1, <1>4 DEF SignUpTask, SignInTask
<1>6. u.op \notin {"request", "redeem"} /\ Knows(u)' /\ Asked(u)'
  BY <1>2, <1>5, IdentsOut DEF Knows, Asked, Places, Early
<1> QED BY <1>3, <1>4, <1>6, BeginSigns

\* A sign-up makes an organisation that was not there, and its first row.
LEMMA OrgMade ==
  ASSUME TokenInv, SignInv, NEW h, NEW s \in SignupIds, signups[s] # Nobody, NEW o \in Orgs, CreateOrg(h, s, o),
         NEW row, row = <<o, signups[s].mail>>, NEW d, d = signups[s].d
  PROVE  \E role \in {"operator", "admin"} :
           /\ role = "operator" <=> signups[s].want = "operator"
           /\ row \in Rows /\ OrgOf(row) = o /\ Grows(users, users') /\ MakesOne(users, users', row, role)
           /\ ~Exists(users, row) /\ Exists(users', row) /\ users'[row].ext = d
           /\ appointed' = (IF role = "admin" THEN appointed \cup {row} ELSE appointed)
           /\ Run(h, SignUpTask(signups[s], "create", row, role))
<1>1. PICK role : role = IF signups[s].want = "operator" THEN "operator" ELSE "admin"
  OBVIOUS
<1>2. /\ o \notin orgs /\ users' = [users EXCEPT ![row] = User(signups[s].mail, d, role)]
      /\ Run(h, SignUpTask(signups[s], "create", row, role)) /\ Appoint(row, role, TRUE)
  BY <1>1 DEF CreateOrg
<1>3. signups[s].mail \in Emails /\ d \in Idents
  BY DEF SignInv, Kept, TokenInv, Typed
<1>4. row \in Rows /\ OrgOf(row) = o
  BY <1>3, RowFacts
<1>5. ~Exists(users, row) /\ users \in UserTable
  BY <1>2, <1>4 DEF SignInv, SignedIn, UsersOK, UserTable
<1>6. PICK us, w : us = users /\ w = User(signups[s].mail, d, role)
  OBVIOUS
<1>7. w \in UserRow /\ w.ext = d /\ w.role = role
  BY <1>1, <1>3, <1>6, IdentsOut, ANewUser
<1>8. PICK vs : vs = [us EXCEPT ![row] = w]
  OBVIOUS
<1>9. Grows(us, vs) /\ Exists(vs, row) /\ vs[row] = w /\ MakesOne(us, vs, row, w.role)
  <2>1. us \in UserTable /\ ~Exists(us, row) /\ row \in Rows /\ w \in UserRow
    BY <1>4, <1>5, <1>6, <1>7
  <2> QED BY <1>8, <2>1, Makes
<1>10. appointed' = (IF role = "admin" THEN appointed \cup {row} ELSE appointed)
  BY <1>2 DEF Appoint
<1>11. users' = vs
  BY <1>2, <1>6, <1>8
<1> QED BY <1>1, <1>2, <1>4, <1>5, <1>6, <1>7, <1>9, <1>10, <1>11

LEMMA CompleteSignupSigns ==
  ASSUME TokenInv, SignInv, NEW h \in Slots, NEW s \in SignupIds, CompleteSignup(h, s)
  PROVE  SignInv'
<1>1. task[h] = Idle /\ signups[s] # Nobody /\ UNCHANGED <<creds, setup, dir, over>>
  BY DEF CompleteSignup, Begin
<1>2. PICK d \in Idents : d = signups[s].d /\ users \in UserTable /\ orgs \subseteq Orgs
  BY <1>1 DEF SignInv, SignedIn, UsersOK, UserTable, TokenInv, Typed
<1>3. ASSUME NEW o \in Orgs, CreateOrg(h, s, o) PROVE SignInv'
  <2>1. PICK row : row = <<o, signups[s].mail>>
    OBVIOUS
  <2>2. PICK role \in {"operator", "admin"} :
           /\ row \in Rows /\ OrgOf(row) = o /\ Grows(users, users') /\ MakesOne(users, users', row, role)
           /\ Exists(users', row) /\ users'[row].ext = d
           /\ Run(h, SignUpTask(signups[s], "create", row, role))
    BY <1>1, <1>2, <1>3, <2>1, OrgMade
  <2>3. orgs' = orgs \cup {o} /\ signups' = [signups EXCEPT ![s] = Nobody]
    BY <1>3 DEF CreateOrg
  <2>4. PeopleGrow
    BY <1>2, <2>2, <2>3 DEF PeopleGrow, MakesOne
  <2>5. Own(row, d)' /\ role \in Roles
    BY <2>2, IdentsOut DEF Own, Exists
  <2>6. PICK op \in {"create", "join"} : op = "create"
    OBVIOUS
  <2>7. Run(h, SignUpTask(signups[s], op, row, role))
    BY <2>2, <2>6
  <2> QED BY <1>1, <1>2, <2>3, <2>4, <2>5, <2>7, SignedUp
<1>4. ASSUME JoinInvitation(h, s) PROVE SignInv'
  <2>1. PICK su, us, org, email : su = signups[s] /\ us = users /\ org = su.invited /\ email = su.mail
    OBVIOUS
  <2>2. PICK res : res = IF org = Nobody THEN Refused("gone") ELSE TakeInvitation(us, org, email, d)
    OBVIOUS
  <2>3. orgs' = orgs
    BY <1>4 DEF JoinInvitation
  <2>4. CASE OK(res)
    <3>1. res = TakeInvitation(us, org, email, d) /\ d \in ExternalIDs
      BY <2>2, <2>4, IdentsOut DEF OK, Refused
    <3>2. /\ Grows(us, res.users) /\ res.row \in Rows /\ Exists(us, res.row) /\ Exists(res.users, res.row)
          /\ res.users[res.row].ext = d /\ \A new, role : MakesOne(us, res.users, new, role)
      BY <1>2, <2>1, <2>4, <3>1, Taken
    <3>3. /\ users' = res.users /\ signups' = [signups EXCEPT ![s] = Nobody]
          /\ Run(h, SignUpTask(su, "join", res.row, res.users[res.row].role))
      BY <1>2, <1>4, <2>1, <2>2, <2>4 DEF JoinInvitation
    <3>4. \A row \in Rows : Exists(users', row) => Exists(users, row)
      <4>1. ASSUME NEW row \in Rows, Exists(users', row), ~Exists(users, row) PROVE FALSE
        <5>1. PICK a, b : a # row /\ MakesOne(us, res.users, a, b)
          <6>1. PICK a : a # row
            BY <3>2, <4>1, <2>1
          <6> QED BY <6>1, <3>2
        <5> QED BY <2>1, <3>3, <4>1, <5>1 DEF MakesOne
      <4> QED BY <4>1
    <3>5. PeopleGrow
      BY <2>1, <2>3, <3>2, <3>3, <3>4, NoNewRows DEF SignInv
    <3>6. PICK row, role, op : row = res.row /\ role = res.users[res.row].role /\ op = "join"
      OBVIOUS
    <3>7. role \in Roles
      <4>1. res.users[res.row] \in UserRow
        BY <3>2, RowFacts DEF Grows
      <4> QED BY <3>6, <4>1 DEF UserRow
    <3>8. Own(row, d)'
      BY <3>2, <3>3, <3>6 DEF Own, Exists
    <3>9. op \in {"create", "join"} /\ Run(h, SignUpTask(signups[s], op, row, role))
      BY <2>1, <3>3, <3>6
    <3> QED BY <1>1, <1>2, <3>3, <3>5, <3>7, <3>8, <3>9, SignedUp
  <2>5. CASE ~OK(res)
    <3>1. UNCHANGED <<users, signups>> /\ Done(h)
      BY <1>2, <1>4, <2>1, <2>2, <2>5 DEF JoinInvitation
    <3>2. PeopleGrow /\ Kept'
      BY <1>1, <2>3, <3>1, DbSame
    <3>3. PICK u : u = Idle /\ Run(h, u)
      BY <3>1 DEF Done
    <3> QED BY <1>1, <3>2, <3>3, BeginSigns
  <2> QED BY <2>4, <2>5
<1> QED BY <1>3, <1>4 DEF CompleteSignup

LEMMA EndLinkSigns == ASSUME TokenInv, SignInv, NEW h \in Slots, EndLink(h) PROVE SignInv'
<1>1. task[h].pc = "end" /\ Done(h) /\ UNCHANGED <<users, orgs, signups, setup, dir>>
  BY DEF EndLink
<1>2. task[h] # Idle /\ DOMAIN task = Slots
  BY <1>1, Here
<1>3. PeopleGrow /\ Kept'
  BY <1>1, DbSame
<1>4. CASE UNCHANGED <<creds, over>>
  BY <1>1, <1>2, <1>3, <1>4, JustDone
<1>5. CASE /\ creds' = DeleteSessionsWhere(creds, RowsOf(users, task[h].d))
           /\ over' = over \cup MineNow(task[h].d)
  <2>1. PICK which : which = CredsOf(creds, RowsOf(users, task[h].d))
    OBVIOUS
  <2>2. creds' = DeleteCreds(creds, which)
    BY <1>5, <2>1 DEF DeleteSessionsWhere
  <2>3. MineNow(task[h].d) \subseteq {i \in CredIds : i \in which /\ ~Redeemed(i)}
    <3>1. ASSUME NEW i \in MineNow(task[h].d) PROVE i \in CredIds /\ i \in which /\ ~Redeemed(i)
      <4>1. i \in CredIds /\ Live(creds, i) /\ creds[i].who = task[h].d
        BY DEF MineNow
      <4>2. Holds(i) /\ ~Redeemed(i) /\ DOMAIN creds = CredIds
        BY <4>1, CredHolds, LiveNotRedeemed DEF SignInv, SignedIn, CredsOK
      <4> QED BY <2>1, <4>1, <4>2 DEF CredsOf, RowsOf, Holds
    <3> QED BY <3>1
  <2> QED BY <1>1, <1>2, <1>3, <1>5, <2>2, <2>3, EndStep
<1> QED BY <1>4, <1>5 DEF EndLink

LEMMA LogoutSigns == ASSUME TokenInv, SignInv, NEW h \in Slots, Logout(h) PROVE SignInv'
<1>1. task[h].pc = "route" /\ UNCHANGED <<users, orgs, signups, setup, dir>>
  BY DEF Logout
<1>2. task[h] # Idle /\ DOMAIN task = Slots /\ Fine(task[h]) /\ Good(h)
  BY <1>1, Here
<1>3. PeopleGrow /\ Kept'
  BY <1>1, DbSame
<1>4. PICK t : t = task[h]
  OBVIOUS
<1>5. t.via = "key" <=> t.op = "key"
  BY <1>2, <1>4 DEF Fine, Knows
<1>6. t.op # "key" => t.op = "request"
  BY <1>1, <1>2, <1>4 DEF Fine, Knows, Places
<1>7. CASE t.via # "key" /\ t.arg.op = "everywhere"
  <2>1. Goto(h, "sessions") /\ UNCHANGED <<creds, over>>
    BY <1>4, <1>7 DEF Logout
  <2>2. PICK pc : pc = "sessions"
    OBVIOUS
  <2>3. pc \in Places(t.op) /\ pc \notin Early /\ t.pc \notin Early
    BY <1>1, <1>4, <1>5, <1>6, <1>7, <2>2 DEF Places, Early
  <2> QED BY <1>1, <1>3, <1>4, <1>5, <1>7, <2>1, <2>2, <2>3, JustGoes
<1>8. CASE ~(t.via # "key" /\ t.arg.op = "everywhere")
  <2>1. PICK which : which = IF t.via = "key" THEN {} ELSE {t.flow}
    OBVIOUS
  <2>2. creds' = DeleteCreds(creds, which) /\ over' = over \cup which /\ Done(h)
    BY <1>4, <1>8, <2>1 DEF Logout
  <2>3. \A i \in which : i \in CredIds /\ ~Redeemed(i)
    BY <1>2, <1>4, <1>5, <1>6, <2>1 DEF Fine, Came, Good
  <2> QED BY <1>2, <1>3, <2>2, <2>3, EndStep
<1> QED BY <1>7, <1>8

LEMMA SignOutSigns == ASSUME TokenInv, SignInv, NEW h \in Slots, SignOut(h) PROVE SignInv'
<1>1. task[h].pc \in {"sessions", "codes", "tokens"} /\ UNCHANGED <<users, orgs, signups, setup, dir>>
  BY DEF SignOut, KindIn
<1>2. task[h] # Idle /\ DOMAIN task = Slots /\ Fine(task[h]) /\ DOMAIN task[h] = Fields
  BY <1>1, Here
<1>3. PeopleGrow /\ Kept'
  BY <1>1, DbSame
<1>4. PICK t : t = task[h]
  OBVIOUS
<1>5. /\ t.op \in {"request", "key"} /\ t.want \in Roles /\ t.role \in Roles /\ t.long \in BOOLEAN
      /\ t.arg.op = "everywhere" => Own(t.row, t.d) /\ t.d \in ExternalIDs /\ t.op # "key"
  BY <1>1, <1>2, <1>4 DEF Fine, Knows, Asked, Places, Early
<1>6. PICK rows, kind : /\ rows = (IF t.arg.op = "everywhere" THEN PersonRows(users, t.row) ELSE {t.arg.row})
                        /\ kind = KindIn[t.pc]
  OBVIOUS
<1>7. PICK which : which = CredsIn(creds, rows, t.pc)
  OBVIOUS
<1>8. creds' = DeleteCreds(creds, which)
  BY <1>4, <1>6, <1>7 DEF SignOut
<1>9. over' \subseteq over \cup {i \in CredIds : i \in which /\ ~Redeemed(i)}
  <2>0. DOMAIN creds = CredIds
    BY DEF SignInv, SignedIn, CredsOK
  <2>1. CASE t.arg.op = "everywhere"
    <3>1. over' = over \cup {i \in MineNow(t.d) : creds[i].kind = kind}
      BY <1>4, <1>6, <2>1 DEF SignOut
    <3>2. users[t.row].ext = t.d /\ users[t.row].ext # NoExt
      BY <1>5, <2>1, RowFacts DEF Own
    <3>3. ASSUME NEW i \in MineNow(t.d), creds[i].kind = kind PROVE i \in CredIds /\ i \in which /\ ~Redeemed(i)
      <4>1. i \in CredIds /\ Live(creds, i) /\ creds[i].who = t.d
        BY DEF MineNow
      <4>2. Holds(i) /\ ~Redeemed(i)
        BY <4>1, CredHolds, LiveNotRedeemed DEF SignInv
      <4>3. creds[i].row \in rows
        BY <1>6, <2>1, <3>2, <4>1, <4>2 DEF PersonRows, RowsOf, Holds
      <4> QED BY <1>6, <1>7, <2>0, <3>3, <4>1, <4>2, <4>3 DEF CredsOf, CredsIn
    <3> QED BY <3>1, <3>3
  <2>2. CASE t.arg.op # "everywhere"
    <3>1. over' = over \cup {i \in CredsOf(creds, rows) : creds[i].kind = kind}
      BY <1>4, <1>6, <2>2 DEF SignOut
    <3>2. ASSUME NEW i \in CredsOf(creds, rows), creds[i].kind = kind
          PROVE i \in CredIds /\ i \in which /\ ~Redeemed(i)
      <4>1. i \in CredIds /\ Live(creds, i)
        BY <2>0 DEF CredsOf
      <4> QED BY <1>6, <1>7, <3>2, <4>1, LiveNotRedeemed DEF CredsIn
    <3> QED BY <3>1, <3>2
  <2> QED BY <2>1, <2>2
<1>10. CASE Done(h)
  BY <1>2, <1>3, <1>8, <1>9, <1>10, EndStep
<1>11. CASE t.pc \in DOMAIN TableAfter /\ Goto(h, TableAfter[t.pc])
  <2>1. PICK pc : pc = TableAfter[t.pc]
    OBVIOUS
  <2>2. pc \in {"codes", "tokens"}
    BY <1>11, <2>1 DEF TableAfter
  <2>3. PICK u : u = [t EXCEPT !.pc = pc] /\ Run(h, u)
    BY <1>4, <1>11, <2>1 DEF Goto
  <2>4. Goes(t, u)
    BY <1>1, <1>2, <1>4, <1>5, <2>2, <2>3 DEF Goes, Fields, Places, Early
  <2> QED BY <1>2, <1>3, <1>4, <1>8, <1>9, <2>3, <2>4, EndGoes
<1> QED BY <1>4, <1>10, <1>11 DEF SignOut

\* The row an administrator has been allowed to change.
LEMMA ToChange ==
  ASSUME TokenInv, SignInv, NEW h \in Slots, task[h].pc \in {"role", "disable", "enable"}
  PROVE  task[h].arg.row \in Rows /\ Exists(users, task[h].arg.row)
<1>1. Fine(task[h])
  BY Here
<1>2. PICK t : t = task[h]
  OBVIOUS
<1>3. t.arg.op = t.pc /\ Exists(users, t.arg.row) /\ t.op \in {"request", "key"}
  BY <1>1, <1>2 DEF Fine, Asked, Knows, Places
<1>4. RouteOK(t.arg)
  BY <1>1, <1>2, <1>3 DEF Fine, Asked
<1> QED BY <1>2, <1>3, <1>4 DEF RouteOK

LEMMA DisableSigns == ASSUME TokenInv, SignInv, NEW h \in Slots, DisableUser(h) PROVE SignInv'
<1>1. task[h].pc = "disable" /\ Done(h) /\ UNCHANGED <<orgs, signups, setup, dir>>
  BY DEF DisableUser
<1>2. task[h] # Idle /\ DOMAIN task = Slots
  BY <1>1, Here
<1>3. PICK row \in Rows : row = task[h].arg.row /\ Exists(users, row)
  BY <1>1, ToChange
<1>4. users \in UserTable
  BY DEF SignInv, SignedIn, UsersOK, UserTable
<1>5. PICK us, off, which : us = users /\ off = TRUE /\ which = CredsOf(creds, {row})
  OBVIOUS
<1>6. PICK vs : vs = [us EXCEPT ![row].off = off]
  OBVIOUS
<1>7. Grows(us, vs) /\ \A r \in Rows : Exists(vs, r) => Exists(us, r)
  BY <1>3, <1>4, <1>5, <1>6, Switches
<1>8. users' = vs /\ creds' = DeleteCreds(creds, which) /\ over' = over \cup which
  BY <1>3, <1>5, <1>6 DEF DisableUser, DeleteSessionsWhere
<1>9. PeopleGrow /\ Kept'
  BY <1>1, <1>5, <1>7, <1>8, NoNewRows, KeptStays DEF SignInv
<1>10. which \subseteq {i \in CredIds : i \in which /\ ~Redeemed(i)}
  BY <1>5, LiveNotRedeemed DEF CredsOf, SignInv, SignedIn, CredsOK
<1> QED BY <1>1, <1>2, <1>8, <1>9, <1>10, EndStep

LEMMA EnableSigns == ASSUME TokenInv, SignInv, NEW h \in Slots, EnableUser(h) PROVE SignInv'
<1>1. task[h].pc = "enable" /\ Done(h) /\ UNCHANGED <<orgs, signups, setup, dir, creds, over>>
  BY DEF EnableUser, ghosts
<1>2. task[h] # Idle
  BY <1>1, Here
<1>3. PICK row \in Rows : row = task[h].arg.row /\ Exists(users, row)
  BY <1>1, ToChange
<1>4. users \in UserTable
  BY DEF SignInv, SignedIn, UsersOK, UserTable
<1>5. PICK us, off : us = users /\ off = FALSE
  OBVIOUS
<1>6. PICK vs : vs = [us EXCEPT ![row].off = off]
  OBVIOUS
<1>7. Grows(us, vs) /\ \A r \in Rows : Exists(vs, r) => Exists(us, r)
  BY <1>3, <1>4, <1>5, <1>6, Switches
<1>8. users' = vs
  BY <1>3, <1>5, <1>6 DEF EnableUser
<1>9. PeopleGrow /\ Kept'
  BY <1>1, <1>5, <1>7, <1>8, NoNewRows, KeptStays DEF SignInv
<1> QED BY <1>1, <1>2, <1>9, JustDone

LEMMA UpdateSigns == ASSUME TokenInv, SignInv, NEW h \in Slots, UpdateUser(h) PROVE SignInv'
<1>1. task[h].pc = "role" /\ Goto(h, "sessions") /\ UNCHANGED <<orgs, signups, setup, dir, creds, over>>
  BY DEF UpdateUser
<1>2. Fine(task[h]) /\ task[h].arg.op = "role"
  BY <1>1, Here DEF Fine, Asked
<1>3. PICK row \in Rows : row = task[h].arg.row /\ Exists(users, row)
  BY <1>1, ToChange
<1>4. PICK us, role : us = users /\ role = task[h].arg.role
  OBVIOUS
<1>5. us \in UserTable /\ role \in Roles
  BY <1>1, <1>2, <1>4 DEF SignInv, SignedIn, UsersOK, UserTable, Fine, Asked, Assignable, Roles
<1>6. PICK vs : vs = SetUserRole(us, row, role)
  OBVIOUS
<1>7. Grows(us, vs) /\ \A r \in Rows : Exists(vs, r) => Exists(us, r)
  BY <1>3, <1>4, <1>5, <1>6, SetsRole
<1>8. users' = vs
  BY <1>3, <1>4, <1>6 DEF UpdateUser
<1>9. PeopleGrow /\ Kept'
  BY <1>1, <1>4, <1>7, <1>8, NoNewRows, KeptStays DEF SignInv
<1>10. PICK t, pc : t = task[h] /\ pc = "sessions"
  OBVIOUS
<1>11. pc \in Places(t.op) /\ pc \notin Early /\ t.pc \notin Early
  BY <1>1, <1>2, <1>10 DEF Fine, Knows, Places, Early
<1> QED BY <1>1, <1>2, <1>9, <1>10, <1>11, JustGoes

\* Of a request to act in another organisation.
LEMMA Switcher ==
  ASSUME TokenInv, SignInv, NEW h \in Slots, task[h].pc \in {"target", "carry", "move"}
  PROVE  /\ task[h].op = "request" /\ task[h] # Idle /\ Fine(task[h]) /\ DOMAIN task[h] = Fields
         /\ DOMAIN task = Slots /\ task[h].d \in ExternalIDs
<1>1. task[h] # Idle /\ Fine(task[h]) /\ DOMAIN task[h] = Fields /\ DOMAIN task = Slots
  BY Here
<1>2. task[h].op = "request" /\ task[h].d \in ExternalIDs
  BY <1>1 DEF Fine, Knows, Places
<1> QED BY <1>1, <1>2

LEMMA SwitchSigns == ASSUME TokenInv, SignInv, NEW h \in Slots, SwitchOrg(h) PROVE SignInv'
<1>1. task[h].pc = "route" /\ UNCHANGED <<users, orgs, creds, signups, setup, dir, over>>
  BY DEF SwitchOrg, db, ghosts
<1>2. task[h] # Idle /\ DOMAIN task = Slots /\ Fine(task[h]) /\ DOMAIN task[h] = Fields
  BY <1>1, Here
<1>3. PeopleGrow /\ Kept' /\ UNCHANGED <<creds, over>>
  BY <1>1, DbSame
<1>4. CASE Done(h)
  BY <1>2, <1>3, <1>4, JustDone
<1>5. CASE ~Done(h)
  <2>1. PICK t, cur : t = task[h] /\ cur = users[t.row]
    OBVIOUS
  <2>2. t.via # "key"
    BY <1>5, <2>1 DEF SwitchOrg
  <2>3. t.op = "request" /\ Own(t.row, t.d) /\ t.d \in ExternalIDs /\ t.want \in Roles /\ t.long \in BOOLEAN
    BY <1>1, <1>2, <2>1, <2>2 DEF Fine, Knows, Places, Early
  <2>4. users \in UserTable
    BY DEF SignInv, SignedIn, UsersOK, UserTable
  <2>5. cur \in UserRow /\ cur.ext = t.d
    BY <2>1, <2>3, <2>4, RowFacts DEF Own
  <2>6. PICK row \in Memberships(users, cur.ext, cur.email, VouchedByDirectory(cur.ext)) :
          Run(h, [t EXCEPT !.pc = "target", !.role = cur.role, !.mail = cur.email,
                           !.arg = [op |-> "switch", org |-> t.arg.org, to |-> row,
                                    invited |-> users[row].ext = NoExt]])
    BY <1>5, <2>1 DEF SwitchOrg
  <2>7. users[row].ext = NoExt \/ Own(row, t.d)
    BY <2>5, <2>6 DEF Memberships, RowsOf, Invited, Own
  <2>8. PICK a : a = [op |-> "switch", org |-> t.arg.org, to |-> row, invited |-> users[row].ext = NoExt]
    OBVIOUS
  <2>8a. a.to = row /\ (a.invited <=> users[row].ext = NoExt)
    BY <2>8, Zenon
  <2>9. PICK u : /\ u = [t EXCEPT !.pc = "target", !.role = cur.role, !.mail = cur.email, !.arg = a]
                 /\ Run(h, u)
    BY <2>6, <2>8
  <2>10. /\ u.pc = "target" /\ u.op = "request" /\ u.d = t.d /\ u.row = t.row /\ u.role = cur.role
         /\ u.want = t.want /\ u.long = t.long /\ u.via = t.via /\ u.flow = t.flow /\ u.arg = a
    BY <1>2, <2>1, <2>3, <2>9 DEF Fields
  <2>11. cur.role \in Roles
    BY <2>5 DEF UserRow
  <2>12. Own(u.row, u.d)' /\ (u.arg.invited \/ Own(u.arg.to, u.d)')
    <3>1. Own(u.row, u.d)'
      BY <1>1, <2>3, <2>10 DEF Own, Exists
    <3>2. Own(row, t.d) => Own(row, t.d)'
      BY <1>1 DEF Own, Exists
    <3> QED BY <2>7, <2>8a, <2>10, <3>1, <3>2
  <2>13. Knows(u)'
    BY <2>2, <2>3, <2>10, <2>11, <2>12 DEF Knows, Places, Early
  <2>14. Asked(u)'
    BY <2>10, <2>12 DEF Asked
  <2> QED BY <1>2, <1>3, <2>1, <2>9, <2>10, <2>3, <2>13, <2>14, PlainStep
<1> QED BY <1>4, <1>5

\* The row the request goes to, when it takes one.
LEMMA Targets ==
  ASSUME TokenInv, SignInv, NEW h \in Slots, task[h].pc = "target", NEW t, t = task[h], Target(h), ~Done(h)
  PROVE  \E to : /\ Grows(users, users') /\ \A r \in Rows : Exists(users', r) => Exists(users, r)
                 /\ Own(to, t.d)' /\ \A new, role : MakesOne(users, users', new, role)
                 /\ Run(h, [t EXCEPT !.pc = "carry",
                              !.arg = [op |-> "switch", to |-> to, was |-> users'[to].role]])
<1>1. Fine(t) /\ t.d \in ExternalIDs /\ users \in UserTable
  BY Switcher DEF SignInv, SignedIn, UsersOK, UserTable
<1>2. PICK us, org, email, d : us = users /\ org = t.arg.org /\ email = t.mail /\ d = t.d
  OBVIOUS
<1>3. PICK res : res = IF t.arg.invited THEN TakeInvitation(us, org, email, d)
                       ELSE [row |-> t.arg.to, users |-> us]
  OBVIOUS
<1>4. /\ OK(res) /\ users' = res.users
      /\ Run(h, [t EXCEPT !.pc = "carry",
                   !.arg = [op |-> "switch", to |-> res.row, was |-> users'[res.row].role]])
  BY <1>2, <1>3 DEF Target
<1>5. CASE t.arg.invited
  <2>1. /\ Grows(us, res.users) /\ res.row \in Rows /\ Exists(us, res.row) /\ Exists(res.users, res.row)
        /\ res.users[res.row].ext = d /\ \A new, role : MakesOne(us, res.users, new, role)
    <3>1. us \in UserTable /\ d \in ExternalIDs /\ res = TakeInvitation(us, org, email, d) /\ OK(res)
      BY <1>1, <1>2, <1>3, <1>4, <1>5
    <3> QED BY <3>1, Taken
  <2>2. \A row \in Rows : Exists(users', row) => Exists(users, row)
    <3>1. ASSUME NEW row \in Rows, Exists(users', row), ~Exists(users, row) PROVE FALSE
      <4>1. PICK a, b : a # row /\ MakesOne(us, res.users, a, b)
        <5>1. PICK a : a # row
          BY <1>2, <2>1, <3>1
        <5> QED BY <5>1, <2>1
      <4> QED BY <1>2, <1>4, <3>1, <4>1 DEF MakesOne
    <3> QED BY <3>1
  <2>3. Own(res.row, t.d)'
    BY <1>2, <1>4, <2>1 DEF Own, Exists
  <2> QED BY <1>2, <1>4, <2>1, <2>2, <2>3
<1>6. CASE ~t.arg.invited
  <2>1. res.row = t.arg.to /\ users' = users
    BY <1>2, <1>3, <1>4, <1>6
  <2>2. Own(t.arg.to, t.d)
    BY <1>1, <1>6 DEF Fine, Asked
  <2>3. Own(res.row, t.d)'
    BY <2>1, <2>2 DEF Own, Exists
  <2>4. Grows(users, users') /\ \A new, role : MakesOne(users, users', new, role)
    BY <1>1, <2>1 DEF Grows, MakesOne
  <2> QED BY <1>4, <2>1, <2>3, <2>4
<1> QED BY <1>5, <1>6

LEMMA TargetSigns == ASSUME TokenInv, SignInv, NEW h \in Slots, Target(h) PROVE SignInv'
<1>1. task[h].pc = "target" /\ UNCHANGED <<orgs, creds, signups, setup, dir, over>>
  BY DEF Target, ghosts
<1>2. /\ task[h].op = "request" /\ task[h] # Idle /\ Fine(task[h]) /\ DOMAIN task[h] = Fields
      /\ DOMAIN task = Slots /\ task[h].d \in ExternalIDs
  BY <1>1, Switcher
<1>3. Kept'
  BY <1>1, KeptStays DEF SignInv
<1>4. CASE Done(h)
  <2>1. UNCHANGED users
    <3>1. task'[h] = Idle
      BY <1>2, <1>4 DEF Done, Run
    <3>2. PICK t : t = task[h]
      OBVIOUS
    <3>3. ASSUME NEW a, Run(h, [t EXCEPT !.pc = "carry", !.arg = a]) PROVE FALSE
      <4>1. task'[h] = [t EXCEPT !.pc = "carry", !.arg = a]
        BY <1>2, <3>3 DEF Run
      <4>2. task'[h].pc = "carry"
        BY <1>2, <3>2, <4>1 DEF Fields
      <4> QED BY <3>1, <4>2 DEF Idle
    <3> QED BY <3>2, <3>3 DEF Target
  <2> QED BY <1>1, <1>2, <1>3, <1>4, <2>1, PeopleSame, JustDone DEF SignInv
<1>5. CASE ~Done(h)
  <2>1. PICK t : t = task[h]
    OBVIOUS
  <2>2. PICK to : /\ Grows(users, users') /\ \A r \in Rows : Exists(users', r) => Exists(users, r)
                  /\ Own(to, t.d)'
                  /\ Run(h, [t EXCEPT !.pc = "carry",
                               !.arg = [op |-> "switch", to |-> to, was |-> users'[to].role]])
    BY <1>1, <1>5, <2>1, Targets
  <2>3. PeopleGrow
    BY <1>1, <2>2, NoNewRows DEF SignInv
  <2>4. PICK a, u : /\ a = [op |-> "switch", to |-> to, was |-> users'[to].role]
                    /\ u = [t EXCEPT !.pc = "carry", !.arg = a] /\ Run(h, u)
    BY <2>2
  <2>5. /\ u.pc = "carry" /\ u.op = t.op /\ u.d = t.d /\ u.row = t.row /\ u.role = t.role
        /\ u.want = t.want /\ u.long = t.long /\ u.via = t.via /\ u.flow = t.flow /\ u.arg.to = to
    BY <1>2, <2>1, <2>4 DEF Fields
  <2>6. Knows(t)' /\ Asked(t)'
    BY <1>1, <1>2, <2>1, <2>3, StillFine
  <2>7. t.op = "request" /\ t.pc = "target"
    BY <1>1, <1>2, <2>1
  <2>8. Knows(u)'
    BY <2>5, <2>6, <2>7 DEF Knows, Places, Early, Own
  <2>9. Asked(u)'
    BY <2>2, <2>5, <2>7 DEF Asked, Own
  <2> QED BY <1>1, <1>2, <1>3, <2>1, <2>3, <2>4, <2>5, <2>8, <2>9, PlainStep
<1> QED BY <1>4, <1>5

LEMMA CarrySigns == ASSUME TokenInv, SignInv, NEW h \in Slots, CarryRole(h) PROVE SignInv'
<1>1. task[h].pc = "carry" /\ Goto(h, "move") /\ UNCHANGED <<orgs, creds, signups, setup, dir, over>>
  BY DEF CarryRole, ghosts
<1>2. /\ task[h].op = "request" /\ task[h] # Idle /\ Fine(task[h]) /\ DOMAIN task[h] = Fields
      /\ DOMAIN task = Slots /\ task[h].d \in ExternalIDs
  BY <1>1, Switcher
<1>3. PICK t : t = task[h]
  OBVIOUS
<1>4. PICK row \in Rows : row = t.arg.to /\ Exists(users, row)
  BY <1>1, <1>2, <1>3 DEF Fine, Asked, Own
<1>5. Kept' /\ users \in UserTable
  BY <1>1, KeptStays DEF SignInv, SignedIn, UsersOK, UserTable
<1>6. PeopleGrow
  <2>1. CASE users' = users
    BY <1>1, <2>1, PeopleSame DEF SignInv
  <2>2. CASE users' # users
    <3>1. PICK us, role : us = users /\ role = IF t.role = "operator" THEN "operator" ELSE "member"
      OBVIOUS
    <3>2. users' = SetUserRole(us, row, role)
      BY <1>3, <1>4, <2>2, <3>1 DEF CarryRole
    <3>3. PICK vs : vs = SetUserRole(us, row, role)
      OBVIOUS
    <3>4. role \in Roles
      BY <3>1, IdentsOut
    <3>5. Grows(us, vs) /\ \A r \in Rows : Exists(vs, r) => Exists(us, r)
      BY <1>4, <1>5, <3>1, <3>3, <3>4, SetsRole
    <3> QED BY <1>1, <3>1, <3>2, <3>3, <3>5, NoNewRows DEF SignInv
  <2> QED BY <2>1, <2>2
<1>7. PICK u : u = [t EXCEPT !.pc = "move"] /\ Run(h, u)
  BY <1>1, <1>3 DEF Goto
<1>8. /\ u.pc = "move" /\ u.op = t.op /\ u.d = t.d /\ u.row = t.row /\ u.role = t.role /\ u.arg = t.arg
      /\ u.want = t.want /\ u.long = t.long /\ u.via = t.via /\ u.flow = t.flow
  BY <1>2, <1>3, <1>7 DEF Fields
<1>9. Knows(t)' /\ Asked(t)'
  BY <1>1, <1>2, <1>3, <1>6, StillFine
<1>10. t.op = "request" /\ t.pc = "carry"
  BY <1>1, <1>2, <1>3
<1>11. Knows(u)'
  BY <1>8, <1>9, <1>10 DEF Knows, Places, Early, Own
<1>12. Asked(u)'
  BY <1>8, <1>9, <1>10 DEF Asked, Own
<1> QED BY <1>1, <1>2, <1>3, <1>5, <1>6, <1>7, <1>8, <1>11, <1>12, PlainStep

LEMMA MoveSigns == ASSUME TokenInv, SignInv, NEW h \in Slots, Move(h) PROVE SignInv'
<1>1. task[h].pc = "move" /\ Done(h) /\ UNCHANGED <<users, orgs, signups, setup, dir, over>>
  BY DEF Move, ghosts
<1>2. /\ task[h].op = "request" /\ task[h] # Idle /\ Fine(task[h])
      /\ DOMAIN task = Slots /\ task[h].d \in ExternalIDs
  BY <1>1, Switcher
<1>3. PICK t, i, row : t = task[h] /\ i = t.flow /\ row = t.arg.to
  OBVIOUS
<1>4. Own(row, t.d) /\ i \in CredIds /\ (Live(creds, i) => creds[i].who = t.d)
  BY <1>1, <1>2, <1>3 DEF Fine, Asked, Came
<1>5. PeopleGrow /\ Kept' /\ creds \in CredTable
  BY <1>1, DbSame DEF SignInv, SignedIn, CredsOK, CredTable
<1>6. CASE ~Live(creds, i)
  <2>1. creds' = creds
    BY <1>3, <1>6 DEF Move, MoveSignIn
  <2> QED BY <1>1, <1>2, <1>5, <2>1, JustDone
<1>7. CASE Live(creds, i)
  <2>1. creds' = [creds EXCEPT ![i].row = row]
    BY <1>3, <1>7 DEF Move, MoveSignIn
  <2>2. creds[i] \in CredRow /\ Holds(i)
    BY <1>4, <1>5, <1>7, CredFacts, CredHolds DEF SignInv
  <2>3. creds'[i] = [creds[i] EXCEPT !.row = row] /\ \A j \in CredIds : j # i => creds'[j] = creds[j]
    BY <1>4, <1>5, <2>1 DEF CredTable
  <2>4. /\ creds'[i] \in CredRow /\ creds'[i].row = row /\ creds'[i].who = creds[i].who
        /\ creds'[i].kind = creds[i].kind /\ creds'[i].from = creds[i].from
    BY <1>4, <2>2, <2>3 DEF CredRow, Own
  <2>5. creds' \in CredTable
    BY <1>4, <1>5, <2>1, <2>3, <2>4 DEF CredTable
  <2>6. Live(creds', i)
    BY <1>4, <2>4, <2>5, CredFacts
  <2>7. Ages(creds, creds') /\ Endings
    BY <1>1, <1>7, <2>3, <2>4, <2>6 DEF Ages, Endings, Live
  <2>8. creds[i] # Ended /\ creds[i] # Unused
    BY <1>7 DEF Live
  <2>9. Holds(i)'
    <3>1. creds[i].from # 0 => creds'[creds[i].from] = Ended
      BY <2>2, <2>3, <2>8 DEF Holds
    <3> QED BY <1>1, <1>4, <1>7, <2>2, <2>4, <3>1 DEF Holds, Own, Exists
  <2>10. ASSUME NEW j \in CredIds, j # i, Live(creds', j) PROVE Holds(j)'
    <3>1. Live(creds, j) /\ creds'[j] = creds[j]
      BY <2>3, <2>10 DEF Live
    <3> QED BY <1>5, <2>7, <3>1, HoldsOn DEF SignInv
  <2>11. over' \subseteq {j \in CredIds : creds'[j] = Ended}
    BY <1>1, <2>3, <2>8 DEF SignInv, SignedIn
  <2>12. SignedIn'
    BY <1>5, <2>5, <2>9, <2>10, <2>11, CredsFine DEF SignInv
  <2>13. \A j \in CredIds : Live(creds', j) => Live(creds, j) /\ creds'[j].from = creds[j].from
    BY <1>7, <2>3, <2>4 DEF Live
  <2>14. PICK u : u = Idle /\ Run(h, u)
    BY <1>1 DEF Done
  <2>15. Redeems
    BY <1>2, <2>13, <2>14, NoneRedeemed
  <2> QED BY <1>2, <1>5, <2>5, <2>7, <2>12, <2>14, <2>15, StepKeeps
<1> QED BY <1>6, <1>7

LEMMA AddUserSigns == ASSUME TokenInv, SignInv, NEW h \in Slots, AddUserRoute(h) PROVE SignInv'
<1>1. task[h].pc = "route" /\ Done(h) /\ UNCHANGED <<orgs, creds, signups, setup, dir, over>>
  BY DEF AddUserRoute
<1>2. task[h] # Idle /\ Fine(task[h])
  BY <1>1, Here
<1>3. PICK t, us, org, email, ext, role : /\ t = task[h] /\ us = users /\ org = t.arg.org /\ email = t.arg.email
                                          /\ ext = t.arg.ext /\ role = t.arg.role
  OBVIOUS
<1>4. Kept' /\ us \in UserTable /\ orgs \subseteq Orgs
  BY <1>1, <1>3, KeptStays DEF SignInv, SignedIn, UsersOK, UserTable
<1>5. CASE users' = users
  BY <1>1, <1>2, <1>4, <1>5, PeopleSame, JustDone DEF SignInv
<1>6. CASE users' # users
  <2>1. PICK res : res = AddUser(us, org, email, ext, role)
    OBVIOUS
  <2>2. OK(res) /\ users' = res.users /\ MayAdd(PrincipalOf(t), t.arg) /\ org \in orgs
    <3>1. ~OK(Refused("forbidden"))
      BY DEF OK, Refused
    <3> QED BY <1>3, <1>6, <2>1, <3>1 DEF AddUserRoute
  <2>3. role \in Roles
    BY <1>3, <2>2, IdentsOut DEF MayAdd, MayGrant, Assignable, Roles
  <2>4. t.op \in {"request", "key"} /\ t.arg.op = "add"
    BY <1>1, <1>2, <1>3 DEF Fine, Knows, Places, AddUserRoute
  <2>5. ext \in ExternalIDs \cup {NoExt}
    BY <1>1, <1>2, <1>3, <2>4 DEF Fine, Asked, RouteOK
  <2>6. Grows(us, res.users) /\ MakesOne(us, res.users, <<org, email>>, role)
    BY <1>4, <2>1, <2>2, <2>3, <2>5, Added
  <2>7. \A row \in Rows : Exists(users', row) /\ ~Exists(users, row) => OrgOf(row) \in orgs'
    BY <1>1, <1>3, <2>2, <2>6 DEF MakesOne, OrgOf
  <2>8. PeopleGrow
    BY <1>1, <1>3, <1>4, <2>2, <2>6, <2>7 DEF PeopleGrow
  <2> QED BY <1>1, <1>2, <1>4, <2>8, JustDone
<1> QED BY <1>5, <1>6

LEMMA AdministerSigns == ASSUME TokenInv, SignInv, NEW h \in Slots, Administer(h) PROVE SignInv'
<1>1. /\ task[h].pc = "route" /\ task[h].arg.op \in {"role", "disable", "enable"}
      /\ UNCHANGED <<users, orgs, creds, signups, setup, dir, over>>
  BY DEF Administer, db, ghosts
<1>2. task[h] # Idle /\ Fine(task[h]) /\ DOMAIN task[h] = Fields /\ DOMAIN task = Slots
  BY <1>1, Here
<1>3. PeopleGrow /\ Kept' /\ UNCHANGED <<creds, over>>
  BY <1>1, DbSame
<1>4. CASE Done(h)
  BY <1>2, <1>3, <1>4, JustDone
<1>5. CASE ~Done(h)
  <2>1. PICK t, arg, pc : t = task[h] /\ arg = t.arg /\ pc = arg.op
    OBVIOUS
  <2>2. MayChange(PrincipalOf(t), arg) /\ Goto(h, pc)
    BY <1>5, <2>1 DEF Administer
  <2>3. Exists(users, arg.row) /\ (pc = "role" => Assignable(arg.role))
    BY <2>1, <2>2 DEF MayChange, MayGrant
  <2>4. PICK u : u = [t EXCEPT !.pc = pc] /\ Run(h, u)
    BY <2>1, <2>2 DEF Goto
  <2>5. /\ u.pc = pc /\ u.op = t.op /\ u.d = t.d /\ u.row = t.row /\ u.role = t.role /\ u.arg = arg
        /\ u.want = t.want /\ u.long = t.long /\ u.via = t.via /\ u.flow = t.flow
    BY <1>2, <2>1, <2>4 DEF Fields
  <2>6. Knows(t)' /\ Asked(t)'
    BY <1>2, <1>3, <2>1, StillFine
  <2>7. t.op \in {"request", "key"} /\ t.pc = "route" /\ pc \in {"role", "disable", "enable"}
    BY <1>1, <1>2, <2>1 DEF Fine, Knows, Places
  <2>8. Knows(u)'
    BY <2>5, <2>6, <2>7 DEF Knows, Places, Early, Own
  <2>9. Asked(u)'
    BY <1>1, <2>1, <2>3, <2>5, <2>6, <2>7 DEF Asked, Exists
  <2> QED BY <1>2, <1>3, <2>1, <2>4, <2>5, <2>8, <2>9, PlainStep
<1> QED BY <1>4, <1>5

LEMMA AbortSigns == ASSUME TokenInv, SignInv, NEW h \in Slots, Abort(h) PROVE SignInv'
<1>1. task[h] # Idle /\ Done(h) /\ UNCHANGED <<users, orgs, creds, signups, setup, dir, over>>
  BY DEF Abort, db
<1> QED BY <1>1, DbSame, JustDone

-----------------------------------------------------------------------------
(* No request moves *)

LEMMA NobodyMoves ==
  ASSUME SignInv, UNCHANGED task, PeopleGrow, SignedIn', Kept', creds' \in CredTable, Ages(creds, creds'), Endings,
         \A i \in CredIds : Live(creds', i) => Live(creds, i) /\ creds'[i].from = creds[i].from
  PROVE  SignInv'
<1>1. Redeems
  <2>1. ASSUME NEW f \in CredIds, Redeemed(f)' PROVE Redeemed(f)
    <3>1. CASE \E i \in CredIds : Live(creds', i) /\ creds'[i].from = f
      BY <3>1 DEF Redeemed
    <3>2. CASE \E g \in Slots : task'[g] # Idle /\ task'[g].op = "redeem" /\ task'[g].flow = f
      BY <3>2 DEF Redeemed
    <3> QED BY <2>1, <3>1, <3>2 DEF Redeemed, Live
  <2> QED BY <2>1 DEF Redeems
<1>2. ASSUME NEW g \in Slots, task'[g] # Idle PROVE Good(g)'
  BY <1>1, <1>2, OthersStay DEF PeopleGrow
<1> QED BY <1>2 DEF SignInv

LEMMA CalmStep ==
  ASSUME SignInv, UNCHANGED <<task, users, orgs, creds, over>>, Kept'
  PROVE  SignInv'
<1>1. PeopleGrow
  BY PeopleSame DEF SignInv
<1>2. SignedIn' /\ creds' \in CredTable /\ Ages(creds, creds') /\ Endings
  BY <1>1, CredsStay DEF SignInv
<1>3. \A i \in CredIds : Live(creds', i) => Live(creds, i) /\ creds'[i].from = creds[i].from
  BY DEF Live
<1> QED BY <1>1, <1>2, <1>3, NobodyMoves

LEMMA ChangeEntryKeeps ==
  ASSUME TokenInv, SignInv, NEW d \in Idents, NEW e \in Range(setup.entries[d]), ChangeEntry(d, e)
  PROVE  SignInv'
<1>1. UNCHANGED <<task, users, orgs, creds, over, signups, setup>> /\ dir' = [dir EXCEPT ![d] = e]
  BY DEF ChangeEntry, Change, db, ghosts
<1>2. Kept'
  <2>1. ASSUME NEW x \in Idents PROVE dir'[x] \in Range(setup.entries[x])
    BY <1>1 DEF SignInv, Kept
  <2> QED BY <1>1, <2>1 DEF SignInv, Kept
<1> QED BY <1>1, <1>2, CalmStep

LEMMA ExpireSigns == ASSUME TokenInv, SignInv, Expire PROVE SignInv'
<1>1. UNCHANGED <<task, users, orgs, setup, dir, over>>
  BY DEF Expire, Change, ghosts
<1>2. ASSUME NEW i \in CredIds, creds' = DeleteCreds(creds, {i}), UNCHANGED signups PROVE SignInv'
  <2>1. PICK which : which = {i}
    OBVIOUS
  <2>2. PeopleGrow /\ Kept' /\ DOMAIN creds = CredIds
    BY <1>1, <1>2, DbSame DEF SignInv, SignedIn, CredsOK
  <2>3. SignedIn' /\ creds' \in CredTable /\ Ages(creds, creds') /\ Endings
    BY <1>1, <1>2, <2>1, <2>2, CredsEnd DEF SignInv
  <2>4. \A j \in CredIds : Live(creds', j) => Live(creds, j) /\ creds'[j].from = creds[j].from
    BY <1>2, <2>2, CredFacts DEF DeleteCreds, Live
  <2> QED BY <1>1, <2>2, <2>3, <2>4, NobodyMoves
<1>3. CASE UNCHANGED <<creds, signups>>
  BY <1>1, <1>3, DbSame, CalmStep
<1>4. ASSUME NEW s \in SignupIds, signups' = [signups EXCEPT ![s] = Nobody], UNCHANGED creds PROVE SignInv'
  <2>1. DOMAIN signups = SignupIds
    BY DEF TokenInv, Typed
  <2>2. Kept'
    BY <1>1, <1>4, <2>1 DEF SignInv, Kept
  <2> QED BY <1>1, <1>4, <2>2, CalmStep
<1> QED BY <1>2, <1>3, <1>4 DEF Expire

LEMMA SurroundingsSigns == ASSUME TokenInv, SignInv, Surroundings PROVE SignInv'
<1>1. ASSUME NEW d \in Idents, NEW e \in Range(setup.entries[d]), ChangeEntry(d, e) PROVE SignInv'
  BY <1>1, ChangeEntryKeeps
<1>2. ASSUME NEW d \in Idents, BecomeDue(d) PROVE SignInv'
  <2>1. UNCHANGED <<task, users, orgs, creds, over, signups, dir, setup>>
    BY <1>2 DEF BecomeDue, Change, ghosts
  <2> QED BY <2>1, DbSame, CalmStep
<1>3. CASE Purge
  <2>1. UNCHANGED <<task, users, orgs, creds, over, signups, dir, setup>>
    BY <1>3 DEF Purge, Change, ghosts
  <2> QED BY <2>1, DbSame, CalmStep
<1> QED BY <1>1, <1>2, <1>3, ExpireSigns DEF Surroundings

LEMMA LoginSigns == ASSUME TokenInv, SignInv, NEW p, NEW cli, Login(p, cli) PROVE SignInv'
<1>1. UNCHANGED <<task, users, orgs, creds, over, signups, dir, setup>>
  BY DEF Login, ghosts
<1> QED BY <1>1, DbSame, CalmStep

-----------------------------------------------------------------------------
(* The sign-ins hold *)

LEMMA InitSigns == Init => SignInv
<1>1. SUFFICES ASSUME Init PROVE SignInv
  OBVIOUS
<1>2. PICK s \in Setups : /\ setup = [providers |-> s.providers, entries |-> s.entries, starts |-> s.starts,
                                      routes |-> s.routes, maxStarts |-> s.maxStarts]
                          /\ orgs = s.orgs /\ users = s.users /\ creds = s.creds
  BY <1>1 DEF Init
<1>3. UsersOK(users, orgs) /\ CredsOK(users, creds)
  BY <1>2, SignInAssumption
<1>4. over = {} /\ task = [h \in Slots |-> Idle] /\ signups = [x \in SignupIds |-> Nobody]
      /\ dir = [d \in Idents |-> setup.entries[d][1]]
  BY <1>1 DEF Init
<1>5. SignedIn
  BY <1>3, <1>4 DEF SignedIn
<1>6. Kept
  <2>1. ASSUME NEW d \in Idents PROVE dir[d] \in Range(setup.entries[d])
    <3>1. setup.entries = s.entries /\ EntriesOK(s.entries[d])
      BY <1>2, SignInAssumption
    <3> QED BY <1>4, <3>1 DEF EntriesOK, Range
  <2> QED BY <1>4, <2>1 DEF Kept
<1> QED BY <1>4, <1>5, <1>6 DEF SignInv

LEMMA StartSigns == ASSUME TokenInv, SignInv, NEW h \in Slots, Start(h) PROVE SignInv'
BY CallbackSigns, PasswordSigns, CliTokenSigns, CompleteSignupSigns, RequestSigns, KeyRequestSigns,
   LocalLoginSigns DEF Start

LEMMA StepSigns == ASSUME TokenInv, SignInv, NEW h \in Slots, Step(h) PROVE SignInv'
BY ExchangeSigns, AuthenticateSigns, TakeFlowSigns, PlaceSigns, LinkSigns, SyncSigns, SyncOthersSigns, SyncEachSigns,
   RememberSigns, TtlSigns, StartSessionSigns, CliHandOverSigns, CreateTokenSigns, ClaimSigns, AskSigns,
   FailedSigns, EndLinkSigns, RecordSigns, LogoutSigns, SwitchSigns, TargetSigns, CarrySigns, MoveSigns,
   AddUserSigns, AdministerSigns, UpdateSigns, SignOutSigns, DisableSigns, EnableSigns DEF Step

LEMMA NextSigns == TokenInv /\ SignInv /\ [Next]_vars => SignInv'
<1>1. SUFFICES ASSUME TokenInv, SignInv, [Next]_vars PROVE SignInv'
  OBVIOUS
<1>2. CASE UNCHANGED vars
  <2>1. UNCHANGED <<task, users, orgs, creds, over, signups, dir, setup>>
    BY <1>2 DEF vars, db, ghosts
  <2> QED BY <1>1, <2>1, DbSame, CalmStep
<1>3. CASE Next
  BY <1>1, <1>3, LoginSigns, StartSigns, StepSigns, AbortSigns, SurroundingsSigns DEF Next
<1> QED BY <1>1, <1>2, <1>3

LEMMA SignsHold == Spec => []SignInv
<1>1. TokenInv /\ SignInv /\ [Next]_vars => SignInv'
  BY NextSigns
<1> QED BY <1>1, InitSigns, TokensHold, PTL DEF Spec

\* A sign-in acts as its own person, always: the row behind a session, a token
\* or a code belongs to the identity that signed in, and what a DELETE of a
\* sign-out, a role change, a disabled person or a directory's refusal took
\* stays gone: no code that was in the table then becomes a token after it. A
\* code that a terminal had taken by then is exempt (SignInsHold).
THEOREM SignInSignInsHold == Spec => []SignInsHold
<1>1. SignInv => SignInsHold
  <2>1. SUFFICES ASSUME SignInv, NEW i \in CredIds, Live(creds, i)
                 PROVE  /\ users[creds[i].row].ext = creds[i].who
                        /\ i \notin over /\ creds[i].from \notin over
    BY DEF SignInsHold
  <2>2. Holds(i)
    BY <2>1, CredHolds DEF SignInv
  <2>3. i \notin over
    BY <2>1 DEF SignInv, SignedIn, Live
  <2> QED BY <2>2, <2>3 DEF Holds
<1> QED BY <1>1, SignsHold, PTL

-----------------------------------------------------------------------------
(* Where roles come from *)

\* Whom nobody may be about to make an operator: who was demoted, and who has a
\* request under way beside which nobody carried the operator role.
Watched == settled \cup {d \in Idents : \E g \in Slots \ crossed : task[g] # Idle /\ task[g].d = d}

\* What such a request has read of the rows of its person, and not written, are
\* the operator roles they have.
Reads(h, t) == h \notin crossed /\ t.op \in {"signin", "request"} =>
  /\ t.pc \in {"claim", "ask", "record", "sync"} => (users[t.row].role = "operator" => t.role = "operator")
  /\ t.pc = "others" => users[t.row].role # "operator"
  /\ t.pc = "each" => \A row \in RowsOf(users, t.d) : users[row].role = "operator" =>
                        row \in DOMAIN t.rest /\ t.rest[row] = "operator"

\* A sign-in that makes a row makes it where its directory's addresses land.
Lands(t) ==
  /\ t.pc \in {"exchange", "password", "take", "place"} => t.d[1] \in DOMAIN Providers
  /\ t.pc = "link" => \/ OrgOf(t.row) \in DirectoryOrg(orgs, Providers, t.mail)
                      \/ HasExt(users, OrgOf(t.row), t.d)

\* Nobody is about to make an operator of who is watched.
Demotes(t) ==
  /\ t.op \in {"signin", "request"} /\ t.pc \in {"sync", "others", "each"} => t.d \in Idents
  /\ \A d \in Watched : ~Bears(t, d)

\* A flow is of a provider there is.
Flowing == /\ DOMAIN flows = FlowIds
           /\ \A f \in FlowIds : flows[f] \notin {Unused, Ended} => flows[f].provider \in DOMAIN Providers

\* A sign-up is open where people may sign up, and not as an operator of who is watched.
Opened == \A s \in SignupIds : signups[s] # Nobody =>
            SignUpAllowed(Providers) /\ (signups[s].want = "operator" => signups[s].d \notin Watched)

Standing == settled \subseteq Idents /\ InvitationsOK(users) /\ Flowing /\ Opened

RolesFine(h, t) == Reads(h, t) /\ Lands(t) /\ Demotes(t)

RoleInv == Standing /\ RolesAppointed /\ \A h \in Slots : task[h] # Idle => RolesFine(h, task[h])

\* Where addresses land goes on to be where they land.
Dirs == \A mail : DirectoryOrg(orgs, Providers, mail) \subseteq DirectoryOrg(orgs, Providers, mail)'

LEMMA SameDirs == ASSUME UNCHANGED <<setup, orgs>> PROVE Dirs
BY DEF Dirs, DirectoryOrg, Providers, OrgByEmailDomain, OnlyOrg

LEMMA OneMoreOrg ==
  ASSUME UNCHANGED setup, NEW o, orgs' = orgs \cup {o},
         SignUpAllowed(Providers) \/ orgs = {} \/ o \in orgs
  PROVE  Dirs
<1>1. ASSUME NEW mail PROVE DirectoryOrg(orgs, Providers, mail) \subseteq DirectoryOrg(orgs, Providers, mail)'
  <2>1. PICK ps, os, dom : ps = Providers /\ os = orgs /\ dom = DomainOf[mail]
    OBVIOUS
  <2>2. Providers' = ps /\ orgs' = os \cup {o}
    BY <2>1 DEF Providers
  <2>3. CASE o \in os
    BY <2>1, <2>2, <2>3 DEF DirectoryOrg, OrgByEmailDomain, OnlyOrg
  <2>4. CASE SignUpAllowed(ps)
    BY <2>1, <2>2, <2>4 DEF DirectoryOrg, OrgByEmailDomain
  <2>5. CASE os = {}
    <3>1. OnlyOrg(os) = {} /\ OrgByEmailDomain(os, dom) = {}
      BY <2>5, FS_EmptySet DEF OnlyOrg, OrgByEmailDomain
    <3> QED BY <2>1, <3>1 DEF DirectoryOrg
  <2> QED BY <2>1, <2>3, <2>4, <2>5
<1> QED BY <1>1 DEF Dirs

\* An operator of who is watched was one before.
OldOps == \A d \in Watched : \A r \in Rows :
  Exists(users', r) /\ users'[r].ext = d /\ users'[r].role = "operator" =>
    Exists(users, r) /\ users[r].ext = d /\ users[r].role = "operator"

\* What keeps the roles fine of a request that does not move.
LEMMA FineLater ==
  ASSUME TokenInv, SignInv, RoleInv, NEW g \in Slots, NEW t, t = task[g], t # Idle, g \in crossed => g \in crossed',
         OldOps, Dirs, Grows(users, users'), UNCHANGED setup, \A d \in Watched' : ~Bears(t, d)
  PROVE  RolesFine(g, t)'
<1>1. RolesFine(g, t) /\ Fine(t) /\ Whom(t)
  BY DEF RoleInv, SignInv, Good, TokenInv, Typed
<1>2. Reads(g, t)'
  <2>1. SUFFICES ASSUME g \notin crossed', t.op \in {"signin", "request"},
                        t.pc \in {"claim", "ask", "record", "sync", "others", "each"}
                 PROVE  Reads(g, t)'
    BY DEF Reads
  <2>2. Reads(g, t) /\ g \notin crossed
    BY <1>1, <2>1 DEF RolesFine
  <2>3. t.d \in Idents
    BY <1>1, <2>1 DEF RolesFine, Demotes, Whom, Checks
  <2>4. t.d \in Watched
    BY <2>2, <2>3 DEF Watched
  <2>5. Own(t.row, t.d) /\ t.d # NoExt
    BY <1>1, <2>1, RowFacts DEF Fine, Knows, Early
  <2>6. Own(t.row, t.d)'
    BY <2>5 DEF Own, Grows, Exists
  <2>7. ASSUME NEW r \in Rows, Exists(users', r), users'[r].ext = t.d, users'[r].role = "operator"
        PROVE  Exists(users, r) /\ users[r].ext = t.d /\ users[r].role = "operator"
    BY <2>4, <2>7 DEF OldOps
  <2>8. users'[t.row].role = "operator" => users[t.row].role = "operator"
    BY <2>6, <2>7 DEF Own, Exists
  <2>9. ASSUME NEW row \in RowsOf(users, t.d)', users'[row].role = "operator"
        PROVE  row \in RowsOf(users, t.d) /\ users[row].role = "operator"
    BY <2>7, <2>9 DEF RowsOf, Exists
  <2> QED BY <2>1, <2>2, <2>8, <2>9 DEF Reads
<1>3. Lands(t)'
  <2>1. PICK ps, o : ps = Providers /\ o = OrgOf(t.row)
    OBVIOUS
  <2>2. Providers' = ps /\ t.d \in ExternalIDs
    BY <1>1, <2>1 DEF Providers, Fine, Knows
  <2>3. HasExt(users, o, t.d) => HasExt(users, o, t.d)'
    BY <2>2, RowFacts DEF HasExt, RowsOf, Grows, Exists
  <2>4. o \in DirectoryOrg(orgs, Providers, t.mail) => o \in DirectoryOrg(orgs, Providers, t.mail)'
    BY DEF Dirs
  <2>5. t.pc = "link" => \/ o \in DirectoryOrg(orgs, Providers, t.mail)'
                         \/ HasExt(users, o, t.d)'
    BY <1>1, <2>1, <2>3, <2>4 DEF RolesFine, Lands
  <2>6. t.pc \in {"exchange", "password", "take", "place"} => t.d[1] \in DOMAIN Providers'
    BY <1>1, <2>1, <2>2 DEF RolesFine, Lands
  <2> QED BY <2>1, <2>5, <2>6 DEF Lands
<1>4. Demotes(t)'
  BY <1>1 DEF RolesFine, Demotes
<1> QED BY <1>2, <1>3, <1>4 DEF RolesFine

\* A step of one request.
LEMMA RoleStep ==
  ASSUME TokenInv, SignInv, RoleInv, NEW h \in Slots, NEW u, Run(h, u),
         \A g \in Slots : g # h /\ g \in crossed => g \in crossed',
         OldOps, Dirs, Grows(users, users'), UNCHANGED setup, Standing', RolesAppointed',
         \A g \in Slots, d \in Watched' : g # h => ~Bears(task[g], d),
         u # Idle => RolesFine(h, u)'
  PROVE  RoleInv'
<1>1. task'[h] = u /\ \A g \in Slots : g # h => task'[g] = task[g]
  BY DEF Run, TokenInv, Typed
<1>2. ASSUME NEW g \in Slots, g # h, task'[g] # Idle PROVE RolesFine(g, task[g])'
  <2>1. task[g] # Idle /\ task'[g] = task[g]
    BY <1>1, <1>2
  <2>2. PICK t : t = task[g]
    OBVIOUS
  <2>3. \A d \in Watched' : ~Bears(t, d)
    BY <1>2, <2>2
  <2>4. RolesFine(g, t)'
    BY <1>2, <2>1, <2>2, <2>3, FineLater
  <2> QED BY <2>1, <2>2, <2>4
<1>3. task'[h] # Idle => RolesFine(h, task[h])'
  BY <1>1
<1> QED BY <1>2, <1>3 DEF RoleInv

LEMMA WatchedIn == ASSUME RoleInv PROVE Watched \subseteq Idents
BY DEF RoleInv, Standing, Watched

\* Nobody bears the operator role for who is watched.
LEMMA NoneBears == ASSUME RoleInv, NEW g \in Slots, NEW d \in Watched PROVE ~Bears(task[g], d)
BY DEF RoleInv, RolesFine, Demotes, Bears

\* A request under way moves: nobody else is watched.
LEMMA LessWatched ==
  ASSUME TokenInv, NEW h \in Slots, task[h] # Idle, NEW u, Run(h, u), u = Idle \/ u.d = task[h].d,
         crossed \subseteq crossed', settled' \subseteq Watched
  PROVE  Watched' \subseteq Watched
<1>1. task'[h] = u /\ \A g \in Slots : g # h => task'[g] = task[g]
  BY DEF Run, TokenInv, Typed
<1>2. ASSUME NEW d \in Idents, NEW g \in Slots \ crossed', task'[g] # Idle, task'[g].d = d PROVE d \in Watched
  <2>1. task[g] # Idle /\ task[g].d = d /\ g \notin crossed
    BY <1>1, <1>2
  <2> QED BY <2>1 DEF Watched
<1> QED BY <1>2 DEF Watched

LEMMA RoleMove ==
  ASSUME TokenInv, SignInv, RoleInv, NEW h \in Slots, task[h] # Idle, NEW u, Run(h, u), u = Idle \/ u.d = task[h].d,
         UNCHANGED <<setup, orgs>>, crossed \subseteq crossed', settled' \subseteq Watched,
         OldOps, Grows(users, users'), Standing', RolesAppointed', u # Idle => RolesFine(h, u)'
  PROVE  RoleInv'
<1>1. Dirs /\ Watched' \subseteq Watched
  BY SameDirs, LessWatched
<1>2. \A g \in Slots, d \in Watched' : g # h => ~Bears(task[g], d)
  BY <1>1, NoneBears
<1> QED BY <1>1, <1>2, RoleStep

\* A request begins: its person is watched, unless somebody carries the
\* operator role for them.
LEMMA MoreWatched ==
  ASSUME TokenInv, NEW h \in Slots, NEW kind, NEW d, Begin(h, kind, d), NEW u, Run(h, u), u = Idle \/ u.d = d
  PROVE  \A e \in Watched' : e \in Watched \/ (e = d /\ ~Carried(d))
<1>1. task'[h] = u /\ \A g \in Slots : g # h => task'[g] = task[g]
  BY DEF Run, TokenInv, Typed
<1>2. /\ settled' = settled /\ (Carried(d) => h \in crossed')
      /\ \A g \in Slots : g # h /\ g \in crossed => g \in crossed'
  BY DEF Begin
<1>3. ASSUME NEW e \in Idents, NEW g \in Slots \ crossed', task'[g] # Idle, task'[g].d = e
      PROVE  e \in Watched \/ (e = d /\ ~Carried(d))
  <2>1. CASE g = h
    BY <1>1, <1>2, <1>3, <2>1
  <2>2. CASE g # h
    <3>1. task[g] # Idle /\ task[g].d = e /\ g \notin crossed
      BY <1>1, <1>2, <1>3, <2>2
    <3> QED BY <3>1 DEF Watched
  <2> QED BY <2>1, <2>2
<1>4. ASSUME NEW e \in Watched' PROVE e \in settled' \/ (e \in Idents /\ \E g \in Slots \ crossed' : task'[g] # Idle /\ task'[g].d = e)
  BY <1>4 DEF Watched
<1> QED BY <1>2, <1>3, <1>4 DEF Watched

LEMMA RoleBegin ==
  ASSUME TokenInv, SignInv, RoleInv, NEW h \in Slots, NEW kind, NEW d, Begin(h, kind, d), NEW u, Run(h, u),
         u = Idle \/ u.d = d, Dirs, OldOps, Grows(users, users'), Standing', RolesAppointed',
         u # Idle => RolesFine(h, u)'
  PROVE  RoleInv'
<1>1. UNCHANGED setup /\ \A g \in Slots : g # h /\ g \in crossed => g \in crossed'
  BY DEF Begin
<1>2. ASSUME NEW g \in Slots, NEW e \in Watched' PROVE ~Bears(task[g], e)
  <2>1. CASE e \in Watched
    BY <2>1, NoneBears
  <2>2. CASE e = d /\ ~Carried(d)
    BY <2>2 DEF Carried
  <2> QED BY <2>1, <2>2, MoreWatched
<1> QED BY <1>1, <1>2, RoleStep

\* A sign-up that stays open as a request begins stays as it may.
LEMMA OpenedBegins ==
  ASSUME TokenInv, RoleInv, NEW h \in Slots, NEW kind, NEW d, Begin(h, kind, d), NEW u, Run(h, u),
         u = Idle \/ u.d = d, \A s \in SignupIds : signups'[s] \in {signups[s], Nobody}
  PROVE  Opened'
<1>1. UNCHANGED setup
  BY DEF Begin
<1>2. ASSUME NEW s \in SignupIds, signups'[s] # Nobody
      PROVE  SignUpAllowed(Providers) /\ (signups'[s].want = "operator" => signups'[s].d \notin Watched')
  <2>1. signups'[s] = signups[s] /\ signups[s] # Nobody
    BY <1>2
  <2>2. SignUpAllowed(Providers) /\ (signups[s].want = "operator" => signups[s].d \notin Watched)
    BY <2>1 DEF RoleInv, Standing, Opened
  <2>3. signups[s].want = "operator" => Carried(signups[s].d)
    BY <2>1 DEF Carried, Pending
  <2> QED BY <2>1, <2>2, <2>3, MoreWatched
<1> QED BY <1>1, <1>2 DEF Opened, Providers

\* What may become of the roles of a row: they stay, or those who may gave them.
Kindly(r) == \/ /\ Exists(users, r) /\ users'[r].role = users[r].role
                /\ users'[r].ext = users[r].ext \/ (users[r].ext = NoExt /\ users'[r].ext # NoExt)
             \/ /\ users'[r].role = "admin" => r \in appointed'
                /\ users'[r].role = "operator" => users'[r].ext \notin Watched \cup {NoExt}

LEMMA RolesKeep ==
  ASSUME Standing, RolesAppointed, appointed \subseteq appointed', \A r \in Rows : Exists(users', r) => Kindly(r)
  PROVE  /\ InvitationsOK(users)'
         /\ \A row \in Rows : Exists(users', row) /\ users'[row].role = "admin" => row \in appointed'
         /\ OldOps
<1>1. ASSUME NEW r \in Rows, Exists(users', r)
      PROVE  /\ users'[r].ext = NoExt => users'[r].role # "operator"
             /\ users'[r].role = "admin" => r \in appointed'
             /\ users'[r].role = "operator" /\ users'[r].ext \in Watched =>
                  Exists(users, r) /\ users[r].ext = users'[r].ext /\ users[r].role = "operator"
  <2>1. Kindly(r)
    BY <1>1
  <2>2. CASE /\ users'[r].role = "admin" => r \in appointed'
             /\ users'[r].role = "operator" => users'[r].ext \notin Watched \cup {NoExt}
    BY <2>2
  <2>3. CASE /\ Exists(users, r) /\ users'[r].role = users[r].role
             /\ users'[r].ext = users[r].ext \/ (users[r].ext = NoExt /\ users'[r].ext # NoExt)
    <3>1. /\ users[r].role = "admin" => r \in appointed
          /\ users[r].ext = NoExt => users[r].role # "operator"
      BY <2>3 DEF Standing, RolesAppointed, InvitationsOK
    <3> QED BY <2>3, <3>1
  <2> QED BY <2>1, <2>2, <2>3 DEF Kindly
<1>2. OldOps
  BY <1>1 DEF OldOps
<1> QED BY <1>1, <1>2 DEF InvitationsOK, Exists

\* No more is settled than was.
LEMMA RolesStand ==
  ASSUME Standing, RolesAppointed, appointed \subseteq appointed', \A r \in Rows : Exists(users', r) => Kindly(r),
         settled' \subseteq settled, Flowing', Opened'
  PROVE  Standing' /\ RolesAppointed' /\ OldOps
<1>1. /\ InvitationsOK(users)'
      /\ \A row \in Rows : Exists(users', row) /\ users'[row].role = "admin" => row \in appointed'
      /\ OldOps
  BY RolesKeep
<1>2. Standing'
  BY <1>1 DEF Standing
<1>3. ASSUME NEW d \in settled', NEW row \in RowsOf(users, d)' PROVE users'[row].role # "operator"
  <2>1. d \in settled /\ d \in Watched /\ row \in Rows /\ Exists(users', row) /\ users'[row].ext = d
    BY <1>3 DEF RowsOf, Exists, Watched
  <2>2. users'[row].role = "operator" => row \in RowsOf(users, d) /\ users[row].role = "operator"
    BY <1>1, <2>1 DEF OldOps, RowsOf
  <2> QED BY <2>1, <2>2 DEF RolesAppointed
<1>4. RolesAppointed'
  BY <1>1, <1>3 DEF RolesAppointed, Exists
<1> QED BY <1>1, <1>2, <1>4

\* At most one row is new.
LEMMA MadeKindly ==
  ASSUME Grows(users, users'), NEW new, NEW role, MakesOne(users, users', new, role),
         role = "admin" /\ new \in Rows /\ Exists(users', new) /\ ~Exists(users, new) => new \in appointed',
         role = "operator" /\ new \in Rows /\ Exists(users', new) => users'[new].ext \notin Watched \cup {NoExt}
  PROVE  \A r \in Rows : Exists(users', r) => Kindly(r)
<1>1. ASSUME NEW r \in Rows, Exists(users', r), Exists(users, r) PROVE Kindly(r)
  BY <1>1 DEF Grows, MakesOne, Kindly
<1>2. ASSUME NEW r \in Rows, Exists(users', r), ~Exists(users, r) PROVE Kindly(r)
  BY <1>2 DEF MakesOne, Kindly
<1> QED BY <1>1, <1>2

LEMMA OpenedStays == ASSUME RoleInv, UNCHANGED <<signups, setup>>, Watched' \subseteq Watched PROVE Opened'
BY DEF RoleInv, Standing, Opened, Providers

-----------------------------------------------------------------------------
(* Steps that leave the roles alone *)

LEMMA NobodyChanges ==
  ASSUME SignInv, UNCHANGED users
  PROVE  Grows(users, users') /\ \A r \in Rows : Exists(users', r) => Kindly(r)
BY DEF SignInv, SignedIn, UsersOK, UserTable, Grows, Kindly

LEMMA StandStays ==
  ASSUME SignInv, RoleInv, UNCHANGED <<users, appointed>>, settled' \subseteq settled, Flowing', Opened'
  PROVE  Standing' /\ RolesAppointed' /\ Grows(users, users') /\ OldOps
<1>1. Grows(users, users') /\ \A r \in Rows : Exists(users', r) => Kindly(r)
  BY NobodyChanges
<1> QED BY <1>1, RolesStand DEF RoleInv

\* A request learns something, and the tables of people stay as they are.
LEMMA RoleLearns ==
  ASSUME TokenInv, SignInv, RoleInv, NEW h \in Slots, task[h] # Idle, NEW u, Run(h, u), u = Idle \/ u.d = task[h].d,
         UNCHANGED <<users, orgs, setup, signups, appointed>>, settled' \subseteq settled, crossed \subseteq crossed',
         Flowing', u # Idle => RolesFine(h, u)'
  PROVE  RoleInv'
<1>1. settled' \subseteq Watched
  BY DEF Watched
<1>2. Watched' \subseteq Watched
  BY <1>1, LessWatched
<1>3. Opened'
  BY <1>2, OpenedStays
<1>4. Standing' /\ RolesAppointed' /\ Grows(users, users') /\ OldOps
  BY <1>3, StandStays
<1> QED BY <1>1, <1>4, RoleMove

\* It goes on with the same person, the same row and the same roles.
Steadily(t, u) ==
  /\ u.d = t.d /\ u.op = t.op /\ u.row = t.row /\ u.want = t.want /\ u.role = t.role
  /\ u.pc \notin {"exchange", "password", "take", "link", "others", "each", "target", "carry"}
  /\ u.pc = "place" => t.pc = "take"
  /\ u.pc \in {"claim", "ask", "record", "sync"} /\ t.op \in {"signin", "request"} =>
       t.pc \in {"claim", "ask", "record"} /\ t.d \in Idents

LEMMA RoleSteady ==
  ASSUME TokenInv, SignInv, RoleInv, NEW h \in Slots, NEW t, t = task[h], t # Idle,
         UNCHANGED <<users, orgs, setup, signups, appointed, crossed, settled>>, Flowing',
         NEW u, Run(h, u), u = Idle \/ Steadily(t, u)
  PROVE  RoleInv'
<1>1. ASSUME u # Idle PROVE RolesFine(h, u)'
  <2>1. RolesFine(h, t) /\ Steadily(t, u)
    BY <1>1 DEF RoleInv
  <2>2. Reads(h, u)'
    BY <2>1 DEF Reads, RolesFine, Steadily
  <2>3. Lands(u)'
    BY <2>1 DEF Lands, RolesFine, Steadily, Providers
  <2>4. Demotes(u)'
    <3>1. Watched' \subseteq Watched
      <4>1. settled' \subseteq Watched /\ u.d = task[h].d
        BY <2>1 DEF Watched, Steadily
      <4> QED BY <4>1, LessWatched
    <3>2. \A d : Bears(u, d) => Bears(t, d)
      BY <2>1 DEF Bears, Steadily
    <3> QED BY <2>1, <3>1, <3>2 DEF Demotes, RolesFine, Steadily
  <2> QED BY <2>2, <2>3, <2>4 DEF RolesFine
<1>2. task[h] # Idle /\ (u = Idle \/ u.d = task[h].d)
  BY DEF Steadily
<1> QED BY <1>1, <1>2, RoleLearns

LEMMA FlowsSame == ASSUME RoleInv, UNCHANGED <<flows, setup>> PROVE Flowing'
BY DEF RoleInv, Standing, Flowing, Providers

LEMMA FlowEnds == ASSUME RoleInv, UNCHANGED setup, NEW f, flows' = [flows EXCEPT ![f] = Ended] PROVE Flowing'
BY DEF RoleInv, Standing, Flowing, Providers

\* A request ends, or goes on as it was.
LEMMA RoleGoesOn ==
  ASSUME TokenInv, SignInv, RoleInv, NEW h \in Slots, NEW t, t = task[h], t # Idle,
         UNCHANGED <<users, orgs, setup, signups, appointed, crossed, settled, flows>>,
         NEW u, Run(h, u), u = Idle \/ Steadily(t, u)
  PROVE  RoleInv'
BY FlowsSame, RoleSteady

\* A request ends, and leaves the roles as they are.
LEMMA RoleDone ==
  ASSUME TokenInv, SignInv, RoleInv, NEW h \in Slots, task[h] # Idle, Done(h),
         UNCHANGED <<users, orgs, setup, signups, appointed, crossed, settled, flows>>
  PROVE  RoleInv'
<1>1. PICK t, u : t = task[h] /\ u = Idle /\ Run(h, u)
  BY DEF Done
<1> QED BY <1>1, RoleGoesOn

LEMMA TakeFlowRoles == ASSUME TokenInv, SignInv, RoleInv, NEW h \in Slots, TakeFlow(h) PROVE RoleInv'
<1>1. task[h].pc = "take" /\ UNCHANGED <<users, orgs, setup, signups, appointed, crossed, settled>>
  BY DEF TakeFlow, ghosts
<1>2. task[h] # Idle /\ DOMAIN task[h] = Fields
  BY <1>1, Here
<1>3. Flowing'
  BY <1>1, FlowsSame, FlowEnds DEF TakeFlow
<1>4. PICK t : t = task[h]
  OBVIOUS
<1>5. PICK u : (u = Idle \/ u = [t EXCEPT !.pc = "place"]) /\ Run(h, u)
  BY <1>4 DEF TakeFlow, Goto, Done
<1>6. u = Idle \/ Steadily(t, u)
  BY <1>1, <1>2, <1>4, <1>5 DEF Steadily, Fields
<1> QED BY <1>1, <1>2, <1>3, <1>4, <1>5, <1>6, RoleSteady

LEMMA RememberRoles == ASSUME TokenInv, SignInv, RoleInv, NEW h \in Slots, Remember(h) PROVE RoleInv'
<1>1. task[h].pc = "remember" /\ UNCHANGED <<users, orgs, setup, signups, appointed, crossed, settled, flows>>
  BY DEF Remember, ghosts
<1>2. task[h] # Idle /\ DOMAIN task[h] = Fields
  BY <1>1, Here
<1>3. PICK t : t = task[h]
  OBVIOUS
<1>4. PICK u : u = [t EXCEPT !.pc = IF t.op = "join" THEN "sync" ELSE "ttl"] /\ Run(h, u)
  BY <1>3 DEF Remember, Goto
<1>5. Steadily(t, u)
  BY <1>1, <1>2, <1>3, <1>4 DEF Steadily, Fields
<1> QED BY <1>1, <1>2, <1>3, <1>4, <1>5, RoleGoesOn

LEMMA TtlRoles == ASSUME TokenInv, SignInv, RoleInv, NEW h \in Slots, Ttl(h) PROVE RoleInv'
<1>1. task[h].pc = "ttl" /\ UNCHANGED <<users, orgs, setup, signups, appointed, crossed, settled, flows>>
  BY DEF Ttl, db, ghosts
<1>2. task[h] # Idle /\ DOMAIN task[h] = Fields
  BY <1>1, Here
<1>3. PICK t, b : t = task[h] /\ b = LongSignIn(t.d)
  OBVIOUS
<1>4. PICK u : u = [t EXCEPT !.long = b, !.pc = IF t.op = "redeem" THEN "token" ELSE "session"] /\ Run(h, u)
  BY <1>3 DEF Ttl
<1>5. Steadily(t, u)
  BY <1>1, <1>2, <1>3, <1>4 DEF Steadily, Fields
<1> QED BY <1>1, <1>2, <1>3, <1>4, <1>5, RoleGoesOn

LEMMA CredRoles ==
  ASSUME TokenInv, SignInv, RoleInv, NEW h \in Slots, StartSession(h) \/ CliHandOver(h) \/ CreateToken(h)
  PROVE  RoleInv'
<1>1. /\ task[h].pc \in {"session", "code", "token"}
      /\ UNCHANGED <<users, orgs, setup, signups, appointed, crossed, settled, flows>>
  BY DEF StartSession, CliHandOver, CreateToken, ghosts
<1>2. task[h] # Idle /\ DOMAIN task[h] = Fields
  BY <1>1, Here
<1>3. PICK t : t = task[h]
  OBVIOUS
<1>4. PICK u : (u = Idle \/ u = [t EXCEPT !.pc = "code"]) /\ Run(h, u)
  BY <1>3 DEF StartSession, CliHandOver, CreateToken, Goto, Done
<1>5. u = Idle \/ Steadily(t, u)
  BY <1>1, <1>2, <1>3, <1>4 DEF Steadily, Fields
<1> QED BY <1>1, <1>2, <1>3, <1>4, <1>5, RoleGoesOn

LEMMA ClaimRoles == ASSUME TokenInv, SignInv, RoleInv, NEW h \in Slots, Claim(h) PROVE RoleInv'
<1>1. task[h].pc = "claim" /\ UNCHANGED <<users, orgs, setup, signups, appointed, crossed, settled, flows>>
  BY DEF Claim, ghosts
<1>2. task[h] # Idle /\ DOMAIN task[h] = Fields /\ Whom(task[h])
  BY <1>1, Here
<1>3. PICK t, k : t = task[h] /\ k = idents[t.d].token
  OBVIOUS
<1>4. PICK u : (u = [t EXCEPT !.pc = "ask", !.tok = k] \/ u = [t EXCEPT !.pc = "route"]) /\ Run(h, u)
  BY <1>3 DEF Claim, Goto
<1>5. t.d \in Idents
  BY <1>1, <1>2, <1>3 DEF Whom
<1>6. Steadily(t, u)
  BY <1>1, <1>2, <1>3, <1>4, <1>5 DEF Steadily, Fields
<1> QED BY <1>1, <1>2, <1>3, <1>4, <1>6, RoleGoesOn

LEMMA FailedRoles == ASSUME TokenInv, SignInv, RoleInv, NEW h \in Slots, Failed(h) PROVE RoleInv'
<1>1. task[h].pc = "failed" /\ UNCHANGED <<users, orgs, setup, signups, appointed, crossed, settled, flows>>
  BY DEF Failed, ghosts
<1>2. task[h] # Idle /\ DOMAIN task[h] = Fields
  BY <1>1, Here
<1>3. PICK t : t = task[h]
  OBVIOUS
<1>4. PICK u : (u = [t EXCEPT !.pc = "end"] \/ u = [t EXCEPT !.pc = "route"]) /\ Run(h, u)
  BY <1>3 DEF Failed, Goto
<1>5. Steadily(t, u)
  BY <1>1, <1>2, <1>3, <1>4 DEF Steadily, Fields
<1> QED BY <1>1, <1>2, <1>3, <1>4, <1>5, RoleGoesOn

LEMMA RecordRoles == ASSUME TokenInv, SignInv, RoleInv, NEW h \in Slots, Record(h) PROVE RoleInv'
<1>1. task[h].pc = "record" /\ UNCHANGED <<users, orgs, setup, signups, appointed, crossed, settled, flows>>
  BY DEF Record
<1>2. task[h] # Idle /\ DOMAIN task[h] = Fields /\ Whom(task[h])
  BY <1>1, Here
<1>3. PICK t : t = task[h]
  OBVIOUS
<1>4. PICK u : u = [t EXCEPT !.pc = IF t.long THEN "route" ELSE "sync", !.long = FALSE] /\ Run(h, u)
  BY <1>3 DEF Record
<1>5. t.d \in Idents
  BY <1>1, <1>2, <1>3 DEF Whom, Checks
<1>6. Steadily(t, u)
  BY <1>1, <1>2, <1>3, <1>4, <1>5 DEF Steadily, Fields
<1> QED BY <1>1, <1>2, <1>3, <1>4, <1>6, RoleGoesOn

LEMMA AdministerRoles == ASSUME TokenInv, SignInv, RoleInv, NEW h \in Slots, Administer(h) PROVE RoleInv'
<1>1. /\ task[h].pc = "route" /\ task[h].arg.op \in {"role", "disable", "enable"}
      /\ UNCHANGED <<users, orgs, setup, signups, appointed, crossed, settled, flows>>
  BY DEF Administer, db, ghosts
<1>2. task[h] # Idle /\ DOMAIN task[h] = Fields
  BY <1>1, Here
<1>3. PICK t, pc : t = task[h] /\ pc = t.arg.op
  OBVIOUS
<1>4. PICK u : (u = Idle \/ u = [t EXCEPT !.pc = pc]) /\ Run(h, u)
  BY <1>3 DEF Administer, Goto, Done
<1>5. u = Idle \/ Steadily(t, u)
  BY <1>1, <1>2, <1>3, <1>4 DEF Steadily, Fields
<1> QED BY <1>1, <1>2, <1>3, <1>4, <1>5, RoleGoesOn

LEMMA EndingRoles ==
  ASSUME TokenInv, SignInv, RoleInv, NEW h \in Slots, EndLink(h) \/ Move(h) \/ Abort(h)
  PROVE  RoleInv'
<1>1. /\ task[h] # Idle /\ Done(h)
      /\ UNCHANGED <<users, orgs, setup, signups, appointed, crossed, settled, flows>>
  BY DEF EndLink, Move, Abort, db, ghosts, Idle
<1> QED BY <1>1, RoleDone

LEMMA SignOutRoles ==
  ASSUME TokenInv, SignInv, RoleInv, NEW h \in Slots, Logout(h) \/ SignOut(h)
  PROVE  RoleInv'
<1>1. /\ task[h].pc \in {"route", "sessions", "codes", "tokens"}
      /\ UNCHANGED <<users, orgs, setup, signups, appointed, crossed, settled, flows>>
  BY DEF Logout, SignOut, KindIn
<1>2. task[h] # Idle /\ DOMAIN task[h] = Fields
  BY <1>1, Here
<1>3. PICK t : t = task[h]
  OBVIOUS
<1>4. PICK u : /\ u = Idle \/ \E pc \in {"sessions", "codes", "tokens"} : u = [t EXCEPT !.pc = pc]
               /\ Run(h, u)
  <2>1. CASE Done(h)
    BY <2>1 DEF Done
  <2>2. CASE \E pc \in {"sessions", "codes", "tokens"} : Goto(h, pc)
    BY <1>3, <2>2 DEF Goto
  <2>3. Logout(h) => Done(h) \/ Goto(h, "sessions")
    BY DEF Logout
  <2>4. SignOut(h) => Done(h) \/ Goto(h, "codes") \/ Goto(h, "tokens")
    <3>1. SUFFICES ASSUME SignOut(h), ~Done(h) PROVE Goto(h, "codes") \/ Goto(h, "tokens")
      OBVIOUS
    <3>2. task[h].pc \in DOMAIN TableAfter /\ Goto(h, TableAfter[task[h].pc])
      BY <3>1 DEF SignOut
    <3>3. task[h].pc \in {"sessions", "codes"} /\ TableAfter["sessions"] = "codes" /\ TableAfter["codes"] = "tokens"
      BY <3>2 DEF TableAfter
    <3> QED BY <3>2, <3>3
  <2> QED BY <2>1, <2>2, <2>3, <2>4
<1>5. u = Idle \/ Steadily(t, u)
  <2>1. ASSUME NEW pc \in {"sessions", "codes", "tokens"}, u = [t EXCEPT !.pc = pc] PROVE Steadily(t, u)
    BY <1>2, <1>3, <2>1 DEF Steadily, Fields
  <2> QED BY <1>4, <2>1
<1> QED BY <1>1, <1>2, <1>3, <1>4, <1>5, RoleGoesOn

-----------------------------------------------------------------------------
(* Directories answer *)

\* What was said of the role: of an operator, that nobody watches them any more.
LEMMA Spoken ==
  ASSUME TokenInv, NEW h \in Slots, task[h] # Idle, NEW u, Run(h, u), NEW d, d = task[h].d, NEW w, Says(d, w)
  PROVE  settled' \subseteq settled /\ crossed \subseteq crossed' /\ (w = "operator" => d \notin Watched')
<1>1. task'[h] = u /\ \A g \in Slots : g # h => task'[g] = task[g]
  BY DEF Run, TokenInv, Typed
<1>2. ASSUME w = "operator" PROVE d \notin Watched'
  <2>1. d \notin settled' /\ crossed' = crossed \cup Of(d)
    BY <1>2 DEF Says
  <2>2. ASSUME NEW g \in Slots, task'[g] # Idle, task'[g].d = d PROVE g \in crossed'
    BY <1>1, <2>1, <2>2 DEF Of
  <2> QED BY <2>1, <2>2 DEF Watched
<1> QED BY <1>2 DEF Says

\* A request has been told a role.
LEMMA ToldRoles ==
  ASSUME TokenInv, SignInv, RoleInv, NEW h \in Slots, NEW t, t = task[h], t # Idle, NEW u, Run(h, u),
         u.d = t.d, u.op = t.op, u.row = t.row, u.role = t.role, u.pc \in {"place", "take", "record"},
         u.pc = "record" => t.pc = "ask", u.pc \in {"place", "take"} => t.pc \in {"exchange", "password"},
         Says(t.d, u.want), UNCHANGED <<setup, users, orgs, signups, appointed, flows>>
  PROVE  RoleInv'
<1>1. RolesFine(h, t) /\ Flowing'
  BY FlowsSame DEF RoleInv
<1>2. PICK d, w : d = t.d /\ w = u.want
  OBVIOUS
<1>3. settled' \subseteq settled /\ crossed \subseteq crossed' /\ (w = "operator" => d \notin Watched')
  BY <1>2, Spoken
<1>4. Reads(h, u)'
  BY <1>1, <1>3 DEF RolesFine, Reads
<1>5. Lands(u)'
  BY <1>1 DEF RolesFine, Lands, Providers
<1>6. Demotes(u)'
  BY <1>2, <1>3 DEF Demotes, Bears
<1>7. RolesFine(h, u)'
  BY <1>4, <1>5, <1>6 DEF RolesFine
<1> QED BY <1>1, <1>3, <1>7, RoleLearns

LEMMA VouchedRoles ==
  ASSUME TokenInv, SignInv, RoleInv, NEW h \in Slots, task[h].pc \in {"exchange", "password"}, NEW id, NEW a,
         NEW pc \in {"place", "take"}, Vouched(h, id, a, pc), UNCHANGED <<setup, db, appointed>>
  PROVE  RoleInv'
<1>1. task[h] # Idle /\ DOMAIN task[h] = Fields
  BY Here
<1>2. PICK t : t = task[h]
  OBVIOUS
<1>3. PICK k, w : w = RoleFor(ProviderOf(t.d), id) /\ Says(t.d, w)
                  /\ Run(h, [t EXCEPT !.pc = pc, !.mail = id.email, !.want = w, !.tok = k])
  BY <1>2 DEF Vouched
<1>4. PICK u : u = [t EXCEPT !.pc = pc, !.mail = id.email, !.want = w, !.tok = k] /\ Run(h, u)
  BY <1>3
<1>5. u.pc = pc /\ u.d = t.d /\ u.want = w /\ u.op = t.op /\ u.row = t.row /\ u.role = t.role
  BY <1>1, <1>2, <1>4 DEF Fields
<1>6. UNCHANGED <<setup, users, orgs, signups, appointed, flows>> /\ Says(t.d, u.want)
  BY <1>3, <1>5 DEF db
<1> QED BY <1>1, <1>2, <1>4, <1>5, <1>6, ToldRoles

LEMMA ExchangeRoles == ASSUME TokenInv, SignInv, RoleInv, NEW h \in Slots, ExchangeStep(h) PROVE RoleInv'
<1>1. PICK a \in Answers :
        LET id == Exchange(ProviderOf(task[h].d), dir[task[h].d], a)
        IN  IF OK(id) THEN Vouched(h, id, a, "place") ELSE Done(h) /\ UNCHANGED <<tokens, settled, crossed>>
  BY DEF ExchangeStep
<1>2. task[h].pc = "exchange" /\ UNCHANGED <<setup, db, appointed>>
  BY DEF ExchangeStep
<1>3. PICK id : id = Exchange(ProviderOf(task[h].d), dir[task[h].d], a)
  OBVIOUS
<1>4. CASE OK(id)
  BY <1>1, <1>2, <1>3, <1>4, VouchedRoles
<1>5. CASE ~OK(id)
  <2>1. Done(h) /\ UNCHANGED <<settled, crossed>> /\ task[h] # Idle
    BY <1>1, <1>2, <1>3, <1>5, Here
  <2> QED BY <1>2, <2>1, RoleDone DEF db
<1> QED BY <1>4, <1>5

LEMMA AuthenticateRoles == ASSUME TokenInv, SignInv, RoleInv, NEW h \in Slots, AuthenticateStep(h) PROVE RoleInv'
<1>1. PICK a \in Answers, admitted \in BOOLEAN :
        LET id == Authenticate(ProviderOf(task[h].d), dir[task[h].d], a, admitted)
        IN  IF OK(id) THEN Vouched(h, id, a, IF task[h].flow = 0 THEN "place" ELSE "take")
            ELSE Done(h) /\ UNCHANGED <<tokens, settled, crossed>>
  BY DEF AuthenticateStep
<1>2. task[h].pc = "password" /\ UNCHANGED <<setup, db, appointed>>
  BY DEF AuthenticateStep
<1>3. PICK id : id = Authenticate(ProviderOf(task[h].d), dir[task[h].d], a, admitted)
  OBVIOUS
<1>4. CASE OK(id)
  <2>1. PICK pc \in {"place", "take"} : pc = IF task[h].flow = 0 THEN "place" ELSE "take"
    OBVIOUS
  <2>2. Vouched(h, id, a, pc)
    BY <1>1, <1>3, <1>4, <2>1
  <2> QED BY <1>2, <2>2, VouchedRoles
<1>5. CASE ~OK(id)
  <2>1. Done(h) /\ UNCHANGED <<settled, crossed>> /\ task[h] # Idle
    BY <1>1, <1>2, <1>3, <1>5, Here
  <2> QED BY <1>2, <2>1, RoleDone DEF db
<1> QED BY <1>4, <1>5

LEMMA AskRoles == ASSUME TokenInv, SignInv, RoleInv, NEW h \in Slots, Ask(h) PROVE RoleInv'
<1>1. task[h].pc = "ask" /\ UNCHANGED <<setup, users, orgs, signups, appointed, flows>>
  BY DEF Ask, db
<1>2. task[h] # Idle /\ DOMAIN task[h] = Fields /\ task[h].d \in Idents
  BY <1>1, Here DEF Whom, Checks
<1>3. PICK t, id, k, w : t = task[h] /\ Answered(h, id, k) /\ w = RoleFor(ProviderOf(t.d), id)
  BY DEF Ask
<1>4. CASE UNCHANGED <<settled, crossed>>
  <2>1. PICK u : /\ \/ u = [t EXCEPT !.pc = "end"] \/ u = [t EXCEPT !.pc = "failed"]
                    \/ u = [t EXCEPT !.pc = "record", !.tok = k, !.long = TRUE]
                    \/ u = [t EXCEPT !.pc = "record", !.tok = k, !.want = w] /\ Says(t.d, w)
                 /\ Run(h, u)
    BY <1>3 DEF Answered, Goto
  <2>2. CASE u = [t EXCEPT !.pc = "record", !.tok = k, !.want = w] /\ Says(t.d, w)
    <3>1. /\ u.pc = "record" /\ u.d = t.d /\ u.want = w /\ u.op = t.op /\ u.row = t.row /\ u.role = t.role
          /\ Says(t.d, u.want)
      BY <1>2, <1>3, <2>2 DEF Fields
    <3> QED BY <1>1, <1>2, <1>3, <2>1, <3>1, ToldRoles
  <2>3. CASE ~(u = [t EXCEPT !.pc = "record", !.tok = k, !.want = w] /\ Says(t.d, w))
    <3>1. Steadily(t, u)
      BY <1>1, <1>2, <1>3, <2>1, <2>3 DEF Steadily, Fields
    <3> QED BY <1>1, <1>2, <1>3, <1>4, <2>1, <3>1, RoleGoesOn
  <2> QED BY <2>2, <2>3
<1>5. CASE ~UNCHANGED <<settled, crossed>>
  <2>1. PICK u : u = [t EXCEPT !.pc = "record", !.tok = k, !.want = w] /\ Says(t.d, w) /\ Run(h, u)
    BY <1>3, <1>5 DEF Answered
  <2>2. /\ u.pc = "record" /\ u.d = t.d /\ u.want = w /\ u.op = t.op /\ u.row = t.row /\ u.role = t.role
        /\ Says(t.d, u.want)
    BY <1>2, <1>3, <2>1 DEF Fields
  <2> QED BY <1>1, <1>2, <1>3, <2>1, <2>2, ToldRoles
<1> QED BY <1>4, <1>5

-----------------------------------------------------------------------------
(* Sign-ins find their row and get its role *)

\* Where a sign-in is placed its directory's addresses land, or the person is
\* there already; who is shown the sign-up screen may sign up.
LEMMA PlacedWhere ==
  ASSUME NEW d, NEW email, NEW o \in OrgFor(d, email)
  PROVE  /\ o \in Orgs => o \in DirectoryOrg(orgs, Providers, email) \/ HasExt(users, o, d)
         /\ o \notin Orgs => ProviderOf(d).signUp \/ o \in orgs \/ HasExt(users, o, d)
<1> DEFINE ms       == Memberships(users, d, Nobody, FALSE)
           byDomain == OrgByEmailDomain(orgs, DomainOf[email])
           invited  == InvitationFor(users, email)
           pairs    == {<<"signup", x>> : x \in IF invited = {} THEN {Nobody} ELSE invited}
<1>1. \/ o \in LastOrg(ms) \/ o \in byDomain \/ (o \in pairs /\ ProviderOf(d).signUp)
      \/ (byDomain = {} /\ ~SignUpAllowed(Providers) /\ o \in OnlyOrg(orgs))
  BY DEF OrgFor
<1>2. ASSUME o \in LastOrg(ms) PROVE HasExt(users, o, d)
  <2>1. PICK row \in ms : o = OrgOf(row)
    BY <1>2 DEF LastOrg
  <2>2. row \in RowsOf(users, d)
    BY <2>1 DEF Memberships
  <2> QED BY <2>1, <2>2 DEF HasExt
<1>3. o \in byDomain => o \in DirectoryOrg(orgs, Providers, email) /\ o \in orgs
  BY DEF DirectoryOrg, OrgByEmailDomain
<1>4. byDomain = {} /\ ~SignUpAllowed(Providers) /\ o \in OnlyOrg(orgs) =>
        o \in DirectoryOrg(orgs, Providers, email) /\ o \in orgs
  BY DEF DirectoryOrg, OnlyOrg
<1>5. ASSUME o \in pairs PROVE o \notin Orgs
  <2>1. invited \subseteq Orgs
    BY RowFacts DEF InvitationFor
  <2> HIDE DEF invited
  <2>2. PICK x \in Orgs \cup {Nobody} : o = <<"signup", x>>
    BY <1>5, <2>1
  <2> QED BY <2>2, SignInAssumption
<1> HIDE DEF pairs, byDomain, ms, invited
<1> QED BY <1>1, <1>2, <1>3, <1>4, <1>5

\* A request gives roles as it may.
LEMMA RoleGives ==
  ASSUME TokenInv, SignInv, RoleInv, NEW h \in Slots, task[h] # Idle, NEW u, Run(h, u), u = Idle \/ u.d = task[h].d,
         UNCHANGED <<orgs, setup, signups, crossed, settled, flows>>, Grows(users, users'),
         appointed \subseteq appointed', \A r \in Rows : Exists(users', r) => Kindly(r),
         u # Idle => RolesFine(h, u)'
  PROVE  RoleInv'
<1>1. settled' \subseteq Watched
  BY DEF Watched
<1>2. Watched' \subseteq Watched
  BY <1>1, LessWatched
<1>3. Flowing' /\ Opened' /\ settled' \subseteq settled
  BY <1>2, FlowsSame, OpenedStays
<1>4. Standing' /\ RolesAppointed' /\ OldOps
  BY <1>3, RolesStand DEF RoleInv
<1> QED BY <1>1, <1>4, RoleMove

LEMMA PlaceRoles == ASSUME TokenInv, SignInv, RoleInv, NEW h \in Slots, Place(h) PROVE RoleInv'
<1>1. task[h].pc = "place" /\ UNCHANGED <<users, orgs, setup, appointed, crossed, settled, flows>>
  BY DEF Place, ghosts
<1>2. /\ task[h] # Idle /\ DOMAIN task[h] = Fields /\ RolesFine(h, task[h]) /\ Whom(task[h])
  BY <1>1, Here DEF RoleInv
<1>3. PICK t : t = task[h]
  OBVIOUS
<1>4. t.d \in Idents /\ t.op = "signin" /\ t.d[1] \in DOMAIN Providers
  BY <1>1, <1>2, <1>3 DEF Whom, Carries, RolesFine, Lands
<1>5. CASE Done(h) /\ UNCHANGED signups
  BY <1>1, <1>2, <1>5, RoleDone
<1>6. CASE \E o \in OrgFor(t.d, t.mail) \cap Orgs :
             Run(h, [t EXCEPT !.pc = "link", !.row = <<o, t.mail>>]) /\ UNCHANGED signups
  <2>1. PICK o \in OrgFor(t.d, t.mail) \cap Orgs :
             Run(h, [t EXCEPT !.pc = "link", !.row = <<o, t.mail>>]) /\ UNCHANGED signups
    BY <1>6
  <2>2. PICK u : u = [t EXCEPT !.pc = "link", !.row = <<o, t.mail>>] /\ Run(h, u)
    BY <2>1
  <2>3. u.pc = "link" /\ OrgOf(u.row) = o /\ u.d = t.d /\ u.want = t.want /\ u.mail = t.mail /\ u.op = t.op
    BY <1>2, <1>3, <2>2 DEF Fields, OrgOf
  <2>4. o \in DirectoryOrg(orgs, Providers, t.mail) \/ HasExt(users, o, t.d)
    BY <2>1, PlacedWhere
  <2>5. Lands(u)'
    <3>1. PICK m, d : m = t.mail /\ d = t.d
      OBVIOUS
    <3>2. o \in DirectoryOrg(orgs, Providers, m)' \/ HasExt(users, o, d)'
      BY <1>1, <2>4, <3>1 DEF DirectoryOrg, Providers, HasExt, RowsOf, Exists
    <3> QED BY <2>3, <3>1, <3>2 DEF Lands
  <2>6. Reads(h, u)' /\ Demotes(u)'
    <3>1. settled' \subseteq Watched /\ task[h] # Idle /\ u.d = task[h].d
      BY <1>1, <1>2, <1>3, <2>3 DEF Watched
    <3>2. Watched' \subseteq Watched
      BY <1>1, <2>2, <3>1, LessWatched
    <3>3. \A d : Bears(u, d) => Bears(t, d)
      BY <1>2, <1>3, <2>3 DEF Bears
    <3> QED BY <1>2, <1>3, <2>3, <3>2, <3>3 DEF RolesFine, Reads, Demotes
  <2>7. RolesFine(h, u)' /\ Flowing'
    BY <1>1, <2>5, <2>6, FlowsSame DEF RolesFine
  <2> QED BY <1>1, <1>2, <1>3, <2>1, <2>2, <2>3, <2>7, RoleLearns
<1>7. CASE \E o \in OrgFor(t.d, t.mail) \ Orgs : StartSignup(h, o[2]) /\ Done(h)
  <2>1. PICK o \in OrgFor(t.d, t.mail) \ Orgs : StartSignup(h, o[2]) /\ Done(h)
    BY <1>7
  <2>2. CASE t.cli
    BY <1>1, <1>2, <1>3, <2>1, <2>2, RoleDone DEF StartSignup
  <2>3. CASE ~t.cli
    <3>1. PICK su : su = [d |-> t.d, mail |-> t.mail, want |-> t.want, tok |-> t.tok, invited |-> o[2]]
      OBVIOUS
    <3>2. PICK s \in SignupIds : signups' = [signups EXCEPT ![s] = su]
      BY <1>3, <2>1, <2>3, <3>1 DEF StartSignup
    <3>3. ProviderOf(t.d).signUp
      <4>1. o \notin orgs /\ ~HasExt(users, o, t.d)
        BY <2>1, RowFacts DEF SignInv, SignedIn, UsersOK, HasExt, RowsOf
      <4> QED BY <2>1, <4>1, PlacedWhere
    <3>4. SignUpAllowed(Providers)
      BY <1>4, <3>3 DEF SignUpAllowed, ProviderOf
    <3>5. PICK u : u = Idle /\ Run(h, u)
      BY <2>1 DEF Done
    <3>6. settled' \subseteq Watched
      BY <1>1 DEF Watched
    <3>7. Watched' \subseteq Watched
      BY <1>1, <1>2, <3>5, <3>6, LessWatched
    <3>8. su.want = "operator" => su.d \notin Watched
      <4>1. su.want = t.want /\ su.d = t.d
        BY <3>1
      <4>2. t.want = "operator" => Bears(t, t.d)
        BY <1>2, <1>3 DEF Bears
      <4> QED BY <1>2, <1>3, <4>1, <4>2 DEF RolesFine, Demotes
    <3>9. Opened'
      <4>1. ASSUME NEW r \in SignupIds, signups'[r] # Nobody, signups'[r].want = "operator"
            PROVE  signups'[r].d \notin Watched
        <5>1. DOMAIN signups = SignupIds
          BY DEF TokenInv, Typed
        <5>2. CASE r = s
          BY <3>2, <3>8, <4>1, <5>1, <5>2
        <5>3. CASE r # s
          BY <3>2, <4>1, <5>1, <5>3 DEF RoleInv, Standing, Opened
        <5> QED BY <5>2, <5>3
      <4>2. SignUpAllowed(Providers)'
        BY <1>1, <3>4 DEF Providers
      <4> QED BY <3>7, <4>1, <4>2 DEF Opened
    <3>10. Standing' /\ RolesAppointed' /\ Grows(users, users') /\ OldOps
      BY <1>1, <3>9, FlowsSame, StandStays
    <3> QED BY <1>1, <1>2, <3>5, <3>6, <3>10, RoleMove
  <2> QED BY <2>2, <2>3
<1> QED BY <1>3, <1>5, <1>6, <1>7 DEF Place

LEMMA LinkRoles == ASSUME TokenInv, SignInv, RoleInv, NEW h \in Slots, Link(h) PROVE RoleInv'
<1>1. task[h].pc = "link" /\ UNCHANGED <<orgs, setup, signups, crossed, settled, flows>>
  BY DEF Link
<1>2. /\ task[h] # Idle /\ DOMAIN task[h] = Fields /\ RolesFine(h, task[h]) /\ Whom(task[h]) /\ Fine(task[h])
  BY <1>1, Here DEF RoleInv
<1>3. PICK t, us, org, email, ext, role : /\ t = task[h] /\ us = users /\ org = OrgOf(t.row) /\ email = t.mail
                                          /\ ext = t.d /\ role = t.want
  OBVIOUS
<1>4. /\ us \in UserTable /\ org \in Orgs /\ email \in Emails /\ ext \in ExternalIDs /\ role \in Roles
      /\ t.op = "signin" /\ t.d \in Idents
  BY <1>1, <1>2, <1>3 DEF SignInv, SignedIn, UsersOK, UserTable, Fine, Knows, Whom, Carries
<1>5. PICK res : res = LinkUser(us, org, email, ext, role)
  OBVIOUS
<1>6. CASE ~OK(res)
  <2>1. Done(h) /\ UNCHANGED <<users, appointed>>
    BY <1>3, <1>5, <1>6 DEF Link
  <2> QED BY <1>1, <1>2, <2>1, RoleDone
<1>7. CASE OK(res)
  <2>1. /\ Grows(us, res.users) /\ res.row \in Rows /\ OrgOf(res.row) = org
        /\ Exists(res.users, res.row) /\ res.users[res.row].ext = ext
        /\ MakesOne(us, res.users, res.row, role) /\ (HasExt(us, org, ext) => Exists(us, res.row))
    BY <1>4, <1>5, <1>7, Linked
  <2>2. PICK row, rl : row = res.row /\ rl = res.users[res.row].role
    BY Zenon
  <2>3. PICK u : /\ users' = res.users
                 /\ appointed' = (IF rl = "admin" /\ ~Exists(users, row)
                                       /\ org \in DirectoryOrg(orgs, Providers, email)
                                  THEN appointed \cup {row} ELSE appointed)
                 /\ (u = Idle \/ u = [t EXCEPT !.pc = "sync", !.row = row, !.role = rl]) /\ Run(h, u)
    BY <1>3, <1>5, <1>7, <2>1, <2>2 DEF Link, Appoint, Done
  <2>4. Grows(users, users') /\ MakesOne(users, users', row, role)
    BY <1>3, <2>1, <2>2, <2>3
  <2>5. role = "admin" /\ row \in Rows /\ Exists(users', row) /\ ~Exists(users, row) => row \in appointed'
    <3>1. SUFFICES ASSUME role = "admin", row \in Rows, Exists(users', row), ~Exists(users, row)
                   PROVE  row \in appointed'
      OBVIOUS
    <3>2. rl = "admin"
      BY <1>3, <2>1, <2>2, <3>1 DEF MakesOne
    <3>3. org \in DirectoryOrg(orgs, Providers, email)
      BY <1>1, <1>2, <1>3, <2>1, <2>2, <3>1 DEF RolesFine, Lands
    <3> QED BY <2>3, <3>1, <3>2, <3>3
  <2>6. role = "operator" /\ row \in Rows /\ Exists(users', row) => users'[row].ext \notin Watched \cup {NoExt}
    BY <1>2, <1>3, <1>4, <2>1, <2>2, <2>3, RowFacts DEF RolesFine, Demotes, Bears
  <2>7. \A r \in Rows : Exists(users', r) => Kindly(r)
    BY <2>4, <2>5, <2>6, MadeKindly
  <2>8. ASSUME u # Idle PROVE RolesFine(h, u)'
    <3>1. u.pc = "sync" /\ u.d = t.d /\ u.want = t.want /\ u.row = row /\ u.role = rl /\ u.op = t.op
      BY <1>2, <1>3, <2>3, <2>8 DEF Fields
    <3>2. Reads(h, u)'
      BY <2>2, <2>3, <3>1 DEF Reads
    <3>3. Lands(u)'
      BY <3>1 DEF Lands
    <3>4. Demotes(u)'
      <4>1. settled' \subseteq Watched /\ u.d = task[h].d
        BY <1>1, <1>3, <3>1 DEF Watched
      <4>2. Watched' \subseteq Watched
        BY <1>1, <1>2, <2>3, <4>1, LessWatched
      <4>3. \A d : Bears(u, d) => Bears(t, d)
        BY <1>2, <1>3, <3>1 DEF Bears
      <4> QED BY <1>2, <1>3, <1>4, <3>1, <4>2, <4>3 DEF RolesFine, Demotes
    <3> QED BY <3>2, <3>3, <3>4 DEF RolesFine
  <2>9. appointed \subseteq appointed' /\ (u = Idle \/ u.d = task[h].d)
    BY <1>2, <1>3, <2>3 DEF Fields
  <2> QED BY <1>1, <1>2, <2>3, <2>4, <2>7, <2>8, <2>9, RoleGives
<1> QED BY <1>6, <1>7

\* The admin role comes from the directory where its addresses land, and an
\* operator is one whom the directory says is one.
LEMMA SyncedWhere ==
  ASSUME NEW ps, NEW os, NEW row, NEW email, NEW stored, NEW fromIDP,
         NEW role, role = SyncedRole(ps, os, row, email, stored, fromIDP)
  PROVE  /\ role = "admin" /\ role # stored => OrgOf(row) \in DirectoryOrg(os, ps, email)
         /\ fromIDP # "operator" => role # "operator"
BY DEF SyncedRole, RoleAtSignIn

LEMMA SyncRoles == ASSUME TokenInv, SignInv, RoleInv, NEW h \in Slots, Sync(h) PROVE RoleInv'
<1>1. task[h].pc = "sync" /\ UNCHANGED <<orgs, setup, signups, crossed, settled, flows>>
  BY DEF Sync
<1>2. /\ task[h] # Idle /\ DOMAIN task[h] = Fields /\ RolesFine(h, task[h]) /\ Whom(task[h]) /\ Fine(task[h])
  BY <1>1, Here DEF RoleInv
<1>3. PICK t, us, row : t = task[h] /\ us = users /\ row = t.row
  OBVIOUS
<1>4. /\ us \in UserTable /\ t.op \in {"signin", "local", "join", "request"} /\ row \in Rows /\ Exists(us, row)
      /\ us[row].ext = t.d /\ t.d \in ExternalIDs /\ t.role \in Roles /\ t.want \in Roles
  BY <1>1, <1>2, <1>3 DEF SignInv, SignedIn, UsersOK, UserTable, Fine, Knows, Own, Places, Early
<1>5. PICK role : role = SyncedRole(Providers, orgs, row, t.mail, t.role, t.want)
  OBVIOUS
<1>6. /\ role \in Roles
      /\ role = "admin" /\ role # t.role => OrgOf(row) \in DirectoryOrg(orgs, Providers, t.mail)
      /\ t.want # "operator" => role # "operator"
  <2>1. PICK ps, os, email, stored, fromIDP : /\ ps = Providers /\ os = orgs /\ email = t.mail
                                              /\ stored = t.role /\ fromIDP = t.want
    OBVIOUS
  <2>2. role = SyncedRole(ps, os, row, email, stored, fromIDP)
    BY <1>5, <2>1
  <2>3. role \in Roles
    BY <1>4, <1>5, SyncedIn
  <2> QED BY <2>1, <2>2, <2>3, SyncedWhere
<1>7. CASE /\ users' = (IF role = t.role THEN users ELSE SetUserRole(users, t.row, role))
           /\ Appoint(t.row, role, role # t.role /\ OrgOf(t.row) \in DirectoryOrg(orgs, Providers, t.mail))
           /\ Run(h, [t EXCEPT !.pc = AfterSync(t), !.role = role])
  <2>1. /\ Grows(us, users') /\ \A r \in Rows : Exists(users', r) => Exists(us, r) /\ users'[r].ext = us[r].ext
        /\ \A r \in Rows : r # row => users'[r] = us[r]
        /\ role # t.role => users'[row].role = role
        /\ role = t.role => users' = us
    <3>1. CASE role = t.role
      <4>1. users' = us
        BY <1>3, <1>7, <3>1
      <4> QED BY <1>4, <3>1, <4>1 DEF Grows
    <3>2. CASE role # t.role
      <4>1. PICK vs : vs = SetUserRole(us, row, role)
        OBVIOUS
      <4>2. /\ Grows(us, vs) /\ vs[row].role = role
            /\ \A r \in Rows : /\ r # row => vs[r] = us[r]
                               /\ Exists(vs, r) => Exists(us, r) /\ vs[r].ext = us[r].ext
        BY <1>4, <1>6, <4>1, SetsRole
      <4>3. users' = vs
        BY <1>3, <1>7, <3>2, <4>1
      <4> QED BY <3>2, <4>2, <4>3
    <3> QED BY <3>1, <3>2
  <2>2. /\ appointed \subseteq appointed'
        /\ role = "admin" /\ role # t.role => row \in appointed'
    BY <1>3, <1>6, <1>7 DEF Appoint
  <2>3. t.want = "operator" => t.d \notin Watched
    BY <1>2, <1>3 DEF RolesFine, Demotes, Bears
  <2>4. ASSUME NEW r \in Rows, Exists(users', r) PROVE Kindly(r)
    <3>1. CASE r # row \/ role = t.role
      <4>1. Exists(users, r) /\ users'[r] = users[r]
        BY <1>3, <2>1, <2>4, <3>1
      <4> QED BY <4>1 DEF Kindly
    <3>2. CASE r = row /\ role # t.role
      <4>1. users'[r].role = role /\ users'[r].ext = t.d /\ t.d # NoExt
        BY <1>4, <2>1, <2>4, <3>2, RowFacts
      <4> QED BY <1>6, <2>2, <2>3, <3>2, <4>1 DEF Kindly
    <3> QED BY <3>1, <3>2
  <2>5. PICK pc, u : pc = AfterSync(t) /\ u = [t EXCEPT !.pc = pc, !.role = role] /\ Run(h, u)
    BY <1>7
  <2>6. pc \in {"others", "ttl"} /\ (pc = "others" <=> t.op \in {"signin", "request"})
    BY <1>4, <2>5 DEF AfterSync
  <2>7. u.pc = pc /\ u.d = t.d /\ u.want = t.want /\ u.row = row /\ u.role = role /\ u.op = t.op
    BY <1>2, <1>3, <2>5 DEF Fields
  <2>8. Reads(h, u)'
    <3>1. SUFFICES ASSUME h \notin crossed, t.op \in {"signin", "request"} PROVE users'[row].role # "operator"
      BY <1>1, <2>6, <2>7 DEF Reads
    <3>2. t.d \in Idents /\ (us[row].role = "operator" => t.role = "operator")
      BY <1>1, <1>2, <1>3, <3>1 DEF RolesFine, Reads, Demotes
    <3>3. t.d \in Watched
      BY <1>2, <1>3, <3>1, <3>2 DEF Watched
    <3> QED BY <1>6, <2>1, <2>3, <3>2, <3>3
  <2>9. Lands(u)'
    BY <2>6, <2>7 DEF Lands
  <2>10. Demotes(u)'
    <3>1. settled' \subseteq Watched /\ u.d = task[h].d
      BY <1>1, <1>3, <2>7 DEF Watched
    <3>2. Watched' \subseteq Watched
      BY <1>1, <1>2, <2>5, <3>1, LessWatched
    <3>3. \A d : Bears(u, d) => Bears(t, d)
      BY <1>2, <1>3, <2>6, <2>7 DEF Bears
    <3> QED BY <1>1, <1>2, <1>3, <2>6, <2>7, <3>2, <3>3 DEF RolesFine, Demotes
  <2>11. RolesFine(h, u)'
    BY <2>8, <2>9, <2>10 DEF RolesFine
  <2> QED BY <1>1, <1>2, <1>3, <2>1, <2>2, <2>4, <2>5, <2>7, <2>11, RoleGives
<1>8. CASE t.op = "request" /\ Goto(h, "route") /\ UNCHANGED <<users, appointed>>
  <2>1. PICK u : u = [t EXCEPT !.pc = "route"] /\ Run(h, u)
    BY <1>3, <1>8 DEF Goto
  <2>2. Steadily(t, u)
    BY <1>2, <1>3, <2>1 DEF Steadily, Fields
  <2> QED BY <1>1, <1>2, <1>3, <1>8, <2>1, <2>2, RoleGoesOn
<1> QED BY <1>3, <1>5, <1>7, <1>8 DEF Sync

\* The other rows are read, and what is read of them is what they are.
LEMMA SyncOthersRoles == ASSUME TokenInv, SignInv, RoleInv, NEW h \in Slots, SyncOthers(h) PROVE RoleInv'
<1>1. task[h].pc = "others" /\ UNCHANGED <<users, orgs, setup, signups, appointed, crossed, settled, flows>>
  BY DEF SyncOthers, db, ghosts
<1>2. /\ task[h] # Idle /\ DOMAIN task[h] = Fields /\ RolesFine(h, task[h]) /\ Fine(task[h])
  BY <1>1, Here DEF RoleInv
<1>3. PICK t : t = task[h]
  OBVIOUS
<1>4. t.op \in {"signin", "request"} /\ t.d \in Idents
  BY <1>1, <1>2, <1>3 DEF Fine, Knows, Places, RolesFine, Demotes
<1>5. CASE t.op = "request" /\ Goto(h, "route")
  <2>1. PICK u : u = [t EXCEPT !.pc = "route"] /\ Run(h, u)
    BY <1>3, <1>5 DEF Goto
  <2>2. Steadily(t, u)
    BY <1>2, <1>3, <2>1 DEF Steadily, Fields
  <2> QED BY <1>1, <1>2, <1>3, <2>1, <2>2, RoleGoesOn
<1>6. CASE Run(h, [t EXCEPT !.pc = "each", !.rest = [row \in Others(t) |-> users[row].role]])
  <2>1. PICK rest : rest = [row \in Others(t) |-> users[row].role]
    OBVIOUS
  <2>2. PICK u : u = [t EXCEPT !.pc = "each", !.rest = rest] /\ Run(h, u)
    BY <1>6, <2>1
  <2>3. /\ u.pc = "each" /\ u.rest = rest /\ u.d = t.d /\ u.want = t.want /\ u.op = t.op
        /\ u.row = t.row /\ u.role = t.role
    BY <1>2, <1>3, <2>2 DEF Fields
  <2>4. Reads(h, u)'
    <3>1. SUFFICES ASSUME h \notin crossed, NEW row \in RowsOf(users, t.d), users[row].role = "operator"
                   PROVE  row \in DOMAIN rest /\ rest[row] = "operator"
      BY <1>1, <2>3 DEF Reads, RowsOf, Exists
    <3>2. row # t.row
      BY <1>1, <1>2, <1>3, <1>4, <3>1 DEF RolesFine, Reads
    <3> QED BY <2>1, <3>1, <3>2 DEF Others
  <2>5. Demotes(u)'
    <3>1. settled' \subseteq Watched /\ u.d = task[h].d
      BY <1>1, <1>3, <2>3 DEF Watched
    <3>2. Watched' \subseteq Watched
      BY <1>1, <1>2, <2>2, <3>1, LessWatched
    <3>3. \A d : Bears(u, d) => Bears(t, d)
      BY <1>2, <1>3, <2>3 DEF Bears
    <3> QED BY <1>2, <1>3, <1>4, <2>3, <3>2, <3>3 DEF RolesFine, Demotes
  <2>6. RolesFine(h, u)' /\ Flowing'
    BY <1>1, <2>3, <2>4, <2>5, FlowsSame DEF RolesFine, Lands
  <2> QED BY <1>1, <1>2, <1>3, <2>2, <2>3, <2>6, RoleLearns
<1> QED BY <1>3, <1>5, <1>6 DEF SyncOthers

\* One row gets a role.
LEMMA RowKindly ==
  ASSUME SignInv, NEW row \in Rows, Exists(users, row), NEW role \in Roles, users' = SetUserRole(users, row, role),
         role = "admin" => row \in appointed', role = "operator" => users[row].ext \notin Watched \cup {NoExt}
  PROVE  Grows(users, users') /\ \A r \in Rows : Exists(users', r) => Kindly(r)
<1>1. PICK us, vs : us = users /\ vs = SetUserRole(us, row, role) /\ us \in UserTable
  BY DEF SignInv, SignedIn, UsersOK, UserTable
<1>2. /\ Grows(us, vs) /\ vs[row].role = role
      /\ \A r \in Rows : /\ r # row => vs[r] = us[r]
                         /\ Exists(vs, r) => Exists(us, r) /\ vs[r].ext = us[r].ext
  BY <1>1, SetsRole
<1>3. users' = vs
  BY <1>1
<1>4. ASSUME NEW r \in Rows, Exists(users', r) PROVE Kindly(r)
  <2>1. Exists(users, r) /\ users'[r].ext = users[r].ext
    BY <1>1, <1>2, <1>3, <1>4
  <2>2. CASE r # row
    BY <1>1, <1>2, <1>3, <2>1, <2>2 DEF Kindly
  <2>3. CASE r = row
    <3>1. users'[r].role = role
      BY <1>2, <1>3, <2>3
    <3> QED BY <2>1, <2>3, <3>1 DEF Kindly
  <2> QED BY <2>2, <2>3
<1> QED BY <1>1, <1>2, <1>3, <1>4

\* One of them gets its role, they all have it, or the rest is left.
LEMMA SyncEachRoles == ASSUME TokenInv, SignInv, RoleInv, NEW h \in Slots, SyncEach(h) PROVE RoleInv'
<1>1. task[h].pc = "each" /\ UNCHANGED <<orgs, setup, signups, crossed, flows>>
  BY DEF SyncEach
<1>2. /\ task[h] # Idle /\ DOMAIN task[h] = Fields /\ RolesFine(h, task[h]) /\ Fine(task[h])
  BY <1>1, Here DEF RoleInv
<1>3. PICK t : t = task[h]
  OBVIOUS
<1>4. /\ t.op \in {"signin", "request"} /\ t.d \in Idents /\ t.want \in Roles /\ t.d # NoExt
      /\ \A r \in DOMAIN t.rest : Own(r, t.d) /\ t.rest[r] \in Roles
  BY <1>1, <1>2, <1>3, RowFacts DEF Fine, Knows, Places, Asked, RolesFine, Demotes
<1>5. t.want = "operator" => t.d \notin Watched
  BY <1>2, <1>3 DEF RolesFine, Demotes, Bears
<1>6. h \notin crossed => t.d \in Watched
  BY <1>2, <1>3, <1>4 DEF Watched
<1>7. h \notin crossed => \A row \in RowsOf(users, t.d) : users[row].role = "operator" =>
                            row \in DOMAIN t.rest /\ t.rest[row] = "operator"
  BY <1>1, <1>2, <1>3, <1>4 DEF RolesFine, Reads
<1>8. ASSUME NEW u, Run(h, u), u.d = t.d, u.want = t.want, u.op = t.op, u.pc \notin {"target", "carry"},
             settled' \subseteq Watched
      PROVE  Watched' \subseteq Watched /\ Demotes(u)'
  <2>1. u.d = task[h].d
    BY <1>3, <1>8
  <2>2. Watched' \subseteq Watched
    BY <1>1, <1>2, <1>8, <2>1, LessWatched
  <2>3. \A d : Bears(u, d) => Bears(t, d)
    BY <1>2, <1>3, <1>8 DEF Bears
  <2> QED BY <1>2, <1>3, <1>4, <1>8, <2>2, <2>3 DEF RolesFine, Demotes
<1>9. CASE /\ DOMAIN t.rest = {}
           /\ settled' = IF t.want # "operator" /\ h \notin crossed THEN settled \cup {t.d} ELSE settled
           /\ Run(h, [t EXCEPT !.pc = IF t.op = "signin" THEN "remember" ELSE "route"])
           /\ UNCHANGED <<users, appointed>>
  <2>1. PICK pc, u : /\ pc = (IF t.op = "signin" THEN "remember" ELSE "route")
                     /\ u = [t EXCEPT !.pc = pc] /\ Run(h, u)
    BY <1>9
  <2>2. u.pc \in {"remember", "route"} /\ u.d = t.d /\ u.want = t.want /\ u.op = t.op
    BY <1>2, <1>3, <2>1 DEF Fields
  <2>3. settled' \subseteq Watched /\ settled' \subseteq Idents
    BY <1>4, <1>6, <1>9 DEF Watched, RoleInv, Standing
  <2>4. Watched' \subseteq Watched /\ Demotes(u)'
    BY <1>8, <2>1, <2>2, <2>3
  <2>5. RolesFine(h, u)' /\ Flowing' /\ Opened'
    BY <1>1, <2>2, <2>4, FlowsSame, OpenedStays DEF RolesFine, Reads, Lands
  <2>6. Grows(users, users') /\ InvitationsOK(users)' /\ OldOps
    <3>1. Grows(users, users') /\ \A r \in Rows : Exists(users', r) => Kindly(r)
      BY <1>9, NobodyChanges
    <3> QED BY <1>9, <3>1, RolesKeep DEF RoleInv
  <2>7. Standing'
    BY <2>3, <2>5, <2>6 DEF Standing
  <2>8. RolesAppointed'
    <3>1. ASSUME NEW d \in settled', NEW row \in RowsOf(users, d) PROVE users[row].role # "operator"
      <4>1. CASE d \in settled
        BY <4>1 DEF RoleInv, RolesAppointed
      <4>2. CASE d \notin settled
        <5>1. d = t.d /\ h \notin crossed
          BY <1>9, <4>2
        <5> QED BY <1>7, <1>9, <5>1
      <4> QED BY <4>1, <4>2
    <3> QED BY <1>9, <3>1 DEF RoleInv, RolesAppointed, RowsOf, Exists
  <2> QED BY <1>1, <1>2, <1>3, <2>1, <2>2, <2>3, <2>5, <2>6, <2>7, <2>8, RoleMove
<1>10. ASSUME NEW row \in DOMAIN t.rest, NEW role, role = SyncedRole(Providers, orgs, row, t.mail, t.rest[row], t.want),
              users' = (IF role = t.rest[row] THEN users ELSE SetUserRole(users, row, role)),
              Appoint(row, role, role # t.rest[row] /\ OrgOf(row) \in DirectoryOrg(orgs, Providers, t.mail)),
              Run(h, [t EXCEPT !.rest = [r \in DOMAIN t.rest \ {row} |-> t.rest[r]]]), UNCHANGED settled
       PROVE  RoleInv'
  <2>1. PICK was : was = t.rest[row]
    OBVIOUS
  <2>2. row \in Rows /\ Exists(users, row) /\ users[row].ext = t.d /\ was \in Roles
    BY <1>4, <1>10, <2>1 DEF Own
  <2>3. /\ role \in Roles
        /\ role = "admin" /\ role # was => OrgOf(row) \in DirectoryOrg(orgs, Providers, t.mail)
        /\ t.want # "operator" => role # "operator"
    <3>1. PICK ps, os, email, fromIDP : ps = Providers /\ os = orgs /\ email = t.mail /\ fromIDP = t.want
      OBVIOUS
    <3>2. role = SyncedRole(ps, os, row, email, was, fromIDP)
      BY <1>10, <2>1, <3>1
    <3>3. role \in Roles
      BY <1>4, <2>2, <3>1, <3>2, SyncedIn
    <3> QED BY <3>1, <3>2, <3>3, SyncedWhere
  <2>4. appointed \subseteq appointed' /\ (role = "admin" /\ role # was => row \in appointed')
    BY <1>10, <2>1, <2>3 DEF Appoint
  <2>5. /\ Grows(users, users') /\ \A r \in Rows : Exists(users', r) => Kindly(r)
        /\ role # was => users'[row].role = role
    <3>1. CASE role = was
      BY <1>10, <2>1, <3>1, NobodyChanges
    <3>2. CASE role # was
      <4>1. users' = SetUserRole(users, row, role)
        BY <1>10, <2>1, <3>2
      <4>2. users'[row].role = role
        <5>1. PICK us \in UserTable : us = users /\ Exists(us, row)
          BY <2>2 DEF SignInv, SignedIn, UsersOK, UserTable
        <5> QED BY <2>2, <2>3, <4>1, <5>1, SetsRole
      <4>3. role = "operator" => users[row].ext \notin Watched \cup {NoExt}
        BY <1>4, <1>5, <2>2, <2>3
      <4> QED BY <2>2, <2>3, <2>4, <3>2, <4>1, <4>2, <4>3, RowKindly
    <3> QED BY <3>1, <3>2
  <2>6. PICK rest, u : /\ rest = [r \in DOMAIN t.rest \ {row} |-> t.rest[r]]
                       /\ u = [t EXCEPT !.rest = rest] /\ Run(h, u)
    BY <1>10
  <2>7. /\ u.pc = "each" /\ u.rest = rest /\ u.d = t.d /\ u.want = t.want /\ u.op = t.op
        /\ u.row = t.row /\ u.role = t.role
    BY <1>1, <1>2, <1>3, <2>6 DEF Fields
  <2>8. Reads(h, u)'
    <3>1. SUFFICES ASSUME h \notin crossed, NEW r \in RowsOf(users, t.d)', users'[r].role = "operator"
                   PROVE  r \in DOMAIN rest /\ rest[r] = "operator"
      BY <1>1, <2>7 DEF Reads
    <3>2. t.d \in Watched /\ role # "operator"
      BY <1>5, <1>6, <2>3, <3>1
    <3>3. r \in RowsOf(users, t.d) /\ users[r].role = "operator"
      <4>1. OldOps
        BY <2>4, <2>5, RolesKeep DEF RoleInv
      <4>2. r \in Rows /\ Exists(users', r) /\ users'[r].ext = t.d
        BY <3>1 DEF RowsOf, Exists
      <4> QED BY <3>1, <3>2, <4>1, <4>2 DEF OldOps, RowsOf
    <3>4. r \in DOMAIN t.rest /\ t.rest[r] = "operator"
      BY <1>7, <3>1, <3>3
    <3>5. r # row
      BY <2>1, <2>5, <3>1, <3>2, <3>4
    <3> QED BY <2>6, <3>4, <3>5
  <2>9. settled' \subseteq Watched
    BY <1>10 DEF Watched
  <2>10. Demotes(u)'
    BY <1>8, <2>6, <2>7, <2>9
  <2>11. RolesFine(h, u)'
    BY <2>7, <2>8, <2>10 DEF RolesFine, Lands
  <2>12. task[h] # Idle /\ u.d = task[h].d /\ UNCHANGED settled
    BY <1>2, <1>3, <1>10, <2>7
  <2> QED BY <1>1, <2>4, <2>5, <2>6, <2>11, <2>12, RoleGives
<1>11. CASE t.op = "request" /\ Run(h, [t EXCEPT !.pc = "route", !.rest = NoRest])
            /\ UNCHANGED <<users, appointed, settled>>
  <2>1. PICK u : u = [t EXCEPT !.pc = "route", !.rest = NoRest] /\ Run(h, u)
    BY <1>11
  <2>2. Steadily(t, u)
    BY <1>2, <1>3, <2>1 DEF Steadily, Fields
  <2> QED BY <1>1, <1>2, <1>3, <1>11, <2>1, <2>2, RoleGoesOn
<1> QED BY <1>3, <1>9, <1>10, <1>11 DEF SyncEach

-----------------------------------------------------------------------------
(* Switching organisations, and administering people *)

\* A request past its directory has no more to read of roles.
LEMMA PastRoles ==
  ASSUME TokenInv, NEW h \in Slots, NEW t, t = task[h], t # Idle, NEW u, Run(h, u), RolesFine(h, t), u.d = t.d, u.want = t.want,
         crossed \subseteq crossed', UNCHANGED settled, u.pc \in {"target", "carry", "move", "sessions"},
         u.pc \in {"target", "carry"} /\ u.d \in Watched' => u.role # "operator"
  PROVE  RolesFine(h, u)'
<1>1. settled' \subseteq Watched /\ u.d = task[h].d /\ task[h] # Idle
  BY DEF Watched
<1>2. Watched' \subseteq Watched
  BY <1>1, LessWatched
<1>3. ASSUME NEW d \in Watched' PROVE ~Bears(u, d)
  <2>1. ~Bears(t, d)
    BY <1>2 DEF RolesFine, Demotes
  <2> QED BY <2>1 DEF Bears
<1>4. Demotes(u)'
  BY <1>3 DEF Demotes
<1> QED BY <1>4 DEF RolesFine, Reads, Lands

LEMMA SwitchRoles == ASSUME TokenInv, SignInv, RoleInv, NEW h \in Slots, SwitchOrg(h) PROVE RoleInv'
<1>1. task[h].pc = "route" /\ UNCHANGED <<users, orgs, setup, signups, appointed, settled, flows>>
  BY DEF SwitchOrg, db
<1>2. task[h] # Idle /\ DOMAIN task[h] = Fields /\ Fine(task[h]) /\ RolesFine(h, task[h]) /\ DOMAIN task = Slots
  BY <1>1, Here DEF RoleInv
<1>3. PICK t, cur : t = task[h] /\ cur = users[t.row]
  OBVIOUS
<1>4. CASE Done(h) /\ UNCHANGED crossed
  BY <1>1, <1>2, <1>4, RoleDone
<1>5. CASE ~(Done(h) /\ UNCHANGED crossed)
  <2>1. t.via # "key"
    BY <1>3, <1>5 DEF SwitchOrg
  <2>2. Own(t.row, t.d)
    BY <1>1, <1>2, <1>3, <2>1 DEF Fine, Knows, Places, Early
  <2>3. cur.role = "operator" => t.d \notin settled
    <3>1. PICK row, d : row = t.row /\ d = t.d
      BY Zenon
    <3>2. row \in RowsOf(users, d) /\ cur = users[row]
      BY <1>3, <2>2, <3>1 DEF Own, RowsOf
    <3>3. d \in settled => users[row].role # "operator"
      BY <3>2 DEF RoleInv, RolesAppointed
    <3> QED BY <3>1, <3>2, <3>3
  <2>4. PICK row : /\ Run(h, [t EXCEPT !.pc = "target", !.role = cur.role, !.mail = cur.email,
                                !.arg = [op |-> "switch", org |-> t.arg.org, to |-> row,
                                         invited |-> users[row].ext = NoExt]])
                   /\ crossed' = IF cur.role = "operator" THEN crossed \cup Of(t.d) ELSE crossed
    BY <1>3, <1>5 DEF SwitchOrg
  <2>5. PICK a, u : /\ a = [op |-> "switch", org |-> t.arg.org, to |-> row, invited |-> users[row].ext = NoExt]
                    /\ u = [t EXCEPT !.pc = "target", !.role = cur.role, !.mail = cur.email, !.arg = a]
                    /\ Run(h, u)
    BY <2>4
  <2>6. u.pc = "target" /\ u.d = t.d /\ u.role = cur.role /\ u.want = t.want
    BY <1>2, <1>3, <2>5 DEF Fields
  <2>7. crossed \subseteq crossed'
    BY <2>4
  <2>8. ASSUME cur.role = "operator" PROVE t.d \notin Watched'
    <3>1. task'[h] = u /\ \A g \in Slots : g # h => task'[g] = task[g]
      BY <1>2, <2>5 DEF Run
    <3>2. ASSUME NEW g \in Slots, task'[g] # Idle, task'[g].d = t.d PROVE g \in crossed'
      BY <1>2, <1>3, <2>4, <2>8, <3>1, <3>2 DEF Of
    <3> QED BY <1>1, <2>3, <2>8, <3>2 DEF Watched
  <2>9. RolesFine(h, u)' /\ Flowing'
    BY <1>1, <1>2, <1>3, <2>5, <2>6, <2>7, <2>8, PastRoles, FlowsSame
  <2>10. /\ UNCHANGED <<users, orgs, setup, signups, appointed>> /\ settled' \subseteq settled
         /\ task[h] # Idle /\ u.d = task[h].d /\ Run(h, u)
    BY <1>1, <1>2, <1>3, <2>5, <2>6
  <2> QED BY <2>7, <2>9, <2>10, RoleLearns
<1> QED BY <1>4, <1>5

LEMMA TargetRoles == ASSUME TokenInv, SignInv, RoleInv, NEW h \in Slots, Target(h) PROVE RoleInv'
<1>1. task[h].pc = "target" /\ UNCHANGED <<orgs, setup, signups, appointed, crossed, settled, flows>>
  BY DEF Target, ghosts
<1>2. task[h] # Idle /\ DOMAIN task[h] = Fields /\ RolesFine(h, task[h]) /\ DOMAIN task = Slots
  BY <1>1, Here DEF RoleInv
<1>3. CASE Done(h)
  <2>1. UNCHANGED users
    <3>1. task'[h] = Idle
      BY <1>2, <1>3 DEF Done, Run
    <3>2. PICK t : t = task[h]
      OBVIOUS
    <3>3. ASSUME NEW a, Run(h, [t EXCEPT !.pc = "carry", !.arg = a]) PROVE FALSE
      <4>1. task'[h] = [t EXCEPT !.pc = "carry", !.arg = a]
        BY <1>2, <3>3 DEF Run
      <4>2. task'[h].pc = "carry"
        BY <1>2, <3>2, <4>1 DEF Fields
      <4> QED BY <3>1, <4>2 DEF Idle
    <3> QED BY <3>2, <3>3 DEF Target
  <2> QED BY <1>1, <1>2, <1>3, <2>1, RoleDone
<1>4. CASE ~Done(h)
  <2>1. PICK t : t = task[h]
    OBVIOUS
  <2>2. PICK to : /\ Grows(users, users') /\ \A new, role : MakesOne(users, users', new, role)
                  /\ Run(h, [t EXCEPT !.pc = "carry",
                               !.arg = [op |-> "switch", to |-> to, was |-> users'[to].role]])
    BY <1>1, <1>4, <2>1, Targets
  <2>3. PICK new, role : role = "member" /\ MakesOne(users, users', new, role)
    BY <2>2
  <2>4. \A r \in Rows : Exists(users', r) => Kindly(r)
    BY <2>2, <2>3, MadeKindly
  <2>5. PICK a, u : /\ a = [op |-> "switch", to |-> to, was |-> users'[to].role]
                    /\ u = [t EXCEPT !.pc = "carry", !.arg = a] /\ Run(h, u)
    BY <2>2
  <2>6. u.pc = "carry" /\ u.d = t.d /\ u.role = t.role /\ u.want = t.want
    BY <1>2, <2>1, <2>5 DEF Fields
  <2>7. t.d \in Watched' => t.role # "operator"
    <3>1. settled' \subseteq Watched /\ u.d = task[h].d
      BY <1>1, <2>1, <2>6 DEF Watched
    <3>2. Watched' \subseteq Watched
      BY <1>1, <1>2, <2>5, <3>1, LessWatched
    <3> QED BY <1>1, <1>2, <2>1, <3>2 DEF RolesFine, Demotes, Bears
  <2>8. RolesFine(h, u)'
    BY <1>1, <1>2, <2>1, <2>5, <2>6, <2>7, PastRoles
  <2>9. u.d = task[h].d /\ appointed \subseteq appointed'
    BY <1>1, <2>1, <2>6
  <2> QED BY <1>1, <1>2, <2>2, <2>4, <2>5, <2>8, <2>9, RoleGives
<1> QED BY <1>3, <1>4

LEMMA CarryRoles == ASSUME TokenInv, SignInv, RoleInv, NEW h \in Slots, CarryRole(h) PROVE RoleInv'
<1>1. task[h].pc = "carry" /\ Goto(h, "move") /\ UNCHANGED <<orgs, setup, signups, appointed, crossed, settled, flows>>
  BY DEF CarryRole, ghosts
<1>2. /\ task[h] # Idle /\ DOMAIN task[h] = Fields /\ RolesFine(h, task[h]) /\ Fine(task[h])
      /\ task[h].d \in ExternalIDs
  BY <1>1, Here, Switcher DEF RoleInv
<1>3. PICK t : t = task[h]
  OBVIOUS
<1>4. PICK row \in Rows : row = t.arg.to /\ Exists(users, row) /\ users[row].ext = t.d
  BY <1>1, <1>2, <1>3 DEF Fine, Asked, Own
<1>5. Grows(users, users') /\ \A r \in Rows : Exists(users', r) => Kindly(r)
  <2>1. CASE users' = users
    BY <2>1, NobodyChanges
  <2>2. CASE users' # users
    <3>1. PICK role : role = IF t.role = "operator" THEN "operator" ELSE "member"
      OBVIOUS
    <3>2. users' = SetUserRole(users, row, role)
      BY <1>3, <1>4, <2>2, <3>1 DEF CarryRole
    <3>3. role \in Roles /\ role # "admin"
      BY <3>1, IdentsOut
    <3>4. role = "operator" => users[row].ext \notin Watched \cup {NoExt}
      BY <1>1, <1>2, <1>3, <1>4, <3>1, RowFacts DEF RolesFine, Demotes, Bears
    <3> QED BY <1>4, <3>2, <3>3, <3>4, RowKindly
  <2> QED BY <2>1, <2>2
<1>6. PICK u : u = [t EXCEPT !.pc = "move"] /\ Run(h, u)
  BY <1>1, <1>3 DEF Goto
<1>7. u.pc = "move" /\ u.d = t.d /\ u.want = t.want
  BY <1>2, <1>3, <1>6 DEF Fields
<1>8. RolesFine(h, u)'
  BY <1>1, <1>2, <1>3, <1>6, <1>7, PastRoles
<1>9. u.d = task[h].d /\ appointed \subseteq appointed'
  BY <1>1, <1>3, <1>7
<1> QED BY <1>1, <1>2, <1>5, <1>6, <1>8, <1>9, RoleGives

LEMMA UpdateRoles == ASSUME TokenInv, SignInv, RoleInv, NEW h \in Slots, UpdateUser(h) PROVE RoleInv'
<1>1. task[h].pc = "role" /\ Goto(h, "sessions") /\ UNCHANGED <<orgs, setup, signups, crossed, settled, flows>>
  BY DEF UpdateUser
<1>2. task[h] # Idle /\ DOMAIN task[h] = Fields /\ RolesFine(h, task[h]) /\ Fine(task[h])
  BY <1>1, Here DEF RoleInv
<1>3. PICK row \in Rows : row = task[h].arg.row /\ Exists(users, row)
  BY <1>1, ToChange
<1>4. PICK t, role : t = task[h] /\ role = t.arg.role
  OBVIOUS
<1>5. role \in {"admin", "member"} /\ role \in Roles
  BY <1>1, <1>2, <1>4 DEF Fine, Asked, Assignable, Roles
<1>6. users' = SetUserRole(users, row, role) /\ appointed \subseteq appointed' /\ (role = "admin" => row \in appointed')
  BY <1>3, <1>4 DEF UpdateUser, Appoint
<1>7. Grows(users, users') /\ \A r \in Rows : Exists(users', r) => Kindly(r)
  BY <1>3, <1>5, <1>6, RowKindly
<1>8. PICK u : u = [t EXCEPT !.pc = "sessions"] /\ Run(h, u)
  BY <1>1, <1>4 DEF Goto
<1>9. u.pc = "sessions" /\ u.d = t.d /\ u.want = t.want
  BY <1>2, <1>4, <1>8 DEF Fields
<1>10. RolesFine(h, u)'
  BY <1>1, <1>2, <1>4, <1>8, <1>9, PastRoles
<1>11. u.d = task[h].d
  BY <1>4, <1>9
<1> QED BY <1>1, <1>2, <1>6, <1>7, <1>8, <1>10, <1>11, RoleGives

LEMMA SwitchedRoles ==
  ASSUME TokenInv, SignInv, RoleInv, NEW h \in Slots, DisableUser(h) \/ EnableUser(h)
  PROVE  RoleInv'
<1>1. /\ task[h].pc \in {"disable", "enable"} /\ Done(h)
      /\ UNCHANGED <<orgs, setup, signups, appointed, crossed, settled, flows>>
  BY DEF DisableUser, EnableUser, ghosts
<1>2. task[h] # Idle
  BY <1>1, Here
<1>3. PICK row \in Rows : row = task[h].arg.row /\ Exists(users, row)
  BY <1>1, ToChange
<1>4. PICK us : us = users /\ us \in UserTable
  BY DEF SignInv, SignedIn, UsersOK, UserTable
<1>5. ASSUME DisableUser(h)
      PROVE  /\ Grows(us, users')
             /\ \A r \in Rows : Exists(users', r) =>
                  Exists(us, r) /\ users'[r].ext = us[r].ext /\ users'[r].role = us[r].role
  <2>1. PICK off : off = TRUE
    OBVIOUS
  <2>2. PICK vs : vs = [us EXCEPT ![row].off = off]
    OBVIOUS
  <2>3. Grows(us, vs)
    BY <1>3, <1>4, <2>1, <2>2, Switches
  <2>4. \A r \in Rows : vs[r] = us[r] \/ (Exists(us, r) /\ vs[r].ext = us[r].ext /\ vs[r].role = us[r].role)
    <3>1. us[row] \in UserRow /\ vs[row] = [us[row] EXCEPT !.off = off] /\ DOMAIN us = Rows
      BY <1>3, <1>4, <2>2, RowFacts DEF UserTable
    <3>2. vs[row].ext = us[row].ext /\ vs[row].role = us[row].role /\ \A r \in Rows : r # row => vs[r] = us[r]
      BY <2>2, <3>1 DEF UserRow
    <3> QED BY <1>3, <1>4, <3>2
  <2>5. users' = vs
    BY <1>3, <1>4, <1>5, <2>1, <2>2 DEF DisableUser
  <2> QED BY <2>3, <2>4, <2>5 DEF Exists
<1>6. ASSUME EnableUser(h)
      PROVE  /\ Grows(us, users')
             /\ \A r \in Rows : Exists(users', r) =>
                  Exists(us, r) /\ users'[r].ext = us[r].ext /\ users'[r].role = us[r].role
  <2>1. PICK off : off = FALSE
    OBVIOUS
  <2>2. PICK vs : vs = [us EXCEPT ![row].off = off]
    OBVIOUS
  <2>3. Grows(us, vs)
    BY <1>3, <1>4, <2>1, <2>2, Switches
  <2>4. \A r \in Rows : vs[r] = us[r] \/ (Exists(us, r) /\ vs[r].ext = us[r].ext /\ vs[r].role = us[r].role)
    <3>1. us[row] \in UserRow /\ vs[row] = [us[row] EXCEPT !.off = off] /\ DOMAIN us = Rows
      BY <1>3, <1>4, <2>2, RowFacts DEF UserTable
    <3>2. vs[row].ext = us[row].ext /\ vs[row].role = us[row].role /\ \A r \in Rows : r # row => vs[r] = us[r]
      BY <2>2, <3>1 DEF UserRow
    <3> QED BY <1>3, <1>4, <3>2
  <2>5. users' = vs
    BY <1>3, <1>4, <1>6, <2>1, <2>2 DEF EnableUser
  <2> QED BY <2>3, <2>4, <2>5 DEF Exists
<1>7. Grows(users, users') /\ \A r \in Rows : Exists(users', r) => Kindly(r)
  BY <1>4, <1>5, <1>6 DEF Kindly
<1>8. PICK u : u = Idle /\ Run(h, u)
  BY <1>1 DEF Done
<1>9. appointed \subseteq appointed'
  BY <1>1
<1> QED BY <1>1, <1>2, <1>7, <1>8, <1>9, RoleGives

LEMMA AddUserRoles == ASSUME TokenInv, SignInv, RoleInv, NEW h \in Slots, AddUserRoute(h) PROVE RoleInv'
<1>1. task[h].pc = "route" /\ Done(h) /\ UNCHANGED <<orgs, setup, signups, crossed, settled, flows>>
  BY DEF AddUserRoute
<1>2. task[h] # Idle /\ Fine(task[h])
  BY <1>1, Here
<1>3. PICK t, us, org, email, ext, role : /\ t = task[h] /\ us = users /\ org = t.arg.org /\ email = t.arg.email
                                          /\ ext = t.arg.ext /\ role = t.arg.role
  OBVIOUS
<1>4. us \in UserTable /\ orgs \subseteq Orgs
  BY <1>3 DEF SignInv, SignedIn, UsersOK, UserTable
<1>5. PICK res : res = AddUser(us, org, email, ext, role)
  OBVIOUS
<1>6. \/ UNCHANGED <<users, appointed>>
      \/ /\ OK(res) /\ users' = res.users /\ MayAdd(PrincipalOf(t), t.arg) /\ org \in orgs
         /\ Appoint(<<org, email>>, role, TRUE)
  <2>1. ~OK(Refused("forbidden"))
    BY DEF OK, Refused
  <2> QED BY <1>3, <1>5, <2>1 DEF AddUserRoute
<1>7. CASE UNCHANGED <<users, appointed>>
  BY <1>1, <1>2, <1>7, RoleDone
<1>8. CASE /\ OK(res) /\ users' = res.users /\ MayAdd(PrincipalOf(t), t.arg) /\ org \in orgs
           /\ Appoint(<<org, email>>, role, TRUE)
  <2>1. role \in Roles /\ role # "operator"
    BY <1>3, <1>8, IdentsOut DEF MayAdd, MayGrant, Assignable, Roles
  <2>2. t.op \in {"request", "key"} /\ t.arg.op = "add"
    BY <1>1, <1>2, <1>3 DEF Fine, Knows, Places, AddUserRoute
  <2>3. ext \in ExternalIDs \cup {NoExt}
    BY <1>1, <1>2, <1>3, <2>2 DEF Fine, Asked, RouteOK
  <2>4. Grows(us, res.users) /\ MakesOne(us, res.users, <<org, email>>, role)
    BY <1>4, <1>5, <1>8, <2>1, <2>3, Added
  <2>5. PICK new : new = <<org, email>>
    OBVIOUS
  <2>6. Grows(users, users') /\ MakesOne(users, users', new, role)
    BY <1>3, <1>8, <2>4, <2>5
  <2>7. appointed \subseteq appointed' /\ (role = "admin" => new \in appointed')
    BY <1>8, <2>5 DEF Appoint
  <2>8. \A r \in Rows : Exists(users', r) => Kindly(r)
    BY <2>1, <2>6, <2>7, MadeKindly
  <2>9. PICK u : u = Idle /\ Run(h, u)
    BY <1>1 DEF Done
  <2> QED BY <1>1, <1>2, <2>6, <2>7, <2>8, <2>9, RoleGives
<1> QED BY <1>6, <1>7, <1>8

-----------------------------------------------------------------------------
(* Requests begin *)

LEMMA RoleStarts ==
  ASSUME TokenInv, SignInv, RoleInv, NEW h \in Slots, NEW kind, NEW d, Begin(h, kind, d), NEW u, Run(h, u),
         u = Idle \/ u.d = d, UNCHANGED <<users, orgs, signups, appointed>>, Flowing', u # Idle => RolesFine(h, u)'
  PROVE  RoleInv'
<1>1. UNCHANGED <<setup, settled>>
  BY DEF Begin
<1>2. Dirs /\ settled' \subseteq settled
  BY <1>1, SameDirs
<1>3. \A s \in SignupIds : signups'[s] \in {signups[s], Nobody}
  OBVIOUS
<1>4. Opened'
  BY <1>3, OpenedBegins
<1>5. Standing' /\ RolesAppointed' /\ Grows(users, users') /\ OldOps
  BY <1>2, <1>4, StandStays
<1> QED BY <1>2, <1>5, RoleBegin

\* A request that begins has read its row just now, and wants no role.
LEMMA FreshRoles ==
  ASSUME NEW h, NEW u, u.want = "member",
         u.pc \notin {"take", "place", "link", "sync", "others", "each", "target", "carry"},
         u.pc \in {"exchange", "password"} => u.d[1] \in DOMAIN Providers',
         u.pc \in {"claim", "ask", "record"} => users'[u.row].role = u.role
  PROVE  RolesFine(h, u)'
<1>1. \A d : ~Bears(u, d)
  BY DEF Bears
<1> QED BY <1>1 DEF RolesFine, Reads, Lands, Demotes

LEMMA CallbackRoles ==
  ASSUME TokenInv, SignInv, RoleInv, NEW h \in Slots, NEW f \in FlowIds, NEW d \in Idents, Callback(h, f, d)
  PROVE  RoleInv'
<1>1. PICK kind : kind = "signin" /\ Begin(h, kind, d)
  BY DEF Callback
<1>2. UNCHANGED <<setup, users, orgs, signups, appointed>> /\ flows' = [flows EXCEPT ![f] = Ended]
  BY <1>1 DEF Callback, Begin
<1>3. d[1] \in DOMAIN Providers /\ Flowing'
  BY <1>2, FlowEnds DEF Callback, RoleInv, Standing, Flowing
<1>4. PICK u : Run(h, u) /\ (u = Idle \/ u = SignInTask(d, "exchange", 0, flows[f].cli))
  BY DEF Callback, Done
<1>5. ASSUME u # Idle PROVE RolesFine(h, u)' /\ u.d = d
  <2>1. PICK pc, flow, cli : pc = "exchange" /\ flow = 0 /\ cli = flows[f].cli
    OBVIOUS
  <2>2. u = SignInTask(d, pc, flow, cli)
    BY <1>4, <1>5, <2>1
  <2>3. u.pc = "exchange" /\ u.d = d /\ u.want = "member"
    BY <2>1, <2>2 DEF SignInTask
  <2>4. d[1] \in DOMAIN Providers'
    BY <1>2, <1>3 DEF Providers
  <2> QED BY <2>3, <2>4, FreshRoles
<1> QED BY <1>1, <1>2, <1>3, <1>4, <1>5, RoleStarts

LEMMA PasswordRoles ==
  ASSUME TokenInv, SignInv, RoleInv, NEW h \in Slots, NEW f, NEW d \in Idents, PasswordSignIn(h, f, d)
  PROVE  RoleInv'
<1>1. PICK kind : kind = "signin" /\ Begin(h, kind, d)
  BY DEF PasswordSignIn
<1>2. UNCHANGED <<setup, users, orgs, signups, appointed, flows>> /\ d[1] \in DOMAIN Providers
  BY <1>1 DEF PasswordSignIn, Begin, db
<1>3. Flowing' /\ d[1] \in DOMAIN Providers'
  BY <1>2, FlowsSame DEF Providers
<1>4. PICK pc, cli, u : pc = "password" /\ u = SignInTask(d, pc, f, cli) /\ Run(h, u)
  BY DEF PasswordSignIn
<1>5. u.pc = "password" /\ u.d = d /\ u.want = "member"
  BY <1>4 DEF SignInTask
<1>6. RolesFine(h, u)'
  BY <1>3, <1>5, FreshRoles
<1> QED BY <1>1, <1>2, <1>3, <1>4, <1>5, <1>6, RoleStarts

LEMMA CliTokenRoles ==
  ASSUME TokenInv, SignInv, RoleInv, NEW h \in Slots, NEW i \in CredIds, NEW proof \in BOOLEAN, CliToken(h, i, proof)
  PROVE  RoleInv'
<1>1. PICK kind, d : kind = "redeem" /\ d = creds[i].who /\ Begin(h, kind, d) /\ Live(creds, i)
  BY DEF CliToken
<1>2. UNCHANGED <<setup, users, orgs, signups, appointed, flows>>
  BY <1>1 DEF CliToken, Begin
<1>3. Flowing'
  BY <1>2, FlowsSame
<1>4. PICK s, row : s = SignInTask(users[creds[i].row].ext, "ttl", i, FALSE) /\ row = creds[i].row
  OBVIOUS
<1>5. PICK u : Run(h, u) /\ (u = Idle \/ u = [s EXCEPT !.op = "redeem", !.row = row])
  BY <1>4 DEF CliToken, Done
<1>6. ASSUME u # Idle PROVE RolesFine(h, u)' /\ u.d = d
  <2>1. u.pc = "ttl" /\ u.want = "member" /\ u.d = users[creds[i].row].ext
    BY <1>4, <1>5, <1>6 DEF SignInTask
  <2>2. u.d = d
    BY <1>1, <2>1, CredHolds DEF SignInv, Holds
  <2> QED BY <2>1, <2>2, FreshRoles
<1> QED BY <1>1, <1>2, <1>3, <1>5, <1>6, RoleStarts

LEMMA RequestRoles ==
  ASSUME TokenInv, SignInv, RoleInv, NEW h \in Slots, NEW i \in CredIds, NEW arg \in setup.routes, Request(h, i, arg)
  PROVE  RoleInv'
<1>1. PICK kind, d : kind = "request" /\ d = users[creds[i].row].ext /\ Begin(h, kind, d)
  BY DEF Request
<1>2. UNCHANGED <<setup, users, orgs, signups, appointed, flows>>
  BY <1>1 DEF Request, Begin, db
<1>3. Flowing'
  BY <1>2, FlowsSame
<1>4. PICK c, row, role : c = creds[i] /\ row = c.row /\ role = users[row].role
  OBVIOUS
<1>5. PICK s : s = SignInTask(users[row].ext, "route", i, FALSE)
  OBVIOUS
<1>6. PICK r : r = [s EXCEPT !.op = "request", !.row = row, !.role = role,
                             !.mail = users[row].email, !.arg = arg, !.via = c.kind]
  OBVIOUS
<1>7. PICK u : (u = r \/ u = [r EXCEPT !.pc = "claim"]) /\ Run(h, u)
  BY <1>4, <1>5, <1>6 DEF Request, RequestTask
<1>8. u.pc \in {"route", "claim"} /\ u.want = "member" /\ u.row = row /\ u.role = role /\ u.d = d
  BY <1>1, <1>4, <1>5, <1>6, <1>7 DEF SignInTask
<1>9. RolesFine(h, u)'
  BY <1>2, <1>4, <1>8, FreshRoles
<1> QED BY <1>1, <1>2, <1>3, <1>7, <1>8, <1>9, RoleStarts

LEMMA KeyRequestRoles ==
  ASSUME TokenInv, SignInv, RoleInv, NEW h \in Slots, NEW arg, KeyRequest(h, arg)
  PROVE  RoleInv'
<1>1. PICK kind, d : kind = "key" /\ d = OperatorKey /\ Begin(h, kind, d)
  BY DEF KeyRequest
<1>2. UNCHANGED <<setup, users, orgs, signups, appointed, flows>>
  BY <1>1 DEF KeyRequest, Begin, db
<1>3. Flowing'
  BY <1>2, FlowsSame
<1>4. PICK s : s = SignInTask(OperatorKey, "route", 0, FALSE)
  OBVIOUS
<1>5. PICK u : /\ u = [s EXCEPT !.op = "key", !.role = "operator", !.arg = arg, !.via = "key"]
               /\ Run(h, u)
  BY <1>4 DEF KeyRequest
<1>6. u.pc = "route" /\ u.want = "member" /\ u.d = d
  BY <1>1, <1>4, <1>5 DEF SignInTask
<1>7. RolesFine(h, u)'
  BY <1>6, FreshRoles
<1> QED BY <1>1, <1>2, <1>3, <1>5, <1>6, <1>7, RoleStarts

\* A request that begins makes a row.
LEMMA RoleMakes ==
  ASSUME TokenInv, SignInv, RoleInv, NEW h \in Slots, NEW kind, NEW d, Begin(h, kind, d), NEW u, Run(h, u),
         u = Idle \/ u.d = d, Dirs, Grows(users, users'), appointed \subseteq appointed',
         \A r \in Rows : Exists(users', r) => Kindly(r), UNCHANGED flows,
         \A s \in SignupIds : signups'[s] \in {signups[s], Nobody}, u # Idle => RolesFine(h, u)'
  PROVE  RoleInv'
<1>1. UNCHANGED <<setup, settled>>
  BY DEF Begin
<1>2. Flowing' /\ Opened' /\ settled' \subseteq settled
  BY <1>1, FlowsSame, OpenedBegins
<1>3. Standing' /\ RolesAppointed' /\ OldOps
  BY <1>2, RolesStand DEF RoleInv
<1> QED BY <1>3, RoleBegin

LEMMA LocalLoginRoles == ASSUME TokenInv, SignInv, RoleInv, NEW h \in Slots, LocalLogin(h) PROVE RoleInv'
<1>1. PICK kind, d : kind = "local" /\ d = OperatorKey /\ Begin(h, kind, d)
  BY DEF LocalLogin
<1>2. UNCHANGED <<setup, settled, signups, appointed, flows>>
  BY <1>1 DEF LocalLogin, Begin
<1>3. users \in UserTable /\ orgs \subseteq Orgs
  BY DEF SignInv, SignedIn, UsersOK, UserTable
<1>4. PICK o \in OperatorKeyOrg :
         LET res == LinkUser(users, o, LocalEmail, OperatorKey, "operator")
         IN  IF OK(res)
             THEN /\ users' = res.users
                  /\ orgs' = orgs \cup {o}
                  /\ Run(h, [SignInTask(OperatorKey, "sync", 0, FALSE) EXCEPT
                               !.op = "local", !.row = res.row, !.mail = LocalEmail,
                               !.want = "operator", !.role = res.users[res.row].role])
             ELSE UNCHANGED <<orgs, users>> /\ Done(h)
  BY DEF LocalLogin
<1>5. o \in Orgs /\ (orgs = {} \/ o \in orgs)
  <2>1. \A row \in RowsOf(users, OperatorKey) : OrgOf(row) \in orgs
    BY DEF SignInv, SignedIn, UsersOK, RowsOf
  <2> QED BY <1>3, <1>4, <2>1 DEF OperatorKeyOrg
<1>6. PICK us, email, ext, role, res : /\ us = users /\ email = LocalEmail /\ ext = OperatorKey /\ role = "operator"
                                       /\ res = LinkUser(us, o, email, ext, role)
  OBVIOUS
<1>7. us \in UserTable /\ email \in Emails /\ ext \in ExternalIDs /\ role \in Roles
  BY <1>3, <1>6, IdentsOut, SignInAssumption
<1>8. CASE ~OK(res)
  <2>1. UNCHANGED <<orgs, users>> /\ Done(h)
    BY <1>4, <1>6, <1>8
  <2>2. PICK u : u = Idle /\ Run(h, u)
    BY <2>1 DEF Done
  <2>3. Flowing'
    BY <1>2, FlowsSame
  <2> QED BY <1>1, <1>2, <2>1, <2>2, <2>3, RoleStarts
<1>9. CASE OK(res)
  <2>1. /\ Grows(us, res.users) /\ res.users[res.row].ext = ext /\ MakesOne(us, res.users, res.row, role)
    BY <1>5, <1>6, <1>7, <1>9, Linked
  <2>2. PICK s, new, rl : /\ s = SignInTask(OperatorKey, "sync", 0, FALSE) /\ new = res.row
                          /\ rl = res.users[res.row].role
    OBVIOUS
  <2>3. PICK u : /\ users' = res.users /\ orgs' = orgs \cup {o} /\ Run(h, u)
                 /\ u = [s EXCEPT !.op = "local", !.row = new, !.mail = LocalEmail,
                                  !.want = "operator", !.role = rl]
    BY <1>4, <1>6, <1>9, <2>2
  <2>4. Dirs
    BY <1>2, <1>5, <2>3, OneMoreOrg
  <2>5. OperatorKey \notin Watched \cup Idents \cup {NoExt}
    BY <1>6, <1>7, RowFacts, WatchedIn, SignInAssumption
  <2>6. Grows(users, users') /\ MakesOne(users, users', new, role) /\ users'[new].ext \notin Watched \cup {NoExt}
    BY <1>6, <2>1, <2>2, <2>3, <2>5
  <2>7. \A r \in Rows : Exists(users', r) => Kindly(r)
    BY <1>6, <2>6, MadeKindly
  <2>8. \A n \in SignupIds : signups'[n] \in {signups[n], Nobody}
    BY <1>2
  <2>9. u.pc = "sync" /\ u.d = OperatorKey /\ u.op = "local"
    BY <2>2, <2>3 DEF SignInTask
  <2>10. Demotes(u)'
    <3>1. Watched' \subseteq Idents
      BY <1>2 DEF Watched, RoleInv, Standing
    <3>2. \A e \in Idents : ~Bears(u, e)
      BY <2>5, <2>9 DEF Bears
    <3> QED BY <2>9, <3>1, <3>2 DEF Demotes
  <2>11. RolesFine(h, u)' /\ u.d = d /\ appointed \subseteq appointed'
    BY <1>1, <1>2, <2>9, <2>10 DEF RolesFine, Reads, Lands
  <2> QED BY <1>1, <1>2, <2>3, <2>4, <2>6, <2>7, <2>8, <2>11, RoleMakes
<1> QED BY <1>8, <1>9

\* The person of a sign-up that is used goes on as the provider said they may.
LEMMA UsedUp ==
  ASSUME TokenInv, RoleInv, NEW s \in SignupIds, signups[s] # Nobody, NEW d, d = signups[s].d,
         NEW h \in Slots, NEW kind, Begin(h, kind, d), NEW u, Run(h, u),
         u.pc = "remember", u.d = d, u.want = signups[s].want
  PROVE  RolesFine(h, u)'
<1>1. u.want = "operator" => d \notin Watched /\ Carried(d)
  BY DEF RoleInv, Standing, Opened, Carried, Pending
<1>2. ASSUME NEW e \in Watched' PROVE ~Bears(u, e)
  <2>1. e \in Watched \/ (e = d /\ ~Carried(d))
    BY <1>2, MoreWatched
  <2> QED BY <1>1, <2>1 DEF Bears
<1> QED BY <1>2 DEF RolesFine, Reads, Lands, Demotes

LEMMA CompleteSignupRoles ==
  ASSUME TokenInv, SignInv, RoleInv, NEW h \in Slots, NEW s \in SignupIds, CompleteSignup(h, s)
  PROVE  RoleInv'
<1>1. PICK kind, d : kind = "signup" /\ d = signups[s].d /\ Begin(h, kind, d)
  BY DEF CompleteSignup
<1>2. signups[s] # Nobody /\ UNCHANGED <<setup, settled, flows>>
  BY <1>1 DEF CompleteSignup, Begin
<1>3. SignUpAllowed(Providers) /\ (signups[s].want = "operator" => d \notin Watched) /\ d \in ExternalIDs
  <2>1. d \in Idents
    BY <1>1, <1>2 DEF TokenInv, Typed
  <2> QED BY <1>1, <1>2, <2>1, IdentsOut DEF RoleInv, Standing, Opened
<1>4. ASSUME NEW o \in Orgs, CreateOrg(h, s, o) PROVE RoleInv'
  <2>1. PICK row : row = <<o, signups[s].mail>>
    OBVIOUS
  <2>2. PICK role \in {"operator", "admin"} :
           /\ role = "operator" <=> signups[s].want = "operator"
           /\ Grows(users, users') /\ MakesOne(users, users', row, role) /\ users'[row].ext = d
           /\ appointed' = (IF role = "admin" THEN appointed \cup {row} ELSE appointed)
           /\ Run(h, SignUpTask(signups[s], "create", row, role))
    BY <1>1, <1>2, <1>4, <2>1, OrgMade
  <2>3. orgs' = orgs \cup {o} /\ signups' = [signups EXCEPT ![s] = Nobody]
    BY <1>4 DEF CreateOrg
  <2>4. Dirs
    BY <1>2, <1>3, <2>3, OneMoreOrg
  <2>5. \A r \in Rows : Exists(users', r) => Kindly(r)
    BY <1>3, <2>2, RowFacts, MadeKindly
  <2>6. PICK op, u : op = "create" /\ u = SignUpTask(signups[s], op, row, role) /\ Run(h, u)
    BY <2>2
  <2>7. RolesFine(h, u)' /\ u.d = d /\ \A r \in SignupIds : signups'[r] \in {signups[r], Nobody}
    <3>1. u.pc = "remember" /\ u.d = d /\ u.want = signups[s].want
      BY <1>1, <2>6 DEF SignUpTask, SignInTask
    <3>2. RolesFine(h, u)'
      BY <1>1, <1>2, <2>6, <3>1, UsedUp
    <3> QED BY <2>3, <3>1, <3>2 DEF TokenInv, Typed
  <2>8. appointed \subseteq appointed'
    BY <2>2
  <2> QED BY <1>1, <1>2, <2>2, <2>4, <2>5, <2>6, <2>7, <2>8, RoleMakes
<1>5. ASSUME JoinInvitation(h, s) PROVE RoleInv'
  <2>1. PICK su, us, org, email : su = signups[s] /\ us = users /\ org = su.invited /\ email = su.mail
    OBVIOUS
  <2>2. PICK res : res = IF org = Nobody THEN Refused("gone") ELSE TakeInvitation(us, org, email, d)
    OBVIOUS
  <2>3. UNCHANGED <<orgs, appointed>> /\ Dirs
    BY <1>2, <1>5, SameDirs DEF JoinInvitation
  <2>4. CASE OK(res)
    <3>1. res = TakeInvitation(us, org, email, d) /\ us \in UserTable
      BY <2>1, <2>2, <2>4 DEF OK, Refused, SignInv, SignedIn, UsersOK, UserTable
    <3>2. Grows(us, res.users) /\ \A new, role : MakesOne(us, res.users, new, role)
      BY <1>3, <2>4, <3>1, Taken
    <3>3. /\ users' = res.users /\ signups' = [signups EXCEPT ![s] = Nobody]
          /\ Run(h, SignUpTask(su, "join", res.row, res.users[res.row].role))
      BY <1>1, <1>5, <2>1, <2>2, <2>4 DEF JoinInvitation
    <3>4. PICK new, given : given = "member" /\ MakesOne(users, users', new, given)
      BY <2>1, <3>2, <3>3
    <3>5. Grows(users, users') /\ \A r \in Rows : Exists(users', r) => Kindly(r)
      <4>1. Grows(users, users')
        BY <2>1, <3>2, <3>3
      <4> QED BY <3>4, <4>1, MadeKindly
    <3>6. PICK row, role, op, u : /\ row = res.row /\ role = res.users[res.row].role /\ op = "join"
                                  /\ u = SignUpTask(signups[s], op, row, role) /\ Run(h, u)
      BY <2>1, <3>3
    <3>7. /\ RolesFine(h, u)' /\ u.d = d /\ \A r \in SignupIds : signups'[r] \in {signups[r], Nobody}
          /\ appointed \subseteq appointed'
      <4>1. u.pc = "remember" /\ u.d = d /\ u.want = signups[s].want
        BY <1>1, <3>6 DEF SignUpTask, SignInTask
      <4>2. RolesFine(h, u)'
        BY <1>1, <1>2, <3>6, <4>1, UsedUp
      <4> QED BY <2>3, <3>3, <4>1, <4>2 DEF TokenInv, Typed
    <3> QED BY <1>1, <1>2, <2>3, <3>5, <3>6, <3>7, RoleMakes
  <2>5. CASE ~OK(res)
    <3>1. UNCHANGED <<users, signups>> /\ Done(h)
      BY <1>1, <1>5, <2>1, <2>2, <2>5 DEF JoinInvitation
    <3>2. PICK u : u = Idle /\ Run(h, u)
      BY <3>1 DEF Done
    <3>3. Flowing'
      BY <1>2, FlowsSame
    <3> QED BY <1>1, <1>2, <2>3, <3>1, <3>2, <3>3, RoleStarts
  <2> QED BY <2>4, <2>5
<1> QED BY <1>4, <1>5 DEF CompleteSignup

-----------------------------------------------------------------------------
(* No request moves, and the roles hold *)

LEMMA RoleCalm ==
  ASSUME TokenInv, SignInv, RoleInv, UNCHANGED <<task, users, orgs, setup, appointed, crossed, settled>>, Flowing',
         \A s \in SignupIds : signups'[s] \in {signups[s], Nobody}
  PROVE  RoleInv'
<1>1. Watched' = Watched
  BY DEF Watched
<1>2. Opened'
  BY <1>1 DEF RoleInv, Standing, Opened, Providers
<1>3. Standing' /\ RolesAppointed' /\ Grows(users, users') /\ OldOps
  BY <1>2, StandStays
<1>4. Dirs
  BY SameDirs
<1>5. ASSUME NEW g \in Slots, task'[g] # Idle PROVE RolesFine(g, task[g])'
  <2>1. PICK t : t = task[g] /\ t = task'[g]
    OBVIOUS
  <2>2. \A d \in Watched' : ~Bears(t, d)
    BY <1>1, <2>1, NoneBears
  <2>3. RolesFine(g, t)'
    BY <1>3, <1>4, <1>5, <2>1, <2>2, FineLater
  <2> QED BY <2>1, <2>3
<1> QED BY <1>3, <1>5 DEF RoleInv

LEMMA LoginRoles ==
  ASSUME TokenInv, SignInv, RoleInv, NEW p \in DOMAIN Providers, NEW cli, Login(p, cli)
  PROVE  RoleInv'
<1>1. UNCHANGED <<task, users, orgs, setup, appointed, crossed, settled, signups>>
  BY DEF Login, ghosts
<1>2. PICK i, f : f = [provider |-> p, cli |-> cli] /\ flows' = [flows EXCEPT ![i] = f]
  BY DEF Login
<1>3. Flowing'
  <2>1. f.provider = p
    BY <1>2
  <2>2. ASSUME NEW j \in FlowIds, flows'[j] \notin {Unused, Ended} PROVE flows'[j].provider \in DOMAIN Providers
    BY <1>2, <2>1, <2>2 DEF RoleInv, Standing, Flowing
  <2> QED BY <1>1, <1>2, <2>2 DEF RoleInv, Standing, Flowing, Providers
<1>4. \A s \in SignupIds : signups'[s] \in {signups[s], Nobody}
  BY <1>1
<1> QED BY <1>1, <1>3, <1>4, RoleCalm

LEMMA SurroundingsRoles == ASSUME TokenInv, SignInv, RoleInv, Surroundings PROVE RoleInv'
<1>1. UNCHANGED <<task, users, orgs, setup, appointed, crossed, settled>>
  BY DEF Surroundings, ChangeEntry, BecomeDue, Expire, Purge, Change, db, ghosts
<1>2. Flowing'
  BY <1>1, FlowsSame, FlowEnds DEF Surroundings, ChangeEntry, BecomeDue, Expire, Purge, db
<1>3. \A s \in SignupIds : signups'[s] \in {signups[s], Nobody}
  <2>1. CASE UNCHANGED signups
    BY <2>1
  <2>2. ASSUME NEW s \in SignupIds, signups' = [signups EXCEPT ![s] = Nobody]
        PROVE  \A r \in SignupIds : signups'[r] \in {signups[r], Nobody}
    BY <2>2 DEF TokenInv, Typed
  <2> QED BY <2>1, <2>2 DEF Surroundings, ChangeEntry, BecomeDue, Expire, Purge, db
<1> QED BY <1>1, <1>2, <1>3, RoleCalm

LEMMA InitRoles == Init => RoleInv
<1>1. SUFFICES ASSUME Init PROVE RoleInv
  OBVIOUS
<1>2. InvitationsOK(users)
  BY <1>1, SignInAssumption DEF Init
<1>3. /\ settled = {} /\ task = [h \in Slots |-> Idle] /\ signups = [s \in SignupIds |-> Nobody]
      /\ flows = [f \in FlowIds |-> Unused]
      /\ appointed = {row \in Rows : Exists(users, row) /\ users[row].role = "admin"}
  BY <1>1 DEF Init
<1>4. Standing
  BY <1>2, <1>3 DEF Standing, Flowing, Opened
<1>5. RolesAppointed
  BY <1>3 DEF RolesAppointed
<1> QED BY <1>3, <1>4, <1>5 DEF RoleInv

LEMMA StartRoles == ASSUME TokenInv, SignInv, RoleInv, NEW h \in Slots, Start(h) PROVE RoleInv'
BY CallbackRoles, PasswordRoles, CliTokenRoles, CompleteSignupRoles, RequestRoles, KeyRequestRoles,
   LocalLoginRoles DEF Start

LEMMA StepRoles == ASSUME TokenInv, SignInv, RoleInv, NEW h \in Slots, Step(h) PROVE RoleInv'
BY ExchangeRoles, AuthenticateRoles, TakeFlowRoles, PlaceRoles, LinkRoles, SyncRoles, SyncOthersRoles,
   SyncEachRoles, RememberRoles, TtlRoles, CredRoles, ClaimRoles, AskRoles, FailedRoles, RecordRoles, EndingRoles, SignOutRoles,
   SwitchRoles, TargetRoles, CarryRoles, AddUserRoles, AdministerRoles, UpdateRoles, SwitchedRoles DEF Step

LEMMA NextRoles == TokenInv /\ SignInv /\ RoleInv /\ [Next]_vars => RoleInv'
<1>1. SUFFICES ASSUME TokenInv, SignInv, RoleInv, [Next]_vars PROVE RoleInv'
  OBVIOUS
<1>2. CASE UNCHANGED vars
  <2>1. UNCHANGED <<task, users, orgs, setup, appointed, crossed, settled, flows, signups>>
    BY <1>2 DEF vars, db, ghosts
  <2>2. Flowing' /\ \A s \in SignupIds : signups'[s] \in {signups[s], Nobody}
    BY <1>1, <2>1, FlowsSame
  <2> QED BY <1>1, <2>1, <2>2, RoleCalm
<1>3. CASE Next
  BY <1>1, <1>3, LoginRoles, StartRoles, StepRoles, EndingRoles, SurroundingsRoles DEF Next
<1> QED BY <1>1, <1>2, <1>3

\* Roles come from those who may give them: whoever administers an organisation
\* was made administrator by it or by the directory its addresses land in, and
\* an operator whom syncRole and syncOtherRoles have demoted is no operator in
\* any organisation, unless another request or an open sign-up of the same
\* person carried the operator role beside the request that did it
\* (RolesAppointed).
THEOREM SignInRolesAppointed == Spec => []RolesAppointed
<1>1. TokenInv /\ SignInv /\ RoleInv /\ [Next]_vars => RoleInv'
  BY NextRoles
<1>2. RoleInv => RolesAppointed
  BY DEF RoleInv
<1> QED BY <1>1, <1>2, InitRoles, TokensHold, SignsHold, PTL DEF Spec
=============================================================================
