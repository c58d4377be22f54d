------------------------------- MODULE Tenants -------------------------------
(***************************************************************************)
(* The keys, projects and people of the organisation whose catalogue this  *)
(* is: internal/control (keys.go, agents.go, projects.go) over             *)
(* internal/store/tenants.go, and what lookupKey gives the gateway.        *)
(*                                                                         *)
(* A handler reads on one connection and writes in one transaction, so its *)
(* checks may be stale when it writes.  A statement works on the rows it   *)
(* saw when it began; where it waits for a row another transaction has     *)
(* locked it goes on with that row's new version, and with no row inserted *)
(* meanwhile.  RotateKey keeps its rows to itself until it commits.        *)
(***************************************************************************)
EXTENDS Catalogue

CONSTANT KeyIds  \* the ids a new key can get

\* A key: hash is the secret it answers to, "none" while it is pending; line is
\* the first key it goes back to by rotations, secrets how many it was given.
Key(project, user, kind, issuedBy, hash, first) ==
  [project |-> project, user |-> user, kind |-> kind, issuedBy |-> issuedBy, hash |-> hash,
   revoked |-> FALSE, line |-> first, secrets |-> IF hash = "none" THEN 0 ELSE 1]
Live(d, k) == k \in DOMAIN d.keys /\ ~d.keys[k].revoked
FreshKey == CHOOSE k \in KeyIds : k \notin DOMAIN db.keys /\ \A p \in Procs : procs[p].pc = "commit" => procs[p].read # k

tvars == <<setup, lock>>
Begins(p, c, ops) == procs[p].pc = "idle" /\ left > 0 /\ FreeConn(p) /\ c \in Setups[setup].calls /\ c.op \in ops
Called == left' = left - 1
Refused(p) == Release(p) /\ UNCHANGED db
Enabled(u) == u = Unset \/ (u \in DOMAIN db.users /\ ~db.users[u].disabled)

(***************************************************************************)
(* createKey and serviceCreateKey: the person and the project are checked  *)
(* first, the row written later.                                           *)
(***************************************************************************)
keyRequestCheck(c) ==
  c.op = "createKey" => (c.kind = "subscription" \/ c.pending => c.user # Unset)
CreateKeyChecks(p, c) ==
  /\ Begins(p, c, {"createKey", "serviceCreateKey"})
  /\ keyRequestCheck(c) /\ Enabled(c.user) /\ c.project \in DOMAIN db.projects \cup {Unset}
  /\ procs' = [procs EXCEPT ![p] = [pc |-> "insert", call |-> c, read |-> NoRead]]
  /\ Called /\ UNCHANGED <<db, tvars>>

\* insertKey: a key without a project goes to the oldest; none refuses it, and
\* so does the foreign key of a project deleted meanwhile.
oldestProject(d) == CHOOSE x \in DOMAIN d.projects : \A y \in DOMAIN d.projects : d.projects[x] <= d.projects[y]
ProjectOf(d, project) == IF project = Unset THEN oldestProject(d) ELSE project
CanInsert(d, project) == IF project = Unset THEN DOMAIN d.projects # {} ELSE project \in DOMAIN d.projects

CreateKey(p) ==
  LET c == procs[p].call
      k == FreshKey
      row == Key(ProjectOf(db, c.project), c.user, c.kind, IF c.op = "createKey" THEN Unset ELSE "agents",
                 IF c.pending THEN "none" ELSE k, k)
      rails == IF c.budget = 0 THEN db.rails
               ELSE Put(db.rails, <<"key", k>>,
                        [NoLimits EXCEPT !.budgets = <<[micros |-> c.budget, period |-> "month"]>>])
  IN  /\ procs[p].pc = "insert" /\ FreeConn(p)
      /\ IF CanInsert(db, c.project)
         THEN db' = [db EXCEPT !.keys = Put(@, k, row), !.rails = rails] /\ Release(p)
         ELSE Refused(p)
      /\ UNCHANGED <<left, tvars>>

(***************************************************************************)
(* activateKey gives a pending key its secret, once.                       *)
(***************************************************************************)
CanActivate(d, k) == Live(d, k) /\ d.keys[k].hash = "none"
ActivateKey(p, c) ==
  /\ Begins(p, c, {"activateKey"})
  /\ IF CanActivate(db, c.key)
     THEN db' = [db EXCEPT !.keys[c.key].hash = c.key, !.keys[c.key].secrets = @ + 1]
     ELSE UNCHANGED db
  /\ Called /\ UNCHANGED <<procs, tvars>>

\* A key whose rotation has not committed: its row is locked.
KeyLocked(k) == \E q \in Procs : procs[q].pc \in {"rotate", "commit"} /\ procs[q].call.key = k

\* revokeKey, and serviceRevokeKey, which takes only the keys of Keera Agents.
serviceRevokeKey(d, k) == k \in DOMAIN d.keys /\ d.keys[k].issuedBy = "agents"
RevokeKey(p, c) ==
  /\ Begins(p, c, {"revokeKey", "serviceRevokeKey"})
  /\ ~KeyLocked(c.key)
  /\ IF Live(db, c.key) /\ (c.op = "revokeKey" \/ serviceRevokeKey(db, c.key))
     THEN db' = [db EXCEPT !.keys[c.key].revoked = TRUE]
     ELSE UNCHANGED db
  /\ Called /\ UNCHANGED <<procs, tvars>>

(***************************************************************************)
(* RotateKey, one transaction: the old row is locked and checked, the new  *)
(* row and its guardrail are written, the old one is revoked.              *)
(***************************************************************************)
CanRotate(d, k) == Live(d, k) /\ d.keys[k].hash # "none" /\ d.keys[k].issuedBy = Unset
RotateLockless(p, c) ==
  /\ Begins(p, c, {"rotateKey"})
  /\ procs' = IF CanRotate(db, c.key)
              THEN [procs EXCEPT ![p] = [pc |-> "rotate", call |-> c, read |-> NoRead]] ELSE procs
  /\ Called /\ UNCHANGED <<db, tvars>>
RotateLock(p, c) ==
  /\ Begins(p, c, {"rotateKey"}) /\ ~KeyLocked(c.key)
  /\ procs' = IF CanRotate(db, c.key)
              THEN [procs EXCEPT ![p] = [pc |-> "rotate", call |-> c, read |-> NoRead]] ELSE procs
  /\ Called /\ UNCHANGED <<db, tvars>>

\* The new key's id, and the guardrail as the copying statement finds it.
RotateInsert(p) ==
  LET c == procs[p].call
      scope == <<"key", c.key>>
      copy == IF scope \in DOMAIN db.rails THEN <<db.rails[scope]>> ELSE <<>>
  IN  /\ procs[p].pc = "rotate"
      /\ procs' = [procs EXCEPT ![p] = [pc |-> "commit", call |-> [c EXCEPT !.copy = copy], read |-> FreshKey]]
      /\ UNCHANGED <<db, left, tvars>>

RotateCommit(p) ==
  LET c == procs[p].call
      k == procs[p].read
      old == db.keys[c.key]
      row == Key(old.project, old.user, old.kind, Unset, k, old.line)
      rewritten == c.copy # <<>> /\ c.copy[1] # db.rails[<<"key", c.key>>]
  IN  /\ procs[p].pc = "commit"
      /\ db' = [db EXCEPT !.keys = Put([@ EXCEPT ![c.key].revoked = TRUE], k, row),
                          !.rails = IF c.copy = <<>> THEN @ ELSE Put(@, <<"key", k>>, c.copy[1]),
                          !.stale = IF rewritten THEN @ \cup {<<"key", k>>} ELSE @]
      /\ Release(p)
      /\ UNCHANGED <<left, tvars>>

(***************************************************************************)
(* People.  DisableUser marks the person, then revokes the keys it sees:   *)
(* it waits for one that is being rotated, and does not see the new one.   *)
(***************************************************************************)
UserLocked(u) == \E q \in Procs : procs[q].pc = "disable" /\ procs[q].call.user = u
DisableUser(p, c) ==
  /\ Begins(p, c, {"disableUser"}) /\ ~UserLocked(c.user)
  /\ procs' = [procs EXCEPT ![p] = [pc |-> "disable", call |-> c,
                                    read |-> {k \in DOMAIN db.keys : Live(db, k) /\ db.keys[k].user = c.user}]]
  /\ Called /\ UNCHANGED <<db, tvars>>
DisableCommit(p) ==
  LET c == procs[p].call
  IN  /\ procs[p].pc = "disable"
      /\ \A k \in procs[p].read : ~KeyLocked(k)
      /\ db' = [db EXCEPT !.users[c.user].disabled = TRUE,
                          !.keys = [k \in DOMAIN @ |-> IF k \in procs[p].read THEN [@[k] EXCEPT !.revoked = TRUE]
                                                       ELSE @[k]]]
      /\ Release(p)
      /\ UNCHANGED <<left, tvars>>
EnableUser(p, c) ==
  /\ Begins(p, c, {"enableUser"}) /\ ~UserLocked(c.user)
  /\ db' = [db EXCEPT !.users[c.user].disabled = FALSE]
  /\ Called /\ UNCHANGED <<procs, tvars>>

(***************************************************************************)
(* Projects.                                                               *)
(***************************************************************************)
CreateProject(p, c) ==
  /\ Begins(p, c, {"createProject"})
  /\ c.project \notin DOMAIN db.projects
  /\ db' = [db EXCEPT !.projects = Put(@, c.project, c.created)]
  /\ Called /\ UNCHANGED <<procs, tvars>>

\* The row is locked first, so it waits for a key being inserted in it.  A live
\* key keeps the project; revoked ones are detached and its guardrail goes.
DeleteProject(p, c) ==
  LET live == {k \in DOMAIN db.keys : Live(db, k) /\ db.keys[k].project = c.project}
  IN  /\ Begins(p, c, {"deleteProject"})
      /\ \A q \in Procs : procs[q].pc = "commit" => db.keys[procs[q].call.key].project # c.project
      /\ IF c.project \in DOMAIN db.projects /\ live = {}
         THEN db' = [db EXCEPT !.projects = Drop(@, c.project),
                               !.rails = Drop(@, <<"project", c.project>>),
                               !.keys = [k \in DOMAIN @ |-> IF @[k].project = c.project
                                                            THEN [@[k] EXCEPT !.project = Unset] ELSE @[k]]]
         ELSE UNCHANGED db
      /\ Called /\ UNCHANGED <<procs, tvars>>

(***************************************************************************)
(* lookupKey: what the gateway enforces for a key.  A disabled holder      *)
(* counts as a revoked key.                                                *)
(***************************************************************************)
ChainOf(d, k) ==
  LET key == d.keys[k]
      levels == <<OrgScope>> \o (IF key.project \in DOMAIN d.projects THEN <<<<"project", key.project>>>> ELSE <<>>)
                \o <<<<"key", k>>>>
  IN  [i \in DOMAIN levels |-> Level(levels[i], storedLimits(d, levels[i]))]
Usable(d, k) ==
  /\ Live(d, k) /\ d.keys[k].hash # "none"
  /\ d.keys[k].user = Unset \/ ~d.users[d.keys[k].user].disabled
lookupKey(d, k) == Resolve([subscription |-> d.keys[k].kind = "subscription"], ChainOf(d, k))

\* catalogueOf: what Keera Agents is told a key of a project may use.
catalogueOf(d, project) ==
  LET res == Resolve([subscription |-> FALSE],
                     <<Level(OrgScope, storedLimits(d, OrgScope)),
                       Level(<<"project", project>>, storedLimits(d, <<"project", project>>))>>)
  IN  [models |-> {a \in DOMAIN d.models : d.models[a].enabled /\ d.models[a].kind = "chat" /\ MayUse(res, d.models[a])},
       routers |-> {r \in DOMAIN d.routers : MayCallRouter(res, d.routers[r], d.models)},
       servers |-> {s \in DOMAIN d.servers : d.servers[s].enabled /\ AllowsServer(res.tools, s)}]

KeyStep(p) == CreateKey(p) \/ RotateInsert(p) \/ RotateCommit(p) \/ DisableCommit(p)
KeyCalls(p) ==
  \E c \in Setups[setup].calls :
    \/ CreateKeyChecks(p, c) \/ ActivateKey(p, c) \/ RevokeKey(p, c) \/ RotateLock(p, c)
    \/ DisableUser(p, c) \/ EnableUser(p, c) \/ CreateProject(p, c) \/ DeleteProject(p, c)

Next == \E p \in Procs : Calls(p) \/ Step(p) \/ Cancel(p) \/ KeyCalls(p) \/ KeyStep(p)

\* The database answers, and a wait for a slot, a connection or a lock ends when
\* it stays free.
Fairness == \A p \in Procs : WF_vars(Step(p) \/ KeyStep(p))
Spec == Init /\ [][Next]_vars /\ Fairness

(***************************************************************************)
(* Properties.                                                             *)
(***************************************************************************)
LevelAllows(lim, m) == Listed(lim.models, m.alias) /\ Listed(lim.locations, m.location)
Tools == {"read", "write"}
ScopesFor(lim) ==
  Len(lim.budgets) +
  Cardinality({i \in DOMAIN lim.rates : ~PerMinute(lim.rates[i]) /\ lim.rates[i].requests > 0}) +
  Cardinality({i \in DOMAIN lim.rates : ~PerMinute(lim.rates[i]) /\ lim.rates[i].tokens > 0})
LimitsOf(scopes) == Cardinality({i \in DOMAIN scopes : scopes[i].budget > 0})

\* Keera Agents is told of a project what the keys it was issued there may use.
ToldTruth ==
  \A k \in {x \in DOMAIN db.keys : Usable(db, x) /\ db.keys[x].issuedBy = "agents"} :
    LET res == lookupKey(db, k)
        own == storedLimits(db, <<"key", k>>)
        told == catalogueOf(db, db.keys[k].project)
    IN  own.models = NoList /\ own.locations = NoList /\ own.tools = NoList =>
          /\ told.models = {a \in DOMAIN db.models :
                              db.models[a].enabled /\ db.models[a].kind = "chat" /\ MayUse(res, db.models[a])}
          /\ told.routers = {r \in DOMAIN db.routers : MayCallRouter(res, db.routers[r], db.models)}
          /\ \A s \in told.servers : \E e \in Tools : AllowsTool(res.tools, s, e)

\* A key may use exactly what every level above it and its own guardrail
\* allow, and each rate limit and budget stored on any of them is counted in a
\* scope of its own, so none replaces another.  What Keera Agents is told it
\* may use in a project, the keys it was issued there may use, no more and no
\* less.
ChainEnforced ==
  ToldTruth /\ \A k \in {x \in DOMAIN db.keys : Usable(db, x)} :
    LET res == lookupKey(db, k)
        chain == ChainOf(db, k)
    IN  /\ \A a \in DOMAIN db.models :
             MayUse(res, db.models[a]) <=>
               /\ db.models[a].subscription = res.key.subscription
               /\ \A i \in DOMAIN chain : LevelAllows(chain[i].limits, db.models[a])
        /\ \A s \in DOMAIN db.servers : \A t \in Tools :
             AllowsTool(res.tools, s, t) <=> \A i \in DOMAIN chain : AllowsTool(chain[i].limits.tools, s, t)
        /\ \A i \in DOMAIN chain :
             ScopesFor(chain[i].limits) =
               LimitsOf(SelectSeq(res.scopes, LAMBDA sc : sc.type = chain[i].type)) +
               Len(SelectSeq(res.quotas, LAMBDA sc : sc.type = chain[i].type))
        /\ \A i \in DOMAIN chain : Range(chain[i].limits.filters) \subseteq Range(res.filters)

\* A key's secret is shown once, and of a key and its rotations at most one
\* works: two rotations, or an activation and a rotation, never leave two.
OneLive ==
  /\ \A k \in DOMAIN db.keys : db.keys[k].secrets <= 1
  /\ \A k, l \in DOMAIN db.keys : Live(db, k) /\ Live(db, l) /\ db.keys[k].line = db.keys[l].line => k = l
  /\ \A k \in DOMAIN db.keys : Live(db, k) => db.keys[k].project \in DOMAIN db.projects
=============================================================================
