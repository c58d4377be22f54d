------------------------------- MODULE MCSignIn -------------------------------
(* Small deployments for SignIn: one person, Ann, whom two directories know, *)
(* and two organisations, of which acme has her email domain.                *)
EXTENDS SignIn

CONSTANTS acme, beta

Alike == Permutations(Slots)

MCEmails == {"ann", "anna", "local"}
MCDomainOf == [ann |-> "a.ch", anna |-> "b.ch", local |-> "local"]
MCOrgDomain == acme :> "a.ch" @@ beta :> Nobody

sso == <<"sso", "ann">>
ldap == <<"ldap", "ann">>
MCIdents == {sso, ldap}

Provider(kind, signUp, ops, adm) ==
    [kind |-> kind, domains |-> IF kind = "ldap" THEN {"a.ch"} ELSE {"*"}, signUp |-> signUp,
     operatorGroups |-> ops, adminGroups |-> adm, operatorEmails |-> {}, default |-> "member"]

Entry(addr, groups) ==
    [mails |-> <<[addr |-> addr, primary |-> TRUE, verified |-> "yes"]>>, groups |-> groups,
     overage |-> FALSE, personal |-> FALSE, off |-> FALSE, gone |-> FALSE]
Gone(e) == [e EXCEPT !.gone = TRUE]
Off(e) == [e EXCEPT !.off = TRUE]

(* Only the sso directory is there. *)
Only(es) == sso :> es @@ ldap :> <<Entry("ann", {})>>

Good == [code |-> "good", idToken |-> "good", issuer |-> "tenant", nonce |-> "mine", matches |-> 1,
         password |-> "right", token |-> TRUE, other |-> FALSE, sealed |-> FALSE]
MCAnswers ==
    {Good, [Good EXCEPT !.token = FALSE], [Good EXCEPT !.code = "bad"],
     [Good EXCEPT !.idToken = "none", !.password = "wrong"], [Good EXCEPT !.idToken = "bad"],
     [Good EXCEPT !.nonce = "other", !.other = TRUE, !.matches = 2]}

Route(op) == [op |-> op, org |-> AnyOrg]
SwitchTo(org) == [op |-> "switch", org |-> org]
Add(ext, role) == [op |-> "add", org |-> beta, email |-> "ann", ext |-> ext, role |-> role]
Switch(op, row) == [op |-> op, org |-> AnyOrg, row |-> row]
Grant(row, role) == [op |-> "role", org |-> AnyOrg, row |-> row, role |-> role]

NoUsers == [row \in Rows |-> NoRow]
NoIdents == [d \in MCIdents |-> [token |-> 0, due |-> FALSE, failing |-> "no"]]
NoCreds == [i \in CredIds |-> Unused]
Cred(kind, row, who) == [kind |-> kind, row |-> row, who |-> who, long |-> TRUE, from |-> 0]
AtAcme == <<acme, "ann">>
AtBeta == <<beta, "ann">>
InBoth(ra, rb) == [NoUsers EXCEPT ![AtAcme] = User("ann", sso, ra), ![AtBeta] = User("ann", sso, rb)]
Both == {acme, beta}
Due(ids) == [ids EXCEPT ![sso] = [token |-> 1, due |-> TRUE, failing |-> "no"]]

(* An operator in two organisations, signed in twice, whose check is due. *)
Operator ==
    [providers |-> [sso |-> Provider("oidc", FALSE, {"ops"}, {})],
     entries |-> Only(<<Entry("ann", {"ops"}), Entry("ann", {}), Gone(Entry("ann", {}))>>),
     orgs |-> Both, users |-> InBoth("operator", "operator"), idents |-> Due(NoIdents), tokens |-> 1,
     creds |-> [NoCreds EXCEPT ![1] = Cred("session", AtAcme, sso), ![2] = Cred("token", AtBeta, sso)],
     starts |-> {"request"}, maxStarts |-> 3,
     routes |-> {Route("everywhere"), SwitchTo(beta)}]

(* The same, taken out of the group before the check is due. *)
Demoted ==
    [Operator EXCEPT !.entries = Only(<<Entry("ann", {})>>), !.idents[sso].due = FALSE]

(* Groups make administrators; Ann has a code waiting for a terminal. *)
Groups ==
    [providers |-> [sso |-> Provider("oidc", FALSE, {}, {"adm"})],
     entries |-> Only(<<Entry("ann", {"adm"}), Entry("anna", {"adm"})>>),
     orgs |-> Both, users |-> InBoth("member", "member"), idents |-> Due(NoIdents), tokens |-> 1,
     creds |-> [NoCreds EXCEPT ![1] = Cred("session", AtBeta, sso), ![2] = Cred("code", AtAcme, sso)],
     starts |-> {"request", "redeem", "login", "signin"}, maxStarts |-> 3,
     routes |-> {Route("logout"), Route("everywhere")}]

(* Strangers sign up, and a directory that asks for a password stands beside  *)
(* the other; beta has invited Ann.                                           *)
Strangers ==
    [providers |-> [sso |-> Provider("oidc", TRUE, {"ops"}, {}), ldap |-> Provider("ldap", FALSE, {}, {})],
     entries |-> sso :> <<Entry("anna", {"ops"})>> @@ ldap :> <<Entry("ann", {}), Off(Entry("ann", {}))>>,
     orgs |-> {acme}, users |-> [NoUsers EXCEPT ![<<acme, "anna">>] = User("anna", NoExt, "admin")],
     idents |-> NoIdents, tokens |-> 1, creds |-> NoCreds,
     starts |-> {"login", "signin", "signup"}, maxStarts |-> 5,
     routes |-> {}]

(* The operator key administers people who are signed in. *)
Administered ==
    [providers |-> [sso |-> Provider("github", FALSE, {}, {})],
     entries |-> Only(<<Entry("ann", {}), Gone(Entry("ann", {}))>>),
     orgs |-> Both, users |-> [InBoth("admin", "member") EXCEPT ![AtBeta].ext = NoExt],
     idents |-> Due(NoIdents), tokens |-> 1,
     creds |-> [NoCreds EXCEPT ![1] = Cred("token", AtAcme, sso)],
     starts |-> {"key", "request"}, maxStarts |-> 3,
     routes |-> {SwitchTo(beta), Add(NoExt, "member"), Add(sso, "admin"),
                 Grant(AtBeta, "admin"), Switch("disable", AtBeta), Switch("enable", AtBeta)}]

(* A new deployment, opened with the operator key. *)
Bare ==
    [providers |-> [sso |-> Provider("github", FALSE, {"ops"}, {})],
     entries |-> Only(<<Entry("ann", {"ops"})>>),
     orgs |-> {}, users |-> NoUsers, idents |-> NoIdents, tokens |-> 1, creds |-> NoCreds,
     starts |-> {"local", "request", "login", "signin"}, maxStarts |-> 3,
     routes |-> {Route("logout"), Route("everywhere")}]

MCSetups == {Operator, Demoted, Groups, Strangers, Administered, Bare}
=============================================================================
