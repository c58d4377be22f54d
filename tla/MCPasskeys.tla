------------------------------ MODULE MCPasskeys ------------------------------
(* Two people of one organisation: Ann, who signs in with passkeys and is its *)
(* administrator, and Bob, who was added and has not signed in.  Eve's        *)
(* address is at another domain.                                              *)
EXTENDS Passkeys

CONSTANT acme

MCEmails == {"ann", "bob", "eve"}
MCDomainOf == [ann |-> "a.ch", bob |-> "a.ch", eve |-> "b.ch"]
MCOrgDomain == acme :> "a.ch"
sso == <<"sso", "bob">>
MCIdents == {sso}
MCProviders ==
    [sso |-> [kind |-> "oidc", domains |-> {"a.ch"}, signUp |-> FALSE, operatorGroups |-> {"ops"},
              adminGroups |-> {}, operatorEmails |-> {}, default |-> "member"]]

Ann == <<acme, "ann">>
Bob == <<acme, "bob">>

Answer(kind) == [kind |-> kind, challenge |-> "this", origin |-> "own", cross |-> FALSE, site |-> "own",
                 present |-> TRUE, verified |-> TRUE, alg |-> "fits", handle |-> Nobody,
                 signed |-> TRUE, attested |-> TRUE, sameId |-> TRUE, count |-> 0]
MCAssertions == {Answer("get"), [Answer("get") EXCEPT !.handle = Bob], [Answer("get") EXCEPT !.verified = FALSE]}
MCRegistrations == {Answer("create"), [Answer("create") EXCEPT !.origin = "other"]}

(* The fourth passkey would be the second one's credential again. *)
MCCredentialOf == <<"c1", "c2", "c3", "c2">>

None(ids) == [i \in ids |-> Unused]
Signed == [None(CredIds) EXCEPT ![1] = NewCred("session", Ann)]
Key(row, count) == [owner |-> row, count |-> count]
Passkey(row, role) == [User(row[2], PasskeyExternalID(row), role) EXCEPT !.off = FALSE]
People == [row \in Rows |-> CASE row = Ann -> Passkey(Ann, "admin")
                              [] row = Bob -> User("bob", NoExt, "member")
                              [] OTHER -> NoRow]
BobToo == [People EXCEPT ![Bob] = Passkey(Bob, "member")]

Base == [users |-> People, creds |-> Signed, keys |-> [None(KeyIds) EXCEPT ![1] = Key(Ann, 0), ![2] = Key(Ann, 0)],
         links |-> None(LinkIds), challenges |-> None(ChallengeIds), flows |-> None(FlowIds),
         calls |-> {}, maxStarts |-> 0]

(* Copies of a key that counts sign in while the keys are removed. *)
Copies == [Base EXCEPT !.flows = [None(FlowIds) EXCEPT ![1] = [cli |-> FALSE], ![2] = [cli |-> TRUE]],
                       !.calls = {"signin", "delete"}, !.maxStarts = 3]

(* Two browsers finish one set-up link, while Bob is disabled and enabled. *)
Setup == [Base EXCEPT !.users = BobToo, !.links = [None(LinkIds) EXCEPT ![1] = Bob],
                      !.challenges = [None(ChallengeIds) EXCEPT ![1] = Bob, ![2] = Bob],
                      !.calls = {"setup", "disable", "enable"}, !.maxStarts = 3]

(* Bob is made a passkey account while he signs in through the directory. *)
Issue == [Base EXCEPT !.calls = {"issue", "add", "setup"}, !.maxStarts = 3]

(* Ann adds and removes passkeys of her own. *)
Own == [Base EXCEPT !.challenges = [None(ChallengeIds) EXCEPT ![1] = Ann, ![2] = Bob],
                    !.calls = {"own", "delete"}, !.maxStarts = 3]

MCSetups == {Copies, Setup, Issue, Own}
=============================================================================
