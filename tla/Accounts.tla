------------------------------- MODULE Accounts -------------------------------
(* The tables of people and of their sign-ins (internal/store: session.go,   *)
(* directory.go, signup.go, cli.go, passkeys.go and the users of tenants.go),*)
(* as functions on table contents.  Every operator is one statement or one   *)
(* transaction of the store, so a step of a handler that applies one is      *)
(* atomic, and nothing larger is.                                            *)
(*                                                                           *)
(* A row of users is named <<org, address it was created with>>: the name    *)
(* stands for its id.  Its fields are [email, ext, role, off], where ext is  *)
(* the external id of the identity that took the row, or NoExt for an        *)
(* invitation nobody has taken.                                              *)
EXTENDS Directory, FiniteSets

CONSTANTS Orgs,       \* organisations there can be
          OrgDomain,  \* the email domain an organisation has, or Nobody
          Idents,     \* external ids, <<provider, subject>>
          NoRow, NoExt,
          Unused, Ended, \* ids not given out yet, and rows deleted since
          OperatorKey \* external id of the operator key's stand-in

Rows == Orgs \X Emails
OrgOf(row) == row[1]

(* The external id a passkey account has: its own row, under the gateway's    *)
(* reserved provider name.                                                    *)
PasskeyExternalID(row) == <<"passkey", row>>
IsPasskeyAccount(ext) == ext # NoExt /\ ext # OperatorKey /\ ext[1] = "passkey"

(* vouchedByDirectory: an identity provider proved the address. *)
VouchedByDirectory(ext) == ext \in Idents

ExternalIDs == Idents \cup {OperatorKey} \cup {PasskeyExternalID(row) : row \in Rows}
UserRow == [email : Emails, ext : ExternalIDs \cup {NoExt}, role : Roles, off : BOOLEAN]

User(email, ext, role) == [email |-> email, ext |-> ext, role |-> role, off |-> FALSE]

Exists(us, row) == us[row] # NoRow
Enabled(us, row) == Exists(us, row) /\ ~us[row].off
RowsOf(us, ext) == {row \in Rows : Exists(us, row) /\ us[row].ext = ext}

-----------------------------------------------------------------------------
(* People *)

(* UserInOrg: an identity's enabled row in one organisation. *)
UserInOrg(us, ext, org) == {row \in RowsOf(us, ext) : OrgOf(row) = org /\ ~us[row].off}

(* Memberships: an identity's rows and, with invitations, the enabled rows    *)
(* other organisations made for its address that nobody has taken.            *)
Invited(us, row, email) ==
    Enabled(us, row) /\ us[row].ext = NoExt /\ us[row].email = email

Memberships(us, ext, email, invitations) ==
    RowsOf(us, ext) \cup {row \in Rows : invitations /\ Invited(us, row, email)}

ExternalIDsFor(us, email) ==
    {us[row].ext : row \in {r \in Rows : Exists(us, r) /\ us[r].email = email}} \ {NoExt}

(* InvitationFor: the organisation of an untaken, enabled row at the address; *)
(* of several the oldest, which the model leaves open.                        *)
InvitationFor(us, email) == {OrgOf(row) : row \in {r \in Rows : Invited(us, r, email)}}

(* The two unique indexes of users: (org, email) and (org, external id). *)
At(us, org, email) == {row \in Rows : OrgOf(row) = org /\ Exists(us, row) /\ us[row].email = email}
HasExt(us, org, ext) == \E row \in RowsOf(us, ext) : OrgOf(row) = org

(* takeInvitation: link an identity to the row made for its address.          *)
TakeInvitation(us, org, email, ext) ==
    LET inv == {row \in At(us, org, email) : Invited(us, row, email)}
    IN  IF inv = {} THEN Refused("gone")
        ELSE IF HasExt(us, org, ext) THEN Refused("taken")
        ELSE LET row == CHOOSE r \in inv : TRUE
             IN  [row |-> row, users |-> [us EXCEPT ![row].ext = ext]]

(* followDirectory: the address of an identity, on all its rows at once. A    *)
(* row of somebody else at the new address breaks the unique index.           *)
FollowDirectory(us, ext, email) ==
    IF \E row \in RowsOf(us, ext) : At(us, OrgOf(row), email) \ RowsOf(us, ext) # {}
    THEN Refused("conflict")
    ELSE [users |-> [row \in Rows |-> IF row \in RowsOf(us, ext)
                                      THEN [us[row] EXCEPT !.email = email] ELSE us[row]]]

(* LinkUser: the row of the subject in the organisation, following a changed  *)
(* address; else a new row, or the row at the address if nobody has taken it. *)
LinkUser(us, org, email, ext, role) ==
    LET mine == {row \in RowsOf(us, ext) : OrgOf(row) = org}
        at   == At(us, org, email)
    IN  IF mine # {}
        THEN LET row == CHOOSE r \in mine : TRUE
                 new == FollowDirectory(us, ext, email)
             IN  IF us[row].email = email THEN [row |-> row, users |-> us]
                 ELSE IF OK(new) THEN [row |-> row, users |-> new.users] ELSE new
        ELSE IF at # {}
        THEN LET row == CHOOSE r \in at : TRUE
             IN  IF us[row].ext # NoExt THEN Refused("taken")
                 ELSE [row |-> row, users |-> [us EXCEPT ![row].ext = ext]]
        ELSE IF Exists(us, <<org, email>>) THEN Refused("bound")
        ELSE [row |-> <<org, email>>,
              users |-> [us EXCEPT ![<<org, email>>] = User(email, ext, role)]]

(* AddUser never touches a row that is there. *)
AddUser(us, org, email, ext, role) ==
    IF At(us, org, email) # {} \/ Exists(us, <<org, email>>) THEN Refused("exists")
    ELSE IF ext # NoExt /\ HasExt(us, org, ext) THEN Refused("taken")
    ELSE [users |-> [us EXCEPT ![<<org, email>>] = User(email, ext, role)]]

(* Mutant: whoever has taken the row since it was read. *)
MakeAnyPasskeyAccount(us, row) == [users |-> [us EXCEPT ![row].ext = PasskeyExternalID(row)]]

(* MakePasskeyAccount: only a row no directory has taken. *)
MakePasskeyAccount(us, row) ==
    IF us[row].ext \in {NoExt, PasskeyExternalID(row)}
    THEN [users |-> [us EXCEPT ![row].ext = PasskeyExternalID(row)]]
    ELSE Refused("directory")

SetUserRole(us, row, role) == [us EXCEPT ![row].role = role]

-----------------------------------------------------------------------------
(* Organisations *)

OrgByEmailDomain(orgs, domain) == {o \in orgs : OrgDomain[o] = domain}

(* OnlyOrg: the organisation there is, when there is one. *)
OnlyOrg(orgs) == IF Cardinality(orgs) = 1 THEN orgs ELSE {}

(* DirectoryOrg: where a directory's addresses at the domain land. *)
DirectoryOrg(orgs, providers, email) ==
    LET byDomain == OrgByEmailDomain(orgs, DomainOf[email])
    IN  IF byDomain # {} THEN byDomain
        ELSE IF SignUpAllowed(providers) THEN {} ELSE OnlyOrg(orgs)

-----------------------------------------------------------------------------
(* The rules for roles, of the handlers that sign a person in *)

(* roleAtSignIn: the role to store. *)
RoleAtSignIn(ps, stored, fromIDP) ==
    IF ~AdminFromDirectory(ps) /\ fromIDP # "operator" /\ stored # "operator"
    THEN stored ELSE fromIDP

(* Mutant: a directory's groups make administrators in every organisation. *)
SyncedEverywhere(ps, orgs, row, email, stored, fromIDP) == RoleAtSignIn(ps, stored, fromIDP)

(* syncRole: the admin role comes from the directory only in the organisation *)
(* its addresses land in; elsewhere a former operator becomes a member.       *)
SyncedRole(ps, orgs, row, email, stored, fromIDP) ==
    LET want == RoleAtSignIn(ps, stored, fromIDP)
    IN  IF want = stored \/ want = "operator" \/ OrgOf(row) \in DirectoryOrg(orgs, ps, email) THEN want
        ELSE IF stored = "operator" THEN "member" ELSE stored

-----------------------------------------------------------------------------
(* Sign-ins.  One table here for sessions, command-line tokens and the codes  *)
(* that become tokens: c.kind says which.                                     *)

Live(cs, i) == cs[i] \notin {Unused, Ended}

DeleteCreds(cs, which) == [i \in DOMAIN cs |-> IF i \in which THEN Ended ELSE cs[i]]

(* deleteSessionsWhere: the three tables, for the rows selected, in one       *)
(* transaction with what its caller does.                                     *)
CredsOf(cs, rows) == {i \in DOMAIN cs : Live(cs, i) /\ cs[i].row \in rows}
DeleteSessionsWhere(cs, rows) == DeleteCreds(cs, CredsOf(cs, rows))

(* On the pool it is one DELETE per table, in this order, each a step.        *)
KindIn == [sessions |-> "session", codes |-> "code", tokens |-> "token"]
TableAfter == [sessions |-> "codes", codes |-> "tokens"]

(* Mutant: the codes waiting for a terminal are forgotten. *)
CredsInNotCodes(cs, rows, table) == {i \in CredsOf(cs, rows) : cs[i].kind = KindIn[table] /\ table # "codes"}

CredsIn(cs, rows, table) == {i \in CredsOf(cs, rows) : cs[i].kind = KindIn[table]}

(* DeletePersonSessions: every row of the identity the user row has. *)
PersonRows(us, row) == {row} \cup IF us[row].ext = NoExt THEN {} ELSE RowsOf(us, us[row].ext)

(* LookupSession and LookupCLIToken: not of a disabled person. *)
Lookup(us, cs, i) == Live(cs, i) /\ cs[i].kind # "code" /\ Enabled(us, cs[i].row)

(* moveSignIn: nothing happens to a row that is gone or has expired. *)
MoveSignIn(cs, i, row) == IF Live(cs, i) THEN [cs EXCEPT ![i].row = row] ELSE cs

-----------------------------------------------------------------------------
(* Identities: the refresh token (0 for none), whether a check is due, and    *)
(* since when the directory could not be asked.                               *)

(* RecordDirectoryCheck keeps the stored token when none came. *)
RecordDirectoryCheck(ids, d, token) ==
    [ids EXCEPT ![d] = [token |-> IF token # 0 THEN token ELSE @.token,
                        due |-> FALSE, failing |-> "no"]]

RecordDirectoryFailure(ids, d) ==
    [ids EXCEPT ![d].failing = IF @ = "no" THEN "short" ELSE @]

(* ClaimDirectoryCheck: one caller wins a due check. *)
Claimable(ids, d) == ids[d].token # 0 /\ ids[d].due
(* Mutant: a claim leaves the check due for the others. *)
ClaimLeavesDue(ids, d) == ids

ClaimDirectoryCheck(ids, d) == [ids EXCEPT ![d].due = FALSE]

EndedLink(ids, d) == [ids EXCEPT ![d].token = 0, ![d].failing = "no"]

(* PurgeExpired drops the token of an identity no enabled row uses. *)
PurgeIdentities(us, ids) ==
    [d \in DOMAIN ids |-> IF \E row \in RowsOf(us, d) : ~us[row].off THEN ids[d]
                          ELSE [token |-> 0, due |-> FALSE, failing |-> "no"]]

=============================================================================
