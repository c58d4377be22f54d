------------------------------ MODULE Directory ------------------------------
(* What the identity providers say of a person, and what the gateway makes   *)
(* of it (internal/authn: oidc.go, entra.go, github.go, ldap.go,             *)
(* principal.go).  These are functions of a provider's configuration and of  *)
(* the person's entry; the sign-in handlers of SignIn call them.             *)
(*                                                                           *)
(* A provider is [kind, domains, signUp, operatorGroups, adminGroups,        *)
(* operatorEmails, default].  An entry is                                    *)
(*   [mails, groups, overage, personal, off, gone]                           *)
(* where mails is a sequence of [addr, primary, verified]: the addresses of  *)
(* a GitHub account, and the one address of the others.                      *)
EXTENDS Naturals, Sequences, SequencesExt

CONSTANTS Emails, Domains, DomainOf, AnyDomain, Nobody

Roles == {"operator", "admin", "member"}

(* An answer the gateway cannot use, and why. *)
Refused(why) == [err |-> why]
OK(x) == "err" \notin DOMAIN x

-----------------------------------------------------------------------------
(* Roles and providers *)

Assignable(role) == role \in {"admin", "member"}

UsesGroups(p) == p.operatorGroups \cup p.adminGroups # {}

DecidesAdmin(p) == p.adminGroups # {}

AdminFromDirectory(ps) == \E n \in DOMAIN ps : DecidesAdmin(ps[n])

SignUpAllowed(ps) == \E n \in DOMAIN ps : ps[n].signUp

RoleFor(p, id) ==
    IF id.groups \cap p.operatorGroups # {} \/ id.email \in p.operatorEmails
    THEN "operator"
    ELSE IF id.groups \cap p.adminGroups # {} THEN "admin"
    ELSE IF Assignable(p.default) THEN p.default ELSE "member"

VouchesForAll(p) == p.domains = {} \/ AnyDomain \in p.domains

VouchesFor(p, domain) == VouchesForAll(p) \/ domain \in p.domains

Configured(p) == p.kind \in {"oidc", "entra", "github", "ldap"}

Password(p) == p.kind = "ldap"

-----------------------------------------------------------------------------
(* The checks every identity passes, whatever it came from. *)

(* emailVerified, with the Entra personal accounts counted as proved. *)
EmailVerified(p, e, said) ==
    IF said = "unsaid" /\ p.kind = "entra" /\ e.personal THEN "yes" ELSE said

CheckIdentity(p, e, id, said) ==
    LET v == EmailVerified(p, e, said)
    IN  IF \/ id.groups = {} /\ UsesGroups(p) /\ e.overage
           \/ id.email = Nobody
           \/ ~VouchesFor(p, DomainOf[id.email])
           \/ v = "no"
           \/ v = "unsaid" /\ p.kind = "entra"
           \/ v = "unsaid" /\ p.signUp /\ VouchesForAll(p)
        THEN Refused("unusable")
        ELSE id

-----------------------------------------------------------------------------
(* OpenID Connect *)

OidcIdentity(p, e) ==
    IF e.mails = <<>> THEN Refused("unusable")
    ELSE CheckIdentity(p, e, [email |-> Head(e.mails).addr, groups |-> e.groups],
                       Head(e.mails).verified)

(* verifiedIDToken: the signature, the audience and, for every Entra tenant,  *)
(* the issuer of the tenant the token names.                                  *)
VerifiedIDToken(p, a) == a.idToken = "good" /\ (p.kind # "entra" => a.issuer = "tenant")

OidcExchange(p, e, a) ==
    IF a.code # "good" \/ ~VerifiedIDToken(p, a) \/ a.nonce # "mine"
    THEN Refused("exchange") ELSE OidcIdentity(p, e)

(* A refresh: invalid_grant is the directory's refusal, any other failure and *)
(* a token that does not verify count as unreachable, and an answer without   *)
(* an id_token vouches for the person without saying who they are now.        *)
OidcRecheck(p, e, a) ==
    IF e.gone THEN Refused("refused")
    ELSE IF a.code # "good" THEN Refused("unreachable")
    ELSE IF a.idToken = "none" THEN [stale |-> TRUE]
    ELSE IF ~VerifiedIDToken(p, a) THEN Refused("unreachable")
    ELSE LET id == OidcIdentity(p, e)
         IN  IF OK(id) THEN id ELSE Refused("refused")

-----------------------------------------------------------------------------
(* GitHub *)

(* pickEmail: of the verified addresses the provider may vouch for the        *)
(* primary one (the last, were there several), else the first; else the       *)
(* primary one.                                                               *)
PickEmail(p, mails) ==
    LET proved  == {i \in DOMAIN mails : mails[i].verified = "yes"}
        primary == {i \in proved : mails[i].primary}
        fit     == {i \in proved : VouchesFor(p, DomainOf[mails[i].addr])}
    IN  IF fit \cap primary # {} THEN mails[Max(fit \cap primary)].addr
        ELSE IF fit # {} THEN mails[Min(fit)].addr
        ELSE IF primary # {} THEN mails[Max(primary)].addr ELSE Nobody

(* The account and its addresses, with the groups only where a mapping uses   *)
(* them.  A token GitHub no longer takes is the refusal.                      *)
GitHubIdentity(p, e, a) ==
    IF e.gone THEN Refused("refused")
    ELSE IF a.code # "good" THEN Refused("unreachable")
    ELSE [email |-> PickEmail(p, e.mails),
          groups |-> IF UsesGroups(p) THEN e.groups ELSE {}]

CheckGitHub(p, e, id) ==
    IF ~OK(id) THEN id
    ELSE IF id.email = Nobody THEN Refused("unusable")
    ELSE CheckIdentity(p, e, id, "yes")

RecheckGitHub(p, e, a) ==
    LET id == GitHubIdentity(p, e, a)
        ch == CheckGitHub(p, e, id)
    IN  IF OK(id) /\ ~OK(ch) THEN Refused("refused") ELSE ch

-----------------------------------------------------------------------------
(* LDAP *)

(* lookup: one entry, or none the gateway will use. *)
LdapLookup(e, a) ==
    IF a.code # "good" THEN Refused("unreachable")
    ELSE IF e.gone \/ a.matches # 1 THEN Refused("credentials")
    ELSE e

LdapIdentity(p, e) ==
    IF e.off THEN Refused("disabled")
    ELSE IF e.mails = <<>> THEN Refused("unusable")
    ELSE CheckIdentity(p, e, [email |-> Head(e.mails).addr, groups |-> e.groups], "unsaid")

(* The name is looked up as the service account, the entry is admitted by the *)
(* throttle, and only then is the password tried.                             *)
Authenticate(p, e, a, admitted) ==
    IF a.password = "empty" THEN Refused("credentials")
    ELSE LET found == LdapLookup(e, a)
         IN  IF ~OK(found) THEN found
             ELSE IF ~admitted THEN Refused("throttled")
             ELSE IF a.password # "right" THEN Refused("credentials")
             ELSE LdapIdentity(p, e)

RecheckLdap(p, e, a) ==
    LET found == LdapLookup(e, a)
        id    == IF OK(found) THEN LdapIdentity(p, e) ELSE found
    IN  IF (OK(found) /\ ~OK(id)) \/ id = Refused("credentials")
        THEN Refused("refused") ELSE id

-----------------------------------------------------------------------------
(* The two entry points the control plane has *)

Exchange(p, e, a) ==
    CASE Password(p)        -> Refused("exchange")
      [] p.kind = "github"  -> CheckGitHub(p, e, GitHubIdentity(p, e, a))
      [] OTHER              -> OidcExchange(p, e, a)

Recheck(p, e, a) ==
    CASE Password(p)        -> RecheckLdap(p, e, a)
      [] p.kind = "github"  -> RecheckGitHub(p, e, a)
      [] OTHER              -> OidcRecheck(p, e, a)

=============================================================================
