------------------------------ MODULE Principals ------------------------------
(* What a caller of the control API may do (internal/authn/principal.go and  *)
(* the checks of internal/control/server.go).  A principal is                *)
(* [via, user, role, org]; AnyOrg stands for no organisation in particular.  *)

CONSTANTS AnyOrg, NoUser

OperatorPrincipal == [via |-> "operator_key", user |-> NoUser, role |-> "operator", org |-> AnyOrg]

Unrestricted(p) == p.via = "operator_key" \/ p.role = "operator"

InOrg(p, org) == org # AnyOrg /\ org = p.org

CanReadOrg(p, org) == Unrestricted(p) \/ InOrg(p, org)

CanAdminOrg(p, org) == Unrestricted(p) \/ (p.role = "admin" /\ InOrg(p, org))

CanManageKeyFor(p, org, user) ==
    CanAdminOrg(p, org) \/ (p.role = "member" /\ InOrg(p, org) /\ p.user # NoUser /\ user = p.user)

(* ScopeOrg: the organisation a request applies to, or nothing when refused.  *)
ScopeOrg(p, requested) ==
    IF Unrestricted(p) THEN {requested}
    ELSE IF p.org = AnyOrg \/ requested \notin {AnyOrg, p.org} THEN {}
    ELSE {p.org}

(* orgToAdmin: exactly one organisation, and the caller administers it. *)
OrgToAdmin(p, requested) ==
    {org \in ScopeOrg(p, requested) : org # AnyOrg /\ CanAdminOrg(p, org)}

(* requireOwnerAdmin: a thing named by its id, which another tenant's caller  *)
(* is told does not exist.                                                    *)
RequireOwnerAdmin(p, owner) == CanReadOrg(p, owner) /\ CanAdminOrg(p, owner)

(* writeOrg and inOrg of the store: the second check, in the statement.       *)
Writes(p, org) == Unrestricted(p) \/ org = p.org

=============================================================================
