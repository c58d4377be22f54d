SPECIFICATION Spec
CONSTANTS
    Emails <- MCEmails
    Domains = {"a.ch", "b.ch"}
    DomainOf <- MCDomainOf
    AnyDomain = "*"
    Nobody = Nobody
    Unused = Unused
    Ended = Ended
    acme = acme
    Orgs = {acme}
    OrgDomain <- MCOrgDomain
    Idents <- MCIdents
    NoRow = NoRow
    NoExt = NoExt
    OperatorKey = OperatorKey
    AnyOrg = AnyOrg
    NoUser = NoUser
    Providers <- MCProviders
    Slots = {1, 2}
    KeyIds = {1, 2, 3, 4}
    CredentialOf <- MCCredentialOf
    Counting = {1}
    MaxCount = 2
    Assertions <- MCAssertions
    Registrations <- MCRegistrations
    CredIds = {1, 2, 3, 4, 5}
    FlowIds = {1, 2, 3}
    ChallengeIds = {1, 2, 3}
    LinkIds = {1, 2, 3}
    Setups <- MCSetups
    MaxChanges = 1
INVARIANTS PasskeysApart UsedOnce
CHECK_DEADLOCK FALSE
