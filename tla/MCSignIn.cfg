SPECIFICATION Spec
CONSTANTS
    Emails <- MCEmails
    Domains = {"a.ch", "b.ch", "local"}
    DomainOf <- MCDomainOf
    AnyDomain = "*"
    Nobody = Nobody
    Unused = Unused
    Ended = Ended
    acme = acme
    beta = beta
    Orgs = {acme, beta}
    OrgDomain <- MCOrgDomain
    Idents <- MCIdents
    NoRow = NoRow
    NoExt = NoExt
    OperatorKey = OperatorKey
    AnyOrg = AnyOrg
    NoUser = NoUser
    Slots = {h1, h2}
    Setups <- MCSetups
    Answers <- MCAnswers
    CredIds = {1, 2, 3, 4}
    FlowIds = {1, 2}
    SignupIds = {1, 2}
    MaxTokens = 3
    MaxChanges = 1
    LocalEmail = "local"
SYMMETRY Alike
INVARIANTS SignInsHold TokenSpentOnce RolesAppointed
CHECK_DEADLOCK FALSE
