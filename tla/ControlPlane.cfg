CONSTANTS
    c1 = c1  c2 = c2  c3 = c3  adm = adm  opr = opr  apv = apv  u1 = u1  u2 = u2  u3 = u3
    d1 = d1  d2 = d2  d3 = d3  d4 = d4  l1 = l1  l2 = l2  l3 = l3  l4 = l4  k1 = k1  k2 = k2  k3 = k3
    t1 = t1  r1 = r1  r2 = r2  m1 = m1  m2 = m2  m3 = m3  m4 = m4
    Call = {c1, c2, c3}
    ApiToken = {t1}
    Person = {adm, opr, apv}
    GroupsOf <- MCGroups
    HasMFA = {adm}
    Signer = {u1, u2, u3}
    EmailOf <- MCEmail
    Nobody = Nobody
    Rollout = {d1, d2, d3, d4}
    KindOf <- MCKind
    Bootstrapped = {d3}
    Justified = {d1}
    Anonymous = {d4}
    FailOpenEnvs = {"dev"}
    BreakGlass = TRUE
    Delegate = TRUE
    MaxTries = 2
    Replica = {r1, r2}
    EnvKey = l2
    LicToken = {l1, l2, l3, l4}
    SignedBy <- MCSigned
    PlanOf <- MCPlan
    ExtraOf <- MCExtra
    Expires <- MCExpires
    RawKeys <- MCRawKeys
    BadKey = BadKey
    NoKey = NoKey
    Days = 2
    Absent = Absent
    Mutation = {m1, m2, m3, m4}
    Buffer = 2
    RowLimit = 2
    Horizon = 1
    r3 = r3  x1 = x1  x2 = x2
    App = {a1, a2}
    AppEdit = {u1, u2}
    Place = {p1}
    NoPlace = NoPlace
    NoUrl = NoUrl
    Url = {l1}
    MaxSecret = 1
    MaxTicks = 1
    Release = {r1, r2, r3}
    ReleaseKind <- MCReleaseKind
    Commit = {x1, x2}
    NoCommit = NoCommit
    NoRelease = NoRelease
    ServiceNames <- MCServiceNames
    Sanitized <- MCSanitized
    NoSlug = NoSlug
SPECIFICATION MCFairSpec
INVARIANTS IdentityInv GovernanceInv LicensingInv AppDeploysInv ComposeInv
PROPERTIES AuditCorrect AppRowsCorrect
CHECK_DEADLOCK FALSE
