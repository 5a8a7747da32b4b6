\* Three accounts, one identity of each provider, one address in three spellings.
SPECIFICATION Spec
CONSTANTS
    plain = plain
    capital = capital
    blank = blank
    github_local = github_local
    okta_local = okta_local
    alice = alice
    bob = bob
    None = null
    Ids = {i1, i2, i3}
    Emails = {plain, capital, blank, github_local, okta_local}
    Usernames = {alice, bob, carol}
    Passwords = {p1}
    GithubIds = {g1}
    OktaSubs = {o1}
    Quotas = {2}
    Lower <- LowerOf
    Trim <- TrimOf
    GithubLocal <- GithubLocalOf
    OktaLocal <- OktaLocalOf
    OktaName <- OktaNameOf
    Life = 2
    MaxTokens = 2
INVARIANT TypeOK
INVARIANT OnePasswordPerAddress
INVARIANT AdminComesFromOkta
PROPERTY IdentityKeepsItsAccount
PROPERTY QuotaReachesEverySpelling
SYMMETRY IdSymmetry
CHECK_DEADLOCK FALSE
