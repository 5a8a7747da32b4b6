\* As accounts, with two accounts and one token.
SPECIFICATION Spec
CONSTANTS
    plain = plain
    capital = capital
    blank = blank
    github_local = github_local
    okta_local = okta_local
    alice = alice
    bob = bob
    None = null
    Ids = {i1, i2}
    Emails = {plain, capital, blank, github_local, okta_local}
    Usernames = {alice, bob}
    Passwords = {p1}
    GithubIds = {g1}
    OktaSubs = {o1}
    Quotas = {2}
    Lower <- LowerOf
    Trim <- TrimOf
    GithubLocal <- GithubLocalOf
    OktaLocal <- OktaLocalOf
    OktaName <- OktaNameOf
    Life = 1
    MaxTokens = 1
INVARIANT RegistrantIsFound
SYMMETRY IdSymmetry
CHECK_DEADLOCK FALSE
