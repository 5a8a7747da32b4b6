------------------------------ MODULE Accounts ------------------------------
(* The users table and the tokens the API hands out (db/user_repo.rs,         *)
(* routes/auth.rs, auth/github.rs, auth/okta.rs, auth/jwt.rs,                 *)
(* routes/admin.rs). Every handler changes the table by one statement, so     *)
(* every handler is one step; one that answers with an error changes nothing  *)
(* and is no step at all. Passwords are compared, never hashed.               *)
EXTENDS Naturals, FiniteSets

CONSTANTS
    Ids,            \* what gen_random_uuid can return
    Emails,         \* spellings of addresses, as they are typed or sent
    Usernames,
    Passwords,
    GithubIds,
    OktaSubs,
    Quotas,
    None,           \* NULL
    Lower,          \* the lower-case spelling of an email
    Trim,           \* an email without the blanks around it
    GithubLocal,    \* "{login}@github.local", by user name
    OktaLocal,      \* "{sub}@okta.local", by subject
    OktaName,       \* the subject as a user name
    Life,           \* jwt_expiry_hours
    MaxTokens       \* bound: tokens held at once

ASSUME SpellingAssumption ==
    /\ Lower \in [Emails -> Emails] /\ Trim \in [Emails -> Emails]
    /\ \A e \in Emails : Lower[Lower[e]] = Lower[e]
ASSUME ProviderAssumption ==
    /\ GithubLocal \in [Usernames -> Emails]
    /\ OktaLocal \in [OktaSubs -> Emails]
    /\ OktaName \in [OktaSubs -> Usernames]
ASSUME NoneAssumption ==
    None \notin Emails \cup Usernames \cup Passwords \cup GithubIds \cup OktaSubs \cup Quotas
ASSUME LifeAssumption == Life \in Nat \ {0}

VARIABLES
    users,          \* the ids in the table
    row,            \* their rows
    tokens          \* the tokens that have not expired

vars == <<users, row, tokens>>

\* A row of the users table (db/migrations.rs); names and pictures are left out.
Row == [email : Emails, username : Usernames,
        password_hash : Passwords \cup {None},
        github_id : GithubIds \cup {None}, okta_sub : OktaSubs \cup {None},
        is_admin : BOOLEAN, max_gpus : Quotas \cup {None}]

\* The columns a row gets that an INSERT does not name.
Defaults == [email |-> None, username |-> None, password_hash |-> None,
             github_id |-> None, okta_sub |-> None, is_admin |-> FALSE, max_gpus |-> None]

\* The claims a handler relies on, and the hours until they expire. The email and
\* name in a token are only logged.
Token == [user : Ids, admin : BOOLEAN, left : 1..Life]

TypeOK ==
    /\ users \subseteq Ids
    /\ row \in [Ids -> Row \cup {Defaults}]
    /\ \A id \in users : row[id] \in Row
    /\ tokens \subseteq Token
    /\ \A t \in tokens : t.user \in users

Init ==
    /\ users = {}
    /\ row = [id \in Ids |-> Defaults]
    /\ tokens = {}

\* Broken form: the email as it was typed, as before issue #44.
as_typed(e) == Trim[e]

normalize_email(e) == Lower[Trim[e]]
----------------------------------------------------------------------------
(* Statements *)

\* No row of others has this email: the UNIQUE of the column, which compares
\* spellings, not addresses.
EmailFree(email, others) == \A o \in others : row[o].email # email
NameFree(name) == \A o \in users : row[o].username # name

Insert(id, r) ==
    /\ id \in Ids \ users
    /\ EmailFree(r.email, users) /\ NameFree(r.username)
    /\ users' = users \cup {id}
    /\ row' = [row EXCEPT ![id] = r]

create_user(id, email, name, password) ==
    Insert(id, [Defaults EXCEPT !.email = email, !.username = name, !.password_hash = password])

\* The rows LOWER(email) = LOWER($1) selects; fetch_optional returns one of them.
get_user_by_email(email) == {id \in users : Lower[row[id].email] = Lower[email]}

\* Broken form: linked to whatever account has the email.
github_by_email(id, github_id, email, name) ==
    \/ /\ id \in users /\ row[id].email = email
       /\ row' = [row EXCEPT ![id] = [@ EXCEPT !.github_id = github_id]]
       /\ UNCHANGED users
    \/ Insert(id, [Defaults EXCEPT !.github_id = github_id, !.email = email, !.username = name])

\* ON CONFLICT (github_id): the row of this identity is updated, and the insertion
\* or the update fails if it clashes with a row of another.
upsert_github_user(id, github_id, email, name) ==
    \/ /\ id \in users /\ row[id].github_id = github_id
       /\ EmailFree(email, users \ {id})
       /\ row' = [row EXCEPT ![id] = [@ EXCEPT !.email = email]]
       /\ UNCHANGED users
    \/ /\ \A u \in users : row[u].github_id # github_id
       /\ Insert(id, [Defaults EXCEPT !.github_id = github_id, !.email = email,
                                      !.username = name])

\* Broken form: the flag is written to whatever account has the email.
okta_by_email(id, okta_sub, email, name, is_admin) ==
    \/ /\ id \in users /\ row[id].email = email
       /\ row' = [row EXCEPT ![id] = [@ EXCEPT !.is_admin = is_admin]]
       /\ UNCHANGED users
    \/ Insert(id, [Defaults EXCEPT !.okta_sub = okta_sub, !.email = email,
                                   !.username = name, !.is_admin = is_admin])

upsert_okta_user(id, okta_sub, email, name, is_admin) ==
    \/ /\ id \in users /\ row[id].okta_sub = okta_sub
       /\ EmailFree(email, users \ {id})
       /\ row' = [row EXCEPT ![id] = [@ EXCEPT !.email = email, !.is_admin = is_admin]]
       /\ UNCHANGED users
    \/ /\ \A u \in users : row[u].okta_sub # okta_sub
       /\ Insert(id, [Defaults EXCEPT !.okta_sub = okta_sub, !.email = email,
                                      !.username = name, !.is_admin = is_admin])

\* Broken form: WHERE email = $1.
quota_of_spelling(email, quota) ==
    row' = [id \in Ids |->
              IF id \in users /\ row[id].email = email
              THEN [row[id] EXCEPT !.max_gpus = quota] ELSE row[id]]

set_user_gpu_quota_by_email(email, quota) ==
    row' = [id \in Ids |->
              IF id \in get_user_by_email(email)
              THEN [row[id] EXCEPT !.max_gpus = quota] ELSE row[id]]
----------------------------------------------------------------------------
(* Handlers *)

\* Bound: at most MaxTokens are held at once.
Hold(new) == tokens' = tokens \cup new /\ Cardinality(tokens') <= MaxTokens

\* The token of a login carries the row the statement returned.
generate_token(id) == Hold({[user |-> id, admin |-> row'[id].is_admin, left |-> Life]})

Register(email, name, password) ==
    \E id \in Ids :
       /\ create_user(id, normalize_email(email), name, password)
       /\ generate_token(id)

Login(email, password) ==
    /\ UNCHANGED <<users, row>>
    /\ \E id \in get_user_by_email(normalize_email(email)) :
          /\ row[id].password_hash = password
          /\ generate_token(id)

\* verified is the primary verified email of the profile, if there is one.
GithubCallback(github_id, login, verified) ==
    LET email == IF verified = None THEN GithubLocal[login] ELSE verified
    IN \E id \in Ids :
          /\ upsert_github_user(id, github_id, email, login)
          /\ generate_token(id)

\* The claims of the ID token; in_group says that one of its groups is an admin group.
OktaCallback(sub, claimed, preferred, in_group) ==
    LET email == IF claimed = None THEN OktaLocal[sub] ELSE claimed
        name == IF preferred = None THEN OktaName[sub] ELSE preferred
    IN \E id \in Ids :
          /\ upsert_okta_user(id, sub, email, name, in_group)
          /\ generate_token(id)

\* A refresh looks at the token only.
Refresh(t) == Hold({[t EXCEPT !.left = Life]}) /\ UNCHANGED <<users, row>>

\* Broken form: a token is accepted in the hour it expires.
late_hour ==
    /\ tokens' = {[t EXCEPT !.left = @ - 1] : t \in {t \in tokens : t.left > 0}}
    /\ UNCHANGED <<users, row>>

\* verify_token: an hour later, some tokens are no longer accepted.
Hour ==
    /\ tokens' = {[t EXCEPT !.left = @ - 1] : t \in {t \in tokens : t.left > 1}}
    /\ UNCHANGED <<users, row>>

SetUserQuota(t, email, quota) ==
    /\ t.admin
    /\ set_user_gpu_quota_by_email(email, quota)
    /\ UNCHANGED <<users, tokens>>

Next ==
    \/ \E e \in Emails, n \in Usernames, p \in Passwords : Register(e, n, p)
    \/ \E e \in Emails, p \in Passwords : Login(e, p)
    \/ \E g \in GithubIds, n \in Usernames, e \in Emails \cup {None} : GithubCallback(g, n, e)
    \/ \E o \in OktaSubs, e \in Emails \cup {None}, n \in Usernames \cup {None}, a \in BOOLEAN :
          OktaCallback(o, e, n, a)
    \/ \E t \in tokens : Refresh(t)
    \/ \E t \in tokens, e \in Emails, q \in Quotas \cup {None} : SetUserQuota(t, e, q)
    \/ Hour

Spec == Init /\ [][Next]_vars
----------------------------------------------------------------------------
(* Properties *)

\* Of the accounts whose emails spell one address, at most one has a password, and
\* so a login by password can only succeed for the account that was registered:
\* get_user_by_email may return any of them (issue #44, user_repo.rs:33-39).
OnePasswordPerAddress ==
    \A a, b \in users :
       /\ row[a].password_hash # None /\ row[b].password_hash # None
       /\ Lower[row[a].email] = Lower[row[b].email]
       => a = b

\* Administrators, and the tokens that say so, belong to Okta identities, the only
\* ones that come with groups (okta.rs:127-132).
AdminComesFromOkta ==
    /\ \A id \in users : row[id].is_admin => row[id].okta_sub # None
    /\ \A t \in tokens : t.admin => row[t.user].okta_sub # None

\* An identity leads to the same account for good, whatever becomes of its email
\* and whoever else uses it; an account never acquires another identity
\* (user_repo.rs:41-97).
IdentityKeepsItsAccount ==
    [][\A id \in users :
          /\ id \in users'
          /\ row'[id].github_id = row[id].github_id
          /\ row'[id].okta_sub = row[id].okta_sub]_vars

\* A quota set for one spelling of an address holds for every account under that
\* address, and no login changes it (issue #36, user_repo.rs:107-119).
QuotaReachesEverySpelling ==
    [][\A a, b \in users :
          /\ row'[a].max_gpus # row[a].max_gpus
          /\ Lower[row[a].email] = Lower[row[b].email]
          => row'[b].max_gpus = row'[a].max_gpus]_vars

\* Emails are handled without regard to case (routes/auth.rs:226), so that the
\* lookup of a login finds the account registered under that address and no other.
RegistrantIsFound ==
    \A id \in users :
       row[id].password_hash # None => get_user_by_email(row[id].email) = {id}
=============================================================================
