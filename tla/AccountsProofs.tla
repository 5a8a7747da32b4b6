--------------------------- MODULE AccountsProofs ---------------------------
(* The properties of Accounts, for any number of accounts, identities and     *)
(* spellings.                                                                 *)
EXTENDS Accounts, TLAPS

\* What makes OnePasswordPerAddress inductive: emails differ as they are spelled;
\* an account with a password has a lower-case email and no identity of a provider,
\* whose next login would change that email.
EmailsDiffer == \A a, b \in users : row[a].email = row[b].email => a = b
Registered(r) == r.password_hash # None
Sound(r) ==
    /\ Registered(r) => /\ Lower[r.email] = r.email
                        /\ r.github_id = None /\ r.okta_sub = None
    /\ r.is_admin => r.okta_sub # None
RowsSound == \A id \in users : Sound(row[id])
TokensSound == \A t \in tokens : t.admin => row[t.user].okta_sub # None

IInv == TypeOK /\ EmailsDiffer /\ RowsSound /\ TokensSound

----------------------------------------------------------------------------
(* Statements *)

\* What statements do to the table: a row is added, the row of an identity changes
\* its email and its flag, or quotas change.
Adds(id, r) ==
    /\ id \in Ids \ users /\ r \in Row /\ Sound(r)
    /\ \A o \in users : row[o].email # r.email
    /\ users' = users \cup {id}
    /\ row' = [row EXCEPT ![id] = r]
Moves(id, r) ==
    /\ id \in users /\ r \in Row /\ Sound(r)
    /\ \A o \in users \ {id} : row[o].email # r.email
    /\ r.github_id = row[id].github_id /\ r.okta_sub = row[id].okta_sub
    /\ r.max_gpus = row[id].max_gpus
    /\ users' = users
    /\ row' = [row EXCEPT ![id] = r]

LEMMA CreateUserAdds ==
    ASSUME TypeOK, NEW id \in Ids, NEW e \in Emails, NEW n \in Usernames,
           NEW p \in Passwords, create_user(id, normalize_email(e), n, p)
    PROVE  \E r \in Row : Adds(id, r)
<1> DEFINE r == [Defaults EXCEPT !.email = normalize_email(e), !.username = n,
                                 !.password_hash = p]
<1>1. /\ normalize_email(e) \in Emails
      /\ Lower[normalize_email(e)] = normalize_email(e)
  BY SpellingAssumption DEF normalize_email
<1>2. r \in Row /\ r.email = normalize_email(e)
  BY <1>1 DEF Row, Defaults
<1>3. Sound(r)
  BY <1>1 DEF Sound, Registered, Defaults
<1>4. Adds(id, r)
  BY <1>2, <1>3 DEF create_user, Insert, EmailFree, Adds
<1> QED BY <1>2, <1>4

LEMMA GithubUpsertAddsOrMoves ==
    ASSUME IInv, NEW id \in Ids, NEW g \in GithubIds, NEW e \in Emails,
           NEW n \in Usernames, upsert_github_user(id, g, e, n)
    PROVE  \E r \in Row : Adds(id, r) \/ Moves(id, r)
<1>1. CASE id \in users /\ row[id].github_id = g /\ EmailFree(e, users \ {id})
           /\ row' = [row EXCEPT ![id] = [@ EXCEPT !.email = e]] /\ users' = users
  <2> DEFINE r == [row[id] EXCEPT !.email = e]
  <2>1. row[id] \in Row /\ Sound(row[id]) /\ row[id].github_id # None
    BY <1>1, NoneAssumption DEF IInv, TypeOK, RowsSound
  <2>2. r \in Row /\ Sound(r) /\ r.email = e
    BY <2>1 DEF Row, Sound, Registered
  <2>3. row' = [row EXCEPT ![id] = r]
    BY <1>1
  <2>4. /\ r.github_id = row[id].github_id /\ r.okta_sub = row[id].okta_sub
        /\ r.max_gpus = row[id].max_gpus
    BY <2>1 DEF Row
  <2>5. Moves(id, r)
    BY <1>1, <2>2, <2>3, <2>4 DEF EmailFree, Moves
  <2> QED BY <2>2, <2>5
<1>2. CASE Insert(id, [Defaults EXCEPT !.github_id = g, !.email = e, !.username = n])
  <2> DEFINE r == [Defaults EXCEPT !.github_id = g, !.email = e, !.username = n]
  <2>1. r \in Row /\ Sound(r) /\ r.email = e
    BY DEF Row, Defaults, Sound, Registered
  <2>2. Adds(id, r)
    BY <1>2, <2>1 DEF Insert, EmailFree, Adds
  <2> QED BY <2>1, <2>2
<1> QED BY <1>1, <1>2 DEF upsert_github_user

LEMMA OktaUpsertAddsOrMoves ==
    ASSUME IInv, NEW id \in Ids, NEW o \in OktaSubs, NEW e \in Emails,
           NEW n \in Usernames, NEW a \in BOOLEAN, upsert_okta_user(id, o, e, n, a)
    PROVE  \E r \in Row : Adds(id, r) \/ Moves(id, r)
<1>1. CASE id \in users /\ row[id].okta_sub = o /\ EmailFree(e, users \ {id})
           /\ row' = [row EXCEPT ![id] = [@ EXCEPT !.email = e, !.is_admin = a]]
           /\ users' = users
  <2> DEFINE r == [row[id] EXCEPT !.email = e, !.is_admin = a]
  <2>1. row[id] \in Row /\ Sound(row[id]) /\ row[id].okta_sub # None
    BY <1>1, NoneAssumption DEF IInv, TypeOK, RowsSound
  <2>2. r \in Row /\ Sound(r) /\ r.email = e
    BY <2>1 DEF Row, Sound, Registered
  <2>3. row' = [row EXCEPT ![id] = r]
    BY <1>1
  <2>4. /\ r.github_id = row[id].github_id /\ r.okta_sub = row[id].okta_sub
        /\ r.max_gpus = row[id].max_gpus
    BY <2>1 DEF Row
  <2>5. Moves(id, r)
    BY <1>1, <2>2, <2>3, <2>4 DEF EmailFree, Moves
  <2> QED BY <2>2, <2>5
<1>2. CASE Insert(id, [Defaults EXCEPT !.okta_sub = o, !.email = e, !.username = n,
                                       !.is_admin = a])
  <2> DEFINE r == [Defaults EXCEPT !.okta_sub = o, !.email = e, !.username = n,
                                   !.is_admin = a]
  <2>1. r \in Row /\ Sound(r) /\ r.email = e
    BY NoneAssumption DEF Row, Defaults, Sound, Registered
  <2>2. Adds(id, r)
    BY <1>2, <2>1 DEF Insert, EmailFree, Adds
  <2> QED BY <2>1, <2>2
<1> QED BY <1>1, <1>2 DEF upsert_okta_user

\* A callback issues its token for the row its statement returned.
LEMMA CallbackAddsOrMoves ==
    ASSUME IInv,
           \/ \E g \in GithubIds, n \in Usernames, e \in Emails \cup {None} :
                 GithubCallback(g, n, e)
           \/ \E o \in OktaSubs, e \in Emails \cup {None}, n \in Usernames \cup {None},
                 a \in BOOLEAN : OktaCallback(o, e, n, a)
    PROVE  \E id \in Ids, r \in Row : (Adds(id, r) \/ Moves(id, r)) /\ generate_token(id)
<1>1. ASSUME NEW g \in GithubIds, NEW n \in Usernames, NEW e \in Emails \cup {None},
             GithubCallback(g, n, e)
      PROVE  \E id \in Ids, r \in Row : (Adds(id, r) \/ Moves(id, r)) /\ generate_token(id)
  <2> DEFINE email == IF e = None THEN GithubLocal[n] ELSE e
  <2>1. email \in Emails
    BY ProviderAssumption
  <2>2. PICK id \in Ids : upsert_github_user(id, g, email, n) /\ generate_token(id)
    BY <1>1 DEF GithubCallback
  <2>3. \E r \in Row : Adds(id, r) \/ Moves(id, r)
    BY <2>1, <2>2, GithubUpsertAddsOrMoves
  <2> QED BY <2>2, <2>3
<1>2. ASSUME NEW o \in OktaSubs, NEW e \in Emails \cup {None},
             NEW n \in Usernames \cup {None}, NEW a \in BOOLEAN, OktaCallback(o, e, n, a)
      PROVE  \E id \in Ids, r \in Row : (Adds(id, r) \/ Moves(id, r)) /\ generate_token(id)
  <2> DEFINE email == IF e = None THEN OktaLocal[o] ELSE e
             name == IF n = None THEN OktaName[o] ELSE n
  <2>1. email \in Emails /\ name \in Usernames
    BY ProviderAssumption
  <2>2. PICK id \in Ids : upsert_okta_user(id, o, email, name, a) /\ generate_token(id)
    BY <1>2 DEF OktaCallback
  <2>3. \E r \in Row : Adds(id, r) \/ Moves(id, r)
    BY <2>1, <2>2, OktaUpsertAddsOrMoves
  <2> QED BY <2>2, <2>3
<1> QED BY <1>1, <1>2
----------------------------------------------------------------------------
(* The invariant *)

LEMMA AddKeepsIInv ==
    ASSUME IInv, NEW id \in Ids, NEW r \in Row, Adds(id, r), generate_token(id)
    PROVE  IInv'
<1>1. /\ users \subseteq Ids /\ row \in [Ids -> Row \cup {Defaults}]
      /\ tokens \subseteq Token /\ \A t \in tokens : t.user \in users
  BY DEF IInv, TypeOK
<1>2. /\ users' = users \cup {id} /\ id \notin users /\ r \in Row /\ Sound(r)
      /\ row'[id] = r /\ \A o \in users : row'[o] = row[o]
  BY <1>1 DEF Adds
<1>3. r.is_admin \in BOOLEAN
  BY <1>2 DEF Row
<1>4. tokens' = tokens \cup {[user |-> id, admin |-> r.is_admin, left |-> Life]}
  BY <1>2 DEF generate_token, Hold
<1>5. TypeOK'
  <2>1. row' \in [Ids -> Row \cup {Defaults}]
    BY <1>1 DEF Adds
  <2>2. \A o \in users' : row'[o] \in Row
    BY <1>2 DEF IInv, TypeOK
  <2>3. tokens' \subseteq Token
    BY <1>1, <1>3, <1>4, LifeAssumption DEF Token
  <2>4. \A t \in tokens' : t.user \in users'
    BY <1>1, <1>2, <1>4
  <2> QED BY <1>1, <1>2, <2>1, <2>2, <2>3, <2>4 DEF TypeOK
<1>6. EmailsDiffer'
  BY <1>2 DEF IInv, EmailsDiffer, Adds
<1>7. RowsSound'
  BY <1>2 DEF IInv, RowsSound, Sound, Registered
<1>8. TokensSound'
  BY <1>1, <1>2, <1>4 DEF IInv, TokensSound, Sound
<1> QED BY <1>5, <1>6, <1>7, <1>8 DEF IInv

LEMMA MoveKeepsIInv ==
    ASSUME IInv, NEW id \in Ids, NEW r \in Row, Moves(id, r), generate_token(id)
    PROVE  IInv'
<1>1. /\ users \subseteq Ids /\ row \in [Ids -> Row \cup {Defaults}]
      /\ tokens \subseteq Token /\ \A t \in tokens : t.user \in users
  BY DEF IInv, TypeOK
<1>2. /\ users' = users /\ id \in users /\ r \in Row /\ Sound(r)
      /\ row'[id] = r /\ \A o \in users \ {id} : row'[o] = row[o]
  BY <1>1 DEF Moves
<1>3. r.is_admin \in BOOLEAN
  BY <1>2 DEF Row
<1>4. tokens' = tokens \cup {[user |-> id, admin |-> r.is_admin, left |-> Life]}
  BY <1>2 DEF generate_token, Hold
<1>5. TypeOK'
  <2>1. row' \in [Ids -> Row \cup {Defaults}]
    BY <1>1 DEF Moves
  <2>2. \A o \in users' : row'[o] \in Row
    BY <1>2 DEF IInv, TypeOK
  <2>3. tokens' \subseteq Token
    BY <1>1, <1>3, <1>4, LifeAssumption DEF Token
  <2>4. \A t \in tokens' : t.user \in users'
    BY <1>1, <1>2, <1>4
  <2> QED BY <1>1, <1>2, <2>1, <2>2, <2>3, <2>4 DEF TypeOK
<1>6. EmailsDiffer'
  BY <1>2 DEF IInv, EmailsDiffer, Moves
<1>7. RowsSound'
  BY <1>2 DEF IInv, RowsSound, Sound, Registered
<1>8. TokensSound'
  <2>1. \A u \in users : row'[u].okta_sub = row[u].okta_sub
    BY <1>2 DEF Moves
  <2> QED BY <1>1, <1>2, <1>4, <2>1 DEF IInv, TokensSound, Sound
<1> QED BY <1>5, <1>6, <1>7, <1>8 DEF IInv

\* Steps that leave the table alone: their tokens say of an account what one that
\* exists, or its row, says.
LEMMA TokenStepKeepsIInv ==
    ASSUME IInv, UNCHANGED <<users, row>>,
           \A t \in tokens' :
              /\ t \in Token /\ t.user \in users
              /\ t.admin => row[t.user].okta_sub # None
    PROVE  IInv'
<1>1. TypeOK' /\ EmailsDiffer'
  BY DEF IInv, TypeOK, EmailsDiffer
<1>2. RowsSound' /\ TokensSound'
  BY DEF IInv, RowsSound, Sound, Registered, TokensSound
<1> QED BY <1>1, <1>2 DEF IInv

LEMMA QuotaChangesQuotasOnly ==
    ASSUME TypeOK, NEW e, NEW q \in Quotas \cup {None},
           set_user_gpu_quota_by_email(e, q)
    PROVE  /\ row' \in [Ids -> Row \cup {Defaults}]
           /\ \A id \in users :
                 /\ row'[id] \in Row
                 /\ row'[id].email = row[id].email
                 /\ row'[id].password_hash = row[id].password_hash
                 /\ row'[id].github_id = row[id].github_id
                 /\ row'[id].okta_sub = row[id].okta_sub
                 /\ row'[id].is_admin = row[id].is_admin
                 /\ row'[id].max_gpus = IF id \in get_user_by_email(e)
                                        THEN q ELSE row[id].max_gpus
<1> DEFINE new(id) == IF id \in get_user_by_email(e)
                      THEN [row[id] EXCEPT !.max_gpus = q] ELSE row[id]
<1>1. row' = [id \in Ids |-> new(id)]
  BY DEF set_user_gpu_quota_by_email
<1>2. ASSUME NEW id \in users
      PROVE  /\ new(id) \in Row
             /\ new(id).email = row[id].email
             /\ new(id).password_hash = row[id].password_hash
             /\ new(id).github_id = row[id].github_id
             /\ new(id).okta_sub = row[id].okta_sub
             /\ new(id).is_admin = row[id].is_admin
             /\ new(id).max_gpus = IF id \in get_user_by_email(e)
                                   THEN q ELSE row[id].max_gpus
  <2>1. row[id] \in Row
    BY DEF TypeOK
  <2>2. CASE id \in get_user_by_email(e)
    <3>1. new(id) = [row[id] EXCEPT !.max_gpus = q]
      BY <2>2
    <3> HIDE DEF new
    <3> QED BY <2>1, <2>2, <3>1 DEF Row
  <2>3. CASE id \notin get_user_by_email(e)
    <3>1. new(id) = row[id]
      BY <2>3
    <3> HIDE DEF new
    <3> QED BY <2>1, <2>3, <3>1
  <2> QED BY <2>2, <2>3
<1>3. \A id \in Ids \ users : new(id) = row[id]
  BY DEF get_user_by_email
<1>4. \A id \in Ids : new(id) \in Row \cup {Defaults}
  BY <1>2, <1>3 DEF TypeOK
<1>5. \A id \in users : row'[id] = new(id)
  BY <1>1 DEF TypeOK
<1>6. row' \in [Ids -> Row \cup {Defaults}]
  BY <1>1, <1>4
<1> HIDE DEF new
<1> QED BY <1>2, <1>5, <1>6

LEMMA NextKeepsIInv == IInv /\ [Next]_vars => IInv'
<1> SUFFICES ASSUME IInv, [Next]_vars PROVE IInv'
  OBVIOUS
<1>1. /\ users \subseteq Ids /\ row \in [Ids -> Row \cup {Defaults}]
      /\ tokens \subseteq Token /\ \A t \in tokens : t.user \in users
      /\ \A t \in tokens : t.admin => row[t.user].okta_sub # None
  BY DEF IInv, TypeOK, TokensSound
<1>2. ASSUME NEW e \in Emails, NEW n \in Usernames, NEW p \in Passwords, Register(e, n, p)
      PROVE  IInv'
  <2>1. PICK id \in Ids : /\ create_user(id, normalize_email(e), n, p)
                          /\ generate_token(id)
    BY <1>2 DEF Register
  <2>2. \E r \in Row : Adds(id, r)
    BY <2>1, CreateUserAdds DEF IInv
  <2> QED BY <2>1, <2>2, AddKeepsIInv
<1>3. ASSUME NEW e \in Emails, NEW p \in Passwords, Login(e, p) PROVE IInv'
  <2>1. PICK id \in users : generate_token(id)
    BY <1>3 DEF Login, get_user_by_email
  <2>2. UNCHANGED <<users, row>>
    BY <1>3 DEF Login
  <2>3. row[id] \in Row /\ Sound(row[id]) /\ id \in Ids
    BY DEF IInv, TypeOK, RowsSound
  <2>4. row[id].is_admin \in BOOLEAN
    BY <2>3 DEF Row
  <2>5. tokens' = tokens \cup {[user |-> id, admin |-> row[id].is_admin, left |-> Life]}
    BY <2>1, <2>2 DEF generate_token, Hold
  <2>6. \A t \in tokens' : /\ t \in Token /\ t.user \in users
                           /\ t.admin => row[t.user].okta_sub # None
    BY <1>1, <2>3, <2>4, <2>5, LifeAssumption DEF Token, Sound
  <2> QED BY <2>2, <2>6, TokenStepKeepsIInv
<1>4. ASSUME \/ \E g \in GithubIds, n \in Usernames, e \in Emails \cup {None} :
                   GithubCallback(g, n, e)
             \/ \E o \in OktaSubs, e \in Emails \cup {None}, n \in Usernames \cup {None},
                   a \in BOOLEAN : OktaCallback(o, e, n, a)
      PROVE  IInv'
  <2>1. PICK id \in Ids, r \in Row : (Adds(id, r) \/ Moves(id, r)) /\ generate_token(id)
    BY <1>4, CallbackAddsOrMoves
  <2> QED BY <2>1, AddKeepsIInv, MoveKeepsIInv
<1>5. ASSUME NEW t \in tokens, Refresh(t) PROVE IInv'
  <2>1. tokens' = tokens \cup {[t EXCEPT !.left = Life]} /\ UNCHANGED <<users, row>>
    BY <1>5 DEF Refresh, Hold
  <2>2. /\ [t EXCEPT !.left = Life] \in Token
        /\ [t EXCEPT !.left = Life].user = t.user /\ [t EXCEPT !.left = Life].admin = t.admin
    BY <1>1, LifeAssumption DEF Token
  <2>3. \A u \in tokens' : /\ u \in Token /\ u.user \in users
                           /\ u.admin => row[u.user].okta_sub # None
    BY <1>1, <2>1, <2>2
  <2> QED BY <2>1, <2>3, TokenStepKeepsIInv
<1>6. ASSUME Hour PROVE IInv'
  <2>1. UNCHANGED <<users, row>>
    BY <1>6 DEF Hour
  <2>2. ASSUME NEW u \in tokens'
        PROVE  u \in Token /\ u.user \in users /\ (u.admin => row[u.user].okta_sub # None)
    <3>1. PICK t \in tokens : t.left > 1 /\ u = [t EXCEPT !.left = @ - 1]
      BY <1>6, <2>2 DEF Hour
    <3>2. t \in Token
      BY <1>1
    <3>3. u \in Token /\ u.user = t.user /\ u.admin = t.admin
      BY <3>1, <3>2, LifeAssumption DEF Token
    <3> QED BY <1>1, <3>3
  <2> QED BY <2>1, <2>2, TokenStepKeepsIInv
<1>7. ASSUME NEW t \in tokens, NEW e \in Emails, NEW q \in Quotas \cup {None},
             SetUserQuota(t, e, q)
      PROVE  IInv'
  <2>1. set_user_gpu_quota_by_email(e, q) /\ users' = users /\ tokens' = tokens
    BY <1>7 DEF SetUserQuota
  <2>2. /\ row' \in [Ids -> Row \cup {Defaults}]
        /\ \A id \in users :
              /\ row'[id] \in Row
              /\ row'[id].email = row[id].email
              /\ row'[id].password_hash = row[id].password_hash
              /\ row'[id].github_id = row[id].github_id
              /\ row'[id].okta_sub = row[id].okta_sub
              /\ row'[id].is_admin = row[id].is_admin
    BY <2>1, QuotaChangesQuotasOnly DEF IInv
  <2>3. TypeOK'
    BY <1>1, <2>1, <2>2 DEF TypeOK
  <2>4. EmailsDiffer'
    BY <2>1, <2>2 DEF IInv, EmailsDiffer
  <2>5. RowsSound'
    BY <2>1, <2>2 DEF IInv, RowsSound, Sound, Registered
  <2>6. TokensSound'
    BY <1>1, <2>1, <2>2 DEF TokensSound
  <2> QED BY <2>3, <2>4, <2>5, <2>6 DEF IInv
<1>8. CASE UNCHANGED vars
  BY <1>1, <1>8, TokenStepKeepsIInv DEF vars
<1> QED BY <1>2, <1>3, <1>4, <1>5, <1>6, <1>7, <1>8 DEF Next

LEMMA Invariance == Spec => []IInv
<1>1. Init => IInv
  BY DEF Init, IInv, TypeOK, EmailsDiffer, RowsSound, TokensSound
<1> QED BY <1>1, NextKeepsIInv, PTL DEF Spec
----------------------------------------------------------------------------
(* The theorems *)

\* The table holds rows with an email and a name, and tokens name accounts in it.
THEOREM AccountsTyped == Spec => []TypeOK
<1>1. IInv => TypeOK
  BY DEF IInv
<1> QED BY <1>1, Invariance, PTL

\* Whatever the providers say a person's email is, one account at most under an
\* address can be entered by password (user_repo.rs:33-39).
THEOREM OneAccountByPassword == Spec => []OnePasswordPerAddress
<1>1. IInv => OnePasswordPerAddress
  BY DEF IInv, EmailsDiffer, RowsSound, Sound, Registered, OnePasswordPerAddress
<1> QED BY <1>1, Invariance, PTL

\* An administrator's account, and a token that says admin, come from Okta
\* (okta.rs:127-132).
THEOREM AdministratorsComeFromOkta == Spec => []AdminComesFromOkta
<1>1. IInv => AdminComesFromOkta
  BY DEF IInv, RowsSound, Sound, TokensSound, AdminComesFromOkta
<1> QED BY <1>1, Invariance, PTL

\* A GitHub or Okta identity keeps its account, and an account its identity, across
\* changes of its email and logins of others (user_repo.rs:41-97).
THEOREM IdentitiesKeepTheirAccounts == Spec => IdentityKeepsItsAccount
<1> DEFINE Kept == \A id \in users : /\ id \in users'
                                     /\ row'[id].github_id = row[id].github_id
                                     /\ row'[id].okta_sub = row[id].okta_sub
<1>1. ASSUME IInv, NEW id \in Ids, NEW r \in Row, Adds(id, r) \/ Moves(id, r) PROVE Kept
  <2>1. row \in [Ids -> Row \cup {Defaults}] /\ users \subseteq Ids
    BY <1>1 DEF IInv, TypeOK
  <2> QED BY <1>1, <2>1 DEF Adds, Moves
<1>2. ASSUME UNCHANGED <<users, row>> PROVE Kept
  BY <1>2
<1>3. ASSUME IInv, [Next]_vars PROVE Kept
  <2>1. ASSUME NEW e \in Emails, NEW n \in Usernames, NEW p \in Passwords,
               Register(e, n, p)
        PROVE  Kept
    <3>1. PICK id \in Ids : create_user(id, normalize_email(e), n, p)
      BY <2>1 DEF Register
    <3>2. \E r \in Row : Adds(id, r)
      BY <1>3, <3>1, CreateUserAdds DEF IInv
    <3> QED BY <1>1, <1>3, <3>2
  <2>2. ASSUME NEW t \in tokens, NEW e \in Emails, NEW q \in Quotas \cup {None},
               SetUserQuota(t, e, q)
        PROVE  Kept
    <3>1. set_user_gpu_quota_by_email(e, q) /\ users' = users
      BY <2>2 DEF SetUserQuota
    <3> QED BY <1>3, <3>1, QuotaChangesQuotasOnly DEF IInv
  <2>3. CASE \/ \E e \in Emails, p \in Passwords : Login(e, p)
             \/ \E t \in tokens : Refresh(t)
             \/ Hour
             \/ UNCHANGED vars
    BY <1>2, <2>3 DEF Login, Refresh, Hour, vars
  <2>4. CASE \/ \E g \in GithubIds, n \in Usernames, e \in Emails \cup {None} :
                   GithubCallback(g, n, e)
             \/ \E o \in OktaSubs, e \in Emails \cup {None}, n \in Usernames \cup {None},
                   a \in BOOLEAN : OktaCallback(o, e, n, a)
    <3>1. PICK id \in Ids, r \in Row : (Adds(id, r) \/ Moves(id, r)) /\ generate_token(id)
      BY <1>3, <2>4, CallbackAddsOrMoves
    <3> QED BY <1>1, <1>3, <3>1
  <2> QED BY <1>3, <2>1, <2>2, <2>3, <2>4 DEF Next
<1>4. IInv /\ [Next]_vars => [Kept]_vars
  BY <1>3
<1> QED BY <1>4, Invariance, PTL DEF Spec, IdentityKeepsItsAccount

\* A quota set for an address is the quota of every account under it, however its
\* email is spelled (issue #36, user_repo.rs:107-119).
THEOREM QuotasReachEverySpelling == Spec => QuotaReachesEverySpelling
<1> DEFINE Reached == \A a, b \in users :
                         /\ row'[a].max_gpus # row[a].max_gpus
                         /\ Lower[row[a].email] = Lower[row[b].email]
                         => row'[b].max_gpus = row'[a].max_gpus
<1>1. ASSUME \A a \in users : row'[a].max_gpus = row[a].max_gpus PROVE Reached
  BY <1>1
<1>2. ASSUME IInv, NEW id \in Ids, NEW r \in Row, Adds(id, r) \/ Moves(id, r) PROVE Reached
  <2>1. row \in [Ids -> Row \cup {Defaults}] /\ users \subseteq Ids
    BY <1>2 DEF IInv, TypeOK
  <2>2. \A a \in users : row'[a].max_gpus = row[a].max_gpus
    BY <1>2, <2>1 DEF Adds, Moves
  <2> QED BY <1>1, <2>2
<1>3. ASSUME IInv, [Next]_vars PROVE Reached
  <2>1. ASSUME NEW e \in Emails, NEW n \in Usernames, NEW p \in Passwords,
               Register(e, n, p)
        PROVE  Reached
    <3>1. PICK id \in Ids : create_user(id, normalize_email(e), n, p)
      BY <2>1 DEF Register
    <3>2. \E r \in Row : Adds(id, r)
      BY <1>3, <3>1, CreateUserAdds DEF IInv
    <3> QED BY <1>2, <1>3, <3>2
  <2>2. ASSUME NEW t \in tokens, NEW e \in Emails, NEW q \in Quotas \cup {None},
               SetUserQuota(t, e, q)
        PROVE  Reached
    <3>1. \A a \in users : row'[a].max_gpus = IF a \in get_user_by_email(e)
                                              THEN q ELSE row[a].max_gpus
      BY <1>3, <2>2, QuotaChangesQuotasOnly DEF IInv, SetUserQuota
    <3>2. \A a, b \in users :
             Lower[row[a].email] = Lower[row[b].email] =>
                (a \in get_user_by_email(e) <=> b \in get_user_by_email(e))
      BY DEF get_user_by_email
    <3> QED BY <3>1, <3>2
  <2>3. CASE \/ \E e \in Emails, p \in Passwords : Login(e, p)
             \/ \E t \in tokens : Refresh(t)
             \/ Hour
             \/ UNCHANGED vars
    BY <1>1, <2>3 DEF Login, Refresh, Hour, vars
  <2>4. CASE \/ \E g \in GithubIds, n \in Usernames, e \in Emails \cup {None} :
                   GithubCallback(g, n, e)
             \/ \E o \in OktaSubs, e \in Emails \cup {None}, n \in Usernames \cup {None},
                   a \in BOOLEAN : OktaCallback(o, e, n, a)
    <3>1. PICK id \in Ids, r \in Row : (Adds(id, r) \/ Moves(id, r)) /\ generate_token(id)
      BY <1>3, <2>4, CallbackAddsOrMoves
    <3> QED BY <1>2, <1>3, <3>1
  <2> QED BY <1>3, <2>1, <2>2, <2>3, <2>4 DEF Next
<1>4. IInv /\ [Next]_vars => [Reached]_vars
  BY <1>3
<1> QED BY <1>4, Invariance, PTL DEF Spec, QuotaReachesEverySpelling
=============================================================================
