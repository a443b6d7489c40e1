------------------------------ MODULE UsersProofs -----------------------------
(***************************************************************************)
(* Logins, sessions and memberships for any databases, names and           *)
(* spellings, and any history of calls, logins and commits.                *)
(***************************************************************************)
EXTENDS Users, TLAPS

LEMMA UsersTypeInit == Init => TypeOK
<1> SUFFICES ASSUME Init PROVE TypeOK
    OBVIOUS
<1> USE DEF Init
<1>1. kind \in [Databases -> {"none", "local", "ldap"}]
      OBVIOUS
<1>2. account \in [Databases -> [Names -> Account \cup {NoAccount}]]
      OBVIOUS
<1>3. login \in [Spellings -> Passwords \cup {NoPassword}]
      OBVIOUS
<1>4. /\ group \in [Databases -> SUBSET Spellings]
      /\ owner \in [Spellings -> Databases \cup {NoOne}]
      OBVIOUS
<1>5. inForce \subseteq Spellings /\ tokens \subseteq Spellings /\ pending \in BOOLEAN
      OBVIOUS
<1> QED BY <1>1, <1>2, <1>3, <1>4, <1>5 DEF TypeOK

(* Changing one account changes no other, and keeps the types.               *)
LEMMA OneAccount ==
    ASSUME TypeOK, NEW db \in Databases, NEW n \in Names,
           NEW rec \in Account \cup {NoAccount},
           account' = [account EXCEPT ![db][n] = rec]
    PROVE  /\ account' \in [Databases -> [Names -> Account \cup {NoAccount}]]
           /\ account'[db][n] = rec
           /\ \A d \in Databases, m \in Names :
                 d # db \/ m # n => account'[d][m] = account[d][m]
<1>1. account \in [Databases -> [Names -> Account \cup {NoAccount}]]
      BY DEF TypeOK
<1>2. [account[db] EXCEPT ![n] = rec] \in [Names -> Account \cup {NoAccount}]
      BY <1>1
<1>3. account' = [account EXCEPT ![db] = [account[db] EXCEPT ![n] = rec]]
      OBVIOUS
<1> QED BY <1>1, <1>2, <1>3

(* A database that is dropped has no accounts; the others keep theirs.       *)
LEMMA NoAccounts ==
    ASSUME TypeOK, NEW db \in Databases, Drop(db)
    PROVE  /\ account' \in [Databases -> [Names -> Account \cup {NoAccount}]]
           /\ \A n \in Names : account'[db][n] = NoAccount
           /\ \A d \in Databases \ {db} : account'[d] = account[d]
BY DEF Drop, TypeOK

(* The account that a call means is a record.                                *)
LEMMA MeantType ==
    ASSUME TypeOK, NEW db \in Databases, NEW s \in Spellings, Found(s, db)
    PROVE  /\ Fold[s] \in Names /\ Meant(s, db) \in Account
           /\ account[db][Fold[s]] = Meant(s, db)
BY FoldAssumption DEF Found, Meant, Accounts, TypeOK

LEMMA KeptType ==
    ASSUME TypeOK, NEW s \in Spellings, NEW db \in Databases, NEW changed,
           NEW t \in Spellings
    PROVE  Kept(t, s, db, changed) \in Databases \cup {NoOne}
<1>1. Kept(t, s, db, changed) \in {NoOne, owner[t]}
      BY Zenon DEF Kept
<1> QED BY <1>1 DEF TypeOK

LEMMA UsersTypeStep ==
    ASSUME TypeOK, [Next]_vars
    PROVE  TypeOK'
<1> USE DEF SameLogins, SameSessions
<1>1. ASSUME NEW db \in Databases, AddLocalDatabase(db) \/ AddLdapDatabase(db)
      PROVE  TypeOK'
      BY <1>1 DEF AddLocalDatabase, AddLdapDatabase, AddDatabase, TypeOK
<1>2. ASSUME NEW db \in Databases, DeleteLocalDatabase(db) \/ DeleteLdapDatabase(db)
      PROVE  TypeOK'
  <2>1. Drop(db)
        BY <1>2 DEF DeleteLocalDatabase, DeleteLdapDatabase
  <2>2. /\ kind' \in [Databases -> {"none", "local", "ldap"}]
        /\ group' \in [Databases -> SUBSET Spellings]
        BY <2>1 DEF Drop, TypeOK
  <2>3. owner' \in [Spellings -> Databases \cup {NoOne}]
        BY <1>2 DEF DeleteLocalDatabase, DeleteLdapDatabase, TypeOK
  <2>4. UNCHANGED <<login, pending, inForce, tokens>>
        BY <1>2 DEF DeleteLocalDatabase, DeleteLdapDatabase, Drop
  <2> QED BY <2>1, <2>2, <2>3, <2>4, NoAccounts DEF TypeOK
<1>3. ASSUME NEW db \in Databases, NEW members \in SUBSET Spellings, SaveGroup(db, members)
      PROVE  TypeOK'
      BY <1>3 DEF SaveGroup, TypeOK
<1>4. ASSUME NEW db \in Databases, NEW s \in Spellings,
             NEW pw \in Passwords \cup {NoPassword}, AddUser(s, db, pw)
      PROVE  TypeOK'
  <2>1. Fold[s] \in Names /\ [as |-> s, pw |-> pw] \in Account
        BY FoldAssumption DEF Account
  <2>2. account' \in [Databases -> [Names -> Account \cup {NoAccount}]]
        BY <1>4, <2>1, OneAccount DEF AddUser, SaveAccount
  <2> QED BY <1>4, <2>2 DEF AddUser, SaveAccount, TypeOK
<1>5. ASSUME NEW db \in Databases, NEW s \in Spellings, NEW pw \in Passwords,
             EditUser(s, db, pw)
      PROVE  TypeOK'
  <2>1. Fold[s] \in Names /\ [Meant(s, db) EXCEPT !.pw = pw] \in Account
        BY <1>5, MeantType DEF EditUser, Account
  <2>2. account' \in [Databases -> [Names -> Account \cup {NoAccount}]]
        BY <1>5, <2>1, OneAccount DEF EditUser, SaveAccount
  <2>3. owner' \in [Spellings -> Databases \cup {NoOne}]
    <3>1. \A t \in Spellings : Kept(t, s, db, IsAdmin(s)) \in Databases \cup {NoOne}
          BY KeptType
    <3> QED BY <1>5, <3>1 DEF EditUser
  <2>4. login' \in [Spellings -> Passwords \cup {NoPassword}] /\ pending' \in BOOLEAN
        BY <1>5 DEF EditUser, SetLogin, TypeOK
  <2> QED BY <1>5, <2>2, <2>3, <2>4 DEF EditUser, SaveAccount, TypeOK
<1>6. ASSUME NEW db \in Databases, NEW s \in Spellings, NEW pw \in Passwords,
             EditUserRaises(s, db, pw)
      PROVE  TypeOK'
      BY <1>6 DEF EditUserRaises, SetLogin, TypeOK
<1>7. ASSUME NEW db \in Databases, NEW s \in Spellings, DeleteUser(s, db)
      PROVE  TypeOK'
  <2>1. account' \in [Databases -> [Names -> Account \cup {NoAccount}]]
        BY <1>7, MeantType, OneAccount DEF DeleteUser, Remove
  <2>2. owner' \in [Spellings -> Databases \cup {NoOne}]
    <3>1. \A t \in Spellings : Kept(t, s, db, FALSE) \in Databases \cup {NoOne}
          BY KeptType
    <3> QED BY <1>7, <3>1 DEF DeleteUser
  <2>3. login' \in [Spellings -> Passwords \cup {NoPassword}] /\ pending' \in BOOLEAN
        BY <1>7 DEF DeleteUser, SetLogin, TypeOK
  <2>4. group' \in [Databases -> SUBSET Spellings]
        BY <1>7 DEF DeleteUser, TypeOK
  <2> QED BY <1>7, <2>1, <2>2, <2>3, <2>4 DEF DeleteUser, Remove, TypeOK
<1>8. ASSUME NEW db \in Databases, NEW s \in Spellings, DeleteRemoteUser(s, db)
      PROVE  TypeOK'
  <2>1. account' \in [Databases -> [Names -> Account \cup {NoAccount}]]
        BY <1>8, MeantType, OneAccount DEF DeleteRemoteUser, Remove
  <2> QED BY <1>8, <2>1 DEF DeleteRemoteUser, Remove, TypeOK
<1>9. ASSUME NEW db \in Databases, NEW s \in Spellings, SetAdmin(s, db)
      PROVE  TypeOK'
  <2>1. Meant(s, db).pw \in Passwords
        BY <1>9, MeantType DEF SetAdmin, Account
  <2> QED BY <1>9, <2>1 DEF SetAdmin, SetLogin, TypeOK
<1>10. ASSUME NEW s \in Spellings, RemoveAdmin(s) \/ SignIn(s)
       PROVE  TypeOK'
       BY <1>10 DEF RemoveAdmin, SetLogin, SignIn, TypeOK
<1>11. CASE Commit
       BY <1>11 DEF Commit, Purged, TypeOK
<1>12. CASE UNCHANGED vars
       BY <1>12 DEF vars, TypeOK
<1> QED BY <1>1, <1>2, <1>3, <1>4, <1>5, <1>6, <1>7, <1>8, <1>9, <1>10, <1>11, <1>12 DEF Next

(* Accounts, logins, sessions and memberships keep their types.              *)
THEOREM UsersTypeCorrect == Spec => []TypeOK
BY UsersTypeInit, UsersTypeStep, PTL DEF Spec

-----------------------------------------------------------------------------
(* clear-user-tokens: at any moment nobody has a session without a login that *)
(* is in force, so a demotion or deletion that is committed ends the session.*)
THEOREM UsersTokens == Spec => []TokensOfAdmins
<1>1. Init => TokensOfAdmins
      BY DEF Init, TokensOfAdmins
<1>2. ASSUME TypeOK, TokensOfAdmins, [Next]_vars
      PROVE  TokensOfAdmins'
  <2>1. CASE UNCHANGED <<inForce, tokens>>
        BY <1>2, <2>1 DEF TokensOfAdmins
  <2>2. ASSUME NEW s \in Spellings, SignIn(s)
        PROVE  TokensOfAdmins'
        BY <1>2, <2>2 DEF SignIn, TokensOfAdmins
  <2>3. CASE Commit
        BY <1>2, <2>3 DEF Commit, Purged, TokensOfAdmins, TypeOK
  <2> USE DEF SameSessions
  <2>4. ASSUME NEW db \in Databases,
               \/ AddLocalDatabase(db) \/ AddLdapDatabase(db)
               \/ DeleteLocalDatabase(db) \/ DeleteLdapDatabase(db)
               \/ \E members \in SUBSET Spellings : SaveGroup(db, members)
        PROVE  UNCHANGED <<inForce, tokens>>
        BY <2>4 DEF AddLocalDatabase, AddLdapDatabase, AddDatabase, DeleteLocalDatabase,
                    DeleteLdapDatabase, Drop, SaveGroup
  <2>5. ASSUME NEW db \in Databases, NEW s \in Spellings,
               \/ \E pw \in Passwords \cup {NoPassword} : AddUser(s, db, pw)
               \/ \E pw \in Passwords : EditUser(s, db, pw) \/ EditUserRaises(s, db, pw)
               \/ DeleteUser(s, db) \/ DeleteRemoteUser(s, db) \/ SetAdmin(s, db)
        PROVE  UNCHANGED <<inForce, tokens>>
        BY <2>5 DEF AddUser, SaveAccount, EditUser, EditUserRaises, DeleteUser,
                    DeleteRemoteUser, Remove, SetAdmin
  <2>6. ASSUME NEW s \in Spellings, RemoveAdmin(s)
        PROVE  UNCHANGED <<inForce, tokens>>
        BY <2>6 DEF RemoveAdmin
  <2>7. UNCHANGED vars => UNCHANGED <<inForce, tokens>>
        BY DEF vars
  <2> QED BY <1>2, <2>1, <2>2, <2>3, <2>4, <2>5, <2>6, <2>7 DEF Next
<1> QED BY <1>1, <1>2, UsersTypeCorrect, PTL DEF Spec

-----------------------------------------------------------------------------
(* An account is filed under the name that its spelling spells.              *)
FiledByName ==
    \A db \in Databases, n \in Names :
        account[db][n] # NoAccount => Fold[account[db][n].as] = n

LEMMA FiledStep ==
    ASSUME TypeOK, FiledByName, [Next]_vars
    PROVE  FiledByName'
<1> USE DEF FiledByName, SameLogins, SameSessions
<1>1. CASE UNCHANGED account
      BY <1>1
<1>2. ASSUME NEW db \in Databases, Drop(db)
      PROVE  FiledByName'
      BY <1>2, NoAccounts
<1>3. ASSUME NEW db \in Databases, NEW n \in Names, NEW rec \in Account \cup {NoAccount},
             account' = [account EXCEPT ![db][n] = rec],
             rec # NoAccount => Fold[rec.as] = n
      PROVE  FiledByName'
      BY <1>3, OneAccount
<1>4. ASSUME NEW db \in Databases, NEW s \in Spellings,
             NEW pw \in Passwords \cup {NoPassword}, AddUser(s, db, pw)
      PROVE  FiledByName'
      BY <1>4, <1>3, FoldAssumption DEF AddUser, SaveAccount, Account
<1>5. ASSUME NEW db \in Databases, NEW s \in Spellings, NEW pw \in Passwords,
             EditUser(s, db, pw)
      PROVE  FiledByName'
  <2>1. /\ [Meant(s, db) EXCEPT !.pw = pw] \in Account
        /\ [Meant(s, db) EXCEPT !.pw = pw].as = account[db][Fold[s]].as
        /\ account[db][Fold[s]] # NoAccount /\ Fold[s] \in Names
        BY <1>5, MeantType, NoAccountAssumption DEF EditUser, Account
  <2> QED BY <1>5, <2>1, <1>3 DEF EditUser, SaveAccount
<1>6. ASSUME NEW db \in Databases, NEW s \in Spellings,
             DeleteUser(s, db) \/ DeleteRemoteUser(s, db)
      PROVE  FiledByName'
      BY <1>6, <1>3, FoldAssumption DEF DeleteUser, DeleteRemoteUser, Remove
<1> QED BY <1>1, <1>2, <1>4, <1>5, <1>6
        DEF Next, vars, AddLocalDatabase, AddLdapDatabase, AddDatabase, DeleteLocalDatabase,
            DeleteLdapDatabase, SaveGroup, EditUserRaises, SetAdmin, RemoveAdmin, SignIn, Commit

(* An account that goes leaves its group, unless the call wrote the name      *)
(* differently or the group's database is a remote one.                      *)
THEOREM UsersMembership == Spec => MembershipEnds
<1>1. Init => FiledByName
      BY DEF Init, FiledByName
<1>2. ASSUME TypeOK, FiledByName, [Next]_vars
      PROVE  [\A db \in Databases, n \in Names :
                 \/ n \notin Accounts(db) \/ n \in Accounts(db)'
                 \/ account[db][n].as \notin group[db]'
                 \/ \E s \in Spellings : s # account[db][n].as /\ DeleteUser(s, db)
                 \/ DeleteRemoteUser(account[db][n].as, db)]_vars
  <2> SUFFICES ASSUME NEW db \in Databases, NEW n \in Names, Next,
                      n \in Accounts(db), n \notin Accounts(db)'
               PROVE  \/ account[db][n].as \notin group[db]'
                      \/ \E s \in Spellings : s # account[db][n].as /\ DeleteUser(s, db)
                      \/ DeleteRemoteUser(account[db][n].as, db)
      BY <1>2
  <2>1. account[db][n] # NoAccount /\ account'[db][n] = NoAccount
        BY DEF Accounts
  <2>2. account[db][n].as \in Spellings /\ Fold[account[db][n].as] = n
        BY <1>2, <2>1 DEF TypeOK, Account, FiledByName
  <2>3. CASE UNCHANGED account
        BY <2>1, <2>3
  <2>4. ASSUME NEW d \in Databases, Drop(d)
        PROVE  account[db][n].as \notin group[db]'
    <3>1. d = db
          BY <1>2, <2>1, <2>4, NoAccounts
    <3> QED BY <1>2, <2>4, <3>1 DEF Drop, TypeOK
  <2>5. ASSUME NEW d \in Databases, NEW m \in Names, NEW rec \in Account,
               account' = [account EXCEPT ![d][m] = rec]
        PROVE  FALSE
    <3>1. account'[d][m] # NoAccount
          BY <1>2, <2>5, OneAccount, NoAccountAssumption
    <3> QED BY <1>2, <2>1, <2>5, <3>1, OneAccount
  <2>6. ASSUME NEW d \in Databases, NEW s \in Spellings,
               NEW pw \in Passwords \cup {NoPassword}, AddUser(s, d, pw)
        PROVE  FALSE
    <3>1. Fold[s] \in Names /\ [as |-> s, pw |-> pw] \in Account
          BY FoldAssumption DEF Account
    <3> QED BY <2>5, <2>6, <3>1 DEF AddUser, SaveAccount
  <2>7. ASSUME NEW d \in Databases, NEW s \in Spellings, NEW pw \in Passwords,
               EditUser(s, d, pw)
        PROVE  FALSE
    <3>1. Fold[s] \in Names /\ [Meant(s, d) EXCEPT !.pw = pw] \in Account
          BY <1>2, <2>7, MeantType DEF EditUser, Account
    <3> QED BY <2>5, <2>7, <3>1 DEF EditUser, SaveAccount
  <2>8. ASSUME NEW d \in Databases, NEW s \in Spellings, Remove(s, d)
        PROVE  d = db /\ Fold[s] = n
        BY <1>2, <2>1, <2>8, OneAccount, FoldAssumption DEF Remove
  <2>9. ASSUME NEW d \in Databases, NEW s \in Spellings, DeleteUser(s, d)
        PROVE  \/ account[db][n].as \notin group[db]'
               \/ \E t \in Spellings : t # account[db][n].as /\ DeleteUser(t, db)
    <3>1. d = db
          BY <2>8, <2>9 DEF DeleteUser
    <3>2. group'[db] = group[db] \ {s}
          BY <1>2, <2>9, <3>1 DEF DeleteUser, TypeOK
    <3> QED BY <2>9, <3>1, <3>2
  <2>10. ASSUME NEW d \in Databases, NEW s \in Spellings, DeleteRemoteUser(s, d)
         PROVE  DeleteRemoteUser(account[db][n].as, db)
    <3>1. d = db /\ Fold[s] = Fold[account[db][n].as]
          BY <2>2, <2>8, <2>10 DEF DeleteRemoteUser
    <3> QED BY <2>10, <3>1 DEF DeleteRemoteUser, Found, Remove
  <2> QED BY <2>3, <2>4, <2>6, <2>7, <2>9, <2>10
          DEF Next, AddLocalDatabase, AddLdapDatabase, AddDatabase, DeleteLocalDatabase,
              DeleteLdapDatabase, SaveGroup, EditUserRaises, SetAdmin, RemoveAdmin, SignIn, Commit
<1> QED BY <1>1, <1>2, FiledStep, UsersTypeCorrect, PTL DEF Spec, MembershipEnds

-----------------------------------------------------------------------------
(* A database that is not there has no accounts, and those of a remote one    *)
(* have no password, so none of them can be made an administrator.           *)
RemoteWithout ==
    \A db \in Databases, n \in Names :
        account[db][n] # NoAccount =>
            /\ kind[db] # "none"
            /\ kind[db] = "ldap" => account[db][n].pw = NoPassword

LEMMA RemoteStep ==
    ASSUME TypeOK, RemoteWithout, [Next]_vars
    PROVE  RemoteWithout'
<1> USE DEF RemoteWithout, SameLogins, SameSessions
<1>1. CASE UNCHANGED <<account, kind>>
      BY <1>1
<1>2. ASSUME NEW db \in Databases, AddLocalDatabase(db) \/ AddLdapDatabase(db)
      PROVE  RemoteWithout'
      BY <1>2 DEF AddLocalDatabase, AddLdapDatabase, AddDatabase, TypeOK
<1>3. ASSUME NEW db \in Databases, Drop(db)
      PROVE  RemoteWithout'
      BY <1>3, NoAccounts DEF Drop, TypeOK
<1>4. ASSUME NEW db \in Databases, NEW n \in Names, NEW rec \in Account \cup {NoAccount},
             account' = [account EXCEPT ![db][n] = rec], UNCHANGED kind,
             rec # NoAccount => /\ kind[db] # "none"
                                /\ kind[db] = "ldap" => rec.pw = NoPassword
      PROVE  RemoteWithout'
      BY <1>4, OneAccount
<1>5. ASSUME NEW db \in Databases, NEW s \in Spellings,
             NEW pw \in Passwords \cup {NoPassword}, AddUser(s, db, pw)
      PROVE  RemoteWithout'
  <2>1. Fold[s] \in Names /\ [as |-> s, pw |-> pw] \in Account
        BY FoldAssumption DEF Account
  <2>2. kind[db] # "none" /\ (kind[db] = "ldap" => pw = NoPassword)
        BY <1>5 DEF AddUser
  <2> QED BY <1>5, <2>1, <2>2, <1>4 DEF AddUser, SaveAccount
<1>6. ASSUME NEW db \in Databases, NEW s \in Spellings, NEW pw \in Passwords,
             EditUser(s, db, pw)
      PROVE  RemoteWithout'
  <2>1. Fold[s] \in Names /\ [Meant(s, db) EXCEPT !.pw = pw] \in Account
        BY <1>6, MeantType DEF EditUser, Account
  <2> QED BY <1>6, <2>1, <1>4 DEF EditUser, SaveAccount
<1>7. ASSUME NEW db \in Databases, NEW s \in Spellings,
             DeleteUser(s, db) \/ DeleteRemoteUser(s, db)
      PROVE  RemoteWithout'
      BY <1>7, <1>4, FoldAssumption DEF DeleteUser, DeleteRemoteUser, Remove
<1> QED BY <1>1, <1>2, <1>3, <1>5, <1>6, <1>7
        DEF Next, vars, DeleteLocalDatabase, DeleteLdapDatabase, SaveGroup, EditUserRaises,
            SetAdmin, RemoveAdmin, SignIn, Commit

(* The login s is kept with the account it was made of.                      *)
Owned(s) ==
    owner[s] # NoOne =>
        /\ IsAdmin(s)
        /\ Found(s, owner[s])
        /\ Meant(s, owner[s]) = [as |-> s, pw |-> login[s]]

(* A login whose account nobody touches stays with it.                       *)
LEMMA OwnedKept ==
    ASSUME TypeOK, NEW s \in Spellings, Owned(s),
           owner'[s] = NoOne \/ (owner'[s] = owner[s] /\ login'[s] = login[s]),
           owner'[s] # NoOne => account'[owner[s]][Fold[s]] = account[owner[s]][Fold[s]]
    PROVE  Owned(s)'
<1> SUFFICES ASSUME owner'[s] # NoOne PROVE Owned(s)'
    BY DEF Owned
<1>1. owner'[s] = owner[s] /\ login'[s] = login[s]
      OBVIOUS
<1>2. account'[owner[s]][Fold[s]] = account[owner[s]][Fold[s]]
      OBVIOUS
<1> QED BY <1>1, <1>2 DEF Owned, IsAdmin, Found, Meant, Accounts

LEMMA OwnedStep ==
    ASSUME TypeOK, RemoteWithout, LoginsOwned, [Next]_vars
    PROVE  LoginsOwned'
<1> USE DEF SameLogins, SameSessions
<1> SUFFICES ASSUME NEW t \in Spellings PROVE Owned(t)'
    BY DEF LoginsOwned, Owned
<1>0. Owned(t)
      BY DEF LoginsOwned, Owned
<1>1. CASE UNCHANGED <<account, login, owner>>
      BY <1>0, <1>1, OwnedKept
<1>2. owner[t] # NoOne =>
          /\ owner[t] \in Databases /\ Fold[t] \in Names
          /\ account[owner[t]][Fold[t]] # NoAccount
          /\ account[owner[t]][Fold[t]] = [as |-> t, pw |-> login[t]]
          /\ login[t] # NoPassword
      BY <1>0, FoldAssumption DEF Owned, Found, Accounts, Meant, IsAdmin, TypeOK
<1>3. owner[t] # NoOne => kind[owner[t]] = "local"
      BY <1>2 DEF RemoteWithout, TypeOK
<1>4. ASSUME NEW db \in Databases, DeleteLocalDatabase(db)
      PROVE  Owned(t)'
  <2>1. owner'[t] = NoOne \/ (owner'[t] = owner[t] /\ owner[t] # db)
        BY <1>4 DEF DeleteLocalDatabase
  <2>2. owner[t] \in Databases \ {db} => account'[owner[t]] = account[owner[t]]
        BY <1>4, NoAccounts DEF DeleteLocalDatabase
  <2> QED BY <1>0, <1>2, <1>4, <2>1, <2>2, OwnedKept DEF DeleteLocalDatabase
<1>5. ASSUME NEW db \in Databases, DeleteLdapDatabase(db)
      PROVE  Owned(t)'
  <2>1. owner'[t] = owner[t] /\ login'[t] = login[t]
        BY <1>5 DEF DeleteLdapDatabase
  <2>2. owner[t] # NoOne => account'[owner[t]] = account[owner[t]]
        BY <1>2, <1>3, <1>5, NoAccounts DEF DeleteLdapDatabase
  <2> QED BY <1>0, <2>1, <2>2, OwnedKept
<1>6. ASSUME NEW db \in Databases, NEW s \in Spellings,
             NEW pw \in Passwords \cup {NoPassword}, AddUser(s, db, pw)
      PROVE  Owned(t)'
  <2>1. Fold[s] \in Names /\ [as |-> s, pw |-> pw] \in Account
        BY FoldAssumption DEF Account
  <2>2. account[db][Fold[s]] = NoAccount
        BY <1>6, <2>1 DEF AddUser, Found, Accounts
  <2>3. owner[t] # NoOne => account'[owner[t]][Fold[t]] = account[owner[t]][Fold[t]]
        BY <1>2, <1>6, <2>1, <2>2, OneAccount DEF AddUser, SaveAccount
  <2> QED BY <1>0, <1>6, <2>3, OwnedKept DEF AddUser
<1>7. ASSUME NEW db \in Databases, NEW s \in Spellings, NEW pw \in Passwords,
             EditUser(s, db, pw)
      PROVE  Owned(t)'
  <2> SUFFICES ASSUME owner'[t] # NoOne PROVE Owned(t)'
      BY DEF Owned
  <2>1. owner'[t] = Kept(t, s, db, IsAdmin(s))
        BY <1>7 DEF EditUser
  <2>2. owner'[t] = owner[t] /\ ~(owner[t] = db /\ t = Meant(s, db).as /\ t # s)
        BY <2>1 DEF Kept
  <2>3. IsAdmin(s) /\ t = s => owner[t] = db /\ Meant(s, db).as = s
        BY <2>1 DEF Kept
  <2>4. Fold[s] \in Names /\ Meant(s, db) \in Account /\ [Meant(s, db) EXCEPT !.pw = pw] \in Account
        BY <1>7, MeantType DEF EditUser, Account
  <2>5. /\ account'[db][Fold[s]] = [Meant(s, db) EXCEPT !.pw = pw]
        /\ \A d \in Databases, m \in Names :
              d # db \/ m # Fold[s] => account'[d][m] = account[d][m]
    <3>1. PICK rec \in Account : rec = [Meant(s, db) EXCEPT !.pw = pw]
          BY <2>4
    <3>2. account' = [account EXCEPT ![db][Fold[s]] = rec]
          BY <1>7, <3>1 DEF EditUser, SaveAccount
    <3>3. account'[db][Fold[s]] = rec
          BY <2>4, <3>2, OneAccount
    <3>4. \A d \in Databases, m \in Names :
              d # db \/ m # Fold[s] => account'[d][m] = account[d][m]
          BY <2>4, <3>2, OneAccount
    <3> QED BY <3>1, <3>3, <3>4
  <2>6. CASE t = s
    <3>1. IsAdmin(s)
          BY <1>0, <2>2, <2>6 DEF Owned
    <3>2. login'[s] = pw /\ pw # NoPassword
          BY <1>7, <3>1, DistinctAssumption DEF EditUser, SetLogin, TypeOK
    <3>3. [Meant(s, db) EXCEPT !.pw = pw] = [as |-> s, pw |-> pw]
          BY <2>3, <2>4, <2>6, <3>1 DEF Account
    <3>4. [as |-> s, pw |-> pw] \in Account
          BY DEF Account
    <3> QED BY <2>2, <2>3, <2>4, <2>5, <2>6, <3>1, <3>2, <3>3, <3>4, NoAccountAssumption
            DEF Owned, IsAdmin, Found, Meant, Accounts
  <2>7. CASE t # s
    <3>1. login'[t] = login[t]
          BY <1>7, <2>7 DEF EditUser, SetLogin, TypeOK
    <3>2. owner[t] = db => Fold[t] # Fold[s]
          BY <1>2, <2>2, <2>7 DEF Meant
    <3>3. account'[owner[t]][Fold[t]] = account[owner[t]][Fold[t]]
          BY <1>2, <2>2, <2>5, <3>2
    <3> QED BY <1>0, <2>2, <3>1, <3>3, OwnedKept
  <2> QED BY <2>6, <2>7
<1>8. ASSUME NEW db \in Databases, NEW s \in Spellings, DeleteUser(s, db)
      PROVE  Owned(t)'
  <2> SUFFICES ASSUME owner'[t] # NoOne PROVE Owned(t)'
      BY DEF Owned
  <2>1. ~(IsAdmin(s) /\ t = s) /\ owner'[t] = Kept(t, s, db, FALSE)
        BY <1>8 DEF DeleteUser
  <2>2. owner'[t] = owner[t] /\ ~(owner[t] = db /\ t = Meant(s, db).as /\ t # s)
        BY <2>1 DEF Kept
  <2>3. t # s
        BY <1>0, <2>1, <2>2 DEF Owned
  <2>4. login'[t] = login[t]
        BY <1>8, <2>3 DEF DeleteUser, SetLogin, TypeOK
  <2>5. owner[t] = db => Fold[t] # Fold[s]
        BY <1>2, <2>2, <2>3 DEF Meant
  <2>6. account'[owner[t]][Fold[t]] = account[owner[t]][Fold[t]]
        BY <1>2, <1>8, <2>2, <2>5, OneAccount, FoldAssumption DEF DeleteUser, Remove
  <2> QED BY <1>0, <2>2, <2>4, <2>6, OwnedKept
<1>9. ASSUME NEW db \in Databases, NEW s \in Spellings, DeleteRemoteUser(s, db)
      PROVE  Owned(t)'
  <2>1. owner[t] # NoOne => account'[owner[t]][Fold[t]] = account[owner[t]][Fold[t]]
        BY <1>2, <1>3, <1>9, OneAccount, FoldAssumption DEF DeleteRemoteUser, Remove
  <2> QED BY <1>0, <1>9, <2>1, OwnedKept DEF DeleteRemoteUser
<1>10. ASSUME NEW db \in Databases, NEW s \in Spellings, SetAdmin(s, db)
       PROVE  Owned(t)'
  <2>1. CASE t # s
        BY <1>0, <1>10, <2>1, OwnedKept DEF SetAdmin, SetLogin, TypeOK
  <2>2. CASE t = s /\ Meant(s, db).as # s
        BY <1>10, <2>2 DEF SetAdmin, Owned, TypeOK
  <2>3. CASE t = s /\ Meant(s, db).as = s
    <3>1. owner'[s] = db /\ login'[s] = Meant(s, db).pw /\ Meant(s, db).pw # NoPassword
          BY <1>10, <2>3 DEF SetAdmin, SetLogin, TypeOK
    <3>2. Meant(s, db) = [as |-> s, pw |-> Meant(s, db).pw]
          BY <1>10, <2>3, MeantType DEF SetAdmin, Account
    <3>3. UNCHANGED account /\ Found(s, db)
          BY <1>10 DEF SetAdmin
    <3> QED BY <2>3, <3>1, <3>2, <3>3 DEF Owned, IsAdmin, Found, Meant, Accounts
  <2> QED BY <2>1, <2>2, <2>3
<1>11. ASSUME NEW s \in Spellings,
              \/ RemoveAdmin(s)
              \/ \E db \in Databases, pw \in Passwords : EditUserRaises(s, db, pw)
       PROVE  Owned(t)'
  <2>1. /\ UNCHANGED account
        /\ owner' = [owner EXCEPT ![s] = NoOne]
        /\ t # s => login'[t] = login[t]
        BY <1>11 DEF RemoveAdmin, EditUserRaises, SetLogin, TypeOK
  <2> QED BY <1>0, <2>1, OwnedKept DEF TypeOK
<1> QED BY <1>1, <1>4, <1>5, <1>6, <1>7, <1>8, <1>9, <1>10, <1>11
        DEF Next, vars, AddLocalDatabase, AddLdapDatabase, AddDatabase, SaveGroup, SignIn, Commit

(* An administrator's login is kept with the account it was made of: the      *)
(* account is there, spelled like the login and with its password, until one *)
(* of the calls that part them.                                              *)
THEOREM UsersLogins == Spec => []LoginsOwned
<1>1. Init => RemoteWithout /\ LoginsOwned
      BY DEF Init, RemoteWithout, LoginsOwned
<1>2. TypeOK /\ RemoteWithout /\ LoginsOwned /\ [Next]_vars => (RemoteWithout /\ LoginsOwned)'
      BY RemoteStep, OwnedStep
<1> QED BY <1>1, <1>2, UsersTypeCorrect, PTL DEF Spec
=============================================================================
