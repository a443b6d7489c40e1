--------------------------------- MODULE Users ---------------------------------
(***************************************************************************)
(* User databases, their accounts and groups, the administrators' logins   *)
(* kept by rpcd, and the sessions of the API server: python3-nethsec/users,*)
(* ns.users, and the commit with its hook clear-user-tokens.               *)
(*                                                                         *)
(* Accounts are looked up without regard to case, logins and group members *)
(* by their exact spelling.  Every call reads and saves at once; login is  *)
(* what calls see, inForce what rpcd uses since the last commit.  Left out:*)
(* the attributes of databases, descriptions, and the OpenVPN account that *)
(* makes deletions be refused until it is revoked.                         *)
(***************************************************************************)
EXTENDS Naturals, FiniteSets

CONSTANTS
    Databases,    \* identifiers of databases
    Main,         \* the one ns.users looks at when no extra field is given
    Names,        \* names without regard to case
    Spellings,    \* names as they are written
    Fold,         \* the name that a spelling spells
    Passwords,
    NoPassword, NoAccount, NoOne

ASSUME FoldAssumption == Fold \in [Spellings -> Names]
ASSUME DistinctAssumption ==
    /\ Main \in Databases
    /\ NoPassword \notin Passwords
    /\ NoOne \notin Databases

Account == [as : Spellings, pw : Passwords \cup {NoPassword}]

ASSUME NoAccountAssumption == NoAccount \notin Account

VARIABLES
    kind,      \* of each database: "none", "local" or "ldap"
    account,   \* of each name in each database
    group,     \* members of the group of each database, {} without a group
    login,     \* saved rpcd logins: the password of each spelling, if it has one
    inForce,   \* spellings with a login in the configuration rpcd uses
    pending,   \* the rpcd configuration has saved changes
    tokens,    \* spellings with a token file of the API server
    owner      \* history: the database of the account a login is kept with

vars == <<kind, account, group, login, inForce, pending, tokens, owner>>

TypeOK ==
    /\ kind \in [Databases -> {"none", "local", "ldap"}]
    /\ account \in [Databases -> [Names -> Account \cup {NoAccount}]]
    /\ group \in [Databases -> SUBSET Spellings]
    /\ login \in [Spellings -> Passwords \cup {NoPassword}]
    /\ inForce \subseteq Spellings
    /\ pending \in BOOLEAN
    /\ tokens \subseteq Spellings
    /\ owner \in [Spellings -> Databases \cup {NoOne}]

-----------------------------------------------------------------------------
Accounts(db) == {n \in Names : account[db][n] # NoAccount}

(* get_user_by_name: the account that a call naming s means, if there is one. *)
Found(s, db) == Fold[s] \in Accounts(db)
Meant(s, db) == account[db][Fold[s]]

(* is_admin, set_admin, remove_admin look for the exact spelling.             *)
IsAdmin(s) == login[s] # NoPassword

SetLogin(s, pw) ==
    /\ login' = [login EXCEPT ![s] = pw]
    /\ pending' = TRUE

SameLogins == UNCHANGED <<login, pending, owner>>
SameSessions == UNCHANGED <<inForce, tokens>>

(* History: the logins that a call in db on the account spelled s leaves      *)
(* behind when it changes what has the spelling t instead.                   *)
Kept(t, s, db, changed) ==
    IF \/ changed /\ t = s /\ (owner[t] # db \/ Meant(s, db).as # s)
       \/ owner[t] = db /\ t = Meant(s, db).as /\ t # s
    THEN NoOne ELSE owner[t]

-----------------------------------------------------------------------------
(* Editing a database changes no state here.                                  *)
AddDatabase(db, k) ==
    /\ kind[db] = "none"
    /\ kind' = [kind EXCEPT ![db] = k]
    /\ UNCHANGED <<account, group>> /\ SameLogins /\ SameSessions

AddLocalDatabase(db) == AddDatabase(db, "local")
AddLdapDatabase(db) == AddDatabase(db, "ldap")

Drop(db) ==
    /\ kind' = [kind EXCEPT ![db] = "none"]
    /\ account' = [account EXCEPT ![db] = [n \in Names |-> NoAccount]]
    /\ group' = [group EXCEPT ![db] = {}]
    /\ SameSessions

(* The accounts go; a login of one of them stays.                            *)
DeleteLocalDatabase(db) ==
    /\ kind[db] = "local"
    /\ Drop(db)
    /\ UNCHANGED <<login, pending>>
    /\ owner' = [s \in Spellings |-> IF owner[s] = db THEN NoOne ELSE owner[s]]

DeleteLdapDatabase(db) ==
    /\ kind[db] = "ldap"
    /\ Drop(db)
    /\ SameLogins

SaveAccount(db, n, rec) ==
    /\ account' = [account EXCEPT ![db][n] = rec]
    /\ UNCHANGED <<kind, group>>
    /\ SameSessions

(* add_local_user with a password or none, add_remote_user.                  *)
AddUser(s, db, pw) ==
    /\ ~Found(s, db)
    /\ \/ kind[db] = "local"
       \/ kind[db] = "ldap" /\ pw = NoPassword
    /\ SaveAccount(db, Fold[s], [as |-> s, pw |-> pw])
    /\ SameLogins

(* Mutant of EditUser: the login keeps the old password.                     *)
EditAccountOnly(s, db, pw) ==
    /\ Found(s, db) /\ kind[db] = "local"
    /\ SaveAccount(db, Fold[s], [Meant(s, db) EXCEPT !.pw = pw])
    /\ SameLogins

(* edit_local_user with a new password.                                      *)
EditUser(s, db, pw) ==
    /\ Found(s, db) /\ kind[db] = "local"
    /\ SaveAccount(db, Fold[s], [Meant(s, db) EXCEPT !.pw = pw])
    /\ IF IsAdmin(s) THEN SetLogin(s, pw) ELSE UNCHANGED <<login, pending>>
    /\ owner' = [t \in Spellings |-> Kept(t, s, db, IsAdmin(s))]

(* The same without extra fields: ns.users passes None on, and the loop over *)
(* it raises when the login is saved and the account is not.                 *)
EditUserRaises(s, db, pw) ==
    /\ Found(s, db) /\ kind[db] = "local" /\ Found(s, Main)
    /\ IsAdmin(s)
    /\ SetLogin(s, pw)
    /\ owner' = [owner EXCEPT ![s] = NoOne]
    /\ UNCHANGED <<kind, account, group>> /\ SameSessions

Remove(s, db) ==
    /\ account' = [account EXCEPT ![db][Fold[s]] = NoAccount]
    /\ UNCHANGED kind
    /\ SameSessions

(* Mutant of DeleteUser: the account stays in its group.                      *)
DeleteButMember(s, db) ==
    /\ Found(s, db) /\ kind[db] = "local"
    /\ Remove(s, db)
    /\ UNCHANGED group
    /\ IF IsAdmin(s) THEN SetLogin(s, NoPassword) ELSE UNCHANGED <<login, pending>>
    /\ owner' = [t \in Spellings |->
                    IF IsAdmin(s) /\ t = s THEN NoOne ELSE Kept(t, s, db, FALSE)]

(* delete_local_user                                                         *)
DeleteUser(s, db) ==
    /\ Found(s, db) /\ kind[db] = "local"
    /\ Remove(s, db)
    /\ group' = [group EXCEPT ![db] = @ \ {s}]
    /\ IF IsAdmin(s) THEN SetLogin(s, NoPassword) ELSE UNCHANGED <<login, pending>>
    /\ owner' = [t \in Spellings |->
                    IF IsAdmin(s) /\ t = s THEN NoOne ELSE Kept(t, s, db, FALSE)]

(* delete_remote_user                                                        *)
DeleteRemoteUser(s, db) ==
    /\ Found(s, db) /\ kind[db] = "ldap"
    /\ Remove(s, db)
    /\ UNCHANGED group /\ SameLogins

(* add_local_group, edit_local_group; {}: delete_local_group, or no members.  *)
SaveGroup(db, members) ==
    /\ kind[db] = "local"
    /\ group' = [group EXCEPT ![db] = members]
    /\ UNCHANGED <<kind, account>> /\ SameLogins /\ SameSessions

(* set_admin: the record of an account without a password is a KeyError.     *)
SetAdmin(s, db) ==
    /\ Found(s, db) /\ Meant(s, db).pw # NoPassword
    /\ ~IsAdmin(s)
    /\ SetLogin(s, Meant(s, db).pw)
    /\ owner' = [owner EXCEPT ![s] = IF Meant(s, db).as = s THEN db ELSE NoOne]
    /\ UNCHANGED <<kind, account, group>> /\ SameSessions

RemoveAdmin(s) ==
    /\ IsAdmin(s)
    /\ SetLogin(s, NoPassword)
    /\ owner' = [owner EXCEPT ![s] = NoOne]
    /\ UNCHANGED <<kind, account, group>> /\ SameSessions

-----------------------------------------------------------------------------
(* A login through rpcd gets a token (external).                             *)
SignIn(s) ==
    /\ s \in inForce
    /\ tokens' = tokens \cup {s}
    /\ UNCHANGED <<kind, account, group, login, inForce, pending, owner>>

(* Mutant of Purged: the hook looks at the logins before the commit.         *)
PurgedBefore == tokens \cap inForce

(* clear-user-tokens: the token files of those who have a login stay.        *)
Purged == {s \in tokens : IsAdmin(s)}

(* ns.commit with rpcd among the changes, no other call running meanwhile.   *)
Commit ==
    /\ pending
    /\ pending' = FALSE
    /\ inForce' = {s \in Spellings : IsAdmin(s)}
    /\ tokens' = Purged
    /\ UNCHANGED <<kind, account, group, login, owner>>

Init ==
    /\ kind = [db \in Databases |-> IF db = Main THEN "local" ELSE "none"]
    /\ account = [db \in Databases |-> [n \in Names |-> NoAccount]]
    /\ group = [db \in Databases |-> {}]
    /\ login = [s \in Spellings |-> NoPassword]
    /\ inForce = {} /\ tokens = {}
    /\ pending = FALSE
    /\ owner = [s \in Spellings |-> NoOne]

Next ==
    \/ \E db \in Databases :
        \/ AddLocalDatabase(db) \/ AddLdapDatabase(db)
        \/ DeleteLocalDatabase(db) \/ DeleteLdapDatabase(db)
        \/ \E members \in SUBSET Spellings : SaveGroup(db, members)
        \/ \E s \in Spellings :
            \/ \E pw \in Passwords \cup {NoPassword} : AddUser(s, db, pw)
            \/ \E pw \in Passwords : EditUser(s, db, pw) \/ EditUserRaises(s, db, pw)
            \/ DeleteUser(s, db) \/ DeleteRemoteUser(s, db) \/ SetAdmin(s, db)
    \/ \E s \in Spellings : RemoveAdmin(s) \/ SignIn(s)
    \/ Commit

Spec == Init /\ [][Next]_vars

-----------------------------------------------------------------------------
(* users/__init__.py:523.  A login is kept with its account: the account is   *)
(* there and has the login's password, whatever calls came before.  The ways *)
(* to part them are those that clear owner: a database deleted, a call that   *)
(* spells the name differently or means another database, an edit without    *)
(* extra fields.                                                             *)
LoginsOwned ==
    \A s \in Spellings :
        owner[s] # NoOne =>
            /\ IsAdmin(s)
            /\ Found(s, owner[s])
            /\ Meant(s, owner[s]) = [as |-> s, pw |-> login[s]]

(* clear-user-tokens.py:8.  Nobody has a session without a login in force,    *)
(* so a deletion or demotion that is committed logs the user out.            *)
TokensOfAdmins == tokens \subseteq inForce

(* An account goes with its membership, so that the next user of that name    *)
(* is in no group by inheritance, unless the call spelled it differently.    *)
MembershipEnds ==
    [][\A db \in Databases, n \in Names :
          \/ n \notin Accounts(db) \/ n \in Accounts(db)'
          \/ account[db][n].as \notin group[db]'
          \/ \E s \in Spellings : s # account[db][n].as /\ DeleteUser(s, db)
          \/ DeleteRemoteUser(account[db][n].as, db)]_vars
=============================================================================
