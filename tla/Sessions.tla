------------------------------- MODULE Sessions -------------------------------
(***************************************************************************)
(* One account and the tokens issued for it: login and refresh             *)
(* (auth/service.py), the check of every request (core/deps.py), and what  *)
(* revokes tokens: logout everywhere, a new password, a suspension.        *)
(*                                                                         *)
(* A request loads the account's row and goes on with what it loaded; what *)
(* it writes appears with its commit.  Requests run at the same time.      *)
(***************************************************************************)
EXTENDS Integers

CONSTANTS
  Clients,     \* requests that log in and refresh
  Revokers,    \* requests that revoke
  Restorers,   \* requests of admins that set the account ACTIVE
  MaxVersion   \* User.token_version (a bound)

ASSUME SessionAssumption == MaxVersion \in Nat

VARIABLES
  account,   \* users: status, password and token_version
  tokens,    \* issued: [version, since], `since` the revocations known then
  revoked,   \* revocations committed
  errand     \* per request: where it is and what it has loaded

sessionVars == <<account, tokens, revoked, errand>>

Errands == Clients \cup Revokers \cup Restorers

NoErrand == [at |-> "none"]

Passwords == {"old", "new"}

(* register: an account, and its first tokens. *)
SessionInit ==
  /\ account = [status |-> "ACTIVE", password |-> "old", version |-> 0]
  /\ tokens = {[version |-> 0, since |-> 0]}
  /\ revoked = 0
  /\ errand = [c \in Errands |-> NoErrand]

Depart(c, what) == errand[c].at = "none" /\ errand' = [errand EXCEPT ![c] = what]

Return(c) == errand' = [errand EXCEPT ![c] = NoErrand]

(* get_current_user, and refresh: is a token good for a request that loads *)
(* the account now.                                                        *)
Accepted(token) == token.version = account.version /\ account.status = "ACTIVE"

-----------------------------------------------------------------------------
(* login: the password is right, and the account is not suspended.         *)
LogIn(c, password) ==
  /\ password = account.password
  /\ account.status = "ACTIVE"
  /\ Depart(c, [at |-> "issue", version |-> account.version, since |-> revoked])
  /\ UNCHANGED <<account, tokens, revoked>>

(* refresh *)
Renew(c, token) ==
  /\ Accepted(token)
  /\ Depart(c, [at |-> "issue", version |-> account.version, since |-> token.since])
  /\ UNCHANGED <<account, tokens, revoked>>

(* create_token, with the version loaded. *)
NewToken(what) == [version |-> what.version, since |-> what.since]

(* issue_tokens *)
Issue(c) ==
  /\ errand[c].at = "issue"
  /\ tokens' = tokens \cup {NewToken(errand[c])}
  /\ Return(c)
  /\ UNCHANGED <<account, revoked>>

-----------------------------------------------------------------------------
(* logout-all, by a request that was accepted. *)
LogOutAll(c, token) ==
  /\ Accepted(token)
  /\ account.version < MaxVersion
  /\ Depart(c, [at |-> "revoke", version |-> account.version])
  /\ UNCHANGED <<account, tokens, revoked>>

(* change_password: hashing comes between the load and the commit.         *)
ChangePassword(c, token, password) ==
  /\ Accepted(token)
  /\ account.version < MaxVersion
  /\ Depart(c, [at |-> "password", version |-> account.version, password |-> password])
  /\ UNCHANGED <<account, tokens, revoked>>

(* The version loaded plus one, and the columns of this request. *)
Revoking(what) ==
  [account EXCEPT !.version = what.version + 1,
                  !.password = IF what.at = "password" THEN what.password ELSE @]

RevokeCommits(c) ==
  /\ errand[c].at \in {"revoke", "password"}
  /\ account' = Revoking(errand[c])
  /\ revoked' = revoked + 1
  /\ Return(c)
  /\ UNCHANGED tokens

-----------------------------------------------------------------------------
(* set_user_status: the admin's request loads the account, ...             *)
LoadsAccount(c, to) ==
  /\ to = "SUSPENDED" => account.version < MaxVersion
  /\ Depart(c, [at |-> "status", to |-> to, loaded |-> account])
  /\ UNCHANGED <<account, tokens, revoked>>

(* [Mutant of StatusVersion] the status alone keeps everybody out.         *)
StatusVersionKept(to, loaded, now) == now

(* "Suspension must take effect immediately": the version loaded plus one. *)
StatusVersion(to, loaded, now) == IF to = "SUSPENDED" THEN loaded + 1 ELSE now

(* ... and writes the columns that differ from what was loaded.            *)
StatusIsSet(c) ==
  LET to == errand[c].to
      loaded == errand[c].loaded
  IN  /\ errand[c].at = "status"
      /\ account' = [account EXCEPT !.status = IF to # loaded.status THEN to ELSE @,
                                   !.version = StatusVersion(to, loaded.version, @)]
      /\ revoked' = IF to = "SUSPENDED" THEN revoked + 1 ELSE revoked
      /\ Return(c)
      /\ UNCHANGED tokens

(* A handler that dies: nothing of it was committed. *)
ErrandDies(c) ==
  /\ errand[c].at # "none"
  /\ Return(c)
  /\ UNCHANGED <<account, tokens, revoked>>

SessionNext ==
  \/ \E c \in Clients : \/ \E password \in Passwords : LogIn(c, password)
                        \/ \E token \in tokens : Renew(c, token)
                        \/ Issue(c)
  \/ \E c \in Revokers :
       \/ \E token \in tokens : \/ LogOutAll(c, token)
                               \/ \E password \in Passwords : ChangePassword(c, token, password)
       \/ RevokeCommits(c) \/ LoadsAccount(c, "SUSPENDED")
  \/ \E c \in Restorers : LoadsAccount(c, "ACTIVE")
  \/ \E c \in Revokers \cup Restorers : StatusIsSet(c)
  \/ \E c \in Errands : ErrandDies(c)

SessionSpec == SessionInit /\ [][SessionNext]_sessionVars

-----------------------------------------------------------------------------
(* Versions are within the bound, and no token is newer than the account.  *)
SessionTypeOK ==
  /\ account \in [status : {"ACTIVE", "SUSPENDED"}, password : Passwords, version : 0 .. MaxVersion]
  /\ \A token \in tokens : token.version \in 0 .. account.version /\ token.since \in 0 .. revoked
  /\ \A c \in Errands : errand[c].at \in {"none", "issue", "revoke", "password", "status"}

(* "Invalidate every token issued to the current user" (logout_all), and   *)
(* "invalidates all outstanding tokens (logout-all, suspension)"           *)
(* (create_token): a token whose owner was last checked before the latest  *)
(* revocation is not accepted, neither one issued by a login or refresh    *)
(* that was under way, nor after the account is reinstated.  It holds when *)
(* revocations do not overlap each other.                                  *)
RevokedStaysOut == \A token \in tokens : Accepted(token) => token.since = revoked
=============================================================================
