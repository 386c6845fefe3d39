---------------------------- MODULE TokensProofs -----------------------------
(***************************************************************************)
(* Theorems about tokens, on the server and in the browser: for any number *)
(* of logins and refreshes under way and of admins who reinstate the       *)
(* account, with one revocation at a time; and for every number of hooks,  *)
(* of changes of their dependencies and of tokens in a browser.            *)
(*                                                                         *)
(* Sessions.  Why RevokedStaysOut holds: what carries the account's present *)
(* version was checked after the last revocation, be it a token or what a  *)
(* login has read and not yet turned into one (InStep); and the one request *)
(* that revokes has read the present version, so that what it writes is    *)
(* above every version ever given out (Latest).                            *)
(*                                                                         *)
(* WebClient.  Runs of all hooks are the keys of `calls`: what a step does *)
(* to one call is stated for a key, and what it does to what a page shows  *)
(* for a hook.                                                             *)
(***************************************************************************)
EXTENDS Sessions, WebClient, TLAPS

-----------------------------------------------------------------------------
Account == [status : {"ACTIVE", "SUSPENDED"}, password : Passwords, version : 0 .. MaxVersion]

(* What carries a version and when its owner was checked. *)
InStep(x) ==
  /\ x.version \in Nat /\ x.version <= account.version
  /\ x.since \in Nat /\ x.since <= revoked
  /\ x.version = account.version => x.since = revoked

(* What a request that revokes or reinstates has loaded.                   *)
Latest(what) ==
  /\ what.at \in {"revoke", "password"} => what.version = account.version /\ account.version < MaxVersion
  /\ what.at = "password" => what.password \in Passwords
  /\ what.at = "status" =>
       /\ what.to \in {"ACTIVE", "SUSPENDED"}
       /\ what.to = "SUSPENDED" => what.loaded.version = account.version /\ account.version < MaxVersion

Errand(c) ==
  /\ errand[c].at \in {"none", "issue", "revoke", "password", "status"}
  /\ errand[c].at = "issue" => InStep(errand[c])
  /\ Latest(errand[c])
  /\ c \notin Revokers => errand[c].at \notin {"revoke", "password"}
  /\ c \notin Revokers /\ errand[c].at = "status" => errand[c].to # "SUSPENDED"

Known ==
  /\ account \in Account
  /\ revoked \in Nat
  /\ \A token \in tokens : InStep(token)
  /\ DOMAIN errand = Errands
  /\ \A c \in Errands : Errand(c)

LEMMA KnownInit == SessionInit => Known
BY SessionAssumption
   DEF SessionInit, Known, Account, Passwords, InStep, Latest, Errand, NoErrand

(* Steps after which a request holds `what` and only it has changed.       *)
LEMMA Quiet ==
  ASSUME Known, NEW c \in Errands, NEW what,
         errand' = [errand EXCEPT ![c] = what],
         UNCHANGED <<account, revoked>>,
         \A token \in tokens' : InStep(token),
         what.at \in {"none", "issue", "revoke", "password", "status"},
         what.at = "issue" => InStep(what),
         Latest(what),
         c \notin Revokers => what.at \notin {"revoke", "password"},
         c \notin Revokers /\ what.at = "status" => what.to # "SUSPENDED"
  PROVE  Known'
<1>1. ASSUME NEW d \in Errands PROVE Errand(d)'
  <2>1. CASE d = c
    BY <2>1 DEF Known, Errand, InStep, Latest
  <2>2. CASE d # c
    BY <2>2 DEF Known, Errand, InStep, Latest
  <2>3. QED
    BY <2>1, <2>2
<1>2. QED
  BY <1>1 DEF Known, InStep

(* A revocation: nothing that was given out is good for anything any more. *)
LEMMA Revoked ==
  ASSUME NEW u, Revokers = {u}, Known,
         account' \in Account, account'.version = account.version + 1,
         revoked' = revoked + 1, tokens' = tokens, Return(u)
  PROVE  Known'
<1>1. account.version \in Nat
  BY DEF Known, Account
<1>2. ASSUME NEW x, InStep(x) PROVE InStep(x)'
  BY <1>1, <1>2 DEF InStep, Known
<1>3. ASSUME NEW d \in Errands PROVE Errand(d)'
  <2>1. CASE d = u
    BY <2>1 DEF Known, Errand, Return, NoErrand, Latest
  <2>2. CASE d # u
    <3>1. errand'[d] = errand[d] /\ d \notin Revokers
      BY <2>2 DEF Known, Return
    <3>2. errand[d].at = "issue" => InStep(errand[d])'
      BY <1>1, <3>1 DEF Known, Errand, InStep
    <3>3. QED
      BY <3>1, <3>2 DEF Known, Errand, Latest
  <2>3. QED
    BY <2>1, <2>2
<1>4. QED
  BY <1>2, <1>3 DEF Known, Return, InStep

LEMMA KnownStep ==
  ASSUME NEW u, Revokers = {u}, Known, [SessionNext]_sessionVars
  PROVE  Known'
<1>0. Clients \subseteq Errands /\ Revokers \subseteq Errands /\ Restorers \subseteq Errands
  BY DEF Errands
<1>1. ASSUME NEW c \in Clients, NEW password \in Passwords, LogIn(c, password) PROVE Known'
  <2> DEFINE what == [at |-> "issue", version |-> account.version, since |-> revoked]
  <2>1. InStep(what) /\ Latest(what)
    BY DEF Known, Account, InStep, Latest
  <2>2. errand' = [errand EXCEPT ![c] = what] /\ UNCHANGED <<account, tokens, revoked>>
    BY <1>1 DEF LogIn, Depart
  <2>3. QED
    BY <1>0, <2>1, <2>2, Quiet DEF Known, InStep
<1>2. ASSUME NEW c \in Clients, NEW token \in tokens, Renew(c, token) PROVE Known'
  <2>1. InStep(token) /\ token.version = account.version
    BY <1>2 DEF Renew, Accepted, Known
  <2>2. QED
    BY <1>0, <1>2, <2>1, Quiet DEF Renew, Depart, Known, Account, InStep, Latest
<1>3. ASSUME NEW c \in Clients, Issue(c) PROVE Known'
  <2>1. InStep(errand[c])
    BY <1>0, <1>3 DEF Issue, Known, Errand
  <2>2. \A token \in tokens' : InStep(token)
    BY <1>3, <2>1 DEF Issue, NewToken, InStep, Known
  <2>3. QED
    BY <1>0, <1>3, <2>2, Quiet DEF Issue, Return, NoErrand, Latest
<1>4. ASSUME NEW c \in Revokers, NEW token \in tokens, LogOutAll(c, token) PROVE Known'
  BY <1>0, <1>4, Quiet DEF LogOutAll, Depart, Known, Latest
<1>5. ASSUME NEW c \in Revokers, NEW token \in tokens, NEW password \in Passwords,
             ChangePassword(c, token, password)
      PROVE  Known'
  BY <1>0, <1>5, Quiet DEF ChangePassword, Depart, Known, Latest
<1>6. ASSUME NEW c \in Revokers, RevokeCommits(c) PROVE Known'
  <2>1. c = u /\ errand[c].version = account.version /\ account.version < MaxVersion
    BY <1>0, <1>6 DEF RevokeCommits, Known, Errand, Latest
  <2>2. errand[c].at = "password" => errand[c].password \in Passwords
    BY <1>0 DEF Known, Errand, Latest
  <2> DEFINE password == IF errand[c].at = "password" THEN errand[c].password ELSE account.password
  <2>5. password \in Passwords /\ account.version + 1 \in 0 .. MaxVersion
    BY <2>1, <2>2, SessionAssumption DEF Known, Account
  <2>6. account' = [account EXCEPT !.version = account.version + 1, !.password = password]
    BY <1>6, <2>1 DEF RevokeCommits, Revoking
  <2>3. account' \in Account /\ account'.version = account.version + 1
    <3> HIDE DEF password
    <3>1. QED
      BY <2>5, <2>6 DEF Known, Account
  <2>4. QED
    BY <1>6, <2>1, <2>3, Revoked DEF RevokeCommits
<1>7. ASSUME NEW c \in Revokers, LoadsAccount(c, "SUSPENDED") PROVE Known'
  BY <1>0, <1>7, Quiet DEF LoadsAccount, Depart, Known, Latest
<1>8. ASSUME NEW c \in Restorers, LoadsAccount(c, "ACTIVE") PROVE Known'
  BY <1>0, <1>8, Quiet DEF LoadsAccount, Depart, Known, Latest
<1>9. ASSUME NEW c \in Revokers \cup Restorers, StatusIsSet(c) PROVE Known'
  <2>1. errand[c].at = "status" /\ errand[c].to \in {"ACTIVE", "SUSPENDED"}
    BY <1>0, <1>9 DEF StatusIsSet, Known, Errand, Latest
  <2>2. CASE errand[c].to = "SUSPENDED"
    <3>1. c = u /\ errand[c].loaded.version = account.version /\ account.version < MaxVersion
      BY <1>0, <2>1, <2>2 DEF Known, Errand, Latest
    <3> DEFINE status == IF errand[c].to # errand[c].loaded.status THEN errand[c].to ELSE account.status
    <3>4. status \in {"ACTIVE", "SUSPENDED"} /\ account.version + 1 \in 0 .. MaxVersion
      BY <2>2, <3>1, SessionAssumption DEF Known, Account
    <3>5. account' = [account EXCEPT !.status = status, !.version = account.version + 1]
      BY <1>9, <2>2, <3>1 DEF StatusIsSet, StatusVersion
    <3>2. account' \in Account /\ account'.version = account.version + 1
      <4> HIDE DEF status
      <4>1. QED
        BY <3>4, <3>5 DEF Known, Account
    <3>3. QED
      BY <1>9, <2>2, <3>1, <3>2, Revoked DEF StatusIsSet
  <2>3. CASE errand[c].to = "ACTIVE"
    <3> DEFINE status == IF errand[c].to # errand[c].loaded.status THEN errand[c].to ELSE account.status
    <3>4. status \in {"ACTIVE", "SUSPENDED"}
      BY <2>1 DEF Known, Account
    <3>5. account' = [account EXCEPT !.status = status, !.version = account.version] /\ UNCHANGED <<revoked, tokens>>
      BY <1>9, <2>3 DEF StatusIsSet, StatusVersion
    <3>1. account' \in Account /\ account'.version = account.version /\ UNCHANGED <<revoked, tokens>>
      <4> HIDE DEF status
      <4>1. QED
        BY <3>4, <3>5 DEF Known, Account
    <3>2. ASSUME NEW d \in Errands PROVE Errand(d)'
      <4>1. CASE d = c
        BY <1>0, <1>9, <4>1 DEF StatusIsSet, Known, Errand, Return, NoErrand, Latest
      <4>2. CASE d # c
        <5>1. errand'[d] = errand[d]
          BY <1>9, <4>2 DEF StatusIsSet, Known, Return
        <5>2. QED
          BY <3>1, <5>1 DEF Known, Errand, Latest, InStep
      <4>3. QED
        BY <4>1, <4>2
    <3>3. QED
      BY <1>9, <3>1, <3>2 DEF StatusIsSet, Return, Known, InStep
  <2>4. QED
    BY <2>1, <2>2, <2>3
<1>10. ASSUME NEW c \in Errands, ErrandDies(c) PROVE Known'
  BY <1>10, Quiet DEF ErrandDies, Return, NoErrand, Latest, Known
<1>11. CASE UNCHANGED sessionVars
  BY <1>11 DEF sessionVars, Known, Errand, InStep, Latest
<1>12. QED
  BY <1>1, <1>2, <1>3, <1>4, <1>5, <1>6, <1>7, <1>8, <1>9, <1>10, <1>11 DEF SessionNext

(* "Invalidate every token issued to the current user" (auth/router.py):   *)
(* for any number of logins, refreshes and reinstatements that overlap a   *)
(* revocation, no token checked before it is accepted after it.            *)
THEOREM RevokedTokensStayOut ==
  ASSUME NEW u, Revokers = {u}
  PROVE  SessionSpec => []RevokedStaysOut
<1>1. Known => RevokedStaysOut
  BY DEF Known, InStep, RevokedStaysOut, Accepted
<1>2. Known /\ [SessionNext]_sessionVars => Known'
  BY KnownStep
<1>3. QED
  BY <1>1, <1>2, KnownInit, PTL DEF SessionSpec

(* The account, the tokens and what a request has loaded are well-formed.  *)
THEOREM TokensWellFormed ==
  ASSUME NEW u, Revokers = {u}
  PROVE  SessionSpec => []SessionTypeOK
<1>1. Known => SessionTypeOK
  BY DEF Known, Account, Errand, InStep, Latest, SessionTypeOK
<1>2. Known /\ [SessionNext]_sessionVars => Known'
  BY KnownStep
<1>3. QED
  BY <1>1, <1>2, KnownInit, PTL DEF SessionSpec

-----------------------------------------------------------------------------
CallSteps == {"none", "sent", "answered", "denied", "waiting", "done"}
Calls     == [at : CallSteps, used : Nat, first : Nat, again : BOOLEAN]
Refreshes == [at : {"none", "asked", "settled"}, token : Nat, timer : BOOLEAN]
States    == [run : 0 .. MaxRuns, loading : BOOLEAN, failed : BOOLEAN, shown : 0 .. MaxRuns]

(* What holds of a call: it knows the token it was denied with, and that   *)
(* one is older than what a refresh that has just settled has brought.     *)
CallOK(c) ==
  /\ c.used <= minted /\ c.first <= minted
  /\ ~c.again /\ c.at \notin {"none", "done"} => c.first = c.used
  /\ c.again => c.used # c.first
  /\ c.at = "waiting" => ~c.again /\ refresh.at = "asked"
  /\ c.at = "denied" /\ ~c.again /\ refresh.at = "settled" /\ refresh.token # 0
       => c.used < refresh.token

RefreshOK ==
  /\ refresh.at = "settled" <=> refresh.timer
  /\ refresh.token <= minted
  /\ refresh.at = "settled" /\ refresh.token # 0 => stored = 0 \/ refresh.token <= stored

(* What a page shows: FreshAnswerShown of one hook. *)
Fresh(h) ==
  hooks[h].run > 0 =>
    IF hooks[h].loading THEN calls[<<h, hooks[h].run>>].at \notin {"none", "done"}
                        ELSE hooks[h].failed \/ hooks[h].shown = hooks[h].run

WebTyped ==
  /\ minted \in 1 .. MaxTokens
  /\ stored \in 0 .. minted
  /\ accepted \subseteq 1 .. minted
  /\ refresh \in Refreshes
  /\ calls \in [Keys -> Calls]
  /\ hooks \in [Hooks -> States]
  /\ \A h \in Hooks : hooks[h].shown <= hooks[h].run

WebInv ==
  /\ WebTyped
  /\ RefreshOK
  /\ \A k \in Keys : CallOK(calls[k])
  /\ \A h \in Hooks : Fresh(h)

-----------------------------------------------------------------------------
LEMMA WebInvInit == WebInit => WebInv
<1> SUFFICES ASSUME WebInit PROVE WebInv
  OBVIOUS
<1> USE WebAssumption DEF WebInit
<1>1. WebTyped
  BY DEF WebTyped, Keys, Calls, CallSteps, NoCall, Refreshes, NoRefresh, States, Runs
<1>2. RefreshOK
  BY DEF RefreshOK, NoRefresh
<1>3. \A k \in Keys : calls[k] = NoCall
  BY DEF Keys
<1>4. \A k \in Keys : CallOK(calls[k])
  BY <1>3 DEF CallOK, NoCall
<1>5. \A h \in Hooks : Fresh(h)
  BY DEF Fresh
<1>6. QED
  BY <1>1, <1>2, <1>4, <1>5 DEF WebInv

(* A call that was just sent, for the first time or again.                 *)
LEMMA SentTyped ==
  ASSUME NEW c \in Calls, NEW t \in Nat, NEW b \in BOOLEAN
  PROVE  /\ Sent(c, t, b) \in Calls
         /\ Sent(c, t, b).at = "sent" /\ Sent(c, t, b).used = t /\ Sent(c, t, b).again = b
         /\ Sent(c, t, b).first = IF b THEN c.first ELSE t
BY DEF Sent, Calls, CallSteps

LEMMA DoneTyped == Done \in Calls /\ Done.at = "done" /\ ~Done.again /\ Done.used = 0 /\ Done.first = 0
BY DEF Done, Calls, CallSteps

(* Where a call is, is all that a step changes of it. *)
LEMMA MovedTyped ==
  ASSUME NEW c \in Calls, NEW at \in CallSteps
  PROVE  /\ [c EXCEPT !.at = at] \in Calls
         /\ [c EXCEPT !.at = at].at = at /\ [c EXCEPT !.at = at].used = c.used
         /\ [c EXCEPT !.at = at].first = c.first /\ [c EXCEPT !.at = at].again = c.again
BY DEF Calls

(* Steps that change neither calls nor what a page shows.                  *)
LEMMA FreshStands ==
  ASSUME UNCHANGED hooks, \A h \in Hooks : Fresh(h), WebTyped, calls' \in [Keys -> Calls],
         \A k \in Keys : calls[k].at \notin {"none", "done"} =>
                           \/ calls'[k].at \notin {"none", "done"}
                           \/ ~Active(k)
  PROVE  \A h \in Hooks : Fresh(h)'
<1> TAKE h \in Hooks
<1>1. CASE hooks[h].run = 0
  BY <1>1 DEF Fresh
<1>2. CASE hooks[h].run > 0
  <2>1. hooks[h].run \in Runs
    BY <1>2 DEF WebTyped, States, Runs
  <2> DEFINE k == <<h, hooks[h].run>>
  <2>2. k \in Keys /\ k[1] = h /\ k[2] = hooks[h].run
    BY <2>1 DEF Keys
  <2>3. Active(k)
    BY <2>2 DEF Active
  <2>4. calls[k].at \notin {"none", "done"} => calls'[k].at \notin {"none", "done"}
    BY <2>2, <2>3
  <2>5. hooks'[h] = hooks[h]
    OBVIOUS
  <2>6. QED
    BY <1>2, <2>4, <2>5 DEF Fresh
<1>3. QED
  BY <1>1, <1>2 DEF WebTyped, States

(* The promise of the run that a call belongs to settles.                  *)
LEMMA FreshSettles ==
  ASSUME NEW k \in Keys, NEW ok \in BOOLEAN, Settle(k, ok), WebTyped,
         \A h \in Hooks : Fresh(h), calls' = [calls EXCEPT ![k] = Done]
  PROVE  /\ hooks' \in [Hooks -> States]
         /\ \A h \in Hooks : hooks'[h].shown <= hooks'[h].run
         /\ \A h \in Hooks : Fresh(h)'
<1>1. PICK g \in Hooks, n \in Runs : k = <<g, n>>
  BY DEF Keys
<1>2. n \in 1 .. MaxRuns /\ MaxRuns \in Nat
  BY WebAssumption DEF Runs
<1>3. hooks \in [Hooks -> States] /\ calls \in [Keys -> Calls]
  BY DEF WebTyped
<1>4. CASE hooks[g].run = n
  <2>1. hooks' = [hooks EXCEPT ![g] = [run |-> n, loading |-> FALSE, failed |-> ~ok,
                                       shown |-> IF ok THEN n ELSE hooks[g].shown]]
    BY <1>1, <1>3, <1>4 DEF Settle, Active
  <2>2. /\ hooks'[g].run = n /\ hooks'[g].loading = FALSE /\ hooks'[g].failed = ~ok
        /\ hooks'[g].shown = IF ok THEN n ELSE hooks[g].shown
    BY <1>3, <1>4, <2>1 DEF States
  <2>3. hooks' \in [Hooks -> States]
    BY <1>2, <1>3, <2>1 DEF States
  <2>4. \A h \in Hooks \ {g} : hooks'[h] = hooks[h]
    BY <1>3, <2>1
  <2>5. \A h \in Hooks \ {g}, m \in Runs : <<h, m>> \in Keys /\ calls'[<<h, m>>] = calls[<<h, m>>]
    BY <1>1, <1>3 DEF Keys
  <2>6. ASSUME NEW h \in Hooks PROVE hooks'[h].shown <= hooks'[h].run
    <3>1. hooks[h].shown <= hooks[h].run
      BY DEF WebTyped
    <3>2. hooks'[g].shown <= hooks'[g].run
      <4>1. hooks'[g].shown = n \/ hooks'[g].shown = hooks[g].shown
        BY <2>2
      <4>2. hooks[g].shown <= n
        BY <1>4 DEF WebTyped
      <4>3. QED
        BY <1>2, <2>2, <4>1, <4>2
    <3>3. QED
      BY <2>4, <3>1, <3>2
  <2>7. Fresh(g)'
    <3>1. hooks'[g].loading = FALSE /\ (hooks'[g].failed \/ hooks'[g].shown = hooks'[g].run)
      BY <2>2
    <3>2. QED
      BY <3>1 DEF Fresh
  <2>8. ASSUME NEW h \in Hooks \ {g} PROVE Fresh(h)'
    <3>1. hooks[h].run > 0 => calls'[<<h, hooks[h].run>>] = calls[<<h, hooks[h].run>>]
      BY <1>3, <2>5 DEF States, Runs
    <3>2. QED
      BY <2>4, <3>1 DEF Fresh
  <2>9. QED
    BY <2>3, <2>6, <2>7, <2>8
<1>5. CASE hooks[g].run # n
  <2>1. hooks' = hooks
    BY <1>1, <1>5 DEF Settle, Active
  <2>2. ~Active(k)
    BY <1>1, <1>5 DEF Active
  <2>3. \A j \in Keys : j # k => calls'[j] = calls[j]
    BY <1>3
  <2>4. calls' \in [Keys -> Calls]
    BY <1>3, DoneTyped
  <2>5. \A h \in Hooks : Fresh(h)'
    BY <2>1, <2>2, <2>3, <2>4, FreshStands
  <2>6. QED
    BY <2>1, <2>5 DEF WebTyped
<1>6. QED
  BY <1>4, <1>5

-----------------------------------------------------------------------------
(* A step of one call, which may settle what its page shows.               *)
LEMMA OneCall ==
  ASSUME WebInv, NEW k \in Keys, NEW c \in Calls, calls' = [calls EXCEPT ![k] = c],
         UNCHANGED <<minted, accepted, stored, refresh>>,
         hooks' \in [Hooks -> States], \A h \in Hooks : hooks'[h].shown <= hooks'[h].run,
         \A h \in Hooks : Fresh(h)', CallOK(c)
  PROVE  WebInv'
<1>1. calls' \in [Keys -> Calls] /\ calls'[k] = c /\ \A j \in Keys : j # k => calls'[j] = calls[j]
  BY DEF WebInv, WebTyped
<1>2. WebTyped'
  BY <1>1 DEF WebInv, WebTyped
<1>3. RefreshOK'
  BY DEF WebInv, RefreshOK
<1>4. ASSUME NEW j \in Keys PROVE CallOK(calls[j])'
  <2>1. CASE j = k
    BY <1>1, <2>1 DEF CallOK
  <2>2. CASE j # k
    BY <1>1, <2>2 DEF WebInv, CallOK
  <2>3. QED
    BY <2>1, <2>2
<1>5. QED
  BY <1>2, <1>3, <1>4 DEF WebInv

(* ... or which does not. *)
LEMMA OneCallQuietly ==
  ASSUME WebInv, NEW k \in Keys, NEW c \in Calls, calls' = [calls EXCEPT ![k] = c],
         UNCHANGED <<minted, accepted, stored, refresh, hooks>>,
         CallOK(c), c.at \notin {"none", "done"} \/ ~Active(k)
  PROVE  WebInv'
<1>1. calls' \in [Keys -> Calls] /\ calls'[k] = c /\ \A j \in Keys : j # k => calls'[j] = calls[j]
  BY DEF WebInv, WebTyped
<1>2. \A h \in Hooks : Fresh(h)'
  BY <1>1, FreshStands DEF WebInv
<1>3. hooks' \in [Hooks -> States] /\ \A h \in Hooks : hooks'[h].shown <= hooks'[h].run
  BY DEF WebInv, WebTyped
<1>4. QED
  BY <1>2, <1>3, OneCall

LEMMA DoneOK == WebInv => CallOK(Done)
BY DoneTyped DEF WebInv, WebTyped, CallOK

LEMMA InvSettles ==
  ASSUME WebInv, NEW k \in Keys, NEW ok \in BOOLEAN, calls' = [calls EXCEPT ![k] = Done],
         Settle(k, ok), UNCHANGED <<minted, accepted, stored, refresh>>
  PROVE  WebInv'
BY FreshSettles, OneCall, DoneOK, DoneTyped DEF WebInv

LEMMA InvServe ==
  ASSUME WebInv, NEW k \in Keys, Serve(k)
  PROVE  WebInv'
<1>1. PICK at \in {"answered", "denied"} : calls' = [calls EXCEPT ![k].at = at]
  BY DEF Serve
<1>2. calls[k] \in Calls /\ CallOK(calls[k]) /\ calls[k].at = "sent"
  BY DEF WebInv, WebTyped, Serve
<1>3. at \in CallSteps
  BY DEF CallSteps
<1> DEFINE c == [calls[k] EXCEPT !.at = at]
<1>4. /\ c \in Calls /\ c.at = at /\ c.used = calls[k].used
      /\ c.first = calls[k].first /\ c.again = calls[k].again
  BY <1>2, <1>3, MovedTyped
<1>5. calls' = [calls EXCEPT ![k] = c]
  BY <1>1
<1> HIDE DEF c
<1>6. refresh.at = "settled" => refresh.timer
  BY DEF WebInv, RefreshOK
<1>7. CallOK(c)
  BY <1>2, <1>4, <1>6 DEF CallOK, Serve
<1>8. UNCHANGED <<minted, accepted, stored, refresh, hooks>>
  BY DEF Serve
<1>9. QED
  BY <1>4, <1>5, <1>7, <1>8, OneCallQuietly

LEMMA InvRetries ==
  ASSUME WebInv, NEW k \in Keys, DeniedRetries(k)
  PROVE  WebInv'
<1> DEFINE again == Sent(calls[k], stored, TRUE)
<1>1. calls[k] \in Calls /\ CallOK(calls[k]) /\ stored \in Nat /\ minted \in Nat /\ refresh.token \in Nat
  BY DEF WebInv, WebTyped, Refreshes
<1>2. UNCHANGED <<minted, accepted, stored, refresh, hooks>>
  BY DEF DeniedRetries
<1>3. CASE Aborted(k)
  <2>1. calls' = [calls EXCEPT ![k] = Done]
    BY <1>3 DEF DeniedRetries
  <2>2. QED
    BY <1>2, <1>3, <2>1, OneCallQuietly, DoneTyped, DoneOK DEF Aborted
<1>4. CASE ~Aborted(k)
  <2>1. calls' = [calls EXCEPT ![k] = again]
    BY <1>4 DEF DeniedRetries
  <2>2. again \in Calls /\ again.at = "sent" /\ again.used = stored /\ again.first = calls[k].first /\ again.again
    BY <1>1, SentTyped
  <2> HIDE DEF again
  <2>3. stored <= minted /\ refresh.token <= stored /\ calls[k].used < refresh.token
    BY <1>1 DEF DeniedRetries, WebInv, WebTyped, RefreshOK, CallOK
  <2>4. calls[k].first = calls[k].used
    BY <1>1 DEF DeniedRetries, CallOK
  <2>5. CallOK(again)
    BY <1>1, <2>2, <2>3, <2>4 DEF CallOK, Calls
  <2>6. QED
    BY <1>2, <2>1, <2>2, <2>5, OneCallQuietly
<1>5. QED
  BY <1>3, <1>4

LEMMA InvWaits ==
  ASSUME WebInv, NEW k \in Keys, DeniedWaits(k)
  PROVE  WebInv'
<1> DEFINE c == [calls[k] EXCEPT !.at = "waiting"]
<1>1. calls[k] \in Calls /\ CallOK(calls[k]) /\ "waiting" \in CallSteps
  BY DEF WebInv, WebTyped, CallSteps
<1>2. /\ c \in Calls /\ c.at = "waiting" /\ c.used = calls[k].used
      /\ c.first = calls[k].first /\ c.again = calls[k].again
  BY <1>1, MovedTyped
<1>3. calls' = [calls EXCEPT ![k] = c]
  BY DEF DeniedWaits
<1> HIDE DEF c
<1>4. calls' \in [Keys -> Calls] /\ calls'[k] = c /\ \A j \in Keys : j # k => calls'[j] = calls[j]
  BY <1>2, <1>3 DEF WebInv, WebTyped
<1>5. UNCHANGED <<minted, accepted, stored, hooks>>
  BY DEF DeniedWaits
<1>6. /\ refresh' \in Refreshes /\ refresh'.at = "asked"
      /\ refresh'.token = refresh.token /\ refresh'.timer = refresh.timer
  BY DEF DeniedWaits, WebInv, WebTyped, Refreshes
<1>7. WebTyped'
  BY <1>4, <1>5, <1>6 DEF WebInv, WebTyped
<1>8. RefreshOK'
  BY <1>5, <1>6 DEF DeniedWaits, WebInv, WebTyped, RefreshOK, Refreshes
<1>9. ASSUME NEW j \in Keys PROVE CallOK(calls[j])'
  <2>1. CASE j = k
    BY <1>1, <1>2, <1>4, <1>5, <1>6, <2>1 DEF CallOK, DeniedWaits
  <2>2. CASE j # k
    BY <1>4, <1>5, <1>6, <2>2 DEF WebInv, CallOK
  <2>3. QED
    BY <2>1, <2>2
<1>10. \A h \in Hooks : Fresh(h)'
  BY <1>2, <1>4, <1>5, FreshStands DEF WebInv
<1>11. QED
  BY <1>7, <1>8, <1>9, <1>10 DEF WebInv

-----------------------------------------------------------------------------
LEMMA InvChange ==
  ASSUME WebInv, NEW h \in Hooks, Change(h)
  PROVE  WebInv'
<1>1. PICK n \in Runs : n = hooks[h].run + 1
  BY DEF Change
<1>2. n \in 1 .. MaxRuns /\ MaxRuns \in Nat
  BY WebAssumption DEF Runs
<1>3. hooks \in [Hooks -> States] /\ calls \in [Keys -> Calls] /\ stored \in Nat /\ minted \in Nat
  BY DEF WebInv, WebTyped
<1> DEFINE k == <<h, n>>
           sent == Sent(calls[k], stored, FALSE)
<1>4. k \in Keys
  BY DEF Keys
<1>5. /\ sent \in Calls /\ sent.at = "sent" /\ sent.used = stored /\ sent.again = FALSE
      /\ sent.first = stored
  BY <1>3, <1>4, SentTyped
<1>6. UNCHANGED <<minted, accepted, stored, refresh>>
  BY DEF Change
<1>7. ASSUME NEW j \in Keys
      PROVE  calls'[j] = IF j = k THEN sent
                         ELSE IF j = <<h, n - 1>> /\ h \in Signalled
                                  /\ calls[j].at \in {"sent", "denied", "answered"}
                         THEN Done ELSE calls[j]
  BY <1>1 DEF Change
<1>8. calls' = [j \in Keys |-> calls'[j]]
  BY DEF Change
<1> HIDE DEF sent
<1>9. calls'[k] = sent
  BY <1>4, <1>7
<1>10. \A j \in Keys : j # k => calls'[j] = calls[j] \/ (calls'[j] = Done /\ j = <<h, n - 1>>)
  BY <1>7
<1>11. calls' \in [Keys -> Calls]
  <2>1. \A j \in Keys : calls'[j] \in Calls
    BY <1>3, <1>5, <1>9, <1>10, DoneTyped
  <2>2. QED
    BY <1>8, <2>1
<1>12. hooks' = [hooks EXCEPT ![h] = [run |-> n, loading |-> TRUE, failed |-> FALSE,
                                      shown |-> hooks[h].shown]]
  BY <1>1, <1>3 DEF Change
<1>13. /\ hooks'[h].run = n /\ hooks'[h].loading = TRUE /\ hooks'[h].shown = hooks[h].shown
       /\ \A g \in Hooks : g # h => hooks'[g] = hooks[g]
  BY <1>3, <1>12
<1>14. hooks' \in [Hooks -> States]
  BY <1>2, <1>3, <1>12 DEF States
<1>15. \A g \in Hooks : hooks'[g].shown <= hooks'[g].run
  <2>1. \A g \in Hooks : hooks[g].shown <= hooks[g].run
    BY DEF WebInv, WebTyped
  <2>2. hooks'[h].shown <= hooks'[h].run
    BY <1>1, <1>2, <1>3, <1>13, <2>1 DEF States
  <2>3. QED
    BY <1>13, <2>1, <2>2
<1>16. WebTyped'
  BY <1>6, <1>11, <1>14, <1>15 DEF WebInv, WebTyped
<1>17. RefreshOK'
  BY <1>6 DEF WebInv, RefreshOK
<1>18. CallOK(sent)
  BY <1>3, <1>5 DEF WebInv, WebTyped, CallOK, Change
<1>19. ASSUME NEW j \in Keys PROVE CallOK(calls[j])'
  BY <1>6, <1>9, <1>10, <1>18, DoneOK DEF WebInv, CallOK
<1>20. Fresh(h)'
  BY <1>5, <1>9, <1>13 DEF Fresh
<1>21. ASSUME NEW g \in Hooks, g # h PROVE Fresh(g)'
  <2>1. hooks'[g] = hooks[g] /\ Fresh(g)
    BY <1>13, <1>21 DEF WebInv
  <2>2. \A m \in Runs : calls'[<<g, m>>] = calls[<<g, m>>]
    BY <1>10, <1>21 DEF Keys
  <2>3. hooks[g].run > 0 => hooks[g].run \in Runs
    BY <1>3 DEF States, Runs
  <2>4. QED
    BY <2>1, <2>2, <2>3 DEF Fresh
<1>22. QED
  BY <1>16, <1>17, <1>19, <1>20, <1>21 DEF WebInv

-----------------------------------------------------------------------------
LEMMA InvRefreshed ==
  ASSUME WebInv, Refreshed
  PROVE  WebInv'
<1> DEFINE t == minted + 1
<1>1. minted \in 1 .. MaxTokens /\ MaxTokens \in Nat /\ t \in 1 .. MaxTokens /\ minted < t
  BY WebAssumption DEF WebInv, WebTyped, Refreshed
<1>2. minted' = t /\ stored' = t /\ accepted' \subseteq 1 .. t /\ UNCHANGED hooks
  BY <1>1 DEF Refreshed, WebInv, WebTyped
<1>3. refresh' = [at |-> "settled", token |-> t, timer |-> TRUE]
  BY DEF Refreshed
<1>4. calls \in [Keys -> Calls] /\ \A j \in Keys : calls[j] \in Calls /\ CallOK(calls[j])
  BY DEF WebInv, WebTyped
<1> HIDE DEF t
<1>5. ASSUME NEW j \in Keys
       PROVE  LET c == Sent(calls[j], t, TRUE)
              IN  c \in Calls /\ c.at = "sent" /\ c.used = t /\ c.again = TRUE /\ c.first = calls[j].first
  <2>1. calls[j] \in Calls /\ t \in Nat /\ TRUE \in BOOLEAN
    BY <1>1, <1>4
  <2>2. QED
    BY <2>1, SentTyped
<1>6. ASSUME NEW j \in Keys
      PROVE  /\ calls[j].at # "waiting" => calls'[j] = calls[j]
             /\ calls[j].at = "waiting" => calls'[j] = Done \/ calls'[j] = Sent(calls[j], t, TRUE)
             /\ calls[j].at = "waiting" /\ calls'[j] = Done => ~Active(j)
  <2>1. calls'[j] = IF j \notin Waiting THEN calls[j]
                    ELSE IF Aborted(j) THEN Done ELSE Sent(calls[j], t, TRUE)
    BY DEF Refreshed, t
  <2>2. Sent(calls[j], t, TRUE) # Done
    BY <1>5, DoneTyped
  <2>3. QED
    BY <2>1, <2>2 DEF Waiting, Aborted
<1>7. \A j \in Keys : calls'[j] \in Calls
  BY <1>4, <1>6, <1>5, DoneTyped
<1>8. calls' \in [Keys -> Calls]
  <2>1. calls' = [j \in Keys |-> calls'[j]]
    BY DEF Refreshed, t
  <2>2. QED
    BY <1>7, <2>1
<1>9. refresh' \in Refreshes
  BY <1>1, <1>3 DEF Refreshes
<1>10. WebTyped'
  BY <1>1, <1>2, <1>8, <1>9 DEF WebInv, WebTyped
<1>11. RefreshOK'
  BY <1>1, <1>2, <1>3 DEF RefreshOK
<1>12. ASSUME NEW j \in Keys PROVE CallOK(calls[j])'
  <2>1. calls[j].used <= minted /\ calls[j].first <= minted /\ calls[j].used \in Nat /\ calls[j].first \in Nat
    BY <1>4 DEF CallOK, Calls
  <2>2. CASE calls[j].at # "waiting"
    <3>1. calls'[j] = calls[j] /\ CallOK(calls[j])
      BY <1>4, <1>6, <2>2
    <3>2. calls[j].used < t /\ calls[j].used <= minted' /\ calls[j].first <= minted'
      BY <1>1, <1>2, <2>1
    <3>3. refresh'.token = t
      BY <1>3
    <3>4. QED
      BY <2>2, <3>1, <3>2, <3>3 DEF CallOK
  <2>3. CASE calls[j].at = "waiting" /\ calls'[j] = Done
    BY <1>1, <1>2, <2>3, DoneTyped DEF CallOK
  <2>4. CASE calls'[j] = Sent(calls[j], t, TRUE)
    <3>1. /\ calls'[j].at = "sent" /\ calls'[j].used = t /\ calls'[j].again = TRUE
          /\ calls'[j].first = calls[j].first
      BY <1>5, <2>4
    <3>2. QED
      BY <1>1, <1>2, <2>1, <3>1 DEF CallOK
  <2>5. QED
    BY <1>6, <2>2, <2>3, <2>4
<1>13. \A j \in Keys : calls[j].at \notin {"none", "done"} =>
                          calls'[j].at \notin {"none", "done"} \/ ~Active(j)
  BY <1>6, <1>5
<1>14. \A h \in Hooks : Fresh(h)'
  BY <1>2, <1>8, <1>13, FreshStands DEF WebInv
<1>15. QED
  BY <1>10, <1>11, <1>12, <1>14 DEF WebInv

LEMMA InvRefreshFails ==
  ASSUME WebInv, NEW refused \in BOOLEAN, RefreshFails(refused)
  PROVE  WebInv'
<1>1. /\ calls \in [Keys -> Calls] /\ hooks \in [Hooks -> States]
      /\ minted \in Nat /\ stored \in 0 .. minted
  BY DEF WebInv, WebTyped
<1>2. /\ UNCHANGED <<minted, accepted>> /\ (stored' = stored \/ stored' = 0)
      /\ refresh' = [at |-> "settled", token |-> 0, timer |-> TRUE]
  BY DEF RefreshFails
<1>3. \A j \in Keys : calls'[j] = IF calls[j].at = "waiting" THEN Done ELSE calls[j]
  BY DEF RefreshFails, Waiting
<1>4. calls' \in [Keys -> Calls]
  <2>1. \A j \in Keys : calls'[j] \in Calls
    BY <1>1, <1>3, DoneTyped
  <2>2. calls' = [j \in Keys |-> calls'[j]]
    BY DEF RefreshFails
  <2>3. QED
    BY <2>1, <2>2
<1>5. ASSUME NEW h \in Hooks
      PROVE  /\ hooks'[h].run = hooks[h].run /\ hooks'[h].shown = hooks[h].shown
             /\ hooks'[h] \in States
             /\ \/ hooks'[h] = hooks[h] /\ \A j \in Keys : j[1] = h /\ Active(j) => calls[j].at # "waiting"
                \/ hooks'[h].loading = FALSE /\ hooks'[h].failed = TRUE
  <2> DEFINE failed == [run |-> hooks[h].run, loading |-> FALSE, failed |-> TRUE, shown |-> hooks[h].shown]
  <2>1. hooks'[h] = IF \E j \in Waiting : j[1] = h /\ Active(j) THEN failed ELSE hooks[h]
    BY DEF RefreshFails
  <2>2. hooks[h] \in States
    BY <1>1
  <2>3. CASE \E j \in Waiting : j[1] = h /\ Active(j)
    BY <2>1, <2>2, <2>3 DEF States
  <2>4. CASE ~ \E j \in Waiting : j[1] = h /\ Active(j)
    BY <2>1, <2>2, <2>4 DEF Waiting
  <2>5. QED
    BY <2>3, <2>4
<1>6. hooks' \in [Hooks -> States]
  <2>1. hooks' = [h \in Hooks |-> hooks'[h]]
    BY DEF RefreshFails
  <2>2. QED
    BY <1>5, <2>1
<1>7. \A h \in Hooks : hooks'[h].shown <= hooks'[h].run
  BY <1>5 DEF WebInv, WebTyped
<1>8. WebTyped'
  BY <1>1, <1>2, <1>4, <1>6, <1>7 DEF WebInv, WebTyped, Refreshes
<1>9. RefreshOK'
  BY <1>1, <1>2 DEF RefreshOK
<1>10. ASSUME NEW j \in Keys PROVE CallOK(calls[j])'
  <2>1. CASE calls[j].at = "waiting"
    BY <1>1, <1>2, <1>3, <2>1, DoneTyped DEF CallOK
  <2>2. CASE calls[j].at # "waiting"
    BY <1>2, <1>3, <2>2 DEF WebInv, CallOK
  <2>3. QED
    BY <2>1, <2>2
<1>11. ASSUME NEW h \in Hooks PROVE Fresh(h)'
  <2> DEFINE k == <<h, hooks[h].run>>
  <2>1. hooks[h].run > 0 => k \in Keys /\ k[1] = h /\ Active(k)
    BY <1>1 DEF States, Keys, Runs, Active
  <2>2. CASE hooks'[h] = hooks[h] /\ \A j \in Keys : j[1] = h /\ Active(j) => calls[j].at # "waiting"
    <3>1. hooks[h].run > 0 => calls'[k] = calls[k]
      BY <1>3, <2>1, <2>2
    <3>2. QED
      BY <2>2, <3>1 DEF WebInv, Fresh
  <2>3. CASE hooks'[h].loading = FALSE /\ hooks'[h].failed = TRUE
    BY <2>3 DEF Fresh
  <2>4. QED
    BY <1>5, <2>2, <2>3
<1>12. QED
  BY <1>8, <1>9, <1>10, <1>11 DEF WebInv

(* The other steps change no call and nothing that a page shows.           *)
LEMMA InvTokens ==
  ASSUME WebInv, UNCHANGED <<calls, hooks>>, WebTyped', RefreshOK', minted <= minted',
         \/ UNCHANGED refresh
         \/ refresh.at = "settled" /\ refresh'.at = "none"
  PROVE  WebInv'
<1>1. ASSUME NEW j \in Keys PROVE CallOK(calls[j])'
  <2>1. /\ calls[j].used \in Nat /\ calls[j].first \in Nat /\ minted \in Nat /\ minted' \in Nat
        /\ CallOK(calls[j])
    BY DEF WebInv, WebTyped, Calls
  <2>2. QED
    BY <2>1 DEF CallOK
<1>2. \A h \in Hooks : Fresh(h)'
  BY DEF WebInv, Fresh
<1>3. QED
  BY <1>1, <1>2 DEF WebInv

LEMMA InvRefreshResets == WebInv /\ RefreshResets => WebInv'
<1> SUFFICES ASSUME WebInv, RefreshResets PROVE WebInv'
  OBVIOUS
<1>1. UNCHANGED <<minted, accepted, stored, calls, hooks>> /\ refresh' = NoRefresh
  BY DEF RefreshResets, NextRefresh
<1>2. WebTyped' /\ minted <= minted'
  BY <1>1 DEF WebInv, WebTyped, NoRefresh, Refreshes
<1>3. RefreshOK' /\ refresh'.at = "none"
  BY <1>1, <1>2 DEF RefreshOK, NoRefresh, WebTyped
<1>4. refresh.at = "settled"
  BY DEF RefreshResets, WebInv, RefreshOK
<1>5. QED
  BY <1>1, <1>2, <1>3, <1>4, InvTokens

LEMMA InvAccounts ==
  ASSUME WebInv, Login \/ Logout \/ \E t \in accepted : Expires(t)
  PROVE  WebInv'
<1>1. UNCHANGED <<refresh, calls, hooks>>
  BY DEF Login, Logout, Expires
<1>2. minted \in 1 .. MaxTokens /\ MaxTokens \in Nat /\ stored \in 0 .. minted /\ accepted \subseteq 1 .. minted
  BY WebAssumption DEF WebInv, WebTyped
<1>3. /\ minted' \in 1 .. MaxTokens /\ minted <= minted' /\ accepted' \subseteq 1 .. minted'
      /\ stored' \in 0 .. minted' /\ (stored' = 0 \/ stored' = stored \/ stored' = minted + 1)
  <2>1. CASE Login
    BY <1>2, <2>1 DEF Login
  <2>2. CASE Logout
    BY <1>2, <2>2 DEF Logout
  <2>3. CASE \E t \in accepted : Expires(t)
    BY <1>2, <2>3 DEF Expires
  <2>4. QED
    BY <2>1, <2>2, <2>3
<1>4. WebTyped'
  BY <1>1, <1>3 DEF WebInv, WebTyped
<1>5. RefreshOK'
  BY <1>1, <1>2, <1>3 DEF WebInv, WebTyped, RefreshOK, Refreshes
<1>6. QED
  BY <1>1, <1>3, <1>4, <1>5, InvTokens

LEMMA WebInvStep == WebInv /\ [WebNext]_webVars => WebInv'
<1> SUFFICES ASSUME WebInv, [WebNext]_webVars PROVE WebInv'
  OBVIOUS
<1>1. CASE \E h \in Hooks : Change(h)
  BY <1>1, InvChange
<1>2. ASSUME NEW k \in Keys, Serve(k) PROVE WebInv'
  BY <1>2, InvServe
<1>3. ASSUME NEW k \in Keys, NEW ok \in BOOLEAN, Arrives(k, ok) PROVE WebInv'
  BY <1>3, InvSettles DEF Arrives
<1>4. ASSUME NEW k \in Keys, DeniedFails(k) PROVE WebInv'
  BY <1>4, InvSettles DEF DeniedFails
<1>5. ASSUME NEW k \in Keys, DeniedWaits(k) PROVE WebInv'
  BY <1>5, InvWaits
<1>6. ASSUME NEW k \in Keys, DeniedRetries(k) PROVE WebInv'
  BY <1>6, InvRetries
<1>7. CASE Refreshed
  BY <1>7, InvRefreshed
<1>8. CASE \E refused \in BOOLEAN : RefreshFails(refused)
  BY <1>8, InvRefreshFails
<1>9. CASE RefreshResets
  BY <1>9, InvRefreshResets
<1>10. CASE Login \/ Logout \/ \E t \in accepted : Expires(t)
  BY <1>10, InvAccounts
<1>11. CASE UNCHANGED webVars
  BY <1>11, InvTokens DEF webVars, WebInv, WebTyped, RefreshOK
<1>12. QED
  BY <1>1, <1>2, <1>3, <1>4, <1>5, <1>6, <1>7, <1>8, <1>9, <1>10, <1>11 DEF WebNext

-----------------------------------------------------------------------------
LEMMA WebInvAlways == WebSpec => []WebInv
<1>1. WebInit => WebInv
  BY WebInvInit
<1>2. WebInv /\ [WebNext]_webVars => WebInv'
  BY WebInvStep
<1>3. QED
  BY <1>1, <1>2, PTL DEF WebSpec

(* Tokens are ones that were issued, and requests wait for a refresh only  *)
(* while one is asked for (refreshAccessToken of lib/api.ts).              *)
THEOREM ClientWellFormed == WebSpec => []WebTypeOK
<1>1. WebInv => WebTypeOK
  <2> SUFFICES ASSUME WebInv PROVE WebTypeOK
    OBVIOUS
  <2>1. Waiting # {} => refresh.at = "asked"
    BY DEF WebInv, Waiting, CallOK
  <2>2. refresh.at \in {"none", "asked", "settled"}
    BY DEF WebInv, WebTyped, Refreshes
  <2>3. ASSUME NEW h \in Hooks
        PROVE  hooks[h].run \in 0 .. MaxRuns /\ hooks[h].shown \in 0 .. hooks[h].run
    <3>1. hooks[h] \in States /\ hooks[h].shown <= hooks[h].run
      BY DEF WebInv, WebTyped
    <3>2. QED
      BY <3>1, WebAssumption DEF States
  <2>4. QED
    BY <2>1, <2>2, <2>3 DEF WebInv, WebTyped, WebTypeOK
<1>2. QED
  BY <1>1, WebInvAlways, PTL

(* A retry after a 401 never repeats the token that was denied, however    *)
(* refreshes, logins and logouts come between (api.ts, "let the next 401   *)
(* start a fresh attempt").                                                *)
THEOREM DeniedTokensAreNotRepeated == WebSpec => []RetryWithNewToken
<1>1. WebInv => RetryWithNewToken
  BY DEF WebInv, CallOK, RetryWithNewToken
<1>2. QED
  BY <1>1, WebInvAlways, PTL

(* A page that neither loads nor shows an error shows the answer to the    *)
(* latest change of its dependencies, in whatever order answers arrive     *)
(* (useAsync of lib/hooks.ts).                                             *)
THEOREM LatestAnswersAreShown == WebSpec => []FreshAnswerShown
<1>1. WebInv => FreshAnswerShown
  BY DEF WebInv, Fresh, FreshAnswerShown
<1>2. QED
  BY <1>1, WebInvAlways, PTL
=============================================================================
