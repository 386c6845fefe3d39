------------------------------ MODULE WebClient ------------------------------
(***************************************************************************)
(* The web client: requests that carry the stored access token and, on a   *)
(* 401, share one refresh of it (lib/api.ts), the hook that loads what a   *)
(* page shows (useAsync of lib/hooks.ts), login and logout (lib/auth.tsx). *)
(*                                                                         *)
(* The browser runs one task at a time: a step is a task with the          *)
(* microtasks it leaves, and ends where a fetch or a timer is waited for.  *)
(* Tokens are numbered as they are issued; the server may stop accepting   *)
(* one at any time, and answers requests in any order.                     *)
(***************************************************************************)
EXTENDS Integers

CONSTANTS
  Hooks,      \* mounted uses of useAsync
  Signalled,  \* those whose loader passes the abort signal on
  MaxRuns,    \* times the dependencies of each change (a bound)
  MaxTokens   \* tokens issued (a bound)

ASSUME WebAssumption == Signalled \subseteq Hooks /\ MaxRuns \in Nat /\ MaxTokens \in Nat \ {0}

VARIABLES
  minted,    \* tokens issued so far
  accepted,  \* access tokens the server accepts
  stored,    \* the tokens in localStorage, 0 for none
  refresh,   \* refreshInFlight
  calls,     \* per hook and run: the request
  hooks      \* per hook: the state of useAsync

webVars == <<minted, accepted, stored, refresh, calls, hooks>>

Runs == 1 .. MaxRuns

(* A request: whose it is, and of which run. *)
Keys == Hooks \X Runs

NoCall == [at |-> "none", used |-> 0, first |-> 0, again |-> FALSE]

NoRefresh == [at |-> "none", token |-> 0, timer |-> FALSE]

WebInit ==
  /\ minted = 1
  /\ accepted = {1}
  /\ stored = 1
  /\ refresh = NoRefresh
  /\ calls = [k \in Keys |-> NoCall]
  /\ hooks = [h \in Hooks |-> [run |-> 0, loading |-> TRUE, failed |-> FALSE, shown |-> 0]]

(* [Mutant of Active] the effect's cleanup is missing.                     *)
ActiveAlways(k) == k \in Keys

(* `active`: the effect has not been cleaned up by a later one.            *)
Active(k) == hooks[k[1]].run = k[2]

(* The promise of a run settles. *)
Settle(k, ok) ==
  hooks' = IF Active(k)
           THEN [hooks EXCEPT ![k[1]] = [run |-> @.run, loading |-> FALSE, failed |-> ~ok,
                                         shown |-> IF ok THEN k[2] ELSE @.shown]]
           ELSE hooks

Done == [at |-> "done", used |-> 0, first |-> 0, again |-> FALSE]

(* fetch with what is in localStorage. *)
Sent(call, token, again) == [at |-> "sent", used |-> token, again |-> again,
                             first |-> IF again THEN call.first ELSE token]

(* The fetch, or its retry, of an aborted signal rejects. *)
Aborted(k) == k[1] \in Signalled /\ ~Active(k)

-----------------------------------------------------------------------------
(* The dependencies change: the effect is cleaned up and runs anew.        *)
Change(h) ==
  LET n == hooks[h].run + 1
  IN  /\ n \in Runs
      /\ hooks' = [hooks EXCEPT ![h] = [run |-> n, loading |-> TRUE, failed |-> FALSE, shown |-> @.shown]]
      /\ calls' = [k \in Keys |->
                     IF k = <<h, n>> THEN Sent(calls[k], stored, FALSE)
                     ELSE IF k = <<h, n - 1>> /\ h \in Signalled /\ calls[k].at \in {"sent", "denied", "answered"}
                     THEN Done
                     ELSE calls[k]]
      /\ UNCHANGED <<minted, accepted, stored, refresh>>

(* The server judges a request by its token.  A timer without a delay      *)
(* fires before the answer to a request that was sent after it was set.    *)
Serve(k) ==
  /\ calls[k].at = "sent"
  /\ refresh.timer => calls[k].used < refresh.token \/ refresh.token = 0
  /\ calls' = [calls EXCEPT ![k].at = IF calls[k].used \in accepted THEN "answered" ELSE "denied"]
  /\ UNCHANGED <<minted, accepted, stored, refresh, hooks>>

(* An answer arrives; it may be an error, and so may a fetch.              *)
Arrives(k, ok) ==
  /\ calls[k].at = "answered" \/ (~ok /\ calls[k].at = "sent")
  /\ calls' = [calls EXCEPT ![k] = Done]
  /\ Settle(k, ok)
  /\ UNCHANGED <<minted, accepted, stored, refresh>>

(* A 401: of a retry, or with no tokens, it is an error.  Otherwise the    *)
(* refresh is started or joined; one that has settled answers at once.     *)
DeniedFails(k) ==
  /\ calls[k].at = "denied"
  /\ calls[k].again \/ stored = 0 \/ (refresh.at = "settled" /\ refresh.token = 0)
  /\ calls' = [calls EXCEPT ![k] = Done]
  /\ Settle(k, FALSE)
  /\ UNCHANGED <<minted, accepted, stored, refresh>>

DeniedWaits(k) ==
  /\ calls[k].at = "denied"
  /\ ~calls[k].again /\ stored # 0 /\ refresh.at # "settled"
  /\ calls' = [calls EXCEPT ![k].at = "waiting"]
  /\ refresh' = [refresh EXCEPT !.at = "asked"]
  /\ UNCHANGED <<minted, accepted, stored, hooks>>

DeniedRetries(k) ==
  /\ calls[k].at = "denied"
  /\ ~calls[k].again /\ stored # 0 /\ refresh.at = "settled" /\ refresh.token # 0
  /\ calls' = [calls EXCEPT ![k] = IF Aborted(k) THEN Done ELSE Sent(@, stored, TRUE)]
  /\ UNCHANGED <<minted, accepted, stored, refresh, hooks>>

-----------------------------------------------------------------------------
Waiting == {k \in Keys : calls[k].at = "waiting"}

(* [Mutant of NextRefresh] the promise is kept, and answers every 401.      *)
KeptRefresh == [refresh EXCEPT !.timer = FALSE]

(* The timer of `finally` lets the next 401 start a fresh attempt.         *)
NextRefresh == NoRefresh

(* The refresh is answered: the new tokens are stored, and all who wait    *)
(* send again.                                                             *)
Refreshed ==
  /\ refresh.at = "asked"
  /\ minted < MaxTokens
  /\ minted' = minted + 1
  /\ accepted' = accepted \cup {minted + 1}
  /\ stored' = minted + 1
  /\ refresh' = [at |-> "settled", token |-> minted + 1, timer |-> TRUE]
  /\ calls' = [k \in Keys |->
                 IF k \notin Waiting THEN calls[k]
                 ELSE IF Aborted(k) THEN Done
                 ELSE Sent(calls[k], minted + 1, TRUE)]
  /\ UNCHANGED hooks

(* It is refused, which signs the user out, or the server is not reached.  *)
RefreshFails(refused) ==
  /\ refresh.at = "asked"
  /\ stored' = IF refused THEN 0 ELSE stored
  /\ refresh' = [at |-> "settled", token |-> 0, timer |-> TRUE]
  /\ calls' = [k \in Keys |-> IF k \in Waiting THEN Done ELSE calls[k]]
  /\ hooks' = [h \in Hooks |-> IF \E k \in Waiting : k[1] = h /\ Active(k)
                               THEN [run |-> hooks[h].run, loading |-> FALSE, failed |-> TRUE,
                                     shown |-> hooks[h].shown]
                               ELSE hooks[h]]
  /\ UNCHANGED <<minted, accepted>>

RefreshResets ==
  /\ refresh.timer
  /\ refresh' = NextRefresh
  /\ UNCHANGED <<minted, accepted, stored, calls, hooks>>

-----------------------------------------------------------------------------
(* A token expires. *)
Expires(t) ==
  /\ t \in accepted
  /\ accepted' = accepted \ {t}
  /\ UNCHANGED <<minted, stored, refresh, calls, hooks>>

Login ==
  /\ minted < MaxTokens
  /\ minted' = minted + 1
  /\ accepted' = accepted \cup {minted + 1}
  /\ stored' = minted + 1
  /\ UNCHANGED <<refresh, calls, hooks>>

(* logout, and a failure of loadUser, forget the tokens. *)
Logout ==
  /\ stored # 0
  /\ stored' = 0
  /\ UNCHANGED <<minted, accepted, refresh, calls, hooks>>

WebNext ==
  \/ \E h \in Hooks : Change(h)
  \/ \E k \in Keys :
       \/ Serve(k) \/ \E ok \in BOOLEAN : Arrives(k, ok)
       \/ DeniedFails(k) \/ DeniedWaits(k) \/ DeniedRetries(k)
  \/ Refreshed \/ \E refused \in BOOLEAN : RefreshFails(refused)
  \/ RefreshResets
  \/ \E t \in accepted : Expires(t)
  \/ Login \/ Logout

WebSpec == WebInit /\ [][WebNext]_webVars

-----------------------------------------------------------------------------
(* Tokens are ones that were issued, and only one refresh is waited for.   *)
WebTypeOK ==
  /\ minted \in 1 .. MaxTokens /\ stored \in 0 .. minted /\ accepted \subseteq 1 .. minted
  /\ refresh.at \in {"none", "asked", "settled"}
  /\ Waiting # {} => refresh.at = "asked"
  /\ \A h \in Hooks : hooks[h].run \in 0 .. MaxRuns /\ hooks[h].shown \in 0 .. hooks[h].run

(* "A slow response can't overwrite a fast one" (useAsync): once a page is *)
(* not loading and shows no error, it shows the answer to the latest       *)
(* change; while it is loading, that answer is on its way.                 *)
FreshAnswerShown ==
  \A h \in Hooks : hooks[h].run > 0 =>
    IF hooks[h].loading THEN calls[<<h, hooks[h].run>>].at \notin {"none", "done"}
                        ELSE hooks[h].failed \/ hooks[h].shown = hooks[h].run

(* "Let the next 401 start a fresh attempt" (refreshAccessToken): a retry  *)
(* never repeats the token that was denied, whatever refreshes, logins and *)
(* logouts come between the 401 and the retry.                             *)
RetryWithNewToken ==
  \A k \in Keys : calls[k].again => calls[k].used # calls[k].first
=============================================================================
