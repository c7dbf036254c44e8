----------------------------- MODULE WebSession -----------------------------
(***************************************************************************)
(* One opening of the WebApp inside Telegram: the provider that waits for  *)
(* the SDK and its initData and asks the server once whether the user may  *)
(* enter (TelegramProvider.tsx), the client that sends every call of a     *)
(* page (api.ts: a 401 or 403 clears the stored login and reloads "/"),    *)
(* and the guards that answer. initData is valid for a while after it was  *)
(* signed and is never renewed; the account behind it may lose its link,   *)
(* its activity or its role at any time.                                   *)
(***************************************************************************)
EXTENDS Integers, FiniteSets

CONSTANTS
  MaxPolls,        \* INIT_DATA_RETRY_COUNT
  MaxOpens,        \* pages the user opens from the home page (bound)
  MaxChanges       \* changes of the account (bound)

ASSUME SessionAssumption == MaxPolls \in Nat /\ MaxOpens \in Nat /\ MaxChanges \in Nat

VARIABLES
  sdk,        \* window.Telegram.WebApp and its initData
  valid,      \* initData is younger than the server accepts
  account,    \* role of the active user linked to this Telegram id
  changes,
  stage,      \* of the provider's first effect
  polls,      \* retries
  entered,    \* what it has found: hasTelegramEnv, hasInitData
  check,      \* authCheck, and "asked" once the server has been asked
  webPage,    \* the page in front
  sent,       \* calls of the page on their way
  opens, reloads

sessionVars == <<sdk, valid, account, changes, stage, polls, entered, check,
                 webPage, sent, opens, reloads>>

Accounts == {"none", "master", "driver", "boss"}

\* Pages, and who may make their calls: the list and the wallet, the new order
\* (createDraft), and the courier's page, which has a fetch of its own.
WebPages == {"lists", "new-order", "driver-order"}
Roles(p) == IF p = "new-order" THEN {"master", "boss"} ELSE {"master", "driver", "boss"}

SessionTypeOK ==
  /\ sdk \in {"absent", "empty", "data"}
  /\ valid \in BOOLEAN
  /\ account \in Accounts
  /\ changes \in 0..MaxChanges
  /\ stage \in {"closed", "wait", "poll", "ready"}
  /\ polls \in 0..MaxPolls
  /\ entered \in {"no", "env", "data"}
  /\ check \in {"idle", "loading", "ok", "denied"}
  /\ webPage \in WebPages \cup {"home"}
  /\ sent \in 0..2
  /\ opens \in 0..MaxOpens /\ reloads \in 0..(MaxOpens + 1)

SessionInit ==
  /\ sdk \in {"absent", "empty", "data"}
  /\ valid \in BOOLEAN
  /\ account \in Accounts
  /\ changes = 0
  /\ stage = "closed"
  /\ polls = 0
  /\ entered = "no"
  /\ check = "idle"
  /\ webPage = "home"
  /\ sent = 0
  /\ opens = 0 /\ reloads = 0

page == <<webPage, sent, opens, reloads>>
-----------------------------------------------------------------------------
(* Around the app.                                                         *)

\* The SDK's script, and initData in it, may come late.
SdkLoads ==
  /\ \/ sdk = "absent" /\ sdk' = "empty"
     \/ sdk = "empty" /\ sdk' = "data"
  /\ UNCHANGED <<valid, account, changes, stage, polls, entered, check, page>>

\* maxAgeSec and the tolerance for skew have passed since auth_date.
Expires ==
  /\ valid
  /\ valid' = FALSE
  /\ UNCHANGED <<sdk, account, changes, stage, polls, entered, check, page>>

\* /logout in the bot, a login on another account, the boss's updateUser.
AccountChanges(a) ==
  /\ changes < MaxChanges
  /\ a # account
  /\ account' = a
  /\ changes' = changes + 1
  /\ UNCHANGED <<sdk, valid, stage, polls, entered, check, page>>
-----------------------------------------------------------------------------
(* The guards: TelegramInitDataService.validate, getUserByTgId, RolesGuard. *)

\* WebAppOrJwtGuard and MasterAuthGuard, for a call with initData alone.
Allowed(roles) == valid /\ account \in roles
-----------------------------------------------------------------------------
(* TelegramProvider.                                                       *)

Finish(found) ==
  /\ stage' = "ready"
  /\ entered' = found

\* The user opens the app from the bot: the first effect sets its timer.
OpenApp ==
  /\ stage = "closed"
  /\ stage' = "wait"
  /\ UNCHANGED <<sdk, valid, account, changes, polls, entered, check, page>>

\* The timer of SDK_WAIT_MS.
SdkWaited ==
  /\ stage = "wait"
  /\ CASE sdk = "data" -> Finish("data")
       [] sdk = "empty" -> stage' = "poll" /\ entered' = "env"
       [] sdk = "absent" -> Finish("no")
  /\ UNCHANGED <<sdk, valid, account, changes, polls, check, page>>

\* Mutant: one poll too many.
Poll_OneMore ==
  /\ stage = "poll"
  /\ IF polls > MaxPolls
     THEN Finish("env") /\ UNCHANGED polls
     ELSE /\ polls' = polls + 1
          /\ IF sdk = "data" THEN Finish("data") ELSE UNCHANGED <<stage, entered>>
  /\ UNCHANGED <<sdk, valid, account, changes, check, page>>

\* Mutant: a poll that finds nothing is not counted.
Poll_Uncounted ==
  /\ stage = "poll"
  /\ IF polls >= MaxPolls THEN Finish("env") /\ UNCHANGED polls
     ELSE IF sdk = "data" THEN polls' = polls + 1 /\ Finish("data")
     ELSE UNCHANGED <<polls, stage, entered>>
  /\ UNCHANGED <<sdk, valid, account, changes, check, page>>

Poll ==
  /\ stage = "poll"
  /\ IF polls >= MaxPolls
     THEN Finish("env") /\ UNCHANGED polls
     ELSE /\ polls' = polls + 1
          /\ IF sdk = "data" THEN Finish("data") ELSE UNCHANGED <<stage, entered>>
  /\ UNCHANGED <<sdk, valid, account, changes, check, page>>

\* isTelegram, as of the end of the first effect.
CheckStarts ==
  /\ stage = "ready"
  /\ entered = "data"
  /\ check = "idle"
  /\ check' = "loading"
  /\ UNCHANGED <<sdk, valid, account, changes, stage, polls, entered, page>>

\* window.location.href = "/": everything on the page is gone, the SDK stays.
Reloads ==
  /\ reloads' = reloads + 1
  /\ stage' = "wait"
  /\ polls' = 0
  /\ entered' = "no"
  /\ check' = "idle"
  /\ webPage' = "home"
  /\ sent' = 0

\* Mutant: the check goes through apiFetch and its handler.
CheckAnswered_Reloads(served) ==
  /\ check = "loading"
  /\ reloads <= MaxOpens
  /\ IF served /\ Allowed({"master", "driver", "boss"})
     THEN check' = "ok" /\ UNCHANGED <<stage, polls, entered, page>>
     ELSE Reloads /\ UNCHANGED opens
  /\ UNCHANGED <<sdk, valid, account, changes>>

\* checkWebAppAuth: refused or failed, the handler of 401 is not called.
CheckAnswered(served) ==
  /\ check = "loading"
  /\ check' = IF served /\ Allowed({"master", "driver", "boss"}) THEN "ok" ELSE "denied"
  /\ UNCHANGED <<sdk, valid, account, changes, stage, polls, entered, page>>
-----------------------------------------------------------------------------
(* The pages, which the provider renders once the check is ok.             *)

\* A link of the home page, which makes no call itself. A page begins with one
\* or two calls (the new order with its lists).
OpenPage(p) ==
  /\ check = "ok"
  /\ webPage = "home"
  /\ opens < MaxOpens
  /\ opens' = opens + 1
  /\ webPage' = p
  /\ sent' = IF p = "new-order" THEN 2 ELSE 1
  /\ UNCHANGED <<sdk, valid, account, changes, stage, polls, entered, check, reloads>>

PageCalls ==
  /\ webPage # "home"
  /\ sent < 2
  /\ sent' = sent + 1
  /\ UNCHANGED <<sdk, valid, account, changes, stage, polls, entered, check,
                 webPage, opens, reloads>>

GoHome ==
  /\ webPage # "home"
  /\ webPage' = "home"
  /\ sent' = 0
  /\ UNCHANGED <<sdk, valid, account, changes, stage, polls, entered, check, opens, reloads>>

\* apiFetch: served, failed, or refused with the reload; driver/order/[id]
\* shows a refusal as an error.
CallAnswered(served) ==
  /\ sent > 0
  /\ IF served /\ ~Allowed(Roles(webPage)) /\ webPage # "driver-order"
     THEN Reloads /\ UNCHANGED opens
     ELSE /\ sent' = sent - 1
          /\ UNCHANGED <<stage, polls, entered, check, webPage, opens, reloads>>
  /\ UNCHANGED <<sdk, valid, account, changes>>

SessionNext ==
  \/ SdkLoads \/ Expires
  \/ \E a \in Accounts : AccountChanges(a)
  \/ OpenApp \/ SdkWaited \/ Poll \/ CheckStarts
  \/ \E served \in BOOLEAN : CheckAnswered(served) \/ CallAnswered(served)
  \/ \E p \in WebPages : OpenPage(p)
  \/ PageCalls \/ GoHome

\* The check of the session goes on by itself, one of these at a time.
CheckGoesOn ==
  \/ SdkWaited \/ Poll \/ CheckStarts
  \/ \E served \in BOOLEAN : CheckAnswered(served)

\* Timers of the page fire, effects run, and a fetch is answered or fails.
SessionFairness == WF_sessionVars(CheckGoesOn)

SessionSpec == SessionInit /\ [][SessionNext]_sessionVars /\ SessionFairness
-----------------------------------------------------------------------------
\* The app reloads itself only after the user has opened a page, once for each:
\* an account that is refused everywhere ends on "log in in the bot", not in a
\* loop through "/" (setSessionExpiredHandler, checkWebAppAuth).
ReloadsBounded == reloads <= opens

\* The spinner ends: the app, the way into it or the reason why not
\* (TelegramProvider's first effect and check).
Settled ==
  \/ stage = "closed"
  \/ stage = "ready" /\ (entered = "data" => check \in {"ok", "denied"})
SpinnerEnds == []<>Settled
=============================================================================
