----------------------------- MODULE ErpSession -----------------------------
(***************************************************************************)
(* One browser tab of the boss in the ERP: the two cookies of the session  *)
(* (erp_token for an hour, erp_refresh for seven days), the routes under   *)
(* /api/auth that set, read and clear them, the proxy that renews the      *)
(* token once when the backend answers 401, the client that logs out on a  *)
(* 401, useAuth in the layout and in the subscription guard, and the poll  *)
(* of tenant-status. Time is a count of ticks left.                        *)
(***************************************************************************)
EXTENDS Integers, FiniteSets

CONSTANTS
  AccessTime, RefreshTime,   \* maxAge of the cookies, and exp of their tokens
  MaxClock,                  \* ticks (bound)
  MaxBroken                  \* requests that fail on their way (bound)

ASSUME ErpAssumption ==
  /\ AccessTime \in Nat \ {0}
  /\ RefreshTime \in Nat /\ AccessTime <= RefreshTime
  /\ MaxClock \in Nat /\ MaxBroken \in Nat

VARIABLES
  clock, broken,
  access, renewal,    \* ticks left of erp_token and erp_refresh, 0: no cookie
  bossActive,         \* User.is_active of the boss
  front,              \* the route in front
  authed,             \* isAuthenticated of the layout's useAuth
  known,              \* `user' of the hooks below it: SubscriptionGuard, useSubscription
  asked,              \* status and me on their way: the cookies they carry
  calls,              \* calls through the proxy
  leaving,            \* logout()
  left                \* ticks since logout() left the page, until the next login

erpVars == <<clock, broken, access, renewal, bossActive, front, authed, known,
             asked, calls, leaving, left>>

cookies == <<access, renewal, left>>
around == <<clock, broken, bossActive>>
screen == <<front, authed, known, asked>>

\* /api/auth/status, which the layout asks first and the hooks below it once it
\* is known, and /api/auth/me.
Checks == {"status", "me"}

\* The poll of tenant-status, and a write of the page in front. (What a page
\* reads goes the way of the poll.)
Senders == {"poll", "write"}
Stages == {"sent", "refused", "again", "answered", "401"}
NoSend == [at |-> "none"]
Sends == [at : Stages, token : 0..AccessTime, renew : 0..RefreshTime,
          sets : 0..AccessTime, ran : 0..2]

ErpTypeOK ==
  /\ clock \in 0..MaxClock /\ broken \in 0..MaxBroken
  /\ access \in 0..AccessTime /\ renewal \in 0..RefreshTime
  /\ bossActive \in BOOLEAN /\ known \in BOOLEAN
  /\ front \in {"login", "page"}
  /\ authed \in {"unknown", "yes"}
  /\ asked \in [Checks -> {"none", "with", "without"}]
  /\ calls \in [Senders -> {NoSend} \cup Sends]
  /\ leaving \in {"no", "sent", "cleared"}
  /\ left \in -1..MaxClock

NotAsked == [c \in Checks |-> "none"]
NotSent == [s \in Senders |-> NoSend]

ErpInit ==
  /\ clock = 0 /\ broken = 0
  /\ access = 0 /\ renewal = 0
  /\ bossActive = TRUE
  /\ front = "login"
  /\ authed = "unknown" /\ known = FALSE
  /\ asked = NotAsked
  /\ calls = NotSent
  /\ leaving = "no"
  /\ left = -1
-----------------------------------------------------------------------------
(* Time, the account, the network.                                         *)

Less(n) == IF n > 0 THEN n - 1 ELSE 0

Ticks ==
  /\ clock < MaxClock
  /\ clock' = clock + 1
  /\ access' = Less(access) /\ renewal' = Less(renewal)
  /\ left' = IF left >= 0 THEN left + 1 ELSE left
  /\ calls' = [s \in Senders |->
                 IF calls[s] = NoSend THEN NoSend
                 ELSE [calls[s] EXCEPT !.token = Less(@), !.renew = Less(@),
                                       !.sets = Less(@)]]
  /\ UNCHANGED <<broken, bossActive, screen, leaving>>

\* updateUser with is_active: false (toggleUserActive refuses a boss).
BossDeactivated ==
  /\ bossActive
  /\ bossActive' = FALSE
  /\ UNCHANGED <<clock, broken, cookies, screen, calls, leaving>>

Breaks ==
  /\ broken < MaxBroken
  /\ broken' = broken + 1
  /\ UNCHANGED <<clock, bossActive>>
-----------------------------------------------------------------------------
(* Routes.                                                                 *)

Cookie == IF access > 0 THEN "with" ELSE "without"

\* A soft navigation: the page changes, what is on its way stays.
ToLogin == front' = "login" /\ authed' = "unknown" /\ known' = FALSE /\ asked' = NotAsked

ToPage ==
  /\ front' = "page"
  /\ authed' = "unknown" /\ known' = FALSE
  /\ asked' = [NotAsked EXCEPT !["status"] = Cookie']

\* POST /api/auth/login, then router.replace.
Login ==
  /\ front = "login" /\ leaving # "cleared"
  /\ bossActive
  /\ access' = AccessTime /\ renewal' = RefreshTime
  /\ left' = -1
  /\ ToPage
  /\ UNCHANGED <<around, calls, leaving>>

\* middleware: the prefixes it protects need erp_token; /masters and
\* /suppliers are not among them.
Opens(protected) ==
  IF protected /\ access = 0 THEN ToLogin ELSE ToPage

\* The page is unloaded: what is on its way is gone.
Left ==
  /\ calls' = NotSent
  /\ leaving' = "no"
  /\ left' = IF leaving = "cleared" THEN 0 ELSE left

\* An address typed, or the tab reloaded.
HardLoad(protected) ==
  /\ Left
  /\ UNCHANGED <<access, renewal>>
  /\ Opens(protected)
  /\ UNCHANGED around

\* A link of the sidebar: every useAuth asks again.
Visit(protected) ==
  /\ front = "page" /\ authed = "yes"
  /\ IF protected /\ access = 0 THEN ToLogin
     ELSE /\ asked' = [status |-> Cookie, me |-> IF known THEN Cookie ELSE asked["me"]]
          /\ UNCHANGED <<front, authed, known>>
  /\ UNCHANGED <<around, cookies, calls, leaving>>
-----------------------------------------------------------------------------
(* useAuth.                                                                *)

\* status answered: the layout knows, and mounts the hooks, which ask again and
\* then ask me; any other answer sends the page to /login.
StatusAnswered ==
  /\ asked["status"] # "none"
  /\ \/ /\ asked["status"] = "with"
        /\ authed' = "yes"
        /\ asked' = IF authed = "unknown" THEN [asked EXCEPT !["status"] = Cookie]
                    ELSE [status |-> "none", me |-> IF known THEN asked["me"] ELSE Cookie]
        /\ UNCHANGED <<around, front, known>>
     \/ asked["status"] = "without" /\ ToLogin /\ UNCHANGED around
     \/ ToLogin /\ Breaks
  /\ UNCHANGED <<cookies, calls, leaving>>

\* me answered; without its cookie, or broken, the user is not known.
MeAnswered ==
  /\ \/ asked["me"] # "none" /\ known' = (asked["me"] = "with") /\ UNCHANGED around
     \/ asked["me"] # "none" /\ known' = FALSE /\ Breaks
  /\ asked' = [asked EXCEPT !["me"] = "none"]
  /\ UNCHANGED <<front, authed, cookies, calls, leaving>>
-----------------------------------------------------------------------------
(* The client and the proxy.                                               *)

\* api(): the poll runs while the user is known; a write has a body.
Send(s) ==
  /\ front = "page" /\ authed = "yes"
  /\ calls[s] = NoSend
  /\ s = "poll" => known
  /\ calls' = [calls EXCEPT ![s] =
       [at |-> "sent", token |-> access, renew |-> renewal,
        sets |-> 0, ran |-> 0]]
  /\ UNCHANGED <<around, cookies, screen, leaving>>

At(s, stage) == calls[s] # NoSend /\ calls[s].at = stage

\* What a request needs no more is forgotten.
Moves(s, c) ==
  calls' = [calls EXCEPT ![s] =
    [c EXCEPT !.token = IF c.at = "again" THEN @ ELSE 0,
              !.renew = IF c.at = "refused" THEN @ ELSE 0]]

\* JwtStrategy.validate, and the handler behind it: "answered" is any answer but
\* a 401, also that of a handler that ran and failed.
Carried(c, at) == IF c.token > 0 /\ bossActive THEN [c EXCEPT !.at = at, !.ran = @ + 1]
               ELSE [c EXCEPT !.at = "refused"]

\* Mutant: the proxy tries again after every error, not only after a 401.
Backend_AnyError(s) ==
  /\ At(s, "sent")
  /\ \E at \in {"answered", "refused"} : Moves(s, Carried(calls[s], at))
  /\ UNCHANGED <<around, cookies, screen, leaving>>

Backend(s) ==
  /\ At(s, "sent")
  /\ Moves(s, Carried(calls[s], "answered"))
  /\ UNCHANGED <<around, cookies, screen, leaving>>

\* doRefresh, with the cookies of the request: it may fail for other reasons
\* than the cookie's, and the answer is a 401 all the same.
Refresh(s) ==
  /\ At(s, "refused")
  /\ \/ /\ calls[s].renew > 0 /\ bossActive
        /\ Moves(s, [calls[s] EXCEPT !.at = "again", !.token = AccessTime])
        /\ UNCHANGED around
     \/ /\ Moves(s, [calls[s] EXCEPT !.at = "401"])
        /\ \/ (calls[s].renew = 0 \/ ~bossActive) /\ UNCHANGED around
           \/ Breaks
  /\ UNCHANGED <<cookies, screen, leaving>>

\* The second proxy(), retried = true. The body has been read by the first:
\* fetch throws. Any other answer takes the new cookie with it.
Again(s) ==
  /\ At(s, "again")
  /\ LET c == [calls[s] EXCEPT !.sets = calls[s].token]
         a == Carried(c, "answered")
     IN  IF s = "write" THEN Moves(s, [calls[s] EXCEPT !.at = "answered"])
         ELSE Moves(s, IF a.at = "refused" THEN [a EXCEPT !.at = "401"] ELSE a)
  /\ UNCHANGED <<around, cookies, screen, leaving>>

\* Mutant: only the layout's useAuth ends a session.
Answered_Stays(s) ==
  /\ calls[s] # NoSend /\ calls[s].at \in {"answered", "401"}
  /\ access' = IF calls[s].sets > 0 THEN calls[s].sets ELSE access
  /\ calls' = [calls EXCEPT ![s] = NoSend]
  /\ UNCHANGED <<around, renewal, left, screen, leaving>>

\* The answer reaches the tab; a 401 calls logout().
Answered(s) ==
  /\ calls[s] # NoSend /\ calls[s].at \in {"answered", "401"}
  /\ access' = IF calls[s].sets > 0 THEN calls[s].sets ELSE access
  /\ calls' = [calls EXCEPT ![s] = NoSend]
  /\ leaving' = IF calls[s].at = "401" /\ leaving = "no" THEN "sent" ELSE leaving
  /\ UNCHANGED <<around, renewal, left, screen>>

\* The request, or its answer, is lost.
CallBreaks(s) ==
  /\ calls[s] # NoSend
  /\ calls' = [calls EXCEPT ![s] = NoSend]
  /\ Breaks
  /\ UNCHANGED <<cookies, screen, leaving>>
-----------------------------------------------------------------------------
(* logout().                                                               *)

\* The buttons of the top bar, the sidebar and the blocked screen.
PressLogout ==
  /\ front = "page" /\ authed = "yes"
  /\ leaving = "no"
  /\ leaving' = "sent"
  /\ UNCHANGED <<around, cookies, screen, calls>>

\* Mutant: /api/auth/logout leaves erp_refresh.
LogoutAnswered_TokenOnly ==
  /\ leaving = "sent"
  /\ leaving' = "cleared"
  /\ access' = 0
  /\ UNCHANGED <<around, renewal, left, screen, calls>>

LogoutAnswered ==
  /\ leaving = "sent"
  /\ leaving' = "cleared"
  /\ access' = 0 /\ renewal' = 0
  /\ UNCHANGED <<around, left, screen, calls>>

\* fetch throws: no navigation, the cookies stay.
LogoutBreaks ==
  /\ leaving = "sent"
  /\ leaving' = "no"
  /\ Breaks
  /\ UNCHANGED <<cookies, screen, calls>>

\* window.location.href = '/login'.
Leave ==
  /\ leaving = "cleared"
  /\ Left
  /\ ToLogin
  /\ UNCHANGED <<around, access, renewal>>

ErpNext ==
  \/ Ticks \/ BossDeactivated \/ Login
  \/ \E protected \in BOOLEAN : HardLoad(protected) \/ Visit(protected)
  \/ StatusAnswered \/ MeAnswered
  \/ \E s \in Senders :
       \/ Send(s) \/ Backend(s) \/ Refresh(s) \/ Again(s) \/ Answered(s) \/ CallBreaks(s)
  \/ PressLogout \/ LogoutAnswered \/ LogoutBreaks \/ Leave

\* A call under way goes on to its answer.
GoesOn(s) == Backend(s) \/ Refresh(s) \/ Again(s) \/ Answered(s)

(* Every request is answered or fails, refetchInterval keeps polling, and  *)
(* the browser carries out a navigation. Users owe nothing.                *)
ErpFairness ==
  /\ WF_erpVars(Send("poll"))
  /\ \A s \in Senders : WF_erpVars(GoesOn(s))
  /\ WF_erpVars(LogoutAnswered) /\ WF_erpVars(Leave)

ErpSpec == ErpInit /\ [][ErpNext]_erpVars /\ ErpFairness
-----------------------------------------------------------------------------
(* Properties.                                                             *)

\* A call of the ERP is carried out at most once by the backend, however the
\* renewal of the token and the retry of the proxy fall: what is tried again
\* is only what a guard refused.
RunsOnce == \A s \in Senders : calls[s] # NoSend => calls[s].ran <= 1

\* After a logout the session cannot come back. An answer on its way may still
\* leave a new erp_token behind, but nothing renews it: an hour later no cookie
\* is left, until somebody logs in.
LogoutLasts == left >= AccessTime => access = 0 /\ renewal = 0

\* A boss on a page in front whose session is over, both cookies gone, is brought
\* to the login page, however often requests fail on the way: the poll goes on,
\* unless /api/auth/me fails too and the page no longer knows him.
SessionOverShown ==
  (front = "page" /\ known /\ access = 0 /\ renewal = 0)
    ~> (front = "login" \/ access > 0 \/ ~known)
=============================================================================
