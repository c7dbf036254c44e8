------------------------------ MODULE BotAuth -------------------------------
(***************************************************************************)
(* Who a Telegram chat speaks for: the login wizard (auth.scene.ts), and   *)
(* /start, /logout and requireAuth of bot.update.ts over the User rows.    *)
(*                                                                         *)
(* Telegraf starts a handler for every update without waiting for the one  *)
(* before, so a handler is split where it awaits: stepPassword between     *)
(* reading the row and comparing the hash, /logout between finding the     *)
(* user and writing to him. Time is counted in ticks of the lock's length. *)
(***************************************************************************)
EXTENDS Integers, FiniteSets

CONSTANTS
  Users,        \* accounts an admin has created
  Chats,        \* Telegram users
  NoChat,       \* tg_id IS NULL
  NoUser,       \* the wizard remembers no login
  MaxFail,      \* PASSWORD_MAX_FAIL
  LockTime,     \* LOCK_MINUTES, in ticks
  SessionTime,  \* SESSION_TTL_MS, in ticks
  Slots,        \* passwords being compared at once (bound)
  MaxTries,     \* passwords ever sent (bound)
  MaxTicks      \* ticks of the clock and switches of is_active (bound)

ASSUME BotAuthAssumption ==
  /\ NoChat \notin Chats
  /\ NoUser \notin Users
  /\ MaxFail \in Nat \ {0}
  /\ LockTime \in Nat \ {0}
  /\ SessionTime \in Nat \ {0}

VARIABLES
  account,   \* User rows
  scene,     \* where each chat's wizard stands
  login,     \* what its first step remembers
  attempts,  \* passwords being compared, with the row each has read
  logouts,   \* /logout handlers between their read and their write
  tries, ticks,
  wrong,     \* wrong passwords of an account since it was last entered
  parallel,  \* accounts that ever had two passwords compared at once
  out        \* chats whose last word was an undisturbed /logout

authVars == <<account, scene, login, attempts, logouts, tries, ticks,
              wrong, parallel, out>>

\* locked_until and last_authenticated_at are the ticks they still have to run.
Account == [tg : Chats \cup {NoChat}, fails : Nat, lock : 0..LockTime,
            session : 0..SessionTime, active : BOOLEAN]

Attempt == [chat : Chats, slot : Slots, user : Users, right : BOOLEAN, fails : Nat]
Logout == [chat : Chats, user : Users \cup {NoUser}, quiet : BOOLEAN]

AuthTypeOK ==
  /\ account \in [Users -> Account]
  /\ scene \in [Chats -> {"none", "login", "password"}]
  /\ login \in [Chats -> Users \cup {NoUser}]
  /\ attempts \subseteq Attempt
  /\ logouts \subseteq Logout
  /\ tries \in Nat /\ ticks \in Nat
  /\ wrong \in [Users -> Nat]
  /\ parallel \subseteq Users
  /\ out \subseteq Chats

AuthInit ==
  /\ account = [u \in Users |-> [tg |-> NoChat, fails |-> 0, lock |-> 0,
                                 session |-> 0, active |-> TRUE]]
  /\ scene = [c \in Chats |-> "none"]
  /\ login = [c \in Chats |-> NoUser]
  /\ attempts = {}
  /\ logouts = {}
  /\ tries = 0 /\ ticks = 0
  /\ wrong = [u \in Users |-> 0]
  /\ parallel = {}
  /\ out = {}
-----------------------------------------------------------------------------
\* requireAuth: the active user with this tg_id, if he logged in within 8 h.
Speaks(c, u) ==
  /\ account[u].tg = c
  /\ account[u].active
  /\ account[u].session > 0

\* scene.enter and scene.reenter run onEnter, which forgets the login.
EnterScene(c) ==
  /\ scene' = [scene EXCEPT ![c] = "login"]
  /\ login' = [login EXCEPT ![c] = NoUser]

LeaveScene(c) ==
  /\ scene' = [scene EXCEPT ![c] = "none"]
  /\ login' = [login EXCEPT ![c] = NoUser]

\* /start outside the wizard: the menu of a session that is still valid, or
\* the wizard.
Start(c) ==
  /\ scene[c] = "none"
  /\ ~\E u \in Users : Speaks(c, u)
  /\ EnterScene(c)
  /\ UNCHANGED <<account, attempts, logouts, tries, ticks, wrong, parallel, out>>

\* /start inside it only leaves it.
StartInWizard(c) ==
  /\ scene[c] # "none"
  /\ LeaveScene(c)
  /\ UNCHANGED <<account, attempts, logouts, tries, ticks, wrong, parallel, out>>

StepLogin(c, u) ==
  /\ scene[c] = "login"
  /\ IF account[u].active
     THEN /\ scene' = [scene EXCEPT ![c] = "password"]
          /\ login' = [login EXCEPT ![c] = u]
     ELSE LeaveScene(c)
  /\ UNCHANGED <<account, attempts, logouts, tries, ticks, wrong, parallel, out>>
-----------------------------------------------------------------------------
(* stepPassword.                                                           *)

\* The row is read: an inactive user is sent off, a locked one starts over,
\* and for anyone else bcrypt begins to compare.
StepPassword(c, right) ==
  /\ scene[c] = "password"
  /\ tries < MaxTries
  /\ tries' = tries + 1
  /\ LET u == login[c] IN
     \/ /\ ~account[u].active
        /\ LeaveScene(c)
        /\ UNCHANGED <<attempts, parallel>>
     \/ /\ account[u].active
        /\ account[u].lock > 0
        /\ EnterScene(c)
        /\ UNCHANGED <<attempts, parallel>>
     \/ /\ account[u].active
        /\ account[u].lock = 0
        /\ \E n \in Slots :
             /\ \A a \in attempts : a.slot # n
             /\ attempts' = attempts \cup
                  {[chat |-> c, slot |-> n, user |-> u, right |-> right,
                    fails |-> account[u].fails]}
        /\ parallel' = IF \E a \in attempts : a.user = u THEN parallel \cup {u}
                       ELSE parallel
        /\ UNCHANGED <<scene, login>>
  /\ UNCHANGED <<account, logouts, ticks, wrong, out>>

\* Mutant: the counter is written with the lock only.
WrongPassword_CountLost(a) ==
  LET locks == a.fails + 1 >= MaxFail IN
  /\ ~a.right
  /\ account' = [account EXCEPT ![a.user].fails = IF locks THEN a.fails + 1 ELSE a.fails,
                                ![a.user].lock = IF locks THEN LockTime ELSE 0]
  /\ IF locks THEN LeaveScene(a.chat) ELSE UNCHANGED <<scene, login>>
  /\ attempts' = attempts \ {a}
  /\ wrong' = [wrong EXCEPT ![a.user] = @ + 1]
  /\ UNCHANGED <<logouts, tries, ticks, parallel, out>>

\* The counter and the lock are written from the row that was read: a lock set
\* meanwhile is overwritten, with null if this attempt was not the third.
WrongPassword(a) ==
  LET locks == a.fails + 1 >= MaxFail IN
  /\ ~a.right
  /\ account' = [account EXCEPT ![a.user].fails = a.fails + 1,
                                ![a.user].lock = IF locks THEN LockTime ELSE 0]
  /\ IF locks THEN LeaveScene(a.chat) ELSE UNCHANGED <<scene, login>>
  /\ attempts' = attempts \ {a}
  /\ wrong' = [wrong EXCEPT ![a.user] = @ + 1]
  /\ UNCHANGED <<logouts, tries, ticks, parallel, out>>

\* tg_id is unique: another account of this chat makes the update throw, and
\* the wizard starts over.
TakenByOther(a) == \E u \in Users \ {a.user} : account[u].tg = a.chat

RightPassword(a) ==
  /\ a.right
  /\ IF TakenByOther(a)
     THEN /\ EnterScene(a.chat)
          /\ UNCHANGED <<account, wrong, out>>
     ELSE /\ LeaveScene(a.chat)
          /\ account' = [account EXCEPT ![a.user].tg = a.chat,
                                        ![a.user].session = SessionTime,
                                        ![a.user].fails = 0,
                                        ![a.user].lock = 0]
          /\ wrong' = [wrong EXCEPT ![a.user] = 0]
          /\ out' = out \ {a.chat}
  /\ attempts' = attempts \ {a}
  /\ logouts' = {IF l.chat = a.chat THEN [l EXCEPT !.quiet = FALSE] ELSE l : l \in logouts}
  /\ UNCHANGED <<tries, ticks, parallel>>
-----------------------------------------------------------------------------
(* /logout, the clock and the admin.                                       *)

NobodyFound(c) == \A u \in Users : account[u].tg # c

\* The user is found by tg_id. The wizard takes its chat's texts first: a
\* /logout typed at its prompt is one more password.
LogoutRead(c) ==
  /\ scene[c] = "none"
  /\ logouts = {}   \* one at a time (bound)
  /\ \E u \in Users \cup {NoUser} :
       /\ IF u = NoUser THEN NobodyFound(c) ELSE account[u].tg = c
       /\ logouts' = logouts \cup {[chat |-> c, user |-> u,
                                    quiet |-> \A a \in attempts : a.chat # c]}
  /\ UNCHANGED <<account, scene, login, attempts, tries, ticks, wrong, parallel, out>>

\* Mutant: the handler answers and leaves the session as it was.
LogoutWrite_KeepsSession(l) ==
  /\ account' = account
  /\ logouts' = logouts \ {l}
  /\ out' = IF l.quiet /\ \A a \in attempts : a.chat # l.chat
            THEN out \cup {l.chat} ELSE out
  /\ UNCHANGED <<scene, login, attempts, tries, ticks, wrong, parallel>>

\* It ends the session of the user it found, whichever chat he has by now.
LogoutWrite(l) ==
  /\ account' = [u \in Users |-> IF u = l.user THEN [account[u] EXCEPT !.session = 0]
                                 ELSE account[u]]
  /\ logouts' = logouts \ {l}
  /\ out' = IF l.quiet /\ \A a \in attempts : a.chat # l.chat
            THEN out \cup {l.chat} ELSE out
  /\ UNCHANGED <<scene, login, attempts, tries, ticks, wrong, parallel>>

Less(n) == IF n = 0 THEN 0 ELSE n - 1

Tick ==
  /\ ticks < MaxTicks
  /\ ticks' = ticks + 1
  /\ account' = [u \in Users |-> [account[u] EXCEPT !.lock = Less(@), !.session = Less(@)]]
  /\ UNCHANGED <<scene, login, attempts, logouts, tries, wrong, parallel, out>>

\* toggleUserActive.
SwitchActive(u) ==
  /\ ticks < MaxTicks
  /\ ticks' = ticks + 1
  /\ account' = [account EXCEPT ![u].active = ~@]
  /\ UNCHANGED <<scene, login, attempts, logouts, tries, wrong, parallel, out>>

AuthNext ==
  \/ \E c \in Chats : Start(c) \/ StartInWizard(c) \/ LogoutRead(c)
  \/ \E c \in Chats, u \in Users : StepLogin(c, u)
  \/ \E c \in Chats, right \in BOOLEAN : StepPassword(c, right)
  \/ \E a \in attempts : WrongPassword(a) \/ RightPassword(a)
  \/ \E l \in logouts : LogoutWrite(l)
  \/ Tick
  \/ \E u \in Users : SwitchActive(u)

AuthSpec == AuthInit /\ [][AuthNext]_authVars
-----------------------------------------------------------------------------
\* The third wrong password since an account was last entered locks it, from
\* whichever chats they came, as long as no two were ever compared at once
\* (stepPassword: two at once write the same count, and a late one lifts the
\* lock that another has set).
ThirdFailureLocks ==
  [][\A u \in Users :
       wrong'[u] > wrong[u] /\ wrong'[u] >= MaxFail /\ u \notin parallel
         => account'[u].lock = LockTime]_authVars

\* A chat that has logged out, with no password of its own still being
\* compared, speaks for nobody until it sends a right one, whatever other
\* chats do with the account (onLogout, requireAuth).
LogoutHolds ==
  \A c \in out, u \in Users : ~Speaks(c, u)
=============================================================================
