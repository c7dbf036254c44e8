------------------------------ MODULE BotProofs -------------------------------
(***************************************************************************)
(* Theorems about the Telegram bot, for any number of users, chats and     *)
(* orders: who a chat speaks for, the buttons in the chats, the leafed     *)
(* lists; and about the figures the bot and the back office make of the    *)
(* same orders.                                                            *)
(***************************************************************************)
EXTENDS BotAuth, BotDialogue, BotHistory, AdminReports, SumProofs, TLAPS
-----------------------------------------------------------------------------
(* The login wizard and /logout (module BotAuth).                          *)

\* The wizard asks for the password of a login it has found.
AuthInv ==
  /\ AuthTypeOK
  /\ \A c \in Chats : scene[c] = "password" => login[c] \in Users

\* An account of which no two passwords were ever compared at once counts its
\* wrong passwords exactly, and so does the comparison under way.
CountInv ==
  \A u \in Users \ parallel :
    /\ account[u].fails = wrong[u]
    /\ \A a \in attempts : a.user = u => a.fails = wrong[u]
    /\ \A a, b \in attempts : a.user = u /\ b.user = u => a = b

\* A chat that has logged out has no session left to speak with; a /logout that
\* no right password has disturbed knows the only account its chat can have,
\* because tg_id is unique.
LogoutInv ==
  /\ \A u, v \in Users : account[u].tg = account[v].tg /\ account[u].tg # NoChat => u = v
  /\ \A c \in out, u \in Users : account[u].tg = c => account[u].session = 0
  /\ \A l \in logouts : l.quiet => \A u \in Users : account[u].tg = l.chat => u = l.user

LEMMA AuthInitially == AuthInit => AuthInv /\ CountInv /\ LogoutInv
<1>1. SUFFICES ASSUME AuthInit PROVE AuthInv /\ CountInv /\ LogoutInv
  OBVIOUS
<1>2. AuthInv
  <2>1. [tg |-> NoChat, fails |-> 0, lock |-> 0, session |-> 0, active |-> TRUE] \in Account
    BY BotAuthAssumption DEF Account
  <2>2. QED
    BY <1>1, <2>1 DEF AuthInit, AuthInv, AuthTypeOK
<1>3. CountInv /\ LogoutInv
  BY <1>1, BotAuthAssumption DEF AuthInit, CountInv, LogoutInv
<1>4. QED
  BY <1>2, <1>3

\* Nobody gains a session, and nobody changes chats.
LEMMA LogoutKept ==
  ASSUME LogoutInv, UNCHANGED <<logouts, out>>,
         \A u \in Users : /\ account'[u].tg = account[u].tg
                          /\ account[u].session = 0 => account'[u].session = 0
  PROVE  LogoutInv'
BY DEF LogoutInv

\* What only moves the wizard leaves accounts and comparisons alone.
LEMMA WizardSteps ==
  ASSUME AuthInv, CountInv, LogoutInv, NEW c \in Chats,
         Start(c) \/ StartInWizard(c) \/ \E u \in Users : StepLogin(c, u)
  PROVE  AuthInv' /\ CountInv' /\ LogoutInv'
<1>1. UNCHANGED <<account, attempts, logouts, tries, ticks, wrong, parallel, out>>
  BY DEF Start, StartInWizard, StepLogin
<1>2. \/ EnterScene(c)
      \/ LeaveScene(c)
      \/ \E u \in Users : /\ scene' = [scene EXCEPT ![c] = "password"]
                          /\ login' = [login EXCEPT ![c] = u]
  BY DEF Start, StartInWizard, StepLogin
<1>3. AuthInv'
  BY <1>1, <1>2 DEF EnterScene, LeaveScene, AuthInv, AuthTypeOK
<1>4. CountInv' /\ LogoutInv'
  BY <1>1 DEF CountInv, LogoutInv
<1>5. QED
  BY <1>3, <1>4

\* A password is read with the count of its account.
LEMMA PasswordStep ==
  ASSUME AuthInv, CountInv, LogoutInv, NEW c \in Chats, NEW right \in BOOLEAN,
         StepPassword(c, right)
  PROVE  AuthInv' /\ CountInv' /\ LogoutInv'
<1>. DEFINE u == login[c]
            Read(n) == [chat |-> c, slot |-> n, user |-> u, right |-> right,
                        fails |-> account[u].fails]
<1>1. u \in Users /\ scene[c] = "password"
  BY DEF StepPassword, AuthInv
<1>2. UNCHANGED <<account, logouts, ticks, wrong, out>> /\ tries' = tries + 1
  BY DEF StepPassword
<1>3. LogoutInv'
  BY <1>2 DEF LogoutInv
<1>4. CASE (LeaveScene(c) \/ EnterScene(c)) /\ UNCHANGED <<attempts, parallel>>
  <2>1. AuthInv'
    BY <1>2, <1>4 DEF LeaveScene, EnterScene, AuthInv, AuthTypeOK
  <2>2. CountInv'
    BY <1>2, <1>4 DEF CountInv
  <2>3. QED
    BY <1>3, <2>1, <2>2
<1>5. ASSUME UNCHANGED <<scene, login>>, NEW n \in Slots,
             attempts' = attempts \cup {Read(n)},
             parallel' = IF \E a \in attempts : a.user = u THEN parallel \cup {u}
                         ELSE parallel
      PROVE  AuthInv' /\ CountInv' /\ LogoutInv'
  <2>1. Read(n) \in Attempt
    BY <1>1 DEF AuthInv, AuthTypeOK, Account, Attempt
  <2>2. AuthInv'
    BY <1>1, <1>2, <1>5, <2>1 DEF AuthInv, AuthTypeOK
  <2>3. ASSUME NEW x \in Users \ parallel'
        PROVE  /\ account[x].fails = wrong[x]
               /\ \A a \in attempts' : a.user = x => a.fails = wrong[x]
               /\ \A a, b \in attempts' : a.user = x /\ b.user = x => a = b
    <3>1. x \in Users \ parallel
      BY <1>5, <2>3
    <3>2. /\ account[x].fails = wrong[x]
          /\ \A a \in attempts : a.user = x => a.fails = wrong[x]
          /\ \A a, b \in attempts : a.user = x /\ b.user = x => a = b
      BY <3>1 DEF CountInv
    <3>3. x = u => \A a \in attempts : a.user # x
      BY <1>5, <2>3
    <3>4. Read(n).user = u /\ Read(n).fails = account[u].fails
      OBVIOUS
    <3>. HIDE DEF Read
    <3>5. QED
      BY <1>5, <3>2, <3>3, <3>4
  <2>4. CountInv'
    BY <1>2, <2>3 DEF CountInv
  <2>5. QED
    BY <1>3, <2>2, <2>4
<1>6. QED
  BY <1>4, <1>5 DEF StepPassword

\* A wrong password is counted from the row it was read from.
LEMMA WrongStep ==
  ASSUME AuthInv, CountInv, LogoutInv, NEW a \in attempts, WrongPassword(a)
  PROVE  /\ AuthInv' /\ CountInv' /\ LogoutInv'
         /\ wrong' = [wrong EXCEPT ![a.user] = @ + 1]
         /\ a.user \in Users
         /\ a.user \notin parallel /\ wrong'[a.user] >= MaxFail =>
              account'[a.user].lock = LockTime
<1>. DEFINE locks == a.fails + 1 >= MaxFail
            u == a.user
<1>1. a \in Attempt /\ u \in Users /\ a.chat \in Chats /\ a.fails \in Nat
  BY DEF AuthInv, AuthTypeOK, Attempt
<1>2. /\ account' = [account EXCEPT ![u].fails = a.fails + 1,
                                    ![u].lock = IF locks THEN LockTime ELSE 0]
      /\ IF locks THEN LeaveScene(a.chat) ELSE UNCHANGED <<scene, login>>
      /\ attempts' = attempts \ {a}
      /\ wrong' = [wrong EXCEPT ![u] = @ + 1]
      /\ UNCHANGED <<logouts, tries, ticks, parallel, out>>
  BY DEF WrongPassword
<1>3. account \in [Users -> Account] /\ wrong \in [Users -> Nat]
  BY DEF AuthInv, AuthTypeOK
<1>4. \A x \in Users : account'[x] =
        IF x = u THEN [tg |-> account[x].tg, fails |-> a.fails + 1,
                       lock |-> IF locks THEN LockTime ELSE 0,
                       session |-> account[x].session, active |-> account[x].active]
        ELSE account[x]
  BY <1>1, <1>2, <1>3 DEF Account
<1>5. \A x \in Users :
        /\ account'[x] \in Account
        /\ account'[x].tg = account[x].tg
        /\ account'[x].session = account[x].session
        /\ account'[x].fails = IF x = u THEN a.fails + 1 ELSE account[x].fails
        /\ x = u /\ locks => account'[x].lock = LockTime
  <2>1. SUFFICES ASSUME NEW x \in Users
                 PROVE  /\ account'[x] \in Account
                        /\ account'[x].tg = account[x].tg
                        /\ account'[x].session = account[x].session
                        /\ account'[x].fails = IF x = u THEN a.fails + 1 ELSE account[x].fails
                        /\ x = u /\ locks => account'[x].lock = LockTime
    OBVIOUS
  <2>2. account[x] \in Account
    BY <1>3
  <2>3. CASE x # u
    BY <1>4, <2>2, <2>3
  <2>4. CASE x = u
    <3>. DEFINE lock == IF locks THEN LockTime ELSE 0
    <3>1. lock \in 0..LockTime /\ (locks => lock = LockTime)
      BY BotAuthAssumption
    <3>2. account'[x] = [tg |-> account[x].tg, fails |-> a.fails + 1, lock |-> lock,
                         session |-> account[x].session, active |-> account[x].active]
      BY <1>4, <2>4
    <3>. HIDE DEF lock, locks
    <3>3. QED
      BY <1>1, <2>2, <2>4, <3>1, <3>2 DEF Account
  <2>5. QED
    BY <2>3, <2>4
<1>6. AuthInv'
  <2>1. account' \in [Users -> Account]
    BY <1>2, <1>3, <1>5
  <2>2. QED
    BY <1>1, <1>2, <2>1 DEF AuthInv, AuthTypeOK, LeaveScene
<1>7. \A x \in Users : wrong'[x] = IF x = u THEN wrong[x] + 1 ELSE wrong[x]
  BY <1>1, <1>2, <1>3
<1>8. u \notin parallel => a.fails = wrong[u] /\ \A b \in attempts' : b.user # u
  BY <1>1, <1>2 DEF CountInv
<1>9. CountInv'
  <2>1. SUFFICES ASSUME NEW x \in Users \ parallel
                 PROVE  /\ account'[x].fails = wrong'[x]
                        /\ \A b \in attempts' : b.user = x => b.fails = wrong'[x]
                        /\ \A b, d \in attempts' : b.user = x /\ d.user = x => b = d
    BY <1>2 DEF CountInv
  <2>2. CASE x = u
    BY <1>1, <1>5, <1>7, <1>8, <2>2
  <2>3. CASE x # u
    <3>1. account'[x].fails = account[x].fails /\ wrong'[x] = wrong[x]
      BY <1>5, <1>7, <2>3
    <3>2. attempts' \subseteq attempts
      BY <1>2
    <3>3. QED
      BY <3>1, <3>2 DEF CountInv
  <2>4. QED
    BY <2>2, <2>3
<1>10. LogoutInv'
  BY <1>2, <1>5, LogoutKept
<1>11. u \notin parallel /\ wrong'[u] >= MaxFail => account'[u].lock = LockTime
  BY <1>1, <1>5, <1>7, <1>8
<1>12. QED
  BY <1>1, <1>2, <1>6, <1>9, <1>10, <1>11

\* A right password gives the account to its chat and clears the count.
LEMMA RightStep ==
  ASSUME AuthInv, CountInv, LogoutInv, NEW a \in attempts, RightPassword(a)
  PROVE  /\ AuthInv' /\ CountInv' /\ LogoutInv'
         /\ \A u \in Users : wrong'[u] <= wrong[u]
<1>. DEFINE u == a.user
            Heard(l) == IF l.chat = a.chat THEN [l EXCEPT !.quiet = FALSE] ELSE l
<1>1. u \in Users /\ a.chat \in Chats
  BY DEF AuthInv, AuthTypeOK, Attempt
<1>2. /\ attempts' = attempts \ {a}
      /\ logouts' = {Heard(l) : l \in logouts}
      /\ UNCHANGED <<tries, ticks, parallel>>
      /\ EnterScene(a.chat) \/ LeaveScene(a.chat)
  BY DEF RightPassword
<1>3. account \in [Users -> Account] /\ wrong \in [Users -> Nat] /\ logouts \subseteq Logout
  BY DEF AuthInv, AuthTypeOK
<1>4. \A l \in logouts : /\ Heard(l) \in Logout
                         /\ Heard(l).chat = l.chat
                         /\ Heard(l).user = l.user
                         /\ Heard(l).quiet => l.quiet /\ l.chat # a.chat
  BY <1>3 DEF Logout
<1>5. ASSUME account' \in [Users -> Account], wrong' \in [Users -> Nat], out' \subseteq out
      PROVE  AuthInv'
  <2>1. logouts' \subseteq Logout
    BY <1>2, <1>4
  <2>2. /\ scene' \in [Chats -> {"none", "login", "password"}]
        /\ login' \in [Chats -> Users \cup {NoUser}]
        /\ \A c \in Chats : scene'[c] = "password" => login'[c] \in Users
    BY <1>1, <1>2 DEF AuthInv, AuthTypeOK, EnterScene, LeaveScene
  <2>3. QED
    BY <1>2, <1>5, <2>1, <2>2 DEF AuthInv, AuthTypeOK
<1>. HIDE DEF Heard
<1>6. CASE UNCHANGED <<account, wrong, out>>
  <2>1. AuthInv'
    BY <1>3, <1>5, <1>6
  <2>2. CountInv'
    BY <1>2, <1>6 DEF CountInv
  <2>3. LogoutInv'
    BY <1>2, <1>4, <1>6 DEF LogoutInv
  <2>4. QED
    BY <1>3, <1>6, <2>1, <2>2, <2>3
<1>7. CASE /\ account' = [account EXCEPT ![u].tg = a.chat, ![u].session = SessionTime,
                                         ![u].fails = 0, ![u].lock = 0]
           /\ wrong' = [wrong EXCEPT ![u] = 0]
           /\ out' = out \ {a.chat}
           /\ ~TakenByOther(a)
  <2>1. \A x \in Users : account'[x] =
          IF x = u THEN [tg |-> a.chat, fails |-> 0, lock |-> 0,
                         session |-> SessionTime, active |-> account[x].active]
          ELSE account[x]
    BY <1>1, <1>3, <1>7 DEF Account
  <2>2. \A x \in Users : wrong'[x] = IF x = u THEN 0 ELSE wrong[x]
    BY <1>1, <1>3, <1>7
  <2>3. \A x \in Users :
          /\ account'[x] \in Account
          /\ x = u => account'[x].tg = a.chat /\ account'[x].fails = 0
          /\ x # u => account'[x] = account[x]
    <3>1. SUFFICES ASSUME NEW x \in Users
                   PROVE  /\ account'[x] \in Account
                          /\ x = u => account'[x].tg = a.chat /\ account'[x].fails = 0
                          /\ x # u => account'[x] = account[x]
      OBVIOUS
    <3>2. account[x] \in Account
      BY <1>3
    <3>3. CASE x = u
      <4>1. account'[x] = [tg |-> a.chat, fails |-> 0, lock |-> 0,
                           session |-> SessionTime, active |-> account[x].active]
        BY <2>1, <3>3
      <4>2. SessionTime \in 0..SessionTime /\ 0 \in 0..LockTime
        BY BotAuthAssumption
      <4>3. QED
        BY <1>1, <3>2, <3>3, <4>1, <4>2 DEF Account
    <3>4. CASE x # u
      BY <2>1, <3>2, <3>4
    <3>5. QED
      BY <3>3, <3>4
  <2>4. account' \in [Users -> Account] /\ wrong' \in [Users -> Nat]
    BY <1>3, <1>7, <2>3
  <2>5. AuthInv'
    BY <1>5, <1>7, <2>4
  <2>6. CountInv'
    <3>1. SUFFICES ASSUME NEW x \in Users \ parallel
                   PROVE  /\ account'[x].fails = wrong'[x]
                          /\ \A b \in attempts' : b.user = x => b.fails = wrong'[x]
                          /\ \A b, d \in attempts' : b.user = x /\ d.user = x => b = d
      BY <1>2 DEF CountInv
    <3>2. CASE x = u
      <4>1. \A b \in attempts' : b.user # x
        BY <1>2, <3>2 DEF CountInv
      <4>2. QED
        BY <2>2, <2>3, <3>2, <4>1
    <3>3. CASE x # u
      BY <1>2, <2>2, <2>3, <3>3 DEF CountInv
    <3>4. QED
      BY <3>2, <3>3
  <2>7. LogoutInv'
    <3>1. ASSUME NEW c \in out', NEW x \in Users, account'[x].tg = c
          PROVE  account'[x].session = 0
      <4>1. c \in out /\ x # u
        BY <1>7, <2>3, <3>1
      <4>2. QED
        BY <2>3, <3>1, <4>1 DEF LogoutInv
    <3>2. ASSUME NEW l \in logouts', l.quiet, NEW x \in Users, account'[x].tg = l.chat
          PROVE  x = l.user
      <4>1. PICK k \in logouts : l = Heard(k)
        BY <1>2
      <4>2. k.quiet /\ k.chat # a.chat /\ l.chat = k.chat /\ l.user = k.user
        BY <1>4, <3>2, <4>1
      <4>3. account[x].tg = k.chat
        BY <2>3, <3>2, <4>2
      <4>4. QED
        BY <4>2, <4>3 DEF LogoutInv
    <3>3. ASSUME NEW x \in Users, NEW y \in Users,
                 account'[x].tg = account'[y].tg, account'[x].tg # NoChat
          PROVE  x = y
      <4>1. \A z \in Users : z # u => account[z].tg # a.chat
        BY <1>7 DEF TakenByOther
      <4>2. QED
        BY <2>3, <3>3, <4>1 DEF LogoutInv
    <3>4. QED
      BY <3>1, <3>2, <3>3 DEF LogoutInv
  <2>8. QED
    BY <1>3, <2>2, <2>5, <2>6, <2>7
<1>8. QED
  BY <1>6, <1>7 DEF RightPassword

\* /logout, between its read and its write too.
LEMMA LogoutSteps ==
  ASSUME AuthInv, CountInv, LogoutInv,
         (\E c \in Chats : LogoutRead(c)) \/ (\E l \in logouts : LogoutWrite(l))
  PROVE  AuthInv' /\ CountInv' /\ LogoutInv'
<1>1. ASSUME NEW c \in Chats, LogoutRead(c) PROVE AuthInv' /\ CountInv' /\ LogoutInv'
  <2>1. PICK u \in Users \cup {NoUser} :
          /\ IF u = NoUser THEN NobodyFound(c) ELSE account[u].tg = c
          /\ logouts' = {[chat |-> c, user |-> u, quiet |-> \A a \in attempts : a.chat # c]}
    BY <1>1 DEF LogoutRead
  <2>2. UNCHANGED <<account, scene, login, attempts, tries, ticks, wrong, parallel, out>>
    BY <1>1 DEF LogoutRead
  <2>3. u # NoUser => u \in Users
    OBVIOUS
  <2>4. \A x \in Users : account[x].tg = c => x = u
    BY <2>1, BotAuthAssumption DEF LogoutInv, NobodyFound
  <2>5. AuthInv'
    BY <2>1, <2>2 DEF AuthInv, AuthTypeOK, Logout
  <2>6. CountInv'
    BY <2>2 DEF CountInv
  <2>7. \A l \in logouts' : l.chat = c /\ l.user = u
    BY <2>1
  <2>8. LogoutInv'
    BY <2>2, <2>4, <2>7 DEF LogoutInv
  <2>9. QED
    BY <2>5, <2>6, <2>8
<1>2. ASSUME NEW l \in logouts, LogoutWrite(l) PROVE AuthInv' /\ CountInv' /\ LogoutInv'
  <2>1. /\ logouts' = logouts \ {l}
        /\ UNCHANGED <<scene, login, attempts, tries, ticks, wrong, parallel>>
        /\ \/ out' = out
           \/ l.quiet /\ out' = out \cup {l.chat}
    BY <1>2 DEF LogoutWrite
  <2>2. l \in Logout
    BY DEF AuthInv, AuthTypeOK
  <2>3. /\ account' \in [Users -> Account]
        /\ \A u \in Users : /\ account'[u].tg = account[u].tg
                            /\ account'[u].fails = account[u].fails
                            /\ account[u].session = 0 => account'[u].session = 0
                            /\ u = l.user => account'[u].session = 0
    BY <1>2, BotAuthAssumption DEF LogoutWrite, AuthInv, AuthTypeOK, Account
  <2>4. AuthInv'
    BY <2>1, <2>2, <2>3 DEF AuthInv, AuthTypeOK, Logout
  <2>5. CountInv'
    BY <2>1, <2>3 DEF CountInv
  <2>6. LogoutInv'
    <3>1. ASSUME NEW c \in out', NEW u \in Users, account'[u].tg = c
          PROVE  account'[u].session = 0
      BY <2>1, <2>3, <3>1 DEF LogoutInv
    <3>2. QED
      BY <2>1, <2>3, <3>1 DEF LogoutInv
  <2>7. QED
    BY <2>4, <2>5, <2>6
<1>3. QED
  BY <1>1, <1>2

\* The clock ends locks and sessions, the admin switches accounts.
LEMMA WorldSteps ==
  ASSUME AuthInv, CountInv, LogoutInv, Tick \/ \E u \in Users : SwitchActive(u)
  PROVE  AuthInv' /\ CountInv' /\ LogoutInv'
<1>1. /\ UNCHANGED <<scene, login, attempts, logouts, tries, wrong, parallel, out>>
      /\ ticks' = ticks + 1
  BY DEF Tick, SwitchActive
<1>2. account \in [Users -> Account]
  BY DEF AuthInv, AuthTypeOK
<1>3. /\ account' \in [Users -> Account]
      /\ \A u \in Users : /\ account'[u].tg = account[u].tg
                          /\ account'[u].fails = account[u].fails
                          /\ account[u].session = 0 => account'[u].session = 0
  <2>1. CASE Tick
    <3>1. \A N \in Nat : \A n \in 0..N : Less(n) \in 0..N /\ (n = 0 => Less(n) = 0)
      BY DEF Less
    <3>2. \A u \in Users :
            account'[u] = [tg |-> account[u].tg, fails |-> account[u].fails,
                           lock |-> Less(account[u].lock),
                           session |-> Less(account[u].session),
                           active |-> account[u].active]
      BY <1>2, <2>1 DEF Tick, Account
    <3>3. \A u \in Users : /\ Less(account[u].lock) \in 0..LockTime
                           /\ Less(account[u].session) \in 0..SessionTime
                           /\ account[u].session = 0 => Less(account[u].session) = 0
      BY <1>2, <3>1, BotAuthAssumption DEF Account
    <3>4. DOMAIN account' = Users /\ account' = [u \in Users |-> account'[u]]
      BY <2>1 DEF Tick
    <3>5. ASSUME NEW u \in Users PROVE account'[u] \in Account
      <4>1. account[u] \in Account
        BY <1>2
      <4>. DEFINE lock == Less(account[u].lock)
                  session == Less(account[u].session)
      <4>2. /\ lock \in 0..LockTime /\ session \in 0..SessionTime
            /\ account'[u] = [tg |-> account[u].tg, fails |-> account[u].fails, lock |-> lock,
                              session |-> session, active |-> account[u].active]
        BY <3>2, <3>3
      <4>. HIDE DEF lock, session
      <4>3. QED
        BY <4>1, <4>2 DEF Account
    <3>6. QED
      BY <3>2, <3>3, <3>4, <3>5
  <2>2. ASSUME NEW v \in Users, SwitchActive(v)
        PROVE  /\ account' \in [Users -> Account]
               /\ \A u \in Users : /\ account'[u].tg = account[u].tg
                                   /\ account'[u].fails = account[u].fails
                                   /\ account'[u].session = account[u].session
    <3>1. account' = [account EXCEPT ![v].active = ~@]
      BY <2>2 DEF SwitchActive
    <3>2. (~account[v].active) \in BOOLEAN
      BY <1>2 DEF Account
    <3>3. [account[v] EXCEPT !.active = ~@] \in Account
      BY <1>2, <3>2 DEF Account
    <3>4. \A u \in Users :
            account'[u] = IF u = v THEN [account[u] EXCEPT !.active = ~@] ELSE account[u]
      BY <1>2, <3>1
    <3>5. account' \in [Users -> Account]
      BY <1>2, <3>1, <3>3
    <3>6. QED
      BY <1>2, <3>4, <3>5 DEF Account
  <2>3. QED
    BY <2>1, <2>2
<1>4. AuthInv'
  BY <1>1, <1>3 DEF AuthInv, AuthTypeOK
<1>5. CountInv'
  BY <1>1, <1>3 DEF CountInv
<1>6. LogoutInv'
  BY <1>1, <1>3, LogoutKept
<1>7. QED
  BY <1>4, <1>5, <1>6

\* Every step keeps the three, and only a wrong password raises a count.
LEMMA StepAuth ==
  ASSUME AuthInv, CountInv, LogoutInv, [AuthNext]_authVars
  PROVE  /\ AuthInv' /\ CountInv' /\ LogoutInv'
         /\ \A u \in Users :
              wrong'[u] > wrong[u] /\ wrong'[u] >= MaxFail /\ u \notin parallel
                => account'[u].lock = LockTime
<1>1. wrong \in [Users -> Nat]
  BY DEF AuthInv, AuthTypeOK
<1>2. CASE UNCHANGED authVars
  BY <1>1, <1>2 DEF authVars, AuthInv, AuthTypeOK, CountInv, LogoutInv
<1>3. ASSUME NEW c \in Chats, Start(c) \/ StartInWizard(c) \/ \E u \in Users : StepLogin(c, u)
      PROVE  AuthInv' /\ CountInv' /\ LogoutInv' /\ wrong' = wrong
  BY <1>3, WizardSteps DEF Start, StartInWizard, StepLogin
<1>4. ASSUME NEW c \in Chats, NEW right \in BOOLEAN, StepPassword(c, right)
      PROVE  AuthInv' /\ CountInv' /\ LogoutInv' /\ wrong' = wrong
  BY <1>4, PasswordStep DEF StepPassword
<1>5. CASE (\E c \in Chats : LogoutRead(c)) \/ (\E l \in logouts : LogoutWrite(l))
  <2>1. wrong' = wrong
    BY <1>5 DEF LogoutRead, LogoutWrite
  <2>2. QED
    BY <1>1, <1>5, <2>1, LogoutSteps
<1>6. CASE Tick \/ \E u \in Users : SwitchActive(u)
  <2>1. wrong' = wrong
    BY <1>6 DEF Tick, SwitchActive
  <2>2. QED
    BY <1>1, <1>6, <2>1, WorldSteps
<1>7. ASSUME NEW a \in attempts, WrongPassword(a)
      PROVE  /\ AuthInv' /\ CountInv' /\ LogoutInv'
             /\ \A u \in Users :
                  wrong'[u] > wrong[u] /\ wrong'[u] >= MaxFail /\ u \notin parallel
                    => account'[u].lock = LockTime
  <2>1. \A u \in Users : u # a.user => wrong'[u] = wrong[u]
    BY <1>1, <1>7, WrongStep
  <2>2. QED
    BY <1>1, <1>7, <2>1, WrongStep
<1>8. ASSUME NEW a \in attempts, RightPassword(a)
      PROVE  AuthInv' /\ CountInv' /\ LogoutInv' /\ \A u \in Users : ~(wrong'[u] > wrong[u])
  <2>1. wrong' \in [Users -> Nat]
    BY <1>8, RightStep DEF AuthInv, AuthTypeOK
  <2>2. QED
    BY <1>1, <1>8, <2>1, RightStep
<1>9. \A u \in Users : wrong' = wrong => ~(wrong'[u] > wrong[u])
  BY <1>1
<1>10. QED
  BY <1>2, <1>3, <1>4, <1>5, <1>6, <1>7, <1>8, <1>9 DEF AuthNext

LEMMA AlwaysAuth == AuthSpec => [](AuthInv /\ CountInv /\ LogoutInv)
<1>1. AuthInv /\ CountInv /\ LogoutInv /\ [AuthNext]_authVars =>
        (AuthInv /\ CountInv /\ LogoutInv)'
  BY StepAuth
<1>2. QED
  BY <1>1, AuthInitially, PTL DEF AuthSpec

\* Three wrong passwords lock an account, for any number of users and chats
\* (stepPassword), unless two of its passwords were ever compared at once.
THEOREM ThirdFailure == AuthSpec => ThirdFailureLocks
<1>1. AuthInv /\ CountInv /\ LogoutInv /\ [AuthNext]_authVars =>
        [\A u \in Users :
           wrong'[u] > wrong[u] /\ wrong'[u] >= MaxFail /\ u \notin parallel
             => account'[u].lock = LockTime]_authVars
  BY StepAuth
<1>2. QED
  BY <1>1, AlwaysAuth, PTL DEF AuthSpec, ThirdFailureLocks

\* Whoever has logged out stays out until his chat sends a right password,
\* whatever other chats do with the account meanwhile (onLogout, requireAuth).
THEOREM LoggedOutIsSilent == AuthSpec => [](AuthTypeOK /\ LogoutHolds)
<1>1. AuthInv /\ LogoutInv => AuthTypeOK /\ LogoutHolds
  BY DEF AuthInv, AuthTypeOK, LogoutInv, LogoutHolds, Speaks
<1>2. QED
  BY <1>1, AlwaysAuth, PTL
-----------------------------------------------------------------------------
(* The buttons (module BotDialogue).                                       *)

\* The statuses that ask the master something, and the buttons that answer.
LEMMA AwaitedButtons ==
  /\ DOMAIN Awaited = {"waiting_confirmation", "waiting_master_work_start",
                       "waiting_master_delivery_confirmation", "delivered_by_driver"}
  /\ Awaited["waiting_confirmation"] = "confirm_order"
  /\ Awaited["waiting_master_work_start"] = "start_work"
  /\ Awaited["waiting_master_delivery_confirmation"] = "delivery"
  /\ Awaited["delivered_by_driver"] = "delivery"
BY DEF Awaited

\* After the step order o is asked about, if it has to be.
AskedNext(o) ==
  status'[o] \in DOMAIN Awaited /\ o \notin unasked'
    => [chat |-> owner'[o], kind |-> Awaited[status'[o]], order |-> o] \in buttons'

Closed(o) == status[o] \in {"completed", "cancelled"}

\* The step leaves order o closed, if it was, and it may not.
StaysClosed(o) == Closed(o) /\ status'[o] # status[o] => Reopens(o)
LeavesClosed(o) == Closed(o) => status'[o] = status[o]

\* Types; offers are in the couriers' chats; a manual service is for some order.
DialogueTypes ==
  /\ DialogueTypeOK
  /\ \A b \in buttons : b.kind = "accept" => b.chat \in Drivers
  /\ \A u \in Ustas : pending[u].step # "none" => pending[u].order \in Orders

DialogueInv == DialogueTypes /\ WaitingOrderIsAsked

DialogueStep == DialogueTypes' /\ \A o \in Orders : AskedNext(o) /\ StaysClosed(o)

ChatTyped ==
  /\ buttons' \subseteq Button
  /\ \A b \in buttons' : b.kind = "accept" => b.chat \in Drivers
  /\ lost' \in Nat
  /\ unasked' \subseteq Orders

\* Every order but o is asked about as before.
OthersAsked(o) ==
  /\ \A x \in Orders \ {o} : /\ status'[x] = status[x] /\ owner'[x] = owner[x]
                             /\ x \in unasked' <=> x \in unasked
  /\ \A b \in buttons : b.order # o => b \in buttons'

LEMMA OthersStand ==
  ASSUME WaitingOrderIsAsked, NEW o \in Orders, OthersAsked(o), AskedNext(o)
  PROVE  \A x \in Orders : AskedNext(x)
BY DEF WaitingOrderIsAsked, OthersAsked, AskedNext

\* A question is asked, or known not to be; the messages stay messages.
LEMMA Sending ==
  ASSUME DialogueTypes, NEW kind \in Kinds \ {"accept"}, NEW o \in Orders,
         NEW gone, \A b \in gone : b.order = o, Send(kind, o, gone)
  PROVE  /\ ChatTyped
         /\ o \in unasked' \/ [chat |-> owner[o], kind |-> kind, order |-> o] \in buttons'
         /\ \A x \in Orders \ {o} : x \in unasked' <=> x \in unasked
         /\ \A b \in buttons : b.order # o => b \in buttons'
BY DEF DialogueTypes, DialogueTypeOK, Send, Fails, Button, ChatTyped

\* Taking the buttons off a message leaves the others.
LEMMA Editing ==
  ASSUME DialogueTypes, NEW gone, Edit(gone)
  PROVE  /\ buttons \ gone \subseteq buttons' /\ buttons' \subseteq buttons
         /\ lost' \in Nat
BY DEF DialogueTypes, DialogueTypeOK, Edit, Fails

LEMMA TakingOff ==
  ASSUME DialogueTypes, NEW b \in buttons, TakeOff(b)
  PROVE  /\ ChatTyped /\ unasked' = unasked
         /\ buttons \ {b} \subseteq buttons'
BY Editing DEF DialogueTypes, DialogueTypeOK, TakeOff, ChatTyped

\* confirm(), from the chat or over HTTP.
LEMMA Confirming ==
  ASSUME DialogueInv, NEW o \in Orders, NEW gone, \A b \in gone : b.order = o,
         Confirm(o, gone)
  PROVE  /\ ChatTyped
         /\ status' \in [Orders -> OrderStatus \cup {"absent"}]
         /\ offered' \subseteq Orders
         /\ UNCHANGED <<owner, delivery, drafted, edits>>
         /\ \A x \in Orders : AskedNext(x) /\ LeavesClosed(x)
<1>1. DialogueTypes /\ WaitingOrderIsAsked
  BY DEF DialogueInv
<1>2. /\ Move(o, ConfirmTarget(o))
      /\ CanTransition(status[o], ConfirmTarget(o))
      /\ UNCHANGED <<owner, delivery, drafted, edits>>
  BY DEF Confirm
<1>3. status' \in [Orders -> OrderStatus \cup {"absent"}]
  BY <1>1, <1>2 DEF DialogueTypes, DialogueTypeOK, Move, ConfirmTarget, OrderStatus
<1>4. \A x \in Orders : LeavesClosed(x)
  BY <1>1, <1>2 DEF DialogueTypes, DialogueTypeOK, Move, LeavesClosed, Closed, CanTransition,
                    AllowedTransitions
<1>5. CASE o \in delivery
  <2>1. Edit(gone) /\ unasked' = unasked /\ offered' = offered \cup {o}
    BY <1>5 DEF Confirm
  <2>2. status'[o] = "broadcasted"
    BY <1>1, <1>2, <1>5 DEF DialogueTypes, DialogueTypeOK, Move, ConfirmTarget
  <2>3. OthersAsked(o)
    BY <1>1, <1>2, <2>1, Editing DEF DialogueTypes, DialogueTypeOK, OthersAsked, Move
  <2>4. AskedNext(o)
    BY <2>2, AwaitedButtons DEF AskedNext
  <2>5. ChatTyped /\ offered' \subseteq Orders
    BY <1>1, <2>1, Editing DEF DialogueTypes, DialogueTypeOK, ChatTyped
  <2>6. QED
    BY <1>1, <1>2, <1>3, <1>4, <2>3, <2>4, <2>5, OthersStand
<1>6. CASE o \notin delivery
  <2>1. Send("start_work", o, gone) /\ offered' = offered
    BY <1>6 DEF Confirm
  <2>2. status'[o] = "waiting_master_work_start"
    BY <1>1, <1>2, <1>6 DEF DialogueTypes, DialogueTypeOK, Move, ConfirmTarget
  <2>3. /\ ChatTyped
        /\ o \in unasked' \/ [chat |-> owner[o], kind |-> "start_work", order |-> o] \in buttons'
        /\ \A x \in Orders \ {o} : x \in unasked' <=> x \in unasked
        /\ \A b \in buttons : b.order # o => b \in buttons'
    BY <1>1, <2>1, Sending DEF Kinds
  <2>4. OthersAsked(o)
    BY <1>1, <1>2, <2>3 DEF DialogueTypes, DialogueTypeOK, OthersAsked, Move
  <2>5. AskedNext(o)
    BY <1>2, <2>2, <2>3, AwaitedButtons DEF AskedNext
  <2>6. offered' \subseteq Orders
    BY <1>1, <2>1 DEF DialogueTypes, DialogueTypeOK
  <2>7. QED
    BY <1>1, <1>2, <1>3, <1>4, <2>3, <2>4, <2>5, <2>6, OthersStand
<1>7. QED
  BY <1>5, <1>6

\* cancelOrder().
LEMMA Cancelling ==
  ASSUME DialogueInv, NEW o \in Orders, Cancel(o), unasked' = unasked,
         \A b \in buttons : b.order # o => b \in buttons'
  PROVE  /\ status' \in [Orders -> OrderStatus \cup {"absent"}]
         /\ \A x \in Orders : AskedNext(x) /\ LeavesClosed(x)
<1>1. DialogueTypes /\ WaitingOrderIsAsked
  BY DEF DialogueInv
<1>2. /\ status' = [status EXCEPT ![o] = "cancelled"]
      /\ CanTransition(status[o], "cancelled")
      /\ owner' = owner
  BY DEF Cancel, Move, rowRest
<1>3. AskedNext(o)
  BY <1>1, <1>2, AwaitedButtons DEF DialogueTypes, DialogueTypeOK, AskedNext
<1>4. OthersAsked(o)
  BY <1>1, <1>2 DEF DialogueTypes, DialogueTypeOK, OthersAsked
<1>5. \A x \in Orders : LeavesClosed(x)
  BY <1>1, <1>2 DEF DialogueTypes, DialogueTypeOK, LeavesClosed, Closed, CanTransition,
                    AllowedTransitions
<1>6. QED
  BY <1>1, <1>2, <1>3, <1>4, <1>5, OthersStand DEF DialogueTypes, DialogueTypeOK, OrderStatus

\* Where nothing else of the row or of the pending services changes.
LEMMA RowStands ==
  ASSUME DialogueTypes, UNCHANGED <<rowRest, pending>>, ChatTyped,
         status' \in [Orders -> OrderStatus \cup {"absent"}],
         driver' \in [Orders -> Drivers \cup {NoDriver}],
         \A x \in Orders : AskedNext(x) /\ LeavesClosed(x)
  PROVE  DialogueStep
BY DEF DialogueTypes, DialogueTypeOK, ChatTyped, rowRest, DialogueStep, StaysClosed, LeavesClosed

\* The presses of the master's buttons: each takes off its own message only.
LEMMA MasterPresses ==
  ASSUME DialogueInv, NEW b \in buttons,
         \/ OnConfirmOrder(b) \/ OnCancelOrder(b) \/ OnAddManualService(b)
         \/ OnConfirmDelivery(b) \/ OnRejectDelivery(b)
         \/ OnStartWork(b) \/ OnDeclineWork(b)
  PROVE  DialogueStep
<1>1. DialogueTypes /\ WaitingOrderIsAsked /\ b.order \in Orders /\ b \in Button
  BY DEF DialogueInv, DialogueTypes, DialogueTypeOK, Button
<1>2. CASE OnConfirmOrder(b)
  <2>1. UNCHANGED <<driver, pending>> /\ Pressed(b, "confirm_order")
    BY <1>2 DEF OnConfirmOrder
  <2>2. CASE Owns(b) /\ CanTransition(status[b.order], ConfirmTarget(b.order))
    <3>1. Confirm(b.order, {b})
      BY <1>2, <2>2 DEF OnConfirmOrder
    <3>2. /\ ChatTyped
          /\ status' \in [Orders -> OrderStatus \cup {"absent"}]
          /\ offered' \subseteq Orders
          /\ UNCHANGED <<owner, delivery, drafted, edits>>
          /\ \A x \in Orders : AskedNext(x) /\ LeavesClosed(x)
      BY <1>1, <3>1, Confirming
    <3>3. QED
      BY <1>1, <2>1, <3>2
         DEF DialogueTypes, DialogueTypeOK, ChatTyped, DialogueStep, StaysClosed, LeavesClosed
  <2>3. CASE ~(Owns(b) /\ CanTransition(status[b.order], ConfirmTarget(b.order)))
    <3>1. TakeOff(b) /\ UNCHANGED <<status, rowRest>>
      BY <1>2, <2>3 DEF OnConfirmOrder
    <3>2. b.kind = "confirm_order"
      BY <2>1 DEF Pressed
    <3>3. ~(b.chat = owner[b.order] /\ status[b.order] = "waiting_confirmation")
      BY <2>3 DEF Owns, CanTransition, ConfirmTarget, AllowedTransitions
    <3>4. \A x \in Orders : AskedNext(x) /\ LeavesClosed(x)
      BY <1>1, <3>1, <3>2, <3>3, TakingOff, AwaitedButtons
         DEF WaitingOrderIsAsked, AskedNext, LeavesClosed, rowRest
    <3>5. QED
      BY <1>1, <2>1, <3>1, <3>4, TakingOff, RowStands DEF DialogueTypes, DialogueTypeOK
  <2>4. QED
    BY <2>2, <2>3
<1>3. CASE OnCancelOrder(b)
  <2>1. Cancel(b.order) /\ TakeOff(b) /\ UNCHANGED <<driver, rowRest, pending>>
    BY <1>3 DEF OnCancelOrder, Cancel
  <2>2. unasked' = unasked /\ ChatTyped /\ \A x \in buttons : x.order # b.order => x \in buttons'
    BY <1>1, <2>1, TakingOff
  <2>3. QED
    BY <1>1, <2>1, <2>2, Cancelling, RowStands DEF DialogueTypes, DialogueTypeOK
<1>4. CASE OnAddManualService(b)
  <2>1. \A o \in Orders : AskedNext(o) /\ StaysClosed(o)
    BY <1>1, <1>4
       DEF WaitingOrderIsAsked, AskedNext, StaysClosed, OnAddManualService, chat, rowRest
  <2>2. DialogueTypes'
    BY <1>1, <1>4 DEF DialogueTypes, DialogueTypeOK, OnAddManualService, chat, rowRest
  <2>3. QED
    BY <2>1, <2>2 DEF DialogueStep
<1>5. CASE OnConfirmDelivery(b) \/ OnRejectDelivery(b) \/ OnStartWork(b)
  <2>1. /\ TakeOff(b) /\ UNCHANGED <<driver, rowRest, pending>>
        /\ b.kind \in {"delivery", "start_work"}
    BY <1>5 DEF OnConfirmDelivery, OnRejectDelivery, OnStartWork, Pressed
  <2>2. \/ /\ Move(b.order, "working") \/ Move(b.order, "received_by_driver")
           /\ AwaitsMaster(b.order) \/ CanTransition(status[b.order], "working")
        \/ /\ UNCHANGED status
           /\ b.kind = "delivery" /\ ~(b.chat = owner[b.order] /\ AwaitsMaster(b.order))
    BY <1>5 DEF OnConfirmDelivery, OnRejectDelivery, OnStartWork, Pressed, Owns
  <2>3. status' \in [Orders -> OrderStatus \cup {"absent"}]
    BY <1>1, <2>2 DEF DialogueTypes, DialogueTypeOK, Move, OrderStatus
  <2>4. \A o \in Orders : LeavesClosed(o)
    BY <1>1, <2>2 DEF DialogueTypes, DialogueTypeOK, Move, LeavesClosed, Closed, AwaitsMaster,
                      CanTransition, AllowedTransitions
  <2>5. \A o \in Orders : AskedNext(o)
    <3>1. CASE /\ UNCHANGED status
               /\ b.kind = "delivery" /\ ~(b.chat = owner[b.order] /\ AwaitsMaster(b.order))
      <4>1. buttons \ {b} \subseteq buttons' /\ UNCHANGED <<owner, unasked>>
        BY <1>1, <2>1, TakingOff DEF rowRest
      <4>2. ASSUME NEW o \in Orders, status[o] \in DOMAIN Awaited
            PROVE  [chat |-> owner[o], kind |-> Awaited[status[o]], order |-> o] # b
        BY <3>1, <4>2, AwaitedButtons DEF AwaitsMaster
      <4>3. QED
        BY <1>1, <3>1, <4>1, <4>2 DEF WaitingOrderIsAsked, AskedNext
    <3>2. CASE Move(b.order, "working") \/ Move(b.order, "received_by_driver")
      <4>1. OthersAsked(b.order)
        BY <1>1, <2>1, <3>2, TakingOff DEF DialogueTypes, DialogueTypeOK, OthersAsked, Move, rowRest
      <4>2. AskedNext(b.order)
        BY <1>1, <3>2, AwaitedButtons DEF DialogueTypes, DialogueTypeOK, AskedNext, Move
      <4>3. QED
        BY <1>1, <4>1, <4>2, OthersStand
    <3>3. QED
      BY <2>2, <3>1, <3>2
  <2>6. QED
    BY <1>1, <2>1, <2>3, <2>4, <2>5, TakingOff, RowStands DEF DialogueTypes, DialogueTypeOK
<1>6. CASE OnDeclineWork(b)
  <2>1. /\ Edit({b}) /\ unasked' = unasked \cup {b.order}
        /\ UNCHANGED <<status, driver, rowRest, pending>>
    BY <1>6 DEF OnDeclineWork
  <2>2. \A o \in Orders : AskedNext(o) /\ LeavesClosed(o)
    BY <1>1, <2>1, Editing DEF WaitingOrderIsAsked, AskedNext, LeavesClosed, rowRest
  <2>3. ChatTyped
    BY <1>1, <2>1, Editing DEF DialogueTypes, DialogueTypeOK, ChatTyped
  <2>4. QED
    BY <1>1, <2>1, <2>2, <2>3, RowStands DEF DialogueTypes, DialogueTypeOK
<1>7. QED
  BY <1>2, <1>3, <1>4, <1>5, <1>6

\* The couriers' buttons, lists and calls, and the offers of the broadcast.
LEMMA CourierSteps ==
  ASSUME DialogueInv,
         \/ \E b \in buttons : OnAcceptOrder(b) \/ OnDriverDelivered(b)
         \/ \E o \in Orders, d \in Drivers : Offer(o, d) \/ PostAccept(o, d)
         \/ \E o \in Orders : PostDriverDelivered(o) \/ DriverFinish(o)
         \/ \E d \in Drivers : DriverFaolList(d)
  PROVE  DialogueStep
<1>1. DialogueTypes /\ WaitingOrderIsAsked
  BY DEF DialogueInv
<1>2. ASSUME NEW o \in Orders, NEW d \in Drivers, Accepts(o, d)
      PROVE  /\ status' \in [Orders -> OrderStatus \cup {"absent"}]
             /\ driver' \in [Orders -> Drivers \cup {NoDriver}]
             /\ status'[o] = "received_by_driver"
             /\ \A x \in Orders \ {o} : status'[x] = status[x]
             /\ \A x \in Orders : LeavesClosed(x)
  BY <1>1, <1>2
     DEF DialogueTypes, DialogueTypeOK, Accepts, Move, OrderStatus, LeavesClosed, Closed
<1>3. ASSUME NEW b \in buttons, OnAcceptOrder(b) PROVE DialogueStep
  <2>1. b.order \in Orders /\ b.chat \in Drivers /\ b.kind = "accept"
    BY <1>1, <1>3 DEF DialogueTypes, DialogueTypeOK, Button, OnAcceptOrder, Pressed
  <2>2. TakeOff(b) /\ UNCHANGED <<rowRest, pending>>
    BY <1>3 DEF OnAcceptOrder
  <2>3. CASE Accepts(b.order, b.chat)
    <3>1. OthersAsked(b.order)
      BY <1>1, <1>2, <2>1, <2>2, <2>3, TakingOff DEF OthersAsked, rowRest
    <3>2. AskedNext(b.order)
      BY <1>2, <2>1, <2>3, AwaitedButtons DEF AskedNext
    <3>3. QED
      BY <1>1, <1>2, <2>1, <2>2, <2>3, <3>1, <3>2, OthersStand, TakingOff, RowStands
  <2>4. CASE UNCHANGED <<status, driver>>
    <3>1. \A x \in Orders : AskedNext(x) /\ LeavesClosed(x)
      BY <1>1, <2>1, <2>2, <2>4, TakingOff, AwaitedButtons
         DEF WaitingOrderIsAsked, AskedNext, LeavesClosed, rowRest
    <3>2. QED
      BY <1>1, <2>2, <2>4, <3>1, TakingOff, RowStands DEF DialogueTypes, DialogueTypeOK
  <2>5. QED
    BY <1>3, <2>3, <2>4 DEF OnAcceptOrder
<1>4. ASSUME NEW o \in Orders, NEW d \in Drivers, PostAccept(o, d) PROVE DialogueStep
  <2>1. Accepts(o, d) /\ UNCHANGED <<rowRest, chat, pending>>
    BY <1>4 DEF PostAccept
  <2>2. OthersAsked(o)
    BY <1>2, <2>1 DEF OthersAsked, rowRest, chat
  <2>3. AskedNext(o)
    BY <1>2, <2>1, AwaitedButtons DEF AskedNext
  <2>4. ChatTyped
    BY <1>1, <2>1 DEF DialogueTypes, DialogueTypeOK, ChatTyped, chat
  <2>5. QED
    BY <1>1, <1>2, <2>1, <2>2, <2>3, <2>4, OthersStand, RowStands
<1>5. ASSUME NEW b \in buttons, OnDriverDelivered(b) PROVE DialogueStep
  <2>1. b.order \in Orders /\ b.kind = "driver_delivered"
    BY <1>1, <1>5 DEF DialogueTypes, DialogueTypeOK, Button, OnDriverDelivered, Pressed
  <2>2. /\ Edit({b}) /\ UNCHANGED <<driver, rowRest, pending>>
        /\ \/ Move(b.order, "delivered_by_driver") /\ unasked' = unasked \cup {b.order}
           \/ UNCHANGED <<status, unasked>>
    BY <1>5 DEF OnDriverDelivered
  <2>3. buttons \ {b} \subseteq buttons' /\ ChatTyped
    BY <1>1, <2>1, <2>2, Editing DEF DialogueTypes, DialogueTypeOK, ChatTyped
  <2>4. \A x \in Orders : AskedNext(x)
    BY <1>1, <2>1, <2>2, <2>3, AwaitedButtons
       DEF DialogueTypes, DialogueTypeOK, WaitingOrderIsAsked, AskedNext, Move, rowRest
  <2>5. \A x \in Orders : StaysClosed(x)
    BY <1>1, <1>5, <2>1, <2>2 DEF DialogueTypes, DialogueTypeOK, StaysClosed, Reopens, Move
  <2>6. DialogueTypes'
    BY <1>1, <2>1, <2>2, <2>3
       DEF DialogueTypes, DialogueTypeOK, ChatTyped, Move, OrderStatus, rowRest
  <2>7. QED
    BY <2>4, <2>5, <2>6 DEF DialogueStep
<1>6. ASSUME NEW o \in Orders, PostDriverDelivered(o) \/ DriverFinish(o) PROVE DialogueStep
  <2>1. /\ Send("delivery", o, {}) /\ UNCHANGED <<driver, rowRest, pending>>
        /\ \/ Move(o, "delivered_by_driver") /\ status[o] \in {"accepted", "received_by_driver"}
           \/ /\ Move(o, "waiting_master_delivery_confirmation")
              /\ CanTransition(status[o], "waiting_master_delivery_confirmation")
    BY <1>6 DEF PostDriverDelivered, DriverFinish
  <2>2. /\ ChatTyped
        /\ o \in unasked' \/ [chat |-> owner[o], kind |-> "delivery", order |-> o] \in buttons'
        /\ \A x \in Orders \ {o} : x \in unasked' <=> x \in unasked
        /\ \A b \in buttons : b.order # o => b \in buttons'
    BY <1>1, <2>1, Sending DEF Kinds
  <2>3. AskedNext(o)
    BY <1>1, <2>1, <2>2, AwaitedButtons DEF DialogueTypes, DialogueTypeOK, AskedNext, Move, rowRest
  <2>4. OthersAsked(o)
    BY <1>1, <2>1, <2>2 DEF DialogueTypes, DialogueTypeOK, OthersAsked, Move, rowRest
  <2>5. \A x \in Orders : LeavesClosed(x)
    BY <1>1, <2>1 DEF DialogueTypes, DialogueTypeOK, Move, LeavesClosed, Closed, CanTransition,
                      AllowedTransitions
  <2>6. status' \in [Orders -> OrderStatus \cup {"absent"}]
    BY <1>1, <2>1 DEF DialogueTypes, DialogueTypeOK, Move, OrderStatus
  <2>7. QED
    BY <1>1, <2>1, <2>2, <2>3, <2>4, <2>5, <2>6, OthersStand, RowStands
       DEF DialogueTypes, DialogueTypeOK
<1>7. ASSUME NEW x \in Orders, NEW d \in Drivers, Offer(x, d) PROVE DialogueStep
  <2>1. \A o \in Orders : AskedNext(o) /\ StaysClosed(o)
    BY <1>1, <1>7 DEF WaitingOrderIsAsked, AskedNext, StaysClosed, Offer, rowRest
  <2>2. DialogueTypes'
    BY <1>1, <1>7 DEF DialogueTypes, DialogueTypeOK, Offer, Button, Kinds, rowRest
  <2>3. QED
    BY <2>1, <2>2 DEF DialogueStep
<1>8. ASSUME NEW d \in Drivers, DriverFaolList(d) PROVE DialogueStep
  <2>1. \A o \in Orders : AskedNext(o) /\ StaysClosed(o)
    BY <1>1, <1>8 DEF WaitingOrderIsAsked, AskedNext, StaysClosed, DriverFaolList, rowRest
  <2>2. DialogueTypes'
    BY <1>1, <1>8 DEF DialogueTypes, DialogueTypeOK, DriverFaolList, Button, Kinds, rowRest
  <2>3. QED
    BY <2>1, <2>2 DEF DialogueStep
<1>9. QED
  BY <1>3, <1>4, <1>5, <1>6, <1>7, <1>8

\* Drafts, texts, locations and the WebApp: a question that is due is asked in
\* the step that makes it due, or known to be left out.
LEMMA MasterSteps ==
  ASSUME DialogueInv,
         \/ \E o \in Orders : \/ CreateDraft(o) \/ BossCreatesOrder(o) \/ PostLocation(o)
                              \/ PostConfirm(o) \/ PatchCancel(o)
                              \/ Receive(o) \/ Finish(o) \/ OnStartConf(o)
         \/ \E u \in Ustas : OnLocation(u) \/ ManualServiceName(u) \/ ManualServicePrice(u)
  PROVE  DialogueStep
<1>1. DialogueTypes /\ WaitingOrderIsAsked
  BY DEF DialogueInv
<1>2. ASSUME NEW o \in Orders, CreateDraft(o) \/ BossCreatesOrder(o) PROVE DialogueStep
  <2>1. IsDrafted(o) /\ (UNCHANGED chat \/ Send("confirm_order", o, {}))
    BY <1>2 DEF CreateDraft, BossCreatesOrder
  <2>2. /\ status[o] = "absent" /\ status' = [status EXCEPT ![o] = "draft"]
        /\ drafted' = Append(drafted, o)
        /\ UNCHANGED <<driver, owner, delivery, offered, edits, pending>>
    BY <2>1 DEF IsDrafted, Move
  <2>3. /\ ChatTyped
        /\ \A x \in Orders \ {o} : x \in unasked' <=> x \in unasked
        /\ \A b \in buttons : b.order # o => b \in buttons'
    <3>1. CASE UNCHANGED chat
      BY <1>1, <3>1 DEF chat, ChatTyped, DialogueTypes, DialogueTypeOK
    <3>2. CASE Send("confirm_order", o, {})
      <4>1. /\ ChatTyped
            /\ o \in unasked' \/ [chat |-> owner[o], kind |-> "confirm_order", order |-> o] \in buttons'
            /\ \A x \in Orders \ {o} : x \in unasked' <=> x \in unasked
            /\ \A b \in buttons : b.order # o => b \in buttons'
        BY <1>1, <3>2, Sending DEF Kinds
      <4>2. QED
        BY <4>1
    <3>3. QED
      BY <2>1, <3>1, <3>2
  <2>4. AskedNext(o)
    BY <1>1, <2>2, AwaitedButtons DEF AskedNext, DialogueTypes, DialogueTypeOK
  <2>5. OthersAsked(o)
    BY <1>1, <2>2, <2>3 DEF OthersAsked, DialogueTypes, DialogueTypeOK
  <2>6. \A x \in Orders : StaysClosed(x)
    BY <1>1, <2>2 DEF StaysClosed, Closed, DialogueTypes, DialogueTypeOK
  <2>7. DialogueTypes'
    BY <1>1, <2>2, <2>3 DEF DialogueTypes, DialogueTypeOK, OrderStatus, ChatTyped
  <2>8. QED
    BY <1>1, <2>4, <2>5, <2>6, <2>7, OthersStand DEF DialogueStep
<1>3. ASSUME NEW x \in Orders, PostLocation(x) PROVE DialogueStep
  <2>1. /\ CanTransition(status[x], "waiting_confirmation")
        /\ status' = [status EXCEPT ![x] = "waiting_confirmation"]
        /\ unasked' = unasked \cup {x}
        /\ UNCHANGED <<driver, rowRest, pending, buttons, lost>>
    BY <1>3 DEF PostLocation, MoveUnasked, Move
  <2>2. \A o \in Orders : AskedNext(o)
    BY <1>1, <2>1 DEF AskedNext, WaitingOrderIsAsked, DialogueTypes, DialogueTypeOK, rowRest
  <2>3. \A o \in Orders : LeavesClosed(o)
    BY <1>1, <2>1 DEF LeavesClosed, Closed, DialogueTypes, DialogueTypeOK, CanTransition,
                      AllowedTransitions
  <2>4. /\ ChatTyped /\ status' \in [Orders -> OrderStatus \cup {"absent"}]
        /\ driver' \in [Orders -> Drivers \cup {NoDriver}]
    BY <1>1, <2>1 DEF ChatTyped, DialogueTypes, DialogueTypeOK, OrderStatus
  <2>5. QED
    BY <1>1, <2>1, <2>2, <2>3, <2>4, RowStands
<1>4. ASSUME NEW x \in Orders, PostConfirm(x) PROVE DialogueStep
  <2>1. Confirm(x, {}) /\ UNCHANGED <<driver, pending>>
    BY <1>4 DEF PostConfirm
  <2>2. /\ ChatTyped
        /\ status' \in [Orders -> OrderStatus \cup {"absent"}]
        /\ offered' \subseteq Orders
        /\ UNCHANGED <<owner, delivery, drafted, edits>>
        /\ \A o \in Orders : AskedNext(o) /\ LeavesClosed(o)
    BY <2>1, Confirming
  <2>3. QED
    BY <1>1, <2>1, <2>2
       DEF DialogueTypes, DialogueTypeOK, ChatTyped, DialogueStep, StaysClosed, LeavesClosed
<1>5. ASSUME NEW x \in Orders, PatchCancel(x) PROVE DialogueStep
  <2>1. Cancel(x) /\ UNCHANGED <<buttons, lost, unasked, driver, rowRest, pending>>
    BY <1>5 DEF PatchCancel, Cancel, chat
  <2>2. ChatTyped
    BY <1>1, <2>1 DEF ChatTyped, DialogueTypes, DialogueTypeOK
  <2>3. QED
    BY <1>1, <2>1, <2>2, Cancelling, RowStands DEF DialogueTypes, DialogueTypeOK
<1>6. ASSUME NEW x \in Orders, Receive(x) \/ Finish(x) \/ OnStartConf(x) PROVE DialogueStep
  <2>1. \A o \in Orders : AskedNext(o) /\ StaysClosed(o)
    BY <1>1, <1>6, AwaitedButtons
       DEF DialogueTypes, DialogueTypeOK, WaitingOrderIsAsked, AskedNext, StaysClosed, Closed,
           Receive, Finish, OnStartConf, Move, chat, rowRest, CanTransition, AllowedTransitions
  <2>2. DialogueTypes'
    BY <1>1, <1>6 DEF DialogueTypes, DialogueTypeOK, Receive, Finish, OnStartConf, Move, chat, rowRest,
                      OrderStatus
  <2>3. QED
    BY <2>1, <2>2 DEF DialogueStep
<1>7. ASSUME NEW u \in Ustas, OnLocation(u) PROVE DialogueStep
  <2>1. PICK i \in 1..Len(drafted) :
          /\ status[drafted[i]] = "draft"
          /\ Move(drafted[i], "waiting_confirmation")
          /\ Send("confirm_order", drafted[i], {})
    BY <1>7 DEF OnLocation
  <2> DEFINE o == drafted[i]
  <2>2. o \in Orders
    BY <1>1, <2>1 DEF DialogueTypes, DialogueTypeOK
  <2>3. UNCHANGED <<driver, rowRest, pending>>
    BY <1>7 DEF OnLocation
  <2>4. /\ ChatTyped
        /\ o \in unasked' \/ [chat |-> owner[o], kind |-> "confirm_order", order |-> o] \in buttons'
        /\ \A x \in Orders \ {o} : x \in unasked' <=> x \in unasked
        /\ \A b \in buttons : b.order # o => b \in buttons'
    BY <1>1, <2>1, <2>2, Sending DEF Kinds
  <2>5. status[o] = "draft" /\ status' = [status EXCEPT ![o] = "waiting_confirmation"]
    BY <2>1 DEF Move
  <2> HIDE DEF o
  <2>6. AskedNext(o)
    BY <1>1, <2>2, <2>3, <2>4, <2>5, AwaitedButtons
       DEF AskedNext, rowRest, DialogueTypes, DialogueTypeOK
  <2>7. OthersAsked(o)
    BY <1>1, <2>2, <2>3, <2>4, <2>5 DEF OthersAsked, rowRest, DialogueTypes, DialogueTypeOK
  <2>8. \A x \in Orders : LeavesClosed(x)
    BY <1>1, <2>2, <2>5 DEF LeavesClosed, Closed, DialogueTypes, DialogueTypeOK
  <2>9. /\ status' \in [Orders -> OrderStatus \cup {"absent"}]
        /\ driver' \in [Orders -> Drivers \cup {NoDriver}]
    BY <1>1, <2>2, <2>3, <2>5 DEF DialogueTypes, DialogueTypeOK, OrderStatus
  <2>10. QED
    BY <1>1, <2>2, <2>3, <2>4, <2>6, <2>7, <2>8, <2>9, OthersStand, RowStands
<1>8. ASSUME NEW u \in Ustas, ManualServiceName(u) PROVE DialogueStep
  <2>1. \A o \in Orders : AskedNext(o) /\ StaysClosed(o)
    BY <1>1, <1>8 DEF WaitingOrderIsAsked, AskedNext, StaysClosed, ManualServiceName, chat, rowRest
  <2>2. DialogueTypes'
    BY <1>1, <1>8 DEF DialogueTypes, DialogueTypeOK, ManualServiceName, chat, rowRest
  <2>3. QED
    BY <2>1, <2>2 DEF DialogueStep
<1>9. ASSUME NEW u \in Ustas, ManualServicePrice(u) PROVE DialogueStep
  <2>1. /\ pending[u].order \in Orders /\ buttons \subseteq buttons'
        /\ pending' = [pending EXCEPT ![u] = NothingPending]
        /\ UNCHANGED <<status, driver, rowRest, unasked>>
    BY <1>1, <1>9 DEF DialogueTypes, ManualServicePrice
  <2>2. \A o \in Orders : AskedNext(o) /\ StaysClosed(o)
    BY <1>1, <2>1 DEF WaitingOrderIsAsked, AskedNext, StaysClosed, rowRest
  <2>3. ChatTyped
    BY <1>1, <1>9, <2>1
       DEF DialogueTypes, DialogueTypeOK, ChatTyped, ManualServicePrice, Fails, Button, Kinds
  <2>4. DialogueTypes'
    BY <1>1, <2>1, <2>3 DEF DialogueTypes, DialogueTypeOK, NothingPending, ChatTyped, rowRest
  <2>5. QED
    BY <2>2, <2>4 DEF DialogueStep
<1>10. QED
  BY <1>2, <1>3, <1>4, <1>5, <1>6, <1>7, <1>8, <1>9

\* The boss's edits ask nobody.
LEMMA BossSteps ==
  ASSUME DialogueInv, NEW x \in Orders,
         \/ \E to \in OrderStatus : BossSetsStatus(x, to)
         \/ \E u \in Ustas, needed \in BOOLEAN : BossUpdatesOrder(x, u, needed)
  PROVE  DialogueStep
<1>1. DialogueTypes /\ WaitingOrderIsAsked
  BY DEF DialogueInv
<1>2. ASSUME NEW to \in OrderStatus, BossSetsStatus(x, to) PROVE DialogueStep
  <2>1. /\ status' = [status EXCEPT ![x] = to]
        /\ unasked' = unasked \cup {x}
        /\ edits' = edits + 1
        /\ UNCHANGED <<owner, delivery, driver, drafted, offered, buttons, lost, pending>>
    BY <1>2 DEF BossSetsStatus, BossEdits, Move
  <2>2. \A o \in Orders : AskedNext(o)
    BY <1>1, <2>1 DEF WaitingOrderIsAsked, AskedNext, DialogueTypes, DialogueTypeOK
  <2>3. \A o \in Orders : StaysClosed(o)
    BY <1>1, <1>2, <2>1 DEF StaysClosed, Reopens, DialogueTypes, DialogueTypeOK
  <2>4. DialogueTypes'
    BY <1>1, <2>1 DEF DialogueTypes, DialogueTypeOK
  <2>5. QED
    BY <2>2, <2>3, <2>4 DEF DialogueStep
<1>3. ASSUME NEW u \in Ustas, NEW needed \in BOOLEAN, BossUpdatesOrder(x, u, needed)
      PROVE  DialogueStep
  <2>1. \A o \in Orders : AskedNext(o) /\ StaysClosed(o)
    BY <1>1, <1>3 DEF WaitingOrderIsAsked, AskedNext, StaysClosed, DialogueTypes, DialogueTypeOK,
                      BossUpdatesOrder, BossEdits
  <2>2. DialogueTypes'
    BY <1>1, <1>3 DEF DialogueTypes, DialogueTypeOK, BossUpdatesOrder, BossEdits
  <2>3. QED
    BY <2>1, <2>2 DEF DialogueStep
<1>4. QED
  BY <1>2, <1>3

LEMMA StepDialogue ==
  ASSUME DialogueInv, [DialogueNext]_dialogueVars
  PROVE  DialogueInv' /\ \A o \in Orders : StaysClosed(o)
<1>1. CASE UNCHANGED dialogueVars
  BY <1>1 DEF dialogueVars, chat, rowRest, DialogueInv, DialogueTypes, DialogueTypeOK,
              WaitingOrderIsAsked, StaysClosed
<1>2. CASE DialogueNext
  <2>1. DialogueStep
    BY <1>2, MasterPresses, CourierSteps, MasterSteps, BossSteps
       DEF DialogueNext, Press, Calls, Boss
  <2>2. QED
    BY <2>1 DEF DialogueStep, DialogueInv, WaitingOrderIsAsked, AskedNext
<1>3. QED
  BY <1>1, <1>2

LEMMA DialogueInitially == DialogueInit => DialogueInv
BY DialogueAssumption, AwaitedButtons
   DEF DialogueInit, DialogueInv, DialogueTypes, DialogueTypeOK, WaitingOrderIsAsked, NothingPending,
       Ustas

LEMMA AlwaysDialogue == DialogueSpec => []DialogueInv
<1>1. DialogueInv /\ [DialogueNext]_dialogueVars => DialogueInv'
  BY StepDialogue
<1>2. QED
  BY DialogueInitially, <1>1, PTL DEF DialogueSpec

\* No press on any message, old or new, takes away the question an order waits
\* for, once it has been asked (bot.update.ts), for any number of orders and
\* couriers, and whatever the boss does to the orders meanwhile.
THEOREM QuestionsStand == DialogueSpec => [](DialogueTypeOK /\ WaitingOrderIsAsked)
<1>1. DialogueInv => DialogueTypeOK /\ WaitingOrderIsAsked
  BY DEF DialogueInv, DialogueTypes
<1>2. QED
  BY <1>1, AlwaysDialogue, PTL

\* Only `Yetkazib bo'ldim' of the bot and the boss reopen a closed order.
THEOREM OnlyDeliveredReopens == DialogueSpec => ClosedStaysClosed
<1>1. DialogueInv /\ [DialogueNext]_dialogueVars =>
        [\A o \in Orders : status[o] \in {"completed", "cancelled"} /\ status'[o] # status[o]
           => Reopens(o)]_dialogueVars
  BY StepDialogue DEF StaysClosed, Closed
<1>2. QED
  BY <1>1, AlwaysDialogue, PTL DEF DialogueSpec, ClosedStaysClosed
-----------------------------------------------------------------------------
(* The lists of closed orders.                                             *)

Top(list, k) == {x \in list : Place(x, list) <= k}

Opened(r) == page[r] # NoPage

\* What a reader has leafed through: whole pages, and of what he is owed all
\* that stands there now, since an order that closes only pushes others down.
Leafed(r) ==
  /\ \E k \in Nat : page[r].skip = k * Take
  /\ page[r].skip <= HistoryOrders
  /\ page[r].next => page[r].skip + Take <= HistoryOrders
  /\ r \notin shifted =>
       /\ owed[r] \subseteq Listed(r, phase)
       /\ \A o \in owed[r] : Place(o, Listed(r, phase)) <= page[r].skip + Take => o \in shown[r]
       /\ ~page[r].next => owed[r] \subseteq shown[r]

HistoryInv ==
  /\ HistoryTypeOK
  /\ \A r \in Readers : Opened(r) => Leafed(r)

LEMMA NumbersAreNumbers ==
  ASSUME NEW o \in Numbers
  PROVE  o \in Nat /\ o \in Int /\ o <= HistoryOrders
BY HistoryAssumption DEF Numbers

\* Lists of orders are finite, and their places count them.
LEMMA ListsAreFinite ==
  ASSUME NEW list \in SUBSET Numbers
  PROVE  /\ IsFiniteSet(list)
         /\ Cardinality(list) \in Nat /\ Cardinality(list) <= HistoryOrders
<1>1. IsFiniteSet(Numbers) /\ Cardinality(Numbers) = HistoryOrders
  BY HistoryAssumption, FS_Interval DEF Numbers
<1>2. QED
  BY <1>1, FS_Subset, FS_CardinalityType

LEMMA PlacesCount ==
  ASSUME NEW list \in SUBSET Numbers, NEW o \in list
  PROVE  /\ Place(o, list) \in Nat
         /\ Place(o, list) >= 1 /\ Place(o, list) <= Cardinality(list)
<1> DEFINE above == {x \in list : x >= o}
<1>1. above \in SUBSET Numbers /\ above \subseteq list /\ o \in above
  <2>1. o \in Int /\ o >= o
    BY NumbersAreNumbers
  <2>2. \A x \in list : x \in Numbers
    OBVIOUS
  <2>3. QED
    BY <2>1, <2>2
<1>2. IsFiniteSet(above) /\ Cardinality(above) \in Nat /\ Cardinality(list) \in Nat
  BY <1>1, ListsAreFinite
<1>3. Cardinality(above) <= Cardinality(list)
  BY <1>1, ListsAreFinite, FS_Subset
<1>4. Cardinality(above) # 0
  BY <1>1, <1>2, FS_EmptySet
<1>5. QED
  BY <1>2, <1>3, <1>4 DEF Place

\* A newer order has a smaller place; and in a longer list no place is smaller.
LEMMA PlacesFollowAge ==
  ASSUME NEW list \in SUBSET Numbers, NEW longer \in SUBSET Numbers, list \subseteq longer,
         NEW o \in Numbers, NEW x \in Numbers, x >= o
  PROVE  Place(x, list) <= Place(o, longer)
<1>1. {y \in list : y >= x} \subseteq {y \in longer : y >= o}
  <2>1. ASSUME NEW y \in list, y >= x PROVE y \in longer /\ y >= o
    <3>1. y \in Int /\ x \in Int /\ o \in Int
      BY NumbersAreNumbers
    <3>2. QED
      BY <2>1, <3>1
  <2>2. QED
    BY <2>1
<1>2. {y \in longer : y >= o} \in SUBSET Numbers
  OBVIOUS
<1>3. QED
  BY <1>1, <1>2, ListsAreFinite, FS_Subset DEF Place

\* The first k places hold k orders, unless there are fewer.
LEMMA TopHasNoMore ==
  ASSUME NEW list \in SUBSET Numbers, NEW k \in Nat
  PROVE  Cardinality(Top(list, k)) <= k
<1>1. Top(list, k) \in SUBSET Numbers /\ Top(list, k) \subseteq Nat
  <2>1. Top(list, k) \in SUBSET Numbers
    BY DEF Top
  <2>2. QED
    BY <2>1, NumbersAreNumbers
<1>2. CASE Top(list, k) = {}
  BY <1>2, FS_EmptySet
<1>3. CASE Top(list, k) # {}
  <2>1. PICK m \in Top(list, k) : \A x \in Top(list, k) : m <= x
    BY <1>1, <1>3, LeastNumber
  <2>2. m \in list /\ Place(m, list) <= k /\ Place(m, list) \in Nat
    BY <2>1, PlacesCount DEF Top
  <2>3. Top(list, k) \subseteq {x \in list : x >= m}
    BY <1>1, <2>1 DEF Top
  <2>4. {x \in list : x >= m} \in SUBSET Numbers
    OBVIOUS
  <2>5. Cardinality(Top(list, k)) <= Place(m, list)
    BY <2>3, <2>4, ListsAreFinite, FS_Subset DEF Place
  <2>6. Cardinality(Top(list, k)) \in Nat
    BY <1>1, ListsAreFinite
  <2>7. QED
    BY <2>2, <2>5, <2>6
<1>4. QED
  BY <1>2, <1>3

LEMMA TopHasNoFewer ==
  ASSUME NEW list \in SUBSET Numbers, NEW k \in Nat, k <= Cardinality(list)
  PROVE  Cardinality(Top(list, k)) >= k
<1> SUFFICES ASSUME Cardinality(Top(list, k)) < k PROVE FALSE
  BY ListsAreFinite DEF Top
<1> DEFINE rest == list \ Top(list, k)
           ages == {HistoryOrders - x : x \in rest}
<1>1. Top(list, k) \in SUBSET Numbers /\ rest \in SUBSET Numbers
  BY DEF Top
<1>2. rest # {}
  <2>1. SUFFICES ASSUME rest = {} PROVE FALSE
    OBVIOUS
  <2>2. Top(list, k) = list
    BY <2>1 DEF Top
  <2>3. QED
    BY <2>2, ListsAreFinite
<1>3. PICK m \in rest : \A x \in rest : m >= x
  <2>1. ages \subseteq Nat /\ ages # {}
    BY <1>1, <1>2, HistoryAssumption DEF Numbers
  <2>2. PICK a \in ages : \A b \in ages : a <= b
    <3> HIDE DEF ages
    <3>1. QED
      BY <2>1, LeastNumber
  <2>3. PICK m \in rest : a = HistoryOrders - m
    BY <2>2
  <2>4. ASSUME NEW x \in rest PROVE m >= x
    <3>1. HistoryOrders - x \in ages
      OBVIOUS
    <3>2. HistoryOrders - m <= HistoryOrders - x
      BY <2>2, <2>3, <3>1
    <3>3. m \in Int /\ x \in Int
      BY <1>1 DEF Numbers
    <3>4. QED
      BY <3>2, <3>3, HistoryAssumption
  <2>5. QED
    BY <2>4
<1> HIDE DEF ages
<1>4. m \in list /\ ~(Place(m, list) <= k)
  BY <1>3 DEF Top
<1>5. {x \in list : x >= m} \subseteq Top(list, k) \cup {m}
  <2>1. ASSUME NEW x \in list, x >= m, x # m PROVE x \in Top(list, k)
    BY <1>1, <1>3, <2>1 DEF Numbers
  <2>2. QED
    BY <2>1
<1>6. /\ IsFiniteSet(Top(list, k) \cup {m})
      /\ Cardinality(Top(list, k) \cup {m}) <= Cardinality(Top(list, k)) + 1
      /\ Cardinality(Top(list, k)) \in Nat
  BY <1>1, ListsAreFinite, FS_AddElement
<1>7. Place(m, list) <= Cardinality(Top(list, k) \cup {m})
  BY <1>5, <1>6, FS_Subset DEF Place
<1>8. Place(m, list) \in Nat /\ Cardinality(Top(list, k) \cup {m}) \in Nat
  BY <1>4, <1>6, PlacesCount, FS_CardinalityType
<1>9. QED
  BY <1>4, <1>6, <1>7, <1>8

\* An order that stands on the page of an offset is on the page that is sent.
LEMMA PageHoldsPlaces ==
  ASSUME NEW list \in SUBSET Numbers, NEW skip \in Nat, NEW o \in list,
         skip < Place(o, list), Place(o, list) <= skip + Take
  PROVE  o \in OnPage(Fetched(list, skip))
<1> DEFINE fetched == Fetched(list, skip)
           above == {x \in list : x >= o}
           mine == {x \in fetched : x >= o}
<1>1. fetched \in SUBSET Numbers /\ o \in fetched /\ o \in Numbers /\ o \in Nat
  <2>1. Place(o, list) \in Nat
    BY PlacesCount
  <2>2. o \in fetched /\ fetched \in SUBSET Numbers
    BY <2>1, HistoryAssumption DEF Fetched
  <2>3. QED
    BY <2>2, NumbersAreNumbers
<1>2. ASSUME NEW x \in Top(list, skip) PROVE x \in above /\ x \notin mine
  <2>1. x \in list /\ Place(x, list) <= skip /\ x \in Numbers /\ x \in Nat
    BY <1>2 DEF Top, Numbers
  <2>2. Place(x, list) \in Nat /\ Place(o, list) \in Nat
    BY <2>1, PlacesCount
  <2>3. ~(o >= x)
    <3>1. o >= x => Place(o, list) <= Place(x, list)
      BY <1>1, <2>1, PlacesFollowAge
    <3>2. QED
      BY <2>1, <2>2, <3>1
  <2>4. x \notin fetched
    BY <2>1, <2>2 DEF Fetched
  <2>5. QED
    BY <1>1, <2>1, <2>3, <2>4
<1>3. mine \subseteq above
  BY DEF Fetched
<1>4. above \in SUBSET Numbers /\ mine \in SUBSET Numbers /\ Top(list, skip) \in SUBSET Numbers
  BY <1>1 DEF Top
<1>5. Cardinality(Top(list, skip)) >= skip
  <2>1. skip <= Cardinality(list)
    BY PlacesCount, ListsAreFinite
  <2>2. QED
    BY <2>1, TopHasNoFewer
<1>6. Cardinality(mine \cup Top(list, skip)) <= Cardinality(above)
  <2>1. mine \cup Top(list, skip) \subseteq above
    BY <1>2, <1>3
  <2>2. QED
    BY <1>4, <2>1, ListsAreFinite, FS_Subset
<1>7. Cardinality(mine \cup Top(list, skip)) = Cardinality(mine) + Cardinality(Top(list, skip))
  <2>1. mine \cap Top(list, skip) = {}
    BY <1>2
  <2>2. /\ IsFiniteSet(mine) /\ IsFiniteSet(Top(list, skip))
        /\ Cardinality(mine) \in Nat /\ Cardinality(Top(list, skip)) \in Nat
    BY <1>4, ListsAreFinite
  <2>3. Cardinality(mine \cup Top(list, skip)) =
          Cardinality(mine) + Cardinality(Top(list, skip)) - Cardinality(mine \cap Top(list, skip))
    BY <2>2, FS_Union
  <2>4. Cardinality(mine \cap Top(list, skip)) = 0
    BY <2>1, FS_EmptySet
  <2>5. QED
    BY <2>2, <2>3, <2>4
<1>8. /\ Cardinality(mine) \in Nat /\ Cardinality(Top(list, skip)) \in Nat
      /\ Cardinality(above) \in Nat
  BY <1>4, ListsAreFinite
<1>9. Cardinality(above) = Place(o, list) /\ Cardinality(mine) = Place(o, fetched)
  BY DEF Place
<1> HIDE DEF fetched, mine, above
<1>10. Place(o, fetched) <= Take
  BY <1>5, <1>6, <1>7, <1>8, <1>9, HistoryAssumption
<1>11. QED
  BY <1>1, <1>10 DEF OnPage, fetched

\* Without an order beyond the page there is none further down.
LEMMA LastPageEndsList ==
  ASSUME NEW list \in SUBSET Numbers, NEW skip \in Nat, ~HasNext(Fetched(list, skip)),
         NEW o \in list
  PROVE  Place(o, list) <= skip + Take
<1> DEFINE n == skip + Take + 1
<1>1. n \in Nat /\ Take \in Nat /\ Place(o, list) \in Nat
  BY HistoryAssumption, PlacesCount
<1> SUFFICES ASSUME Place(o, list) >= n PROVE FALSE
  BY <1>1
<1>2. n <= Cardinality(list)
  BY <1>1, PlacesCount, ListsAreFinite
<1>3. Fetched(list, skip) = Top(list, n) \ Top(list, skip)
  <2>1. \A x \in list : Place(x, list) \in Nat
    BY PlacesCount
  <2>2. QED
    BY <2>1 DEF Fetched, Top
<1>4. Top(list, skip) \in SUBSET Numbers /\ Top(list, n) \in SUBSET Numbers
  BY DEF Top
<1>5. Top(list, n) \cap Top(list, skip) = Top(list, skip)
  <2>1. \A x \in list : Place(x, list) \in Nat
    BY PlacesCount
  <2>2. QED
    BY <1>1, <2>1 DEF Top
<1>6. Cardinality(Top(list, n)) >= n /\ Cardinality(Top(list, skip)) <= skip
  BY <1>1, <1>2, TopHasNoFewer, TopHasNoMore
<1>7. Cardinality(Fetched(list, skip)) =
        Cardinality(Top(list, n)) - Cardinality(Top(list, skip))
  BY <1>3, <1>4, <1>5, ListsAreFinite, FS_Difference
<1>8. Cardinality(Top(list, n)) \in Nat /\ Cardinality(Top(list, skip)) \in Nat
  BY <1>4, ListsAreFinite
<1>9. QED
  BY <1>1, <1>6, <1>7, <1>8 DEF HasNext

\* With one there is room for another page.
LEMMA NextPageExists ==
  ASSUME NEW list \in SUBSET Numbers, NEW skip \in Nat, HasNext(Fetched(list, skip))
  PROVE  skip + Take <= HistoryOrders
<1> DEFINE fetched == Fetched(list, skip)
<1>1. fetched \in SUBSET Numbers
  BY DEF Fetched
<1>2. Cardinality(fetched) \in Nat /\ Cardinality(fetched) > Take
  BY <1>1, ListsAreFinite DEF HasNext
<1>3. PICK o \in fetched : skip + Take < Place(o, list)
  <2>1. SUFFICES ASSUME \A o \in fetched : ~(skip + Take < Place(o, list)) PROVE FALSE
    OBVIOUS
  <2>2. fetched \subseteq Top(list, skip + Take) \ Top(list, skip)
    <3>1. \A x \in list : Place(x, list) \in Nat
      BY PlacesCount
    <3>2. QED
      BY <2>1, <3>1, HistoryAssumption DEF Fetched, Top
  <2>3. Top(list, skip) \in SUBSET Numbers /\ Top(list, skip + Take) \in SUBSET Numbers
    BY DEF Top
  <2>4. Top(list, skip + Take) \cap Top(list, skip) = Top(list, skip)
    <3>1. \A x \in list : Place(x, list) \in Nat
      BY PlacesCount
    <3>2. QED
      BY <3>1, HistoryAssumption DEF Top
  <2>5. fetched # {}
    BY <1>2, FS_EmptySet, HistoryAssumption
  <2>6. skip <= Cardinality(list)
    <3>1. PICK x \in fetched : TRUE
      BY <2>5
    <3>2. x \in list /\ skip < Place(x, list)
      BY DEF Fetched
    <3>3. QED
      BY <3>2, PlacesCount, ListsAreFinite
  <2>7. /\ Cardinality(Top(list, skip + Take)) <= skip + Take
        /\ Cardinality(Top(list, skip)) >= skip
    BY <2>6, TopHasNoMore, TopHasNoFewer, HistoryAssumption
  <2>8. /\ Cardinality(Top(list, skip + Take)) \in Nat /\ Cardinality(Top(list, skip)) \in Nat
        /\ IsFiniteSet(Top(list, skip + Take))
    BY <2>3, ListsAreFinite
  <2>9. Cardinality(fetched) <=
          Cardinality(Top(list, skip + Take)) - Cardinality(Top(list, skip))
    <3> DEFINE between == Top(list, skip + Take) \ Top(list, skip)
    <3>1. /\ IsFiniteSet(between)
          /\ Cardinality(between) =
               Cardinality(Top(list, skip + Take)) - Cardinality(Top(list, skip))
      BY <2>4, <2>8, FS_Difference
    <3> HIDE DEF between
    <3>2. fetched \subseteq between
      BY <2>2 DEF between
    <3>3. Cardinality(fetched) <= Cardinality(between)
      BY <3>1, <3>2, FS_Subset
    <3>4. QED
      BY <3>1, <3>3
  <2>10. QED
    BY <1>2, <2>7, <2>8, <2>9, HistoryAssumption
<1>4. o \in list /\ Place(o, list) \in Nat /\ Place(o, list) <= Cardinality(list)
  BY <1>3, PlacesCount DEF Fetched
<1>5. QED
  BY <1>3, <1>4, ListsAreFinite, HistoryAssumption

-----------------------------------------------------------------------------
\* The lists are closed to begin with.
LEMMA HistoryInitially == HistoryInit => HistoryInv
<1> SUFFICES ASSUME HistoryInit PROVE HistoryInv
  OBVIOUS
<1>1. \A r \in Readers : page[r] = NoPage
  BY DEF HistoryInit
<1>2. NoPage \in [skip : Int, next : BOOLEAN]
  <2>1. -1 \in Int
    OBVIOUS
  <2>2. QED
    BY <2>1 DEF NoPage
<1>3. HistoryTypeOK
  BY <1>1, <1>2 DEF HistoryInit, HistoryTypeOK
<1>4. QED
  BY <1>1, <1>3 DEF HistoryInv, Opened

\* A page that is sent, with an offset that follows from the one before.
LEMMA ShowStep ==
  ASSUME HistoryInv, NEW r \in Readers, NEW skip \in Nat, NEW before \in SUBSET Numbers,
         Show(r, skip, before), UNCHANGED <<phase, turns>>,
         \E k \in Nat : skip = k * Take, skip <= HistoryOrders,
         owed' \in [Readers -> SUBSET Numbers], shifted' \subseteq Readers,
         \A s \in Readers \ {r} : owed'[s] = owed[s] /\ (s \notin shifted' => s \notin shifted),
         r \notin shifted' =>
           /\ owed'[r] \subseteq Listed(r, phase)
           /\ \A o \in owed'[r] : Place(o, Listed(r, phase)) <= skip => o \in before
  PROVE  HistoryInv'
<1> DEFINE list == Listed(r, phase)
           fetched == Fetched(list, skip)
<1>1. /\ page' = [page EXCEPT ![r] = [skip |-> skip, next |-> HasNext(fetched)]]
      /\ shown' = [shown EXCEPT ![r] = before \cup OnPage(fetched)]
  BY DEF Show
<1>2. HistoryTypeOK
  BY DEF HistoryInv
<1>3. list \in SUBSET Numbers /\ fetched \in SUBSET Numbers /\ OnPage(fetched) \in SUBSET Numbers
  BY DEF Listed, Fetched, OnPage
<1>4. HasNext(fetched) \in BOOLEAN
  BY DEF HasNext
<1>5. skip \in 0..(HistoryOrders * Take)
  <2>1. HistoryOrders \in Nat /\ Take \in Nat /\ Take >= 1
    BY HistoryAssumption
  <2>2. HistoryOrders <= HistoryOrders * Take
    BY <2>1
  <2>3. HistoryOrders * Take \in Nat
    BY <2>1
  <2>4. QED
    BY <2>1, <2>2, <2>3
<1>6. /\ page'[r].skip = skip /\ page'[r].next = HasNext(fetched)
      /\ shown'[r] = before \cup OnPage(fetched)
      /\ \A s \in Readers \ {r} : page'[s] = page[s] /\ shown'[s] = shown[s]
  BY <1>1, <1>2 DEF HistoryTypeOK
<1> HIDE DEF fetched, list
<1>7. HistoryTypeOK'
  <2>1. page' \in [Readers -> [skip : Int, next : BOOLEAN]]
    BY <1>1, <1>2, <1>4 DEF HistoryTypeOK
  <2>2. shown' \in [Readers -> SUBSET Numbers]
    BY <1>1, <1>2, <1>3 DEF HistoryTypeOK
  <2>3. \A s \in Readers : page'[s] = NoPage \/ page'[s].skip \in 0..(HistoryOrders * Take)
    BY <1>2, <1>5, <1>6 DEF HistoryTypeOK
  <2>4. QED
    BY <1>2, <2>1, <2>2, <2>3 DEF HistoryTypeOK
<1>8. ASSUME r \notin shifted'
      PROVE  /\ \A o \in owed'[r] : Place(o, list) <= skip + Take => o \in shown'[r]
             /\ ~page'[r].next => owed'[r] \subseteq shown'[r]
  <2>1. ASSUME NEW o \in owed'[r], Place(o, list) <= skip + Take PROVE o \in shown'[r]
    <3>1. o \in list
      BY <1>8 DEF list
    <3>2. CASE Place(o, list) <= skip
      BY <1>6, <1>8, <3>2 DEF list
    <3>3. CASE skip < Place(o, list)
      BY <1>3, <1>6, <2>1, <3>1, <3>3, PageHoldsPlaces DEF fetched
    <3>4. Place(o, list) \in Nat
      BY <1>3, <3>1, PlacesCount
    <3>5. QED
      BY <3>2, <3>3, <3>4
  <2>2. ASSUME ~page'[r].next, NEW o \in owed'[r] PROVE o \in shown'[r]
    <3>1. o \in list
      BY <1>8 DEF list
    <3>2. Place(o, list) <= skip + Take
      BY <1>3, <1>6, <2>2, <3>1, LastPageEndsList DEF fetched
    <3>3. QED
      BY <2>1, <3>2
  <2>3. QED
    BY <2>1, <2>2
<1>9. Leafed(r)'
  <2>1. page'[r].next => skip + Take <= HistoryOrders
    BY <1>3, <1>6, NextPageExists DEF fetched
  <2>2. Listed(r, phase') = list
    BY DEF list
  <2>3. r \notin shifted' => owed'[r] \subseteq list
    BY DEF list
  <2>4. QED
    BY <1>6, <1>8, <2>1, <2>2, <2>3 DEF Leafed
<1>10. ASSUME NEW s \in Readers \ {r}, Opened(s)' PROVE Leafed(s)'
  <2>1. Leafed(s)
    BY <1>6, <1>10 DEF HistoryInv, Opened
  <2>2. QED
    BY <1>6, <2>1 DEF Leafed
<1>11. QED
  BY <1>7, <1>9, <1>10 DEF HistoryInv

\* A reader with buttons under his message has opened the list.
LEMMA ButtonsAreOpened ==
  ASSUME HistoryInv, NEW r \in Readers, page[r].next \/ page[r].skip > 0
  PROVE  Leafed(r) /\ page[r].skip \in Nat /\ shown[r] \in SUBSET Numbers
<1>1. Opened(r)
  BY DEF Opened, NoPage
<1>2. Leafed(r) /\ HistoryTypeOK
  BY <1>1 DEF HistoryInv
<1>3. page[r].skip \in 0..(HistoryOrders * Take)
  BY <1>1, <1>2 DEF HistoryTypeOK, Opened
<1>4. page[r].skip \in Nat
  BY <1>3, HistoryAssumption
<1>5. QED
  BY <1>2, <1>4 DEF HistoryTypeOK

\* The first page, when the list is opened.
LEMMA OpenTarixStep ==
  ASSUME HistoryInv, NEW r \in Readers, OpenTarix(r)
  PROVE  HistoryInv'
<1>1. /\ Show(r, 0, {}) /\ owed' = [owed EXCEPT ![r] = Listed(r, phase)]
      /\ shifted' = shifted \ {r} /\ UNCHANGED <<phase, turns>>
  BY DEF OpenTarix
<1>2. HistoryTypeOK
  BY DEF HistoryInv
<1>3. Listed(r, phase) \in SUBSET Numbers
  BY DEF Listed
<1>4. owed' \in [Readers -> SUBSET Numbers] /\ owed'[r] = Listed(r, phase)
      /\ \A s \in Readers \ {r} : owed'[s] = owed[s]
  BY <1>1, <1>2, <1>3 DEF HistoryTypeOK
<1>5. \A o \in owed'[r] : ~(Place(o, Listed(r, phase)) <= 0)
  BY <1>3, <1>4, PlacesCount
<1>6. \E k \in Nat : 0 = k * Take
  <2>1. 0 = 0 * Take
    BY HistoryAssumption
  <2>2. QED
    BY <2>1
<1>7. /\ 0 \in Nat /\ {} \in SUBSET Numbers /\ 0 <= HistoryOrders
      /\ shifted' \subseteq Readers
      /\ \A s \in Readers \ {r} : s \notin shifted' => s \notin shifted
  BY <1>1, <1>2, HistoryAssumption DEF HistoryTypeOK
<1>8. QED
  BY <1>1, <1>4, <1>5, <1>6, <1>7, ShowStep

\* The next page goes on where this one ends.
LEMMA NextPageStep ==
  ASSUME HistoryInv, NEW r \in Readers, NextPage(r)
  PROVE  HistoryInv'
<1>1. /\ page[r].next /\ Show(r, page[r].skip + Take, shown[r])
      /\ UNCHANGED <<phase, owed, shifted, turns>>
  BY DEF NextPage
<1>2. Leafed(r) /\ page[r].skip \in Nat /\ shown[r] \in SUBSET Numbers /\ HistoryTypeOK
  BY <1>1, ButtonsAreOpened DEF HistoryInv
<1>3. page[r].skip + Take \in Nat /\ page[r].skip + Take <= HistoryOrders
  BY <1>1, <1>2, HistoryAssumption DEF Leafed
<1>4. \E k \in Nat : page[r].skip + Take = k * Take
  <2>1. PICK k \in Nat : page[r].skip = k * Take
    BY <1>2 DEF Leafed
  <2>2. page[r].skip + Take = (k + 1) * Take
    BY <2>1, HistoryAssumption
  <2>3. QED
    BY <2>2
<1>5. /\ owed' \in [Readers -> SUBSET Numbers] /\ shifted' \subseteq Readers
      /\ \A s \in Readers \ {r} : owed'[s] = owed[s] /\ (s \notin shifted' => s \notin shifted)
  BY <1>1, <1>2 DEF HistoryTypeOK
<1>6. r \notin shifted' =>
        /\ owed'[r] \subseteq Listed(r, phase)
        /\ \A o \in owed'[r] : Place(o, Listed(r, phase)) <= page[r].skip + Take => o \in shown[r]
  BY <1>1, <1>2 DEF Leafed
<1>7. QED
  BY <1>1, <1>2, <1>3, <1>4, <1>5, <1>6, ShowStep

\* The page before has been seen.
LEMMA PrevPageStep ==
  ASSUME HistoryInv, NEW r \in Readers, PrevPage(r)
  PROVE  HistoryInv'
<1>1. /\ page[r].skip > 0 /\ Show(r, page[r].skip - Take, shown[r])
      /\ UNCHANGED <<phase, owed, shifted, turns>>
  BY DEF PrevPage
<1>2. Leafed(r) /\ page[r].skip \in Nat /\ shown[r] \in SUBSET Numbers /\ HistoryTypeOK
  BY <1>1, ButtonsAreOpened DEF HistoryInv
<1>3. PICK j \in Nat : page[r].skip - Take = j * Take
  <2>1. PICK k \in Nat : page[r].skip = k * Take
    BY <1>2 DEF Leafed
  <2>2. k # 0
    BY <1>1, <2>1, HistoryAssumption
  <2>3. k - 1 \in Nat /\ page[r].skip - Take = (k - 1) * Take
    BY <2>1, <2>2, HistoryAssumption
  <2>4. QED
    BY <2>3
<1>4. page[r].skip - Take \in Nat /\ page[r].skip - Take <= HistoryOrders
  <2>1. j * Take \in Nat
    BY HistoryAssumption
  <2>2. page[r].skip <= HistoryOrders
    BY <1>2 DEF Leafed
  <2>3. QED
    BY <1>2, <1>3, <2>1, <2>2, HistoryAssumption
<1>5. /\ owed' \in [Readers -> SUBSET Numbers] /\ shifted' \subseteq Readers
      /\ \A s \in Readers \ {r} : owed'[s] = owed[s] /\ (s \notin shifted' => s \notin shifted)
  BY <1>1, <1>2 DEF HistoryTypeOK
<1>6. ASSUME r \notin shifted'
      PROVE  /\ owed'[r] \subseteq Listed(r, phase)
             /\ \A o \in owed'[r] :
                  Place(o, Listed(r, phase)) <= page[r].skip - Take => o \in shown[r]
  <2>1. owed'[r] \subseteq Listed(r, phase)
    BY <1>1, <1>2, <1>6 DEF Leafed
  <2>2. ASSUME NEW o \in owed'[r], Place(o, Listed(r, phase)) <= page[r].skip - Take
        PROVE  o \in shown[r]
    <3>1. Listed(r, phase) \in SUBSET Numbers
      BY DEF Listed
    <3>2. Place(o, Listed(r, phase)) \in Nat
      BY <2>1, <3>1, PlacesCount
    <3>3. Place(o, Listed(r, phase)) <= page[r].skip + Take
      BY <1>2, <2>2, <3>2, HistoryAssumption
    <3>4. QED
      BY <1>1, <1>2, <1>6, <3>3 DEF Leafed
  <2>3. QED
    BY <2>1, <2>2
<1>7. QED
  BY <1>1, <1>2, <1>3, <1>4, <1>5, <1>6, ShowStep

\* An order that closes pushes others down the list, one that leaves it is
\* noted for its readers.
LEMMA TurnStep ==
  ASSUME HistoryInv, NEW o \in Numbers, NEW to \in Phases, Turn(o, to)
  PROVE  HistoryInv'
<1>1. /\ turns' = turns + 1 /\ phase' = [phase EXCEPT ![o] = to]
      /\ shifted' = shifted \cup
           {r \in Readers : o \in Listed(r, phase) /\ o \notin Listed(r, phase')}
      /\ UNCHANGED <<page, shown, owed>>
  BY DEF Turn
<1>2. HistoryTypeOK'
  BY <1>1 DEF HistoryInv, HistoryTypeOK
<1>3. ASSUME NEW r \in Readers, Opened(r)' PROVE Leafed(r)'
  <2>1. Leafed(r)
    BY <1>1, <1>3 DEF HistoryInv, Opened
  <2>2. Listed(r, phase) \in SUBSET Numbers /\ Listed(r, phase') \in SUBSET Numbers
    BY DEF Listed
  <2>3. CASE r \in shifted'
    BY <1>1, <2>1, <2>3 DEF Leafed
  <2>4. CASE r \notin shifted'
    <3>1. r \notin shifted /\ (o \in Listed(r, phase) => o \in Listed(r, phase'))
      BY <1>1, <2>4
    <3>2. Listed(r, phase) \subseteq Listed(r, phase')
      <4>1. \A p \in Numbers : p # o => phase'[p] = phase[p]
        BY <1>1 DEF HistoryInv, HistoryTypeOK
      <4>2. ASSUME NEW p \in Listed(r, phase), p # o PROVE p \in Listed(r, phase')
        BY <4>1, <4>2 DEF Listed
      <4>3. QED
        BY <3>1, <4>2
    <3>3. ASSUME NEW p \in owed[r],
                 Place(p, Listed(r, phase')) <= page[r].skip + Take
          PROVE  p \in shown[r]
      <4>1. p \in Listed(r, phase) /\ p \in Numbers /\ p >= p
        BY <2>1, <2>2, <3>1, NumbersAreNumbers DEF Leafed
      <4>2. Place(p, Listed(r, phase)) <= Place(p, Listed(r, phase'))
        BY <2>2, <3>2, <4>1, PlacesFollowAge
      <4>3. Place(p, Listed(r, phase)) \in Nat /\ Place(p, Listed(r, phase')) \in Nat
        BY <2>2, <3>2, <4>1, PlacesCount
      <4>4. page[r].skip \in Int
        BY DEF HistoryInv, HistoryTypeOK
      <4>5. Place(p, Listed(r, phase)) <= page[r].skip + Take
        BY <3>3, <4>2, <4>3, <4>4, HistoryAssumption
      <4>6. QED
        BY <2>1, <3>1, <4>5 DEF Leafed
    <3>4. QED
      BY <1>1, <2>1, <3>1, <3>2, <3>3 DEF Leafed
  <2>5. QED
    BY <2>3, <2>4
<1>4. QED
  BY <1>2, <1>3 DEF HistoryInv

LEMMA StepHistory ==
  HistoryInv /\ [HistoryNext]_historyVars => HistoryInv'
<1> SUFFICES ASSUME HistoryInv, [HistoryNext]_historyVars PROVE HistoryInv'
  OBVIOUS
<1>1. ASSUME NEW r \in Readers, OpenTarix(r) \/ NextPage(r) \/ PrevPage(r)
      PROVE  HistoryInv'
  BY <1>1, OpenTarixStep, NextPageStep, PrevPageStep
<1>2. ASSUME NEW o \in Numbers, NEW to \in Phases, Turn(o, to)
      PROVE  HistoryInv'
  BY <1>2, TurnStep
<1>3. CASE UNCHANGED historyVars
  BY <1>3 DEF historyVars, HistoryInv, HistoryTypeOK, Opened, Leafed
<1>4. QED
  BY <1>1, <1>2, <1>3 DEF HistoryNext

\* Whoever leafs to a page without a next button has seen every order that was
\* in the list when he opened it, for any number of orders, size of the page
\* and changes meanwhile; only an order that leaves the list can hide another
\* from him (sendMasterTarixList, sendDriverTarixList).
THEOREM LeafingSeesAll == HistorySpec => [](HistoryTypeOK /\ LastPageMeansAllSeen)
<1>1. HistoryInv => HistoryTypeOK /\ LastPageMeansAllSeen
  BY DEF HistoryInv, Opened, Leafed, LastPageMeansAllSeen
<1>2. QED
  BY HistoryInitially, StepHistory, <1>1, PTL DEF HistorySpec
-----------------------------------------------------------------------------
(* The figures (modules BotReports and AdminReports).                      *)

\* The orders, the bot's daily run, and the back office, all together.
FiguresNext == BooksNext \/ (ReportsNext /\ UNCHANGED booksVars)
FiguresSpec == ReportsInit /\ BooksInit /\ [][FiguresNext]_<<reportsVars, booksVars>>

\* An order is created and completed in the past, in this order, and is in a
\* sheet of which the window was open before the run.
FiguresInv ==
  /\ now \in Nat
  /\ \A o \in Sold : /\ sold[o].created \in 0..now
                     /\ sold[o].master \in Masters
                     /\ sold[o].status = "completed" => doneBy[o] \in sold[o].created..now
  /\ \A d \in Days : \A o \in sheets[d] : /\ o \in Window(d)
                                          /\ sold[o].created <= Day * d + CronHour
  /\ settled \subseteq Sold
  /\ bill \in Bills

\* The constants in use.
LEMMA FiguresConstants ==
  /\ NoMaster \notin Masters
  /\ CronHour \in 1..3
  /\ WeekDays \in Nat \ {0}
  /\ LastDay \in Nat
  /\ BrowserAhead \in 0..3
  /\ \A b \in Bills, o \in SoldOrders : b[o].master \in Masters /\ b[o].courier \in BOOLEAN
BY ReportsAssumption, BooksAssumption DEF Day

LEMMA BooksTypeInit == ReportsInit /\ BooksInit => BooksTypeOK
BY FiguresConstants, BooksAssumption
   DEF ReportsInit, BooksInit, BooksTypeOK, ReportsTypeOK, Times, Day, Absent, Days

LEMMA StepBooksTyped ==
  BooksTypeOK /\ [FiguresNext]_<<reportsVars, booksVars>> => BooksTypeOK'
<1> SUFFICES ASSUME BooksTypeOK, [FiguresNext]_<<reportsVars, booksVars>> PROVE BooksTypeOK'
  OBVIOUS
<1>1. ASSUME NEW o \in SoldOrders, NEW m \in Masters, CreateOrder(o, m), UNCHANGED booksVars
      PROVE  BooksTypeOK'
  <2>1. [created |-> now, master |-> m, status |-> "open"] \in
          [created : Times, master : Masters \cup {NoMaster},
           status : {"open", "completed", "cancelled"}]
    BY DEF BooksTypeOK, ReportsTypeOK
  <2>2. ReportsTypeOK'
    BY <1>1, <2>1 DEF CreateOrder, BooksTypeOK, ReportsTypeOK
  <2>3. settled \subseteq Sold'
    BY <1>1, FiguresConstants DEF CreateOrder, BooksTypeOK, ReportsTypeOK, Sold
  <2>4. QED
    BY <1>1, <2>2, <2>3 DEF booksVars, BooksTypeOK
<1>2. ASSUME NEW o \in Sold, NEW st \in {"open", "completed", "cancelled"},
             sold' = [sold EXCEPT ![o].status = st],
             doneBy' = [doneBy EXCEPT ![o] = IF st = "completed" THEN now ELSE @],
             UNCHANGED <<now, sheets, ran, bill>>,
             settled' \in {settled, settled \cup {o}}, resets' \in 0..MaxResets
      PROVE  BooksTypeOK'
  <2>1. o \in SoldOrders
    BY DEF Sold
  <2>2. ReportsTypeOK'
    BY <1>2, <2>1 DEF BooksTypeOK, ReportsTypeOK
  <2>3. Sold' = Sold
    BY <1>2, <2>1 DEF BooksTypeOK, ReportsTypeOK, Sold
  <2>4. QED
    BY <1>2, <2>2, <2>3 DEF BooksTypeOK
<1>3. ASSUME NEW o \in SoldOrders, NEW st \in {"completed", "cancelled"},
             CloseOrder(o, st), UNCHANGED <<bill, resets>>,
             settled' \in {settled, settled \cup {o}}
      PROVE  BooksTypeOK'
  <2>1. o \in Sold /\ resets' \in 0..MaxResets
    BY <1>3 DEF CloseOrder, Of, BooksTypeOK
  <2>2. QED
    BY <1>2, <1>3, <2>1 DEF CloseOrder
<1>4. ASSUME NEW o \in SoldOrders, HandOver(o) PROVE BooksTypeOK'
  BY <1>3, <1>4 DEF HandOver
<1>5. ASSUME NEW o \in SoldOrders, NEW st \in {"open", "completed", "cancelled"},
             UpdateOrderStatus(o, st)
      PROVE  BooksTypeOK'
  <2>1. resets' \in 0..MaxResets
    BY <1>5, BooksAssumption DEF UpdateOrderStatus, BooksTypeOK
  <2>2. QED
    BY <1>2, <1>5, <2>1 DEF UpdateOrderStatus
<1>6. ASSUME NEW o \in SoldOrders, RecalculateOrderFees(o) PROVE BooksTypeOK'
  <2>1. o \in Sold
    BY <1>6 DEF RecalculateOrderFees, Of
  <2>2. QED
    BY <1>6, <2>1 DEF RecalculateOrderFees, reportsVars, BooksTypeOK, ReportsTypeOK, Sold
<1>7. ASSUME Passes, UNCHANGED booksVars PROVE BooksTypeOK'
  BY <1>7, FiguresConstants DEF Passes, booksVars, BooksTypeOK, ReportsTypeOK, Sold, Times, Day
<1>8. ASSUME NEW d \in Days, RunDailyReport(d), UNCHANGED booksVars PROVE BooksTypeOK'
  BY <1>8 DEF RunDailyReport, booksVars, BooksTypeOK, ReportsTypeOK, Sold, Of, Window, Created
<1>9. CASE UNCHANGED <<reportsVars, booksVars>>
  BY <1>9 DEF reportsVars, booksVars, BooksTypeOK, ReportsTypeOK, Sold
<1>10. ASSUME NEW o \in SoldOrders PROVE bill[o].master \in Masters
  BY FiguresConstants DEF BooksTypeOK
<1>11. QED
  BY <1>1, <1>3, <1>4, <1>5, <1>6, <1>7, <1>8, <1>9, <1>10
     DEF FiguresNext, BooksNext, ReportsNext, booksVars

LEMMA FiguresInit == ReportsInit /\ BooksInit => FiguresInv
BY DEF ReportsInit, BooksInit, FiguresInv, Sold, Absent

\* Time only passes, and an order is created and completed now.
LEMMA StepFigures ==
  BooksTypeOK /\ FiguresInv /\ [FiguresNext]_<<reportsVars, booksVars>> => FiguresInv'
<1> SUFFICES ASSUME BooksTypeOK, FiguresInv, [FiguresNext]_<<reportsVars, booksVars>>
             PROVE  FiguresInv'
  OBVIOUS
<1> DEFINE Kept(o) == o \in Sold' /\ sold'[o].created = sold[o].created
                      /\ sold'[o].master = sold[o].master
<1>1. ASSUME \A o \in Sold : Kept(o), UNCHANGED sheets
      PROVE  (\A d \in Days : \A o \in sheets[d] : /\ o \in Window(d)
                                                   /\ sold[o].created <= Day * d + CronHour)'
  BY <1>1 DEF FiguresInv, Window, Created
<1>2. ASSUME NEW o \in SoldOrders, NEW m \in Masters, CreateOrder(o, m), UNCHANGED booksVars
      PROVE  FiguresInv'
  <2>1. /\ Sold' = Sold \cup {o} /\ o \notin Sold
        /\ sold'[o].created = now /\ sold'[o].master = m /\ sold'[o].status = "open"
        /\ \A p \in Sold : sold'[p] = sold[p]
        /\ UNCHANGED <<now, doneBy, sheets, settled, bill>>
    BY <1>2, FiguresConstants DEF CreateOrder, booksVars, BooksTypeOK, ReportsTypeOK, Sold
  <2>2. \A p \in Sold : Kept(p)
    BY <2>1
  <2>3. QED
    BY <1>1, <2>1, <2>2 DEF FiguresInv
<1>3. ASSUME NEW o \in Sold, NEW st \in {"open", "completed", "cancelled"},
             sold' = [sold EXCEPT ![o].status = st],
             doneBy' = [doneBy EXCEPT ![o] = IF st = "completed" THEN now ELSE @],
             UNCHANGED <<now, sheets, ran, bill>>,
             settled' \in {settled, settled \cup {o}}
      PROVE  FiguresInv'
  <2>1. o \in SoldOrders
    BY DEF Sold
  <2>2. /\ Sold' = Sold
        /\ sold'[o].created = sold[o].created /\ sold'[o].master = sold[o].master
        /\ sold'[o].status = st
        /\ \A p \in Sold : p # o => sold'[p] = sold[p] /\ doneBy'[p] = doneBy[p]
        /\ st = "completed" => doneBy'[o] = now
    BY <1>3, <2>1 DEF BooksTypeOK, ReportsTypeOK, Sold
  <2>3. \A p \in Sold : Kept(p)
    BY <2>2
  <2>4. QED
    BY <1>1, <1>3, <2>2, <2>3 DEF FiguresInv
<1>4. ASSUME NEW o \in SoldOrders, NEW st \in {"completed", "cancelled"},
             CloseOrder(o, st), UNCHANGED <<bill, resets>>,
             settled' \in {settled, settled \cup {o}}
      PROVE  FiguresInv'
  <2>1. o \in Sold
    BY <1>4 DEF CloseOrder, Of
  <2>2. QED
    BY <1>3, <1>4, <2>1 DEF CloseOrder
<1>5. ASSUME NEW o \in SoldOrders, HandOver(o) PROVE FiguresInv'
  BY <1>4, <1>5 DEF HandOver
<1>6. ASSUME NEW o \in SoldOrders, NEW st \in {"open", "completed", "cancelled"},
             UpdateOrderStatus(o, st)
      PROVE  FiguresInv'
  BY <1>3, <1>6 DEF UpdateOrderStatus
<1>7. ASSUME NEW o \in SoldOrders, RecalculateOrderFees(o) PROVE FiguresInv'
  BY <1>7 DEF RecalculateOrderFees, reportsVars, FiguresInv, Sold, Of, Window, Created
<1>8. ASSUME Passes, UNCHANGED booksVars PROVE FiguresInv'
  <2>1. now' = now + 1 /\ UNCHANGED <<sold, doneBy, sheets, settled, bill>>
    BY <1>8 DEF Passes, booksVars
  <2>2. Sold' = Sold /\ \A p \in Sold : Kept(p)
    BY <2>1 DEF Sold
  <2>3. \A p \in Sold : sold[p].created \in 0..(now + 1) /\
          (sold[p].status = "completed" => doneBy[p] \in sold[p].created..(now + 1))
    BY DEF FiguresInv
  <2>4. QED
    BY <1>1, <2>1, <2>2, <2>3 DEF FiguresInv
<1>9. ASSUME NEW d \in Days, RunDailyReport(d), UNCHANGED booksVars PROVE FiguresInv'
  <2>1. UNCHANGED <<now, sold, doneBy, settled, bill>> /\ Sold' = Sold
    BY <1>9 DEF RunDailyReport, booksVars, Sold
  <2>2. \A e \in Days : sheets'[e] = IF e = d THEN Of("completed", Window(d)) ELSE sheets[e]
    BY <1>9 DEF RunDailyReport, BooksTypeOK, ReportsTypeOK
  <2>3. \A o \in Window(d) : sold[o].created <= Day * d + CronHour
    BY <1>9 DEF RunDailyReport, FiguresInv, Window, Created
  <2>4. \A e \in Days : Window(e)' = Window(e)
    BY <2>1 DEF Window, Created
  <2>5. QED
    BY <2>1, <2>2, <2>3, <2>4 DEF FiguresInv, Of
<1>10. CASE UNCHANGED <<reportsVars, booksVars>>
  BY <1>10 DEF reportsVars, booksVars, FiguresInv, Sold, Window, Created
<1>11. ASSUME NEW o \in SoldOrders PROVE bill[o].master \in Masters
  BY FiguresConstants DEF BooksTypeOK
<1>12. QED
  BY <1>2, <1>4, <1>5, <1>6, <1>7, <1>8, <1>9, <1>10, <1>11
     DEF FiguresNext, BooksNext, ReportsNext, booksVars

\* The calendar: what midnight is to an instant.
LEMMA MidnightOf ==
  /\ \A t \in Int : /\ Midnight(t) \in Int
                    /\ Midnight(t) <= t /\ t < Midnight(t) + Day
                    /\ Midnight(t) = Day * (t \div Day)
  /\ \A d \in Int : Midnight(Day * d) = Day * d /\ (Day * d) \div Day = d
  /\ \A d, t \in Int : Day * d <= t /\ t < Day * d + Day => t \div Day = d
<1>1. \A t \in Int : t - (t % 4) \in Int /\ t - (t % 4) <= t /\ t < (t - (t % 4)) + 4
                       /\ t - (t % 4) = 4 * (t \div 4)
  OBVIOUS
<1>2. \A d \in Int : (4 * d) - ((4 * d) % 4) = 4 * d /\ (4 * d) \div 4 = d
  OBVIOUS
<1>3. \A d, t \in Int : 4 * d <= t /\ t < 4 * d + 4 => t \div 4 = d
  OBVIOUS
<1>4. QED
  BY <1>1, <1>2, <1>3 DEF Midnight, Day

\* Instants in the same order have their midnights in it.
LEMMA MidnightsInOrder == \A s, t \in Int : s <= t => Midnight(s) <= Midnight(t)
<1>1. \A s, t \in Int : s <= t => s - (s % 4) <= t - (t % 4)
  OBVIOUS
<1>2. QED
  BY <1>1 DEF Midnight, Day

\* What is known of an order.
LEMMA OrderKnown ==
  ASSUME BooksTypeOK, FiguresInv, NEW o \in Sold
  PROVE  /\ sold[o].created \in Nat /\ sold[o].created <= now
         /\ sold[o].master \in Masters
         /\ doneBy[o] \in Int
         /\ sold[o].status = "completed" => sold[o].created <= doneBy[o] /\ doneBy[o] <= now
<1>1. doneBy[o] \in Int
  BY FiguresConstants DEF BooksTypeOK, ReportsTypeOK, Sold, Times, Day
<1>2. QED
  BY <1>1 DEF FiguresInv

\* No order is in two sheets.
LEMMA SheetsApart ==
  ASSUME BooksTypeOK, FiguresInv, CronHour < Evening
  PROVE  InOneSheet
<1> SUFFICES ASSUME NEW d \in Days, NEW e \in Days, d # e,
                    NEW o \in sheets[d], o \in sheets[e]
             PROVE  FALSE
  BY DEF InOneSheet
<1>1. /\ o \in Sold
      /\ 4 * (d - 1) + 3 <= sold[o].created /\ sold[o].created <= 4 * d + CronHour
      /\ 4 * (e - 1) + 3 <= sold[o].created /\ sold[o].created <= 4 * e + CronHour
  BY DEF FiguresInv, Window, Created, Day, Evening
<1>2. d \in Int /\ e \in Int /\ CronHour \in Int /\ CronHour < 3 /\ sold[o].created \in Int
  BY <1>1, OrderKnown, FiguresConstants DEF Days, Evening
<1>3. QED
  BY <1>1, <1>2

\* The bot's figures.
LEMMA BotFigures ==
  ASSUME BooksTypeOK, FiguresInv
  PROVE  FiguresAgree
<1>1. /\ now \in Int /\ Midnight(now) \in Int
      /\ Midnight(now) <= now /\ now < Midnight(now) + 4
      /\ Day * WeekDays \in Int /\ Day * WeekDays >= 4
  BY MidnightOf, FiguresConstants DEF FiguresInv, Day
<1>2. WeekStart \in Int /\ WeekStart <= Midnight(now) /\ WeekStart <= now - Day * WeekDays
  BY <1>1 DEF WeekStart
<1>3. ASSUME NEW m \in DOMAIN TopMasters PROVE TopMasters[m] = MasterFigures(m).week
  BY <1>3 DEF TopMasters, MasterFigures, WeekCompleted, WeekOrders, WeekStart, Created, Of
<1>4. TodayRevenue = UNION {MasterFigures(m).today : m \in Masters}
  <2>1. \A o \in Sold : sold[o].created <= now /\ sold[o].created \in Int
    BY OrderKnown
  <2>2. TodayRevenue = Of("completed", Created(Midnight(now), now))
    BY <1>1, <2>1 DEF TodayRevenue, TodayOrders, Created, Of, Day
  <2>3. \A o \in Sold : sold[o].master \in Masters
    BY OrderKnown
  <2>4. QED
    BY <2>2, <2>3 DEF MasterFigures, Of, Created
<1>5. TodayRevenue \subseteq WeekCompleted
  <2>1. \A o \in Sold : sold[o].created <= now /\ sold[o].created \in Int
    BY OrderKnown
  <2>2. QED
    BY <1>1, <1>2, <2>1 DEF TodayRevenue, TodayOrders, WeekCompleted, WeekOrders, Created, Of
<1>6. ASSUME NEW m \in Masters PROVE StaffOrders(m) \subseteq WeekOrders
  <2>1. \A o \in Sold : sold[o].created \in Int
    BY OrderKnown
  <2>2. QED
    BY <1>1, <1>2, <2>1 DEF StaffOrders, WeekOrders, Created
<1>7. QED
  BY <1>3, <1>4, <1>5, <1>6 DEF FiguresAgree

\* The days of a report add up to it, whatever orders it is of.
LEMMA DaysAddUp ==
  ASSUME NEW S, NEW u
  PROVE  UNION {ReportOf(S, u).days[k] : k \in DOMAIN ReportOf(S, u).days} = S
<1> DEFINE day(o) == (doneBy[o] - u) \div Day
           K == {day(o) : o \in S}
           F == [k \in K |-> {o \in S : day(o) = k}]
<1>1. ReportOf(S, u).days = F
  BY DEF ReportOf
<1> HIDE DEF day
<1>2. UNION {F[k] : k \in DOMAIN F} = S
  <2>1. DOMAIN F = K /\ \A k \in K : F[k] = {o \in S : day(o) = k}
    OBVIOUS
  <2>2. \A o \in S : day(o) \in K
    OBVIOUS
  <2> HIDE DEF F, K
  <2>3. \A o \in S : \E k \in DOMAIN F : o \in F[k]
    BY <2>1, <2>2
  <2>4. \A k \in DOMAIN F : F[k] \subseteq S
    BY <2>1
  <2>5. QED
    BY <2>3, <2>4
<1>3. QED
  BY <1>1, <1>2

\* Completed on a day of the boss's calendar, an order is in that day's report.
LEMMA DaysAreKept ==
  ASSUME BooksTypeOK, FiguresInv
  PROVE  NoDayIsLost
<1> SUFFICES ASSUME NEW u \in ServerZones, NEW d \in Days
             PROVE  LET r == Reports(u, d, d) IN
                    /\ \A o \in Of("completed", Sold) :
                         /\ BrowserDay(u, doneBy[o]) = d => o \in r.orders
                         /\ u = BrowserAhead /\ o \in r.orders => BrowserDay(u, doneBy[o]) = d
                    /\ UNION {r.days[k] : k \in DOMAIN r.days} = r.orders
  BY DEF NoDayIsLost
<1>1. Reports(u, d, d).orders = Completed(DayStart(u, d), PeriodEnd(u, d))
  BY DEF Reports, ReportOf
<1>2. u \in Int /\ d \in Int /\ BrowserAhead \in Int /\ u <= BrowserAhead
  BY FiguresConstants DEF ServerZones, Days
<1>3. DayStart(u, d) \in Int /\ DayStart(u, d) = 4 * d - (BrowserAhead - u)
  BY <1>2 DEF DayStart, Day
<1>4. PeriodEnd(u, d) \in Int /\ PeriodEnd(u, d) >= DayStart(u, d) + 3
  <2>1. DayStart(u, d) + Day - 1 \in Int
    BY <1>3 DEF Day
  <2>2. /\ Midnight(DayStart(u, d) + Day - 1) \in Int
        /\ DayStart(u, d) + Day - 1 < Midnight(DayStart(u, d) + Day - 1) + Day
    BY <2>1, MidnightOf
  <2>3. QED
    BY <1>3, <2>2 DEF PeriodEnd, EndOfDay, Day
<1>5. ASSUME u = BrowserAhead PROVE PeriodEnd(u, d) = 4 * d + 3
  <2>1. DayStart(u, d) + Day - 1 = 4 * d + 3
    BY <1>2, <1>3, <1>5 DEF Day
  <2>2. Midnight(4 * d + 3) = 4 * d
    <3>1. (4 * d + 3) \in Int /\ (4 * d + 3) \div Day = d
      BY <1>2, MidnightOf DEF Day
    <3>2. QED
      BY <3>1, MidnightOf DEF Day
  <2>3. QED
    BY <1>2, <2>1, <2>2 DEF PeriodEnd, EndOfDay, Day
<1>6. ASSUME NEW o \in Of("completed", Sold), BrowserDay(u, doneBy[o]) = d
      PROVE  o \in Completed(DayStart(u, d), PeriodEnd(u, d))
  <2>1. doneBy[o] \in Int
    BY OrderKnown DEF Of
  <2>2. doneBy[o] + (BrowserAhead - u) \in Int
    BY <1>2, <2>1
  <2>3. /\ Day * d <= doneBy[o] + (BrowserAhead - u)
        /\ doneBy[o] + (BrowserAhead - u) < Day * d + Day
    BY <1>6, <2>2, MidnightOf DEF BrowserDay
  <2>4. DayStart(u, d) <= doneBy[o] /\ doneBy[o] <= DayStart(u, d) + 3
    BY <1>2, <1>3, <2>1, <2>3 DEF Day
  <2>5. QED
    BY <1>3, <1>4, <2>1, <2>4 DEF Completed
<1>7. ASSUME u = BrowserAhead, NEW o \in Completed(DayStart(u, d), PeriodEnd(u, d))
      PROVE  BrowserDay(u, doneBy[o]) = d
  <2>1. doneBy[o] \in Int
    BY OrderKnown DEF Completed, Of
  <2>2. Day * d <= doneBy[o] /\ doneBy[o] < Day * d + Day
    BY <1>2, <1>3, <1>5, <1>7, <2>1 DEF Completed, Day
  <2>3. doneBy[o] + (BrowserAhead - u) = doneBy[o]
    BY <1>2, <1>7, <2>1
  <2>4. QED
    BY <1>2, <2>1, <2>2, <2>3, MidnightOf DEF BrowserDay
<1>8. UNION {Reports(u, d, d).days[k] : k \in DOMAIN Reports(u, d, d).days} = Reports(u, d, d).orders
  BY <1>1, DaysAddUp DEF Reports
<1>9. QED
  BY <1>1, <1>6, <1>7, <1>8

\* The rows of the masters in a report.
LEMMA MasterRows ==
  ASSUME NEW S, NEW u, NEW r, r = ReportOf(S, u)
  PROVE  /\ DOMAIN r.masters = {sold[o].master : o \in S}
         /\ \A m \in DOMAIN r.masters :
              /\ r.masters[m].orders = {o \in S : sold[o].master = m}
              /\ r.masters[m].fees =
                   {<<o, "master_fee">> : o \in {p \in S \cap settled : sold[p].master = m}}
         /\ r.drivers = {<<o, "driver_fee">> : o \in {p \in S \cap settled : bill[p].courier}}
         /\ r.orders = S
         /\ \A m \in DOMAIN r.masters :
              r.masters[m] = [orders |-> r.masters[m].orders, fees |-> r.masters[m].fees]
BY DEF ReportOf

\* The profit of a report is after all fees of its orders.
LEMMA ProfitAfterFees ==
  ASSUME NEW S, NEW u
  PROVE  BossProfit(ReportOf(S, u)).fees = FeeRows(S) /\ BossProfit(ReportOf(S, u)).revenue = S
<1>1. PICK r : r = ReportOf(S, u)
  OBVIOUS
<1> DEFINE wages == {<<o, "master_fee">> : o \in S \cap settled}
           rides == {<<o, "driver_fee">> : o \in {p \in S \cap settled : bill[p].courier}}
<1>2. UNION {r.masters[m].fees : m \in DOMAIN r.masters} = wages
  <2>1. \A m \in DOMAIN r.masters : r.masters[m].fees \subseteq wages
    BY <1>1, MasterRows
  <2>2. ASSUME NEW o \in S \cap settled
        PROVE  \E m \in DOMAIN r.masters : <<o, "master_fee">> \in r.masters[m].fees
    <3>1. sold[o].master \in DOMAIN r.masters
      BY <1>1, MasterRows
    <3>2. <<o, "master_fee">> \in r.masters[sold[o].master].fees
      BY <1>1, <3>1, MasterRows
    <3>3. QED
      BY <3>1, <3>2
  <2>3. QED
    BY <2>1, <2>2
<1>3. r.drivers = rides /\ r.orders = S
  BY <1>1, MasterRows
<1>4. BossProfit(r).fees = wages \cup r.drivers
  <2>1. BossProfit(r).fees = (UNION {r.masters[m].fees : m \in DOMAIN r.masters}) \cup r.drivers
    BY DEF BossProfit
  <2> HIDE DEF wages
  <2>2. QED
    BY <1>2, <2>1
<1>5. BossProfit(r).revenue = r.orders
  BY DEF BossProfit
<1>6. FeeRows(S) = wages \cup rides
  BY DEF FeeRows
<1> HIDE DEF wages, rides
<1>7. QED
  BY <1>1, <1>2, <1>3, <1>4, <1>6, <1>5

\* The wages among the fees of some orders.
LEMMA WageRows ==
  ASSUME NEW S
  PROVE  {r \in FeeRows(S) : r[2] = "master_fee"} = {<<o, "master_fee">> : o \in S \cap settled}
BY DEF FeeRows

\* A master's page is his row of the report.
LEMMA Breakdowns == BreakdownsAgree
<1> SUFFICES ASSUME NEW u \in ServerZones, NEW d \in Days, NEW e \in Days
             PROVE  LET r == Reports(u, d, e) IN
                    /\ \A m \in Masters :
                         MasterReport(m, u, d, e) = IF m \in DOMAIN r.masters THEN r.masters[m]
                                                    ELSE [orders |-> {}, fees |-> {}]
                    /\ BossProfit(r).fees = FeeRows(r.orders)
  BY DEF BreakdownsAgree
<1>1. PICK S : S = Completed(DayStart(u, d), PeriodEnd(u, e))
  OBVIOUS
<1>2. PICK r : r = Reports(u, d, e)
  OBVIOUS
<1>3. r = ReportOf(S, u)
  BY <1>1, <1>2 DEF Reports
<1>4. ASSUME NEW m \in Masters
      PROVE  MasterReport(m, u, d, e) = IF m \in DOMAIN r.masters THEN r.masters[m]
                                        ELSE [orders |-> {}, fees |-> {}]
  <2>1. PICK own : own = {o \in S : sold[o].master = m}
    OBVIOUS
  <2>2. MasterReport(m, u, d, e) = [orders |-> own,
                                    fees |-> {<<o, "master_fee">> : o \in own \cap settled}]
    BY <1>1, <2>1, WageRows DEF MasterReport
  <2>3. own \cap settled = {p \in S \cap settled : sold[p].master = m}
    BY <2>1
  <2>4. CASE m \in DOMAIN r.masters
    <3>1. /\ r.masters[m].orders = own
          /\ r.masters[m].fees = {<<o, "master_fee">> : o \in own \cap settled}
          /\ r.masters[m] = [orders |-> r.masters[m].orders, fees |-> r.masters[m].fees]
      <4>1. r.masters[m].orders = own
        BY <1>3, <2>1, <2>4, MasterRows
      <4>2. r.masters[m].fees = {<<o, "master_fee">> : o \in {p \in S \cap settled : sold[p].master = m}}
        BY <1>3, <2>4, MasterRows
      <4>3. r.masters[m] = [orders |-> r.masters[m].orders, fees |-> r.masters[m].fees]
        BY <1>3, <2>4, MasterRows
      <4>4. QED
        BY <2>3, <4>1, <4>2, <4>3, Zenon
    <3>2. QED
      BY <2>2, <2>4, <3>1
  <2>5. CASE m \notin DOMAIN r.masters
    <3>1. own = {}
      BY <1>3, <2>1, <2>5, MasterRows
    <3>2. QED
      BY <2>2, <2>5, <3>1
  <2>6. QED
    BY <2>4, <2>5
<1>5. BossProfit(r).fees = FeeRows(r.orders)
  BY <1>3, ProfitAfterFees, MasterRows
<1>6. QED
  BY <1>2, <1>4, <1>5

\* The dashboard against the reports, and against the bot.
LEMMA Dashboards ==
  ASSUME BooksTypeOK, FiguresInv
  PROVE  DashboardAgrees
<1>1. /\ now \in Int /\ Midnight(now) \in Int
      /\ Midnight(now) <= now /\ now < Midnight(now) + 4
      /\ Midnight(now) = 4 * (now \div 4)
      /\ now \div 4 \in Int
  BY MidnightOf DEF FiguresInv, Day
<1>2. LET ever == BossProfit(ReportOf(Of("completed", Sold), 0)) IN
      /\ ever.revenue = SofFoyda.tushum
      /\ ever.fees = {r \in SofFoyda.ishHaqi : sold[r[1]].status = "completed"}
  <2>1. PICK S : S = Of("completed", Sold)
    OBVIOUS
  <2>2. \A o \in Sold : o \in S <=> sold[o].status = "completed"
    BY <2>1 DEF Of
  <2>3. S \subseteq Sold
    BY <2>1 DEF Of
  <2>4. FeeRows(S) = {r \in FeeRows(Sold) : sold[r[1]].status = "completed"}
    BY <2>2, <2>3 DEF FeeRows
  <2>5. SofFoyda.tushum = S /\ SofFoyda.ishHaqi = FeeRows(Sold)
    BY <2>1 DEF SofFoyda
  <2>6. /\ BossProfit(ReportOf(S, 0)).fees = FeeRows(S)
        /\ BossProfit(ReportOf(S, 0)).revenue = S
    BY ProfitAfterFees
  <2>7. QED
    BY <2>1, <2>4, <2>5, <2>6
<1>3. /\ Dashboard.revenue = Completed(Midnight(now), EndOfDay(now))
      /\ EndOfDay(now) = Midnight(now) + 3
  BY <1>1 DEF Dashboard, EndOfDay, Day
<1>4. TodayRevenue \subseteq Dashboard.revenue
  <2>1. ASSUME NEW o \in TodayRevenue PROVE o \in Completed(Midnight(now), EndOfDay(now))
    <3>1. /\ o \in Sold /\ sold[o].status = "completed" /\ Midnight(now) <= sold[o].created
      BY DEF TodayRevenue, TodayOrders, Created, Of
    <3>2. /\ sold[o].created \in Int /\ doneBy[o] \in Int
          /\ sold[o].created <= doneBy[o] /\ doneBy[o] <= now
      BY <3>1, OrderKnown
    <3>3. Midnight(now) <= doneBy[o] /\ doneBy[o] <= EndOfDay(now)
      BY <1>1, <1>3, <3>1, <3>2
    <3>4. QED
      BY <3>1, <3>3 DEF Completed, Of
  <2>2. QED
    BY <1>3, <2>1
<1>5. Dashboard.revenue = Reports(BrowserAhead, now \div Day, now \div Day).orders
  <2>1. BrowserAhead \in Int
    BY FiguresConstants
  <2>2. DayStart(BrowserAhead, now \div Day) = Midnight(now)
    BY <1>1, <2>1 DEF DayStart, Day
  <2>3. Midnight(Midnight(now) + 3) = Midnight(now)
    <3>1. PICK k \in Int : k = now \div 4 /\ Midnight(now) = 4 * k
      BY <1>1
    <3>2. (4 * k + 3) - ((4 * k + 3) % 4) = 4 * k
      OBVIOUS
    <3>3. QED
      BY <3>1, <3>2 DEF Midnight, Day
  <2>4. PeriodEnd(BrowserAhead, now \div Day) = EndOfDay(now)
    <3>1. Midnight(now) + Day - 1 = Midnight(now) + 3
      BY <1>1 DEF Day
    <3>2. QED
      BY <1>1, <1>3, <2>2, <2>3, <3>1 DEF PeriodEnd, EndOfDay, Day
  <2>5. QED
    BY <1>3, <2>2, <2>4 DEF Reports, ReportOf
<1>6. ASSUME NEW t \in LastDays PROVE WeeklyRevenue[t] \subseteq WeekCompleted
  <2>1. WeekDays \in Nat
    BY FiguresConstants
  <2>2. PICK k \in 0..(WeekDays - 1) : t = Midnight(now) - Day * k
    BY DEF LastDays
  <2>3. WeekStart \in Int /\ WeekStart <= t
    BY <1>1, <2>1, <2>2 DEF WeekStart, Day
  <2>4. \A o \in Sold : sold[o].created \in Int /\ sold[o].created <= now
    BY OrderKnown
  <2>5. t \in Int
    BY <1>1, <2>2 DEF Day
  <2>6. Created(t, EndOfDay(t)) \subseteq Created(WeekStart, now)
    BY <1>1, <2>3, <2>4, <2>5 DEF Created
  <2>7. QED
    BY <2>6 DEF WeeklyRevenue, WeekCompleted, WeekOrders, Of
<1>7. UNION {OrderStatusCounts[s] : s \in DOMAIN OrderStatusCounts} = UmumiyTushum
  <2>1. /\ DOMAIN OrderStatusCounts = {sold[o].status : o \in Sold}
        /\ \A s \in DOMAIN OrderStatusCounts : OrderStatusCounts[s] = Of(s, Sold)
    BY DEF OrderStatusCounts
  <2>2. \A o \in Sold : \E s \in DOMAIN OrderStatusCounts : o \in OrderStatusCounts[s]
    <3>1. TAKE o \in Sold
    <3>2. sold[o].status \in DOMAIN OrderStatusCounts /\ o \in Of(sold[o].status, Sold)
      BY <2>1 DEF Of
    <3>3. QED
      BY <2>1, <3>2
  <2>3. \A s \in DOMAIN OrderStatusCounts : OrderStatusCounts[s] \subseteq Sold
    BY <2>1 DEF Of
  <2>4. QED
    BY <2>2, <2>3 DEF UmumiyTushum
<1>8. QED
  BY <1>2, <1>4, <1>5, <1>6, <1>7 DEF DashboardAgrees

\* The lists of the same orders.
LEMMA Histories ==
  ASSUME BooksTypeOK, FiguresInv
  PROVE  HistoriesAgree
<1>1. ASSUME NEW u \in ServerZones, NEW d \in Days, NEW o \in Sold, o \in OrdersReport(u, d, d)
      PROVE  o \in OrganizationReport(bill[o].party, u, d, d)
  <2>1. u \in Nat /\ d \in Int /\ BrowserAhead \in 0..3 /\ u <= BrowserAhead
    BY FiguresConstants DEF ServerZones, Days
  <2>2. sold[o].created \in Int
    BY OrderKnown
  <2>3. UtcStart(u, d) \in Int /\ UtcStart(u, d) = 4 * d + u
    BY <2>1 DEF UtcStart, Day
  <2>4. DayStart(u, d) \in Int /\ DayStart(u, d) <= UtcStart(u, d)
    BY <2>1, <2>3 DEF DayStart, Day
  <2>5. DayStart(u, d) + Day - 1 \in Int /\ UtcStart(u, d) <= DayStart(u, d) + Day - 1
    BY <2>1, <2>3 DEF DayStart, Day
  <2>6. EndOfDay(UtcStart(u, d)) <= PeriodEnd(u, d)
    <3>1. Midnight(UtcStart(u, d)) <= Midnight(DayStart(u, d) + Day - 1)
      BY <2>3, <2>5, MidnightsInOrder
    <3>2. Midnight(UtcStart(u, d)) \in Int /\ Midnight(DayStart(u, d) + Day - 1) \in Int
      BY <2>3, <2>5, MidnightOf
    <3>3. QED
      BY <3>1, <3>2 DEF PeriodEnd, EndOfDay, Day
  <2>7. EndOfDay(UtcStart(u, d)) \in Int /\ PeriodEnd(u, d) \in Int
    <3>1. Midnight(UtcStart(u, d)) \in Int /\ Midnight(DayStart(u, d) + Day - 1) \in Int
      BY <2>3, <2>5, MidnightOf
    <3>2. QED
      BY <3>1 DEF PeriodEnd, EndOfDay, Day
  <2>8. QED
    BY <1>1, <2>2, <2>3, <2>4, <2>6, <2>7 DEF OrdersReport, OrganizationReport, Created
<1>2. ASSUME NEW p \in DOMAIN IndividualClients
      PROVE  /\ p.form = "digits" => IndividualClients[p].orders \subseteq ClientOrders(p).orders
             /\ ClientOrders(p).spent \subseteq ClientsHistory(p).spent
  <2>1. IndividualClients[p].orders = {o \in Sold : bill[o].party = Private /\ bill[o].phone = p}
    BY <1>2 DEF IndividualClients
  <2>2. ClientOrders(p).orders =
          {o \in Sold : bill[o].party = Private /\ HasNumber(bill[o].phone, p.number)}
    BY DEF ClientOrders
  <2>3. /\ ClientOrders(p).spent = Of("completed", ClientOrders(p).orders)
        /\ ClientsHistory(p).spent = {o \in Sold : HasNumber(bill[o].phone, p.number)}
    BY DEF ClientOrders, ClientsHistory
  <2>4. QED
    BY <2>1, <2>2, <2>3 DEF HasNumber, Of
<1>3. QED
  BY <1>1, <1>2 DEF HistoriesAgree

\* Whatever is sold, closed, reopened and settled, and when: the bot's figures,
\* the reports, the dashboard and the histories can be set side by side, for a
\* run of the daily sheet before the edge of its window.
THEOREM FiguresCompare ==
  ASSUME CronHour < Evening
  PROVE  FiguresSpec => [](BooksTypeOK /\ FiguresAddUp)
<1>1. ReportsInit /\ BooksInit => BooksTypeOK /\ FiguresInv
  BY BooksTypeInit, FiguresInit
<1>2. BooksTypeOK /\ FiguresInv /\ [FiguresNext]_<<reportsVars, booksVars>>
        => (BooksTypeOK /\ FiguresInv)'
  BY StepBooksTyped, StepFigures
<1>3. BooksTypeOK /\ FiguresInv => FiguresAddUp
  BY SheetsApart, BotFigures, DaysAreKept, Breakdowns, Dashboards, Histories DEF FiguresAddUp
<1>4. QED
  BY <1>1, <1>2, <1>3, PTL DEF FiguresSpec
=============================================================================
