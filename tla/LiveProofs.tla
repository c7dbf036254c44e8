------------------------------ MODULE LiveProofs -----------------------------
(***************************************************************************)
(* Theorems about the components in which something must come about, each  *)
(* without any fairness: the broadcast queue, for any couriers, orders,    *)
(* calls, faults and stall limit; one opening of the WebApp, for any       *)
(* number of polls, pages and changes of the account; the boss's session   *)
(* in the ERP, for cookies of any age and any number of ticks and          *)
(* failures; and the rows the ERP keeps of the server, on any page.        *)
(***************************************************************************)
EXTENDS MCLive, SequenceTheorems, TLAPS
-----------------------------------------------------------------------------
(* The broadcast queue.                                                    *)

\* The worker has still to send the offer of job j to driver d.
Offering(j, d) == run # NoRun /\ run.job = j /\ (~run.read \/ d \in run.todo)

\* The worker's job is one that Redis has handed out, and is its own as long as
\* it holds the lock; whoever was there all along is served or still to serve.
RunInv ==
  run # NoRun =>
    /\ job[run.job] \in {"active", "waiting", "failed"}
    /\ run.locked => job[run.job] = "active"
    /\ run.read => present[run.job] \subseteq tried[run.job] \cup run.todo
    /\ run.todo # {} => run.read

\* A call that has not reached Redis has done nothing.
Fresh(j) ==
  job[j] \in {"none", "called", "lost"} =>
    /\ stalls[j] = 0 /\ tried[j] = {}
    /\ \A d \in Drivers : reached[<<j, d>>] = 0

Faulty(j) ==
  /\ job[j] \in {"lost", "failed"} => faults > 0
  /\ job[j] = "active" => faults > 0 \/ (run # NoRun /\ run.job = j /\ run.locked)

\* One offer for every time the job was handed out, the one under way included.
Handed(j) ==
  /\ job[j] \in {"waiting", "active"} => stalls[j] <= MaxStalls
  /\ \A d \in Drivers :
       /\ job[j] = "waiting" =>
            /\ reached[<<j, d>>] <= stalls[j]
            /\ Offering(j, d) => reached[<<j, d>>] < stalls[j]
       /\ job[j] = "active" =>
            /\ reached[<<j, d>>] <= stalls[j] + 1
            /\ Offering(j, d) => reached[<<j, d>>] <= stalls[j]
       /\ job[j] \in {"completed", "failed"} =>
            /\ reached[<<j, d>>] <= MaxStalls + 1
            /\ Offering(j, d) => reached[<<j, d>>] <= MaxStalls

Served(j) ==
  /\ present[j] \subseteq active
  /\ job[j] = "completed" => present[j] \subseteq tried[j]

JobInv(j) == Fresh(j) /\ Faulty(j) /\ Handed(j) /\ Served(j)

BroadcastInv == BroadcastTypeOK /\ RunInv /\ \A j \in Jobs : JobInv(j)

\* The worker is idle or at a run of its own.
LEMMA RunsAreRuns ==
  ASSUME BroadcastTypeOK
  PROVE  run # NoRun <=> run \in Runs
BY BroadcastAssumption DEF BroadcastTypeOK, Runs, Jobs

LEMMA BroadcastInitially == BroadcastInit => BroadcastInv
<1> SUFFICES ASSUME BroadcastInit PROVE BroadcastInv
  OBVIOUS
<1>1. BroadcastTypeOK
  BY DEF BroadcastInit, BroadcastTypeOK, JobStates
<1>2. RunInv
  BY DEF BroadcastInit, RunInv
<1>3. ASSUME NEW j \in Jobs PROVE JobInv(j)
  BY <1>3 DEF BroadcastInit, JobInv, Fresh, Faulty, Handed, Served
<1>4. QED
  BY <1>1, <1>2, <1>3 DEF BroadcastInv

\* confirm() calls, and Redis takes the call or not.
LEMMA ProducerSteps ==
  ASSUME BroadcastInv, NEW j \in Jobs, NEW state \in {"called", "waiting", "lost"},
         job[j] \in {"none", "called"},
         job' = [job EXCEPT ![j] = state],
         faults' \in Nat, faults' >= faults, state = "lost" => faults' > 0,
         present' \in [Jobs -> SUBSET Drivers],
         \A k \in Jobs : present'[k] = IF k = j /\ state = "waiting" THEN active ELSE present[k],
         UNCHANGED <<stalls, run, active, up, reached, tried, toggles>>
  PROVE  BroadcastInv'
<1> USE BroadcastAssumption DEF BroadcastInv
<1>1. BroadcastTypeOK'
  BY DEF BroadcastTypeOK, JobStates
<1>2. run # NoRun => run.job \in Jobs /\ run.job # j
  BY RunsAreRuns DEF RunInv, Runs
<1>3. RunInv'
  BY <1>2 DEF RunInv, BroadcastTypeOK
<1>4. ASSUME NEW k \in Jobs PROVE JobInv(k)'
  <2>1. CASE k = j
    <3>1. stalls'[j] = 0 /\ tried'[j] = {} /\ \A d \in Drivers : reached'[<<j, d>>] = 0
      BY DEF JobInv, Fresh
    <3>2. job'[j] = state
      BY DEF BroadcastTypeOK
    <3>3. \A d \in Drivers : ~Offering(j, d)'
      BY <1>2 DEF Offering
    <3>4. present'[j] \subseteq active'
      BY DEF JobInv, Served
    <3>5. QED
      BY <2>1, <3>1, <3>2, <3>3, <3>4 DEF JobInv, Fresh, Faulty, Handed, Served
  <2>2. CASE k # j
    BY <2>2 DEF JobInv, Fresh, Faulty, Handed, Served, Offering, BroadcastTypeOK
  <2>3. QED
    BY <2>1, <2>2
<1>5. QED
  BY <1>1, <1>3, <1>4

LEMMA CallStep ==
  ASSUME BroadcastInv, NEW o \in Orders, NEW n \in 1..MaxCalls, Call(o, n)
  PROVE  BroadcastInv'
<1>1. <<o, n>> \in Jobs
  BY DEF Jobs
<1>2. present' \in [Jobs -> SUBSET Drivers] /\ faults' \in Nat /\ faults' >= faults
  BY DEF Call, BroadcastInv, BroadcastTypeOK
<1>3. QED
  BY <1>1, <1>2, ProducerSteps DEF Call

LEMMA EnqueueSteps ==
  ASSUME BroadcastInv, NEW j \in Jobs, Enqueue(j) \/ CallRejected(j)
  PROVE  BroadcastInv'
<1>1. faults \in Nat /\ present \in [Jobs -> SUBSET Drivers] /\ active \subseteq Drivers
  BY DEF BroadcastInv, BroadcastTypeOK
<1>2. CASE Enqueue(j)
  <2>1. /\ present' \in [Jobs -> SUBSET Drivers]
        /\ \A k \in Jobs : present'[k] = IF k = j THEN active ELSE present[k]
    BY <1>1, <1>2 DEF Enqueue
  <2>2. faults' \in Nat /\ faults' >= faults
    BY <1>1, <1>2 DEF Enqueue
  <2>3. QED
    BY <1>2, <2>1, <2>2, ProducerSteps DEF Enqueue
<1>3. CASE CallRejected(j)
  <2>1. present' = present /\ faults' \in Nat /\ faults' >= faults /\ faults' > 0
    BY <1>1, <1>3 DEF CallRejected
  <2>2. QED
    BY <1>1, <1>3, <2>1, ProducerSteps DEF CallRejected
<1>4. QED
  BY <1>2, <1>3

LEMMA TakeStep ==
  ASSUME BroadcastInv, NEW j \in Jobs, TakeJob(j)
  PROVE  BroadcastInv'
<1> USE BroadcastAssumption DEF BroadcastInv, TakeJob
<1>1. run' = [job |-> j, locked |-> TRUE, read |-> FALSE, todo |-> {}] /\ run' \in Runs
  BY DEF Runs
<1>2. BroadcastTypeOK'
  BY <1>1 DEF BroadcastTypeOK, JobStates
<1>3. job'[j] = "active" /\ \A k \in Jobs : k # j => job'[k] = job[k]
  BY DEF BroadcastTypeOK
<1>4. RunInv'
  BY <1>1, <1>3 DEF RunInv
<1>5. run' # NoRun
  BY <1>1, <1>2, RunsAreRuns DEF Runs, Jobs
<1>6. ASSUME NEW k \in Jobs PROVE JobInv(k)'
  <2>1. Fresh(k)'
    BY <1>3 DEF JobInv, Fresh
  <2>2. Faulty(k)'
    BY <1>1, <1>3, <1>5 DEF JobInv, Faulty
  <2>3. Handed(k)'
    BY <1>1, <1>3 DEF JobInv, Handed, Offering, BroadcastTypeOK
  <2>4. Served(k)'
    BY <1>3 DEF JobInv, Served
  <2>5. QED
    BY <2>1, <2>2, <2>3, <2>4 DEF JobInv
<1>7. QED
  BY <1>2, <1>4, <1>6

\* process() reads the drivers, and sends to one of them.
LEMMA ReadStep ==
  ASSUME BroadcastInv, ReadDrivers
  PROVE  BroadcastInv'
<1> USE BroadcastAssumption DEF BroadcastInv, ReadDrivers
<1>1. run \in Runs
  BY RunsAreRuns
<1>2. /\ run' \in Runs
      /\ run'.job = run.job /\ run'.locked = run.locked /\ run'.read = TRUE /\ run'.todo = active
  BY <1>1 DEF Runs, BroadcastTypeOK
<1>3. BroadcastTypeOK'
  BY <1>2 DEF BroadcastTypeOK
<1>4. RunInv'
  BY <1>1, <1>2 DEF RunInv, JobInv, Served, Runs
<1>5. ASSUME NEW k \in Jobs PROVE JobInv(k)'
  <2>1. Fresh(k)' /\ Served(k)'
    BY DEF JobInv, Fresh, Served
  <2>2. run' # NoRun
    BY <1>2, <1>3, RunsAreRuns DEF Runs, Jobs
  <2>3. Faulty(k)'
    BY <1>2, <2>2 DEF JobInv, Faulty
  <2>4. Handed(k)'
    BY <1>2 DEF JobInv, Handed, Offering
  <2>5. QED
    BY <2>1, <2>3, <2>4 DEF JobInv
<1>6. QED
  BY <1>3, <1>4, <1>5

LEMMA OfferStep ==
  ASSUME BroadcastInv, NEW d \in Drivers, NEW arrives \in BOOLEAN, SendOffer(d, arrives)
  PROVE  BroadcastInv'
<1> DEFINE j == run.job
<1>1. run \in Runs /\ j \in Jobs
  BY RunsAreRuns DEF SendOffer, BroadcastInv, Runs
<1>2. /\ run' \in Runs
      /\ run'.job = j /\ run'.locked = run.locked /\ run'.read = run.read
      /\ run'.todo = run.todo \ {d}
  BY <1>1 DEF SendOffer, Runs
<1>3. /\ tried' \in [Jobs -> SUBSET Drivers]
      /\ \A k \in Jobs : tried'[k] = IF k = j THEN tried[k] \cup {d} ELSE tried[k]
  BY <1>1 DEF SendOffer, BroadcastInv, BroadcastTypeOK
<1>4. <<j, d>> \in Jobs \X Drivers
  BY <1>1
<1>5. /\ reached' \in [Jobs \X Drivers -> Nat]
      /\ reached'[<<j, d>>] \in {reached[<<j, d>>], reached[<<j, d>>] + 1}
      /\ \A k \in Jobs, e \in Drivers : k # j \/ e # d => reached'[<<k, e>>] = reached[<<k, e>>]
  BY <1>4 DEF SendOffer, BroadcastInv, BroadcastTypeOK
<1>6. /\ run # NoRun /\ d \in run.todo
      /\ UNCHANGED <<job, stalls, active, up, present, faults, toggles>>
  BY DEF SendOffer
<1>7. BroadcastTypeOK'
  BY <1>2, <1>3, <1>5, <1>6 DEF BroadcastInv, BroadcastTypeOK
<1>8. RunInv'
  BY <1>1, <1>2, <1>3, <1>6 DEF BroadcastInv, RunInv
<1>9. ASSUME NEW k \in Jobs PROVE JobInv(k)'
  <2>1. Served(k)'
    BY <1>3, <1>6 DEF BroadcastInv, JobInv, Served
  <2>2. run' # NoRun
    BY <1>2, <1>7, RunsAreRuns, BroadcastAssumption DEF Runs, Jobs
  <2>3. Faulty(k)'
    BY <1>2, <1>6, <2>2 DEF BroadcastInv, JobInv, Faulty
  <2>4. Fresh(k)'
    <3>1. CASE k = j
      BY <1>6, <3>1 DEF BroadcastInv, RunInv, Fresh
    <3>2. CASE k # j
      BY <1>3, <1>5, <1>6, <3>2 DEF BroadcastInv, JobInv, Fresh
    <3>3. QED
      BY <3>1, <3>2
  <2>5. Handed(k)'
    <3>1. stalls[k] \in Nat /\ \A e \in Drivers : reached[<<k, e>>] \in Nat
      BY DEF BroadcastInv, BroadcastTypeOK
    <3>2. CASE k = j
      <4>1. Offering(k, d) /\ ~Offering(k, d)'
        BY <1>2, <1>6, <2>2, <3>2 DEF BroadcastInv, Offering, RunInv
      <4>2. ASSUME NEW e \in Drivers, e # d
            PROVE  reached'[<<k, e>>] = reached[<<k, e>>] /\ (Offering(k, e)' => Offering(k, e))
        BY <1>1, <1>2, <1>5, <1>6, <3>2, <4>2 DEF Offering
      <4>3. job[k] \in {"active", "waiting", "failed"} /\ Handed(k)
        BY <1>6, <3>2 DEF BroadcastInv, JobInv, RunInv
      <4>4. MaxStalls \in Nat
        BY BroadcastAssumption
      <4>5. reached[<<k, d>>] \in Nat /\ reached'[<<k, d>>] \in {reached[<<k, d>>], reached[<<k, d>>] + 1}
        BY <1>5, <3>1, <3>2
      <4>6. job'[k] = job[k] /\ stalls'[k] = stalls[k]
        BY <1>6
      <4>7. ASSUME NEW e \in Drivers
            PROVE  /\ job[k] = "waiting" =>
                        /\ reached'[<<k, e>>] <= stalls[k]
                        /\ Offering(k, e)' => reached'[<<k, e>>] < stalls[k]
                   /\ job[k] = "active" =>
                        /\ reached'[<<k, e>>] <= stalls[k] + 1
                        /\ Offering(k, e)' => reached'[<<k, e>>] <= stalls[k]
                   /\ job[k] \in {"completed", "failed"} =>
                        /\ reached'[<<k, e>>] <= MaxStalls + 1
                        /\ Offering(k, e)' => reached'[<<k, e>>] <= MaxStalls
        <5>1. CASE e = d
          BY <3>1, <4>1, <4>3, <4>4, <4>5, <5>1 DEF Handed
        <5>2. CASE e # d
          BY <4>2, <4>3, <5>2 DEF Handed
        <5>3. QED
          BY <5>1, <5>2
      <4>8. QED
        BY <4>3, <4>6, <4>7 DEF Handed
    <3>3. CASE k # j
      BY <1>2, <1>5, <1>6, <2>2, <3>3 DEF BroadcastInv, JobInv, Handed, Offering
    <3>4. QED
      BY <3>2, <3>3
  <2>6. QED
    BY <2>1, <2>3, <2>4, <2>5 DEF JobInv
<1>10. QED
  BY <1>7, <1>8, <1>9 DEF BroadcastInv

\* The worker lets go of its job: process() has returned or thrown, or died.
LEMMA WorkerStops ==
  ASSUME BroadcastInv, NEW j \in Jobs, run # NoRun, run.job = j,
         NEW state \in {"completed", "failed"},
         job' = IF run.locked THEN [job EXCEPT ![j] = state] ELSE job,
         run' = NoRun,
         faults' \in Nat, faults' >= faults, state = "failed" => faults' > 0,
         state = "completed" => run.read /\ run.todo = {},
         UNCHANGED <<stalls, active, up, reached, tried, present, toggles>>
  PROVE  BroadcastInv'
<1> USE BroadcastAssumption DEF BroadcastInv
<1>1. BroadcastTypeOK'
  BY DEF BroadcastTypeOK, JobStates
<1>2. RunInv'
  BY DEF RunInv
<1>3. ASSUME NEW k \in Jobs PROVE JobInv(k)'
  <2>1. stalls[k] \in Nat /\ \A d \in Drivers : reached[<<k, d>>] \in Nat /\ ~Offering(k, d)'
    BY DEF BroadcastTypeOK, Offering
  <2>2. CASE k = j /\ run.locked
    <3>1. job[k] = "active" /\ job'[k] = state
      BY <2>2 DEF RunInv, BroadcastTypeOK
    <3>2. Fresh(k)' /\ Faulty(k)'
      BY <3>1 DEF Fresh, Faulty
    <3>3. Handed(k)'
      BY <2>1, <3>1 DEF JobInv, Handed
    <3>4. Served(k)'
      BY <2>2, <3>1 DEF JobInv, Served, RunInv
    <3>5. QED
      BY <3>2, <3>3, <3>4 DEF JobInv
  <2>3. CASE ~(k = j /\ run.locked)
    <3>1. job'[k] = job[k]
      BY <2>3 DEF BroadcastTypeOK
    <3>2. QED
      BY <2>1, <2>3, <3>1 DEF JobInv, Fresh, Faulty, Handed, Served, BroadcastTypeOK
  <2>4. QED
    BY <2>2, <2>3
<1>4. QED
  BY <1>1, <1>2, <1>3

LEMMA EndSteps ==
  ASSUME BroadcastInv, FinishJob \/ ReadFails
  PROVE  BroadcastInv'
<1>1. run \in Runs /\ run.job \in Jobs /\ run # NoRun /\ faults \in Nat
  BY RunsAreRuns DEF FinishJob, ReadFails, BroadcastInv, BroadcastTypeOK, Runs
<1>2. CASE FinishJob
  <2>1. faults' \in Nat /\ faults' >= faults
    BY <1>1, <1>2 DEF FinishJob
  <2>2. QED
    BY <1>1, <1>2, <2>1, WorkerStops DEF FinishJob
<1>3. CASE ReadFails
  <2>1. faults' \in Nat /\ faults' >= faults /\ faults' > 0
    BY <1>1, <1>3 DEF ReadFails
  <2>2. QED
    BY <1>1, <1>3, <2>1, WorkerStops DEF ReadFails
<1>4. QED
  BY <1>2, <1>3

LEMMA CrashSteps ==
  ASSUME BroadcastInv, Crash \/ Restart
  PROVE  BroadcastInv'
<1> USE BroadcastAssumption DEF BroadcastInv
<1>1. CASE Crash
  <2>1. BroadcastTypeOK'
    <3>1. job' \in [Jobs -> JobStates]
      BY <1>1 DEF Crash, BroadcastTypeOK, JobStates
    <3>2. faults' \in Nat /\ run' = NoRun /\ UNCHANGED <<stalls, active, reached, tried, present, toggles>>
      BY <1>1 DEF Crash, BroadcastTypeOK
    <3>3. up' \in BOOLEAN
      BY <1>1, Zenon DEF Crash
    <3>4. QED
      BY <3>1, <3>2, <3>3 DEF BroadcastTypeOK
  <2>2. RunInv'
    BY <1>1 DEF Crash, RunInv
  <2>3. faults' > 0
    BY <1>1 DEF Crash, BroadcastTypeOK
  <2>4. ASSUME NEW k \in Jobs PROVE JobInv(k)'
    <3>1. job'[k] = job[k] \/ (job[k] = "called" /\ job'[k] = "lost")
      BY <1>1 DEF Crash
    <3>2. \A d \in Drivers : ~Offering(k, d)'
      BY <1>1 DEF Crash, Offering
    <3>3. UNCHANGED <<stalls, active, reached, tried, present>>
      BY <1>1 DEF Crash
    <3>4. QED
      BY <2>3, <3>1, <3>2, <3>3 DEF JobInv, Fresh, Faulty, Handed, Served
  <2>5. QED
    BY <2>1, <2>2, <2>4
<1>2. CASE Restart
  BY <1>2 DEF Restart, BroadcastTypeOK, RunInv, JobInv, Fresh, Faulty, Handed, Served, Offering
<1>3. QED
  BY <1>1, <1>2

LEMMA LoseLockStep ==
  ASSUME BroadcastInv, LoseLock
  PROVE  BroadcastInv'
<1>1. run \in Runs /\ run # NoRun
  BY RunsAreRuns DEF LoseLock, BroadcastInv
<1>2. /\ run' \in Runs
      /\ run'.job = run.job /\ run'.locked = FALSE /\ run'.read = run.read /\ run'.todo = run.todo
  BY <1>1 DEF LoseLock, Runs
<1>3. BroadcastTypeOK' /\ faults' > 0
  BY <1>2, BroadcastAssumption DEF LoseLock, BroadcastInv, BroadcastTypeOK
<1>4. RunInv'
  BY <1>1, <1>2 DEF LoseLock, BroadcastInv, RunInv
<1>5. ASSUME NEW k \in Jobs PROVE JobInv(k)'
  BY <1>1, <1>2, <1>3 DEF LoseLock, BroadcastInv, JobInv, Fresh, Faulty, Handed, Served, Offering
<1>6. QED
  BY <1>3, <1>4, <1>5 DEF BroadcastInv

LEMMA StallStep ==
  ASSUME BroadcastInv, NEW j \in Jobs, StalledCheck(j)
  PROVE  BroadcastInv'
<1> USE BroadcastAssumption
<1>1. /\ stalls' \in [Jobs -> Nat] /\ stalls'[j] = stalls[j] + 1
      /\ \A k \in Jobs : k # j => stalls'[k] = stalls[k]
  BY DEF StalledCheck, BroadcastInv, BroadcastTypeOK
<1>2. /\ job' \in [Jobs -> JobStates]
      /\ job'[j] = IF stalls[j] + 1 > MaxStalls THEN "failed" ELSE "waiting"
      /\ \A k \in Jobs : k # j => job'[k] = job[k]
  BY <1>1 DEF StalledCheck, BroadcastInv, BroadcastTypeOK, JobStates
<1>3. /\ job[j] = "active" /\ (run # NoRun => run.job # j \/ ~run.locked)
      /\ UNCHANGED <<run, active, up, reached, tried, present, faults, toggles>>
  BY DEF StalledCheck
<1>4. faults > 0
  BY <1>3 DEF BroadcastInv, JobInv, Faulty
<1>5. BroadcastTypeOK'
  BY <1>1, <1>2, <1>3 DEF BroadcastInv, BroadcastTypeOK
<1>6. RunInv'
  <2>1. run # NoRun => run.job \in Jobs
    BY RunsAreRuns DEF BroadcastInv, Runs
  <2>2. QED
    BY <1>2, <1>3, <2>1 DEF BroadcastInv, RunInv
<1>7. ASSUME NEW k \in Jobs PROVE JobInv(k)'
  <2>1. stalls[k] \in Nat /\ \A d \in Drivers : reached[<<k, d>>] \in Nat
    BY DEF BroadcastInv, BroadcastTypeOK
  <2>2. CASE k = j
    <3>1. Fresh(k)' /\ Faulty(k)' /\ Served(k)'
      BY <1>2, <1>3, <1>4, <2>2 DEF BroadcastInv, JobInv, Fresh, Faulty, Served
    <3>2. Handed(k)'
      BY <1>1, <1>2, <1>3, <2>1, <2>2 DEF BroadcastInv, JobInv, Handed, Offering
    <3>3. QED
      BY <3>1, <3>2 DEF JobInv
  <2>3. CASE k # j
    BY <1>1, <1>2, <1>3, <2>3 DEF BroadcastInv, JobInv, Fresh, Faulty, Handed, Served, Offering
  <2>4. QED
    BY <2>2, <2>3
<1>8. QED
  BY <1>5, <1>6, <1>7 DEF BroadcastInv

LEMMA ToggleStep ==
  ASSUME BroadcastInv, NEW d \in Drivers, Toggle(d)
  PROVE  BroadcastInv'
<1>1. /\ present' \in [Jobs -> SUBSET Drivers]
      /\ \A k \in Jobs : present'[k] = present[k] \ {d}
      /\ active' = IF d \in active THEN active \ {d} ELSE active \cup {d}
      /\ UNCHANGED <<job, stalls, run, up, reached, tried, faults>>
  BY DEF Toggle, BroadcastInv, BroadcastTypeOK
<1>2. BroadcastTypeOK'
  BY <1>1 DEF Toggle, BroadcastInv, BroadcastTypeOK
<1>3. RunInv'
  <2>1. run # NoRun => run.job \in Jobs
    BY RunsAreRuns DEF BroadcastInv, Runs
  <2>2. QED
    BY <1>1, <2>1 DEF BroadcastInv, RunInv
<1>4. ASSUME NEW k \in Jobs PROVE JobInv(k)'
  BY <1>1 DEF BroadcastInv, JobInv, Fresh, Faulty, Handed, Served, Offering
<1>5. QED
  BY <1>2, <1>3, <1>4 DEF BroadcastInv

LEMMA StepBroadcast ==
  ASSUME BroadcastInv, [BroadcastNext]_broadcastVars
  PROVE  BroadcastInv'
<1>1. CASE UNCHANGED broadcastVars
  BY <1>1 DEF broadcastVars, BroadcastInv, BroadcastTypeOK, RunInv, JobInv, Fresh, Faulty,
              Handed, Served, Offering
<1>2. CASE BroadcastNext
  BY <1>2, CallStep, EnqueueSteps, TakeStep, ReadStep, OfferStep, EndSteps, CrashSteps,
     LoseLockStep, StallStep, ToggleStep
     DEF BroadcastNext, WorkerStep
<1>3. QED
  BY <1>1, <1>2

\* OffersMade, with the types: a completed job has sent to every driver that was
\* active since it was queued, and none gets more than one offer for each time
\* Redis hands the job out (BroadcastProcessor.process).
THEOREM OffersAreMade == BroadcastSpec => [](BroadcastTypeOK /\ OffersMade)
<1>1. BroadcastInv => BroadcastTypeOK /\ OffersMade
  <2> SUFFICES ASSUME BroadcastInv PROVE BroadcastTypeOK /\ OffersMade
    OBVIOUS
  <2>1. CompletedTriedAll
    BY DEF BroadcastInv, JobInv, Served, CompletedTriedAll
  <2>2. ASSUME NEW j \in Jobs, NEW d \in Drivers
        PROVE  reached[<<j, d>>] <= MaxStalls + 1
    <3>1. job[j] \in JobStates /\ stalls[j] \in Nat /\ reached[<<j, d>>] \in Nat
      BY DEF BroadcastInv, BroadcastTypeOK
    <3>2. QED
      BY <3>1, BroadcastAssumption DEF BroadcastInv, JobInv, Fresh, Handed, JobStates
  <2>3. QED
    BY <2>1, <2>2 DEF BroadcastInv, OffersMade, OffersBounded
<1>2. QED
  BY BroadcastInitially, StepBroadcast, <1>1, PTL DEF BroadcastSpec

\* LostOnlyBeforeRedis: what is lost has never reached Redis, and nothing is lost
\* or fails without a fault (confirm, BroadcastProcessor.process).
THEOREM LossesAreFaults == BroadcastSpec => []LostOnlyBeforeRedis
<1>1. BroadcastInv => LostOnlyBeforeRedis
  BY DEF BroadcastInv, JobInv, Fresh, Faulty, LostOnlyBeforeRedis
<1>2. QED
  BY BroadcastInitially, StepBroadcast, <1>1, PTL DEF BroadcastSpec
-----------------------------------------------------------------------------
(* The WebApp.                                                             *)

\* Calls are on their way only from a page the user has opened, and that page
\* has its reload still to come.
ReloadsInv ==
  /\ SessionTypeOK
  /\ sent > 0 => webPage # "home"
  /\ IF webPage = "home" THEN reloads <= opens ELSE reloads + 1 <= opens

\* The session starts on the home page with nothing on its way.
LEMMA ReloadsInitially == SessionInit => ReloadsInv
BY SessionAssumption DEF SessionInit, ReloadsInv, SessionTypeOK, Accounts

\* What the provider and the world around it do leaves the page alone
\* (TelegramProvider.tsx, and the account behind it).
LEMMA AroundThePage ==
  ASSUME ReloadsInv,
         \/ SdkLoads \/ Expires \/ OpenApp \/ SdkWaited \/ Poll \/ CheckStarts
         \/ \E a \in Accounts : AccountChanges(a)
         \/ \E served \in BOOLEAN : CheckAnswered(served)
  PROVE  ReloadsInv'
<1> USE SessionAssumption DEF ReloadsInv, SessionTypeOK, page
<1>1. CASE SdkLoads
  BY <1>1 DEF SdkLoads
<1>2. CASE Expires
  BY <1>2 DEF Expires
<1>3. CASE OpenApp
  BY <1>3 DEF OpenApp
<1>4. CASE SdkWaited
  BY <1>4 DEF SdkWaited, Finish
<1>5. CASE Poll
  BY <1>5 DEF Poll, Finish
<1>6. CASE CheckStarts
  BY <1>6 DEF CheckStarts
<1>7. CASE \E a \in Accounts : AccountChanges(a)
  BY <1>7 DEF AccountChanges
<1>8. CASE \E served \in BOOLEAN : CheckAnswered(served)
  BY <1>8 DEF CheckAnswered
<1>9. QED
  BY <1>1, <1>2, <1>3, <1>4, <1>5, <1>6, <1>7, <1>8

\* What the user and the answers do on a page (api.ts: apiFetch and the handler
\* of an expired session).
LEMMA OnThePage ==
  ASSUME ReloadsInv,
         \/ \E p \in WebPages : OpenPage(p)
         \/ \E served \in BOOLEAN : CallAnswered(served)
         \/ PageCalls \/ GoHome
  PROVE  ReloadsInv'
<1> USE SessionAssumption DEF ReloadsInv, SessionTypeOK
<1>1. CASE \E p \in WebPages : OpenPage(p)
  BY <1>1 DEF OpenPage, WebPages
<1>2. CASE \E served \in BOOLEAN : CallAnswered(served)
  BY <1>2 DEF CallAnswered, Reloads
<1>3. CASE PageCalls
  BY <1>3 DEF PageCalls
<1>4. CASE GoHome
  BY <1>4 DEF GoHome
<1>5. QED
  BY <1>1, <1>2, <1>3, <1>4

LEMMA StepReloads ==
  ASSUME ReloadsInv, [SessionNext]_sessionVars
  PROVE  ReloadsInv'
<1>1. CASE UNCHANGED sessionVars
  BY <1>1 DEF sessionVars, ReloadsInv, SessionTypeOK
<1>2. QED
  BY <1>1, AroundThePage, OnThePage DEF SessionNext

\* ReloadsBounded, with the types of the session: whatever expires, is refused
\* or changes behind it, the app has reloaded itself at most once for every
\* page the user has opened.
THEOREM ReloadsAreBounded == SessionSpec => [](SessionTypeOK /\ ReloadsBounded)
<1>1. ReloadsInv => SessionTypeOK /\ ReloadsBounded
  BY DEF ReloadsInv, ReloadsBounded, SessionTypeOK
<1>2. QED
  BY ReloadsInitially, StepReloads, <1>1, PTL DEF SessionSpec
-----------------------------------------------------------------------------
(* The ERP.                                                                *)

\* A call the backend has still to see, or to see again, has not run.
Unrun(c) == /\ c.ran <= 1
            /\ c.at \in {"sent", "refused", "again"} => c.ran = 0

\* A call that carries no erp_refresh brings no new erp_token back.
Unrenewed(c) == c.renew = 0 /\ c.at # "again" /\ c.sets = 0

\* The token that logout() may leave behind only grows older: with the refresh
\* token gone, no call under way can renew it.
GoneInv ==
  /\ left <= clock
  /\ leaving = "cleared" => renewal = 0
  /\ left >= 0 => /\ renewal = 0
                  /\ access = 0 \/ access + left <= AccessTime
                  /\ \A s \in Senders : calls[s] # NoSend => Unrenewed(calls[s])

ErpInv ==
  /\ ErpTypeOK
  /\ \A s \in Senders : calls[s] # NoSend => Unrun(calls[s])
  /\ GoneInv

LEMMA ErpInitially == ErpInit => ErpInv
<1> SUFFICES ASSUME ErpInit PROVE ErpInv
  OBVIOUS
<1>1. ErpTypeOK
  <2>1. known \in BOOLEAN /\ bossActive \in BOOLEAN
    BY Zenon DEF ErpInit
  <2>2. asked \in [Checks -> {"none", "with", "without"}]
    BY DEF ErpInit, NotAsked
  <2>3. calls \in [Senders -> {NoSend} \cup Sends]
    BY DEF ErpInit, NotSent
  <2>4. QED
    BY <2>1, <2>2, <2>3, ErpAssumption DEF ErpInit, ErpTypeOK
<1>2. \A s \in Senders : calls[s] = NoSend
  BY DEF ErpInit, NotSent
<1>3. QED
  BY <1>1, <1>2 DEF ErpInit, ErpInv, GoneInv

\* The calls stay as they are or go one by one, and the cookies with them: what
\* is left to show of a step that opens a page, asks or is told who is there.
LEMMA TypeOfCalls ==
  ASSUME ErpInv, NEW s \in Senders
  PROVE  calls[s] = NoSend \/ (calls[s] \in Sends /\ Unrun(calls[s]))
BY DEF ErpInv, ErpTypeOK

\* One call goes on, and at most a request fails besides (Backend, Refresh, Again).
LEMMA OneCallMoves ==
  ASSUME ErpInv, NEW s \in Senders, NEW c \in Sends,
         calls' = [calls EXCEPT ![s] = c],
         Unrun(c), left >= 0 => Unrenewed(c),
         broken' \in 0..MaxBroken, UNCHANGED <<clock, bossActive, cookies, screen, leaving>>
  PROVE  ErpInv'
<1>1. ErpTypeOK'
  BY DEF ErpInv, ErpTypeOK, cookies, screen
<1>2. ASSUME NEW u \in Senders, calls'[u] # NoSend
      PROVE  Unrun(calls'[u]) /\ (left >= 0 => Unrenewed(calls'[u]))
  <2>1. calls'[u] = IF u = s THEN c ELSE calls[u]
    BY DEF ErpInv, ErpTypeOK
  <2>2. QED
    BY <1>2, <2>1 DEF ErpInv, GoneInv
<1>3. GoneInv'
  BY <1>2 DEF ErpInv, GoneInv, cookies, screen
<1>4. QED
  BY <1>1, <1>2, <1>3 DEF ErpInv

\* What Moves keeps of a call.
LEMMA MovedCall ==
  ASSUME NEW s \in Senders, NEW c \in Sends, Moves(s, c), Unrun(c)
  PROVE  \E d \in Sends :
           /\ calls' = [calls EXCEPT ![s] = d]
           /\ Unrun(d)
           /\ c.at # "again" /\ c.sets = 0 /\ c.renew = 0 => Unrenewed(d)
<1> DEFINE token == IF c.at = "again" THEN c.token ELSE 0
           renew == IF c.at = "refused" THEN c.renew ELSE 0
           d == [c EXCEPT !.token = token, !.renew = renew]
<1>1. token \in 0..AccessTime /\ renew \in 0..RefreshTime
  BY ErpAssumption DEF Sends
<1>2. calls' = [calls EXCEPT ![s] = d]
  BY DEF Moves
<1>3. c.renew = 0 => renew = 0
  OBVIOUS
<1> HIDE DEF token, renew
<1>4. d \in Sends
  BY <1>1 DEF Sends
<1>5. d.at = c.at /\ d.ran = c.ran /\ d.sets = c.sets /\ d.renew = renew
  BY DEF Sends
<1> HIDE DEF d
<1>6. QED
  BY <1>2, <1>3, <1>4, <1>5 DEF Unrun, Unrenewed

\* A call that passes the guard runs; one that does not is refused.
LEMMA CarriedCall ==
  ASSUME NEW c \in Sends, c.ran = 0
  PROVE  /\ Carried(c, "answered") \in Sends
         /\ Unrun(Carried(c, "answered"))
         /\ Carried(c, "answered").at \in {"answered", "refused"}
         /\ Carried(c, "answered").sets = c.sets
         /\ Carried(c, "answered").renew = c.renew
<1>1. CASE c.token > 0 /\ bossActive
  <2> DEFINE b == [c EXCEPT !.at = "answered"]
             d == [b EXCEPT !.ran = 1]
  <2>1. Carried(c, "answered") = d
    BY <1>1 DEF Carried, Sends
  <2>2. b \in Sends /\ b.at = "answered" /\ b.sets = c.sets /\ b.renew = c.renew
    BY DEF Sends, Stages
  <2> HIDE DEF b
  <2>3. d \in Sends /\ d.at = b.at /\ d.ran = 1 /\ d.sets = b.sets /\ d.renew = b.renew
    BY <2>2 DEF Sends
  <2> HIDE DEF d
  <2>4. QED
    BY <2>1, <2>2, <2>3 DEF Unrun
<1>2. CASE ~(c.token > 0 /\ bossActive)
  <2>1. Carried(c, "answered") = [c EXCEPT !.at = "refused"]
    BY <1>2 DEF Carried
  <2>2. [c EXCEPT !.at = "refused"] \in Sends
    BY DEF Sends, Stages
  <2>3. QED
    BY <2>1, <2>2 DEF Sends, Unrun
<1>3. QED
  BY <1>1, <1>2

\* The proxy and the backend behind it.
LEMMA ProxySteps ==
  ASSUME ErpInv, NEW s \in Senders, Backend(s) \/ Refresh(s) \/ Again(s)
  PROVE  ErpInv'
<1>1. calls[s] \in Sends /\ Unrun(calls[s]) /\ (left >= 0 => Unrenewed(calls[s]))
  BY TypeOfCalls DEF Backend, Refresh, Again, At, ErpInv, GoneInv
<1>2. \E c \in Sends : Moves(s, c) /\ Unrun(c)
                       /\ (left >= 0 => c.at # "again" /\ c.sets = 0 /\ c.renew = 0)
  <2>1. CASE Backend(s)
    BY <1>1, <2>1, CarriedCall DEF Backend, At, Unrun, Unrenewed
  <2>2. CASE Refresh(s)
    <3>1. CASE Moves(s, [calls[s] EXCEPT !.at = "again", !.token = AccessTime])
               /\ calls[s].renew > 0
      <4> DEFINE c == [calls[s] EXCEPT !.at = "again", !.token = AccessTime]
      <4>1. c \in Sends /\ c.at = "again" /\ c.ran = calls[s].ran
        <5>1. AccessTime \in 0..AccessTime
          BY ErpAssumption
        <5>2. QED
          BY <1>1, <5>1 DEF Sends, Stages
      <4>2. ~(left >= 0)
        BY <1>1, <3>1 DEF Unrenewed
      <4>3. Moves(s, c)
        BY <3>1
      <4> HIDE DEF c
      <4>4. QED
        BY <1>1, <2>2, <4>1, <4>2, <4>3 DEF Refresh, At, Unrun
    <3>2. CASE Moves(s, [calls[s] EXCEPT !.at = "401"])
      <4> DEFINE c == [calls[s] EXCEPT !.at = "401"]
      <4>1. c \in Sends /\ c.at = "401" /\ c.ran = calls[s].ran
            /\ c.sets = calls[s].sets /\ c.renew = calls[s].renew
        BY <1>1 DEF Sends, Stages
      <4>2. Moves(s, c)
        BY <3>2
      <4> HIDE DEF c
      <4>3. QED
        BY <1>1, <4>1, <4>2 DEF Unrun, Unrenewed
    <3>3. QED
      BY <2>2, <3>1, <3>2 DEF Refresh
  <2>3. CASE Again(s)
    <3> DEFINE c == [calls[s] EXCEPT !.sets = calls[s].token]
               a == Carried(c, "answered")
    <3>1. c \in Sends /\ c.ran = 0
      BY <1>1, <2>3 DEF Again, At, Sends, Unrun
    <3>2. ~(left >= 0)
      BY <1>1, <2>3 DEF Again, At, Unrenewed
    <3>3. CASE s = "write"
      <4> DEFINE d == [calls[s] EXCEPT !.at = "answered"]
      <4>1. d \in Sends /\ d.at = "answered" /\ d.ran = calls[s].ran
        BY <1>1 DEF Sends, Stages
      <4>2. Moves(s, d)
        BY <2>3, <3>3 DEF Again
      <4> HIDE DEF d
      <4>3. QED
        BY <1>1, <3>2, <4>1, <4>2 DEF Unrun
    <3>4. CASE s # "write"
      <4>1. a \in Sends /\ Unrun(a)
        <5> HIDE DEF c
        <5>1. QED
          BY <3>1, CarriedCall
      <4>2. Moves(s, IF a.at = "refused" THEN [a EXCEPT !.at = "401"] ELSE a)
        BY <2>3, <3>4 DEF Again
      <4> HIDE DEF a
      <4>3. /\ [a EXCEPT !.at = "401"] \in Sends
            /\ [a EXCEPT !.at = "401"].at = "401" /\ [a EXCEPT !.at = "401"].ran = a.ran
        BY <4>1 DEF Sends, Stages
      <4>4. QED
        BY <3>2, <4>1, <4>2, <4>3 DEF Unrun
    <3>5. QED
      BY <3>3, <3>4
  <2>4. QED
    BY <2>1, <2>2, <2>3
<1>3. PICK c \in Sends : Moves(s, c) /\ Unrun(c)
                         /\ (left >= 0 => c.at # "again" /\ c.sets = 0 /\ c.renew = 0)
  BY <1>2
<1>4. PICK d \in Sends : /\ calls' = [calls EXCEPT ![s] = d]
                         /\ Unrun(d)
                         /\ c.at # "again" /\ c.sets = 0 /\ c.renew = 0 => Unrenewed(d)
  BY <1>3, MovedCall
<1>5. broken' \in 0..MaxBroken /\ UNCHANGED <<clock, bossActive, cookies, screen, leaving>>
  BY ErpAssumption DEF Backend, Refresh, Again, Breaks, around, ErpInv, ErpTypeOK
<1>6. QED
  BY <1>3, <1>4, <1>5, OneCallMoves

\* api(): a call takes the cookies as they are.
LEMMA SendStep ==
  ASSUME ErpInv, NEW s \in Senders, Send(s)
  PROVE  ErpInv'
<1> DEFINE c == [at |-> "sent", token |-> access, renew |-> renewal, sets |-> 0, ran |-> 0]
<1>1. c \in Sends
  BY ErpAssumption DEF ErpInv, ErpTypeOK, Sends, Stages
<1>2. Unrun(c) /\ (left >= 0 => Unrenewed(c))
  BY DEF ErpInv, GoneInv, Unrun, Unrenewed
<1>3. /\ calls' = [calls EXCEPT ![s] = c]
      /\ broken' \in 0..MaxBroken /\ UNCHANGED <<clock, bossActive, cookies, screen, leaving>>
  BY DEF Send, around, ErpInv, ErpTypeOK
<1> HIDE DEF c
<1>4. QED
  BY <1>1, <1>2, <1>3, OneCallMoves

\* An answer, or its loss, takes the call away, and may set the cookie it brings.
LEMMA AnswerSteps ==
  ASSUME ErpInv, NEW s \in Senders, Answered(s) \/ CallBreaks(s)
  PROVE  ErpInv'
<1>1. calls' = [calls EXCEPT ![s] = NoSend]
  BY DEF Answered, CallBreaks
<1>2. calls[s] \in Sends /\ (left >= 0 => calls[s].sets = 0)
  BY TypeOfCalls DEF Answered, CallBreaks, ErpInv, GoneInv, Unrenewed
<1>3. access' \in 0..AccessTime /\ (left >= 0 => access' = access)
  BY <1>2 DEF Answered, CallBreaks, cookies, ErpInv, ErpTypeOK, Sends
<1>4. ASSUME NEW u \in Senders, calls'[u] # NoSend
      PROVE  calls'[u] = calls[u] /\ calls[u] # NoSend
  BY <1>1, <1>4 DEF ErpInv, ErpTypeOK
<1>5. ErpTypeOK'
  <2>1. calls' \in [Senders -> {NoSend} \cup Sends]
    BY <1>1 DEF ErpInv, ErpTypeOK
  <2>2. broken' \in 0..MaxBroken /\ clock' \in 0..MaxClock
    BY ErpAssumption DEF Answered, CallBreaks, Breaks, around, ErpInv, ErpTypeOK
  <2>3. UNCHANGED <<bossActive, renewal, left, screen>>
        /\ leaving' \in {leaving, "sent"}
    BY DEF Answered, CallBreaks, Breaks, around, cookies
  <2>4. QED
    BY <1>3, <2>1, <2>2, <2>3 DEF screen, ErpInv, ErpTypeOK
<1>6. GoneInv'
  <2>1. left' = left /\ renewal' = renewal /\ clock' = clock
        /\ (leaving' = "cleared" => leaving = "cleared")
    BY DEF Answered, CallBreaks, Breaks, around, cookies
  <2>2. QED
    BY <1>3, <1>4, <2>1 DEF ErpInv, GoneInv
<1>7. QED
  BY <1>4, <1>5, <1>6 DEF ErpInv

\* A tick makes every cookie and token older, those under way too.
LEMMA TickStep ==
  ASSUME ErpInv, Ticks
  PROVE  ErpInv'
<1>1. \A k \in Nat : Less(k) \in Nat /\ Less(k) <= k /\ (k > 0 => Less(k) = k - 1)
  BY DEF Less
<1>2. /\ clock < MaxClock /\ clock' = clock + 1
      /\ access' = Less(access) /\ renewal' = Less(renewal)
      /\ left' = IF left >= 0 THEN left + 1 ELSE left
      /\ UNCHANGED <<broken, bossActive, screen, leaving>>
  BY Zenon DEF Ticks
<1>3. /\ access' \in 0..AccessTime /\ renewal' \in 0..RefreshTime
      /\ clock' \in 0..MaxClock /\ left' \in -1..MaxClock
  BY <1>1, <1>2, ErpAssumption DEF ErpInv, ErpTypeOK, GoneInv
<1>4. ASSUME NEW s \in Senders
      PROVE  \/ calls[s] = NoSend /\ calls'[s] = NoSend
             \/ /\ calls[s] # NoSend
                /\ calls'[s] \in Sends
                /\ Unrun(calls'[s])
                /\ Unrenewed(calls[s]) => Unrenewed(calls'[s])
  <2>1. CASE calls[s] = NoSend
    BY <2>1 DEF Ticks
  <2>2. CASE calls[s] # NoSend
    <3> DEFINE c == calls[s]
               token == Less(c.token)
               renew == Less(c.renew)
               sets == Less(c.sets)
               a == [c EXCEPT !.token = token]
               b == [a EXCEPT !.renew = renew]
               d == [b EXCEPT !.sets = sets]
    <3>1. calls'[s] = d
      BY <2>2 DEF Ticks
    <3>2. c \in Sends /\ Unrun(c)
      BY <2>2, TypeOfCalls
    <3>3. /\ token \in 0..AccessTime /\ renew \in 0..RefreshTime /\ sets \in 0..AccessTime
          /\ c.renew = 0 => renew = 0
          /\ c.sets = 0 => sets = 0
      BY <3>2, ErpAssumption DEF Sends, Less
    <3> HIDE DEF c, token, renew, sets
    <3>4. a \in Sends /\ a.at = c.at /\ a.ran = c.ran
      BY <3>2, <3>3 DEF Sends
    <3> HIDE DEF a
    <3>5. b \in Sends /\ b.at = a.at /\ b.ran = a.ran /\ b.renew = renew
      BY <3>3, <3>4 DEF Sends
    <3> HIDE DEF b
    <3>6. d \in Sends /\ d.at = b.at /\ d.ran = b.ran /\ d.renew = b.renew /\ d.sets = sets
      BY <3>3, <3>5 DEF Sends
    <3> HIDE DEF d
    <3>7. Unrun(d) /\ (Unrenewed(c) => Unrenewed(d))
      BY <3>2, <3>3, <3>4, <3>5, <3>6 DEF Unrun, Unrenewed
    <3>8. QED
      BY <2>2, <3>1, <3>6, <3>7 DEF c
  <2>3. QED
    BY <2>1, <2>2
<1>5. calls' \in [Senders -> {NoSend} \cup Sends]
  BY <1>4 DEF Ticks
<1>6. ErpTypeOK'
  BY <1>2, <1>3, <1>5 DEF screen, ErpInv, ErpTypeOK
<1>7. GoneInv'
  <2>1. left' <= clock'
    BY <1>2 DEF ErpInv, ErpTypeOK, GoneInv
  <2>2. leaving' = "cleared" => renewal' = 0
    BY <1>2 DEF ErpInv, GoneInv, Less
  <2>3. ASSUME left' >= 0
        PROVE  /\ renewal' = 0
               /\ access' = 0 \/ access' + left' <= AccessTime
               /\ \A s \in Senders : calls'[s] # NoSend => Unrenewed(calls'[s])
    <3>1. left >= 0 /\ left' = left + 1
      BY <1>2, <2>3 DEF ErpInv, ErpTypeOK
    <3>2. renewal' = 0 /\ (access' = 0 \/ access' + left' <= AccessTime)
      BY <1>2, <3>1, ErpAssumption DEF ErpInv, ErpTypeOK, GoneInv, Less
    <3>3. QED
      BY <1>4, <3>1, <3>2 DEF ErpInv, GoneInv
  <2>4. QED
    BY <2>1, <2>2, <2>3 DEF GoneInv
<1>8. QED
  BY <1>4, <1>6, <1>7 DEF ErpInv

\* What useAuth and the boss do, and the account: the calls stay, and of the
\* cookies none appears.
LEMMA ScreenSteps ==
  ASSUME ErpInv,
         \/ BossDeactivated \/ StatusAnswered \/ MeAnswered
         \/ PressLogout \/ LogoutAnswered \/ LogoutBreaks
         \/ \E protected \in BOOLEAN : Visit(protected)
  PROVE  ErpInv'
<1>1. /\ UNCHANGED <<calls, left, clock>>
      /\ access' \in {0, access} /\ renewal' \in {0, renewal}
      /\ leaving' = "cleared" => renewal' = 0
  BY DEF BossDeactivated, StatusAnswered, MeAnswered, PressLogout, LogoutAnswered, LogoutBreaks,
         Visit, Breaks, around, cookies, screen, ErpInv, GoneInv
<1>2. ErpTypeOK'
  <2>1. broken' \in 0..MaxBroken
    BY ErpAssumption
       DEF BossDeactivated, StatusAnswered, MeAnswered, PressLogout, LogoutAnswered, LogoutBreaks,
           Visit, Breaks, around, ErpInv, ErpTypeOK
  <2>2. /\ front' \in {"login", "page"} /\ authed' \in {"unknown", "yes"}
        /\ leaving' \in {"no", "sent", "cleared"}
    BY DEF BossDeactivated, StatusAnswered, MeAnswered, PressLogout, LogoutAnswered, LogoutBreaks,
           Visit, Breaks, ToLogin, around, cookies, screen, ErpInv, ErpTypeOK
  <2>3. known' \in BOOLEAN /\ bossActive' \in BOOLEAN
    BY Zenon
       DEF BossDeactivated, StatusAnswered, MeAnswered, PressLogout, LogoutAnswered, LogoutBreaks,
           Visit, Breaks, ToLogin, around, cookies, screen, ErpInv, ErpTypeOK
  <2>4. asked' \in [Checks -> {"none", "with", "without"}]
    BY DEF BossDeactivated, StatusAnswered, MeAnswered, PressLogout, LogoutAnswered, LogoutBreaks,
           Visit, Breaks, ToLogin, NotAsked, Cookie, Checks, around, cookies, screen, ErpInv, ErpTypeOK
  <2>5. QED
    BY <1>1, <2>1, <2>2, <2>3, <2>4, ErpAssumption DEF ErpInv, ErpTypeOK
<1>3. GoneInv'
  BY <1>1 DEF ErpInv, ErpTypeOK, GoneInv
<1>4. QED
  BY <1>1, <1>2, <1>3 DEF ErpInv

\* A page that is unloaded takes its calls with it (HardLoad, Leave).
LEMMA LoadSteps ==
  ASSUME ErpInv, Leave \/ \E protected \in BOOLEAN : HardLoad(protected)
  PROVE  ErpInv'
<1>1. /\ calls' = NotSent /\ leaving' = "no"
      /\ left' = IF leaving = "cleared" THEN 0 ELSE left
      /\ UNCHANGED <<access, renewal, clock, broken, bossActive>>
  BY DEF Leave, HardLoad, Left, around
<1>2. \A s \in Senders : calls'[s] = NoSend
  BY <1>1 DEF NotSent
<1>3. ErpTypeOK'
  <2>1. calls' \in [Senders -> {NoSend} \cup Sends]
    BY <1>1 DEF NotSent
  <2>2. left' \in -1..MaxClock
    BY <1>1, ErpAssumption DEF ErpInv, ErpTypeOK
  <2>3. front' \in {"login", "page"} /\ authed' \in {"unknown", "yes"}
    BY DEF Leave, HardLoad, Opens, ToLogin, ToPage
  <2>4. known' \in BOOLEAN
    BY Zenon DEF Leave, HardLoad, Opens, ToLogin, ToPage
  <2>5. asked' \in [Checks -> {"none", "with", "without"}]
    BY DEF Leave, HardLoad, Opens, ToLogin, ToPage, NotAsked, Cookie, Checks
  <2>6. QED
    BY <1>1, <2>1, <2>2, <2>3, <2>4, <2>5 DEF ErpInv, ErpTypeOK
<1>4. GoneInv'
  BY <1>1, <1>2, ErpAssumption DEF ErpInv, ErpTypeOK, GoneInv
<1>5. QED
  BY <1>2, <1>3, <1>4 DEF ErpInv

\* POST /api/auth/login.
LEMMA LoginStep ==
  ASSUME ErpInv, Login
  PROVE  ErpInv'
<1>1. ErpTypeOK'
  <2>1. known' \in BOOLEAN /\ bossActive' \in BOOLEAN
    BY Zenon DEF Login, ToPage, around, ErpInv, ErpTypeOK
  <2>2. asked' \in [Checks -> {"none", "with", "without"}]
    BY DEF Login, ToPage, NotAsked, Cookie, Checks
  <2>3. QED
    BY <2>1, <2>2, ErpAssumption DEF Login, ToPage, around, ErpInv, ErpTypeOK
<1>2. GoneInv'
  BY DEF Login, around, ErpInv, ErpTypeOK, GoneInv
<1>3. QED
  BY <1>1, <1>2 DEF Login, ErpInv

LEMMA StepErp ==
  ASSUME ErpInv, [ErpNext]_erpVars
  PROVE  ErpInv'
<1>1. CASE UNCHANGED erpVars
  BY <1>1 DEF erpVars, ErpInv, ErpTypeOK, GoneInv
<1>2. CASE ErpNext
  BY <1>2, TickStep, LoginStep, LoadSteps, ScreenSteps, SendStep, ProxySteps, AnswerSteps
     DEF ErpNext
<1>3. QED
  BY <1>1, <1>2

\* RunsOnce: the proxy's renewal and retry never make the backend carry a call
\* out twice (backend/[...path]/route.ts).
THEOREM CallsRunOnce == ErpSpec => []RunsOnce
<1>1. ErpInv => RunsOnce
  BY DEF ErpInv, RunsOnce, Unrun
<1>2. QED
  BY ErpInitially, StepErp, <1>1, PTL DEF ErpSpec

\* LogoutLasts, with the types: when the token a late answer may leave behind
\* has run out, a session that was logged out has no cookie left, until the
\* next login (logout/route.ts, backend/[...path]/route.ts).
THEOREM LogoutsLast == ErpSpec => [](ErpTypeOK /\ LogoutLasts)
<1>1. ErpInv => ErpTypeOK /\ LogoutLasts
  BY ErpAssumption DEF ErpInv, ErpTypeOK, GoneInv, LogoutLasts
<1>2. QED
  BY ErpInitially, StepErp, <1>1, PTL DEF ErpSpec
-----------------------------------------------------------------------------
(* The rows the ERP keeps: what the pages owe themselves.                  *)

\* A write tells a key.
Told(w, k) == \E p \in w.tells : IsPrefix(p, k)

\* A key whose first names are the prefix is told.
LEMMA PrefixByNames ==
  ASSUME NEW S, NEW s \in Seq(S), NEW t \in Seq(S), Len(s) <= Len(t),
         \A i \in 1..Len(s) : s[i] = t[i]
  PROVE  IsPrefix(s, t)
<1>. DEFINE n == Len(s)
<1>1. n \in Nat /\ \A i \in 1..n : s[i] \in S /\ t[i] \in S
  BY LenProperties, ElementOfSeq
<1>2. /\ SubSeq(s, 1, n) \in Seq(S) /\ SubSeq(t, 1, n) \in Seq(S)
      /\ Len(SubSeq(s, 1, n)) = n /\ Len(SubSeq(t, 1, n)) = n
      /\ \A i \in 1..n : SubSeq(s, 1, n)[i] = s[i] /\ SubSeq(t, 1, n)[i] = t[i]
  BY <1>1, SubSeqProperties
<1>. HIDE DEF n
<1>3. SubSeq(s, 1, n) = SubSeq(t, 1, n)
  BY <1>2, SeqEqual DEF n
<1>4. QED
  BY <1>3 DEF IsPrefix, n

LEMMA PrefixKeys ==
  ASSUME NEW a, NEW b
  PROVE  /\ IsPrefix(<<a>>, <<a>>)
         /\ IsPrefix(<<a>>, <<a, b>>)
         /\ IsPrefix(<<a, b>>, <<a, b>>)
<1>. DEFINE one == <<a>>
            two == <<a, b>>
<1>1. one \in Seq({a, b}) /\ Len(one) = 1 /\ one[1] = a
  OBVIOUS
<1>2. two \in Seq({a, b}) /\ Len(two) = 2 /\ two[1] = a
  OBVIOUS
<1>3. IsPrefix(one, one) /\ IsPrefix(one, two) /\ IsPrefix(two, two)
  <2>. HIDE DEF one, two
  <2>1. \A i \in 1..Len(one) : one[i] = two[i]
    BY <1>1, <1>2
  <2>2. QED
    BY <1>1, <1>2, <2>1, PrefixByNames
<1>4. QED
  BY <1>3

\* The page of a view.
LEMMA PageKinds ==
  ASSUME NEW v \in Views
  PROVE  \/ v = "users" /\ Pages[v] = UsersPage
         \/ v = "userStats" /\ Pages[v] = UserStats
         \/ v = "services" /\ Pages[v] = ServicesPage
         \/ v = "orders" /\ Pages[v] = OrdersPage
         \/ v = "orderDetail" /\ Pages[v] = OrderDetail
         \/ v = "newOrder" /\ Pages[v] = NewOrderDialog
         \/ v = "organizations" /\ Pages[v] = OrganizationsPage
         \/ v = "organization" /\ Pages[v] = OrganizationPage
         \/ v = "products" /\ Pages[v] = ProductsPage
         \/ v = "productForm" /\ Pages[v] = ProductForm
         \/ v = "stockIn" /\ Pages[v] = StockInDialog
         \/ v = "priceHistory" /\ Pages[v] = PriceHistory
         \/ v = "suppliers" /\ Pages[v] = SuppliersPage
         \/ v = "supplier" /\ Pages[v] = SupplierPage
         \/ v = "masters" /\ Pages[v] = MastersPage
         \/ v = "master" /\ Pages[v] = MasterPage
         \/ v = "reports" /\ Pages[v] = ReportsPage
         \/ v = "dashboard" /\ Pages[v] = DashboardPage
         \/ v = "vehicleHistory" /\ Pages[v] = VehicleHistoryPage
         \/ v = "clientHistory" /\ Pages[v] = ClientHistoryPage
BY DEF Views, Pages

LEMMA ThenViews ==
  {"users", "services", "orders", "orderDetail", "organizations", "organization",
   "products", "suppliers", "supplier"} \subseteq Views
BY DEF Views, Pages

LEMMA Tells ==
  ASSUME NEW w, NEW a, NEW b
  PROVE  /\ <<a>> \in w.tells => Told(w, <<a>>) /\ Told(w, <<a, b>>)
         /\ <<a, b>> \in w.tells => Told(w, <<a, b>>)
BY PrefixKeys DEF Told

\* The only rows that a page shows, writes and does not fetch again.
Closes(v, w, k) == v = "stockIn" /\ k = <<"suppliers">> /\ w.then = "products"

\* What the pages owe themselves: a write tells the keys its own page shows and
\* it changes; a status change tells every key of the lists of orders.
Sound(v, w) ==
  /\ w.then \in Views
  /\ \A k \in Pages[v].shows : MadeOf(k) \cap w.changed # {} => Told(w, k) \/ Closes(v, w, k)
  /\ w.optimistic => Told(w, List("orders"))
  /\ w.optimistic => \A k \in Pages[v].shows : k[1] = "orders" => Told(w, k)

\* Every write of a page is sound: the tables above, page by page.
LEMMA PagesSound ==
  ASSUME NEW v \in Views, NEW w \in Pages[v].does
  PROVE  Sound(v, w)
<1>1. CASE v = "users" /\ Pages[v] = UsersPage
  <2>1. /\ w.then = "users" /\ w.changed = {"users"} /\ w.optimistic = FALSE
        /\ w.tells = {<<"users">>}
    BY <1>1 DEF UsersPage, UserForm, Write, Of
  <2>2. \A k \in UsersPage.shows :
          MadeOf(k) \cap {"users"} # {} \/ (w.optimistic /\ k[1] = "orders") =>
            k = <<"users", "page">>
    BY <2>1 DEF UsersPage, List, Of, MasterNames, MadeOf
  <2>3. Told(w, <<"users", "page">>)
    <3>1. <<"users">> \in w.tells
      BY <2>1
    <3>2. QED
      BY <3>1, Tells
  <2>4. QED
    BY <1>1, <2>1, <2>2, <2>3, ThenViews DEF Sound, Closes, List
<1>2. CASE v = "services" /\ Pages[v] = ServicesPage
  <2>1. /\ w.then = "services" /\ w.changed = {"services"} /\ w.optimistic = FALSE
        /\ w.tells = {<<"services">>}
    BY <1>2 DEF ServicesPage, ServiceForm, Write, Of
  <2>2. \A k \in ServicesPage.shows :
          MadeOf(k) \cap {"services"} # {} \/ (w.optimistic /\ k[1] = "orders") =>
            k = <<"services">>
    BY <2>1 DEF ServicesPage, List, Of, MasterNames, MadeOf
  <2>3. Told(w, <<"services">>)
    <3>1. <<"services">> \in w.tells
      BY <2>1
    <3>2. QED
      BY <3>1, Tells
  <2>4. QED
    BY <1>2, <2>1, <2>2, <2>3, ThenViews DEF Sound, Closes, List
<1>3. CASE v = "orders" /\ Pages[v] = OrdersPage
  <2>1. /\ w.then = "orders" /\ w.changed = {"orders"} /\ w.optimistic = TRUE
        /\ w.tells = {<<"orders">>, <<"order">>}
    BY <1>3 DEF OrdersPage, Write, Of
  <2>2. \A k \in OrdersPage.shows :
          MadeOf(k) \cap {"orders"} # {} \/ (w.optimistic /\ k[1] = "orders") =>
            k = <<"orders", "page">>
    BY <2>1 DEF OrdersPage, List, Of, MasterNames, MadeOf
  <2>3. Told(w, <<"orders", "page">>)
    <3>1. <<"orders">> \in w.tells /\ <<"order">> \in w.tells
      BY <2>1
    <3>2. QED
      BY <3>1, Tells
  <2>4. QED
    BY <1>3, <2>1, <2>2, <2>3, ThenViews DEF Sound, Closes, List
<1>4. CASE v = "orderDetail" /\ Pages[v] = OrderDetail
  <2>1. /\ w.then = "orderDetail" /\ w.changed = {"orders"} /\ w.optimistic = FALSE
        /\ w.tells = {<<"order", "id">>, <<"orders">>}
    BY <1>4 DEF OrderDetail, Write, Of
  <2>2. \A k \in OrderDetail.shows :
          MadeOf(k) \cap {"orders"} # {} \/ (w.optimistic /\ k[1] = "orders") =>
            k \in {<<"orders", "page">>, <<"order", "id">>}
    BY <2>1 DEF OrderDetail, List, Of, MasterNames, MadeOf
  <2>3. Told(w, <<"orders", "page">>) /\ Told(w, <<"order", "id">>)
    <3>1. <<"order", "id">> \in w.tells /\ <<"orders">> \in w.tells
      BY <2>1
    <3>2. QED
      BY <3>1, Tells
  <2>4. QED
    BY <1>4, <2>1, <2>2, <2>3, ThenViews DEF Sound, Closes, List
<1>5. CASE v = "newOrder" /\ Pages[v] = NewOrderDialog
  <2>1. /\ w.then = "orders" /\ w.changed = {"orders"} /\ w.optimistic = FALSE
        /\ w.tells = {<<"orders">>}
    BY <1>5 DEF NewOrderDialog, Write, Of
  <2>2. \A k \in NewOrderDialog.shows :
          MadeOf(k) \cap {"orders"} # {} \/ (w.optimistic /\ k[1] = "orders") =>
            k = <<"orders", "page">>
    BY <2>1 DEF NewOrderDialog, List, Of, MasterNames, MadeOf
  <2>3. Told(w, <<"orders", "page">>)
    <3>1. <<"orders">> \in w.tells
      BY <2>1
    <3>2. QED
      BY <3>1, Tells
  <2>4. QED
    BY <1>5, <2>1, <2>2, <2>3, ThenViews DEF Sound, Closes, List
<1>6. CASE v = "organizations" /\ Pages[v] = OrganizationsPage
  <2>1. /\ w.then = "organizations" /\ w.changed = {"organizations"} /\ w.optimistic = FALSE
        /\ w.tells = {<<"organizations">>}
    BY <1>6 DEF OrganizationsPage, OrgForm, Write, Of
  <2>2. \A k \in OrganizationsPage.shows :
          MadeOf(k) \cap {"organizations"} # {} \/ (w.optimistic /\ k[1] = "orders") =>
            k = <<"organizations", "page">>
    BY <2>1 DEF OrganizationsPage, List, Of, MasterNames, MadeOf
  <2>3. Told(w, <<"organizations", "page">>)
    <3>1. <<"organizations">> \in w.tells
      BY <2>1
    <3>2. QED
      BY <3>1, Tells
  <2>4. QED
    BY <1>6, <2>1, <2>2, <2>3, ThenViews DEF Sound, Closes, List
<1>7. CASE v = "organization" /\ Pages[v] = OrganizationPage
  <2>1. /\ w.then = "organization" /\ w.changed \subseteq {"vehicles", "organizations"}
        /\ w.optimistic = FALSE /\ w.tells = OrganizationKeys
    BY <1>7 DEF OrganizationPage, AddVehicleDialog, EditOrgDialog, PaymentDialog, Write
  <2>2. \A k \in OrganizationPage.shows :
          MadeOf(k) \cap w.changed # {} \/ (w.optimistic /\ k[1] = "orders") =>
            k \in {<<"organization", "id">>, <<"organization-vehicles", "id">>}
    BY <2>1 DEF OrganizationPage, OrganizationKeys, List, Of, MasterNames, MadeOf
  <2>3. Told(w, <<"organization", "id">>) /\ Told(w, <<"organization-vehicles", "id">>)
    <3>1. <<"organization", "id">> \in w.tells /\ <<"organization-vehicles", "id">> \in w.tells
      BY <2>1 DEF OrganizationKeys, Of
    <3>2. QED
      BY <3>1, Tells
  <2>4. QED
    BY <1>7, <2>1, <2>2, <2>3, ThenViews DEF Sound, Closes, List
<1>8. CASE v = "products" /\ Pages[v] = ProductsPage
  <2>1. /\ w.then = "products" /\ w.changed = {"products"} /\ w.optimistic = FALSE
        /\ w.tells = {<<"products">>}
    BY <1>8 DEF ProductsPage, Write, Of
  <2>2. \A k \in ProductsPage.shows :
          MadeOf(k) \cap {"products"} # {} \/ (w.optimistic /\ k[1] = "orders") =>
            k = <<"products", "page">>
    BY <2>1 DEF ProductsPage, List, Of, MasterNames, MadeOf
  <2>3. Told(w, <<"products", "page">>)
    <3>1. <<"products">> \in w.tells
      BY <2>1
    <3>2. QED
      BY <3>1, Tells
  <2>4. QED
    BY <1>8, <2>1, <2>2, <2>3, ThenViews DEF Sound, Closes, List
<1>9. CASE v = "productForm" /\ Pages[v] = ProductForm
  <2>1. /\ w.then = "products" /\ w.changed = {"products", "prices"} /\ w.optimistic = FALSE
        /\ w.tells = {<<"products">>}
    BY <1>9 DEF ProductForm, Write, Of
  <2>2. \A k \in ProductForm.shows :
          MadeOf(k) \cap {"products", "prices"} # {} \/ (w.optimistic /\ k[1] = "orders") =>
            k = <<"products", "page">>
    BY <2>1 DEF ProductForm, List, Of, MasterNames, MadeOf
  <2>3. Told(w, <<"products", "page">>)
    <3>1. <<"products">> \in w.tells
      BY <2>1
    <3>2. QED
      BY <3>1, Tells
  <2>4. QED
    BY <1>9, <2>1, <2>2, <2>3, ThenViews DEF Sound, Closes, List
<1>10. CASE v = "stockIn" /\ Pages[v] = StockInDialog
  <2>1. /\ w.then = "products" /\ w.changed = {"products", "debts"} /\ w.optimistic = FALSE
        /\ w.tells = {<<"products">>}
    BY <1>10 DEF StockInDialog, Write, Of
  <2>2. \A k \in StockInDialog.shows :
          MadeOf(k) \cap {"products", "debts"} # {} \/ (w.optimistic /\ k[1] = "orders") =>
            k \in {<<"products", "page">>, <<"suppliers">>}
    BY <2>1 DEF StockInDialog, List, Of, MasterNames, MadeOf
  <2>3. Told(w, <<"products", "page">>)
    <3>1. <<"products">> \in w.tells
      BY <2>1
    <3>2. QED
      BY <3>1, Tells
  <2>4. QED
    BY <1>10, <2>1, <2>2, <2>3, ThenViews DEF Sound, Closes, List
<1>11. CASE v = "suppliers" /\ Pages[v] = SuppliersPage
  <2>1. /\ w.then = "suppliers" /\ w.changed = {"suppliers"} /\ w.optimistic = FALSE
        /\ w.tells = {<<"suppliers">>, <<"suppliers", "debt-summary">>}
    BY <1>11 DEF SuppliersPage, SupplierForm, Write, Of
  <2>2. \A k \in SuppliersPage.shows :
          MadeOf(k) \cap {"suppliers"} # {} \/ (w.optimistic /\ k[1] = "orders") =>
            k \in {<<"suppliers">>, <<"suppliers", "debt-summary">>}
    BY <2>1 DEF SuppliersPage, List, Of, MasterNames, MadeOf
  <2>3. Told(w, <<"suppliers">>) /\ Told(w, <<"suppliers", "debt-summary">>)
    <3>1. <<"suppliers">> \in w.tells /\ <<"suppliers", "debt-summary">> \in w.tells
      BY <2>1
    <3>2. QED
      BY <3>1, Tells
  <2>4. QED
    BY <1>11, <2>1, <2>2, <2>3, ThenViews DEF Sound, Closes, List
<1>12. CASE v = "supplier" /\ Pages[v] = SupplierPage
  <2>1. /\ w.then = "supplier" /\ w.changed = {"debts"} /\ w.optimistic = FALSE
        /\ w.tells = {<<"supplier", "id">>, <<"suppliers">>}
    BY <1>12 DEF SupplierPage, PaymentForm, Write, Of
  <2>2. \A k \in SupplierPage.shows :
          MadeOf(k) \cap {"debts"} # {} \/ (w.optimistic /\ k[1] = "orders") =>
            k = <<"supplier", "id">>
    BY <2>1 DEF SupplierPage, List, Of, MasterNames, MadeOf
  <2>3. Told(w, <<"supplier", "id">>)
    <3>1. <<"supplier", "id">> \in w.tells /\ <<"suppliers">> \in w.tells
      BY <2>1
    <3>2. QED
      BY <3>1, Tells
  <2>4. QED
    BY <1>12, <2>1, <2>2, <2>3, ThenViews DEF Sound, Closes, List
<1>13. CASE Pages[v].does = {}
  BY <1>13
<1>14. QED
  BY <1>1, <1>2, <1>3, <1>4, <1>5, <1>6, <1>7, <1>8, <1>9, <1>10, <1>11, <1>12, <1>13, PageKinds
     DEF UserStats, PriceHistory, MastersPage, MasterPage, ReportsPage, DashboardPage,
         VehicleHistoryPage, ClientHistoryPage

\* The dialog for a delivery is the only page over the products with this list.
LEMMA OnlyStockIn ==
  /\ \A v \in Views :
       On(v) = "products" /\ <<"suppliers">> \in Pages[v].shows => v = "stockIn"
  /\ <<"suppliers">> \notin Pages["products"].shows
  /\ On("stockIn") = "products"
<1>1. ASSUME NEW v \in Views, On(v) = "products"
      PROVE  v \in {"products", "productForm", "stockIn", "priceHistory"}
  BY <1>1 DEF On
<1>2. /\ Pages["products"] = ProductsPage
      /\ Pages["productForm"] = ProductForm
      /\ Pages["priceHistory"] = PriceHistory
  BY DEF Pages
<1>3. /\ <<"suppliers">> \notin ProductsPage.shows
      /\ <<"suppliers">> \notin ProductForm.shows
      /\ <<"suppliers">> \notin PriceHistory.shows
  BY DEF ProductsPage, ProductForm, PriceHistory, List
<1>4. On("stockIn") = "products"
  BY DEF On
<1>5. QED
  BY <1>1, <1>2, <1>3, <1>4

\* The answer of the write on its way gets the right rows, or takes the wrong
\* ones off the screen.
Remedied ==
  /\ write # NoWrite
  /\ \/ Told(write.what, key)
     \/ view = write.from /\ Closes(view, write.what, key)

\* Wrong rows are in front, and what the write on its way was begun on.
CacheInv ==
  /\ CacheTypeOK
  /\ write # NoWrite => write.what \in Pages[write.from].does
  /\ owed =>
       /\ Mounted
       /\ row # "none"
       /\ write # NoWrite => key \in Pages[write.from].shows /\ On(view) = On(write.from)
       /\ fetch \in {"asked", "good"} \/ Remedied

\* A write of the page in front.
LEMMA WriteFields ==
  ASSUME CacheInv, write # NoWrite
  PROVE  /\ write.from \in Views
         /\ write.what \in Pages[write.from].does
         /\ write.what.then \in Views
         /\ write.at \in {"sent", "done"}
         /\ Sound(write.from, write.what)
<1>1. write.from \in Views /\ write.what \in Pages[write.from].does
      /\ write.at \in {"sent", "done"}
  BY DEF CacheInv, CacheTypeOK
<1>2. Sound(write.from, write.what)
  BY <1>1, PagesSound
<1>3. QED
  BY <1>1, <1>2 DEF Sound

LEMMA ObservedStep ==
  ASSUME CacheInv, NEW v \in Views, NEW f \in BOOLEAN, Observed(v, f),
         visits < MaxVisits, visits' = visits + 1,
         UNCHANGED <<key, row, marked, fresh, write, writes, errors>>
  PROVE  CacheInv'
<1>1. CacheTypeOK'
  BY CacheAssumption DEF CacheInv, CacheTypeOK, Observed
<1>2. ASSUME owed'
      PROVE  /\ Mounted' /\ row' # "none"
             /\ write' # NoWrite =>
                  key \in Pages[write.from].shows /\ On(view') = On(write.from)
             /\ fetch' \in {"asked", "good"} \/ Remedied'
  <2>1. owed /\ f /\ key \in Pages[v].shows /\ Mounted /\ On(v) = On(view)
    BY <1>2 DEF Observed
  <2>2. Mounted' /\ row' # "none"
    BY <2>1 DEF Observed, Mounted, CacheInv
  <2>3. fetch \in {"asked", "good"} => fetch' \in {"asked", "good"}
    BY DEF Observed
  <2>4. Remedied => Remedied'
    <3>1. CASE write # NoWrite /\ Told(write.what, key)
      BY <3>1 DEF Remedied, Told
    <3>2. CASE view = write.from /\ Closes(view, write.what, key)
      <4>1. v = view
        BY <2>1, <3>2, OnlyStockIn DEF Closes
      <4>2. QED
        BY <4>1 DEF Remedied, Told, Closes, Observed
    <3>3. QED
      BY <3>1, <3>2 DEF Remedied
  <2>5. QED
    BY <2>1, <2>2, <2>3, <2>4 DEF CacheInv, Observed
<1>3. QED
  BY <1>1, <1>2 DEF CacheInv

\* Visits and Filters.
LEMMA BossLooks ==
  ASSUME CacheInv, (\E v \in Views : Visits(v)) \/ Filters
  PROVE  CacheInv'
<1>1. view \in Views /\ inFront \in BOOLEAN /\ (~inFront) \in BOOLEAN
  BY DEF CacheInv, CacheTypeOK
<1>2. ASSUME NEW v \in Views, Visits(v) PROVE CacheInv'
  BY <1>1, <1>2, ObservedStep DEF Visits
<1>3. ASSUME Filters PROVE CacheInv'
  BY <1>1, <1>3, ObservedStep DEF Filters
<1>4. QED
  BY <1>2, <1>3

LEMMA BossWritesRows ==
  ASSUME CacheInv, NEW w \in Writes, Writing(w)
  PROVE  CacheInv'
<1>1. /\ view \in Views /\ w \in Pages[view].does
      /\ write' = [at |-> "sent", what |-> w, from |-> view]
  BY DEF CacheInv, CacheTypeOK, Writing
<1>2. /\ write' \in [at : {"sent", "done"}, what : Writes, from : Views]
      /\ write'.what = w /\ write'.from = view /\ write'.at = "sent"
  BY <1>1
<1>3. CacheTypeOK'
  BY <1>2, CacheAssumption DEF CacheInv, CacheTypeOK, Writing
<1>4. write' # NoWrite
  BY <1>2 DEF NoWrite
<1>5. ASSUME owed' PROVE fetch' \in {"asked", "good"} \/ Remedied'
  <2>1. owed /\ fetch \in {"asked", "good"} /\ key \in Pages[view].shows
    BY <1>5 DEF Writing, CacheInv, Remedied, Mounted
  <2>2. CASE w.optimistic /\ key[1] = "orders"
    <3>1. Told(w, key)
      BY <1>1, <2>1, <2>2, PagesSound DEF Sound
    <3>2. QED
      BY <1>2, <1>4, <3>1 DEF Remedied, Told, Writing
  <2>3. CASE ~(w.optimistic /\ key[1] = "orders")
    BY <2>1, <2>3 DEF Writing
  <2>4. QED
    BY <2>2, <2>3
<1>6. owed' => Mounted' /\ row' # "none" /\ key' \in Pages[write'.from].shows
               /\ On(view') = On(write'.from)
  BY <1>2 DEF Writing, CacheInv, Mounted
<1>7. QED
  BY <1>1, <1>2, <1>3, <1>5, <1>6 DEF CacheInv, Writing

\* The table of a key the page in front shows tells it, or the dialog closes.
LEMMA LandsStep ==
  ASSUME CacheInv, WriteLands
  PROVE  CacheInv'
<1>1. /\ write.from \in Views /\ write.what \in Pages[write.from].does
      /\ Sound(write.from, write.what) /\ write # NoWrite /\ write.at = "sent"
  BY WriteFields DEF WriteLands
<1>2. write \in [at : {"sent", "done"}, what : Writes, from : Views]
  BY <1>1 DEF CacheInv, CacheTypeOK
<1>3. /\ write' \in [at : {"sent", "done"}, what : Writes, from : Views]
      /\ write'.what = write.what /\ write'.from = write.from /\ write'.at = "done"
  BY <1>2 DEF WriteLands
<1>4. write' # NoWrite
  BY <1>3 DEF NoWrite
<1>5. /\ row' \in {row, Behind(row)} /\ fetch' \in {fetch, Behind(fetch)}
      /\ UNCHANGED <<key, view, inFront, marked, fresh, counts>>
      /\ row # "none" => row' # "none"
      /\ owed' \in BOOLEAN
  BY DEF WriteLands, Behind, CacheInv, CacheTypeOK
<1>6. CacheTypeOK'
  BY <1>3, <1>5 DEF CacheInv, CacheTypeOK, Behind, Rows, counts
<1>7. ASSUME owed'
      PROVE  /\ Mounted /\ row # "none"
             /\ key \in Pages[write.from].shows /\ On(view) = On(write.from)
             /\ fetch' \in {"asked", "good"} \/ Remedied'
  <2>1. /\ Mounted /\ row # "none"
        /\ key \in Pages[write.from].shows /\ On(view) = On(write.from)
    BY <1>1, <1>7 DEF WriteLands, CacheInv
  <2>2. CASE MadeOf(key) \cap write.what.changed # {}
    <3>1. Told(write.what, key) \/ Closes(write.from, write.what, key)
      BY <1>1, <2>1, <2>2 DEF Sound
    <3>2. Closes(write.from, write.what, key) => view = write.from
      BY <2>1, OnlyStockIn DEF Closes, CacheInv, CacheTypeOK, Mounted
    <3>3. Remedied'
      BY <1>3, <1>4, <1>5, <3>1, <3>2 DEF Remedied, Told, Closes
    <3>4. QED
      BY <2>1, <3>3
  <2>3. CASE MadeOf(key) \cap write.what.changed = {}
    <3>1. fetch' = fetch /\ owed
      BY <1>7, <2>3 DEF WriteLands
    <3>2. Remedied => Remedied'
      BY <1>3, <1>4, <1>5 DEF Remedied, Told, Closes
    <3>3. QED
      BY <2>1, <3>1, <3>2 DEF CacheInv
  <2>4. QED
    BY <2>2, <2>3
<1>8. QED
  BY <1>1, <1>3, <1>5, <1>6, <1>7 DEF CacheInv, Mounted

LEMMA AnsweredStep ==
  ASSUME CacheInv, WriteAnswered
  PROVE  CacheInv'
<1>. DEFINE then == IF view = write.from THEN write.what.then ELSE view
<1>1. write # NoWrite /\ write.what.then \in Views /\ then \in Views /\ view' = then
  BY WriteFields DEF WriteAnswered, CacheInv, CacheTypeOK
<1>. HIDE DEF then
<1>2. /\ owed' = (owed /\ inFront /\ key \in Pages[then].shows /\ On(then) = On(view))
      /\ write' = NoWrite
      /\ UNCHANGED <<key, inFront, row, fresh, counts>>
  BY DEF WriteAnswered, then
<1>3. /\ marked' = (marked \/ Told(write.what, key))
      /\ fetch' = IF /\ Told(write.what, key)
                     /\ inFront /\ key \in Pages[then].shows
                     /\ fetch = "none" \/ row # "none"
                  THEN "asked" ELSE fetch
  BY DEF WriteAnswered, Invalidated, Told, then
<1>4. CacheTypeOK'
  BY <1>1, <1>2, <1>3 DEF CacheInv, CacheTypeOK, counts
<1>5. ASSUME owed' PROVE fetch' \in {"asked", "good"}
  <2>1. owed /\ row # "none" /\ inFront /\ key \in Pages[then].shows
    BY <1>2, <1>5 DEF CacheInv
  <2>2. CASE Told(write.what, key)
    BY <1>3, <2>1, <2>2
  <2>3. CASE ~Told(write.what, key)
    <3>1. Remedied => FALSE
      BY <2>1, <2>3, OnlyStockIn DEF Remedied, Closes, then
    <3>2. QED
      BY <1>3, <2>1, <2>3, <3>1 DEF CacheInv
  <2>4. QED
    BY <2>2, <2>3
<1>6. QED
  BY <1>1, <1>2, <1>4, <1>5 DEF CacheInv, Mounted

\* The rollback of a status change asks for the list it has put wrong rows in.
LEMMA FailedStep ==
  ASSUME CacheInv, WriteFails
  PROVE  CacheInv'
<1>1. Sound(write.from, write.what) /\ write # NoWrite
  BY WriteFields DEF WriteFails
<1>2. /\ write' = NoWrite /\ UNCHANGED <<key, view, inFront, visits, writes>>
      /\ errors < MaxErrors /\ errors' = errors + 1
  BY DEF WriteFails
<1>e. errors' \in 0..MaxErrors
  BY <1>2, CacheAssumption DEF CacheInv, CacheTypeOK
<1>3. CASE ~write.what.optimistic
  <2>1. owed' = FALSE /\ UNCHANGED <<row, marked, fresh, fetch>>
    BY <1>3 DEF WriteFails
  <2>2. CacheTypeOK'
    <3>1. {inFront', marked', fresh', owed'} \subseteq BOOLEAN
      BY <1>2, <2>1 DEF CacheInv, CacheTypeOK
    <3>2. QED
      BY <1>2, <1>e, <2>1, <3>1 DEF CacheInv, CacheTypeOK
  <2>3. QED
    BY <1>2, <2>1, <2>2 DEF CacheInv
<1>4. CASE write.what.optimistic
  <2>1. PICK restored \in BOOLEAN :
          /\ restored => Mounted /\ key = List("orders")
          /\ row' = IF restored THEN "alien" ELSE row
          /\ fresh' = (fresh \/ restored)
          /\ owed' = (owed \/ restored)
    BY <1>4 DEF WriteFails
  <2>2. /\ marked' = (marked \/ Told(write.what, key))
        /\ fetch' = IF Told(write.what, key) /\ Mounted /\ (fetch = "none" \/ row' # "none")
                    THEN "asked" ELSE fetch
    BY <1>4 DEF WriteFails, Told
  <2>3. CacheTypeOK'
    BY <1>2, <2>1, <2>2, CacheAssumption DEF CacheInv, CacheTypeOK, Rows
  <2>4. ASSUME owed'
        PROVE  Mounted /\ row' # "none" /\ fetch' \in {"asked", "good"}
    <3>1. Mounted /\ row' # "none"
      BY <1>4, <2>1, <2>4 DEF CacheInv
    <3>2. CASE Told(write.what, key)
      BY <2>2, <3>1, <3>2
    <3>3. CASE ~Told(write.what, key)
      <4>1. ~restored /\ owed
        BY <1>1, <1>4, <2>1, <2>4, <3>3 DEF Sound
      <4>2. ~Closes(view, write.what, key) \/ view # write.from
        <5>1. CASE view = write.from /\ view = "stockIn"
          <6>1. Pages["stockIn"] = StockInDialog /\ \A w \in StockInDialog.does : ~w.optimistic
            BY DEF Pages, StockInDialog, Write
          <6>2. QED
            BY <1>4, <5>1, <6>1, WriteFields, <1>1
        <5>2. QED
          BY <5>1 DEF Closes
      <4>3. fetch \in {"asked", "good"}
        BY <3>3, <4>1, <4>2 DEF CacheInv, Remedied
      <4>4. QED
        BY <2>2, <3>1, <3>3, <4>3
    <3>4. QED
      BY <3>1, <3>2, <3>3
  <2>5. QED
    BY <1>2, <2>3, <2>4 DEF CacheInv, Mounted
<1>5. QED
  BY <1>3, <1>4

\* The server and the query client.
LEMMA FetchSteps ==
  ASSUME CacheInv, ServerReads \/ Lands \/ FetchFails \/ Ages \/ Refetches \/ Forgotten
  PROVE  CacheInv'
<1>1. Remedied /\ UNCHANGED <<key, view, write>> => Remedied'
  BY DEF Remedied, Told, Closes
<1>2. CASE ServerReads
  BY <1>1, <1>2 DEF ServerReads, CacheInv, CacheTypeOK, Mounted, counts
<1>3. CASE Lands
  BY <1>1, <1>3 DEF Lands, CacheInv, CacheTypeOK, Mounted, counts, Rows
<1>4. CASE FetchFails
  <2>1. errors' \in 0..MaxErrors
    BY <1>4, CacheAssumption DEF FetchFails, CacheInv, CacheTypeOK
  <2>2. /\ fetch' = "none" /\ owed' = FALSE
        /\ UNCHANGED <<key, view, inFront, row, marked, fresh, write, visits, writes>>
    BY <1>4 DEF FetchFails
  <2>3. {inFront', marked', fresh', owed'} \subseteq BOOLEAN
    BY <2>2 DEF CacheInv, CacheTypeOK
  <2>4. QED
    BY <2>1, <2>2, <2>3 DEF CacheInv, CacheTypeOK
<1>5. CASE Ages
  BY <1>1, <1>5 DEF Ages, CacheInv, CacheTypeOK, Mounted, counts
<1>6. CASE Refetches
  BY <1>1, <1>6 DEF Refetches, CacheInv, CacheTypeOK, Mounted, counts
<1>7. CASE Forgotten
  BY <1>1, <1>7 DEF Forgotten, CacheInv, CacheTypeOK, Mounted, counts, Rows
<1>8. QED
  BY <1>2, <1>3, <1>4, <1>5, <1>6, <1>7

LEMMA StepCache ==
  ASSUME CacheInv, [CacheNext]_cacheVars
  PROVE  CacheInv'
<1>1. CASE UNCHANGED cacheVars
  BY <1>1 DEF cacheVars, CacheInv, CacheTypeOK, Mounted, Remedied, Told, Closes
<1>2. CASE CacheNext
  BY <1>2, BossLooks, BossWritesRows, LandsStep, AnsweredStep, FailedStep, FetchSteps
     DEF CacheNext
<1>3. QED
  BY <1>1, <1>2

LEMMA CacheInitially == CacheInit => CacheInv
<1>. SUFFICES ASSUME CacheInit PROVE CacheInv
  OBVIOUS
<1>1. visits \in 0..MaxVisits /\ writes \in 0..MaxWrites /\ errors \in 0..MaxErrors
  BY CacheAssumption DEF CacheInit
<1>2. {inFront, marked, fresh, owed} \subseteq BOOLEAN
  BY DEF CacheInit
<1>3. view \in Views
  BY DEF CacheInit
<1>4. QED
  BY <1>1, <1>2, <1>3 DEF CacheInit, CacheInv, CacheTypeOK, Rows

\* OwedIsUnderWay, with the types: every write of the pages tells the keys its
\* own page shows and it changes, or closes the dialog that shows them, and
\* neither a visit nor a filter, cancelled fetch, failure or rollback loses
\* that (orders/page.tsx: statusMutation, and the query client).
THEOREM WrongRowsAreReplaced == CacheSpec => [](CacheTypeOK /\ OwedIsUnderWay)
<1>1. CacheInv => CacheTypeOK /\ OwedIsUnderWay
  <2>1. SUFFICES ASSUME CacheInv, owed, fetch \notin {"asked", "good"}
                 PROVE  /\ write # NoWrite
                        /\ \/ \E p \in write.what.tells : IsPrefix(p, key)
                           \/ view = write.from /\ key \notin Pages[write.what.then].shows
    BY DEF CacheInv, OwedIsUnderWay
  <2>2. Remedied
    BY <2>1 DEF CacheInv
  <2>3. Closes(view, write.what, key) => key \notin Pages[write.what.then].shows
    BY OnlyStockIn DEF Closes
  <2>4. QED
    BY <2>2, <2>3 DEF Remedied, Told
<1>2. QED
  BY CacheInitially, StepCache, <1>1, PTL DEF CacheSpec
-----------------------------------------------------------------------------
(* The components side by side.                                            *)

LiveInv == BroadcastInv /\ ReloadsInv /\ ErpInv /\ CacheInv

\* The parts share no state: whichever is followed keeps its types, and so do
\* those that stand still.
THEOREM LiveTypeCorrect == LiveSpec => []LiveTypeOK
<1>1. LiveInit => LiveInv
  BY BroadcastInitially, ReloadsInitially, ErpInitially, CacheInitially DEF LiveInit, LiveInv
<1>2. LiveInv /\ [LiveNext]_liveVars => LiveInv'
  <2>1. [LiveNext]_liveVars =>
          /\ [BroadcastNext]_broadcastVars /\ [SessionNext]_sessionVars
          /\ [ErpNext]_erpVars /\ [CacheNext]_cacheVars
    BY DEF LiveNext, liveVars
  <2>2. QED
    BY <2>1, StepBroadcast, StepReloads, StepErp, StepCache DEF LiveInv
<1>3. LiveInv => LiveTypeOK
  BY DEF LiveInv, BroadcastInv, ReloadsInv, ErpInv, CacheInv, LiveTypeOK
<1>4. QED
  BY <1>1, <1>2, <1>3, PTL DEF LiveSpec
=============================================================================
