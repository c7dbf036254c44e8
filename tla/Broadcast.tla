----------------------------- MODULE Broadcast ------------------------------
(***************************************************************************)
(* From the commit of confirm() to the couriers' chats: the call nobody    *)
(* awaits, BullMQ's broadcast_queue, and BroadcastProcessor.               *)
(*                                                                         *)
(* BullMQ is modelled from how the code uses it, with its defaults: one    *)
(* attempt per job, one job at a time, and a job whose worker stopped      *)
(* renewing its lock goes back to the queue MaxStalls times and then       *)
(* fails. Jobs <<o, n>> are the calls for an order: a double tap on the    *)
(* confirmation makes two of them.                                         *)
(***************************************************************************)
EXTENDS Integers, FiniteSets

CONSTANTS
  Orders,     \* orders with delivery that a master confirms
  Drivers,    \* users with role driver and a tg_id
  NoRun,      \* the worker is idle
  MaxCalls,   \* confirmations of one order that pass the check (bound)
  MaxStalls,  \* maxStalledCount
  MaxFaults,  \* crashes, lost locks and lost calls (bound)
  MaxToggles  \* switches of is_active by an admin (bound)

ASSUME BroadcastAssumption ==
  /\ MaxCalls \in Nat
  /\ MaxStalls \in Nat
  /\ MaxFaults \in Nat
  /\ MaxToggles \in Nat
  /\ NoRun \notin [job : Orders \X (1..MaxCalls), locked : BOOLEAN,
                   read : BOOLEAN, todo : SUBSET Drivers]

Jobs == Orders \X (1..MaxCalls)

VARIABLES
  job,      \* where each call is: in memory, in Redis, or gone
  stalls,   \* how often Redis has taken the job back
  run,      \* what the worker is at: its job, its lock, the drivers left
  active,   \* drivers with is_active
  up,       \* the process is running
  reached,  \* offers that arrived, per job and driver
  tried,    \* drivers the job has sent to, arrived or not
  present,  \* drivers that were active ever since the job was queued
  faults,
  toggles

broadcastVars == <<job, stalls, run, active, up, reached, tried, present, faults, toggles>>

JobStates == {"none", "called", "waiting", "active", "completed", "failed", "lost"}
Runs == [job : Jobs, locked : BOOLEAN, read : BOOLEAN, todo : SUBSET Drivers]

BroadcastTypeOK ==
  /\ job \in [Jobs -> JobStates]
  /\ stalls \in [Jobs -> Nat]
  /\ run \in Runs \cup {NoRun}
  /\ active \subseteq Drivers
  /\ up \in BOOLEAN
  /\ reached \in [Jobs \X Drivers -> Nat]
  /\ tried \in [Jobs -> SUBSET Drivers]
  /\ present \in [Jobs -> SUBSET Drivers]
  /\ faults \in Nat
  /\ toggles \in Nat

BroadcastInit ==
  /\ job = [j \in Jobs |-> "none"]
  /\ stalls = [j \in Jobs |-> 0]
  /\ run = NoRun
  /\ active \in SUBSET Drivers
  /\ up = TRUE
  /\ reached = [x \in Jobs \X Drivers |-> 0]
  /\ tried = [j \in Jobs |-> {}]
  /\ present = [j \in Jobs |-> {}]
  /\ faults = 0
  /\ toggles = 0
-----------------------------------------------------------------------------
(* The producer.                                                           *)

\* confirm() has committed and fires `void broadcastOrder(orderId)'.
Call(o, n) ==
  /\ up
  /\ job[<<o, n>>] = "none"
  /\ n > 1 => job[<<o, n - 1>>] # "none"
  /\ job' = [job EXCEPT ![<<o, n>>] = "called"]
  /\ UNCHANGED <<stalls, run, active, up, reached, tried, present, faults, toggles>>

\* queue.add() is acknowledged by Redis.
Enqueue(j) ==
  /\ up
  /\ job[j] = "called"
  /\ job' = [job EXCEPT ![j] = "waiting"]
  /\ present' = [present EXCEPT ![j] = active]
  /\ UNCHANGED <<stalls, run, active, up, reached, tried, faults, toggles>>

\* queue.add() rejects: main.ts logs the unhandled rejection, nobody retries.
CallRejected(j) ==
  /\ up
  /\ job[j] = "called"
  /\ faults < MaxFaults
  /\ faults' = faults + 1
  /\ job' = [job EXCEPT ![j] = "lost"]
  /\ UNCHANGED <<stalls, run, active, up, reached, tried, present, toggles>>
-----------------------------------------------------------------------------
(* The worker: process(), await by await.                                  *)

\* Redis hands out the oldest job with a lock; here, any waiting one.
TakeJob(j) ==
  /\ up
  /\ run = NoRun
  /\ job[j] = "waiting"
  /\ job' = [job EXCEPT ![j] = "active"]
  /\ run' = [job |-> j, locked |-> TRUE, read |-> FALSE, todo |-> {}]
  /\ UNCHANGED <<stalls, active, up, reached, tried, present, faults, toggles>>

\* order.findUnique, user.findMany({role: driver, is_active, tg_id}).
ReadDrivers ==
  /\ up
  /\ run # NoRun
  /\ ~run.read
  /\ run' = [run EXCEPT !.read = TRUE, !.todo = active]
  /\ UNCHANGED <<job, stalls, active, up, reached, tried, present, faults, toggles>>

\* A rejected query fails the job, which has the one attempt.
ReadFails ==
  /\ up
  /\ run # NoRun
  /\ ~run.read
  /\ faults < MaxFaults
  /\ faults' = faults + 1
  /\ job' = IF run.locked THEN [job EXCEPT ![run.job] = "failed"] ELSE job
  /\ run' = NoRun
  /\ UNCHANGED <<stalls, active, up, reached, tried, present, toggles>>

\* Mutant: an error of Telegram ends the loop.
SendOffer_StopsAtError(d, arrives) ==
  /\ up
  /\ run # NoRun
  /\ d \in run.todo
  /\ run' = [run EXCEPT !.todo = IF arrives THEN @ \ {d} ELSE {}]
  /\ tried' = [tried EXCEPT ![run.job] = @ \cup {d}]
  /\ reached' = [reached EXCEPT ![<<run.job, d>>] = @ + IF arrives THEN 1 ELSE 0]
  /\ UNCHANGED <<job, stalls, active, up, present, faults, toggles>>

\* sendMessage to one driver; the catch around it swallows every error.
SendOffer(d, arrives) ==
  /\ up
  /\ run # NoRun
  /\ d \in run.todo
  /\ run' = [run EXCEPT !.todo = @ \ {d}]
  /\ tried' = [tried EXCEPT ![run.job] = @ \cup {d}]
  /\ reached' = [reached EXCEPT ![<<run.job, d>>] = @ + IF arrives THEN 1 ELSE 0]
  /\ UNCHANGED <<job, stalls, active, up, present, faults, toggles>>

\* Mutant: the worker does not let go of a job whose lock it has lost.
FinishJob_HoldsOn ==
  /\ up
  /\ run # NoRun
  /\ run.read /\ run.locked
  /\ run.todo = {}
  /\ job' = [job EXCEPT ![run.job] = "completed"]
  /\ run' = NoRun
  /\ UNCHANGED <<stalls, active, up, reached, tried, present, faults, toggles>>

\* process() returns. Without its lock the worker cannot complete the job.
FinishJob ==
  /\ up
  /\ run # NoRun
  /\ run.read
  /\ run.todo = {}
  /\ job' = IF run.locked THEN [job EXCEPT ![run.job] = "completed"] ELSE job
  /\ run' = NoRun
  /\ UNCHANGED <<stalls, active, up, reached, tried, present, faults, toggles>>
-----------------------------------------------------------------------------
(* Faults, and what BullMQ does about them.                                *)

\* Mutant: the worker's job is forgotten with the process.
Crash_ForgetsActive ==
  /\ up
  /\ faults < MaxFaults
  /\ faults' = faults + 1
  /\ up' = FALSE
  /\ run' = NoRun
  /\ job' = [j \in Jobs |-> IF job[j] \in {"called", "active"} THEN "lost" ELSE job[j]]
  /\ UNCHANGED <<stalls, active, reached, tried, present, toggles>>

\* The process dies: calls in memory are gone, the job stays in Redis.
Crash ==
  /\ up
  /\ faults < MaxFaults
  /\ faults' = faults + 1
  /\ up' = FALSE
  /\ run' = NoRun
  /\ job' = [j \in Jobs |-> IF job[j] = "called" THEN "lost" ELSE job[j]]
  /\ UNCHANGED <<stalls, active, reached, tried, present, toggles>>

Restart ==
  /\ ~up
  /\ up' = TRUE
  /\ UNCHANGED <<job, stalls, run, active, reached, tried, present, faults, toggles>>

\* A blocked event loop lets the lock expire while process() goes on.
LoseLock ==
  /\ up
  /\ run # NoRun
  /\ run.locked
  /\ faults < MaxFaults
  /\ faults' = faults + 1
  /\ run' = [run EXCEPT !.locked = FALSE]
  /\ UNCHANGED <<job, stalls, active, up, reached, tried, present, toggles>>

\* The stalled check finds an active job that no worker holds the lock of.
StalledCheck(j) ==
  /\ up
  /\ job[j] = "active"
  /\ run # NoRun => run.job # j \/ ~run.locked
  /\ stalls' = [stalls EXCEPT ![j] = @ + 1]
  /\ job' = [job EXCEPT ![j] = IF stalls'[j] > MaxStalls THEN "failed" ELSE "waiting"]
  /\ UNCHANGED <<run, active, up, reached, tried, present, faults, toggles>>

\* An admin switches a driver on or off (toggleUserActive).
Toggle(d) ==
  /\ toggles < MaxToggles
  /\ toggles' = toggles + 1
  /\ active' = IF d \in active THEN active \ {d} ELSE active \cup {d}
  /\ present' = [j \in Jobs |-> present[j] \ {d}]
  /\ UNCHANGED <<job, stalls, run, up, reached, tried, faults>>

WorkerStep ==
  \/ \E j \in Jobs : TakeJob(j)
  \/ ReadDrivers
  \/ \E d \in Drivers, arrives \in BOOLEAN : SendOffer(d, arrives)
  \/ FinishJob

BroadcastNext ==
  \/ \E o \in Orders, n \in 1..MaxCalls : Call(o, n)
  \/ \E j \in Jobs : Enqueue(j) \/ CallRejected(j) \/ StalledCheck(j)
  \/ WorkerStep
  \/ ReadFails
  \/ Crash
  \/ Restart
  \/ LoseLock
  \/ \E d \in Drivers : Toggle(d)

(* A process that is up runs its event loop: a started call reaches Redis  *)
(* or is rejected, the worker goes on with its job and the stalled check   *)
(* comes round. The host restarts a process that died. Nothing obliges a   *)
(* master to confirm, an admin to toggle, or anything to fail.             *)
BroadcastFairness ==
  /\ \A j \in Jobs : WF_broadcastVars(Enqueue(j)) /\ WF_broadcastVars(StalledCheck(j))
  /\ WF_broadcastVars(WorkerStep)
  /\ WF_broadcastVars(Restart)

BroadcastSpec == BroadcastInit /\ [][BroadcastNext]_broadcastVars /\ BroadcastFairness
-----------------------------------------------------------------------------
\* A job that reached Redis does not stay there: whatever crashes and lost
\* locks come, it ends completed or failed (BroadcastProcessor.process).
QueuedJobSettles ==
  \A j \in Jobs : job[j] = "waiting" ~> job[j] \in {"completed", "failed"}

\* A completed job has sent to every driver that was active from the moment it
\* was queued, even if an earlier run of it died half-way through its list or
\* Telegram refused another driver.
CompletedTriedAll ==
  \A j \in Jobs : job[j] = "completed" => present[j] \subseteq tried[j]

\* Redelivery repeats an offer, but a driver gets at most one for each time
\* Redis hands the job out: maxStalledCount + 1.
OffersBounded ==
  \A j \in Jobs, d \in Drivers : reached[<<j, d>>] <= MaxStalls + 1

\* Every courier is offered a broadcast order, and none too often
\* (broadcast.processor.ts).
OffersMade == CompletedTriedAll /\ OffersBounded

\* A call leaves the books unsent only if a fault happened, and a job that is
\* in Redis is not lost by a crash: the one window is the unawaited call.
LostOnlyBeforeRedis ==
  /\ \A j \in Jobs : job[j] = "lost" => stalls[j] = 0 /\ tried[j] = {}
  /\ (\E j \in Jobs : job[j] \in {"lost", "failed"}) => faults > 0
=============================================================================
