------------------------------- MODULE MCLive -------------------------------
(***************************************************************************)
(* The components with something that must come about, for TLC: the        *)
(* broadcast worker, a session of the WebApp, a session of the ERP, and    *)
(* the ERP's query cache. They share no state, so a behaviour follows one  *)
(* of them, `part', while the others stand still.                          *)
(***************************************************************************)
EXTENDS Broadcast, WebSession, ErpSession, ErpCache

CONSTANTS o1, d1, d2

VARIABLE part

liveVars == <<part, broadcastVars, sessionVars, erpVars, cacheVars>>

\* The parts that stand still start in one state only.
LiveInit ==
  /\ part \in {"broadcast", "web", "erp", "cache"}
  /\ BroadcastInit /\ SessionInit /\ ErpInit /\ CacheInit
  /\ part # "broadcast" => active = {}
  /\ part # "web" => sdk = "absent" /\ ~valid /\ account = "none"
  /\ part # "cache" => view = "services"

LiveNext ==
  /\ UNCHANGED part
  /\ \/ /\ part = "broadcast" /\ BroadcastNext
        /\ UNCHANGED <<sessionVars, erpVars, cacheVars>>
     \/ /\ part = "web" /\ SessionNext
        /\ UNCHANGED <<broadcastVars, erpVars, cacheVars>>
     \/ /\ part = "erp" /\ ErpNext
        /\ UNCHANGED <<broadcastVars, sessionVars, cacheVars>>
     \/ /\ part = "cache" /\ CacheNext
        /\ UNCHANGED <<broadcastVars, sessionVars, erpVars>>

\* The fairness of a part that stands still asks for nothing: no step of it that
\* must come about is enabled before its first user acts.
LiveFairness == BroadcastFairness /\ SessionFairness /\ ErpFairness /\ CacheFairness

LiveSpec == LiveInit /\ [][LiveNext]_liveVars /\ LiveFairness

LiveTypeOK == BroadcastTypeOK /\ SessionTypeOK /\ ErpTypeOK /\ CacheTypeOK
=============================================================================
