---------------------------- MODULE JobContract ----------------------------
(***************************************************************************)
(* What the generation job queue promises its clients, without workers,    *)
(* transactions or heartbeats: a job is accepted only when no other job of *)
(* its project and document code is in progress, runs at most 1 + MaxRetry *)
(* times, and ends once, for good.                                         *)
(*                                                                         *)
(* One step may move several jobs: a worker's transaction recovers every   *)
(* stale job and claims another one.                                       *)
(***************************************************************************)
EXTENDS Naturals

CONSTANTS Jobs, Keys, NoKey, MaxRetry

VARIABLES
  phase,     \* per job: how far it is
  key,       \* per job: what it generates, NoKey before it is accepted
  attempts   \* per job: how often it was started

vars == <<phase, key, attempts>>

Live == {"waiting", "running"}

Init ==
  /\ phase    = [j \in Jobs |-> "absent"]
  /\ key      = [j \in Jobs |-> NoKey]
  /\ attempts = [j \in Jobs |-> 0]

\* Accepted: nothing else of the same key is live once it is.
Accept(j) ==
  /\ phase[j] = "absent" /\ phase'[j] = "waiting"
  /\ key'[j] \in Keys
  /\ \A i \in Jobs \ {j} : key'[i] = key'[j] => phase'[i] \notin Live
  /\ attempts'[j] = attempts[j]

Start(j) ==
  /\ phase[j] = "waiting" /\ phase'[j] = "running"
  /\ attempts'[j] = attempts[j] + 1
  /\ key'[j] = key[j]

\* The attempt was lost; another one is left.
Retry(j) ==
  /\ phase[j] = "running" /\ attempts[j] <= MaxRetry
  /\ \/ phase'[j] = "waiting" /\ attempts'[j] = attempts[j]
     \/ phase'[j] = "running" /\ attempts'[j] = attempts[j] + 1
  /\ key'[j] = key[j]

End(j) ==
  /\ phase[j] = "running" /\ phase'[j] \in {"completed", "failed"}
  /\ attempts'[j] = attempts[j]
  /\ key'[j] = key[j]

Stay(j) == phase'[j] = phase[j] /\ key'[j] = key[j] /\ attempts'[j] = attempts[j]

Next ==
  /\ phase'    = [j \in Jobs |-> phase'[j]]
  /\ key'      = [j \in Jobs |-> key'[j]]
  /\ attempts' = [j \in Jobs |-> attempts'[j]]
  /\ \A j \in Jobs : Accept(j) \/ Start(j) \/ Retry(j) \/ End(j) \/ Stay(j)

Spec == Init /\ [][Next]_vars

=============================================================================
