----------------------------- MODULE Controller -----------------------------
(***************************************************************************)
(* The control loop as spec sections 4.4 and 4.5 describe it, with the     *)
(* decision log's buffering and the migration's steps hidden: each tick    *)
(* records one decision; nothing is persisted until a migrate decision,    *)
(* which persists every recorded decision in one write; a migration issues *)
(* at most one leadership transfer and then the process terminates; an     *)
(* iteration cap terminates the loop after persisting what was recorded.   *)
(* ControlLoop implements this specification when no cap is configured.    *)
(***************************************************************************)
EXTENDS Sequences

CONSTANTS
    Self,       \* the local replica's address
    Decisions,  \* the rows a tick can record (timestamp, chosen leader)
    NoTarget    \* no migration target chosen yet

VARIABLES
    phase,      \* "init", "tick", "migrate" or "terminated"
    recorded,   \* every decision recorded, in order
    persisted,  \* the rows in the persistent decision log
    target,     \* the target of the migrate decision
    transferred \* leadership transfers issued

vars == <<phase, recorded, persisted, target, transferred>>

Init ==
    /\ phase = "init"
    /\ recorded = <<>>
    /\ persisted = <<>>
    /\ target = NoTarget
    /\ transferred = 0

\* INIT: the first forecaster exists.
Start ==
    /\ phase = "init"
    /\ phase' = "tick"
    /\ UNCHANGED <<recorded, persisted, target, transferred>>

\* KEEP: the decision goes to the buffer only.
Keep ==
    /\ phase = "tick"
    /\ \E d \in Decisions :
          /\ d.leader = Self
          /\ recorded' = Append(recorded, d)
    /\ UNCHANGED <<phase, persisted, target, transferred>>

\* KEEP with the iteration cap reached: flush the buffer, terminate.
CapReached ==
    /\ phase = "tick"
    /\ \E d \in Decisions :
          /\ d.leader = Self
          /\ recorded' = Append(recorded, d)
    /\ persisted' = recorded'
    /\ phase' = "terminated"
    /\ UNCHANGED <<target, transferred>>

\* MIGRATE: append, flush everything in one write, invoke the executor.
Migrate ==
    /\ phase = "tick"
    /\ \E d \in Decisions :
          /\ d.leader # Self
          /\ recorded' = Append(recorded, d)
          /\ target' = d.leader
    /\ persisted' = recorded'
    /\ phase' = "migrate"
    /\ UNCHANGED transferred

\* The executor's one, unretried leadership transfer.
Transfer ==
    /\ phase = "migrate"
    /\ transferred = 0
    /\ transferred' = 1
    /\ UNCHANGED <<phase, recorded, persisted, target>>

\* The process terminates after the migration attempt, whatever its outcome.
Terminate ==
    /\ phase = "migrate"
    /\ phase' = "terminated"
    /\ UNCHANGED <<recorded, persisted, target, transferred>>

Next == Start \/ Keep \/ CapReached \/ Migrate \/ Transfer \/ Terminate

SafeSpec == Init /\ [][Next]_vars

=============================================================================
