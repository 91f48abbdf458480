---------------------------- MODULE UpdateLoop ----------------------------
(***************************************************************************)
(* The training trigger src/B/etcd-release-3.4/update.py: a loop that      *)
(* waits a cycle, then probes for up to one window whether this host's     *)
(* etcd member leads; on the first positive probe it snapshots             *)
(* raft_stats.csv (stat, sleep, stat, copy, compare sizes, with up to      *)
(* CSV_SNAPSHOT_RETRY attempts), runs train.py on the snapshot, deletes    *)
(* the snapshot and starts the next cycle.  SIGINT/SIGTERM set _stop.      *)
(*                                                                         *)
(* The environment: leadership changes, the CSV appears (copied here by a *)
(* migration) or disappears (deleted after one), and etcd appends rows.   *)
(* A stat pair is equal exactly when no append happened between the two   *)
(* stats, so the file's content is abstracted to "appended since the last *)
(* stat or copy".  The window deadline is wall time; it is abstracted to   *)
(* the number of iterations of the probe loop that fit in it.             *)
(***************************************************************************)
EXTENDS Naturals

CONSTANTS
    Window,         \* iterations of the probe loop in WINDOW_SECONDS
    Retry           \* CSV_SNAPSHOT_RETRY

ASSUME BoundsAssumption ==
    /\ Window \in Nat \ {0}
    /\ Retry \in Nat \ {0}

VARIABLES
    pc,         \* where main_loop / snapshot_csv is
    stop,       \* the _stop flag set by the signal handler
    leader,     \* etcd_server_is_leader of this host (environment)
    csv,        \* raft_stats.csv exists on this host (environment)
    touched,    \* the CSV was written since the last stat or copy
    attempt,    \* the attempt of snapshot_csv's retry loop
    left,       \* probe-loop iterations left before the window deadline
    snapshot,   \* the dst_p of the latest copy is in SNAP_DIR
    leaked      \* an earlier dst_p is still in SNAP_DIR

snapVars == <<snapshot, leaked>>
vars == <<pc, stop, leader, csv, touched, attempt, left, snapshot, leaked>>
envVars == <<leader, csv, touched>>

PCs == {"wait", "probe", "snap", "stat1", "stat2", "copy", "size", "train",
        "exited"}

TypeOK ==
    /\ pc \in PCs
    /\ stop \in BOOLEAN
    /\ leader \in BOOLEAN
    /\ csv \in BOOLEAN
    /\ touched \in BOOLEAN
    /\ attempt \in 1..Retry
    /\ left \in 0..Window
    /\ snapshot \in BOOLEAN
    /\ leaked \in BOOLEAN

Init ==
    /\ pc = "wait"
    /\ stop = FALSE
    /\ leader \in BOOLEAN
    /\ csv \in BOOLEAN
    /\ touched = FALSE
    /\ attempt = 1
    /\ left = 0
    /\ snapshot = FALSE
    /\ leaked = FALSE

-----------------------------------------------------------------------------
(* The loop                                                                *)

\* The cycle wait: "if _stop: return" once a second.
WaitStop ==
    /\ pc = "wait"
    /\ stop
    /\ pc' = "exited"
    /\ UNCHANGED <<stop, envVars, attempt, left, snapVars>>

\* The wait ran out; the window opens with updated = False.
WaitDone ==
    /\ pc = "wait"
    /\ pc' = "probe"
    /\ left' = Window
    /\ UNCHANGED <<stop, envVars, attempt, snapVars>>

\* The window loop ends at the deadline or on _stop; the outer while then
\* re-tests _stop.
WindowClosed ==
    /\ pc = "probe"
    /\ left = 0 \/ stop
    /\ pc' = IF stop THEN "exited" ELSE "wait"
    /\ UNCHANGED <<stop, envVars, attempt, left, snapVars>>

\* is_leader() is False (or the metrics fetch failed): sleep and continue.
ProbeFollower ==
    /\ pc = "probe"
    /\ left > 0 /\ ~stop
    /\ ~leader
    /\ left' = left - 1
    /\ UNCHANGED <<pc, stop, envVars, attempt, snapVars>>

\* is_leader() is True: call snapshot_csv.
ProbeLeader ==
    /\ pc = "probe"
    /\ left > 0 /\ ~stop
    /\ leader
    /\ pc' = "snap"
    /\ UNCHANGED <<stop, envVars, attempt, left, snapVars>>

\* snapshot_csv raised out of main's try: log, sleep, continue.  A dst_p
\* its last attempt left behind is no longer anyone's.
GiveUp ==
    /\ pc' = "probe"
    /\ left' = left - 1
    /\ leaked' = (leaked \/ snapshot)
    /\ snapshot' = FALSE

\* "if not src_p.exists(): raise FileNotFoundError".
SnapMissing ==
    /\ pc = "snap"
    /\ ~csv
    /\ GiveUp
    /\ UNCHANGED <<stop, envVars, attempt>>

SnapStart ==
    /\ pc = "snap"
    /\ csv
    /\ pc' = "stat1"
    /\ attempt' = 1
    /\ UNCHANGED <<stop, envVars, left, snapVars>>

\* An attempt raised inside the retry loop: log, sleep, next attempt, or
\* "CSV 快照反复失败，放弃本轮" after the last one.
\* Mutants: the retry loop without its cap, and with "<=" for "<".
FailAttemptUncapped ==
    /\ attempt' = IF attempt < Retry THEN attempt + 1 ELSE attempt
    /\ pc' = "stat1"
    /\ UNCHANGED <<left, snapVars>>

FailAttemptOffByOne ==
    IF attempt <= Retry
      THEN /\ attempt' = attempt + 1
           /\ pc' = "stat1"
           /\ UNCHANGED <<left, snapVars>>
      ELSE /\ GiveUp
           /\ attempt' = attempt

FailAttempt ==
    IF attempt < Retry
      THEN /\ attempt' = attempt + 1
           /\ pc' = "stat1"
           /\ UNCHANGED <<left, snapVars>>
      ELSE /\ GiveUp
           /\ attempt' = attempt

\* csv_is_stable: the first _stat_tuple; a missing file returns False.
Stat1 ==
    /\ pc = "stat1"
    /\ \/ /\ csv
          /\ touched' = FALSE
          /\ pc' = "stat2"
          /\ UNCHANGED <<attempt, left, snapVars>>
       \/ /\ ~csv
          /\ FailAttempt
          /\ UNCHANGED touched
    /\ UNCHANGED <<stop, leader, csv>>

\* After time.sleep(window), the second _stat_tuple; s1 == s2.
Stat2 ==
    /\ pc = "stat2"
    /\ \/ /\ csv /\ ~touched
          /\ pc' = "copy"
          /\ UNCHANGED <<attempt, left, snapVars>>
       \/ /\ ~csv \/ touched
          /\ FailAttempt
    /\ UNCHANGED <<stop, envVars>>

\* shutil.copy2(src_p, dst_p): a missing source raises before dst exists.
Copy ==
    /\ pc = "copy"
    /\ \/ /\ csv
          /\ snapshot' = TRUE
          /\ leaked' = (leaked \/ snapshot)
          /\ touched' = FALSE
          /\ pc' = "size"
          /\ UNCHANGED <<attempt, left>>
       \/ /\ ~csv
          /\ FailAttempt
          /\ UNCHANGED touched
    /\ UNCHANGED <<stop, leader, csv>>

\* src_p.stat().st_size != dst_p.stat().st_size raises, as does a source
\* deleted meanwhile; either way dst_p stays in SNAP_DIR.
SizeCheck ==
    /\ pc = "size"
    /\ \/ /\ csv /\ ~touched
          /\ pc' = "train"
          /\ UNCHANGED <<attempt, left, snapVars>>
       \/ /\ ~csv \/ touched
          /\ FailAttempt
    /\ UNCHANGED <<stop, envVars>>

\* run_training (whatever its return code), unlink the snapshot, break;
\* the outer while re-tests _stop.
Train ==
    /\ pc = "train"
    /\ snapshot' = FALSE
    /\ pc' = IF stop THEN "exited" ELSE "wait"
    /\ UNCHANGED <<stop, envVars, attempt, left, leaked>>

Loop ==
    \/ WaitStop \/ WaitDone \/ WindowClosed \/ ProbeFollower \/ ProbeLeader
    \/ SnapMissing \/ SnapStart \/ Stat1 \/ Stat2 \/ Copy \/ SizeCheck \/ Train

-----------------------------------------------------------------------------
(* The environment                                                         *)

\* _handle_stop on SIGINT or SIGTERM.
Signal ==
    /\ ~stop
    /\ stop' = TRUE
    /\ UNCHANGED <<pc, envVars, attempt, left, snapVars>>

\* An election changes etcd_server_is_leader.
LeaderChange ==
    /\ leader' = ~leader
    /\ UNCHANGED <<pc, stop, csv, touched, attempt, left, snapVars>>

\* A migration deletes the CSV here, or copies one here (a new stat).
CsvMoved ==
    /\ csv' = ~csv
    /\ touched' = TRUE
    /\ UNCHANGED <<pc, stop, leader, attempt, left, snapVars>>

\* etcd appends a row.
Append ==
    /\ csv
    /\ touched' = TRUE
    /\ UNCHANGED <<pc, stop, leader, csv, attempt, left, snapVars>>

Next == Loop \/ Signal \/ LeaderChange \/ CsvMoved \/ Append

\* The loop is a running process whose sleeps end; the signal source and
\* the cluster get no fairness.
Spec == Init /\ [][Next]_vars /\ WF_vars(Loop)

-----------------------------------------------------------------------------
(* Properties                                                              *)

\* main_loop's view: snapshot_csv's attempts are hidden inside "snap".
CallPc == IF pc \in {"stat1", "stat2", "copy", "size"} THEN "snap" ELSE pc

Call == INSTANCE UpdateLoopCall WITH pc <- CallPc

(* snapshot_csv behaves, for main_loop, as one call that returns a       *)
(* snapshot only of a CSV present on this host, or raises, and that      *)
(* always returns: its retry loop neither runs forever nor reports       *)
(* success for a file that a migration took away.                        *)
CallSpec == Call!Spec

(* The SIGINT/SIGTERM handler only sets _stop: whatever the cluster and   *)
(* the CSV do, main_loop then returns, through the cycle wait, the window *)
(* loop, a bounded run of snapshot attempts or the end of a training.    *)
StopHonoured == stop ~> (pc = "exited")

(* Every snapshot copied into SNAP_DIR is deleted again: between cycles  *)
(* the directory is empty (run_training's snapshot is unlinked after     *)
(* use, and a failed attempt leaves nothing behind).                     *)
SnapshotsCleaned == pc \in {"wait", "exited"} => ~snapshot /\ ~leaked

=============================================================================
