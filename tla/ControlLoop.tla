---------------------------- MODULE ControlLoop ----------------------------
(***************************************************************************)
(* The control loop main() of src/A/ROOT/predict_leader.py with its        *)
(* decision log (BufferedPredictedLeaderWriter of leader_logger, whose    *)
(* source is src/B/ROOT/leader_logger.py) and the migration it performs   *)
(* (check_and_transfer_leader, scp_to_host, move_leader_with_timing).      *)
(*                                                                         *)
(* The outcome of one run_once_and_decide call is abstracted to the       *)
(* address it names (an element of Ips) or NoLeader when it returns        *)
(* (True, None): an empty forecast, no domains, no optimal leader, or an  *)
(* exception, all of which the loop turns into "keep".  A decision-log row*)
(* is the round it was recorded in (its timestamp) and the leader logged. *)
(***************************************************************************)
EXTENDS Naturals, Sequences

CONSTANTS
    Ips,        \* addresses the cost model can return (node_id_to_ip values)
    SelfIp,     \* get_current_leader_ip(): this host's outbound address
    NoLeader,   \* run_once_and_decide returned optimal_ip = None
    MaxIters,   \* MAX_ITERS: 0 means loop until a migration
    MaxRounds   \* bound on the rounds explored when MaxIters = 0

ASSUME ConstantsAssumption ==
    /\ SelfIp \in Ips
    /\ NoLeader \notin Ips
    /\ MaxIters \in Nat
    /\ MaxRounds \in Nat \ {0}

\* Rounds the model explores: MAX_ITERS when set, MaxRounds otherwise.
RoundBound == IF MaxIters > 0 THEN MaxIters ELSE MaxRounds

Round == 1..RoundBound

Row == [round : Round, leader : Ips]

Status == {"none", "success", "failed"}

VARIABLES
    pc,             \* where main() is
    workerStarted,  \* the ReloadWorker thread was started
    it,             \* main's round counter it
    buffer,         \* BufferedPredictedLeaderWriter.buffer
    logFile,        \* rows in predicted_leaderA.csv
    decisions,      \* every row passed to logger.record, in order (history)
    target,         \* optimal_ip of the migration under way
    snapshot,       \* the local raft_stats.csv exists
    remoteCopy,     \* raft_stats.csv has been copied to the target host
    transfers,      \* etcdctl move-leader commands issued
    moveStatus,     \* status recorded by move_leader_with_timing
    metricsRows,    \* rows in leader_move_metricsA.csv
    stopEvt         \* reload_worker.stop() has been called

vars == <<pc, workerStarted, it, buffer, logFile, decisions, target,
          snapshot, remoteCopy, transfers, moveStatus, metricsRows, stopEvt>>

PCs == {"init", "loop", "scp", "move", "remove", "metrics", "exited", "crashed"}

TypeOK ==
    /\ pc \in PCs
    /\ workerStarted \in BOOLEAN
    /\ it \in 0..RoundBound
    /\ buffer \in Seq(Row)
    /\ logFile \in Seq(Row)
    /\ decisions \in Seq(Row)
    /\ target \in Ips \cup {NoLeader}
    /\ snapshot \in BOOLEAN
    /\ remoteCopy \in BOOLEAN
    /\ transfers \in Nat
    /\ moveStatus \in Status
    /\ metricsRows \in Nat
    /\ stopEvt \in BOOLEAN

Init ==
    /\ pc = "init"
    /\ workerStarted = FALSE
    /\ it = 0
    /\ buffer = <<>>
    /\ logFile = <<>>
    /\ decisions = <<>>
    /\ target = NoLeader
    /\ snapshot = TRUE
    /\ remoteCopy = FALSE
    /\ transfers = 0
    /\ moveStatus = "none"
    /\ metricsRows = 0
    /\ stopEvt = FALSE

-----------------------------------------------------------------------------
(* Start-up: "while forecaster is None".  A failing Forecaster() leaves   *)
(* every variable as it was (sleep 30 s, retry): a stuttering step.  When *)
(* Forecaster() succeeds but ReloadWorker(...) or start() raises, the      *)
(* except branch sleeps and the loop ends anyway, since forecaster is no  *)
(* longer None: main runs on without a reload worker.                     *)
InitOk ==
    /\ pc = "init"
    /\ pc' = "loop"
    /\ workerStarted' = TRUE
    /\ UNCHANGED <<it, buffer, logFile, decisions, target, snapshot,
                   remoteCopy, transfers, moveStatus, metricsRows, stopEvt>>

InitWorkerFail ==
    /\ pc = "init"
    /\ pc' = "loop"
    /\ UNCHANGED <<workerStarted, it, buffer, logFile, decisions, target,
                   snapshot, remoteCopy, transfers, moveStatus, metricsRows,
                   stopEvt>>

-----------------------------------------------------------------------------
(* One round of the while loop: it += 1, run_once_and_decide (or its      *)
(* exception), the will_move decision and logger.record.                  *)

\* Mutant: without the "will_move and not optimal_ip" downgrade.
WillMoveUnchecked(opt) == opt # SelfIp

\* will_move = not is_self; is_self is True for NoLeader and for SelfIp.
WillMove(opt) == opt \in Ips \ {SelfIp}

\* leader_for_log = self_ip if not will_move else optimal_ip
LoggedLeader(opt) == IF WillMove(opt) THEN opt ELSE SelfIp

RoundRow(opt) == [round |-> it + 1, leader |-> LoggedLeader(opt)]

\* A keep decision: record() only appends to the buffer.
Keep(opt) ==
    /\ pc = "loop"
    /\ it < RoundBound
    /\ ~WillMove(opt)
    /\ it' = it + 1
    /\ buffer' = Append(buffer, RoundRow(opt))
    /\ decisions' = Append(decisions, RoundRow(opt))
    /\ UNCHANGED <<logFile, target, snapshot, remoteCopy, transfers,
                   moveStatus, metricsRows, workerStarted>>

\* ... then sleep(INTERVAL_SEC) and continue.
KeepContinue(opt) ==
    /\ Keep(opt)
    /\ ~(MaxIters > 0 /\ it + 1 >= MaxIters)
    /\ UNCHANGED <<pc, stopEvt>>

\* ... or break when MAX_ITERS is reached; the finally block stops the worker.
KeepExit(opt) ==
    /\ Keep(opt)
    /\ MaxIters > 0 /\ it + 1 >= MaxIters
    /\ pc' = "exited"
    /\ stopEvt' = TRUE

\* Mutant: the buffer is flushed before the current row is appended.
MoveFlushFirst(opt) ==
    /\ pc = "loop"
    /\ it < RoundBound
    /\ WillMove(opt)
    /\ it' = it + 1
    /\ logFile' = logFile \o buffer
    /\ buffer' = <<RoundRow(opt)>>
    /\ decisions' = Append(decisions, RoundRow(opt))
    /\ target' = opt
    /\ pc' = "scp"
    /\ UNCHANGED <<snapshot, remoteCopy, transfers, moveStatus, metricsRows,
                   workerStarted, stopEvt>>

\* A migrate decision: record() appends and flushes the whole buffer.
Move(opt) ==
    /\ pc = "loop"
    /\ it < RoundBound
    /\ WillMove(opt)
    /\ it' = it + 1
    /\ logFile' = logFile \o Append(buffer, RoundRow(opt))
    /\ buffer' = <<>>
    /\ decisions' = Append(decisions, RoundRow(opt))
    /\ target' = opt
    /\ pc' = "scp"
    /\ UNCHANGED <<snapshot, remoteCopy, transfers, moveStatus, metricsRows,
                   workerStarted, stopEvt>>

-----------------------------------------------------------------------------
(* check_and_transfer_leader(self_ip, optimal_ip) and what follows it.    *)

\* Mutant: the scp failure caught and logged, and the transfer attempted
\* anyway, as move_leader_with_timing does with its own failure.
ScpFailCaught ==
    /\ pc = "scp"
    /\ pc' = "move"
    /\ UNCHANGED <<workerStarted, it, buffer, logFile, decisions, target,
                   snapshot, remoteCopy, transfers, moveStatus, metricsRows,
                   stopEvt>>

\* scp_to_host: a missing local file raises FileNotFoundError, a failing
\* scp raises CalledProcessError.  Neither is caught inside the loop: the
\* exception leaves main() through its finally block.
ScpFail ==
    /\ pc = "scp"
    /\ pc' = "crashed"
    /\ stopEvt' = TRUE
    /\ UNCHANGED <<workerStarted, it, buffer, logFile, decisions, target,
                   snapshot, remoteCopy, transfers, moveStatus, metricsRows>>

ScpOk ==
    /\ pc = "scp"
    /\ snapshot
    /\ remoteCopy' = TRUE
    /\ pc' = "move"
    /\ UNCHANGED <<workerStarted, it, buffer, logFile, decisions, target,
                   snapshot, transfers, moveStatus, metricsRows, stopEvt>>

\* Mutant: a failed move-leader is retried.
MoveLeaderRetry ==
    /\ pc = "move"
    /\ transfers' = transfers + 1
    /\ \E st \in {"success", "failed"} :
          /\ moveStatus' = st
          /\ pc' = IF st = "failed" THEN "move" ELSE "remove"
    /\ UNCHANGED <<workerStarted, it, buffer, logFile, decisions, target,
                   snapshot, remoteCopy, metricsRows, stopEvt>>

\* move_leader_with_timing: runs etcdctl move-leader once, catches its
\* failure as status "failed", appends the timing row.
MoveLeader ==
    /\ pc = "move"
    /\ transfers' = transfers + 1
    /\ \E st \in {"success", "failed"} : moveStatus' = st
    /\ pc' = "remove"
    /\ UNCHANGED <<workerStarted, it, buffer, logFile, decisions, target,
                   snapshot, remoteCopy, metricsRows, stopEvt>>

\* os.remove(local_path), whatever the status was, then return 1.
RemoveSnapshot ==
    /\ pc = "remove"
    /\ snapshot' = FALSE
    /\ pc' = "metrics"
    /\ UNCHANGED <<workerStarted, it, buffer, logFile, decisions, target,
                   remoteCopy, transfers, moveStatus, metricsRows, stopEvt>>

\* _append_metrics_row (a failure is caught and logged), then break; the
\* finally block stops the reload worker.
WriteMetrics ==
    /\ pc = "metrics"
    /\ \E written \in BOOLEAN :
          metricsRows' = IF written THEN metricsRows + 1 ELSE metricsRows
    /\ pc' = "exited"
    /\ stopEvt' = TRUE
    /\ UNCHANGED <<workerStarted, it, buffer, logFile, decisions, target,
                   snapshot, remoteCopy, transfers, moveStatus>>

-----------------------------------------------------------------------------
Choices == Ips \cup {NoLeader}

Next ==
    \/ InitOk \/ InitWorkerFail
    \/ \E opt \in Choices : KeepContinue(opt) \/ KeepExit(opt) \/ Move(opt)
    \/ ScpFail \/ ScpOk \/ MoveLeader \/ RemoveSnapshot \/ WriteMetrics

Spec == Init /\ [][Next]_vars

-----------------------------------------------------------------------------
(* Properties                                                              *)

(* Spec sections 4.4 and 8: the decision log loses, duplicates and        *)
(* reorders nothing: what is on disk followed by what is buffered is       *)
(* exactly the sequence of recorded decisions; nothing reaches the disk   *)
(* before the first migrate decision, and then the flush ends with it.    *)
DecisionLogExact ==
    /\ logFile \o buffer = decisions
    /\ logFile # <<>> => /\ buffer = <<>>
                         /\ logFile[Len(logFile)].leader = target
                         /\ target # SelfIp

(* Spec sections 4.4, 4.5 and 7: a process issues at most one leadership  *)
(* transfer, only to the target of a migrate decision already flushed to *)
(* the log, and never retries it.                                          *)
TransferAtMostOnce ==
    transfers > 0 => /\ transfers = 1
                     /\ target \in Ips \ {SelfIp}
                     /\ logFile # <<>>
                     /\ logFile[Len(logFile)].leader = target

(* Spec section 4.5: check_and_transfer_leader issues move-leader only  *)
(* from a state in which the load history has reached the target host and *)
(* the local copy still exists: a transfer never runs ahead of the copy.  *)
MoveAfterCopy ==
    [][transfers' > transfers => remoteCopy /\ snapshot]_vars

\* The spec's phases of the control loop, by main()'s control point.
CtlPhase ==
    CASE pc = "init" -> "init"
      [] pc = "loop" -> "tick"
      [] pc \in {"scp", "move", "remove", "metrics"} -> "migrate"
      [] pc \in {"exited", "crashed"} -> "terminated"

Ctl == INSTANCE Controller
         WITH Self <- SelfIp, Decisions <- Row, NoTarget <- NoLeader,
              phase <- CtlPhase, recorded <- decisions, persisted <- logFile,
              transferred <- transfers

(* Spec sections 4.4 and 4.5: main() is the spec's control loop: every    *)
(* tick records one decision, nothing is persisted before the migrate     *)
(* decision, which persists all of them at once, at most one transfer is  *)
(* issued, and an iteration cap persists the buffer before terminating.   *)
ControllerSpec == Ctl!SafeSpec

(* Spec section 4.4 (KEEP): reaching the iteration cap flushes the        *)
(* remaining buffer before terminating, so no decision is lost on exit.   *)
NoDecisionLostOnExit ==
    pc = "exited" => buffer = <<>>

(* Spec section 4.5: the local load-history snapshot is deleted only      *)
(* after a successful leadership transfer.                                *)
SnapshotKeptUnlessMoved ==
    ~snapshot => moveStatus = "success"

=============================================================================
