# Verification of the predictive leader-placement controller

TLA+ models, TLC runs and TLAPS proofs for the controller in `src/`:
`src/A/ROOT/predict_leader.py` (control loop, hot reload, migration, production
cost model), `src/B/ROOT/leader_logger.py` (decision log),
`src/B/etcd-release-3.4/moveleader.py` (quorum cost model),
`src/C/ROOT/forecaster.py` and `src/C/ROOT/train.py` (artifact reader and
writer). The design document is `spec.md`; section numbers below refer to it.

## The system and how its parts interact

One process per host runs `predict_leader.py`. Its `main()` thread builds a
`Forecaster` from three artifact files (model, scaler, meta), starts a
`ReloadWorker` thread, and loops. Each round asks the current forecaster
(through `ForecasterHolder`) for a forecast, turns it into domains
(`build_domains_from_pred_mean`), scores them (`find_optimal_leader`), and
records the decision in `BufferedPredictedLeaderWriter`. A "keep" decision is
only buffered. A "migrate" decision flushes the buffer to
`predicted_leaderA.csv`. Then it copies `raft_stats.csv` to the target
(`scp_to_host`), runs `etcdctl move-leader` (`move_leader_with_timing`),
deletes the local CSV, writes a metrics row, and exits. The finally block
stops the worker.

The `ReloadWorker` thread wakes every `interval_sec`. It asks
`ModelReloader.changed_and_stable()` whether the artifact signature (mtime or
hash of each file) has differed from the last loaded one for at least
`debounce_sec`. If so, it builds a new `Forecaster`, swaps it into the holder
under its lock, and calls `mark_loaded()`. The artifacts are rewritten in
place, one file after the other, by `train.py`, which `update.py` launches on
the leader host.

## Modules

| Module | Models | Source |
|---|---|---|
| `HotReload` | ModelReloader, ForecasterHolder, ReloadWorker, with train.py's saves and Forecaster's reads as environment | predict_leader.py 30-133, train.py 73-141, forecaster.py 14-22 |
| `HotReloadProofs` | TLAPS proof of HotReload's type invariant | |
| `ControlLoop` | main(), BufferedPredictedLeaderWriter, check_and_transfer_leader, scp_to_host, move_leader_with_timing | predict_leader.py 270-340, 371-557; leader_logger.py |
| `MCControlLoop` | three-host instance of ControlLoop | |
| `ControlLoopProofs` | TLAPS proofs of the decision-log, single-transfer and type invariants, the copy-before-move action property and the refinement of Controller | |
| `CostModel` | both cost models (Q: moveleader.py, P: predict_leader.py) and a sort-free reference of section 4.1 | moveleader.py 145-258, predict_leader.py 235-268 |
| `MCCostModel` | the deployment's latency matrix and every domain list the load projector can build | predict_leader.py 146-233 |
| `CheckLeader`, `MCCheckLeader` | the operator script check_leader.py, with the cluster's leader as environment | check_leader.py 7-176 |
| `CheckLeaderProofs` | TLAPS proofs of CheckLeader's type invariant on every host, of HistoryFollowsLeader on hosts other than the target's, and of the refinement of MigrationExecutor | |
| `MoveLeaderScript` | main() of moveleader.py (no run; see observations) | moveleader.py 78-143, 301-364 |
| `UpdateLoop` | the training trigger update.py, with leadership, CSV moves and appends as environment | update.py 38-163 |
| `Controller` | the spec's control loop (sections 4.4 and 4.5), which ControlLoop refines without an iteration cap | spec.md 4.4, 4.5 |
| `MigrationExecutor` | the spec's Migration Executor (section 4.5): copy, one unretried transfer, delete on success; with the theorem `KeepsHistory` | spec.md 4.5 |
| `UpdateLoopCall` | the abstract specification of main_loop, with snapshot_csv as one call that returns or raises | update.py 38-42, 77-95, 116-157 |
| `UpdateLoopProofs` | TLAPS proofs of UpdateLoop's type invariant and of its refinement of UpdateLoopCall | |

### HotReload

State:
- `files[a]`: the generation (training run) whose bytes file `a` holds, and
  whether that write has finished. The signature is this pair, because both
  mtime and hash change when a file is opened for writing and again when it is
  closed.
- `wgen`, `wnext`: the writer's generation and the next file it saves.
- `lastSig`, `pending`, `age`: `last_sig`, `last_seen_change_ts != 0.0`, and
  `now - last_seen_change_ts` saturated at `Debounce`.
- `slept`: time in the current `stop_evt.wait`, saturated at `Interval`.
- `wpc`, `loadIdx`, `built`: the worker's control point and the constructor's
  progress through the files.
- `holder`: the generations the live forecaster was built from.
- `stopEvt`: the stop event.

Actions:
- `BootLoad`, `BootFail`, `WorkerInit`: main's start-up loop. The first
  Forecaster reads the files one by one, a half-written file makes main start
  over, and `ReloadWorker.__init__` then calls `mark_loaded`. A save between
  the last read and `mark_loaded` is recorded as loaded although the live
  forecaster never read it (`ForecasterEventuallyCurrent`).
- `TrainFinish`, `SaveBegin`, `SaveEnd`: train.py.
- `Tick`: time passes.
- `PollUnchanged`, `PollFirstChange`, `PollDebouncing`, `PollStable`: the four
  branches of `changed_and_stable`.
- `LoadArtifact`: the constructor reads one file.
- `LoadFail`: the constructor reads a half-written file. It raises, and the
  exception is caught in `run`.
- `Publish`: `holder.set` followed by `mark_loaded`.
- `Stop`: `stop()`.
- `WorkerExit`: `wait` returns True and `run` ends.

Two abstractions:
- Time is only compared against `Interval` and `Debounce`, so two saturating
  clocks replace wall time.
- A forecaster is only the generations it read.

### ControlLoop

A round's outcome is the address `run_once_and_decide` returns, or `NoLeader`
when it returns `(True, None)`. That covers an empty forecast, no domains, no
optimum, or a caught exception. `SelfIp` is this host.

The log is `buffer` (memory) and `logFile` (rows on disk). The history
variable `decisions` holds every row passed to `record`. A row is the round
number (its timestamp) and the leader.

Actions:
- `InitOk`, `InitWorkerFail`: the start-up loop. A failing `Forecaster()` is a
  stutter.
- `KeepContinue`, `KeepExit`, `Move`: a round.
- `ScpFail`, `ScpOk`, `MoveLeader`, `RemoveSnapshot`, `WriteMetrics`: the
  migration, in code order. An scp failure raises out of `main`. A move-leader
  failure is caught.

`Controller` is the control loop as spec sections 4.4 and 4.5 describe it,
with the buffer and the migration's steps hidden:
- each tick records one decision (`Keep`, `Migrate`);
- nothing is persisted until `Migrate`, which persists every recorded
  decision at once;
- at most one `Transfer` follows, then `Terminate`;
- `CapReached` persists the buffer before terminating.
ControlLoop maps onto it through `CtlPhase` ("init", "tick", "migrate",
"terminated" by `pc`), with `decisions` as the recorded decisions,
`logFile` as the persisted log and `transfers` as the transfers.
`ControllerSpec` states the implementation. It has no run: with MAX_ITERS
= 5, as in ControlLoop_log, it fails at `KeepExit`, which is the finding
of ControlLoop_exitloss. It is proved for MAX_ITERS = 0 (see Proofs).

### CostModel

A domain is a record with id, address, nodes, read and write. Loads are
naturals in units of 1/`Scale` request, so `int(total*lat)` becomes
`((r+w)*lat) \div Scale`. The scan of `find_optimal_leader` is a fold with a
strict `<`. The first least-cost candidate therefore wins, and infeasible
candidates are skipped.

The reference `RefOptimal` restates section 4.1 without sorting or scanning:
- the commit latency is the least latency that `quorum-1` followers reach;
- the optimum is the first index whose cost no feasible candidate beats.

### CheckLeader

A member is an (address, port) pair, as in `IpToId`. `csv` is the set of
hosts holding `raft_stats.csv` (one fixed path per host). `leader` is the
cluster's leader and changes at any time (`LeaderChange`); `seen` is what
`get_leader` returned. Actions follow `main` and `moveleader_demo` in code
order: `IsLeader`/`NotLeader`, `Demo` (no target when the leader already is
38:2379), `ScpOk`/`ScpFail`, `MoveLeader` (sent to the endpoint seen; it
fails, uncaught, when that member no longer leads) and `Remove`.

`MigrationExecutor` is the executor of spec section 4.5 with the data hidden:
a stage ("idle", "copied", "moved", "done", "aborted"), the hosts holding the
snapshot, the transfers issued and the leader. CheckLeader implements it
(`ExecutorSpec`, through `Exec == INSTANCE MigrationExecutor WITH ...`):
`ExecStage` maps "status", "demo" and "scp" to "idle", "move" to "copied",
"remove" to "moved" and "crashed" to "aborted"; `history` is `csv`. The
script's `ScpOk` is the executor's `Copy`, `MoveLeader` its `Transfer`,
`Remove` its `Delete`, `LeaderChange` its `Elect`; a failed scp or move is an
abort. The control loop's migration (ControlLoop) does not implement this
specification: after a failed move it still deletes its snapshot, which is
the finding of ControlLoop_snapshot.

### MoveLeaderScript

`read_raft_stats` is reduced to what `main` distinguishes: an empty list
(`ReadNothing`) or domains, scored to some optimum (`ReadAndScore`).
`LookUpCurrentLeader` is the call `calculator.get_current_leader_ip()`, which
raises because the function is not a method.

### UpdateLoop

`pc` follows `main_loop` and `snapshot_csv`: the cycle wait (`WaitStop`,
`WaitDone`), the probe window (`ProbeFollower`, `ProbeLeader`,
`WindowClosed`), the snapshot (`SnapMissing`, `SnapStart`, `Stat1`, `Stat2`,
`Copy`, `SizeCheck`, with `FailAttempt` for the retry loop and `GiveUp` for
main's `except`) and `Train` (run_training, unlink, break). `Signal` is the
SIGINT/SIGTERM handler. The environment changes leadership
(`LeaderChange`), moves the CSV away or here (`CsvMoved`) and appends rows
(`Append`).

Two abstractions:
- A stat pair compares equal exactly when no write happened between the two
  stats, so the file is reduced to `touched`, "written since the last stat
  or copy".
- The wall-clock window is the number of probe-loop iterations that fit in
  it (`Window`). The retry loop of `snapshot_csv` does not test the deadline,
  so its attempts do not consume iterations, as in the code.

`snapshot` is the copy the current attempt made, and `leaked` records that an
earlier copy is still in SNAP_DIR.

`UpdateLoopCall` is what `main_loop` relies on of `snapshot_csv`. It is one
step, `Snapshot`, that either returns (only while the CSV exists here) or
raises and costs one window iteration, under the loop's weak fairness.
UpdateLoop implements it under the mapping `CallPc`, which folds "stat1",
"stat2", "copy" and "size" into "snap". The other variables map to
themselves: `touched`, `attempt` and the snapshot files are hidden. Under
this mapping:
- a retry and `SnapStart` are stuttering steps;
- `SizeCheck`'s success is the returning `Snapshot`;
- `SnapMissing` and the last `FailAttempt` are the raising `Snapshot`;
- `Append` is a stutter.
The refinement's fairness part says the retry loop always returns to
`main_loop`.

## Runs

| Run | Checks | Expect | Shows |
|---|---|---|---|
| HotReload_settles | TypeOK, ReloadSettles | pass | once the files stop changing, last_sig ends equal to the disk (no lost change, no endless reload) |
| HotReload_mixed | ConsistentForecaster | violation | a reload overlapping a save publishes a forecaster mixing two training runs |
| HotReload_stale | ForecasterEventuallyCurrent | violation | at start-up, mark_loaded (line 118) records a save the first Forecaster never read; the forecaster stays stale for ever |
| ControlLoop_log | TypeOK, DecisionLogExact, TransferAtMostOnce, MoveAfterCopy | pass | the log is exact; move-leader is issued at most once, and only after the scp copy reached the target |
| ControlLoop_exitloss | NoDecisionLostOnExit | violation | the MAX_ITERS exit drops the buffer |
| ControlLoop_snapshot | SnapshotKeptUnlessMoved | violation | the CSV is deleted after a failed move-leader |
| CostModel_quorum | QuorumModelCorrect, OrderIndependentCost | pass | moveleader.py computes the section 4.1 optimum and its cost; the optimal cost does not depend on candidate order (both variants) |
| CostModel_variant | ControlLoopUsesQuorumModel | violation | the control loop's cost model picks other leaders than section 4.1 |
| CheckLeader_remote | TypeOK, HistoryFollowsLeader, ExecutorSpec | pass | from host .82, the CSV is deleted only after a successful move and a copy on the new leader's host, under any elections; the script implements MigrationExecutor |
| CheckLeader_samehost | HistoryFollowsLeader | violation | on host .38 with 38:3379 leading, the copy goes to the same host and the only history is deleted |
| UpdateLoop_stop | TypeOK, StopHonoured, CallSpec | pass | after SIGTERM, main_loop returns whatever the cluster and the CSV do; the loop implements UpdateLoopCall, fairness included |
| UpdateLoop_leak | SnapshotsCleaned | violation | a failed size check leaves its copy in SNAP_DIR |

### Bounds and why they are enough

- **HotReload_settles**: MaxGen = 2, Interval = 1, Debounce = 2, 19965 states.
  - A debounce longer than the poll interval makes every poll branch fire:
    first sighting, debouncing, stable, and unchanged.
  - Two retrainings let a save overlap a reload after a previous reload has
    already happened.
- **HotReload_mixed** and **HotReload_stale**: Interval = 3, Debounce = 1.
  This lets a reload start between two file saves.
- **ControlLoop_log**: MAX_ITERS = 5 with three hosts, so every round can keep
  or migrate.
  - Keeps happen before a move, and the cap's exit is reachable.
  - The two remote hosts are symmetric.
- **CostModel_quorum**: every list of up to four domains, in sorted id order,
  with two nodes on one host. Mean loads are 0, 0.5 or 1 for reads and writes
  (6561 lists).
  - This reaches quorum sizes 1, 2 and 3.
  - It reaches followers at latency 0 (same host) and ties between candidates.
  - Order independence is checked over all 24 orderings of each list (1m43s).
- **CheckLeader_remote**: three hosts, two ports each (6 members), every
  initial leader, the CSV present or absent, and any number of elections
  while the script runs: 164 states. That reaches a leader change between
  `get_leader` and `move-leader`.
- **UpdateLoop_stop**: `Window` = 3, `Retry` = 2, 1552 states. A window
  sees a follower probe, a failed snapshot and a retried one. Two attempts
  are enough to reach both the retry and the give-up branch of every
  failure point.

### Fairness

HotReload's `FairSpec` makes `Tick`, the worker's actions, `SaveBegin` and
`SaveEnd` weakly fair:
- the worker is a thread whose timed wait expires;
- train.py, once saving, finishes.

`TrainFinish` and `Stop` get no fairness. When training runs and when main
stops are decided outside this module.

UpdateLoop's `Spec` makes the whole loop weakly fair: it is a single
process whose sleeps end. `Signal`, leadership, CSV moves and appends get no
fairness; the property must hold however they behave.

`CHECK_DEADLOCK FALSE` is set because the system really ends: the worker
returns after `stop()`, and main terminates by a break or an exception.

## Findings

1. **Mixed forecaster** (`predict_leader.py:426`, and 128 in the worker).
   - train.py saves the three files in place, one after the other, and the
     constructor reads them one after the other.
   - The constructor can read a new model with an old meta.
   - TLC's shortest trace is main's start-up constructor (line 426, published
     at 429). The worker's rebuild at line 128 reads the files the same way.
   - Section 3 forbids this. The ModelReloader docstring assumes atomic-rename
     publishing, which train.py does not do.
2. **Change marked loaded but never loaded** (`predict_leader.py:118`).
   - At start-up, main builds the Forecaster (line 426) before it constructs
     ReloadWorker. ReloadWorker then takes the signature (line 45) and calls
     `mark_loaded` (line 118), which takes a fresh signature of the files as
     they are then.
   - A save that lands after the constructor read the files is therefore
     recorded as loaded, and the stale forecaster stays live. This is
     HotReload_stale's trace.
   - The fix is to take the signature before the files are read, and to hand
     it to `mark_loaded`.
   - `ReloadWorker.run` repeats the pattern at line 130, where `mark_loaded`
     follows the rebuild.
   - Section 4.3 sets `lastLoadedSignature` to the signature that was loaded.
3. **Buffered decisions lost at MAX_ITERS** (`predict_leader.py:489`). There is
   no `flush_remaining()`; section 4.4 says flush.
4. **Snapshot deleted after a failed transfer** (`predict_leader.py:306`).
   Section 4.5 deletes the snapshot only on success.
5. **The production loop does not use the section 4.1 model**
   (`predict_leader.py:241`).
   - With two write-only domains of loads 0.5 and 1, the point-to-point model
     moves leadership to the second domain.
   - The quorum model keeps the first.
6. **check_leader.py deletes the only history** (`check_leader.py:80`). On
   host .38 with member 38:3379 leading, the fixed target 38:2379 is on the
   same host; scp copies the file onto itself and `os.remove` deletes it.
7. **Snapshot copies leak** (`update.py:89`). A size mismatch after
   `copy2` raises inside the retry loop and the copy stays in SNAP_DIR. An
   append, or a migration deleting the CSV between the copy and the stat,
   is enough. Only the copy that reaches training is unlinked.

Observations made while modelling, without a run:
- **moveleader.py never transfers** (`moveleader.py:336`).
  `calculator.get_current_leader_ip()` calls a module-level function as a
  method. The AttributeError ends `main` whenever domains were read. Any one
  execution shows it, so no run is spent on it. `MoveLeaderScript` keeps the
  control structure.
- **The spec fixture is miscomputed** (section 8). `QCost` of candidate A on
  the fixture gives T(A) = 60 + 40 + 210 = 310, not 320.

## Proofs

TLAPS proves thirteen theorems, for every value of the constants:

- `HotReloadProofs!TypeCorrect`: `Spec => []TypeOK`.
  - TypeOK is inductive as it stands.
  - The proof has one step per action.
  - It uses a lemma on the artifact list and a lemma that `SatInc` stays in
    `0..cap`.
- `ControlLoopProofs!DecisionLogCorrect`: `Spec => []DecisionLogExact`.
- `ControlLoopProofs!SingleTransfer`: `Spec => []TransferAtMostOnce`.
- `ControlLoopProofs!TypeCorrect`: `Spec => []TypeOK`, from the same
  inductive invariant.
- `ControlLoopProofs!MoveFollowsCopy`: `Spec => MoveAfterCopy`, an action
  property. It rests on `CopyFirst`: the local snapshot exists from
  start-up until "remove", and the remote copy exists at "move". Every
  step except `MoveLeader` keeps `transfers`
  (`StepMoveAfterCopy`), and `MoveLeader` runs from "move".
- `ControlLoopProofs!ControllerRefinement`: under the hypothesis
  MAX_ITERS = 0, `Spec => ControllerSpec`. The initial states map to
  Controller's. With `IInv`, every step maps to a Controller step or a
  stutter (`NextCtl`, with `KeepCtl` and `MoveCtl`):
  - `Move` persists exactly the history, because the file was empty and the
    buffer was the history;
  - `MoveLeader` is the only `Transfer`, because `Phase` says nothing was
    transferred before it;
  - `ScpOk` and `RemoveSnapshot` are stutters.
  `KeepExit` cannot fire under the hypothesis. Without it the theorem is
  false: TLC, on MCControlLoop with MAX_ITERS = 3, finds the refinement
  violated at `KeepExit`, whose exit loses the buffer. With MAX_ITERS = 0 it
  found no violation (187 states) before the proof.
- `CheckLeaderProofs!TypeCorrect`: `Spec => []TypeOK` on every host, without
  `RemoteHistorySafe`'s hypothesis. The invariant `TInv` adds
  `NotYetMoved`: before "move" returns nothing has been transferred.
- `CheckLeaderProofs!RemoteHistorySafe`: under the hypothesis
  `Target[1] # LocalHost`, `Spec => []HistoryFollowsLeader`. The hypothesis
  is exactly what CheckLeader_samehost breaks. The inductive invariant adds
  `Copied`: from "move" on the copy is on the target host, "remove" is only
  reached after a successful move, and before "move" returns nothing has
  been transferred (so `transfers` stays in 0..1).
- `CheckLeaderProofs!ExecutorRefinement`: `Spec => ExecutorSpec` on every
  host, with no hypothesis. The initial states map to the executor's
  (`InitExec`), and every step maps to an executor step or a stutter
  (`NextExec`). `MoveLeader` maps to `Transfer` (`MoveLeaderExec`), whose
  guard `transfers = 0` needs `TInv`'s `NotYetMoved`. TLC found no
  violation on CheckLeader_remote before the proof.
- `MigrationExecutor!KeepsHistory`: for any executor of section 4.5 whose
  target host is not its own, `SafeSpec => CopyBeforeDelete`: the step that
  deletes the local snapshot leaves the copy on the target host. It rests on
  the invariant `Staged` (lemma `StagedInvariant`): from the copy until the
  deletion the target host holds the snapshot.
- `CheckLeaderProofs!RemoteCopyBeforeDelete`: under `Target[1] # LocalHost`,
  `Spec => Exec!CopyBeforeDelete`. It is `KeepsHistory` carried to
  check_leader.py by `ExecutorRefinement`, a second argument, independent of
  `Copied`, for what `RemoteHistorySafe` states of every state.
- `UpdateLoopProofs!TypeCorrect`: `Spec => []TypeOK`. TypeOK is not
  inductive: `GiveUp` decrements `left`, so the invariant adds `SnapHasTime`
  (while snapshot_csv runs, `left > 0`, because `ProbeLeader` requires it and
  nothing spends it before the give-up). The lemma `FailAttemptIInv` covers
  the retry step shared by `Stat1`, `Stat2`, `Copy` and `SizeCheck`.
- `UpdateLoopProofs!CallRefinement`: `Spec => Call!SafeSpec`. The initial
  states map to UpdateLoopCall's, and every step maps to an abstract step or
  a stutter (`NextCall`, with the lemmas `AttemptStutters` and
  `FailAttemptCall`). No invariant is needed. The fairness part of the
  refinement, and with it the termination of the retry loop, is checked by TLC only
  (`CallSpec` in UpdateLoop_stop).

The two ControlLoop theorems rest on the inductive invariant
`IInv == TypeOK /\ DecisionLogExact /\ TransferAtMostOnce /\ Phase`. `Phase`
ties the control point to the log and the transfer count:
- during start-up and the loop, the file is empty and nothing has been
  transferred;
- at scp and move, nothing has been transferred yet;
- from scp on, the file is non-empty.

Without `Phase`, a `Move` step could not know that the file was empty, so
file ++ buffer = history would not carry over. `MoveLeader` could not know it
runs for the first time. TLC checked IInv as an invariant of ControlLoop_log's
instance before the proof.

The proofs use these lemmas:
- `KeepIInv` and `MoveIInv`: one round, cited by `NextIInv`;
- `InitCopyFirst`, `NextCopyFirst`, `InitTInv`, `NextTInv`, `InitCtl`,
  `InitExec`, `MoveLeaderExec`, `NextExec`, `StagedInvariant`:
  initial states and steps of the further invariants and the refinement;
- `ConcatEmptySeq`, `AppendProperties`, `ElementOfSeq` and `EmptySeq` from
  SequenceTheorems.

Only TLC checks these:
- the liveness properties `ReloadSettles`, `StopHonoured` and the fairness
  part of `CallSpec`, which are out of the provers' reach;
- the cost-model properties. `CostModel` uses `FoldLeft` and `SortSeq`, which
  are recursive, so no theorem may reach it.

## Not modelled, and the plan

- UpdateLoop composed with HotReload's writer (training on a host that has
  lost leadership). No property of the system tells the two apart yet: the
  control loop of a former leader has exited.
- The worker-start failure (`predict_leader.py:441`): `Forecaster()`
  succeeded, `ReloadWorker()` or `start()` raised, the start-up loop still
  ends and the process runs without hot reload. ControlLoop has the step
  (`InitWorkerFail`); HotReload does not, because the only failure of
  `ReloadWorker()` is a missing artifact file, which train.py's in-place
  saves never cause.
- A cluster model: leadership, several controllers, move-leader addressed at
  this host's endpoint (check_leader.py's environment already lets the leader
  change at any time).
- Other refinements:
  - HotReload's holder refining an abstract atomic forecaster cell;
  - a non-atomic `_signature` refining the one-step signature.
- Not modelled at all: the ML internals (`ts_common.py`, training, prediction
  numerics) and the workload drivers (`rotate_ycsb.py`, `ymc.py`, `cycle.py`,
  `recordIP.py`).
