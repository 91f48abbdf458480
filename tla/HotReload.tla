----------------------------- MODULE HotReload -----------------------------
(***************************************************************************)
(* The forecaster hot-reload subsystem of src/A/ROOT/predict_leader.py:    *)
(*   ModelReloader    (signature, debounce: changed_and_stable/mark_loaded) *)
(*   ForecasterHolder (the lock-guarded reference to the live forecaster)  *)
(*   ReloadWorker.run (poll every interval, rebuild, swap, mark loaded)    *)
(* and, as its environment, the writer of the three artifact files:        *)
(* train.py saves model, scaler and meta one after the other, in place     *)
(* (src/C/ROOT/train.py), and the Forecaster constructor reads them in the *)
(* same order (src/C/ROOT/forecaster.py).                                  *)
(*                                                                         *)
(* A file is abstracted to the generation (training run) whose bytes it    *)
(* holds and whether that write has finished; its signature (mtime, or the *)
(* sha256 digest) is that pair, which changes at every open and close.     *)
(* A forecaster is abstracted to the generation it read from each file.   *)
(* Time is abstracted to two saturating clocks: the time the worker has   *)
(* slept since its last iteration, and now - last_seen_change_ts.          *)
(***************************************************************************)
EXTENDS Naturals, Sequences

CONSTANTS
    MaxGen,     \* number of retrainings the writer may publish (bound)
    Interval,   \* ReloadWorker interval_sec, in clock ticks
    Debounce    \* ModelReloader debounce_sec, in clock ticks

ASSUME ConstantsAssumption ==
    /\ MaxGen \in Nat
    /\ Interval \in Nat \ {0}
    /\ Debounce \in Nat

\* The artifacts in the order train.py writes them and Forecaster reads them.
ArtifactOrder == <<"model", "scaler", "meta">>
NArtifacts == Len(ArtifactOrder)
Artifacts == {ArtifactOrder[i] : i \in 1..NArtifacts}

Gen == 0..MaxGen
FileState == [gen : Gen, done : BOOLEAN]

VARIABLES
    files,      \* files[a]: generation held by artifact file a, write finished?
    wgen,       \* generation the writer (train.py) is saving or last saved
    wnext,      \* index of the next artifact the writer saves; NArtifacts+1: idle
    lastSig,    \* ModelReloader.last_sig
    pending,    \* ModelReloader.last_seen_change_ts # 0.0
    age,        \* now - last_seen_change_ts, saturated at Debounce
    slept,      \* time since the worker's stop_evt.wait began, saturated at Interval
    wpc,        \* control point: main's start-up ("boot", "init"), then the
                \* worker's "wait", "load", "publish", "exited"
    loadIdx,    \* index of the artifact the Forecaster constructor reads next
    built,      \* generations read so far by the constructor in progress
    holder,     \* ForecasterHolder._f: generations the live forecaster was built from
    stopEvt     \* ReloadWorker.stop_evt is set

writerVars == <<files, wgen, wnext>>
reloaderVars == <<lastSig, pending, age>>
workerVars == <<slept, wpc, loadIdx, built, holder, stopEvt>>
vars == <<writerVars, reloaderVars, workerVars>>

\* Mutant: a clock that is not saturated.
SatIncUncapped(x, cap) == x + 1

SatInc(x, cap) == IF x < cap THEN x + 1 ELSE cap

\* ModelReloader._signature(): one comparable fingerprint per artifact.
Signature == files

TypeOK ==
    /\ files \in [Artifacts -> FileState]
    /\ wgen \in Gen
    /\ wnext \in 1..(NArtifacts + 1)
    /\ lastSig \in [Artifacts -> FileState]
    /\ pending \in BOOLEAN
    /\ age \in 0..Debounce
    /\ slept \in 0..Interval
    /\ wpc \in {"boot", "init", "wait", "load", "publish", "exited"}
    /\ loadIdx \in 1..NArtifacts
    /\ built \in [Artifacts -> Gen]
    /\ holder \in [Artifacts -> Gen]
    /\ stopEvt \in BOOLEAN

(***************************************************************************)
(* Initial state: the artifacts of generation 0 are on disk and main() is *)
(* about to build the first Forecaster.  holder and lastSig hold no value *)
(* the properties read before "boot" ends; they start as generation 0.     *)
(***************************************************************************)
Init ==
    /\ files = [a \in Artifacts |-> [gen |-> 0, done |-> TRUE]]
    /\ wgen = 0
    /\ wnext = NArtifacts + 1
    /\ lastSig = files
    /\ pending = FALSE
    /\ age = 0
    /\ slept = 0
    /\ wpc = "boot"
    /\ loadIdx = 1
    /\ built = [a \in Artifacts |-> 0]
    /\ holder = [a \in Artifacts |-> 0]
    /\ stopEvt = FALSE

-----------------------------------------------------------------------------
(* The artifact writer: train.py after model.fit.                         *)

\* Training finishes; train.py is about to save a new generation.
TrainFinish ==
    /\ wnext = NArtifacts + 1
    /\ wgen < MaxGen
    /\ wgen' = wgen + 1
    /\ wnext' = 1
    /\ UNCHANGED <<files, reloaderVars, workerVars>>

\* model.save / dump(scaler) / open(meta, "w"): the file is truncated and
\* its new content is being written.
SaveBegin ==
    LET a == ArtifactOrder[wnext] IN
    /\ wnext <= NArtifacts
    /\ files[a].done
    /\ files' = [files EXCEPT ![a] = [gen |-> wgen, done |-> FALSE]]
    /\ UNCHANGED <<wgen, wnext, reloaderVars, workerVars>>

\* The write of that file completes.
SaveEnd ==
    LET a == ArtifactOrder[wnext] IN
    /\ wnext <= NArtifacts
    /\ ~files[a].done
    /\ files' = [files EXCEPT ![a] = [gen |-> files[a].gen, done |-> TRUE]]
    /\ wnext' = wnext + 1
    /\ UNCHANGED <<wgen, reloaderVars, workerVars>>

-----------------------------------------------------------------------------
(* main()'s start-up loop: "while forecaster is None: try: Forecaster(...)".*)

\* The constructor reads the next artifact; after the last one main wraps
\* the new forecaster in ForecasterHolder.
BootLoad ==
    LET a == ArtifactOrder[loadIdx] IN
    /\ wpc = "boot"
    /\ files[a].done
    /\ built' = [built EXCEPT ![a] = files[a].gen]
    /\ IF loadIdx < NArtifacts
         THEN /\ loadIdx' = loadIdx + 1
              /\ UNCHANGED <<wpc, holder>>
         ELSE /\ loadIdx' = loadIdx
              /\ wpc' = "init"
              /\ holder' = built'
    /\ UNCHANGED <<writerVars, reloaderVars, slept, stopEvt>>

\* A half-written artifact raises; main logs, sleeps 30 s and starts over.
BootFail ==
    LET a == ArtifactOrder[loadIdx] IN
    /\ wpc = "boot"
    /\ ~files[a].done
    /\ loadIdx' = 1
    /\ UNCHANGED <<writerVars, reloaderVars, slept, wpc, built, holder, stopEvt>>

\* ReloadWorker.__init__ ends with guard.mark_loaded(), a fresh signature
\* of the files as they are now; reload_worker.start() then begins run().
WorkerInit ==
    /\ wpc = "init"
    /\ lastSig' = Signature
    /\ pending' = FALSE
    /\ age' = 0
    /\ wpc' = "wait"
    /\ slept' = 0
    /\ loadIdx' = 1
    /\ UNCHANGED <<writerVars, built, holder, stopEvt>>

-----------------------------------------------------------------------------
(* Time passes: the worker's wait and the debounce window both advance.   *)
Tick ==
    /\ \/ wpc = "wait" /\ slept < Interval
       \/ pending /\ age < Debounce
    /\ slept' = IF wpc = "wait" THEN SatInc(slept, Interval) ELSE slept
    /\ age' = IF pending THEN SatInc(age, Debounce) ELSE age
    /\ UNCHANGED <<writerVars, lastSig, pending, wpc, loadIdx, built, holder, stopEvt>>

-----------------------------------------------------------------------------
(* ReloadWorker.run: stop_evt.wait(interval) timed out, so the worker     *)
(* calls guard.changed_and_stable(); one action per branch of it.         *)
PollGuard ==
    /\ wpc = "wait"
    /\ slept = Interval
    /\ ~stopEvt

\* cur == last_sig: clear the debounce timestamp.
PollUnchanged ==
    /\ PollGuard
    /\ Signature = lastSig
    /\ pending' = FALSE
    /\ age' = 0
    /\ slept' = 0
    /\ UNCHANGED <<writerVars, lastSig, wpc, loadIdx, built, holder, stopEvt>>

\* First sighting of a difference: remember when.
PollFirstChange ==
    /\ PollGuard
    /\ Signature # lastSig
    /\ ~pending
    /\ pending' = TRUE
    /\ age' = 0
    /\ slept' = 0
    /\ UNCHANGED <<writerVars, lastSig, wpc, loadIdx, built, holder, stopEvt>>

\* A difference seen before, but less than debounce_sec ago.
PollDebouncing ==
    /\ PollGuard
    /\ Signature # lastSig
    /\ pending
    /\ age < Debounce
    /\ slept' = 0
    /\ UNCHANGED <<writerVars, reloaderVars, wpc, loadIdx, built, holder, stopEvt>>

\* Changed and stable: the worker calls self.ctor() to build a new forecaster.
PollStable ==
    /\ PollGuard
    /\ Signature # lastSig
    /\ pending
    /\ age >= Debounce
    /\ wpc' = "load"
    /\ loadIdx' = 1
    /\ UNCHANGED <<writerVars, reloaderVars, slept, built, holder, stopEvt>>

(* Forecaster.__init__ reads the artifacts one at a time.  Reading a file *)
(* whose write has not finished raises; run() catches the exception, keeps *)
(* the old forecaster and leaves last_sig and last_seen_change_ts as they *)
(* are, so the next poll retries at once.                                  *)
LoadArtifact ==
    LET a == ArtifactOrder[loadIdx] IN
    /\ wpc = "load"
    /\ files[a].done
    /\ built' = [built EXCEPT ![a] = files[a].gen]
    /\ IF loadIdx < NArtifacts
         THEN loadIdx' = loadIdx + 1 /\ wpc' = "load"
         ELSE loadIdx' = loadIdx /\ wpc' = "publish"
    /\ UNCHANGED <<writerVars, reloaderVars, slept, holder, stopEvt>>

LoadFail ==
    LET a == ArtifactOrder[loadIdx] IN
    /\ wpc = "load"
    /\ ~files[a].done
    /\ wpc' = "wait"
    /\ slept' = 0
    /\ UNCHANGED <<writerVars, reloaderVars, loadIdx, built, holder, stopEvt>>

\* Mutant: the swap without guard.mark_loaded().
PublishUnmarked ==
    /\ wpc = "publish"
    /\ holder' = built
    /\ wpc' = "wait"
    /\ slept' = 0
    /\ UNCHANGED <<writerVars, reloaderVars, loadIdx, built, stopEvt>>

\* holder.set(fnew) under the lock, then guard.mark_loaded(), which takes a
\* fresh signature of the files as they are now.
Publish ==
    /\ wpc = "publish"
    /\ holder' = built
    /\ lastSig' = Signature
    /\ pending' = FALSE
    /\ age' = 0
    /\ wpc' = "wait"
    /\ slept' = 0
    /\ UNCHANGED <<writerVars, loadIdx, built, stopEvt>>

\* ReloadWorker.stop(), called from main's finally block, which the main
\* loop reaches only after start-up.
Stop ==
    /\ wpc \notin {"boot", "init"}
    /\ ~stopEvt
    /\ stopEvt' = TRUE
    /\ UNCHANGED <<writerVars, reloaderVars, slept, wpc, loadIdx, built, holder>>

\* stop_evt.wait returns True at once when the event is set: run() returns.
WorkerExit ==
    /\ wpc = "wait"
    /\ stopEvt
    /\ wpc' = "exited"
    /\ UNCHANGED <<writerVars, reloaderVars, slept, loadIdx, built, holder, stopEvt>>

-----------------------------------------------------------------------------
Writer == TrainFinish \/ SaveBegin \/ SaveEnd

Poll == PollUnchanged \/ PollFirstChange \/ PollDebouncing \/ PollStable

Boot == BootLoad \/ BootFail \/ WorkerInit

Worker == Poll \/ LoadArtifact \/ LoadFail \/ Publish \/ WorkerExit

Next == Writer \/ Boot \/ Tick \/ Worker \/ Stop

(* Fairness.  main's start-up loop runs until it has a forecaster, and   *)
(* the worker is a thread that is scheduled and whose timed wait expires, *)
(* so they and the clock are weakly fair.  Once train.py has  *)
(* begun saving it finishes, so SaveBegin/SaveEnd are weakly fair; when   *)
(* training happens (TrainFinish) and whether main stops the worker are   *)
(* decided outside this module and get no fairness.                       *)
Fairness ==
    /\ WF_vars(Boot)
    /\ WF_vars(Tick)
    /\ WF_vars(Worker)
    /\ WF_vars(SaveBegin)
    /\ WF_vars(SaveEnd)

Spec == Init /\ [][Next]_vars

FairSpec == Spec /\ Fairness

-----------------------------------------------------------------------------
(* Properties                                                              *)

\* The writer has finished saving everything it will save for now.
ArtifactsComplete == \A a \in Artifacts : files[a].done

\* Generations of the files on disk.
FileGens == [a \in Artifacts |-> files[a].gen]

(* Spec section 3: the forecaster a tick observes is internally consistent: *)
(* its model, scaler and metadata come from one training run.  Threatened *)
(* by the in-place, one-file-at-a-time saves of train.py against the       *)
(* file-by-file reads of the Forecaster constructor.                      *)
ConsistentForecaster ==
    \A a, b \in Artifacts : holder[a] = holder[b]

(* Once the artifacts stop changing, the reloader eventually settles with *)
(* last_sig equal to what is on disk: no change stays undetected forever  *)
(* and no reload is repeated forever (changed_and_stable + mark_loaded).  *)
ReloadSettles ==
    <>[](stopEvt \/ lastSig = Signature)

(* Once the artifacts stop changing, the live forecaster is eventually    *)
(* built from exactly the files on disk.  Threatened by mark_loaded       *)
(* re-reading the signature after the (slow) constructor returned, which  *)
(* can record as loaded a write the constructor never read.               *)
ForecasterEventuallyCurrent ==
    <>[](stopEvt \/ holder = FileGens)

=============================================================================
