-------------------------- MODULE HotReloadProofs --------------------------
(***************************************************************************)
(* Proofs about the hot-reload model: every step of the writer, the clock, *)
(* the ReloadWorker thread and main's stop() keeps each variable in its    *)
(* type, for every MaxGen, Interval and Debounce.                          *)
(***************************************************************************)
EXTENDS HotReload, TLAPS

\* The three artifacts, by name and by position.
LEMMA ArtifactFacts ==
    /\ NArtifacts = 3
    /\ Artifacts = {"model", "scaler", "meta"}
    /\ \A i \in 1..NArtifacts : ArtifactOrder[i] \in Artifacts
BY DEF NArtifacts, Artifacts, ArtifactOrder

\* A saturating increment stays within 0..cap.
LEMMA SatIncBounded ==
    ASSUME NEW x \in Nat, NEW cap \in Nat, x <= cap
    PROVE  SatInc(x, cap) \in 0..cap
BY DEF SatInc

(* main's start-up loop, ModelReloader, ReloadWorker and the artifact     *)
(* writer keep every variable in its type: generations within 0..MaxGen,  *)
(* the writer's and the constructors' positions within the artifact list, *)
(* the saturating clocks within 0..Interval and 0..Debounce.              *)
THEOREM TypeCorrect == Spec => []TypeOK
<1> USE ConstantsAssumption DEF ConstantsAssumption, writerVars, reloaderVars, workerVars
<1>1. Init => TypeOK
  <2> SUFFICES ASSUME Init PROVE TypeOK
    OBVIOUS
  <2>1. files \in [Artifacts -> FileState]
    BY DEF Init, FileState, Gen
  <2>2. NArtifacts = 3
    BY ArtifactFacts
  <2>3. pending \in BOOLEAN /\ stopEvt \in BOOLEAN
    BY DEF Init
  <2>4. QED
    BY <2>1, <2>2, <2>3 DEF Init, TypeOK, Gen
<1>2. TypeOK /\ [Next]_vars => TypeOK'
  <2> SUFFICES ASSUME TypeOK, [Next]_vars PROVE TypeOK'
    OBVIOUS
  <2>1. CASE TrainFinish
    BY <2>1 DEF TrainFinish, TypeOK, Gen
  <2>2. CASE SaveBegin
    BY <2>2, ArtifactFacts DEF SaveBegin, TypeOK, FileState, Gen
  <2>3. CASE SaveEnd
    BY <2>3, ArtifactFacts DEF SaveEnd, TypeOK, FileState
  <2>4. CASE Tick
    <3>1. slept' \in 0..Interval
      BY <2>4, SatIncBounded DEF Tick, TypeOK
    <3>2. age' \in 0..Debounce
      BY <2>4, SatIncBounded DEF Tick, TypeOK
    <3>3. QED
      BY <2>4, <3>1, <3>2 DEF Tick, TypeOK
  <2>5. CASE PollUnchanged
    <3>1. age' \in 0..Debounce /\ slept' \in 0..Interval
      BY <2>5 DEF PollUnchanged
    <3>2. pending' \in BOOLEAN
      BY <2>5 DEF PollUnchanged
    <3>3. files' = files /\ wgen' = wgen /\ wnext' = wnext
      BY <2>5 DEF PollUnchanged
    <3>4. lastSig' = lastSig /\ wpc' = wpc /\ loadIdx' = loadIdx
      BY <2>5 DEF PollUnchanged
    <3>5. built' = built /\ holder' = holder /\ stopEvt' = stopEvt
      BY <2>5 DEF PollUnchanged
    <3>6. QED
      BY <3>1, <3>2, <3>3, <3>4, <3>5 DEF TypeOK
  <2>6. CASE PollFirstChange
    BY <2>6 DEF PollFirstChange, PollGuard, TypeOK
  <2>7. CASE PollDebouncing
    BY <2>7 DEF PollDebouncing, PollGuard, TypeOK
  <2>8. CASE PollStable
    BY <2>8, ArtifactFacts DEF PollStable, PollGuard, TypeOK
  <2>9. CASE LoadArtifact
    BY <2>9, ArtifactFacts DEF LoadArtifact, TypeOK, FileState, Gen
  <2>10. CASE LoadFail
    BY <2>10 DEF LoadFail, TypeOK
  <2>11. CASE Publish
    <3>1. pending' \in BOOLEAN /\ stopEvt' = stopEvt
      BY <2>11 DEF Publish
    <3>2. QED
      BY <2>11, <3>1 DEF Publish, TypeOK, Signature
  <2>12. CASE Stop
    BY <2>12 DEF Stop, TypeOK
  <2>13. CASE WorkerExit
    BY <2>13 DEF WorkerExit, TypeOK
  <2>14. CASE UNCHANGED vars
    BY <2>14 DEF vars, writerVars, reloaderVars, workerVars, TypeOK
  <2>15. CASE BootLoad
    <3>1. built' \in [Artifacts -> Gen]
      BY <2>15, ArtifactFacts DEF BootLoad, TypeOK, FileState
    <3>2. holder' \in [Artifacts -> Gen] /\ loadIdx' \in 1..NArtifacts
      BY <2>15, <3>1, ArtifactFacts DEF BootLoad, TypeOK
    <3>3. QED
      BY <2>15, <3>1, <3>2 DEF BootLoad, TypeOK
  <2>16. CASE BootFail
    BY <2>16, ArtifactFacts DEF BootFail, TypeOK
  <2>17. CASE WorkerInit
    <3>1. pending' \in BOOLEAN /\ stopEvt' = stopEvt
      BY <2>17 DEF WorkerInit
    <3>2. QED
      BY <2>17, <3>1, ArtifactFacts DEF WorkerInit, TypeOK, Signature
  <2>18. QED
    BY <2>1, <2>2, <2>3, <2>4, <2>5, <2>6, <2>7, <2>8, <2>9, <2>10, <2>11,
       <2>12, <2>13, <2>14, <2>15, <2>16, <2>17 DEF Next, Writer, Boot, Poll, Worker
<1>3. QED
  BY <1>1, <1>2, PTL DEF Spec

=============================================================================
