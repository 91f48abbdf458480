-------------------------- MODULE UpdateLoopProofs --------------------------
(***************************************************************************)
(* Proofs about update.py's training loop for every window length and     *)
(* every retry count: the loop's counters stay in their ranges, and every *)
(* step of main_loop and snapshot_csv is, for main_loop, a step of the     *)
(* single-call specification UpdateLoopCall or no step at all.             *)
(***************************************************************************)
EXTENDS UpdateLoop, TLAPS

\* snapshot_csv is entered only from a window iteration with time left,
\* and the window counter is only spent by its failure.
SnapHasTime == pc \in {"snap", "stat1", "stat2", "copy", "size"} => left > 0

\* The inductive invariant.
IInv == TypeOK /\ SnapHasTime

LEMMA InitIInv == Init => IInv
<1> SUFFICES ASSUME Init PROVE IInv
  OBVIOUS
<1>1. /\ pc = "wait" /\ attempt = 1 /\ left = 0
      /\ stop = FALSE /\ touched = FALSE /\ snapshot = FALSE /\ leaked = FALSE
  BY DEF Init
<1>2. leader \in BOOLEAN /\ csv \in BOOLEAN
  BY DEF Init
<1>3. attempt \in 1..Retry /\ left \in 0..Window /\ pc \in PCs
  BY <1>1, BoundsAssumption DEF PCs
<1>4. QED
  BY <1>1, <1>2, <1>3 DEF IInv, TypeOK, SnapHasTime

(* A failed attempt either starts the next one or gives up, spending one  *)
(* window iteration; in both cases the counters stay in range.            *)
LEMMA FailAttemptIInv ==
    ASSUME IInv, pc \in {"stat1", "stat2", "copy", "size"}, FailAttempt,
           UNCHANGED <<stop, leader, csv>>, touched' \in BOOLEAN
    PROVE  IInv'
<1> USE BoundsAssumption
<1>1. CASE attempt < Retry
  BY <1>1 DEF FailAttempt, IInv, TypeOK, SnapHasTime, snapVars, PCs
<1>2. CASE ~(attempt < Retry)
  <2>1. GiveUp /\ attempt' = attempt
    BY <1>2 DEF FailAttempt
  <2>2. left > 0
    BY DEF IInv, SnapHasTime
  <2>3. pc' = "probe" /\ left' \in 0..Window
    BY <2>1, <2>2 DEF GiveUp, IInv, TypeOK
  <2>4. snapshot' \in BOOLEAN /\ leaked' \in BOOLEAN
    BY <2>1 DEF GiveUp, IInv, TypeOK
  <2>5. QED
    BY <2>1, <2>3, <2>4 DEF IInv, TypeOK, SnapHasTime, PCs
<1>3. QED
  BY <1>1, <1>2

LEMMA NextIInv == IInv /\ [Next]_vars => IInv'
<1> SUFFICES ASSUME IInv, [Next]_vars PROVE IInv'
  OBVIOUS
<1> USE BoundsAssumption
<1>1. CASE WaitStop
  BY <1>1 DEF WaitStop, IInv, TypeOK, SnapHasTime, PCs, envVars, snapVars
<1>12. CASE WaitDone
  BY <1>12 DEF WaitDone, IInv, TypeOK, SnapHasTime, PCs, envVars, snapVars
<1>13. CASE WindowClosed
  BY <1>13 DEF WindowClosed, IInv, TypeOK, SnapHasTime, PCs, envVars,
               snapVars
<1>14. CASE ProbeFollower
  BY <1>14 DEF ProbeFollower, IInv, TypeOK, SnapHasTime, PCs, envVars,
               snapVars
<1>15. CASE ProbeLeader
  BY <1>15 DEF ProbeLeader, IInv, TypeOK, SnapHasTime, PCs, envVars,
               snapVars
<1>2. CASE SnapMissing
  <2>1. left > 0 /\ GiveUp
    BY <1>2 DEF SnapMissing, IInv, SnapHasTime
  <2>2. pc' = "probe" /\ left' \in 0..Window
    BY <2>1 DEF GiveUp, IInv, TypeOK
  <2>3. snapshot' \in BOOLEAN /\ leaked' \in BOOLEAN
    BY <2>1 DEF GiveUp, IInv, TypeOK
  <2>4. UNCHANGED <<stop, leader, csv, touched, attempt>>
    BY <1>2 DEF SnapMissing, envVars
  <2>5. QED
    BY <2>2, <2>3, <2>4 DEF IInv, TypeOK, SnapHasTime, PCs
<1>3. CASE SnapStart
  BY <1>3 DEF SnapStart, IInv, TypeOK, SnapHasTime, PCs, envVars, snapVars
<1>4. CASE Stat1
  <2>1. CASE csv
    BY <1>4, <2>1 DEF Stat1, IInv, TypeOK, SnapHasTime, PCs, snapVars
  <2>2. CASE ~csv
    BY <1>4, <2>2, FailAttemptIInv DEF Stat1, IInv, TypeOK
  <2>3. QED
    BY <2>1, <2>2
<1>5. CASE Stat2
  <2>1. CASE csv /\ ~touched
    BY <1>5, <2>1 DEF Stat2, IInv, TypeOK, SnapHasTime, PCs, snapVars,
                      envVars
  <2>2. CASE ~csv \/ touched
    BY <1>5, <2>2, FailAttemptIInv DEF Stat2, IInv, TypeOK, envVars
  <2>3. QED
    BY <2>1, <2>2
<1>6. CASE Copy
  <2>1. CASE csv
    BY <1>6, <2>1 DEF Copy, IInv, TypeOK, SnapHasTime, PCs
  <2>2. CASE ~csv
    BY <1>6, <2>2, FailAttemptIInv DEF Copy, IInv, TypeOK
  <2>3. QED
    BY <2>1, <2>2
<1>7. CASE SizeCheck
  <2>1. CASE csv /\ ~touched
    BY <1>7, <2>1 DEF SizeCheck, IInv, TypeOK, SnapHasTime, PCs, snapVars,
                      envVars
  <2>2. CASE ~csv \/ touched
    BY <1>7, <2>2, FailAttemptIInv DEF SizeCheck, IInv, TypeOK, envVars
  <2>3. QED
    BY <2>1, <2>2
<1>8. CASE Train
  BY <1>8 DEF Train, IInv, TypeOK, SnapHasTime, PCs, envVars
<1>9. CASE Signal \/ LeaderChange \/ CsvMoved \/ Append
  BY <1>9 DEF Signal, LeaderChange, CsvMoved, Append, IInv, TypeOK,
              SnapHasTime, envVars, snapVars
<1>10. CASE UNCHANGED vars
  BY <1>10 DEF vars, IInv, TypeOK, SnapHasTime
<1>11. QED
  BY <1>1, <1>2, <1>3, <1>4, <1>5, <1>6, <1>7, <1>8, <1>9, <1>10, <1>12,
     <1>13, <1>14, <1>15 DEF Next, Loop

(* update.py's attempt counter stays within 1..CSV_SNAPSHOT_RETRY and the *)
(* window counter within 0..Window, whatever the cluster and the signals  *)
(* do: snapshot_csv never runs past its last attempt.                      *)
THEOREM TypeCorrect == Spec => []TypeOK
<1>1. Spec => []IInv
  BY InitIInv, NextIInv, PTL DEF Spec
<1>2. QED
  BY <1>1, PTL DEF IInv


-----------------------------------------------------------------------------
(* Refinement                                                              *)

LEMMA InitCall == Init => Call!Init
  BY DEF Init, Call!Init, CallPc

(* Every step of snapshot_csv's retry loop that neither returns nor       *)
(* raises to main_loop is invisible to it.                                 *)
LEMMA AttemptStutters ==
    ASSUME pc \in {"stat1", "stat2", "copy", "size"},
           pc' \in {"stat1", "stat2", "copy", "size"},
           UNCHANGED <<stop, leader, csv, left>>
    PROVE  UNCHANGED Call!vars
  BY DEF Call!vars, CallPc

(* A failed attempt is a retry (invisible) or snapshot_csv raising to     *)
(* main_loop, which spends one window iteration: Call!Snapshot.           *)
LEMMA FailAttemptCall ==
    ASSUME pc \in {"stat1", "stat2", "copy", "size"}, FailAttempt,
           UNCHANGED <<stop, leader, csv>>
    PROVE  [Call!Next]_Call!vars
<1>1. CASE attempt < Retry
  BY <1>1, AttemptStutters DEF FailAttempt
<1>2. CASE ~(attempt < Retry)
  <2>1. pc' = "probe" /\ left' = left - 1
    BY <1>2 DEF FailAttempt, GiveUp
  <2>2. CallPc = "snap" /\ CallPc' = "probe"
    BY <2>1 DEF CallPc
  <2>3. Call!Snapshot
    BY <2>1, <2>2 DEF Call!Snapshot
  <2>4. QED
    BY <2>3 DEF Call!Next, Call!Loop
<1>3. QED
  BY <1>1, <1>2

LEMMA NextCall == [Next]_vars => [Call!Next]_Call!vars
<1> SUFFICES ASSUME [Next]_vars PROVE [Call!Next]_Call!vars
  OBVIOUS
<1>1. CASE WaitStop \/ WaitDone
  <2>1. Call!Wait
    BY <1>1 DEF WaitStop, WaitDone, Call!Wait, CallPc, envVars
  <2>2. QED
    BY <2>1 DEF Call!Next, Call!Loop
<1>2. CASE WindowClosed \/ ProbeFollower \/ ProbeLeader
  <2>1. Call!Probe
    BY <1>2 DEF WindowClosed, ProbeFollower, ProbeLeader, Call!Probe, CallPc,
                envVars
  <2>2. QED
    BY <2>1 DEF Call!Next, Call!Loop
<1>3. CASE SnapMissing
  <2>1. Call!Snapshot
    BY <1>3 DEF SnapMissing, GiveUp, Call!Snapshot, CallPc, envVars
  <2>2. QED
    BY <2>1 DEF Call!Next, Call!Loop
<1>4. CASE SnapStart
  BY <1>4 DEF SnapStart, Call!vars, CallPc, envVars
<1>5. CASE Stat1
  <2>1. CASE csv
    BY <1>5, <2>1, AttemptStutters DEF Stat1
  <2>2. CASE ~csv
    BY <1>5, <2>2, FailAttemptCall DEF Stat1
  <2>3. QED
    BY <2>1, <2>2
<1>6. CASE Stat2
  <2>1. CASE csv /\ ~touched
    BY <1>6, <2>1, AttemptStutters DEF Stat2, envVars
  <2>2. CASE ~csv \/ touched
    BY <1>6, <2>2, FailAttemptCall DEF Stat2, envVars
  <2>3. QED
    BY <2>1, <2>2
<1>7. CASE Copy
  <2>1. CASE csv
    BY <1>7, <2>1, AttemptStutters DEF Copy
  <2>2. CASE ~csv
    BY <1>7, <2>2, FailAttemptCall DEF Copy
  <2>3. QED
    BY <2>1, <2>2
<1>8. CASE SizeCheck
  <2>1. CASE csv /\ ~touched
    <3>1. Call!Snapshot
      BY <1>8, <2>1 DEF SizeCheck, Call!Snapshot, CallPc, envVars
    <3>2. QED
      BY <3>1 DEF Call!Next, Call!Loop
  <2>2. CASE ~csv \/ touched
    BY <1>8, <2>2, FailAttemptCall DEF SizeCheck, envVars
  <2>3. QED
    BY <2>1, <2>2
<1>9. CASE Train
  <2>1. Call!Train
    BY <1>9 DEF Train, Call!Train, CallPc, envVars
  <2>2. QED
    BY <2>1 DEF Call!Next, Call!Loop
<1>10. CASE Signal \/ LeaderChange \/ CsvMoved
  <2>1. Call!Environment
    BY <1>10 DEF Signal, LeaderChange, CsvMoved, Call!Environment, CallPc,
                 envVars
  <2>2. QED
    BY <2>1 DEF Call!Next
<1>11. CASE Append \/ UNCHANGED vars
  BY <1>11 DEF Append, vars, Call!vars, CallPc
<1>12. QED
  BY <1>1, <1>2, <1>3, <1>4, <1>5, <1>6, <1>7, <1>8, <1>9, <1>10, <1>11
     DEF Next, Loop

(* Every behaviour of update.py's loop is, with snapshot_csv's attempts   *)
(* hidden, a behaviour of UpdateLoopCall's safety part: main_loop only    *)
(* trains after a snapshot_csv that returned while the CSV was on this   *)
(* host, and a raised snapshot_csv costs exactly one window iteration.    *)
THEOREM CallRefinement == Spec => Call!SafeSpec
<1>1. QED
  BY InitCall, NextCall, PTL DEF Spec, Call!SafeSpec

=============================================================================
