------------------------- MODULE ControlLoopProofs -------------------------
(***************************************************************************)
(* Proofs about main()'s control loop: the decision log is exact and a     *)
(* process issues at most one leadership transfer, for every set of        *)
(* addresses, every MAX_ITERS and every bound on the rounds.               *)
(***************************************************************************)
EXTENDS ControlLoop, SequenceTheorems, TLAPS

(* Where main() can be: nothing is on disk and nothing transferred while  *)
(* it starts up and loops; a migration under way has flushed the log, and  *)
(* has not issued move-leader before reaching the "move" step.             *)
Phase ==
    /\ pc \in {"init", "loop"} => logFile = <<>> /\ transfers = 0
    /\ pc \in {"scp", "move"} => transfers = 0
    /\ pc \in {"scp", "move", "remove", "metrics"} => logFile # <<>>
    /\ transfers <= 1

\* The inductive invariant: the type, the two properties and the phase.
IInv == TypeOK /\ DecisionLogExact /\ TransferAtMostOnce /\ Phase

\* The row a round records is a row of the decision log.
LEMMA RoundRowType ==
    ASSUME ConstantsAssumption, TypeOK, it < RoundBound, NEW opt \in Choices
    PROVE  RoundRow(opt) \in Row
BY DEF RoundRow, LoggedLeader, WillMove, Row, Round, RoundBound, TypeOK, Choices

(* The start: nothing logged, buffered or transferred.                    *)
LEMMA InitIInv == Init => IInv
<1> SUFFICES ASSUME Init PROVE IInv
  OBVIOUS
<1>1. /\ workerStarted \in BOOLEAN /\ snapshot \in BOOLEAN
      /\ remoteCopy \in BOOLEAN /\ stopEvt \in BOOLEAN
  BY DEF Init
<1>2. TypeOK
  BY <1>1, ConstantsAssumption DEF Init, TypeOK, PCs, Status, RoundBound
<1>3. logFile \o buffer = decisions
  BY ConcatEmptySeq DEF Init
<1>4. QED
  BY <1>2, <1>3 DEF Init, IInv, DecisionLogExact, TransferAtMostOnce, Phase

(* One round that keeps the leader: the row goes to the buffer only, and  *)
(* the file stays empty, so file ++ buffer still equals the history.      *)
LEMMA KeepIInv ==
    ASSUME ConstantsAssumption, IInv, NEW opt \in Choices, Keep(opt),
           (pc' = pc /\ stopEvt' = stopEvt) \/ (pc' = "exited" /\ stopEvt' = TRUE)
    PROVE  IInv'
<1> DEFINE row == RoundRow(opt)
<1>1. row \in Row
  BY RoundRowType DEF IInv, Keep
<1>2. pc = "loop" /\ logFile = <<>> /\ buffer = decisions /\ transfers = 0
  BY ConcatEmptySeq DEF IInv, Keep, Phase, DecisionLogExact, TypeOK
<1>3. buffer' = Append(buffer, row) /\ decisions' = Append(decisions, row)
      /\ logFile' = logFile /\ transfers' = transfers /\ it' = it + 1
  BY DEF Keep
<1>4. buffer' \in Seq(Row) /\ logFile' \o buffer' = decisions'
  BY <1>1, <1>2, <1>3, AppendProperties, ConcatEmptySeq DEF IInv, TypeOK
<1>5. pc' \in {"loop", "exited"} /\ stopEvt' \in BOOLEAN
  BY <1>2 DEF IInv, TypeOK
<1>6. TypeOK'
  BY <1>3, <1>4, <1>5 DEF IInv, TypeOK, Keep, PCs, RoundBound
<1>7. Phase'
  BY <1>2, <1>3, <1>5 DEF Phase
<1>8. DecisionLogExact' /\ TransferAtMostOnce'
  BY <1>2, <1>3, <1>4 DEF DecisionLogExact, TransferAtMostOnce
<1>9. QED
  BY <1>6, <1>7, <1>8 DEF IInv

(* The migrate decision: the buffer and the new row are flushed together, *)
(* so the file ends with the row naming the target and the buffer empties.*)
LEMMA MoveIInv ==
    ASSUME ConstantsAssumption, IInv, NEW opt \in Choices, Move(opt)
    PROVE  IInv'
<1> DEFINE row == RoundRow(opt)
<1>1. row \in Row /\ row.leader = opt /\ opt \in Ips \ {SelfIp}
  BY RoundRowType DEF IInv, Move, RoundRow, LoggedLeader, WillMove
<1>2. logFile = <<>> /\ buffer = decisions /\ transfers = 0
  BY ConcatEmptySeq DEF IInv, Move, Phase, DecisionLogExact, TypeOK
<1>3. logFile' = Append(buffer, row) /\ buffer' = <<>>
      /\ decisions' = Append(decisions, row) /\ target' = opt
  BY <1>2, ConcatEmptySeq, AppendProperties, <1>1 DEF Move, IInv, TypeOK
<1>4. /\ logFile' \in Seq(Row) /\ logFile' # <<>>
      /\ logFile'[Len(logFile')] = row
      /\ logFile' \o buffer' = decisions'
  BY <1>1, <1>2, <1>3, AppendProperties, ConcatEmptySeq DEF IInv, TypeOK
<1>5. TypeOK'
  BY <1>1, <1>3, <1>4 DEF IInv, TypeOK, Move, PCs, RoundBound
<1>6. QED
  BY <1>1, <1>2, <1>3, <1>4, <1>5
     DEF IInv, Move, DecisionLogExact, TransferAtMostOnce, Phase

(* The steps after the migrate decision and the start-up steps touch     *)
(* neither the log nor the decisions; only move-leader counts a transfer, *)
(* and it runs once, from "move", before the process leaves the loop.     *)
LEMMA NextIInv == IInv /\ [Next]_vars => IInv'
<1> SUFFICES ASSUME IInv, [Next]_vars PROVE IInv'
  OBVIOUS
<1> USE ConstantsAssumption
<1>1. CASE InitOk \/ InitWorkerFail
  <2>1. workerStarted' \in BOOLEAN
    BY <1>1 DEF IInv, TypeOK, InitOk, InitWorkerFail
  <2>2. QED
    BY <1>1, <2>1 DEF InitOk, InitWorkerFail, IInv, TypeOK, PCs,
                     DecisionLogExact, TransferAtMostOnce, Phase
<1>2. ASSUME NEW opt \in Choices, KeepContinue(opt) \/ KeepExit(opt)
      PROVE  IInv'
  BY <1>2, KeepIInv DEF KeepContinue, KeepExit
<1>3. ASSUME NEW opt \in Choices, Move(opt) PROVE IInv'
  BY <1>3, MoveIInv
<1>4. CASE ScpFail \/ ScpOk
  <2>1. remoteCopy' \in BOOLEAN /\ stopEvt' \in BOOLEAN
    BY <1>4 DEF IInv, TypeOK, ScpFail, ScpOk
  <2>2. QED
    BY <1>4, <2>1 DEF ScpFail, ScpOk, IInv, TypeOK, PCs,
                     DecisionLogExact, TransferAtMostOnce, Phase
<1>5. CASE MoveLeader
  <2>1. transfers = 0 /\ transfers' = 1 /\ pc' = "remove"
    BY <1>5 DEF MoveLeader, IInv, Phase
  <2>2. logFile # <<>> /\ logFile' = logFile /\ target' = target
    BY <1>5 DEF MoveLeader, IInv, Phase
  <2>3. logFile[Len(logFile)] \in Row
    <3>1. Len(logFile) \in 1..Len(logFile)
      BY <2>2, EmptySeq DEF IInv, TypeOK
    <3>2. QED
      BY <3>1, ElementOfSeq DEF IInv, TypeOK
  <2>4. target \in Ips \ {SelfIp} /\ logFile[Len(logFile)].leader = target
    BY <2>2, <2>3 DEF IInv, DecisionLogExact, Row
  <2>5. QED
    BY <1>5, <2>1, <2>2, <2>4 DEF MoveLeader, IInv, TypeOK, PCs, Status,
                                  DecisionLogExact, TransferAtMostOnce, Phase
<1>6. CASE RemoveSnapshot
  <2>1. snapshot' \in BOOLEAN
    BY <1>6 DEF RemoveSnapshot
  <2>2. QED
    BY <1>6, <2>1 DEF RemoveSnapshot, IInv, TypeOK, PCs,
                     DecisionLogExact, TransferAtMostOnce, Phase
<1>7. CASE WriteMetrics
  <2>1. stopEvt' \in BOOLEAN /\ metricsRows' \in Nat
    BY <1>7 DEF WriteMetrics, IInv, TypeOK
  <2>2. QED
    BY <1>7, <2>1 DEF WriteMetrics, IInv, TypeOK, PCs,
                     DecisionLogExact, TransferAtMostOnce, Phase
<1>8. CASE UNCHANGED vars
  BY <1>8 DEF vars, IInv, TypeOK, DecisionLogExact, TransferAtMostOnce, Phase
<1>9. QED
  BY <1>1, <1>2, <1>3, <1>4, <1>5, <1>6, <1>7, <1>8 DEF Next

(* Spec sections 4.4 and 8: in every run of main(), what the decision log *)
(* holds followed by what BufferedPredictedLeaderWriter buffers is exactly *)
(* the sequence of decisions recorded, and rows reach the file only with  *)
(* the migrate decision that ends it.                                     *)
THEOREM DecisionLogCorrect == Spec => []DecisionLogExact
<1>1. Spec => []IInv
  BY InitIInv, NextIInv, PTL DEF Spec
<1>2. IInv => DecisionLogExact
  BY DEF IInv
<1>3. QED
  BY <1>1, <1>2, PTL

(* Spec sections 4.5 and 7: in every run of main(), etcdctl move-leader   *)
(* is issued at most once, towards the target of a logged migrate decision.*)
THEOREM SingleTransfer == Spec => []TransferAtMostOnce
<1>1. Spec => []IInv
  BY InitIInv, NextIInv, PTL DEF Spec
<1>2. IInv => TransferAtMostOnce
  BY DEF IInv
<1>3. QED
  BY <1>1, <1>2, PTL


(* main() writes its types: it, the buffer, the log file and the history *)
(* stay sequences of rows of at most RoundBound rounds, and the status    *)
(* and counters keep their ranges, for every MAX_ITERS.                   *)
THEOREM TypeCorrect == Spec => []TypeOK
<1>1. Spec => []IInv
  BY InitIInv, NextIInv, PTL DEF Spec
<1>2. QED
  BY <1>1, PTL DEF IInv

-----------------------------------------------------------------------------
(* The copy comes before the transfer                                       *)

(* The local copy is there until os.remove, and from the successful scp  *)
(* on the history is also on the target host.                             *)
CopyFirst ==
    /\ pc \in {"init", "loop", "scp", "move"} => snapshot
    /\ pc = "move" => remoteCopy

LEMMA InitCopyFirst == Init => CopyFirst
  BY DEF Init, CopyFirst

LEMMA NextCopyFirst == CopyFirst /\ [Next]_vars => CopyFirst'
<1> SUFFICES ASSUME CopyFirst, [Next]_vars PROVE CopyFirst'
  OBVIOUS
<1>1. ASSUME NEW opt \in Choices, KeepContinue(opt) \/ KeepExit(opt)
      PROVE  CopyFirst'
  BY <1>1 DEF KeepContinue, KeepExit, Keep, CopyFirst
<1>2. ASSUME NEW opt \in Choices, Move(opt) PROVE CopyFirst'
  BY <1>2 DEF Move, CopyFirst
<1>3. CASE ScpOk
  BY <1>3 DEF ScpOk, CopyFirst
<1>4. CASE InitOk \/ InitWorkerFail \/ ScpFail \/ MoveLeader \/ RemoveSnapshot
           \/ WriteMetrics
  BY <1>4 DEF InitOk, InitWorkerFail, ScpFail, MoveLeader, RemoveSnapshot,
              WriteMetrics, CopyFirst
<1>5. CASE UNCHANGED vars
  BY <1>5 DEF vars, CopyFirst
<1>6. QED
  BY <1>1, <1>2, <1>3, <1>4, <1>5 DEF Next

(* Every step keeps the transfer count, except move-leader, which runs   *)
(* from "move" and so after the copy.                                     *)
LEMMA StepMoveAfterCopy ==
    ASSUME TypeOK, CopyFirst, [Next]_vars
    PROVE  [transfers' > transfers => remoteCopy /\ snapshot]_vars
<1>1. CASE MoveLeader
  BY <1>1 DEF MoveLeader, CopyFirst
<1>2. CASE ~MoveLeader
  <2>1. transfers' = transfers
    BY <1>2 DEF Next, vars, InitOk, InitWorkerFail, KeepContinue, KeepExit,
                Keep, Move, ScpFail, ScpOk, RemoveSnapshot, WriteMetrics
  <2>2. QED
    BY <2>1 DEF TypeOK
<1>3. QED
  BY <1>1, <1>2

(* Spec section 4.5, for every run of main(): etcdctl move-leader is     *)
(* issued only after scp_to_host copied the load history to the target    *)
(* and while the local copy still exists.                                  *)
THEOREM MoveFollowsCopy == Spec => MoveAfterCopy
<1>1. Spec => [](TypeOK /\ CopyFirst)
  <2>1. Spec => []IInv
    BY InitIInv, NextIInv, PTL DEF Spec
  <2>2. Spec => []CopyFirst
    BY InitCopyFirst, NextCopyFirst, PTL DEF Spec
  <2>3. QED
    BY <2>1, <2>2, PTL DEF IInv
<1>2. TypeOK /\ CopyFirst /\ [Next]_vars
        => [transfers' > transfers => remoteCopy /\ snapshot]_vars
  BY StepMoveAfterCopy
<1>3. QED
  BY <1>1, <1>2, PTL DEF Spec, MoveAfterCopy


-----------------------------------------------------------------------------
(* Refinement of the spec's control loop                                    *)

LEMMA InitCtl == Init => Ctl!Init
  BY DEF Init, Ctl!Init, CtlPhase

(* One round: a keep records a row naming this host and persists nothing; *)
(* a migrate decision persists the whole history, which is the buffer.    *)
LEMMA KeepCtl ==
    ASSUME ConstantsAssumption, IInv, NEW opt \in Choices, KeepContinue(opt)
    PROVE  Ctl!Keep
<1>1. RoundRow(opt) \in Row /\ RoundRow(opt).leader = SelfIp
  BY RoundRowType DEF IInv, KeepContinue, Keep, RoundRow, LoggedLeader
<1>2. pc = "loop" /\ pc' = "loop"
  BY DEF KeepContinue, Keep
<1>3. CtlPhase = "tick" /\ CtlPhase' = "tick"
  BY <1>2 DEF CtlPhase
<1>4. QED
  BY <1>1, <1>3 DEF KeepContinue, Keep, Ctl!Keep

LEMMA MoveCtl ==
    ASSUME ConstantsAssumption, IInv, NEW opt \in Choices, Move(opt)
    PROVE  Ctl!Migrate
<1> DEFINE row == RoundRow(opt)
<1>1. row \in Row /\ row.leader = opt /\ opt # SelfIp
  BY RoundRowType DEF IInv, Move, RoundRow, LoggedLeader, WillMove
<1>2. logFile = <<>> /\ buffer = decisions
  BY ConcatEmptySeq DEF IInv, Move, Phase, DecisionLogExact, TypeOK
<1>3. logFile' = decisions' /\ decisions' = Append(decisions, row)
  BY <1>2, ConcatEmptySeq, AppendProperties, <1>1 DEF Move, IInv, TypeOK
<1>4. CtlPhase = "tick" /\ CtlPhase' = "migrate"
  BY DEF Move, CtlPhase
<1>5. QED
  BY <1>1, <1>3, <1>4 DEF Move, Ctl!Migrate

(* With no iteration cap, every step of main() is a step of the spec's  *)
(* control loop or leaves its state alone.                                *)
LEMMA NextCtl ==
    ASSUME MaxIters = 0
    PROVE  IInv /\ [Next]_vars => [Ctl!Next]_Ctl!vars
<1> SUFFICES ASSUME IInv, [Next]_vars PROVE [Ctl!Next]_Ctl!vars
  OBVIOUS
<1> USE ConstantsAssumption
<1>1. CASE InitOk \/ InitWorkerFail
  <2>1. Ctl!Start
    BY <1>1 DEF InitOk, InitWorkerFail, Ctl!Start, CtlPhase
  <2>2. QED
    BY <2>1 DEF Ctl!Next
<1>2. ASSUME NEW opt \in Choices, KeepContinue(opt)
      PROVE  [Ctl!Next]_Ctl!vars
  BY <1>2, KeepCtl DEF Ctl!Next
<1>3. ASSUME NEW opt \in Choices, KeepExit(opt)
      PROVE  [Ctl!Next]_Ctl!vars
  BY <1>3 DEF KeepExit
<1>4. ASSUME NEW opt \in Choices, Move(opt)
      PROVE  [Ctl!Next]_Ctl!vars
  BY <1>4, MoveCtl DEF Ctl!Next
<1>5. CASE ScpFail \/ WriteMetrics
  <2>1. Ctl!Terminate
    BY <1>5 DEF ScpFail, WriteMetrics, Ctl!Terminate, CtlPhase
  <2>2. QED
    BY <2>1 DEF Ctl!Next
<1>6. CASE ScpOk \/ RemoveSnapshot
  BY <1>6 DEF ScpOk, RemoveSnapshot, Ctl!vars, CtlPhase
<1>7. CASE MoveLeader
  <2>1. transfers = 0
    BY <1>7 DEF MoveLeader, IInv, Phase
  <2>2. Ctl!Transfer
    BY <1>7, <2>1 DEF MoveLeader, Ctl!Transfer, CtlPhase
  <2>3. QED
    BY <2>2 DEF Ctl!Next
<1>8. CASE UNCHANGED vars
  BY <1>8 DEF vars, Ctl!vars, CtlPhase
<1>9. QED
  BY <1>1, <1>2, <1>3, <1>4, <1>5, <1>6, <1>7, <1>8 DEF Next

(* Spec sections 4.4 and 4.5, for main() with MAX_ITERS = 0 (the spec's  *)
(* "unbounded until migration"): under the mapping CtlPhase, with the     *)
(* history as the recorded decisions and predicted_leaderA.csv as the    *)
(* persisted log, main() implements the spec's control loop.  With a cap *)
(* the implementation fails at the cap's exit (ControlLoop_exitloss).     *)
THEOREM ControllerRefinement ==
    ASSUME MaxIters = 0
    PROVE  Spec => ControllerSpec
<1>1. Spec => []IInv
  BY InitIInv, NextIInv, PTL DEF Spec
<1>2. IInv /\ [Next]_vars => [Ctl!Next]_Ctl!vars
  BY NextCtl
<1>3. QED
  BY <1>1, <1>2, InitCtl, PTL DEF Spec, ControllerSpec, Ctl!SafeSpec

=============================================================================
