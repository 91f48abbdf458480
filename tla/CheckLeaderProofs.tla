------------------------- MODULE CheckLeaderProofs -------------------------
(***************************************************************************)
(* Proof that check_leader.py deletes its raft_stats.csv only after the    *)
(* leadership move succeeded and the copy reached the target's host, on    *)
(* every host other than the target's, for every set of hosts and ports    *)
(* and under any sequence of elections.                                    *)
(***************************************************************************)
EXTENDS CheckLeader, TLAPS

(* The copy is on the target's host from the successful scp on, and the   *)
(* removal step is reached only through a successful move-leader, which  *)
(* is issued once, from "move".                                           *)
Copied ==
    /\ pc \in {"move", "remove"} => Target[1] \in csv
    /\ pc \in {"status", "demo", "scp", "move"} => transfers = 0
    /\ pc = "remove" => moved

\* The inductive invariant.
IInv == TypeOK /\ Copied /\ HistoryFollowsLeader

LEMMA InitIInv == Init => IInv
<1> SUFFICES ASSUME Init PROVE IInv
  OBVIOUS
<1>1. moved = FALSE /\ removed = FALSE
  BY DEF Init
<1>2. /\ leader \in Members \cup {NoMember} /\ seen \in Members \cup {NoMember}
      /\ csv \subseteq Hosts /\ transfers = 0 /\ pc = "status"
  BY ConstantsAssumption DEF Init
<1>3. moved \in BOOLEAN /\ removed \in BOOLEAN
  BY <1>1
<1>5. TypeOK
  BY <1>2, <1>3 DEF TypeOK
<1>4. QED
  BY <1>1, <1>2, <1>5 DEF IInv, Copied, HistoryFollowsLeader

(* Every step keeps the invariant when the target member lives on another *)
(* host than the script: os.remove then leaves the copy on the target.    *)
LEMMA NextIInv ==
    ASSUME Target[1] # LocalHost
    PROVE  IInv /\ [Next]_vars => IInv'
<1> SUFFICES ASSUME IInv, [Next]_vars PROVE IInv'
  OBVIOUS
<1> USE ConstantsAssumption
<1>1. CASE IsLeader \/ NotLeader
  BY <1>1 DEF IsLeader, NotLeader, ExtractIp, IInv, TypeOK, Copied,
              HistoryFollowsLeader
<1>2. CASE Demo
  BY <1>2 DEF Demo, IInv, TypeOK, Copied, HistoryFollowsLeader
<1>3. CASE ScpOk
  <2>1. Target[1] \in Hosts
    BY DEF Members
  <2>2. QED
    BY <1>3, <2>1 DEF ScpOk, IInv, TypeOK, Copied, HistoryFollowsLeader
<1>4. CASE ScpFail
  BY <1>4 DEF ScpFail, IInv, TypeOK, Copied, HistoryFollowsLeader
<1>5. CASE MoveLeader
  <2>1. transfers = 0 /\ transfers' = 1 /\ Target[1] \in csv
    BY <1>5 DEF MoveLeader, IInv, Copied
  <2>2. moved' \in BOOLEAN /\ removed' = removed /\ csv' = csv
    BY <1>5 DEF MoveLeader, IInv, TypeOK
  <2>6. moved => moved'
    BY <1>5 DEF MoveLeader
  <2>3. /\ pc' \in {"remove", "crashed"}
        /\ pc' = "remove" => moved'
        /\ leader' \in Members \cup {NoMember}
    BY <1>5, ConstantsAssumption DEF MoveLeader, IInv, TypeOK
  <2>4. TypeOK'
    BY <1>5, <2>1, <2>2, <2>3 DEF MoveLeader, IInv, TypeOK
  <2>5. QED
    BY <2>1, <2>2, <2>3, <2>4, <2>6 DEF IInv, Copied, HistoryFollowsLeader
<1>6. CASE Remove
  <2>1. Target[1] \in csv /\ moved
    BY <1>6 DEF Remove, IInv, Copied
  <2>2. Target[1] \in csv' /\ pc' = "done"
    BY <1>6, <2>1 DEF Remove
  <2>3. removed' /\ moved'
    BY <1>6, <2>1 DEF Remove
  <2>4. TypeOK'
    BY <1>6 DEF Remove, IInv, TypeOK
  <2>5. QED
    BY <2>2, <2>3, <2>4 DEF IInv, Copied, HistoryFollowsLeader
<1>7. CASE LeaderChange
  BY <1>7 DEF LeaderChange, IInv, TypeOK, Copied, HistoryFollowsLeader
<1>8. CASE UNCHANGED vars
  BY <1>8 DEF vars, IInv, TypeOK, Copied, HistoryFollowsLeader
<1>9. QED
  BY <1>1, <1>2, <1>3, <1>4, <1>5, <1>6, <1>7, <1>8 DEF Next

(* Spec section 4.5, for main() of check_leader.py run on a host that is  *)
(* not the fixed target's: the local raft_stats.csv is removed only after *)
(* move-leader succeeded, and the history then exists on the target host. *)
THEOREM RemoteHistorySafe ==
    ASSUME Target[1] # LocalHost
    PROVE  Spec => []HistoryFollowsLeader
<1>1. Spec => []IInv
  BY InitIInv, NextIInv, PTL DEF Spec
<1>2. IInv => HistoryFollowsLeader
  BY DEF IInv
<1>3. QED
  BY <1>1, <1>2, PTL


-----------------------------------------------------------------------------
(* Types, on every host                                                     *)

\* Before "move" returns, no move-leader has been issued.
NotYetMoved == pc \in {"status", "demo", "scp", "move"} => transfers = 0

\* The inductive invariant for the type alone.
TInv == TypeOK /\ NotYetMoved

LEMMA InitTInv == Init => TInv
  BY InitIInv DEF Init, IInv, TInv, NotYetMoved

LEMMA NextTInv == TInv /\ [Next]_vars => TInv'
<1> SUFFICES ASSUME TInv, [Next]_vars PROVE TInv'
  OBVIOUS
<1> USE ConstantsAssumption
<1>1. CASE IsLeader \/ NotLeader \/ Demo \/ ScpFail
  BY <1>1 DEF IsLeader, NotLeader, Demo, ScpFail, TInv, TypeOK, NotYetMoved
<1>2. CASE ScpOk
  <2>1. Target[1] \in Hosts
    BY DEF Members
  <2>2. QED
    BY <1>2, <2>1 DEF ScpOk, TInv, TypeOK, NotYetMoved
<1>3. CASE MoveLeader
  <2>1. transfers = 0 /\ transfers' = 1 /\ pc' \in {"remove", "crashed"}
    BY <1>3 DEF MoveLeader, TInv, NotYetMoved
  <2>2. moved' \in BOOLEAN /\ leader' \in Members \cup {NoMember}
    BY <1>3 DEF MoveLeader, TInv, TypeOK
  <2>3. QED
    BY <1>3, <2>1, <2>2 DEF MoveLeader, TInv, TypeOK, NotYetMoved
<1>4. CASE Remove
  <2>1. removed' \in BOOLEAN
    BY <1>4 DEF Remove
  <2>2. QED
    BY <1>4, <2>1 DEF Remove, TInv, TypeOK, NotYetMoved
<1>5. CASE LeaderChange
  BY <1>5 DEF LeaderChange, TInv, TypeOK, NotYetMoved
<1>6. CASE UNCHANGED vars
  BY <1>6 DEF vars, TInv, TypeOK, NotYetMoved
<1>7. QED
  BY <1>1, <1>2, <1>3, <1>4, <1>5, <1>6 DEF Next

(* check_leader.py keeps its types on every host, the target's own host   *)
(* included: at most one move-leader is issued, and the history file      *)
(* exists only on member hosts.                                            *)
THEOREM TypeCorrect == Spec => []TypeOK
<1>1. Spec => []TInv
  BY InitTInv, NextTInv, PTL DEF Spec
<1>2. QED
  BY <1>1, PTL DEF TInv


-----------------------------------------------------------------------------
(* Refinement of the spec's Migration Executor                              *)

LEMMA InitExec == Init => Exec!Init
  BY DEF Init, Exec!Init, ExecStage

(* move-leader is the executor's one transfer: issued from "move", where  *)
(* nothing was transferred yet, it either makes the target the leader and *)
(* reaches "remove", or raises out of main.                               *)
LEMMA MoveLeaderExec ==
    ASSUME TInv, MoveLeader
    PROVE  Exec!Transfer
<1>1. transfers = 0 /\ transfers' = 1 /\ csv' = csv
  BY DEF MoveLeader, TInv, NotYetMoved
<1>2. ExecStage = "copied"
  BY DEF MoveLeader, ExecStage
<1>3. \/ leader' = Target /\ ExecStage' = "moved"
      \/ ExecStage' = "aborted" /\ leader' = leader
  BY DEF MoveLeader, ExecStage
<1>4. QED
  BY <1>1, <1>2, <1>3 DEF Exec!Transfer

(* Every step of check_leader.py is a step of the Migration Executor or  *)
(* leaves the executor's state alone: get_leader and the target test are  *)
(* local, the rest are the executor's steps in the executor's order.      *)
LEMMA NextExec == TInv /\ [Next]_vars => [Exec!Next]_Exec!vars
<1> SUFFICES ASSUME TInv, [Next]_vars PROVE [Exec!Next]_Exec!vars
  OBVIOUS
<1>1. CASE IsLeader
  BY <1>1 DEF IsLeader, Exec!vars, ExecStage
<1>2. CASE NotLeader
  <2>1. Exec!Skip
    BY <1>2 DEF NotLeader, Exec!Skip, ExecStage
  <2>2. QED
    BY <2>1 DEF Exec!Next
<1>3. CASE Demo
  <2>1. CASE seen = Target
    <3>1. Exec!Skip
      BY <1>3, <2>1 DEF Demo, Exec!Skip, ExecStage
    <3>2. QED
      BY <3>1 DEF Exec!Next
  <2>2. CASE seen # Target
    BY <1>3, <2>2 DEF Demo, Exec!vars, ExecStage
  <2>3. QED
    BY <2>1, <2>2
<1>4. CASE ScpOk
  <2>1. Exec!Copy
    BY <1>4 DEF ScpOk, Exec!Copy, ExecStage
  <2>2. QED
    BY <2>1 DEF Exec!Next
<1>5. CASE ScpFail
  <2>1. Exec!CopyFail
    BY <1>5 DEF ScpFail, Exec!CopyFail, ExecStage
  <2>2. QED
    BY <2>1 DEF Exec!Next
<1>6. CASE MoveLeader
  BY <1>6, MoveLeaderExec DEF Exec!Next
<1>7. CASE Remove
  <2>1. Exec!Delete
    BY <1>7 DEF Remove, Exec!Delete, ExecStage
  <2>2. QED
    BY <2>1 DEF Exec!Next
<1>8. CASE LeaderChange
  <2>1. ExecStage \notin {"done", "aborted"} /\ ExecStage' = ExecStage
    BY <1>8 DEF LeaderChange, TInv, TypeOK, ExecStage
  <2>2. Exec!Elect
    BY <1>8, <2>1 DEF LeaderChange, Exec!Elect
  <2>3. QED
    BY <2>2 DEF Exec!Next
<1>9. CASE UNCHANGED vars
  BY <1>9 DEF vars, Exec!vars, ExecStage
<1>10. QED
  BY <1>1, <1>2, <1>3, <1>4, <1>5, <1>6, <1>7, <1>8, <1>9 DEF Next

(* Spec section 4.5, for check_leader.py on every host and for every     *)
(* target: the script implements the Migration Executor.  It copies the   *)
(* history before the one, unretried move-leader, deletes its copy only   *)
(* after that transfer made the target the leader, and stops on any       *)
(* failure.  (Whether the history survives then depends on the target's   *)
(* host being another one: RemoteHistorySafe.)                            *)
THEOREM ExecutorRefinement == Spec => ExecutorSpec
<1>1. Spec => []TInv
  BY InitTInv, NextTInv, PTL DEF Spec
<1>2. QED
  BY <1>1, InitExec, NextExec, PTL DEF Spec, ExecutorSpec, Exec!SafeSpec


(* Spec section 4.5, carried to check_leader.py by the refinement: on a  *)
(* host other than the target's, the step that deletes the local          *)
(* raft_stats.csv leaves a copy on the target's host.                     *)
THEOREM RemoteCopyBeforeDelete ==
    ASSUME Target[1] # LocalHost
    PROVE  Spec => Exec!CopyBeforeDelete
<1>1. Exec!SafeSpec => Exec!CopyBeforeDelete
  BY Exec!KeepsHistory
<1>2. QED
  BY <1>1, ExecutorRefinement DEF ExecutorSpec

=============================================================================
