------------------------- MODULE MigrationExecutor -------------------------
(***************************************************************************)
(* The Migration Executor of spec section 4.5: (1) transfer the local     *)
(* load-history snapshot to the target host, (2) issue one leadership     *)
(* transfer naming the target, (3) on success delete the local snapshot.  *)
(* Both remote steps are synchronous and unretried; a failure of either   *)
(* aborts the attempt.  The cluster may elect another leader at any time  *)
(* while the attempt is under way.                                         *)
(***************************************************************************)
EXTENDS Naturals, TLAPS

CONSTANTS
    Local,          \* the host the executor runs on
    TargetHost,     \* the target's host
    TargetMember,   \* the target's cluster identity
    Leaders         \* the values the cluster's leader can take

VARIABLES
    stage,      \* "idle", "copied", "moved", "done" or "aborted"
    history,    \* hosts on which the load-history snapshot exists
    transfers,  \* leadership transfers issued
    leader      \* the cluster's leader

vars == <<stage, history, transfers, leader>>

Init ==
    /\ stage = "idle"
    /\ transfers = 0
    /\ leader \in Leaders

\* No migration is needed: the attempt ends without any remote step.
Skip ==
    /\ stage = "idle"
    /\ stage' = "done"
    /\ UNCHANGED <<history, transfers, leader>>

\* (1) The snapshot reaches the target host.
Copy ==
    /\ stage = "idle"
    /\ Local \in history
    /\ history' = history \cup {TargetHost}
    /\ stage' = "copied"
    /\ UNCHANGED <<transfers, leader>>

CopyFail ==
    /\ stage = "idle"
    /\ stage' = "aborted"
    /\ UNCHANGED <<history, transfers, leader>>

\* (2) The one transfer: the target leads, or the attempt aborts.
Transfer ==
    /\ stage = "copied"
    /\ transfers = 0
    /\ transfers' = 1
    /\ \/ leader' = TargetMember /\ stage' = "moved"
       \/ stage' = "aborted" /\ UNCHANGED leader
    /\ UNCHANGED history

\* (3) After a successful transfer, the local snapshot is deleted.
Delete ==
    /\ stage = "moved"
    /\ history' = history \ {Local}
    /\ stage' = "done"
    /\ UNCHANGED <<transfers, leader>>

\* An election while the attempt is under way.
Elect ==
    /\ stage \notin {"done", "aborted"}
    /\ leader' \in Leaders \ {leader}
    /\ UNCHANGED <<stage, history, transfers>>

Next == Skip \/ Copy \/ CopyFail \/ Transfer \/ Delete \/ Elect

SafeSpec == Init /\ [][Next]_vars


-----------------------------------------------------------------------------
(* The executor never deletes the last copy                                 *)

(* Spec section 4.5's purpose: when the target is on another host, the    *)
(* step that deletes the local snapshot leaves a copy on the target host. *)
CopyBeforeDelete ==
    [][(Local \in history /\ Local \notin history' => TargetHost \in history')]_vars

\* From the copy on, until the deletion, the target host holds the snapshot.
Staged == stage \in {"copied", "moved"} => TargetHost \in history

LEMMA StagedInvariant == SafeSpec => []Staged
<1>1. Init => Staged
  BY DEF Init, Staged
<1>2. Staged /\ [Next]_vars => Staged'
  BY DEF Staged, Next, vars, Skip, Copy, CopyFail, Transfer, Delete, Elect
<1>3. QED
  BY <1>1, <1>2, PTL DEF SafeSpec

(* Spec section 4.5: an executor whose target lives on another host only *)
(* deletes its snapshot while the target host holds the copy.             *)
THEOREM KeepsHistory ==
    ASSUME TargetHost # Local
    PROVE  SafeSpec => CopyBeforeDelete
<1>1. Staged /\ [Next]_vars
        => [(Local \in history /\ Local \notin history' => TargetHost \in history')]_vars
  BY DEF Staged, Next, vars, Skip, Copy, CopyFail, Transfer, Delete, Elect
<1>2. QED
  BY <1>1, StagedInvariant, PTL DEF SafeSpec, CopyBeforeDelete

=============================================================================
