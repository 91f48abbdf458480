------------------------- MODULE MoveLeaderScript -------------------------
(***************************************************************************)
(* main() of src/B/etcd-release-3.4/moveleader.py: read the last row of    *)
(* raft_stats.csv into domains, compute the optimal leader with the quorum *)
(* cost model, and move leadership there when this host is not it.         *)
(*                                                                         *)
(* read_raft_stats is abstracted to what main distinguishes: an empty list *)
(* (missing file, fewer than two rows, a parse error, or every node idle), *)
(* or a list of domains, each with nodes = 1.  With unit weights every     *)
(* candidate reaches quorum, so find_optimal_leader returns a leader for   *)
(* every non-empty list (CostModel checks what it returns).                *)
(***************************************************************************)
EXTENDS Naturals

CONSTANTS
    Ips,        \* addresses in ip_to_index
    SelfIp,     \* this host's outbound address
    NoAddress   \* no optimum computed yet

VARIABLES
    pc,         \* where main() is
    optimal,    \* optimal_leader.address, once computed
    transfers   \* etcdctl move-leader commands issued

vars == <<pc, optimal, transfers>>

Init ==
    /\ pc = "read"
    /\ optimal = NoAddress
    /\ transfers = 0

\* read_raft_stats returned []: the file is missing, has fewer than two
\* rows, a field does not parse (each caught and logged), or every node of
\* the last row is idle or unmapped; main logs and returns.
ReadNothing ==
    /\ pc = "read"
    /\ pc' = "done"
    /\ UNCHANGED <<optimal, transfers>>

\* read_raft_stats returned domains; find_optimal_leader picks one of them
\* (with nodes = 1 per domain every candidate reaches quorum).
ReadAndScore ==
    /\ pc = "read"
    /\ \E a \in Ips : optimal' = a
    /\ pc' = "decide"
    /\ UNCHANGED transfers

\* current_leader_ip = calculator.get_current_leader_ip(): the function is
\* defined at module level, not on OptimalLeaderCalculator, so the call
\* raises AttributeError, which nothing catches.
LookUpCurrentLeader ==
    /\ pc = "decide"
    /\ pc' = "crashed"
    /\ UNCHANGED <<optimal, transfers>>

Next == ReadNothing \/ ReadAndScore \/ LookUpCurrentLeader

Spec == Init /\ [][Next]_vars

(* The script's purpose (its "需要进行领导者转移" branch, and spec section  *)
(* 4.4 MIGRATE): whenever the optimum it computed is another host, it     *)
(* ends having issued the move-leader command towards it.                 *)
MovesToRemoteOptimum ==
    (pc \in {"done", "crashed"} /\ optimal \in Ips \ {SelfIp}) => transfers = 1

=============================================================================
