---------------------------- MODULE CheckLeader ----------------------------
(***************************************************************************)
(* The operator script src/C/etcd-release-3.4/check_leader.py: on the host *)
(* that holds leadership it copies raft_stats.csv to a fixed target        *)
(* member, moves leadership there with etcdctl move-leader and deletes its *)
(* local copy.  The cluster is the environment: its leader is any member, *)
(* or none during an election, and may change at any time.                *)
(*                                                                         *)
(* A member is an (address, client port) pair, as in IpToId; a host holds  *)
(* one raft_stats.csv at the fixed path, so the file is modelled as the    *)
(* set of hosts where it exists.                                           *)
(***************************************************************************)
EXTENDS Naturals

CONSTANTS
    Hosts,      \* member addresses
    Ports,      \* client ports of the members on one host
    LocalHost,  \* get_local_ip()
    Target,     \* the fixed target member of moveleader_demo
    NoMember    \* get_leader() found no row with "true"

Members == Hosts \X Ports

ASSUME ConstantsAssumption ==
    /\ LocalHost \in Hosts
    /\ Target \in Members
    /\ NoMember \notin Members

VARIABLES
    pc,         \* where the script is
    leader,     \* the cluster's leader member (environment)
    seen,       \* leader_url as get_leader() returned it
    csv,        \* hosts on which raft_stats.csv exists
    transfers,  \* move-leader commands issued
    moved,      \* a move-leader command succeeded
    removed     \* os.remove(local_path) ran

vars == <<pc, leader, seen, csv, transfers, moved, removed>>

TypeOK ==
    /\ pc \in {"status", "demo", "scp", "move", "remove", "done", "crashed"}
    /\ leader \in Members \cup {NoMember}
    /\ seen \in Members \cup {NoMember}
    /\ csv \subseteq Hosts
    /\ transfers \in 0..1
    /\ moved \in BOOLEAN
    /\ removed \in BOOLEAN

\* The script starts with the history file on this host, or without it.
Init ==
    /\ pc = "status"
    /\ leader \in Members \cup {NoMember}
    /\ seen = NoMember
    /\ csv \in {{LocalHost}, {}}
    /\ transfers = 0
    /\ moved = FALSE
    /\ removed = FALSE

-----------------------------------------------------------------------------
\* extract_ip: the address of a leader URL, None for None.
ExtractIp(url) == IF url = NoMember THEN NoMember ELSE url[1]

\* main(): get_leader(), then "if local_ip == leader_ip".
IsLeader ==
    /\ pc = "status"
    /\ ExtractIp(leader) = LocalHost
    /\ seen' = leader
    /\ pc' = "demo"
    /\ UNCHANGED <<leader, csv, transfers, moved, removed>>

NotLeader ==
    /\ pc = "status"
    /\ ExtractIp(leader) # LocalHost
    /\ seen' = leader
    /\ pc' = "done"
    /\ UNCHANGED <<leader, csv, transfers, moved, removed>>

\* moveleader_demo: no target when the leader already is the target member.
Demo ==
    /\ pc = "demo"
    /\ pc' = IF seen = Target THEN "done" ELSE "scp"
    /\ UNCHANGED <<leader, seen, csv, transfers, moved, removed>>

\* scp_to_host(local_path, target_ip, remote_path): the remote path is the
\* local path, so the file now exists on the target's host.
ScpOk ==
    /\ pc = "scp"
    /\ LocalHost \in csv
    /\ csv' = csv \cup {Target[1]}
    /\ pc' = "move"
    /\ UNCHANGED <<leader, seen, transfers, moved, removed>>

\* A missing local file raises FileNotFoundError, a failed scp raises
\* CalledProcessError; neither is caught.
ScpFail ==
    /\ pc = "scp"
    /\ pc' = "crashed"
    /\ UNCHANGED <<leader, seen, csv, transfers, moved, removed>>

\* Mutants: a failed move-leader caught and the script carrying on, as in
\* predict_leader.py; a failed move-leader retried.
MoveLeaderCaught ==
    /\ pc = "move"
    /\ transfers' = transfers + 1
    /\ \/ /\ leader = seen
          /\ leader' = Target
          /\ moved' = TRUE
       \/ UNCHANGED <<leader, moved>>
    /\ pc' = "remove"
    /\ UNCHANGED <<seen, csv, removed>>

MoveLeaderRetry ==
    /\ pc = "move"
    /\ transfers' = transfers + 1
    /\ \/ /\ leader = seen
          /\ leader' = Target
          /\ moved' = TRUE
          /\ pc' = "remove"
       \/ /\ pc' = "move"
          /\ UNCHANGED <<leader, moved>>
    /\ UNCHANGED <<seen, csv, removed>>

\* etcdctl --endpoints=<leader seen> move-leader <target id>, check=True:
\* it succeeds only while the member it is sent to is still the leader,
\* and a failure raises out of main before os.remove.
MoveLeader ==
    /\ pc = "move"
    /\ transfers' = transfers + 1
    /\ \/ /\ leader = seen
          /\ leader' = Target
          /\ moved' = TRUE
          /\ pc' = "remove"
       \/ /\ pc' = "crashed"
          /\ UNCHANGED <<leader, moved>>
    /\ UNCHANGED <<seen, csv, removed>>

\* os.remove(local_path)
Remove ==
    /\ pc = "remove"
    /\ csv' = csv \ {LocalHost}
    /\ removed' = TRUE
    /\ pc' = "done"
    /\ UNCHANGED <<leader, seen, transfers, moved>>

\* The cluster elects another leader, or is between leaders.
LeaderChange ==
    /\ pc \notin {"done", "crashed"}
    /\ leader' \in (Members \cup {NoMember}) \ {leader}
    /\ UNCHANGED <<pc, seen, csv, transfers, moved, removed>>

Next ==
    \/ IsLeader \/ NotLeader \/ Demo \/ ScpOk \/ ScpFail \/ MoveLeader
    \/ Remove \/ LeaderChange

Spec == Init /\ [][Next]_vars

-----------------------------------------------------------------------------
(* Properties                                                              *)

\* The executor's stage, by the script's control point.
ExecStage ==
    CASE pc \in {"status", "demo", "scp"} -> "idle"
      [] pc = "move" -> "copied"
      [] pc = "remove" -> "moved"
      [] pc = "done" -> "done"
      [] pc = "crashed" -> "aborted"

Exec == INSTANCE MigrationExecutor
          WITH Local <- LocalHost, TargetHost <- Target[1],
               TargetMember <- Target, Leaders <- Members \cup {NoMember},
               stage <- ExecStage, history <- csv

(* Spec section 4.5: check_leader.py is a Migration Executor: it copies    *)
(* the history, then issues one unretried move-leader, deletes its local  *)
(* copy only after that transfer succeeded, and ends on any failure.      *)
ExecutorSpec == Exec!SafeSpec

(* Spec section 4.5: the local snapshot is deleted only once leadership   *)
(* has been handed over, and then the history lives on the new leader's   *)
(* host: it was copied there before the transfer.                         *)
HistoryFollowsLeader ==
    removed => moved /\ Target[1] \in csv

=============================================================================
