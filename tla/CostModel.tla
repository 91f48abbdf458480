----------------------------- MODULE CostModel -----------------------------
(***************************************************************************)
(* The leader cost models of OptimalLeaderCalculator.  Two variants exist *)
(* in the source (spec section 9):                                         *)
(*   Q: src/B/etcd-release-3.4/moveleader.py, the quorum model of spec     *)
(*      section 4.1: reads pay the leader-to-replica latency, writes pay  *)
(*      the commit latency, an order statistic of the follower latencies;  *)
(*   P: src/A/ROOT/predict_leader.py, used by the control loop: every      *)
(*      request pays the leader-to-replica latency, truncated by int().    *)
(* A domain's loads are naturals counting 1/Scale request units, so a     *)
(* forecast mean such as 2.5 is 5 with Scale = 2, and int(total * lat)   *)
(* becomes ((r + w) * lat) \div Scale.  A candidate list is a sequence in *)
(* the order the code iterates it.                                        *)
(***************************************************************************)
EXTENDS Naturals, Sequences, SequencesExt, TLC

CONSTANTS
    Ips,        \* ip_to_index keys
    Lat,        \* latency_matrix as a function on Ips \X Ips (ms)
    Scale,      \* load units per request
    None,       \* Python None
    Inf         \* float("inf") / math.inf

ASSUME CostModelAssumption ==
    /\ Lat \in [Ips \X Ips -> Nat]
    /\ Scale \in Nat \ {0}
    /\ None \notin Nat /\ Inf \notin Nat

\* get_latency: the matrix entry, or the penalty 999 for an unknown address.
Unknown == 999
GetLatency(from, to) ==
    IF from \in Ips /\ to \in Ips THEN Lat[from, to] ELSE Unknown

\* cost < best_cost where best_cost may be float("inf")
LessThan(c, best) == best = Inf \/ (c # Inf /\ c < best)

SeqSum(s) == FoldLeft(LAMBDA acc, x : acc + x, 0, s)

\* math.floor(total_nodes / 2) + 1
QuorumSize(ds) == SeqSum([i \in DOMAIN ds |-> ds[i].nodes]) \div 2 + 1

\* The scan of find_optimal_leader over the candidates in list order: keep
\* the first candidate of least cost.  costs[k] is the cost of ds[k], Inf
\* for a candidate that is skipped.
Scan(ds, costs) ==
    FoldLeft(LAMBDA acc, k :
                 IF costs[k] # Inf /\ LessThan(costs[k], acc.cost)
                   THEN [best |-> ds[k], cost |-> costs[k]]
                   ELSE acc,
             [best |-> None, cost |-> Inf], [k \in DOMAIN ds |-> k])

-----------------------------------------------------------------------------
(* Variant Q, moveleader.py                                                *)

\* Latencies from the leader to every other domain, in list order.
FollowerLatencies(leader, ds) ==
    LET others == SelectSeq(ds, LAMBDA d : d.id # leader.id)
    IN  [i \in DOMAIN others |-> GetLatency(leader.address, others[i].address)]

\* Mutants: waiting for every follower; taking the order statistic of the
\* unsorted list.
CommitLatencyAll(leader, ds, quorum) ==
    LET lats == SortSeq(FollowerLatencies(leader, ds), <)
    IN  IF quorum - 1 > Len(lats) THEN Inf
        ELSE IF quorum - 1 <= 0 THEN 0
        ELSE lats[Len(lats)]

CommitLatencyUnsorted(leader, ds, quorum) ==
    LET lats == FollowerLatencies(leader, ds)
    IN  IF quorum - 1 > Len(lats) THEN Inf
        ELSE IF quorum - 1 <= 0 THEN 0
        ELSE lats[quorum - 1]

\* calculate_commit_latency: sort, then the (quorum-1)-th smallest.
CommitLatency(leader, ds, quorum) ==
    LET lats == SortSeq(FollowerLatencies(leader, ds), <)
        need == quorum - 1
    IN  IF need > Len(lats) THEN Inf
        ELSE IF need <= 0 THEN 0
        ELSE lats[need]

\* calculate_total_latency: sum R_i * L(p, i) + W_commit(p) * sum W_i
ReadLatency(leader, d) ==
    IF d.id = leader.id THEN 0 ELSE GetLatency(leader.address, d.address)

QTotalLatency(leader, ds, commit) ==
    SeqSum([i \in DOMAIN ds |-> ds[i].read * ReadLatency(leader, ds[i])])
      + commit * SeqSum([i \in DOMAIN ds |-> ds[i].write])

QCost(cand, ds) ==
    LET commit == CommitLatency(cand, ds, QuorumSize(ds))
    IN  IF commit = Inf THEN Inf ELSE QTotalLatency(cand, ds, commit)

\* find_optimal_leader: (None, None) for an empty list; otherwise
\* "return optimal_leader, min_total_latency if optimal_leader else
\* (None, None)", whose conditional binds to the second component only.
QFindOptimal(ds) ==
    IF ds = <<>> THEN [best |-> None, cost |-> None]
    ELSE LET r == Scan(ds, [k \in DOMAIN ds |-> QCost(ds[k], ds)])
         IN  IF r.best = None THEN [best |-> None, cost |-> <<None, None>>] ELSE r

-----------------------------------------------------------------------------
(* Variant P, predict_leader.py                                            *)

\* calculate_total_latency: sum int((r + w) * latency)
PTotalLatency(leader, ds) ==
    SeqSum([i \in DOMAIN ds |->
              ((ds[i].read + ds[i].write) * ReadLatency(leader, ds[i])) \div Scale])

\* find_optimal_leader computes the quorum size but does not use it.
PFindOptimal(ds) ==
    IF ds = <<>> THEN [best |-> None, cost |-> None]
    ELSE Scan(ds, [k \in DOMAIN ds |-> PTotalLatency(ds[k], ds)])

-----------------------------------------------------------------------------
(* Reference: the cost model of spec section 4.1 stated without sorting   *)
(* or scanning.  The commit latency is the least follower latency that at *)
(* least quorum-1 followers reach; the optimum is the first candidate, in  *)
(* input order, whose cost no feasible candidate beats.                    *)
RefCommitLatency(leader, ds) ==
    LET lats == FollowerLatencies(leader, ds)
        need == QuorumSize(ds) - 1
        Reach(v) == {i \in DOMAIN lats : lats[i] <= v}
        Count(S) == Cardinality(S)
    IN  IF need > Len(lats) THEN Inf
        ELSE IF need <= 0 THEN 0
        ELSE CHOOSE v \in {lats[i] : i \in DOMAIN lats} :
                 /\ Count(Reach(v)) >= need
                 /\ \A i \in DOMAIN lats : lats[i] < v => Count(Reach(lats[i])) < need

RefCost(i, ds) ==
    LET commit == RefCommitLatency(ds[i], ds)
    IN  IF commit = Inf THEN Inf
        ELSE SeqSum([j \in DOMAIN ds |-> ds[j].read * ReadLatency(ds[i], ds[j])])
               + commit * SeqSum([j \in DOMAIN ds |-> ds[j].write])

RefOptimal(ds) ==
    LET Feasible == {i \in DOMAIN ds : RefCost(i, ds) # Inf}
        IsBest(i) == \A j \in Feasible : RefCost(i, ds) <= RefCost(j, ds)
    IN  IF Feasible = {} THEN [best |-> None, cost |-> IF ds = <<>> THEN None ELSE Inf]
        ELSE LET i == CHOOSE i \in Feasible :
                        IsBest(i) /\ \A j \in Feasible : j < i => ~IsBest(j)
             IN  [best |-> ds[i], cost |-> RefCost(i, ds)]

=============================================================================
