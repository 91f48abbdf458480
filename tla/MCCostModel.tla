---------------------------- MODULE MCCostModel ----------------------------
(* The cost models on the deployment of predict_leader.py: three hosts    *)
(* with the RTT matrix of OptimalLeaderCalculator, and every domain list  *)
(* build_domains_from_pred_mean can produce from four nodes (two on one  *)
(* host) with mean loads in half-request units up to MaxLoad.             *)
EXTENDS CostModel

CONSTANTS ip38, ip82, ip223, MaxLoad

MCIps == {ip38, ip82, ip223}

\* latency_matrix (ms), symmetric, zero on the diagonal
MCLat ==
    [p \in MCIps \X MCIps |->
        IF p[1] = p[2] THEN 0
        ELSE IF {p[1], p[2]} = {ip38, ip82} THEN 30
        ELSE IF {p[1], p[2]} = {ip38, ip223} THEN 40
        ELSE 50]

\* node_id_to_ip; node ids are numbered in their sorted order
NodeIp == (1 :> ip38) @@ (2 :> ip82) @@ (3 :> ip223) @@ (4 :> ip38)

Loads == {lw \in (0..MaxLoad) \X (0..MaxLoad) : lw # <<0, 0>>}

\* Domains in sorted id order, each with nodes = 1 and non-zero loads.
DomainLists ==
    UNION { { [k \in 1..Len(ids) |->
                 [id |-> ids[k], address |-> NodeIp[ids[k]], nodes |-> 1,
                  read |-> ld[k][1], write |-> ld[k][2]]]
              : ld \in [1..Len(ids) -> Loads] }
            : ids \in {SetToSortSeq(S, <) : S \in SUBSET DOMAIN NodeIp} }

VARIABLE domains

Init == domains \in DomainLists
Next == UNCHANGED domains
Spec == Init /\ [][Next]_domains

-----------------------------------------------------------------------------
(* Spec section 4.1 and 8: moveleader.py's quorum cost model returns the  *)
(* optimum of the section 4.1 formula (order-statistic commit latency,    *)
(* first candidate on ties) and its cost, for every domain list the load  *)
(* projector can build.                                                   *)
QuorumModelCorrect ==
    domains # <<>> => QFindOptimal(domains) = RefOptimal(domains)

(* Spec section 8: the optimal cost does not depend on the order of the   *)
(* candidate list; only which of several equal-cost leaders wins does.    *)
OrderIndependentCost ==
    \A perm \in Permutations(DOMAIN domains) :
        LET shuffled == [k \in DOMAIN domains |-> domains[perm[k]]]
        IN  /\ QFindOptimal(shuffled).cost = QFindOptimal(domains).cost
            /\ PFindOptimal(shuffled).cost = PFindOptimal(domains).cost

(* Spec section 4.1: the leader the control loop of predict_leader.py     *)
(* migrates to is the optimum of the quorum cost model.                   *)
ControlLoopUsesQuorumModel ==
    domains # <<>> => PFindOptimal(domains).best.address = RefOptimal(domains).best.address

=============================================================================
