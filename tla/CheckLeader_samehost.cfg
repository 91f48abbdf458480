\* The script run on 192.168.0.38, the target's own host, while the leader
\* is its member on port 3379.
CONSTANTS
    ip38 = ip38
    ip82 = ip82
    ip223 = ip223
    p2379 = p2379
    p3379 = p3379
    NoMember = NoMember
    Hosts <- MCHosts
    Ports <- MCPorts
    Target <- MCTarget
    LocalHost = ip38
SPECIFICATION Spec
INVARIANT HistoryFollowsLeader
CHECK_DEADLOCK FALSE
