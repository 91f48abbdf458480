\* The script run on 192.168.0.82, a host other than the target's.
CONSTANTS
    ip38 = ip38
    ip82 = ip82
    ip223 = ip223
    p2379 = p2379
    p3379 = p3379
    NoMember = NoMember
    Hosts <- MCHosts
    Ports <- MCPorts
    Target <- MCTarget
    LocalHost = ip82
SPECIFICATION Spec
INVARIANT TypeOK
INVARIANT HistoryFollowsLeader
PROPERTY ExecutorSpec
\* The script ends: main returns, or an exception leaves it.
CHECK_DEADLOCK FALSE
