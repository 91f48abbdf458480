\* Mean loads 0..1 request in half-request units, every list of up to four
\* domains in sorted id order (3 hosts, two nodes on 192.168.0.38).
CONSTANTS
    ip38 = ip38
    ip82 = ip82
    ip223 = ip223
    None = None
    Inf = Inf
    Ips <- MCIps
    Lat <- MCLat
    Scale = 2
    MaxLoad = 2
SPECIFICATION Spec
INVARIANT QuorumModelCorrect
INVARIANT OrderIndependentCost
