--------------------------- MODULE MCCheckLeader ---------------------------
(* check_leader.py on the deployment: three hosts, two client ports each  *)
(* (the third member of a host behaves as the second), target             *)
(* 192.168.0.38:2379.                                                      *)
EXTENDS CheckLeader

CONSTANTS ip38, ip82, ip223, p2379, p3379

MCHosts == {ip38, ip82, ip223}
MCPorts == {p2379, p3379}
MCTarget == <<ip38, p2379>>
=============================================================================
