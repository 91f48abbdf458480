--------------------------- MODULE MCControlLoop ---------------------------
(* ControlLoop on the three-host deployment of predict_leader.py.         *)
EXTENDS ControlLoop, TLC

CONSTANTS ip38, ip82, ip223

MCIps == {ip38, ip82, ip223}

\* The two remote hosts are interchangeable for every property checked.
MCSymmetry == Permutations({ip82, ip223})
=============================================================================
