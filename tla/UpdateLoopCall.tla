--------------------------- MODULE UpdateLoopCall ---------------------------
(***************************************************************************)
(* main_loop of src/B/etcd-release-3.4/update.py as its caller sees        *)
(* snapshot_csv: one call that either returns a snapshot of a CSV present  *)
(* on this host, or raises, and always returns.  The stat pairs, the copy, *)
(* the size check and the retries are hidden.  UpdateLoop implements this *)
(* specification.                                                          *)
(***************************************************************************)
EXTENDS Naturals

CONSTANT Window     \* iterations of the probe loop in WINDOW_SECONDS

VARIABLES
    pc,         \* main_loop's control point; "snap" while snapshot_csv runs
    stop,       \* the _stop flag
    leader,     \* etcd_server_is_leader of this host
    csv,        \* raft_stats.csv exists on this host
    left        \* probe-loop iterations left in the window

vars == <<pc, stop, leader, csv, left>>

Init ==
    /\ pc = "wait"
    /\ stop = FALSE
    /\ leader \in BOOLEAN
    /\ csv \in BOOLEAN
    /\ left = 0

\* The cycle wait returns on _stop, or opens a window.
Wait ==
    /\ pc = "wait"
    /\ \/ stop /\ pc' = "exited" /\ left' = left
       \/ pc' = "probe" /\ left' = Window
    /\ UNCHANGED <<stop, leader, csv>>

\* One iteration of the window loop, or its end.
Probe ==
    /\ pc = "probe"
    /\ \/ /\ left = 0 \/ stop
          /\ pc' = IF stop THEN "exited" ELSE "wait"
          /\ left' = left
       \/ /\ left > 0 /\ ~stop
          /\ \/ ~leader /\ left' = left - 1 /\ pc' = pc
             \/ leader /\ pc' = "snap" /\ left' = left
    /\ UNCHANGED <<stop, leader, csv>>

\* snapshot_csv returns a snapshot (only of a CSV that is here), or raises
\* and main_loop sleeps and continues.
Snapshot ==
    /\ pc = "snap"
    /\ \/ csv /\ pc' = "train" /\ left' = left
       \/ pc' = "probe" /\ left' = left - 1
    /\ UNCHANGED <<stop, leader, csv>>

\* Training, then the next cycle unless _stop is set.
Train ==
    /\ pc = "train"
    /\ pc' = IF stop THEN "exited" ELSE "wait"
    /\ UNCHANGED <<stop, leader, csv, left>>

Loop == Wait \/ Probe \/ Snapshot \/ Train

\* The signal handler, elections and migrations.
Environment ==
    \/ ~stop /\ stop' = TRUE /\ UNCHANGED <<pc, leader, csv, left>>
    \/ leader' = ~leader /\ UNCHANGED <<pc, stop, csv, left>>
    \/ csv' = ~csv /\ UNCHANGED <<pc, stop, leader, left>>

Next == Loop \/ Environment

Spec == Init /\ [][Next]_vars /\ WF_vars(Loop)

\* The safety part: every step is one of the above, or leaves vars alone.
SafeSpec == Init /\ [][Next]_vars

=============================================================================
