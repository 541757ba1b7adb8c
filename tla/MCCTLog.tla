-------------------------------- MODULE MCCTLog --------------------------------
(***************************************************************************)
(* Values for the constants of CTLog.                                      *)
(***************************************************************************)
EXTENDS CTLog

\* How the monitor is run: every hour by a workflow, or as a daemon.
Cron   == [once |-> TRUE,  monitored |-> TRUE, start |-> NoIndex, end |-> NoIndex]
Daemon == [once |-> FALSE, monitored |-> TRUE, start |-> NoIndex, end |-> NoIndex]

\* A daemon that only checks consistency, and a search from an index on.
ConsistencyOnly == [Daemon EXCEPT !.monitored = FALSE]
From(i) == [Daemon EXCEPT !.start = i]

DaemonFlags == {Daemon}
RegularFlags == {Cron, Daemon}
AllFlags == {Cron, Daemon, ConsistencyOnly, From(1)}

OnePlatform == <<"github">>
=============================================================================
