------------------------------- MODULE MCRekorV2 -------------------------------
(***************************************************************************)
(* Values for the constants of RekorV2.                                    *)
(***************************************************************************)
EXTENDS RekorV2

\* How the monitor is run: every hour by a workflow, or as a daemon.
Cron   == [once |-> TRUE,  monitored |-> TRUE, start |-> NoIndex, end |-> NoIndex]
Daemon == [once |-> FALSE, monitored |-> TRUE, start |-> NoIndex, end |-> NoIndex]

\* A daemon that only checks consistency.
ConsistencyOnly == [Daemon EXCEPT !.monitored = FALSE]

CronOnly == {Cron}
RegularFlags == {Cron, Daemon}
AllFlags == {Cron, Daemon, ConsistencyOnly}

\* The first shard reaches into a second tile, and both may be of one size.
ThreeAndTwo == <<3, 2>>
ThreeAndOne == <<3, 1>>

OnePlatform == <<"github">>
=============================================================================
