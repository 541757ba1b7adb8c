------------------------------- MODULE MCRekorV1 -------------------------------
(***************************************************************************)
(* Values for the constants of RekorV1.                                    *)
(***************************************************************************)
EXTENDS RekorV1

\* How the monitor is run: every hour by a workflow, or as a daemon.
Cron   == [once |-> TRUE,  monitored |-> TRUE, start |-> NoIndex, end |-> NoIndex]
Daemon == [once |-> FALSE, monitored |-> TRUE, start |-> NoIndex, end |-> NoIndex]

\* A daemon that only checks consistency, and ad hoc searches of a range.
ConsistencyOnly == [Daemon EXCEPT !.monitored = FALSE]
From(i)  == [Daemon EXCEPT !.start = i]
Until(i) == [Daemon EXCEPT !.end = i]

RegularFlags == {Cron, Daemon}
AllFlags == {Cron, Daemon, ConsistencyOnly, From(1), Until(1)}

\* One platform, and two in the pool's order.
OnePlatform == <<"github">>
TwoPlatforms == <<"github", "email">>
=============================================================================
