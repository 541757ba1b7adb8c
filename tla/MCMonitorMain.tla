----------------------------- MODULE MCMonitorMain -----------------------------
(* A small instance of MonitorMain.                                        *)
EXTENDS MonitorMain

\* A command line that leaves everything at its default.
Plain ==
  [once |-> TRUE, sources |-> 0, valid |-> TRUE,
   flagRoots |-> FALSE, flagIntermediates |-> FALSE,
   yamlRoots |-> FALSE, yamlIntermediates |-> FALSE,
   repository |-> "default", rootPath |-> FALSE,
   identities |-> FALSE, matchers |-> "none", bounded |-> FALSE]

\* Every way to name certificate files, with and without a configuration.
FileLines ==
  {[Plain EXCEPT !.sources = IF yr \/ yi THEN 1 ELSE 0, !.flagRoots = fr,
                 !.flagIntermediates = fi, !.yamlRoots = yr,
                 !.yamlIntermediates = yi] :
     fr \in BOOLEAN, fi \in BOOLEAN, yr \in BOOLEAN, yi \in BOOLEAN}

\* Flags that are refused.
RefusedLines ==
  {[Plain EXCEPT !.sources = 2],
   [Plain EXCEPT !.sources = 1, !.valid = FALSE],
   [Plain EXCEPT !.repository = "custom"],
   [Plain EXCEPT !.repository = "staging", !.rootPath = TRUE]}

\* What there is to monitor, once or as a daemon.
MonitorLines ==
  {[Plain EXCEPT !.once = once, !.sources = 1, !.identities = identities,
                 !.matchers = matchers] :
     once \in BOOLEAN, identities \in BOOLEAN, matchers \in {"none", "good", "bad"}}
    \cup {[Plain EXCEPT !.once = FALSE, !.sources = 1, !.identities = TRUE,
                        !.bounded = TRUE]}

MCPrograms == {"rekor-monitor", "ct-monitor"}
MCCommandLines == FileLines \cup RefusedLines \cup MonitorLines
MCSigningConfigs ==
  LET own(v) == [own |-> TRUE, version |-> v]
      other  == [own |-> FALSE, version |-> 2]
  IN {<<>>, <<own(1), other>>, <<own(1), own(2)>>, <<own(3)>>}
MCOptionLists == {<<>>}
MCDurations == {0, 20000}
=============================================================================
