------------------------------- MODULE LogAudit --------------------------------
(***************************************************************************)
(* What a monitor of this repository promises, whatever the log: it audits *)
(* the entries, tells somebody about those that matter, and moves the      *)
(* checkpoint it trusts only forward, over entries that are dealt with.    *)
(*                                                                         *)
(* Nothing here knows of rounds, ranges, batches, restarts or failures: a  *)
(* step of the monitor is one of those below or changes none of these      *)
(* variables.  RekorV1 and CTLog implement this specification, and RekorV2 *)
(* does until its first rotation; each gives its variables by an INSTANCE  *)
(* of this module.                                                         *)
(*                                                                         *)
(* The promise about the content of the log is owed only while the log is  *)
(* honest, that is append-only: what the monitor fetches is not compared   *)
(* with a checkpoint.                                                      *)
(***************************************************************************)
EXTENDS Integers, Sequences, SequencesExt

CONSTANTS
  Entries,        \* what an entry can be
  Matching,       \* entries somebody must be told of: they match
  Unreadable,     \* entries somebody must be told of: they cannot be read
  Platforms,      \* where somebody is told, a sequence of names
  NoCheckpoint    \* what is trusted before anything is

VARIABLES
  log,            \* the entries of the log
  honest,         \* the log has been append-only so far
  trusted,        \* the checkpoint to go on from: a prefix of some log
  audited,        \* indices of the entries looked at
  excused,        \* indices the operator does not want looked at
  recorded,       \* indices of the matching entries kept in a file
  told            \* <<payload, platform, index>> accepted by a platform

auditVars == <<log, honest, trusted, audited, excused, recorded, told>>

Indices(entries) == 0..(Len(entries) - 1)

\* The entries a report of some payload may be about.
Kind(payload) == IF payload = "found" THEN Matching ELSE Unreadable

\* A report about index i is true: the entry was looked at, and it is of the
\* kind reported.
Justified(payload, i) ==
  /\ i \in audited
  /\ honest => i \in Indices(log) /\ log[i + 1] \in Kind(payload)

\* Everything owed for the entry at index i has been done.
DealtWith(i) ==
  \/ i \in excused
  \/ /\ i \in audited \cap Indices(log)
     /\ log[i + 1] \in Matching => i \in recorded
     /\ \A payload \in {"found", "failed"}, n \in 1..Len(Platforms) :
          log[i + 1] \in Kind(payload) => <<payload, Platforms[n], i>> \in told

Init ==
  /\ log \in Seq(Entries)
  /\ honest = TRUE
  /\ trusted = NoCheckpoint
  /\ audited = {}
  /\ excused = {}
  /\ recorded = {}
  /\ told = {}

-----------------------------------------------------------------------------
(* The log and the operator.                                               *)

Grow ==
  /\ log' \in Seq(Entries)
  /\ IsPrefix(log, log')
  /\ UNCHANGED <<honest, trusted, audited, excused, recorded, told>>

Cheat ==
  /\ log' \in Seq(Entries)
  /\ honest' = FALSE
  /\ UNCHANGED <<trusted, audited, excused, recorded, told>>

Excuse ==
  /\ excused \subseteq excused'
  /\ UNCHANGED <<log, honest, trusted, audited, recorded, told>>

-----------------------------------------------------------------------------
(* The monitor.                                                            *)

\* Entries that exist are looked at, and some of those looked at recorded.
Examine ==
  /\ audited \subseteq audited'
  /\ audited' \ audited \subseteq Indices(log)
  /\ recorded \subseteq recorded'
  /\ \A i \in recorded' \ recorded : Justified("found", i)'
  /\ UNCHANGED <<log, honest, trusted, excused, told>>

\* One platform hears of some entries; nothing is ever taken back.
Tell ==
  /\ told \subseteq told'
  /\ \A report \in told' \ told : Justified(report[1], report[3])
  /\ UNCHANGED <<log, honest, trusted, audited, excused, recorded>>

\* A checkpoint is trusted once it extends the one before and everything it
\* commits to is dealt with.
Trust ==
  /\ trusted' \in Seq(Entries)
  /\ trusted # NoCheckpoint => IsPrefix(trusted, trusted')
  /\ honest =>
       /\ IsPrefix(trusted', log)
       /\ \A i \in Indices(trusted') : DealtWith(i)
  /\ UNCHANGED <<log, honest, audited, excused, recorded, told>>

-----------------------------------------------------------------------------
Next ==
  \/ Grow
  \/ Cheat
  \/ Excuse
  \/ Examine
  \/ Tell
  \/ Trust

Spec == Init /\ [][Next]_auditVars
=============================================================================
