------------------------------- MODULE MCSetup -------------------------------
(* Setup on small configuration directories: see the .cfg files. *)
EXTENDS Setup

Asks == [yes |-> FALSE, force |-> FALSE, specific |-> None, all |-> None]
MCGiven ==
  {Asks, [Asks EXCEPT !.force = TRUE], [Asks EXCEPT !.yes = TRUE, !.specific = "no"],
   [Asks EXCEPT !.specific = "yes", !.all = "no", !.force = TRUE]}

\* No file, a strict one without the other fields, one that leaves its limit out, a
\* bad limit.
MCHandWritten ==
  {Absent,
   [clock |-> Unset, limit |-> 1, env |-> Unset],
   [clock |-> "yes", limit |-> Unset, env |-> {"LANG"}],
   [clock |-> "yes", limit |-> 0, env |-> Unset]}

MCEdits ==
  {[clock |-> c, limit |-> v, env |-> e] :
     c \in {Unset, "no", "yes"}, v \in {Unset, 3}, e \in {Unset, {"LANG"}}}
  \cup {[clock |-> "yes", limit |-> 0, env |-> Unset], [clock |-> Unset, limit |-> Unset, env |-> {}]}

\* What the two files hold at first is combined only where one of them says nothing.
MCInit == SetupInit /\ (disk.conf.sources = {} \/ sandbox = Absent)
MCSpec == MCInit /\ [][SetupNext]_setupVars
=============================================================================
