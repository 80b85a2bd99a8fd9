---------------------------- MODULE MCResolution ----------------------------
(* Resolution for two names and two entries: see the .cfg file. *)
EXTENDS Resolution

Held(state, files) == [state |-> state, files |-> files]

MCGiven ==
  {Held("ready", {}), Held("ready", {"named", "main"}), Held("ready", {"flat", "main"}),
   Held("unset", {}), Held("down", {"flat"}), Held("nocatalog", {}),
   Held("unlisted", {}), Held("pathless", {}), Held("listed", {"flat"})}
=============================================================================
