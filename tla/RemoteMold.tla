----------------------------- MODULE RemoteMold -----------------------------
(***************************************************************************)
(* Loading one mold from a remote origin: what the two caches of a user's  *)
(* machine, CatalogCache and MoldCache, share.  Every fimod process that   *)
(* loads the mold is a member of Procs; they share nothing but the files   *)
(* of the cache directory.                                                 *)
(*                                                                         *)
(* The origin publishes versions 1, 2, ... of the mold, of its catalog     *)
(* entry (whose content hash is therefore the version) and of its          *)
(* companion file, all at once.                                            *)
(***************************************************************************)
EXTENDS Naturals

CONSTANTS
  Procs,
  MaxVersion,  \* bound on what the origin publishes
  None

ASSUME RemoteAssumption == MaxVersion \in Nat \ {0} /\ None \notin Nat

VARIABLES
  published,  \* the version the origin serves
  mode,       \* "hash": the catalog gives the mold's hash; otherwise a direct
              \* URL (or no hash), with FIMOD_CACHE_TTL < 0 "disabled",
              \* = 0 "forever", > 0 "expires"
  pc,
  load        \* the locals of a load, see NoLoad

world == <<published, mode>>

Versions == 1..MaxVersion

\* A file caught between truncation and the end of its rewriting, or left so.
Broken == 0

NoLoad ==
  [bypass  |-> FALSE,  \* --no-cache
   began   |-> 1,      \* history: what was published when the load began
   tag     |-> None,   \* If-None-Match
   reply   |-> None,   \* the catalog body in hand, from a response
   catalog |-> None,   \* the version (hash) the load goes by
   content |-> None,   \* the script in hand, from a response
   side    |-> None,   \* the companion in hand, from a response
   got     |-> None]   \* the script the load returns

Goto(p, q) == pc' = [pc EXCEPT ![p] = q]

\* The load ends: without a script, or with script v.
Fail(p) == Goto(p, "idle") /\ load' = [load EXCEPT ![p] = NoLoad]
Deliver(p, v) ==
  /\ Goto(p, "done")
  /\ load' = [load EXCEPT ![p] = [@ EXCEPT !.content = None, !.side = None, !.got = v]]

\* Another load than p is in one of the phases qs, which write to a cache.
Overlaps(p, qs) == \E q \in Procs \ {p} : pc[q] \in qs
=============================================================================
