----------------------------- MODULE MoldCache -----------------------------
(***************************************************************************)
(* load_url_with_cache (src/mold.rs): the copy of a mold.  With a hash     *)
(* from the catalog (mode "hash") the copy is a script, the hash it was    *)
(* installed under and a companion file; without one it is a single file   *)
(* with an age.                                                            *)
(*                                                                         *)
(* Each file is written to a temporary of the process and renamed, so it   *)
(* changes in one step, except that a rename which fails over an existing  *)
(* file is tried again after that file's removal (Displace).               *)
(***************************************************************************)
EXTENDS RemoteMold

VARIABLES
  script, hash, companion,  \* mold.py, .cache-hash, a template: version or None
  copy, young,              \* the copy of a direct URL, and whether its age is below the TTL
  disturbed,                \* history: two loads stored a mold at the same time
  lapsed                    \* history: the last installation of the script ended without
                            \* one of the companion, or a clear removed that

moldFiles == <<script, hash, companion, copy, young>>
moldVars == <<moldFiles, disturbed, lapsed>>

\* The phases of a load that has installed a script and not its companion, and of
\* one that stores a mold.
Between == {"hash", "companion", "accompany"}
Storing == Between \cup {"fetch", "install"}

MoldInit ==
  /\ script = None /\ hash = None /\ companion = None
  /\ copy = None /\ young = FALSE /\ disturbed = FALSE /\ lapsed = FALSE

\* Deviation: any hash counts as a hit.
AnyHashMatches(p) == ~load[p].bypass /\ hash # None
HashMatches(p) == ~load[p].bypass /\ hash = load[p].catalog

LookupHash(p) ==
  /\ pc[p] = "lookup" /\ HashMatches(p) /\ Goto(p, "check")
  /\ UNCHANGED <<load, moldVars>>

LookupScript(p) ==
  /\ pc[p] = "check" /\ script # None /\ Goto(p, "open")
  /\ UNCHANGED <<load, moldVars>>

Open(p) ==
  /\ pc[p] = "open" /\ script # None /\ Deliver(p, script)
  /\ UNCHANGED moldVars

OpenFails(p) ==
  /\ pc[p] = "open" /\ script = None /\ Fail(p)
  /\ UNCHANGED moldVars

Miss(p) ==
  /\ \/ pc[p] = "lookup" /\ ~HashMatches(p)
     \/ pc[p] = "check" /\ script = None
  /\ Goto(p, "fetch")
  /\ disturbed' = (disturbed \/ Overlaps(p, Storing))
  /\ UNCHANGED <<load, moldFiles, lapsed>>

\* Deviation: the hash is recorded before the script it belongs to.
FetchRecording(p, h) ==
  /\ pc[p] = "fetch" /\ Goto(p, "install")
  /\ load' = [load EXCEPT ![p].content = published]
  /\ hash' = h
  /\ UNCHANGED <<script, companion, copy, young, disturbed, lapsed>>
FetchHashFirst(p) == FetchRecording(p, load[p].catalog)
Fetch(p) == FetchRecording(p, hash)

Install(p) ==
  /\ pc[p] = "install" /\ Goto(p, "hash")
  /\ script' = load[p].content
  /\ UNCHANGED <<load, hash, companion, copy, young, disturbed, lapsed>>

\* It is recorded under the catalog's hash, whatever the script's own is.
InstallHash(p) ==
  /\ pc[p] = "hash" /\ Goto(p, "companion")
  /\ hash' = load[p].catalog
  /\ UNCHANGED <<load, script, companion, copy, young, disturbed, lapsed>>

\* A warning; the companions are fetched all the same.
InstallFails(p) ==
  /\ pc[p] \in {"install", "hash"} /\ Goto(p, "companion")
  /\ UNCHANGED <<load, moldVars>>

FetchCompanion(p) ==
  /\ pc[p] = "companion" /\ Goto(p, "accompany")
  /\ load' = [load EXCEPT ![p].side = published]
  /\ UNCHANGED moldVars

StoreCompanion(p) ==
  /\ pc[p] = "accompany" /\ Deliver(p, load[p].content)
  /\ companion' = load[p].side /\ lapsed' = FALSE
  /\ UNCHANGED <<script, hash, copy, young, disturbed>>

\* It cannot be fetched, or not be stored: a warning.
CompanionFails(p) ==
  /\ pc[p] \in {"companion", "accompany"} /\ Deliver(p, load[p].content)
  /\ lapsed' = TRUE
  /\ UNCHANGED <<moldFiles, disturbed>>

\* Direct URLs.  Deviation: --no-cache is not asked.
CopyUsableAnyway(p) == mode # "disabled" /\ copy # None /\ (mode = "forever" \/ young)
CopyUsable(p) ==
  ~load[p].bypass /\ mode # "disabled" /\ copy # None /\ (mode = "forever" \/ young)

LookupCopy(p) ==
  /\ pc[p] = "flat" /\ CopyUsable(p) /\ Goto(p, "reuse")
  /\ UNCHANGED <<load, moldVars>>

UseCopy(p) ==
  /\ pc[p] = "reuse"
  /\ IF copy = None THEN Fail(p) ELSE Deliver(p, copy)
  /\ UNCHANGED moldVars

MissCopy(p) ==
  /\ pc[p] = "flat" /\ ~CopyUsable(p) /\ Goto(p, "download")
  /\ UNCHANGED <<load, moldVars>>

FetchFlat(p) ==
  /\ pc[p] = "download" /\ Goto(p, "keep")
  /\ load' = [load EXCEPT ![p].content = published]
  /\ UNCHANGED moldVars

Keep(p) ==
  /\ pc[p] = "keep" /\ mode # "disabled" /\ Deliver(p, load[p].content)
  /\ copy' = load[p].content /\ young' = TRUE
  /\ UNCHANGED <<script, hash, companion, disturbed, lapsed>>

NotKept(p) ==
  /\ pc[p] = "keep" /\ Deliver(p, load[p].content)
  /\ UNCHANGED moldVars

FetchFails(p) ==
  /\ pc[p] \in {"fetch", "download"} /\ Fail(p)
  /\ UNCHANGED moldVars

\* The file in the way of a rename is removed before the rename is tried again.
Displace(p) ==
  /\ \/ /\ pc[p] = "install" /\ script # None /\ script' = None
        /\ UNCHANGED <<hash, companion, copy>>
     \/ /\ pc[p] = "hash" /\ hash # None /\ hash' = None
        /\ UNCHANGED <<script, companion, copy>>
     \/ /\ pc[p] = "accompany" /\ companion # None /\ companion' = None
        /\ UNCHANGED <<script, hash, copy>>
     \/ /\ pc[p] = "keep" /\ mode # "disabled" /\ copy # None /\ copy' = None
        /\ UNCHANGED <<script, hash, companion>>
  /\ UNCHANGED <<pc, load, young, disturbed, lapsed>>

MoldStep(p) ==
  \/ LookupHash(p) \/ LookupScript(p) \/ Open(p) \/ OpenFails(p) \/ Miss(p)
  \/ Fetch(p) \/ FetchFails(p) \/ Install(p) \/ InstallHash(p) \/ InstallFails(p)
  \/ FetchCompanion(p) \/ StoreCompanion(p) \/ CompanionFails(p)
  \/ LookupCopy(p) \/ UseCopy(p) \/ MissCopy(p) \/ FetchFlat(p) \/ Keep(p) \/ NotKept(p)
  \/ Displace(p)
=============================================================================
