----------------------------- MODULE RemoteLoad -----------------------------
(***************************************************************************)
(* fimod processes that load a mold through both caches, the origin that   *)
(* publishes it, the clock that ages the copies, `fimod registry cache     *)
(* clear`, and the death of a process between any two steps.               *)
(***************************************************************************)
EXTENDS CatalogCache, MoldCache

vars == <<world, pc, load, catVars, moldVars>>

Init ==
  /\ published = 1
  /\ mode \in {"hash", "disabled", "forever", "expires"}
  /\ pc = [p \in Procs |-> "idle"]
  /\ load = [p \in Procs |-> NoLoad]
  /\ CatalogInit /\ MoldInit

\* A registry's mold goes through its catalog, a direct URL does not.
Begin(p) ==
  /\ pc[p] = "idle" /\ Goto(p, IF mode = "hash" THEN "start" ELSE "flat")
  /\ \E b \in BOOLEAN :
       load' = [load EXCEPT ![p] = [NoLoad EXCEPT !.bypass = b, !.began = published]]
  /\ UNCHANGED <<world, catVars, moldVars>>

\* The run is over, or the process dies before it is.
End(p) ==
  /\ pc[p] # "idle" /\ Fail(p)
  /\ lapsed' = (lapsed \/ pc[p] \in Between)
  /\ UNCHANGED <<world, catVars, moldFiles, disturbed>>

Publish ==
  /\ published < MaxVersion /\ published' = published + 1
  /\ UNCHANGED <<mode, pc, load, catVars, moldVars>>

Age ==
  /\ fresh \/ young
  /\ fresh' = FALSE /\ young' = FALSE
  /\ UNCHANGED <<world, pc, load, body, etag, contested, refused>>
  /\ UNCHANGED <<script, hash, companion, copy, disturbed, lapsed>>

\* cache_clear removes the directory, file by file, and may be cut short (End).
BeginClear(p) ==
  /\ pc[p] = "idle" /\ Goto(p, "clear")
  /\ UNCHANGED <<world, load, catVars, moldVars>>

ClearCatalog(p) ==
  /\ pc[p] = "clear"
  /\ \/ /\ body # None /\ body' = None /\ fresh' = FALSE /\ refused' = FALSE
        /\ UNCHANGED etag
     \/ /\ etag # None /\ etag' = None
        /\ UNCHANGED <<body, fresh, refused>>
  /\ contested' = (contested \/ Overlaps(p, Asking))
  /\ UNCHANGED <<world, pc, load, moldVars>>

ClearMold(p) ==
  /\ pc[p] = "clear"
  /\ \/ /\ script # None /\ script' = None
        /\ UNCHANGED <<hash, companion, copy, young, lapsed>>
     \/ /\ hash # None /\ hash' = None
        /\ UNCHANGED <<script, companion, copy, young, lapsed>>
     \/ /\ companion # None /\ companion' = None /\ lapsed' = TRUE
        /\ UNCHANGED <<script, hash, copy, young>>
     \/ /\ copy # None /\ copy' = None /\ young' = FALSE
        /\ UNCHANGED <<script, hash, companion, lapsed>>
  /\ UNCHANGED <<world, pc, load, catVars, disturbed>>

Next ==
  \/ \E p \in Procs : \/ Begin(p) \/ End(p)
                      \/ BeginClear(p) \/ ClearCatalog(p) \/ ClearMold(p)
                      \/ CatalogStep(p) /\ UNCHANGED <<world, moldVars>>
                      \/ MoldStep(p) /\ UNCHANGED <<world, catVars>>
  \/ Publish \/ Age

Spec == Init /\ [][Next]_vars

----------------------------------------------------------------------------
\* Properties

\* A catalog the origin was asked about is at least what was published when the
\* load began, through deaths between any two writes, failed and cut writes and
\* expiry: the body is written before its ETag, so an ETag vouches for no older
\* body.  A 200 always is.  A 304 is not where two loads asked at the same time,
\* the cache was cleared under one, or an older body could not be replaced when
\* the newer one arrived: its ETag was recorded all the same (catalog.rs:256).
ValidatedIsCurrent ==
  [][\A p \in Procs :
       /\ pc[p] \in Asking /\ pc'[p] = "lookup"
       /\ pc[p] \in Confirming => ~contested /\ ~refused
       => load'[p].catalog >= load[p].began]_vars

\* With --no-cache, or FIMOD_CACHE_TTL < 0 on a direct URL, the script is at least
\* what was published when the load began, whatever other processes do to the
\* caches at the same time.
UncachedIsCurrent ==
  \A p \in Procs :
    load[p].got # None /\ (load[p].bypass \/ mode = "disabled")
      => load[p].got >= load[p].began

\* A load never returns a script older than the catalog it went by, though the
\* script may be newer, and may be recorded under an older hash: the script is
\* installed before its hash.  Only two loads that store a mold at the same time
\* break it.
NeverOlderThanCatalog ==
  \A p \in Procs :
    mode = "hash" /\ load[p].got # None /\ ~disturbed => load[p].got >= load[p].catalog

\* A cached script is opened with a companion at least as new as the hash it was
\* found by, whatever was published, removed or left half installed before.  Three
\* cases are apart: another load has installed its script and not yet its
\* companion; the last installation lost its companion, or a clear at work or cut
\* short removed it, which a hit never repairs (mold.rs:445), until some load
\* stores one; two loads stored at the same time (the companion that one fetched
\* can be renamed over the other's newer one).
HitIsComplete ==
  [][\A p \in Procs :
       Open(p) /\ ~lapsed /\ ~disturbed /\ (\A q \in Procs : pc[q] \notin Between)
         => companion # None /\ companion >= load[p].catalog]_vars
=============================================================================
