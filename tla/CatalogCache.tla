---------------------------- MODULE CatalogCache ----------------------------
(***************************************************************************)
(* fetch_catalog (src/registry/catalog.rs): the copy of a registry's       *)
(* catalog.toml with its ETag.  A copy younger than a minute is used as it *)
(* is; otherwise the origin is asked whether it is still current.          *)
(*                                                                         *)
(* Both files are written by fs::write, which truncates first: a file is   *)
(* Broken (empty or cut short) in between, and for ever if the process     *)
(* dies or the write fails half-way; and it stays as it was if it cannot   *)
(* be opened.  The load goes on after a failed write.  An empty body       *)
(* parses, as a catalog without molds, and one cut short does not parse or *)
(* lacks what was cut: either way the load is taken to fail (where the cut *)
(* falls is left out). An empty ETag is not sent and one cut short is no   *)
(* version's: both are as good as none.                                    *)
(***************************************************************************)
EXTENDS RemoteMold

VARIABLES
  body,      \* catalog.toml: a version, Broken, or None (no file)
  etag,      \* etag: a version, or None (no file, an empty or a cut one)
  fresh,     \* body was written less than CATALOG_CACHE_TTL ago
  contested, \* history: two loads asked the origin, or stored its answer, at the
             \* same time, or a clear removed a file under one that did
  refused    \* history: the body that lies there could not be replaced when a
             \* newer one arrived, and has not been since

catFiles == <<body, etag, fresh>>
catVars == <<catFiles, contested, refused>>

\* The phases of a load that has asked the origin, and of one that goes by the copy.
Confirming == {"renew", "touch"}
Asking == Confirming \cup {"asked", "unmodified", "store", "write", "tag", "tagging"}

CatalogInit ==
  body = None /\ etag = None /\ fresh = FALSE /\ contested = FALSE /\ refused = FALSE

\* The body in hand is parsed; the load keeps of the request what a property needs.
GoesBy(p, v) ==
  /\ Goto(p, "lookup")
  /\ load' = [load EXCEPT ![p] =
                [@ EXCEPT !.tag = None, !.reply = None, !.catalog = v,
                          !.began = IF load[p].bypass THEN load[p].began ELSE 1]]
Parsed(p, v) == IF v = Broken THEN Fail(p) ELSE GoesBy(p, v)

\* --no-cache skips the look at the copy's age, and does not send its ETag.
LookFresh(p) ==
  /\ pc[p] = "start" /\ ~load[p].bypass
  /\ Goto(p, IF fresh /\ body # None THEN "fresh" ELSE "stale")
  /\ UNCHANGED <<load, catVars>>

UseFresh(p) ==
  /\ pc[p] = "fresh" /\ body # None /\ Parsed(p, body)
  /\ UNCHANGED catVars

FreshGone(p) ==
  /\ pc[p] = "fresh" /\ body = None /\ Goto(p, "stale")
  /\ UNCHANGED <<load, catVars>>

Ask(p) ==
  /\ pc[p] = (IF load[p].bypass THEN "start" ELSE "stale") /\ Goto(p, "asked")
  /\ load' = [load EXCEPT ![p].tag = IF load[p].bypass THEN None ELSE etag]
  /\ contested' = (contested \/ Overlaps(p, Asking))
  /\ UNCHANGED <<catFiles, refused>>

AskFails(p) ==
  /\ pc[p] = "asked" /\ Fail(p)
  /\ UNCHANGED catVars

NotModified(p) ==
  /\ pc[p] = "asked" /\ load[p].tag = published /\ Goto(p, "unmodified")
  /\ UNCHANGED <<load, catVars>>

\* Deviation: the new ETag is recorded before the body it belongs to.
AnswerRecording(p, e) ==
  /\ pc[p] = "asked" /\ load[p].tag # published /\ Goto(p, "store")
  /\ load' = [load EXCEPT ![p] = [@ EXCEPT !.tag = None, !.reply = published]]
  /\ etag' = e
  /\ UNCHANGED <<body, fresh, contested, refused>>
AnswerTagFirst(p) == AnswerRecording(p, published)
Answer(p) == AnswerRecording(p, etag)

\* 304: the copy is read, then written back to renew its age.
ReadCopy(p) ==
  /\ pc[p] = "unmodified" /\ body # None /\ Goto(p, "renew")
  /\ load' = [load EXCEPT ![p] = [@ EXCEPT !.tag = None, !.reply = body]]
  /\ UNCHANGED catVars

\* 304 and the copy is gone: the code goes on with the empty body of the 304.
Gone(p) ==
  /\ pc[p] = "unmodified" /\ body = None /\ Goto(p, "store")
  /\ load' = [load EXCEPT ![p].reply = Broken]
  /\ UNCHANGED catVars

\* What a write leaves after the truncation: the whole, or a mixture with what another
\* load has written since, and nothing of a file removed since.
Written(p) ==
  CASE body = Broken -> {load[p].reply}
    [] body = None   -> {None}
    [] OTHER         -> {load[p].reply, Broken}

Renew(p) ==
  /\ pc[p] = "renew" /\ Goto(p, "touch")
  /\ body' = Broken /\ fresh' = TRUE
  /\ UNCHANGED <<load, etag, contested, refused>>

Touch(p) ==
  /\ pc[p] = "touch" /\ Parsed(p, load[p].reply)
  /\ body' \in Written(p) /\ fresh' = (body # None)
  /\ UNCHANGED <<etag, contested, refused>>

\* The copy cannot be opened for writing, or its rewriting stops half-way: the
\* load goes by what it read all the same.
RenewFails(p) ==
  /\ pc[p] \in Confirming /\ Parsed(p, load[p].reply)
  /\ UNCHANGED catVars

\* A body is stored: truncated, then written.
Truncate(p) ==
  /\ pc[p] = "store" /\ Goto(p, "write")
  /\ body' = Broken /\ fresh' = TRUE /\ refused' = FALSE
  /\ UNCHANGED <<load, etag, contested>>

Write(p) ==
  /\ pc[p] = "write" /\ Goto(p, "tag")
  /\ body' \in Written(p) /\ fresh' = (body # None)
  /\ UNCHANGED <<load, etag, contested, refused>>

\* Storing is best effort: the body cannot be opened, or its write stops half-way,
\* and the ETag is written whatever became of the body.
BodyRefused(p) ==
  /\ pc[p] = "store" /\ Goto(p, "tag")
  /\ refused' = (refused \/ body \notin {None, Broken, load[p].reply})
  /\ UNCHANGED <<load, catFiles, contested>>

WriteFails(p) ==
  /\ pc[p] = "write" /\ Goto(p, "tag")
  /\ UNCHANGED <<load, catVars>>

\* The ETag of the response: that of the body of a 200, and the one asked for of a 304.
NewTag(p) == IF load[p].reply = Broken THEN load[p].tag ELSE load[p].reply

TagTruncate(p) ==
  /\ pc[p] = "tag" /\ Goto(p, "tagging")
  /\ etag' = None
  /\ UNCHANGED <<load, body, fresh, contested, refused>>

Tag(p) ==
  /\ pc[p] = "tagging" /\ Parsed(p, load[p].reply)
  /\ etag' = NewTag(p)
  /\ UNCHANGED <<body, fresh, contested, refused>>

\* The ETag cannot be opened, or its write stops half-way.
TagFails(p) ==
  /\ pc[p] \in {"tag", "tagging"} /\ Parsed(p, load[p].reply)
  /\ UNCHANGED catVars

CatalogStep(p) ==
  \/ LookFresh(p) \/ UseFresh(p) \/ FreshGone(p)
  \/ Ask(p) \/ AskFails(p) \/ NotModified(p) \/ Answer(p)
  \/ ReadCopy(p) \/ Gone(p) \/ Renew(p) \/ Touch(p) \/ RenewFails(p)
  \/ Truncate(p) \/ Write(p) \/ BodyRefused(p) \/ WriteFails(p)
  \/ TagTruncate(p) \/ Tag(p) \/ TagFails(p)
=============================================================================
