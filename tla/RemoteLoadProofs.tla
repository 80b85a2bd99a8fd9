-------------------------- MODULE RemoteLoadProofs --------------------------
(***************************************************************************)
(* Theorems about RemoteLoad, for any number of processes and versions.    *)
(***************************************************************************)
EXTENDS RemoteLoad, TLAPS

Looking == {"start", "fresh", "stale"}
Found == {"check", "open"}

Phases == {"idle", "lookup", "flat", "reuse", "download", "keep", "done", "clear"}
            \cup Looking \cup Asking \cup Found \cup Storing

Opt == Nat \cup {None}

Locals == [bypass : BOOLEAN, began : Nat, tag : Opt, reply : Opt,
           catalog : Opt, content : Opt, side : Opt, got : Opt]

\* What a load holds was published, a response since it began, its script no
\* earlier than the catalog it goes by.
Holds(at, l) ==
  /\ l \in Locals /\ l.began <= published
  /\ l.tag \in Nat => l.tag <= published
  /\ l.reply \in Nat => l.reply <= published
  /\ l.catalog \in Nat => l.catalog <= published
  /\ l.side \in Nat => l.side <= published
  /\ at \in Confirming \cup {"store", "write", "tag", "tagging"} => l.reply \in Nat
  /\ at \in {"store", "write", "tag", "tagging"} /\ l.reply # Broken => l.began <= l.reply
  /\ at \in Looking \cup Asking => mode = "hash"
  /\ at \in {"lookup"} \cup Found \cup Storing => l.catalog \in Nat /\ mode = "hash"
  /\ at \in {"install", "keep"} \cup Between =>
       l.content \in Nat /\ l.began <= l.content /\ l.content <= published
  /\ at \in {"install"} \cup Between => l.catalog <= l.content
  /\ at = "accompany" => l.side \in Nat
  /\ at \in Found => ~l.bypass
  /\ at \in {"flat", "reuse", "download", "keep"} => mode # "hash"
  /\ at = "reuse" => ~l.bypass /\ mode # "disabled"
  /\ at # "done" => l.got = None

Loads ==
  /\ published \in Nat /\ 1 <= published
  /\ pc \in [Procs -> Phases] /\ load \in [Procs -> Locals]
  /\ \A p \in Procs : Holds(pc[p], load[p])

Files ==
  /\ {body, etag, script, hash, companion, copy} \subseteq Opt
  /\ body \in Nat => body <= published
  /\ etag \in Nat => etag <= published
  /\ script \in Nat => script <= published
  /\ hash \in Nat => hash <= published

\* Undisturbed, one load at a time stores a mold, and its script never goes back.
Ordered ==
  ~disturbed =>
    /\ \A p, q \in Procs : pc[p] \in Storing /\ pc[q] \in Storing => p = q
    /\ script \in Nat /\ hash \in Nat => hash <= script
    /\ \A p \in Procs : pc[p] = "install" =>
         /\ script \in Nat => script <= load[p].content
         /\ hash \in Nat => hash <= load[p].content
    /\ \A p \in Procs : pc[p] = "hash" => script \in {None, load[p].content}
    /\ \A p \in Procs : pc[p] \in Found /\ script \in Nat => load[p].catalog <= script
    /\ \A p, q \in Procs : pc[p] \in Found /\ pc[q] = "install"
                             => load[p].catalog <= load[q].content

Delivered ==
  \A p \in Procs : load[p].got # None =>
    /\ load[p].bypass \/ mode = "disabled" => load[p].began <= load[p].got
    /\ mode = "hash" /\ ~disturbed =>
         load[p].catalog \in Nat /\ load[p].catalog <= load[p].got

LoadInv == Loads /\ Files /\ Ordered /\ Delivered

\* What the origin confirmed is no older than the load, and neither is it older than
\* the ETag, which vouches for a body at least as new as itself.
Confirmed(at, l) ==
  /\ at = "asked" => l.tag = None \/ l.tag = etag
  /\ at = "unmodified" => l.tag \in Nat /\ l.tag = etag /\ l.began <= l.tag
  /\ at \in Confirming /\ l.reply # Broken /\ ~refused =>
       l.began <= l.reply /\ (etag \in Nat => etag <= l.reply)
  /\ at \in {"store", "write", "tag", "tagging"} /\ l.reply # Broken =>
       (etag \in Nat => etag <= l.reply)
  /\ at \in {"touch", "write"} => body = Broken
  /\ at \in {"tag", "tagging"} => refused \/ body \in {None, Broken, l.reply}

Vouched ==
  ~contested =>
    /\ \A p, q \in Procs : pc[p] \in Asking /\ pc[q] \in Asking => p = q
    /\ ~refused /\ body \in Nat \ {Broken} /\ etag \in Nat => etag <= body
    /\ \A p \in Procs : Confirmed(pc[p], load[p])

\* The companion, and the one that a load has in hand, is at least as new as the hash,
\* and as the one by which a load found the script that it is about to open.
Accompanied ==
  ~disturbed =>
    /\ \A q \in Procs : pc[q] = "accompany" =>
         /\ hash \in Nat => hash <= load[q].side
         /\ \A p \in Procs : pc[p] \in Found => load[p].catalog <= load[q].side
    /\ ~lapsed =>
         /\ (\A q \in Procs : pc[q] \notin {"companion", "accompany"}) /\ hash \in Nat =>
              companion \in Nat /\ hash <= companion
         /\ (\A q \in Procs : pc[q] \notin Between) /\ script # None =>
              \A p \in Procs : pc[p] \in Found =>
                companion \in Nat /\ load[p].catalog <= companion

----------------------------------------------------------------------------

\* The step is p's: nothing else of pc and load changes.
Moves(p) ==
  /\ pc'[p] \in Phases /\ load'[p] \in Locals
  /\ pc' = [pc EXCEPT ![p] = pc'[p]]
  /\ load' = [load EXCEPT ![p] = load'[p]]
  /\ UNCHANGED world

LEMMA MovesApart ==
  ASSUME Loads, NEW p \in Procs, Moves(p)
  PROVE  /\ \A q \in Procs \ {p} : pc'[q] = pc[q] /\ load'[q] = load[q]
         /\ pc' \in [Procs -> Phases] /\ load' \in [Procs -> Locals]
         /\ published' = published /\ mode' = mode
  BY DEF Loads, Moves, world

LEMMA LoadsKept ==
  ASSUME Loads, NEW p \in Procs, Moves(p), Holds(pc'[p], load'[p])
  PROVE  Loads'
  <1>1. \A q \in Procs : Holds(pc'[q], load'[q])
    BY MovesApart DEF Loads
  <1>2. \A q \in Procs : Holds(pc[q], load[q])'
    BY <1>1, MovesApart DEF Holds
  <1> QED
    BY <1>2, MovesApart DEF Loads

LEMMA DeliveredKept ==
  ASSUME Loads, Delivered, NEW p \in Procs, Moves(p),
         disturbed => disturbed',
         load'[p].got # None =>
           /\ load'[p].bypass \/ mode = "disabled" => load'[p].began <= load'[p].got
           /\ mode = "hash" /\ ~disturbed' =>
                load'[p].catalog \in Nat /\ load'[p].catalog <= load'[p].got
  PROVE  Delivered'
  BY MovesApart DEF Delivered

LEMMA NoLoadHolds ==
  ASSUME Loads PROVE Holds("idle", NoLoad) /\ NoLoad \in Locals
  BY RemoteAssumption DEF Loads, Holds, NoLoad, Locals, Opt, Storing, Between, Asking,
                          Confirming, Looking, Found

LEMMA InitLoadInv == Init => LoadInv
  <1> SUFFICES ASSUME Init PROVE LoadInv
    OBVIOUS
  <1>1. Loads
    <2>1. pc \in [Procs -> Phases] /\ load \in [Procs -> Locals]
      BY RemoteAssumption DEF Init, NoLoad, Locals, Opt, Phases
    <2>2. \A p \in Procs : pc[p] = "idle" /\ load[p] = NoLoad
      BY DEF Init
    <2>3. published \in Nat /\ 1 <= published
      BY DEF Init
    <2>4. Holds("idle", NoLoad)
      BY <2>3, RemoteAssumption DEF Holds, NoLoad, Locals, Opt, Storing, Between, Asking,
                                    Confirming, Looking, Found
    <2> QED
      BY <2>1, <2>2, <2>3, <2>4 DEF Loads
  <1>2. Files /\ Ordered /\ Delivered
    BY RemoteAssumption DEF Init, CatalogInit, MoldInit, Files, Ordered, Delivered,
                            NoLoad, Opt, Storing, Between, Found
  <1> QED
    BY <1>1, <1>2 DEF LoadInv

\* What a step of a load does to its own part of the state, and to the files.
LEMMA CatalogStepMoves ==
  ASSUME LoadInv, NEW p \in Procs, CatalogStep(p), UNCHANGED <<world, moldVars>>
  PROVE  /\ Moves(p)
         /\ pc[p] \in Looking \cup Asking
         /\ pc'[p] \in {"idle", "lookup", "fresh", "stale"} \cup Asking
         /\ load'[p].got = None
         /\ Holds(pc'[p], load'[p])
         /\ {body', etag'} \subseteq Opt /\ (body' \in Nat => body' <= published)
         /\ (etag' \in Nat => etag' <= published)
  <1> DEFINE l == load[p]
             Before == Looking \cup Asking
             After  == {"idle", "lookup", "fresh", "stale"} \cup Asking
  <1>0. /\ Holds(pc[p], l) /\ published \in Nat /\ 1 <= published
        /\ pc \in [Procs -> Phases] /\ load \in [Procs -> Locals]
        /\ {body, etag} \subseteq Opt /\ (body \in Nat => body <= published)
        /\ (etag \in Nat => etag <= published)
        /\ published' = published /\ mode' = mode
    BY DEF LoadInv, Loads, Files, world
  <1>1. /\ Moves(p) /\ pc[p] \in Before /\ pc'[p] \in After
        /\ load'[p].got = None
        /\ Holds(pc'[p], load'[p])
        /\ {body', etag'} \subseteq Opt /\ (body' \in Nat => body' <= published)
        /\ (etag' \in Nat => etag' <= published)
    <2> USE RemoteAssumption, <1>0 DEF Moves, Holds, Phases, Locals, Opt, Storing, Between,
          Asking, Confirming, Looking, Found, Goto, Fail, NoLoad, Parsed, GoesBy, Broken,
          catFiles, catVars
    <2>13. ASSUME NEW v \in Nat, v <= published, Parsed(p, v), pc[p] \in Before
          PROVE  /\ Moves(p) /\ pc'[p] \in {"idle", "lookup"}
                 /\ load'[p].got = None /\ Holds(pc'[p], load'[p])
      <3>1. CASE v = Broken
        <4>1. pc' = [pc EXCEPT ![p] = "idle"] /\ load' = [load EXCEPT ![p] = NoLoad]
          BY <2>13, <3>1
        <4>2. pc'[p] = "idle" /\ load'[p] = NoLoad /\ NoLoad \in Locals /\ NoLoad.got = None
          BY <4>1
        <4>3. Holds("idle", NoLoad)
          BY NoLoadHolds DEF LoadInv
        <4>4. Moves(p)
          BY <4>1, <4>2
        <4> HIDE DEF Holds, NoLoad, Moves
        <4> QED
          BY <4>2, <4>3, <4>4
      <3>2. CASE v # Broken
        <4> DEFINE n == [l EXCEPT !.tag = None, !.reply = None, !.catalog = v,
                                  !.began = IF l.bypass THEN l.began ELSE 1]
        <4>1. pc' = [pc EXCEPT ![p] = "lookup"] /\ load' = [load EXCEPT ![p] = n]
          BY <2>13, <3>2
        <4>2. load'[p] = n /\ pc'[p] = "lookup"
          BY <4>1
        <4>3. /\ n \in Locals /\ n.catalog = v /\ n.got = None /\ n.side = l.side
              /\ n.began <= published /\ n.reply = None /\ n.tag = None
          BY <2>13, <4>1
        <4>4. Holds("lookup", n)
          BY <2>13, <4>3
        <4>5. Moves(p)
          BY <4>1, <4>2, <4>3
        <4> HIDE DEF Holds, Moves, n
        <4> QED
          BY <4>2, <4>3, <4>4, <4>5
      <3> QED
        BY <3>1, <3>2
    <2>0. CASE LookFresh(p) \/ FreshGone(p)
      BY <2>0 DEF LookFresh, FreshGone
    <2>14. CASE UseFresh(p)
      BY <2>14, <2>13 DEF UseFresh
    <2>1. CASE Ask(p)
      <3>1. /\ pc' = [pc EXCEPT ![p] = "asked"] /\ pc[p] \in {"start", "stale"}
            /\ load' = [load EXCEPT ![p].tag = IF l.bypass THEN None ELSE etag]
            /\ UNCHANGED <<body, etag>>
        BY <2>1 DEF Ask
      <3> QED
        BY <3>1
    <2>2. CASE AskFails(p)
      BY <2>2 DEF AskFails
    <2>3. CASE NotModified(p)
      BY <2>3 DEF NotModified
    <2>4. ASSUME NEW v \in Nat, v <= published, NEW at \in {"renew", "store"},
                 pc[p] \in {"asked", "unmodified"}, Goto(p, at),
                 load' = [load EXCEPT ![p] = [l EXCEPT !.tag = None, !.reply = v]],
                 at = "store" /\ v # Broken => l.began <= v, UNCHANGED <<body, etag>>
          PROVE  /\ Moves(p) /\ pc'[p] \in Asking /\ load'[p].got = None
                 /\ Holds(pc'[p], load'[p])
      <3> DEFINE n == [l EXCEPT !.tag = None, !.reply = v]
      <3>1. pc' = [pc EXCEPT ![p] = at] /\ pc'[p] = at /\ load'[p] = n
        BY <2>4
      <3>2. /\ n \in Locals /\ n.catalog = l.catalog /\ n.got = None /\ n.side = l.side
            /\ n.began = l.began /\ n.reply = v /\ n.tag = None
        BY <2>4
      <3>3. Holds(at, n)
        BY <2>4, <3>2
      <3> HIDE DEF n
      <3>4. Moves(p)
        BY <2>4, <3>1, <3>2
      <3> HIDE DEF Holds, Moves
      <3> QED
        BY <2>4, <3>1, <3>2, <3>3, <3>4
    <2>15. CASE Answer(p)
      <3>1. /\ pc[p] = "asked" /\ Goto(p, "store") /\ UNCHANGED <<body, etag>>
            /\ load' = [load EXCEPT ![p] = [l EXCEPT !.tag = None, !.reply = published]]
        BY <2>15 DEF Answer, AnswerRecording
      <3>2. l.began <= published
        OBVIOUS
      <3>3. PICK v : v = published
        OBVIOUS
      <3>4. /\ v \in Nat /\ v <= published /\ l.began <= v
            /\ load' = [load EXCEPT ![p] = [l EXCEPT !.tag = None, !.reply = v]]
        BY <3>1, <3>2, <3>3
      <3> HIDE DEF Moves, Holds
      <3> QED
        BY <2>4, <3>1, <3>4
    <2>5. CASE ReadCopy(p)
      <3>1. body \in Nat /\ body <= published
        BY <2>5 DEF ReadCopy
      <3> HIDE DEF Moves, Holds
      <3> QED
        BY <2>5, <2>4, <3>1 DEF ReadCopy
    <2>16. CASE Gone(p)
      BY <2>16 DEF Gone
    <2>6. CASE Touch(p) \/ RenewFails(p)
      <3>1. /\ pc[p] \in Confirming /\ Parsed(p, l.reply) /\ etag' = etag
            /\ body' \in {body, None, Broken, l.reply} /\ l.reply \in Nat
            /\ l.reply <= published
        BY <2>6 DEF Touch, RenewFails, Written
      <3> HIDE DEF Moves, Holds, Parsed
      <3> QED
        BY <3>1, <2>13
    <2>7. CASE Renew(p) \/ Truncate(p)
      BY <2>7 DEF Renew, Truncate
    <2>8. CASE Write(p)
      <3>1. body' \in {None, Broken, l.reply}
        BY <2>8 DEF Write, Written
      <3> QED
        BY <2>8, <3>1 DEF Write
    <2>9. CASE BodyRefused(p) \/ WriteFails(p)
      BY <2>9 DEF BodyRefused, WriteFails
    <2>10. CASE TagTruncate(p)
      BY <2>10 DEF TagTruncate
    <2>11. CASE TagFails(p)
      BY <2>11, <2>13 DEF TagFails
    <2>12. CASE Tag(p)
      <3>1. /\ pc[p] = "tagging" /\ Parsed(p, l.reply) /\ body' = body
            /\ etag' \in {l.tag, l.reply}
        BY <2>12 DEF Tag, NewTag
      <3>2. /\ l.reply \in Nat /\ l.reply <= published
            /\ etag' \in Opt /\ (etag' \in Nat => etag' <= published)
        BY <3>1
      <3> HIDE DEF Moves, Holds, Parsed
      <3> QED
        BY <2>13, <3>1, <3>2
    <2> QED
      BY <2>0, <2>1, <2>2, <2>3, <2>4, <2>5, <2>6, <2>7, <2>8, <2>9, <2>10, <2>11, <2>12,
         <2>14, <2>15, <2>16 DEF CatalogStep
  <1> QED
    BY <1>1

LEMMA CatalogStepKeeps ==
  ASSUME LoadInv, NEW p \in Procs, CatalogStep(p), UNCHANGED <<world, moldVars>>
  PROVE  LoadInv'
  <1>0. published' = published /\ UNCHANGED <<script, hash, companion, copy, disturbed>>
    BY DEF world, moldVars, moldFiles
  <1>1. /\ Moves(p)
        /\ pc[p] \in Looking \cup Asking
        /\ pc'[p] \in {"idle", "lookup", "fresh", "stale"} \cup Asking
        /\ load'[p].got = None
        /\ Holds(pc'[p], load'[p])
        /\ {body', etag'} \subseteq Opt /\ (body' \in Nat => body' <= published)
        /\ (etag' \in Nat => etag' <= published)
    BY CatalogStepMoves
  <1>2. Loads' /\ Delivered'
    BY <1>0, <1>1, LoadsKept, DeliveredKept DEF LoadInv
  <1>3. Files'
    BY <1>0, <1>1 DEF LoadInv, Files
  <1>4. Ordered'
    <2>1. pc[p] \notin Found \cup Storing /\ pc'[p] \notin Found \cup Storing
      BY <1>1 DEF Looking, Asking, Confirming, Storing, Between, Found
    <2>3. \A q \in Procs \ {p} : pc'[q] = pc[q] /\ load'[q] = load[q]
      BY <1>1, MovesApart DEF LoadInv
    <2> QED
      BY <1>0, <2>1, <2>3 DEF LoadInv, Ordered, Storing, Between, Found
  <1> QED
    BY <1>2, <1>3, <1>4 DEF LoadInv

\* The same for a step of the mold cache, one action at a time.
LEMMA MoldStepMoves ==
  ASSUME LoadInv, NEW p \in Procs, MoldStep(p), UNCHANGED <<world, catVars>>
  PROVE  /\ Moves(p) /\ Holds(pc'[p], load'[p]) /\ (disturbed => disturbed')
         /\ {script', hash', companion', copy'} \subseteq Opt
         /\ script' \in Nat => script' <= published
         /\ hash' \in Nat => hash' <= published
  <1> DEFINE l == load[p]
  <1>0. /\ Holds(pc[p], l) /\ published \in Nat /\ 1 <= published
        /\ pc \in [Procs -> Phases] /\ load \in [Procs -> Locals]
        /\ {script, hash, companion, copy} \subseteq Opt
        /\ (script \in Nat => script <= published) /\ (hash \in Nat => hash <= published)
        /\ published' = published /\ mode' = mode /\ body' = body /\ etag' = etag
    BY DEF LoadInv, Loads, Files, world, catVars, catFiles
  <1>1. /\ Moves(p) /\ Holds(pc'[p], load'[p]) /\ (disturbed => disturbed')
        /\ {script', hash', companion', copy'} \subseteq Opt
        /\ script' \in Nat => script' <= published
        /\ hash' \in Nat => hash' <= published
    <2> USE RemoteAssumption, <1>0 DEF Moves, Holds, Phases, Locals, Opt, Storing, Between,
          Asking, Confirming, Looking, Found, Goto, Fail, Deliver, NoLoad, moldFiles, moldVars
    <2>1. CASE LookupHash(p) \/ LookupScript(p) \/ LookupCopy(p) \/ MissCopy(p)
      BY <2>1 DEF LookupHash, LookupScript, LookupCopy, MissCopy, HashMatches, CopyUsable
    \* The load ends, with script v or without.
    <2>2. ASSUME NEW v \in Opt, Deliver(p, v)
          PROVE  Moves(p) /\ Holds(pc'[p], load'[p])
      <3> DEFINE n == [l EXCEPT !.content = None, !.side = None, !.got = v]
      <3>1. pc' = [pc EXCEPT ![p] = "done"] /\ load' = [load EXCEPT ![p] = n]
        BY <2>2
      <3>2. load'[p] = n /\ pc'[p] = "done"
        BY <3>1
      <3>3. /\ n \in Locals /\ n.catalog = l.catalog /\ n.began = l.began
            /\ n.reply = l.reply /\ n.tag = l.tag /\ n.side = None
        BY <3>1
      <3> QED
        BY <3>1, <3>2, <3>3
    <2>3. ASSUME Fail(p)
          PROVE  Moves(p) /\ Holds(pc'[p], load'[p])
      <3>1. /\ pc' = [pc EXCEPT ![p] = "idle"] /\ load' = [load EXCEPT ![p] = NoLoad]
            /\ NoLoad \in Locals
        BY <2>3
      <3>2. Holds("idle", NoLoad)
        BY NoLoadHolds DEF LoadInv
      <3>3. pc'[p] = "idle" /\ load'[p] = NoLoad
        BY <3>1
      <3>4. Moves(p)
        BY <3>1, <3>3
      <3> HIDE DEF Holds, Moves, NoLoad
      <3> QED
        BY <3>2, <3>3, <3>4
    <2>4. CASE Open(p) \/ StoreCompanion(p) \/ CompanionFails(p) \/ Keep(p) \/ NotKept(p)
      <3>1. /\ \E v \in Opt : Deliver(p, v)
            /\ disturbed' = disturbed /\ script' = script /\ hash' = hash
            /\ companion' \in {companion, l.side} /\ copy' \in {copy, l.content}
            /\ pc[p] \in {"open", "keep"} \cup Storing
        BY <2>4 DEF Open, StoreCompanion, CompanionFails, Keep, NotKept
      <3>2. Moves(p) /\ Holds(pc'[p], load'[p])
        BY <3>1, <2>2
      <3> HIDE DEF Moves
      <3> QED
        BY <3>1, <3>2
    <2>5. CASE OpenFails(p) \/ FetchFails(p)
      BY <2>5, <2>3 DEF OpenFails, FetchFails
    <2>6. CASE UseCopy(p)
      <3>1. UNCHANGED moldVars /\ ((\E v \in Opt : Deliver(p, v)) \/ Fail(p))
        BY <2>6 DEF UseCopy
      <3> QED
        BY <3>1, <2>2, <2>3
    <2>7. CASE Miss(p)
      <3>1. /\ pc' = [pc EXCEPT ![p] = "fetch"] /\ load' = load
            /\ pc[p] \in {"lookup", "check"} /\ (disturbed => disturbed')
            /\ UNCHANGED moldFiles
        BY <2>7 DEF Miss
      <3> QED
        BY <3>1
    <2>8. CASE Fetch(p)
      BY <2>8 DEF Fetch, FetchRecording
    <2>9. CASE Install(p)
      BY <2>9 DEF Install
    <2>10. CASE InstallHash(p)
      BY <2>10 DEF InstallHash
    <2>11. CASE InstallFails(p)
      BY <2>11 DEF InstallFails
    <2>12. CASE FetchCompanion(p)
      BY <2>12 DEF FetchCompanion
    <2>13. CASE FetchFlat(p)
      BY <2>13 DEF FetchFlat
    <2>14. CASE Displace(p)
      <3>1. /\ pc' = pc /\ load' = load /\ disturbed' = disturbed
            /\ script' \in {script, None} /\ hash' \in {hash, None}
            /\ companion' \in {companion, None} /\ copy' \in {copy, None}
        BY <2>14 DEF Displace
      <3> QED
        BY <3>1
    <2> QED
      BY <2>1, <2>4, <2>5, <2>6, <2>7, <2>8, <2>9, <2>10, <2>11, <2>12, <2>13, <2>14
      DEF MoldStep
  <1> QED
    BY <1>1

LEMMA MoldStepKeeps ==
  ASSUME LoadInv, NEW p \in Procs, MoldStep(p), UNCHANGED <<world, catVars>>
  PROVE  LoadInv'
  <1> DEFINE l == load[p]
  <1>0. /\ Holds(pc[p], l) /\ published \in Nat /\ 1 <= published
        /\ pc \in [Procs -> Phases] /\ load \in [Procs -> Locals]
        /\ {script, hash, companion, copy} \subseteq Opt
        /\ (script \in Nat => script <= published) /\ (hash \in Nat => hash <= published)
        /\ published' = published /\ mode' = mode /\ body' = body /\ etag' = etag
    BY DEF LoadInv, Loads, Files, world, catVars, catFiles
  <1>1. /\ Moves(p) /\ Holds(pc'[p], load'[p]) /\ (disturbed => disturbed')
        /\ {script', hash', companion', copy'} \subseteq Opt
        /\ script' \in Nat => script' <= published
        /\ hash' \in Nat => hash' <= published
    BY MoldStepMoves
  <1>2. Loads'
    BY <1>1, LoadsKept DEF LoadInv
  <1>3. Files'
    BY <1>0, <1>1 DEF LoadInv, Files
  <1>4. Delivered'
    <2>1. ASSUME load'[p].got # None
          PROVE  /\ load'[p].bypass \/ mode = "disabled" => load'[p].began <= load'[p].got
                 /\ mode = "hash" /\ ~disturbed' =>
                      load'[p].catalog \in Nat /\ load'[p].catalog <= load'[p].got
      <3>1. pc'[p] = "done"
        BY <1>1, <2>1 DEF Holds
      <3>2. \A v : Deliver(p, v) =>
              load'[p] = [l EXCEPT !.content = None, !.side = None, !.got = v]
        BY <1>0 DEF Deliver
      <3> USE <1>0, <1>1, <2>1, <3>1 DEF Holds, Storing, Between, Found, Locals, Goto
      <3>3. CASE Open(p)
        <4>1. /\ pc[p] = "open" /\ disturbed' = disturbed /\ script \in Nat
              /\ load'[p] = [l EXCEPT !.content = None, !.side = None, !.got = script]
          BY <3>2, <3>3 DEF Open, Opt, moldVars
        <4>2. ~disturbed => l.catalog <= script
          BY <4>1 DEF LoadInv, Ordered
        <4> QED
          BY <4>1, <4>2
      <3>4. CASE StoreCompanion(p) \/ CompanionFails(p) \/ Keep(p) \/ NotKept(p)
        <4>1. /\ pc[p] \in {"companion", "accompany", "keep"}
              /\ load'[p] = [l EXCEPT !.content = None, !.side = None, !.got = l.content]
          BY <3>2, <3>4 DEF StoreCompanion, CompanionFails, Keep, NotKept
        <4> QED
          BY <4>1
      <3>5. CASE UseCopy(p)
        <4>1. pc[p] = "reuse" /\ ~Fail(p)
          BY <3>5 DEF UseCopy, Fail
        <4>2. load'[p] = [l EXCEPT !.content = None, !.side = None, !.got = copy]
          BY <3>2, <3>5, <4>1 DEF UseCopy
        <4> QED
          BY <4>1, <4>2
      <3>6. CASE \/ LookupHash(p) \/ LookupScript(p) \/ OpenFails(p) \/ Miss(p) \/ Fetch(p)
                 \/ FetchFails(p) \/ Install(p) \/ InstallHash(p) \/ InstallFails(p)
                 \/ FetchCompanion(p) \/ LookupCopy(p) \/ MissCopy(p) \/ FetchFlat(p)
        BY <3>6 DEF LookupHash, LookupScript, OpenFails, Miss, Fetch, FetchRecording,
                    FetchFails, Install, InstallHash, InstallFails, FetchCompanion,
                    LookupCopy, MissCopy, FetchFlat, Fail
      <3>7. CASE Displace(p)
        BY <3>7 DEF Displace
      <3> QED
        BY <3>3, <3>4, <3>5, <3>6, <3>7 DEF MoldStep
    <2> QED
      BY <1>1, <2>1, DeliveredKept DEF LoadInv
  <1>5. Ordered'
    <2> SUFFICES ASSUME ~disturbed' PROVE Ordered'
      BY DEF Ordered
    <2>0. /\ \A q \in Procs \ {p} : pc'[q] = pc[q] /\ load'[q] = load[q]
          /\ ~disturbed /\ \A q \in Procs : Holds(pc[q], load[q])
      BY <1>1, MovesApart DEF LoadInv, Loads
    <2> USE <1>0, <2>0 DEF LoadInv, Ordered, Storing, Between, Found, Goto
    <2>1. CASE LookupHash(p)
      <3>1. /\ pc[p] = "lookup" /\ pc'[p] = "check" /\ load'[p].catalog = l.catalog
            /\ hash = l.catalog /\ l.catalog \in Nat
            /\ script' = script /\ hash' = hash
        BY <2>1 DEF LookupHash, HashMatches, moldVars, moldFiles, Holds
      <3> QED
        BY <3>1
    <2>11. CASE LookupScript(p)
      <3>1. /\ pc[p] = "check" /\ pc'[p] = "open" /\ load' = load
            /\ script' = script /\ hash' = hash
        BY <2>11 DEF LookupScript, moldVars, moldFiles
      <3> QED
        BY <3>1
    <2>2. CASE Miss(p)
      <3>1. /\ \A q \in Procs \ {p} : pc[q] \notin Storing
            /\ pc'[p] = "fetch" /\ script' = script /\ hash' = hash
        BY <2>2 DEF Miss, Overlaps, moldFiles
      <3> QED
        BY <3>1
    <2>3. CASE Fetch(p)
      <3>1. /\ pc[p] = "fetch" /\ pc'[p] = "install" /\ load'[p].content = published
            /\ script' = script /\ hash' = hash
        BY <2>3 DEF Fetch, FetchRecording, Locals
      <3>2. \A q \in Procs : pc[q] \in Found => load[q].catalog <= published
        BY DEF Holds
      <3> QED
        BY <3>1, <3>2
    <2>4. CASE Install(p)
      <3>1. /\ pc[p] = "install" /\ pc'[p] = "hash" /\ load' = load
            /\ script' = l.content /\ hash' = hash
        BY <2>4 DEF Install
      <3> QED
        BY <3>1
    <2>5. CASE InstallHash(p)
      <3>1. /\ pc[p] = "hash" /\ pc'[p] = "companion" /\ load' = load
            /\ script' = script /\ hash' = l.catalog /\ l.catalog <= l.content
        BY <2>5 DEF InstallHash, Holds
      <3>2. script \in Nat /\ hash' \in Nat => hash' <= script
        BY <3>1, RemoteAssumption
      <3>3. \A q \in Procs : pc'[q] \notin {"install", "hash"}
        BY <3>1
      <3> QED
        BY <3>1, <3>2, <3>3
    <2>6. CASE Displace(p)
      <3>1. /\ pc' = pc /\ load' = load
            /\ \/ script' = None /\ hash' = hash /\ pc[p] = "install"
               \/ script' = script /\ hash' \in {hash, None}
        BY <2>6 DEF Displace
      <3> QED
        BY <3>1, RemoteAssumption
    <2>7. ASSUME pc'[p] \notin {"check", "open", "fetch", "install", "hash"},
                 pc'[p] \in {"companion", "accompany"} => pc[p] \in Storing,
                 script' = script, hash' = hash
          PROVE  Ordered'
      BY <2>7
    <2>8. CASE Open(p) \/ OpenFails(p) \/ FetchFails(p) \/ InstallFails(p) \/ FetchCompanion(p)
      BY <2>7, <2>8 DEF Open, OpenFails, FetchFails, InstallFails, FetchCompanion, Deliver,
                        Fail, moldVars, moldFiles
    <2>9. CASE StoreCompanion(p) \/ CompanionFails(p) \/ Keep(p)
      BY <2>7, <2>9 DEF StoreCompanion, CompanionFails, Keep, Deliver, moldFiles
    <2>10. CASE LookupCopy(p) \/ UseCopy(p) \/ MissCopy(p) \/ FetchFlat(p) \/ NotKept(p)
      BY <2>7, <2>10 DEF LookupCopy, UseCopy, MissCopy, FetchFlat, NotKept, Deliver, Fail,
                         moldVars, moldFiles
    <2> QED
      BY <2>1, <2>2, <2>3, <2>4, <2>5, <2>6, <2>8, <2>9, <2>10, <2>11 DEF MoldStep
  <1> QED
    BY <1>2, <1>3, <1>4, <1>5 DEF LoadInv

----------------------------------------------------------------------------

LEMMA LoadInvInductive == LoadInv /\ [Next]_vars => LoadInv'
  <1> SUFFICES ASSUME LoadInv, [Next]_vars PROVE LoadInv'
    OBVIOUS
  <1>0. /\ published \in Nat /\ 1 <= published /\ pc \in [Procs -> Phases]
        /\ load \in [Procs -> Locals] /\ \A q \in Procs : Holds(pc[q], load[q])
    BY DEF LoadInv, Loads
  \* A load that starts or ends holds nothing, and changes no file.
  <1>7. ASSUME NEW p \in Procs, Moves(p), Holds(pc'[p], load'[p]), load'[p].got = None,
               pc'[p] \in {"idle", "start", "flat", "clear"}, disturbed' = disturbed,
               UNCHANGED <<body, etag, script, hash, companion, copy>>
        PROVE  LoadInv'
    <2>1. Loads' /\ Delivered'
      BY <1>7, LoadsKept, DeliveredKept DEF LoadInv
    <2>2. Files'
      BY <1>7 DEF LoadInv, Files, Moves, world
    <2>3. \A q \in Procs \ {p} : pc'[q] = pc[q] /\ load'[q] = load[q]
      BY <1>7, MovesApart DEF LoadInv
    <2>4. Ordered'
      BY <1>7, <2>3 DEF LoadInv, Ordered, Storing, Between, Found
    <2> QED
      BY <2>1, <2>2, <2>4 DEF LoadInv
  <1>1. ASSUME NEW p \in Procs, Begin(p) PROVE LoadInv'
    <2>1. \E b \in BOOLEAN :
            load' = [load EXCEPT ![p] = [NoLoad EXCEPT !.bypass = b, !.began = published]]
      BY <1>1 DEF Begin
    <2>2. PICK b \in BOOLEAN :
            load' = [load EXCEPT ![p] = [NoLoad EXCEPT !.bypass = b, !.began = published]]
      BY <2>1
    <2> DEFINE n == [NoLoad EXCEPT !.bypass = b, !.began = published]
    <2>3. /\ load'[p] = n /\ pc' = [pc EXCEPT ![p] = pc'[p]]
          /\ pc'[p] = IF mode = "hash" THEN "start" ELSE "flat"
      BY <1>0, <1>1, <2>2 DEF Begin, Goto
    <2>4. n \in Locals /\ n.got = None /\ n.reply = None /\ n.catalog = None /\ n.tag = None
          /\ n.side = None /\ n.began = published
      BY <1>0 DEF NoLoad, Locals, Opt
    <2>5. Holds(pc'[p], n)
      BY <1>0, <2>3, <2>4, RemoteAssumption
      DEF Holds, Storing, Between, Asking, Confirming, Looking, Found
    <2>6. Moves(p)
      BY <1>1, <2>2, <2>3, <2>4 DEF Moves, Begin, Phases, Looking
    <2>7. UNCHANGED <<disturbed, body, etag, script, hash, companion, copy>>
      BY <1>1 DEF Begin, catVars, catFiles, moldVars, moldFiles
    <2> HIDE DEF n
    <2> QED
      BY <1>7, <2>3, <2>4, <2>5, <2>6, <2>7
  <1>2. ASSUME NEW p \in Procs, End(p) PROVE LoadInv'
    <2>1. /\ load' = [load EXCEPT ![p] = NoLoad] /\ pc' = [pc EXCEPT ![p] = "idle"]
          /\ UNCHANGED <<world, disturbed, body, etag, script, hash, companion, copy>>
      BY <1>2 DEF End, Fail, Goto, catVars, catFiles, moldFiles
    <2>2. load'[p] = NoLoad /\ pc'[p] = "idle" /\ NoLoad \in Locals /\ NoLoad.got = None
      BY <1>0, <2>1 DEF NoLoad, Locals, Opt
    <2>3. Holds("idle", NoLoad) /\ Moves(p)
      BY <2>1, <2>2, NoLoadHolds DEF LoadInv, Moves, Phases
    <2> QED
      BY <1>7, <2>1, <2>2, <2>3
  <1>3. CASE Publish
    <2>1. /\ published' = published + 1 /\ mode' = mode
          /\ UNCHANGED <<pc, load, disturbed, body, etag, script, hash, companion, copy>>
      BY <1>3 DEF Publish, catVars, catFiles, moldVars, moldFiles
    <2>2. \A q \in Procs : Holds(pc[q], load[q])'
      BY <1>0, <2>1 DEF Holds, Locals
    <2>3. Loads' /\ Delivered' /\ Ordered'
      BY <1>0, <2>1, <2>2 DEF LoadInv, Loads, Delivered, Ordered
    <2>4. Files'
      BY <1>0, <2>1, RemoteAssumption DEF LoadInv, Files, Opt
    <2> QED
      BY <2>3, <2>4 DEF LoadInv
  <1>4. CASE Age \/ UNCHANGED vars
    <2>1. UNCHANGED <<published, mode, pc, load, disturbed, body, etag,
                      script, hash, companion, copy>>
      BY <1>4 DEF Age, vars, world, catVars, catFiles, moldVars, moldFiles
    <2> QED
      BY <2>1 DEF LoadInv, Loads, Holds, Files, Ordered, Delivered
  <1>5. ASSUME NEW p \in Procs, BeginClear(p) PROVE LoadInv'
    <2>1. /\ pc[p] = "idle" /\ pc' = [pc EXCEPT ![p] = "clear"] /\ UNCHANGED <<world, load>>
          /\ UNCHANGED <<disturbed, body, etag, script, hash, companion, copy>>
      BY <1>5 DEF BeginClear, Goto, catVars, catFiles, moldVars, moldFiles
    <2>2. pc'[p] = "clear" /\ load'[p] = load[p] /\ load[p].got = None
      BY <1>0, <2>1 DEF Holds
    <2>3. Moves(p)
      BY <1>0, <2>1, <2>2 DEF Moves, Phases
    <2>4. Holds("clear", load[p])
      BY <1>0, <2>1 DEF Holds, Storing, Between, Asking, Confirming, Looking, Found
    <2> QED
      BY <1>7, <2>1, <2>2, <2>3, <2>4
  <1>6. ASSUME NEW p \in Procs, ClearCatalog(p) \/ ClearMold(p) PROVE LoadInv'
    <2>1. /\ UNCHANGED <<published, mode, pc, load, disturbed>>
          /\ body' \in {body, None} /\ etag' \in {etag, None} /\ script' \in {script, None}
          /\ hash' \in {hash, None} /\ companion' \in {companion, None}
          /\ copy' \in {copy, None}
      BY <1>6 DEF ClearCatalog, ClearMold, world, catVars, catFiles, moldVars, moldFiles
    <2>2. Loads' /\ Delivered'
      BY <2>1 DEF LoadInv, Loads, Holds, Delivered
    <2>3. Files'
      BY <2>1, RemoteAssumption DEF LoadInv, Files, Opt
    <2>4. Ordered'
      BY <2>1, RemoteAssumption DEF LoadInv, Ordered
    <2> QED
      BY <2>2, <2>3, <2>4 DEF LoadInv
  <1> QED
    BY <1>1, <1>2, <1>3, <1>4, <1>5, <1>6, CatalogStepKeeps, MoldStepKeeps DEF Next

\* A load with --no-cache, or of a direct URL with the cache disabled, never
\* returns a script older than what was published when it began.
THEOREM UncachedLoadsAreCurrent == Spec => []UncachedIsCurrent
  <1>1. LoadInv => UncachedIsCurrent
    BY DEF LoadInv, Loads, Holds, Locals, Opt, Delivered, UncachedIsCurrent
  <1> QED
    BY <1>1, InitLoadInv, LoadInvInductive, PTL DEF Spec

\* A load never returns a script older than the catalog it went by, unless two
\* loads stored a mold at the same time.
THEOREM LoadsNeverGoBack == Spec => []NeverOlderThanCatalog
  <1>1. LoadInv => NeverOlderThanCatalog
    BY DEF LoadInv, Loads, Holds, Locals, Opt, Delivered, NeverOlderThanCatalog
  <1> QED
    BY <1>1, InitLoadInv, LoadInvInductive, PTL DEF Spec

----------------------------------------------------------------------------
\* What the origin confirmed

\* Where nobody is asking, nobody's part depends on the files.
LEMMA ConfirmedApart ==
  ASSUME NEW at, NEW l, Confirmed(at, l),
         at \notin Asking \/ UNCHANGED <<body, etag, refused>>
  PROVE  Confirmed(at, l)'
  BY DEF Confirmed, Asking, Confirming

LEMMA VouchedKept ==
  ASSUME Loads, Vouched, NEW p \in Procs, Moves(p), contested => contested',
         ~contested' /\ pc'[p] \in Asking /\ pc[p] \notin Asking =>
           \A q \in Procs \ {p} : pc[q] \notin Asking,
         pc[p] \in Asking \/ UNCHANGED <<body, etag, refused>>,
         ~contested' =>
           /\ (~refused /\ body \in Nat \ {Broken} /\ etag \in Nat => etag <= body)'
           /\ Confirmed(pc[p], load[p])'
  PROVE  Vouched'
  <1> SUFFICES ASSUME ~contested, ~contested' PROVE Vouched'
    BY DEF Vouched
  <1>1. \A q \in Procs \ {p} : pc'[q] = pc[q] /\ load'[q] = load[q]
    BY MovesApart
  <1>2. \A q, r \in Procs : pc[q] \in Asking /\ pc[r] \in Asking => q = r
    BY DEF Vouched
  <1>3. \A q, r \in Procs : pc'[q] \in Asking /\ pc'[r] \in Asking => q = r
    BY <1>1, <1>2
  <1>4. ASSUME NEW q \in Procs \ {p} PROVE Confirmed(pc[q], load[q])'
    <2>1. PICK at, l : at = pc[q] /\ l = load[q] /\ Confirmed(at, l)
      BY DEF Vouched
    <2>2. at \notin Asking \/ UNCHANGED <<body, etag, refused>>
      BY <1>2, <2>1
    <2>3. Confirmed(at, l)'
      BY <2>1, <2>2, ConfirmedApart
    <2>4. at = pc'[q] /\ l = load'[q]
      BY <1>1, <2>1
    <2> QED
      BY <2>3, <2>4
  <1> QED
    BY <1>3, <1>4 DEF Vouched

LEMMA VouchedCatalog ==
  ASSUME LoadInv, Vouched, NEW p \in Procs, CatalogStep(p), UNCHANGED <<world, moldVars>>
  PROVE  Vouched'
  <1> DEFINE l == load[p]
  <1>1. /\ Moves(p)
        /\ {body', etag'} \subseteq Opt
        /\ load \in [Procs -> Locals] /\ pc \in [Procs -> Phases]
    BY CatalogStepMoves DEF LoadInv, Loads
  <1>2. /\ l \in Locals /\ l.began <= published /\ published \in Nat
        /\ l.reply \in Nat => l.reply <= published
        /\ pc[p] \in Confirming \cup {"store", "write", "tag", "tagging"} => l.reply \in Nat
        /\ {body, etag} \subseteq Opt
        /\ l.began \in Nat /\ l.reply \in Opt /\ l.tag \in Opt
        /\ etag \in Nat => etag <= published
    BY DEF LoadInv, Loads, Holds, Files, Locals
  <1>3. ASSUME ~contested, ~contested'
        PROVE  /\ pc'[p] \in Asking /\ pc[p] \notin Asking =>
                    \A q \in Procs \ {p} : pc[q] \notin Asking
               /\ (~refused /\ body \in Nat \ {Broken} /\ etag \in Nat => etag <= body)'
               /\ Confirmed(pc[p], load[p])'
    <2>1. /\ Confirmed(pc[p], l)
          /\ ~refused /\ body \in Nat \ {Broken} /\ etag \in Nat => etag <= body
      BY <1>3 DEF Vouched
    <2> USE RemoteAssumption DEF Asking, Confirming, Broken, catVars, catFiles
    <2>2. ASSUME NEW v, Parsed(p, v)
          PROVE  Confirmed(pc[p], load[p])' /\ pc'[p] \in {"idle", "lookup"}
      <3>1. pc'[p] \in {"idle", "lookup"}
        BY <1>1, <2>2 DEF Parsed, GoesBy, Fail, Goto
      <3> QED
        BY <3>1 DEF Confirmed
    <2>3. CASE LookFresh(p) \/ FreshGone(p)
      <3>1. pc'[p] \in {"fresh", "stale"} /\ UNCHANGED <<body, etag, refused>>
        BY <1>1, <2>3 DEF LookFresh, FreshGone, Goto
      <3> QED
        BY <2>1, <3>1 DEF Confirmed
    <2>18. CASE UseFresh(p)
      BY <2>1, <2>2, <2>18 DEF UseFresh
    <2>4. CASE Ask(p)
      <3>1. /\ pc'[p] = "asked"
            /\ load'[p] = [l EXCEPT !.tag = IF l.bypass THEN None ELSE etag]
            /\ \A q \in Procs \ {p} : pc[q] \notin Asking
            /\ UNCHANGED <<body, etag, refused>>
        BY <1>1, <1>3, <2>4 DEF Ask, Goto, Overlaps
      <3>2. load'[p].tag = None \/ load'[p].tag = etag
        BY <1>2, <3>1 DEF Locals
      <3> QED
        BY <2>1, <3>1, <3>2 DEF Confirmed
    <2>5. CASE AskFails(p)
      <3>1. pc[p] = "asked" /\ pc'[p] = "idle" /\ UNCHANGED <<body, etag, refused>>
        BY <1>1, <2>5 DEF AskFails, Fail, Goto
      <3> QED
        BY <2>1, <3>1 DEF Confirmed
    <2>6. CASE NotModified(p)
      <3>1. /\ pc[p] = "asked" /\ pc'[p] = "unmodified" /\ load' = load
            /\ l.tag = published /\ UNCHANGED <<body, etag, refused>>
        BY <1>1, <2>6 DEF NotModified, Goto
      <3> QED
        BY <1>2, <2>1, <3>1 DEF Confirmed
    <2>7. CASE Answer(p)
      <3>1. /\ pc[p] = "asked" /\ pc'[p] = "store" /\ UNCHANGED <<body, etag, refused>>
            /\ load'[p] = [l EXCEPT !.tag = None, !.reply = published]
        BY <1>1, <2>7 DEF Answer, AnswerRecording, Goto
      <3>2. load'[p].reply = published
        BY <1>2, <3>1 DEF Locals
      <3> QED
        BY <1>2, <2>1, <3>1, <3>2 DEF Confirmed
    <2>8. CASE ReadCopy(p)
      <3>1. /\ pc[p] = "unmodified" /\ pc'[p] = "renew" /\ body \in Nat
            /\ load'[p] = [l EXCEPT !.tag = None, !.reply = body]
            /\ UNCHANGED <<body, etag, refused>>
        BY <1>1, <1>2, <2>8 DEF ReadCopy, Goto, Opt
      <3>2. load'[p].reply = body /\ load'[p].began = l.began
        BY <1>2, <3>1 DEF Locals
      <3>3. l.tag \in Nat /\ l.tag = etag /\ l.began <= l.tag
        BY <2>1, <3>1 DEF Confirmed
      <3> QED
        BY <1>2, <2>1, <3>1, <3>2, <3>3 DEF Confirmed
    <2>9. CASE Gone(p)
      <3>1. /\ pc[p] = "unmodified" /\ pc'[p] = "store"
            /\ load'[p] = [l EXCEPT !.reply = Broken] /\ UNCHANGED <<body, etag, refused>>
        BY <1>1, <2>9 DEF Gone, Goto
      <3>2. load'[p].reply = Broken
        BY <1>2, <3>1 DEF Locals
      <3> QED
        BY <2>1, <3>1, <3>2 DEF Confirmed
    <2>10. CASE Renew(p)
      <3>1. /\ pc[p] = "renew" /\ pc'[p] = "touch" /\ load' = load
            /\ body' = Broken /\ etag' = etag /\ refused' = refused
        BY <1>1, <2>10 DEF Renew, Goto
      <3> QED
        BY <2>1, <3>1 DEF Confirmed
    <2>11. CASE Touch(p)
      <3>1. /\ pc[p] = "touch" /\ Parsed(p, l.reply) /\ body' = l.reply /\ etag' = etag
            /\ l.reply \in Nat /\ refused' = refused
        BY <1>2, <2>1, <2>11 DEF Touch, Written, Confirmed
      <3>2. l.reply # Broken /\ ~refused => (etag \in Nat => etag <= l.reply)
        BY <2>1, <3>1 DEF Confirmed
      <3> QED
        BY <2>2, <3>1, <3>2
    <2>12. CASE RenewFails(p)
      BY <2>1, <2>2, <2>12 DEF RenewFails
    <2>13. CASE Truncate(p)
      <3>1. /\ pc[p] = "store" /\ pc'[p] = "write" /\ load' = load
            /\ body' = Broken /\ etag' = etag
        BY <1>1, <2>13 DEF Truncate, Goto
      <3> QED
        BY <2>1, <3>1 DEF Confirmed
    <2>14. CASE Write(p)
      <3>1. /\ pc[p] = "write" /\ pc'[p] = "tag" /\ load' = load
            /\ body' = l.reply /\ etag' = etag
        BY <1>1, <2>1, <2>14 DEF Write, Written, Goto, Confirmed
      <3> QED
        BY <2>1, <3>1 DEF Confirmed
    <2>15. CASE BodyRefused(p)
      <3>1. /\ pc[p] = "store" /\ pc'[p] = "tag" /\ load' = load /\ UNCHANGED <<body, etag>>
            /\ refused' = (refused \/ body \notin {None, Broken, l.reply})
        BY <1>1, <2>15 DEF BodyRefused, Goto
      <3> QED
        BY <2>1, <3>1 DEF Confirmed
    <2>16. CASE WriteFails(p)
      <3>1. /\ pc[p] = "write" /\ pc'[p] = "tag" /\ load' = load
            /\ UNCHANGED <<body, etag, refused>>
        BY <1>1, <2>16 DEF WriteFails, Goto
      <3>2. body = Broken
        BY <2>1, <3>1 DEF Confirmed
      <3> QED
        BY <2>1, <3>1, <3>2 DEF Confirmed
    <2>17. CASE TagTruncate(p)
      <3>1. /\ pc[p] = "tag" /\ pc'[p] = "tagging" /\ load' = load
            /\ body' = body /\ etag' = None /\ refused' = refused
        BY <1>1, <2>17 DEF TagTruncate, Goto
      <3> QED
        BY <2>1, <3>1 DEF Confirmed
    <2>19. CASE Tag(p) \/ TagFails(p)
      <3>1. /\ pc[p] \in {"tag", "tagging"} /\ Parsed(p, l.reply) /\ body' = body
            /\ l.reply \in Nat /\ refused' = refused
            /\ etag' = etag \/ etag' = NewTag(p)
        BY <1>2, <2>19 DEF Tag, TagFails
      <3>2. /\ l.reply # Broken => (etag \in Nat => etag <= l.reply)
            /\ refused \/ body \in {None, Broken, l.reply}
        BY <2>1, <3>1 DEF Confirmed
      <3>3. (~refused /\ body \in Nat \ {Broken} /\ etag \in Nat => etag <= body)'
        BY <1>2, <3>1, <3>2 DEF NewTag
      <3> QED
        BY <2>2, <3>1, <3>3
    <2> QED
      BY <2>3, <2>4, <2>5, <2>6, <2>7, <2>8, <2>9, <2>10, <2>11, <2>12, <2>13, <2>14,
         <2>15, <2>16, <2>17, <2>18, <2>19 DEF CatalogStep
  <1>4. contested => contested'
    BY DEF CatalogStep, LookFresh, UseFresh, FreshGone, Ask, AskFails, NotModified, Answer,
           AnswerRecording, ReadCopy, Gone, Renew, Touch, RenewFails, Truncate, Write,
           BodyRefused, WriteFails, TagTruncate, Tag, TagFails, catVars
  <1>5. pc[p] \in Asking \/ UNCHANGED <<body, etag, refused>>
    BY DEF CatalogStep, LookFresh, UseFresh, FreshGone, Ask, AskFails, NotModified, Answer,
           AnswerRecording, ReadCopy, Gone, Renew, Touch, RenewFails, Truncate, Write,
           BodyRefused, WriteFails, TagTruncate, Tag, TagFails, catVars, catFiles,
           Asking, Confirming
  <1>6. ~contested' => ~contested
    BY <1>4
  <1> QED
    BY <1>1, <1>3, <1>4, <1>5, <1>6, VouchedKept DEF LoadInv

LEMMA VouchedMold ==
  ASSUME LoadInv, Vouched, NEW p \in Procs, MoldStep(p), UNCHANGED <<world, catVars>>
  PROVE  Vouched'
  <1>1. Moves(p) /\ UNCHANGED <<body, etag, contested, refused>> /\ pc \in [Procs -> Phases]
    BY MoldStepMoves DEF LoadInv, Loads, catVars, catFiles
  <1>2. pc'[p] \in {"idle", "reuse", "download", "keep", "done"} \cup Found \cup Storing
    BY <1>1
    DEF MoldStep, LookupHash, LookupScript, Open, OpenFails, Miss, Fetch, FetchRecording,
        FetchFails, Install, InstallHash, Displace, InstallFails, FetchCompanion,
        StoreCompanion, CompanionFails, LookupCopy, UseCopy, MissCopy, FetchFlat, Keep,
        NotKept, Storing, Between, Found, Goto, Fail, Deliver
  <1>3. pc'[p] \notin Asking
    BY <1>2 DEF Asking, Confirming, Storing, Between, Found
  <1>4. Confirmed(pc[p], load[p])'
    BY <1>3 DEF Confirmed, Asking, Confirming
  <1>5. ~contested =>
          (~refused /\ body \in Nat \ {Broken} /\ etag \in Nat => etag <= body)'
    BY <1>1 DEF Vouched
  <1> QED
    BY <1>1, <1>3, <1>4, <1>5, VouchedKept DEF LoadInv

LEMMA VouchedInductive == LoadInv /\ Vouched /\ [Next]_vars => Vouched'
  <1> SUFFICES ASSUME LoadInv, Vouched, [Next]_vars PROVE Vouched'
    OBVIOUS
  <1>0. /\ pc \in [Procs -> Phases] /\ load \in [Procs -> Locals] /\ NoLoad \in Locals
        /\ published \in Nat
    BY NoLoadHolds DEF LoadInv, Loads
  \* A load that starts or ends has asked nothing yet, or no longer.
  <1>5. ASSUME NEW p \in Procs, Moves(p), pc'[p] \in {"idle", "start", "flat", "clear"},
               UNCHANGED <<body, etag, contested, refused>>
        PROVE  Vouched'
    <2>1. Confirmed(pc[p], load[p])' /\ pc'[p] \notin Asking
      BY <1>5 DEF Confirmed, Asking, Confirming
    <2>2. ~contested =>
            (~refused /\ body \in Nat \ {Broken} /\ etag \in Nat => etag <= body)'
      BY <1>5 DEF Vouched
    <2> QED
      BY <1>5, <2>1, <2>2, VouchedKept DEF LoadInv
  <1>1. ASSUME NEW p \in Procs, Begin(p) PROVE Vouched'
    <2>1. \E b \in BOOLEAN :
            load' = [load EXCEPT ![p] = [NoLoad EXCEPT !.bypass = b, !.began = published]]
      BY <1>1 DEF Begin
    <2>2. PICK b \in BOOLEAN :
            load' = [load EXCEPT ![p] = [NoLoad EXCEPT !.bypass = b, !.began = published]]
      BY <2>1
    <2>3. [NoLoad EXCEPT !.bypass = b, !.began = published] \in Locals
      BY <1>0 DEF Locals
    <2>4. load'[p] \in Locals /\ load' = [load EXCEPT ![p] = load'[p]]
      BY <1>0, <2>2, <2>3
    <2>5. /\ pc'[p] \in {"start", "flat"} /\ pc' = [pc EXCEPT ![p] = pc'[p]]
          /\ UNCHANGED <<world, body, etag, contested, refused>>
      BY <1>0, <1>1 DEF Begin, Goto, catVars, catFiles
    <2>6. Moves(p)
      BY <2>4, <2>5 DEF Moves, Phases, Looking
    <2> QED
      BY <1>5, <2>5, <2>6
  <1>2. ASSUME NEW p \in Procs, End(p) PROVE Vouched'
    <2>1. /\ load' = [load EXCEPT ![p] = NoLoad] /\ pc' = [pc EXCEPT ![p] = "idle"]
          /\ UNCHANGED <<world, body, etag, contested, refused>>
      BY <1>2 DEF End, Fail, Goto, catVars, catFiles
    <2>2. load'[p] = NoLoad /\ pc'[p] = "idle"
      BY <1>0, <2>1
    <2>3. Moves(p)
      BY <1>0, <2>1, <2>2 DEF Moves, Phases
    <2> QED
      BY <1>5, <2>1, <2>2, <2>3
  <1>3. CASE Publish \/ Age \/ UNCHANGED vars
    <2>1. UNCHANGED <<pc, load, body, etag, contested, refused>>
      BY <1>3 DEF Publish, Age, vars, catVars, catFiles
    <2> QED
      BY <2>1 DEF Vouched, Confirmed
  <1>4. ASSUME NEW p \in Procs, BeginClear(p) PROVE Vouched'
    <2>1. /\ pc' = [pc EXCEPT ![p] = "clear"]
          /\ UNCHANGED <<world, load, body, etag, contested, refused>>
      BY <1>4 DEF BeginClear, Goto, catVars, catFiles
    <2>2. pc'[p] = "clear" /\ load'[p] = load[p]
      BY <1>0, <2>1
    <2>3. Moves(p)
      BY <1>0, <2>1, <2>2 DEF Moves, Phases
    <2> QED
      BY <1>5, <2>1, <2>2, <2>3
  <1>6. ASSUME NEW p \in Procs, ClearCatalog(p) PROVE Vouched'
    <2>1. /\ UNCHANGED <<pc, load>>
          /\ \/ body' = None /\ etag' = etag
             \/ etag' = None /\ UNCHANGED <<body, refused>>
      BY <1>6 DEF ClearCatalog
    <2>4. ~contested' => ~contested /\ \A q \in Procs \ {p} : pc[q] \notin Asking
      BY <1>6 DEF ClearCatalog, Overlaps
    <2>5. pc[p] \notin Asking
      BY <1>6 DEF ClearCatalog, Asking, Confirming
    <2>2. ~contested' =>
            (~refused /\ body \in Nat \ {Broken} /\ etag \in Nat => etag <= body)'
      BY <2>1, <2>4, RemoteAssumption DEF Vouched
    <2>3. ~contested' => \A q \in Procs : Confirmed(pc[q], load[q])'
      BY <2>1, <2>4, <2>5 DEF Confirmed, Asking, Confirming
    <2> QED
      BY <2>1, <2>2, <2>3, <2>4 DEF Vouched
  <1>7. ASSUME NEW p \in Procs, ClearMold(p) PROVE Vouched'
    <2>1. UNCHANGED <<pc, load, body, etag, contested, refused>>
      BY <1>7 DEF ClearMold, catVars, catFiles
    <2> QED
      BY <2>1 DEF Vouched, Confirmed
  <1> QED
    BY <1>1, <1>2, <1>3, <1>4, <1>6, <1>7, VouchedCatalog, VouchedMold DEF Next

\* A load that goes on with the catalog it asked about goes by the body in its hand.
LEMMA GoesOnWithReply ==
  ASSUME LoadInv, NEW p \in Procs, Next, pc[p] \in Asking, pc'[p] = "lookup"
  PROVE  /\ pc[p] \in Confirming \cup {"tag", "tagging"}
         /\ load[p].reply \in Nat \ {Broken} /\ load'[p].catalog = load[p].reply
  <1>0. pc \in [Procs -> Phases] /\ load \in [Procs -> Locals] /\ Holds(pc[p], load[p])
    BY DEF LoadInv, Loads
  <1>1. pc[p] # "lookup"
    BY DEF Asking, Confirming
  <1>2. CatalogStep(p)
    <2>1. ASSUME NEW q \in Procs \ {p}, pc' = [pc EXCEPT ![q] = pc'[q]] PROVE FALSE
      BY <1>0, <1>1, <2>1
    <2>2. ASSUME NEW q \in Procs, Begin(q) \/ End(q) \/ BeginClear(q) PROVE FALSE
      <3>1. pc' = [pc EXCEPT ![q] = pc'[q]] /\ pc'[q] \in {"start", "flat", "idle", "clear"}
        BY <1>0, <2>2 DEF Begin, End, BeginClear, Fail, Goto
      <3> QED
        BY <2>1, <3>1
    <2>3. ASSUME NEW q \in Procs, CatalogStep(q), UNCHANGED <<world, moldVars>>
          PROVE  q = p
      BY <2>1, <2>3, CatalogStepMoves DEF Moves
    <2>4. ASSUME NEW q \in Procs, MoldStep(q), UNCHANGED <<world, catVars>> PROVE FALSE
      <3>1. pc' = [pc EXCEPT ![q] = pc'[q]]
        BY <2>4, MoldStepMoves DEF Moves
      <3>2. pc'[q] # "lookup"
        BY <1>0, <2>4
        DEF MoldStep, LookupHash, LookupScript, Open, OpenFails, Miss, Fetch, FetchRecording,
            FetchFails, Install, InstallHash, Displace, InstallFails, FetchCompanion,
            StoreCompanion, CompanionFails, LookupCopy, UseCopy, MissCopy, FetchFlat, Keep,
            NotKept, Goto, Fail, Deliver
      <3> QED
        BY <2>1, <3>1, <3>2
    <2>5. ASSUME NEW q \in Procs, ClearCatalog(q) \/ ClearMold(q) PROVE FALSE
      BY <1>1, <2>5 DEF ClearCatalog, ClearMold
    <2>6. CASE Publish \/ Age
      BY <1>1, <2>6 DEF Publish, Age
    <2> QED
      BY <2>2, <2>3, <2>4, <2>5, <2>6 DEF Next
  <1>3. Parsed(p, load[p].reply) /\ pc[p] \in Confirming \cup {"tag", "tagging"}
    BY <1>0, <1>2
    DEF CatalogStep, LookFresh, UseFresh, FreshGone, Ask, AskFails, NotModified, Answer,
        AnswerRecording, ReadCopy, Gone, Renew, Touch, RenewFails, Truncate, Write,
        BodyRefused, WriteFails, TagTruncate, Tag, TagFails, Asking, Confirming, Fail, Goto
  <1>4. GoesBy(p, load[p].reply) /\ load[p].reply # Broken
    BY <1>0, <1>3 DEF Parsed, Fail, Goto
  <1>5. load'[p].catalog = load[p].reply
    BY <1>0, <1>4 DEF GoesBy, Locals
  <1> QED
    BY <1>0, <1>3, <1>4, <1>5 DEF Holds

\* A catalog the origin was asked about is at least what was published when the load
\* began: what it sent always is, and what it confirmed is where no other load asked
\* at the same time and no older body was kept under a newer ETag (fetch_catalog).
THEOREM ConfirmedCatalogsAreCurrent == Spec => ValidatedIsCurrent
  <1>1. Init => Vouched
    BY RemoteAssumption DEF Init, CatalogInit, Vouched, Confirmed, Asking, Confirming
  <1>2. LoadInv /\ Vouched /\ [Next]_vars =>
          [\A p \in Procs :
             /\ pc[p] \in Asking /\ pc'[p] = "lookup"
             /\ pc[p] \in Confirming => ~contested /\ ~refused
             => load'[p].catalog >= load[p].began]_vars
    <2> SUFFICES ASSUME LoadInv, Vouched, Next, NEW p \in Procs,
                        pc[p] \in Asking, pc'[p] = "lookup",
                        pc[p] \in Confirming => ~contested /\ ~refused
                 PROVE  load'[p].catalog >= load[p].began
      OBVIOUS
    <2>1. /\ pc[p] \in Confirming \cup {"tag", "tagging"}
          /\ load[p].reply \in Nat \ {Broken} /\ load'[p].catalog = load[p].reply
      BY GoesOnWithReply
    <2>2. Holds(pc[p], load[p])
      BY DEF LoadInv, Loads
    <2>3. load[p].began \in Nat
      BY <2>2 DEF Holds, Locals
    <2>4. load[p].began <= load[p].reply
      <3>1. CASE pc[p] \in Confirming
        BY <2>1, <3>1 DEF Vouched, Confirmed
      <3>2. CASE pc[p] \in {"tag", "tagging"}
        BY <2>1, <2>2, <3>2 DEF Holds
      <3> QED
        BY <2>1, <3>1, <3>2
    <2> QED
      BY <2>1, <2>3, <2>4
  <1> QED
    BY <1>1, <1>2, InitLoadInv, LoadInvInductive, VouchedInductive, PTL
    DEF Spec, ValidatedIsCurrent

----------------------------------------------------------------------------
\* Companions

LEMMA AccompaniedMold ==
  ASSUME LoadInv, Accompanied, NEW p \in Procs, MoldStep(p), UNCHANGED <<world, catVars>>
  PROVE  Accompanied'
  <1> DEFINE l == load[p]
  <1> SUFFICES ASSUME ~disturbed' PROVE Accompanied'
    BY DEF Accompanied
  <1>1. /\ Moves(p) /\ published' = published
        /\ load \in [Procs -> Locals] /\ pc \in [Procs -> Phases]
        /\ \A q \in Procs \ {p} : pc'[q] = pc[q] /\ load'[q] = load[q]
        /\ published \in Nat /\ \A q \in Procs : Holds(pc[q], load[q])
        /\ {hash, companion} \subseteq Opt
        /\ hash \in Nat => hash <= published
    BY MoldStepMoves, MovesApart DEF LoadInv, Loads, Files
  <1>2. ~disturbed /\ \A q, r \in Procs : pc[q] \in Storing /\ pc[r] \in Storing => q = r
    BY MoldStepMoves DEF LoadInv, Ordered
  <1>3. /\ \A q \in Procs : pc[q] = "accompany" =>
             /\ hash \in Nat => hash <= load[q].side
             /\ \A r \in Procs : pc[r] \in Found => load[r].catalog <= load[q].side
        /\ ~lapsed =>
             /\ (\A q \in Procs : pc[q] \notin {"companion", "accompany"}) /\ hash \in Nat =>
                  companion \in Nat /\ hash <= companion
             /\ (\A q \in Procs : pc[q] \notin Between) /\ script # None =>
                  \A r \in Procs : pc[r] \in Found =>
                    companion \in Nat /\ load[r].catalog <= companion
    BY <1>2 DEF Accompanied
  <1> USE DEF Found, Between
  <1>4. CASE LookupHash(p)
    <2>1. /\ pc[p] = "lookup" /\ pc'[p] = "check" /\ hash = l.catalog /\ load' = load
          /\ l.catalog \in Nat /\ UNCHANGED <<script, hash, companion, lapsed>>
      BY <1>1, <1>4 DEF LookupHash, HashMatches, Goto, Holds, moldVars, moldFiles
    <2> QED
      BY <1>1, <1>3, <2>1 DEF Accompanied
  <1>5. CASE LookupScript(p)
    <2>1. /\ pc[p] = "check" /\ pc'[p] = "open" /\ load' = load
          /\ UNCHANGED <<script, hash, companion, lapsed>>
      BY <1>1, <1>5 DEF LookupScript, Goto, moldVars, moldFiles
    <2> QED
      BY <1>1, <1>3, <2>1 DEF Accompanied
  \* The copy is left alone, and p is neither about to open it nor to accompany it.
  <1>6. ASSUME UNCHANGED <<script, hash, companion, lapsed>>,
               pc'[p] \notin {"check", "open", "accompany"}, pc[p] \notin Between
        PROVE  Accompanied'
    BY <1>1, <1>3, <1>6 DEF Accompanied
  <1>7. CASE Open(p) \/ OpenFails(p) \/ Miss(p) \/ FetchFails(p)
    BY <1>1, <1>6, <1>7
    DEF Open, OpenFails, Miss, FetchFails, Deliver, Fail, Goto, moldVars, moldFiles
  <1>8. CASE LookupCopy(p) \/ UseCopy(p) \/ MissCopy(p) \/ FetchFlat(p) \/ Keep(p) \/ NotKept(p)
    BY <1>1, <1>6, <1>8
    DEF LookupCopy, UseCopy, MissCopy, FetchFlat, Keep, NotKept, Deliver, Fail, Goto,
        moldVars, moldFiles
  <1>9. CASE Fetch(p)
    BY <1>1, <1>6, <1>9 DEF Fetch, FetchRecording, Goto
  \* p is between the script and its companion.
  <1>10. CASE Install(p)
    <2>1. /\ pc[p] = "install" /\ pc'[p] = "hash" /\ load' = load
          /\ UNCHANGED <<hash, companion, lapsed>>
      BY <1>1, <1>10 DEF Install, Goto
    <2> QED
      BY <1>1, <1>3, <2>1 DEF Accompanied
  <1>11. CASE InstallHash(p) \/ InstallFails(p)
    <2>1. /\ pc[p] \in {"install", "hash"} /\ pc'[p] = "companion" /\ load' = load
      BY <1>1, <1>11 DEF InstallHash, InstallFails, Goto
    <2>2. \A q \in Procs : pc'[q] # "accompany"
      BY <1>1, <1>2, <2>1 DEF Storing
    <2> QED
      BY <2>1, <2>2 DEF Accompanied
  <1>12. CASE FetchCompanion(p)
    <2>1. /\ pc[p] = "companion" /\ pc'[p] = "accompany" /\ UNCHANGED <<script, hash>>
          /\ load'[p].side = published
      BY <1>1, <1>12 DEF FetchCompanion, Goto, Locals, moldVars, moldFiles
    <2>2. \A q \in Procs : pc[q] \in Found => load[q].catalog <= published
      BY <1>1 DEF Holds
    <2>3. \A q \in Procs : pc'[q] = "accompany" => q = p
      BY <1>1, <1>2, <2>1 DEF Storing
    <2>4. \A r \in Procs : pc'[r] \in Found => pc[r] \in Found /\ load'[r] = load[r]
      BY <1>1, <2>1
    <2> QED
      BY <1>1, <2>1, <2>2, <2>3, <2>4 DEF Accompanied
  <1>13. CASE StoreCompanion(p)
    <2>1. /\ pc[p] = "accompany" /\ pc'[p] = "done" /\ UNCHANGED <<script, hash>>
          /\ companion' = l.side /\ l.side \in Nat
      BY <1>1, <1>13 DEF StoreCompanion, Deliver, Goto, Holds
    <2>2. \A q \in Procs : pc'[q] # "accompany"
      BY <1>1, <1>2, <2>1 DEF Storing
    <2>3. \A r \in Procs : pc'[r] \in Found => pc[r] \in Found /\ load'[r] = load[r]
      BY <1>1, <2>1
    <2> QED
      BY <1>3, <2>1, <2>2, <2>3 DEF Accompanied
  <1>14. CASE CompanionFails(p)
    <2>1. /\ pc'[p] = "done" /\ UNCHANGED <<script, hash>> /\ lapsed'
      BY <1>1, <1>14 DEF CompanionFails, Deliver, Goto, moldFiles
    <2>3. \A r \in Procs : pc'[r] \in Found \cup {"accompany"} =>
            pc'[r] = pc[r] /\ load'[r] = load[r]
      BY <1>1, <2>1
    <2> QED
      BY <1>3, <2>1, <2>3 DEF Accompanied
  <1>15. CASE Displace(p)
    <2>1. /\ pc' = pc /\ load' = load /\ lapsed' = lapsed
          /\ \/ script' = None /\ UNCHANGED <<hash, companion>>
             \/ hash' = None /\ pc[p] = "hash" /\ UNCHANGED <<script, companion>>
             \/ companion' = None /\ pc[p] = "accompany" /\ UNCHANGED <<script, hash>>
             \/ UNCHANGED <<script, hash, companion>>
      BY <1>15 DEF Displace
    <2> QED
      BY <1>3, <2>1, RemoteAssumption DEF Accompanied
  <1> QED
    BY <1>4, <1>5, <1>7, <1>8, <1>9, <1>10, <1>11, <1>12, <1>13, <1>14, <1>15 DEF MoldStep

LEMMA AccompaniedInductive == LoadInv /\ Accompanied /\ [Next]_vars => Accompanied'
  <1> SUFFICES ASSUME LoadInv, Accompanied, [Next]_vars PROVE Accompanied'
    OBVIOUS
  \* p neither opens the copy nor is it between the script and its companion.
  <1>1. ASSUME NEW p \in Procs, UNCHANGED <<script, hash, companion, disturbed, lapsed>>,
               pc' = [pc EXCEPT ![p] = pc'[p]], load' = [load EXCEPT ![p] = load'[p]],
               pc'[p] \notin Found \cup {"accompany"}, ~lapsed => pc[p] \notin Between
        PROVE  Accompanied'
    <2>1. \A q \in Procs \ {p} : pc'[q] = pc[q] /\ load'[q] = load[q]
      BY <1>1 DEF LoadInv, Loads
    <2> QED
      BY <1>1, <2>1 DEF Accompanied, Found, Between
  <1>2. ASSUME NEW p \in Procs, Begin(p) PROVE Accompanied'
    <2>1. /\ pc[p] = "idle" /\ pc'[p] \in {"start", "flat"} /\ pc' = [pc EXCEPT ![p] = pc'[p]]
          /\ load' = [load EXCEPT ![p] = load'[p]]
          /\ UNCHANGED <<script, hash, companion, disturbed, lapsed>>
      BY <1>2 DEF Begin, Goto, moldVars, moldFiles, LoadInv, Loads
    <2> QED
      BY <1>1, <2>1 DEF Found, Between
  <1>3. ASSUME NEW p \in Procs, End(p) PROVE Accompanied'
    <2>1. /\ pc'[p] = "idle" /\ pc' = [pc EXCEPT ![p] = pc'[p]]
          /\ load' = [load EXCEPT ![p] = load'[p]]
          /\ UNCHANGED <<script, hash, companion, disturbed>>
          /\ lapsed' = (lapsed \/ pc[p] \in Between)
      BY <1>3 DEF End, Fail, Goto, moldFiles, LoadInv, Loads
    <2>2. \A q \in Procs \ {p} : pc'[q] = pc[q] /\ load'[q] = load[q]
      BY <2>1 DEF LoadInv, Loads
    <2>3. ~lapsed' => ~lapsed /\ pc[p] \notin Between
      BY <2>1
    <2> QED
      BY <2>1, <2>2, <2>3 DEF Accompanied, Found, Between
  <1>4. ASSUME NEW p \in Procs, CatalogStep(p), UNCHANGED <<world, moldVars>>
        PROVE  Accompanied'
    <2>1. /\ pc[p] \in Looking \cup Asking
          /\ pc'[p] \in {"idle", "lookup", "fresh", "stale"} \cup Asking
          /\ Moves(p)
      BY <1>4, CatalogStepMoves
    <2>2. pc[p] \notin Between /\ pc'[p] \notin Found \cup {"accompany"}
      BY <2>1 DEF Looking, Asking, Confirming, Between, Found
    <2> QED
      BY <1>1, <1>4, <2>1, <2>2 DEF Moves, moldVars, moldFiles
  <1>5. CASE Publish \/ Age \/ UNCHANGED vars
    <2>1. UNCHANGED <<pc, load, disturbed, lapsed, script, hash, companion>>
      BY <1>5 DEF Publish, Age, vars, moldVars, moldFiles
    <2> QED
      BY <2>1 DEF Accompanied
  <1>6. ASSUME NEW p \in Procs, BeginClear(p) PROVE Accompanied'
    <2>1. /\ pc[p] = "idle" /\ pc'[p] = "clear" /\ pc' = [pc EXCEPT ![p] = pc'[p]]
          /\ load' = [load EXCEPT ![p] = load'[p]]
          /\ UNCHANGED <<script, hash, companion, disturbed, lapsed>>
      BY <1>6 DEF BeginClear, Goto, moldVars, moldFiles, LoadInv, Loads
    <2> QED
      BY <1>1, <2>1 DEF Found, Between
  <1>7. ASSUME NEW p \in Procs, ClearCatalog(p) PROVE Accompanied'
    <2>1. UNCHANGED <<pc, load, disturbed, lapsed, script, hash, companion>>
      BY <1>7 DEF ClearCatalog, moldVars, moldFiles
    <2> QED
      BY <2>1 DEF Accompanied
  <1>8. ASSUME NEW p \in Procs, ClearMold(p) PROVE Accompanied'
    <2>1. /\ UNCHANGED <<pc, load, disturbed>>
          /\ script' \in {script, None} /\ hash' \in {hash, None}
          /\ (companion' = companion /\ lapsed' = lapsed) \/ lapsed'
      BY <1>8 DEF ClearMold
    <2> QED
      BY <2>1, RemoteAssumption DEF Accompanied
  <1> QED
    BY <1>2, <1>3, <1>4, <1>5, <1>6, <1>7, <1>8, AccompaniedMold DEF Next

\* A cached script is opened with a companion at least as new as the hash it was
\* found by, unless another load is between its script and its companion, the
\* companion was lost or removed since, or two loads stored at the same time
\* (load_url_with_cache).
THEOREM HitsAreComplete == Spec => HitIsComplete
  <1>1. Init => Accompanied
    BY RemoteAssumption DEF Init, MoldInit, Accompanied
  <1>2. LoadInv /\ Accompanied =>
          [\A p \in Procs :
             Open(p) /\ ~lapsed /\ ~disturbed /\ (\A q \in Procs : pc[q] \notin Between)
               => companion # None /\ companion >= load[p].catalog]_vars
    <2> SUFFICES ASSUME LoadInv, Accompanied, NEW p \in Procs, Open(p), ~lapsed, ~disturbed,
                        \A q \in Procs : pc[q] \notin Between
                 PROVE  companion # None /\ companion >= load[p].catalog
      OBVIOUS
    <2>1. companion \in Nat /\ load[p].catalog <= companion
      BY DEF Open, Accompanied, Found
    <2>2. load[p].catalog \in Nat
      BY DEF Open, LoadInv, Loads, Holds, Found
    <2> QED
      BY <2>1, <2>2, RemoteAssumption
  <1> QED
    BY <1>1, <1>2, InitLoadInv, LoadInvInductive, AccompaniedInductive, PTL
    DEF Spec, HitIsComplete
=============================================================================
