---------------------------- MODULE CheckProofs ----------------------------
(***************************************************************************)
(* What the job check proves.  It keeps what CheckPromise states: every    *)
(* step of it is a step of the promise or none.  No image is built again   *)
(* without need, and the newest tag is found whatever is pushed while the  *)
(* pages are read.                                                         *)
(***************************************************************************)
EXTENDS CheckTypeProofs, SequenceTheorems

-----------------------------------------------------------------------------
(* The promise.                                                            *)

\* What the sources show now is part of what they have shown.
ShownInv ==
  /\ \A i \in DOMAIN tags : tags[i] \in shown.tags
  /\ seen \subseteq shown.tags
  /\ \A r \in Repos : Promise!TopRanked(releases[r]) \subseteq shown.newest[r]
  /\ DOMAIN shown.files = DOMAIN InitFiles
  /\ \A u \in DOMAIN InitFiles : files[u] \subseteq shown.files[u]
  /\ image \in shown.images

\* The first n requests of resolve are done.
Past(n) == phase \in {"compare", "download", "done"} \/ (phase = "resolve" /\ step > n)

\* The versions that were read so far were shown.
VersionsInv ==
  /\ Past(1) => base \in Stable(shown.tags)
  /\ Past(2) => chosen["passwall"] \in shown.newest["passwall"]
  /\ Past(3) => chosen["landscape"] \in shown.newest["landscape"]

\* An image of these inputs.
Built(digest) == \E i \in shown.images : i # None /\ i.label = digest

\* Nothing is skipped before, or without, the image that allows it.
SkipInv ==
  /\ phase = "compare" => \A l \in label : Built(l.digest)
  /\ phase = "compare" /\ step > 2 => label # {}
  /\ phase \in {"resolve", "compare"} => build
  /\ phase \in {"download", "done"} /\ ~build => Built(Promise!Digest(base, chosen))
  /\ phase = "resolve" => label = {}

FileKept(f) ==
  /\ kept[f] = sha[f]
  /\ UrlOf(f) \in DOMAIN InitFiles /\ kept[f] \in shown.files[UrlOf(f)]

\* The files that were downloaded so far were shown, and are what was resolved.
FilesInv ==
  /\ phase = "download" => \A k \in 1..(step - 1) : FileKept(Requests["download"][k])
  /\ phase = "done" => \A f \in File : FileKept(f)

PromiseInv == TypeInv /\ ShownInv /\ VersionsInv /\ SkipInv /\ FilesInv

\* What was shown stays shown.
Grown ==
  /\ shown.tags \subseteq shown'.tags
  /\ \A r \in Repos : shown.newest[r] \subseteq shown'.newest[r]
  /\ DOMAIN shown'.files = DOMAIN shown.files
  /\ \A u \in DOMAIN shown.files : shown.files[u] \subseteq shown'.files[u]
  /\ shown.images \subseteq shown'.images

Untouched ==
  UNCHANGED <<phase, step, attempt, force, first, page, seen, state, label, build,
              kept, faults>>

\* A change of the sources adds to what was shown, and touches nothing of the check.
LEMMA ChangeGrows ==
  ASSUME PromiseInv, SourcesChange
  PROVE  Untouched /\ Grown /\ ShownInv'
<1>1. Change
  BY DEF SourcesChange, TagPushed, TagWithdrawn, ReleaseEdited, FileChanged, ImageChanged
<1>2. DOMAIN files = DOMAIN InitFiles /\ DOMAIN files' = DOMAIN InitFiles
  <2>1. TypeInv'
    BY ChangeTypes DEF PromiseInv
  <2> QED
    BY <2>1 DEF PromiseInv, TypeInv, TypeOK
<1>3. /\ shown'.tags = shown.tags \union {tags'[i] : i \in DOMAIN tags'}
      /\ shown'.newest = [r \in Repos |->
            shown.newest[r] \union Promise!TopRanked(releases'[r])]
      /\ shown'.files = [u \in DOMAIN files |-> shown.files[u] \union files'[u]]
      /\ shown'.images = shown.images \union {image'}
  BY <1>1 DEF Change
<1>4. Untouched
  BY <1>1 DEF Change, Untouched
<1>5. Grown
  BY <1>2, <1>3 DEF PromiseInv, ShownInv, Grown
<1>6. ShownInv'
  BY <1>2, <1>3, <1>4 DEF PromiseInv, ShownInv, Untouched
<1> QED
  BY <1>4, <1>5, <1>6

\* What was read stays a part of what was shown when the sources change.
LEMMA ChangeKeeps ==
  ASSUME PromiseInv, SourcesChange
  PROVE  PromiseInv'
<1>1. Untouched /\ Grown /\ ShownInv'
  BY ChangeGrows
<1>2. TypeInv'
  BY ChangeTypes DEF PromiseInv
<1>3. VersionsInv'
  BY <1>1 DEF PromiseInv, VersionsInv, Past, Untouched, Grown, Stable, Repos, state
<1>4. \A d : Built(d) => Built(d)'
  BY <1>1 DEF Built, Grown
<1>5. SkipInv'
  <2>1. Promise!Digest(base, chosen)' = Promise!Digest(base, chosen)
    BY <1>1 DEF Untouched, state, Promise!Digest
  <2> QED
    BY <1>1, <1>4, <2>1 DEF PromiseInv, SkipInv, Untouched
<1>6. \A f : FileKept(f) => FileKept(f)'
  <2> SUFFICES ASSUME NEW f, FileKept(f)
               PROVE  FileKept(f)'
    OBVIOUS
  <2>1. UrlOf(f)' = UrlOf(f) /\ UNCHANGED <<kept, sha>>
    BY <1>1 DEF Untouched, state, UrlOf, Promise!UrlOf, Promise!VersionOf
  <2>2. DOMAIN shown.files = DOMAIN InitFiles
    BY DEF PromiseInv, ShownInv
  <2> QED
    BY <1>1, <2>1, <2>2 DEF FileKept, Grown
<1>7. FilesInv'
  BY <1>1, <1>6 DEF PromiseInv, FilesInv, Untouched
<1> QED
  BY <1>1, <1>2, <1>3, <1>5, <1>7 DEF PromiseInv

\* A check that gave up owes nothing.
LEMMA GivenUp ==
  ASSUME ShownInv', phase' = "failed"
  PROVE  ShownInv' /\ VersionsInv' /\ SkipInv' /\ FilesInv'
  BY DEF VersionsInv, Past, SkipInv, FilesInv

\* A failed attempt reads nothing; a missing image leads to a build.
LEMMA FailureKeeps ==
  ASSUME PromiseInv, RequestFails
  PROVE  PromiseInv'
<1> SUFFICES ASSUME NEW status, NEW after, GetFails(status, after)
             PROVE  ShownInv' /\ VersionsInv' /\ SkipInv' /\ FilesInv'
  BY FailureTypes DEF RequestFails, PromiseInv
<1>1. /\ UNCHANGED <<sources, force, first, history>>
      /\ UNCHANGED <<page, seen, state, label, build, kept>>
  BY DEF GetFails, Raise, GivesUp
<1>2. ShownInv'
  BY <1>1 DEF PromiseInv, ShownInv, sources, history
<1>3. UNCHANGED <<seen, base, chosen, sha, label, build, kept, shown>>
  BY <1>1 DEF state, history
<1>4. CASE UNCHANGED <<phase, step>>
  BY <1>2, <1>3, <1>4
     DEF PromiseInv, VersionsInv, Past, SkipInv, Built, FilesInv, FileKept, UrlOf,
         Promise!UrlOf, Promise!VersionOf, Promise!Digest
<1>5. CASE phase = "compare" /\ phase' = "download" /\ step' = 1
  <2>1. \A k \in 1..(step' - 1) : FALSE
    BY <1>5
  <2>2. FilesInv'
    BY <1>5, <2>1 DEF FilesInv
  <2>3. VersionsInv'
    BY <1>3, <1>5 DEF PromiseInv, VersionsInv, Past
  <2>4. SkipInv'
    BY <1>3, <1>5 DEF PromiseInv, SkipInv
  <2> QED
    BY <1>2, <2>2, <2>3, <2>4
<1>6. CASE phase' = "failed"
  BY <1>2, <1>6, GivenUp
<1> QED
  BY <1>4, <1>5, <1>6 DEF GetFails, Raise, GivesUp, Enter

\* Where an answer leads.
LEMMA AnsweredNext ==
  ASSUME TypeInv, step \in DOMAIN Requests[phase], Answered
  PROVE  /\ phase = "resolve" =>
              \/ phase' = "resolve" /\ step' = step + 1 /\ step < 8
              \/ phase' = "compare" /\ step' = 1 /\ step = 8
         /\ phase = "compare" =>
              \/ phase' = "compare" /\ step' = step + 1 /\ step < 4
              \/ phase' = "download" /\ step' = 1 /\ step = 4
         /\ phase = "download" =>
              \/ phase' = "download" /\ step' = step + 1 /\ step < 9
              \/ phase' = "done" /\ step = 9
         /\ phase \in {"resolve", "compare", "download"}
<1>1. phase \in {"resolve", "compare", "download"}
  BY Phases DEF TypeInv, TypeOK
<1>2. After["resolve"] = "compare" /\ After["compare"] = "download" /\ After["download"] = "done"
  BY DEF After
<1>3. CASE phase = "resolve"
  BY <1>2, <1>3, Phases DEF Answered, Enter
<1>4. CASE phase = "compare"
  BY <1>2, <1>4, Phases DEF Answered, Enter
<1>5. CASE phase = "download"
  BY <1>2, <1>5, Phases DEF Answered, Enter
<1> QED
  BY <1>1, <1>3, <1>4, <1>5

\* A successful request changes no source; what resolve reads leaves the
\* later parts of the invariant as they are.
LEMMA ResolveLeaves ==
  ASSUME PromiseInv, phase = "resolve", phase' \in {"resolve", "compare"},
         UNCHANGED <<label, build>>, UNCHANGED shown,
         phase' = "compare" => step' = 1
  PROVE  SkipInv' /\ FilesInv'
<1>1. SkipInv'
  BY DEF PromiseInv, SkipInv
<1>2. FilesInv'
  BY DEF FilesInv
<1> QED
  BY <1>1, <1>2

\* Every answer that resolve uses is a part of what was shown.
LEMMA ResolveKeeps ==
  ASSUME PromiseInv, RequestSucceeds,
         ReadTags \/ ReadPassWall \/ ReadLandscape \/ ReadKey
           \/ (\E a \in Arches : ReadSums(a) \/ ReadFeed(a))
  PROVE  ShownInv' /\ VersionsInv' /\ SkipInv' /\ FilesInv'
<1>1. UNCHANGED <<sources, history>>
  BY DEF RequestSucceeds
<1>2. UNCHANGED <<tags, releases, files, image, shown>>
  BY <1>1 DEF sources, history
<1>3. phase \in DOMAIN Requests /\ TypeInv
  BY DEF PromiseInv, TypeInv, TypeOK
<1>4. seen' \subseteq shown.tags => ShownInv'
  BY <1>2 DEF PromiseInv, ShownInv
<1>5. seen \subseteq shown.tags
  BY DEF PromiseInv, ShownInv
<1>6. ASSUME phase' = "failed", seen' \subseteq shown.tags
      PROVE  ShownInv' /\ VersionsInv' /\ SkipInv' /\ FilesInv'
  BY <1>4, <1>6, GivenUp
<1>7. ASSUME GivesUp
      PROVE  ShownInv' /\ VersionsInv' /\ SkipInv' /\ FilesInv'
  BY <1>5, <1>6, <1>7 DEF GivesUp, Enter
<1>8. CASE ReadTags
  <2>1. phase = "resolve" /\ step = 1 /\ step \in DOMAIN Requests[phase]
    BY <1>3, <1>8, Places DEF ReadTags, Asks
  <2>2. seen' = seen \union Page(page) /\ seen' \subseteq shown.tags
    BY <1>5, <1>8 DEF ReadTags, Page, PromiseInv, ShownInv
  <2>3. CASE /\ ~LastPage
             /\ page' = page + 1 /\ NextGet
             /\ UNCHANGED <<phase, step, state, label, build, kept>>
    <3>1. SkipInv' /\ FilesInv'
      BY <1>2, <2>1, <2>3, ResolveLeaves
    <3>2. VersionsInv'
      BY <2>1, <2>3 DEF VersionsInv, Past
    <3> QED
      BY <1>4, <2>2, <3>1, <3>2
  <2>4. ASSUME NEW t \in NewestOf(seen'), base' = t, Answered,
               UNCHANGED <<page, chosen, sha, label, build, kept>>
        PROVE  ShownInv' /\ VersionsInv' /\ SkipInv' /\ FilesInv'
    <3>1. phase' = "resolve" /\ step' = 2
      BY <1>3, <2>1, <2>4, AnsweredNext
    <3>2. base' \in Stable(shown'.tags)
      BY <1>2, <2>2, <2>4, NewestInList DEF Stable
    <3>3. VersionsInv'
      BY <3>1, <3>2 DEF VersionsInv, Past
    <3>4. SkipInv' /\ FilesInv'
      BY <1>2, <2>1, <2>4, <3>1, ResolveLeaves
    <3> QED
      BY <1>4, <2>2, <3>3, <3>4
  <2>5. CASE Enter("failed") /\ UNCHANGED <<page, state, label, build, kept>>
    BY <1>6, <2>2, <2>5 DEF Enter
  <2> QED
    BY <1>8, <2>2, <2>3, <2>4, <2>5 DEF ReadTags
<1>9. CASE ReadPassWall
  <2>1. phase = "resolve" /\ step = 2 /\ step \in DOMAIN Requests[phase]
    BY <1>3, <1>9, Places DEF ReadPassWall, Asks
  <2>2. ASSUME NEW r \in NewestOf(releases["passwall"]),
               chosen' = [chosen EXCEPT !["passwall"] = r],
               Answered, UNCHANGED <<page, seen, base, label, build, kept>>
        PROVE  ShownInv' /\ VersionsInv' /\ SkipInv' /\ FilesInv'
    <3>1. phase' = "resolve" /\ step' = 3
      BY <1>3, <2>1, <2>2, AnsweredNext
    <3>2. chosen'["passwall"] = r
      BY <2>2 DEF PromiseInv, TypeInv, Functions, Repos
    <3>3. r \in Promise!TopRanked(releases["passwall"])
      <4>1. \A x \in releases["passwall"] : x.version \in [1..4 -> 0..99]
        BY VersionsAssumption DEF PromiseInv, TypeInv, TypeOK, Repos
      <4> QED
        BY <2>2, <4>1, NewestIsTop
    <3>4. VersionsInv'
      BY <1>2, <2>1, <2>2, <3>1, <3>2, <3>3 DEF VersionsInv, Past, PromiseInv, ShownInv, Repos
    <3>5. SkipInv' /\ FilesInv'
      BY <1>2, <2>1, <2>2, <3>1, ResolveLeaves
    <3> QED
      BY <1>4, <1>5, <2>2, <3>4, <3>5
  <2> QED
    BY <1>7, <1>9, <2>2 DEF ReadPassWall
<1>10. CASE ReadLandscape
  <2>1. phase = "resolve" /\ step = 3 /\ step \in DOMAIN Requests[phase]
    BY <1>3, <1>10, Places DEF ReadLandscape, Asks
  <2>2. ASSUME NEW r \in NewestOf(releases["landscape"]),
               chosen' = [chosen EXCEPT !["landscape"] = r],
               Answered, UNCHANGED <<page, seen, base, sha, label, build, kept>>
        PROVE  ShownInv' /\ VersionsInv' /\ SkipInv' /\ FilesInv'
    <3>1. phase' = "resolve" /\ step' = 4
      BY <1>3, <2>1, <2>2, AnsweredNext
    <3>2. chosen'["landscape"] = r /\ chosen'["passwall"] = chosen["passwall"]
      BY <2>2 DEF PromiseInv, TypeInv, Functions, Repos
    <3>3. r \in Promise!TopRanked(releases["landscape"])
      <4>1. \A x \in releases["landscape"] : x.version \in [1..3 -> 0..99]
        BY VersionsAssumption DEF PromiseInv, TypeInv, TypeOK, Repos
      <4> QED
        BY <2>2, <4>1, NewestIsTop
    <3>4. VersionsInv'
      BY <1>2, <2>1, <2>2, <3>1, <3>2, <3>3 DEF VersionsInv, Past, PromiseInv, ShownInv, Repos
    <3>5. SkipInv' /\ FilesInv'
      BY <1>2, <2>1, <2>2, <3>1, ResolveLeaves
    <3> QED
      BY <1>4, <1>5, <2>2, <3>4, <3>5
  <2> QED
    BY <1>7, <1>10, <2>2 DEF ReadLandscape
<1>11. ASSUME phase = "resolve", step \in {4, 5, 6, 7, 8}, step \in DOMAIN Requests[phase],
              Answered, UNCHANGED <<page, seen, base, chosen, label, build, kept>>
       PROVE  ShownInv' /\ VersionsInv' /\ SkipInv' /\ FilesInv'
  <2>1. (phase' = "resolve" /\ step' = step + 1) \/ (phase' = "compare" /\ step' = 1)
    BY <1>3, <1>11, AnsweredNext
  <2>2. VersionsInv'
    BY <1>2, <1>11, <2>1 DEF VersionsInv, Past, PromiseInv
  <2>3. SkipInv' /\ FilesInv'
    BY <1>2, <1>11, <2>1, ResolveLeaves
  <2> QED
    BY <1>4, <1>5, <1>11, <2>2, <2>3
<1>12. CASE ReadKey
  <2>1. phase = "resolve" /\ step = 4 /\ step \in DOMAIN Requests[phase]
    BY <1>3, <1>12, Places DEF ReadKey, Asks
  <2> QED
    BY <1>7, <1>11, <1>12, <2>1 DEF ReadKey
<1>13. ASSUME NEW a \in Arches, ReadSums(a)
       PROVE  ShownInv' /\ VersionsInv' /\ SkipInv' /\ FilesInv'
  <2>1. phase = "resolve" /\ step \in {5, 7} /\ step \in DOMAIN Requests[phase]
    BY <1>3, <1>13, Places DEF ReadSums, Asks
  <2> QED
    BY <1>7, <1>11, <1>13, <2>1 DEF ReadSums
<1>14. ASSUME NEW a \in Arches, ReadFeed(a)
       PROVE  ShownInv' /\ VersionsInv' /\ SkipInv' /\ FilesInv'
  <2>1. phase = "resolve" /\ step \in {6, 8} /\ step \in DOMAIN Requests[phase]
    BY <1>3, <1>14, Places DEF ReadFeed, Asks
  <2> QED
    BY <1>7, <1>11, <1>14, <2>1 DEF ReadFeed
<1> QED
  BY <1>8, <1>9, <1>10, <1>12, <1>13, <1>14

\* The label that is compared is of an image that was shown.
LEMMA CompareKeeps ==
  ASSUME PromiseInv, RequestSucceeds,
         ReadToken \/ ReadManifest \/ ReadChild \/ ReadConfig
  PROVE  ShownInv' /\ VersionsInv' /\ SkipInv' /\ FilesInv'
<1>1. UNCHANGED <<sources, history>>
  BY DEF RequestSucceeds
<1>2. UNCHANGED <<tags, releases, files, image, shown>>
  BY <1>1 DEF sources, history
<1>3. phase \in DOMAIN Requests /\ TypeInv
  BY DEF PromiseInv, TypeInv, TypeOK
<1>4. UNCHANGED seen => ShownInv'
  BY <1>2 DEF PromiseInv, ShownInv
<1>5. ASSUME GivesUp
      PROVE  ShownInv' /\ VersionsInv' /\ SkipInv' /\ FilesInv'
  BY <1>4, <1>5, GivenUp DEF GivesUp, Enter
<1>6. phase = "compare" => build /\ \A l \in label : Built(l.digest)
  BY DEF PromiseInv, SkipInv
\* While it compares, nothing of resolve moves.
<1>7. ASSUME phase = "compare", phase' = "compare", step' # 1, Lookup, UNCHANGED build,
             \A l \in label' : Built(l.digest), step' > 2 => label' # {}
      PROVE  ShownInv' /\ VersionsInv' /\ SkipInv' /\ FilesInv'
  <2>1. UNCHANGED <<seen, base, chosen, shown>>
    BY <1>2, <1>7 DEF Lookup, state
  <2>2. VersionsInv'
    BY <1>7, <2>1 DEF PromiseInv, VersionsInv, Past
  <2>3. SkipInv'
    BY <1>6, <1>7, <2>1 DEF SkipInv, Built
  <2>4. FilesInv'
    BY <1>7 DEF FilesInv
  <2> QED
    BY <1>4, <2>1, <2>2, <2>3, <2>4
<1>8. CASE ReadToken
  <2>1. phase = "compare" /\ step = 1 /\ step \in DOMAIN Requests[phase]
    BY <1>3, <1>8, Places DEF ReadToken, Asks
  <2>2. phase' = "compare" /\ step' = 2
    BY <1>3, <1>8, <2>1, AnsweredNext DEF ReadToken
  <2> QED
    BY <1>6, <1>7, <1>8, <2>1, <2>2 DEF ReadToken
<1>9. CASE ReadManifest
  <2>1. phase = "compare" /\ step = 2
    BY <1>3, <1>9, Places DEF ReadManifest
  <2>2. ASSUME label' = {[digest |-> image.label, arches |-> image.arches,
                          index |-> image.index]},
               step' \in {step + 1, step + 2}, Lookup, UNCHANGED <<phase, build>>
        PROVE  ShownInv' /\ VersionsInv' /\ SkipInv' /\ FilesInv'
    <3>1. image \in shown.images /\ image # None
      BY <1>9 DEF ReadManifest, PromiseInv, ShownInv
    <3>2. Built(image.label)
      BY <3>1 DEF Built
    <3>3. \A l \in label' : l.digest = image.label
      BY <2>2
    <3>4. label' # {}
      BY <2>2
    <3> QED
      BY <1>7, <2>1, <2>2, <3>2, <3>3, <3>4
  <2> QED
    BY <1>5, <1>9, <2>2 DEF ReadManifest
<1>10. CASE ReadChild
  <2>1. phase = "compare" /\ step = 3 /\ step \in DOMAIN Requests[phase]
    BY <1>3, <1>10, Places DEF ReadChild, Asks
  <2>2. phase' = "compare" /\ step' = 4
    BY <1>3, <1>10, <2>1, AnsweredNext DEF ReadChild
  <2>3. label # {}
    BY <2>1 DEF PromiseInv, SkipInv
  <2> QED
    BY <1>6, <1>7, <1>10, <2>1, <2>2, <2>3 DEF ReadChild
<1>11. CASE ReadConfig
  <2>1. phase = "compare" /\ step = 4 /\ step \in DOMAIN Requests[phase]
    BY <1>3, <1>11, Places DEF ReadConfig, Asks
  <2>2. ASSUME build' = NeedsBuild, Answered, Lookup
        PROVE  ShownInv' /\ VersionsInv' /\ SkipInv' /\ FilesInv'
    <3>1. phase' = "download" /\ step' = 1
      BY <1>3, <2>1, <2>2, AnsweredNext
    <3>2. UNCHANGED <<seen, base, chosen, shown>>
      BY <1>2, <2>2 DEF Lookup, state
    <3>3. VersionsInv'
      BY <2>1, <3>1, <3>2 DEF PromiseInv, VersionsInv, Past
    <3>4. label # {}
      BY <2>1 DEF PromiseInv, SkipInv
    <3>5. ~build' => Built(Promise!Digest(base, chosen))
      BY <1>6, <2>1, <2>2, <3>4 DEF NeedsBuild
    <3>6. SkipInv'
      BY <3>1, <3>2, <3>5 DEF SkipInv, Built, Promise!Digest
    <3>7. \A k \in 1..(step' - 1) : FALSE
      BY <3>1
    <3>8. FilesInv'
      BY <3>1, <3>7 DEF FilesInv
    <3> QED
      BY <1>4, <3>2, <3>3, <3>6, <3>8
  <2> QED
    BY <1>5, <1>11, <2>2 DEF ReadConfig
<1> QED
  BY <1>8, <1>9, <1>10, <1>11

\* A file is kept when it was shown and is what was resolved.
LEMMA DownloadKeeps ==
  ASSUME PromiseInv, RequestSucceeds, NEW f \in File, Download(f)
  PROVE  ShownInv' /\ VersionsInv' /\ SkipInv' /\ FilesInv'
<1>1. UNCHANGED <<sources, history>>
  BY DEF RequestSucceeds
<1>2. UNCHANGED <<tags, releases, files, image, shown>>
  BY <1>1 DEF sources, history
<1>3. TypeInv
  BY DEF PromiseInv
<1>4. UNCHANGED seen => ShownInv'
  BY <1>2 DEF PromiseInv, ShownInv
<1>5. CASE GivesUp
  BY <1>4, <1>5, GivenUp DEF GivesUp, Enter
<1>6. phase = "download" /\ step \in 1..9 /\ step \in DOMAIN Requests[phase]
  BY Phases DEF Download, Asks
<1>7. Requests["download"][step] = f
  BY <1>6 DEF Download, Asks, File
<1>8. ASSUME NEW c \in Answers(f), c = sha[f], kept' = [kept EXCEPT ![f] = c],
             Answered, UNCHANGED <<page, seen, state, label, build>>
      PROVE  ShownInv' /\ VersionsInv' /\ SkipInv' /\ FilesInv'
  <2>1. (phase' = "download" /\ step' = step + 1) \/ (phase' = "done" /\ step = 9)
    BY <1>3, <1>6, <1>8, AnsweredNext
  <2>2. UNCHANGED <<base, chosen, sha, shown, label, build>>
    BY <1>2, <1>8 DEF state
  <2>3. VersionsInv'
    BY <1>6, <2>1, <2>2 DEF PromiseInv, VersionsInv, Past
  <2>4. SkipInv'
    BY <1>6, <2>1, <2>2 DEF PromiseInv, SkipInv, Built, Promise!Digest
  <2>5. \A g : UrlOf(g)' = UrlOf(g)
    BY <2>2 DEF UrlOf, Promise!UrlOf, Promise!VersionOf
  <2>6. FileKept(f)'
    <3>1. kept'[f] = c
      BY <1>8 DEF PromiseInv, TypeInv, Functions
    <3>2. UrlOf(f) \in DOMAIN InitFiles /\ c \in files[UrlOf(f)]
      BY <1>8 DEF Answers, PromiseInv, TypeInv, TypeOK
    <3>3. c \in shown.files[UrlOf(f)]
      BY <3>2 DEF PromiseInv, ShownInv
    <3> QED
      BY <1>8, <2>2, <2>5, <3>1, <3>2, <3>3 DEF FileKept
  <2>7. \A g \in File : FileKept(g) => FileKept(g)'
    <3> SUFFICES ASSUME NEW g \in File, FileKept(g), g # f
                 PROVE  FileKept(g)'
      BY <2>6
    <3>1. kept'[g] = kept[g]
      BY <1>8 DEF PromiseInv, TypeInv, Functions
    <3> QED
      BY <2>2, <2>5, <3>1 DEF FileKept
  <2>8. \A k \in 1..step : FileKept(Requests["download"][k])'
    <3> SUFFICES ASSUME NEW k \in 1..step
                 PROVE  FileKept(Requests["download"][k])'
      OBVIOUS
    <3>1. k \in 1..9 /\ (k = step \/ k \in 1..(step - 1))
      BY <1>6
    <3>2. Requests["download"][k] \in File
      BY <3>1, EveryFile
    <3>3. k \in 1..(step - 1) => FileKept(Requests["download"][k])
      BY <1>6 DEF PromiseInv, FilesInv
    <3>4. FileKept(Requests["download"][k]) => FileKept(Requests["download"][k])'
      <4> DEFINE g == Requests["download"][k]
      <4>1. FileKept(g) => FileKept(g)'
        BY <2>7, <3>2
      <4> QED
        BY <4>1 DEF FileKept, UrlOf
    <3>5. k = step => FileKept(Requests["download"][k])'
      BY <1>7, <2>6 DEF FileKept, UrlOf
    <3> QED
      BY <3>1, <3>3, <3>4, <3>5
  <2>9. FilesInv'
    <3>1. CASE phase' = "download" /\ step' = step + 1
      <4>1. \A k \in 1..(step' - 1) : k \in 1..step
        BY <1>6, <3>1
      <4> QED
        BY <2>8, <3>1, <4>1 DEF FilesInv
    <3>2. CASE phase' = "done" /\ step = 9
      <4>1. \A g \in File : FileKept(g)'
        BY <2>8, <3>2, EveryFile
      <4> QED
        BY <3>2, <4>1 DEF FilesInv
    <3> QED
      BY <2>1, <3>1, <3>2
  <2> QED
    BY <1>4, <1>8, <2>3, <2>4, <2>9
<1> QED
  BY <1>5, <1>8 DEF Download, Verified

\* The invariant holds before the first request.
LEMMA InitPromise == Init => PromiseInv
<1> SUFFICES ASSUME Init
             PROVE  PromiseInv
  OBVIOUS
<1>1. TypeInv
  BY InitTypes
<1>2. ShownInv
  BY DEF Init, ShownInv
<1>3. VersionsInv
  BY DEF Init, VersionsInv, Past
<1>4. SkipInv /\ FilesInv
  BY DEF Init, SkipInv, FilesInv
<1> QED
  BY <1>1, <1>2, <1>3, <1>4 DEF PromiseInv

\* The invariant is inductive.
LEMMA PromiseInvariant == PromiseInv /\ [Next]_vars => PromiseInv'
<1>1. ASSUME PromiseInv, UNCHANGED vars
      PROVE  PromiseInv'
  <2>1. /\ UNCHANGED <<tags, releases, files, image, phase, step, attempt, force, first, page>>
        /\ UNCHANGED <<seen, base, chosen, sha, label, build, kept, shown, shrunk, blips, changes>>
    BY <1>1 DEF vars, sources, state, history, faults
  <2>2. TypeInv'
    BY <1>1, <2>1 DEF PromiseInv, TypeInv, TypeOK, Functions
  <2>3. ShownInv' /\ VersionsInv'
    BY <1>1, <2>1 DEF PromiseInv, ShownInv, VersionsInv, Past
  <2>4. SkipInv' /\ FilesInv'
    BY <1>1, <2>1 DEF PromiseInv, SkipInv, Built, Promise!Digest, FilesInv, FileKept, UrlOf,
                      Promise!UrlOf, Promise!VersionOf
  <2> QED
    BY <2>2, <2>3, <2>4 DEF PromiseInv
<1>2. ASSUME PromiseInv, RequestSucceeds
      PROVE  PromiseInv'
  <2>1. TypeInv'
    BY <1>2, AnswerTypes DEF PromiseInv
  <2>2. ShownInv' /\ VersionsInv' /\ SkipInv' /\ FilesInv'
    BY <1>2, ResolveKeeps, CompareKeeps, DownloadKeeps DEF RequestSucceeds
  <2> QED
    BY <2>1, <2>2 DEF PromiseInv
<1> QED
  BY <1>1, <1>2, ChangeKeeps, FailureKeeps DEF Next

\* The result of the promise, in terms of the check.
Result ==
  IF phase = "done"
    THEN {[base |-> base, chosen |-> chosen, sha |-> sha, kept |-> kept, build |-> build]}
    ELSE {}

\* A change of the sources is a step in which they show more.
LEMMA ChangeMaps ==
  ASSUME PromiseInv, SourcesChange
  PROVE  Promise!Grows
<1>1. Untouched /\ Grown
  BY ChangeGrows
<1>2. UNCHANGED <<phase, base, chosen, sha, kept, build>>
  BY <1>1 DEF Untouched, state
<1> QED
  BY <1>1, <1>2 DEF Promise!Grows, Grown, Promise!Repos, Repos

\* Whatever else is done is no step of the promise, until the check ends well.
LEMMA RequestMaps ==
  ASSUME PromiseInv, PromiseInv', UNCHANGED shown,
         phase = "done" => UNCHANGED <<phase, base, chosen, sha, kept, build>>
  PROVE  UNCHANGED <<shown, Result>> \/ Promise!HandsOver
<1>1. CASE phase = "done" \/ phase' # "done"
  BY <1>1 DEF Result
<1>2. CASE phase # "done" /\ phase' = "done"
  <2> DEFINE r == [base |-> base', chosen |-> chosen', sha |-> sha', kept |-> kept',
                   build |-> build']
  <2>1. /\ r.base = base' /\ r.chosen = chosen' /\ r.sha = sha' /\ r.kept = kept'
        /\ r.build = build'
    OBVIOUS
  <2>2. Result = {} /\ Result' = {r} /\ Result' # {}
    BY <1>2 DEF Result
  <2> HIDE DEF r
  <2>3. Promise!VersionsShown(r)
    <3>1. VersionsInv'
      BY DEF PromiseInv
    <3> QED
      BY <1>2, <2>1, <3>1
         DEF VersionsInv, Past, Promise!VersionsShown, Promise!Stable, Stable, Promise!Repos
  <2>4. Promise!FilesShown(r)
    <3>1. \A f \in File : FileKept(f)'
      BY <1>2 DEF PromiseInv, FilesInv
    <3> QED
      BY <2>1, <3>1 DEF FileKept, UrlOf, Promise!FilesShown, Promise!UrlOf, Promise!VersionOf,
                        Promise!ShortVersion
  <2>5. Promise!SkippedOnlyIfPublished(r)
    <3>1. ~build' => Built(Promise!Digest(base, chosen))'
      BY <1>2 DEF PromiseInv, SkipInv
    <3> QED
      BY <2>1, <3>1 DEF Promise!SkippedOnlyIfPublished, Promise!Digest, Built
  <2>6. Promise!HandsOver
    BY <2>2, <2>3, <2>4, <2>5 DEF Promise!HandsOver, Result
  <2> QED
    BY <2>6
<1> QED
  BY <1>1, <1>2

\* The check implements CheckPromise: what it hands over is a stable tag and
\* releases that were the newest at a moment of the check, with every file
\* verified, and nothing is skipped but for an image of the same digest.
THEOREM CheckKeepsPromise == Spec => KeepsPromise
<1>1. Init => PromiseInv /\ Promise!Init
  BY InitPromise DEF Init, Promise!Init
<1>2. PromiseInv /\ [Next]_vars => PromiseInv'
  BY PromiseInvariant
<1>3. PromiseInv /\ PromiseInv' /\ [Next]_vars
        => [Promise!Grows \/ Promise!HandsOver]_<<shown, Result>>
  <2> SUFFICES ASSUME PromiseInv, PromiseInv', [Next]_vars
               PROVE  [Promise!Grows \/ Promise!HandsOver]_<<shown, Result>>
    OBVIOUS
  <2>1. CASE SourcesChange
    BY <2>1, ChangeMaps
  <2>2. CASE RequestFails
    <3>1. UNCHANGED shown /\ phase # "done"
      BY <2>2, Phases DEF RequestFails, GetFails, history
    <3> QED
      BY <3>1, RequestMaps
  <2>3. CASE RequestSucceeds
    <3>1. UNCHANGED shown
      BY <2>3 DEF RequestSucceeds, history
    <3>2. phase # "done"
      BY <2>3, Phases
         DEF RequestSucceeds, ReadTags, ReadPassWall, ReadLandscape, ReadKey, ReadSums,
             ReadFeed, ReadToken, ReadManifest, ReadChild, ReadConfig, Download, Asks
    <3> QED
      BY <3>1, <3>2, RequestMaps
  <2>4. CASE UNCHANGED vars
    BY <2>4 DEF vars, state, history, Result
  <2> QED
    BY <2>1, <2>2, <2>3, <2>4 DEF Next
<1> QED
  BY <1>1, <1>2, <1>3, PTL DEF Spec, KeepsPromise, Promise!Spec, Result

-----------------------------------------------------------------------------
(* The reason to build, and the newest tag.                                *)

\* Why a check that builds does so.
Reason ==
  \/ force
  \/ \E l \in label : l.digest # Promise!Digest(base, chosen)
  \/ refusal = 404
  \/ first /\ refusal \in {401, 403}

ReasonInv == phase \in {"download", "done"} /\ build => Reason

\* A failure that is taken for a missing image is an answer of the registry.
LEMMA NoImageRefused ==
  ASSUME RequestFails, NEW status, NEW after, GetFails(status, after),
         status \in Hiccups \union Refusals,
         NoImage(RaisedStatus(status))
  PROVE  refusal' = RaisedStatus(status)
<1>1. RaisedStatus(status) \in {401, 403, 404}
  BY DEF NoImage
<1>2. status = RaisedStatus(status)
  BY <1>1 DEF RaisedStatus, NoStatus
<1>3. status \notin Hiccups
  BY <1>1, <1>2, FaultsAssumption DEF RetryStatus, NoStatus
<1> QED
  BY <1>3 DEF GetFails

\* A failure that is waited out is no refusal.
LEMMA WaitedOut ==
  ASSUME NEW status \in Hiccups \union Refusals,
         NEW after, after = {} \/ (\E seconds \in RetryAfter : after = {seconds}),
         GetFails(status, after), Retries(status, after)
  PROVE  UNCHANGED refusal
<1>1. status \in Hiccups
  BY FaultsAssumption DEF Retries, Transient
<1>2. after \subseteq Nat
  <2>1. ASSUME NEW seconds \in RetryAfter, after = {seconds}
        PROVE  after \subseteq Nat
    <3>1. (CHOOSE s \in after : TRUE) = seconds
      BY <2>1
    <3>2. RetryDelay(attempt, after) = AtMost(seconds, 60)
      BY <2>1, <3>1 DEF RetryDelay
    <3>3. seconds \in Int
      BY FaultsAssumption
    <3>4. seconds >= 0
      BY <3>2, <3>3 DEF Retries, AtMost
    <3> QED
      BY <2>1, <3>3, <3>4
  <2> QED
    BY <2>1
<1> QED
  BY <1>1, <1>2 DEF GetFails

\* A failed attempt leads to a build for one of the reasons only.
LEMMA FailureReason ==
  ASSUME PromiseInv, ReasonInv, RequestFails
  PROVE  ReasonInv'
<1>1. PICK status \in Hiccups \union Refusals, after \in {{}} \union {{s} : s \in RetryAfter} :
        GetFails(status, after)
  BY Zenon DEF RequestFails
<1>2. UNCHANGED <<force, first>> /\ UNCHANGED <<base, chosen, label, build>>
  BY <1>1 DEF GetFails, Raise, GivesUp, state
<1>3. UNCHANGED Promise!Digest(base, chosen)
  BY <1>2 DEF Promise!Digest
<1>4. CASE Retries(status, after)
  <2>1. UNCHANGED <<phase, refusal>>
    BY <1>1, <1>4, WaitedOut DEF GetFails
  <2> QED
    BY <1>2, <1>3, <2>1 DEF ReasonInv, Reason
<1>5. CASE ~Retries(status, after) /\ phase = "compare" /\ NoImage(RaisedStatus(status))
  <2>1. refusal' = RaisedStatus(status)
    BY <1>1, <1>5, NoImageRefused
  <2> QED
    BY <1>2, <1>5, <2>1 DEF ReasonInv, Reason, NoImage
<1>6. CASE ~Retries(status, after) /\ ~(phase = "compare" /\ NoImage(RaisedStatus(status)))
  <2>1. phase' = "failed"
    BY <1>1, <1>6 DEF GetFails, Raise, GivesUp, Enter
  <2> QED
    BY <2>1 DEF ReasonInv
<1> QED
  BY <1>4, <1>5, <1>6

\* An answer leads to a build for one of the reasons only.
LEMMA AnswerReason ==
  ASSUME PromiseInv, ReasonInv, RequestSucceeds
  PROVE  ReasonInv'
<1>1. TypeInv /\ phase \in DOMAIN Requests /\ UNCHANGED <<force, first, refusal>>
  BY DEF PromiseInv, TypeInv, TypeOK, RequestSucceeds, faults
<1>2. GivesUp => ReasonInv'
  BY DEF GivesUp, Enter, ReasonInv
<1>3. phase' \notin {"download", "done"} => ReasonInv'
  BY DEF ReasonInv
<1>4. ASSUME Answered, phase = "resolve", step \in DOMAIN Requests[phase]
      PROVE  ReasonInv'
  BY <1>1, <1>3, <1>4, AnsweredNext
<1>5. CASE ReadTags
  BY <1>1, <1>3, <1>4, <1>5, Places DEF ReadTags, Asks, Enter
<1>6. CASE ReadPassWall \/ ReadLandscape \/ ReadKey
  BY <1>1, <1>2, <1>4, <1>6, Places DEF ReadPassWall, ReadLandscape, ReadKey, Asks
<1>7. ASSUME NEW a \in Arches, ReadSums(a) \/ ReadFeed(a)
      PROVE  ReasonInv'
  BY <1>1, <1>2, <1>4, <1>7, Places DEF ReadSums, ReadFeed, Asks
<1>8. CASE ReadToken
  <2>1. phase = "compare" /\ step = 1 /\ step \in DOMAIN Requests[phase] /\ Answered
    BY <1>1, <1>8, Places DEF ReadToken, Asks
  <2> QED
    BY <1>1, <1>3, <2>1, AnsweredNext
<1>9. CASE ReadManifest
  <2>1. phase = "compare"
    BY <1>1, <1>9, Places DEF ReadManifest
  <2> QED
    BY <1>2, <1>3, <1>9, <2>1 DEF ReadManifest
<1>10. CASE ReadChild
  <2>1. phase = "compare" /\ step = 3 /\ step \in DOMAIN Requests[phase] /\ Answered
    BY <1>1, <1>10, Places DEF ReadChild, Asks
  <2> QED
    BY <1>1, <1>3, <2>1, AnsweredNext
<1>11. CASE ReadConfig
  <2>1. phase = "compare" /\ step = 4
    BY <1>1, <1>11, Places DEF ReadConfig
  <2>2. label # {}
    BY <2>1 DEF PromiseInv, SkipInv
  <2>3. ASSUME build' = NeedsBuild, UNCHANGED <<base, chosen, label>>
        PROVE  ReasonInv'
    BY <1>1, <2>2, <2>3 DEF NeedsBuild, ReasonInv, Reason, Promise!Digest
  <2> QED
    BY <1>2, <1>11, <2>3 DEF ReadConfig, Lookup, state
<1>12. ASSUME NEW f \in File, Download(f)
       PROVE  ReasonInv'
  <2>1. phase = "download"
    BY <1>12 DEF Download
  <2>2. ASSUME UNCHANGED <<base, chosen, label, build>>
        PROVE  ReasonInv'
    BY <1>1, <2>1, <2>2 DEF ReasonInv, Reason, Promise!Digest
  <2> QED
    BY <1>2, <1>12, <2>2 DEF Download, state
<1> QED
  BY <1>5, <1>6, <1>7, <1>8, <1>9, <1>10, <1>11, <1>12 DEF RequestSucceeds

\* An image is built again only when that is asked for, when its inputs
\* changed, when the registry says that there is none, or when it refuses the
\* answer to a run that may build the first image (upstreams.py:401-403).
THEOREM NothingRebuiltNeedlessly == Spec => [](NoNeedlessBuild)
<1>1. Init => PromiseInv /\ ReasonInv
  BY InitPromise DEF Init, ReasonInv
<1>2. PromiseInv /\ ReasonInv /\ [Next]_vars => PromiseInv' /\ ReasonInv'
  <2>1. ASSUME PromiseInv, ReasonInv, SourcesChange
        PROVE  ReasonInv'
    <3>1. Untouched
      BY <2>1, ChangeGrows
    <3> QED
      BY <2>1, <3>1 DEF ReasonInv, Reason, Untouched, state, faults, Promise!Digest
  <2>2. ASSUME ReasonInv, UNCHANGED vars
        PROVE  ReasonInv'
    BY <2>2 DEF ReasonInv, Reason, vars, state, faults, Promise!Digest
  <2> QED
    BY <2>1, <2>2, PromiseInvariant, FailureReason, AnswerReason DEF Next
<1>3. ReasonInv => NoNeedlessBuild
  BY DEF ReasonInv, Reason, NoNeedlessBuild
<1> QED
  BY <1>1, <1>2, <1>3, PTL DEF Spec

-----------------------------------------------------------------------------
(* The pages of the tags.                                                  *)

\* The tags that were there at first are read, or on a page still to be read.
PagesInv ==
  phase = "resolve" /\ step = 1 /\ ~shrunk =>
    \A i \in DOMAIN InitTags :
      \/ InitTags[i] \in seen
      \/ \E k \in DOMAIN tags : tags[k] = InitTags[i] /\ (page - 1) * PageSize < k

FoundInv ==
  /\ phase = "resolve" /\ step = 1 => base = None
  /\ NewestTagFound

\* An item of the second of two lists that are joined.
LEMMA SecondPart ==
  ASSUME NEW S, NEW s \in Seq(S), NEW u \in Seq(S), NEW j \in 1..Len(u)
  PROVE  (s \o u)[Len(s) + j] = u[j]
<1>1. /\ Len(s) \in Nat /\ Len(u) \in Nat /\ j \in Nat /\ 1 <= j /\ j <= Len(u)
      /\ Len(s) + j \in 1..(Len(s) + Len(u)) /\ ~(Len(s) + j <= Len(s))
      /\ (Len(s) + j) - Len(s) = j
  OBVIOUS
<1> QED
  BY <1>1

\* A tag that is pushed moves others to higher places only.
LEMMA PushedPlaces ==
  ASSUME TypeInv, NEW t \in NewTags, TagPushed(t)
  PROVE  /\ Len(tags') = Len(tags) + 1
         /\ \A k \in DOMAIN tags :
              \E j \in DOMAIN tags' : tags'[j] = tags[k] /\ k <= j
<1> DEFINE n == Len(tags)
           i == Cardinality({k \in DOMAIN tags : tags[k].place > t.place})
<1>1. DOMAIN tags = 1..n /\ n \in Nat /\ tags \in Seq(Tag)
  BY DEF TypeInv, TypeOK
<1>2. i \in 0..n
  <2>1. IsFiniteSet(1..n) /\ Cardinality(1..n) = n
    <3>1. /\ IsFiniteSet(1..n)
          /\ Cardinality(1..n) = IF 1 > n THEN 0 ELSE n - 1 + 1
      <4>1. 1 \in Int /\ n \in Int
        BY <1>1
      <4> QED
        BY <4>1, FS_Interval
    <3> QED
      BY <1>1, <3>1
  <2>2. Cardinality({k \in DOMAIN tags : tags[k].place > t.place}) <= n
    BY <1>1, <2>1, FS_Subset
  <2>3. Cardinality({k \in DOMAIN tags : tags[k].place > t.place}) \in Nat
    BY <1>1, <2>1, FS_Subset, FS_CardinalityType
  <2> QED
    BY <1>1, <2>2, <2>3
<1>3. tags' = SubSeq(tags, 1, i) \o <<t>> \o SubSeq(tags, i + 1, n)
  BY DEF TagPushed
<1> DEFINE head == SubSeq(tags, 1, i)
           tail == SubSeq(tags, i + 1, n)
<1> HIDE DEF i, n
<1>4. /\ head \in Seq(Tag) /\ Len(head) = i /\ \A k \in 1..i : head[k] = tags[k]
      /\ tail \in Seq(Tag) /\ Len(tail) = n - i
      /\ \A k \in 1..(n - i) : tail[k] = tags[i + k]
  <2>1. i \in Int /\ 0 <= i /\ i <= n /\ n = Len(tags)
    BY <1>1, <1>2 DEF n
  <2>2. head \in Seq(Tag) /\ tail \in Seq(Tag)
    BY <1>1, <2>1
  <2>3. Len(head) = i
    BY <1>1, <2>1
  <2>4. \A k \in 1..i : head[k] = tags[k]
    BY <1>1, <2>1
  <2>5. Len(tail) = n - i
    <3>1. i + 1 \in Int /\ n \in Int /\ \A k \in (i + 1)..n : tags[k] \in Tag
      BY <1>1, <2>1
    <3>2. Len(tail) = IF i + 1 <= n THEN n - (i + 1) + 1 ELSE 0
      BY <3>1, SubSeqProperties
    <3> HIDE DEF tail
    <3>3. (IF i + 1 <= n THEN n - (i + 1) + 1 ELSE 0) = n - i
      <4>1. i \in Int /\ n \in Int /\ i <= n
        BY <1>1, <2>1
      <4> QED
        BY <4>1, SMT
    <3> QED
      BY <3>2, <3>3
  <2>6. \A k \in 1..(n - i) : tail[k] = tags[i + k]
    BY <1>1, <2>1
  <2> QED
    BY <2>2, <2>3, <2>4, <2>5, <2>6, Zenon
<1>5. t \in Tag /\ <<t>> \in Seq(Tag) /\ Len(<<t>>) = 1
  BY DEF Tag
<1> HIDE DEF head, tail
<1>6. /\ head \o <<t>> \in Seq(Tag) /\ Len(head \o <<t>>) = i + 1
      /\ \A k \in 1..i : (head \o <<t>>)[k] = tags[k]
  BY <1>2, <1>4, <1>5
<1>7. /\ Len(tags') = n + 1 /\ DOMAIN tags' = 1..(n + 1)
      /\ \A k \in 1..i : tags'[k] = tags[k]
      /\ \A k \in (i + 1)..n : tags'[k + 1] = tags[k]
  <2>1. tags' = (head \o <<t>>) \o tail
    BY <1>3 DEF head, tail
  <2>2. Len(tags') = n + 1 /\ DOMAIN tags' = 1..(n + 1)
    BY <1>1, <1>2, <1>4, <1>6, <2>1
  <2>3. \A k \in 1..i : tags'[k] = tags[k]
    BY <1>1, <1>2, <1>4, <1>6, <2>1
  <2>4. ASSUME NEW k \in (i + 1)..n
        PROVE  tags'[k + 1] = tags[k]
    <3>1. k - i \in 1..(n - i) /\ k + 1 = (i + 1) + (k - i) /\ i + (k - i) = k
      BY <1>1, <1>2
    <3>2. tags'[(i + 1) + (k - i)] = tail[k - i]
      <4>1. k - i \in 1..Len(tail)
        BY <1>4, <3>1
      <4>2. ((head \o <<t>>) \o tail)[Len(head \o <<t>>) + (k - i)] = tail[k - i]
        BY <1>4, <1>6, <4>1, SecondPart
      <4> QED
        BY <1>6, <2>1, <4>2
    <3>3. tail[k - i] = tags[i + (k - i)]
      BY <1>4, <3>1
    <3> QED
      BY <3>1, <3>2, <3>3
  <2> QED
    BY <2>2, <2>3, <2>4
<1>8. ASSUME NEW k \in DOMAIN tags
      PROVE  \E j \in DOMAIN tags' : tags'[j] = tags[k] /\ k <= j
  <2>1. CASE k \in 1..i
    <3>1. k \in DOMAIN tags' /\ tags'[k] = tags[k] /\ k <= k
      BY <1>1, <1>2, <1>7, <2>1
    <3> QED
      BY <3>1
  <2>2. CASE k \in (i + 1)..n
    <3>1. k + 1 \in DOMAIN tags' /\ tags'[k + 1] = tags[k] /\ k <= k + 1
      BY <1>1, <1>2, <1>7, <2>2
    <3> QED
      BY <3>1
  <2> QED
    BY <1>1, <1>2, <2>1, <2>2
<1> QED
  BY <1>7, <1>8 DEF n

\* No change but a withdrawn tag takes a tag out of the reader's way.
LEMMA ChangeKeepsPages ==
  ASSUME PromiseInv, PagesInv, FoundInv, SourcesChange
  PROVE  PagesInv' /\ FoundInv'
<1>1. UNCHANGED <<phase, step, page, seen, base>>
  BY ChangeGrows DEF Untouched, state
<1>2. CASE shrunk'
  BY <1>1, <1>2 DEF PagesInv, FoundInv, NewestTagFound
<1>3. CASE UNCHANGED <<tags, shrunk>>
  BY <1>1, <1>3 DEF PagesInv, FoundInv, NewestTagFound
<1>4. ASSUME NEW t \in NewTags, TagPushed(t)
      PROVE  PagesInv' /\ FoundInv'
  <2>1. /\ Len(tags') = Len(tags) + 1
        /\ \A k \in DOMAIN tags : \E j \in DOMAIN tags' : tags'[j] = tags[k] /\ k <= j
    BY <1>4, PushedPlaces DEF PromiseInv
  <2>2. UNCHANGED shrunk
    BY <1>4 DEF TagPushed
  <2>3. tags \in Seq(Tag) /\ tags' \in Seq(Tag)
        /\ page \in Nat /\ PageSize \in Nat /\ MaxPages \in Nat
    <3>1. TypeInv /\ TypeInv'
      BY ChangeTypes DEF PromiseInv
    <3> QED
      BY <3>1, PagesAssumption DEF TypeInv, TypeOK
  <2>4. PagesInv'
    <3> SUFFICES ASSUME phase = "resolve", step = 1, ~shrunk, NEW i \in DOMAIN InitTags,
                        InitTags[i] \notin seen
                 PROVE  \E j \in DOMAIN tags' :
                          tags'[j] = InitTags[i] /\ (page - 1) * PageSize < j
      BY <1>1, <2>2 DEF PagesInv
    <3>1. PICK k \in DOMAIN tags : tags[k] = InitTags[i] /\ (page - 1) * PageSize < k
      BY DEF PagesInv
    <3>2. PICK j \in DOMAIN tags' : tags'[j] = tags[k] /\ k <= j
      BY <2>1
    <3>3. (page - 1) * PageSize \in Int /\ k \in Int /\ j \in Int
      BY <2>3
    <3>4. (page - 1) * PageSize < j
      BY <3>1, <3>2, <3>3
    <3> QED
      BY <3>1, <3>2, <3>4
  <2>5. FoundInv'
    <3>1. PageSize * MaxPages \in Int /\ Len(tags) \in Int
      BY <2>3
    <3>2. Len(tags') <= PageSize * MaxPages => Len(tags) <= PageSize * MaxPages
      BY <2>1, <3>1
    <3> QED
      BY <1>1, <2>2, <3>2 DEF FoundInv, NewestTagFound
  <2> QED
    BY <2>4, <2>5
<1> QED
  BY <1>2, <1>3, <1>4
     DEF SourcesChange, TagWithdrawn, ReleaseEdited, FileChanged, ImageChanged

\* One page more is read.
LEMMA PageRead ==
  ASSUME PromiseInv, PagesInv, ReadTags, ~shrunk, NEW i \in DOMAIN InitTags
  PROVE  \/ InitTags[i] \in seen'
         \/ \E k \in DOMAIN tags : tags[k] = InitTags[i] /\ page * PageSize < k
<1>1. phase = "resolve" /\ step = 1
  BY Places DEF ReadTags, PromiseInv, TypeInv, TypeOK
<1>2. seen' = seen \union Page(page)
  BY DEF ReadTags
<1>3. CASE InitTags[i] \in seen
  BY <1>2, <1>3
<1>4. ASSUME NEW k \in DOMAIN tags, tags[k] = InitTags[i], (page - 1) * PageSize < k
      PROVE  \/ InitTags[i] \in seen'
             \/ page * PageSize < k
  <2>1. page * PageSize \in Int /\ k \in Int
    BY PagesAssumption DEF PromiseInv, TypeInv, TypeOK
  <2>2. k <= page * PageSize => tags[k] \in Page(page)
    BY <1>4 DEF Page
  <2> QED
    BY <1>2, <1>4, <2>1, <2>2
<1> QED
  BY <1>1, <1>3, <1>4 DEF PagesInv

\* After the last page nothing is left.
LEMMA AllRead ==
  ASSUME PromiseInv, PagesInv, ReadTags, ~shrunk, LastPage,
         Len(tags) <= PageSize * MaxPages, NEW i \in DOMAIN InitTags
  PROVE  InitTags[i] \in seen'
<1> SUFFICES ASSUME NEW k \in DOMAIN tags, page * PageSize < k
             PROVE  FALSE
  BY PageRead
<1>1. /\ page \in Int /\ PageSize \in Int /\ MaxPages \in Int /\ k \in Int /\ Len(tags) \in Int
      /\ k <= Len(tags)
  BY PagesAssumption DEF PromiseInv, TypeInv, TypeOK
<1>2. page * PageSize \in Int /\ PageSize * MaxPages = MaxPages * PageSize
  BY <1>1
<1>3. Len(tags) < page * PageSize \/ page = MaxPages
  BY DEF LastPage
<1> QED
  BY <1>1, <1>2, <1>3

\* The pages are read one by one, and the choice is made after the last.
LEMMA AnswerKeepsPages ==
  ASSUME PromiseInv, PagesInv, FoundInv, RequestSucceeds
  PROVE  PagesInv' /\ FoundInv'
<1>1. UNCHANGED <<tags, shrunk>>
  BY DEF RequestSucceeds, sources, history
<1>2. TypeInv /\ phase \in DOMAIN Requests
  BY DEF PromiseInv, TypeInv, TypeOK
<1>3. CASE ReadTags
  <2>1. phase = "resolve" /\ step = 1 /\ step \in DOMAIN Requests[phase] /\ base = None
    BY <1>2, <1>3, Places DEF ReadTags, Asks, FoundInv
  <2>2. CASE page' = page + 1 /\ UNCHANGED <<phase, step, base>>
    <3>1. page' - 1 = page
      BY <2>2, PagesAssumption DEF PromiseInv, TypeInv, TypeOK
    <3>2. PagesInv'
      BY <1>1, <1>3, <2>2, <3>1, PageRead DEF PagesInv
    <3>3. FoundInv'
      BY <2>1, <2>2 DEF FoundInv, NewestTagFound
    <3> QED
      BY <3>2, <3>3
  <2>3. ASSUME LastPage, NEW t \in NewestOf(seen'), base' = t, Answered
        PROVE  PagesInv' /\ FoundInv'
    <3>1. phase' = "resolve" /\ step' = 2
      BY <1>2, <2>1, <2>3, AnsweredNext
    <3>2. \A x \in seen' : x.version \in [1..3 -> 0..99]
      <4>1. seen' \subseteq Tag
        BY <1>3 DEF ReadTags, Page, PromiseInv, TypeInv, TypeOK
      <4> QED
        BY <4>1, VersionsAssumption
    <3>3. base' \in Promise!TopRanked(seen')
      BY <2>3, <3>2, NewestIsTop
    <3>4. ASSUME ~shrunk, Len(tags) <= PageSize * MaxPages, NEW i \in DOMAIN InitTags,
                 InitTags[i].kind = "stable"
          PROVE  Rank(InitTags[i].version) <= Rank(base'.version)
      <4>1. InitTags[i] \in seen'
        BY <1>3, <2>3, <3>4, AllRead
      <4> QED
        BY <3>3, <3>4, <4>1 DEF Promise!TopRanked, Promise!Rank, Rank
    <3>5. FoundInv'
      BY <1>1, <3>1, <3>4 DEF FoundInv, NewestTagFound
    <3> QED
      BY <3>1, <3>5 DEF PagesInv
  <2>4. CASE Enter("failed") /\ UNCHANGED <<page, state, label, build, kept>>
    BY <1>1, <2>4 DEF Enter, state, PagesInv, FoundInv, NewestTagFound
  <2> QED
    BY <1>3, <2>2, <2>3, <2>4 DEF ReadTags, state
<1>4. CASE ~ReadTags
  <2>1. UNCHANGED base /\ ~(phase' = "resolve" /\ step' = 1)
    <3>1. ASSUME GivesUp
          PROVE  UNCHANGED base /\ phase' # "resolve"
      BY <3>1 DEF GivesUp, Enter, state
    <3>2. ASSUME Answered, step \in DOMAIN Requests[phase]
          PROVE  ~(phase' = "resolve" /\ step' = 1)
      BY <1>2, <3>2, AnsweredNext, Phases
    <3>3. CASE ReadPassWall \/ ReadLandscape \/ ReadKey
                 \/ (\E a \in Arches : ReadSums(a) \/ ReadFeed(a))
      BY <3>1, <3>2, <3>3 DEF ReadPassWall, ReadLandscape, ReadKey, ReadSums, ReadFeed, Asks
    <3>4. CASE ReadToken \/ ReadChild \/ ReadConfig
      BY <3>1, <3>2, <3>4 DEF ReadToken, ReadChild, ReadConfig, Asks, Lookup, state
    <3>5. CASE ReadManifest
      <4>1. phase = "compare"
        BY <1>2, <3>5, Places DEF ReadManifest
      <4> QED
        BY <3>1, <3>5, <4>1 DEF ReadManifest, Lookup, state
    <3>6. ASSUME NEW f \in File, Download(f)
          PROVE  UNCHANGED base /\ ~(phase' = "resolve" /\ step' = 1)
      BY <3>1, <3>2, <3>6 DEF Download, Asks, state
    <3> QED
      BY <1>4, <3>3, <3>4, <3>5, <3>6 DEF RequestSucceeds
  <2> QED
    BY <1>1, <2>1 DEF PagesInv, FoundInv, NewestTagFound
<1> QED
  BY <1>3, <1>4

\* A failed attempt repeats the same page.
LEMMA FailureKeepsPages ==
  ASSUME PromiseInv, PagesInv, FoundInv, RequestFails
  PROVE  PagesInv' /\ FoundInv'
<1> SUFFICES ASSUME NEW status, NEW after, GetFails(status, after)
             PROVE  PagesInv' /\ FoundInv'
  BY DEF RequestFails
<1>1. UNCHANGED <<tags, shrunk, page, seen, base>>
  BY DEF GetFails, Raise, GivesUp, sources, history, state
<1>2. UNCHANGED <<phase, step>> \/ phase' \in {"download", "failed"}
  BY DEF GetFails, Raise, GivesUp, Enter
<1> QED
  BY <1>1, <1>2 DEF PagesInv, FoundInv, NewestTagFound

\* No stable tag that was there at first outranks the chosen one, unless a tag
\* is withdrawn, or there are more tags than pages for them.
THEOREM NewestTagIsFound == Spec => [](NewestTagFound)
<1>1. Init => PromiseInv /\ PagesInv /\ FoundInv
  <2> SUFFICES ASSUME Init
               PROVE  PagesInv /\ FoundInv
    BY InitPromise
  <2>1. tags = InitTags /\ page = 1 /\ base = None
    BY DEF Init
  <2>2. \A k \in DOMAIN tags : (page - 1) * PageSize < k
    BY <2>1, SourcesAssumption, PagesAssumption
  <2> QED
    BY <2>1, <2>2 DEF PagesInv, FoundInv, NewestTagFound
<1>2. PromiseInv /\ PagesInv /\ FoundInv /\ [Next]_vars
        => PromiseInv' /\ PagesInv' /\ FoundInv'
  <2>1. ASSUME PagesInv, FoundInv, UNCHANGED vars
        PROVE  PagesInv' /\ FoundInv'
    BY <2>1 DEF PagesInv, FoundInv, NewestTagFound, vars, sources, state, history
  <2> QED
    BY <2>1, PromiseInvariant, ChangeKeepsPages, AnswerKeepsPages, FailureKeepsPages DEF Next
<1>3. FoundInv => NewestTagFound
  BY DEF FoundInv
<1> QED
  BY <1>1, <1>2, <1>3, PTL DEF Spec
=============================================================================
