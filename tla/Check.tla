------------------------------- MODULE Check --------------------------------
(***************************************************************************)
(* The job check, scripts/upstreams.py: it reads tags, releases, checksums *)
(* and the feed (resolve), then the image under `latest` (compare), then   *)
(* downloads every file and verifies it (download).  Each GET is a step,   *)
(* and the upstreams, the CDNs and the package change in between.          *)
(*                                                                         *)
(* A content stands for its digest.  The edges of a CDN may serve several  *)
(* contents of one URL; no content is an answer 404.                       *)
(***************************************************************************)
EXTENDS Request, Versions

CONSTANTS
  None,
  PageSize, MaxPages,   \* tags per page, and the last page that is read
  MinVersion,           \* the first ImmortalWrt with APKs
  PinnedKey,            \* DEPENDENCY_KEY_SHA256
  NotElf,               \* contents that are no handler
  Revision,             \* of the checked-out source
  InitTags, InitReleases, InitFiles, InitImages,   \* what there is at first
  NewTags, NewReleases, NewFiles, NewImages,       \* what may come
  MaxChanges,           \* bound on the changes of all this
  Hiccups, Refusals,    \* statuses of failures that pass, and that stay
  RetryAfter            \* values of the header, in seconds

ASSUME PagesAssumption == PageSize \in Nat \ {0} /\ MaxPages \in Nat \ {0}
ASSUME ChangesAssumption == MaxChanges \in Nat

Repos == {"passwall", "landscape"}

Tag == {InitTags[i] : i \in DOMAIN InitTags} \union NewTags
Release == [repo \in Repos |->
  InitReleases[repo] \union {r.release : r \in {n \in NewReleases : n.repo = repo}}]

\* The pattern of an upstream's names fixes how many parts a version has.
ASSUME VersionsAssumption ==
  /\ \A t \in Tag : t.version \in [1..3 -> 0..99]
  /\ MinVersion \in [1..3 -> 0..99]
  /\ \A r \in Release["passwall"] : r.version \in [1..4 -> 0..99]
  /\ \A r \in Release["landscape"] : r.version \in [1..3 -> 0..99]

ASSUME SourcesAssumption ==
  /\ InitTags \in Seq(Tag) /\ None \notin Tag
  /\ InitReleases = [r \in Repos |-> InitReleases[r]]
  /\ \A r \in NewReleases : r.repo \in Repos
  /\ InitFiles = [u \in DOMAIN InitFiles |-> InitFiles[u]]

\* Failures that a request waits out, and failures that it does not.
ASSUME FaultsAssumption ==
  /\ Hiccups \subseteq {NoStatus} \union RetryStatus
  /\ Refusals \intersect ({NoStatus} \union RetryStatus) = {}
  /\ RetryAfter \subseteq Int
  /\ None \notin {NoStatus} \union Hiccups \union Refusals

Arches == {"amd64", "arm64"}
ArchFiles == {"rootfs", "dependency_feed", "handler"}
SharedFiles == {"passwall", "passwall_i18n", "dependency_key"}
File == (SharedFiles \X {"shared"}) \union (ArchFiles \X Arches)

VARIABLES
  tags, releases, files, image,     \* what the sources show now
  phase, step,                      \* the request that is made next
  force, first,                     \* --force, --first-build
  page, seen,                       \* the tags read so far
  base, chosen, sha,                \* upstream.json: tag, releases, digests
  label, build,                     \* the image that was read, if any, the decision
  kept,                             \* the files of build/ by content
  shown, shrunk, blips, refusal, changes   \* history

sources == <<tags, releases, files, image>>
state == <<base, chosen, sha>>
history == <<shown, shrunk, changes>>
faults == <<blips, refusal>>
vars == <<sources, phase, step, attempt, force, first, page, seen, state, label,
          build, kept, history, faults>>

Promise == INSTANCE CheckPromise WITH
  result <- IF phase = "done"
              THEN {[base |-> base, chosen |-> chosen, sha |-> sha, kept |-> kept,
                     build |-> build]}
              ELSE {}

UrlOf(f) == Promise!UrlOf(f, base, chosen)

\* What a GET of file f may be answered with; without an answer it is a 404.
Answers(f) == IF UrlOf(f) \in DOMAIN files THEN files[UrlOf(f)] ELSE {}

\* The requests of a phase, each a file or a question and where it belongs.
Requests ==
  [resolve |-> << <<"tags", "shared">>, <<"passwall", "shared">>,
     <<"landscape", "shared">>, <<"dependency_key", "shared">>,
     <<"sums", "amd64">>, <<"dependency_feed", "amd64">>,
     <<"sums", "arm64">>, <<"dependency_feed", "arm64">> >>,
   compare |-> << <<"token", "shared">>, <<"manifest", "shared">>,
     <<"child", "shared">>, <<"blob", "shared">> >>,
   download |-> << <<"passwall", "shared">>, <<"passwall_i18n", "shared">>,
     <<"dependency_key", "shared">>, <<"rootfs", "amd64">>,
     <<"dependency_feed", "amd64">>, <<"handler", "amd64">>, <<"rootfs", "arm64">>,
     <<"dependency_feed", "arm64">>, <<"handler", "arm64">> >>,
   done |-> <<>>,
   failed |-> <<>>]

After == [resolve |-> "compare", compare |-> "download", download |-> "done"]

Init ==
  /\ tags = InitTags /\ releases = InitReleases /\ files = InitFiles
  /\ image \in InitImages
  /\ phase = "resolve" /\ step = 1 /\ attempt = 0
  /\ force \in BOOLEAN /\ first \in BOOLEAN
  /\ page = 1 /\ seen = {}
  /\ base = None /\ chosen = [r \in Repos |-> None] /\ sha = [f \in File |-> None]
  /\ label = {} /\ build = TRUE
  /\ kept = [f \in File |-> None]
  /\ shown = [tags |-> {tags[i] : i \in DOMAIN tags},
              newest |-> [r \in Repos |-> Promise!TopRanked(releases[r])],
              files |-> files, images |-> {image}]
  /\ shrunk = FALSE /\ changes = 0
  /\ blips = 0 /\ refusal = None

-----------------------------------------------------------------------------
(* The sources change.                                                     *)

Change ==
  /\ changes < MaxChanges
  /\ changes' = changes + 1
  /\ shown' = [tags |-> shown.tags \union {tags'[i] : i \in DOMAIN tags'},
               newest |-> [r \in Repos |->
                 shown.newest[r] \union Promise!TopRanked(releases'[r])],
               files |-> [u \in DOMAIN files |-> shown.files[u] \union files'[u]],
               images |-> shown.images \union {image'}]
  /\ UNCHANGED <<phase, step, attempt, force, first, page, seen, state, label, build,
                 kept, faults>>

\* The list is in the descending order of the names, as texts.
TagPushed(t) ==
  LET i == Cardinality({k \in DOMAIN tags : tags[k].place > t.place})
  IN /\ \A k \in DOMAIN tags : tags[k] # t
     /\ tags' = SubSeq(tags, 1, i) \o <<t>> \o SubSeq(tags, i + 1, Len(tags))
     /\ UNCHANGED <<releases, files, image, shrunk>>
     /\ Change

TagWithdrawn(i) ==
  /\ tags' = SubSeq(tags, 1, i - 1) \o SubSeq(tags, i + 1, Len(tags))
  /\ shrunk' = TRUE
  /\ UNCHANGED <<releases, files, image>>
  /\ Change

\* A release is published, flagged, or given other assets.
ReleaseEdited(r) ==
  /\ r.release \notin releases[r.repo]
  /\ releases' = [releases EXCEPT ![r.repo] =
       {s \in @ : s.version # r.release.version} \union {r.release}]
  /\ UNCHANGED <<tags, files, image, shrunk>>
  /\ Change

\* The edges of a CDN take up a new content, one after the other.
FileChanged(u, contents) ==
  /\ files[u] # contents
  /\ files' = [files EXCEPT ![u] = contents]
  /\ UNCHANGED <<tags, releases, image, shrunk>>
  /\ Change

\* The owner of the package replaces or deletes the image.
ImageChanged(i) ==
  /\ image # i
  /\ image' = i
  /\ UNCHANGED <<tags, releases, files, shrunk>>
  /\ Change

SourcesChange ==
  \/ \E t \in NewTags : TagPushed(t)
  \/ \E i \in DOMAIN tags : TagWithdrawn(i)
  \/ \E r \in NewReleases : ReleaseEdited(r)
  \/ \E u \in DOMAIN NewFiles : \E contents \in NewFiles[u] : FileChanged(u, contents)
  \/ \E i \in NewImages : ImageChanged(i)

-----------------------------------------------------------------------------
(* The way through the requests.                                           *)

Asks(what, where) ==
  step \in DOMAIN Requests[phase] /\ Requests[phase][step] = <<what, where>>

Enter(p) == phase' = p /\ step' = 1 /\ NextGet

Answered ==
  IF step < Len(Requests[phase])
    THEN step' = step + 1 /\ NextGet /\ UNCHANGED phase
    ELSE Enter(After[phase])

\* An exception that nothing catches.
GivesUp ==
  /\ Enter("failed")
  /\ UNCHANGED <<page, seen, state, label, build, kept>>

-----------------------------------------------------------------------------
(* resolve                                                                 *)

Page(n) ==
  {tags[i] : i \in {k \in DOMAIN tags : (n - 1) * PageSize < k /\ k <= n * PageSize}}

\* A page that is not full, or the last one that it asks for.
LastPage == Len(tags) < page * PageSize \/ page = MaxPages

\* The tags page by page, then latest_stable_tag over all that was read.
ReadTags ==
  /\ Asks("tags", "shared")
  /\ LET all == seen \union Page(page)
     IN /\ seen' = all
        /\ \/ /\ ~LastPage
              /\ page' = page + 1 /\ NextGet
              /\ UNCHANGED <<phase, step, state, label, build, kept>>
           \/ /\ LastPage
              /\ \E t \in NewestOf(all) : ~Newer(MinVersion, t.version) /\ base' = t
              /\ Answered
              /\ UNCHANGED <<page, chosen, sha, label, build, kept>>
           \/ /\ LastPage
              /\ \A t \in NewestOf(all) : Newer(MinVersion, t.version)
              /\ Enter("failed")
              /\ UNCHANGED <<page, state, label, build, kept>>

\* The assets of the release that it takes the digests of.
PassWallFiles == {<<"passwall", "shared">>, <<"passwall_i18n", "shared">>}

PassWallFit(r) ==
  /\ \A f \in PassWallFiles : HasAsset(r, f)
  /\ \A f, g \in PassWallFiles : Asset(r, f).version = Asset(r, g).version

ReadPassWall ==
  /\ Asks("passwall", "shared") /\ phase = "resolve"
  /\ \/ \E r \in NewestOf(releases["passwall"]) :
          /\ PassWallFit(r)
          /\ chosen' = [chosen EXCEPT !["passwall"] = r]
          /\ sha' = [f \in File |-> IF f \in PassWallFiles THEN Asset(r, f).content ELSE sha[f]]
          /\ Answered
          /\ UNCHANGED <<page, seen, base, label, build, kept>>
     \/ /\ \A r \in NewestOf(releases["passwall"]) : ~PassWallFit(r)
        /\ GivesUp

ReadLandscape ==
  /\ Asks("landscape", "shared")
  /\ \/ \E r \in NewestOf(releases["landscape"]) :
          /\ chosen' = [chosen EXCEPT !["landscape"] = r]
          /\ Answered
          /\ UNCHANGED <<page, seen, base, sha, label, build, kept>>
     \/ NewestOf(releases["landscape"]) = {} /\ GivesUp

ReadKey ==
  /\ Asks("dependency_key", "shared") /\ phase = "resolve"
  /\ \E c \in Answers(<<"dependency_key", "shared">>) :
       IF c = PinnedKey
         THEN /\ sha' = [sha EXCEPT ![<<"dependency_key", "shared">>] = PinnedKey]
              /\ Answered
              /\ UNCHANGED <<page, seen, base, chosen, label, build, kept>>
         ELSE GivesUp

\* sha256sums: its content stands for the one line of the rootfs; None for
\* no such line, or several.
ReadSums(a) ==
  /\ Asks("sums", a)
  /\ \E c \in Answers(<<"sums", a>>) :
       IF c # None
         THEN /\ sha' = [sha EXCEPT ![<<"rootfs", a>>] = c]
              /\ Answered
              /\ UNCHANGED <<page, seen, base, chosen, label, build, kept>>
         ELSE GivesUp

\* The feed has no digest of its own, the one of this answer becomes its
\* digest; then the handler of the release is looked up.
ReadFeed(a) ==
  /\ Asks("dependency_feed", a) /\ phase = "resolve"
  /\ \E c \in Answers(<<"dependency_feed", a>>) :
       IF HasAsset(chosen["landscape"], <<"handler", a>>)
         THEN /\ sha' = [sha EXCEPT ![<<"dependency_feed", a>>] = c,
                   ![<<"handler", a>>] = Asset(chosen["landscape"], <<"handler", a>>).content]
              /\ Answered
              /\ UNCHANGED <<page, seen, base, chosen, label, build, kept>>
         ELSE GivesUp

-----------------------------------------------------------------------------
(* compare: Registry, platform_config("latest", "amd64")                   *)

Lookup == UNCHANGED <<page, seen, state, kept>>

ReadToken ==
  /\ Asks("token", "shared")
  /\ Answered
  /\ Lookup /\ UNCHANGED <<label, build>>

\* A single manifest is its own child, and read no further until its blob.
ReadManifest ==
  /\ Asks("manifest", "shared")
  /\ image # None
  /\ LET amd64 == {i \in DOMAIN image.arches : image.arches[i] = "amd64"}
     IN IF image.index /\ Cardinality(amd64) # 1
          THEN GivesUp
          ELSE /\ label' = {[digest |-> image.label, arches |-> image.arches,
                             index |-> image.index]}
               /\ step' = IF image.index THEN step + 1 ELSE step + 2
               /\ NextGet
               /\ Lookup /\ UNCHANGED <<phase, build>>

\* What is read by its digest is the same at any time, while it is there.
ReadChild ==
  /\ Asks("child", "shared")
  /\ image # None
  /\ Answered
  /\ Lookup /\ UNCHANGED <<label, build>>

\* args.force or not same_inputs
NeedsBuild == force \/ \A l \in label : l.digest # Promise!Digest(base, chosen)

ReadConfig ==
  /\ Asks("blob", "shared")
  /\ image # None
  /\ IF \E l \in label : ~l.index /\ l.arches # <<"amd64">>
       THEN GivesUp
       ELSE /\ build' = NeedsBuild
            /\ Answered
            /\ Lookup /\ UNCHANGED label

-----------------------------------------------------------------------------
(* download                                                                *)

\* Defective variant: the feed is not verified, it has no official digest.
VerifiedButFeed(f, c) == f[1] = "dependency_feed" \/ c = sha[f]

\* verify_digest
Verified(f, c) == c = sha[f]

Download(f) ==
  /\ Asks(f[1], f[2]) /\ phase = "download"
  /\ \E c \in Answers(f) :
       IF Verified(f, c) /\ (f[1] = "handler" => c \notin NotElf)
         THEN /\ kept' = [kept EXCEPT ![f] = c]
              /\ Answered
              /\ UNCHANGED <<page, seen, state, label, build>>
         ELSE GivesUp

-----------------------------------------------------------------------------
(* A GET fails.                                                            *)

\* Defective variant: any HTTP error is taken for a package without an image.
AnyError(status) == status # NoStatus

\* What main takes for a package without an image.
NoImage(status) == status = 404 \/ (first /\ status \in {401, 403})

Raise(status) ==
  IF phase = "compare" /\ NoImage(status)
    THEN Enter("download") /\ UNCHANGED <<page, seen, state, label, build, kept>>
    ELSE GivesUp

GetFails(status, after) ==
  /\ step \in DOMAIN Requests[phase]
  /\ IF Retries(status, after)
       THEN /\ CountAttempt
            /\ UNCHANGED <<phase, step, page, seen, state, label, build, kept>>
       ELSE Raise(RaisedStatus(status))
  /\ IF status \in Hiccups /\ after \subseteq Nat
       THEN blips' = AtMost(blips + 1, Attempts) /\ UNCHANGED refusal
       ELSE refusal' = RaisedStatus(status) /\ UNCHANGED blips
  /\ UNCHANGED <<sources, force, first, history>>

\* Retry-After comes with an HTTP status only.
RequestFails ==
  \/ \E status \in Hiccups \union Refusals : GetFails(status, {})
  \/ \E status \in Hiccups \ {NoStatus}, seconds \in RetryAfter : GetFails(status, {seconds})

-----------------------------------------------------------------------------
RequestSucceeds ==
  /\ \/ ReadTags \/ ReadPassWall \/ ReadLandscape \/ ReadKey
     \/ \E a \in Arches : ReadSums(a) \/ ReadFeed(a)
     \/ ReadToken \/ ReadManifest \/ ReadChild \/ ReadConfig
     \/ \E f \in File : Download(f)
  /\ UNCHANGED <<sources, force, first, history, faults>>

Next == SourcesChange \/ RequestFails \/ RequestSucceeds

Spec == Init /\ [][Next]_vars

\* Every GET ends, HTTP_TIMEOUT sees to it.
FairSpec == Spec /\ WF_vars(RequestFails \/ RequestSucceeds)

-----------------------------------------------------------------------------
\* Every variable has its type.
TypeOK ==
  /\ tags \in Seq(Tag) /\ seen \subseteq Tag /\ base \in Tag \union {None}
  /\ \A r \in Repos : releases[r] \subseteq Release[r]
  /\ \A r \in Repos : chosen[r] \in Release[r] \union {None}
  /\ DOMAIN files = DOMAIN InitFiles
  /\ image \in InitImages \union NewImages
  /\ phase \in DOMAIN Requests
  /\ phase \notin {"done", "failed"} => step \in DOMAIN Requests[phase]
  /\ attempt \in 0..(Attempts - 1)
  /\ page \in 1..MaxPages
  /\ build \in BOOLEAN /\ force \in BOOLEAN /\ first \in BOOLEAN /\ shrunk \in BOOLEAN
  /\ DOMAIN sha = File /\ DOMAIN kept = File
  /\ blips \in 0..Attempts /\ changes \in 0..MaxChanges

\* What passes does not end a check (upstreams.py: a single blip must not
\* sink a whole run): while the sources stand still and refuse nothing, it
\* takes as many failures as one GET has attempts, of sources that are
\* complete (CompleteSources).
BlipsSurvived ==
  phase = "failed" => blips >= Attempts \/ refusal # None \/ changes > 0

\* The tags that are read while nothing changes, n at most.
FirstTags(n) == {InitTags[i] : i \in {k \in DOMAIN InitTags : k <= n}}

\* What may be chosen of the releases that there are at first.
Choices ==
  {c \in [Repos -> InitReleases["passwall"] \union InitReleases["landscape"]] :
     \A r \in Repos : c[r] \in NewestOf(InitReleases[r])}

\* What is served of file f at first, of tag t and the releases of c.
Contents(f, t, c) ==
  LET url == Promise!UrlOf(f, t, c) IN IF url \in DOMAIN InitFiles THEN InitFiles[url] ELSE {}

\* Files are served as their digests say, and one content of each.
FitTogether(t, c) ==
  /\ \A f \in PassWallFiles : Contents(f, t, c) \subseteq {Asset(c["passwall"], f).content}
  /\ Contents(<<"dependency_key", "shared">>, t, c) \subseteq {PinnedKey}
  /\ \A a \in Arches :
       /\ HasAsset(c["landscape"], <<"handler", a>>)
       /\ Contents(<<"handler", a>>, t, c)
            \subseteq {Asset(c["landscape"], <<"handler", a>>).content} \ NotElf
       /\ None \notin Contents(<<"sums", a>>, t, c)
       /\ \A x \in Contents(<<"sums", a>>, t, c), y \in Contents(<<"rootfs", a>>, t, c) : x = y
       /\ \A x, y \in Contents(<<"dependency_feed", a>>, t, c) : x = y

\* Sources that a check can end well with, as they are at first; which files
\* there are is left open, for a missing one is a refusal.
CompleteSources ==
  LET list == FirstTags(MaxPages * PageSize)
  IN /\ NewestOf(list) # {} /\ \A t \in NewestOf(list) : ~Newer(MinVersion, t.version)
     /\ \A r \in Repos : NewestOf(InitReleases[r]) # {}
     /\ \A r \in NewestOf(InitReleases["passwall"]) : PassWallFit(r)
     /\ \A t \in NewestOf(list), c \in Choices : FitTogether(t, c)
     /\ \A i \in InitImages \ {None} :
          IF i.index THEN Cardinality({k \in DOMAIN i.arches : i.arches[k] = "amd64"}) = 1
                     ELSE i.arches = <<"amd64">>

\* The stable tag is found wherever the pages have it, also when tags come in
\* while they are read; only a withdrawn tag can move another one past the
\* reader, from a page not yet read to one that was.
NewestTagFound ==
  base # None /\ ~shrunk /\ Len(tags) <= PageSize * MaxPages =>
    \A i \in DOMAIN InitTags :
      InitTags[i].kind = "stable" => Rank(InitTags[i].version) <= Rank(base.version)

\* An image of these inputs is built again when that is asked for, when the
\* registry says that there is none (404), or when it denies the image (401,
\* 403) to a run that permits a first build: for no other failure to read it.
NoNeedlessBuild ==
  phase = "done" /\ build =>
    \/ force
    \/ \E l \in label : l.digest # Promise!Digest(base, chosen)
    \/ refusal = 404
    \/ first /\ refusal \in {401, 403}

\* A check that ends well hands over what CheckPromise says.
KeepsPromise == Promise!Spec

\* A check ends, also when an upstream fails for ever.
CheckEnds == <>(phase \in {"done", "failed"})
=============================================================================
