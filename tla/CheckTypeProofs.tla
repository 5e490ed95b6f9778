-------------------------- MODULE CheckTypeProofs ---------------------------
(***************************************************************************)
(* The order of versions, the requests of the job check, and its types.    *)
(***************************************************************************)
EXTENDS Check, FiniteSetTheorems, TLAPS

\* Four parts: a version that is not newer has no higher rank.
LEMMA RankOfFour ==
  ASSUME NEW v \in [1..4 -> 0..99], NEW w \in [1..4 -> 0..99], ~Newer(w, v)
  PROVE  Rank(w) <= Rank(v)
<1>1. DOMAIN v \intersect DOMAIN w = 1..4
  OBVIOUS
<1>2. PICK a1 \in 0..99, a2 \in 0..99, a3 \in 0..99, a4 \in 0..99 :
        a1 = w[1] /\ a2 = w[2] /\ a3 = w[3] /\ a4 = w[4]
  <2>1. w[1] \in 0..99 /\ w[2] \in 0..99 /\ w[3] \in 0..99 /\ w[4] \in 0..99
    OBVIOUS
  <2> QED
    BY <2>1, Zenon
<1>3. PICK b1 \in 0..99, b2 \in 0..99, b3 \in 0..99, b4 \in 0..99 :
        b1 = v[1] /\ b2 = v[2] /\ b3 = v[3] /\ b4 = v[4]
  <2>1. v[1] \in 0..99 /\ v[2] \in 0..99 /\ v[3] \in 0..99 /\ v[4] \in 0..99
    OBVIOUS
  <2> QED
    BY <2>1, Zenon
<1>4. ASSUME NEW i \in 1..4, \A j \in 1..(i - 1) : w[j] = v[j]
      PROVE  w[i] <= v[i]
  <2>1. ~Larger(w[i], v[i])
    BY <1>1, <1>4 DEF Newer
  <2>2. w[i] \in Int /\ v[i] \in Int
    OBVIOUS
  <2> QED
    BY <2>1, <2>2 DEF Larger
<1>5. a1 <= b1
  BY <1>2, <1>3, <1>4
<1>6. ASSUME a1 = b1
      PROVE  a2 <= b2
  <2>1. \A j \in 1..(2 - 1) : j = 1
    OBVIOUS
  <2>2. \A j \in 1..(2 - 1) : w[j] = v[j]
    BY <1>2, <1>3, <1>6, <2>1, Zenon
  <2>3. 2 \in 1..4
    OBVIOUS
  <2>4. w[2] <= v[2]
    BY <1>4, <2>2, <2>3
  <2> QED
    BY <1>2, <1>3, <2>4
<1>7. ASSUME a1 = b1 /\ a2 = b2
      PROVE  a3 <= b3
  <2>1. \A j \in 1..(3 - 1) : j = 1 \/ j = 2
    OBVIOUS
  <2>2. \A j \in 1..(3 - 1) : w[j] = v[j]
    BY <1>2, <1>3, <1>7, <2>1, Zenon
  <2>3. 3 \in 1..4
    OBVIOUS
  <2>4. w[3] <= v[3]
    BY <1>4, <2>2, <2>3
  <2> QED
    BY <1>2, <1>3, <2>4
<1>8. ASSUME a1 = b1 /\ a2 = b2 /\ a3 = b3
      PROVE  a4 <= b4
  <2>1. \A j \in 1..(4 - 1) : j = 1 \/ j = 2 \/ j = 3
    OBVIOUS
  <2>2. \A j \in 1..(4 - 1) : w[j] = v[j]
    <3>1. w[1] = v[1] /\ w[2] = v[2] /\ w[3] = v[3]
      BY <1>2, <1>3, <1>8, Zenon
    <3> QED
      BY <2>1, <3>1, Zenon
  <2>3. 4 \in 1..4
    OBVIOUS
  <2>4. w[4] <= v[4]
    BY <1>4, <2>2, <2>3
  <2> QED
    BY <1>2, <1>3, <2>4
<1>9. DOMAIN v = 1..4 /\ DOMAIN w = 1..4
  OBVIOUS
<1>10. /\ Rank(w) = 100 * (100 * (100 * a1 + a2) + a3) + a4
      /\ Rank(v) = 100 * (100 * (100 * b1 + b2) + b3) + b4
  BY <1>2, <1>3, <1>9, Zenon DEF Rank
<1>11. 100 * (100 * (100 * a1 + a2) + a3) + a4
        <= 100 * (100 * (100 * b1 + b2) + b3) + b4
  BY <1>5, <1>6, <1>7, <1>8, SMT
<1> QED
  BY <1>10, <1>11

\* The same for three parts.
LEMMA RankOfThree ==
  ASSUME NEW v \in [1..3 -> 0..99], NEW w \in [1..3 -> 0..99], ~Newer(w, v)
  PROVE  Rank(w) <= Rank(v)
<1>1. DOMAIN v \intersect DOMAIN w = 1..3
  OBVIOUS
<1>2. PICK a1 \in 0..99, a2 \in 0..99, a3 \in 0..99 :
        a1 = w[1] /\ a2 = w[2] /\ a3 = w[3]
  <2>1. w[1] \in 0..99 /\ w[2] \in 0..99 /\ w[3] \in 0..99
    OBVIOUS
  <2> QED
    BY <2>1, Zenon
<1>3. PICK b1 \in 0..99, b2 \in 0..99, b3 \in 0..99 :
        b1 = v[1] /\ b2 = v[2] /\ b3 = v[3]
  <2>1. v[1] \in 0..99 /\ v[2] \in 0..99 /\ v[3] \in 0..99
    OBVIOUS
  <2> QED
    BY <2>1, Zenon
<1>4. ASSUME NEW i \in 1..3, \A j \in 1..(i - 1) : w[j] = v[j]
      PROVE  w[i] <= v[i]
  <2>1. ~Larger(w[i], v[i])
    BY <1>1, <1>4 DEF Newer
  <2>2. w[i] \in Int /\ v[i] \in Int
    OBVIOUS
  <2> QED
    BY <2>1, <2>2 DEF Larger
<1>5. a1 <= b1
  BY <1>2, <1>3, <1>4
<1>6. ASSUME a1 = b1
      PROVE  a2 <= b2
  <2>1. \A j \in 1..(2 - 1) : j = 1
    OBVIOUS
  <2>2. \A j \in 1..(2 - 1) : w[j] = v[j]
    BY <1>2, <1>3, <1>6, <2>1, Zenon
  <2>3. 2 \in 1..3
    OBVIOUS
  <2>4. w[2] <= v[2]
    BY <1>4, <2>2, <2>3
  <2> QED
    BY <1>2, <1>3, <2>4
<1>7. ASSUME a1 = b1 /\ a2 = b2
      PROVE  a3 <= b3
  <2>1. \A j \in 1..(3 - 1) : j = 1 \/ j = 2
    OBVIOUS
  <2>2. \A j \in 1..(3 - 1) : w[j] = v[j]
    BY <1>2, <1>3, <1>7, <2>1, Zenon
  <2>3. 3 \in 1..3
    OBVIOUS
  <2>4. w[3] <= v[3]
    BY <1>4, <2>2, <2>3
  <2> QED
    BY <1>2, <1>3, <2>4
<1>8. DOMAIN v # 1..4 /\ DOMAIN w # 1..4
  <2>1. 4 \in 1..4 /\ 4 \notin 1..3
    OBVIOUS
  <2> QED
    BY <2>1
<1>9. /\ Rank(w) = 100 * (100 * (100 * a1 + a2) + a3) + 0
      /\ Rank(v) = 100 * (100 * (100 * b1 + b2) + b3) + 0
  BY <1>2, <1>3, <1>8, Zenon DEF Rank
<1>10. 100 * (100 * (100 * a1 + a2) + a3) + 0
        <= 100 * (100 * (100 * b1 + b2) + b3) + 0
  BY <1>5, <1>6, <1>7, SMT
<1> QED
  BY <1>9, <1>10

\* What the code picks from a list of releases or tags is of the highest rank.
LEMMA NewestIsTop ==
  ASSUME NEW list,
         \/ \A x \in list : x.version \in [1..3 -> 0..99]
         \/ \A x \in list : x.version \in [1..4 -> 0..99]
  PROVE  NewestOf(list) \subseteq Promise!TopRanked(list)
<1> SUFFICES ASSUME NEW x \in NewestOf(list)
             PROVE  x \in Promise!TopRanked(list)
  OBVIOUS
<1>1. x \in list /\ x.kind = "stable"
  BY DEF NewestOf, IsNewest, Stable
<1>2. ASSUME NEW y \in list, y.kind = "stable"
      PROVE  Rank(y.version) <= Rank(x.version)
  <2>1. ~Newer(y.version, x.version)
    BY <1>2 DEF NewestOf, IsNewest, Stable
  <2> QED
    BY <1>1, <2>1, RankOfThree, RankOfFour
<1> QED
  BY <1>1, <1>2 DEF Promise!TopRanked, Promise!Rank, Rank

-----------------------------------------------------------------------------
(* Where a request belongs.                                                *)

\* A question is asked at one place, the files of an architecture at two.
LEMMA Places ==
  ASSUME phase \in DOMAIN Requests
  PROVE  /\ Asks("tags", "shared") => phase = "resolve" /\ step = 1
         /\ Asks("passwall", "shared") /\ phase = "resolve" => step = 2
         /\ Asks("landscape", "shared") => phase = "resolve" /\ step = 3
         /\ Asks("dependency_key", "shared") /\ phase = "resolve" => step = 4
         /\ \A a \in Arches : Asks("sums", a) => phase = "resolve" /\ step \in {5, 7}
         /\ \A a \in Arches :
              Asks("dependency_feed", a) /\ phase = "resolve" => step \in {6, 8}
         /\ Asks("token", "shared") => phase = "compare" /\ step = 1
         /\ Asks("manifest", "shared") => phase = "compare" /\ step = 2
         /\ Asks("child", "shared") => phase = "compare" /\ step = 3
         /\ Asks("blob", "shared") => phase = "compare" /\ step = 4
<1>1. CASE phase = "resolve"
  <2>1. Requests[phase] = << <<"tags", "shared">>, <<"passwall", "shared">>,
          <<"landscape", "shared">>, <<"dependency_key", "shared">>,
          <<"sums", "amd64">>, <<"dependency_feed", "amd64">>,
          <<"sums", "arm64">>, <<"dependency_feed", "arm64">> >>
    BY <1>1 DEF Requests
  <2>2. step \in DOMAIN Requests[phase] => step \in 1..8
    BY <2>1
  <2> QED
    BY <1>1, <2>1, <2>2 DEF Asks, Arches
<1>2. CASE phase = "compare"
  <2>1. Requests[phase] = << <<"token", "shared">>, <<"manifest", "shared">>,
          <<"child", "shared">>, <<"blob", "shared">> >>
    BY <1>2 DEF Requests
  <2>2. step \in DOMAIN Requests[phase] => step \in 1..4
    BY <2>1
  <2> QED
    BY <1>2, <2>1, <2>2 DEF Asks, Arches
<1>3. CASE phase = "download"
  <2>1. Requests[phase] = << <<"passwall", "shared">>, <<"passwall_i18n", "shared">>,
          <<"dependency_key", "shared">>, <<"rootfs", "amd64">>,
          <<"dependency_feed", "amd64">>, <<"handler", "amd64">>, <<"rootfs", "arm64">>,
          <<"dependency_feed", "arm64">>, <<"handler", "arm64">> >>
    BY <1>3 DEF Requests
  <2>2. step \in DOMAIN Requests[phase] => step \in 1..9
    BY <2>1
  <2> QED
    BY <1>3, <2>1, <2>2 DEF Asks, Arches
<1>4. CASE phase \in {"done", "failed"}
  <2>1. DOMAIN Requests[phase] = {}
    BY <1>4 DEF Requests
  <2> QED
    BY <2>1 DEF Asks
<1>5. phase \in {"resolve", "compare", "download", "done", "failed"}
  BY DEF Requests
<1> QED
  BY <1>1, <1>2, <1>3, <1>4, <1>5

\* The phases and how many requests they have.
LEMMA Phases ==
  /\ DOMAIN Requests = {"resolve", "compare", "download", "done", "failed"}
  /\ DOMAIN Requests["resolve"] = 1..8 /\ Len(Requests["resolve"]) = 8
  /\ DOMAIN Requests["compare"] = 1..4 /\ Len(Requests["compare"]) = 4
  /\ DOMAIN Requests["download"] = 1..9 /\ Len(Requests["download"]) = 9
  /\ DOMAIN Requests["done"] = {} /\ DOMAIN Requests["failed"] = {}
<1>1. DOMAIN Requests = {"resolve", "compare", "download", "done", "failed"}
  BY DEF Requests
<1>2. DOMAIN Requests["resolve"] = 1..8 /\ Len(Requests["resolve"]) = 8
  BY DEF Requests
<1>3. DOMAIN Requests["compare"] = 1..4 /\ Len(Requests["compare"]) = 4
  BY DEF Requests
<1>4. DOMAIN Requests["download"] = 1..9 /\ Len(Requests["download"]) = 9
  BY DEF Requests
<1>5. DOMAIN Requests["done"] = {} /\ DOMAIN Requests["failed"] = {}
  BY DEF Requests
<1> QED
  BY <1>1, <1>2, <1>3, <1>4, <1>5

\* Every file is downloaded.
LEMMA EveryFile ==
  /\ \A f \in File : \E k \in 1..9 : Requests["download"][k] = f
  /\ \A k \in 1..9 : Requests["download"][k] \in File
<1>1. Requests["download"] = << <<"passwall", "shared">>, <<"passwall_i18n", "shared">>,
          <<"dependency_key", "shared">>, <<"rootfs", "amd64">>,
          <<"dependency_feed", "amd64">>, <<"handler", "amd64">>, <<"rootfs", "arm64">>,
          <<"dependency_feed", "arm64">>, <<"handler", "arm64">> >>
  BY DEF Requests
<1>2. ASSUME NEW f \in File
      PROVE  f \in { <<"passwall", "shared">>, <<"passwall_i18n", "shared">>,
          <<"dependency_key", "shared">>, <<"rootfs", "amd64">>,
          <<"dependency_feed", "amd64">>, <<"handler", "amd64">>, <<"rootfs", "arm64">>,
          <<"dependency_feed", "arm64">>, <<"handler", "arm64">> }
  BY DEF File, SharedFiles, ArchFiles, Arches
<1>3. 1 \in 1..9 /\ 2 \in 1..9 /\ 3 \in 1..9 /\ 4 \in 1..9 /\ 5 \in 1..9 /\ 6 \in 1..9
      /\ 7 \in 1..9 /\ 8 \in 1..9 /\ 9 \in 1..9
  OBVIOUS
<1>4. \A f \in File : \E k \in 1..9 : Requests["download"][k] = f
  BY <1>1, <1>2, <1>3
<1>5. \A k \in 1..9 : Requests["download"][k] \in File
  BY <1>1 DEF File, SharedFiles, ArchFiles, Arches
<1> QED
  BY <1>4, <1>5

-----------------------------------------------------------------------------
(* Types.                                                                  *)

Functions ==
  /\ releases = [r \in Repos |-> releases[r]]
  /\ files = [u \in DOMAIN InitFiles |-> files[u]]
  /\ chosen = [r \in Repos |-> chosen[r]]
  /\ sha = [f \in File |-> sha[f]]
  /\ kept = [f \in File |-> kept[f]]

TypeInv == TypeOK /\ Functions

\* Where the check is.
PlaceOK ==
  /\ phase \in DOMAIN Requests
  /\ phase \notin {"done", "failed"} => step \in DOMAIN Requests[phase]
  /\ attempt \in 0..(Attempts - 1)

\* What it has read.
ReadOK ==
  /\ seen \subseteq Tag /\ base \in Tag \union {None}
  /\ chosen = [r \in Repos |-> chosen[r]]
  /\ \A r \in Repos : chosen[r] \in Release[r] \union {None}
  /\ page \in 1..MaxPages
  /\ build \in BOOLEAN
  /\ sha = [f \in File |-> sha[f]] /\ kept = [f \in File |-> kept[f]]

\* A phase begins with its first request.
LEMMA EnterPlace ==
  ASSUME NEW p \in DOMAIN Requests, Enter(p)
  PROVE  PlaceOK'
<1>1. 0 \in 0..(Attempts - 1)
  BY AttemptsAssumption
<1>2. phase' \notin {"done", "failed"} => step' \in DOMAIN Requests[phase']
  BY Phases DEF Enter
<1> QED
  BY <1>1, <1>2 DEF PlaceOK, Enter, NextGet

\* An answer leads to the next request, or to the next phase.
LEMMA AnsweredPlace ==
  ASSUME PlaceOK, step \in DOMAIN Requests[phase], Answered
  PROVE  PlaceOK'
<1>1. phase \in {"resolve", "compare", "download"}
  BY Phases DEF PlaceOK
<1>2. CASE step < Len(Requests[phase])
  <2>1. step' = step + 1 /\ attempt' = 0 /\ phase' = phase
    BY <1>2 DEF Answered, NextGet
  <2>2. step + 1 \in DOMAIN Requests[phase]
    BY <1>1, <1>2, Phases
  <2> QED
    BY <2>1, <2>2, AttemptsAssumption DEF PlaceOK
<1>3. CASE ~(step < Len(Requests[phase]))
  <2>1. Enter(After[phase])
    BY <1>3 DEF Answered
  <2>2. After[phase] \in DOMAIN Requests
    BY <1>1, Phases DEF After
  <2> QED
    BY <2>1, <2>2, EnterPlace
<1> QED
  BY <1>2, <1>3

\* What a source shows after a change is of the types.
LEMMA ChangeTypes ==
  ASSUME TypeInv, SourcesChange
  PROVE  TypeInv'
<1> USE DEF TypeInv
<1>1. /\ UNCHANGED <<phase, step, attempt, force, first, page, seen, state, label, build,
                     kept, faults>>
      /\ changes' \in 0..MaxChanges
  <2>1. Change
    BY DEF SourcesChange, TagPushed, TagWithdrawn, ReleaseEdited, FileChanged, ImageChanged
  <2>2. changes' \in 0..MaxChanges
    BY <2>1, ChangesAssumption DEF Change, TypeOK
  <2> QED
    BY <2>1, <2>2 DEF Change
<1>2. ASSUME NEW t \in NewTags, TagPushed(t)
      PROVE  TypeInv'
  <2>1. tags' \in Seq(Tag)
    <3> DEFINE i == Cardinality({k \in DOMAIN tags : tags[k].place > t.place})
    <3>1. i \in 0..Len(tags)
      <4>1. DOMAIN tags = 1..Len(tags) /\ Len(tags) \in Nat
        BY DEF TypeOK
      <4>2. IsFiniteSet(1..Len(tags)) /\ Cardinality(1..Len(tags)) = Len(tags)
        <5>1. /\ IsFiniteSet(1..Len(tags))
              /\ Cardinality(1..Len(tags)) = IF 1 > Len(tags) THEN 0 ELSE Len(tags) - 1 + 1
          <6>1. 1 \in Int /\ Len(tags) \in Int
            BY <4>1
          <6> QED
            BY <6>1, FS_Interval
        <5> QED
          BY <4>1, <5>1
      <4>3. Cardinality({k \in DOMAIN tags : tags[k].place > t.place}) <= Len(tags)
        BY <4>1, <4>2, FS_Subset
      <4>4. Cardinality({k \in DOMAIN tags : tags[k].place > t.place}) \in Nat
        BY <4>1, <4>2, FS_Subset, FS_CardinalityType
      <4> QED
        BY <4>1, <4>3, <4>4
    <3>2. t \in Tag
      BY DEF Tag
    <3>3. tags' = SubSeq(tags, 1, i) \o <<t>> \o SubSeq(tags, i + 1, Len(tags))
      BY <1>2 DEF TagPushed
    <3> HIDE DEF i
    <3>4. SubSeq(tags, 1, i) \in Seq(Tag) /\ SubSeq(tags, i + 1, Len(tags)) \in Seq(Tag)
      BY <3>1 DEF TypeOK
    <3> QED
      BY <3>2, <3>3, <3>4
  <2>2. UNCHANGED <<releases, files, image, shrunk>>
    BY <1>2 DEF TagPushed
  <2> QED
    BY <1>1, <2>1, <2>2 DEF TypeOK, Functions, state, faults
<1>3. ASSUME NEW i \in DOMAIN tags, TagWithdrawn(i)
      PROVE  TypeInv'
  <2>1. tags' \in Seq(Tag)
    <3>1. i \in 1..Len(tags) /\ Len(tags) \in Nat
      BY DEF TypeOK
    <3>2. SubSeq(tags, 1, i - 1) \in Seq(Tag) /\ SubSeq(tags, i + 1, Len(tags)) \in Seq(Tag)
      BY <3>1 DEF TypeOK
    <3> QED
      BY <1>3, <3>2 DEF TagWithdrawn
  <2>2. UNCHANGED <<releases, files, image>> /\ shrunk' \in BOOLEAN
    BY <1>3 DEF TagWithdrawn
  <2> QED
    BY <1>1, <2>1, <2>2 DEF TypeOK, Functions, state, faults
<1>4. ASSUME NEW r \in NewReleases, ReleaseEdited(r)
      PROVE  TypeInv'
  <2>1. r.repo \in Repos /\ r.release \in Release[r.repo]
    BY SourcesAssumption DEF Release
  <2>2. releases' = [releases EXCEPT ![r.repo] =
           {s \in @ : s.version # r.release.version} \union {r.release}]
    BY <1>4 DEF ReleaseEdited
  <2>3. \A q \in Repos : releases'[q] \subseteq Release[q]
    BY <2>1, <2>2 DEF TypeOK, Functions
  <2>4. releases' = [q \in Repos |-> releases'[q]]
    BY <2>1, <2>2 DEF Functions
  <2>5. UNCHANGED <<tags, files, image, shrunk>>
    BY <1>4 DEF ReleaseEdited
  <2> QED
    BY <1>1, <2>3, <2>4, <2>5 DEF TypeOK, Functions, state, faults
<1>5. ASSUME NEW u \in DOMAIN NewFiles, NEW contents \in NewFiles[u], FileChanged(u, contents)
      PROVE  TypeInv'
  <2>1. files' = [files EXCEPT ![u] = contents] /\ UNCHANGED <<tags, releases, image, shrunk>>
    BY <1>5 DEF FileChanged
  <2>2. files' = [w \in DOMAIN InitFiles |-> files'[w]] /\ DOMAIN files' = DOMAIN InitFiles
    BY <2>1 DEF Functions
  <2> QED
    BY <1>1, <2>1, <2>2 DEF TypeOK, Functions, state, faults
<1>6. ASSUME NEW i \in NewImages, ImageChanged(i)
      PROVE  TypeInv'
  BY <1>1, <1>6 DEF TypeOK, Functions, state, faults, ImageChanged
<1> QED
  BY <1>2, <1>3, <1>4, <1>5, <1>6 DEF SourcesChange

\* What a failure leaves is of the types.
LEMMA FailureTypes ==
  ASSUME TypeInv, RequestFails
  PROVE  TypeInv'
<1> SUFFICES ASSUME NEW status, NEW after, GetFails(status, after)
             PROVE  TypeInv'
  BY DEF RequestFails
<1>1. /\ UNCHANGED <<sources, force, first, history>>
      /\ UNCHANGED <<page, seen, state, label, build, kept>>
  BY DEF GetFails, Raise, GivesUp
<1>2. PlaceOK
  BY DEF TypeInv, TypeOK, PlaceOK
<1>3. PlaceOK'
  <2>1. CASE Retries(status, after)
    <3>1. attempt' = attempt + 1 /\ UNCHANGED <<phase, step>> /\ attempt < Attempts - 1
      BY <2>1 DEF GetFails, CountAttempt, Retries
    <3> QED
      BY <1>2, <3>1, AttemptsAssumption DEF PlaceOK
  <2>2. CASE ~Retries(status, after)
    <3>1. Enter("download") \/ Enter("failed")
      BY <2>2 DEF GetFails, Raise, GivesUp
    <3> QED
      BY <3>1, EnterPlace, Phases
  <2> QED
    BY <2>1, <2>2
<1>4. blips' \in 0..Attempts
  BY AttemptsAssumption DEF GetFails, AtMost, TypeInv, TypeOK
<1> QED
  BY <1>1, <1>3, <1>4 DEF TypeInv, TypeOK, Functions, PlaceOK, sources, state, history

\* What is chosen is of the list.
LEMMA NewestInList ==
  ASSUME NEW list, NEW x \in NewestOf(list)
  PROVE  x \in list /\ x.kind = "stable"
  BY DEF NewestOf, IsNewest, Stable

\* Every answer leaves what is of the types.
LEMMA AnswerTypes ==
  ASSUME TypeInv, RequestSucceeds
  PROVE  TypeInv'
<1>1. PlaceOK /\ ReadOK
  BY DEF TypeInv, TypeOK, Functions, PlaceOK, ReadOK
<1>2. UNCHANGED <<sources, force, first, history, faults>>
  BY DEF RequestSucceeds
<1> SUFFICES PlaceOK' /\ ReadOK'
  BY <1>2 DEF TypeInv, TypeOK, Functions, PlaceOK, ReadOK, sources, history, faults
<1>3. ASSUME Enter("failed"), UNCHANGED <<page, state, label, build, kept>>, seen' \subseteq Tag
      PROVE  PlaceOK' /\ ReadOK'
  BY <1>1, <1>3, EnterPlace, Phases DEF ReadOK, state
<1>4. ASSUME GivesUp
      PROVE  PlaceOK' /\ ReadOK'
  BY <1>1, <1>3, <1>4 DEF GivesUp, ReadOK
<1>5. CASE ReadTags
  <2>1. seen' \subseteq Tag
    BY <1>1, <1>5 DEF ReadTags, Page, TypeInv, TypeOK, ReadOK
  <2>2. CASE /\ ~LastPage
             /\ page' = page + 1 /\ NextGet
             /\ UNCHANGED <<phase, step, state, label, build, kept>>
    <3>1. page' \in 1..MaxPages
      BY <1>1, <2>2, PagesAssumption DEF LastPage, ReadOK
    <3> QED
      BY <1>1, <2>1, <2>2, <3>1, AttemptsAssumption DEF PlaceOK, ReadOK, NextGet, state
  <2>3. ASSUME NEW t \in NewestOf(seen'), base' = t, Answered,
               UNCHANGED <<page, chosen, sha, label, build, kept>>
        PROVE  PlaceOK' /\ ReadOK'
    <3>1. base' \in Tag
      BY <2>1, <2>3, NewestInList
    <3>2. PlaceOK'
      BY <1>1, <1>5, <2>3, AnsweredPlace DEF ReadTags, Asks
    <3> QED
      BY <1>1, <2>1, <2>3, <3>1, <3>2 DEF ReadOK
  <2>4. CASE Enter("failed") /\ UNCHANGED <<page, state, label, build, kept>>
    BY <1>3, <2>1, <2>4
  <2> QED
    BY <1>5, <2>2, <2>3, <2>4 DEF ReadTags
<1>6. CASE ReadPassWall
  <2>1. ASSUME NEW r \in NewestOf(releases["passwall"]),
               chosen' = [chosen EXCEPT !["passwall"] = r],
               sha' = [f \in File |-> IF f \in PassWallFiles THEN Asset(r, f).content ELSE sha[f]],
               Answered, UNCHANGED <<page, seen, base, label, build, kept>>
        PROVE  PlaceOK' /\ ReadOK'
    <3>1. r \in Release["passwall"]
      BY NewestInList DEF TypeInv, TypeOK, Repos
    <3>2. PlaceOK'
      BY <1>1, <1>6, <2>1, AnsweredPlace DEF ReadPassWall, Asks
    <3> QED
      BY <1>1, <2>1, <3>1, <3>2 DEF ReadOK
  <2> QED
    BY <1>4, <1>6, <2>1 DEF ReadPassWall
<1>7. CASE ReadLandscape
  <2>1. ASSUME NEW r \in NewestOf(releases["landscape"]),
               chosen' = [chosen EXCEPT !["landscape"] = r],
               Answered, UNCHANGED <<page, seen, base, sha, label, build, kept>>
        PROVE  PlaceOK' /\ ReadOK'
    <3>1. r \in Release["landscape"]
      BY NewestInList DEF TypeInv, TypeOK, Repos
    <3>2. PlaceOK'
      BY <1>1, <1>7, <2>1, AnsweredPlace DEF ReadLandscape, Asks
    <3> QED
      BY <1>1, <2>1, <3>1, <3>2 DEF ReadOK
  <2> QED
    BY <1>4, <1>7, <2>1 DEF ReadLandscape
<1>8. ASSUME sha' = [f \in File |-> sha'[f]], Answered, step \in DOMAIN Requests[phase],
             UNCHANGED <<page, seen, base, chosen, label, build, kept>>
      PROVE  PlaceOK' /\ ReadOK'
  BY <1>1, <1>8, AnsweredPlace DEF ReadOK
<1>9. sha = [f \in File |-> sha[f]]
  BY <1>1 DEF ReadOK
<1>10. CASE ReadKey
  <2>1. ASSUME sha' = [sha EXCEPT ![<<"dependency_key", "shared">>] = PinnedKey],
               Answered, UNCHANGED <<page, seen, base, chosen, label, build, kept>>
        PROVE  PlaceOK' /\ ReadOK'
    <3>1. sha' = [f \in File |-> sha'[f]]
      BY <1>9, <2>1
    <3> QED
      BY <1>8, <1>10, <2>1, <3>1 DEF ReadKey, Asks
  <2> QED
    BY <1>4, <1>10, <2>1 DEF ReadKey
<1>11. ASSUME NEW a \in Arches, ReadSums(a)
       PROVE  PlaceOK' /\ ReadOK'
  <2>1. ASSUME NEW c, sha' = [sha EXCEPT ![<<"rootfs", a>>] = c],
               Answered, UNCHANGED <<page, seen, base, chosen, label, build, kept>>
        PROVE  PlaceOK' /\ ReadOK'
    <3>1. sha' = [f \in File |-> sha'[f]]
      BY <1>9, <2>1
    <3> QED
      BY <1>8, <1>11, <2>1, <3>1 DEF ReadSums, Asks
  <2> QED
    BY <1>4, <1>11, <2>1 DEF ReadSums
<1>12. ASSUME NEW a \in Arches, ReadFeed(a)
       PROVE  PlaceOK' /\ ReadOK'
  <2>1. ASSUME NEW c, NEW d,
               sha' = [sha EXCEPT ![<<"dependency_feed", a>>] = c, ![<<"handler", a>>] = d],
               Answered, UNCHANGED <<page, seen, base, chosen, label, build, kept>>
        PROVE  PlaceOK' /\ ReadOK'
    <3>1. sha' = [f \in File |-> sha'[f]]
      BY <1>9, <2>1
    <3> QED
      BY <1>8, <1>12, <2>1, <3>1 DEF ReadFeed, Asks
  <2> QED
    BY <1>4, <1>12, <2>1 DEF ReadFeed
<1>13. CASE ReadToken \/ ReadChild
  <2>1. Answered /\ step \in DOMAIN Requests[phase] /\ Lookup /\ UNCHANGED build
    BY <1>13 DEF ReadToken, ReadChild, Asks
  <2> QED
    BY <1>1, <2>1, AnsweredPlace DEF ReadOK, Lookup, state
<1>14. CASE ReadManifest
  <2>1. phase = "compare" /\ step = 2
    BY <1>1, <1>14, Places DEF ReadManifest, PlaceOK
  <2>2. ASSUME step' \in {step + 1, step + 2}, NextGet, Lookup, UNCHANGED <<phase, build>>
        PROVE  PlaceOK' /\ ReadOK'
    <3>1. step' \in DOMAIN Requests[phase']
      BY <2>1, <2>2, Phases
    <3> QED
      BY <1>1, <2>2, <3>1, AttemptsAssumption DEF PlaceOK, ReadOK, NextGet, Lookup, state
  <2> QED
    BY <1>4, <1>14, <2>2 DEF ReadManifest
<1>15. CASE ReadConfig
  <2>1. ASSUME build' = NeedsBuild, Answered, Lookup
        PROVE  PlaceOK' /\ ReadOK'
    <3>1. build' \in BOOLEAN
      BY <2>1 DEF NeedsBuild, TypeInv, TypeOK
    <3>2. PlaceOK'
      BY <1>1, <1>15, <2>1, AnsweredPlace DEF ReadConfig, Asks
    <3> QED
      BY <1>1, <2>1, <3>1, <3>2 DEF ReadOK, Lookup, state
  <2> QED
    BY <1>4, <1>15, <2>1 DEF ReadConfig
<1>16. ASSUME NEW f \in File, Download(f)
       PROVE  PlaceOK' /\ ReadOK'
  <2>1. ASSUME NEW c, kept' = [kept EXCEPT ![f] = c], Answered,
               UNCHANGED <<page, seen, state, label, build>>
        PROVE  PlaceOK' /\ ReadOK'
    <3>1. kept' = [g \in File |-> kept'[g]]
      BY <1>1, <2>1 DEF ReadOK
    <3>2. PlaceOK'
      BY <1>1, <1>16, <2>1, AnsweredPlace DEF Download, Asks
    <3> QED
      BY <1>1, <2>1, <3>1, <3>2 DEF ReadOK, state
  <2> QED
    BY <1>4, <1>16, <2>1 DEF Download
<1> QED
  BY <1>5, <1>6, <1>7, <1>10, <1>11, <1>12, <1>13, <1>14, <1>15, <1>16 DEF RequestSucceeds

\* The types hold before the first request.
LEMMA InitTypes == Init => TypeInv
<1> SUFFICES ASSUME Init
             PROVE  TypeInv
  OBVIOUS
<1>1. phase \in DOMAIN Requests /\ step \in DOMAIN Requests[phase]
  BY Phases DEF Init
<1>2. /\ 0 \in 0..(Attempts - 1) /\ 1 \in 1..MaxPages /\ 0 \in 0..Attempts
      /\ 0 \in 0..MaxChanges
  BY AttemptsAssumption, PagesAssumption, ChangesAssumption
<1>3. \A r \in Repos : releases[r] \subseteq Release[r]
  BY DEF Init, Release
<1>4. Functions
  BY SourcesAssumption DEF Init, Functions
<1>5. tags \in Seq(Tag)
  BY SourcesAssumption DEF Init
<1> QED
  BY <1>1, <1>2, <1>3, <1>4, <1>5 DEF Init, TypeInv, TypeOK

\* Every variable of the check has its type.
THEOREM CheckTypes == Spec => [](TypeOK)
<1>1. Init => TypeInv
  BY InitTypes
<1>2. TypeInv /\ [Next]_vars => TypeInv'
  <2>1. ASSUME TypeInv, UNCHANGED vars
        PROVE  TypeInv'
    BY <2>1 DEF TypeInv, TypeOK, Functions, vars, sources, state, history, faults
  <2> QED
    BY <2>1, ChangeTypes, FailureTypes, AnswerTypes DEF Next
<1>3. TypeInv => TypeOK
  BY DEF TypeInv
<1> QED
  BY <1>1, <1>2, <1>3, PTL DEF Spec
=============================================================================
