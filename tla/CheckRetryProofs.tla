-------------------------- MODULE CheckRetryProofs --------------------------
(***************************************************************************)
(* What passes does not end a check, for all sources that a check can end  *)
(* well with: as long as they stand still and refuse nothing, every        *)
(* failure is waited out until one GET may have used up its attempts, and  *)
(* every answer is as good as the first ones.                              *)
(***************************************************************************)
EXTENDS CheckProofs

\* Nothing has happened yet that may end a check.
Undisturbed == changes = 0 /\ refusal = None /\ blips < Attempts

\* The sources are what they were.
StillInv ==
  changes = 0 =>
    tags = InitTags /\ releases = InitReleases /\ files = InitFiles /\ image \in InitImages

\* The request of resolve for the sums of an architecture.
SumsStep(a) == IF a = "amd64" THEN 5 ELSE 7

\* What was resolved of the versions, and of their digests.
ChosenInv ==
  /\ Past(1) => base \in NewestOf(FirstTags(MaxPages * PageSize))
  /\ Past(2) => chosen["passwall"] \in NewestOf(InitReleases["passwall"])
  /\ Past(3) => chosen["landscape"] \in NewestOf(InitReleases["landscape"])

DigestsInv ==
  /\ Past(2) => \A f \in PassWallFiles : sha[f] = Asset(chosen["passwall"], f).content
  /\ Past(4) => sha[<<"dependency_key", "shared">>] = PinnedKey
  /\ \A a \in Arches :
       Past(SumsStep(a)) => sha[<<"rootfs", a>>] \in Contents(<<"sums", a>>, base, chosen)
  /\ \A a \in Arches :
       Past(SumsStep(a) + 1) =>
         /\ sha[<<"dependency_feed", a>>] \in Contents(<<"dependency_feed", a>>, base, chosen)
         /\ sha[<<"handler", a>>] = Asset(chosen["landscape"], <<"handler", a>>).content

\* The tags on the pages that were read, and no others.
SeenInv ==
  phase = "resolve" /\ step = 1 => seen = FirstTags((page - 1) * PageSize)

ReadInv ==
  /\ SeenInv /\ ChosenInv /\ DigestsInv
  /\ phase = "compare" /\ step > 2 => \A l \in label : l.index \/ l.arches = <<"amd64">>

\* A check that is undisturbed goes on, each failed attempt being a blip.
BlipInv == Undisturbed => phase # "failed" /\ attempt <= blips /\ ReadInv

-----------------------------------------------------------------------------
(* Failures.                                                               *)

\* time.sleep takes every delay but a negative Retry-After.
LEMMA DelayTaken ==
  ASSUME TypeInv, NEW after, after = {} \/ \E seconds \in Nat : after = {seconds}
  PROVE  RetryDelay(attempt, after) >= 0
<1>1. attempt \in Nat
  BY AttemptsAssumption DEF TypeInv, TypeOK
<1>2. CASE after = {}
  BY <1>1, <1>2 DEF RetryDelay, Backoff
<1>3. ASSUME NEW seconds \in Nat, after = {seconds} PROVE RetryDelay(attempt, after) >= 0
  <2>1. (CHOOSE s \in after : TRUE) = seconds
    BY <1>3
  <2>. QED BY <1>3, <2>1 DEF RetryDelay, AtMost
<1>. QED BY <1>2, <1>3

\* A failure that passes is waited out while attempts are left.
LEMMA FailureSurvived ==
  ASSUME TypeInv, BlipInv, RequestFails
  PROVE  BlipInv'
<1>. SUFFICES ASSUME Undisturbed' PROVE (phase # "failed" /\ attempt <= blips /\ ReadInv)'
  BY DEF BlipInv
<1>1. PICK status \in Hiccups \union Refusals, after \in {{}} \union {{s} : s \in RetryAfter} :
        GetFails(status, after)
  BY Zenon DEF RequestFails
<1>2. changes = 0
  BY <1>1 DEF GetFails, history, Undisturbed
<1>3. status \in Hiccups /\ after \subseteq Nat
      /\ blips' = AtMost(blips + 1, Attempts) /\ refusal' = refusal
  <2>1. refusal' # RaisedStatus(status)
    BY <1>1, FaultsAssumption DEF Undisturbed, RaisedStatus
  <2>. QED BY <1>1, <2>1 DEF GetFails
<1>4. blips \in Nat /\ attempt \in Nat /\ blips' = blips + 1 /\ blips + 1 < Attempts
  BY <1>3, AttemptsAssumption DEF TypeInv, TypeOK, AtMost, Undisturbed
<1>5. Undisturbed
  BY <1>2, <1>3, <1>4, AttemptsAssumption DEF Undisturbed
<1>6. attempt <= blips /\ phase # "failed" /\ ReadInv
  BY <1>5 DEF BlipInv
<1>7. Retries(status, after)
  <2>1. Transient(status)
    BY <1>3, FaultsAssumption DEF Transient
  <2>2. attempt < Attempts - 1
    BY <1>4, <1>6, AttemptsAssumption
  <2>3. RetryDelay(attempt, after) >= 0
    BY <1>3, DelayTaken
  <2>. QED BY <2>1, <2>2, <2>3 DEF Retries
<1>8. attempt' = attempt + 1 /\ UNCHANGED <<phase, step, page, seen, state, label, build, kept>>
  BY <1>1, <1>7 DEF GetFails, CountAttempt
<1>9. ReadInv'
  BY <1>6, <1>8 DEF ReadInv, SeenInv, ChosenInv, DigestsInv, Past, state
<1>. QED BY <1>4, <1>6, <1>8, <1>9

-----------------------------------------------------------------------------
(* Answers.                                                                *)

\* What is chosen are releases of the first lists.
LEMMA ChosenFirst ==
  ASSUME TypeInv, ChosenInv, Past(3), Past(2), Past(1), CompleteSources
  PROVE  chosen \in Choices /\ FitTogether(base, chosen)
<1>1. chosen = [r \in Repos |-> chosen[r]]
  BY DEF TypeInv, Functions
<1>2. \A r \in Repos : chosen[r] \in NewestOf(InitReleases[r])
  BY DEF ChosenInv, Repos
<1>3. \A r \in Repos :
        chosen[r] \in InitReleases["passwall"] \union InitReleases["landscape"]
  BY <1>2, NewestInList DEF Repos
<1>4. chosen \in Choices
  BY <1>1, <1>2, <1>3 DEF Choices
<1>5. base \in NewestOf(FirstTags(MaxPages * PageSize))
  BY DEF ChosenInv
<1>. QED BY <1>4, <1>5 DEF CompleteSources

\* While nothing changes, a file is answered with what was there at first.
LEMMA AnswersFirst ==
  ASSUME files = InitFiles, NEW f
  PROVE  Answers(f) = Contents(f, base, chosen)
BY DEF Answers, Contents, UrlOf

\* The pages follow each other.
LEMMA PagesFollow ==
  ASSUME TypeInv, tags = InitTags, seen = FirstTags((page - 1) * PageSize)
  PROVE  seen \union Page(page) = FirstTags(page * PageSize)
<1>1. page \in Int /\ PageSize \in Int /\ PageSize >= 0
  BY PagesAssumption DEF TypeInv, TypeOK
<1>2. (page - 1) * PageSize \in Int /\ page * PageSize \in Int
      /\ (page - 1) * PageSize <= page * PageSize
  BY <1>1
<1>3. \A k \in DOMAIN InitTags : k \in Int
  BY SourcesAssumption
<1>. DEFINE m == (page - 1) * PageSize
            n == page * PageSize
<1>4. m \in Int /\ n \in Int /\ m <= n /\ seen = FirstTags(m)
      /\ Page(page) = {tags[i] : i \in {k \in DOMAIN tags : m < k /\ k <= n}}
  BY <1>2 DEF Page
<1>. HIDE DEF m, n
<1>5. \A k \in DOMAIN InitTags : k <= n <=> k <= m \/ (m < k /\ k <= n)
  BY <1>3, <1>4
<1>6. FirstTags(m) \union Page(page) = FirstTags(n)
  BY <1>4, <1>5 DEF FirstTags
<1>. QED BY <1>4, <1>6 DEF n

\* After the last page, all tags were read that there are pages for.
LEMMA PagesEnd ==
  ASSUME TypeInv, tags = InitTags, LastPage
  PROVE  FirstTags(page * PageSize) = FirstTags(MaxPages * PageSize)
<1>1. CASE page = MaxPages
  BY <1>1
<1>2. CASE Len(tags) < page * PageSize
  <2>1. page \in Int /\ MaxPages \in Int /\ PageSize \in Int /\ PageSize >= 0 /\ page <= MaxPages
    BY PagesAssumption DEF TypeInv, TypeOK
  <2>2. page * PageSize \in Int /\ MaxPages * PageSize \in Int
        /\ page * PageSize <= MaxPages * PageSize
    BY <2>1
  <2>3. Len(tags) \in Int /\ \A k \in DOMAIN InitTags : k \in Int /\ k <= Len(tags)
    BY SourcesAssumption
  <2>4. \A k \in DOMAIN InitTags : k <= page * PageSize /\ k <= MaxPages * PageSize
    BY <1>2, <2>2, <2>3
  <2>. QED BY <2>4 DEF FirstTags
<1>. QED BY <1>1, <1>2 DEF LastPage

\* The tags, page by page, and the choice after the last one.
LEMMA TagsSurvived ==
  ASSUME PromiseInv, ReadInv, StillInv, changes = 0, CompleteSources, ReadTags
  PROVE  phase' # "failed" /\ attempt' = 0 /\ ReadInv'
<1>1. TypeInv /\ phase \in DOMAIN Requests /\ tags = InitTags
  BY DEF PromiseInv, TypeInv, TypeOK, StillInv
<1>2. phase = "resolve" /\ step = 1 /\ step \in DOMAIN Requests[phase]
  BY <1>1, Places DEF ReadTags, Asks
<1>3. seen' = FirstTags(page * PageSize)
  <2>1. seen = FirstTags((page - 1) * PageSize)
    BY <1>2 DEF ReadInv, SeenInv
  <2>. QED BY <1>1, <2>1, PagesFollow DEF ReadTags
<1>4. CASE ~LastPage
  <2>1. page' = page + 1 /\ NextGet /\ UNCHANGED <<phase, step>>
    BY <1>4 DEF ReadTags
  <2>2. page' - 1 = page
    BY <1>1, <2>1, PagesAssumption DEF TypeInv, TypeOK
  <2>3. SeenInv'
    BY <1>3, <2>2 DEF SeenInv
  <2>. QED
    BY <1>2, <2>1, <2>3 DEF ReadInv, ChosenInv, DigestsInv, Past, SumsStep, NextGet, Arches
<1>5. CASE LastPage
  <2>1. seen' = FirstTags(MaxPages * PageSize)
    BY <1>1, <1>3, <1>5, PagesEnd
  <2>2. \E t \in NewestOf(seen') : ~Newer(MinVersion, t.version)
    BY <2>1 DEF CompleteSources
  <2>3. base' \in NewestOf(seen') /\ Answered
    BY <1>5, <2>2 DEF ReadTags
  <2>4. phase' = "resolve" /\ step' = 2 /\ attempt' = 0
    BY <1>1, <1>2, <2>3, AnsweredNext DEF Answered, Enter, NextGet
  <2>. QED
    BY <2>1, <2>3, <2>4 DEF ReadInv, SeenInv, ChosenInv, DigestsInv, Past, SumsStep, Arches
<1>. QED BY <1>4, <1>5

\* An answer to the rest of resolve.
LEMMA NextOfResolve ==
  ASSUME TypeInv, phase = "resolve", step \in DOMAIN Requests[phase], Answered
  PROVE  /\ phase' # "failed" /\ attempt' = 0
         /\ \A n \in 1..7 : Past(n)' <=> step >= n
         /\ step = 8 => \A n \in 1..8 : Past(n)'
         /\ ~(phase' = "resolve" /\ step' = 1)
         /\ ~(phase' = "compare" /\ step' > 2)
<1>1. step \in 1..8 /\ attempt' = 0
  BY Phases DEF Answered, Enter, NextGet
<1>. QED BY <1>1, AnsweredNext DEF Past

LEMMA ReleasesSurvived ==
  ASSUME PromiseInv, ReadInv, StillInv, changes = 0, CompleteSources,
         ReadPassWall \/ ReadLandscape
  PROVE  phase' # "failed" /\ attempt' = 0 /\ ReadInv'
<1>1. TypeInv /\ phase \in DOMAIN Requests /\ releases = InitReleases
  BY DEF PromiseInv, TypeInv, TypeOK, StillInv
<1>2. CASE ReadPassWall
  <2>1. phase = "resolve" /\ step = 2 /\ step \in DOMAIN Requests[phase]
    BY <1>1, <1>2, Places DEF ReadPassWall, Asks
  <2>2. PICK r \in NewestOf(InitReleases["passwall"]) :
          /\ chosen' = [chosen EXCEPT !["passwall"] = r]
          /\ sha' = [f \in File |-> IF f \in PassWallFiles THEN Asset(r, f).content ELSE sha[f]]
          /\ Answered /\ UNCHANGED base
    BY <1>1, <1>2 DEF ReadPassWall, CompleteSources, Repos
  <2>3. chosen'["passwall"] = r
    BY <1>1, <2>2 DEF TypeInv, Functions, Repos
  <2>4. \A f \in PassWallFiles : f \in File
    BY DEF PassWallFiles, File, SharedFiles
  <2>5. phase' = "resolve" /\ step' = 3 /\ attempt' = 0
    BY <1>1, <2>1, <2>2, AnsweredNext DEF Answered, Enter, NextGet
  <2>. QED
    BY <2>1, <2>2, <2>3, <2>4, <2>5
    DEF ReadInv, SeenInv, ChosenInv, DigestsInv, Past, SumsStep, Arches
<1>3. CASE ReadLandscape
  <2>1. phase = "resolve" /\ step = 3 /\ step \in DOMAIN Requests[phase]
    BY <1>1, <1>3, Places DEF ReadLandscape, Asks
  <2>2. PICK r \in NewestOf(InitReleases["landscape"]) :
          /\ chosen' = [chosen EXCEPT !["landscape"] = r]
          /\ Answered /\ UNCHANGED <<base, sha>>
    BY <1>1, <1>3 DEF ReadLandscape, CompleteSources, Repos
  <2>3. chosen'["landscape"] = r /\ chosen'["passwall"] = chosen["passwall"]
    BY <1>1, <2>2 DEF TypeInv, Functions, Repos
  <2>4. phase' = "resolve" /\ step' = 4 /\ attempt' = 0
    BY <1>1, <2>1, <2>2, AnsweredNext DEF Answered, Enter, NextGet
  <2>. QED
    BY <2>1, <2>2, <2>3, <2>4
    DEF ReadInv, SeenInv, ChosenInv, DigestsInv, Past, SumsStep, Arches
<1>. QED BY <1>2, <1>3

\* The sums and the feed of an architecture have a request of their own.
LEMMA ArchPlaces ==
  ASSUME phase \in DOMAIN Requests, NEW a \in Arches
  PROVE  /\ Asks("sums", a) => phase = "resolve" /\ step = SumsStep(a)
         /\ Asks("dependency_feed", a) /\ phase = "resolve" => step = SumsStep(a) + 1
<1>1. ASSUME phase = "resolve"
      PROVE  /\ Asks("sums", a) => step = SumsStep(a)
             /\ Asks("dependency_feed", a) => step = SumsStep(a) + 1
  <2>1. Requests[phase] = << <<"tags", "shared">>, <<"passwall", "shared">>,
          <<"landscape", "shared">>, <<"dependency_key", "shared">>,
          <<"sums", "amd64">>, <<"dependency_feed", "amd64">>,
          <<"sums", "arm64">>, <<"dependency_feed", "arm64">> >>
    BY <1>1 DEF Requests
  <2>2. step \in DOMAIN Requests[phase] => step \in 1..8
    BY <2>1
  <2>. QED BY <2>1, <2>2 DEF Asks, Arches, SumsStep
<1>. QED BY <1>1, Places

\* Digests that are read have their own places.
LEMMA DigestsRead ==
  ASSUME PromiseInv, ReadInv, phase = "resolve", step \in DOMAIN Requests[phase], step > 3,
         Answered, UNCHANGED <<base, chosen>>,
         \A f \in PassWallFiles : sha'[f] = sha[f],
         sha'[<<"dependency_key", "shared">>] =
           IF step = 4 THEN PinnedKey ELSE sha[<<"dependency_key", "shared">>],
         \A a \in Arches :
           IF step = SumsStep(a)
             THEN sha'[<<"rootfs", a>>] \in Contents(<<"sums", a>>, base, chosen)
             ELSE sha'[<<"rootfs", a>>] = sha[<<"rootfs", a>>],
         \A a \in Arches :
           IF step = SumsStep(a) + 1
             THEN /\ sha'[<<"dependency_feed", a>>]
                       \in Contents(<<"dependency_feed", a>>, base, chosen)
                  /\ sha'[<<"handler", a>>] = Asset(chosen["landscape"], <<"handler", a>>).content
             ELSE /\ sha'[<<"dependency_feed", a>>] = sha[<<"dependency_feed", a>>]
                  /\ sha'[<<"handler", a>>] = sha[<<"handler", a>>]
  PROVE  phase' # "failed" /\ attempt' = 0 /\ ReadInv'
<1>1. TypeInv /\ step \in 4..8
  BY Phases DEF PromiseInv
<1>2. /\ phase' # "failed" /\ attempt' = 0
      /\ \A n \in 1..7 : Past(n)' <=> step >= n
      /\ Past(8)' => step = 8
      /\ ~(phase' = "resolve" /\ step' = 1) /\ ~(phase' = "compare" /\ step' > 2)
  <2>1. Past(8)' => step = 8
    BY <1>1, AnsweredNext DEF Past
  <2>. QED BY <1>1, <2>1, NextOfResolve
<1>3. \A n \in 1..8 : Past(n) <=> step > n
  BY DEF Past
<1>4. ChosenInv'
  BY <1>1, <1>2, <1>3 DEF ReadInv, ChosenInv
<1>5. /\ \A f \in PassWallFiles : sha'[f] = Asset(chosen'["passwall"], f).content
      /\ Past(4)' => sha'[<<"dependency_key", "shared">>] = PinnedKey
  BY <1>1, <1>2, <1>3 DEF ReadInv, DigestsInv
<1>6. \A f : Contents(f, base, chosen)' = Contents(f, base, chosen)
  BY DEF Contents, Promise!UrlOf, Promise!VersionOf
<1>7. ASSUME NEW a \in Arches, Past(SumsStep(a))'
      PROVE  sha'[<<"rootfs", a>>] \in Contents(<<"sums", a>>, base, chosen)
  <2>1. step >= SumsStep(a) /\ SumsStep(a) \in 1..7
    BY <1>2, <1>7 DEF SumsStep
  <2>. QED BY <1>1, <1>3, <2>1 DEF ReadInv, DigestsInv
<1>8. ASSUME NEW a \in Arches, Past(SumsStep(a) + 1)'
      PROVE  /\ sha'[<<"dependency_feed", a>>] \in Contents(<<"dependency_feed", a>>, base, chosen)
             /\ sha'[<<"handler", a>>] = Asset(chosen["landscape"], <<"handler", a>>).content
  <2>1. step >= SumsStep(a) + 1 /\ SumsStep(a) + 1 \in 1..8
    BY <1>1, <1>2, <1>8 DEF SumsStep, Arches
  <2>. QED BY <1>1, <1>3, <2>1 DEF ReadInv, DigestsInv
<1>9. DigestsInv'
  BY <1>5, <1>6, <1>7, <1>8 DEF DigestsInv
<1>. QED BY <1>2, <1>4, <1>9 DEF ReadInv, SeenInv

LEMMA DigestsSurvived ==
  ASSUME PromiseInv, ReadInv, StillInv, changes = 0, CompleteSources,
         ReadKey \/ \E a \in Arches : ReadSums(a) \/ ReadFeed(a)
  PROVE  phase' # "failed" /\ attempt' = 0 /\ ReadInv'
<1>1. TypeInv /\ phase \in DOMAIN Requests /\ files = InitFiles
  BY DEF PromiseInv, TypeInv, TypeOK, StillInv
<1>2. sha = [f \in File |-> sha[f]]
  BY <1>1 DEF TypeInv, Functions
<1>3. phase = "resolve" /\ step \in 4..8 => FitTogether(base, chosen)
  BY <1>1, ChosenFirst DEF ReadInv, Past
<1>4. \A f : Answers(f) = Contents(f, base, chosen)
  BY <1>1, AnswersFirst
<1>. USE DEF PassWallFiles, File, SharedFiles, ArchFiles
<1>5. CASE ReadKey
  <2>1. phase = "resolve" /\ step = 4 /\ step \in DOMAIN Requests[phase]
    BY <1>1, <1>5, Places DEF ReadKey, Asks
  <2>2. Answers(<<"dependency_key", "shared">>) \subseteq {PinnedKey}
    <3>1. FitTogether(base, chosen)
      BY <1>3, <2>1
    <3>. QED BY <1>4, <3>1 DEF FitTogether
  <2>3. /\ sha' = [sha EXCEPT ![<<"dependency_key", "shared">>] = PinnedKey]
        /\ Answered /\ UNCHANGED <<base, chosen>>
    BY <1>5, <2>2 DEF ReadKey
  <2>4. \A f \in File : sha'[f] = IF f = <<"dependency_key", "shared">> THEN PinnedKey ELSE sha[f]
    BY <1>2, <2>3
  <2>5. \A a \in Arches : step # SumsStep(a) /\ step # SumsStep(a) + 1
    BY <2>1 DEF SumsStep
  <2>. QED BY <2>1, <2>3, <2>4, <2>5, DigestsRead
<1>6. ASSUME NEW a \in Arches, ReadSums(a)
      PROVE  phase' # "failed" /\ attempt' = 0 /\ ReadInv'
  <2>1. phase = "resolve" /\ step = SumsStep(a) /\ step \in DOMAIN Requests[phase]
    BY <1>1, <1>6, ArchPlaces DEF ReadSums, Asks
  <2>2. step \in {5, 7} /\ \A b \in Arches : step # SumsStep(b) + 1 /\ (step = SumsStep(b) => b = a)
    BY <2>1 DEF SumsStep, Arches
  <2>3. None \notin Answers(<<"sums", a>>)
    <3>1. FitTogether(base, chosen)
      BY <1>3, <2>1, <2>2
    <3>. QED BY <1>4, <3>1 DEF FitTogether
  <2>4. PICK c \in Answers(<<"sums", a>>) :
          sha' = [sha EXCEPT ![<<"rootfs", a>>] = c] /\ Answered /\ UNCHANGED <<base, chosen>>
    BY <1>6, <2>3 DEF ReadSums
  <2>5. \A f \in File : sha'[f] = IF f = <<"rootfs", a>> THEN c ELSE sha[f]
    BY <1>2, <2>4
  <2>6. c \in Contents(<<"sums", a>>, base, chosen)
    BY <1>4
  <2>. QED BY <2>1, <2>2, <2>4, <2>5, <2>6, DigestsRead
<1>7. ASSUME NEW a \in Arches, ReadFeed(a)
      PROVE  phase' # "failed" /\ attempt' = 0 /\ ReadInv'
  <2>1. phase = "resolve" /\ step = SumsStep(a) + 1 /\ step \in DOMAIN Requests[phase]
    BY <1>1, <1>7, ArchPlaces DEF ReadFeed, Asks
  <2>2. step \in {6, 8} /\ \A b \in Arches : step # SumsStep(b) /\ (step = SumsStep(b) + 1 => b = a)
    BY <2>1 DEF SumsStep, Arches
  <2>3. HasAsset(chosen["landscape"], <<"handler", a>>)
    <3>1. FitTogether(base, chosen)
      BY <1>3, <2>1, <2>2
    <3>. QED BY <3>1 DEF FitTogether
  <2>. DEFINE d == Asset(chosen["landscape"], <<"handler", a>>).content
  <2>4. PICK c \in Answers(<<"dependency_feed", a>>) :
          /\ sha' = [sha EXCEPT ![<<"dependency_feed", a>>] = c, ![<<"handler", a>>] = d]
          /\ Answered /\ UNCHANGED <<base, chosen>>
    BY <1>7, <2>3 DEF ReadFeed
  <2>5. \A f \in File : sha'[f] = IF f = <<"handler", a>> THEN d
                                  ELSE IF f = <<"dependency_feed", a>> THEN c ELSE sha[f]
    BY <1>2, <2>4
  <2>6. c \in Contents(<<"dependency_feed", a>>, base, chosen)
    BY <1>4
  <2>. HIDE DEF d
  <2>7. \A b \in Arches :
          /\ sha'[<<"rootfs", b>>] = sha[<<"rootfs", b>>]
          /\ sha'[<<"dependency_feed", b>>] = IF b = a THEN c ELSE sha[<<"dependency_feed", b>>]
          /\ sha'[<<"handler", b>>] = IF b = a THEN d ELSE sha[<<"handler", b>>]
    BY <2>5
  <2>8. /\ \A f \in PassWallFiles : sha'[f] = sha[f]
        /\ sha'[<<"dependency_key", "shared">>] = sha[<<"dependency_key", "shared">>]
    BY <2>5
  <2>9. step # 4 /\ step > 3 /\ \A b \in Arches : step = SumsStep(b) + 1 <=> b = a
    BY <2>1, <2>2
  <2>10. \A b \in Arches :
           IF step = SumsStep(b) + 1
             THEN /\ sha'[<<"dependency_feed", b>>]
                       \in Contents(<<"dependency_feed", b>>, base, chosen)
                  /\ sha'[<<"handler", b>>] = Asset(chosen["landscape"], <<"handler", b>>).content
             ELSE /\ sha'[<<"dependency_feed", b>>] = sha[<<"dependency_feed", b>>]
                  /\ sha'[<<"handler", b>>] = sha[<<"handler", b>>]
    BY <2>6, <2>7, <2>9 DEF d
  <2>11. \A b \in Arches :
           IF step = SumsStep(b)
             THEN sha'[<<"rootfs", b>>] \in Contents(<<"sums", b>>, base, chosen)
             ELSE sha'[<<"rootfs", b>>] = sha[<<"rootfs", b>>]
    BY <2>2, <2>7
  <2>. QED BY <2>1, <2>4, <2>8, <2>9, <2>10, <2>11, DigestsRead
<1>. QED BY <1>5, <1>6, <1>7

-----------------------------------------------------------------------------
(* The image, and the downloads.                                           *)

\* Past resolve, what was read stays.
LEMMA ReadStays ==
  ASSUME ReadInv, phase \in {"compare", "download"}, phase' \in {"compare", "download", "done"},
         UNCHANGED <<base, chosen, sha>>,
         phase' = "compare" /\ step' > 2 => \A l \in label' : l.index \/ l.arches = <<"amd64">>
  PROVE  ReadInv'
<1>1. \A n : Past(n) /\ Past(n)'
  BY DEF Past
<1>2. \A f : Contents(f, base, chosen)' = Contents(f, base, chosen)
  BY DEF Contents, Promise!UrlOf, Promise!VersionOf
<1>. QED BY <1>1, <1>2 DEF ReadInv, SeenInv, ChosenInv, DigestsInv

LEMMA ImageSurvived ==
  ASSUME PromiseInv, ReadInv, StillInv, changes = 0, CompleteSources,
         ReadToken \/ ReadManifest \/ ReadChild \/ ReadConfig
  PROVE  phase' # "failed" /\ attempt' = 0 /\ ReadInv'
<1>1. TypeInv /\ phase \in DOMAIN Requests /\ image \in InitImages
  BY DEF PromiseInv, TypeInv, TypeOK, StillInv
<1>2. phase = "compare" /\ step \in DOMAIN Requests[phase] /\ step \in 1..4
  BY <1>1, Places DEF ReadToken, ReadManifest, ReadChild, ReadConfig, Asks
<1>3. Answered => /\ attempt' = 0
                  /\ \/ phase' = "compare" /\ step' = step + 1 /\ step < 4
                     \/ phase' = "download" /\ step = 4
  BY <1>1, <1>2, AnsweredNext DEF Answered, Enter, NextGet
<1>4. step > 2 => \A l \in label : l.index \/ l.arches = <<"amd64">>
  BY <1>2 DEF ReadInv
<1>5. CASE ReadToken \/ ReadChild
  <2>1. Answered /\ UNCHANGED <<base, chosen, sha, label>>
        /\ step \in {1, 3}
    BY <1>1, <1>5, Places DEF ReadToken, ReadChild, Lookup, state
  <2>. QED BY <1>2, <1>3, <1>4, <2>1, ReadStays
<1>6. CASE ReadManifest
  <2>1. step = 2 /\ image # None
    BY <1>1, <1>6, Places DEF ReadManifest
  <2>2. IF image.index
          THEN Cardinality({i \in DOMAIN image.arches : image.arches[i] = "amd64"}) = 1
          ELSE image.arches = <<"amd64">>
    BY <1>1, <2>1 DEF CompleteSources
  <2>3. /\ label' = {[digest |-> image.label, arches |-> image.arches, index |-> image.index]}
        /\ NextGet /\ Lookup /\ UNCHANGED phase
    BY <1>6, <2>2 DEF ReadManifest
  <2>4. \A l \in label' : l.index \/ l.arches = <<"amd64">>
    BY <2>2, <2>3
  <2>. QED BY <1>2, <2>3, <2>4, ReadStays DEF NextGet, Lookup, state
<1>7. CASE ReadConfig
  <2>1. step = 4
    BY <1>1, <1>7, Places DEF ReadConfig
  <2>2. Answered /\ Lookup
    BY <1>4, <1>7, <2>1 DEF ReadConfig
  <2>. QED BY <1>2, <1>3, <2>1, <2>2, ReadStays DEF Lookup, state
<1>. QED BY <1>5, <1>6, <1>7

\* Every file is served with the digest that was resolved.
LEMMA DigestsMet ==
  ASSUME ReadInv, FitTogether(base, chosen), phase = "download",
         NEW f \in File, NEW c \in Contents(f, base, chosen)
  PROVE  c = sha[f] /\ (f[1] = "handler" => c \notin NotElf)
<1>1. \A n : Past(n)
  BY DEF Past
<1>2. CASE f \in PassWallFiles
  <2>1. sha[f] = Asset(chosen["passwall"], f).content
    BY <1>1, <1>2 DEF ReadInv, DigestsInv
  <2>2. c = Asset(chosen["passwall"], f).content
    BY <1>2 DEF FitTogether
  <2>3. f[1] # "handler"
    BY <1>2 DEF PassWallFiles
  <2>. QED BY <2>1, <2>2, <2>3
<1>3. CASE f = <<"dependency_key", "shared">>
  BY <1>1, <1>3 DEF ReadInv, DigestsInv, FitTogether
<1>4. ASSUME NEW a \in Arches,
             f = <<"rootfs", a>> \/ f = <<"dependency_feed", a>> \/ f = <<"handler", a>>
      PROVE  c = sha[f] /\ (f[1] = "handler" => c \notin NotElf)
  <2>1. CASE f = <<"rootfs", a>>
    <3>1. sha[f] \in Contents(<<"sums", a>>, base, chosen)
      BY <1>1, <2>1 DEF ReadInv, DigestsInv
    <3>2. \A x \in Contents(<<"sums", a>>, base, chosen), y \in Contents(f, base, chosen) : x = y
      BY <2>1 DEF FitTogether
    <3>3. f[1] # "handler"
      BY <2>1
    <3>. QED BY <3>1, <3>2, <3>3
  <2>2. CASE f = <<"dependency_feed", a>>
    <3>1. sha[f] \in Contents(f, base, chosen)
      BY <1>1, <2>2 DEF ReadInv, DigestsInv
    <3>2. \A x, y \in Contents(f, base, chosen) : x = y
      BY <2>2 DEF FitTogether
    <3>3. f[1] # "handler"
      BY <2>2
    <3>. QED BY <3>1, <3>2, <3>3
  <2>3. CASE f = <<"handler", a>>
    <3>1. sha[f] = Asset(chosen["landscape"], f).content
      BY <1>1, <2>3 DEF ReadInv, DigestsInv
    <3>2. Contents(f, base, chosen) \subseteq {Asset(chosen["landscape"], f).content} \ NotElf
      BY <2>3 DEF FitTogether
    <3>. QED BY <3>1, <3>2
  <2>. QED BY <1>4, <2>1, <2>2, <2>3
<1>5. \/ f \in PassWallFiles \/ f = <<"dependency_key", "shared">>
      \/ \E a \in Arches :
           f = <<"rootfs", a>> \/ f = <<"dependency_feed", a>> \/ f = <<"handler", a>>
  BY DEF File, PassWallFiles, SharedFiles, ArchFiles
<1>. QED BY <1>2, <1>3, <1>4, <1>5

LEMMA DownloadSurvived ==
  ASSUME PromiseInv, ReadInv, StillInv, changes = 0, CompleteSources, NEW f \in File, Download(f)
  PROVE  phase' # "failed" /\ attempt' = 0 /\ ReadInv'
<1>1. TypeInv /\ files = InitFiles
  BY DEF PromiseInv, StillInv
<1>2. phase = "download" /\ step \in DOMAIN Requests[phase]
  BY DEF Download, Asks
<1>3. FitTogether(base, chosen)
  BY <1>1, <1>2, ChosenFirst DEF ReadInv, Past
<1>4. Answers(f) = Contents(f, base, chosen)
  BY <1>1, AnswersFirst
<1>5. \A c \in Answers(f) : Verified(f, c) /\ (f[1] = "handler" => c \notin NotElf)
  BY <1>2, <1>3, <1>4, DigestsMet DEF Verified
<1>6. Answered /\ UNCHANGED <<base, chosen, sha>>
  BY <1>5 DEF Download, state
<1>7. attempt' = 0 /\ phase' \in {"download", "done"}
  BY <1>1, <1>2, <1>6, AnsweredNext DEF Answered, Enter, NextGet
<1>. QED BY <1>2, <1>6, <1>7, ReadStays

-----------------------------------------------------------------------------
\* A change is counted.
LEMMA ChangeCounts ==
  ASSUME TypeInv, SourcesChange
  PROVE  changes \in Nat /\ changes' = changes + 1
<1>1. changes \in Nat
  BY ChangesAssumption DEF TypeInv, TypeOK
<1>2. Change
  BY DEF SourcesChange, TagPushed, TagWithdrawn, ReleaseEdited, FileChanged, ImageChanged
<1>. QED BY <1>1, <1>2 DEF Change

LEMMA StillStep ==
  ASSUME TypeInv, StillInv, [Next]_vars
  PROVE  StillInv'
<1>1. CASE SourcesChange
  <2>1. changes \in Nat /\ changes' = changes + 1
    BY <1>1, ChangeCounts
  <2>. QED BY <2>1 DEF StillInv
<1>2. CASE RequestFails \/ RequestSucceeds \/ UNCHANGED vars
  BY <1>2 DEF RequestFails, GetFails, RequestSucceeds, vars, sources, history, StillInv
<1>. QED BY <1>1, <1>2 DEF Next

LEMMA BlipStep ==
  ASSUME CompleteSources, PromiseInv, StillInv, BlipInv, [Next]_vars
  PROVE  BlipInv'
<1>1. TypeInv
  BY DEF PromiseInv
<1>2. CASE SourcesChange
  <2>1. changes \in Nat /\ changes' = changes + 1
    BY <1>1, <1>2, ChangeCounts
  <2>. QED BY <2>1 DEF BlipInv, Undisturbed
<1>3. CASE RequestFails
  BY <1>1, <1>3, FailureSurvived
<1>4. CASE RequestSucceeds
  <2>. SUFFICES ASSUME Undisturbed' PROVE (phase # "failed" /\ attempt <= blips /\ ReadInv)'
    BY DEF BlipInv
  <2>1. Undisturbed /\ changes = 0 /\ blips' = blips /\ blips \in Nat
    BY <1>1, <1>4 DEF RequestSucceeds, Undisturbed, history, faults, TypeInv, TypeOK
  <2>2. ReadInv
    BY <2>1 DEF BlipInv
  <2>3. phase' # "failed" /\ attempt' = 0 /\ ReadInv'
    BY <1>4, <2>1, <2>2, TagsSurvived, ReleasesSurvived, DigestsSurvived, ImageSurvived,
      DownloadSurvived DEF RequestSucceeds
  <2>. QED BY <2>1, <2>3
<1>5. CASE UNCHANGED vars
  BY <1>5 DEF vars, state, history, faults, BlipInv, Undisturbed, ReadInv, SeenInv, ChosenInv,
    DigestsInv, Past
<1>. QED BY <1>2, <1>3, <1>4, <1>5 DEF Next

LEMMA BlipInit == Init => StillInv /\ BlipInv
<1>. SUFFICES ASSUME Init PROVE StillInv /\ BlipInv
  OBVIOUS
<1>1. StillInv
  BY DEF Init, StillInv
<1>2. phase = "resolve" /\ step = 1 /\ page = 1 /\ seen = {} /\ attempt = 0 /\ blips = 0
  BY DEF Init
<1>3. FirstTags((page - 1) * PageSize) = {}
  <2>1. (page - 1) * PageSize = 0
    BY <1>2, PagesAssumption
  <2>2. \A k \in DOMAIN InitTags : ~(k <= 0)
    BY SourcesAssumption
  <2>. QED BY <2>1, <2>2 DEF FirstTags
<1>4. ReadInv
  BY <1>2, <1>3 DEF ReadInv, SeenInv, ChosenInv, DigestsInv, Past, SumsStep
<1>. QED BY <1>1, <1>2, <1>4 DEF BlipInv

\* A single blip must not sink a whole run (upstreams.py): of sources that a
\* check can end well with, whatever their versions, files and pages, and for
\* any number of attempts, a check fails only after a change, a refusal, or as
\* many failures as one GET has attempts.
THEOREM BlipsAreSurvived ==
  ASSUME CompleteSources
  PROVE  Spec => []BlipsSurvived
<1>1. Init => PromiseInv /\ StillInv /\ BlipInv
  BY InitPromise, BlipInit
<1>2. PromiseInv /\ StillInv /\ BlipInv /\ [Next]_vars => PromiseInv' /\ StillInv' /\ BlipInv'
  BY CompleteSources, PromiseInvariant, StillStep, BlipStep DEF PromiseInv
<1>3. PromiseInv /\ BlipInv => BlipsSurvived
  BY AttemptsAssumption DEF BlipInv, Undisturbed, BlipsSurvived, PromiseInv, TypeInv, TypeOK
<1>. QED BY <1>1, <1>2, <1>3, PTL DEF Spec
=============================================================================
