------------------------------ MODULE MCCheck -------------------------------
(***************************************************************************)
(* Tags over two pages and a third that is empty; 25.12.9 and 25.12.10,    *)
(* which only their numbers rank, behind a release candidate; a prerelease *)
(* above the newest release.  One change, at any moment: what is read once *)
(* collides with one change of what was read before or will be read next.  *)
(***************************************************************************)
EXTENDS Check

MCTag(name, rank, type) == [version |-> name, kind |-> type, place |-> rank, commit |-> 1]

MCInitTags == << MCTag(<<26, 0, 0>>, 7, "rc"), MCTag(<<25, 12, 9>>, 5, "stable"),
                 MCTag(<<25, 12, 10>>, 3, "stable"), MCTag(<<24, 10, 2>>, 1, "stable") >>

MCNewTags == {MCTag(<<25, 12, 11>>, 4, "stable"), MCTag(<<25, 12, 5>>, 6, "rc")}

MCAsset(f, v, c) ==
  [file |-> f, version |-> v, content |-> c, signed |-> TRUE, official |-> TRUE]

\* The assets of a release, the app with content c.
MCPassWall(v, kind, c) ==
  [version |-> v, kind |-> kind,
   assets |-> {MCAsset(<<"passwall", "shared">>, v, c),
               MCAsset(<<"passwall_i18n", "shared">>, v, 1)}]

MCLandscape(v, kind, c) ==
  [version |-> v, kind |-> kind,
   assets |-> {MCAsset(<<"handler", a>>, v, c) : a \in Arches}]

MCHalf(v) ==
  [version |-> v, kind |-> "stable",
   assets |-> {MCAsset(<<"passwall", "shared">>, v, 1)}]

MCInitReleases ==
  [passwall |-> {MCPassWall(<<26, 9, 9, 1>>, "stable", 1), MCPassWall(<<26, 9, 16, 1>>, "stable", 1)},
   landscape |-> {MCLandscape(<<0, 24, 10>>, "stable", 1), MCLandscape(<<0, 25, 0>>, "prerelease", 3)}]

\* A release whose assets are still being uploaded, one with its asset
\* replaced; the handler's only release withdrawn to a draft, one without the
\* handler of arm64, and a prerelease, with what is no handler, released.
MCNewReleases ==
  { [repo |-> "passwall", release |-> MCHalf(<<26, 10, 1, 1>>)],
    [repo |-> "passwall", release |-> MCPassWall(<<26, 9, 16, 1>>, "stable", 2)],
    [repo |-> "landscape", release |-> MCLandscape(<<0, 24, 10>>, "draft", 1)],
    [repo |-> "landscape", release |->
       [version |-> <<0, 24, 11>>, kind |-> "stable",
        assets |-> {MCAsset(<<"handler", "amd64">>, <<0, 24, 11>>, 1)}]],
    [repo |-> "landscape", release |-> MCLandscape(<<0, 25, 0>>, "stable", 3)] }

MCUrls ==
  ({"sums", "rootfs"} \X {<<25, 12, 9>>, <<25, 12, 10>>, <<25, 12, 11>>} \X Arches)
  \union ({"dependency_feed"} \X {<<25, 12>>} \X Arches)
  \union ({"passwall", "passwall_i18n"}
          \X {<<26, 9, 9, 1>>, <<26, 9, 16, 1>>, <<26, 10, 1, 1>>} \X {"shared"})
  \union ({"handler"} \X {<<0, 24, 10>>, <<0, 25, 0>>} \X Arches)
  \union {<<"dependency_key", <<>>, "shared">>}

\* A tag is there before its rootfs is.
MCInitFiles ==
  [u \in MCUrls |-> CASE u[2] = <<25, 12, 11>> -> {}
                      [] u[2] = <<0, 25, 0>> -> {3}
                      [] OTHER -> {1}]

MCNewFiles ==
  [u \in { <<"dependency_feed", <<25, 12>>, "amd64">>, <<"rootfs", <<25, 12, 10>>, "arm64">>,
           <<"sums", <<25, 12, 10>>, "amd64">>, <<"passwall", <<26, 9, 16, 1>>, "shared">>,
           <<"dependency_key", <<>>, "shared">> } |->
     IF u[1] = "sums" THEN {{None}} ELSE {{2}, {1, 2}}]

MCLabel == << <<25, 12, 10>>, 1, <<26, 9, 16, 1>>, <<0, 24, 10>>, 1>>

MCImage(digest, multi, platforms) ==
  [label |-> digest, index |-> multi, arches |-> platforms]

MCInitImages == {None, MCImage(MCLabel, TRUE, <<"amd64", "arm64">>)}

\* Deleted; of other inputs; without amd64; a single manifest.
MCNewImages ==
  { None, MCImage(<<>>, TRUE, <<"arm64", "amd64">>), MCImage(MCLabel, TRUE, <<"arm64">>),
    MCImage(MCLabel, FALSE, <<"amd64">>), MCImage(MCLabel, FALSE, <<"arm64">>) }

\* One withdrawn tag, and what is left is too old.
MCMinVersion == <<25, 12, 10>>

MCRetryAfter == {0, 3600, -1}

\* BlipsSurvived is about such sources.
ASSUME CompleteAssumption == CompleteSources
=============================================================================
