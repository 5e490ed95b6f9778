---------------------------- MODULE CheckPromise ----------------------------
(***************************************************************************)
(* What the job check owes the jobs that build from its artifact.  The     *)
(* sources change while it reads them, one after the other: `shown` is     *)
(* what they have shown since it began, and only grows.  At some moment it *)
(* hands over a result made of what was shown (`result` has one member     *)
(* then), or it gives up.                                                  *)
(***************************************************************************)
EXTENDS Versions

CONSTANTS None, File, Revision

VARIABLES shown, result

Repos == {"passwall", "landscape"}

\* inputs_digest: what the label of an image is compared with.
Digest(base, chosen) ==
  <<base.version, base.commit, chosen["passwall"].version,
    chosen["landscape"].version, Revision>>

\* The key is one for all versions.
VersionOf(f, base, chosen) ==
  CASE f[1] \in {"sums", "rootfs"} -> base.version
    [] f[1] = "dependency_feed" -> ShortVersion(base.version)
    [] f[1] \in {"passwall", "passwall_i18n"} -> chosen["passwall"].version
    [] f[1] = "handler" -> chosen["landscape"].version
    [] f[1] = "dependency_key" -> <<>>

\* A URL is a file, for an architecture or shared, in a version.
UrlOf(f, base, chosen) == <<f[1], VersionOf(f, base, chosen), f[2]>>

\* The stable releases of a list that no other one outranks.
TopRanked(list) ==
  {r \in list : /\ r.kind = "stable"
                /\ \A s \in list : s.kind = "stable" => Rank(s.version) <= Rank(r.version)}

\* A result names a stable tag and, of either repository, what was its newest
\* stable release at some moment of the check.
VersionsShown(r) ==
  /\ r.base \in Stable(shown.tags)
  /\ \A repo \in Repos : r.chosen[repo] \in shown.newest[repo]

\* It comes with every file, as its URL served it and with the digest that
\* the result states.
FilesShown(r) ==
  \A f \in File :
    /\ r.kept[f] = r.sha[f]
    /\ r.kept[f] \in shown.files[UrlOf(f, r.base, r.chosen)]

\* Nothing is left unbuilt, but for an image of the same digest.
SkippedOnlyIfPublished(r) ==
  ~r.build => \E i \in shown.images : i # None /\ i.label = Digest(r.base, r.chosen)

Grows ==
  /\ shown.tags \subseteq shown'.tags
  /\ \A repo \in Repos : shown.newest[repo] \subseteq shown'.newest[repo]
  /\ \A u \in DOMAIN shown.files : shown.files[u] \subseteq shown'.files[u]
  /\ shown.images \subseteq shown'.images
  /\ UNCHANGED result

HandsOver ==
  /\ result = {}
  /\ result' # {}
  /\ \A r \in result' : VersionsShown(r) /\ FilesShown(r) /\ SkippedOnlyIfPublished(r)
  /\ UNCHANGED shown

Init == result = {}

Spec == Init /\ [][Grows \/ HandsOver]_<<shown, result>>
=============================================================================
