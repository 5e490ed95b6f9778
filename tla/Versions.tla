------------------------------ MODULE Versions ------------------------------
(***************************************************************************)
(* What scripts/upstreams.py picks from the lists of the upstreams: tags,  *)
(* releases and the files of a release.  A version is the tuple of its     *)
(* numbers (v0.24.10 is <<0, 24, 10>>); the versions of one upstream have  *)
(* the same length, the pattern of its names fixes it.                     *)
(***************************************************************************)
EXTENDS Integers, Sequences, FiniteSets

\* Defective variant: the parts are compared as text, so 10 comes before 9.
LargerText(m, n) ==
  LET first(k) == IF k < 10 THEN k ELSE k \div 10
  IN first(m) > first(n) \/ (first(m) = first(n) /\ m > n)

Larger(m, n) == m > n

\* version_key(v) > version_key(w), as Python compares tuples.
Newer(v, w) ==
  \E i \in DOMAIN v \intersect DOMAIN w :
    /\ Larger(v[i], w[i])
    /\ \A j \in 1..(i - 1) : v[j] = w[j]

\* The names that match the pattern and are neither draft nor prerelease.
Stable(list) == {x \in list : x.kind = "stable"}

IsNewest(x, list) ==
  /\ x \in Stable(list)
  /\ \A y \in Stable(list) : ~Newer(y.version, x.version)

NewestOf(list) == {x \in list : IsNewest(x, list)}

\* Reference: versions as numbers, their parts below 100 (a bound of these
\* modules, and far above what the upstreams use).
Version == [1..3 -> 0..99] \union [1..4 -> 0..99]

Rank(v) ==
  100 * (100 * (100 * v[1] + v[2]) + v[3]) + (IF DOMAIN v = 1..4 THEN v[4] ELSE 0)

\* The assets of a release that are file f of the image.
AssetsOf(release, f) == {x \in release.assets : x.file = f}

\* select_asset, and its counterpart for the handler: exactly one asset, with
\* a digest, at its official URL.
HasAsset(release, f) ==
  /\ Cardinality(AssetsOf(release, f)) = 1
  /\ \A x \in AssetsOf(release, f) : x.signed /\ x.official

Asset(release, f) == CHOOSE x \in AssetsOf(release, f) : TRUE

\* Tag <<25, 12, 2>> has its feed under 25.12.
ShortVersion(v) == SubSeq(v, 1, 2)
=============================================================================
