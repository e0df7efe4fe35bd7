---------------------------- MODULE VersionInfo -----------------------------
(* Versions of games and their order (version_info.cpp).                     *)
EXTENDS Naturals

CONSTANT Unset     \* std::nullopt: what is absent or could not be parsed

ASSUME VersionAssumption == Unset \notin Nat

\* A VersionInfo; the patch is optional.
VersionInfo == [major : Nat, minor : Nat, patch : Nat \cup {Unset}]

\* patch.has_value() ? patch.value() : 0
Patch(v) == IF v.patch = Unset THEN 0 ELSE v.patch

\* operator<: by major, minor and patch, in this order.
Older(v, w) ==
    \/ v.major < w.major
    \/ v.major = w.major /\ v.minor < w.minor
    \/ v.major = w.major /\ v.minor = w.minor /\ Patch(v) < Patch(w)

\* operator==
SameVersion(v, w) == v.major = w.major /\ v.minor = w.minor /\ Patch(v) = Patch(w)

\* operator>=
AtLeast(v, w) == ~Older(v, w)
=============================================================================
