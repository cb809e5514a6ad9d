----------------------------- MODULE MCRelease -----------------------------
(***************************************************************************)
(* Two maintainers, two versions and two commits besides the first.      *)
(***************************************************************************)
EXTENDS Release

CONSTANTS anna, ben

TwoMaintainers == {anna, ben}
TwoVersions == {1, 2}
=============================================================================
