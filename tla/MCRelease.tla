------------------------------ MODULE MCRelease -------------------------------
(***************************************************************************)
(* Two runs that overlap; one tag that moves between two commits of the    *)
(* same version, where runs collide; two platforms, so that one may be     *)
(* published and the other not; a failed run is repeated once.             *)
(***************************************************************************)
EXTENDS Release

CONSTANTS tag, run1, run2, fix, refix, v1, gnu, musl

MCRuns == {run1, run2}
MCTags == {tag}
MCCommits == {fix, refix}
MCVersions == {v1}
MCVersionOf == [c \in MCCommits |-> v1]
MCPlatforms == {gnu, musl}
=============================================================================
