------------------------------- MODULE Release --------------------------------
(***************************************************************************)
(* The release workflow, .github/workflows/release.yml: a pushed v* tag    *)
(* starts a run, whose build matrix makes one binary per platform and      *)
(* whose publish job, once all of them are there, publishes a package for  *)
(* each platform, then the main package that depends on them, then the     *)
(* GitHub release.                                                         *)
(*                                                                         *)
(* Runs of the workflow share the npm registry and the releases and        *)
(* nothing keeps them apart: release.yml has no concurrency group, a tag   *)
(* may be moved and pushed again, two tags may carry the same version in   *)
(* package.json, and a run that failed may be repeated.  As long as there  *)
(* is an outage every step may fail, and a publication may take effect     *)
(* although its caller sees an error.                                      *)
(***************************************************************************)
EXTENDS Naturals

CONSTANTS
  Runs,        \* runs of the workflow
  Tags,        \* tags that match v*
  Commits,     \* what a tag may point at
  Versions,
  VersionOf,   \* the version in the package.json of a commit
  Platforms,   \* the matrix, PLATFORMS and the optionalDependencies agree
  Main,        \* the package @brashkie/signalis-core
  NoTag,
  NoCommit,
  MaxAttempts  \* bound: how often a run is started, the first time included

ASSUME VersionAssumption == VersionOf \in [Commits -> Versions]
ASSUME NamesAssumption == Main \notin Platforms /\ NoCommit \notin Commits
ASSUME AttemptsAssumption == MaxAttempts \in Nat \ {0}

Packages == Platforms \cup {Main}

VARIABLES
  tagAt,      \* the commit each tag points at
  tagOf,      \* the tag a run was started for
  commitOf,   \* the commit it checks out
  builds,     \* the state of the matrix jobs of a run
  artifacts,  \* the binaries a run has uploaded
  publish,    \* how far the publish job of a run is
  todo,       \* the directories npm/*/ its loop has still to visit
  warned,     \* the platforms its log reports as failed or already published
  attempts,   \* how often a run was started
  registry,   \* the commit each version of each package was published from
  releases,   \* the tags that have a GitHub release, which shows their commit
  outage      \* whether npm, GitHub or a runner may still fail a step

tags == <<tagAt, tagOf, commitOf>>
jobs == <<builds, artifacts, publish, todo, warned, attempts>>
vars == <<tags, jobs, registry, releases, outage>>

Ended == {"success", "failure", "skipped"}

Init ==
  /\ tagAt = [t \in Tags |-> NoCommit]
  /\ tagOf = [r \in Runs |-> NoTag]
  /\ commitOf = [r \in Runs |-> NoCommit]
  /\ builds = [r \in Runs |-> [p \in Platforms |-> "idle"]]
  /\ artifacts = [r \in Runs |-> {}]
  /\ publish = [r \in Runs |-> "idle"]
  /\ todo = [r \in Runs |-> {}]
  /\ warned = [r \in Runs |-> {}]
  /\ attempts = [r \in Runs |-> 0]
  /\ registry = [k \in Packages |-> [v \in Versions |-> NoCommit]]
  /\ releases = {}
  /\ outage = TRUE

-----------------------------------------------------------------------------
(***************************************************************************)
(* What the maintainer does.  A tag pushed again points elsewhere, and the *)
(* release it may have follows it; the runs started before do not.         *)
(***************************************************************************)
PushTag(r, t, c) ==
  /\ publish[r] = "idle"
  /\ tagAt' = [tagAt EXCEPT ![t] = c]
  /\ tagOf' = [tagOf EXCEPT ![r] = t]
  /\ commitOf' = [commitOf EXCEPT ![r] = c]
  /\ builds' = [builds EXCEPT ![r] = [p \in Platforms |-> "queued"]]
  /\ publish' = [publish EXCEPT ![r] = "waiting"]
  /\ attempts' = [attempts EXCEPT ![r] = 1]
  /\ UNCHANGED <<artifacts, todo, warned, registry, releases, outage>>

(***************************************************************************)
(* "Re-run failed jobs": the matrix jobs that failed and the publish job,  *)
(* from its first step.  Artifacts and earlier logs stay.                  *)
(***************************************************************************)
RerunFailedJobs(r) ==
  /\ publish[r] \in {"failure", "skipped"}
  /\ attempts[r] < MaxAttempts
  /\ builds' = [builds EXCEPT ![r] =
       [p \in Platforms |-> IF @[p] = "failure" THEN "queued" ELSE @[p]]]
  /\ publish' = [publish EXCEPT ![r] = "waiting"]
  /\ attempts' = [attempts EXCEPT ![r] = @ + 1]
  /\ UNCHANGED <<tags, artifacts, todo, warned, registry, releases, outage>>

-----------------------------------------------------------------------------
(***************************************************************************)
(* The build matrix.  fail-fast is off: a job that fails stops no other.   *)
(***************************************************************************)
Build(r, p) ==
  /\ builds[r][p] = "queued"
  /\ \/ /\ builds' = [builds EXCEPT ![r][p] = "success"]
        /\ artifacts' = [artifacts EXCEPT ![r] = @ \cup {p}]
     \/ /\ builds' = [builds EXCEPT ![r][p] = "failure"]
        /\ UNCHANGED artifacts
  /\ UNCHANGED <<tags, publish, todo, warned, attempts, registry, releases, outage>>

(***************************************************************************)
(* The publish job needs the whole matrix.                                 *)
(***************************************************************************)
\* Mutant: the publish job runs if: always().
BuildsSucceeded_Always(r) == \A p \in Platforms : builds[r][p] # "queued"

BuildsSucceeded(r) == \A p \in Platforms : builds[r][p] = "success"

NeedsFailed(r) ==
  /\ \A p \in Platforms : builds[r][p] # "queued"
  /\ \E p \in Platforms : builds[r][p] = "failure"

Advance(r, phase) == publish' = [publish EXCEPT ![r] = phase]

StartPublish(r) ==
  /\ publish[r] = "waiting"
  /\ BuildsSucceeded(r)
  /\ Advance(r, "preparing")
  /\ UNCHANGED <<tags, builds, artifacts, todo, warned, attempts, registry,
                 releases, outage>>

SkipPublish(r) ==
  /\ publish[r] = "waiting"
  /\ NeedsFailed(r)
  /\ Advance(r, "skipped")
  /\ UNCHANGED <<tags, builds, artifacts, todo, warned, attempts, registry,
                 releases, outage>>

-----------------------------------------------------------------------------
(***************************************************************************)
(* Every step before the first publication, the check of the npm token     *)
(* among them; create-npm-dirs.js makes the directories.                   *)
(***************************************************************************)
\* Mutant: the directory of the main package is among those of the loop.
Prepare_MainToo(r) ==
  /\ publish[r] = "preparing"
  /\ Advance(r, "publishing")
  /\ todo' = [todo EXCEPT ![r] = Packages]
  /\ UNCHANGED <<tags, builds, artifacts, warned, attempts, registry, releases,
                 outage>>

Prepare(r) ==
  /\ publish[r] = "preparing"
  /\ Advance(r, "publishing")
  /\ todo' = [todo EXCEPT ![r] = Platforms]
  /\ UNCHANGED <<tags, builds, artifacts, warned, attempts, registry, releases,
                 outage>>

(***************************************************************************)
(* npm publish.  The registry keeps the first publication of a version and *)
(* refuses the others.  During an outage it may be out of reach, or store  *)
(* the package and lose the answer.                                        *)
(***************************************************************************)
Taken(k, v) == registry[k][v] # NoCommit

NpmStores(r, k) ==
  LET v == VersionOf[commitOf[r]] IN
  /\ ~Taken(k, v)
  /\ registry' = [registry EXCEPT ![k][v] = commitOf[r]]

NpmReportsError(r, k) ==
  \/ (outage \/ Taken(k, VersionOf[commitOf[r]])) /\ UNCHANGED registry
  \/ outage /\ NpmStores(r, k)

(***************************************************************************)
(* npm publish ... || echo "Failed or already published".                  *)
(***************************************************************************)
\* Mutant: an error ends the job, without the || echo.
PublishPlatform_Strict(r, p) ==
  /\ publish[r] = "publishing"
  /\ p \in todo[r]
  /\ todo' = [todo EXCEPT ![r] = @ \ {p}]
  /\ \/ NpmStores(r, p) /\ UNCHANGED publish
     \/ NpmReportsError(r, p) /\ Advance(r, "failure")
  /\ UNCHANGED <<tags, builds, artifacts, warned, attempts, releases, outage>>

PublishPlatform(r, p) ==
  /\ publish[r] = "publishing"
  /\ p \in todo[r]
  /\ todo' = [todo EXCEPT ![r] = @ \ {p}]
  /\ \/ NpmStores(r, p) /\ UNCHANGED warned
     \/ /\ NpmReportsError(r, p)
        /\ warned' = [warned EXCEPT ![r] = @ \cup {p}]
  /\ UNCHANGED <<tags, builds, artifacts, publish, attempts, releases, outage>>

\* Mutant: the main package goes first.
PublishMain_First(r) ==
  /\ publish[r] = "publishing"
  /\ \/ NpmStores(r, Main) /\ Advance(r, "releasing")
     \/ NpmReportsError(r, Main) /\ Advance(r, "failure")
  /\ UNCHANGED <<tags, builds, artifacts, todo, warned, attempts, releases, outage>>

\* Mutant: a failure is swallowed here as it is in the loop.
PublishMain_Swallow(r) ==
  /\ publish[r] = "publishing"
  /\ todo[r] = {}
  /\ NpmReportsError(r, Main)
  /\ Advance(r, "releasing")
  /\ UNCHANGED <<tags, builds, artifacts, todo, warned, attempts, releases, outage>>

PublishMain(r) ==
  /\ publish[r] = "publishing"
  /\ todo[r] = {}
  /\ \/ NpmStores(r, Main) /\ Advance(r, "releasing")
     \/ NpmReportsError(r, Main) /\ Advance(r, "failure")
  /\ UNCHANGED <<tags, builds, artifacts, todo, warned, attempts, releases, outage>>

(***************************************************************************)
(* A release is made for the tag of the run, without a commit of its own:  *)
(* it shows the one its tag points at, then and whenever it is looked at.  *)
(***************************************************************************)
\* Mutant: the release is created if: always().
CreateRelease_Always(r) ==
  /\ publish[r] \in {"releasing", "failure"}
  /\ releases' = releases \cup {tagOf[r]}
  /\ (Advance(r, "success") \/ (outage /\ Advance(r, "failure")))
  /\ UNCHANGED <<tags, builds, artifacts, todo, warned, attempts, registry, outage>>

CreateRelease(r) ==
  /\ publish[r] = "releasing"
  /\ releases' = releases \cup {tagOf[r]}
  /\ (Advance(r, "success") \/ (outage /\ Advance(r, "failure")))
  /\ UNCHANGED <<tags, builds, artifacts, todo, warned, attempts, registry, outage>>

(***************************************************************************)
(* A step fails, the runner is lost or the job is cancelled.  Those before *)
(* the first publication, which compile and check, need no outage to fail. *)
(***************************************************************************)
JobFails(r) ==
  /\ \/ publish[r] = "preparing"
     \/ outage /\ publish[r] \in {"publishing", "releasing"}
  /\ Advance(r, "failure")
  /\ UNCHANGED <<tags, builds, artifacts, todo, warned, attempts, registry,
                 releases, outage>>

-----------------------------------------------------------------------------
Job(r) ==
  \/ \E p \in Platforms : Build(r, p) \/ PublishPlatform(r, p)
  \/ StartPublish(r) \/ SkipPublish(r) \/ Prepare(r)
  \/ PublishMain(r) \/ CreateRelease(r) \/ JobFails(r)

Maintainer(r) ==
  \/ \E t \in Tags, c \in Commits : PushTag(r, t, c)
  \/ RerunFailedJobs(r)

(***************************************************************************)
(* The last outage ends, if it does.                                       *)
(***************************************************************************)
OutageEnds ==
  /\ outage
  /\ outage' = FALSE
  /\ UNCHANGED <<tags, jobs, registry, releases>>

Next == OutageEnds \/ \E r \in Runs : Job(r) \/ Maintainer(r)

(***************************************************************************)
(* GitHub runs the jobs of a run to their end and limits their time; the   *)
(* maintainer owes nothing, and no outage need end.                        *)
(***************************************************************************)
Spec == Init /\ [][Next]_vars /\ \A r \in Runs : WF_vars(Job(r))

-----------------------------------------------------------------------------
TypeOK ==
  /\ tagAt \in [Tags -> Commits \cup {NoCommit}]
  /\ tagOf \in [Runs -> Tags \cup {NoTag}]
  /\ commitOf \in [Runs -> Commits \cup {NoCommit}]
  /\ builds \in [Runs -> [Platforms -> {"idle", "queued", "success", "failure"}]]
  /\ artifacts \in [Runs -> SUBSET Platforms]
  /\ publish \in [Runs -> {"idle", "waiting", "preparing", "publishing",
                           "releasing"} \cup Ended]
  /\ todo \in [Runs -> SUBSET Platforms]
  /\ warned \in [Runs -> SUBSET Platforms]
  /\ attempts \in [Runs -> 0..MaxAttempts]
  /\ registry \in [Packages -> [Versions -> Commits \cup {NoCommit}]]
  /\ releases \subseteq Tags
  /\ outage \in BOOLEAN

Published(k, c) == registry[k][VersionOf[c]] = c

(***************************************************************************)
(* Nothing is published from a commit before some run has built all of its *)
(* platforms, whatever failed and was repeated.                            *)
(***************************************************************************)
BuiltFirst ==
  \A k \in Packages, v \in Versions : Taken(k, v) =>
    \E r \in Runs : commitOf[r] = registry[k][v] /\ artifacts[r] = Platforms

(***************************************************************************)
(* When a platform package is missing from a published main package's      *)
(* version, or comes from another commit than the main package does, the   *)
(* log of a run at the main package's commit has reported that platform.   *)
(***************************************************************************)
MismatchIsWarned ==
  \A c \in Commits, p \in Platforms : Published(Main, c) /\ ~Published(p, c) =>
    \E r \in Runs : commitOf[r] = c /\ p \in warned[r]

(***************************************************************************)
(* What a GitHub release shows, the commit its tag points at, is what the  *)
(* main package on npm was published from, unless the tag has been moved   *)
(* away from that commit: then a run of this tag published it before.  No  *)
(* tag is released that published nothing, whatever failed and repeated.   *)
(***************************************************************************)
MovedAway(t, r) == tagOf[r] = t /\ commitOf[r] # tagAt[t]

ReleaseAnnouncesMain ==
  \A t \in releases :
    \/ Published(Main, tagAt[t])
    \/ \E r \in Runs : MovedAway(t, r) /\ Published(Main, commitOf[r])

(***************************************************************************)
(* Of all the runs for one version, at most one ends in success.           *)
(***************************************************************************)
OneSuccessPerVersion ==
  \A r, s \in Runs :
    /\ publish[r] = "success" /\ publish[s] = "success"
    /\ VersionOf[commitOf[r]] = VersionOf[commitOf[s]]
    => r = s

(***************************************************************************)
(* README.md, Supported Platforms: the package "ships prebuilt native      *)
(* binaries for 10 platforms via npm optionalDependencies".                *)
(***************************************************************************)
ShipsEveryPlatform ==
  \A c \in Commits, p \in Platforms :
    Published(Main, c) => registry[p][VersionOf[c]] # NoCommit

(***************************************************************************)
(* Once the outage is over, a run that publishes while its version is free *)
(* leads to a success for this version, its own or that of the run that is *)
(* faster: what earlier attempts and other runs have published before, and *)
(* whatever answers were lost, stops neither.                              *)
(***************************************************************************)
RepeatReleases ==
  \A r \in Runs, v \in Versions :
    /\ publish[r] = "publishing" /\ VersionOf[commitOf[r]] = v
    /\ ~Taken(Main, v) /\ ~outage
    ~> \E s \in Runs : publish[s] = "success" /\ VersionOf[commitOf[s]] = v
=============================================================================
