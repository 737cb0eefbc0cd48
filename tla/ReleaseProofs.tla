---------------------------- MODULE ReleaseProofs -----------------------------
(***************************************************************************)
(* Proofs about Release for any number of runs, commits, versions,   *)
(* platforms and attempts.  Two facts about every step carry them: what a  *)
(* run has learnt it keeps (RunsKeep), and the registry changes only where *)
(* it was empty, by a run that is publishing (RegistryKeeps).              *)
(***************************************************************************)
EXTENDS Release, TLAPS

(***************************************************************************)
(* A run has a tag and a commit from the moment it starts.                 *)
(***************************************************************************)
Started ==
  \A r \in Runs :
    IF publish[r] = "idle"
      THEN commitOf[r] = NoCommit
      ELSE commitOf[r] \in Commits /\ tagOf[r] \in Tags

(***************************************************************************)
(* Matrix jobs that succeeded have uploaded, and a publish job that got    *)
(* past its needs has a binary for every platform.                         *)
(***************************************************************************)
Uploaded ==
  \A r \in Runs :
    /\ \A p \in Platforms : builds[r][p] = "success" => p \in artifacts[r]
    /\ publish[r] \in {"preparing", "publishing", "releasing"}
         => artifacts[r] = Platforms

(***************************************************************************)
(* What the loop has left behind it is published from this commit, or the  *)
(* log reports it.                                                         *)
(***************************************************************************)
Attempted ==
  \A r \in Runs, p \in Platforms :
    publish[r] = "publishing" /\ p \notin todo[r] =>
      Published(p, commitOf[r]) \/ p \in warned[r]

(***************************************************************************)
(* Past the main package, the version is this run's and no other's.        *)
(***************************************************************************)
PublishedMain == {"releasing", "success"}

Owner ==
  \A r \in Runs : publish[r] \in PublishedMain =>
    /\ Published(Main, commitOf[r])
    /\ \A s \in Runs :
         /\ publish[s] \in PublishedMain
         /\ VersionOf[commitOf[r]] = VersionOf[commitOf[s]]
         => r = s

(***************************************************************************)
(* A tag that is released was published, by a run of this tag, from the    *)
(* commit of the run, wherever the tag points by now.                      *)
(***************************************************************************)
Released ==
  \A t \in releases : \E r \in Runs :
    tagOf[r] = t /\ commitOf[r] \in Commits /\ Published(Main, commitOf[r])

Inv ==
  /\ TypeOK /\ Started /\ Uploaded /\ Attempted /\ Owner
  /\ BuiltFirst /\ MismatchIsWarned /\ Released

(***************************************************************************)
(* Storing fills one empty place of the registry.                          *)
(***************************************************************************)
LEMMA StoresOne ==
  ASSUME TypeOK, NEW r \in Runs, commitOf[r] \in Commits, NEW k \in Packages,
         NpmStores(r, k)
  PROVE  /\ registry' \in [Packages -> [Versions -> Commits \cup {NoCommit}]]
         /\ registry[k][VersionOf[commitOf[r]]] = NoCommit
         /\ registry'[k][VersionOf[commitOf[r]]] = commitOf[r]
         /\ \A l \in Packages, v \in Versions :
              l # k \/ v # VersionOf[commitOf[r]] => registry'[l][v] = registry[l][v]
<1> DEFINE w == VersionOf[commitOf[r]]
<1>1. w \in Versions
  BY VersionAssumption
<1>2. registry \in [Packages -> [Versions -> Commits \cup {NoCommit}]]
  BY DEF TypeOK
<1>3. registry[k][w] = NoCommit /\ registry' = [registry EXCEPT ![k][w] = commitOf[r]]
  BY DEF NpmStores, Taken
<1> HIDE DEF w
<1>4. /\ registry' \in [Packages -> [Versions -> Commits \cup {NoCommit}]]
      /\ registry[k][w] = NoCommit
      /\ registry'[k][w] = commitOf[r]
      /\ \A l \in Packages, v \in Versions : l # k \/ v # w => registry'[l][v] = registry[l][v]
  BY <1>1, <1>2, <1>3
<1> QED
  BY <1>4 DEF w

(***************************************************************************)
(* A step either leaves the registry alone or is a publishing run storing  *)
(* a package, the main one only when its loop is over.                     *)
(***************************************************************************)
Stores(r, k) ==
  /\ publish[r] = "publishing"
  /\ NpmStores(r, k)
  /\ k = Main => todo[r] = {} /\ UNCHANGED <<warned, todo>>

LEMMA RegistryStep ==
  ASSUME TypeOK, Started, Next
  PROVE  UNCHANGED registry \/ \E r \in Runs, k \in Packages : Stores(r, k)
<1>a. CASE OutageEnds
  BY <1>a DEF OutageEnds, tags, jobs
<1> SUFFICES ASSUME ~ OutageEnds
             PROVE  UNCHANGED registry \/ \E r \in Runs, k \in Packages : Stores(r, k)
  BY <1>a
<1> PICK r \in Runs : Job(r) \/ Maintainer(r)
  BY DEF Next
<1>1. ASSUME NEW p \in Platforms, PublishPlatform(r, p)
      PROVE  UNCHANGED registry \/ Stores(r, p)
  BY <1>1, NamesAssumption DEF PublishPlatform, NpmReportsError, Stores, Taken
<1>2. CASE PublishMain(r)
  <2>1. UNCHANGED registry \/ Stores(r, Main)
    BY <1>2 DEF PublishMain, NpmReportsError, Stores, Taken
  <2> QED
    BY <2>1 DEF Packages
<1>3. CASE Maintainer(r)
  BY <1>3 DEF Maintainer, PushTag, RerunFailedJobs
<1>4. CASE StartPublish(r) \/ SkipPublish(r) \/ Prepare(r) \/ CreateRelease(r) \/ JobFails(r)
  BY <1>4 DEF StartPublish, SkipPublish, Prepare, CreateRelease, JobFails
<1>5. ASSUME NEW p \in Platforms, Build(r, p) PROVE UNCHANGED registry
  BY <1>5 DEF Build
<1> QED
  BY <1>1, <1>2, <1>3, <1>4, <1>5 DEF Job, Packages

(***************************************************************************)
(* The first publication of a version stays.                               *)
(***************************************************************************)
LEMMA RegistryKeeps ==
  ASSUME TypeOK, Started, Next
  PROVE  /\ registry' \in [Packages -> [Versions -> Commits \cup {NoCommit}]]
         /\ \A k \in Packages, v \in Versions :
              registry[k][v] # NoCommit => registry'[k][v] = registry[k][v]
<1>1. CASE UNCHANGED registry
  BY <1>1 DEF TypeOK
<1>2. ASSUME NEW r \in Runs, NEW k \in Packages, Stores(r, k)
      PROVE  /\ registry' \in [Packages -> [Versions -> Commits \cup {NoCommit}]]
             /\ \A l \in Packages, v \in Versions :
                  registry[l][v] # NoCommit => registry'[l][v] = registry[l][v]
  <2>1. commitOf[r] \in Commits /\ NpmStores(r, k)
    BY <1>2 DEF Stores, Started
  <2> QED
    BY <2>1, StoresOne
<1> QED
  BY <1>1, <1>2, RegistryStep

LEMMA PublishedStays ==
  ASSUME TypeOK, Started, Next, NEW k \in Packages, NEW c \in Commits, Published(k, c)
  PROVE  Published(k, c)'
<1>1. VersionOf[c] \in Versions /\ c # NoCommit
  BY VersionAssumption, NamesAssumption
<1>2. registry[k][VersionOf[c]] = c
  BY DEF Published
<1>3. registry'[k][VersionOf[c]] = c
  BY <1>1, <1>2, RegistryKeeps
<1> QED
  BY <1>3 DEF Published

(***************************************************************************)
(* A run keeps its tag, its commit, its artifacts and its log.             *)
(***************************************************************************)
Keeps(r) ==
  /\ publish[r] # "idle" =>
       /\ publish'[r] # "idle"
       /\ commitOf'[r] = commitOf[r]
       /\ tagOf'[r] = tagOf[r]
  /\ artifacts[r] \subseteq artifacts'[r]
  /\ warned[r] \subseteq warned'[r]

LEMMA RunsKeep ==
  ASSUME TypeOK, Next, NEW r \in Runs
  PROVE  Keeps(r)
<1>a. CASE OutageEnds
  BY <1>a DEF OutageEnds, tags, jobs, Keeps
<1> SUFFICES ASSUME ~ OutageEnds PROVE Keeps(r)
  BY <1>a
<1> PICK s \in Runs : Job(s) \/ Maintainer(s)
  BY DEF Next
<1>1. ASSUME NEW t \in Tags, NEW c \in Commits, PushTag(s, t, c) PROVE Keeps(r)
  BY <1>1 DEF PushTag, Keeps, TypeOK
<1>2. CASE RerunFailedJobs(s)
  BY <1>2 DEF RerunFailedJobs, Keeps, TypeOK, tags
<1>3. ASSUME NEW p \in Platforms, Build(s, p) PROVE Keeps(r)
  <2>1. artifacts' = artifacts \/ artifacts' = [artifacts EXCEPT ![s] = @ \cup {p}]
    BY <1>3 DEF Build
  <2>2. artifacts[r] \subseteq artifacts'[r]
    BY <2>1 DEF TypeOK
  <2> QED
    BY <1>3, <2>2 DEF Build, Keeps, TypeOK, tags
<1>4. ASSUME NEW p \in Platforms, PublishPlatform(s, p) PROVE Keeps(r)
  BY <1>4 DEF PublishPlatform, Keeps, TypeOK, tags
<1>5. CASE StartPublish(s) \/ SkipPublish(s)
  BY <1>5 DEF StartPublish, SkipPublish, Advance, Keeps, TypeOK, tags
<1>6. CASE Prepare(s) \/ PublishMain(s)
  BY <1>6 DEF Prepare, PublishMain, Advance, Keeps, TypeOK, tags
<1>7. CASE CreateRelease(s) \/ JobFails(s)
  BY <1>7 DEF CreateRelease, JobFails, Advance, Keeps, TypeOK, tags
<1> QED
  BY <1>1, <1>2, <1>3, <1>4, <1>5, <1>6, <1>7 DEF Job, Maintainer

(***************************************************************************)
(* Types.                                                                  *)
(***************************************************************************)
Phases == {"idle", "waiting", "preparing", "publishing", "releasing"} \cup Ended

LEMMA AdvanceType ==
  ASSUME TypeOK, NEW r \in Runs, NEW phase \in Phases, Advance(r, phase)
  PROVE  publish' \in [Runs -> Phases]
BY DEF TypeOK, Advance, Phases

LEMMA TypeStep ==
  ASSUME TypeOK, Started, Next
  PROVE  TypeOK'
<1>a. CASE OutageEnds
  BY <1>a DEF OutageEnds, tags, jobs, TypeOK
<1> SUFFICES ASSUME ~ OutageEnds PROVE TypeOK'
  BY <1>a
<1> PICK s \in Runs : Job(s) \/ Maintainer(s)
  BY DEF Next
<1>0. registry' \in [Packages -> [Versions -> Commits \cup {NoCommit}]]
  BY RegistryKeeps
<1>1. ASSUME NEW t \in Tags, NEW c \in Commits, PushTag(s, t, c) PROVE TypeOK'
  <2>1. attempts' \in [Runs -> 0..MaxAttempts]
    BY <1>1, AttemptsAssumption DEF PushTag, TypeOK
  <2>2. builds' \in [Runs -> [Platforms -> {"idle", "queued", "success", "failure"}]]
    BY <1>1 DEF PushTag, TypeOK
  <2> QED
    BY <1>1, <2>1, <2>2 DEF PushTag, TypeOK
<1>2. CASE RerunFailedJobs(s)
  <2>1. attempts' \in [Runs -> 0..MaxAttempts]
    BY <1>2, AttemptsAssumption DEF RerunFailedJobs, TypeOK
  <2>2. builds' \in [Runs -> [Platforms -> {"idle", "queued", "success", "failure"}]]
    BY <1>2 DEF RerunFailedJobs, TypeOK
  <2> QED
    BY <1>2, <2>1, <2>2 DEF RerunFailedJobs, TypeOK, tags
<1>3. ASSUME NEW p \in Platforms, Build(s, p) PROVE TypeOK'
  <2> DEFINE States == {"idle", "queued", "success", "failure"}
  <2>1. builds \in [Runs -> [Platforms -> States]] /\ artifacts \in [Runs -> SUBSET Platforms]
    BY DEF TypeOK
  <2>2. PICK state \in {"success", "failure"} : builds' = [builds EXCEPT ![s][p] = state]
    BY <1>3 DEF Build
  <2>3. state \in States
    OBVIOUS
  <2> HIDE DEF States
  <2>4. builds' \in [Runs -> [Platforms -> States]]
    BY <2>1, <2>2, <2>3
  <2>5. artifacts' = artifacts \/ artifacts' = [artifacts EXCEPT ![s] = @ \cup {p}]
    BY <1>3 DEF Build
  <2>6. artifacts' \in [Runs -> SUBSET Platforms]
    BY <2>1, <2>5
  <2> QED
    BY <1>3, <2>4, <2>6 DEF Build, TypeOK, States, tags
<1>4. ASSUME NEW p \in Platforms, PublishPlatform(s, p) PROVE TypeOK'
  <2>1. todo' \in [Runs -> SUBSET Platforms] /\ warned' \in [Runs -> SUBSET Platforms]
    <3>1. todo \in [Runs -> SUBSET Platforms] /\ warned \in [Runs -> SUBSET Platforms]
      BY DEF TypeOK
    <3>2. todo' = [todo EXCEPT ![s] = @ \ {p}]
      BY <1>4 DEF PublishPlatform
    <3>3. warned' = warned \/ warned' = [warned EXCEPT ![s] = @ \cup {p}]
      BY <1>4 DEF PublishPlatform
    <3> QED
      BY <3>1, <3>2, <3>3
  <2> QED
    BY <1>0, <1>4, <2>1 DEF PublishPlatform, TypeOK, tags
<1>5. CASE StartPublish(s) \/ SkipPublish(s) \/ JobFails(s)
  <2>1. publish' \in [Runs -> Phases]
    BY <1>5, AdvanceType DEF StartPublish, SkipPublish, JobFails, Phases, Ended
  <2> QED
    BY <1>5, <2>1 DEF StartPublish, SkipPublish, JobFails, TypeOK, Phases, tags
<1>6. CASE Prepare(s)
  <2>1. publish' \in [Runs -> Phases]
    BY <1>6, AdvanceType DEF Prepare, Phases
  <2>2. todo' \in [Runs -> SUBSET Platforms]
    BY <1>6 DEF Prepare, TypeOK
  <2> QED
    BY <1>6, <2>1, <2>2 DEF Prepare, TypeOK, Phases, tags
<1>7. CASE PublishMain(s)
  <2>1. publish' \in [Runs -> Phases]
    BY <1>7, AdvanceType DEF PublishMain, Phases, Ended
  <2> QED
    BY <1>0, <1>7, <2>1 DEF PublishMain, TypeOK, Phases, tags
<1>8. CASE CreateRelease(s)
  <2>1. publish' \in [Runs -> Phases]
    BY <1>8, AdvanceType DEF CreateRelease, Phases, Ended
  <2>2. releases' \subseteq Tags
    BY <1>8 DEF CreateRelease, Started, TypeOK
  <2> QED
    BY <1>8, <2>1, <2>2 DEF CreateRelease, TypeOK, Phases, tags
<1> QED
  BY <1>1, <1>2, <1>3, <1>4, <1>5, <1>6, <1>7, <1>8 DEF Job, Maintainer

LEMMA StartedStep ==
  ASSUME TypeOK, Started, Next
  PROVE  Started'
<1>a. CASE OutageEnds
  BY <1>a DEF OutageEnds, tags, jobs, Started
<1> SUFFICES ASSUME ~ OutageEnds PROVE Started'
  BY <1>a
<1> PICK s \in Runs : Job(s) \/ Maintainer(s)
  BY DEF Next
<1>1. ASSUME NEW t \in Tags, NEW c \in Commits, PushTag(s, t, c) PROVE Started'
  BY <1>1 DEF PushTag, Started, TypeOK
<1>2. CASE RerunFailedJobs(s)
  BY <1>2 DEF RerunFailedJobs, Started, TypeOK, tags
<1>3. ASSUME NEW p \in Platforms, Build(s, p) \/ PublishPlatform(s, p) PROVE Started'
  BY <1>3 DEF Build, PublishPlatform, Started, tags
<1>4. CASE StartPublish(s) \/ SkipPublish(s) \/ Prepare(s)
  BY <1>4 DEF StartPublish, SkipPublish, Prepare, Advance, Started, TypeOK, tags
<1>5. CASE PublishMain(s) \/ CreateRelease(s) \/ JobFails(s)
  BY <1>5 DEF PublishMain, CreateRelease, JobFails, Advance, Started, TypeOK, tags
<1> QED
  BY <1>1, <1>2, <1>3, <1>4, <1>5 DEF Job, Maintainer

(***************************************************************************)
(* The conjuncts of the invariant, one lemma each.                         *)
(***************************************************************************)
LEMMA UploadedStep ==
  ASSUME TypeOK, Started, Uploaded, Next
  PROVE  Uploaded'
<1>a. CASE OutageEnds
  BY <1>a DEF OutageEnds, tags, jobs, Uploaded
<1> SUFFICES ASSUME ~ OutageEnds PROVE Uploaded'
  BY <1>a
<1> PICK s \in Runs : Job(s) \/ Maintainer(s)
  BY DEF Next
<1> SUFFICES ASSUME NEW r \in Runs
             PROVE  /\ \A p \in Platforms : builds'[r][p] = "success" => p \in artifacts'[r]
                    /\ publish'[r] \in {"preparing", "publishing", "releasing"}
                         => artifacts'[r] = Platforms
  BY DEF Uploaded
<1> DEFINE Goal == /\ \A p \in Platforms : builds'[r][p] = "success" => p \in artifacts'[r]
                   /\ publish'[r] \in {"preparing", "publishing", "releasing"}
                        => artifacts'[r] = Platforms
<1>1. ASSUME NEW t \in Tags, NEW c \in Commits, PushTag(s, t, c) PROVE Goal
  BY <1>1 DEF PushTag, Uploaded, TypeOK
<1>2. CASE RerunFailedJobs(s)
  BY <1>2 DEF RerunFailedJobs, Uploaded, TypeOK
<1>3. ASSUME NEW p \in Platforms, Build(s, p) PROVE Goal
  <2>1. artifacts'[r] \in SUBSET Platforms /\ artifacts[r] \subseteq artifacts'[r]
    <3>1. artifacts' = artifacts \/ artifacts' = [artifacts EXCEPT ![s] = @ \cup {p}]
      BY <1>3 DEF Build
    <3> QED
      BY <3>1 DEF TypeOK
  <2>2. ASSUME NEW q \in Platforms, builds'[r][q] = "success" PROVE q \in artifacts'[r]
    <3>1. CASE r = s /\ q = p
      <4>1. builds'[r][q] # "failure"
        BY <2>2
      <4>2. builds' # [builds EXCEPT ![s][p] = "failure"]
        BY <3>1, <4>1 DEF TypeOK
      <4>3. artifacts' = [artifacts EXCEPT ![s] = @ \cup {p}]
        BY <1>3, <4>2 DEF Build
      <4> QED
        BY <3>1, <4>3 DEF TypeOK
    <3>2. CASE ~ (r = s /\ q = p)
      <4>1. builds'[r][q] = builds[r][q]
        BY <1>3, <3>2 DEF Build, TypeOK
      <4> QED
        BY <2>1, <2>2, <4>1 DEF Uploaded
    <3> QED
      BY <3>1, <3>2
  <2> QED
    BY <1>3, <2>1, <2>2 DEF Build, Uploaded
<1>4. ASSUME NEW p \in Platforms, PublishPlatform(s, p) PROVE Goal
  BY <1>4 DEF PublishPlatform, Uploaded
<1>5. CASE StartPublish(s)
  <2>1. artifacts[s] = Platforms
    BY <1>5 DEF StartPublish, BuildsSucceeded, Uploaded, TypeOK
  <2> QED
    BY <1>5, <2>1 DEF StartPublish, Advance, Uploaded, TypeOK
<1>6. CASE SkipPublish(s) \/ Prepare(s) \/ JobFails(s)
  BY <1>6 DEF SkipPublish, Prepare, JobFails, Advance, Uploaded, TypeOK
<1>7. CASE PublishMain(s) \/ CreateRelease(s)
  BY <1>7 DEF PublishMain, CreateRelease, Advance, Uploaded, TypeOK
<1> QED
  BY <1>1, <1>2, <1>3, <1>4, <1>5, <1>6, <1>7 DEF Job, Maintainer

LEMMA BuiltFirstStep ==
  ASSUME TypeOK, Started, Uploaded, BuiltFirst, Next
  PROVE  BuiltFirst'
<1> SUFFICES ASSUME NEW k \in Packages, NEW v \in Versions, registry'[k][v] # NoCommit
             PROVE  \E r \in Runs : commitOf'[r] = registry'[k][v] /\ artifacts'[r] = Platforms
  BY DEF BuiltFirst, Taken
<1>1. ASSUME NEW r \in Runs, commitOf[r] \in Commits, artifacts[r] = Platforms
      PROVE  commitOf'[r] = commitOf[r] /\ artifacts'[r] = Platforms
  <2>1. publish[r] # "idle"
    BY <1>1, NamesAssumption DEF Started
  <2>2. artifacts'[r] \in SUBSET Platforms
    BY TypeStep DEF TypeOK
  <2> QED
    BY <1>1, <2>1, <2>2, RunsKeep DEF Keeps
<1>2. CASE registry[k][v] # NoCommit
  <2>1. registry'[k][v] = registry[k][v] /\ registry[k][v] \in Commits
    BY <1>2, RegistryKeeps DEF TypeOK
  <2> QED
    BY <1>1, <1>2, <2>1 DEF BuiltFirst, Taken
<1>3. CASE registry[k][v] = NoCommit
  <2>1. PICK r \in Runs, l \in Packages : Stores(r, l)
    BY <1>3, RegistryStep
  <2>2. commitOf[r] \in Commits /\ artifacts[r] = Platforms /\ NpmStores(r, l)
    BY <2>1 DEF Stores, Started, Uploaded
  <2>3. v = VersionOf[commitOf[r]] /\ registry'[k][v] = commitOf[r]
    BY <1>3, <2>2, StoresOne
  <2> QED
    BY <1>1, <2>2, <2>3
<1> QED
  BY <1>2, <1>3

LEMMA AttemptedStep ==
  ASSUME TypeOK, Started, Attempted, Next
  PROVE  Attempted'
<1>a. CASE OutageEnds
  BY <1>a DEF OutageEnds, tags, jobs, Attempted, Published
<1> SUFFICES ASSUME ~ OutageEnds PROVE Attempted'
  BY <1>a
<1> PICK s \in Runs : Job(s) \/ Maintainer(s)
  BY DEF Next
<1> SUFFICES ASSUME NEW r \in Runs, NEW p \in Platforms,
                    publish'[r] = "publishing", p \notin todo'[r]
             PROVE  Published(p, commitOf[r])' \/ p \in warned'[r]
  BY DEF Attempted
<1>1. ASSUME publish[r] = "publishing", p \notin todo[r]
      PROVE  Published(p, commitOf[r])' \/ p \in warned'[r]
  <2>1. commitOf[r] \in Commits /\ commitOf'[r] = commitOf[r] /\ warned[r] \subseteq warned'[r]
    BY <1>1, RunsKeep DEF Started, Keeps
  <2>2. Published(p, commitOf[r]) \/ p \in warned[r]
    BY <1>1 DEF Attempted
  <2>3. CASE Published(p, commitOf[r])
    <3> DEFINE c == commitOf[r]
    <3>1. c \in Commits /\ p \in Packages /\ Published(p, c)
      BY <2>1, <2>3 DEF Packages
    <3>2. registry[p][VersionOf[c]] = c /\ VersionOf[c] \in Versions /\ c # NoCommit
      BY <3>1, VersionAssumption, NamesAssumption DEF Published
    <3>3. registry'[p][VersionOf[c]] = c
      BY <3>1, <3>2, RegistryKeeps
    <3> QED
      BY <2>1, <3>3 DEF Published
  <2> QED
    BY <2>1, <2>2, <2>3
<1>2. ASSUME NEW q \in Platforms, PublishPlatform(s, q)
      PROVE  Published(p, commitOf[r])' \/ p \in warned'[r]
  <2>1. CASE r = s /\ p = q
    <3>1. commitOf[r] \in Commits /\ commitOf' = commitOf
      BY <1>2, <2>1 DEF PublishPlatform, Started, tags
    <3>2. CASE NpmStores(s, q)
      <4>1. registry'[p][VersionOf[commitOf[r]]] = commitOf[r]
        BY <2>1, <3>1, <3>2, StoresOne DEF Packages
      <4> QED
        BY <3>1, <4>1 DEF Published
    <3>3. CASE warned' = [warned EXCEPT ![s] = @ \cup {q}]
      BY <2>1, <3>3 DEF TypeOK
    <3> QED
      BY <1>2, <3>2, <3>3 DEF PublishPlatform
  <2>2. CASE ~ (r = s /\ p = q)
    <3>1. publish[r] = "publishing" /\ p \notin todo[r]
      BY <1>2, <2>2 DEF PublishPlatform, TypeOK
    <3> QED
      BY <1>1, <3>1
  <2> QED
    BY <2>1, <2>2
<1>3. CASE Prepare(s)
  <2>1. r # s
    BY <1>3 DEF Prepare, TypeOK
  <2>2. publish[r] = "publishing" /\ p \notin todo[r]
    BY <1>3, <2>1 DEF Prepare, Advance, TypeOK
  <2> QED
    BY <1>1, <2>2
<1>4. CASE StartPublish(s) \/ SkipPublish(s) \/ PublishMain(s) \/ CreateRelease(s) \/ JobFails(s)
  <2>1. publish[r] = "publishing" /\ p \notin todo[r]
    BY <1>4 DEF StartPublish, SkipPublish, PublishMain, CreateRelease, JobFails,
                Advance, TypeOK
  <2> QED
    BY <1>1, <2>1
<1>5. ASSUME NEW q \in Platforms, Build(s, q)
      PROVE  publish[r] = "publishing" /\ p \notin todo[r]
  BY <1>5 DEF Build
<1>6. CASE Maintainer(s)
  <2>1. publish[r] = "publishing" /\ p \notin todo[r]
    BY <1>6 DEF Maintainer, PushTag, RerunFailedJobs, TypeOK
  <2> QED
    BY <1>1, <2>1
<1> QED
  BY <1>1, <1>2, <1>3, <1>4, <1>5, <1>6 DEF Job

LEMMA MismatchStep ==
  ASSUME TypeOK, Started, Attempted, MismatchIsWarned, Next
  PROVE  MismatchIsWarned'
<1> SUFFICES ASSUME NEW c \in Commits, NEW p \in Platforms,
                    Published(Main, c)', ~ Published(p, c)'
             PROVE  \E r \in Runs : commitOf'[r] = c /\ p \in warned'[r]
  BY DEF MismatchIsWarned
<1>1. ~ Published(p, c)
  BY PublishedStays DEF Packages
<1>2. ASSUME NEW r \in Runs, commitOf[r] = c, p \in warned[r]
      PROVE  commitOf'[r] = c /\ p \in warned'[r]
  <2>1. publish[r] # "idle"
    BY <1>2, NamesAssumption DEF Started
  <2> QED
    BY <1>2, <2>1, RunsKeep DEF Keeps
<1>3. CASE Published(Main, c)
  BY <1>1, <1>2, <1>3 DEF MismatchIsWarned
<1>4. CASE ~ Published(Main, c)
  <2>1. registry[Main][VersionOf[c]] # c /\ registry'[Main][VersionOf[c]] = c
    BY <1>4 DEF Published
  <2>2. PICK r \in Runs, k \in Packages : Stores(r, k)
    BY <2>1, RegistryStep
  <2>3. commitOf[r] \in Commits /\ NpmStores(r, k)
    BY <2>2 DEF Stores, Started
  <2>4. Main \in Packages /\ VersionOf[c] \in Versions
    BY VersionAssumption DEF Packages
  <2>5. k = Main /\ VersionOf[c] = VersionOf[commitOf[r]]
    BY <2>1, <2>3, <2>4, StoresOne
  <2>6. commitOf[r] = c
    BY <2>1, <2>3, <2>4, <2>5, StoresOne
  <2>7. publish[r] = "publishing" /\ p \notin todo[r]
    BY <2>2, <2>5 DEF Stores
  <2>8. p \in warned[r]
    BY <1>1, <2>6, <2>7 DEF Attempted
  <2> QED
    BY <1>2, <2>6, <2>8
<1> QED
  BY <1>3, <1>4

LEMMA OwnerStep ==
  ASSUME TypeOK, Started, Owner, Next
  PROVE  Owner'
<1>a. CASE OutageEnds
  BY <1>a DEF OutageEnds, tags, jobs, Owner, Published
<1> SUFFICES ASSUME ~ OutageEnds PROVE Owner'
  BY <1>a
<1> PICK s \in Runs : Job(s) \/ Maintainer(s)
  BY DEF Next
<1>1. ASSUME NEW r \in Runs, publish[r] \in PublishedMain
      PROVE  commitOf[r] \in Commits /\ commitOf'[r] = commitOf[r] /\ Published(Main, commitOf[r])'
  <2> DEFINE c == commitOf[r]
  <2>1. c \in Commits /\ commitOf'[r] = c /\ Published(Main, c)
    BY <1>1, RunsKeep DEF Started, Keeps, Owner, PublishedMain
  <2>2. Main \in Packages /\ registry[Main][VersionOf[c]] = c
        /\ VersionOf[c] \in Versions /\ c # NoCommit
    BY <2>1, VersionAssumption, NamesAssumption DEF Published, Packages
  <2>3. registry'[Main][VersionOf[c]] = c
    BY <2>2, RegistryKeeps
  <2> QED
    BY <2>1, <2>3 DEF Published
<1>2. ASSUME \A r \in Runs : publish'[r] \in PublishedMain => publish[r] \in PublishedMain
      PROVE  Owner'
  <2> SUFFICES ASSUME NEW r \in Runs, publish'[r] \in PublishedMain
               PROVE  /\ Published(Main, commitOf[r])'
                      /\ \A q \in Runs :
                           /\ publish'[q] \in PublishedMain
                           /\ VersionOf[commitOf'[r]] = VersionOf[commitOf'[q]]
                           => r = q
    BY DEF Owner, PublishedMain
  <2> QED
    BY <1>1, <1>2 DEF Owner
<1>3. CASE PublishMain(s) /\ publish' = [publish EXCEPT ![s] = "releasing"]
  <2>1. commitOf[s] \in Commits /\ commitOf' = commitOf /\ Main \in Packages
    BY <1>3 DEF PublishMain, Started, Packages, tags
  <2>2. NpmStores(s, Main)
    BY <1>3 DEF PublishMain, Advance, TypeOK
  <2>3. /\ registry[Main][VersionOf[commitOf[s]]] = NoCommit
        /\ registry'[Main][VersionOf[commitOf[s]]] = commitOf[s]
    BY <2>1, <2>2, StoresOne
  <2>4. ASSUME NEW q \in Runs, publish[q] \in PublishedMain
        PROVE  VersionOf[commitOf[q]] # VersionOf[commitOf[s]]
    BY <2>3, <2>4, <1>1, NamesAssumption DEF Owner, Published
  <2>5. publish'[s] = "releasing" /\ \A q \in Runs \ {s} : publish'[q] = publish[q]
    BY <1>3 DEF TypeOK
  <2> SUFFICES ASSUME NEW r \in Runs, publish'[r] \in PublishedMain
               PROVE  /\ Published(Main, commitOf[r])'
                      /\ \A q \in Runs :
                           /\ publish'[q] \in PublishedMain
                           /\ VersionOf[commitOf'[r]] = VersionOf[commitOf'[q]]
                           => r = q
    BY DEF Owner, PublishedMain
  <2>6. Published(Main, commitOf[r])'
    BY <1>1, <2>1, <2>3, <2>5 DEF Published
  <2>7. ASSUME NEW q \in Runs, publish'[q] \in PublishedMain,
               VersionOf[commitOf'[r]] = VersionOf[commitOf'[q]]
        PROVE  r = q
    BY <2>1, <2>4, <2>5, <2>7 DEF Owner
  <2> QED
    BY <2>6, <2>7
<1>4. CASE CreateRelease(s)
  <2>1. \A r \in Runs : publish'[r] \in PublishedMain => publish[r] \in PublishedMain
    BY <1>4 DEF CreateRelease, Advance, PublishedMain, TypeOK
  <2> QED
    BY <1>2, <2>1
<1>5. CASE PublishMain(s) /\ publish' # [publish EXCEPT ![s] = "releasing"]
  <2>1. publish' = [publish EXCEPT ![s] = "failure"]
    BY <1>5 DEF PublishMain, Advance
  <2>2. \A r \in Runs : publish'[r] \in PublishedMain => publish[r] \in PublishedMain
    BY <2>1 DEF PublishedMain, TypeOK
  <2> QED
    BY <1>2, <2>2
<1>6. CASE StartPublish(s) \/ SkipPublish(s) \/ Prepare(s) \/ JobFails(s) \/ Maintainer(s)
  <2>1. \A r \in Runs : publish'[r] \in PublishedMain => publish[r] \in PublishedMain
    BY <1>6 DEF StartPublish, SkipPublish, Prepare, JobFails, Maintainer, PushTag,
                RerunFailedJobs, Advance, PublishedMain, TypeOK
  <2> QED
    BY <1>2, <2>1
<1>7. ASSUME NEW p \in Platforms, Build(s, p) \/ PublishPlatform(s, p) PROVE Owner'
  <2>1. \A r \in Runs : publish'[r] \in PublishedMain => publish[r] \in PublishedMain
    BY <1>7 DEF Build, PublishPlatform
  <2> QED
    BY <1>2, <2>1
<1> QED
  BY <1>3, <1>4, <1>5, <1>6, <1>7 DEF Job

LEMMA ReleaseStep ==
  ASSUME TypeOK, Started, Owner, Released, Next
  PROVE  Released'
<1> SUFFICES ASSUME NEW t \in releases'
             PROVE  \E r \in Runs : /\ tagOf'[r] = t /\ commitOf'[r] \in Commits
                                   /\ Published(Main, commitOf[r])'
  BY DEF Released
<1>1. ASSUME NEW r \in Runs, tagOf[r] = t, commitOf[r] \in Commits, Published(Main, commitOf[r])
      PROVE  /\ tagOf'[r] = t /\ commitOf'[r] \in Commits
             /\ Published(Main, commitOf[r])'
  <2> DEFINE c == commitOf[r]
  <2>1. publish[r] # "idle"
    BY <1>1, NamesAssumption DEF Started
  <2>2. tagOf'[r] = t /\ commitOf'[r] = c
    BY <1>1, <2>1, RunsKeep DEF Keeps
  <2>3. Main \in Packages /\ c \in Commits /\ Published(Main, c)
    BY <1>1 DEF Packages
  <2>4. registry[Main][VersionOf[c]] = c /\ VersionOf[c] \in Versions /\ c # NoCommit
    BY <2>3, VersionAssumption, NamesAssumption DEF Published
  <2>5. registry'[Main][VersionOf[c]] = c
    BY <2>3, <2>4, RegistryKeeps
  <2> QED
    BY <2>2, <2>3, <2>5 DEF Published
<1>2. CASE t \in releases
  BY <1>1, <1>2 DEF Released
<1>3. ASSUME NEW s \in Runs, CreateRelease(s), t \notin releases
      PROVE  tagOf[s] = t /\ commitOf[s] \in Commits /\ Published(Main, commitOf[s])
  BY <1>3 DEF CreateRelease, Started, Owner, PublishedMain
<1>4. ASSUME NEW s \in Runs, Job(s) \/ Maintainer(s), ~ CreateRelease(s)
      PROVE  releases' = releases
  BY <1>4 DEF Job, Maintainer, PushTag, RerunFailedJobs, Build, PublishPlatform,
              StartPublish, SkipPublish, Prepare, PublishMain, JobFails
<1>5. CASE OutageEnds
  BY <1>2, <1>5 DEF OutageEnds
<1> QED
  BY <1>1, <1>2, <1>3, <1>4, <1>5 DEF Next

-----------------------------------------------------------------------------
LEMMA InvHolds == Spec => []Inv
<1>1. Init => Inv
  <2> SUFFICES ASSUME Init PROVE Inv
    OBVIOUS
  <2>1. TypeOK
    BY AttemptsAssumption DEF Init, TypeOK
  <2>2. Started /\ Uploaded /\ Attempted /\ Owner
    BY DEF Init, Started, Uploaded, Attempted, Owner, PublishedMain
  <2>3. BuiltFirst /\ Released
    BY DEF Init, BuiltFirst, Taken, Released
  <2>4. MismatchIsWarned
    BY VersionAssumption, NamesAssumption DEF Init, MismatchIsWarned, Published, Packages
  <2> QED
    BY <2>1, <2>2, <2>3, <2>4 DEF Inv
<1>2. Inv /\ [Next]_vars => Inv'
  <2>1. CASE Next
    BY <2>1, TypeStep, StartedStep, UploadedStep, AttemptedStep, OwnerStep,
       BuiltFirstStep, MismatchStep, ReleaseStep DEF Inv
  <2>2. CASE UNCHANGED vars
    BY <2>2 DEF Inv, vars, tags, jobs, TypeOK, Started, Uploaded, Attempted, Owner,
                BuiltFirst, Taken, MismatchIsWarned, Released, Published
  <2> QED
    BY <2>1, <2>2
<1> QED
  BY <1>1, <1>2, PTL DEF Spec

(***************************************************************************)
(* Type correctness of the workflow's state.                               *)
(***************************************************************************)
THEOREM TypeCorrect == Spec => []TypeOK
<1>1. Inv => TypeOK
  BY DEF Inv
<1> QED
  BY <1>1, InvHolds, PTL

(***************************************************************************)
(* Nothing is published before its commit has been built for every         *)
(* platform.                                                               *)
(***************************************************************************)
THEOREM AlwaysBuiltFirst == Spec => []BuiltFirst
<1>1. Inv => BuiltFirst
  BY DEF Inv
<1> QED
  BY <1>1, InvHolds, PTL

(***************************************************************************)
(* A platform package that is missing or of another commit was reported by *)
(* a run at the main package's commit.                                     *)
(***************************************************************************)
THEOREM MismatchesAreWarned == Spec => []MismatchIsWarned
<1>1. Inv => MismatchIsWarned
  BY DEF Inv
<1> QED
  BY <1>1, InvHolds, PTL

(***************************************************************************)
(* A GitHub release shows the commit the main package comes from, or its   *)
(* tag has been moved away from that commit.                               *)
(***************************************************************************)
THEOREM ReleasesAnnounceMain == Spec => []ReleaseAnnouncesMain
<1>1. Inv => ReleaseAnnouncesMain
  <2> SUFFICES ASSUME Inv, NEW t \in releases
               PROVE  \/ Published(Main, tagAt[t])
                      \/ \E r \in Runs : MovedAway(t, r) /\ Published(Main, commitOf[r])
    BY DEF ReleaseAnnouncesMain
  <2>1. PICK r \in Runs : tagOf[r] = t /\ Published(Main, commitOf[r])
    BY DEF Inv, Released
  <2>2. CASE tagAt[t] = commitOf[r]
    BY <2>1, <2>2 DEF Published
  <2>3. CASE tagAt[t] # commitOf[r]
    BY <2>1, <2>3 DEF MovedAway
  <2> QED
    BY <2>2, <2>3
<1> QED
  BY <1>1, InvHolds, PTL

(***************************************************************************)
(* Runs for one version exclude each other from success, although nothing  *)
(* but the registry keeps them apart.                                      *)
(***************************************************************************)
THEOREM OneSuccess == Spec => []OneSuccessPerVersion
<1>1. Inv => OneSuccessPerVersion
  BY DEF Inv, Owner, PublishedMain, OneSuccessPerVersion
<1> QED
  BY <1>1, InvHolds, PTL
=============================================================================
