---------------------------- MODULE ReleaseProofs ----------------------------
(* What publishing guarantees for every source, every build of it, and every *)
(* number of runs and failures, if the maintainer never moves a published tag,*)
(* and repeats a run only when Rerun says.                                   *)
EXTENDS Release, TLAPS

-----------------------------------------------------------------------------
(* The inductive invariant.                                                  *)

Past(r) == job[r] \in {"publish", "release", "assets", "edit"}

\* Runs are used in order; one runs and one, later, waits.
OrderInv ==
    /\ \A r \in Runs : status[r] = "none" =>
          job[r] = "validate" /\ \A q \in Runs : q > r => status[q] = "none"
    /\ \A q, r \in Runs :
          /\ status[q] = "queued" /\ status[r] = "queued" => q = r
          /\ status[q] = "running" /\ status[r] = "running" => q = r
          /\ status[q] = "running" /\ status[r] = "queued" => q < r

\* A run has distributions once it is past package, and a run under way is the
\* last that has any.
DistInv ==
    /\ \A r \in Runs :
          IF Past(r) THEN \A k \in Kinds : dist[r][k] # None ELSE dist[r] = Nothing
    /\ \A r \in Active : \A q \in Runs : q > r => dist[q] = Nothing

\* What is on PyPI is from the last run that has distributions.
PypiInv ==
    /\ \E r \in Runs : /\ \A q \in Runs : q > r => dist[q] = Nothing
                       /\ \A k \in Kinds : pypi[k] \in {None, dist[r][k]}
    /\ \A r \in Runs : /\ job[r] = "publish" => \A k \in Kinds \ todo[r] : pypi[k] # None
                       /\ job[r] \in {"release", "assets", "edit"} =>
                             \A k \in Kinds : pypi[k] # None
                       /\ job[r] \in {"validate", "package", "release"} => todo[r] = Kinds

\* Only the one run that is at it touches the release, and only a draft.
DraftInv ==
    /\ \A r \in Runs : job[r] \in {"assets", "edit"} => status[r] \in {"running", "done"}
    /\ \A r \in Runs : status[r] = "running" =>
          /\ job[r] \in {"assets", "edit"} => release = "draft"
          /\ job[r] = "assets" => \A k \in Kinds \ todo[r] : assets[k] = dist[r][k]
          /\ job[r] = "edit" => \A k \in Kinds : assets[k] = dist[r][k]
    /\ SameArtifacts

\* A run past its validation is of a releasable commit, which the tag points to
\* or did at that validation; and its files are of that commit.
TagInv ==
    /\ \A r \in Runs : job[r] # "validate" =>
          /\ ReadRelease(sha[r]) /\ Sources[sha[r]].version = Version
          /\ sha[r] = tagAt \/ sha[r] \in overtaken
    /\ \A r \in Runs, k \in Kinds : dist[r][k] # None =>
          /\ dist[r][k].commit = sha[r]
          /\ dist[r][k].version = Sources[sha[r]].version
    /\ FromTag

ReleaseInv == OrderInv /\ DistInv /\ PypiInv /\ DraftInv /\ TagInv

-----------------------------------------------------------------------------
(* Types.                                                                    *)

\* The initial state has the types.
LEMMA TypeInit == Init => TypeOK
<1> SUFFICES ASSUME Init PROVE TypeOK
  OBVIOUS
<1>1. Nothing \in [Kinds -> Files]
  BY DEF Nothing, Files
<1>2. 0 \in 0..MaxFailures
  BY ReleaseAssumption
<1> QED
  BY <1>1, <1>2 DEF Init, TypeOK, Stopped

\* A distribution of some commit is a file.
LEMMA BuildsAreFiles == ASSUME NEW c \in Commits PROVE Build(c) \subseteq [Kinds -> Files]
<1> SUFFICES ASSUME NEW d \in Build(c) PROVE d \in [Kinds -> Files]
  OBVIOUS
<1>1. \A k \in Kinds : d[k] \in File(c) \cup {None}
  BY DEF Build
<1>2. File(c) \cup {None} \subseteq Files
  BY Zenon DEF Files
<1>3. d = [k \in Kinds |-> d[k]]
  BY DEF Build
<1> QED
  BY <1>1, <1>2, <1>3

\* Every step keeps the types.
LEMMA TypeNext == TypeOK /\ [Next]_vars => TypeOK'
<1> SUFFICES ASSUME TypeOK, [Next]_vars PROVE TypeOK'
  OBVIOUS
<1>0. /\ MaxFailures \in Nat /\ None \notin Commits /\ None \in Files
      /\ \A k \in Kinds : \A r \in Runs : dist[r][k] \in Files
  BY ReleaseAssumption DEF Files, TypeOK
<1>1. ASSUME NEW r \in Runs, NEW c \in Commits, Trigger(r, c), tagAt' \in Commits,
             overtaken' \subseteq Commits \cup {None},
             UNCHANGED <<job, dist, todo, pypi, release, assets, failures>>
      PROVE  TypeOK'
  <2>1. /\ status' \in [Runs -> {"none", "queued", "running", "done"} \cup Stopped]
        /\ \A q \in Runs : status'[q] # "none" => q = r \/ status[q] # "none"
    BY <1>1 DEF TypeOK, Trigger, Queued, Stopped
  <2>2. sha' \in [Runs -> Commits \cup {None}] /\ sha'[r] = c
    BY <1>1 DEF TypeOK, Trigger
  <2>3. \A q \in Runs : status'[q] # "none" => sha'[q] # None
    BY <1>0, <1>1, <2>1, <2>2 DEF TypeOK, Trigger
  <2> QED
    BY <1>1, <2>1, <2>2, <2>3 DEF TypeOK
<1>2. ASSUME NEW r \in Runs, Maintain(r) PROVE TypeOK'
  <2>1. CASE Dispatch(r)
    BY <1>1, <2>1 DEF Dispatch, TypeOK
  <2>2. ASSUME NEW c \in Commits, PushTag(r, c) PROVE TypeOK'
    <3>1. overtaken' \subseteq Commits \cup {None}
      BY <2>2 DEF PushTag, TypeOK
    <3> QED
      BY <1>1, <2>2, <3>1 DEF PushTag
  <2> QED
    BY <1>2, <2>1, <2>2 DEF Maintain
<1>3. ASSUME NEW r \in Runs, Rerun(r) PROVE TypeOK'
  BY <1>3 DEF Rerun, Queued, Stopped, TypeOK
<1>4. ASSUME NEW r \in Runs, Work(r) \/ JobFails(r) PROVE TypeOK'
  <2>1. CASE Starts(r) \/ Validate(r) \/ JobFails(r)
    <3>1. \/ status' = status
          \/ status[r] \in {"queued", "running"} /\ \E s \in {"running", "failed"} :
                status' = [status EXCEPT ![r] = s]
      BY <2>1 DEF Starts, Validate, JobFails, At, Passes, Rejected
    <3>2. /\ status' \in [Runs -> {"none", "queued", "running", "done"} \cup Stopped]
          /\ \A q \in Runs : status'[q] # "none" => status[q] # "none"
      BY <3>1 DEF TypeOK, Stopped
    <3>3. job' \in [Runs -> {"validate", "package", "publish", "release", "assets", "edit"}]
      <4>1. job \in [Runs -> {"validate", "package", "publish", "release", "assets", "edit"}]
        BY DEF TypeOK
      <4>2. CASE UNCHANGED job
        BY <4>1, <4>2
      <4>3. CASE job' = [job EXCEPT ![r] = "package"]
        BY <4>1, <4>3
      <4>4. CASE job' = [job EXCEPT ![r] = IF @ \in {"assets", "edit"} THEN "release" ELSE @]
        BY <4>1, <4>4
      <4> QED
        BY <2>1, <4>2, <4>3, <4>4 DEF Starts, Validate, JobFails, Passes, Rejected
    <3>4. todo' \in [Runs -> SUBSET Kinds] /\ failures' \in 0..MaxFailures
      BY <1>0, <2>1 DEF Starts, Validate, JobFails, TypeOK
    <3>5. UNCHANGED <<tagAt, overtaken, sha, dist, pypi, release, assets>>
      BY <2>1 DEF Starts, Validate, JobFails
    <3> QED
      BY <3>2, <3>3, <3>4, <3>5 DEF TypeOK
  <2>2. CASE Package(r)
    <3>1. sha[r] \in Commits
      BY <2>2 DEF Package, At, TypeOK
    <3>2. PICK d \in Build(sha[r]) :
             \/ Passes(r, "publish") /\ dist' = [dist EXCEPT ![r] = d]
             \/ Rejected(r) /\ UNCHANGED dist
      BY <2>2 DEF Package
    <3>3. d \in [Kinds -> Files]
      BY <3>1, BuildsAreFiles
    <3>4. dist' \in [Runs -> [Kinds -> Files]]
      BY <3>2, <3>3 DEF TypeOK
    <3>5. /\ status' \in [Runs -> {"none", "queued", "running", "done"} \cup Stopped]
          /\ \A q \in Runs : status'[q] # "none" => status[q] # "none"
          /\ job' \in [Runs -> {"validate", "package", "publish", "release", "assets", "edit"}]
      BY <2>2, <3>2 DEF Package, At, Passes, Rejected, Stopped, TypeOK
    <3> QED
      BY <2>2, <3>4, <3>5 DEF Package, TypeOK
  <2>3. ASSUME NEW k \in Kinds, Upload(r, k) \/ ClearAsset(r, k) \/ Attach(r, k) PROVE TypeOK'
    <3>1. /\ pypi' \in [Kinds -> Files] /\ assets' \in [Kinds -> Files]
          /\ todo' \in [Runs -> SUBSET Kinds]
      <4>1. dist[r][k] \in Files /\ None \in Files
        BY <1>0
      <4>2. todo[r] \ {k} \in SUBSET Kinds
        BY DEF TypeOK
      <4>3. CASE Upload(r, k)
        BY <4>1, <4>2, <4>3 DEF Upload, TypeOK
      <4>4. CASE ClearAsset(r, k)
        BY <4>1, <4>4 DEF ClearAsset, TypeOK
      <4>5. CASE Attach(r, k)
        BY <4>1, <4>2, <4>5 DEF Attach, TypeOK
      <4> QED
        BY <2>3, <4>3, <4>4, <4>5
    <3>2. UNCHANGED <<tagAt, overtaken, status, job, sha, dist, release, failures>>
      BY <2>3 DEF Upload, ClearAsset, Attach
    <3> QED
      BY <3>1, <3>2 DEF TypeOK
  <2>4. CASE Published(r) \/ ViewRelease(r) \/ Attached(r) \/ EditRelease(r)
    <3>1. \/ status' = status
          \/ status[r] = "running" /\ status' = [status EXCEPT ![r] = "done"]
      BY <2>4 DEF Published, ViewRelease, Attached, EditRelease, At, Passes
    <3>2. /\ status' \in [Runs -> {"none", "queued", "running", "done"} \cup Stopped]
          /\ \A q \in Runs : status'[q] # "none" => status[q] # "none"
      BY <3>1 DEF TypeOK
    <3>3. /\ job' \in [Runs -> {"validate", "package", "publish", "release", "assets", "edit"}]
          /\ todo' \in [Runs -> SUBSET Kinds] /\ release' \in {"none", "draft", "published"}
      <4>1. CASE Published(r)
        BY <4>1 DEF Published, Passes, TypeOK
      <4>2. CASE ViewRelease(r)
        BY <4>2 DEF ViewRelease, Passes, TypeOK
      <4>3. CASE Attached(r) \/ EditRelease(r)
        BY <4>3 DEF Attached, EditRelease, Passes, TypeOK
      <4> QED
        BY <2>4, <4>1, <4>2, <4>3
    <3>4. UNCHANGED <<tagAt, overtaken, sha, dist, pypi, assets, failures>>
      BY <2>4 DEF Published, ViewRelease, Attached, EditRelease
    <3> QED
      BY <3>2, <3>3, <3>4 DEF TypeOK
  <2> QED
    BY <1>4, <2>1, <2>2, <2>3, <2>4 DEF Work
<1>5. CASE UNCHANGED vars
  BY <1>5 DEF vars, TypeOK
<1> QED
  BY <1>2, <1>3, <1>4, <1>5 DEF Next

-----------------------------------------------------------------------------
(* The order of the runs.                                                    *)

\* Where a step of a run leaves the runs.
LEMMA RunStep ==
    ASSUME TypeOK, NEW r \in Runs, Work(r) \/ JobFails(r)
    PROVE  /\ \A q \in Runs \ {r} : /\ status'[q] = status[q] /\ job'[q] = job[q]
                                    /\ todo'[q] = todo[q] /\ dist'[q] = dist[q]
           /\ r \in Active
           /\ status'[r] \in {"running", "failed", "done"}
           /\ UNCHANGED <<tagAt, overtaken, sha>>
  <1>1. CASE Starts(r)
    BY <1>1 DEF Starts, Active, TypeOK
  <1>2. CASE Validate(r)
    BY <1>2 DEF Validate, Active, At, Passes, Rejected, TypeOK
  <1>3. CASE Package(r)
    BY <1>3 DEF Package, Active, At, Passes, Rejected, TypeOK
  <1>4. ASSUME NEW k \in Kinds, Upload(r, k) \/ ClearAsset(r, k) \/ Attach(r, k)
        PROVE  /\ UNCHANGED <<tagAt, overtaken, status, job, sha, dist>> /\ status[r] = "running"
               /\ \A q \in Runs \ {r} : todo'[q] = todo[q]
    BY <1>4 DEF Upload, ClearAsset, Attach, At, TypeOK
  <1>5. CASE Published(r) \/ ViewRelease(r) \/ Attached(r) \/ EditRelease(r)
    BY <1>5 DEF Published, ViewRelease, Attached, EditRelease, Active, At, Passes, TypeOK
  <1>6. CASE JobFails(r)
    BY <1>6 DEF JobFails, Active, TypeOK
  <1> QED
    BY <1>1, <1>2, <1>3, <1>4, <1>5, <1>6 DEF Work, Active

\* The tag is moved, and the runs that are past their validation are left behind.
Overtakes ==
    /\ pypi = Nothing
    /\ \A q \in Runs : job[q] # "validate" => sha[q] \in overtaken'

\* Where the maintainer leaves them: the run that is queued is new, or it is the
\* only one under way.
LEMMA QueueStep ==
    ASSUME TypeOK, Strict, NEW r \in Runs, Maintain(r) \/ Rerun(r)
    PROVE  /\ status' = Queued(r)
           /\ \/ Unused(r) /\ (\A q \in Runs \ {r} : sha'[q] = sha[q])
              \/ status[r] \in Stopped /\ Active = {} /\ UNCHANGED sha
                 /\ \A q \in Runs : q > r => dist[q] = Nothing
           /\ UNCHANGED <<job, dist, todo, pypi, release, assets>>
           /\ overtaken \subseteq overtaken'
           /\ tagAt' = tagAt \/ Overtakes
  <1>1. CASE Rerun(r)
    BY <1>1 DEF Rerun
  <1>2. CASE Dispatch(r)
    BY <1>2 DEF Dispatch, Trigger, TypeOK
  <1>3. ASSUME NEW c \in Commits, PushTag(r, c)
        PROVE  /\ status' = Queued(r)
               /\ Unused(r) /\ (\A q \in Runs \ {r} : sha'[q] = sha[q])
               /\ UNCHANGED <<job, dist, todo, pypi, release, assets>>
               /\ overtaken \subseteq overtaken' /\ Overtakes
    BY <1>3 DEF PushTag, Trigger, Overtakes, TypeOK
  <1> QED
    BY <1>1, <1>2, <1>3 DEF Maintain

\* Every step keeps OrderInv.
LEMMA OrderNext == Strict /\ TypeOK /\ OrderInv /\ [Next]_vars => OrderInv'
<1> SUFFICES ASSUME Strict, TypeOK, OrderInv, [Next]_vars PROVE OrderInv'
  OBVIOUS
<1>0. \A q, r \in Runs : q < r \/ q = r \/ r < q
  BY DEF Runs
<1>1. ASSUME NEW r \in Runs, Maintain(r) \/ Rerun(r) PROVE OrderInv'
  <2>1. /\ status'[r] = "queued"
        /\ \A q \in Runs \ {r} : status'[q] = IF status[q] = "queued" THEN "cancelled"
                                              ELSE status[q]
        /\ UNCHANGED job
    BY <1>1, QueueStep DEF Queued
  <2>2. \A q \in Runs : status[q] = "running" => q < r
    BY <1>0, <1>1, QueueStep DEF Unused, OrderInv, Active
  <2>3. \A q \in Runs : r > q => status[q] # "none"
    BY <1>1, QueueStep DEF Unused, OrderInv, Stopped
  <2> QED
    BY <2>1, <2>2, <2>3, <1>0 DEF OrderInv
<1>2. ASSUME NEW r \in Runs, Work(r) \/ JobFails(r) PROVE OrderInv'
  <2>1. \A q \in Runs \ {r} : status'[q] = status[q] /\ job'[q] = job[q]
    BY <1>2, RunStep
  <2>2. status'[r] \in {"running", "failed", "done"} /\ r \in Active
    BY <1>2, RunStep
  <2>3. \/ status[r] = "running"
        \/ status[r] = "queued" /\ \A q \in Runs : status[q] # "running"
    BY <1>2, RunStep DEF Work, JobFails, Starts, Validate, Package, Upload, ClearAsset, Attach,
       Published, ViewRelease, Attached, EditRelease, At
  <2> QED
    BY <2>1, <2>2, <2>3, <1>0 DEF OrderInv, Active
<1>3. CASE UNCHANGED vars
  BY <1>3 DEF vars, OrderInv
<1> QED
  BY <1>1, <1>2, <1>3 DEF Next

-----------------------------------------------------------------------------
(* Where distributions come from.                                            *)

\* The one step that gives a run distributions.
Packaged(r) ==
    /\ At(r, "package") /\ job' = [job EXCEPT ![r] = "publish"]
    /\ \E d \in Build(sha[r]) : /\ ValidateArtifacts(d, sha[r]) /\ VerifyPypi(d)
                               /\ dist' = [dist EXCEPT ![r] = d]
    /\ UNCHANGED <<tagAt, overtaken, status, sha, todo, pypi, release, assets>>

\* Every other step leaves them alone.
LEMMA PackageStep ==
    ASSUME TypeOK, NEW r \in Runs, Work(r) \/ JobFails(r)
    PROVE  Packaged(r) \/ (UNCHANGED dist /\ (Past(r)' <=> Past(r)))
  <1>1. CASE Starts(r)
    BY <1>1 DEF Starts, Past
  <1>2. CASE Validate(r)
    BY <1>2 DEF Validate, At, Passes, Rejected, Past, TypeOK
  <1>3. CASE Package(r)
    BY <1>3 DEF Package, Packaged, Passes, Rejected, Past
  <1>4. ASSUME NEW k \in Kinds, Upload(r, k) \/ ClearAsset(r, k) \/ Attach(r, k)
        PROVE  UNCHANGED <<dist, job>>
    BY <1>4 DEF Upload, ClearAsset, Attach
  <1>5. CASE Published(r) \/ ViewRelease(r) \/ Attached(r) \/ EditRelease(r)
    BY <1>5 DEF Published, ViewRelease, Attached, EditRelease, At, Passes, Past, TypeOK
  <1>6. CASE JobFails(r)
    BY <1>6 DEF JobFails, Past, TypeOK
  <1> QED
    BY <1>1, <1>2, <1>3, <1>4, <1>5, <1>6 DEF Work, Past

\* Every step keeps DistInv.
LEMMA DistNext == Strict /\ TypeOK /\ OrderInv /\ DistInv /\ [Next]_vars => DistInv'
<1> SUFFICES ASSUME Strict, TypeOK, OrderInv, DistInv, [Next]_vars PROVE DistInv'
  OBVIOUS
<1>0. \A q, r \in Runs : (q < r \/ q = r \/ r < q) /\ ~(q < r /\ r < q)
  BY DEF Runs
<1>1. ASSUME NEW r \in Runs, Maintain(r) \/ Rerun(r) PROVE DistInv'
  <2>1. UNCHANGED <<job, dist>>
    BY <1>1, QueueStep
  <2>2. Active' \subseteq Active \cup {r}
    BY <1>1, QueueStep DEF Active, Queued
  <2>3. \A q \in Runs : q > r => dist[q] = Nothing
    BY <1>1, QueueStep DEF Unused, OrderInv, DistInv, Past
  <2> QED
    BY <2>1, <2>2, <2>3 DEF DistInv, Past
<1>2. ASSUME NEW r \in Runs, Work(r) \/ JobFails(r) PROVE DistInv'
  <2>1. Active' \subseteq Active /\ r \in Active
    BY <1>2, RunStep DEF Active
  <2>2. \A q \in Runs \ {r} : job'[q] = job[q] /\ dist'[q] = dist[q]
    BY <1>2, RunStep
  <2>3. CASE UNCHANGED dist /\ (Past(r)' <=> Past(r))
    BY <2>1, <2>2, <2>3 DEF DistInv, Past
  <2>4. CASE Packaged(r)
    <3>1. Past(r)' /\ \A k \in Kinds : dist'[r][k] # None
      BY <2>4 DEF Packaged, ValidateArtifacts, Past, TypeOK
    <3>2. \A p \in Active \ {r} : r < p
      BY <1>0, <2>4 DEF Packaged, At, Active, OrderInv
    <3>3. \A q \in Runs \ {r} : Past(q)' <=> Past(q)
      BY <2>2 DEF Past
    <3> QED
      BY <1>0, <2>1, <2>2, <3>1, <3>2, <3>3 DEF DistInv, Active
  <2> QED
    BY <1>2, <2>3, <2>4, PackageStep
<1>3. CASE UNCHANGED vars
  BY <1>3 DEF vars, DistInv, Past, Active
<1> QED
  BY <1>1, <1>2, <1>3 DEF Next

-----------------------------------------------------------------------------
(* What is on PyPI, and in the release.                                      *)

\* A run under way that has distributions has those that PyPI has.
LEMMA ActiveMatches ==
    ASSUME TypeOK, DistInv, PypiInv, NEW r \in Active, Past(r)
    PROVE  \A k \in Kinds : pypi[k] \in {None, dist[r][k]}
  <1>1. r \in Runs /\ dist[r] # Nothing /\ \A q \in Runs : q > r => dist[q] = Nothing
    BY DEF DistInv, Active, Nothing, Kinds
  <1>2. PICK w \in Runs : /\ \A q \in Runs : q > w => dist[q] = Nothing
                          /\ \A k \in Kinds : pypi[k] \in {None, dist[w][k]}
    BY DEF PypiInv
  <1>3. w = r \/ w > r
    BY <1>1, <1>2 DEF Runs
  <1>4. CASE w > r
    BY <1>1, <1>2, <1>4 DEF Nothing
  <1> QED
    BY <1>2, <1>3, <1>4

\* Every step keeps PypiInv.
LEMMA PypiNext ==
    Strict /\ TypeOK /\ OrderInv /\ DistInv /\ PypiInv /\ [Next]_vars => PypiInv'
<1> SUFFICES ASSUME Strict, TypeOK, OrderInv, DistInv, PypiInv, [Next]_vars PROVE PypiInv'
  OBVIOUS
<1>1. ASSUME UNCHANGED <<dist, pypi, job, todo>> PROVE PypiInv'
  BY <1>1 DEF PypiInv
<1>2. ASSUME NEW r \in Runs, Maintain(r) \/ Rerun(r) PROVE PypiInv'
  BY <1>1, <1>2, QueueStep
<1>3. ASSUME NEW r \in Runs, Work(r) \/ JobFails(r) PROVE PypiInv'
  <2>0. \A q \in Runs \ {r} : job'[q] = job[q] /\ todo'[q] = todo[q] /\ dist'[q] = dist[q]
    BY <1>3, RunStep
  <2>1. CASE Packaged(r)
    <3>1. PICK d \in Build(sha[r]) : VerifyPypi(d) /\ dist' = [dist EXCEPT ![r] = d]
      BY <2>1 DEF Packaged
    <3>2. \A q \in Runs : q > r => dist'[q] = Nothing
      BY <2>1, <3>1 DEF Packaged, At, DistInv, Active, TypeOK, Runs
    <3>3. \A k \in Kinds : pypi'[k] \in {None, dist'[r][k]}
      BY <2>1, <3>1 DEF Packaged, VerifyPypi, TypeOK
    <3>4. job'[r] = "publish" /\ todo'[r] = Kinds /\ UNCHANGED pypi
      BY <2>1 DEF Packaged, At, PypiInv, TypeOK
    <3> QED
      BY <2>0, <3>2, <3>3, <3>4 DEF PypiInv
  <2>2. ASSUME NEW k \in Kinds, Upload(r, k) PROVE PypiInv'
    <3>1. r \in Active /\ Past(r) /\ job'[r] = "publish" /\ UNCHANGED <<dist, job>>
      BY <2>2 DEF Upload, At, Active, Past
    <3>2. \A q \in Runs : q > r => dist'[q] = Nothing
      BY <3>1 DEF DistInv
    <3>3. dist[r][k] # None
      BY <3>1 DEF DistInv
    <3>4. /\ \A j \in Kinds \ {k} : pypi'[j] = pypi[j]
          /\ pypi'[k] # None /\ pypi'[k] \in {pypi[k], dist[r][k]}
          /\ todo'[r] = todo[r] \ {k}
      BY <2>2, <3>3 DEF Upload, TypeOK
    <3>5. \A j \in Kinds : pypi'[j] \in {None, dist'[r][j]}
      BY <3>1, <3>4, ActiveMatches
    <3>6. \A j \in Kinds : pypi[j] # None => pypi'[j] # None
      BY <3>4
    <3>7. \A j \in Kinds \ todo'[r] : pypi'[j] # None
      BY <3>1, <3>4, <3>6 DEF PypiInv
    <3> QED
      BY <2>0, <3>1, <3>2, <3>5, <3>6, <3>7 DEF PypiInv
  <2>3. ASSUME UNCHANGED <<dist, pypi>>,
               \/ job'[r] = job[r] /\ todo'[r] = todo[r]
               \/ job'[r] = "package" /\ job[r] = "validate" /\ todo'[r] = todo[r]
               \/ job'[r] = job[r] /\ todo'[r] = Kinds
               \/ /\ job'[r] = "release" /\ todo'[r] = Kinds
                  /\ \/ job[r] \in {"assets", "edit"}
                     \/ job[r] = "publish" /\ todo[r] = {}
               \/ job'[r] \in {"assets", "edit"} /\ job[r] \in {"release", "assets"}
        PROVE  PypiInv'
    BY <2>0, <2>3 DEF PypiInv
  <2>4. CASE Starts(r)
    BY <1>1, <2>4 DEF Starts
  <2>5. CASE Validate(r)
    BY <2>3, <2>5 DEF Validate, At, Passes, Rejected, TypeOK
  <2>6. CASE Package(r)
    BY <1>1, <2>1, <2>6 DEF Package, Packaged, Passes, Rejected
  <2>7. ASSUME NEW k \in Kinds, ClearAsset(r, k) \/ Attach(r, k) PROVE PypiInv'
    BY <2>3, <2>7 DEF ClearAsset, Attach, At
  <2>8. CASE Published(r)
    BY <2>3, <2>8 DEF Published, At, Passes, TypeOK
  <2>9. CASE ViewRelease(r) \/ Attached(r) \/ EditRelease(r)
    BY <2>3, <2>9 DEF ViewRelease, Attached, EditRelease, At, Passes, TypeOK
  <2>10. CASE JobFails(r)
    BY <2>3, <2>10 DEF JobFails, TypeOK
  <2> QED
    BY <1>3, <2>2, <2>4, <2>5, <2>6, <2>7, <2>8, <2>9, <2>10 DEF Work
<1>4. CASE UNCHANGED vars
  BY <1>1, <1>4 DEF vars
<1> QED
  BY <1>2, <1>3, <1>4 DEF Next

\* Every step keeps DraftInv.
LEMMA DraftNext ==
    Strict /\ TypeOK /\ OrderInv /\ DistInv /\ PypiInv /\ DraftInv /\ [Next]_vars => DraftInv'
<1> SUFFICES ASSUME Strict, TypeOK, OrderInv, DistInv, PypiInv, DraftInv, [Next]_vars
             PROVE  DraftInv'
  OBVIOUS
<1>1. ASSUME NEW r \in Runs, Maintain(r) \/ Rerun(r) PROVE DraftInv'
  <2>1. /\ \A q \in Runs : status'[q] = "running" <=> status[q] = "running" /\ q # r
        /\ UNCHANGED <<job, todo, dist, pypi, release, assets>>
    BY <1>1, QueueStep DEF Queued, Unused, Stopped, Active
  <2>2. \A q \in Runs : status'[q] = "done" <=> status[q] = "done"
    BY <1>1, QueueStep DEF Queued, Unused, Stopped, Active
  <2>3. status[r] \notin {"running", "done"}
    BY <1>1, QueueStep DEF Unused, Stopped
  <2> QED
    BY <2>1, <2>2, <2>3 DEF DraftInv, SameArtifacts
<1>2. ASSUME NEW r \in Runs, Work(r) \/ JobFails(r) PROVE DraftInv'
  <2>0. \A q \in Runs \ {r} : /\ status'[q] = status[q] /\ job'[q] = job[q]
                             /\ todo'[q] = todo[q] /\ dist'[q] = dist[q]
    BY <1>2, RunStep
  <2>1. CASE Starts(r)
    <3>1. job[r] \notin {"assets", "edit"}
      BY <2>1 DEF Starts, DraftInv
    <3> QED
      BY <2>0, <2>1, <3>1 DEF Starts, DraftInv, SameArtifacts
  <2>2. status[r] = "running" => \A q \in Runs \ {r} : status[q] # "running"
    BY DEF OrderInv
  <2>3. ASSUME status[r] = "running", job'[r] \notin {"assets", "edit"},
               UNCHANGED <<pypi, release, assets>>
        PROVE  DraftInv'
    BY <2>0, <2>2, <2>3 DEF DraftInv, SameArtifacts
  <2>4. CASE Validate(r) \/ Package(r) \/ Published(r)
    BY <2>3, <2>4 DEF Validate, Package, Published, At, Passes, Rejected, TypeOK
  <2>5. CASE JobFails(r)
    BY <2>3, <2>5 DEF JobFails, TypeOK
  <2>6. ASSUME NEW k \in Kinds, Upload(r, k) PROVE DraftInv'
    <3>1. /\ \A j \in Kinds : pypi[j] # None => pypi'[j] = pypi[j]
          /\ pypi \in [Kinds -> Files] /\ pypi' \in [Kinds -> Files]
      BY <2>6, TypeNext DEF Upload, TypeOK
    <3>2. release = "published" => pypi' = pypi
      BY <3>1 DEF DraftInv, SameArtifacts
    <3>3. status[r] = "running" /\ job'[r] = "publish" /\ UNCHANGED <<status, release, assets>>
      BY <2>6 DEF Upload, At
    <3> QED
      BY <2>0, <2>2, <3>2, <3>3 DEF DraftInv, SameArtifacts
  <2>7. CASE ViewRelease(r)
    <3>1. CASE release = "published"
      BY <2>0, <2>2, <2>7, <3>1 DEF ViewRelease, At, DraftInv, SameArtifacts, Passes, TypeOK
    <3>2. CASE release # "published"
      <4>1. /\ status[r] = "running" /\ status' = status /\ job'[r] = "assets"
            /\ release' = "draft" /\ todo'[r] = Kinds
        BY <2>7, <3>2 DEF ViewRelease, At, Passes, PypiInv, TypeOK
      <4> QED
        BY <2>0, <2>2, <4>1 DEF DraftInv, SameArtifacts
    <3> QED
      BY <3>1, <3>2
  <2>8. ASSUME NEW k \in Kinds, ClearAsset(r, k) \/ Attach(r, k) PROVE DraftInv'
    <3>1. /\ status[r] = "running" /\ job[r] = "assets" /\ k \in todo[r] /\ release = "draft"
          /\ UNCHANGED <<status, job, dist, pypi, release>>
      BY <2>8 DEF ClearAsset, Attach, At, DraftInv
    <3>2. \A j \in Kinds \ todo'[r] : assets'[j] = dist[r][j]
      <4>1. CASE ClearAsset(r, k)
        BY <3>1, <4>1 DEF ClearAsset, DraftInv, TypeOK
      <4>2. CASE Attach(r, k)
        BY <3>1, <4>2 DEF Attach, DraftInv, TypeOK
      <4> QED
        BY <2>8, <4>1, <4>2
    <3> QED
      BY <2>0, <2>2, <3>1, <3>2 DEF DraftInv, SameArtifacts
  <2>9. CASE Attached(r)
    <3>1. /\ status[r] = "running" /\ job[r] = "assets" /\ job'[r] = "edit" /\ todo[r] = {}
          /\ UNCHANGED <<status, dist, pypi, release, assets>>
      BY <2>9 DEF Attached, At, Passes, TypeOK
    <3> QED
      BY <2>0, <2>2, <3>1 DEF DraftInv, SameArtifacts
  <2>10. CASE EditRelease(r)
    <3>1. /\ status[r] = "running" /\ job[r] = "edit" /\ status'[r] = "done"
          /\ UNCHANGED <<job, dist, pypi, assets>>
      BY <2>10 DEF EditRelease, At, TypeOK
    <3>2. r \in Active /\ Past(r)
      BY <3>1 DEF Active, Past
    <3>3. \A k \in Kinds : pypi[k] # None /\ pypi[k] = dist[r][k] /\ assets[k] = dist[r][k]
      BY <3>1, <3>2, ActiveMatches DEF PypiInv, DraftInv
    <3>4. assets = pypi
      BY <3>3 DEF TypeOK
    <3> QED
      BY <2>0, <2>2, <3>1, <3>3, <3>4 DEF DraftInv, SameArtifacts
  <2> QED
    BY <1>2, <2>1, <2>4, <2>5, <2>6, <2>7, <2>8, <2>9, <2>10 DEF Work
<1>3. CASE UNCHANGED vars
  BY <1>3 DEF vars, DraftInv, SameArtifacts
<1> QED
  BY <1>1, <1>2, <1>3 DEF Next

\* Every step keeps TagInv.
LEMMA TagNext ==
    Strict /\ TypeOK /\ OrderInv /\ DistInv /\ TagInv /\ [Next]_vars => TagInv'
<1> SUFFICES ASSUME Strict, TypeOK, OrderInv, DistInv, TagInv, [Next]_vars PROVE TagInv'
  OBVIOUS
<1>1. ASSUME NEW r \in Runs, Maintain(r) \/ Rerun(r) PROVE TagInv'
  <2>0. UNCHANGED <<job, dist, pypi>>
    BY <1>1, QueueStep
  <2>1. \A q \in Runs \ {r} : sha'[q] = sha[q]
    BY <1>1, QueueStep
  <2>2. sha'[r] = sha[r] \/ (job[r] = "validate" /\ dist[r] = Nothing)
    BY <1>1, QueueStep DEF Unused, OrderInv, DistInv, Past
  <2>3. /\ overtaken \subseteq overtaken'
        /\ \/ tagAt' = tagAt
           \/ (\A k \in Kinds : pypi[k] = None)
              /\ \A q \in Runs : job[q] # "validate" => sha[q] \in overtaken'
    BY <1>1, QueueStep DEF Overtakes, Nothing
  <2>4. FromTag'
    BY <2>0, <2>3 DEF TagInv, FromTag, ReadRelease
  <2>5. \A q \in Runs : job'[q] # "validate" =>
          /\ ReadRelease(sha[q])' /\ Sources[sha'[q]].version = Version
          /\ sha'[q] = tagAt' \/ sha'[q] \in overtaken'
    BY <2>0, <2>1, <2>2, <2>3 DEF TagInv, ReadRelease
  <2>6. \A q \in Runs, k \in Kinds : dist'[q][k] # None =>
          /\ dist'[q][k].commit = sha'[q]
          /\ dist'[q][k].version = Sources[sha'[q]].version
    BY <2>0, <2>1, <2>2 DEF TagInv, Nothing
  <2> QED
    BY <2>4, <2>5, <2>6 DEF TagInv, ReadRelease
<1>2. ASSUME NEW r \in Runs, Work(r) \/ JobFails(r) PROVE TagInv'
  <2>0. /\ \A q \in Runs \ {r} : job'[q] = job[q] /\ dist'[q] = dist[q]
        /\ UNCHANGED <<tagAt, overtaken, sha>> /\ Active' \subseteq Active /\ r \in Active
    BY <1>2, RunStep DEF Active
  <2>1. \A q \in Runs : job'[q] # "validate" =>
          /\ ReadRelease(sha[q])' /\ Sources[sha'[q]].version = Version
          /\ sha'[q] = tagAt' \/ sha'[q] \in overtaken'
    <3>1. job[r] = "validate" /\ job'[r] # "validate" =>
             ReadRelease(sha[r]) /\ ValidateTag(sha[r])
      BY <1>2 DEF Work, JobFails, Starts, Validate, Package, Upload, ClearAsset, Attach,
         Published, ViewRelease, Attached, EditRelease, At, Passes, Rejected, TypeOK
    <3> QED
      BY <2>0, <3>1 DEF TagInv, ReadRelease, ValidateTag
  <2>2. \A q \in Runs, k \in Kinds : dist'[q][k] # None =>
          /\ dist'[q][k].commit = sha'[q]
          /\ dist'[q][k].version = Sources[sha'[q]].version
    <3>1. CASE UNCHANGED dist
      BY <2>0, <3>1 DEF TagInv
    <3>2. CASE Packaged(r)
      <4>1. PICK d \in Build(sha[r]) :
               ValidateArtifacts(d, sha[r]) /\ dist' = [dist EXCEPT ![r] = d]
        BY <3>2 DEF Packaged
      <4>2. dist'[r] = d
        BY <4>1 DEF TypeOK
      <4>3. \A k \in Kinds : /\ d[k] \in File(sha[r])
                            /\ d[k].version = Sources[sha[r]].version
        BY <4>1 DEF ValidateArtifacts, Build
      <4>4. \A k \in Kinds : d[k].commit = sha[r]
        BY <4>3 DEF File
      <4> QED
        BY <2>0, <4>2, <4>3, <4>4 DEF TagInv
    <3> QED
      BY <1>2, <3>1, <3>2, PackageStep
  <2>3. FromTag'
    <3>1. CASE UNCHANGED pypi
      BY <2>0, <3>1 DEF TagInv, FromTag, ReadRelease
    <3>2. ASSUME NEW k \in Kinds, Upload(r, k) PROVE FromTag'
      <4>1. /\ \A j \in Kinds \ {k} : pypi'[j] = pypi[j]
            /\ pypi'[k] \in {pypi[k], dist[r][k]} /\ job[r] = "publish"
        BY <3>2 DEF Upload, At, TypeOK
      <4>2. /\ dist[r][k] # None /\ ReadRelease(sha[r]) /\ Sources[sha[r]].version = Version
            /\ sha[r] = tagAt \/ sha[r] \in overtaken
        BY <4>1 DEF DistInv, Past, TagInv
      <4>3. dist[r][k].commit = sha[r] /\ dist[r][k].version = Version
        BY <4>2 DEF TagInv
      <4> QED
        BY <2>0, <4>1, <4>2, <4>3 DEF TagInv, FromTag, ReadRelease
    <3> QED
      BY <1>2, <3>1, <3>2 DEF Work, JobFails, Starts, Validate, Package, ClearAsset, Attach,
         Published, ViewRelease, Attached, EditRelease
  <2> QED
    BY <2>1, <2>2, <2>3 DEF TagInv, ReadRelease
<1>3. CASE UNCHANGED vars
  BY <1>3 DEF vars, TagInv, FromTag, ReadRelease, Active
<1> QED
  BY <1>1, <1>2, <1>3 DEF Next

-----------------------------------------------------------------------------
(* The theorems.                                                             *)

\* The invariant holds initially.
LEMMA ReleaseInit == Init => ReleaseInv
<1> SUFFICES ASSUME Init PROVE ReleaseInv
  OBVIOUS
<1>1. 1 \in Runs
  BY ReleaseAssumption DEF Runs
<1>2. \A r \in Runs : /\ status[r] = "none" /\ job[r] = "validate" /\ dist[r] = Nothing
                     /\ todo[r] = Kinds
  BY DEF Init
<1>3. \A k \in Kinds : pypi[k] = None
  BY DEF Init, Nothing
<1>4. OrderInv /\ DistInv
  BY <1>2 DEF OrderInv, DistInv, Past, Active
<1>5. PypiInv
  BY <1>1, <1>2, <1>3 DEF PypiInv
<1>6. DraftInv
  BY <1>2 DEF Init, DraftInv, SameArtifacts
<1>7. TagInv
  BY <1>2, <1>3 DEF TagInv, FromTag, Nothing
<1> QED
  BY <1>4, <1>5, <1>6, <1>7 DEF ReleaseInv

\* The invariant, with the types it needs, holds throughout.
LEMMA Invariant == ASSUME Strict PROVE Spec => [](TypeOK /\ ReleaseInv)
<1>1. Init => TypeOK /\ ReleaseInv
  BY TypeInit, ReleaseInit
<1>2. TypeOK /\ ReleaseInv /\ [Next]_vars => (TypeOK /\ ReleaseInv)'
  BY TypeNext, OrderNext, DistNext, PypiNext, DraftNext, TagNext DEF ReleaseInv
<1> QED
  BY <1>1, <1>2, PTL DEF Spec

\* Type correctness of the workflow's runs, of PyPI and of the release.
THEOREM TypeCorrect == Spec => []TypeOK
  BY TypeInit, TypeNext, PTL DEF Spec

\* However many runs upload files, and stop half-way, PyPI never has files of
\* two different builds (docs/releasing.md, Failures and retries).
THEOREM PypiHasOneBuild == ASSUME Strict PROVE Spec => []OneBuild
<1>1. TypeOK /\ ReleaseInv => OneBuild
  BY DEF ReleaseInv, PypiInv, OneBuild
<1> QED
  BY <1>1, Invariant, PTL

\* "There is no second build between PyPI and GitHub."
THEOREM ReleaseHasThePackage == ASSUME Strict PROVE Spec => []SameArtifacts
<1>1. TypeOK /\ ReleaseInv => SameArtifacts
  BY DEF ReleaseInv, DraftInv
<1> QED
  BY <1>1, Invariant, PTL

\* What is public says the version of the tag, and was built from a releasable
\* commit that the tag points to, or did when the run was validated.  The tag may
\* be moved at any time before that (docs/releasing.md, "Validate").
THEOREM PublicIsTagged == ASSUME Strict PROVE Spec => []FromTag
<1>1. TypeOK /\ ReleaseInv => FromTag
  BY DEF ReleaseInv, TagInv
<1> QED
  BY <1>1, Invariant, PTL

\* "An already-published GitHub Release is left intact", by every run that is
\* started or repeated after it.
THEOREM ReleasesStay == ASSUME Strict PROVE Spec => PublishedIntact
<1>1. TypeOK /\ ReleaseInv /\ [Next]_vars =>
         [release = "published" => UNCHANGED <<release, assets, pypi>>]_vars
  <2> SUFFICES ASSUME TypeOK, ReleaseInv, Next, release = "published"
               PROVE  UNCHANGED <<release, assets, pypi>>
    OBVIOUS
  <2>1. \A k \in Kinds : pypi[k] # None
    BY DEF ReleaseInv, DraftInv, SameArtifacts
  <2>2. \A r \in Runs : status[r] = "running" => job[r] \notin {"assets", "edit"}
    BY DEF ReleaseInv, DraftInv
  <2>3. ASSUME NEW r \in Runs, Maintain(r) \/ Rerun(r)
        PROVE  UNCHANGED <<release, assets, pypi>>
    <3>1. pypi # Nothing
      BY <2>1 DEF Nothing, Kinds
    <3> QED
      BY <2>3, <3>1 DEF Maintain, Dispatch, PushTag, Rerun
  <2>4. ASSUME NEW r \in Runs, Work(r) \/ JobFails(r)
        PROVE  UNCHANGED <<release, assets, pypi>>
    BY <2>1, <2>2, <2>4 DEF Work, JobFails, Starts, Validate, Package, Upload, ClearAsset,
       Attach, Published, ViewRelease, Attached, EditRelease, At
  <2> QED
    BY <2>3, <2>4 DEF Next
<1> QED
  BY <1>1, Invariant, PTL DEF Spec, PublishedIntact
=============================================================================
