------------------------------- MODULE Release -------------------------------
(* Publishing one version: the runs of the publish workflow for its tag, with *)
(* the checks of scripts/check_release.py, the package on PyPI, the release   *)
(* on GitHub, and the maintainer who pushes the tag and repeats what failed.  *)
EXTENDS Naturals

CONSTANTS
    Commits, Sources,  \* what each commit holds: pyproject.toml, uv.lock, CHANGELOG.md
    Versions, Version, \* the version that the tag names
    Bytes,             \* what may differ between two builds of one commit
    MaxRuns,           \* bound: runs of the workflow
    MaxFailures,       \* bound: jobs that fail for no reason of the source
    Strict,            \* whether the maintainer keeps to the rules of PushTag and Rerun
    None               \* no commit, no file

Runs == 1..MaxRuns
Kinds == {"wheel", "sdist"}

ASSUME ReleaseAssumption ==
    /\ MaxRuns \in Nat \ {0} /\ MaxFailures \in Nat /\ Strict \in BOOLEAN
    /\ Version \in Versions
    /\ Sources \in [Commits -> [version : Versions, canonical : BOOLEAN,
                                locked : SUBSET Versions, sections : Nat]]
    /\ None \notin Commits

VARIABLES
    tagAt,     \* the commit of the tag
    overtaken, \* history: commits validated before the tag was moved off them
    status,    \* of each run: none, queued, running, failed, cancelled or done
    job,       \* the job, and the step of github-release, each run is at
    sha,       \* the commit each run was triggered for
    dist,      \* its artifact: the distributions that package has built
    todo,      \* the files its current job has yet to transfer
    pypi,      \* the files of the version on PyPI
    release,   \* the release of the tag: none, draft or published
    assets,    \* the files attached to it
    failures   \* failures so far

vars == <<tagAt, overtaken, status, job, sha, dist, todo, pypi, release, assets, failures>>

File(c) == [commit : {c}, version : Versions, typed : BOOLEAN, bytes : Bytes]
Build(c) == [Kinds -> File(c) \cup {None}]
Files == (UNION {File(c) : c \in Commits}) \cup {None}
Nothing == [k \in Kinds |-> None]

Unused(r) == status[r] = "none" /\ \A q \in Runs : q < r => status[q] # "none"
Active == {r \in Runs : status[r] \in {"queued", "running"}}
Stopped == {"failed", "cancelled"}

\* The runs of a ref are serialized: one runs, and one waits.  What waited
\* before is cancelled.
Queued(r) ==
    [q \in Runs |-> IF q = r THEN "queued"
                    ELSE IF status[q] = "queued" THEN "cancelled" ELSE status[q]]

-----------------------------------------------------------------------------
(* The checks of scripts/check_release.py.                                   *)

\* read_release: a canonical version, the same in uv.lock, and one changelog
\* section.
ReadRelease(c) ==
    /\ Sources[c].canonical
    /\ Sources[c].locked = {Sources[c].version}
    /\ Sources[c].sections = 1

\* validate_tag: the tag names this version and points to this commit.
ValidateTag(c) == Sources[c].version = Version /\ tagAt = c

\* validate_artifacts: a wheel and an sdist, of this version inside and out, and
\* py.typed in the wheel.
ValidateArtifacts(d, c) ==
    /\ \A k \in Kinds : d[k] # None /\ d[k].version = Sources[c].version
    /\ d["wheel"].typed

\* Mutant: a file of that name is taken for the same file.
VerifyNames(d) == \A k \in Kinds : d[k] # None

\* verify_pypi_artifacts: what is there already has the same bytes.
VerifyPypi(d) == \A k \in Kinds : pypi[k] \in {None, d[k]}

-----------------------------------------------------------------------------
(* The maintainer.  That a published tag is never moved is a rule of         *)
(* docs/releasing.md; when a run may be repeated is not said there, and the   *)
(* conditions of Rerun are assumptions: without them OneBuild is false.       *)

\* Mutant: a run takes whatever commit its tag is at.
TriggerOnRef(r, c) ==
    /\ Unused(r)
    /\ status' = Queued(r)
    /\ UNCHANGED sha

Trigger(r, c) ==
    /\ Unused(r)
    /\ status' = Queued(r)
    /\ sha' = [sha EXCEPT ![r] = c]

\* The tag is pushed, or moved, whatever the runs are at.  A strict maintainer
\* moves it only while none of its files is public.
PushTag(r, c) ==
    /\ c # tagAt /\ (Strict => pypi = Nothing)
    /\ tagAt' = c
    /\ overtaken' = overtaken \cup {sha[q] : q \in {p \in Runs : job[p] # "validate"}}
    /\ Trigger(r, c)
    /\ UNCHANGED <<job, dist, todo, pypi, release, assets, failures>>

\* workflow_dispatch for the tag.
Dispatch(r) ==
    /\ tagAt # None
    /\ Trigger(r, tagAt)
    /\ UNCHANGED <<tagAt, overtaken, job, dist, todo, pypi, release, assets, failures>>

\* Rerun failed jobs: the run goes on with the job that failed, and with the
\* artifacts it has.  A strict maintainer repeats a run only while no other is
\* under way and none that came later has built distributions.
Rerun(r) ==
    /\ status[r] \in Stopped
    /\ Strict => Active = {} /\ \A q \in Runs : q > r => dist[q] = Nothing
    /\ status' = Queued(r)
    /\ UNCHANGED <<tagAt, overtaken, job, sha, dist, todo, pypi, release, assets, failures>>

-----------------------------------------------------------------------------
(* The workflow.                                                             *)

\* Mutant: no concurrency group.
StartsUnserialized(r) ==
    /\ status[r] = "queued"
    /\ status' = [status EXCEPT ![r] = "running"]
    /\ UNCHANGED <<tagAt, overtaken, job, sha, dist, todo, pypi, release, assets, failures>>

Starts(r) ==
    /\ status[r] = "queued" /\ \A q \in Runs : status[q] # "running"
    /\ status' = [status EXCEPT ![r] = "running"]
    /\ UNCHANGED <<tagAt, overtaken, job, sha, dist, todo, pypi, release, assets, failures>>

At(r, j) == status[r] = "running" /\ job[r] = j

Passes(r, next) ==
    /\ job' = [job EXCEPT ![r] = next]
    /\ UNCHANGED status

Rejected(r) ==
    /\ status' = [status EXCEPT ![r] = "failed"]
    /\ UNCHANGED job

\* A job fails for a reason of its own: the tests, the network, a service.  It
\* will begin anew when it is repeated.
JobFails(r) ==
    /\ status[r] = "running" /\ failures < MaxFailures
    /\ failures' = failures + 1
    /\ status' = [status EXCEPT ![r] = "failed"]
    /\ job' = [job EXCEPT ![r] = IF @ \in {"assets", "edit"} THEN "release" ELSE @]
    /\ todo' = [todo EXCEPT ![r] = Kinds]
    /\ UNCHANGED <<tagAt, overtaken, sha, dist, pypi, release, assets>>

\* Mutant: the commit of the tag is not compared.
ValidateName(r) ==
    /\ At(r, "validate")
    /\ IF ReadRelease(sha[r]) /\ Sources[sha[r]].version = Version
       THEN Passes(r, "package") ELSE Rejected(r)
    /\ UNCHANGED <<tagAt, overtaken, sha, dist, todo, pypi, release, assets, failures>>

Validate(r) ==
    /\ At(r, "validate")
    /\ IF ReadRelease(sha[r]) /\ ValidateTag(sha[r])
       THEN Passes(r, "package") ELSE Rejected(r)
    /\ UNCHANGED <<tagAt, overtaken, sha, dist, todo, pypi, release, assets, failures>>

\* The package job of ci.yml builds the distributions and keeps them for the
\* later jobs if they pass.
Package(r) ==
    /\ At(r, "package")
    /\ \E d \in Build(sha[r]) :
          IF ReadRelease(sha[r]) /\ ValidateArtifacts(d, sha[r]) /\ VerifyPypi(d)
          THEN Passes(r, "publish") /\ dist' = [dist EXCEPT ![r] = d]
          ELSE Rejected(r) /\ UNCHANGED dist
    /\ UNCHANGED <<tagAt, overtaken, sha, todo, pypi, release, assets, failures>>

\* The publish action uploads file after file, with skip-existing.
Upload(r, k) ==
    /\ At(r, "publish") /\ k \in todo[r]
    /\ pypi' = IF pypi[k] = None THEN [pypi EXCEPT ![k] = dist[r][k]] ELSE pypi
    /\ todo' = [todo EXCEPT ![r] = @ \ {k}]
    /\ UNCHANGED <<tagAt, overtaken, status, job, sha, dist, release, assets, failures>>

Published(r) ==
    /\ At(r, "publish") /\ todo[r] = {}
    /\ Passes(r, "release")
    /\ todo' = [todo EXCEPT ![r] = Kinds]
    /\ UNCHANGED <<tagAt, overtaken, sha, dist, pypi, release, assets, failures>>

\* Mutant: whatever release there is, is taken for a draft.
ViewAnyRelease(r) ==
    /\ At(r, "release")
    /\ Passes(r, "assets")
    /\ release' = IF release = "none" THEN "draft" ELSE release
    /\ UNCHANGED <<tagAt, overtaken, sha, dist, todo, pypi, assets, failures>>

\* Mutant: a release is created, which fails if there is a draft.
CreateRelease(r) ==
    /\ At(r, "release")
    /\ \/ /\ release = "published"
          /\ status' = [status EXCEPT ![r] = "done"]
          /\ UNCHANGED <<job, release>>
       \/ /\ release = "draft" /\ Rejected(r) /\ UNCHANGED release
       \/ /\ release = "none" /\ release' = "draft" /\ Passes(r, "assets")
    /\ UNCHANGED <<tagAt, overtaken, sha, dist, todo, pypi, assets, failures>>

\* The first half of github-release: a published release is left alone, a draft
\* is resumed, and none is created.
ViewRelease(r) ==
    /\ At(r, "release")
    /\ \/ /\ release = "published"
          /\ status' = [status EXCEPT ![r] = "done"]
          /\ UNCHANGED <<job, release>>
       \/ /\ release # "published"
          /\ release' = "draft"
          /\ Passes(r, "assets")
    /\ UNCHANGED <<tagAt, overtaken, sha, dist, todo, pypi, assets, failures>>

\* gh release upload --clobber: an asset of that name is deleted first.
ClearAsset(r, k) ==
    /\ At(r, "assets") /\ k \in todo[r] /\ assets[k] # None
    /\ assets' = [assets EXCEPT ![k] = None]
    /\ UNCHANGED <<tagAt, overtaken, status, job, sha, dist, todo, pypi, release, failures>>

Attach(r, k) ==
    /\ At(r, "assets") /\ k \in todo[r] /\ assets[k] = None
    /\ assets' = [assets EXCEPT ![k] = dist[r][k]]
    /\ todo' = [todo EXCEPT ![r] = @ \ {k}]
    /\ UNCHANGED <<tagAt, overtaken, status, job, sha, dist, pypi, release, failures>>

Attached(r) ==
    /\ At(r, "assets") /\ todo[r] = {}
    /\ Passes(r, "edit")
    /\ UNCHANGED <<tagAt, overtaken, sha, dist, todo, pypi, release, assets, failures>>

\* gh release edit --draft=false, and the run is at its end.
EditRelease(r) ==
    /\ At(r, "edit")
    /\ release' = "published"
    /\ status' = [status EXCEPT ![r] = "done"]
    /\ UNCHANGED <<tagAt, overtaken, job, sha, dist, todo, pypi, assets, failures>>

-----------------------------------------------------------------------------

Init ==
    /\ tagAt = None /\ overtaken = {}
    /\ status = [r \in Runs |-> "none"]
    /\ job = [r \in Runs |-> "validate"]
    /\ sha = [r \in Runs |-> None]
    /\ dist = [r \in Runs |-> Nothing]
    /\ todo = [r \in Runs |-> Kinds]
    /\ pypi = Nothing /\ assets = Nothing
    /\ release = "none"
    /\ failures = 0

Maintain(r) == Dispatch(r) \/ \E c \in Commits : PushTag(r, c)

Work(r) ==
    \/ Starts(r) \/ Validate(r) \/ Package(r)
    \/ \E k \in Kinds : Upload(r, k) \/ ClearAsset(r, k) \/ Attach(r, k)
    \/ Published(r) \/ ViewRelease(r) \/ Attached(r) \/ EditRelease(r)

Next == \E r \in Runs : Maintain(r) \/ Rerun(r) \/ Work(r) \/ JobFails(r)

Spec == Init /\ [][Next]_vars

\* Jobs run once they can, and the maintainer comes to repeat the run that has
\* built the distributions and has failed, whatever else is tried in between.
FairSpec ==
    /\ Spec
    /\ \A r \in Runs : WF_vars(Work(r)) /\ SF_vars(dist[r] # Nothing /\ Rerun(r))

-----------------------------------------------------------------------------
(* Properties.                                                               *)

TypeOK ==
    /\ tagAt \in Commits \cup {None} /\ overtaken \subseteq Commits \cup {None}
    /\ status \in [Runs -> {"none", "queued", "running", "done"} \cup Stopped]
    /\ job \in [Runs -> {"validate", "package", "publish", "release", "assets", "edit"}]
    /\ sha \in [Runs -> Commits \cup {None}]
    /\ \A r \in Runs : status[r] # "none" => sha[r] # None
    /\ dist \in [Runs -> [Kinds -> Files]]
    /\ todo \in [Runs -> SUBSET Kinds]
    /\ pypi \in [Kinds -> Files]
    /\ assets \in [Kinds -> Files]
    /\ release \in {"none", "draft", "published"}
    /\ failures \in 0..MaxFailures

\* The files on PyPI, uploaded by however many runs, are those of one build.
OneBuild == \E r \in Runs : \A k \in Kinds : pypi[k] \in {None, dist[r][k]}

\* A release, once published, has the very files that are on PyPI.
SameArtifacts == release = "published" => assets = pypi /\ \A k \in Kinds : pypi[k] # None

\* What is public says the version of the tag and was built from a releasable
\* commit that the tag points to, or did when the run was validated: a run that
\* the tag leaves behind before that publishes nothing.
FromTag ==
    \A k \in Kinds : pypi[k] # None =>
        /\ pypi[k].version = Version /\ ReadRelease(pypi[k].commit)
        /\ pypi[k].commit = tagAt \/ pypi[k].commit \in overtaken

\* A published release is left intact, and so is the package behind it.
PublishedIntact == [][release = "published" => UNCHANGED <<release, assets, pypi>>]_vars

\* Once a file is public the version comes out in full, however the jobs fail.
ReleaseCompletes == (pypi # Nothing) ~> (release = "published")
=============================================================================
