------------------------------ MODULE Release ------------------------------
(***************************************************************************)
(* The SDK's release pipeline (packages/typescript/scripts and the two     *)
(* workflows that run them).  A preparation opens a pull request for the   *)
(* next version; people edit, close or merge it while main moves on; the   *)
(* publication workflow builds the version, publishes it to npm and leaves *)
(* a tag and a GitHub release with the same bytes.  Any step may fail, and *)
(* the answer to a write may be lost after the write took effect; failed   *)
(* jobs are run again, and a version is retried from a later main.         *)
(*                                                                         *)
(* Main is its first-parent history of package.json, the only commits      *)
(* publication looks at: a release, a "change" that keeps the version and  *)
(* stands for any SDK change, or a "restore" of another version.  A        *)
(* tarball is the commit it was built from and a build number, since two   *)
(* builds of one commit need not be the same bytes.  Preparations are      *)
(* serialised by their concurrency group and publications by theirs.       *)
(***************************************************************************)
EXTENDS Naturals, Sequences, FiniteSets, FiniteSetsExt, Functions

CONSTANTS
    Bumps,       \* kinds of bump a preparation is dispatched with
    MaxLandings, \* bound on the changes, and on the restores, that land
    MaxCommits,  \* bound on the length of main
    MaxReleases, \* bound on merged release pull requests
    MaxFaults    \* bound on failures and lost answers

ASSUME BumpsAssumption == Bumps \subseteq {"major", "minor", "patch"}

VARIABLES
    main,      \* commits: [version, kind]
    branch,    \* version -> the commit its release branch holds
    pulls,     \* version -> "open" or "closed" (merged ones included)
    prep,      \* the preparation under way
    npm,       \* version -> what the registry holds
    tags,      \* version -> commit
    releases,  \* the GitHub releases, in the order of their creation
    run,       \* the publication under way
    pending,   \* the one its concurrency group keeps waiting
    failed,    \* the last one that failed, which can be run again
    faults

vars == <<main, branch, pulls, prep, npm, tags, releases, run, pending, failed, faults>>
git == <<main, branch, pulls>>
published == <<npm, tags, releases>>

Idle == [at |-> "idle"]
NoVersion == <<>>
Builds == {1, 2}
Corrupt == 0
Initial == <<1, 0, 0>>
Names == {"tgz", "sha256"}
NoAsset == [state |-> "none", source |-> 0, build |-> 0]
Starter == [NoAsset EXCEPT !.state = "starter"]
Uploaded(source, build) == [state |-> "uploaded", source |-> source, build |-> build]

Tip == Len(main)
Versions == {main[i].version : i \in 1..Tip}
ChangesSdk(i) == main[i].kind = "change"

(* A write that creates: what is there already stays as it is.             *)
Created(f, v, x) == [w \in DOMAIN f \cup {v} |-> IF w \in DOMAIN f THEN f[w] ELSE x]

(* 1.0.0 is public, tagged and released.                                   *)
Init ==
    /\ main = <<[version |-> Initial, kind |-> "release"]>>
    /\ branch = <<>> /\ pulls = <<>>
    /\ prep = Idle
    /\ npm = [v \in {Initial} |-> [source |-> 1, build |-> 1, converged |-> TRUE]]
    /\ tags = [v \in {Initial} |-> 1]
    /\ releases = <<[tag |-> Initial, draft |-> FALSE,
                     assets |-> [n \in Names |-> Uploaded(1, 1)]]>>
    /\ run = Idle /\ pending = Idle /\ failed = Idle
    /\ faults = 0

-----------------------------------------------------------------------------
(* The registry acknowledges a write before its reads converge.            *)

Reads(v) ==
    IF v \notin DOMAIN npm THEN {FALSE}
    ELSE IF npm[v].converged THEN {TRUE} ELSE BOOLEAN

Converge(v) ==
    /\ ~npm[v].converged
    /\ npm' = [npm EXCEPT ![v].converged = TRUE]
    /\ UNCHANGED <<git, prep, tags, releases, run, pending, failed, faults>>

-----------------------------------------------------------------------------
(* Preparation (prepare-release.mjs, prepare-release-pr.mjs)               *)

bumpVersion(v, bump) ==
    CASE bump = "major" -> <<v[1] + 1, 0, 0>>
      [] bump = "minor" -> <<v[1], v[2] + 1, 0>>
      [] bump = "patch" -> <<v[1], v[2], v[3] + 1>>

Current == main[prep.sha].version
Next1 == bumpVersion(Current, prep.bump)

(* planRelease refuses a current version without its tag in the checkout.  *)
Plannable(sha) ==
    /\ prep.tagged /\ main[sha].version = Current /\ tags[Current] <= sha
\* An empty release is planned like any other.
AlwaysReady(sha) == "ready"
planRelease(sha) ==
    IF \E i \in tags[Current] + 1..sha : ChangesSdk(i) THEN "ready" ELSE "unchanged"

(* Another release would still fit the bounds.                             *)
ReleasesLeft ==
    Tip < MaxCommits /\ Cardinality({i \in 2..Tip : main[i].kind = "release"}) < MaxReleases

PrepGoes(at) ==
    prep' = IF at = "idle" THEN Idle ELSE [prep EXCEPT !.at = at]

(* Main's own version must be public and the next one must not be.         *)
Publishable(current, next) ==
    {public /\ ~taken : public \in Reads(current), taken \in Reads(next)}

(* An open pull request is left alone, a closed one is never reopened.     *)
(* The reads are one step: a refused preparation has changed nothing, and  *)
(* every write comes after a check that main is where it was.              *)
PrepareStart(bump) ==
    /\ prep = Idle /\ ReleasesLeft
    /\ LET current == main[Tip].version
           next == bumpVersion(current, bump)
       IN  /\ \E publishable \in Publishable(current, next) : publishable
           /\ \A v \in DOMAIN pulls : pulls[v] = "closed" /\ v # next
           /\ prep' = [at |-> "branch", sha |-> Tip, bump |-> bump,
                       tagged |-> current \in DOMAIN tags]
    /\ UNCHANGED <<git, published, run, pending, failed, faults>>

(* A branch an earlier preparation left is resumed if it is that           *)
(* preparation's untouched commit, on a parent main still contains.        *)
Resumable ==
    LET b == branch[Next1]
    IN  ~b.edited /\ b.parent <= prep.sha /\ Plannable(b.parent)
        /\ planRelease(b.parent) = "ready"
PrepareBranch ==
    PrepGoes(IF Next1 \in DOMAIN branch
             THEN IF Resumable THEN "recheck" ELSE "idle"
             ELSE IF Plannable(prep.sha) /\ planRelease(prep.sha) = "ready" /\ prep.sha = Tip
                  THEN "create" ELSE "idle")

PrepareRead ==
    /\ \/ prep.at = "branch" /\ PrepareBranch
       \/ /\ prep.at = "recheck"
          /\ PrepGoes(IF prep.sha = Tip /\ ~branch[Next1].edited THEN "open" ELSE "idle")
    /\ UNCHANGED <<git, published, run, pending, failed, faults>>

PrepareCreate ==
    /\ prep.at = "create"
    /\ branch' = Created(branch, Next1, [parent |-> prep.sha, edited |-> FALSE])
    /\ PrepGoes("recheck")
    /\ UNCHANGED <<main, pulls, published, run, pending, failed, faults>>

PrepareOpen ==
    /\ prep.at = "open"
    /\ pulls' = Created(pulls, Next1, "open")
    /\ PrepGoes("idle")
    /\ UNCHANGED <<main, branch, published, run, pending, failed, faults>>

(* It may fail anywhere, and after a write whose answer is lost.           *)
PrepareCrash ==
    /\ prep # Idle
    /\ PrepGoes("idle")
    /\ UNCHANGED <<git, published, run, pending, failed, faults>>

-----------------------------------------------------------------------------
(* People, and the pushes their merges are                                 *)

(* The concurrency group of a workflow keeps one run waiting: a newer one  *)
(* takes its place.                                                        *)
Enqueue(r) == pending' = r
Publication(sha, push, requested) ==
    [at |-> "resolve", sha |-> sha, push |-> push, requested |-> requested]

Push(version, kind) ==
    /\ Tip < MaxCommits
    /\ main' = Append(main, [version |-> version, kind |-> kind])
    /\ Enqueue(Publication(Tip + 1, TRUE, NoVersion))

Land(kind) ==
    /\ Cardinality({i \in 1..Tip : main[i].kind = kind}) < MaxLandings
    /\ \E v \in Versions :
          /\ kind = "restore" <=> v # main[Tip].version
          /\ Push(v, kind)
    /\ UNCHANGED <<branch, pulls, prep, published, run, failed, faults>>

(* Nothing reads the branch of a closed pull request.                      *)
Close(v) ==
    /\ pulls[v] = "open"
    /\ pulls' = [pulls EXCEPT ![v] = "closed"]
    /\ branch' = Restrict(branch, DOMAIN branch \ {v})

(* The two files of a release branch conflict with another version's.      *)
MergePull(v) ==
    /\ Close(v)
    /\ ReleasesLeft /\ main[branch[v].parent].version = main[Tip].version
    /\ Push(v, "release")
    /\ UNCHANGED <<prep, published, run, failed, faults>>

ClosePull(v) ==
    /\ Close(v)
    /\ UNCHANGED <<main, prep, published, run, pending, failed, faults>>

(* Nothing reads a branch again once its pull request exists.              *)
EditBranch(v) ==
    /\ ~branch[v].edited /\ v \notin DOMAIN pulls
    /\ branch' = [branch EXCEPT ![v].edited = TRUE]
    /\ UNCHANGED <<main, pulls, prep, published, run, pending, failed, faults>>

Released(v) ==
    v \in DOMAIN tags /\ \E i \in DOMAIN releases : releases[i].tag = v /\ ~releases[i].draft

(* Someone retries an unfinished version, or runs failed jobs again, once  *)
(* no run is under way or waiting.                                         *)
Retry(v) ==
    /\ run = Idle /\ pending = Idle /\ ~Released(v)
    /\ Enqueue(Publication(Tip, FALSE, v))
    /\ UNCHANGED <<git, prep, published, run, failed, faults>>

Rerun ==
    /\ run = Idle /\ pending = Idle /\ failed # Idle
    /\ Enqueue(failed) /\ failed' = Idle
    /\ UNCHANGED <<git, prep, published, run, faults>>

-----------------------------------------------------------------------------
(* Publication (sdk-publish.yml)                                           *)

JobOf(at) ==
    CASE at \in {"recover", "build"} -> "recover"
      [] at \in {"publish", "write", "verify"} -> "publish"
      [] OTHER -> "complete"

Goes(at) == run' = [run EXCEPT !.at = at] /\ UNCHANGED failed
Ends == run' = Idle /\ UNCHANGED failed
Fails ==
    /\ run' = Idle
    /\ failed' = [run EXCEPT !.at = JobOf(@), !.release = 0,
                             !.build = IF JobOf(run.at) = "recover" THEN 0 ELSE @]

Id == run.identity
Artifact == [source |-> Id.source, build |-> run.build]

Known(v, sha) == {i \in 1..sha : main[i].version = v}
\* The latest commit that has the version.
Carries(v, sha) == Max(Known(v, sha))
(* The commit that introduced the version: the oldest of the latest run of *)
(* manifest changes that have it.                                          *)
Introduced(v, sha) ==
    Min({i \in Known(v, sha) : i..Max(Known(v, sha)) \subseteq Known(v, sha)})

resolveIdentity(sha, requested) ==
    LET version == IF requested = NoVersion THEN main[sha].version ELSE requested
        tagged == version \in DOMAIN tags
    IN  [version |-> version, tagged |-> tagged,
         source |-> CASE tagged /\ tags[version] <= sha -> tags[version]
                      [] ~tagged /\ Known(version, sha) # {} -> Introduced(version, sha)
                      [] OTHER -> 0]

(* The waiting publication starts: a new one resolves what it is to        *)
(* publish, failed jobs go on with what theirs had resolved.               *)
Resolve ==
    LET id == resolveIdentity(pending.sha, pending.requested)
    IN  IF pending.push /\ main[pending.sha - 1].version = main[pending.sha].version
        THEN UNCHANGED <<run, failed>>
        ELSE \E registered \in Reads(id.version) :
                IF id.source = 0 \/ (id.tagged /\ ~registered)
                THEN failed' = pending /\ UNCHANGED run
                ELSE /\ run' = [at |-> "recover", identity |-> id, build |-> 0, release |-> 0]
                     /\ UNCHANGED failed

Start ==
    /\ run = Idle /\ pending # Idle
    /\ pending' = Idle
    /\ \/ /\ IF pending.at = "resolve" THEN Resolve ELSE run' = pending /\ UNCHANGED failed
          /\ UNCHANGED faults
       \/ faults < MaxFaults /\ faults' = faults + 1 /\ failed' = pending /\ UNCHANGED run
    /\ UNCHANGED <<git, prep, published>>

(* What the registry holds is this source's, by its provenance.            *)
verifyRegistry(v) == {attested /\ npm[v].source = Id.source : attested \in Reads(v)}
Holds(artifact, v) == npm[v].source = artifact.source /\ npm[v].build = artifact.build

Recover ==
    /\ run.at = "recover"
    /\ \E registered \in Reads(Id.version) :
        \/ /\ registered
           /\ \E verified \in verifyRegistry(Id.version) :
                IF verified
                THEN run' = [run EXCEPT !.at = "publish", !.build = npm[Id.version].build]
                     /\ UNCHANGED failed
                ELSE Fails
        \/ ~registered /\ IF Id.tagged THEN Fails ELSE Goes("build")

Build ==
    /\ run.at = "build"
    /\ \E b \in Builds : run' = [run EXCEPT !.at = "publish", !.build = b]
    /\ UNCHANGED failed

Publish ==
    /\ run.at = "publish"
    /\ \E registered \in Reads(Id.version) :
        \/ /\ registered
           /\ \E verified \in verifyRegistry(Id.version) :
                IF verified /\ Holds(Artifact, Id.version) THEN Goes("complete") ELSE Fails
        \/ ~registered /\ IF Id.tagged THEN Fails ELSE Goes("write")

(* npm takes a version once.                                               *)
Write ==
    /\ run.at = "write"
    /\ IF Id.version \in DOMAIN npm THEN Fails /\ UNCHANGED npm
       ELSE /\ npm' = Created(npm, Id.version, [source |-> Id.source, build |-> run.build,
                                                converged |-> FALSE])
            /\ Goes("verify")

Verify ==
    /\ run.at \in {"verify", "complete"}
    /\ \E registered \in Reads(Id.version) :
        \/ ~registered /\ Fails
        \/ /\ registered
           /\ \E verified \in verifyRegistry(Id.version) :
                IF verified /\ Holds(Artifact, Id.version)
                THEN Goes(IF run.at = "verify" THEN "complete" ELSE "tag") ELSE Fails

PublishStep ==
    \/ (Recover \/ Build \/ Publish \/ Verify) /\ UNCHANGED <<published, faults>>
    \/ Write /\ UNCHANGED <<tags, releases, faults>>

-----------------------------------------------------------------------------
(* Completion (complete-release.mjs): every missing piece, in order.       *)

Tag ==
    /\ run.at = "tag"
    /\ IF Id.version \in DOMAIN tags
       THEN /\ IF tags[Id.version] = Id.source THEN Goes("release") ELSE Fails
            /\ UNCHANGED tags
       ELSE tags' = Created(tags, Id.version, Id.source) /\ Goes("release")
    /\ UNCHANGED <<releases, faults>>

\* Only the by-tag endpoint, which does not list drafts.
PublicReleases(v) == {i \in DOMAIN releases : releases[i].tag = v /\ ~releases[i].draft}
(* The by-tag endpoint finds a public release, the list also a draft.      *)
FoundReleases(v) == {i \in DOMAIN releases : releases[i].tag = v}
Completing(i) == run' = [run EXCEPT !.at = "tgz", !.release = i] /\ UNCHANGED failed

GithubRelease ==
    /\ run.at = "release"
    /\ LET found == FoundReleases(Id.version)
       IN  \/ found # {} /\ Completing(Min(found)) /\ UNCHANGED releases
           \/ /\ found = {}
              /\ releases' = Append(releases, [tag |-> Id.version, draft |-> TRUE,
                                               assets |-> [n \in Names |-> NoAsset]])
              /\ Completing(Len(releases) + 1)
    /\ UNCHANGED <<tags, faults>>

AssetIs(name, asset) == releases' = [releases EXCEPT ![run.release].assets[name] = asset]

(* A failed upload may leave a starter, or bytes that are not the ones     *)
(* sent, which the answer's digest tells.                                  *)
UploadAsset(name, at) ==
    \/ AssetIs(name, Uploaded(Id.source, run.build)) /\ Goes(at) /\ UNCHANGED faults
    \/ /\ faults < MaxFaults
       /\ \E left \in {Starter, Uploaded(Id.source, Corrupt)} : AssetIs(name, left)
       /\ Fails /\ faults' = faults + 1

\* A starter counts as an asset in an unknown state.
KeepsStarter(name, at) ==
    LET asset == releases[run.release].assets[name]
    IN  \/ /\ asset # NoAsset
           /\ IF asset = Uploaded(Id.source, run.build) THEN Goes(at) ELSE Fails
           /\ UNCHANGED <<releases, faults>>
        \/ asset = NoAsset /\ UploadAsset(name, at)

(* A starter is removed and uploaded again; stored bytes are compared and  *)
(* never replaced.                                                         *)
ensureAsset(name, at) ==
    LET asset == releases[run.release].assets[name]
    IN  \/ /\ asset.state = "uploaded"
           /\ IF asset = Uploaded(Id.source, run.build) THEN Goes(at) ELSE Fails
           /\ UNCHANGED <<releases, faults>>
        \/ asset = Starter /\ AssetIs(name, NoAsset) /\ UNCHANGED <<run, failed, faults>>
        \/ asset = NoAsset /\ UploadAsset(name, at)

Undraft ==
    /\ run.at = "undraft"
    /\ releases' = [releases EXCEPT ![run.release].draft = FALSE]
    /\ \/ Ends /\ UNCHANGED faults
       \/ releases[run.release].draft /\ faults < MaxFaults /\ Fails /\ faults' = faults + 1

CompleteStep ==
    /\ \/ Tag
       \/ GithubRelease
       \/ run.at = "tgz" /\ ensureAsset("tgz", "sha256") /\ UNCHANGED tags
       \/ run.at = "sha256" /\ ensureAsset("sha256", "undraft") /\ UNCHANGED tags
       \/ Undraft /\ UNCHANGED tags
    /\ UNCHANGED npm

RunStep ==
    /\ PublishStep \/ CompleteStep
    /\ UNCHANGED <<git, prep, pending>>

(* A job may fail anywhere, and after a write whose answer is lost.        *)
RunCrash ==
    /\ run # Idle /\ faults < MaxFaults
    /\ Fails /\ faults' = faults + 1
    /\ UNCHANGED <<git, prep, published, pending>>

-----------------------------------------------------------------------------
Prepare ==
    \/ \E bump \in Bumps : PrepareStart(bump)
    \/ PrepareRead \/ PrepareCreate \/ PrepareOpen \/ PrepareCrash

People ==
    \/ \E kind \in {"change", "restore"} : Land(kind)
    \/ \E v \in DOMAIN pulls : MergePull(v) \/ ClosePull(v)
    \/ \E v \in DOMAIN branch : EditBranch(v)
    \/ \E v \in Versions : Retry(v)
    \/ Rerun

Next ==
    \/ Prepare \/ People
    \/ Start \/ RunStep \/ RunCrash
    \/ \E v \in DOMAIN npm : Converge(v)

Wanted(v) == v \in Versions /\ Retry(v)

Successors == {bumpVersion(Initial, bump) : bump \in Bumps}

(* The runners and the registry make progress, and someone retries a       *)
(* version again and again: publication is resumed by hand.                *)
Fairness ==
    /\ WF_vars(Start) /\ WF_vars(RunStep)
    /\ \A v \in Successors : WF_vars(v \in DOMAIN npm /\ Converge(v)) /\ SF_vars(Wanted(v))

Spec == Init /\ [][Next]_vars /\ Fairness

-----------------------------------------------------------------------------
(* The four records of a version agree: a tag is the npm version's source, *)
(* only a tagged version has a GitHub release and it has one, and a public *)
(* release carries the bytes npm serves, whatever failed on the way and    *)
(* from whichever commit it was retried (README.md "Release source and     *)
(* artifact identity stay fixed across retries", complete-release.mjs).    *)
ReleaseAgrees ==
    /\ \A v \in DOMAIN tags : v \in DOMAIN npm /\ tags[v] = npm[v].source
    /\ \A i \in DOMAIN releases :
          LET r == releases[i] IN
          /\ r.tag \in DOMAIN tags
          /\ \A j \in DOMAIN releases : releases[j].tag = r.tag => i = j
          /\ ~r.draft => \A n \in Names :
                r.assets[n] = Uploaded(npm[r.tag].source, npm[r.tag].build)

(* What npm serves for a version was built from a commit that introduced   *)
(* that version on main, not from a later one that merely carried it       *)
(* (resolveIdentity), and a build never comes from an unmerged branch.     *)
PublishedFromIntroduction ==
    \A v \in DOMAIN npm :
        LET s == npm[v].source
        IN  main[s].version = v /\ (s > 1 => main[s - 1].version # v)

(* Releases are not stacked: at most one release pull request is open, a   *)
(* release is merged only onto a version that is public and tagged, and it *)
(* has an SDK change since (README.md, prepareReleasePr).                  *)
NotStacked ==
    /\ \A v, w \in DOMAIN pulls : pulls[v] = "open" /\ pulls[w] = "open" => v = w
    /\ \A i \in 2..Tip : main[i].kind = "release" =>
          LET before == main[i - 1].version
          IN  before \in DOMAIN tags /\ \E j \in tags[before] + 1..i - 1 : ChangesSdk(j)

(* Only a person can settle these: GitHub stored other bytes, or the       *)
(* version was taken back from main and introduced again after npm had it. *)
NeedsHand(v) ==
    \/ \E i \in DOMAIN releases, n \in Names :
          releases[i].tag = v /\ releases[i].assets[n].state = "uploaded"
          /\ releases[i].assets[n].build = Corrupt
    \/ v \in DOMAIN npm /\ v \notin DOMAIN tags
       /\ Introduced(v, Tip) # npm[v].source

(* A version that reached main is released in the end, however often the   *)
(* runners failed, as long as someone retries it (sdk-publish.yml, "Run    *)
(* workflow for recovery").                                                *)
ReleaseCompletes ==
    \A v \in Successors : v \in Versions ~> Released(v) \/ NeedsHand(v)
=============================================================================
