---------------------------- MODULE ReleaseProofs ----------------------------
(***************************************************************************)
(* Proofs about the release pipeline: the records of a version agree, what *)
(* npm serves was built from the commit that introduced the version, and   *)
(* releases are not stacked, for every bound on main, on releases and on   *)
(* faults.                                                                 *)
(*                                                                         *)
(* All three rest on facts that were checked once and cannot be undone: an *)
(* identity is resolved to a commit that introduces its version, main only *)
(* grows, and npm, tags and public assets are never overwritten.           *)
(***************************************************************************)
EXTENDS Release, QueueLemmas, WellFoundedInduction, TLAPS

Numbers == Nat \X Nat \X Nat

Commits == [version : Numbers, kind : {"release", "change", "restore"}]
Branches == [parent : Nat, edited : BOOLEAN]
Packages == [source : Nat, build : Nat, converged : BOOLEAN]
Assets == [state : {"none", "starter", "uploaded"}, source : Nat, build : Nat]
GithubReleases == [tag : Numbers, draft : BOOLEAN, assets : [Names -> Assets]]
Preparations ==
  [at : {"branch", "recheck", "create", "open"}, sha : Nat, bump : Bumps, tagged : BOOLEAN]
Identities == [version : Numbers, tagged : BOOLEAN, source : Nat]
States == {"recover", "build", "publish", "write", "verify", "complete", "tag", "release", "tgz", "sha256", "undraft"}
Jobs == [at : States, identity : Identities, build : Nat, release : Nat]
Waiting == {j \in Jobs : j.at \in {"recover", "publish", "complete"}}
Dispatches == [at : {"resolve"}, sha : Nat, push : BOOLEAN, requested : Numbers \cup {NoVersion}]

TypeOK ==
  /\ main \in Seq(Commits) /\ Len(main) >= 1
  /\ DOMAIN branch \subseteq Numbers /\ branch \in [DOMAIN branch -> Branches]
  /\ DOMAIN pulls \subseteq Numbers /\ pulls \in [DOMAIN pulls -> {"open", "closed"}]
  /\ prep \in Preparations \cup {Idle}
  /\ DOMAIN npm \subseteq Numbers /\ npm \in [DOMAIN npm -> Packages]
  /\ DOMAIN tags \subseteq Numbers /\ tags \in [DOMAIN tags -> Nat]
  /\ releases \in Seq(GithubReleases)
  /\ run \in Jobs \cup {Idle}
  /\ pending \in Waiting \cup Dispatches \cup {Idle}
  /\ failed \in Waiting \cup Dispatches \cup {Idle}

(* The commit gives the version to main.                                    *)
Introduces(s, v) == s \in 1..Len(main) /\ main[s].version = v /\ (s > 1 => main[s - 1].version # v)

(* What a publication was dispatched with, or has resolved.                 *)
Sound(r) ==
  /\ r \in Dispatches => r.sha \in 1..Len(main) /\ (r.push => r.sha > 1)
  /\ r \in Jobs => Introduces(r.identity.source, r.identity.version)

NpmOK == \A v \in DOMAIN npm : Introduces(npm[v].source, v)

TagsOK == \A v \in DOMAIN tags : v \in DOMAIN npm /\ tags[v] = npm[v].source

ReleasesOK ==
  \A i \in DOMAIN releases :
    /\ releases[i].tag \in DOMAIN tags
    /\ \A j \in DOMAIN releases : releases[j].tag = releases[i].tag => i = j
    /\ ~releases[i].draft => \A n \in Names :
         releases[i].assets[n] = Uploaded(npm[releases[i].tag].source, npm[releases[i].tag].build)

(* What a publication has verified so far.                                  *)
Verified == run.at \in {"tag", "release", "tgz", "sha256", "undraft"}
Tagged == run.at \in {"release", "tgz", "sha256", "undraft"}
Found == run.at \in {"tgz", "sha256", "undraft"}

RunOK ==
  /\ Verified => Id.version \in DOMAIN npm /\ npm[Id.version].source = Id.source /\ npm[Id.version].build = run.build
  /\ Tagged => Id.version \in DOMAIN tags
  /\ Found => run.release \in DOMAIN releases /\ releases[run.release].tag = Id.version
  /\ run.at \in {"sha256", "undraft"} => releases[run.release].assets["tgz"] = Uploaded(Id.source, run.build)
  /\ run.at = "undraft" => releases[run.release].assets["sha256"] = Uploaded(Id.source, run.build)

PublicationOK ==
  /\ NpmOK /\ TagsOK /\ ReleasesOK /\ RunOK
  /\ Sound(run) /\ Sound(pending) /\ Sound(failed)

(* A commit that a release may be prepared on.                              *)
Planned(p) ==
  /\ p \in 1..Len(main) /\ main[p].version \in DOMAIN tags
  /\ \E j \in tags[main[p].version] + 1..p : ChangesSdk(j)

PullsOK ==
  /\ \A v, w \in DOMAIN pulls : pulls[v] = "open" /\ pulls[w] = "open" => v = w
  /\ \A v \in DOMAIN pulls : pulls[v] = "open" => v \in DOMAIN branch
  /\ \A v \in DOMAIN branch : Planned(branch[v].parent)

PrepOK ==
  prep # Idle =>
    /\ prep.sha \in 1..Len(main)
    /\ \A v \in DOMAIN pulls : pulls[v] = "closed" /\ v # Next1
    /\ prep.tagged => Current \in DOMAIN tags
    /\ prep.at = "create" => Planned(prep.sha)
    /\ prep.at \in {"recheck", "open"} => Next1 \in DOMAIN branch

MainOK ==
  \A i \in 2..Len(main) : main[i].kind = "release" =>
    /\ main[i - 1].version \in DOMAIN tags
    /\ \E j \in tags[main[i - 1].version] + 1..i - 1 : ChangesSdk(j)

PreparationOK == PullsOK /\ PrepOK /\ MainOK

IInv == TypeOK /\ PublicationOK /\ PreparationOK

-----------------------------------------------------------------------------
(* What is true of commits stays true while main grows and tags are added.  *)

Grows ==
  /\ Len(main) \in Nat /\ Len(main') \in Nat /\ Len(main) <= Len(main')
  /\ \A i \in 1..Len(main) : main'[i] = main[i]

TagsGrow == \A v \in DOMAIN tags : v \in DOMAIN tags' /\ tags'[v] = tags[v]

(* Every non-empty set of natural numbers has a least element: the form of  *)
(* induction that the proofs below use.                                     *)
LEMMA LeastNumber ==
  ASSUME NEW T, T \subseteq Nat, T # {}
  PROVE  \E n \in T : \A m \in T : n <= m
<1>1. PICK R : R = {s \in Nat \X Nat : s[1] < s[2]}
  OBVIOUS
<1>2. IsWellFoundedOn(R, Nat)
  BY <1>1, NatLessThanWellFounded DEF OpToRel
<1>3. PICK n \in T : \A m \in T : <<m, n>> \notin R
  BY <1>2, WFMin
<1>4. ASSUME NEW m \in T PROVE n <= m
  <2>1. m \in Nat /\ n \in Nat /\ <<m, n>> \notin R
    BY <1>3
  <2>2. QED
    BY <1>1, <2>1
<1>5. QED
  BY <1>4

(* A commit that introduced a version did so for good.                      *)
LEMMA IntroducesKept ==
  ASSUME Grows, NEW s, NEW v, Introduces(s, v)
  PROVE  Introduces(s, v)'
<1>1. s \in 1..Len(main) /\ s \in 1..Len(main') /\ main'[s] = main[s]
  BY DEF Grows, Introduces
<1>2. s > 1 => s - 1 \in 1..Len(main) /\ main'[s - 1] = main[s - 1]
  BY <1>1 DEF Grows
<1>3. QED
  BY <1>1, <1>2 DEF Introduces

(* A publication that waits, runs or has failed stays sound.                *)
LEMMA SoundKept ==
  ASSUME Grows, NEW r, Sound(r)
  PROVE  Sound(r)'
<1>1. r \in Dispatches => r.sha \in 1..Len(main') /\ (r.push => r.sha > 1)
  BY DEF Sound, Grows
<1>2. r \in Jobs => Introduces(r.identity.source, r.identity.version)'
  BY IntroducesKept DEF Sound
<1>3. QED
  BY <1>1, <1>2 DEF Sound

(* A commit that a release could be prepared on stays one.                  *)
LEMMA PlannedKept ==
  ASSUME Grows, TagsGrow, TypeOK, NEW p, Planned(p)
  PROVE  Planned(p)'
<1>1. p \in 1..Len(main) /\ main[p].version \in DOMAIN tags /\ main'[p] = main[p] /\ p \in 1..Len(main')
  BY DEF Grows, Planned
<1>2. PICK j \in tags[main[p].version] + 1..p : ChangesSdk(j)
  BY DEF Planned
<1>3. tags[main[p].version] \in Nat
  BY <1>1 DEF TypeOK
<1>4. j \in 1..Len(main) /\ main'[j] = main[j]
  BY <1>1, <1>2, <1>3 DEF Grows
<1>5. ChangesSdk(j)'
  BY <1>2, <1>4 DEF ChangesSdk
<1>6. main'[p].version \in DOMAIN tags' /\ tags'[main'[p].version] = tags[main[p].version]
  BY <1>1 DEF TagsGrow
<1>7. QED
  BY <1>1, <1>2, <1>5, <1>6 DEF Planned

(* Nothing is published: a step of a preparation, or of the people.         *)
LEMMA PublicationFrame ==
  ASSUME IInv, Grows, UNCHANGED <<published, run, failed>>, Sound(pending)'
  PROVE  PublicationOK'
<1>1. UNCHANGED <<npm, tags, releases>>
  BY DEF published
<1>2. NpmOK'
  BY <1>1, IntroducesKept DEF IInv, PublicationOK, NpmOK
<1>3. TagsOK' /\ ReleasesOK'
  BY <1>1 DEF IInv, PublicationOK, TagsOK, ReleasesOK
<1>4. RunOK'
  BY <1>1 DEF IInv, PublicationOK, RunOK, Verified, Tagged, Found, Id
<1>5. Sound(run)' /\ Sound(failed)'
  BY SoundKept DEF IInv, PublicationOK
<1>6. QED
  BY <1>2, <1>3, <1>4, <1>5 DEF PublicationOK

(* Nothing is prepared: a step of a publication.                            *)
LEMMA PreparationFrame ==
  ASSUME IInv, TagsGrow, UNCHANGED <<git, prep>>
  PROVE  PreparationOK'
<1>1. UNCHANGED <<main, branch, pulls, prep>>
  BY DEF git
<1>2. Grows
  BY <1>1 DEF Grows, IInv, TypeOK
<1>3. \A p : Planned(p) => Planned(p)'
  BY <1>2, PlannedKept DEF IInv
<1>4. PullsOK'
  BY <1>1, <1>3 DEF IInv, PreparationOK, PullsOK
<1>5. Next1' = Next1 /\ Current' = Current
  BY <1>1 DEF Next1, Current
<1>6. PrepOK'
  BY <1>1, <1>3, <1>5 DEF IInv, PreparationOK, PrepOK, TagsGrow
<1>7. MainOK'
  BY <1>1 DEF IInv, PreparationOK, MainOK, TagsGrow, ChangesSdk
<1>8. QED
  BY <1>4, <1>6, <1>7 DEF PreparationOK

-----------------------------------------------------------------------------
(* Preparation.                                                             *)

(* bumpVersion() makes a version of a version.                              *)
LEMMA Bumped ==
  ASSUME NEW v \in Numbers, NEW bump \in Bumps
  PROVE  bumpVersion(v, bump) \in Numbers
<1>1. v[1] \in Nat /\ v[2] \in Nat /\ v[3] \in Nat
  BY DEF Numbers
<1>2. bump \in {"major", "minor", "patch"}
  BY BumpsAssumption
<1>3. CASE bump = "major"
  BY <1>1, <1>3 DEF bumpVersion, Numbers
<1>4. CASE bump = "minor"
  BY <1>1, <1>4 DEF bumpVersion, Numbers
<1>5. CASE bump = "patch"
  BY <1>1, <1>5 DEF bumpVersion, Numbers
<1>6. QED
  BY <1>2, <1>3, <1>4, <1>5

(* A preparation in progress has a version of main and the next one.        *)
LEMMA Underway ==
  ASSUME IInv, prep # Idle
  PROVE  /\ prep \in Preparations /\ prep.sha \in 1..Len(main)
         /\ Current \in Numbers /\ Next1 \in Numbers
<1>1. prep \in Preparations /\ prep.sha \in 1..Len(main) /\ prep.bump \in Bumps
  BY DEF IInv, TypeOK, PreparationOK, PrepOK, Preparations
<1>2. main[prep.sha] \in Commits
  BY <1>1 DEF IInv, TypeOK
<1>3. Current \in Numbers
  BY <1>2 DEF Current, Commits
<1>4. Next1 \in Numbers
  BY <1>1, <1>3, Bumped DEF Next1
<1>5. QED
  BY <1>1, <1>3, <1>4

(* Where a step of a preparation leads.                                     *)
LEMMA Going ==
  ASSUME IInv, prep # Idle, NEW at \in {"branch", "recheck", "create", "open", "idle"}, PrepGoes(at)
  PROVE  /\ prep' \in Preparations \cup {Idle}
         /\ at = "idle" => prep' = Idle
         /\ at # "idle" => /\ prep' # Idle /\ prep'.at = at /\ prep'.sha = prep.sha
                           /\ prep'.bump = prep.bump /\ prep'.tagged = prep.tagged
<1>1. prep \in Preparations
  BY Underway
<1>2. CASE at = "idle"
  BY <1>2 DEF PrepGoes
<1>3. CASE at # "idle"
  BY <1>1, <1>3 DEF PrepGoes, Preparations, Idle
<1>4. QED
  BY <1>2, <1>3

(* What plan and branch say of a commit is that a release may be prepared   *)
(* on it (planRelease).                                                     *)
LEMMA Plans ==
  ASSUME IInv, prep # Idle, NEW p \in 1..Len(main), Plannable(p), planRelease(p) = "ready"
  PROVE  Planned(p)
<1>1. main[p].version = Current /\ Current \in DOMAIN tags
  BY DEF IInv, PreparationOK, PrepOK, Plannable
<1>2. \E i \in tags[Current] + 1..p : ChangesSdk(i)
  BY DEF planRelease
<1>3. QED
  BY <1>1, <1>2 DEF Planned

(* prepareReleasePr() reads: every pull request is closed and none is for   *)
(* the next version.                                                        *)
LEMMA PrepareStartStep ==
  ASSUME IInv, NEW bump \in Bumps, PrepareStart(bump)
  PROVE  IInv'
<1>1. /\ UNCHANGED <<main, branch, pulls, npm, tags, releases, run, pending, failed>>
      /\ Tip \in 1..Len(main) /\ Tip \in Nat
      /\ prep' = [at |-> "branch", sha |-> Tip, bump |-> bump, tagged |-> main[Tip].version \in DOMAIN tags]
      /\ \A v \in DOMAIN pulls : pulls[v] = "closed" /\ v # bumpVersion(main[Tip].version, bump)
  BY DEF PrepareStart, git, published, Tip, IInv, TypeOK
<1>2. /\ prep' \in Preparations /\ prep'.sha = Tip /\ prep'.bump = bump /\ prep'.at = "branch"
      /\ prep'.tagged = (main[Tip].version \in DOMAIN tags)
  BY <1>1 DEF Preparations
<1>3. TypeOK'
  BY <1>1, <1>2 DEF IInv, TypeOK
<1>4. Grows /\ Sound(pending)'
  BY <1>1, SoundKept DEF Grows, IInv, TypeOK, PublicationOK
<1>5. PublicationOK'
  BY <1>1, <1>4, PublicationFrame DEF published
<1>6. PullsOK' /\ MainOK'
  BY <1>1 DEF IInv, PreparationOK, PullsOK, MainOK, Planned, ChangesSdk
<1>7. Next1' = bumpVersion(main[Tip].version, bump) /\ Current' = main[Tip].version
  BY <1>1, <1>2 DEF Next1, Current
<1>8. PrepOK'
  BY <1>1, <1>2, <1>7 DEF PrepOK
<1>9. QED
  BY <1>3, <1>5, <1>6, <1>8 DEF IInv, PreparationOK

(* A preparation that is under way and does not touch main.                 *)
LEMMA PrepFrame ==
  ASSUME IInv, UNCHANGED <<main, published, run, pending, failed>>, TypeOK',
         PullsOK', PrepOK'
  PROVE  IInv'
<1>1. UNCHANGED <<npm, tags, releases>>
  BY DEF published
<1>2. Grows /\ Sound(pending)'
  BY SoundKept DEF Grows, IInv, TypeOK, PublicationOK
<1>3. PublicationOK'
  BY <1>2, PublicationFrame
<1>4. MainOK'
  BY <1>1 DEF IInv, PreparationOK, MainOK, ChangesSdk
<1>5. QED
  BY <1>3, <1>4 DEF IInv, PreparationOK

(* A pull request that is prepared resumes or creates its branch, or stops. *)
LEMMA PrepareReadStep ==
  ASSUME IInv, PrepareRead
  PROVE  IInv'
<1>1. /\ UNCHANGED <<main, branch, pulls, published, run, pending, failed>>
      /\ UNCHANGED <<npm, tags, releases>>
  BY DEF PrepareRead, git, published
<1>2. prep # Idle /\ prep \in Preparations /\ prep.sha \in 1..Len(main)
  <2>1. prep.at \in {"branch", "recheck"}
    BY DEF PrepareRead
  <2>2. prep # Idle
    BY <2>1 DEF Idle
  <2>3. QED
    BY <2>2, Underway
<1>3. PICK at \in {"recheck", "create", "open", "idle"} :
        /\ PrepGoes(at)
        /\ at = "create" => Plannable(prep.sha) /\ planRelease(prep.sha) = "ready"
        /\ at \in {"recheck", "open"} => Next1 \in DOMAIN branch
  <2>1. CASE prep.at = "branch" /\ PrepareBranch
    <3>1. CASE Next1 \in DOMAIN branch /\ Resumable
      BY <2>1, <3>1 DEF PrepareBranch
    <3>2. CASE Next1 \in DOMAIN branch /\ ~Resumable
      BY <2>1, <3>2 DEF PrepareBranch
    <3>3. CASE Next1 \notin DOMAIN branch /\ Plannable(prep.sha) /\ planRelease(prep.sha) = "ready" /\ prep.sha = Tip
      BY <2>1, <3>3 DEF PrepareBranch
    <3>4. CASE Next1 \notin DOMAIN branch /\ ~(Plannable(prep.sha) /\ planRelease(prep.sha) = "ready" /\ prep.sha = Tip)
      BY <2>1, <3>4 DEF PrepareBranch
    <3>5. QED
      BY <3>1, <3>2, <3>3, <3>4
  <2>2. CASE prep.at = "recheck" /\ PrepGoes(IF prep.sha = Tip /\ ~branch[Next1].edited THEN "open" ELSE "idle")
    <3>1. Next1 \in DOMAIN branch
      BY <1>2, <2>2 DEF IInv, PreparationOK, PrepOK
    <3>2. QED
      BY <2>2, <3>1
  <2>3. QED
    BY <2>1, <2>2 DEF PrepareRead
<1>4. /\ prep' \in Preparations \cup {Idle}
      /\ at = "idle" => prep' = Idle
      /\ at # "idle" => /\ prep' # Idle /\ prep'.at = at /\ prep'.sha = prep.sha
                        /\ prep'.bump = prep.bump /\ prep'.tagged = prep.tagged
  BY <1>2, <1>3, Going
<1>5. TypeOK'
  BY <1>1, <1>4 DEF IInv, TypeOK
<1>6. \A p : Planned(p)' <=> Planned(p)
  BY <1>1 DEF Planned, ChangesSdk
<1>7. PullsOK'
  BY <1>1, <1>6 DEF IInv, PreparationOK, PullsOK
<1>8. at = "create" => Planned(prep.sha)
  BY <1>2, <1>3, Plans
<1>9. PrepOK'
  <2>1. CASE at = "idle"
    BY <1>4, <2>1 DEF PrepOK
  <2>2. CASE at # "idle"
    <3>1. Next1' = Next1 /\ Current' = Current
      BY <1>1, <1>4, <2>2 DEF Next1, Current
    <3>2. QED
      BY <1>1, <1>2, <1>3, <1>4, <1>6, <1>8, <2>2, <3>1 DEF IInv, PreparationOK, PrepOK
  <2>3. QED
    BY <2>1, <2>2
<1>10. QED
  BY <1>1, <1>5, <1>7, <1>9, PrepFrame

(* The branch is created on the commit the release was planned on.          *)
LEMMA PrepareCreateStep ==
  ASSUME IInv, PrepareCreate
  PROVE  IInv'
<1>1. /\ UNCHANGED <<main, pulls, published, run, pending, failed>>
      /\ UNCHANGED <<npm, tags, releases>>
      /\ branch' = Created(branch, Next1, [parent |-> prep.sha, edited |-> FALSE])
      /\ PrepGoes("recheck") /\ prep.at = "create"
  BY DEF PrepareCreate, published
<1>2. prep # Idle /\ prep \in Preparations /\ prep.sha \in 1..Len(main) /\ Next1 \in Numbers
  <2>1. prep # Idle
    BY <1>1 DEF Idle
  <2>2. QED
    BY <2>1, Underway
<1>3. /\ prep' \in Preparations /\ prep' # Idle /\ prep'.at = "recheck" /\ prep'.sha = prep.sha
      /\ prep'.bump = prep.bump /\ prep'.tagged = prep.tagged
  BY <1>1, <1>2, Going
<1>4. [parent |-> prep.sha, edited |-> FALSE] \in Branches
  BY <1>2 DEF Branches, Preparations
<1>5. /\ DOMAIN branch' = DOMAIN branch \cup {Next1}
      /\ \A v \in DOMAIN branch' : branch'[v] = IF v \in DOMAIN branch THEN branch[v] ELSE [parent |-> prep.sha, edited |-> FALSE]
      /\ branch' = [v \in DOMAIN branch' |-> branch'[v]]
  BY <1>1 DEF Created
<1>6. DOMAIN branch' \subseteq Numbers /\ branch' \in [DOMAIN branch' -> Branches]
  BY <1>2, <1>4, <1>5 DEF IInv, TypeOK
<1>7. TypeOK'
  BY <1>1, <1>3, <1>6 DEF IInv, TypeOK
<1>8. \A p : Planned(p)' <=> Planned(p)
  BY <1>1 DEF Planned, ChangesSdk
<1>9. Planned(prep.sha)
  BY <1>1, <1>2 DEF IInv, PreparationOK, PrepOK
<1>10. PullsOK'
  <2>1. ASSUME NEW v \in DOMAIN branch' PROVE Planned(branch'[v].parent)
    BY <1>5, <1>9 DEF IInv, PreparationOK, PullsOK
  <2>2. \A v \in DOMAIN branch' : (Planned(branch[v].parent))'
    BY <1>8, <2>1
  <2>3. \A v \in DOMAIN pulls : pulls[v] = "open" => v \in DOMAIN branch'
    BY <1>5 DEF IInv, PreparationOK, PullsOK
  <2>4. \A v, w \in DOMAIN pulls : pulls[v] = "open" /\ pulls[w] = "open" => v = w
    BY DEF IInv, PreparationOK, PullsOK
  <2>5. QED
    BY <1>1, <2>2, <2>3, <2>4 DEF PullsOK
<1>11. Next1' = Next1 /\ Current' = Current
  BY <1>1, <1>3 DEF Next1, Current
<1>12. PrepOK'
  BY <1>1, <1>2, <1>3, <1>5, <1>11 DEF IInv, PreparationOK, PrepOK
<1>13. QED
  BY <1>1, <1>7, <1>10, <1>12, PrepFrame

(* The pull request is opened when every other one is closed.               *)
LEMMA PrepareOpenStep ==
  ASSUME IInv, PrepareOpen
  PROVE  IInv'
<1>1. /\ UNCHANGED <<main, branch, published, run, pending, failed>>
      /\ UNCHANGED <<npm, tags, releases>>
      /\ pulls' = Created(pulls, Next1, "open")
      /\ prep' = Idle /\ prep.at = "open"
  BY DEF PrepareOpen, published, PrepGoes
<1>2. prep # Idle /\ Next1 \in Numbers
  <2>1. prep # Idle
    BY <1>1 DEF Idle
  <2>2. QED
    BY <2>1, Underway
<1>3. (\A v \in DOMAIN pulls : pulls[v] = "closed") /\ Next1 \in DOMAIN branch
  BY <1>1, <1>2 DEF IInv, PreparationOK, PrepOK
<1>4. /\ DOMAIN pulls' = DOMAIN pulls \cup {Next1}
      /\ \A v \in DOMAIN pulls' : pulls'[v] = IF v \in DOMAIN pulls THEN pulls[v] ELSE "open"
      /\ pulls' = [v \in DOMAIN pulls' |-> pulls'[v]]
  BY <1>1 DEF Created
<1>5. DOMAIN pulls' \subseteq Numbers /\ pulls' \in [DOMAIN pulls' -> {"open", "closed"}]
  BY <1>2, <1>4 DEF IInv, TypeOK
<1>6. TypeOK'
  BY <1>1, <1>5 DEF IInv, TypeOK
<1>7. \A v \in DOMAIN pulls' : pulls'[v] = "open" => v = Next1
  BY <1>3, <1>4
<1>8. \A p : Planned(p)' <=> Planned(p)
  BY <1>1 DEF Planned, ChangesSdk
<1>9. \A v \in DOMAIN branch' : (Planned(branch[v].parent))'
  BY <1>1, <1>8 DEF IInv, PreparationOK, PullsOK
<1>10. PullsOK'
  BY <1>1, <1>3, <1>7, <1>9 DEF PullsOK
<1>11. PrepOK'
  BY <1>1 DEF PrepOK
<1>12. QED
  BY <1>1, <1>6, <1>10, <1>11, PrepFrame

(* A preparation that fails leaves what it has written.                     *)
LEMMA PrepareCrashStep ==
  ASSUME IInv, PrepareCrash
  PROVE  IInv'
<1>1. /\ UNCHANGED <<main, branch, pulls, published, run, pending, failed>>
      /\ UNCHANGED <<npm, tags, releases>>
      /\ prep' = Idle
  BY DEF PrepareCrash, git, published, PrepGoes
<1>2. TypeOK'
  BY <1>1 DEF IInv, TypeOK
<1>3. PullsOK' /\ PrepOK'
  BY <1>1 DEF IInv, PreparationOK, PullsOK, PrepOK, Planned, ChangesSdk
<1>4. QED
  BY <1>1, <1>2, <1>3, PrepFrame

-----------------------------------------------------------------------------
(* People.                                                                  *)

(* A dispatch is not a job.                                                 *)
LEMMA Dispatched ==
  ASSUME NEW r \in Dispatches
  PROVE  r \notin Jobs /\ r # Idle /\ r.at = "resolve"
BY DEF Dispatches, Jobs, States, Idle

(* A dispatched publication is one.                                         *)
LEMMA Publications ==
  ASSUME NEW sha \in Nat, NEW push \in BOOLEAN, NEW requested \in Numbers \cup {NoVersion}
  PROVE  /\ Publication(sha, push, requested) \in Dispatches
         /\ Publication(sha, push, requested).sha = sha
         /\ Publication(sha, push, requested).push = push
BY DEF Publication, Dispatches

(* A push is one more commit, and dispatches a publication on it.           *)
LEMMA Pushed ==
  ASSUME IInv, NEW v \in Numbers, NEW kind \in {"release", "change", "restore"}, Push(v, kind)
  PROVE  /\ Grows /\ main' \in Seq(Commits) /\ Len(main') = Len(main) + 1
         /\ main'[Len(main) + 1] = [version |-> v, kind |-> kind]
         /\ pending' \in Dispatches /\ Sound(pending)'
<1>1. main \in Seq(Commits) /\ Len(main) \in Nat /\ Len(main) >= 1
  BY DEF IInv, TypeOK
<1>2. [version |-> v, kind |-> kind] \in Commits
  BY DEF Commits
<1>3. /\ main' \in Seq(Commits) /\ Len(main') = Len(main) + 1
      /\ main'[Len(main) + 1] = [version |-> v, kind |-> kind]
      /\ \A i \in 1..Len(main) : main'[i] = main[i]
  BY <1>1, <1>2 DEF Push
<1>4. Grows
  BY <1>1, <1>3 DEF Grows
<1>5. pending' = Publication(Len(main) + 1, TRUE, NoVersion)
  BY DEF Push, Enqueue, Tip
<1>6. pending' \in Dispatches /\ pending'.sha = Len(main) + 1
  <2>1. Len(main) + 1 \in Nat /\ TRUE \in BOOLEAN /\ NoVersion \in Numbers \cup {NoVersion}
    BY <1>1
  <2>2. QED
    BY <1>5, <2>1, Publications
<1>7. pending' \notin Jobs
  BY <1>6, Dispatched
<1>8. Sound(pending)'
  BY <1>1, <1>3, <1>6, <1>7 DEF Sound
<1>9. QED
  BY <1>3, <1>4, <1>6, <1>8

(* A release on main stays one that was prepared as it should be.           *)
LEMMA MainKept ==
  ASSUME IInv, Grows, UNCHANGED tags, Len(main') = Len(main) + 1,
         main'[Len(main) + 1].kind = "release" => Planned(Len(main))
  PROVE  MainOK'
<1>1. Len(main) \in Nat
  BY DEF Grows
<1>2. SUFFICES ASSUME NEW i \in 2..Len(main'), main'[i].kind = "release"
               PROVE  /\ main'[i - 1].version \in DOMAIN tags
                      /\ \E j \in tags[main'[i - 1].version] + 1..i - 1 : ChangesSdk(j)'
  BY DEF MainOK
<1>3. i - 1 \in 1..Len(main) /\ main'[i - 1] = main[i - 1]
  BY <1>1 DEF Grows
<1>4. /\ main[i - 1].version \in DOMAIN tags
      /\ \E j \in tags[main[i - 1].version] + 1..i - 1 : ChangesSdk(j)
  <2>1. CASE i = Len(main) + 1
    BY <1>1, <1>2, <2>1 DEF Planned
  <2>2. CASE i # Len(main) + 1
    <3>1. i \in 2..Len(main) /\ main'[i] = main[i]
      BY <1>1, <2>2 DEF Grows
    <3>2. QED
      BY <1>2, <3>1 DEF IInv, PreparationOK, MainOK
  <2>3. QED
    BY <2>1, <2>2
<1>5. PICK j \in tags[main[i - 1].version] + 1..i - 1 : ChangesSdk(j)
  BY <1>4
<1>6. tags[main[i - 1].version] \in Nat
  BY <1>4 DEF IInv, TypeOK
<1>7. j \in 1..Len(main) /\ main'[j] = main[j]
  BY <1>1, <1>3, <1>5, <1>6 DEF Grows
<1>8. ChangesSdk(j)'
  BY <1>5, <1>7 DEF ChangesSdk
<1>9. QED
  BY <1>3, <1>4, <1>5, <1>8

(* A change or a restore lands on main.                                     *)
LEMMA LandStep ==
  ASSUME IInv, NEW kind \in {"change", "restore"}, Land(kind)
  PROVE  IInv'
<1>1. /\ UNCHANGED <<branch, pulls, prep, published, run, failed>>
      /\ UNCHANGED <<npm, tags, releases>>
  BY DEF Land, published
<1>2. PICK v \in Versions : Push(v, kind)
  BY DEF Land
<1>3. v \in Numbers
  <2>1. PICK i \in 1..Len(main) : v = main[i].version
    BY DEF Versions, Tip
  <2>2. main[i] \in Commits
    BY DEF IInv, TypeOK
  <2>3. QED
    BY <2>1, <2>2 DEF Commits
<1>4. /\ Grows /\ main' \in Seq(Commits) /\ Len(main') = Len(main) + 1
      /\ main'[Len(main) + 1] = [version |-> v, kind |-> kind]
      /\ pending' \in Dispatches /\ Sound(pending)'
  BY <1>2, <1>3, Pushed
<1>5. TypeOK'
  BY <1>1, <1>4 DEF IInv, TypeOK, Grows
<1>6. PublicationOK'
  BY <1>1, <1>4, PublicationFrame
<1>7. TagsGrow
  BY <1>1 DEF TagsGrow
<1>8. \A p : Planned(p) => Planned(p)'
  BY <1>4, <1>7, PlannedKept DEF IInv
<1>9. PullsOK'
  BY <1>1, <1>8 DEF IInv, PreparationOK, PullsOK
<1>10. main'[Len(main) + 1].kind # "release"
  BY <1>4
<1>11. MainOK'
  BY <1>1, <1>4, <1>10, MainKept
<1>12. PrepOK'
  <2>1. CASE prep = Idle
    BY <1>1, <2>1 DEF PrepOK
  <2>2. CASE prep # Idle
    <3>1. prep.sha \in 1..Len(main)
      BY <2>2, Underway
    <3>2. main'[prep.sha] = main[prep.sha] /\ prep.sha \in 1..Len(main')
      BY <1>4, <3>1 DEF Grows
    <3>3. Next1' = Next1 /\ Current' = Current
      BY <1>1, <3>2 DEF Next1, Current
    <3>4. Planned(prep.sha) => Planned(prep.sha)'
      BY <1>1, <1>8
    <3>5. QED
      BY <1>1, <2>2, <3>2, <3>3, <3>4 DEF IInv, PreparationOK, PrepOK
  <2>3. QED
    BY <2>1, <2>2
<1>13. QED
  BY <1>5, <1>6, <1>9, <1>11, <1>12 DEF IInv, PreparationOK

(* A pull request is closed, and its branch deleted: no preparation is      *)
(* under way then, since it found them all closed.                          *)
LEMMA Closed ==
  ASSUME IInv, NEW v \in DOMAIN pulls, Close(v), UNCHANGED <<prep, tags>>,
         \A p : Planned(p) => Planned(p)'
  PROVE  /\ PullsOK' /\ PrepOK' /\ v \in DOMAIN branch
         /\ DOMAIN branch' \subseteq Numbers /\ branch' \in [DOMAIN branch' -> Branches]
         /\ DOMAIN pulls' \subseteq Numbers /\ pulls' \in [DOMAIN pulls' -> {"open", "closed"}]
<1>1. /\ pulls[v] = "open" /\ pulls' = [pulls EXCEPT ![v] = "closed"]
      /\ branch' = [w \in DOMAIN branch \ {v} |-> branch[w]]
  BY DEF Close, Restrict
<1>2. pulls \in [DOMAIN pulls -> {"open", "closed"}] /\ DOMAIN pulls \subseteq Numbers
  BY DEF IInv, TypeOK
<1>3. /\ DOMAIN pulls' = DOMAIN pulls /\ pulls' \in [DOMAIN pulls' -> {"open", "closed"}]
      /\ \A w \in DOMAIN pulls : pulls'[w] = IF w = v THEN "closed" ELSE pulls[w]
  BY <1>1, <1>2
<1>4. /\ DOMAIN branch' = DOMAIN branch \ {v} /\ \A w \in DOMAIN branch' : branch'[w] = branch[w]
      /\ branch' \in [DOMAIN branch' -> Branches] /\ DOMAIN branch' \subseteq Numbers
  BY <1>1 DEF IInv, TypeOK
<1>5. \A w \in DOMAIN pulls' : pulls'[w] # "open"
  BY <1>1, <1>3 DEF IInv, PreparationOK, PullsOK
<1>6. \A w \in DOMAIN branch' : (Planned(branch[w].parent))'
  BY <1>4 DEF IInv, PreparationOK, PullsOK
<1>7. PullsOK'
  BY <1>5, <1>6 DEF PullsOK
<1>8. prep = Idle
  BY <1>1 DEF IInv, PreparationOK, PrepOK
<1>9. PrepOK'
  BY <1>8 DEF PrepOK
<1>10. v \in DOMAIN branch
  BY <1>1 DEF IInv, PreparationOK, PullsOK
<1>11. QED
  BY <1>2, <1>3, <1>4, <1>7, <1>9, <1>10

(* A release is merged onto the version it was prepared on.                 *)
LEMMA MergePullStep ==
  ASSUME IInv, NEW v \in DOMAIN pulls, MergePull(v)
  PROVE  IInv'
<1>1. /\ UNCHANGED <<prep, published, run, failed>> /\ UNCHANGED <<npm, tags, releases>>
      /\ Close(v) /\ Push(v, "release") /\ main[branch[v].parent].version = main[Len(main)].version
  BY DEF MergePull, published, Tip
<1>2. v \in Numbers
  BY DEF IInv, TypeOK
<1>3. /\ Grows /\ main' \in Seq(Commits) /\ Len(main') = Len(main) + 1
      /\ pending' \in Dispatches /\ Sound(pending)'
  BY <1>1, <1>2, Pushed
<1>4. TagsGrow
  BY <1>1 DEF TagsGrow
<1>5. \A p : Planned(p) => Planned(p)'
  BY <1>3, <1>4, PlannedKept DEF IInv
<1>6. /\ PullsOK' /\ PrepOK' /\ v \in DOMAIN branch
      /\ DOMAIN branch' \subseteq Numbers /\ branch' \in [DOMAIN branch' -> Branches]
      /\ DOMAIN pulls' \subseteq Numbers /\ pulls' \in [DOMAIN pulls' -> {"open", "closed"}]
  BY <1>1, <1>5, Closed
<1>7. TypeOK'
  BY <1>1, <1>3, <1>6 DEF IInv, TypeOK, Grows
<1>8. PublicationOK'
  BY <1>1, <1>3, PublicationFrame
<1>9. Planned(Len(main))
  <2>1. Planned(branch[v].parent)
    BY <1>6 DEF IInv, PreparationOK, PullsOK
  <2>2. PICK p : p = branch[v].parent
    OBVIOUS
  <2>3. /\ p \in 1..Len(main) /\ main[p].version \in DOMAIN tags /\ main[p].version = main[Len(main)].version
        /\ \E j \in tags[main[p].version] + 1..p : ChangesSdk(j)
    BY <1>1, <2>1, <2>2 DEF Planned
  <2>4. tags[main[p].version] \in Nat /\ Len(main) \in Nat /\ Len(main) >= 1
    BY <2>3 DEF IInv, TypeOK
  <2>5. \E j \in tags[main[p].version] + 1..Len(main) : ChangesSdk(j)
    BY <2>3, <2>4
  <2>6. QED
    BY <2>3, <2>4, <2>5 DEF Planned
<1>10. MainOK'
  BY <1>1, <1>3, <1>9, MainKept
<1>11. QED
  BY <1>6, <1>7, <1>8, <1>10 DEF IInv, PreparationOK

(* A pull request is closed unmerged.                                       *)
LEMMA ClosePullStep ==
  ASSUME IInv, NEW v \in DOMAIN pulls, ClosePull(v)
  PROVE  IInv'
<1>1. /\ UNCHANGED <<main, prep, published, run, pending, failed>> /\ UNCHANGED <<npm, tags, releases>>
      /\ Close(v)
  BY DEF ClosePull, published
<1>2. \A p : Planned(p) => Planned(p)'
  BY <1>1 DEF Planned, ChangesSdk
<1>3. /\ PullsOK' /\ PrepOK'
      /\ DOMAIN branch' \subseteq Numbers /\ branch' \in [DOMAIN branch' -> Branches]
      /\ DOMAIN pulls' \subseteq Numbers /\ pulls' \in [DOMAIN pulls' -> {"open", "closed"}]
  BY <1>1, <1>2, Closed
<1>4. TypeOK'
  BY <1>1, <1>3 DEF IInv, TypeOK
<1>5. QED
  BY <1>1, <1>3, <1>4, PrepFrame

(* Someone pushes to a release branch.                                      *)
LEMMA EditBranchStep ==
  ASSUME IInv, NEW v \in DOMAIN branch, EditBranch(v)
  PROVE  IInv'
<1>1. /\ UNCHANGED <<main, pulls, prep, published, run, pending, failed>> /\ UNCHANGED <<npm, tags, releases>>
      /\ branch' = [branch EXCEPT ![v].edited = TRUE]
  BY DEF EditBranch, published
<1>2. branch \in [DOMAIN branch -> Branches] /\ DOMAIN branch \subseteq Numbers
  BY DEF IInv, TypeOK
<1>3. branch' = [w \in DOMAIN branch |-> IF w = v THEN [branch[v] EXCEPT !.edited = TRUE] ELSE branch[w]]
  BY <1>1, <1>2
<1>4. [branch[v] EXCEPT !.edited = TRUE] \in Branches /\ [branch[v] EXCEPT !.edited = TRUE].parent = branch[v].parent
  BY <1>2 DEF Branches
<1>5. /\ DOMAIN branch' = DOMAIN branch /\ branch' \in [DOMAIN branch -> Branches]
      /\ \A w \in DOMAIN branch : branch'[w].parent = branch[w].parent
  BY <1>2, <1>3, <1>4
<1>6. TypeOK'
  BY <1>1, <1>2, <1>5 DEF IInv, TypeOK
<1>7. \A p : Planned(p) => Planned(p)'
  BY <1>1 DEF Planned, ChangesSdk
<1>8. \A w \in DOMAIN branch' : (Planned(branch[w].parent))'
  BY <1>5, <1>7 DEF IInv, PreparationOK, PullsOK
<1>9. PullsOK'
  BY <1>1, <1>5, <1>8 DEF IInv, PreparationOK, PullsOK
<1>10. Next1' = Next1 /\ Current' = Current
  BY <1>1 DEF Next1, Current
<1>11. PrepOK'
  BY <1>1, <1>5, <1>7, <1>10 DEF IInv, PreparationOK, PrepOK
<1>12. QED
  BY <1>1, <1>6, <1>9, <1>11, PrepFrame

(* Nothing but the publications that wait, run or have failed changes.      *)
LEMMA QueueFrame ==
  ASSUME IInv, UNCHANGED <<git, prep, published>>, RunOK',
         run' \in Jobs \cup {Idle}, pending' \in Waiting \cup Dispatches \cup {Idle},
         failed' \in Waiting \cup Dispatches \cup {Idle},
         Sound(run'), Sound(pending'), Sound(failed')
  PROVE  IInv'
<1>1. UNCHANGED <<main, branch, pulls, prep, npm, tags, releases>>
  BY DEF git, published
<1>2. TypeOK'
  BY <1>1 DEF IInv, TypeOK
<1>3. TagsGrow /\ Grows
  BY <1>1 DEF TagsGrow, Grows, IInv, TypeOK
<1>4. PreparationOK'
  BY <1>3, PreparationFrame
<1>5. NpmOK' /\ TagsOK' /\ ReleasesOK'
  BY <1>1 DEF IInv, PublicationOK, NpmOK, TagsOK, ReleasesOK, Introduces
<1>6. Sound(run)' /\ Sound(pending)' /\ Sound(failed)'
  BY <1>1 DEF Sound, Introduces
<1>7. QED
  BY <1>2, <1>4, <1>5, <1>6 DEF IInv, PublicationOK

(* No publication under way is in order.                                    *)
LEMMA IdleRun ==
  Sound(Idle) /\ (run' = Idle => RunOK')
<1>1. Idle \notin Jobs /\ Idle \notin Dispatches
  BY DEF Idle, Jobs, States, Dispatches
<1>2. ASSUME run' = Idle PROVE RunOK'
  <2>1. run'.at = "idle"
    BY <1>2 DEF Idle
  <2>2. QED
    BY <2>1 DEF RunOK, Verified, Tagged, Found
<1>3. QED
  BY <1>1, <1>2 DEF Sound

(* Someone retries a version from main as it is.                            *)
LEMMA RetryStep ==
  ASSUME IInv, NEW v \in Versions, Retry(v)
  PROVE  IInv'
<1>1. UNCHANGED <<git, prep, published, run, failed>> /\ run = Idle /\ pending' = Publication(Len(main), FALSE, v)
  BY DEF Retry, Enqueue, Tip
<1>2. v \in Numbers
  <2>1. PICK i \in 1..Len(main) : v = main[i].version
    BY DEF Versions, Tip
  <2>2. main[i] \in Commits
    BY DEF IInv, TypeOK
  <2>3. QED
    BY <2>1, <2>2 DEF Commits
<1>3. Len(main) \in Nat /\ Len(main) >= 1 /\ FALSE \in BOOLEAN /\ v \in Numbers \cup {NoVersion}
  BY <1>2 DEF IInv, TypeOK
<1>4. pending' \in Dispatches /\ pending'.sha = Len(main) /\ pending'.push = FALSE
  BY <1>1, <1>3, Publications
<1>5. pending' \notin Jobs
  BY <1>4, Dispatched
<1>6. Sound(pending')
  BY <1>3, <1>4, <1>5 DEF Sound
<1>7. QED
  BY <1>1, <1>4, <1>6, IdleRun, QueueFrame DEF IInv, TypeOK, PublicationOK

(* Failed jobs are run again with what theirs had resolved.                 *)
LEMMA RerunStep ==
  ASSUME IInv, Rerun
  PROVE  IInv'
<1>1. UNCHANGED <<git, prep, published, run>> /\ run = Idle /\ pending' = failed /\ failed' = Idle
  BY DEF Rerun, Enqueue
<1>2. QED
  BY <1>1, IdleRun, QueueFrame DEF IInv, TypeOK, PublicationOK

-----------------------------------------------------------------------------
(* Publication: what is resolved.                                           *)

(* The greatest of some numbers that have a bound.                          *)
LEMMA Greatest ==
  ASSUME NEW n \in Nat, NEW S, S \subseteq 1..n, S # {}
  PROVE  Max(S) \in S /\ \A y \in S : y <= Max(S)
<1>1. PICK T : T = {n - s : s \in S}
  OBVIOUS
<1>2. T \subseteq Nat /\ T # {}
  <2>1. ASSUME NEW t \in T PROVE t \in Nat
    <3>1. PICK s \in S : t = n - s
      BY <1>1
    <3>2. s \in 1..n
      OBVIOUS
    <3>3. QED
      BY <3>1, <3>2
  <2>2. PICK s : s \in S
    OBVIOUS
  <2>3. n - s \in T
    BY <1>1, <2>2
  <2>4. QED
    BY <2>1, <2>3
<1>3. PICK t \in T : \A m \in T : t <= m
  BY <1>2, LeastNumber
<1>4. PICK s \in S : t = n - s
  BY <1>1
<1>5. \A y \in S : s >= y
  <2> TAKE y \in S
  <2>1. n - y \in T /\ y \in Nat /\ s \in Nat
    BY <1>1
  <2>2. n - s <= n - y
    BY <1>3, <1>4, <2>1
  <2>3. QED
    BY <2>1, <2>2
<1>6. Max(S) \in S /\ \A y \in S : Max(S) >= y
  BY <1>5 DEF Max
<1>7. \A y \in S : y \in Nat
  OBVIOUS
<1>8. QED
  BY <1>6, <1>7

(* The least of some numbers.                                               *)
LEMMA Least ==
  ASSUME NEW S, S \subseteq Nat, S # {}
  PROVE  Min(S) \in S /\ \A y \in S : Min(S) <= y
<1>1. \E x \in S : \A y \in S : x <= y
  BY LeastNumber
<1>2. QED
  BY <1>1 DEF Min

(* The commit that is resolved for a version gave it to main: the one       *)
(* before it has another version, or would be in the run itself.            *)
LEMMA IntroducedIntroduces ==
  ASSUME TypeOK, NEW v, NEW sha \in 1..Len(main), Known(v, sha) # {}
  PROVE  Introduces(Introduced(v, sha), v)
<1>1. PICK K : K = Known(v, sha)
  OBVIOUS
<1>2. K = {i \in 1..sha : main[i].version = v} /\ K # {} /\ K \subseteq 1..sha /\ Len(main) \in Nat /\ sha \in Nat
  BY <1>1 DEF Known, TypeOK
<1>3. PICK m \in K : m = Max(K)
  BY <1>2, Greatest
<1>4. PICK S : S = {i \in K : i..m \subseteq K}
  OBVIOUS
<1>5. S \subseteq Nat /\ S \subseteq K
  BY <1>2, <1>4
<1>6. m \in S
  <2>1. m..m = {m}
    BY <1>2, <1>3
  <2>2. QED
    BY <1>3, <1>4, <2>1
<1>7. PICK x \in S : x = Min(S) /\ \A y \in S : x <= y
  BY <1>5, <1>6, Least
<1>8. Introduced(v, sha) = x
  BY <1>1, <1>3, <1>4, <1>7 DEF Introduced
<1>9. x \in 1..Len(main) /\ main[x].version = v
  BY <1>2, <1>5, <1>7
<1>10. ASSUME x > 1, main[x - 1].version = v PROVE FALSE
  <2>1. x \in 1..sha /\ m \in 1..sha
    BY <1>2, <1>3, <1>5, <1>7
  <2>2. x - 1 \in K
    BY <1>2, <1>10, <2>1
  <2>3. x - 1..m \subseteq K
    <3>1. x..m \subseteq K
      BY <1>4, <1>7
    <3>2. \A i \in x - 1..m : i = x - 1 \/ i \in x..m
      BY <2>1
    <3>3. QED
      BY <2>2, <3>1, <3>2
  <2>4. x - 1 \in S
    BY <1>4, <2>2, <2>3
  <2>5. x <= x - 1
    BY <1>7, <2>4
  <2>6. QED
    BY <2>1, <2>5
<1>11. QED
  BY <1>8, <1>9, <1>10 DEF Introduces

(* What a publication resolves, unless it is refused: the commit that       *)
(* introduced the version it is to publish.                                 *)
LEMMA Resolved ==
  ASSUME IInv, NEW sha \in 1..Len(main), NEW requested \in Numbers \cup {NoVersion},
         resolveIdentity(sha, requested).source # 0
  PROVE  /\ resolveIdentity(sha, requested) \in Identities
         /\ Introduces(resolveIdentity(sha, requested).source, resolveIdentity(sha, requested).version)
<1>1. PICK version : version = IF requested = NoVersion THEN main[sha].version ELSE requested
  OBVIOUS
<1>2. version \in Numbers
  <2>1. main[sha] \in Commits
    BY DEF IInv, TypeOK
  <2>2. main[sha].version \in Numbers
    BY <2>1 DEF Commits
  <2>3. QED
    BY <1>1, <2>2
<1>3. PICK source : source = CASE version \in DOMAIN tags /\ tags[version] <= sha -> tags[version]
                      [] ~(version \in DOMAIN tags) /\ Known(version, sha) # {} -> Introduced(version, sha)
                      [] OTHER -> 0
  OBVIOUS
<1>4. resolveIdentity(sha, requested) = [version |-> version, tagged |-> version \in DOMAIN tags, source |-> source]
  BY <1>1, <1>3 DEF resolveIdentity
<1>5. source # 0
  BY <1>4
<1>6. CASE version \in DOMAIN tags /\ tags[version] <= sha
  <2>1. source = tags[version]
    BY <1>3, <1>6
  <2>2. Introduces(source, version)
    BY <1>6, <2>1 DEF IInv, PublicationOK, TagsOK, NpmOK
  <2>3. QED
    BY <1>2, <1>4, <2>2 DEF Identities, Introduces
<1>7. CASE ~(version \in DOMAIN tags) /\ Known(version, sha) # {}
  <2>1. source = Introduced(version, sha)
    BY <1>3, <1>7
  <2>2. Introduces(source, version)
    BY <1>7, <2>1, IntroducedIntroduces DEF IInv
  <2>3. QED
    BY <1>2, <1>4, <2>2 DEF Identities, Introduces
<1>8. CASE ~(version \in DOMAIN tags /\ tags[version] <= sha) /\ ~(~(version \in DOMAIN tags) /\ Known(version, sha) # {})
  BY <1>3, <1>5, <1>8
<1>9. QED
  BY <1>6, <1>7, <1>8

(* The waiting publication starts, is skipped or is refused.                *)
LEMMA StartStep ==
  ASSUME IInv, Start
  PROVE  IInv'
<1>1. UNCHANGED <<git, prep, published>> /\ run = Idle /\ pending # Idle /\ pending' = Idle
  BY DEF Start
<1>2. pending \in Waiting \cup Dispatches /\ Sound(pending) /\ Sound(failed) /\ failed \in Waiting \cup Dispatches \cup {Idle}
  BY <1>1 DEF IInv, TypeOK, PublicationOK
<1>3. CASE pending.at = "resolve" /\ Resolve
  <2>1. pending \in Dispatches
    BY <1>2, <1>3 DEF Waiting
  <2>2. pending.sha \in 1..Len(main) /\ pending.requested \in Numbers \cup {NoVersion}
    BY <1>2, <2>1 DEF Sound, Dispatches
  <2>3. PICK id : id = resolveIdentity(pending.sha, pending.requested)
    OBVIOUS
  <2>4. \/ UNCHANGED <<run, failed>>
        \/ failed' = pending /\ UNCHANGED run
        \/ /\ id.source # 0 /\ UNCHANGED failed
           /\ run' = [at |-> "recover", identity |-> id, build |-> 0, release |-> 0]
    BY <1>3, <2>3 DEF Resolve
  <2>5. CASE UNCHANGED <<run, failed>>
    BY <1>1, <1>2, <2>5, IdleRun, QueueFrame
  <2>6. CASE failed' = pending /\ UNCHANGED run
    BY <1>1, <1>2, <2>6, IdleRun, QueueFrame
  <2>7. CASE /\ id.source # 0 /\ UNCHANGED failed
             /\ run' = [at |-> "recover", identity |-> id, build |-> 0, release |-> 0]
    <3>1. id \in Identities /\ Introduces(id.source, id.version)
      BY <2>2, <2>3, <2>7, Resolved
    <3>2. run' \in Jobs /\ run'.identity = id /\ run'.at = "recover"
      BY <2>7, <3>1 DEF Jobs, States
    <3>3. run' \notin Dispatches
      BY <3>2 DEF Dispatches
    <3>4. Sound(run')
      BY <3>1, <3>2, <3>3 DEF Sound
    <3>5. RunOK'
      BY <3>2 DEF RunOK, Verified, Tagged, Found
    <3>6. QED
      BY <1>1, <1>2, <2>7, <3>2, <3>4, <3>5, IdleRun, QueueFrame
  <2>8. QED
    BY <2>4, <2>5, <2>6, <2>7
<1>4. CASE pending.at # "resolve" /\ run' = pending /\ UNCHANGED failed
  <2>1. pending \in Waiting
    BY <1>2, <1>4, Dispatched
  <2>2. pending \in Jobs /\ run'.at \in {"recover", "publish", "complete"}
    BY <1>4, <2>1 DEF Waiting
  <2>3. RunOK'
    BY <2>2 DEF RunOK, Verified, Tagged, Found
  <2>4. QED
    BY <1>1, <1>2, <1>4, <2>2, <2>3, IdleRun, QueueFrame
<1>5. CASE failed' = pending /\ UNCHANGED run
  BY <1>1, <1>2, <1>5, IdleRun, QueueFrame
<1>6. QED
  BY <1>3, <1>4, <1>5 DEF Start

-----------------------------------------------------------------------------
(* Publication: npm.                                                        *)

(* A job under way.                                                         *)
LEMMA JobUnderWay ==
  ASSUME IInv, run # Idle
  PROVE  /\ run \in Jobs /\ run.at \in States /\ Id \in Identities /\ run.build \in Nat /\ run.release \in Nat
         /\ Id.version \in Numbers /\ Id.source \in Nat /\ Introduces(Id.source, Id.version)
<1>1. run \in Jobs /\ Sound(run)
  BY DEF IInv, TypeOK, PublicationOK
<1>2. run.at \in States /\ Id \in Identities /\ run.build \in Nat /\ run.release \in Nat
  BY <1>1 DEF Jobs, States, Id
<1>3. Id.version \in Numbers /\ Id.source \in Nat
  BY <1>2 DEF Identities
<1>4. Introduces(Id.source, Id.version)
  BY <1>1 DEF Sound, Id
<1>5. QED
  BY <1>1, <1>2, <1>3, <1>4

(* A job goes on with what it has.                                          *)
LEMMA Gone ==
  ASSUME NEW at \in States, run \in Jobs, Goes(at)
  PROVE  /\ run' \in Jobs /\ run'.at = at /\ run'.identity = run.identity
         /\ run'.build = run.build /\ run'.release = run.release /\ UNCHANGED failed
<1>1. run' = [run EXCEPT !.at = at] /\ UNCHANGED failed
  BY DEF Goes
<1>2. QED
  BY <1>1 DEF Jobs, States

(* A job goes on with the same identity, which is still sound.              *)
LEMMA SameIdentity ==
  ASSUME IInv, run # Idle, run' \in Jobs, run'.identity = run.identity
  PROVE  Sound(run')
<1>1. run' \notin Dispatches
  BY DEF Jobs, States, Dispatches
<1>2. Introduces(run'.identity.source, run'.identity.version)
  BY JobUnderWay DEF Id
<1>3. QED
  BY <1>1, <1>2 DEF Sound

(* A job that fails can be run again from the start of its job.             *)
LEMMA Failing ==
  ASSUME IInv, run # Idle, Fails
  PROVE  run' = Idle /\ failed' \in Waiting /\ Sound(failed')
<1>1. run \in Jobs /\ Id \in Identities /\ run.build \in Nat /\ Introduces(Id.source, Id.version)
  BY JobUnderWay
<1>2. PICK at : at = JobOf(run.at)
  OBVIOUS
<1>3. at \in {"recover", "publish", "complete"}
  <2>1. CASE run.at \in {"recover", "build"}
    BY <1>2, <2>1 DEF JobOf
  <2>2. CASE run.at \in {"publish", "write", "verify"}
    BY <1>2, <2>2 DEF JobOf
  <2>3. CASE run.at \notin {"recover", "build", "publish", "write", "verify"}
    BY <1>2, <2>3 DEF JobOf
  <2>4. QED
    BY <2>1, <2>2, <2>3
<1>4. PICK build : build = IF at = "recover" THEN 0 ELSE run.build
  OBVIOUS
<1>5. run' = Idle /\ failed' = [run EXCEPT !.at = at, !.release = 0, !.build = build]
  BY <1>2, <1>4 DEF Fails
<1>6. build \in Nat /\ at \in States
  BY <1>1, <1>3, <1>4 DEF States
<1>7. failed' \in Jobs /\ failed'.at = at /\ failed'.identity = Id
  BY <1>1, <1>5, <1>6 DEF Jobs, States, Id
<1>8. failed' \in Waiting /\ failed' \notin Dispatches
  BY <1>3, <1>7 DEF Waiting, Dispatches
<1>9. Sound(failed')
  BY <1>1, <1>7, <1>8 DEF Sound
<1>10. QED
  BY <1>5, <1>8, <1>9

(* A failure changes nothing that is published.                             *)
LEMMA FailStep ==
  ASSUME IInv, run # Idle, Fails, UNCHANGED <<git, prep, published, pending>>
  PROVE  IInv'
<1>1. run' = Idle /\ failed' \in Waiting /\ Sound(failed')
  BY Failing
<1>2. QED
  BY <1>1, IdleRun, QueueFrame DEF IInv, TypeOK, PublicationOK

(* A job goes on and publishes nothing.                                     *)
LEMMA GoStep ==
  ASSUME IInv, run # Idle, run' \in Jobs, run'.identity = run.identity, RunOK',
         UNCHANGED <<git, prep, published, pending, failed>>
  PROVE  IInv'
<1>1. Sound(run')
  BY SameIdentity
<1>2. QED
  BY <1>1, QueueFrame DEF IInv, TypeOK, PublicationOK

(* What is read was written.                                                *)
LEMMA ReadsWritten ==
  ASSUME NEW v, TRUE \in Reads(v)
  PROVE  v \in DOMAIN npm
BY DEF Reads

(* A job's state before it has verified the registry claims nothing.        *)
LEMMA Unverified ==
  ASSUME run'.at \in {"recover", "build", "publish", "write", "verify", "complete"}
  PROVE  RunOK'
BY DEF RunOK, Verified, Tagged, Found

(* The recovery finds the published package, or builds it.                  *)
LEMMA RecoverStep ==
  ASSUME IInv, Recover, UNCHANGED <<git, prep, published, pending>>
  PROVE  IInv'
<1>1. run.at = "recover" /\ run # Idle
  BY DEF Recover, Idle
<1>2. run \in Jobs
  BY <1>1, JobUnderWay
<1>3. \/ Fails
      \/ Goes("build")
      \/ /\ Id.version \in DOMAIN npm /\ UNCHANGED failed
         /\ run' = [run EXCEPT !.at = "publish", !.build = npm[Id.version].build]
  <2>1. PICK registered \in Reads(Id.version) :
        \/ /\ registered
           /\ \E verified \in verifyRegistry(Id.version) :
                IF verified
                THEN run' = [run EXCEPT !.at = "publish", !.build = npm[Id.version].build]
                     /\ UNCHANGED failed
                ELSE Fails
        \/ ~registered /\ IF Id.tagged THEN Fails ELSE Goes("build")
    BY DEF Recover
  <2>2. registered \in BOOLEAN
    BY <2>1 DEF Reads
  <2>3. registered => Id.version \in DOMAIN npm
    BY <2>2, ReadsWritten
  <2>4. QED
    BY <2>1, <2>3
<1>4. CASE Fails
  BY <1>1, <1>4, FailStep
<1>5. CASE Goes("build")
  <2>1. run' \in Jobs /\ run'.at = "build" /\ run'.identity = run.identity /\ UNCHANGED failed
    BY <1>2, <1>5, Gone DEF States
  <2>2. QED
    BY <1>1, <2>1, GoStep, Unverified
<1>6. CASE /\ Id.version \in DOMAIN npm /\ UNCHANGED failed
           /\ run' = [run EXCEPT !.at = "publish", !.build = npm[Id.version].build]
  <2>1. npm[Id.version].build \in Nat
    BY <1>6 DEF IInv, TypeOK, Packages
  <2>2. run' \in Jobs /\ run'.at = "publish" /\ run'.identity = run.identity
    BY <1>2, <1>6, <2>1 DEF Jobs, States
  <2>3. QED
    BY <1>1, <1>6, <2>2, GoStep, Unverified
<1>7. QED
  BY <1>3, <1>4, <1>5, <1>6

(* A build gives the job a tarball.                                         *)
LEMMA BuildStep ==
  ASSUME IInv, Build, UNCHANGED <<git, prep, published, pending>>
  PROVE  IInv'
<1>1. run.at = "build" /\ run # Idle /\ UNCHANGED failed
  BY DEF Build, Idle
<1>2. run \in Jobs
  BY <1>1, JobUnderWay
<1>3. PICK b \in Nat : run' = [run EXCEPT !.at = "publish", !.build = b]
  BY DEF Build, Builds
<1>4. run' \in Jobs /\ run'.at = "publish" /\ run'.identity = run.identity
  BY <1>2, <1>3 DEF Jobs, States
<1>5. QED
  BY <1>1, <1>4, GoStep, Unverified

(* A job that goes on before it has verified the registry.                  *)
LEMMA GoesOn ==
  ASSUME IInv, run # Idle, NEW at \in {"build", "write", "verify", "complete"}, Goes(at),
         UNCHANGED <<git, prep, published, pending>>
  PROVE  IInv'
<1>1. run \in Jobs /\ at \in States
  BY JobUnderWay DEF States
<1>2. run' \in Jobs /\ run'.at = at /\ run'.identity = run.identity /\ UNCHANGED failed
  BY <1>1, Gone
<1>3. QED
  BY <1>2, GoStep, Unverified

(* The publication finds the version published, or will write it.           *)
LEMMA PublishOne ==
  ASSUME IInv, Publish, UNCHANGED <<git, prep, published, pending>>
  PROVE  IInv'
<1>1. run.at = "publish" /\ run # Idle
  BY DEF Publish, Idle
<1>2. Fails \/ Goes("complete") \/ Goes("write")
  <2>1. PICK registered \in Reads(Id.version) :
        \/ /\ registered
           /\ \E verified \in verifyRegistry(Id.version) :
                IF verified /\ Holds(Artifact, Id.version) THEN Goes("complete") ELSE Fails
        \/ ~registered /\ IF Id.tagged THEN Fails ELSE Goes("write")
    BY DEF Publish
  <2>2. QED
    BY <2>1
<1>3. CASE Fails
  BY <1>1, <1>3, FailStep
<1>4. CASE Goes("complete")
  BY <1>1, <1>4, GoesOn
<1>5. CASE Goes("write")
  BY <1>1, <1>5, GoesOn
<1>6. QED
  BY <1>2, <1>3, <1>4, <1>5

(* What a job verifies before it completes is what npm holds, for good.     *)
LEMMA VerifyStep ==
  ASSUME IInv, Verify, UNCHANGED <<git, prep, published, pending>>
  PROVE  IInv'
<1>1. run.at \in {"verify", "complete"} /\ run # Idle
  BY DEF Verify, Idle
<1>2. run \in Jobs
  BY <1>1, JobUnderWay
<1>3. \/ Fails
      \/ Goes("complete")
      \/ Goes("tag") /\ Id.version \in DOMAIN npm /\ Holds(Artifact, Id.version)
  <2>1. PICK registered \in Reads(Id.version) :
        \/ ~registered /\ Fails
        \/ /\ registered
           /\ \E verified \in verifyRegistry(Id.version) :
                IF verified /\ Holds(Artifact, Id.version)
                THEN Goes(IF run.at = "verify" THEN "complete" ELSE "tag") ELSE Fails
    BY DEF Verify
  <2>2. registered \in BOOLEAN
    BY <2>1 DEF Reads
  <2>3. registered => Id.version \in DOMAIN npm
    BY <2>2, ReadsWritten
  <2>4. CASE run.at = "verify"
    BY <2>1, <2>3, <2>4
  <2>5. CASE run.at # "verify"
    BY <2>1, <2>3, <2>5
  <2>6. QED
    BY <2>4, <2>5
<1>4. CASE Fails
  BY <1>1, <1>4, FailStep
<1>5. CASE Goes("complete")
  BY <1>1, <1>5, GoesOn
<1>6. CASE Goes("tag") /\ Id.version \in DOMAIN npm /\ Holds(Artifact, Id.version)
  <2>1. /\ run' \in Jobs /\ run'.at = "tag" /\ run'.identity = run.identity /\ UNCHANGED failed
        /\ run'.build = run.build
    BY <1>2, <1>6, Gone DEF States
  <2>2. npm[Id.version].source = Id.source /\ npm[Id.version].build = run.build
    BY <1>6 DEF Holds, Artifact
  <2>3. npm' = npm /\ Id' = Id
    BY <2>1 DEF published, Id
  <2>4. RunOK'
    BY <1>6, <2>1, <2>2, <2>3 DEF RunOK, Tagged, Found
  <2>5. QED
    BY <1>1, <2>1, <2>4, GoStep
<1>7. QED
  BY <1>3, <1>4, <1>5, <1>6

(* The registry keeps the packages it has: their source and their bytes.    *)
NpmGrows ==
  \A v \in DOMAIN npm : v \in DOMAIN npm' /\ npm'[v].source = npm[v].source /\ npm'[v].build = npm[v].build

(* A step of the registry.                                                  *)
LEMMA RegistryFrame ==
  ASSUME IInv, UNCHANGED <<git, prep, tags, releases, pending>>, NpmGrows, NpmOK', RunOK',
         DOMAIN npm' \subseteq Numbers, npm' \in [DOMAIN npm' -> Packages],
         run' \in Jobs \cup {Idle}, failed' \in Waiting \cup Dispatches \cup {Idle},
         Sound(run'), Sound(failed')
  PROVE  IInv'
<1>1. UNCHANGED <<main, branch, pulls, prep, tags, releases, pending>>
  BY DEF git
<1>2. TypeOK'
  BY <1>1 DEF IInv, TypeOK
<1>3. TagsGrow
  BY <1>1 DEF TagsGrow
<1>4. PreparationOK'
  BY <1>3, PreparationFrame
<1>5. TagsOK'
  BY <1>1 DEF IInv, PublicationOK, TagsOK, NpmGrows
<1>6. ASSUME NEW i \in DOMAIN releases
      PROVE  npm'[releases[i].tag].source = npm[releases[i].tag].source /\ npm'[releases[i].tag].build = npm[releases[i].tag].build
  BY DEF IInv, PublicationOK, TagsOK, ReleasesOK, NpmGrows
<1>7. ReleasesOK'
  BY <1>1, <1>6 DEF IInv, PublicationOK, ReleasesOK
<1>8. Sound(run)' /\ Sound(pending)' /\ Sound(failed)'
  BY <1>1 DEF Sound, Introduces, IInv, PublicationOK
<1>9. QED
  BY <1>2, <1>4, <1>5, <1>7, <1>8 DEF IInv, PublicationOK

(* npm takes a version it does not have, with the commit that introduced    *)
(* it.                                                                      *)
LEMMA WriteStep ==
  ASSUME IInv, Write, UNCHANGED <<git, prep, tags, releases, pending>>
  PROVE  IInv'
<1>1. run.at = "write" /\ run # Idle
  BY DEF Write, Idle
<1>2. /\ run \in Jobs /\ run.build \in Nat /\ Id.version \in Numbers /\ Id.source \in Nat
      /\ Introduces(Id.source, Id.version)
  BY <1>1, JobUnderWay
<1>3. CASE Id.version \in DOMAIN npm
  <2>1. Fails /\ UNCHANGED npm
    BY <1>3 DEF Write
  <2>2. UNCHANGED published
    BY <2>1 DEF published
  <2>3. QED
    BY <1>1, <2>1, <2>2, FailStep
<1>4. CASE Id.version \notin DOMAIN npm
  <2>1. PICK p : p = [source |-> Id.source, build |-> run.build, converged |-> FALSE]
    OBVIOUS
  <2>2. npm' = Created(npm, Id.version, p) /\ Goes("verify")
    BY <1>4, <2>1 DEF Write
  <2>3. p \in Packages /\ p.source = Id.source
    BY <1>2, <2>1 DEF Packages
  <2>4. /\ DOMAIN npm' = DOMAIN npm \cup {Id.version}
        /\ \A v \in DOMAIN npm' : npm'[v] = IF v \in DOMAIN npm THEN npm[v] ELSE p
        /\ npm' = [v \in DOMAIN npm' |-> npm'[v]]
    BY <2>2 DEF Created
  <2>5. DOMAIN npm' \subseteq Numbers /\ npm' \in [DOMAIN npm' -> Packages]
    BY <1>2, <2>3, <2>4 DEF IInv, TypeOK
  <2>6. NpmGrows
    BY <2>4 DEF NpmGrows
  <2>7. UNCHANGED main
    BY DEF git
  <2>8. ASSUME NEW v \in DOMAIN npm' PROVE Introduces(npm'[v].source, v)
    BY <1>2, <1>4, <2>3, <2>4 DEF IInv, PublicationOK, NpmOK
  <2>9. NpmOK'
    BY <2>7, <2>8 DEF NpmOK, Introduces
  <2>10. run' \in Jobs /\ run'.at = "verify" /\ run'.identity = run.identity /\ UNCHANGED failed
    BY <1>2, <2>2, Gone DEF States
  <2>11. RunOK' /\ Sound(run')
    BY <1>1, <2>10, Unverified, SameIdentity
  <2>12. QED
    BY <2>5, <2>6, <2>9, <2>10, <2>11, RegistryFrame DEF IInv, TypeOK, PublicationOK
<1>5. QED
  BY <1>3, <1>4

(* A read of the registry converges.                                        *)
LEMMA ConvergeStep ==
  ASSUME IInv, NEW v \in DOMAIN npm, Converge(v)
  PROVE  IInv'
<1>1. UNCHANGED <<git, prep, tags, releases, run, pending, failed>> /\ npm' = [npm EXCEPT ![v].converged = TRUE]
  BY DEF Converge
<1>2. npm \in [DOMAIN npm -> Packages] /\ DOMAIN npm \subseteq Numbers
  BY DEF IInv, TypeOK
<1>3. npm' = [w \in DOMAIN npm |-> IF w = v THEN [npm[v] EXCEPT !.converged = TRUE] ELSE npm[w]]
  BY <1>1, <1>2
<1>4. PICK p : p = [npm[v] EXCEPT !.converged = TRUE]
  OBVIOUS
<1>5. p \in Packages /\ p.source = npm[v].source /\ p.build = npm[v].build
  BY <1>2, <1>4 DEF Packages
<1>6. /\ DOMAIN npm' = DOMAIN npm /\ npm' \in [DOMAIN npm -> Packages]
      /\ \A w \in DOMAIN npm : npm'[w].source = npm[w].source /\ npm'[w].build = npm[w].build
  BY <1>2, <1>3, <1>4, <1>5
<1>7. NpmGrows
  BY <1>6 DEF NpmGrows
<1>8. UNCHANGED main
  BY <1>1 DEF git
<1>9. NpmOK'
  BY <1>6, <1>8 DEF IInv, PublicationOK, NpmOK, Introduces
<1>10. Id' = Id
  BY <1>1 DEF Id
<1>11. RunOK'
  BY <1>1, <1>6, <1>10 DEF IInv, PublicationOK, RunOK, Verified, Tagged, Found
<1>12. QED
  BY <1>1, <1>2, <1>6, <1>7, <1>9, <1>11, RegistryFrame DEF IInv, TypeOK, PublicationOK

(* Every step up to the verified registry.                                  *)
LEMMA PublishSteps ==
  ASSUME IInv, PublishStep, UNCHANGED <<git, prep, pending>>
  PROVE  IInv'
<1>1. CASE Recover /\ UNCHANGED published
  BY <1>1, RecoverStep
<1>2. CASE Build /\ UNCHANGED published
  BY <1>2, BuildStep
<1>3. CASE Publish /\ UNCHANGED published
  BY <1>3, PublishOne
<1>4. CASE Verify /\ UNCHANGED published
  BY <1>4, VerifyStep
<1>5. CASE Write /\ UNCHANGED <<tags, releases>>
  BY <1>5, WriteStep
<1>6. QED
  BY <1>1, <1>2, <1>3, <1>4, <1>5 DEF PublishStep

-----------------------------------------------------------------------------
(* Publication: the tag and the GitHub release.                             *)

(* A step of the completion.                                                *)
LEMMA CompleteFrame ==
  ASSUME IInv, UNCHANGED <<git, prep, npm, pending>>, TagsGrow, TagsOK', ReleasesOK', RunOK',
         DOMAIN tags' \subseteq Numbers, tags' \in [DOMAIN tags' -> Nat],
         releases' \in Seq(GithubReleases),
         run' \in Jobs \cup {Idle}, failed' \in Waiting \cup Dispatches \cup {Idle},
         Sound(run'), Sound(failed')
  PROVE  IInv'
<1>1. UNCHANGED <<main, branch, pulls, prep, npm, pending>>
  BY DEF git
<1>2. TypeOK'
  BY <1>1 DEF IInv, TypeOK
<1>3. PreparationOK'
  BY PreparationFrame
<1>4. NpmOK'
  BY <1>1 DEF IInv, PublicationOK, NpmOK, Introduces
<1>5. Sound(run)' /\ Sound(pending)' /\ Sound(failed)'
  BY <1>1 DEF Sound, Introduces, IInv, PublicationOK
<1>6. QED
  BY <1>2, <1>3, <1>4, <1>5 DEF IInv, PublicationOK

(* The tag is put on the commit the package was built from.                 *)
LEMMA TagStep ==
  ASSUME IInv, Tag, UNCHANGED <<git, prep, npm, pending>>
  PROVE  IInv'
<1>1. run.at = "tag" /\ run # Idle /\ UNCHANGED releases
  BY DEF Tag, Idle
<1>2. run \in Jobs /\ Id.version \in Numbers /\ Id.source \in Nat
  BY <1>1, JobUnderWay
<1>3. Id.version \in DOMAIN npm /\ npm[Id.version].source = Id.source /\ npm[Id.version].build = run.build
  BY <1>1 DEF IInv, PublicationOK, RunOK, Verified
<1>4. CASE Fails /\ UNCHANGED tags
  <2>1. UNCHANGED published
    BY <1>1, <1>4 DEF published
  <2>2. QED
    BY <1>1, <1>4, <2>1, FailStep
<1>5. ASSUME Goes("release"), TagsGrow, TagsOK', Id.version \in DOMAIN tags',
             DOMAIN tags' \subseteq Numbers, tags' \in [DOMAIN tags' -> Nat]
      PROVE  IInv'
  <2>1. /\ run' \in Jobs /\ run'.at = "release" /\ run'.identity = run.identity /\ UNCHANGED failed
        /\ run'.build = run.build
    BY <1>2, <1>5, Gone DEF States
  <2>2. Id' = Id
    BY <2>1 DEF Id
  <2>3. RunOK'
    BY <1>3, <1>5, <2>1, <2>2 DEF RunOK, Found
  <2>4. Sound(run')
    BY <1>1, <2>1, SameIdentity
  <2>5. ReleasesOK'
    BY <1>1, <1>5 DEF IInv, PublicationOK, ReleasesOK, TagsGrow
  <2>6. QED
    BY <1>1, <1>5, <2>1, <2>3, <2>4, <2>5, CompleteFrame DEF IInv, TypeOK, PublicationOK
<1>6. CASE Id.version \in DOMAIN tags /\ Goes("release") /\ UNCHANGED tags
  <2>1. TagsGrow /\ TagsOK'
    BY <1>6 DEF TagsGrow, TagsOK, IInv, PublicationOK
  <2>2. QED
    BY <1>5, <1>6, <2>1 DEF IInv, TypeOK
<1>7. CASE Id.version \notin DOMAIN tags /\ Goes("release") /\ tags' = Created(tags, Id.version, Id.source)
  <2>1. /\ DOMAIN tags' = DOMAIN tags \cup {Id.version}
        /\ \A v \in DOMAIN tags' : tags'[v] = IF v \in DOMAIN tags THEN tags[v] ELSE Id.source
        /\ tags' = [v \in DOMAIN tags' |-> tags'[v]]
    BY <1>7 DEF Created
  <2>2. TagsGrow
    BY <2>1 DEF TagsGrow
  <2>3. TagsOK'
    BY <1>3, <2>1 DEF TagsOK, IInv, PublicationOK
  <2>4. DOMAIN tags' \subseteq Numbers /\ tags' \in [DOMAIN tags' -> Nat]
    BY <1>2, <2>1 DEF IInv, TypeOK
  <2>5. QED
    BY <1>5, <1>7, <2>1, <2>2, <2>3, <2>4
<1>8. QED
  BY <1>4, <1>6, <1>7 DEF Tag

(* A step of the completion that leaves the tags alone.                     *)
LEMMA AssetsFrame ==
  ASSUME IInv, UNCHANGED <<git, prep, npm, tags, pending>>, ReleasesOK', RunOK',
         releases' \in Seq(GithubReleases),
         run' \in Jobs \cup {Idle}, failed' \in Waiting \cup Dispatches \cup {Idle},
         Sound(run'), Sound(failed')
  PROVE  IInv'
<1>1. TagsGrow /\ TagsOK'
  BY DEF TagsGrow, TagsOK, IInv, PublicationOK
<1>2. QED
  BY <1>1, CompleteFrame DEF IInv, TypeOK

(* The release of a version is the one there is, or a new draft.            *)
LEMMA GithubReleaseStep ==
  ASSUME IInv, GithubRelease, UNCHANGED <<git, prep, npm, pending>>
  PROVE  IInv'
<1>1. run.at = "release" /\ run # Idle /\ UNCHANGED tags
  BY DEF GithubRelease, Idle
<1>2. run \in Jobs /\ Id.version \in Numbers /\ releases \in Seq(GithubReleases)
  BY <1>1, JobUnderWay DEF IInv, TypeOK
<1>3. /\ Id.version \in DOMAIN npm /\ npm[Id.version].source = Id.source /\ npm[Id.version].build = run.build
      /\ Id.version \in DOMAIN tags
  BY <1>1 DEF IInv, PublicationOK, RunOK, Verified, Tagged
<1>4. ASSUME NEW i \in Nat, Completing(i), i \in DOMAIN releases', releases'[i].tag = Id.version,
             releases' \in Seq(GithubReleases), ReleasesOK'
      PROVE  IInv'
  <2>1. run' = [run EXCEPT !.at = "tgz", !.release = i] /\ UNCHANGED failed
    BY <1>4 DEF Completing
  <2>2. /\ run' \in Jobs /\ run'.at = "tgz" /\ run'.identity = run.identity
        /\ run'.build = run.build /\ run'.release = i
    BY <1>2, <2>1 DEF Jobs, States
  <2>3. Id' = Id
    BY <2>2 DEF Id
  <2>4. RunOK'
    BY <1>1, <1>3, <1>4, <2>2, <2>3 DEF RunOK
  <2>5. Sound(run')
    BY <1>1, <2>2, SameIdentity
  <2>6. QED
    BY <1>1, <1>4, <2>1, <2>2, <2>4, <2>5, AssetsFrame DEF IInv, TypeOK, PublicationOK
<1>5. PICK found : found = FoundReleases(Id.version)
  OBVIOUS
<1>6. found \subseteq Nat /\ found = {i \in DOMAIN releases : releases[i].tag = Id.version} /\ Len(releases) \in Nat
  BY <1>2, <1>5 DEF FoundReleases
<1>7. CASE found # {} /\ Completing(Min(found)) /\ UNCHANGED releases
  <2>1. Min(found) \in found
    BY <1>6, <1>7, Least
  <2>2. ReleasesOK'
    BY <1>1, <1>7 DEF IInv, PublicationOK, ReleasesOK
  <2>3. QED
    BY <1>2, <1>4, <1>6, <1>7, <2>1, <2>2
<1>8. ASSUME found = {}, Completing(Len(releases) + 1),
             releases' = Append(releases, [tag |-> Id.version, draft |-> TRUE, assets |-> [n \in Names |-> NoAsset]])
      PROVE  IInv'
  <2>1. PICK r : r = [tag |-> Id.version, draft |-> TRUE, assets |-> [n \in Names |-> NoAsset]]
    OBVIOUS
  <2>2. r \in GithubReleases /\ r.tag = Id.version /\ r.draft
    BY <1>2, <2>1 DEF GithubReleases, NoAsset, Assets
  <2>3. /\ releases' \in Seq(GithubReleases) /\ DOMAIN releases' = DOMAIN releases \cup {Len(releases) + 1}
        /\ Len(releases) + 1 \notin DOMAIN releases
        /\ releases'[Len(releases) + 1] = r /\ \A i \in DOMAIN releases : releases'[i] = releases[i]
    BY <1>2, <1>8, <2>1, <2>2
  <2>4. \A i \in DOMAIN releases : releases[i].tag # Id.version
    BY <1>6, <1>8
  <2>5. ReleasesOK'
    BY <1>1, <1>3, <2>2, <2>3, <2>4 DEF IInv, PublicationOK, ReleasesOK
  <2>6. QED
    BY <1>4, <1>6, <1>8, <2>2, <2>3, <2>5
<1>9. QED
  BY <1>5, <1>7, <1>8 DEF GithubRelease

(* Where a publication is once it has found its release.                    *)
LEMMA FoundRelease ==
  ASSUME IInv, run.at \in {"tgz", "sha256", "undraft"}
  PROVE  /\ run # Idle /\ run \in Jobs /\ run.release \in DOMAIN releases
         /\ releases \in Seq(GithubReleases) /\ releases[run.release] \in GithubReleases
         /\ releases[run.release].tag = Id.version /\ Id.source \in Nat /\ run.build \in Nat
         /\ npm[Id.version].source = Id.source /\ npm[Id.version].build = run.build
         /\ Id.version \in DOMAIN npm /\ Id.version \in DOMAIN tags
<1>1. run # Idle
  BY DEF Idle
<1>2. run \in Jobs /\ Id.source \in Nat /\ run.build \in Nat /\ releases \in Seq(GithubReleases)
  BY <1>1, JobUnderWay DEF IInv, TypeOK
<1>3. /\ run.release \in DOMAIN releases /\ releases[run.release].tag = Id.version
      /\ npm[Id.version].source = Id.source /\ npm[Id.version].build = run.build
      /\ Id.version \in DOMAIN npm /\ Id.version \in DOMAIN tags
  BY DEF IInv, PublicationOK, RunOK, Verified, Tagged, Found
<1>4. releases[run.release] \in GithubReleases
  BY <1>2, <1>3
<1>5. QED
  BY <1>1, <1>2, <1>3, <1>4

(* Writing an asset of a draft: the other asset, and other releases, stay.  *)
LEMMA AssetWritten ==
  ASSUME IInv, run.at \in {"tgz", "sha256"}, UNCHANGED <<npm, tags>>,
         NEW name \in Names, NEW asset \in Assets, releases[run.release].draft, AssetIs(name, asset)
  PROVE  /\ releases' \in Seq(GithubReleases) /\ DOMAIN releases' = DOMAIN releases /\ ReleasesOK'
         /\ releases'[run.release].tag = releases[run.release].tag
         /\ releases'[run.release].assets[name] = asset
         /\ \A n \in Names \ {name} : releases'[run.release].assets[n] = releases[run.release].assets[n]
<1>1. PICK k : k = run.release
  OBVIOUS
<1>2. k \in DOMAIN releases /\ releases \in Seq(GithubReleases) /\ releases[k] \in GithubReleases
  BY <1>1, FoundRelease
<1>3. PICK r : r = [releases[k] EXCEPT !.assets[name] = asset]
  OBVIOUS
<1>4. releases' = [releases EXCEPT ![k] = r]
  BY <1>1, <1>3 DEF AssetIs
<1>5. releases[k].assets \in [Names -> Assets]
  BY <1>2 DEF GithubReleases
<1>6. r = [releases[k] EXCEPT !.assets = [releases[k].assets EXCEPT ![name] = asset]]
  BY <1>3
<1>7. /\ r \in GithubReleases /\ r.tag = releases[k].tag /\ r.draft = releases[k].draft
      /\ r.assets = [releases[k].assets EXCEPT ![name] = asset]
  BY <1>2, <1>5, <1>6 DEF GithubReleases
<1>8. r.assets[name] = asset /\ \A n \in Names \ {name} : r.assets[n] = releases[k].assets[n]
  BY <1>5, <1>7
<1>9. /\ releases' \in Seq(GithubReleases) /\ DOMAIN releases' = DOMAIN releases
      /\ releases'[k] = r /\ \A i \in DOMAIN releases \ {k} : releases'[i] = releases[i]
  BY <1>2, <1>4, <1>7
<1>10. \A i \in DOMAIN releases : releases'[i].tag = releases[i].tag /\ releases'[i].draft = releases[i].draft
  BY <1>7, <1>9
<1>11. ASSUME NEW i \in DOMAIN releases', ~releases'[i].draft PROVE releases'[i] = releases[i]
  BY <1>1, <1>9, <1>10, <1>11
<1>12. ReleasesOK'
  BY <1>9, <1>10, <1>11, SMTT(30) DEF IInv, PublicationOK, ReleasesOK
<1>13. QED
  BY <1>1, <1>7, <1>8, <1>9, <1>12

(* What is left on an asset is one.                                         *)
LEMMA AssetForms ==
  ASSUME NEW source \in Nat, NEW build \in Nat
  PROVE  /\ Uploaded(source, build) \in Assets /\ Uploaded(source, build).state = "uploaded"
         /\ Uploaded(source, Corrupt) \in Assets
         /\ Starter \in Assets /\ Starter.state = "starter"
         /\ NoAsset \in Assets /\ NoAsset.state = "none"
BY DEF Uploaded, Corrupt, Starter, NoAsset, Assets

(* Where the publication goes after an asset.                               *)
Follows(name, at) ==
  \/ name = "tgz" /\ at = "sha256"
  \/ name = "sha256" /\ at = "undraft"

(* An asset is compared, removed if it is a starter, or uploaded.           *)
LEMMA EnsureAssetStep ==
  ASSUME IInv, NEW name, NEW at, UNCHANGED <<git, prep, npm, tags, pending>>,
         run.at = name, Follows(name, at), ensureAsset(name, at)
  PROVE  IInv'
<1>0. \/ name = "tgz" /\ at = "sha256"
      \/ name = "sha256" /\ at = "undraft"
  BY DEF Follows
<1>1. name \in Names /\ at \in States /\ run.at \in {"tgz", "sha256"}
  BY <1>0 DEF Names, States
<1>2. PICK asset : asset = releases[run.release].assets[name]
  OBVIOUS
<1>3. PICK bytes : bytes = Uploaded(Id.source, run.build)
  OBVIOUS
<1>4. /\ run # Idle /\ run \in Jobs /\ run.release \in DOMAIN releases
      /\ releases \in Seq(GithubReleases)
      /\ releases[run.release].tag = Id.version /\ Id.source \in Nat /\ run.build \in Nat
      /\ npm[Id.version].source = Id.source /\ npm[Id.version].build = run.build
      /\ Id.version \in DOMAIN npm /\ Id.version \in DOMAIN tags
      /\ releases[run.release].draft \in BOOLEAN
  BY <1>1, FoundRelease DEF GithubReleases
<1>5. /\ bytes \in Assets /\ bytes.state = "uploaded" /\ Uploaded(Id.source, Corrupt) \in Assets
      /\ Starter \in Assets /\ Starter.state = "starter" /\ NoAsset \in Assets /\ NoAsset.state = "none"
  BY <1>3, <1>4, AssetForms
<1>6. asset.state # "uploaded" => releases[run.release].draft
  <2>1. PICK k : k = run.release
    OBVIOUS
  <2>2. k \in DOMAIN releases /\ releases[k].tag = Id.version /\ asset = releases[k].assets[name]
    BY <1>2, <1>4, <2>1
  <2>3. ~releases[k].draft => asset = Uploaded(npm[Id.version].source, npm[Id.version].build)
    BY <1>1, <2>2 DEF IInv, PublicationOK, ReleasesOK
  <2>4. QED
    BY <1>3, <1>4, <1>5, <2>1, <2>3
<1>7. name = "sha256" => releases[run.release].assets["tgz"] = bytes
  BY <1>1, <1>3 DEF IInv, PublicationOK, RunOK
<1>8. ASSUME Goes(at), releases' \in Seq(GithubReleases), DOMAIN releases' = DOMAIN releases, ReleasesOK',
             releases'[run.release].tag = releases[run.release].tag,
             releases'[run.release].assets[name] = bytes,
             name = "sha256" => releases'[run.release].assets["tgz"] = bytes
      PROVE  IInv'
  <2>1. /\ run' \in Jobs /\ run'.at = at /\ run'.identity = run.identity /\ UNCHANGED failed
        /\ run'.build = run.build /\ run'.release = run.release
    BY <1>1, <1>4, <1>8, Gone
  <2>2. Id' = Id
    BY <2>1 DEF Id
  <2>3. RunOK'
    BY <1>0, <1>3, <1>4, <1>8, <2>1, <2>2 DEF RunOK
  <2>4. Sound(run')
    BY <1>4, <2>1, SameIdentity
  <2>5. QED
    BY <1>8, <2>1, <2>3, <2>4, AssetsFrame DEF IInv, TypeOK, PublicationOK
<1>9. ASSUME Fails, releases' \in Seq(GithubReleases), ReleasesOK'
      PROVE  IInv'
  <2>1. run' = Idle /\ failed' \in Waiting /\ Sound(failed')
    BY <1>4, <1>9, Failing
  <2>2. QED
    BY <1>9, <2>1, IdleRun, AssetsFrame
<1>10. CASE UNCHANGED releases /\ asset = bytes /\ Goes(at)
  <2>1. ReleasesOK'
    BY <1>10 DEF IInv, PublicationOK, ReleasesOK
  <2>2. QED
    BY <1>2, <1>4, <1>7, <1>8, <1>10, <2>1
<1>11. CASE UNCHANGED releases /\ Fails
  <2>1. ReleasesOK'
    BY <1>11 DEF IInv, PublicationOK, ReleasesOK
  <2>2. QED
    BY <1>4, <1>9, <1>11, <2>1
<1>12. ASSUME NEW left \in Assets, AssetIs(name, left), asset.state # "uploaded"
       PROVE  /\ releases' \in Seq(GithubReleases) /\ DOMAIN releases' = DOMAIN releases /\ ReleasesOK'
              /\ releases'[run.release].tag = releases[run.release].tag
              /\ releases'[run.release].assets[name] = left
              /\ name = "sha256" => releases'[run.release].assets["tgz"] = bytes
  <2>1. /\ releases' \in Seq(GithubReleases) /\ DOMAIN releases' = DOMAIN releases /\ ReleasesOK'
        /\ releases'[run.release].tag = releases[run.release].tag
        /\ releases'[run.release].assets[name] = left
        /\ \A n \in Names \ {name} : releases'[run.release].assets[n] = releases[run.release].assets[n]
    BY <1>1, <1>6, <1>12, AssetWritten
  <2>2. name = "sha256" => "tgz" \in Names \ {name}
    BY DEF Names
  <2>3. QED
    BY <1>7, <2>1, <2>2
<1>13. CASE asset = Starter /\ AssetIs(name, NoAsset) /\ UNCHANGED <<run, failed>>
  <2>1. /\ releases' \in Seq(GithubReleases) /\ DOMAIN releases' = DOMAIN releases /\ ReleasesOK'
        /\ releases'[run.release].tag = releases[run.release].tag
        /\ name = "sha256" => releases'[run.release].assets["tgz"] = bytes
    BY <1>5, <1>12, <1>13
  <2>2. Id' = Id
    BY <1>13 DEF Id
  <2>3. RunOK'
    BY <1>0, <1>1, <1>3, <1>4, <1>13, <2>1, <2>2 DEF RunOK
  <2>4. Sound(run') /\ Sound(failed') /\ run' \in Jobs /\ failed' \in Waiting \cup Dispatches \cup {Idle}
    BY <1>4, <1>13 DEF IInv, TypeOK, PublicationOK
  <2>5. QED
    BY <2>1, <2>3, <2>4, AssetsFrame
<1>14. CASE asset = NoAsset /\ AssetIs(name, bytes) /\ Goes(at)
  BY <1>5, <1>8, <1>12, <1>14
<1>15. ASSUME asset = NoAsset, NEW left \in {Starter, Uploaded(Id.source, Corrupt)}, AssetIs(name, left), Fails
       PROVE  IInv'
  <2>1. left \in Assets /\ asset.state # "uploaded"
    BY <1>5, <1>15
  <2>2. releases' \in Seq(GithubReleases) /\ ReleasesOK'
    BY <1>12, <1>15, <2>1
  <2>3. QED
    BY <1>9, <1>15, <2>2
<1>16. QED
  <2>1. \/ UNCHANGED releases /\ asset = bytes /\ Goes(at)
        \/ UNCHANGED releases /\ Fails
        \/ asset = Starter /\ AssetIs(name, NoAsset) /\ UNCHANGED <<run, failed>>
        \/ asset = NoAsset /\ UploadAsset(name, at)
    BY <1>2, <1>3 DEF ensureAsset
  <2>2. UploadAsset(name, at) => \/ AssetIs(name, bytes) /\ Goes(at)
                                 \/ \E left \in {Starter, Uploaded(Id.source, Corrupt)} : AssetIs(name, left) /\ Fails
    BY <1>3 DEF UploadAsset
  <2>3. QED
    BY <1>10, <1>11, <1>13, <1>14, <1>15, <2>1, <2>2

(* The release becomes public with both assets as npm has them.             *)
LEMMA UndraftStep ==
  ASSUME IInv, Undraft, UNCHANGED <<git, prep, npm, tags, pending>>
  PROVE  IInv'
<1>1. run.at = "undraft" /\ releases' = [releases EXCEPT ![run.release].draft = FALSE]
  BY DEF Undraft
<1>2. PICK k : k = run.release
  OBVIOUS
<1>3. /\ run # Idle /\ k \in DOMAIN releases /\ releases \in Seq(GithubReleases)
      /\ releases[k] \in GithubReleases /\ releases[k].tag = Id.version
      /\ npm[Id.version].source = Id.source /\ npm[Id.version].build = run.build
  BY <1>1, <1>2, FoundRelease
<1>4. PICK r : r = [releases[k] EXCEPT !.draft = FALSE]
  OBVIOUS
<1>5. r \in GithubReleases /\ r.tag = releases[k].tag /\ r.assets = releases[k].assets
  BY <1>3, <1>4 DEF GithubReleases
<1>6. releases' = [releases EXCEPT ![k] = r]
  BY <1>1, <1>2, <1>4
<1>7. /\ releases' \in Seq(GithubReleases) /\ DOMAIN releases' = DOMAIN releases
      /\ releases'[k] = r /\ \A i \in DOMAIN releases \ {k} : releases'[i] = releases[i]
  BY <1>3, <1>5, <1>6
<1>8. ASSUME NEW n \in Names PROVE r.assets[n] = Uploaded(npm[r.tag].source, npm[r.tag].build)
  BY <1>1, <1>2, <1>3, <1>5 DEF IInv, PublicationOK, RunOK, Names
<1>9. \A i \in DOMAIN releases : releases'[i].tag = releases[i].tag
  BY <1>5, <1>7
<1>10. ReleasesOK'
  BY <1>7, <1>8, <1>9 DEF IInv, PublicationOK, ReleasesOK
<1>11. CASE Ends
  <2>1. run' = Idle /\ UNCHANGED failed
    BY <1>11 DEF Ends
  <2>2. QED
    BY <1>7, <1>10, <2>1, IdleRun, AssetsFrame DEF IInv, TypeOK, PublicationOK
<1>12. CASE Fails
  <2>1. run' = Idle /\ failed' \in Waiting /\ Sound(failed')
    BY <1>3, <1>12, Failing
  <2>2. QED
    BY <1>7, <1>10, <2>1, IdleRun, AssetsFrame
<1>13. QED
  BY <1>11, <1>12 DEF Undraft

(* Every step of the completion.                                            *)
LEMMA CompleteSteps ==
  ASSUME IInv, CompleteStep, UNCHANGED <<git, prep, pending>>
  PROVE  IInv'
<1>1. UNCHANGED npm
  BY DEF CompleteStep
<1>2. CASE Tag
  BY <1>1, <1>2, TagStep
<1>3. CASE GithubRelease
  BY <1>1, <1>3, GithubReleaseStep
<1>4. CASE run.at = "tgz" /\ ensureAsset("tgz", "sha256") /\ UNCHANGED tags
  <2>1. Follows("tgz", "sha256")
    BY DEF Follows
  <2>2. QED
    BY <1>1, <1>4, <2>1, EnsureAssetStep
<1>5. CASE run.at = "sha256" /\ ensureAsset("sha256", "undraft") /\ UNCHANGED tags
  <2>1. Follows("sha256", "undraft")
    BY DEF Follows
  <2>2. QED
    BY <1>1, <1>5, <2>1, EnsureAssetStep
<1>6. CASE Undraft /\ UNCHANGED tags
  BY <1>1, <1>6, UndraftStep
<1>7. QED
  BY <1>2, <1>3, <1>4, <1>5, <1>6 DEF CompleteStep

-----------------------------------------------------------------------------
(* The first version is released.                                           *)
LEMMA Initially ==
  Init => IInv
<1> SUFFICES ASSUME Init PROVE IInv
  OBVIOUS
<1>1. Initial \in Numbers
  BY DEF Initial, Numbers
<1>2. /\ main = <<[version |-> Initial, kind |-> "release"]>>
      /\ branch = <<>> /\ pulls = <<>> /\ prep = Idle
      /\ npm = [v \in {Initial} |-> [source |-> 1, build |-> 1, converged |-> TRUE]]
      /\ tags = [v \in {Initial} |-> 1]
      /\ releases = <<[tag |-> Initial, draft |-> FALSE, assets |-> [n \in Names |-> Uploaded(1, 1)]]>>
      /\ run = Idle /\ pending = Idle /\ failed = Idle
  BY DEF Init
<1>3. main \in Seq(Commits) /\ Len(main) = 1 /\ main[1].version = Initial
  <2>1. [version |-> Initial, kind |-> "release"] \in Commits
    BY <1>1 DEF Commits
  <2>2. QED
    BY <1>2, <2>1
<1>4. /\ releases \in Seq(GithubReleases) /\ DOMAIN releases = {1} /\ releases[1].tag = Initial
      /\ \A n \in Names : releases[1].assets[n] = Uploaded(1, 1)
  <2>1. [tag |-> Initial, draft |-> FALSE, assets |-> [n \in Names |-> Uploaded(1, 1)]] \in GithubReleases
    BY <1>1 DEF GithubReleases, Uploaded, Assets
  <2>2. QED
    BY <1>2, <2>1
<1>5. DOMAIN branch = {} /\ DOMAIN pulls = {} /\ branch \in [DOMAIN branch -> Branches]
      /\ pulls \in [DOMAIN pulls -> {"open", "closed"}]
  BY <1>2
<1>6. /\ DOMAIN npm = {Initial} /\ npm \in [DOMAIN npm -> Packages]
      /\ npm[Initial].source = 1 /\ npm[Initial].build = 1
      /\ DOMAIN tags = {Initial} /\ tags \in [DOMAIN tags -> Nat] /\ tags[Initial] = 1
  BY <1>2 DEF Packages
<1>7. TypeOK
  BY <1>1, <1>2, <1>3, <1>4, <1>5, <1>6, SMTT(30) DEF TypeOK
<1>8. NpmOK /\ TagsOK
  BY <1>3, <1>6 DEF NpmOK, TagsOK, Introduces
<1>9. ReleasesOK
  BY <1>4, <1>6 DEF ReleasesOK
<1>10. RunOK
  <2>1. run.at = "idle"
    BY <1>2 DEF Idle
  <2>2. QED
    BY <2>1 DEF RunOK, Verified, Tagged, Found
<1>11. PublicationOK
  BY <1>2, <1>8, <1>9, <1>10, IdleRun DEF PublicationOK
<1>12. PreparationOK
  BY <1>2, <1>3, <1>5 DEF PreparationOK, PullsOK, PrepOK, MainOK
<1>13. QED
  BY <1>7, <1>11, <1>12 DEF IInv

(* Every step keeps the invariant.                                          *)
LEMMA Preserved ==
  IInv /\ [Next]_vars => IInv'
<1> SUFFICES ASSUME IInv, [Next]_vars PROVE IInv'
  OBVIOUS
<1>1. CASE Prepare
  BY <1>1, PrepareStartStep, PrepareReadStep, PrepareCreateStep, PrepareOpenStep, PrepareCrashStep DEF Prepare
<1>2. CASE People
  BY <1>2, LandStep, MergePullStep, ClosePullStep, EditBranchStep, RetryStep, RerunStep DEF People
<1>3. CASE Start
  BY <1>3, StartStep
<1>4. CASE RunStep
  BY <1>4, PublishSteps, CompleteSteps DEF RunStep
<1>5. CASE RunCrash
  BY <1>5, FailStep DEF RunCrash
<1>6. CASE \E v \in DOMAIN npm : Converge(v)
  BY <1>6, ConvergeStep
<1>7. CASE UNCHANGED vars
  <2>1. UNCHANGED <<git, prep, published, run, pending, failed>>
    BY <1>7 DEF vars, git, published
  <2>2. RunOK'
    BY <2>1 DEF IInv, PublicationOK, RunOK, Verified, Tagged, Found, Id, published
  <2>3. QED
    BY <2>1, <2>2, QueueFrame DEF IInv, TypeOK, PublicationOK
<1>8. QED
  BY <1>1, <1>2, <1>3, <1>4, <1>5, <1>6, <1>7 DEF Next

(* The inductive invariant holds in every state of the pipeline.            *)
THEOREM ReleaseInvariance ==
  Spec => []IInv
BY Initially, Preserved, PTL DEF Spec

(* The records of a version agree, for any number of releases, commits and  *)
(* failures (complete-release.mjs, sdk-publish.yml).                        *)
THEOREM AgreementHolds ==
  Spec => []ReleaseAgrees
<1>1. IInv => ReleaseAgrees
  BY DEF IInv, PublicationOK, TagsOK, ReleasesOK, ReleaseAgrees
<1>2. QED
  BY <1>1, ReleaseInvariance, PTL

(* What npm serves was built from the commit that introduced the version,   *)
(* whichever commits it was retried from (resolveIdentity).                 *)
THEOREM IntroductionHolds ==
  Spec => []PublishedFromIntroduction
<1>1. IInv => PublishedFromIntroduction
  BY DEF IInv, PublicationOK, NpmOK, Introduces, PublishedFromIntroduction
<1>2. QED
  BY <1>1, ReleaseInvariance, PTL

(* Releases are not stacked, whatever people do to branches, pull requests  *)
(* and main meanwhile (prepareReleasePr).                                   *)
THEOREM NotStackedHolds ==
  Spec => []NotStacked
<1>1. IInv => NotStacked
  BY DEF IInv, PreparationOK, PullsOK, MainOK, NotStacked, Tip
<1>2. QED
  BY <1>1, ReleaseInvariance, PTL
=============================================================================
