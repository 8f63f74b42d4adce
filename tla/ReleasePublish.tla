--------------------------- MODULE ReleasePublish ---------------------------
(***************************************************************************)
(* Publication of a release (publish and verify_public_release in xtask):  *)
(* a draft is created with its assets, checked and made public; an attempt *)
(* may fail or be killed at any step, and a later one resumes its draft or *)
(* refuses it.  Attempts follow one another, as the concurrency group of   *)
(* the workflow orders them.                                               *)
(***************************************************************************)
EXTENDS Naturals

CONSTANTS
  Assets,        \* the archives and SHA256SUMS
  Shas,          \* commits the tag may name
  Rebuilds,      \* bound: builds of a commit, none of them the same bytes
  MaxAttempts,   \* bound: runs of the publish job
  NoBuild        \* an asset that is not there

Build == Shas \X (1..Rebuilds)

ASSUME ReleaseAssumption ==
  /\ Assets # {} /\ Shas # {}
  /\ Rebuilds \in Nat \ {0}
  /\ MaxAttempts \in Nat \ {0}
  /\ NoBuild \notin Build

VARIABLES
  preVersion,  \* the version has a '-'
  tag,         \* commit the public tag names
  release,     \* the release GitHub has under this tag
  attempts,    \* publish jobs so far
  pc,          \* where publish, or the jobs after it, are
  sha, build,  \* EXPECTED_SHA and ASSET_DIR
  seen,        \* the release as publish last read it
  outcome,     \* of publish
  announced    \* the tap was told of the release

publishVars == <<attempts, sha, build>>
vars == <<preVersion, tag, release, publishVars, pc, seen, outcome, announced>>

Empty == [a \in Assets |-> NoBuild]

\* `ordered`: GitHub lists the assets in the order publish expects.
Release ==
  [state : {"none", "draft", "published"}, target : Shas, notes : Shas \cup {"other"},
   prerelease : BOOLEAN, assets : [Assets -> Build \cup {NoBuild}], ordered : BOOLEAN]

NoRelease == [state |-> "none", target |-> CHOOSE s \in Shas : TRUE, notes |-> "other",
              prerelease |-> FALSE, assets |-> Empty, ordered |-> FALSE]

Whole(r, b) == \A a \in Assets : r.assets[a] = b

Init ==
  /\ preVersion \in BOOLEAN
  /\ tag \in Shas
  /\ release = NoRelease
  /\ attempts = 0
  /\ pc = "idle"
  /\ sha = tag
  /\ build = <<tag, 1>>
  /\ seen = NoRelease
  /\ outcome = "none"
  /\ announced = FALSE

-----------------------------------------------------------------------------
(* publish                                                                 *)

\* A new run, or a rerun of all its jobs or of this one.
StartPublish(s, n) ==
  /\ pc = "idle"
  /\ attempts < MaxAttempts
  /\ attempts' = attempts + 1
  /\ sha' = s
  /\ build' = <<s, n>>
  /\ outcome' = IF tag = s THEN "none" ELSE "failed"
  /\ pc' = IF tag = s THEN "lookup" ELSE "idle"
  /\ UNCHANGED <<preVersion, tag, release, seen, announced>>

\* publish returns; what it read is forgotten.
Return(result) ==
  /\ outcome' = result
  /\ pc' = IF result = "ok" THEN "verify" ELSE "idle"
  /\ seen' = NoRelease

\* A failed command, a local check that fails (the repository, the notes, the
\* asset directory), or the job is killed.
Fail ==
  /\ pc \notin {"idle", "verify"}
  /\ Return("failed")
  /\ UNCHANGED <<preVersion, tag, release, publishVars, announced>>

\* By tag, which finds what is published, then among all releases, which finds a
\* draft as well.
LookUp ==
  /\ pc = "lookup"
  /\ seen' = release
  /\ pc' = IF release.state = "none" THEN "create" ELSE "resume"
  /\ UNCHANGED <<preVersion, tag, release, publishVars, outcome, announced>>

\* Mutant: the prerelease state is taken the wrong way round.
ResumableInverted(r) ==
  /\ r.state = "draft"
  /\ r.target = sha
  /\ r.prerelease # preVersion
  /\ r.notes = sha
  /\ \A a \in Assets : r.assets[a] # NoBuild
  /\ r.ordered

\* Mutant: a published release is not told from a draft.
ResumableOnceMore(r) ==
  /\ r.state # "none"
  /\ r.target = sha
  /\ r.prerelease = preVersion
  /\ r.notes = sha
  /\ \A a \in Assets : r.assets[a] # NoBuild
  /\ r.ordered

\* The draft is the one this attempt would make, as far as its metadata tells.
Resumable(r) ==
  /\ r.state = "draft"
  /\ r.target = sha
  /\ r.prerelease = preVersion
  /\ r.notes = sha
  /\ \A a \in Assets : r.assets[a] # NoBuild
  /\ r.ordered

RefuseResume ==
  /\ pc = "resume"
  /\ ~Resumable(seen)
  /\ Return("refused")
  /\ UNCHANGED <<preVersion, tag, release, publishVars, announced>>

Resume ==
  /\ pc = "resume"
  /\ Resumable(seen)
  /\ pc' = "compare"
  /\ UNCHANGED <<preVersion, tag, release, publishVars, seen, outcome, announced>>

\* Mutant: the names of the assets are enough.
CompareNames ==
  /\ pc = "compare"
  /\ pc' = "edit"
  /\ UNCHANGED <<preVersion, tag, release, publishVars, seen, outcome, announced>>

\* compare_release_assets: all of them are downloaded and their digests compared.
CompareAssets ==
  /\ pc = "compare"
  /\ \/ /\ release.state = "draft" /\ Whole(release, build)
        /\ pc' = "edit"
        /\ UNCHANGED <<seen, outcome>>
     \/ /\ release.state = "draft" /\ ~Whole(release, build)
        /\ Return("mismatch")
  /\ UNCHANGED <<preVersion, tag, release, publishVars, announced>>

\* gh release create: the draft, then its assets.  The flag --prerelease is never
\* given.
CreateDraft ==
  /\ pc = "create"
  /\ release.state = "none"
  /\ \E ordered \in BOOLEAN :
       release' = [state |-> "draft", target |-> sha, notes |-> sha,
                   prerelease |-> FALSE, assets |-> Empty, ordered |-> ordered]
  /\ pc' = "upload"
  /\ UNCHANGED <<preVersion, tag, publishVars, seen, outcome, announced>>

Upload(a) ==
  /\ pc = "upload"
  /\ release.state = "draft"
  /\ release.assets[a] = NoBuild
  /\ release' = [release EXCEPT !.assets[a] = build]
  /\ UNCHANGED <<preVersion, tag, publishVars, pc, seen, outcome, announced>>

\* Mutant: the status of gh is not looked at.
CreatedSomehow ==
  /\ pc = "upload"
  /\ pc' = "created"
  /\ UNCHANGED <<preVersion, tag, release, publishVars, seen, outcome, announced>>

\* gh reports success once every asset is there.
Created ==
  /\ pc = "upload"
  /\ \A a \in Assets : release.assets[a] # NoBuild
  /\ pc' = "created"
  /\ UNCHANGED <<preVersion, tag, release, publishVars, seen, outcome, announced>>

\* The created draft is read back: neither its prerelease state nor its assets
\* are compared.
CheckCreated ==
  /\ pc = "created"
  /\ IF release.state = "draft" /\ release.target = sha /\ release.notes = sha
     THEN pc' = "edit" /\ UNCHANGED <<seen, outcome>>
     ELSE Return("refused")
  /\ UNCHANGED <<preVersion, tag, release, publishVars, announced>>

\* gh release edit --draft=false may take effect and fail to say so (Fail), or
\* say so without effect.
Edit ==
  /\ pc = "edit"
  /\ release.state = "draft"
  /\ release' \in {release, [release EXCEPT !.state = "published"]}
  /\ pc' = "confirm"
  /\ UNCHANGED <<preVersion, tag, publishVars, seen, outcome, announced>>

\* Mutant: the status of the edit is believed.
BelieveEdit ==
  /\ pc = "confirm"
  /\ Return("ok")
  /\ UNCHANGED <<preVersion, tag, release, publishVars, announced>>

\* confirm_published
Confirm ==
  /\ pc = "confirm"
  /\ Return(IF release.state = "published" THEN "ok" ELSE "failed")
  /\ UNCHANGED <<preVersion, tag, release, publishVars, announced>>

-----------------------------------------------------------------------------
(* The jobs that need publish: verify_public_release, and the tap.         *)

\* Mutant: the tag is not followed to its commit.
VerifiedMetadata ==
  /\ release.state = "published"
  /\ ~release.prerelease
  /\ release.target = sha
  /\ \A a \in Assets : release.assets[a] # NoBuild
  /\ release.ordered

Verified == VerifiedMetadata /\ tag = sha

VerifyPublic ==
  /\ pc = "verify"
  /\ pc' = "idle"
  /\ announced' = (announced \/ Verified)
  /\ UNCHANGED <<preVersion, tag, release, publishVars, seen, outcome>>

-----------------------------------------------------------------------------
(* Maintainers.                                                            *)

\* "manual recovery required"
DeleteDraft ==
  /\ release.state = "draft"
  /\ release' = NoRelease
  /\ UNCHANGED <<preVersion, tag, publishVars, pc, seen, outcome, announced>>

\* The notes of a draft are edited while nothing publishes it.
EditNotes ==
  /\ pc = "idle"
  /\ release.state = "draft"
  /\ release' = [release EXCEPT !.notes = "other"]
  /\ UNCHANGED <<preVersion, tag, publishVars, pc, seen, outcome, announced>>

\* The tag is moved, though it should not be.
MoveTag ==
  /\ tag' \in Shas
  /\ UNCHANGED <<preVersion, release, publishVars, pc, seen, outcome, announced>>

-----------------------------------------------------------------------------
Next ==
  \/ \E s \in Shas, n \in 1..Rebuilds : StartPublish(s, n)
  \/ Fail \/ LookUp \/ RefuseResume \/ Resume \/ CompareAssets
  \/ CreateDraft \/ (\E a \in Assets : Upload(a)) \/ Created \/ CheckCreated
  \/ Edit \/ Confirm
  \/ VerifyPublic
  \/ DeleteDraft \/ EditNotes \/ MoveTag

Spec == Init /\ [][Next]_vars

-----------------------------------------------------------------------------
(* Properties.                                                             *)

TypeOK ==
  /\ preVersion \in BOOLEAN
  /\ tag \in Shas
  /\ release \in Release
  /\ release.state = "none" => release = NoRelease
  /\ attempts \in 0..MaxAttempts
  /\ pc \in {"idle", "lookup", "resume", "compare", "create", "upload", "created",
             "edit", "confirm", "verify"}
  /\ sha \in Shas
  /\ build \in Build
  /\ seen \in Release
  /\ pc = "compare" => seen.state = "draft"
  /\ outcome \in {"none", "ok", "failed", "refused", "mismatch"}
  /\ announced \in BOOLEAN

\* Whatever fails, is killed or is resumed, no release is public with an asset
\* missing, assets of two builds, or a target or notes that are not its build's.
PublishedIsWhole ==
  release.state = "published" =>
    \E b \in Build : Whole(release, b) /\ release.target = b[1] /\ release.notes = b[1]

\* A release becomes public by an attempt that holds the same bytes it was
\* uploaded from (compare_release_assets).
PublishedIsOwnBuild ==
  [][release.state # "published" /\ release'.state = "published"
       => Whole(release', build)]_vars

\* An attempt that succeeds leaves a public release (confirm_published).
SuccessIsPublished == outcome = "ok" => release.state = "published"

\* An interrupted attempt can be taken up: a draft with the tag, target, notes
\* and all assets of this attempt's own build is refused only for a version with
\* a prerelease part, or because GitHub lists the assets in another order
\* (SKILL.md:29).
RefusalMeansMismatch ==
  [][pc = "resume" /\ outcome' = "refused" /\ ~preVersion /\ seen.ordered
       => ~(/\ seen.state = "draft"
            /\ seen.target = sha /\ seen.notes = sha
            /\ Whole(seen, build))]_vars

\* The tap hears of a release only while the public tag names the commit its
\* assets were built from.
AnnouncedIsTagged ==
  [][announced' /\ ~announced =>
       \A a \in Assets : release.assets[a] \in {tag} \X (1..Rebuilds)]_vars

=============================================================================
