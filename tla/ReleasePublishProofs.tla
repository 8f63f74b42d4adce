------------------------ MODULE ReleasePublishProofs ------------------------
(***************************************************************************)
(* Theorems about ReleasePublish, for every set of assets and commits and  *)
(* every number of builds and attempts.  What is public was either created *)
(* and filled by the attempt that published it or compared with its bytes, *)
(* and between that and the edit nobody but this attempt adds to a draft:  *)
(* PathInv says so at each step of publish.                                *)
(***************************************************************************)
EXTENDS ReleasePublish, TLAPS

\* The draft, or what is left of it, carries the metadata of this attempt.
Own(r) == r.target = sha /\ r.notes = sha

Gone == release.state = "none"

\* What each step of publish has found out of the release it works on.
PathInv ==
  /\ pc \in {"resume", "compare"} => release = seen \/ Gone
  /\ pc = "compare" => Own(seen)
  /\ pc = "upload" =>
       \/ Gone
       \/ Own(release) /\ (\A a \in Assets : release.assets[a] \in {NoBuild, build})
  /\ pc \in {"created", "edit", "confirm"} =>
       Gone \/ (Own(release) /\ Whole(release, build))

\* A release is never a prerelease, an attempt under way has no outcome yet, and
\* the bytes an attempt holds were built from its commit.
AttemptInv ==
  /\ ~release.prerelease
  /\ ~seen.prerelease
  /\ pc \notin {"idle", "verify"} => outcome = "none"
  /\ build[1] = sha

IndInv == TypeOK /\ AttemptInv /\ PathInv /\ PublishedIsWhole /\ SuccessIsPublished

-----------------------------------------------------------------------------
\* The absence of a release has the type of one.
LEMMA NoReleaseType == NoRelease \in Release
  BY ReleaseAssumption DEF NoRelease, Release, Empty

\* A build knows the commit it was made from.
LEMMA BuildType == ASSUME NEW s \in Shas, NEW n \in 1..Rebuilds
                   PROVE  <<s, n>> \in Build /\ <<s, n>>[1] = s
  BY DEF Build

\* The invariant holds before the first attempt.
LEMMA InitInv == Init => IndInv
<1> SUFFICES ASSUME Init PROVE IndInv
  OBVIOUS
<1>1. release \in Release /\ seen \in Release
  BY NoReleaseType DEF Init
<1>2. build \in Build /\ build[1] = sha
  BY ReleaseAssumption, BuildType DEF Init
<1>3. attempts \in 0..MaxAttempts
  BY ReleaseAssumption DEF Init
<1>4. TypeOK
  BY <1>1, <1>2, <1>3 DEF Init, TypeOK
<1>5. AttemptInv /\ PathInv /\ PublishedIsWhole /\ SuccessIsPublished
  BY <1>2 DEF Init, AttemptInv, PathInv, PublishedIsWhole, SuccessIsPublished, NoRelease
<1> QED
  BY <1>4, <1>5 DEF IndInv

-----------------------------------------------------------------------------
(* One lemma for each part of the invariant.                               *)

\* Each step keeps the types.
LEMMA TypeStep == IndInv /\ [Next]_vars => TypeOK'
<1> SUFFICES ASSUME IndInv, [Next]_vars PROVE TypeOK'
  OBVIOUS
<1> USE DEF IndInv
<1>1. ASSUME NEW s \in Shas, NEW n \in 1..Rebuilds, StartPublish(s, n) PROVE TypeOK'
  <2>1. attempts' \in 0..MaxAttempts
    BY <1>1, ReleaseAssumption DEF StartPublish, TypeOK
  <2>2. build' \in Build /\ sha' \in Shas
    BY <1>1, BuildType DEF StartPublish
  <2> QED
    BY <1>1, <2>1, <2>2 DEF StartPublish, TypeOK
<1>2. CASE Fail
  BY <1>2, NoReleaseType DEF Fail, Return, TypeOK, publishVars
<1>3. CASE LookUp
  BY <1>3 DEF LookUp, TypeOK, publishVars
<1>4. CASE RefuseResume
  BY <1>4, NoReleaseType DEF RefuseResume, Return, TypeOK, publishVars
<1>5. CASE Resume
  BY <1>5 DEF Resume, Resumable, TypeOK, publishVars
<1>6. CASE CompareAssets
  BY <1>6, NoReleaseType DEF CompareAssets, Return, TypeOK, publishVars
<1>7. CASE CreateDraft
  <2>1. PICK ordered \in BOOLEAN :
          release' = [state |-> "draft", target |-> sha, notes |-> sha,
                      prerelease |-> FALSE, assets |-> Empty, ordered |-> ordered]
    BY <1>7 DEF CreateDraft
  <2>2. release' \in Release /\ release'.state = "draft"
    BY <2>1 DEF Release, Empty, TypeOK
  <2> QED
    BY <1>7, <2>2 DEF CreateDraft, TypeOK, publishVars
<1>8. ASSUME NEW a \in Assets, Upload(a) PROVE TypeOK'
  <2>1. release' \in Release /\ release'.state = "draft"
    BY <1>8 DEF Upload, Release, TypeOK
  <2> QED
    BY <1>8, <2>1 DEF Upload, TypeOK, publishVars
<1>9. CASE Created
  BY <1>9 DEF Created, TypeOK, publishVars
<1>10. CASE CheckCreated
  BY <1>10, NoReleaseType DEF CheckCreated, Return, TypeOK, publishVars
<1>11. CASE Edit
  <2>1. release' \in Release /\ release'.state # "none"
    BY <1>11 DEF Edit, Release, TypeOK
  <2> QED
    BY <1>11, <2>1 DEF Edit, TypeOK, publishVars
<1>12. CASE Confirm
  BY <1>12, NoReleaseType DEF Confirm, Return, TypeOK, publishVars
<1>13. CASE VerifyPublic
  BY <1>13 DEF VerifyPublic, Verified, VerifiedMetadata, TypeOK, publishVars
<1>14. CASE DeleteDraft
  BY <1>14, NoReleaseType DEF DeleteDraft, TypeOK, publishVars
<1>15. CASE EditNotes
  <2>1. release' \in Release /\ release'.state = "draft"
    BY <1>15 DEF EditNotes, Release, TypeOK
  <2> QED
    BY <1>15, <2>1 DEF EditNotes, TypeOK, publishVars
<1>16. CASE MoveTag
  BY <1>16 DEF MoveTag, TypeOK, publishVars
<1>17. CASE UNCHANGED vars
  BY <1>17 DEF vars, TypeOK, publishVars
<1> QED
  BY <1>1, <1>2, <1>3, <1>4, <1>5, <1>6, <1>7, <1>8, <1>9, <1>10, <1>11, <1>12,
     <1>13, <1>14, <1>15, <1>16, <1>17 DEF Next

\* Each step keeps what holds of an attempt, running or ended.
LEMMA AttemptStep == IndInv /\ [Next]_vars => AttemptInv'
<1> SUFFICES ASSUME IndInv, [Next]_vars PROVE AttemptInv'
  OBVIOUS
<1>1. ~NoRelease.prerelease
  BY DEF NoRelease
<1>2. ~release'.prerelease /\ ~seen'.prerelease
  BY <1>1 DEF IndInv, AttemptInv, TypeOK, Release, Next, vars, publishVars, StartPublish,
     Fail, Return, LookUp, RefuseResume, Resume, CompareAssets, CreateDraft, Upload,
     Created, CheckCreated, Edit, Confirm, VerifyPublic, DeleteDraft, EditNotes, MoveTag
<1>3. (pc \notin {"idle", "verify"} => outcome = "none")'
  BY DEF IndInv, AttemptInv, Next, vars, publishVars, StartPublish,
     Fail, Return, LookUp, RefuseResume, Resume, CompareAssets, CreateDraft, Upload,
     Created, CheckCreated, Edit, Confirm, VerifyPublic, DeleteDraft, EditNotes, MoveTag
<1>4. build'[1] = sha'
  BY DEF IndInv, AttemptInv, Next, vars, publishVars, StartPublish,
     Fail, Return, LookUp, RefuseResume, Resume, CompareAssets, CreateDraft, Upload,
     Created, CheckCreated, Edit, Confirm, VerifyPublic, DeleteDraft, EditNotes, MoveTag
<1> QED
  BY <1>2, <1>3, <1>4 DEF AttemptInv

\* While the attempt works on a draft, only it can change what the steps behind it
\* have found out; a maintainer can at most delete the draft.
LEMMA PathStep == IndInv /\ [Next]_vars => PathInv'
<1> SUFFICES ASSUME IndInv, [Next]_vars PROVE PathInv'
  OBVIOUS
<1> USE DEF IndInv
<1>0. NoRelease.state = "none"
  BY DEF NoRelease
<1>1. ASSUME NEW s \in Shas, NEW n \in 1..Rebuilds, StartPublish(s, n) PROVE PathInv'
  BY <1>1 DEF StartPublish, PathInv
<1>2. CASE Fail \/ RefuseResume \/ Confirm
  BY <1>2 DEF Fail, RefuseResume, Confirm, Return, PathInv
<1>3. CASE LookUp
  BY <1>3 DEF LookUp, PathInv, Gone
<1>4. CASE Resume
  BY <1>4 DEF Resume, Resumable, PathInv, Gone, Own, publishVars
<1>5. CASE CompareAssets
  <2>1. CASE release.state = "draft" /\ Whole(release, build) /\ pc' = "edit"
    BY <1>5, <2>1 DEF CompareAssets, PathInv, Gone, Own, Whole, publishVars
  <2>2. CASE Return("mismatch")
    BY <2>2 DEF Return, PathInv
  <2> QED
    BY <1>5, <2>1, <2>2 DEF CompareAssets
<1>6. CASE CreateDraft
  BY <1>6 DEF CreateDraft, PathInv, Own, Empty, publishVars
<1>7. ASSUME NEW a \in Assets, Upload(a) PROVE PathInv'
  BY <1>7 DEF Upload, PathInv, Gone, Own, Whole, TypeOK, Release, publishVars
<1>8. CASE Created
  BY <1>8 DEF Created, PathInv, Gone, Own, Whole, publishVars
<1>9. CASE CheckCreated
  BY <1>9 DEF CheckCreated, Return, PathInv, Gone, Own, Whole, publishVars
<1>10. CASE Edit
  BY <1>10 DEF Edit, PathInv, Gone, Own, Whole, TypeOK, Release, publishVars
<1>11. CASE VerifyPublic
  BY <1>11 DEF VerifyPublic, PathInv
<1>12. CASE DeleteDraft
  BY <1>0, <1>12 DEF DeleteDraft, PathInv, Gone, Own, Whole, publishVars
<1>13. CASE EditNotes
  BY <1>13 DEF EditNotes, PathInv
<1>14. CASE MoveTag \/ UNCHANGED vars
  BY <1>14 DEF MoveTag, vars, PathInv, Gone, Own, Whole, publishVars
<1> QED
  BY <1>1, <1>2, <1>3, <1>4, <1>5, <1>6, <1>7, <1>8, <1>9, <1>10, <1>11, <1>12,
     <1>13, <1>14 DEF Next

\* What is public stays as it is, and it became so by the edit of an attempt that
\* knew it whole.
LEMMA PublishedStep ==
  ASSUME IndInv, [Next]_vars, release'.state = "published", release' # release
  PROVE  release.state = "draft" /\ Whole(release', build) /\ Own(release') /\ UNCHANGED sha
<1>1. NoRelease.state = "none"
  BY DEF NoRelease
<1>2. ~CreateDraft /\ ~DeleteDraft /\ ~EditNotes /\ \A a \in Assets : ~Upload(a)
  BY <1>1 DEF IndInv, TypeOK, Release, CreateDraft, DeleteDraft, EditNotes, Upload
<1>3. Edit
  BY <1>2 DEF Next, vars, StartPublish, Fail, LookUp, RefuseResume, Resume, CompareAssets,
     Created, CheckCreated, Confirm, VerifyPublic, MoveTag
<1>4. release.state = "draft" /\ pc = "edit"
      /\ release' = [release EXCEPT !.state = "published"]
  BY <1>3 DEF Edit
<1>5. Own(release) /\ Whole(release, build)
  BY <1>4 DEF IndInv, PathInv, Gone
<1> QED
  BY <1>3, <1>4, <1>5 DEF IndInv, TypeOK, Release, Own, Whole, Edit, publishVars

\* A release becomes public whole and stays so.
LEMMA WholeStep == IndInv /\ [Next]_vars => PublishedIsWhole'
<1> SUFFICES ASSUME IndInv, [Next]_vars, release'.state = "published"
             PROVE  \E b \in Build : /\ Whole(release, b)'
                                     /\ release'.target = b[1] /\ release'.notes = b[1]
  BY DEF PublishedIsWhole
<1>1. CASE release' = release
  BY <1>1 DEF IndInv, PublishedIsWhole, Whole
<1>2. CASE release' # release
  <2>1. Whole(release', build) /\ Own(release')
    BY <1>2, PublishedStep
  <2>2. build \in Build /\ build[1] = sha
    BY DEF IndInv, TypeOK, AttemptInv
  <2> QED
    BY <2>1, <2>2 DEF Whole, Own
<1> QED
  BY <1>1, <1>2

\* Success is reported of a published release, and nothing unpublishes it.
LEMMA SuccessStep == IndInv /\ [Next]_vars => SuccessIsPublished'
<1> SUFFICES ASSUME IndInv, [Next]_vars, outcome' = "ok"
             PROVE  release'.state = "published"
  BY DEF SuccessIsPublished
<1>1. CASE outcome = "ok"
  <2>1. release.state = "published" /\ pc \in {"idle", "verify"}
    BY <1>1 DEF IndInv, SuccessIsPublished, AttemptInv
  <2> QED
    BY <2>1 DEF Next, vars, StartPublish, Fail, LookUp, RefuseResume, Resume,
       CompareAssets, CreateDraft, Upload, Created, CheckCreated, Edit, Confirm,
       VerifyPublic, DeleteDraft, EditNotes, MoveTag
<1>2. CASE outcome # "ok"
  <2>1. Confirm
    BY <1>2 DEF Next, vars, StartPublish, Fail, Return, LookUp, RefuseResume, Resume,
       CompareAssets, CreateDraft, Upload, Created, CheckCreated, Edit,
       VerifyPublic, DeleteDraft, EditNotes, MoveTag
  <2> QED
    BY <2>1 DEF Confirm, Return
<1> QED
  BY <1>1, <1>2

\* Every step keeps the invariant.
LEMMA NextInv == IndInv /\ [Next]_vars => IndInv'
  BY TypeStep, AttemptStep, PathStep, WholeStep, SuccessStep DEF IndInv

\* The invariant holds of every sequence of attempts.
LEMMA Invariance == Spec => []IndInv
  BY InitInv, NextInv, PTL DEF Spec

-----------------------------------------------------------------------------
(* The theorems.                                                           *)

\* Every step of publish, of a crash and of a maintainer keeps the types.
THEOREM TypeCorrect == Spec => []TypeOK
<1>1. IndInv => TypeOK
  BY DEF IndInv
<1> QED
  BY Invariance, <1>1, PTL

\* However often publish is killed and resumed, what it makes public is one
\* whole build, with its commit and its notes (publish, compare_release_assets).
THEOREM PublishedWhole == Spec => []PublishedIsWhole
<1>1. IndInv => PublishedIsWhole
  BY DEF IndInv
<1> QED
  BY Invariance, <1>1, PTL

\* An attempt that succeeds leaves a public release (confirm_published).
THEOREM SuccessPublished == Spec => []SuccessIsPublished
<1>1. IndInv => SuccessIsPublished
  BY DEF IndInv
<1> QED
  BY Invariance, <1>1, PTL

\* A release becomes public by an attempt that holds its bytes.
THEOREM PublishedOwnBuild == Spec => PublishedIsOwnBuild
<1>1. IndInv /\ [Next]_vars =>
        [release.state # "published" /\ release'.state = "published"
           => Whole(release', build)]_vars
  BY PublishedStep
<1> QED
  BY Invariance, <1>1, PTL DEF Spec, PublishedIsOwnBuild

\* An attempt never refuses the whole draft of its own build (Resumable).
THEOREM RefusalJustified == Spec => RefusalMeansMismatch
<1>1. ASSUME IndInv, [Next]_vars
      PROVE  [pc = "resume" /\ outcome' = "refused" /\ ~preVersion /\ seen.ordered
                => ~(/\ seen.state = "draft"
                     /\ seen.target = sha /\ seen.notes = sha
                     /\ Whole(seen, build))]_vars
  <2> SUFFICES ASSUME pc = "resume", outcome' = "refused", ~preVersion, seen.ordered,
                      seen.state = "draft", seen.target = sha, seen.notes = sha,
                      Whole(seen, build)
               PROVE  FALSE
    OBVIOUS
  <2>1. outcome = "none"
    BY <1>1 DEF IndInv, AttemptInv
  <2>2. RefuseResume
    BY <1>1, <2>1 DEF Next, vars, StartPublish, Fail, Return, LookUp, Resume,
       CompareAssets, CreateDraft, Upload, Created, CheckCreated, Edit, Confirm,
       VerifyPublic, DeleteDraft, EditNotes, MoveTag
  <2>3. seen.prerelease = preVersion
    BY <1>1 DEF IndInv, TypeOK, AttemptInv, Release
  <2>4. \A a \in Assets : seen.assets[a] # NoBuild
    BY <1>1, ReleaseAssumption DEF IndInv, TypeOK, Whole
  <2> QED
    BY <2>2, <2>3, <2>4 DEF RefuseResume, Resumable
<1> QED
  BY Invariance, <1>1, PTL DEF Spec, RefusalMeansMismatch

\* The tap hears of nothing but assets of the commit the tag names then
\* (verify_public_release).
THEOREM AnnouncedTagged == Spec => AnnouncedIsTagged
<1>1. ASSUME IndInv, [Next]_vars
      PROVE  [announced' /\ ~announced =>
                \A a \in Assets : release.assets[a] \in {tag} \X (1..Rebuilds)]_vars
  <2> SUFFICES ASSUME announced', ~announced, NEW a \in Assets
               PROVE  release.assets[a] \in {tag} \X (1..Rebuilds)
    OBVIOUS
  <2>1. Verified
    BY <1>1 DEF Next, vars, StartPublish, Fail, LookUp, RefuseResume, Resume,
       CompareAssets, CreateDraft, Upload, Created, CheckCreated, Edit, Confirm,
       VerifyPublic, DeleteDraft, EditNotes, MoveTag
  <2>2. PICK b \in Build : Whole(release, b) /\ release.target = b[1]
    BY <1>1, <2>1 DEF IndInv, PublishedIsWhole, Verified, VerifiedMetadata
  <2>3. b[1] = tag
    BY <2>1, <2>2 DEF Verified, VerifiedMetadata
  <2> QED
    BY <2>2, <2>3 DEF Whole, Build
<1> QED
  BY Invariance, <1>1, PTL DEF Spec, AnnouncedIsTagged

=============================================================================
