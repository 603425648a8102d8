--------------------------- MODULE ToolchainProofs ---------------------------
(***************************************************************************)
(* Proofs about Toolchain, for any number of builds that end early and of  *)
(* patches that change.                                                    *)
(*                                                                         *)
(* The argument: a directory that exists is either ready, or the running   *)
(* build is making it, or a build that ended while making it is on record; *)
(* and the stages before the one that runs have left whole products, be it *)
(* in this build or, when cargo skips the script, in an earlier one.       *)
(***************************************************************************)
EXTENDS Toolchain, TLAPS

Steps == {"idle", "tarball", "download", "verify", "tree", "extract", "patch",
          "patching", "stage", "install", "finished"}

Fetching == {"tarball", "download", "verify", "tree"}   \* of the source S
Making   == {"extract", "patch", "patching"}            \* its tree
Later    == {"stage", "install", "finished"}

Tree == [state : {"none", "partial", "unpatched", "half", "plain", "patched"},
         from : {"none", "bad", "good"}, version : Nat]

TypeInv ==
  /\ pc \in [step : Steps, n : 1 .. 6]
  /\ pc.step \in Fetching \cup Making => pc.n \in 1 .. 3
  /\ tarball \in [Source -> {"none", "bad", "good"}]
  /\ tree \in [Source -> Tree]
  /\ patch \in [Source -> Nat]
  /\ torn \subseteq Source
  /\ product \in [Products -> {"none", "torn", "whole"}]
  /\ fresh \in BOOLEAN
  /\ faults \in Nat
  /\ edits \in Nat

\* An archive is verified in the same build in which it is unpacked.
Verified ==
  /\ OnlyVerifiedSources
  /\ At("tree") => tarball[S] = "good"

Ready(s) == s \in torn \/ (Whole(s) /\ (tree[s].version = patch[s] \/ edits > 0))

BeingMade(s) == pc.step \in Making /\ s = S /\ tree[s].version = 0

Trees ==
  /\ \A s \in Source : tree[s].state = "none" => tree[s].version = 0
  /\ \A s \in Source : tree[s].state # "none" => Ready(s) \/ BeingMade(s)
  /\ pc.step \in Making => tree[S].state # "none" /\ tree[S].version = 0

\* The loop over the sources has dealt with all before S.
Present(k) == tree[SOURCES[k]].state # "none"

Extracted ==
  /\ pc.step \in Fetching => \A k \in 1 .. 3 : k < pc.n => Present(k)
  /\ pc.step \in Making => \A k \in 1 .. 3 : k <= pc.n => Present(k)
  /\ pc.step \in Later \/ fresh => \A k \in 1 .. 3 : Present(k)

WholeUpTo(n) == \A k \in 1 .. 6 : k < n => product[Stages[k].gives] = "whole"

Installed ==
  /\ pc.step \in {"stage", "install"} => WholeUpTo(pc.n)
  /\ fresh => WholeUpTo(5)
  /\ fresh => \/ pc.step \in {"idle", "finished"}
              \/ pc.step \in {"stage", "install"} /\ pc.n >= 5

IInv == TypeInv /\ Verified /\ Trees /\ Extracted /\ Installed

-----------------------------------------------------------------------------
\* The three sources are different.
LEMMA SourceFacts ==
  /\ Len(SOURCES) = 3
  /\ \A k \in 1 .. 3 : SOURCES[k] \in Source
  /\ \A j, k \in 1 .. 3 : SOURCES[j] = SOURCES[k] => j = k
  /\ \A s \in Source : \E k \in 1 .. 3 : s = SOURCES[k]
  BY DEF SOURCES, Source

\* The six stages give different products, and need only what earlier ones give.
LEMMA StageFacts ==
  /\ Len(Stages) = 6
  /\ \A k \in 1 .. 6 : Stages[k].gives \in Products
  /\ \A j, k \in 1 .. 6 : Stages[j].gives = Stages[k].gives => j = k
  /\ \A n \in 1 .. 6 : \A p \in Stages[n].needs :
       \E k \in 1 .. 6 : k < n /\ p = Stages[k].gives
<1> USE DEF Stages, headers, binutils, gcc, mlibc, init, images
<1>1. Len(Stages) = 6
  OBVIOUS
<1>2. \A k \in 1 .. 6 : Stages[k].gives \in Products
  BY <1>1 DEF Products
<1>3. \A j, k \in 1 .. 6 : Stages[j].gives = Stages[k].gives => j = k
  OBVIOUS
<1>4. ASSUME NEW n \in 1 .. 6, NEW p \in Stages[n].needs
      PROVE  \E k \in 1 .. 6 : k < n /\ p = Stages[k].gives
  <2>1. n = 1 \/ n = 2 \/ n = 3 \/ n = 4 \/ n = 5 \/ n = 6
    OBVIOUS
  <2>2. CASE n = 1
    BY <2>2
  <2>3. CASE n = 2
    BY <2>3
  <2>4. CASE n = 3
    BY <2>4
  <2>5. CASE n = 4
    BY <2>5
  <2>6. CASE n = 5
    BY <2>6
  <2>7. CASE n = 6
    BY <2>7
  <2>8. QED
    BY <2>1, <2>2, <2>3, <2>4, <2>5, <2>6, <2>7
<1>5. QED
  BY <1>1, <1>2, <1>3, <1>4

\* Every step keeps the types.
LEMMA TypeStep ==
  ASSUME TypeInv, Next
  PROVE  TypeInv'
<1> USE SourceFacts, StageFacts, BoundsAssumption DEF TypeInv, Steps, Fetching,
       Making, Tree, CrossStages, At, S, Goto, Panic, NextSource
<1>1. CASE CargoBuild
  BY <1>1 DEF CargoBuild
<1>2. ASSUME NEW s \in Source, EditPatch(s) PROVE TypeInv'
  <2>1. patch' \in [Source -> Nat] /\ edits' \in Nat
    BY <1>2 DEF EditPatch
  <2>2. fresh' \in BOOLEAN
    BY <1>2, Zenon DEF EditPatch
  <2>3. QED
    BY <1>2, <2>1, <2>2 DEF EditPatch
<1>3. CASE TarballCached
  BY <1>3 DEF TarballCached
<1>4. CASE RemoveTarball
  BY <1>4 DEF RemoveTarball
<1>5. CASE CreateFile
  BY <1>5 DEF CreateFile
<1>6. CASE Download
  BY <1>6 DEF Download
<1>7. CASE assert_sha256
  BY <1>7 DEF assert_sha256
<1>8. CASE TreeExists
  BY <1>8 DEF TreeExists
<1>9. CASE CreateTree
  BY <1>9 DEF CreateTree
<1>10. CASE extract_archive
  BY <1>10 DEF extract_archive
<1>11. CASE NoPatchFile
  BY <1>11 DEF NoPatchFile
<1>12. CASE StartPatch
  BY <1>12 DEF StartPatch
<1>13. CASE apply_patch
  BY <1>13 DEF apply_patch
<1>14. CASE StageFails
  BY <1>14 DEF StageFails
<1>15. CASE StartInstall
  BY <1>15 DEF StartInstall
<1>16. CASE FinishInstall
  BY <1>16 DEF FinishInstall
<1>17. CASE InstallFails
  BY <1>17 DEF InstallFails
<1>18. CASE Fault
  BY <1>18 DEF Fault
<1>19. QED
  BY <1>1, <1>2, <1>3, <1>4, <1>5, <1>6, <1>7, <1>8, <1>9, <1>10, <1>11, <1>12,
     <1>13, <1>14, <1>15, <1>16, <1>17, <1>18 DEF Next, Step

\* Every step keeps unverified archives from being unpacked.
LEMMA VerifiedStep ==
  ASSUME TypeInv, Trees, Verified, Next
  PROVE  Verified'
<1> USE SourceFacts, StageFacts DEF Trees, TypeInv, Fetching, Making, Tree, Verified,
       OnlyVerifiedSources, At, S, Goto, Panic, NextSource
<1>1. CASE CargoBuild
  BY <1>1 DEF CargoBuild
<1>2. ASSUME NEW s \in Source, EditPatch(s) PROVE Verified'
  BY <1>2 DEF EditPatch
<1>3. CASE TarballCached
  BY <1>3 DEF TarballCached
<1>4. CASE RemoveTarball
  BY <1>4 DEF RemoveTarball
<1>5. CASE CreateFile
  BY <1>5 DEF CreateFile
<1>6. CASE Download
  BY <1>6 DEF Download
<1>7. CASE assert_sha256
  BY <1>7 DEF assert_sha256
<1>8. CASE TreeExists
  BY <1>8 DEF TreeExists
<1>9. CASE CreateTree
  BY <1>9 DEF CreateTree
<1>10. CASE extract_archive
  BY <1>10 DEF extract_archive
<1>11. CASE NoPatchFile
  BY <1>11 DEF NoPatchFile
<1>12. CASE StartPatch
  BY <1>12 DEF StartPatch
<1>13. CASE apply_patch
  BY <1>13 DEF apply_patch
<1>14. CASE StageFails
  BY <1>14 DEF StageFails
<1>15. CASE StartInstall
  BY <1>15 DEF StartInstall
<1>16. CASE FinishInstall
  BY <1>16 DEF FinishInstall
<1>17. CASE InstallFails
  BY <1>17 DEF InstallFails
<1>18. CASE Fault
  BY <1>18 DEF Fault
<1>19. QED
  BY <1>1, <1>2, <1>3, <1>4, <1>5, <1>6, <1>7, <1>8, <1>9, <1>10, <1>11, <1>12,
     <1>13, <1>14, <1>15, <1>16, <1>17, <1>18 DEF Next, Step

\* A patch that applies writes the tree of S alone, and the build goes on to the
\* next source or to the stages.
LEMMA PatchApplied ==
  ASSUME TypeInv, apply_patch
  PROVE  /\ pc.n \in 1 .. 3 /\ S \in Source /\ pc.step = "patching"
         /\ tree'[S].state = "patched" /\ tree'[S].version = patch[S]
         /\ \A s \in Source : s # S => tree'[s] = tree[s]
         /\ pc.n < 3 => pc' = [step |-> "tarball", n |-> pc.n + 1]
         /\ ~(pc.n < 3) => pc' = [step |-> "stage", n |-> 1]
         /\ patch' = patch /\ torn' = torn /\ edits' = edits /\ fresh' = fresh
<1> USE DEF apply_patch
<1>1. pc.n \in 1 .. 3 /\ pc.step = "patching"
  BY DEF TypeInv, At, Making
<1>2. S \in Source
  BY <1>1, SourceFacts DEF S
<1>3. tree \in [Source -> Tree]
  BY DEF TypeInv
<1>4. /\ tree'[S].state = "patched" /\ tree'[S].version = patch[S]
      /\ \A s \in Source : s # S => tree'[s] = tree[s]
  <2> HIDE DEF S
  <2> QED BY <1>2, <1>3 DEF Tree
<1>5. /\ pc.n < 3 => pc' = [step |-> "tarball", n |-> pc.n + 1]
      /\ ~(pc.n < 3) => pc' = [step |-> "stage", n |-> 1]
  BY SourceFacts DEF NextSource, Goto
<1> QED BY <1>1, <1>2, <1>4, <1>5

\* Every step keeps the trees ready, being made, or on record.
LEMMA TreesStep ==
  ASSUME TypeInv, Trees, Next
  PROVE  Trees'
<1> USE SourceFacts, StageFacts DEF TypeInv, Fetching, Making, Tree, Trees, Ready,
       Whole, BeingMade, At, S, Goto, Panic, NextSource
<1>1. CASE CargoBuild
  BY <1>1 DEF CargoBuild
<1>2. ASSUME NEW s \in Source, EditPatch(s) PROVE Trees'
  BY <1>2 DEF EditPatch
<1>3. CASE TarballCached
  BY <1>3 DEF TarballCached
<1>4. CASE RemoveTarball
  BY <1>4 DEF RemoveTarball
<1>5. CASE CreateFile
  BY <1>5 DEF CreateFile
<1>6. CASE Download
  BY <1>6 DEF Download
<1>7. CASE assert_sha256
  BY <1>7 DEF assert_sha256
<1>8. CASE TreeExists
  BY <1>8 DEF TreeExists
<1>9. CASE CreateTree
  BY <1>9 DEF CreateTree
<1>10. CASE extract_archive
  BY <1>10 DEF extract_archive
<1>11. CASE NoPatchFile
  BY <1>11 DEF NoPatchFile
<1>12. CASE StartPatch
  BY <1>12 DEF StartPatch
<1>13. CASE apply_patch
  <2>0. PICK t \in Source : t = S
    BY <1>13, PatchApplied
  <2>1. pc'.step \notin Making
    BY <1>13, PatchApplied
  <2>2. Ready(t)' /\ tree'[t].state # "none"
    <3>1. /\ tree'[t].state = "patched" /\ tree'[t].version = patch[t]
          /\ patch' = patch
      BY <1>13, <2>0, PatchApplied
    <3> QED BY <3>1
  <2>3. ASSUME NEW s \in Source PROVE tree'[s].state = "none" => tree'[s].version = 0
    <3>1. CASE s = t
      BY <2>2, <3>1
    <3>2. CASE s # t
      <4>1. tree'[s] = tree[s]
        BY <1>13, <2>0, <3>2, PatchApplied
      <4> QED BY <4>1
    <3> QED BY <3>1, <3>2
  <2>4. ASSUME NEW s \in Source PROVE tree'[s].state # "none" => Ready(s)'
    <3>1. CASE s = t
      BY <2>2, <3>1
    <3>2. CASE s # t
      <4>1. tree'[s] = tree[s] /\ patch' = patch /\ torn' = torn /\ edits' = edits
        BY <1>13, <2>0, <3>2, PatchApplied
      <4>2. tree[s].state # "none" => Ready(s)
        BY <2>0, <3>2
      <4> QED BY <4>1, <4>2
    <3> QED BY <3>1, <3>2
  <2> QED
    <3> HIDE SourceFacts, StageFacts
    <3> HIDE DEF Trees
    <3>1. (\A s \in Source : tree[s].state = "none" => tree[s].version = 0)'
      BY <2>3
    <3>2. (\A s \in Source : tree[s].state # "none" => Ready(s) \/ BeingMade(s))'
      BY <2>4
    <3>3. (pc.step \in Making => tree[S].state # "none" /\ tree[S].version = 0)'
      BY <2>1
    <3> QED BY <3>1, <3>2, <3>3 DEF Trees
<1>14. CASE StageFails
  BY <1>14 DEF StageFails
<1>15. CASE StartInstall
  BY <1>15 DEF StartInstall
<1>16. CASE FinishInstall
  BY <1>16 DEF FinishInstall
<1>17. CASE InstallFails
  BY <1>17 DEF InstallFails
<1>18. CASE Fault
  BY <1>18 DEF Fault
<1>19. QED
  BY <1>1, <1>2, <1>3, <1>4, <1>5, <1>6, <1>7, <1>8, <1>9, <1>10, <1>11, <1>12,
     <1>13, <1>14, <1>15, <1>16, <1>17, <1>18 DEF Next, Step

\* Every step keeps the loop's progress.
LEMMA ExtractedStep ==
  ASSUME TypeInv, Trees, Extracted, Next
  PROVE  Extracted'
<1> USE SourceFacts, StageFacts DEF TypeInv, Fetching, Making, Later, Tree, Trees,
       Extracted, Present, CrossStages, At, S, Goto, Panic, NextSource
<1>1. CASE CargoBuild
  BY <1>1 DEF CargoBuild
<1>2. ASSUME NEW s \in Source, EditPatch(s) PROVE Extracted'
  BY <1>2 DEF EditPatch
<1>3. CASE TarballCached
  BY <1>3 DEF TarballCached
<1>4. CASE RemoveTarball
  BY <1>4 DEF RemoveTarball
<1>5. CASE CreateFile
  BY <1>5 DEF CreateFile
<1>6. CASE Download
  BY <1>6 DEF Download
<1>7. CASE assert_sha256
  BY <1>7 DEF assert_sha256
<1>8. CASE TreeExists
  BY <1>8 DEF TreeExists
<1>9. CASE CreateTree
  BY <1>9, SMTT(30) DEF CreateTree
<1>10. CASE extract_archive
  BY <1>10 DEF extract_archive
<1>11. CASE NoPatchFile
  BY <1>11 DEF NoPatchFile
<1>12. CASE StartPatch
  BY <1>12 DEF StartPatch
<1>13. CASE apply_patch
  <2>1. \A s \in Source : tree[s].state # "none" => tree'[s].state # "none"
    BY <1>13, PatchApplied
  <2>2. ASSUME NEW k \in 1 .. 3, k <= pc.n PROVE Present(k)'
    BY <1>13, <2>1, <2>2, PatchApplied
  <2>3. CASE pc.n < 3
    BY <1>13, <2>2, <2>3, PatchApplied
  <2>4. CASE ~(pc.n < 3)
    BY <1>13, <2>2, <2>4, PatchApplied
  <2> QED BY <2>3, <2>4
<1>14. CASE StageFails
  BY <1>14 DEF StageFails
<1>15. CASE StartInstall
  BY <1>15 DEF StartInstall
<1>16. CASE FinishInstall
  BY <1>16 DEF FinishInstall
<1>17. CASE InstallFails
  BY <1>17 DEF InstallFails
<1>18. CASE Fault
  BY <1>18 DEF Fault
<1>19. QED
  BY <1>1, <1>2, <1>3, <1>4, <1>5, <1>6, <1>7, <1>8, <1>9, <1>10, <1>11, <1>12,
     <1>13, <1>14, <1>15, <1>16, <1>17, <1>18 DEF Next, Step

\* Every step keeps the products of earlier stages whole.
LEMMA InstalledStep ==
  ASSUME TypeInv, Installed, Next
  PROVE  Installed'
<1> USE SourceFacts, StageFacts DEF TypeInv, Fetching, Making, Installed, WholeUpTo,
       CrossStages, At, S, Goto, Panic, NextSource
<1>1. CASE CargoBuild
  BY <1>1 DEF CargoBuild
<1>2. ASSUME NEW s \in Source, EditPatch(s) PROVE Installed'
  BY <1>2 DEF EditPatch
<1>3. CASE TarballCached
  BY <1>3 DEF TarballCached
<1>4. CASE RemoveTarball
  BY <1>4 DEF RemoveTarball
<1>5. CASE CreateFile
  BY <1>5 DEF CreateFile
<1>6. CASE Download
  BY <1>6 DEF Download
<1>7. CASE assert_sha256
  BY <1>7 DEF assert_sha256
<1>8. CASE TreeExists
  BY <1>8 DEF TreeExists
<1>9. CASE CreateTree
  BY <1>9 DEF CreateTree
<1>10. CASE extract_archive
  BY <1>10 DEF extract_archive
<1>11. CASE NoPatchFile
  BY <1>11 DEF NoPatchFile
<1>12. CASE StartPatch
  BY <1>12 DEF StartPatch
<1>13. CASE apply_patch
  BY <1>13 DEF apply_patch
<1>14. CASE StageFails
  BY <1>14 DEF StageFails
<1>15. CASE StartInstall
  BY <1>15 DEF StartInstall
<1>16. CASE FinishInstall
  BY <1>16 DEF FinishInstall
<1>17. CASE InstallFails
  BY <1>17 DEF InstallFails
<1>18. CASE Fault
  BY <1>18 DEF Fault
<1>19. QED
  BY <1>1, <1>2, <1>3, <1>4, <1>5, <1>6, <1>7, <1>8, <1>9, <1>10, <1>11, <1>12,
     <1>13, <1>14, <1>15, <1>16, <1>17, <1>18 DEF Next, Step

\* A build that has just been checked out, with or without patches, satisfies
\* the invariant.
LEMMA InitIInv == Init => IInv
<1> SUFFICES ASSUME Init PROVE IInv
  OBVIOUS
<1>1. /\ pc = [step |-> "idle", n |-> 1] /\ fresh = FALSE
      /\ \A s \in Source : tree[s] = NoTree
  BY DEF Init
<1>2. TypeInv
  <2>1. tree \in [Source -> Tree] /\ NoTree \in Tree
    BY DEF Init, NoTree, Tree
  <2>2. patch \in [Source -> Nat]
    BY DEF Init
  <2>3. fresh \in BOOLEAN
    BY <1>1, Zenon
  <2>4. QED
    BY <1>1, <2>1, <2>2, <2>3 DEF Init, TypeInv, Steps, Fetching, Making
<1>3. Verified
  BY <1>1 DEF Verified, OnlyVerifiedSources, NoTree, At
<1>4. Trees
  BY <1>1 DEF Trees, NoTree, Making
<1>5. Extracted /\ Installed
  BY <1>1 DEF Extracted, Installed, Fetching, Making, Later
<1>6. QED
  BY <1>2, <1>3, <1>4, <1>5 DEF IInv

\* Every step of a build, and every end of one, keeps the invariant.
LEMMA NextIInv == IInv /\ [Next]_vars => IInv'
<1> SUFFICES ASSUME IInv, [Next]_vars PROVE IInv'
  OBVIOUS
<1>1. CASE Next
  BY <1>1, TypeStep, VerifiedStep, TreesStep, ExtractedStep, InstalledStep DEF IInv
<1>2. CASE UNCHANGED vars
  BY <1>2 DEF vars, IInv, TypeInv, Verified, OnlyVerifiedSources, Trees, Ready, Whole,
     BeingMade, Extracted, Present, Installed, WholeUpTo, At, S
<1>3. QED
  BY <1>1, <1>2

\* The invariant holds however many builds end early.
THEOREM Invariance == Spec => []IInv
  BY InitIInv, NextIInv, PTL DEF Spec

\* Whatever was downloaded and however builds ended, a source tree always comes from
\* an archive with the right checksum.
THEOREM SourcesVerified == Spec => []OnlyVerifiedSources
<1>1. IInv => OnlyVerifiedSources
  BY DEF IInv, Verified
<1>2. QED
  BY <1>1, Invariance, PTL

\* A finished build used complete trees, with the present patch if none has
\* changed, except those on record as torn.
THEOREM TreesComplete == Spec => []CompleteUnlessTorn
<1>1. IInv => CompleteUnlessTorn
  <2> SUFFICES ASSUME IInv, At("finished"), NEW s \in Source
               PROVE  s \in torn \/ (Whole(s) /\ (tree[s].version = patch[s] \/ edits > 0))
    BY DEF CompleteUnlessTorn
  <2>1. tree[s].state # "none"
    BY SourceFacts DEF IInv, Extracted, Present, Later, At
  <2>2. pc.step \notin Making
    BY DEF At, Making
  <2>3. QED
    BY <2>1, <2>2 DEF IInv, Trees, Ready, BeingMade
<1>2. QED
  BY <1>1, Invariance, PTL

\* No stage is run with a product that an earlier build or stage left torn.
THEOREM ToolsAreWhole == Spec => []ToolsWhole
<1>1. IInv => ToolsWhole
  <2> SUFFICES ASSUME IInv, At("install"), NEW p \in Stages[pc.n].needs
               PROVE  product[p] = "whole"
    BY DEF ToolsWhole
  <2>1. pc.n \in 1 .. 6
    BY DEF IInv, TypeInv
  <2>2. PICK k \in 1 .. 6 : k < pc.n /\ p = Stages[k].gives
    BY <2>1, StageFacts
  <2>3. QED
    BY <2>2 DEF IInv, Installed, WholeUpTo, At
<1>2. QED
  BY <1>1, Invariance, PTL
=============================================================================
