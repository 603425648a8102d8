------------------------------ MODULE Toolchain ------------------------------
(***************************************************************************)
(* The build of the cross toolchain (user/cross/build.rs), of the init     *)
(* program (user/build.rs) and of the disk images (build.rs), as cargo     *)
(* runs them one after the other, with what they leave on disk.            *)
(*                                                                         *)
(* A build may end at any point: a failing assertion or tool, a lost       *)
(* connection, a full disk, or a user who interrupts it.  The next one     *)
(* finds what the last one left.                                           *)
(***************************************************************************)
EXTENDS Integers, Sequences

CONSTANTS
  MaxFaults,  \* bound on the builds that end early without a reason below
  MaxEdits    \* bound on the changes to the patch files

ASSUME BoundsAssumption == MaxFaults \in Nat /\ MaxEdits \in Nat

SOURCES == <<"gcc", "binutils", "mlibc">>
Source  == {SOURCES[i] : i \in 1 .. Len(SOURCES)}

VARIABLES
  pc,       \* the step of the build, and which source or stage it is at
  tarball,  \* the archive in the cache: "none", "bad" (truncated, altered), "good"
  tree,     \* the source directory: how far it got, and the archive it is from
  patch,    \* the version of the patch file; 0: there is none
  torn,     \* history: builds that ended while they made this tree
  product,  \* what each stage has made: "none", "torn" or "whole"
  fresh,    \* cargo's record that the toolchain script need not run
  faults, edits

vars == <<pc, tarball, tree, patch, torn, product, fresh, faults, edits>>

NoTree == [state |-> "none", from |-> "none", version |-> 0]

\* A stage runs its commands in one source tree (or none) and needs products
\* of earlier ones; an interrupted install leaves its own product torn.
headers  == [gives |-> "headers",  in |-> {"mlibc"},    needs |-> {}]
binutils == [gives |-> "binutils", in |-> {"binutils"}, needs |-> {}]
gcc      == [gives |-> "gcc",      in |-> {"gcc"},      needs |-> {"headers", "binutils"}]
mlibc    == [gives |-> "mlibc",    in |-> {"mlibc"},    needs |-> {"headers", "gcc"}]
init     == [gives |-> "init",     in |-> {},           needs |-> {"gcc", "mlibc"}]
images   == [gives |-> "images",   in |-> {},           needs |-> {"init"}]

Stages == <<headers, binutils, gcc, mlibc, init, images>>

\* The stages of the cross script come first; cargo then runs the other two.
CrossStages == 4

Products == {Stages[i].gives : i \in 1 .. Len(Stages)}

At(step) == pc.step = step
S        == SOURCES[pc.n]
Goto(step, n) == pc' = [step |-> step, n |-> n]
Panic    == Goto("idle", 1)

\* After the last source the stages begin.
NextSource ==
  IF pc.n < Len(SOURCES) THEN Goto("tarball", pc.n + 1) ELSE Goto("stage", 1)

-----------------------------------------------------------------------------
Init ==
  /\ pc = [step |-> "idle", n |-> 1]
  /\ tarball = [s \in Source |-> "none"]
  /\ tree = [s \in Source |-> NoTree]
  /\ patch \in [Source -> {0, 1}]
  /\ torn = {}
  /\ product = [p \in Products |-> "none"]
  /\ fresh = FALSE
  /\ faults = 0
  /\ edits = 0

\* cargo build.  Cargo forgets its record of a script before it runs it; the
\* scripts of user and os run every time.
CargoBuild ==
  /\ pc.step \in {"idle", "finished"}
  /\ IF fresh THEN Goto("stage", CrossStages + 1) ELSE Goto("tarball", 1)
  /\ UNCHANGED <<tarball, tree, patch, torn, product, fresh, faults, edits>>

\* The repository's patch file changes, and rerun-if-changed names it.
EditPatch(s) ==
  /\ pc.step \in {"idle", "finished"}
  /\ edits < MaxEdits
  /\ edits' = edits + 1
  /\ patch' = [patch EXCEPT ![s] = @ + 1]
  /\ fresh' = FALSE
  /\ UNCHANGED <<pc, tarball, tree, torn, product, faults>>

\* verify_sha256 of the cached archive.
TarballCached_Any ==
  /\ At("tarball")
  /\ tarball[S] # "none"
  /\ Goto("tree", pc.n)
  /\ UNCHANGED <<tarball, tree, patch, torn, product, fresh, faults, edits>>

TarballCached ==
  /\ At("tarball")
  /\ tarball[S] = "good"
  /\ Goto("tree", pc.n)
  /\ UNCHANGED <<tarball, tree, patch, torn, product, fresh, faults, edits>>

RemoveTarball_Assert ==
  /\ At("tarball")
  /\ tarball[S] = "bad"
  /\ Panic
  /\ UNCHANGED <<tarball, tree, patch, torn, product, fresh, faults, edits>>

RemoveTarball ==
  /\ At("tarball")
  /\ tarball[S] = "bad"
  /\ tarball' = [tarball EXCEPT ![S] = "none"]
  /\ UNCHANGED <<pc, tree, patch, torn, product, fresh, faults, edits>>

\* download: after the response has arrived the file is created and filled.
CreateFile ==
  /\ At("tarball")
  /\ tarball[S] = "none"
  /\ tarball' = [tarball EXCEPT ![S] = "bad"]
  /\ Goto("download", pc.n)
  /\ UNCHANGED <<tree, patch, torn, product, fresh, faults, edits>>

\* All that the server sends is written: the archive, or (a fault) another one.
Download ==
  /\ At("download")
  /\ \/ /\ tarball' = [tarball EXCEPT ![S] = "good"]
        /\ UNCHANGED faults
     \/ /\ faults < MaxFaults
        /\ faults' = faults + 1
        /\ UNCHANGED tarball
  /\ Goto("verify", pc.n)
  /\ UNCHANGED <<tree, patch, torn, product, fresh, edits>>

assert_sha256 ==
  /\ At("verify")
  /\ IF tarball[S] = "good" THEN Goto("tree", pc.n) ELSE Panic
  /\ UNCHANGED <<tarball, tree, patch, torn, product, fresh, faults, edits>>

\* A directory that exists is taken for extracted and patched.
TreeExists ==
  /\ At("tree")
  /\ tree[S].state # "none"
  /\ NextSource
  /\ UNCHANGED <<tarball, tree, patch, torn, product, fresh, faults, edits>>

CreateTree ==
  /\ At("tree")
  /\ tree[S].state = "none"
  /\ tree' = [tree EXCEPT ![S].state = "partial", ![S].from = tarball[S]]
  /\ Goto("extract", pc.n)
  /\ UNCHANGED <<tarball, patch, torn, product, fresh, faults, edits>>

extract_archive_NoPatch ==
  /\ At("extract")
  /\ tree' = [tree EXCEPT ![S].state = "unpatched"]
  /\ NextSource
  /\ UNCHANGED <<tarball, patch, torn, product, fresh, faults, edits>>

extract_archive ==
  /\ At("extract")
  /\ tree' = [tree EXCEPT ![S].state = "unpatched"]
  /\ Goto("patch", pc.n)
  /\ UNCHANGED <<tarball, patch, torn, product, fresh, faults, edits>>

NoPatchFile ==
  /\ At("patch")
  /\ patch[S] = 0
  /\ tree' = [tree EXCEPT ![S].state = "plain"]
  /\ NextSource
  /\ UNCHANGED <<tarball, patch, torn, product, fresh, faults, edits>>

\* patch rewrites one file after the other.
StartPatch ==
  /\ At("patch")
  /\ patch[S] # 0
  /\ tree' = [tree EXCEPT ![S].state = "half"]
  /\ Goto("patching", pc.n)
  /\ UNCHANGED <<tarball, patch, torn, product, fresh, faults, edits>>

apply_patch ==
  /\ At("patching")
  /\ tree' = [tree EXCEPT ![S].state = "patched", ![S].version = patch[S]]
  /\ NextSource
  /\ UNCHANGED <<tarball, patch, torn, product, fresh, faults, edits>>

\* A tree that is all there, and patched if there was a patch then.
Whole(s) == tree[s].state \in {"patched", "plain"}

\* What a tool does in a tree that is not whole, or with products that are not,
\* is anybody's guess; without a product it needs it fails.
StageFails ==
  /\ At("stage")
  /\ \/ \E s \in Stages[pc.n].in : ~Whole(s)
     \/ \E p \in Stages[pc.n].needs : product[p] # "whole"
  /\ Panic
  /\ UNCHANGED <<tarball, tree, patch, torn, product, fresh, faults, edits>>

StartInstall ==
  /\ At("stage")
  /\ \A p \in Stages[pc.n].needs : product[p] # "none"
  /\ product' = [product EXCEPT ![Stages[pc.n].gives] = "torn"]
  /\ Goto("install", pc.n)
  /\ UNCHANGED <<tarball, tree, patch, torn, fresh, faults, edits>>

\* assert!(status.success()) of an install that failed half-way.
InstallFails_Ignored ==
  /\ At("install")
  /\ faults < MaxFaults
  /\ faults' = faults + 1
  /\ IF pc.n < Len(Stages) THEN Goto("stage", pc.n + 1) ELSE Goto("finished", 1)
  /\ UNCHANGED <<tarball, tree, patch, torn, product, fresh, edits>>

InstallFails ==
  /\ At("install")
  /\ faults < MaxFaults
  /\ faults' = faults + 1
  /\ Panic
  /\ UNCHANGED <<tarball, tree, patch, torn, product, fresh, edits>>

FinishInstall ==
  /\ At("install")
  /\ product' = [product EXCEPT ![Stages[pc.n].gives] = "whole"]
  /\ IF pc.n < Len(Stages) THEN Goto("stage", pc.n + 1) ELSE Goto("finished", 1)
  /\ fresh' = (fresh \/ pc.n = CrossStages)
  /\ UNCHANGED <<tarball, tree, patch, torn, faults, edits>>

\* Any other end of a build.
Fault ==
  /\ pc.step \notin {"idle", "finished"}
  /\ faults < MaxFaults
  /\ faults' = faults + 1
  /\ torn' = torn \cup (IF pc.step \in {"extract", "patch", "patching"} THEN {S} ELSE {})
  /\ Panic
  /\ UNCHANGED <<tarball, tree, patch, product, fresh, edits>>

Step ==
  \/ TarballCached
  \/ RemoveTarball
  \/ CreateFile
  \/ Download
  \/ assert_sha256
  \/ TreeExists
  \/ CreateTree
  \/ extract_archive
  \/ NoPatchFile
  \/ StartPatch
  \/ apply_patch
  \/ StageFails
  \/ StartInstall
  \/ FinishInstall

Next ==
  \/ CargoBuild
  \/ \E s \in Source : EditPatch(s)
  \/ Step
  \/ InstallFails
  \/ Fault

Spec == Init /\ [][Next]_vars

\* A build that was started runs on, and one that failed is started again.
FairSpec ==
  /\ Spec
  /\ WF_vars(Step)
  /\ WF_vars(~At("finished") /\ CargoBuild)

-----------------------------------------------------------------------------
\* Whatever the server sends and whenever a build was cut short, no source tree
\* is ever unpacked from an archive other than the one named by its checksum.
OnlyVerifiedSources == \A s \in Source : tree[s].state # "none" => tree[s].from = "good"

\* A finished build compiled complete source trees, patched if there was a
\* patch, except those a build was making when it ended early: these are never
\* repaired, because an existing directory is never looked into.  For the same
\* reason the patch applied may be an old one, but only if a patch has changed.
CompleteUnlessTorn ==
  At("finished") =>
    \A s \in Source :
      s \in torn \/ (Whole(s) /\ (tree[s].version = patch[s] \/ edits > 0))

\* Nothing is ever compiled with a tool or library whose install was cut short
\* or failed, although all products of earlier builds are still
\* there and cargo skips the toolchain script once it has succeeded.
ToolsWhole ==
  At("install") => \A p \in Stages[pc.n].needs : product[p] = "whole"

\* A build succeeds in the end: archives that were truncated, altered or never
\* fetched are replaced.  Only a tree torn by an early end is beyond repair.
EventuallyBuilt == []<>(At("finished") \/ torn # {})
=============================================================================
