---------------------------- MODULE EvaluationProofs ----------------------------
(***************************************************************************)
(* Proofs about Evaluation and the patches in it, for any trees, patches,  *)
(* graders and number of runs.                                             *)
(***************************************************************************)
EXTENDS Evaluation, FiniteSetTheorems, TLAPS

-----------------------------------------------------------------------------
(* Files.                                                                  *)

\* What reading as text does to a file.
LEMMA LFFacts ==
  ASSUME NEW c, IsFile(c)
  PROVE  /\ IsFile(LF(c)) /\ LF(LF(c)) = LF(c)
         /\ LF(c) = Absent <=> c = Absent
         /\ c.is = "text" => /\ c = Text(c.at[1], c.at[2], c.form)
                             /\ LF(c) = Text(c.at[1], c.at[2], "lf")
         /\ c.is # "text" => LF(c) = c
  <1>1. CASE c \in {Absent, Empty}
    BY <1>1 DEF IsFile, LF, Absent, Empty
  <1>2. CASE c = Text(c.at[1], c.at[2], c.form) /\ c.form \in {"lf", "crlf", "bytes"}
    <2>1. c.is = "text"
      BY <1>2 DEF Text
    <2>2. LF(c) = Text(c.at[1], c.at[2], "lf")
      <3>1. PICK a, b, f : c = Text(a, b, f) /\ a = c.at[1] /\ b = c.at[2]
        BY <1>2
      <3>2. [Text(a, b, f) EXCEPT !.form = "lf"] = Text(a, b, "lf")
        BY DEF Text
      <3> QED
        BY <2>1, <3>1, <3>2 DEF LF
    <2>3. LF(c).at[1] = c.at[1] /\ LF(c).at[2] = c.at[2] /\ LF(c).form = "lf" /\ LF(c).is = "text"
      BY <2>2 DEF Text
    <2>4. IsFile(LF(c))
      BY <2>2, <2>3 DEF IsFile
    <2>5. LF(LF(c)) = LF(c)
      BY <2>2 DEF LF, Text
    <2>6. LF(c) # Absent /\ c # Absent
      BY <2>1, <2>3 DEF Absent
    <2> QED
      BY <1>2, <2>1, <2>2, <2>4, <2>5, <2>6
  <1> QED
    BY <1>1, <1>2 DEF IsFile

\* A text has its places and its form.
LEMMA TextFacts ==
  ASSUME NEW a, NEW b, NEW f
  PROVE  /\ Text(a, b, f).is = "text" /\ Text(a, b, f).form = f
         /\ Text(a, b, f).at[1] = a /\ Text(a, b, f).at[2] = b
  BY DEF Text

\* An exact change fits the file it was made from and gives the other one.
LEMMA ExactEdit ==
  ASSUME NEW b, NEW m, IsFile(b), IsFile(m)
  PROVE  LET change == [old |-> b, new |-> m]
         IN  Fits(b, change) /\ Edit(b, change) = m
  <1> DEFINE change == [old |-> b, new |-> m]
  <1>1. CASE Edits(change)
    <2>1. b.is = "text" /\ m.is = "text" /\ b.form = m.form
      BY <1>1 DEF Edits
    <2>2. m = Text(m.at[1], m.at[2], b.form)
      BY <2>1, LFFacts
    <2> QED
      BY <1>1, <2>1, <2>2 DEF Fits, Edit
  <1>2. CASE ~ Edits(change)
    BY <1>2 DEF Fits, Edit
  <1> QED
    BY <1>1, <1>2

\* A change that went through text gives, where it fits, the same file up to
\* line ends.
LEMMA TextEdit ==
  ASSUME NEW b, NEW m, IsFile(b), IsFile(m), Fits(b, [old |-> LF(b), new |-> LF(m)])
  PROVE  LF(Edit(b, [old |-> LF(b), new |-> LF(m)])) = LF(m)
  <1> DEFINE change == [old |-> LF(b), new |-> LF(m)]
  <1>1. CASE Edits(change)
    <2>1. b.is = "text" /\ b.form = LF(b).form
      BY <1>1 DEF Fits
    <2>2. LF(m).is = "text"
      BY <1>1 DEF Edits
    <2>3. LF(b) = Text(b.at[1], b.at[2], "lf")
      BY <2>1, LFFacts
    <2>4. m.is = "text"
      BY <2>2, LFFacts DEF LF
    <2>5. LF(m) = Text(m.at[1], m.at[2], "lf")
      BY <2>4, LFFacts
    <2>6. Edit(b, change) = Text(m.at[1], m.at[2], "lf")
      BY <1>1, <2>1, <2>3, <2>5, TextFacts DEF Edit
    <2> QED
      BY <2>5, <2>6, LFFacts
  <1>2. CASE ~ Edits(change)
    BY <1>2, LFFacts DEF Edit
  <1> QED
    BY <1>1, <1>2

\* What a fitting change makes of a file is a file.
LEMMA EditIsFile ==
  ASSUME NEW c, NEW change, IsFile(c), IsFile(change.new), Fits(c, change)
  PROVE  IsFile(Edit(c, change))
  <1>1. CASE Edits(change)
    <2>1. c.is = "text"
      BY <1>1 DEF Fits
    <2>2. c.form \in {"lf", "crlf", "bytes"}
      BY <2>1 DEF IsFile, Absent, Empty
    <2> QED
      BY <1>1, <2>2, TextFacts DEF Edit, IsFile
  <1>2. CASE ~ Edits(change)
    BY <1>2 DEF Edit
  <1> QED
    BY <1>1, <1>2

-----------------------------------------------------------------------------
(* Trees and patches.                                                      *)

\* A patch of files, each of them there before or after.
IsPatch(patch) ==
  /\ DOMAIN patch \subseteq Paths
  /\ \A p \in DOMAIN patch : /\ IsFile(patch[p].old) /\ IsFile(patch[p].new)
                             /\ patch[p].old # Absent \/ patch[p].new # Absent

LEMMA BaseIsTree == IsTree(Base) /\ \A e \in Edited : IsTree(e)
  BY PatchesAssumption

LEMMA DiffIsPatch ==
  ASSUME NEW a, NEW b, IsTree(a), IsTree(b)
  PROVE  /\ IsPatch(Diff(a, b)) /\ IsPatch(AsText(Diff(a, b)))
         /\ DOMAIN AsText(Diff(a, b)) = DOMAIN Diff(a, b)
         /\ \A p : p \in DOMAIN Diff(a, b) <=> p \in Paths /\ a[p] # b[p]
         /\ \A p \in DOMAIN Diff(a, b) :
              /\ Diff(a, b)[p] = [old |-> a[p], new |-> b[p]]
              /\ AsText(Diff(a, b))[p] = [old |-> LF(a[p]), new |-> LF(b[p])]
  <1>1. /\ \A p : p \in DOMAIN Diff(a, b) <=> p \in Paths /\ a[p] # b[p]
        /\ \A p \in DOMAIN Diff(a, b) : Diff(a, b)[p] = [old |-> a[p], new |-> b[p]]
    BY DEF Diff
  <1>2. /\ DOMAIN AsText(Diff(a, b)) = DOMAIN Diff(a, b)
        /\ \A p \in DOMAIN Diff(a, b) :
              AsText(Diff(a, b))[p] = [old |-> LF(a[p]), new |-> LF(b[p])]
    BY <1>1 DEF AsText
  <1>3. \A p \in DOMAIN Diff(a, b) :
           /\ IsFile(a[p]) /\ IsFile(b[p]) /\ IsFile(LF(a[p])) /\ IsFile(LF(b[p]))
           /\ a[p] # Absent \/ b[p] # Absent
           /\ LF(a[p]) # Absent \/ LF(b[p]) # Absent
    <2> SUFFICES ASSUME NEW p \in Paths, a[p] # b[p]
                 PROVE  /\ IsFile(a[p]) /\ IsFile(b[p]) /\ IsFile(LF(a[p])) /\ IsFile(LF(b[p]))
                        /\ a[p] # Absent \/ b[p] # Absent
                        /\ LF(a[p]) # Absent \/ LF(b[p]) # Absent
      BY <1>1
    <2>1. IsFile(a[p]) /\ IsFile(b[p])
      BY DEF IsTree
    <2>2. /\ IsFile(LF(a[p])) /\ IsFile(LF(b[p]))
          /\ LF(a[p]) = Absent <=> a[p] = Absent
          /\ LF(b[p]) = Absent <=> b[p] = Absent
      BY <2>1, LFFacts
    <2> QED
      BY <2>1, <2>2
  <1> QED
    BY <1>1, <1>2, <1>3 DEF IsPatch

LEMMA NoPatchFacts ==
  /\ DOMAIN NoPatch = {} /\ IsPatch(NoPatch)
  /\ NoPatch = AsText(Diff(Base, Base))
  <1>1. DOMAIN NoPatch = {} /\ IsPatch(NoPatch)
    BY BaseIsTree, DiffIsPatch DEF NoPatch
  <1>2. AsText(NoPatch) = NoPatch
    BY <1>1 DEF AsText, NoPatch, Diff
  <1> QED
    BY <1>1, <1>2 DEF NoPatch

LEMMA WorkersHandPatches == \A patch \in WorkerPatches : IsPatch(patch)
  <1>1. \A e \in Edited : IsPatch(Diff(Base, e)) /\ IsPatch(AsText(Diff(Base, e)))
    BY BaseIsTree, DiffIsPatch
  <1>2. \A patch \in WorkerPatches :
           \E e \in Edited : patch = Diff(Base, e) \/ patch = AsText(Diff(Base, e))
    BY DEF WorkerPatches
  <1> QED
    BY <1>1, <1>2

\* Patching what fits gives a tree, and changes nothing else.
LEMMA PatchedIsTree ==
  ASSUME NEW content, IsTree(content), NEW patch, IsPatch(patch),
         NEW paths, paths \subseteq DOMAIN patch, paths \cap Misfits(content, patch) = {}
  PROVE  /\ IsTree(Patched(content, paths, patch))
         /\ \A p \in Paths : Patched(content, paths, patch)[p] # content[p] => p \in paths
  <1>1. \A p \in paths : Fits(content[p], patch[p]) /\ IsFile(patch[p].new)
    BY DEF Misfits, IsPatch
  <1>2. \A p \in paths : IsFile(Edit(content[p], patch[p]))
    BY <1>1, EditIsFile DEF IsTree, IsPatch
  <1> QED
    BY <1>2 DEF Patched, IsTree

\* What was captured of a tree of files in LF gives that tree again.
LEMMA RecaptureRestores ==
  ASSUME NEW content, IsTree(content), Plain(Diff(Base, content))
  PROVE  LET patch == AsText(Diff(Base, content))
         IN  IF Taken(Base, patch)
             THEN Patched(Base, DOMAIN patch, patch) = content
             ELSE content = Base
  <1> DEFINE patch == AsText(Diff(Base, content))
  <1>0. IsTree(Base)
    BY BaseIsTree
  <1>1. /\ DOMAIN patch = DOMAIN Diff(Base, content)
        /\ \A p : p \in DOMAIN patch <=> p \in Paths /\ Base[p] # content[p]
        /\ \A p \in DOMAIN Diff(Base, content) :
              /\ Diff(Base, content)[p] = [old |-> Base[p], new |-> content[p]]
              /\ patch[p] = [old |-> LF(Base[p]), new |-> LF(content[p])]
    BY <1>0, DiffIsPatch
  <1>2. \A p \in DOMAIN patch : patch[p] = [old |-> Base[p], new |-> content[p]]
    <2> SUFFICES ASSUME NEW p \in DOMAIN Diff(Base, content)
                 PROVE  LF(Base[p]) = Base[p] /\ LF(content[p]) = content[p]
      BY <1>1
    <2> QED
      BY <1>1 DEF Plain
  <1>3. \A p \in DOMAIN patch : Fits(Base[p], patch[p]) /\ Edit(Base[p], patch[p]) = content[p]
    <2> SUFFICES ASSUME NEW p \in DOMAIN patch
                 PROVE  Fits(Base[p], patch[p]) /\ Edit(Base[p], patch[p]) = content[p]
      OBVIOUS
    <2>1. IsFile(Base[p]) /\ IsFile(content[p])
      BY <1>0, <1>1 DEF IsTree
    <2>2. patch[p] = [old |-> Base[p], new |-> content[p]]
      BY <1>2
    <2> HIDE DEF patch
    <2> QED
      BY <2>1, <2>2, ExactEdit
  <1>4. Misfits(Base, patch) = {}
    BY <1>3 DEF Misfits
  <1>5. CASE Taken(Base, patch)
    <2>1. \A p \in Paths : Patched(Base, DOMAIN patch, patch)[p] = content[p]
      BY <1>1, <1>3 DEF Patched
    <2>2. Patched(Base, DOMAIN patch, patch) = [p \in Paths |-> content[p]]
      BY <2>1 DEF Patched
    <2> QED
      BY <1>5, <2>2 DEF IsTree
  <1>6. CASE ~ Taken(Base, patch)
    <2>1. DOMAIN patch = {}
      BY <1>4, <1>6, NoPatchFacts DEF Taken
    <2>2. content = Base
      BY <1>0, <1>1, <2>1 DEF IsTree
    <2> QED
      BY <1>6, <2>2
  <1> QED
    BY <1>5, <1>6

\* A captured text that applies to the base gives the tree it was captured
\* from, up to line ends.
LEMMA CaptureKeepsText ==
  ASSUME NEW content, IsTree(content), Taken(Base, AsText(Diff(Base, content)))
  PROVE  LET patch == AsText(Diff(Base, content))
         IN  LFTree(Patched(Base, DOMAIN patch, patch)) = LFTree(content)
  <1> DEFINE patch == AsText(Diff(Base, content))
             there == Patched(Base, DOMAIN patch, patch)
  <1>0. IsTree(Base)
    BY BaseIsTree
  <1>1. /\ \A p : p \in DOMAIN patch <=> p \in Paths /\ Base[p] # content[p]
        /\ \A p \in DOMAIN patch : patch[p] = [old |-> LF(Base[p]), new |-> LF(content[p])]
    <2>1. /\ DOMAIN patch = DOMAIN Diff(Base, content)
          /\ \A p : p \in DOMAIN Diff(Base, content) <=> p \in Paths /\ Base[p] # content[p]
          /\ \A p \in DOMAIN Diff(Base, content) :
                patch[p] = [old |-> LF(Base[p]), new |-> LF(content[p])]
      BY <1>0, DiffIsPatch
    <2> HIDE DEF patch
    <2> QED
      BY <2>1
  <1>2. \A p \in DOMAIN patch : Fits(Base[p], patch[p])
    BY DEF Taken, Misfits
  <1>3. \A p \in DOMAIN patch : LF(Edit(Base[p], patch[p])) = LF(content[p])
    <2> SUFFICES ASSUME NEW p \in DOMAIN patch
                 PROVE  LF(Edit(Base[p], patch[p])) = LF(content[p])
      OBVIOUS
    <2>1. IsFile(Base[p]) /\ IsFile(content[p])
      BY <1>0, <1>1 DEF IsTree
    <2>2. Fits(Base[p], patch[p]) /\ patch[p] = [old |-> LF(Base[p]), new |-> LF(content[p])]
      BY <1>1, <1>2
    <2> HIDE DEF patch
    <2> QED
      BY <2>1, <2>2, TextEdit
  <1>4. \A p \in Paths : LF(there[p]) = LF(content[p])
    BY <1>1, <1>3 DEF Patched
  <1> QED
    BY <1>4 DEF LFTree

\* A patch whose every change has a header is seen whole.
LEMMA ShownIsSeen ==
  ASSUME NEW patch, IsPatch(patch), \A p \in DOMAIN patch : ~ Bare(patch, p),
         NEW p \in DOMAIN patch
  PROVE  p \in ChangedPaths(patch)
  <1>1. \/ <<"--- a/", p>> \in Headers(patch)
        \/ <<"+++ b/", p>> \in Headers(patch)
    BY DEF Headers, IsPatch
  <1>2. \A line \in Headers(patch) : line[2] \in ChangedPaths(patch)
    BY DEF ChangedPaths
  <1>3. <<"--- a/", p>>[2] = p /\ <<"+++ b/", p>>[2] = p
    OBVIOUS
  <1> HIDE DEF Headers
  <1> QED
    BY <1>1, <1>2, <1>3

-----------------------------------------------------------------------------
(* Patches: the integration of several.                                    *)

\* A path that is no longer as in the base was changed by a patch since the
\* last rollback, while none is unmerged; also in the tree captured last.
Touched ==
  unmerged = {} =>
    \A p \in Paths : tree[p] # Base[p] => \E patch \in applied : p \in DOMAIN patch
KeptTouched ==
  \A p \in Paths : kept.tree[p] # Base[p] => \E patch \in kept.of : p \in DOMAIN patch

\* A patch that fits the base was rejected over a path of an earlier one.
RejectedOver ==
  /\ rejected.patch # NoPatch
  /\ \A p \in DOMAIN rejected.patch : Fits(Base[p], rejected.patch[p])
  => \E patch \in rejected.after : DOMAIN patch \cap DOMAIN rejected.patch # {}

\* What there is, is files and patches; what was captured is a text of the
\* tree it was captured from.
PatchTypes ==
  /\ IsTree(tree) /\ IsTree(kept.tree)
  /\ \A patch \in applied \cup kept.of \cup rejected.after \cup {rejected.patch} : IsPatch(patch)
  /\ captured = AsText(Diff(Base, kept.tree))

PatchesInv == PatchTypes /\ Touched /\ KeptTouched /\ RejectedOver /\ RecoveryKeeps

\* A fresh worktree.
LEMMA FreshPatches ==
  ASSUME tree = Base, unmerged = {}, captured = NoPatch, kept = NotKept,
         applied = {}, rejected = NotRejected, restored = TRUE
  PROVE  PatchesInv
  BY BaseIsTree, NoPatchFacts
  DEF PatchesInv, PatchTypes, Touched, KeptTouched, RejectedOver, RecoveryKeeps,
      NotKept, NotRejected

LEMMA ApplyKeeps ==
  ASSUME PatchesInv, NEW patch \in WorkerPatches, ApplyPatch(patch),
         UNCHANGED <<captured, kept>>
  PROVE  PatchesInv'
  <1> USE DEF PatchesInv
  <1>1. IsPatch(patch)
    BY WorkersHandPatches
  <1>2. CASE Applies(patch)
    <2>1. /\ tree' = Patched(tree, DOMAIN patch, patch) /\ applied' = applied \cup {patch}
          /\ UNCHANGED <<unmerged, rejected, restored>> /\ Misfits(tree, patch) = {}
          /\ unmerged = {}
      BY <1>2 DEF ApplyPatch, Applies, Taken, UnmergedPaths
    <2>2. /\ IsTree(tree')
          /\ \A p \in Paths : tree'[p] # tree[p] => p \in DOMAIN patch
      BY <1>1, <2>1, PatchedIsTree DEF PatchTypes
    <2>3. PatchTypes'
      BY <1>1, <2>1, <2>2 DEF PatchTypes
    <2>4. Touched'
      BY <2>1, <2>2 DEF Touched
    <2> QED
      BY <2>1, <2>3, <2>4 DEF KeptTouched, RejectedOver, RecoveryKeeps
  <1>3. CASE ~ Applies(patch)
    <2>1. /\ UNCHANGED <<tree, unmerged, applied, restored>>
          /\ rejected' = IF unmerged = {} THEN [patch |-> patch, after |-> applied]
                         ELSE rejected
      BY <1>3 DEF ApplyPatch, UnmergedPaths
    <2>2. PatchTypes'
      BY <1>1, <2>1 DEF PatchTypes
    <2>3. CASE unmerged = {} /\ patch # NoPatch /\ \A p \in DOMAIN patch : Fits(Base[p], patch[p])
      <3>1. PICK p \in DOMAIN patch : ~ Fits(tree[p], patch[p])
        BY <1>3, <2>3 DEF Applies, Taken, Misfits, UnmergedPaths
      <3>2. p \in Paths /\ tree[p] # Base[p]
        BY <1>1, <2>3, <3>1 DEF IsPatch
      <3>3. \E other \in applied : p \in DOMAIN other
        BY <2>3, <3>2 DEF Touched
      <3>4. RejectedOver'
        BY <2>1, <2>3, <3>1, <3>3 DEF RejectedOver
      <3> QED
        BY <2>1, <2>2, <3>4 DEF Touched, KeptTouched, RecoveryKeeps
    <2>4. CASE unmerged = {} /\ ~ (patch # NoPatch /\ \A p \in DOMAIN patch : Fits(Base[p], patch[p]))
      BY <2>1, <2>2, <2>4 DEF Touched, KeptTouched, RejectedOver, RecoveryKeeps
    <2>5. CASE unmerged # {}
      BY <2>1, <2>2, <2>5 DEF Touched, KeptTouched, RejectedOver, RecoveryKeeps
    <2> QED
      BY <2>3, <2>4, <2>5
  <1> QED
    BY <1>2, <1>3

LEMMA ThreeWayKeeps == PatchesInv /\ ApplyThreeWay => PatchesInv'
  <1> SUFFICES ASSUME PatchesInv, ApplyThreeWay PROVE PatchesInv'
    OBVIOUS
  <1> USE DEF PatchesInv
  <1> DEFINE patch == rejected.patch
             paths == DOMAIN patch \ Misfits(tree, patch)
  <1>1. /\ tree' = Patched(tree, paths, patch) /\ unmerged' # {}
        /\ UNCHANGED <<captured, kept, applied, rejected, restored>>
    BY DEF ApplyThreeWay
  <1>2. IsTree(tree')
    BY <1>1, PatchedIsTree DEF PatchTypes
  <1> QED
    BY <1>1, <1>2 DEF PatchTypes, Touched, KeptTouched, RejectedOver, RecoveryKeeps

LEMMA CaptureKeeps == PatchesInv /\ Capture => PatchesInv'
  <1> SUFFICES ASSUME PatchesInv, Capture PROVE PatchesInv'
    OBVIOUS
  <1>1. /\ captured' = AsText(Diff(Base, tree)) /\ kept' = [tree |-> tree, of |-> applied]
        /\ restored' = TRUE /\ unmerged = {}
        /\ UNCHANGED <<tree, unmerged, applied, rejected>>
    BY DEF Capture, StagedDiff, UnmergedPaths
  <1> QED
    BY <1>1 DEF PatchesInv, PatchTypes, Touched, KeptTouched, RejectedOver, RecoveryKeeps

LEMMA RollbackKeeps == PatchesInv /\ Rollback => PatchesInv'
  BY BaseIsTree
  DEF Rollback, PatchesInv, PatchTypes, Touched, KeptTouched, RejectedOver, RecoveryKeeps

LEMMA ReapplyKeeps == PatchesInv /\ Reapply => PatchesInv'
  <1> SUFFICES ASSUME PatchesInv, Reapply PROVE PatchesInv'
    OBVIOUS
  <1> USE DEF PatchesInv
  <1> DEFINE there == Patched(Base, DOMAIN captured, captured)
  <1>1. /\ tree = Base /\ unmerged = {} /\ restored' = (tree' = kept.tree)
        /\ UNCHANGED <<unmerged, captured, kept, rejected>>
        /\ IF Taken(Base, captured) THEN tree' = there /\ applied' = kept.of
           ELSE UNCHANGED <<tree, applied>>
    BY DEF Reapply, Applies, UnmergedPaths
  <1>2. /\ IsPatch(captured)
        /\ \A p : p \in DOMAIN captured <=> p \in Paths /\ Base[p] # kept.tree[p]
    <2>1. IsTree(Base) /\ IsTree(kept.tree) /\ captured = AsText(Diff(Base, kept.tree))
      BY BaseIsTree DEF PatchTypes
    <2> QED
      BY <2>1, DiffIsPatch
  <1>3. RecoveryKeeps'
    <2> SUFFICES ASSUME Plain(Diff(Base, kept.tree)) PROVE restored'
      BY <1>1 DEF RecoveryKeeps
    <2> QED
      BY <1>1, RecaptureRestores DEF PatchTypes
  <1>4. CASE Taken(Base, captured)
    <2>1. /\ IsTree(there)
          /\ \A p \in Paths : there[p] # Base[p] => p \in DOMAIN captured
      BY <1>2, <1>4, BaseIsTree, PatchedIsTree DEF Taken
    <2>2. PatchTypes'
      BY <1>1, <1>4, <2>1 DEF PatchTypes
    <2>3. Touched'
      BY <1>1, <1>2, <1>4, <2>1 DEF Touched, KeptTouched
    <2> QED
      BY <1>1, <1>3, <2>2, <2>3 DEF KeptTouched, RejectedOver
  <1>5. CASE ~ Taken(Base, captured)
    BY <1>1, <1>3, <1>5 DEF PatchTypes, Touched, KeptTouched, RejectedOver
  <1> QED
    BY <1>4, <1>5

LEMMA IntegrateKeeps == PatchesInv /\ Integrate => PatchesInv'
  BY ApplyKeeps, ThreeWayKeeps, CaptureKeeps, RollbackKeeps, ReapplyKeeps DEF Integrate

-----------------------------------------------------------------------------
(* The runs.                                                               *)

\* The outcome holds the text of the tree the attempt made, or no patch; what
\* is graded is a fresh clone of the base, then that tree up to line ends; no
\* verdict is older than the run.
Outcome ==
  /\ IsTree(made)
  /\ outcome.patches \in {{}, {AsText(Diff(Base, made))}}
Grading ==
  /\ DOMAIN clones = {"attempt", "grade"}
  /\ dest \in {"attempt", "grade"}
  /\ dest = "grade" /\ at \in {"remove", "clone"} => outcome.patches # {}
  /\ at = "apply" => outcome.patches # {} /\ clones["grade"] = CloneOf(Base)
  /\ at = "grade" => LFTree(clones["grade"].tree) = LFTree(made)
  /\ at # "idle" => verdict.passed = "none"

EvaluationInv == PatchesInv /\ Outcome /\ Grading /\ GradesStand /\ SandboxesGo

LEMMA InitInv == Init => EvaluationInv
  <1> SUFFICES ASSUME Init PROVE EvaluationInv
    OBVIOUS
  <1>1. PatchesInv
    BY FreshPatches DEF Init, PatchesInit
  <1> QED
    BY <1>1, BaseIsTree
    DEF Init, EvaluationInv, Outcome, Grading, GradesStand, SandboxesGo, NotAttempted,
        Attempted, NotGraded

LEMMA DiscardFresh == Discard => PatchesInv'
  BY FreshPatches, BaseIsTree, NoPatchFacts
  DEF Discard, PatchesInv, PatchTypes, Touched, KeptTouched, RejectedOver, RecoveryKeeps,
      NotKept, NotRejected

LEMMA PatchesUnchanged == PatchesInv /\ UNCHANGED patchVars => PatchesInv'
  BY DEF patchVars, PatchesInv, PatchTypes, Touched, KeptTouched, RejectedOver, RecoveryKeeps

\* What a runtime ends with is the text of the tree it made.
LEMMA ResultsHold ==
  ASSUME PatchesInv, NEW result \in Results
  PROVE  IsTree(result.tree) /\ result.patches \in {{}, {AsText(Diff(Base, result.tree))}}
  <1>1. CASE result = [patches |-> {captured}, tree |-> kept.tree]
    BY <1>1 DEF PatchesInv, PatchTypes
  <1>2. CASE result = [patches |-> {}, tree |-> Base]
    BY <1>2, BaseIsTree
  <1>3. CASE \E e \in Edited : result = [patches |-> {AsText(Diff(Base, e))}, tree |-> e]
    BY <1>3, BaseIsTree
  <1> QED
    BY <1>1, <1>2, <1>3 DEF Results

\* Trees that differ in line ends only are judged alike.
LEMMA SolvesAlike ==
  ASSUME NEW a, NEW b, LFTree(a) = LFTree(b)
  PROVE  Solves(a) = Solves(b)
  BY DEF Solves

LEMMA GradeStands ==
  ASSUME EvaluationInv, Grade
  PROVE  GradesStand'
  <1>1. /\ LFTree(clones["grade"].tree) = LFTree(made) /\ verdict.passed = "none"
        /\ made' = made
    BY DEF Grade, EvaluationInv, Grading
  <1>2. Solves(clones["grade"].tree) = Solves(made)
    BY <1>1, SolvesAlike
  <1>3. \/ \E code \in ExitCodes(clones["grade"].tree) : verdict' = ResultFromExitCode(code)
        \/ verdict' = InfrastructureResult
        \/ verdict' = verdict
    BY DEF Grade
  <1>4. CASE \E code \in ExitCodes(clones["grade"].tree) : verdict' = ResultFromExitCode(code)
    <2>1. PICK code \in {IF Solves(clones["grade"].tree) THEN 0 ELSE 1, 2} :
            verdict' = ResultFromExitCode(code)
      BY <1>4 DEF ExitCodes
    <2>2. CASE code = 2
      BY <2>1, <2>2 DEF GradesStand, ResultFromExitCode, InfrastructureResult
    <2>3. CASE code = 0 /\ Solves(clones["grade"].tree)
      <3>1. Solves(made')
        BY <1>1, <1>2, <2>3
      <3>2. verdict'.passed = "pass"
        BY <2>1, <2>3 DEF ResultFromExitCode, Graded
      <3> QED
        BY <3>1, <3>2 DEF GradesStand, Solves
    <2>4. CASE code = 1 /\ ~ Solves(clones["grade"].tree)
      <3>1. ~ Solves(made')
        BY <1>1, <1>2, <2>4
      <3>2. verdict'.passed = "fail"
        BY <2>1, <2>4 DEF ResultFromExitCode, Graded
      <3> QED
        BY <3>1, <3>2 DEF GradesStand, Solves
    <2> QED
      BY <2>1, <2>2, <2>3, <2>4
  <1>5. CASE verdict' = InfrastructureResult
    BY <1>5 DEF GradesStand, InfrastructureResult
  <1>6. CASE verdict' = verdict
    BY <1>1, <1>6 DEF GradesStand
  <1> QED
    BY <1>3, <1>4, <1>5, <1>6

LEMMA ApplyForGradeKeeps == EvaluationInv /\ ApplyForGrade => EvaluationInv'
  <1> SUFFICES ASSUME EvaluationInv, ApplyForGrade PROVE EvaluationInv'
    OBVIOUS
  <1> USE DEF EvaluationInv
  <1> DEFINE patch == CHOOSE p \in outcome.patches : TRUE
             there == clones["grade"].tree
  <1>1. /\ at = "apply" /\ there = Base /\ patch = AsText(Diff(Base, made))
        /\ IsTree(made) /\ verdict.passed = "none" /\ DOMAIN clones = {"attempt", "grade"}
    BY DEF ApplyForGrade, Outcome, Grading, CloneOf
  <1>2. /\ UNCHANGED <<dest, sandbox, left, outcome, made, patchVars>>
        /\ IF Taken(there, patch)
           THEN /\ clones' = [clones EXCEPT !["grade"] =
                                 CloneOf(Patched(there, DOMAIN patch, patch))]
                /\ at' = "grade"
                /\ UNCHANGED verdict
           ELSE verdict' = InfrastructureResult /\ at' = "idle" /\ UNCHANGED clones
    BY DEF ApplyForGrade
  <1>3. PatchesInv' /\ Outcome' /\ SandboxesGo'
    BY <1>1, <1>2, PatchesUnchanged DEF Outcome, SandboxesGo
  <1>4. CASE Taken(Base, AsText(Diff(Base, made)))
    <2>1. LFTree(Patched(there, DOMAIN patch, patch)) = LFTree(made)
      BY <1>1, <1>4, CaptureKeepsText
    <2>2. /\ clones'["grade"].tree = Patched(there, DOMAIN patch, patch)
          /\ DOMAIN clones' = {"attempt", "grade"} /\ at' = "grade" /\ UNCHANGED verdict
      <3>1. PICK new : /\ new = Patched(there, DOMAIN patch, patch)
                       /\ clones' = [clones EXCEPT !["grade"] = CloneOf(new)]
                       /\ at' = "grade" /\ UNCHANGED verdict
        BY <1>1, <1>2, <1>4
      <3>2. DOMAIN clones' = {"attempt", "grade"} /\ clones'["grade"] = CloneOf(new)
        BY <1>1, <3>1
      <3> QED
        BY <3>1, <3>2 DEF CloneOf
    <2>3. Grading'
      BY <1>1, <1>2, <2>1, <2>2 DEF Grading
    <2>4. GradesStand'
      BY <1>1, <2>2 DEF GradesStand
    <2> QED
      BY <1>3, <2>3, <2>4
  <1>5. CASE ~ Taken(Base, AsText(Diff(Base, made)))
    <2>1. verdict' = InfrastructureResult /\ at' = "idle" /\ UNCHANGED clones
      BY <1>1, <1>2, <1>5
    <2> QED
      BY <1>1, <1>2, <1>3, <2>1 DEF Grading, GradesStand, InfrastructureResult
  <1> QED
    BY <1>4, <1>5

\* The steps from the construction to the sandbox.
LEMMA CloneStepsKeep ==
  ASSUME EvaluationInv,
         Construct \/ Begin \/ RemoveDest \/ RemoveFails \/ GitClone
  PROVE  EvaluationInv'
  <1> USE DEF EvaluationInv
  <1>1. CASE Construct
    BY <1>1, PatchesUnchanged DEF Construct, Outcome, Grading, GradesStand, SandboxesGo
  <1>2. CASE Begin
    BY <1>2, PatchesUnchanged, BaseIsTree
    DEF Begin, Outcome, Grading, GradesStand, SandboxesGo, NotAttempted, Attempted, NotGraded
  <1>3. CASE RemoveDest
    BY <1>3, PatchesUnchanged DEF RemoveDest, Outcome, Grading, GradesStand, SandboxesGo
  <1>4. CASE RemoveFails
    BY <1>4, DiscardFresh DEF RemoveFails, Leave, Outcome, Grading, GradesStand, SandboxesGo
  <1>5. CASE GitClone
    <2>1. CASE /\ clones' = [clones EXCEPT ![dest] = CloneOf(Base)]
               /\ at' = AfterClone
               /\ UNCHANGED patchVars
      <3>1. /\ at = "clone" /\ UNCHANGED <<dest, sandbox, left, outcome, made, verdict>>
            /\ at' = IF dest = "attempt" THEN "create" ELSE "apply"
        BY <1>5, <2>1 DEF GitClone, AfterClone
      <3> QED
        BY <2>1, <3>1, PatchesUnchanged DEF Outcome, Grading, GradesStand, SandboxesGo
    <2>2. CASE Leave /\ UNCHANGED clones
      BY <1>5, <2>2, DiscardFresh
      DEF GitClone, Leave, Outcome, Grading, GradesStand, SandboxesGo
    <2> QED
      BY <1>5, <2>1, <2>2 DEF GitClone
  <1> QED
    BY <1>1, <1>2, <1>3, <1>4, <1>5

\* The executor, from the sandbox to its removal, and the judgement after it.
LEMMA ExecutorKeeps ==
  ASSUME EvaluationInv, CreateSandbox \/ Work \/ Attempt \/ Destroy \/ Judge
  PROVE  EvaluationInv'
  <1> USE DEF EvaluationInv
  <1>1. CASE CreateSandbox
    <2>1. PatchesInv'
      BY <1>1, PatchesUnchanged, DiscardFresh DEF CreateSandbox, Leave
    <2> QED
      BY <1>1, <2>1 DEF CreateSandbox, Leave, Outcome, Grading, GradesStand, SandboxesGo
  <1>2. CASE Work
    BY <1>2, IntegrateKeeps
    DEF Work, runVars, Outcome, Grading, GradesStand, SandboxesGo
  <1>3. CASE Attempt
    <2>1. PatchesInv' /\ UNCHANGED <<clones, dest, sandbox, left, verdict>> /\ at = "run"
      BY <1>3, DiscardFresh DEF Attempt
    <2>2. Outcome' /\ at' \in {"destroy", "raising"}
      <3>1. CASE /\ \E result \in Results, completed \in BOOLEAN :
                       /\ outcome' = Attempted(completed, result.patches)
                       /\ made' = result.tree
                 /\ at' = "destroy"
        BY <3>1, ResultsHold DEF Outcome, Attempted
      <3>2. CASE at' = "raising" /\ UNCHANGED <<outcome, made>>
        BY <3>2 DEF Outcome
      <3> QED
        BY <1>3, <3>1, <3>2 DEF Attempt
    <2> QED
      BY <2>1, <2>2 DEF Grading, GradesStand, SandboxesGo
  <1>4. CASE Destroy
    BY <1>4, PatchesUnchanged DEF Destroy, Outcome, Grading, GradesStand, SandboxesGo
  <1>5. CASE Judge
    BY <1>5, PatchesUnchanged DEF Judge, Outcome, Grading, GradesStand, SandboxesGo
  <1> QED
    BY <1>1, <1>2, <1>3, <1>4, <1>5

\* The grader, and the rest of the world.
LEMMA OthersKeep ==
  ASSUME EvaluationInv, Grade \/ Kill \/ TidyUp \/ Meddle
  PROVE  EvaluationInv'
  <1> USE DEF EvaluationInv
  <1>1. CASE Grade
    BY <1>1, GradeStands, PatchesUnchanged DEF Grade, Outcome, Grading, SandboxesGo
  <1>2. CASE Kill
    BY <1>2, DiscardFresh DEF Kill, Leave, Outcome, Grading, GradesStand, SandboxesGo
  <1>3. CASE TidyUp
    BY <1>3, PatchesUnchanged DEF TidyUp, Outcome, Grading, GradesStand, SandboxesGo
  <1>4. CASE Meddle
    BY <1>4, PatchesUnchanged DEF Meddle, Outcome, Grading, GradesStand, SandboxesGo
  <1> QED
    BY <1>1, <1>2, <1>3, <1>4

LEMMA Inductive == Spec => []EvaluationInv
  <1>1. EvaluationInv /\ [Next]_vars => EvaluationInv'
    <2> SUFFICES ASSUME EvaluationInv, [Next]_vars PROVE EvaluationInv'
      OBVIOUS
    <2>1. CASE UNCHANGED vars
      BY <2>1, PatchesUnchanged
      DEF vars, runVars, EvaluationInv, Outcome, Grading, GradesStand, SandboxesGo
    <2> QED
      BY <2>1, CloneStepsKeep, ExecutorKeeps, ApplyForGradeKeeps, OthersKeep DEF Next
  <1> QED
    BY <1>1, InitInv, PTL DEF Spec

-----------------------------------------------------------------------------
(* Results.                                                                *)

\* A verdict is the grader's own on the tree the attempt made, however many
\* runs, kills and strangers came before (fresh_clone, CommandGrader): it is
\* made on a clone that held the base and nothing else before the patch.
THEOREM VerdictsStand == Spec => []GradesStand
  <1>1. EvaluationInv => GradesStand
    BY DEF EvaluationInv
  <1> QED
    BY <1>1, Inductive, PTL

\* write_task_executor: no worktree stays unless a destroy failed or the
\* process was killed.
THEOREM SandboxesAreGone == Spec => []SandboxesGo
  <1>1. EvaluationInv => SandboxesGo
    BY DEF EvaluationInv
  <1> QED
    BY <1>1, Inductive, PTL

\* integration.py:308 for files with LF ends: a captured diff applies to the
\* rolled back worktree and gives the tree it was captured from.
THEOREM RecoveryHolds == Spec => []RecoveryKeeps
  <1>1. EvaluationInv => RecoveryKeeps
    BY DEF EvaluationInv, PatchesInv
  <1> QED
    BY <1>1, Inductive, PTL

\* detect_overlaps: a patch that fits the base and is rejected after others
\* shares a path with one of them in their headers, when git wrote headers for
\* all they change.
THEOREM ConflictsOverlap == Spec => []OverlapsSeen
  <1>1. EvaluationInv => OverlapsSeen
    <2> SUFFICES ASSUME EvaluationInv, rejected.patch # NoPatch,
                        \A p \in DOMAIN rejected.patch : Fits(Base[p], rejected.patch[p]),
                        \A patch \in rejected.after \cup {rejected.patch} :
                           \A p \in DOMAIN patch : ~ Bare(patch, p)
                 PROVE  \E patch \in rejected.after :
                           ChangedPaths(patch) \cap ChangedPaths(rejected.patch) # {}
      BY DEF OverlapsSeen
    <2>1. PICK patch \in rejected.after, p \in DOMAIN rejected.patch : p \in DOMAIN patch
      BY DEF EvaluationInv, PatchesInv, RejectedOver
    <2>2. IsPatch(patch) /\ IsPatch(rejected.patch)
      BY DEF EvaluationInv, PatchesInv, PatchTypes
    <2>3. p \in ChangedPaths(patch) /\ p \in ChangedPaths(rejected.patch)
      BY <2>1, <2>2, ShownIsSeen
    <2> QED
      BY <2>3
  <1> QED
    BY <1>1, Inductive, PTL
=============================================================================
