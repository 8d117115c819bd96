-------------------------------- MODULE Patches --------------------------------
(***************************************************************************)
(* Patches on their way (workflows/integration.py): a patch is applied to  *)
(* a worktree and its index, what is staged is captured as a text, the     *)
(* paths of a text are read off its headers, and after a conflict the      *)
(* captured text is applied again to the rolled back worktree.             *)
(*                                                                         *)
(* git is external and modelled as these functions use it.  The order of   *)
(* the calls (integrate_patches) and the rollback are not implemented in   *)
(* the repository: any order is possible.                                  *)
(***************************************************************************)
EXTENDS Naturals, FiniteSets

CONSTANTS
    Paths,       \* the paths of files
    Base,        \* the tree at the base revision
    Edited,      \* the trees workers make of it
    MaxPatches   \* bound on the patches applied between two rollbacks

(***************************************************************************)
(* Files.  A text has two places that can be edited apart, and is written  *)
(* with LF, with CRLF, or in bytes that are no UTF-8.                      *)
(***************************************************************************)
Absent == [is |-> "absent"]
Empty == [is |-> "empty"]
Text(top, bottom, form) == [is |-> "text", at |-> <<top, bottom>>, form |-> form]

IsFile(c) ==
    \/ c \in {Absent, Empty}
    \/ /\ c.form \in {"lf", "crlf", "bytes"}
       /\ c = Text(c.at[1], c.at[2], c.form)
IsTree(content) ==
    /\ content = [p \in Paths |-> content[p]]
    /\ \A p \in Paths : IsFile(content[p])

ASSUME PatchesAssumption == \A content \in Edited \cup {Base} : IsTree(content)

\* A diff holds, for every path that differs, what was there and what is now.
Diff(old, new) ==
    [p \in {p \in Paths : old[p] # new[p]} |-> [old |-> old[p], new |-> new[p]]]

\* Read as text: subprocess turns CRLF into LF, and raises on what is no UTF-8.
LF(c) == IF c.is = "text" THEN [c EXCEPT !.form = "lf"] ELSE c
IsBytes(c) == c.is = "text" /\ c.form = "bytes"
Undecodable(patch) ==
    \E p \in DOMAIN patch : IsBytes(patch[p].old) \/ IsBytes(patch[p].new)
AsText(patch) ==
    [p \in DOMAIN patch |-> [old |-> LF(patch[p].old), new |-> LF(patch[p].new)]]

(***************************************************************************)
(* The headers of a diff.  git writes none for a file it creates or        *)
(* deletes empty, and none for one it finds under another name.            *)
(***************************************************************************)
Moved(patch, p, q) ==
    /\ {p, q} \subseteq DOMAIN patch
    /\ patch[p].new = Absent /\ patch[q].old = Absent
    /\ patch[p].old = patch[q].new

Bare(patch, p) ==
    \/ {patch[p].old, patch[p].new} = {Absent, Empty}
    \/ \E q \in DOMAIN patch : Moved(patch, p, q) \/ Moved(patch, q, p)

\* The --- and +++ lines of a patch.
Headers(patch) ==
    LET shown == {p \in DOMAIN patch : ~ Bare(patch, p)}
    IN {<<"--- a/", p>> : p \in {q \in shown : patch[q].old # Absent}}
       \cup {<<"+++ b/", p>> : p \in {q \in shown : patch[q].new # Absent}}

\* A faulty reader for the mutant check: what is deleted is not seen.
ChangedPathsAdded(patch) == {line[2] : line \in {l \in Headers(patch) : l[1] = "+++ b/"}}

ChangedPaths(patch) == {line[2] : line \in Headers(patch)}

(***************************************************************************)
(* git apply.  An edit needs the places it changes as they were, in a file *)
(* with the same line ends; anything else needs the whole file as it was.  *)
(***************************************************************************)
Edits(change) ==
    change.old.is = "text" /\ change.new.is = "text" /\ change.old.form = change.new.form

Fits(c, change) ==
    IF Edits(change)
    THEN /\ c.is = "text" /\ c.form = change.old.form
         /\ \A i \in 1 .. 2 :
               change.old.at[i] # change.new.at[i] => c.at[i] = change.old.at[i]
    ELSE c = change.old

Edit(c, change) ==
    LET Place(i) == IF change.old.at[i] # change.new.at[i] THEN change.new.at[i] ELSE c.at[i]
    IN IF Edits(change) THEN Text(Place(1), Place(2), c.form) ELSE change.new

VARIABLES
    tree,       \* the index of the integration worktree, and its files
    unmerged,   \* the paths its index holds unmerged
    captured,   \* the integrated diff captured last
    kept,       \* history: the tree it was captured from, and what that was made of
    applied,    \* history: the patches applied since the last rollback
    rejected,   \* history: a patch that did not apply, and those before it
    restored    \* history: did the last reapplication give the captured tree

patchVars == <<tree, unmerged, captured, kept, applied, rejected, restored>>

NoPatch == Diff(Base, Base)
NotKept == [tree |-> Base, of |-> {}]
NotRejected == [patch |-> NoPatch, after |-> {}]

PatchesInit ==
    /\ tree = Base
    /\ unmerged = {}
    /\ captured = NoPatch
    /\ kept = NotKept
    /\ applied = {}
    /\ rejected = NotRejected
    /\ restored = TRUE

\* The patches workers hand in, as they were or read as text.
WorkerPatches ==
    LET exact == {Diff(Base, edited) : edited \in Edited}
    IN exact \cup {AsText(patch) : patch \in {p \in exact : ~ Undecodable(p)}}

\* What of a patch does not fit a tree, and the tree with some of it applied.
Misfits(on, patch) == {p \in DOMAIN patch : ~ Fits(on[p], patch[p])}
Taken(on, patch) == patch # NoPatch /\ Misfits(on, patch) = {}
Patched(on, paths, patch) ==
    [p \in Paths |-> IF p \in paths THEN Edit(on[p], patch[p]) ELSE on[p]]

\* git diff --name-only --diff-filter=U
UnmergedPaths == unmerged

\* git apply --index takes all of a patch or nothing, and nothing at all while
\* paths are unmerged.  It refuses an empty input.
Applies(patch) == UnmergedPaths = {} /\ Taken(tree, patch)

ApplyPatch(patch) ==
    IF Applies(patch)
    THEN /\ tree' = Patched(tree, DOMAIN patch, patch)
         /\ applied' = applied \cup {patch}
         /\ UNCHANGED <<unmerged, rejected, restored>>
    ELSE /\ rejected' = IF UnmergedPaths = {} THEN [patch |-> patch, after |-> applied]
                        ELSE rejected
         /\ UNCHANGED <<tree, unmerged, applied, restored>>

\* The patch that was rejected last, again, with --3way: what fits is applied,
\* the rest is left unmerged.
ApplyThreeWay ==
    LET patch == rejected.patch
    IN /\ UnmergedPaths = {} /\ Misfits(tree, patch) # {}
       /\ tree' = Patched(tree, DOMAIN patch \ Misfits(tree, patch), patch)
       /\ unmerged' = Misfits(tree, patch)
       /\ UNCHANGED <<captured, kept, applied, rejected, restored>>

\* A faulty capture for the mutant check: what is staged is left out.
StagedDiffUnstaged == NoPatch

StagedDiff == AsText(Diff(Base, tree))

Capture ==
    /\ UnmergedPaths = {}
    /\ ~ Undecodable(Diff(Base, tree))
    /\ captured' = StagedDiff
    /\ kept' = [tree |-> tree, of |-> applied]
    /\ restored' = TRUE
    /\ UNCHANGED <<tree, unmerged, applied, rejected>>

\* SandboxManager.rollback: a hard reset.
Rollback ==
    /\ tree' = Base
    /\ unmerged' = {}
    /\ applied' = {}
    /\ restored' = TRUE
    /\ UNCHANGED <<captured, kept, rejected>>

\* After a rollback the captured diff is applied again.
Reapply ==
    /\ tree = Base /\ UnmergedPaths = {}
    /\ IF Applies(captured)
       THEN tree' = Patched(tree, DOMAIN captured, captured) /\ applied' = kept.of
       ELSE UNCHANGED <<tree, applied>>
    /\ restored' = (tree' = kept.tree)
    /\ UNCHANGED <<unmerged, captured, kept, rejected>>

Integrate ==
    \/ /\ Cardinality(applied) < MaxPatches
       /\ \E patch \in WorkerPatches : ApplyPatch(patch)
       /\ UNCHANGED <<captured, kept>>
    \/ ApplyThreeWay \/ Capture \/ Rollback \/ Reapply

(***************************************************************************)
(* Properties                                                              *)
(***************************************************************************)
\* Text as the harness's own tools write it.
Plain(patch) ==
    \A p \in DOMAIN patch :
        patch[p].old = LF(patch[p].old) /\ patch[p].new = LF(patch[p].new)

\* integration.py:308, "a later conflict must not lose the patches already
\* applied": what was captured before a conflict and is applied again after
\* the rollback gives the tree it was captured from - for files with LF ends.
RecoveryKeeps == Plain(Diff(Base, kept.tree)) => restored

\* The same, whatever the files: the line above says so, the code does not.
RecoveryKeepsAll == restored

\* A patch that fits the base and is rejected after others shares a path with
\* one of them, read off their headers (changed_paths, detect_overlaps): no
\* conflict comes without an overlap - unless git writes no header for it.
OverlapsSeen ==
    LET Shown(patch) == \A p \in DOMAIN patch : ~ Bare(patch, p)
    IN (/\ rejected.patch # NoPatch
        /\ \A p \in DOMAIN rejected.patch : Fits(Base[p], rejected.patch[p])
        /\ \A patch \in rejected.after \cup {rejected.patch} : Shown(patch))
       => \E patch \in rejected.after :
             ChangedPaths(patch) \cap ChangedPaths(rejected.patch) # {}
=============================================================================
