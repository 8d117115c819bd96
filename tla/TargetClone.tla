---------------------------- MODULE TargetClone ----------------------------
(***************************************************************************)
(* coursectl and the target clones it manages under workspace/: package    *)
(* target (target.go) driven by the setup, reset and start-lab commands    *)
(* (cli.go).  Every external command coursectl runs (git, go test) and     *)
(* every directory it reads or renames is one step, so that several        *)
(* coursectl processes, the student and upstream interleave between them.  *)
(*                                                                         *)
(* A step that may fail has two forms: its own action, which takes the     *)
(* code's branches, and Interrupt, which stands for the command failing or *)
(* being killed (Ctrl-C cancels the context, main.go) with whatever it had *)
(* already done.                                                           *)
(***************************************************************************)
EXTENDS Checkpoints

CONSTANTS
  Procs,       \* coursectl processes
  Commands,    \* the commands they run: "setup", "reset", "start-lab"
  Labs,        \* lab manifests: [repository, revision]
  Items,       \* the student's files: [repo, sub, id]
  Trees,       \* names of linked worktrees
  MaxClock,    \* bound: seconds the clock counts
  MaxFaults,   \* bound: commands that fail or are killed
  MaxStudent   \* bound: student changes other than writing an item

Subs == {"reports", "traces"}        \* what reset and start-lab archive
Debris == {"edits", "untracked", "ignored"}
NoRev == "unborn"                    \* HEAD of a clone without a commit

ASSUME CloneAssumption ==
  /\ Commands \subseteq {"setup", "reset", "start-lab"}
  /\ Labs \subseteq [repository : Repos, revision : Revs]
  /\ Items \subseteq [repo : Repos, sub : Subs, id : Nat]
  /\ NoRev \notin Revs
  /\ MaxClock \in Nat /\ MaxFaults \in Nat /\ MaxStudent \in Nat

VARIABLES
  \* the clone of each repository
  present,     \* has a .git entry (Exists)
  head,        \* the commit HEAD resolves to
  objects,     \* the commits available locally
  lock,        \* a stale .git/index.lock is there
  dirt,        \* kinds of files that differ from the commit
  trees,       \* linked worktrees
  \* upstream, and the clock that stamps archives
  remote, clock,
  \* the student's reports and traces
  at,          \* where each item is
  stamp,       \* the second its archive directory is named after
  \* each coursectl process
  pc, cmd, repo, rev, sub, now, todo, wts, result,
  \* history: what others did to the clones while a process ran
  fresh,       \* items written since its command began
  meddled,     \* "no"; "early" before, or "late" after, it verified HEAD
  \* the bounds' counters
  faults, moves

cloneVars == <<present, head, objects, lock, dirt, trees>>
workVars  == <<at, stamp>>
envVars   == <<remote, clock, moves>>
jobVars   == <<cmd, repo, rev, todo>>
vars == <<cloneVars, workVars, envVars, jobVars, pc, sub, now, wts, result,
          fresh, meddled, faults>>

Steps == {"archive", "rename", "restore", "list", "remove", "has", "fetch",
          "refetched", "checkout", "hard", "clean", "verify", "health",
          "clone", "gitclone"}

Running(p) == pc[p] # "idle"
Linked == {"none", "linked", "locked"}

TypeOK ==
  /\ present \in [Repos -> BOOLEAN]
  /\ head \in [Repos -> Revs \cup {NoRev}]
  /\ objects \in [Repos -> SUBSET Revs]
  /\ lock \in [Repos -> BOOLEAN]
  /\ dirt \in [Repos -> SUBSET Debris]
  /\ trees \in [Repos -> [Trees -> Linked]]
  /\ remote \in [Repos -> SUBSET Revs]
  /\ clock \in 0..MaxClock
  /\ at \in [Items -> {"unwritten", "clone", "archive", "lost", "discarded"}]
  /\ stamp \in [Items -> 0..MaxClock]
  /\ pc \in [Procs -> Steps \cup {"idle"}]
  /\ cmd \in [Procs -> {"setup", "reset", "start-lab"}]
  /\ repo \in [Procs -> Repos]
  /\ rev \in [Procs -> Revs]
  /\ sub \in [Procs -> Subs]
  /\ now \in [Procs -> 0..MaxClock]
  /\ todo \in [Procs -> SUBSET Named]
  /\ wts \in [Procs -> SUBSET Trees]
  /\ result \in [Procs -> {"none", "ok", "error"}]
  /\ fresh \in [Procs -> SUBSET Items]
  /\ meddled \in [Procs -> {"no", "early", "late"}]
  /\ faults \in 0..MaxFaults
  /\ moves \in 0..MaxStudent

\* Before setup: no clone, nothing archived, upstream has some commit.
Init ==
  /\ present = [r \in Repos |-> FALSE]
  /\ head = [r \in Repos |-> NoRev]
  /\ objects = [r \in Repos |-> {}]
  /\ lock = [r \in Repos |-> FALSE]
  /\ dirt = [r \in Repos |-> {}]
  /\ trees = [r \in Repos |-> [t \in Trees |-> "none"]]
  /\ remote \in [Repos -> (SUBSET Revs) \ {{}}]
  /\ clock = 0
  /\ at = [i \in Items |-> "unwritten"]
  /\ stamp = [i \in Items |-> 0]
  /\ pc = [p \in Procs |-> "idle"]
  /\ cmd = [p \in Procs |-> "setup"]
  /\ repo = [p \in Procs |-> CHOOSE r \in Repos : TRUE]
  /\ rev = [p \in Procs |-> CHOOSE v \in Revs : TRUE]
  /\ sub = [p \in Procs |-> "reports"]
  /\ now = [p \in Procs |-> 0]
  /\ todo = [p \in Procs |-> {}]
  /\ wts = [p \in Procs |-> {}]
  /\ result = [p \in Procs |-> "none"]
  /\ fresh = [p \in Procs |-> {}]
  /\ meddled = [p \in Procs |-> "no"]
  /\ faults = 0 /\ moves = 0

\* The items inside a clone's reports/ or traces/.
Contents(r, s) == {i \in Items : at[i] = "clone" /\ i.repo = r /\ i.sub = s}
InClone(r) == {i \in Items : at[i] = "clone" /\ i.repo = r}
\* Faulty variant: a rename into an existing archive directory succeeds.
MergesArchives(r, s, n) == FALSE

\* An archive directory of that name already holds something.
Occupied(r, s, n) ==
  \E i \in Items : at[i] = "archive" /\ i.repo = r /\ i.sub = s /\ stamp[i] = n

-----------------------------------------------------------------------------
(* Control flow of one process.                                            *)

Goto(p, step) == pc' = [pc EXCEPT ![p] = step]
Continue(p, step) == Goto(p, step) /\ UNCHANGED result
Finish(p, res) == Goto(p, "idle") /\ result' = [result EXCEPT ![p] = res]

\* What a process does to a clone is meddling to every other process.
Meddles(p) ==
  meddled' = [q \in Procs |-> IF q = p THEN meddled[q] ELSE "late"]

\* A command begins: its history starts afresh.
Begin(p, c, r, v, rest, step, res) ==
  /\ c \in Commands
  /\ pc[p] = "idle"
  /\ cmd' = [cmd EXCEPT ![p] = c]
  /\ repo' = [repo EXCEPT ![p] = r]
  /\ rev' = [rev EXCEPT ![p] = v]
  /\ todo' = [todo EXCEPT ![p] = rest]
  /\ sub' = [sub EXCEPT ![p] = "reports"]
  /\ wts' = [wts EXCEPT ![p] = {}]
  /\ now' = [now EXCEPT ![p] = 0]
  /\ fresh' = [fresh EXCEPT ![p] = {}]
  /\ meddled' = [meddled EXCEPT ![p] = "no"]
  /\ pc' = [pc EXCEPT ![p] = step]
  /\ result' = [result EXCEPT ![p] = res]
  /\ UNCHANGED <<cloneVars, workVars, envVars, faults>>

\* Faulty variant: the destructive steps come first, the capture is skipped.
ResetWithoutArchive(p) ==
  \E m \in Modules :
    LET c == ModuleCheckpoint(m)
    IN  Begin(p, "reset", c.repository, c.revision, {},
              IF present[c.repository] THEN "list" ELSE "idle",
              IF present[c.repository] THEN "none" ELSE "error")

\* coursectl reset --module m: the module must be in the map and its clone
\* must exist.
BeginReset(p) ==
  \E m \in Modules :
    LET r == ModuleCheckpoint(m).repository
        v == ModuleCheckpoint(m).revision
    IN  IF present[r]
        THEN Begin(p, "reset", r, v, {}, "archive", "none")
        ELSE Begin(p, "reset", r, v, {}, "idle", "error")

\* coursectl start-lab: a missing clone is cloned, one that is there is
\* archived and restored.
BeginLab(p) ==
  \E l \in Labs :
    Begin(p, "start-lab", l.repository, l.revision, {},
          IF present[l.repository] THEN "archive" ELSE "clone", "none")

\* coursectl setup: the repositories of the map one by one, by name.
BeginSetup(p) ==
  LET r == FirstByName(Named)
  IN  Begin(p, "setup", r, PinnedRevision(r), Named \ {r}, "clone", "none")

-----------------------------------------------------------------------------
(* Archive: reports first, then traces.                                    *)

\* Faulty variant: only the reports are archived.
AfterReports(p) ==
  Continue(p, IF cmd[p] = "reset" THEN "list" ELSE "restore") /\ UNCHANGED sub

AfterArchive(p) ==
  IF sub[p] = "reports"
  THEN Continue(p, "archive") /\ sub' = [sub EXCEPT ![p] = "traces"]
  ELSE /\ Continue(p, IF cmd[p] = "reset" THEN "list" ELSE "restore")
       /\ UNCHANGED sub

\* The directory is read and, when it has entries, the destination is named
\* after the current second.
ArchiveRead(p) ==
  /\ pc[p] = "archive"
  /\ IF Contents(repo[p], sub[p]) = {}
     THEN AfterArchive(p) /\ UNCHANGED now
     ELSE /\ Continue(p, "rename")
          /\ now' = [now EXCEPT ![p] = clock]
          /\ UNCHANGED sub
  /\ UNCHANGED <<cloneVars, workVars, envVars, jobVars, wts, fresh, meddled,
                 faults>>

\* Faulty variant: a failed rename is ignored.
ArchiveBestEffort(p) ==
  /\ pc[p] = "rename"
  /\ LET S == Contents(repo[p], sub[p])
         moved == IF Occupied(repo[p], sub[p], now[p]) THEN {} ELSE S
     IN  /\ at' = [i \in Items |-> IF i \in moved THEN "archive" ELSE at[i]]
         /\ stamp' = [i \in Items |-> IF i \in moved THEN now[p] ELSE stamp[i]]
  /\ AfterArchive(p)
  /\ now' = [now EXCEPT ![p] = 0]
  /\ UNCHANGED <<cloneVars, envVars, jobVars, wts, fresh, meddled, faults>>

\* os.Rename moves the directory as it is by now; it fails when it is gone
\* or when the destination already holds an earlier archive.
ArchiveMove(p) ==
  /\ pc[p] = "rename"
  /\ LET S == Contents(repo[p], sub[p])
     IN  IF S = {} \/ Occupied(repo[p], sub[p], now[p])
         THEN Finish(p, "error") /\ UNCHANGED <<workVars, sub>>
         ELSE /\ at' = [i \in Items |-> IF i \in S THEN "archive" ELSE at[i]]
              /\ stamp' = [i \in Items |-> IF i \in S THEN now[p] ELSE stamp[i]]
              /\ AfterArchive(p)
  /\ now' = [now EXCEPT ![p] = 0]
  /\ UNCHANGED <<cloneVars, envVars, jobVars, wts, fresh, meddled, faults>>

-----------------------------------------------------------------------------
(* Worktrees (reset only).                                                 *)

\* Faulty variant: the main worktree's line is not skipped.
ListsMainWorktree(p) ==
  /\ pc[p] = "list"
  /\ present[repo[p]]
  /\ Continue(p, "remove")
  /\ wts' = [wts EXCEPT ![p] = {"main"}
                \cup {t \in Trees : trees[repo[p]][t] # "none"}]
  /\ UNCHANGED <<cloneVars, workVars, envVars, jobVars, sub, now, fresh,
                 meddled, faults>>

\* git worktree list: every linked worktree of the clone.
WorktreeList(p) ==
  /\ pc[p] = "list"
  /\ IF present[repo[p]]
     THEN /\ Continue(p, "remove")
          /\ wts' = [wts EXCEPT ![p] = {t \in Trees : trees[repo[p]][t] # "none"}]
     ELSE Finish(p, "error") /\ UNCHANGED wts
  /\ UNCHANGED <<cloneVars, workVars, envVars, jobVars, sub, now, fresh,
                 meddled, faults>>

\* git worktree remove --force, one listed worktree at a time.  It fails for
\* a locked worktree and for one that is no longer registered.
WorktreeRemove(p) ==
  /\ pc[p] = "remove"
  /\ \E t \in wts[p] :
       IF present[repo[p]] /\ trees[repo[p]][t] = "linked"
       THEN /\ trees' = [trees EXCEPT ![repo[p]][t] = "none"]
            /\ wts' = [wts EXCEPT ![p] = @ \ {t}]
            /\ Meddles(p)
            /\ UNCHANGED <<pc, result>>
       ELSE Finish(p, "error") /\ UNCHANGED <<trees, wts, meddled>>
  /\ UNCHANGED <<present, head, objects, lock, dirt, workVars, envVars,
                 jobVars, sub, now, fresh, faults>>

\* Faulty variant: the loop over the worktrees stops early.
PruneOnly(p) ==
  /\ pc[p] = "remove"
  /\ IF present[repo[p]] THEN Continue(p, "has") ELSE Finish(p, "error")
  /\ UNCHANGED <<cloneVars, workVars, envVars, jobVars, sub, now, wts, fresh,
                 meddled, faults>>

\* All listed worktrees are gone: git worktree prune, which changes nothing
\* that is still linked.
WorktreePrune(p) ==
  /\ pc[p] = "remove"
  /\ wts[p] = {}
  /\ IF present[repo[p]] THEN Continue(p, "has") ELSE Finish(p, "error")
  /\ UNCHANGED <<cloneVars, workVars, envVars, jobVars, sub, now, wts, fresh,
                 meddled, faults>>

-----------------------------------------------------------------------------
(* checkoutRevision, shared by Clone, Restore and Reset.                   *)

\* Faulty variant: a clone whose HEAD is at the revision is left alone.
RestoreIfMoved(p) ==
  /\ pc[p] = "restore"
  /\ IF head[repo[p]] = rev[p] THEN Finish(p, "ok") ELSE Continue(p, "has")
  /\ UNCHANGED <<cloneVars, workVars, envVars, jobVars, sub, now, wts, fresh,
                 meddled, faults>>

\* Restore (start-lab) looks at the clone again before checking out.
Restore(p) ==
  /\ pc[p] = "restore"
  /\ IF present[repo[p]] THEN Continue(p, "has") ELSE Finish(p, "error")
  /\ UNCHANGED <<cloneVars, workVars, envVars, jobVars, sub, now, wts, fresh,
                 meddled, faults>>

Local(p) == present[repo[p]] /\ rev[p] \in objects[repo[p]]

\* Faulty variant: a revision that is not local is an error.
NeverFetches(p) ==
  /\ pc[p] = "has"
  /\ IF Local(p) THEN Continue(p, "checkout") ELSE Finish(p, "error")
  /\ UNCHANGED <<cloneVars, workVars, envVars, jobVars, sub, now, wts, fresh,
                 meddled, faults>>

\* hasCommit: no fetch when the revision is local.
HasCommit(p) ==
  /\ pc[p] = "has"
  /\ Continue(p, IF Local(p) THEN "checkout" ELSE "fetch")
  /\ UNCHANGED <<cloneVars, workVars, envVars, jobVars, sub, now, wts, fresh,
                 meddled, faults>>

\* git fetch brings what upstream has.
Fetch(p) ==
  /\ pc[p] = "fetch"
  /\ present[repo[p]]
  /\ Continue(p, "refetched")
  /\ objects' = [objects EXCEPT ![repo[p]] = @ \cup remote[repo[p]]]
  /\ UNCHANGED <<present, head, lock, dirt, trees, workVars, envVars, jobVars,
                 sub, now, wts, fresh, meddled, faults>>

\* The network is down, or the clone is gone: tolerated for now.
FetchFails(p) ==
  /\ pc[p] = "fetch"
  /\ IF present[repo[p]]
     THEN faults < MaxFaults /\ faults' = faults + 1
     ELSE UNCHANGED faults
  /\ Continue(p, "refetched")
  /\ UNCHANGED <<cloneVars, workVars, envVars, jobVars, sub, now, wts, fresh,
                 meddled>>

\* hasCommit after the fetch, whether it failed or not: fatal if still missing.
Recheck(p) ==
  /\ pc[p] = "refetched"
  /\ IF Local(p) THEN Continue(p, "checkout") ELSE Finish(p, "error")
  /\ UNCHANGED <<cloneVars, workVars, envVars, jobVars, sub, now, wts, fresh,
                 meddled, faults>>

\* git checkout --force --detach and git reset --hard: both move HEAD to the
\* revision and restore tracked files; a stale index.lock stops them.
ToRevision(p, step) ==
  /\ IF Local(p) /\ ~lock[repo[p]]
     THEN /\ Continue(p, step)
          /\ head' = [head EXCEPT ![repo[p]] = rev[p]]
          /\ dirt' = [dirt EXCEPT ![repo[p]] = @ \ {"edits"}]
          /\ Meddles(p)
     ELSE Finish(p, "error") /\ UNCHANGED <<head, dirt, meddled>>
  /\ UNCHANGED <<present, objects, lock, trees, workVars, envVars, jobVars,
                 sub, now, wts, fresh, faults>>

Checkout(p) == pc[p] = "checkout" /\ ToRevision(p, "hard")
HardReset(p) == pc[p] = "hard" /\ ToRevision(p, "clean")

\* What follows a successful checkoutRevision, or a clone that was there
\* already: reset verifies, start-lab is done, setup goes on to the next
\* repository.
NextRepository(p) ==
  LET r == FirstByName(todo[p])
  IN  /\ Continue(p, "clone")
      /\ repo' = [repo EXCEPT ![p] = r]
      /\ rev' = [rev EXCEPT ![p] = PinnedRevision(r)]
      /\ todo' = [todo EXCEPT ![p] = @ \ {r}]
      /\ UNCHANGED cmd

\* Faulty variant: setup returns after its first repository.
FirstRepositoryReady(p) ==
  /\ IF cmd[p] = "reset" THEN Continue(p, "verify") ELSE Finish(p, "ok")
  /\ UNCHANGED jobVars

RevisionReady(p) ==
  IF cmd[p] = "reset"
  THEN Continue(p, "verify") /\ UNCHANGED jobVars
  ELSE IF todo[p] # {} THEN NextRepository(p)
       ELSE Finish(p, "ok") /\ UNCHANGED jobVars

\* git clean --force -d: untracked files go, reports and traces with them;
\* ignored files stay.
Clean(p) ==
  /\ pc[p] = "clean"
  /\ IF present[repo[p]]
     THEN /\ RevisionReady(p)
          /\ dirt' = [dirt EXCEPT ![repo[p]] = @ \ {"untracked"}]
          /\ at' = [i \in Items |-> IF i \in InClone(repo[p]) THEN "lost"
                                   ELSE at[i]]
          /\ Meddles(p)
     ELSE Finish(p, "error") /\ UNCHANGED <<jobVars, dirt, at, meddled>>
  /\ UNCHANGED <<present, head, objects, lock, trees, stamp, envVars, sub, now,
                 wts, fresh, faults>>

-----------------------------------------------------------------------------
(* The end of reset, and Clone.                                            *)

\* Faulty variant: HEAD is logged, not compared.
VerifyLogsOnly(p) ==
  /\ pc[p] = "verify"
  /\ Continue(p, "health")
  /\ meddled' = [meddled EXCEPT ![p] = IF @ = "no" THEN "no" ELSE "early"]
  /\ UNCHANGED <<cloneVars, workVars, envVars, jobVars, sub, now, wts, fresh,
                 faults>>

\* Step 7, git rev-parse HEAD: the comparison that makes earlier meddling
\* irrelevant.
Verify(p) ==
  /\ pc[p] = "verify"
  /\ IF present[repo[p]] /\ head[repo[p]] = rev[p]
     THEN Continue(p, "health")
     ELSE Finish(p, "error")
  /\ meddled' = [meddled EXCEPT ![p] = IF @ = "no" THEN "no" ELSE "early"]
  /\ UNCHANGED <<cloneVars, workVars, envVars, jobVars, sub, now, wts, fresh,
                 faults>>

\* Step 8: go test ./... passes (Interrupt: it fails).
HealthCheck(p) ==
  /\ pc[p] = "health"
  /\ Finish(p, IF present[repo[p]] THEN "ok" ELSE "error")
  /\ UNCHANGED <<cloneVars, workVars, envVars, jobVars, sub, now, wts, fresh,
                 meddled, faults>>

\* Clone leaves a clone that is there as it is.
CloneCheck(p) ==
  /\ pc[p] = "clone"
  /\ IF present[repo[p]]
     THEN RevisionReady(p)
     ELSE Continue(p, "gitclone") /\ UNCHANGED jobVars
  /\ UNCHANGED <<cloneVars, workVars, envVars, sub, now, wts, fresh, meddled,
                 faults>>

\* git clone: refused when the directory has been filled meanwhile, else HEAD
\* is the tip of upstream's default branch.
GitClone(p) ==
  /\ pc[p] = "gitclone"
  /\ LET r == repo[p]
     IN  IF present[r]
         THEN Finish(p, "error") /\ UNCHANGED <<cloneVars, meddled>>
         ELSE \E tip \in remote[r] :
                /\ Continue(p, "has")
                /\ present' = [present EXCEPT ![r] = TRUE]
                /\ objects' = [objects EXCEPT ![r] = remote[r]]
                /\ head' = [head EXCEPT ![r] = tip]
                /\ Meddles(p)
                /\ UNCHANGED <<lock, dirt, trees>>
  /\ UNCHANGED <<workVars, envVars, jobVars, sub, now, wts, fresh, faults>>

-----------------------------------------------------------------------------
(* Failures and kills.                                                     *)

\* git clone stopped halfway: a .git entry is there, with or without the
\* commits and a HEAD.
HalfCloned(p) ==
  LET r == repo[p]
  IN  /\ pc[p] = "gitclone" /\ ~present[r]
      /\ \E got \in {{}, remote[r]} : \E h \in got \cup {NoRev} :
           /\ present' = [present EXCEPT ![r] = TRUE]
           /\ objects' = [objects EXCEPT ![r] = got]
           /\ head' = [head EXCEPT ![r] = h]
      /\ dirt' = [dirt EXCEPT ![r] = {"edits"}]
      /\ UNCHANGED <<lock, trees, workVars>>

\* git checkout or git reset stopped halfway: a mixed tree, perhaps an
\* index.lock left behind.
HalfCheckedOut(p) ==
  LET r == repo[p]
  IN  /\ pc[p] \in {"checkout", "hard"} /\ Local(p) /\ ~lock[r]
      /\ \E h \in {head[r], rev[p]} : head' = [head EXCEPT ![r] = h]
      /\ \E l \in BOOLEAN : lock' = [lock EXCEPT ![r] = l]
      /\ dirt' = [dirt EXCEPT ![r] = @ \cup {"edits"}]
      /\ UNCHANGED <<present, objects, trees, workVars>>

\* git clean stopped halfway: some of what it removes is gone.
HalfCleaned(p) ==
  LET r == repo[p]
  IN  /\ pc[p] = "clean" /\ present[r]
      /\ \E S \in SUBSET InClone(r) :
           at' = [i \in Items |-> IF i \in S THEN "lost" ELSE at[i]]
      /\ UNCHANGED <<cloneVars, stamp>>

\* The step under way fails or the process is killed; the command ends with
\* an error and nothing is rolled back.
Interrupt(p) ==
  /\ Running(p)
  /\ faults < MaxFaults
  /\ faults' = faults + 1
  /\ Finish(p, "error")
  /\ \/ UNCHANGED <<cloneVars, workVars, meddled>>
     \/ /\ HalfCloned(p) \/ HalfCheckedOut(p) \/ HalfCleaned(p)
        /\ Meddles(p)
  /\ UNCHANGED <<envVars, jobVars, sub, now, wts, fresh>>

-----------------------------------------------------------------------------
(* The student, upstream and time.                                         *)

procVars == <<jobVars, pc, sub, now, wts, result>>

\* A report or a trace is written into the clone: new to every command that
\* is running.
Write(i) ==
  /\ at[i] = "unwritten" /\ present[i.repo]
  /\ clock < MaxClock
  /\ at' = [at EXCEPT ![i] = "clone"]
  /\ fresh' = [q \in Procs |-> fresh[q] \cup {i}]
  /\ UNCHANGED <<cloneVars, stamp, envVars, procVars, meddled, faults>>

StudentMoves ==
  /\ moves < MaxStudent
  /\ moves' = moves + 1
  /\ meddled' = [q \in Procs |-> "late"]
  /\ UNCHANGED <<stamp, remote, clock, procVars, fresh, faults>>

\* Edits source, or leaves untracked or ignored files behind.
Edit(r) ==
  /\ StudentMoves
  /\ present[r]
  /\ \E d \in Debris \ dirt[r] : dirt' = [dirt EXCEPT ![r] = @ \cup {d}]
  /\ UNCHANGED <<present, head, objects, lock, trees, at>>

\* Checks out another commit.
MoveHead(r) ==
  /\ StudentMoves
  /\ present[r]
  /\ \E v \in objects[r] \ {head[r]} : head' = [head EXCEPT ![r] = v]
  /\ UNCHANGED <<present, objects, lock, dirt, trees, at>>

\* Links a worktree, perhaps a locked one.
AddTree(r) ==
  /\ StudentMoves
  /\ present[r] /\ head[r] # NoRev
  /\ \E t \in Trees, k \in {"linked", "locked"} :
       trees[r][t] = "none" /\ trees' = [trees EXCEPT ![r][t] = k]
  /\ UNCHANGED <<present, head, objects, lock, dirt, at>>

\* Deletes the whole clone directory, what is in it included.
DeleteClone(r) ==
  /\ StudentMoves
  /\ present[r]
  /\ present' = [present EXCEPT ![r] = FALSE]
  /\ head' = [head EXCEPT ![r] = NoRev]
  /\ objects' = [objects EXCEPT ![r] = {}]
  /\ lock' = [lock EXCEPT ![r] = FALSE]
  /\ dirt' = [dirt EXCEPT ![r] = {}]
  /\ trees' = [trees EXCEPT ![r] = [t \in Trees |-> "none"]]
  /\ at' = [i \in Items |-> IF i \in InClone(r) THEN "discarded" ELSE at[i]]

\* Repairs: a stale index.lock removed, a locked worktree unlocked.
Unlock(r) ==
  /\ lock[r]
  /\ lock' = [lock EXCEPT ![r] = FALSE]
  /\ UNCHANGED <<present, head, objects, dirt, trees, workVars, envVars,
                 procVars, fresh, meddled, faults>>

UnlockTree(r) ==
  /\ \E t \in Trees : trees[r][t] = "locked"
                      /\ trees' = [trees EXCEPT ![r][t] = "linked"]
  /\ UNCHANGED <<present, head, objects, lock, dirt, workVars, envVars,
                 procVars, fresh, meddled, faults>>

\* Upstream publishes another commit.
Publish(r) ==
  /\ \E v \in Revs \ remote[r] : remote' = [remote EXCEPT ![r] = @ \cup {v}]
  /\ UNCHANGED <<cloneVars, workVars, clock, moves, procVars, fresh, meddled,
                 faults>>

Tick ==
  /\ clock < MaxClock
  /\ clock' = clock + 1
  /\ UNCHANGED <<cloneVars, workVars, remote, moves, procVars, fresh, meddled,
                 faults>>

-----------------------------------------------------------------------------
BeginCommand(p) == BeginReset(p) \/ BeginLab(p) \/ BeginSetup(p)

\* One step of a command under way, as the code takes it.
Step(p) ==
  \/ ArchiveRead(p) \/ ArchiveMove(p)
  \/ WorktreeList(p) \/ WorktreeRemove(p) \/ WorktreePrune(p)
  \/ Restore(p) \/ HasCommit(p) \/ Fetch(p) \/ FetchFails(p) \/ Recheck(p)
  \/ Checkout(p) \/ HardReset(p) \/ Clean(p)
  \/ Verify(p) \/ HealthCheck(p)
  \/ CloneCheck(p) \/ GitClone(p)

Process(p) == BeginCommand(p) \/ Step(p) \/ Interrupt(p)

Environment ==
  \/ \E i \in Items : Write(i)
  \/ \E r \in Repos : \/ Edit(r) \/ MoveHead(r) \/ AddTree(r) \/ DeleteClone(r)
                     \/ Unlock(r) \/ UnlockTree(r) \/ Publish(r)
  \/ Tick

Next == (\E p \in Procs : Process(p)) \/ Environment

Spec == Init /\ [][Next]_vars

\* A command that is running goes on, the student runs setup and reset again
\* and again, removes a stale lock and unlocks a worktree that is in the way,
\* and upstream has the pinned commits in the end.
Fairness ==
  /\ \A p \in Procs : /\ WF_vars(Step(p))
                      /\ SF_vars(BeginReset(p))
                      /\ SF_vars(BeginSetup(p))
  /\ \A r \in Repos : WF_vars(Unlock(r)) /\ WF_vars(UnlockTree(r))
                      /\ WF_vars(Publish(r))

FairSpec == Spec /\ Fairness

-----------------------------------------------------------------------------
(* Properties.                                                             *)

\* A command that has dealt with a directory, and may go on to clean.
Past(p, s) ==
  \/ pc[p] \in {"restore", "list", "remove", "has", "fetch", "refetched",
                "checkout", "hard", "clean", "verify", "health"}
  \/ pc[p] \in {"archive", "rename"} /\ sub[p] = "traces" /\ s = "reports"

\* Once a command is past archiving a directory, the clone holds nothing in it
\* but what was written since the command began: this is why the later git
\* clean deletes no earlier work, whatever other commands do meanwhile
\* (Reset: "the capture happens before any destructive git op").
ArchivedFirst ==
  \A p \in Procs, s \in Subs : Past(p, s) => Contents(repo[p], s) \subseteq fresh[p]

\* A missing clone has no files: what git clone fills is empty.
MissingIsEmpty == \A r \in Repos : ~present[r] => InClone(r) = {}

\* Only setup and start-lab clone: reset refuses a missing clone.
ResetNeverClones ==
  \A p \in Procs : pc[p] \in {"clone", "gitclone"} => cmd[p] # "reset"

\* What custody of the student's work rests on.
CustodyInv == ArchivedFirst /\ MissingIsEmpty /\ ResetNeverClones

\* The promise about student work, as the abstract specification states it.
Exposed == UNION {fresh[p] : p \in {q \in Procs : Running(q)}}
Work == INSTANCE StudentWork WITH place <- at, exposed <- Exposed

\* Reports and traces are only ever archived, or deleted by the student, or
\* lost to a command they were written under: Archive, checkoutRevision and
\* Clone together implement StudentWork.
WorkKept == Work!Spec

\* No command ever puts a file into an archive directory that already exists,
\* nor takes one out: two archives of one second never mix (Archive, whose
\* stamps have a resolution of one second).
ArchivesSealed ==
  [][\A i, j \in Items :
       /\ at[i] = "archive"
       /\ j.repo = i.repo /\ j.sub = i.sub
       => /\ at'[i] = "archive" /\ stamp'[i] = stamp[i]
          /\ at'[j] = "archive" /\ stamp'[j] = stamp[i] => at[j] = "archive"]_vars

Done(p, c) == result[p] = "ok" /\ cmd[p] = c

\* A clone that stands at a revision as if freshly made: what may be left over
\* is ignored files and what the student wrote under the command.
Pristine(p, leftover) ==
  /\ present[repo[p]] /\ ~lock[repo[p]]
  /\ head[repo[p]] = rev[p]
  /\ dirt[repo[p]] \subseteq leftover
  /\ InClone(repo[p]) \subseteq fresh[p]

\* A reset that reports success, undisturbed, leaves the clone at the module's
\* revision, clean but for ignored files, with no worktree linked - whatever
\* state an interrupted command before it had left (Reset, the eight steps).
ResetRestores ==
  \A p \in Procs :
    Done(p, "reset") /\ meddled[p] = "no"
      => /\ Pristine(p, {"ignored"})
         /\ \A t \in Trees : trees[repo[p]][t] = "none"

\* The same of start-lab, on the path that clones and on the one that restores.
LabRestores ==
  \A p \in Procs :
    Done(p, "start-lab") /\ meddled[p] = "no" => Pristine(p, {"ignored"})

\* A reset that reports success saw HEAD at its revision after everything that
\* others did before step 7: only what they do during the health check and
\* after can make the report stale.
ResetVerified ==
  \A p \in Procs :
    Done(p, "reset") /\ meddled[p] # "late" => head[repo[p]] = rev[p]

\* A setup that reports success, undisturbed, has a clone of every repository
\* the checkpoint map names (runSetup stops at the first error).
SetupClones ==
  \A p \in Procs :
    Done(p, "setup") /\ meddled[p] = "no" => \A r \in Named : present[r]

\* However commands fail or are killed, running setup and reset again gets
\* there: again and again a reset succeeds (Clone is idempotent, Reset and
\* checkoutRevision start over from whatever is in the clone).
RetrySucceeds == []<>(\E p \in Procs : Done(p, "reset"))
=============================================================================
