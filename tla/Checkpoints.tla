---------------------------- MODULE Checkpoints ----------------------------
(***************************************************************************)
(* The module -> checkpoint map (configs/checkpoints.json) as package      *)
(* course reads it: which checkpoint a module resets to, and which         *)
(* repositories setup clones, each at which revision.                      *)
(***************************************************************************)
EXTENDS Naturals

CONSTANTS
  Repos,       \* target repositories
  Revs,        \* commits
  Checkpoint,  \* module number -> [repository, revision]
  Rank         \* the order of the repositories' names

Modules == DOMAIN Checkpoint

\* LoadCheckpoints refuses an empty map and an entry without a repository or
\* a revision; an entry that is there names both.
ASSUME CheckpointAssumption ==
  /\ Modules # {}
  /\ Modules \subseteq Nat
  /\ Checkpoint \in [Modules -> [repository : Repos, revision : Revs]]

\* Two repositories have different names.
ASSUME RankAssumption ==
  /\ Rank \in [Repos -> Nat]
  /\ \A r, q \in Repos : Rank[r] = Rank[q] => r = q

\* ModuleCheckpoint: the map's entry for a module, which must be there.
Defined(m) == m \in Modules
ModuleCheckpoint(m) == Checkpoint[m]

\* The repositories the map names, and the module that fixes the revision
\* setup clones each of them at: the lowest-numbered one.
Named == {Checkpoint[m].repository : m \in Modules}
Referring(r) == {m \in Modules : Checkpoint[m].repository = r}
LowestModule(r) == CHOOSE m \in Referring(r) : \A n \in Referring(r) : m <= n
PinnedRevision(r) == Checkpoint[LowestModule(r)].revision

\* setup visits the repositories by name.
FirstByName(S) == CHOOSE r \in S : \A q \in S : Rank[r] <= Rank[q]
=============================================================================
