------------------------------ MODULE SetupRun ------------------------------
(***************************************************************************)
(* What one run of ohos_setup.py promises (spec sections 4, 5 and 8), at   *)
(* the grain of whole runs: a run is one step between developer edits.     *)
(* It first protects the targets of patch tasks: some of the changes such  *)
(* a repository holds go into new stash entries that record exactly their  *)
(* content, and those files return to their HEAD state (the protection is  *)
(* best effort, so "some" may be none).  Then every task of the config, in *)
(* order, takes effect on the tree the previous one left: a copy installs  *)
(* its overlay, a patch either changes nothing or writes the files it      *)
(* touches, and only when each of them is exactly as in HEAD.              *)
(***************************************************************************)
EXTENDS Naturals, Sequences, FiniteSets, Functions

CONSTANTS Repos, Files, RepoOf, Tracked, Config, UseStash, MaxRuns, EditTag,
          CmdTimeouts

VARIABLES
  tree,    \* tree[f]: the content of file f between runs
  saved,   \* saved[r]: the stash entries of repository r, oldest first
  runs     \* runs completed

vars == <<tree, saved, runs>>

HeadOf(f) == IF f \in Tracked THEN "head" ELSE "absent"

FilesOf(r) == {f \in Files : RepoOf[f] = r}

PatchTasks(r) == {k \in DOMAIN Config : Config[k].type = "patch" /\ Config[k].repo = r}

Protected == IF UseStash THEN {r \in Repos : PatchTasks(r) # {}} ELSE {}

Changed(r) == {f \in FilesOf(r) : tree[f] # HeadOf(f)}

(* The entries a run appended to the stash list of repository r.          *)
NewEntries(r) ==
  [k \in 1..(Len(saved'[r]) - Len(saved[r])) |-> saved'[r][Len(saved[r]) + k]]

(* Protection of repository r: its stash list only gains entries, at most  *)
(* one per patch task and none when r is not protected; each entry is      *)
(* non-empty, holds changed files with the content they had, and no file   *)
(* is in two of them.                                                      *)
Protects(r) ==
  LET new == NewEntries(r) IN
  /\ Len(saved'[r]) >= Len(saved[r])
  /\ SubSeq(saved'[r], 1, Len(saved[r])) = saved[r]
  /\ Len(new) <= IF r \in Protected THEN Cardinality(PatchTasks(r)) ELSE 0
  /\ \A k \in DOMAIN new :
       /\ DOMAIN new[k] # {} /\ DOMAIN new[k] \subseteq Changed(r)
       /\ \A f \in DOMAIN new[k] : new[k][f] = tree[f]
  /\ \A j, k \in DOMAIN new : j # k => DOMAIN new[j] \cap DOMAIN new[k] = {}

(* The files the run moved into the stash.                                  *)
Taken == UNION {DOMAIN e : e \in UNION {Range(NewEntries(r)) : r \in Repos}}

(* A patch may be cut short by the command timeout, leaving any part of   *)
(* the files it touches written.                                           *)
Writes(t) == IF CmdTimeouts THEN SUBSET t.files ELSE {t.files}

AtHead(t, tr) == \A f \in t.files : tr[f] = HeadOf(f)

(* The trees a task can leave, from tree tr.                               *)
TaskResults(t, tr) ==
  CASE t.type = "dir" ->
         {[f \in Files |-> IF f \in t.src THEN "ov"
                           ELSE IF f \in t.files THEN "absent" ELSE tr[f]]}
    [] t.type \in {"files", "file"} ->
         {[f \in Files |-> IF f \in t.src THEN "ov" ELSE tr[f]]}
    [] t.type = "patch" ->
         {tr} \cup {[f \in Files |-> IF f \in W THEN "patched" ELSE tr[f]] :
                      W \in IF AtHead(t, tr) THEN Writes(t) ELSE {}}
    [] OTHER -> {tr}

(* The trees the tasks from the k-th on can leave, from the trees trs.     *)
RECURSIVE Results(_, _)
Results(trs, k) ==
  IF k > Len(Config) THEN trs
  ELSE Results(UNION {TaskResults(Config[k], tr) : tr \in trs}, k + 1)

-----------------------------------------------------------------------------
Init ==
  /\ tree = [f \in Files |-> HeadOf(f)]
  /\ saved = [r \in Repos |-> <<>>]
  /\ runs = 0

Edit(f) ==
  /\ runs < MaxRuns
  /\ tree' = [tree EXCEPT ![f] = EditTag[runs + 1]]
  /\ UNCHANGED <<saved, runs>>

(* A run, described by the states before and after it (SetupRun is a      *)
(* property OhosSetup is checked against, not a model run on its own).      *)
Run ==
  /\ runs < MaxRuns
  /\ runs' = runs + 1
  /\ \A r \in Repos : Protects(r)
  /\ tree' \in Results({[f \in Files |-> IF f \in Taken THEN HeadOf(f) ELSE tree[f]]}, 1)

Next == (\E f \in Files : Edit(f)) \/ Run

Spec == Init /\ [][Next]_vars
=============================================================================
