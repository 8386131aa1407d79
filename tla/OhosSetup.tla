----------------------------- MODULE OhosSetup -----------------------------
(***************************************************************************)
(* The source-tree overlay/patch engine of scripts/ohos_setup.py:          *)
(* parse_config runs one pass of stashChanges over the task list of        *)
(* config.json (StashGuard), then one pass of doTask (OverlayCopier for    *)
(* "dir"/"files"/"file" tasks, apply_check + apply_patch for "patch"       *)
(* tasks).  The script is run again and again on the same checkout (from   *)
(* the gclient hook and from ohos.py updateCode), and between runs the     *)
(* developer edits files, so the model is a sequence of runs.              *)
(*                                                                         *)
(* A file's content is abstracted to where it came from: "head" (the       *)
(* committed content), "absent", "ov" (copied from the attachment tree),   *)
(* "patched" (written by git apply) or a user edit EditTag[n] made before  *)
(* run n.  A patch applies cleanly iff every file it touches is at HEAD.   *)
(***************************************************************************)
EXTENDS Naturals, Sequences, FiniteSets, SequencesExt, Functions

CONSTANTS
  Repos,          \* git repositories holding task targets
  Files,          \* files of the checkout that tasks or the developer touch
  RepoOf,         \* RepoOf[f]: the repository file f belongs to
  Tracked,        \* files committed in HEAD; others are untracked when present
  Config,         \* the task list of config.json (records, see Task)
  UseStash,       \* parse_config(useStash=...); TRUE when run as a script
  MaxRuns,        \* bound on the number of runs of ohos_setup.py
  EditTag,        \* EditTag[n]: content of a developer edit made before run n
  StashOutcomes,  \* outcomes of "git add -A; git stash save" the model allows
  CmdTimeouts     \* TRUE: the 20 s timeout of excuteArr may kill git apply

Kinds == {"dir", "files", "file", "patch"}

(* A task of config.json. files: for "dir" every file under the target     *)
(* directory, for "files"/"file" the files written, for "patch" the files  *)
(* the patch modifies; src: the files the source tree provides; repo: the  *)
(* repository the target lies in; malformed: git cannot parse the patch   *)
(* file and dies ("fatal: corrupt patch at line N", rc 128).               *)
Task == [type : Kinds \cup {"other"}, repo : Repos, files : SUBSET Files,
         src : SUBSET Files, malformed : BOOLEAN]

ASSUME /\ RepoOf \in [Files -> Repos]
       /\ Tracked \subseteq Files
       /\ Config \in Seq(Task) /\ Len(Config) > 0
       /\ \A k \in DOMAIN Config : Config[k].src \subseteq Config[k].files
       /\ \A k \in DOMAIN Config : Config[k].type = "patch" =>
                                      Config[k].files \subseteq Tracked
       /\ MaxRuns \in Nat \ {0}
       /\ EditTag \in Seq(STRING) /\ Len(EditTag) >= MaxRuns
       /\ StashOutcomes \subseteq {"ok", "addFailed", "stashFailed"}
       /\ "ok" \in StashOutcomes

Contents == {"absent", "head", "ov", "patched"} \cup Range(EditTag)

FilesOf(r) == {f \in Files : RepoOf[f] = r}

HeadOf(f) == IF f \in Tracked THEN "head" ELSE "absent"

Pristine == [f \in Files |-> HeadOf(f)]

VARIABLES
  wt,        \* wt[f]: content of file f in the working tree
  stash,     \* stash[r]: the stash list of repository r, newest last
  pc,        \* "idle" between runs, "stash" / "apply" in parse_config's loops
  i,         \* index of the task the current loop is at
  run,       \* number of runs started
  reported,  \* indices of tasks of the current run that printed a failure
  edited,    \* history: <<f, n>> for every developer edit made before run n
  trouble,   \* history: <<r, n>> when a stash command failed on r in run n
  runFailed, \* history: a command of the current run failed or timed out
  before,    \* history: the tree and the stashes when the current run began
  forced     \* history: patch tasks passed to apply_patch after apply_check
             \* printed a failure

vars == <<wt, stash, pc, i, run, reported, edited, trouble, runFailed, before,
          forced>>

TypeOK ==
  /\ wt \in [Files -> Contents]
  /\ \A r \in Repos : \A k \in DOMAIN stash[r] :
        DOMAIN stash[r][k] \subseteq FilesOf(r)
  /\ pc \in {"idle", "stash", "apply"}
  /\ i \in 1..Len(Config)
  /\ run \in 0..MaxRuns
  /\ reported \subseteq DOMAIN Config
  /\ edited \subseteq Files \X (1..MaxRuns)
  /\ trouble \subseteq Repos \X (1..MaxRuns)
  /\ runFailed \in BOOLEAN
  /\ forced \subseteq DOMAIN Config

-----------------------------------------------------------------------------
(* file_util (not in this repository; modelled from the spec): copy_dir   *)
(* removes the target directory and copies the source tree in its place;  *)
(* copy_files and copy_file overwrite the files the source provides.       *)
(* Variant of CopyDir that merges into the target instead of replacing it. *)
CopyDirMerge(t, tree) == [f \in Files |-> IF f \in t.src THEN "ov" ELSE tree[f]]

CopyDir(t, tree) ==
  [f \in Files |-> IF f \in t.src THEN "ov"
                   ELSE IF f \in t.files THEN "absent" ELSE tree[f]]

CopyFiles(t, tree) == [f \in Files |-> IF f \in t.src THEN "ov" ELSE tree[f]]

(* "git apply" of the patch succeeds iff every file it touches is exactly  *)
(* as in HEAD; it then rewrites them all, and otherwise changes nothing.   *)
Applies(t, tree) == \A f \in t.files : tree[f] = HeadOf(f)

Patched(tree, S) == [f \in Files |-> IF f \in S THEN "patched" ELSE tree[f]]

(* apply_check: the (rc, stderr contains "error") outcomes of              *)
(* "git apply --check --ignore-whitespace".  A patch that does not apply   *)
(* gives rc 1 and "error: patch failed"; one git cannot parse dies with    *)
(* rc 128 and "fatal: ...".  rc = -1 is excuteArr's timeout.               *)
CheckResults(t, tree) ==
  (CASE t.malformed        -> {[rc |-> 128, err |-> FALSE]}
     [] Applies(t, tree)   -> {[rc |-> 0, err |-> FALSE]}
     [] OTHER              -> {[rc |-> 1, err |-> TRUE]})
  \cup (IF CmdTimeouts THEN {[rc |-> -1, err |-> FALSE]} ELSE {})

CheckPasses(res) == res.rc # -1 /\ ~res.err

(* apply_patch: "git apply --ignore-whitespace --whitespace=nowarn".  git  *)
(* writes nothing unless every hunk applies; a run killed by the timeout   *)
(* while writing may have rewritten any subset of the files.               *)
ApplyResults(t, tree) ==
  LET ok     == Applies(t, tree) /\ ~t.malformed
      writes == IF ok THEN t.files ELSE {}
  IN  {[rc |-> (CASE t.malformed -> 128 [] ok -> 0 [] OTHER -> 1),
        done |-> writes]}
      \cup (IF CmdTimeouts THEN {[rc |-> -1, done |-> S] : S \in SUBSET writes}
                           ELSE {})

(* The tree a run without failures produces on a pristine checkout: the   *)
(* tasks of Config applied in order (the reference for RunConvergence).    *)
TaskEffect(tree, t) ==
  CASE t.type = "dir"               -> CopyDir(t, tree)
    [] t.type \in {"files", "file"} -> CopyFiles(t, tree)
    [] t.type = "patch"             -> IF Applies(t, tree) /\ ~t.malformed
                                       THEN Patched(tree, t.files) ELSE tree
    [] OTHER                        -> tree

Target == FoldLeft(TaskEffect, Pristine, Config)

(* The value of the history variable before between runs.                *)
Blank == [wt |-> Pristine, stash |-> [r \in Repos |-> <<>>]]

-----------------------------------------------------------------------------
Init ==
  /\ wt = Pristine
  /\ stash = [r \in Repos |-> <<>>]
  /\ pc = "idle"
  /\ i = 1
  /\ run = 0
  /\ reported = {}
  /\ edited = {}
  /\ trouble = {}
  /\ runFailed = FALSE
  /\ before = Blank
  /\ forced = {}

(* Between runs the developer changes a file (creating it if absent).      *)
UserEdit(f) ==
  /\ pc = "idle" /\ run < MaxRuns
  /\ wt' = [wt EXCEPT ![f] = EditTag[run + 1]]
  /\ edited' = edited \cup {<<f, run + 1>>}
  /\ UNCHANGED <<stash, pc, i, run, reported, trouble, runFailed, before,
                 forced>>

(* Variant of ParseConfig that never runs the stash loop.                   *)
ParseConfigNoStash ==
  /\ pc = "idle" /\ run < MaxRuns
  /\ run' = run + 1
  /\ pc' = "apply"
  /\ i' = 1
  /\ reported' = {}
  /\ runFailed' = FALSE
  /\ before' = [wt |-> wt, stash |-> stash]
  /\ UNCHANGED <<wt, stash, edited, trouble, forced>>

(* parse_config: load config.json, then the stash loop or the task loop.   *)
ParseConfig ==
  /\ pc = "idle" /\ run < MaxRuns
  /\ run' = run + 1
  /\ pc' = IF UseStash THEN "stash" ELSE "apply"
  /\ i' = 1
  /\ reported' = {}
  /\ runFailed' = FALSE
  /\ before' = [wt |-> wt, stash |-> stash]
  /\ UNCHANGED <<wt, stash, edited, trouble, forced>>

(* Variant of NextTask with an off-by-one loop bound.                      *)
NextTaskOverrun ==
  IF i <= Len(Config) THEN i' = i + 1 /\ pc' = pc
  ELSE /\ i' = 1
       /\ pc' = IF pc = "stash" THEN "apply" ELSE "idle"

(* Variant of NextTask that stashes each task's target just before the   *)
(* task instead of in a loop of its own before all tasks.                  *)
NextTaskInterleaved ==
  IF pc = "stash" THEN i' = i /\ pc' = "apply"
  ELSE IF i < Len(Config) THEN i' = i + 1 /\ pc' = IF UseStash THEN "stash" ELSE "apply"
  ELSE i' = 1 /\ pc' = "idle"

(* Advance parse_config's current loop to the next task.                   *)
NextTask ==
  IF i < Len(Config) THEN i' = i + 1 /\ pc' = pc
  ELSE /\ i' = 1
       /\ pc' = IF pc = "stash" THEN "apply" ELSE "idle"

(* Variant of Stashable without "git add -A": untracked files stay.        *)
StashableNoAdd(r, outcome) ==
  {f \in FilesOf(r) : wt[f] # HeadOf(f) /\ f \in Tracked}

(* Files "git stash save" takes after "git add -A" (all changes) or, when  *)
(* git add failed, without it (changes to tracked files only).             *)
Stashable(r, outcome) ==
  {f \in FilesOf(r) : /\ wt[f] # HeadOf(f)
                      /\ outcome = "addFailed" => f \in Tracked}

(* stashChanges(task) for the task at i, with the outcome of its two git   *)
(* commands; a failure is ignored by the script.                           *)
StashChanges ==
  LET t == Config[i] IN
  /\ pc = "stash"
  /\ \/ /\ t.type # "patch"
        /\ UNCHANGED <<wt, stash, trouble, runFailed>>
     \/ /\ t.type = "patch"
        /\ \E outcome \in StashOutcomes :
             LET S == IF outcome = "stashFailed" THEN {}
                      ELSE Stashable(t.repo, outcome)
             IN /\ stash' = IF S = {} THEN stash
                            ELSE [stash EXCEPT ![t.repo] =
                                    Append(@, [f \in S |-> wt[f]])]
                /\ wt' = [f \in Files |-> IF f \in S THEN HeadOf(f) ELSE wt[f]]
                /\ trouble' = IF outcome = "ok" THEN trouble
                              ELSE trouble \cup {<<t.repo, run>>}
                /\ runFailed' = (runFailed \/ outcome # "ok")
  /\ NextTask
  /\ UNCHANGED <<run, reported, edited, before, forced>>

(* Variant of CheckReported without the failure print of apply_check.          *)
CheckReportedSilent(rc) == reported

(* apply_check and apply_patch print a failure when the rc is not 0.       *)
CheckReported(rc) == IF rc # 0 THEN reported \cup {i} ELSE reported

ApplyReported(rc) == IF rc # 0 THEN reported \cup {i} ELSE reported

(* doTask(task) for the task at i: a copy, or apply_check and, if it       *)
(* passes, apply_patch; each prints a failure when its rc is not 0.        *)
DoTask ==
  LET t == Config[i] IN
  /\ pc = "apply"
  /\ \/ /\ t.type = "dir"
        /\ wt' = CopyDir(t, wt)
        /\ UNCHANGED <<reported, runFailed, forced>>
     \/ /\ t.type \in {"files", "file"}
        /\ wt' = CopyFiles(t, wt)
        /\ UNCHANGED <<reported, runFailed, forced>>
     \/ /\ t.type = "patch"
        /\ \E chk \in CheckResults(t, wt) :
             /\ ~CheckPasses(chk)
             /\ wt' = wt
             /\ reported' = CheckReported(chk.rc)
             /\ runFailed' = (runFailed \/ chk.rc = -1)
             /\ UNCHANGED forced
     \/ /\ t.type = "patch"
        /\ \E chk \in CheckResults(t, wt), res \in ApplyResults(t, wt) :
             /\ CheckPasses(chk)
             /\ wt' = Patched(wt, res.done)
             /\ reported' = ApplyReported(res.rc)
             /\ runFailed' = (runFailed \/ res.rc = -1)
             /\ forced' = IF chk.rc # 0 THEN forced \cup {i} ELSE forced
     \/ /\ t.type \notin Kinds
        /\ UNCHANGED <<wt, reported, runFailed, forced>>
  /\ NextTask
  /\ before' = IF pc' = "idle" THEN Blank ELSE before
  /\ UNCHANGED <<stash, run, edited, trouble>>

Next ==
  \/ \E f \in Files : UserEdit(f)
  \/ ParseConfig
  \/ StashChanges
  \/ DoTask

Spec == Init /\ [][Next]_vars

-----------------------------------------------------------------------------
(* Repositories StashGuard protects: the targets of patch tasks.           *)
Guarded == IF UseStash THEN {Config[k].repo : k \in {k \in DOMAIN Config :
                                              Config[k].type = "patch"}}
           ELSE {}

Preserved(f, c) ==
  \/ wt[f] = c
  \/ \E k \in DOMAIN stash[RepoOf[f]] :
        f \in DOMAIN stash[RepoOf[f]][k] /\ stash[RepoOf[f]][k][f] = c

(* Safety (stashChanges before doTask, "git add -A" before "git stash      *)
(* save"): a developer edit in a repository that a patch task targets is   *)
(* never destroyed by a later run; it stays in the working tree or in a    *)
(* stash entry, unless a stash command on that repository failed in the    *)
(* run of the edit or later.                                               *)
NoLostEdits ==
  \A e \in edited :
    LET f == e[1]  n == e[2] IN
    \/ Preserved(f, EditTag[n])
    \/ RepoOf[f] \notin Guarded
    \/ \E m \in n..MaxRuns : <<RepoOf[f], m>> \in trouble

(* Files whose content a run determines: every file of a guarded           *)
(* repository (reset by the stash) and every file a copy task writes.      *)
Settled ==
  UNION {FilesOf(r) : r \in Guarded}
  \cup UNION {IF Config[k].type = "dir" THEN Config[k].files
              ELSE IF Config[k].type \in {"files", "file"} THEN Config[k].src
              ELSE {} : k \in DOMAIN Config}

(* The step of doTask's loop that ends a run.                              *)
RunEnds == pc = "apply" /\ pc' = "idle"

(* Action property (idempotent re-application, spec section 8): whatever  *)
(* earlier runs and developer edits left behind, a run in which no command *)
(* failed ends with every settled file as one run on a pristine checkout   *)
(* leaves it.                                                              *)
RunConvergence ==
  [][RunEnds /\ ~runFailed' => \A f \in Settled : wt'[f] = Target[f]]_vars

(* Action property (apply_check's "error" heuristic and the failure prints *)
(* of apply_check and apply_patch): when a run ends, every patch task has  *)
(* either left all its files patched or printed a failure.                 *)
NoSilentSkip ==
  [][RunEnds =>
      \A k \in DOMAIN Config :
        Config[k].type = "patch" =>
          (\A f \in Config[k].files : wt'[f] = "patched") \/ k \in reported']_vars

Contract == INSTANCE SetupRun WITH
              tree  <- IF pc = "idle" THEN wt ELSE before.wt,
              saved <- IF pc = "idle" THEN stash ELSE before.stash,
              runs  <- IF pc = "idle" THEN run ELSE run - 1

(* Refinement (parse_config's stash loop before its task loop, stashChanges *)
(* and doTask): every run of ohos_setup.py is a run SetupRun allows: the    *)
(* stashes only ever gain entries holding the content the run began with,   *)
(* and the tree ends as the config's tasks, in order, can leave it, no      *)
(* patch written over a file that was not at HEAD.                          *)
RunRefined == Contract!Spec
=============================================================================
