----------------------------- MODULE SourceSync -----------------------------
(***************************************************************************)
(* "ohos.py -b <branch>": updateCode of repos/bootstrap/ohos.py composed   *)
(* with the ohos_setup.py run it starts.  updateCode saves everything that *)
(* differs from HEAD in src/flutter ("git add -A", "git stash save"),      *)
(* checks the branch out, pulls it (checkCode=False), logs, and runs       *)
(* ohos_setup.py, whose parse_config is the OhosSetup module over the same *)
(* working tree.  Any other failing command exits ohos.py (runCommand).    *)
(* File contents are relative to HEAD, so a checkout of the clean tree     *)
(* leaves every file at "head".  Only -b runs touch the sources; the build *)
(* stages that follow are the Orchestrator's.                              *)
(***************************************************************************)
EXTENDS Naturals, Sequences, FiniteSets

CONSTANTS
  Repos, Files, RepoOf, Tracked, Config, UseStash, MaxRuns, EditTag,
  StashOutcomes, CmdTimeouts,
  FlutterRepo,   \* the repository src/flutter among Repos
  GitFailures,   \* TRUE: the git commands of updateCode may fail
  MaxSyncs       \* bound on runs of "ohos.py -b"

VARIABLES
  wt, stash, pc, i, run, reported, edited, trouble, runFailed, before,
  forced,
  sync,          \* the step of updateCode ohos.py is at; "idle" between runs
  syncs          \* runs of "ohos.py -b" started

Setup == INSTANCE OhosSetup

ASSUME MaxSyncs \in Nat /\ Len(EditTag) >= MaxSyncs

setupVars == <<wt, stash, pc, i, run, reported, edited, trouble, runFailed, before,
               forced>>

vars == <<setupVars, sync, syncs>>

Init == Setup!Init /\ sync = "idle" /\ syncs = 0

(* A stash entry of f's repository holds f with content c.                *)
Stashed(f, c) ==
  \E k \in DOMAIN stash[RepoOf[f]] :
    f \in DOMAIN stash[RepoOf[f]][k] /\ stash[RepoOf[f]][k][f] = c

(* The developer edits a file while ohos.py is not running; the content    *)
(* EditTag[n] marks an edit made before the n-th run of "ohos.py -b", so   *)
(* edits made before and after a run that exited early differ.  edited    *)
(* keeps the edits the developer still has: one they overwrite themselves  *)
(* is dropped unless a stash entry holds it.                               *)
Edit(f) ==
  /\ sync \in {"idle", "exited"} /\ syncs < MaxSyncs
  /\ wt' = [wt EXCEPT ![f] = EditTag[syncs + 1]]
  /\ edited' = {e \in edited : e[1] # f \/ Stashed(f, EditTag[e[2]])}
               \cup {<<f, syncs + 1>>}
  /\ UNCHANGED <<stash, pc, i, run, reported, trouble, runFailed, before, forced,
                 sync, syncs>>

(* ohos_main with a branch: checkEnvironment, then updateCode.             *)
OhosMain ==
  /\ sync \in {"idle", "exited"} /\ pc = "idle" /\ run < MaxRuns
  /\ syncs < MaxSyncs
  /\ sync' = "add" /\ syncs' = syncs + 1
  /\ UNCHANGED setupVars

(* runCommand(cmd) with checkCode=True: on success go to the next step,    *)
(* on failure exit(code).                                                  *)
Command(next) ==
  \/ sync' = next
  \/ GitFailures /\ sync' = "exited"

(* "git -C src/flutter add -A": stages every change, untracked files too.  *)
GitAdd ==
  /\ sync = "add"
  /\ Command("save")
  /\ UNCHANGED <<setupVars, syncs>>

(* Variant of Saved without the "git add -A" before the stash: only      *)
(* changes to tracked files are saved.                                     *)
SavedTracked == Setup!Stashable(FlutterRepo, "addFailed")

(* What "git stash save" takes after "git add -A": every file of          *)
(* src/flutter that differs from HEAD, untracked ones included.            *)
Saved == Setup!Stashable(FlutterRepo, "ok")

(* "git -C src/flutter stash save 'Auto stash save.'": the saved files go  *)
(* into one new stash entry and back to HEAD; with nothing to save git     *)
(* only says so.                                                           *)
StashSave ==
  LET S == Saved IN
  /\ sync = "save"
  /\ \/ /\ sync' = "checkout"
        /\ stash' = IF S = {} THEN stash
                    ELSE [stash EXCEPT ![FlutterRepo] = Append(@, [f \in S |-> wt[f]])]
        /\ wt' = [f \in Files |-> IF f \in S THEN Setup!HeadOf(f) ELSE wt[f]]
     \/ /\ GitFailures /\ sync' = "exited"
        /\ UNCHANGED <<wt, stash>>
  /\ UNCHANGED <<pc, i, run, reported, edited, trouble, runFailed, before, forced,
                 syncs>>

(* "git checkout <branch>", fatal on failure.                              *)
Checkout ==
  /\ sync = "checkout"
  /\ Command("pull")
  /\ UNCHANGED <<setupVars, syncs>>

(* "git pull --rebase" with checkCode=False: a failure is only logged.     *)
Pull ==
  /\ sync = "pull"
  /\ sync' = "log"
  /\ UNCHANGED <<setupVars, syncs>>

(* "git log -1", fatal on failure.                                         *)
Log ==
  /\ sync = "log"
  /\ Command("setup")
  /\ UNCHANGED <<setupVars, syncs>>

(* "python3 src/flutter/attachment/scripts/ohos_setup.py": parse_config   *)
(* from its start to its end; the script prints its failures and returns  *)
(* 0, so ohos.py goes on to the build stages.                              *)
SetupStart ==
  /\ sync = "setup"
  /\ Setup!ParseConfig
  /\ sync' = "setupRunning"
  /\ UNCHANGED syncs

SetupStep ==
  /\ sync = "setupRunning"
  /\ Setup!StashChanges \/ Setup!DoTask
  /\ UNCHANGED <<sync, syncs>>

SetupEnd ==
  /\ sync = "setupRunning" /\ pc = "idle"
  /\ sync' = "idle"
  /\ UNCHANGED <<setupVars, syncs>>

Next ==
  \/ \E f \in Files : Edit(f)
  \/ OhosMain \/ GitAdd \/ StashSave \/ Checkout \/ Pull \/ Log
  \/ SetupStart \/ SetupStep \/ SetupEnd

Spec == Init /\ [][Next]_vars

-----------------------------------------------------------------------------
(* Safety (updateCode's "git add -A" and "git stash save" before checkout *)
(* and ohos_setup.py): a developer edit in src/flutter is never destroyed  *)
(* by "ohos.py -b", even in a directory a "dir" task replaces, and even    *)
(* when checkout or a later command fails: it stays in the working tree or *)
(* in a stash entry of src/flutter.                                        *)
SyncKeepsEdits ==
  \A e \in edited :
    RepoOf[e[1]] = FlutterRepo => Setup!Preserved(e[1], EditTag[e[2]])
=============================================================================
