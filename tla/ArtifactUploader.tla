-------------------------- MODULE ArtifactUploader --------------------------
(***************************************************************************)
(* ArtifactUploader: scripts/auto_complie.py over repeated runs, with the  *)
(* local checkout moving forward and builds in between.  Commits are       *)
(* numbered in the order they were made; an artifact in an output          *)
(* directory is known by the commit it was built from (0: absent).  Tag    *)
(* names are character-code sequences because git ls-remote lists them in *)
(* byte order of their refnames.                                           *)
(***************************************************************************)
EXTENDS Naturals, FiniteSets, Sequences, StrOrder

CONSTANTS
  MaxCommit,   \* commits 1..MaxCommit
  TagNames,    \* names a remote tag can have
  Hosts,       \* the platform.system() values a run can have
  BuildTypes,  \* keys of OHOS_ENGINE_TYPE_OUT
  MaxRuns,
  GitFailures  \* TRUE: "git ls-remote" (network) or "git rev-parse" may fail

Commits == 1..MaxCommit

(* getCompileFiles' zipfiles list.                                         *)
ZipNames == {"artifacts.zip", "linux-x64.zip", "windows-x64.zip",
             "darwin-x64.zip", "symbols.zip"}

(* getCompileFiles: on Windows and macOS only the host's own archive.      *)
HostZips(host) ==
  CASE host = "windows" -> {"windows-x64.zip"}
    [] host = "darwin"  -> {"darwin-x64.zip"}
    [] OTHER            -> ZipNames

VARIABLES
  host,     \* platform.system().lower()
  tags,     \* remote tags: a function from tag names to commits
  head,     \* commit checked out in src/flutter
  built,    \* built[t][z]: commit the archive z of build type t came from
  bucket,   \* uploaded objects [ver, type, name, from]
  failed,   \* uploads whose exception was swallowed (history)
  status,   \* exit status of the last run
  runs

vars == <<host, tags, head, built, bucket, failed, status, runs>>

(* runGitCommand: a git command that fails raises, and the exception ends *)
(* the script with status 1.                                               *)
GitOutcomes == IF GitFailures THEN {"ok", "raised"} ELSE {"ok"}

(* The last line of "git ls-remote --tags": the tag with the greatest      *)
(* refname; for an annotated tag its peeled "^{}" line, also the commit.   *)
RemoteLatestTag ==
  LET last == CHOOSE n \in DOMAIN tags :
                \A m \in DOMAIN tags : m = n \/ StrLess(m, n)
  IN tags[last]

(* The archives main finds: findFile in each output directory.            *)
Found == {<<t, z>> \in BuildTypes \X HostZips(host) : built[t][z] # 0}

Init ==
  /\ host \in Hosts
  /\ tags \in UNION {[S -> Commits] : S \in SUBSET TagNames}
  /\ head \in Commits
  /\ built = [t \in BuildTypes |-> [z \in ZipNames |-> 0]]
  /\ bucket = {} /\ failed = {}
  /\ status = 0 /\ runs = 0

(* The developer pulls a newer commit.                                     *)
Pull ==
  /\ head < MaxCommit
  /\ head' = head + 1
  /\ UNCHANGED <<host, tags, built, bucket, failed, status, runs>>

(* A build of type t at the current commit writes its archives.           *)
Build(t) ==
  /\ built[t]["artifacts.zip"] # head
  /\ built' = [built EXCEPT ![t] = [z \in ZipNames |-> head]]
  /\ UNCHANGED <<host, tags, head, bucket, failed, status, runs>>

(* main: checkRemoteTagsUpdates, then uploadServer for every archive found *)
(* under the key of HEAD.  No tags is an IndexError; an upload that raises *)
(* is logged and skipped; the script always returns None otherwise.       *)
Upload(found) ==
  \E lost \in SUBSET found :
    /\ bucket' = {o \in bucket : <<o.ver, o.type, o.name>> \notin
                                   {<<head, p[1], p[2]>> : p \in found \ lost}}
                 \cup {[ver |-> head, type |-> p[1], name |-> p[2],
                        from |-> built[p[1]][p[2]]] : p \in found \ lost}
    /\ failed' = failed \cup {<<head, p[1], p[2]>> : p \in lost}

Main ==
  /\ runs < MaxRuns
  /\ runs' = runs + 1
  /\ \/ /\ "raised" \in GitOutcomes
        /\ status' = 1 /\ UNCHANGED <<bucket, failed>>
     \/ /\ DOMAIN tags = {}
        /\ status' = 1 /\ UNCHANGED <<bucket, failed>>
     \/ /\ DOMAIN tags # {} /\ RemoteLatestTag = head
        /\ status' = 0 /\ UNCHANGED <<bucket, failed>>
     \/ /\ DOMAIN tags # {} /\ RemoteLatestTag # head
        /\ Upload(Found)
        /\ status' = 0
  /\ UNCHANGED <<host, tags, head, built>>

Next == Pull \/ (\E t \in BuildTypes : Build(t)) \/ Main

Spec == Init /\ [][Next]_vars

=============================================================================
