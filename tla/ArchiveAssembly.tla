-------------------------- MODULE ArchiveAssembly --------------------------
(***************************************************************************)
(* ArchiveAssembly of repos/bootstrap/ohos.py: the "zip" and "zip2" stages *)
(* of one build type (zipFiles, zipFileDir, isPathValid).  The output      *)
(* directory is a set of files, each a directory path (a sequence of       *)
(* component names) and a file name.  isPathValid's re.search is modelled  *)
(* by what it does on the patterns zipFiles passes: literal characters,    *)
(* "." for any character, "\." for a dot and a leading ".*".  An archive   *)
(* is named by the sdkVer slice of getNdkHome() and TIME_STR, the minute   *)
(* the ohos.py process started; build type and host are fixed.  Runs       *)
(* follow one another on the same output directory and DIR_OUTPUTS.        *)
(***************************************************************************)
EXTENDS Naturals, Sequences, FiniteSets, SequencesExt

CONSTANTS
  Candidates,   \* files a build can leave in src/out/<type>
  NdkRoots,     \* roots getNdkHome can return: [path : STRING, ver : STRING]
  Requests,     \* the sets of zip stages a command line can request
  MaxRuns,      \* bound on runs of ohos.py
  MaxMinute     \* bound on the minute clock TIME_STR is read from

ASSUME /\ \A r \in Requests : r # {} /\ r \subseteq {"zip", "zip2"}
       /\ \A c \in Candidates : DOMAIN c = {"dir", "name"}

VARIABLES
  files,     \* the files under src/out/<type> when the stage runs
  windows,   \* IS_WINDOWS
  ndk,       \* the toolchain root getNdkHome returns
  req,       \* the zip stages requested on the command line
  pc,        \* the next stage: "zip", "zip2", "done", or "exited"
  zips,      \* archives in DIR_OUTPUTS: [kind, name, content, run]; run
             \* (the run that wrote it) is history, not part of the file
  status,    \* exit status once pc is "done" or "exited"
  minute,    \* TIME_STR of the current run
  runs       \* runs started

vars == <<files, windows, ndk, req, pc, zips, status, minute, runs>>

EndsWith(s, t) == Len(t) <= Len(s) /\ SubSeq(s, Len(s) - Len(t) + 1, Len(s)) = t

StartsWith(s, t) == Len(t) <= Len(s) /\ SubSeq(s, 1, Len(t)) = t

(* s without its first n characters.                                       *)
Drop(s, n) == IF Len(s) <= n THEN "" ELSE SubSeq(s, n + 1, Len(s))

(* A regex as a sequence of atoms: "\." is a literal dot, "." any char.    *)
RECURSIVE Atoms(_)
Atoms(r) ==
  IF r = "" THEN <<>>
  ELSE IF StartsWith(r, "\\") /\ Len(r) >= 2
       THEN <<[any |-> FALSE, ch |-> SubSeq(r, 2, 2)]>> \o Atoms(Drop(r, 2))
  ELSE <<[any |-> StartsWith(r, "."), ch |-> SubSeq(r, 1, 1)]>> \o Atoms(Drop(r, 1))

(* re.search(regex, s): the pattern matches at some position of s; a      *)
(* leading ".*" matches the empty string, so it never changes the answer.  *)
Search(regex, s) ==
  LET p == Atoms(IF StartsWith(regex, ".*") THEN Drop(regex, 2) ELSE regex)
  IN \E k \in 0..(Len(s) - Len(p)) :
       \A j \in 1..Len(p) : p[j].any \/ p[j].ch = SubSeq(s, k + j, k + j)

(* fpath = path.replace(fileIn, "")[1:]: the directory relative to fileIn. *)
FPath(f) ==
  IF f.dir = <<>> THEN ""
  ELSE FoldLeft(LAMBDA a, c : a \o "/" \o c, Head(f.dir), Tail(f.dir))

(* Variant of IsPathValid that matches the file name only.                 *)
IsPathValidName(filepath, filename, includes, excludes) ==
  /\ includes = <<>>
  /\ \A k \in DOMAIN excludes : ~Search(excludes[k], filename)

IsPathValid(filepath, filename, includes, excludes) ==
  LET fileOrigin == filepath \o "/" \o filename
  IN IF \E k \in DOMAIN includes : Search(includes[k], fileOrigin) THEN TRUE
     ELSE IF includes # <<>> THEN FALSE
     ELSE \A k \in DOMAIN excludes : ~Search(excludes[k], fileOrigin)

(* Variant of ZipFileDir writing every file to the second archive.         *)
ZipFileDirBoth(name, includes, excludes, useZip2) ==
  {[kind |-> "primary", name |-> name,
    content |-> {f \in files : IsPathValid(FPath(f), f.name, includes, excludes)},
    run |-> runs]}
  \cup (IF useZip2 THEN {[kind |-> "unstripped", name |-> name, content |-> files,
                          run |-> runs]}
        ELSE {})

(* zipFileDir: name.zip gets the valid files; name-unstripped.zip gets the *)
(* others with useZip2, and is removed again without it.                   *)
ZipFileDir(name, includes, excludes, useZip2) ==
  LET keep == {f \in files : IsPathValid(FPath(f), f.name, includes, excludes)}
  IN {[kind |-> "primary", name |-> name, content |-> keep, run |-> runs]}
     \cup (IF useZip2
           THEN {[kind |-> "unstripped", name |-> name, content |-> files \ keep,
                  run |-> runs]}
           ELSE {})

(* Python's s[-a:-b] for a >= b > 0.                                       *)
SliceFromEnd(s, a, b) ==
  SubSeq(s, IF Len(s) >= a THEN Len(s) - a + 1 ELSE 1,
            IF Len(s) >= b THEN Len(s) - b ELSE 0)

SdkVer(path) ==
  IF Search("openharmony", path) THEN SliceFromEnd(path, 9, 7)
  ELSE SliceFromEnd(path, 30, 12)

(* fileName "ohos_<sdkVer>_<type>-<os>-<machine>-<TIME_STR>": the parts   *)
(* that vary here.                                                         *)
ArchiveName == <<SdkVer(ndk.path), minute>>

Excludes ==
  <<"obj", "exe.unstripped", "so.unstripped">>
  \o (IF windows THEN <<".*\\.ilk", ".*\\.pdb">> ELSE <<>>)

NextStage(s) == IF s = "zip" /\ "zip2" \in req THEN "zip2" ELSE "done"

FirstStage(r) == IF "zip" \in r THEN "zip" ELSE "zip2"

-----------------------------------------------------------------------------
Init ==
  /\ files \in SUBSET Candidates
  /\ windows \in BOOLEAN
  /\ ndk \in NdkRoots
  /\ req \in Requests
  /\ pc = FirstStage(req)
  /\ zips = {}
  /\ status = 0
  /\ minute = 0
  /\ runs = 1

(* The next ohos.py run over the same output directory.  TIME_STR is      *)
(* datetime.now() to the minute, taken when the module loads, and         *)
(* DIR_OUTPUTS the day's directory: the same minute as the last run, or a *)
(* later one.                                                              *)
NewRun ==
  /\ pc \in {"done", "exited"} /\ runs < MaxRuns
  /\ \E r \in Requests, m \in minute..MaxMinute :
       req' = r /\ minute' = m /\ pc' = FirstStage(r)
  /\ runs' = runs + 1 /\ status' = 0
  /\ UNCHANGED <<files, windows, ndk, zips>>

(* zipFiles(buildInfo, useZip2): the stage of buildByNameAndType.  A "/"   *)
(* in sdkVer puts fileOut1 in a directory that does not exist, so opening  *)
(* it raises and the interpreter exits with status 1.                      *)
ZipFiles(useZip2) ==
  LET name == ArchiveName IN
  /\ pc = IF useZip2 THEN "zip2" ELSE "zip"
  /\ \/ /\ ~Search("/", name[1])
        /\ zips' = {a \in zips : a.name # name}
                   \cup ZipFileDir(name, <<>>, Excludes, useZip2)
        /\ pc' = NextStage(pc)
        /\ UNCHANGED status
     \/ /\ Search("/", name[1])
        /\ pc' = "exited"
        /\ status' = 1
        /\ UNCHANGED zips
  /\ UNCHANGED <<files, windows, ndk, req, minute, runs>>

Next == ZipFiles(FALSE) \/ ZipFiles(TRUE) \/ NewRun

Spec == Init /\ [][Next]_vars

-----------------------------------------------------------------------------
TypeOK ==
  /\ files \subseteq Candidates
  /\ ndk \in NdkRoots
  /\ pc \in {"zip", "zip2", "done", "exited"}
  /\ \A a \in zips : a.kind \in {"primary", "unstripped"} /\ a.content \subseteq files
                   /\ a.run \in 1..runs
  /\ status \in {0, 1}
  /\ minute \in 0..MaxMinute /\ runs \in 1..MaxRuns

(* The artifacts spec 4.6 keeps out of the primary archive: files under an *)
(* intermediate-object or unstripped directory, and on Windows the         *)
(* debug-symbol files.                                                     *)
DebugArtifact(f) ==
  \/ \E k \in DOMAIN f.dir : f.dir[k] = "obj" \/ EndsWith(f.dir[k], ".unstripped")
  \/ windows /\ (EndsWith(f.name, ".pdb") \/ EndsWith(f.name, ".ilk"))

(* Safety (spec 4.6, zipFiles' excludes and isPathValid on the relative   *)
(* path): no primary archive ever holds a debug artifact.                  *)
PrimaryHasNoDebugArtifacts ==
  \A a \in zips : a.kind = "primary" => \A f \in a.content : ~DebugArtifact(f)

(* Safety (zipFileDir's if/elif, the removal of fileOut2 without useZip2, *)
(* and zip preceding zip2 under one TIME_STR): a run that requested zip2   *)
(* ends with a debug archive, and it and the primary archive of the same   *)
(* name split the output directory, each file in exactly one of them.     *)
Zip2Partitions ==
  pc = "done" /\ "zip2" \in req =>
    \E a, p \in zips : /\ a.kind = "unstripped" /\ p.kind = "primary"
                      /\ p.name = a.name
                      /\ p.content \cup a.content = files
                      /\ p.content \cap a.content = {}

(* Spec 6 (archives named by toolchain version, build type, host and       *)
(* time): a zip stage with a valid toolchain writes its archive, and the   *)
(* name carries the toolchain's version.                                   *)
ArchiveNamedByVersion ==
  /\ pc # "exited"
  /\ \A a \in zips : a.name[1] = ndk.ver

(* Spec 5 ("a dated output directory tree per run", archives named by "a   *)
(* run timestamp"): the archives of a run are never overwritten or removed *)
(* by a later run.  zipFileDir opens fileOut1 and fileOut2 for writing and *)
(* removes fileOut2 without useZip2, under TIME_STR's name.                *)
EarlierRunArchivesKept ==
  [][\A a \in zips : a.run < runs => a \in zips']_vars
=============================================================================
