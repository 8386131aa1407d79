---------------------------- MODULE HarPackager ----------------------------
(***************************************************************************)
(* HarPackager: scripts/ohos_create_flutter_har.py as ohos.py's harBuild   *)
(* invokes it for one build type, over repeated runs with compiles in      *)
(* between.  Each native library is known by the compile generation that   *)
(* produced it (0: not built).  A har is the set of <<library, generation>> *)
(* pairs it packages and the SDK version its build profile names; the      *)
(* embedding sources are the same in every run.                            *)
(***************************************************************************)
EXTENDS Naturals, Sequences, FiniteSets, Functions

CONSTANTS
  BuildType,   \* the --build_type harBuild passes
  MaxGen,      \* bound on compiles
  MaxRuns,     \* bound on runs of the script
  FsFailures   \* whether rmtree, copytree and hvigorw may fail

Libs == {"libflutter.so", "libvmservice_snapshot.so"}

(* harBuild's --native_lib arguments: the profiling library only for a    *)
(* profile build.                                                          *)
NativeLib ==
  IF BuildType = "profile" THEN <<"libflutter.so", "libvmservice_snapshot.so">>
  ELSE <<"libflutter.so">>

(* harBuild's --ohos_api_int, the only value argparse's choices accept.  *)
OhosApiInt == 11

(* updateConfig's apiStr.                                                  *)
ApiStr(apiInt) == IF apiInt = 11 THEN "4.1.0(11)" ELSE "4.0.0(10)"

(* build-profile.json5 as updateConfig writes it from HAR_CONFIG_TEMPLATE: *)
(* compileSdkVersion and compatibleSdkVersion set to apiStr, and the       *)
(* build modes hvigorw's buildMode may name.                               *)
BuildProfile(apiInt) ==
  [sdk |-> ApiStr(apiInt), modes |-> {"debug", "release", "profile"}]

VARIABLES
  libGen,   \* libGen[l]: generation of src/out/<type>/.../l, 0 if absent
  bdLibs,   \* pairs under <build_dir>/flutter/libs/<abi>; {} if no build dir
  bdHar,    \* the hvigorw output under <build_dir> (a set of at most one har)
  output,   \* src/out/<type>/flutter.har (a set of at most one har)
  pc,       \* "idle", or the next step of main
  li,       \* index of the next --native_lib to copy
  status,   \* exit status of the last run
  runs

vars == <<libGen, bdLibs, bdHar, output, pc, li, status, runs>>

Gens == 0..MaxGen
Har == [libs : SUBSET (Libs \X (1..MaxGen)), sdk : {ApiStr(a) : a \in {10, 11}}]

(* What the libraries of this build type are right now.                    *)
Current == {<<l, libGen[l]>> : l \in Range(NativeLib)}

Init ==
  /\ libGen = [l \in Libs |-> 0]
  /\ bdLibs = {} /\ bdHar = {} /\ output = {}
  /\ pc = "idle" /\ li = 1 /\ status = 0 /\ runs = 0

Fail == pc' = "idle" /\ status' = 1

(* ninja between two runs rebuilds both libraries of the output directory. *)
Compile ==
  /\ pc = "idle" /\ libGen["libflutter.so"] < MaxGen
  /\ libGen' = [l \in Libs |-> libGen["libflutter.so"] + 1]
  /\ UNCHANGED <<bdLibs, bdHar, output, pc, li, status, runs>>

(* main: rmtree(build_dir) when it exists, then copytree of the embedding *)
(* sources; a failure of either raises out of the script.                  *)
Start ==
  /\ pc = "idle" /\ runs < MaxRuns
  /\ runs' = runs + 1
  /\ \/ /\ bdLibs' = {} /\ bdHar' = {}
        /\ pc' = "copylib" /\ li' = 1 /\ UNCHANGED status
     \/ /\ FsFailures
        /\ Fail /\ UNCHANGED <<bdLibs, bdHar, li>>
  /\ UNCHANGED <<libGen, output>>

(* Variant of CopyLib that stops one library early.                        *)
CopyLibShort ==
  /\ pc = "copylib"
  /\ IF li + 1 <= Len(NativeLib) /\ libGen[NativeLib[li]] # 0
     THEN /\ bdLibs' = {p \in bdLibs : p[1] # NativeLib[li]}
                       \cup {<<NativeLib[li], libGen[NativeLib[li]]>>}
          /\ li' = li + 1 /\ UNCHANGED <<pc, status>>
     ELSE /\ pc' = "build" /\ UNCHANGED <<bdLibs, li, status>>
  /\ UNCHANGED <<libGen, bdHar, output, runs>>

(* One iteration of "for file in options.native_lib": copyfile raises     *)
(* when the library was never built.                                       *)
CopyLib ==
  /\ pc = "copylib"
  /\ \/ /\ li > Len(NativeLib)
        /\ pc' = "build" /\ UNCHANGED <<bdLibs, li, status>>
     \/ /\ li <= Len(NativeLib) /\ libGen[NativeLib[li]] # 0
        /\ bdLibs' = {p \in bdLibs : p[1] # NativeLib[li]}
                     \cup {<<NativeLib[li], libGen[NativeLib[li]]>>}
        /\ li' = li + 1 /\ UNCHANGED <<pc, status>>
     \/ /\ li <= Len(NativeLib) /\ libGen[NativeLib[li]] = 0
        /\ Fail /\ UNCHANGED <<bdLibs, li>>
  /\ UNCHANGED <<libGen, bdHar, output, runs>>

(* buildHar: updateConfig, then "hvigorw clean ... assembleHar" through    *)
(* runCommand, which exits with hvigorw's code when it fails, as it does   *)
(* for a buildMode the profile does not list.                              *)
BuildHar ==
  LET profile == BuildProfile(OhosApiInt) IN
  /\ pc = "build"
  /\ \/ /\ BuildType \in profile.modes
        /\ bdHar' = {[libs |-> bdLibs, sdk |-> profile.sdk]}
        /\ pc' = "copyout" /\ UNCHANGED status
     \/ /\ FsFailures \/ BuildType \notin profile.modes
        /\ Fail /\ UNCHANGED bdHar
  /\ UNCHANGED <<libGen, bdLibs, output, li, runs>>

(* copyfile(<build_dir>/.../flutter.har, options.output).                 *)
CopyOut ==
  /\ pc = "copyout"
  /\ output' = bdHar /\ pc' = "idle" /\ status' = 0
  /\ UNCHANGED <<libGen, bdLibs, bdHar, li, runs>>

Next == Compile \/ Start \/ CopyLib \/ BuildHar \/ CopyOut

Spec == Init /\ [][Next]_vars

-----------------------------------------------------------------------------
TypeOK ==
  /\ libGen \in [Libs -> Gens]
  /\ bdLibs \subseteq Libs \X (1..MaxGen)
  /\ bdHar \subseteq Har /\ Cardinality(bdHar) <= 1
  /\ output \subseteq Har /\ Cardinality(output) <= 1
  /\ li \in 1..(Len(NativeLib) + 1)

(* Safety (main's order rmtree, copytree, copy of every --native_lib,      *)
(* hvigorw, copyfile): flutter.har changes only when a run succeeds, and   *)
(* then holds exactly the build type's libraries as they are now, none     *)
(* missing and none left from an earlier run, built for API 11, the level  *)
(* harBuild asks for.                                                      *)
HarReplacedWhole ==
  [][output' # output =>
       status' = 0 /\ output' = {[libs |-> Current, sdk |-> "4.1.0(11)"]}]_vars
=============================================================================
