---------------------------- MODULE Orchestrator ----------------------------
(***************************************************************************)
(* BuildStageOrchestrator of repos/bootstrap/ohos.py: ohos_main runs       *)
(* updateCode when a branch is given, then buildByNameAndType walks        *)
(* SUPPORT_BUILD_TYPES x SUPPORT_BUILD_NAMES in that fixed order and runs  *)
(* engineClean / engineConfig / harBuild / engineCompile / zipFiles for    *)
(* the requested pairs.  runCommand exits the process with the tool's code *)
(* unless checkCode=False.  ohos.py is run again and again on the same     *)
(* checkout; the output directory src/out/<type> survives between runs.   *)
(*                                                                         *)
(* Sources are abstracted to a generation number (a new one after a pull   *)
(* or a developer change); an output directory to whether gn has written   *)
(* build.ninja there, the generation libflutter.so was built from (0:      *)
(* none) and the generation of the library inside flutter.har.  The        *)
(* toolchain is resolved by getNdkHome (module NdkResolver).               *)
(***************************************************************************)
EXTENDS Integers, Sequences, FiniteSets

CONSTANTS
  BuildTypes,     \* SUPPORT_BUILD_TYPES, in loop order
  NameChoices,    \* the sets of -n names a run may be given
  MaxGen,         \* bound on source generations
  MaxRuns,        \* bound on runs of ohos.py
  NdkChoices,     \* layouts $OHOS_NDK_HOME may have (Unset: variable unset)
  ToolFailures,   \* TRUE: gn, ninja and hvigor may fail on their own
  FailCodes,      \* codes Popen.wait returns for a failed tool (-N: signal N)
  ConfigTimeouts, \* TRUE: gn may outlive engineConfig's 600 s timeout
  CleanFailures,  \* TRUE: rmtree may fail to remove some files (locked)
  Homes, HomePath, Versions, Unset

BuildNames == <<"clean", "config", "har", "compile", "zip", "zip2">>

Names == {BuildNames[k] : k \in 1..6}

ASSUME /\ BuildTypes \in Seq(STRING) /\ Len(BuildTypes) > 0
       /\ NameChoices \subseteq SUBSET Names
       /\ MaxGen \in Nat \ {0} /\ MaxRuns \in Nat \ {0}

Types == {BuildTypes[k] : k \in DOMAIN BuildTypes}

OutDir == [ninja : BOOLEAN, lib : 0..MaxGen, har : 0..MaxGen]

NoOut == [ninja |-> FALSE, lib |-> 0, har |-> 0]

VARIABLES
  gen,      \* generation of the sources in src/flutter
  out,      \* out[t]: the output directory src/out/<getOutput(t)>
  zips,     \* zips[t]: generation of the library in the last zip of t
  ndkEnv,   \* layout at $OHOS_NDK_HOME (fixed for a behaviour)
  hasFlutter, \* the checkout has src/flutter (fixed for a behaviour)
  pc,       \* "idle", "update", "build", or "exited" after exit(code)
  req,      \* the parsed arguments of the current run
  ti, ni,   \* positions in SUPPORT_BUILD_TYPES and SUPPORT_BUILD_NAMES
  status,   \* exit status of the last run
  runs,     \* runs started
  harMade,  \* history: types whose flutter.har this run produced
  ran       \* history: the <<type, name>> stages this run has started

vars == <<gen, out, zips, ndkEnv, hasFlutter, pc, req, ti, ni, status, runs,
          harMade, ran>>

Ndk == INSTANCE NdkResolver WITH
         bundled <- Unset,
         sdkEnv <- [k \in 1..2 |-> Unset],
         sdk <- [c \in [home : Homes, ver : Versions] |-> {}],
         result <- [src |-> "pending"]

(* getNdkHome: the layout of the root it returns, or Unset when it exits   *)
(* with 10.                                                                *)
NdkHome ==
  LET r == Ndk!GetNdkHomeFinal(Ndk!GetNdkHomeRoot)
  IN IF r = Ndk!Exit10 THEN Unset ELSE Ndk!LayoutOf(r)

(* buildByNameAndType's default: ["config", "compile"] when neither a      *)
(* branch nor names are given.                                             *)
EffectiveNames(r) ==
  IF r.branch \/ r.names # {} THEN r.names ELSE {"config", "compile"}

(* exit(code): the process status is code modulo 256.                      *)
Exit(code) ==
  /\ pc' = "exited"
  /\ status' = code % 256

-----------------------------------------------------------------------------
Init ==
  /\ gen = 1
  /\ out = [t \in Types |-> NoOut]
  /\ zips = [t \in Types |-> 0]
  /\ ndkEnv \in NdkChoices
  /\ hasFlutter \in BOOLEAN
  /\ pc = "idle"
  /\ req = [names |-> {}, types |-> Types, branch |-> FALSE]
  /\ ti = 1 /\ ni = 1
  /\ status = 0
  /\ runs = 0
  /\ harMade = {}
  /\ ran = <<>>

(* Between runs the developer changes the sources.                         *)
DevChange ==
  /\ pc \in {"idle", "exited"} /\ gen < MaxGen /\ runs < MaxRuns
  /\ gen' = gen + 1
  /\ UNCHANGED <<out, zips, ndkEnv, hasFlutter, pc, req, ti, ni, status, runs, harMade, ran>>

(* addParseParam: -n a list of SUPPORT_BUILD_NAMES (default []), -t a    *)
(* non-empty list of SUPPORT_BUILD_TYPES (default: all), -b a branch.     *)
ParsedArgs == [names : NameChoices, types : SUBSET Types \ {{}}, branch : BOOLEAN]

(* checkEnvironment: ohos.py must sit in the engine root, next to         *)
(* src/flutter; otherwise it logs and exits 1.                             *)
CheckEnvironment == hasFlutter

(* ohos_main: parse the arguments, then checkEnvironment.                  *)
OhosMain ==
  /\ pc \in {"idle", "exited"} /\ runs < MaxRuns
  /\ \E r \in ParsedArgs :
       /\ req' = r
       /\ \/ /\ CheckEnvironment /\ status' = 0
             /\ pc' = IF r.branch THEN "update" ELSE "build"
          \/ ~CheckEnvironment /\ Exit(1)
  /\ runs' = runs + 1
  /\ ti' = 1 /\ ni' = 1
  /\ harMade' = {}
  /\ ran' = <<>>
  /\ UNCHANGED <<gen, out, zips, ndkEnv, hasFlutter>>

(* updateCode: stash, checkout (fatal on failure), pull --rebase (failure  *)
(* tolerated; may bring new commits), log, then ohos_setup.py.             *)
UpdateCode ==
  /\ pc = "update"
  /\ \/ /\ ToolFailures
        /\ Exit(1)
        /\ UNCHANGED gen
     \/ /\ \E g \in gen..(IF gen < MaxGen THEN gen + 1 ELSE gen) : gen' = g
        /\ pc' = "build"
        /\ UNCHANGED status
  /\ UNCHANGED <<out, zips, ndkEnv, hasFlutter, req, ti, ni, runs, harMade, ran>>

(* Variant of Advance with the loops nested the other way round.           *)
AdvanceNameMajor ==
  IF ti < Len(BuildTypes) THEN ti' = ti + 1 /\ ni' = ni /\ pc' = pc /\ UNCHANGED status
  ELSE IF ni < 6 THEN ti' = 1 /\ ni' = ni + 1 /\ pc' = pc /\ UNCHANGED status
  ELSE ti' = 1 /\ ni' = 1 /\ pc' = "idle" /\ status' = 0

(* The position after the current one in buildByNameAndType's two loops;   *)
(* after the last one ohos_main returns 0.                                 *)
Advance ==
  IF ni < 6 THEN ti' = ti /\ ni' = ni + 1 /\ pc' = pc /\ UNCHANGED status
  ELSE IF ti < Len(BuildTypes)
       THEN ti' = ti + 1 /\ ni' = 1 /\ pc' = pc /\ UNCHANGED status
  ELSE ti' = 1 /\ ni' = 1 /\ pc' = "idle" /\ status' = 0

CurType == BuildTypes[ti]
CurName == BuildNames[ni]

(* "if not buildType in buildTypes: continue" and the same for names.      *)
SkipType ==
  /\ pc = "build" /\ ni = 1 /\ CurType \notin req.types
  /\ IF ti < Len(BuildTypes) THEN ti' = ti + 1 /\ pc' = pc /\ UNCHANGED status
     ELSE ti' = 1 /\ pc' = "idle" /\ status' = 0
  /\ UNCHANGED <<gen, out, zips, ndkEnv, hasFlutter, req, ni, runs, harMade, ran>>

SkipName ==
  /\ pc = "build" /\ CurType \in req.types
  /\ CurName \notin EffectiveNames(req)
  /\ Advance
  /\ UNCHANGED <<gen, out, zips, ndkEnv, hasFlutter, req, runs, harMade, ran>>

Stage(name) ==
  /\ pc = "build" /\ CurType \in req.types /\ CurName = name
  /\ name \in EffectiveNames(req)
  /\ ran' = Append(ran, <<CurType, name>>)

(* What "shutil.rmtree(target, ignore_errors=True)" can leave of an      *)
(* output directory: nothing, or with CleanFailures any part of it, the    *)
(* errors on the rest being ignored.                                       *)
LeftAfterClean(o) ==
  IF ~CleanFailures THEN {NoOut}
  ELSE {[ninja |-> o.ninja /\ "ninja" \in K,
         lib   |-> IF "lib" \in K THEN o.lib ELSE 0,
         har   |-> IF "har" \in K THEN o.har ELSE 0] : K \in SUBSET {"ninja", "lib", "har"}}

(* engineClean: rmtree of the output directory when it exists.             *)
EngineClean ==
  /\ Stage("clean")
  /\ \E left \in LeftAfterClean(out[CurType]) : out' = [out EXCEPT ![CurType] = left]
  /\ Advance
  /\ UNCHANGED <<gen, zips, ndkEnv, hasFlutter, req, runs, harMade>>

(* engineConfig: getNdkHome (exit 10), PATH, then gn with checkCode=False  *)
(* and timeout=600: a failing gn is logged, an expired one raises          *)
(* TimeoutExpired out of ohos_main (status 1).                             *)
EngineConfig ==
  /\ Stage("config")
  /\ \/ /\ NdkHome = Unset
        /\ Exit(10)
        /\ UNCHANGED <<out, ti, ni>>
     \/ /\ NdkHome # Unset
        /\ \/ /\ out' = [out EXCEPT ![CurType].ninja = TRUE]
              /\ Advance
           \/ /\ ToolFailures
              /\ Advance
              /\ UNCHANGED out
           \/ /\ ConfigTimeouts
              /\ Exit(1)
              /\ UNCHANGED <<out, ti, ni>>
  /\ UNCHANGED <<gen, zips, ndkEnv, hasFlutter, req, runs, harMade>>

(* harBuild: ohos_create_flutter_har.py copies libflutter.so (raising,     *)
(* status 1, when it is missing) and runs hvigorw; checkCode=True.         *)
HarBuild ==
  /\ Stage("har")
  /\ \/ /\ out[CurType].lib = 0
        /\ Exit(1)
        /\ UNCHANGED <<out, ti, ni, harMade>>
     \/ /\ out[CurType].lib # 0
        /\ out' = [out EXCEPT ![CurType].har = out[CurType].lib]
        /\ harMade' = harMade \cup {CurType}
        /\ Advance
     \/ /\ out[CurType].lib # 0 /\ ToolFailures
        /\ \E code \in FailCodes : Exit(code)
        /\ UNCHANGED <<out, ti, ni, harMade>>
  /\ UNCHANGED <<gen, zips, ndkEnv, hasFlutter, req, runs>>

(* Variant of EngineCompile whose ninja failures are only logged.          *)
EngineCompileUnchecked ==
  /\ Stage("compile")
  /\ \/ /\ out[CurType].ninja
        /\ out' = [out EXCEPT ![CurType].lib = gen]
     \/ /\ ~out[CurType].ninja \/ ToolFailures
        /\ UNCHANGED out
  /\ Advance
  /\ UNCHANGED <<gen, zips, ndkEnv, hasFlutter, req, runs, harMade>>

(* engineCompile: "ninja -C src/out/<type>" with checkCode=True; without   *)
(* build.ninja ninja fails.                                                *)
EngineCompile ==
  /\ Stage("compile")
  /\ \/ /\ out[CurType].ninja
        /\ out' = [out EXCEPT ![CurType].lib = gen]
        /\ Advance
     \/ /\ ~out[CurType].ninja
        /\ Exit(1)
        /\ UNCHANGED <<out, ti, ni>>
     \/ /\ out[CurType].ninja /\ ToolFailures
        /\ \E code \in FailCodes : Exit(code)
        /\ UNCHANGED <<out, ti, ni>>
  /\ UNCHANGED <<gen, zips, ndkEnv, hasFlutter, req, runs, harMade>>

(* zipFiles (stages "zip" and "zip2"): getNdkHome for the SDK version in   *)
(* the name (exit 10), then an archive of the output directory.            *)
ZipFiles ==
  /\ \E name \in {"zip", "zip2"} : Stage(name)
  /\ \/ /\ NdkHome = Unset
        /\ Exit(10)
        /\ UNCHANGED <<zips, ti, ni>>
     \/ /\ NdkHome # Unset
        /\ zips' = [zips EXCEPT ![CurType] = out[CurType].lib]
        /\ Advance
  /\ UNCHANGED <<gen, out, ndkEnv, hasFlutter, req, runs, harMade>>

Next ==
  \/ DevChange
  \/ OhosMain
  \/ UpdateCode
  \/ SkipType
  \/ SkipName
  \/ EngineClean
  \/ EngineConfig
  \/ HarBuild
  \/ EngineCompile
  \/ ZipFiles

Spec == Init /\ [][Next]_vars

-----------------------------------------------------------------------------
(* The step with which ohos_main returns 0.                                *)
RunSucceeds == pc = "build" /\ pc' = "idle"

(* Action property (checkCode=True of engineCompile, spec 4.6): a run that *)
(* exits 0 leaves every requested type whose compile was requested built   *)
(* from the current sources.                                               *)
SuccessMeansBuilt ==
  [][RunSucceeds =>
       \A t \in req.types :
         "compile" \in EffectiveNames(req) => out'[t].lib = gen]_vars

(* Spec 7 ("a failed compile cannot be followed by a meaningful package    *)
(* stage"): the flutter.har a successful run produces holds the            *)
(* libflutter.so that run leaves built.                                    *)
HarHoldsBuiltLibrary ==
  [][RunSucceeds => \A t \in harMade : out'[t].har = out'[t].lib]_vars

(* Spec 4.6 and 7 (configure failures are non-fatal): engineConfig ends a  *)
(* run only when no valid toolchain is found (status 10).                  *)
ConfigureNonFatal ==
  [][(pc = "build" /\ CurName = "config" /\ pc' = "exited") =>
       status' = 10]_vars

(* The StageMatrix a run walks: while building, the requested cells at or  *)
(* after the current loop position.                                        *)
Matrix == INSTANCE StageMatrix WITH
            Types <- BuildTypes,
            Stages <- BuildNames,
            active <- pc = "build",
            todo <- IF pc # "build" THEN {}
                    ELSE {c \in (DOMAIN BuildTypes) \X (1..6) :
                            /\ BuildTypes[c[1]] \in req.types
                            /\ BuildNames[c[2]] \in EffectiveNames(req)
                            /\ ~(c[1] < ti \/ (c[1] = ti /\ c[2] < ni))},
            ran <- ran,
            ok <- status = 0

(* Refinement (spec 3 and 8: "stages execute in canonical order regardless *)
(* of the order flags were supplied in"): buildByNameAndType's two loops    *)
(* run every requested stage of every requested type exactly once, types   *)
(* in SUPPORT_BUILD_TYPES order and stages in SUPPORT_BUILD_NAMES order,   *)
(* and a run ends with status 0 only after all of them.                    *)
MatrixRefined == Matrix!Spec
=============================================================================
