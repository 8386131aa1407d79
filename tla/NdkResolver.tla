---------------------------- MODULE NdkResolver ----------------------------
(***************************************************************************)
(* ToolchainResolver of repos/bootstrap/ohos.py: getNdkHome, isNdkValid,   *)
(* findNativeInCurrentDir and findFile.  The filesystem is abstracted to   *)
(* the directories that can be toolchain roots, each given by the set of   *)
(* isNdkValid's four subpaths that exist under it ({} when the path does   *)
(* not exist).  SDK candidates are <home>/<version>/native; their paths    *)
(* are kept as sequences of character codes because getNdkHome orders     *)
(* them with Python's string comparison.                                   *)
(***************************************************************************)
EXTENDS Naturals, Sequences, FiniteSets, SequencesExt, StrOrder

CONSTANTS
  Homes,      \* directories SDK-home variables can name
  HomePath,   \* HomePath[h]: character codes of the path of home h
  Versions,   \* version directory names under a home, as digit sequences
  Unset       \* model value: an unset environment variable, no directory

ASSUME /\ HomePath \in [Homes -> Seq(Nat)]
       /\ Versions \subseteq Seq(0..9)

Subpaths == {"root", "sysroot", "llvm/bin", "build-tools/cmake/bin"}

(* Layouts a candidate directory can have: complete, missing one subpath,  *)
(* or not existing at all.                                                 *)
Layouts == {Subpaths, {}} \cup {Subpaths \ {s} : s \in Subpaths \ {"root"}}

SdkLayouts == {{}, Subpaths, Subpaths \ {"llvm/bin"}}

(* isNdkValid(path): all four paths exist.                                 *)
IsNdkValid(layout) == Subpaths \subseteq layout

Slash == 47
Digit(d) == 48 + d

(* The string "<home>/<version>/native" up to the common "native" suffix.  *)
SdkPath(c) ==
  <<Slash>> \o HomePath[c.home] \o <<Slash>>
  \o [k \in 1..Len(c.ver) |-> Digit(c.ver[k])] \o <<Slash>>

Candidates == [home : Homes, ver : Versions]

VARIABLES
  ndkEnv,    \* layout at $OHOS_NDK_HOME, or Unset
  bundled,   \* layout of the first "native" dir found under ndk/<os>, or Unset
  sdkEnv,    \* sdkEnv[1], sdkEnv[2]: $OHOS_SDK_HOME, $HOS_SDK_HOME (or Unset)
  sdk,       \* sdk[c]: layout of SDK candidate c ({} when absent)
  result     \* Pending before getNdkHome; then the root used, or Exit10

vars == <<ndkEnv, bundled, sdkEnv, sdk, result>>

Pending == [src |-> "pending"]
Exit10 == [src |-> "exit10"]

Roots == {[src |-> "env"], [src |-> "bundled"]}
         \cup {[src |-> "sdk", home |-> c.home, ver |-> c.ver] : c \in Candidates}

(* findFile over $OHOS_SDK_HOME and $HOS_SDK_HOME: every existing          *)
(* <home>/<version>/native (an unset variable is skipped).                 *)
SdkFound ==
  {c \in Candidates : /\ \E k \in 1..2 : sdkEnv[k] = c.home
                      /\ sdk[c] # {}}

(* dirs.sort(reverse=True): descending string order of the paths.          *)
SdkOrder == SetToSortSeq(SdkFound, LAMBDA a, b : StrLess(SdkPath(b), SdkPath(a)))

(* The loop "for dir in dirs: if isNdkValid(dir): ...; break".             *)
SdkChoice ==
  LET valid == SelectSeq(SdkOrder, LAMBDA c : IsNdkValid(sdk[c]))
  IN IF valid = <<>> THEN Unset ELSE valid[1]

LayoutOf(root) ==
  CASE root.src = "env"     -> ndkEnv
    [] root.src = "bundled" -> bundled
    [] OTHER                -> sdk[[home |-> root.home, ver |-> root.ver]]

(* getNdkHome: the first configured source wins, valid or not; only the    *)
(* SDK search validates before choosing; the final isNdkValid exits 10.    *)
GetNdkHomeRoot ==
  IF ndkEnv # Unset THEN [src |-> "env"]
  ELSE IF bundled # Unset THEN [src |-> "bundled"]
  ELSE IF SdkChoice # Unset
       THEN [src |-> "sdk", home |-> SdkChoice.home, ver |-> SdkChoice.ver]
  ELSE Unset

GetNdkHomeFinal(root) ==
  IF root = Unset \/ ~IsNdkValid(LayoutOf(root)) THEN Exit10 ELSE root

-----------------------------------------------------------------------------
(* Init: any environment the operator's machine can present.               *)
Init ==
  /\ ndkEnv \in Layouts \cup {Unset}
  /\ bundled \in (Layouts \ {{}}) \cup {Unset}
  /\ sdkEnv \in [1..2 -> Homes \cup {Unset}]
  /\ sdk \in [Candidates -> SdkLayouts]
  /\ result = Pending

GetNdkHome ==
  /\ result = Pending
  /\ result' = GetNdkHomeFinal(GetNdkHomeRoot)
  /\ UNCHANGED <<ndkEnv, bundled, sdkEnv, sdk>>

Next == GetNdkHome

Spec == Init /\ [][Next]_vars

=============================================================================
