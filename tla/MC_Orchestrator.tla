-------------------------- MODULE MC_Orchestrator --------------------------
(* Two build types, the -n name sets of the common invocations, and an     *)
(* $OHOS_NDK_HOME that is unset, complete, or missing llvm/bin.            *)
EXTENDS Orchestrator

CONSTANTS h1

MCBuildTypes == <<"debug", "profile">>

MCNameChoices ==
  { {}, {"compile"}, {"clean", "config"}, {"har", "compile"},
    {"config", "har", "compile", "zip"}, {"zip2"} }

MCNdkChoices ==
  { Unset, Ndk!Subpaths, Ndk!Subpaths \ {"llvm/bin"} }

MCHomePath == [h \in {h1} |-> <<115>>]

MCVersions == {<<9>>}

(* ninja or hvigor failing with 1, or killed by SIGKILL (wait() gives -9). *)
MCFailCodes == {1, -9}
=============================================================================
