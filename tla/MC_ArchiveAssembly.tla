------------------------- MODULE MC_ArchiveAssembly -------------------------
EXTENDS ArchiveAssembly

(* Files of an ohos_<type>_arm64 output directory: the stripped library,  *)
(* its unstripped copy, an unstripped host tool, an object file, a         *)
(* generated file whose name contains "obj", and a debug-symbol file.      *)
MCCandidates ==
  { [dir |-> <<>>, name |-> "libflutter.so"],
    [dir |-> <<"so.unstripped">>, name |-> "libflutter.so"],
    [dir |-> <<"exe.unstripped">>, name |-> "gen_snapshot"],
    [dir |-> <<"obj", "flutter">>, name |-> "engine.o"],
    [dir |-> <<"gen">>, name |-> "objects.json"],
    [dir |-> <<>>, name |-> "gen_snapshot.pdb"] }

(* Roots of OpenHarmony SDKs of API 10 and 9, and $OHOS_NDK_HOME given     *)
(* with a trailing separator.                                              *)
MCNdkRoots ==
  { [path |-> "/opt/sdk/openharmony/10/native", ver |-> "10"],
    [path |-> "/opt/sdk/openharmony/9/native", ver |-> "9"],
    [path |-> "/opt/sdk/openharmony/10/native/", ver |-> "10"] }

MCRequests == {{"zip"}, {"zip2"}, {"zip", "zip2"}}
=============================================================================
