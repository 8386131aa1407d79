--------------------------- MODULE MC_SourceSync ---------------------------
(* src/flutter (r2) holds a directory overlay whose source lacks the file *)
(* f5 a developer may create there, and a file-set overlay; r1 holds two  *)
(* patch targets.                                                          *)
EXTENDS SourceSync, TLC

CONSTANTS r1, r2, f1, f2, f3, f5

MCRepoOf == [f \in {f1, f2} |-> r1] @@ [f \in {f3, f5} |-> r2]

MCTracked == {f1, f2, f3}

Patch(r, S) == [type |-> "patch", repo |-> r, files |-> S, src |-> {},
                malformed |-> FALSE]
Copy(k, r, S, src) == [type |-> k, repo |-> r, files |-> S, src |-> src,
                       malformed |-> FALSE]

MCConfig == << Patch(r1, {f1}),
               Copy("dir", r2, {f5}, {}),
               Copy("file", r2, {f3}, {f3}),
               Patch(r1, {f2}) >>

MCEditTag == <<"e1", "e2", "e3">>
=============================================================================
