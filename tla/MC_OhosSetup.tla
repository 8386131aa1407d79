--------------------------- MODULE MC_OhosSetup ---------------------------
(* Instance of OhosSetup for TLC: two repositories.  r1 holds two patch    *)
(* targets and a file-set overlay over an untracked file; r2 (protected by *)
(* no stash) a directory overlay whose source lacks the file f5 that may   *)
(* exist there, and an entry of unknown type.                              *)
EXTENDS OhosSetup

CONSTANTS r1, r2, f1, f2, f3, f5

MCRepoOf == [f \in {f1, f2, f3} |-> r1] @@ [f \in {f5} |-> r2]

MCTracked == {f1, f2}

Patch(r, S, bad) == [type |-> "patch", repo |-> r, files |-> S, src |-> {},
                    malformed |-> bad]
Copy(k, r, S, src) == [type |-> k, repo |-> r, files |-> S, src |-> src,
                       malformed |-> FALSE]

MCConfig == << Patch(r1, {f1}, FALSE),
               Copy("files", r1, {f3}, {f3}),
               Patch(r1, {f2}, FALSE),
               Copy("dir", r2, {f5}, {}),
               Copy("other", r2, {}, {}) >>

(* The same list with a patch file git cannot parse.                      *)
MCConfigMalformed == [MCConfig EXCEPT ![3] = Patch(r1, {f2}, TRUE)]

MCEditTag == <<"e1", "e2", "e3">>
=============================================================================
