---------------------------- MODULE StageMatrix ----------------------------
(***************************************************************************)
(* Abstract specification of the StageMatrix of spec section 3: a run is   *)
(* given a set of (build type, stage) cells and runs each of them once, in *)
(* the canonical order (types in order, and within a type the stages in   *)
(* order), unless a stage fails and ends the run.  Between runs the tool  *)
(* may also fail before it starts building.                                *)
(***************************************************************************)
EXTENDS Naturals, Sequences

CONSTANTS
  Types,    \* build types in canonical order
  Stages    \* stage names in canonical order

Cells == (DOMAIN Types) \X (DOMAIN Stages)

(* Canonical order of cells: by type, then by stage.                       *)
Before(c, d) == c[1] < d[1] \/ (c[1] = d[1] /\ c[2] < d[2])

First(S) == CHOOSE c \in S : \A d \in S : c = d \/ Before(c, d)

CellName(c) == <<Types[c[1]], Stages[c[2]]>>

VARIABLES
  active,   \* the run is building
  todo,     \* requested cells not yet run
  ran,      \* the stages this run has started, in order
  ok        \* the run has not failed

avars == <<active, todo, ran, ok>>

Init == active = FALSE /\ todo = {} /\ ran = <<>> /\ ok = TRUE

(* A new invocation that does something else before building.             *)
Prepare ==
  /\ ~active
  /\ todo' = {} /\ ran' = <<>> /\ ok'
  /\ UNCHANGED active

(* An invocation fails before it builds anything.                         *)
PrepFail == ~active /\ ~ok' /\ ran' = <<>> /\ UNCHANGED <<active, todo>>

(* Building starts with the requested cells.                               *)
Request ==
  /\ ~active /\ active'
  /\ todo' \in SUBSET Cells
  /\ ran' = <<>> /\ ok'

(* The first remaining cell runs; the run may end with it if it was the   *)
(* last one.                                                               *)
Run ==
  /\ active /\ todo # {}
  /\ ran' = Append(ran, CellName(First(todo)))
  /\ todo' = todo \ {First(todo)}
  /\ active' \/ todo' = {}
  /\ UNCHANGED ok

(* The first remaining cell runs and fails; the run ends.                  *)
Abort ==
  /\ active /\ todo # {}
  /\ ran' = Append(ran, CellName(First(todo)))
  /\ ~active' /\ todo' = {} /\ ~ok'

(* Every requested cell has run.                                           *)
Finish ==
  /\ active /\ todo = {}
  /\ ~active' /\ ok'
  /\ UNCHANGED <<todo, ran>>

Next == Prepare \/ PrepFail \/ Request \/ Run \/ Abort \/ Finish

Spec == Init /\ [][Next]_avars
=============================================================================
