-------------------------- MODULE ExclusiveResource --------------------------
(***************************************************************************)
(* What the registry of character runtimes promises for one character      *)
(* (doc comments of character-runtime-registry.ts, and                     *)
(* docs/core-registry-design-2026-09-22.md): at most one resource is held, *)
(* work is admitted only while no fence is up, a resource is closed only   *)
(* behind the fence and after the work has left, and the files of the      *)
(* character are changed only behind the fence while nothing is held.      *)
(***************************************************************************)
EXTENDS Naturals

CONSTANTS Resources, Workers

VARIABLES
  held,     \* the resources that are open: one, or none
  working,  \* the admitted operations
  fenced,   \* no operation is admitted
  changes   \* how often the files were removed or replaced by maintenance

vars == <<held, working, fenced, changes>>

Init ==
  /\ held = {}
  /\ working = {}
  /\ fenced = FALSE
  /\ changes = 0

\* A resource that was being opened when the fence went up still arrives.
Open(r) ==
  /\ held = {}
  /\ held' = {r}
  /\ UNCHANGED <<working, fenced, changes>>

Enter(w) ==
  /\ held # {}
  /\ ~fenced
  /\ working' = working \cup {w}
  /\ UNCHANGED <<held, fenced, changes>>

Leave(w) ==
  /\ working' = working \ {w}
  /\ UNCHANGED <<held, fenced, changes>>

Fence ==
  /\ fenced' = TRUE
  /\ UNCHANGED <<held, working, changes>>

Close ==
  /\ fenced
  /\ working = {}
  /\ held' = {}
  /\ UNCHANGED <<working, fenced, changes>>

\* The change may be the last thing done behind the fence.
Change ==
  /\ fenced
  /\ held = {}
  /\ changes' = changes + 1
  /\ fenced' \in BOOLEAN
  /\ UNCHANGED <<held, working>>

Unfence ==
  /\ held = {}
  /\ fenced' = FALSE
  /\ UNCHANGED <<held, working, changes>>

Next ==
  \/ \E r \in Resources : Open(r)
  \/ \E w \in Workers : Enter(w) \/ Leave(w)
  \/ Fence
  \/ Close
  \/ Change
  \/ Unfence

Spec == Init /\ [][Next]_vars
=============================================================================
