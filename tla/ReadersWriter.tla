---------------------------- MODULE ReadersWriter ----------------------------
(***************************************************************************)
(* What a readers-writer lock promises: any number of readers, or one      *)
(* writer and nobody else.                                                 *)
(***************************************************************************)
CONSTANT Thread

VARIABLES readers, writers   \* the threads inside

vars == <<readers, writers>>

Init == readers = {} /\ writers = {}

Read(t) ==
  /\ t \notin readers /\ writers = {}
  /\ readers' = readers \union {t}
  /\ UNCHANGED writers

Write(t) ==
  /\ readers = {} /\ writers = {}
  /\ writers' = {t}
  /\ UNCHANGED readers

Leave(t) ==
  /\ t \in readers \union writers
  /\ readers' = readers \ {t}
  /\ writers' = writers \ {t}

Next == \E t \in Thread : Read(t) \/ Write(t) \/ Leave(t)

Spec == Init /\ [][Next]_vars
=============================================================================
