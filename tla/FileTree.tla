------------------------------ MODULE FileTree ------------------------------
(***************************************************************************)
(* What users of a file system rely on: a tree below a root folder, in which *)
(* entries are added one at a time and removed with all that is below them.  *)
(* Nothing else changes it, in particular not the end of a program that was  *)
(* in the middle of something.                                               *)
(***************************************************************************)
CONSTANT Root

VARIABLES
  nodes,  \* [in, name, id, is]: the folder, the name there, the node and its kind
  sound   \* the promise holds

vars == <<nodes, sound>>

Init == nodes = {} /\ sound = TRUE

Folders == {Root} \cup {d.id : d \in {e \in nodes : e.is = "folder"}}

\* A new node, in a folder that is there and under a name that is free.
Add ==
  \E d \in nodes' :
    /\ nodes' = nodes \cup {d}
    /\ d.in \in Folders
    /\ \A e \in nodes : e.id # d.id /\ (e.in = d.in => e.name # d.name)

\* A node goes, and with it exactly those whose folder goes.
Remove ==
  /\ nodes' \subseteq nodes
  /\ LET gone == nodes \ nodes'
     IN  \E d \in gone :
           \A e \in nodes : e \in gone \ {d} <=> \E g \in gone : e.in = g.id

\* The promise may be broken, and then nothing is promised any more.
Break == sound' = FALSE

Next == Break \/ (UNCHANGED sound /\ (Add \/ Remove))

Spec == Init /\ [][Next]_vars
=============================================================================
