------------------------------- MODULE DocMap -------------------------------
(***************************************************************************)
(* What a document store promises: a table is created once, a batch of     *)
(* documents is added as a whole, the last document of a uid counts, and   *)
(* nothing else ever changes what is stored.                               *)
(***************************************************************************)
EXTENDS Sequences, SequencesExt, TLC

CONSTANTS Names, Batches

VARIABLES
  tables,  \* the names of the tables
  docs     \* the value of each <<name, uid>>

mapVars == <<tables, docs>>

MapInit == tables = {} /\ docs = <<>>

Create(n) ==
  /\ n \notin tables
  /\ tables' = tables \cup {n}
  /\ UNCHANGED docs

Add(n, batch) ==
  /\ n \in tables
  /\ docs' = FoldLeft(LAMBDA acc, d : (<<n, d.uid>> :> d.val) @@ acc, docs, batch)
  /\ UNCHANGED tables

MapNext == \E n \in Names : Create(n) \/ \E batch \in Batches : Add(n, batch)

MapSpec == MapInit /\ [][MapNext]_mapVars
=============================================================================
