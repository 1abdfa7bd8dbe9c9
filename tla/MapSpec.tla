------------------------------ MODULE MapSpec ------------------------------
(***************************************************************************)
(* What a dictionary promises: a finite map, and calls that each read or   *)
(* change one key and answer from the map as it is at that moment.  A step *)
(* is a call, which `last' holds once it is made: [op, arg, res].          *)
(***************************************************************************)
EXTENDS Integers, SequencesExt, TLC

VARIABLES map, last

arg == last'.arg
Answers(op, res) == last'.op = op /\ last'.res = res

Without(m, keys) == [x \in DOMAIN m \ keys |-> m[x]]

MapAdd == Answers("add", arg[1] \notin DOMAIN map) /\ map' = map @@ (arg[1] :> arg[2])
MapReplace == Answers("replace", arg[1] \notin DOMAIN map) /\ map' = (arg[1] :> arg[2]) @@ map
MapDelete == Answers("delete", arg[1] \in DOMAIN map) /\ map' = Without(map, {arg[1]})
\* The value found, as a set with at most one element.
MapFind == Answers("find", {map[x] : x \in DOMAIN map \cap {arg[1]}}) /\ UNCHANGED map
\* The keys a random pick may return: each key of the map, and nothing else.
MapRandom == Answers("random", DOMAIN map) /\ UNCHANGED map
\* Every key of the given set is removed; how many there were.
MapDrop == Answers("drop", Cardinality(arg[1] \cap DOMAIN map)) /\ map' = Without(map, arg[1])
MapClear == Answers("clear", TRUE) /\ map' = <<>>

MapInit == map = <<>>
MapNext == MapAdd \/ MapReplace \/ MapDelete \/ MapFind \/ MapRandom \/ MapDrop \/ MapClear
=============================================================================
