--------------------------- MODULE PathDiscovery ---------------------------
(***************************************************************************)
(* src/ingestion/partition.rs: the files below a root, by a walk whose     *)
(* order nothing fixes, by a glob, or from an explicit list.               *)
(***************************************************************************)
EXTENDS Integers, Sequences, SequencesExt, FiniteSets

CONSTANTS
  Components,  \* the names of directories and files: numbers, in their order
  HiveNames,   \* those of the form key=value
  Trees,       \* sets of entries: [path, file, matches, readable]
  MaxListed    \* how many paths an explicit list has, with repetitions

ASSUME ComponentsAssumption == HiveNames \subseteq Components /\ Components \subseteq Int

\* A path leads to one entry, which has a name.
ASSUME TreesAssumption ==
  /\ MaxListed \in Nat
  /\ \A tree \in Trees :
       /\ IsFiniteSet(tree)
       /\ tree \subseteq [path: Seq(Components) \ {<<>>},
                         file: BOOLEAN, matches: BOOLEAN, readable: BOOLEAN]
       /\ \A d, e \in tree : d.path = e.path => d = e

VARIABLE walk  \* [op, tree, order, at, found, answer]

Operations == {"hive", "scan", "glob", "list"}

\* order: in which the entries come, for a list with repetitions.  A pattern
\* that does not compile and a root that is no directory are errors at once.
DiscoveryInit ==
  \E tree \in Trees : \E op \in Operations, valid \in BOOLEAN :
    \E order \in IF op = "list" THEN UNION {[1..n -> tree] : n \in 0..MaxListed}
                 ELSE SetToSeqs(tree) :
      walk = [op |-> op, tree |-> tree, order |-> order, at |-> 0, found |-> <<>>,
              answer |-> IF valid \/ op = "list" THEN "walking" ELSE "error"]

\* hive_segments_for_relative_parent: every directory, not the file name.
\* Mutant: one directory of the form key=value is enough.
SomeHive(path) ==
  Len(path) = 1 \/ \E i \in 1..(Len(path) - 1) : path[i] \in HiveNames

AllHive(path) == \A i \in 1..(Len(path) - 1) : path[i] \in HiveNames

Wanted(e) ==
  /\ e.file /\ e.matches
  /\ walk.op = "hive" => AllHive(e.path)

\* filter_map(|e| e.ok()): what cannot be read is left out; a glob stops.
Visit ==
  /\ walk.answer = "walking" /\ walk.op \in {"hive", "scan", "glob"}
  /\ walk.at < Len(walk.order)
  /\ LET e == walk.order[walk.at + 1]
     IN  IF ~e.readable /\ walk.op = "glob" THEN walk' = [walk EXCEPT !.answer = "error"]
         ELSE walk' = [walk EXCEPT !.at = @ + 1,
                !.found = IF e.readable /\ Wanted(e) THEN Append(@, e.path) ELSE @]

FirstOccurrence(found, path) ==
  IF \E i \in 1..Len(found) : found[i] = path THEN found ELSE Append(found, path)

TakeListed ==
  /\ walk.answer = "walking" /\ walk.op = "list" /\ walk.at < Len(walk.order)
  /\ LET e == walk.order[walk.at + 1]
     IN  IF ~(e.file /\ e.readable) THEN walk' = [walk EXCEPT !.answer = "error"]
         ELSE walk' = [walk EXCEPT !.at = @ + 1, !.found = FirstOccurrence(@, e.path)]

\* Paths compare component by component, a prefix before what it begins.
PathBefore(p, q) ==
  \/ IsStrictPrefix(p, q)
  \/ \E i \in 1..Len(p) : /\ i <= Len(q) /\ p[i] < q[i]
                          /\ \A j \in 1..(i - 1) : p[j] = q[j]

Elements(s) == {s[i] : i \in 1..Len(s)}

\* Every path once, in their order: sort() and dedup().
SortedPaths(s) ==
  CHOOSE t \in SetToSeqs(Elements(s)) :
    \A i, j \in 1..Len(t) : i < j => PathBefore(t[i], t[j])
InPathOrder(found) == IF walk.op = "list" THEN found ELSE SortedPaths(found)

ReturnPaths ==
  /\ walk.answer = "walking" /\ walk.at = Len(walk.order)
  /\ walk' = [walk EXCEPT !.answer = "paths", !.found = InPathOrder(@)]

DiscoveryNext == Visit \/ TakeListed \/ ReturnPaths

DiscoverySpec == DiscoveryInit /\ [][DiscoveryNext]_walk
-----------------------------------------------------------------------------
FirstAt(path) ==
  CHOOSE i \in 1..Len(walk.order) :
    walk.order[i].path = path /\ \A j \in 1..(i - 1) : walk.order[j].path # path

(***************************************************************************)
(* Whatever order the walk comes in, the answer is one and the same: each  *)
(* regular file that matches and that could be read, once, in the order of *)
(* the paths ("a stable sequence"); under a hive root, the files with only *)
(* key=value directories above them.  An explicit list keeps the caller's  *)
(* order and first occurrences, and a missing file fails it as a whole.    *)
(* A directory that cannot be read is left out without an error, except by *)
(* a glob, which never returns a part of the files.                        *)
(***************************************************************************)
OneSequence ==
  LET found == walk.found
      wanted == {e \in walk.tree : Wanted(e) /\ e.readable}
  IN  walk.answer = "paths" =>
        IF walk.op = "list"
        THEN /\ \A e \in Elements(walk.order) : e.file /\ e.readable
             /\ Elements(found) = {e.path : e \in Elements(walk.order)}
             /\ \A i, j \in 1..Len(found) : i < j => FirstAt(found[i]) < FirstAt(found[j])
        ELSE /\ Elements(found) = {e.path : e \in wanted}
             /\ \A i, j \in 1..Len(found) : i < j => PathBefore(found[i], found[j])
             /\ walk.op = "hive" =>
                  \A p \in Elements(found) : Elements(Front(p)) \subseteq HiveNames
             /\ walk.op = "glob" => \A e \in walk.tree : e.readable
=============================================================================
