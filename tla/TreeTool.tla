------------------------------ MODULE TreeTool ------------------------------
(***************************************************************************)
(* The static functions of TreeTool, over a sequence of ids and the parent  *)
(* each id names.  A forest is the sequence of its roots with the sequence  *)
(* of children of every node.  The objects that carry the ids are left out, *)
(* and so is map, which changes nothing else.                               *)
(***************************************************************************)
EXTENDS Integers, Sequences, FiniteSets, SequencesExt

\* What the rounds 1 .. k make of start, for every k up to n.
Repeats(round, start, n) ==
  LET after[k \in 0 .. n] == IF k = 0 THEN start ELSE round[k][after[k - 1]]
  IN after

\* The elements of a sequence that are in a set, in their order.
Select(seq, chosen) ==
  LET pick == [k \in DOMAIN seq |-> [out \in Seq(ToSet(seq)) |->
                IF seq[k] \in chosen THEN Append(out, seq[k]) ELSE out]]
  IN Repeats(pick, <<>>, Len(seq))[Len(seq)]

\* Mutant: what names a parent that is not there is dropped.
ToTreeDropping(items, parent, rootParent) ==
  LET roots == {n \in ToSet(items) : parent[n] = rootParent} IN
  [roots |-> Select(items, roots),
   children |-> [p \in ToSet(items) |->
                  Select(items, {n \in ToSet(items) \ roots : parent[n] = p})]]

\* Roots name the given parent, or one that is not there.  The siblings keep the
\* order of the items: the services sort by a column that is always 0.
ToTree(items, parent, rootParent) ==
  LET roots == {n \in ToSet(items) : parent[n] = rootParent \/ parent[n] \notin ToSet(items)} IN
  [roots |-> Select(items, roots),
   children |-> [p \in ToSet(items) |->
                  Select(items, {n \in ToSet(items) \ roots : parent[n] = p})]]

Nodes(forest) == DOMAIN forest.children
NumNodes(forest) == Cardinality(Nodes(forest))

\* The node on top of the stack is written down and its children are pushed, the
\* first of them last.
Flatten(forest) ==
  LET visit == [k \in 1 .. NumNodes(forest) |->
                 [at \in [stack : Seq(Nodes(forest)), out : Seq(Nodes(forest))] |->
                   IF at.stack = <<>> THEN at
                   ELSE [stack |-> Front(at.stack) \o Reverse(forest.children[Last(at.stack)]),
                         out |-> Append(at.out, Last(at.stack))]]]
      start == [stack |-> forest.roots, out |-> <<>>]
  IN Repeats(visit, start, NumNodes(forest))[NumNodes(forest)].out

\* The first of the matching nodes in the order of Flatten; <<>> for null.
FindNode(forest, matching) ==
  LET found == Select(Flatten(forest), matching) IN
  IF found = <<>> THEN <<>> ELSE <<Head(found)>>

\* The path to the first match, depth first; <<>> for null.  The search gets no
\* deeper than there are nodes.
FindPath(forest, matching) ==
  LET hits(nodes, below) == Select(nodes, {n \in Nodes(forest) : below[n] # <<>>})
      deeper == [k \in 1 .. NumNodes(forest) |->
                  [below \in [Nodes(forest) -> Seq(Nodes(forest))] |->
                    [n \in Nodes(forest) |->
                      IF n \in matching THEN <<n>>
                      ELSE IF hits(forest.children[n], below) = <<>> THEN <<>>
                      ELSE <<n>> \o below[Head(hits(forest.children[n], below))]]]]
      start == [n \in Nodes(forest) |-> <<>>]
      below == Repeats(deeper, start, NumNodes(forest))[NumNodes(forest)]
  IN IF hits(forest.roots, below) = <<>> THEN <<>> ELSE below[Head(hits(forest.roots, below))]

\* Nodes that match or have a descendant that does, no deeper than there are nodes.
FilterTree(forest, matching) ==
  LET more == [k \in 1 .. NumNodes(forest) |-> [keep \in SUBSET Nodes(forest) |->
                {n \in Nodes(forest) :
                   n \in matching \/ ToSet(forest.children[n]) \cap keep # {}}]]
      keep == Repeats(more, {}, NumNodes(forest))[NumNodes(forest)]
  IN [roots |-> Select(forest.roots, keep),
      children |-> [n \in Nodes(forest) |-> Select(forest.children[n], keep)]]

=============================================================================
