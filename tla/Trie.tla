-------------------------------- MODULE Trie --------------------------------
(***************************************************************************)
(* The Merkle Patricia trie (proof/mpt/src): nodes, blinding, open,        *)
(* insert, delete and collapse, and the walk over the trie of a list.      *)
(*                                                                         *)
(* Hashes are free of collisions: the commitment of a node is the node     *)
(* with its long children blinded, and the provider answers a commitment   *)
(* with it. Lengths are in units in which a hash is HashLength; a path is  *)
(* a sequence of nibbles.                                                  *)
(***************************************************************************)
EXTENDS Integers, Sequences, FiniteSets, SequencesExt

CONSTANTS
  Nibbles,          \* the nibbles, an initial segment of the naturals
  HashLength,       \* length of a hash (32)
  ValueLength(_),   \* length of an encoded value
  EmptyStringCode   \* EMPTY_STRING_CODE, which is the encoding of index 0 (0x80)

ASSUME TrieAssumption ==
  HashLength \in Nat \ {0} /\ EmptyStringCode \in Nibbles /\ EmptyStringCode + 1 \in Nibbles

Empty == [type |-> "Empty"]
Leaf(prefix, value) == [type |-> "Leaf", prefix |-> prefix, value |-> value]
Extension(prefix, node) == [type |-> "Extension", prefix |-> prefix, node |-> node]
Branch(stack) == [type |-> "Branch", stack |-> stack]
Blinded(commitment) == [type |-> "Blinded", commitment |-> commitment]
KeyNotFound == [type |-> "KeyNotFound"]

Drop(path, n) == SubSeq(path, n + 1, Len(path))
Take(path, n) == SubSeq(path, 1, n)
common_prefix_length(p, q) == Len(LongestCommonPrefix({p, q}))

-----------------------------------------------------------------------------
\* Encoded lengths and blinding.
RECURSIVE length(_)
RECURSIVE blind_children(_)

blinded_length(n) == LET l == length(n) IN IF l >= HashLength THEN HashLength + 1 ELSE l

\* Encodable::length, with a header of length 1
length(n) ==
  CASE n.type = "Empty" -> 1
    [] n.type = "Blinded" -> HashLength + 1
    [] n.type = "Leaf" -> 1 + (Len(n.prefix) \div 2 + 1) + ValueLength(n.value)
    [] n.type = "Extension" -> 1 + (Len(n.prefix) \div 2 + 1) + blinded_length(n.node)
    [] n.type = "Branch" -> 1 + FoldSet(LAMBDA i, sum : sum + blinded_length(n.stack[i]), 0, Nibbles)

\* Encodable::encode: a child as it appears in the encoding of its parent.
encode_child(n) ==
  IF n.type \in {"Empty", "Blinded"} THEN n
  ELSE IF length(n) >= HashLength THEN Blinded(blind_children(n)) ELSE blind_children(n)

blind_children(n) ==
  CASE n.type = "Extension" -> [n EXCEPT !.node = encode_child(@)]
    [] n.type = "Branch" -> [n EXCEPT !.stack = [i \in Nibbles |-> encode_child(@[i])]]
    [] OTHER -> n

\* TrieNode::blind: the commitment of a node; that of an empty one is EMPTY_ROOT_HASH.
blind(n) == IF n.type = "Blinded" THEN n.commitment ELSE blind_children(n)

\* TrieNode::unblind
unblind(n) == IF n.type = "Blinded" THEN n.commitment ELSE n

-----------------------------------------------------------------------------
\* TrieNode::open: the value at path in a set, or the empty set.
RECURSIVE open(_, _)
open(n, path) ==
  CASE n.type = "Empty" -> {}
    [] n.type = "Blinded" -> open(unblind(n), path)
    [] n.type = "Leaf" -> IF n.prefix = path THEN {n.value} ELSE {}
    [] n.type = "Extension" -> IF IsPrefix(n.prefix, path) THEN open(n.node, Drop(path, Len(n.prefix))) ELSE {}
    [] n.type = "Branch" -> open(n.stack[path[1]], Tail(path))

\* A branch of two nodes at the paths p and q, under the nibbles the paths share.
Split(p, q, below_p(_), below_q(_)) ==
  LET shared == common_prefix_length(p, q)
      branch == Branch([i \in Nibbles |-> IF i = p[shared + 1] THEN below_p(shared + 1)
                                          ELSE IF i = q[shared + 1] THEN below_q(shared + 1) ELSE Empty])
  IN  IF shared = 0 THEN branch ELSE Extension(Take(p, shared), branch)

\* TrieNode::insert
RECURSIVE insert(_, _, _)
insert(n, path, value) ==
  CASE n.type = "Empty" -> Leaf(path, value)
    [] n.type = "Blinded" -> insert(unblind(n), path, value)
    [] n.type = "Leaf" /\ n.prefix = path -> Leaf(path, value)
    [] n.type = "Leaf" /\ n.prefix # path ->
         LET old(k) == Leaf(Drop(n.prefix, k), n.value)
             new(k) == Leaf(Drop(path, k), value)
         IN  Split(n.prefix, path, old, new)
    [] n.type = "Extension" /\ IsPrefix(n.prefix, path) ->
         [n EXCEPT !.node = insert(@, Drop(path, Len(n.prefix)), value)]
    [] n.type = "Extension" /\ ~IsPrefix(n.prefix, path) ->
         LET old(k) == IF k = Len(n.prefix) THEN n.node ELSE Extension(Drop(n.prefix, k), n.node)
             new(k) == Leaf(Drop(path, k), value)
         IN  Split(n.prefix, path, old, new)
    [] n.type = "Branch" -> [n EXCEPT !.stack[path[1]] = insert(@, Tail(path), value)]

\* A node below a prefix, in its most compact form.
Below(prefix, n) ==
  CASE n.type = "Extension" -> Extension(prefix \o n.prefix, n.node)
    [] n.type = "Leaf" -> Leaf(prefix \o n.prefix, n.value)
    [] n.type = "Empty" -> Empty
    [] OTHER -> Extension(prefix, n)

Children(n) == {i \in Nibbles : n.stack[i] # Empty}

\* Mutant: the last child of a branch is not revealed before it takes the place of the branch.
collapse_blinded(n) ==
  CASE n.type = "Extension" -> Below(n.prefix, n.node)
    [] n.type = "Branch" /\ Cardinality(Children(n)) = 1 ->
         LET i == CHOOSE j \in Children(n) : TRUE IN Below(<<i>>, n.stack[i])
    [] OTHER -> n

\* TrieNode::collapse_if_possible. A blinded child of an extension is a branch and stays.
collapse_if_possible(n) ==
  CASE n.type = "Extension" -> Below(n.prefix, n.node)
    [] n.type = "Branch" /\ Cardinality(Children(n)) = 1 ->
         LET i == CHOOSE j \in Children(n) : TRUE IN Below(<<i>>, unblind(n.stack[i]))
    [] OTHER -> n

\* TrieNode::delete
RECURSIVE delete(_, _)
delete(n, path) ==
  CASE n.type = "Empty" -> KeyNotFound
    [] n.type = "Blinded" -> delete(unblind(n), path)
    [] n.type = "Leaf" -> IF n.prefix = path THEN Empty ELSE KeyNotFound
    [] n.type = "Extension" ->
         IF ~IsPrefix(n.prefix, path) THEN KeyNotFound
         ELSE IF n.prefix = path THEN Empty
         ELSE LET node == delete(n.node, Drop(path, Len(n.prefix)))
              IN  IF node = KeyNotFound THEN node ELSE collapse_if_possible([n EXCEPT !.node = node])
    [] n.type = "Branch" ->
         LET node == delete(n.stack[path[1]], Tail(path))
         IN  IF node = KeyNotFound THEN node ELSE collapse_if_possible([n EXCEPT !.stack[path[1]] = node])

-----------------------------------------------------------------------------
\* The trie of a map from paths to values, by definition.
RECURSIVE TrieOf(_)
TrieOf(m) ==
  LET p == LongestCommonPrefix(DOMAIN m)
      Under(q) == LET ps == {x \in DOMAIN m : IsPrefix(q, x)}
                  IN  TrieOf([x \in {Drop(y, Len(q)) : y \in ps} |-> m[q \o x]])
  IN  CASE DOMAIN m = {} -> Empty
        [] Cardinality(DOMAIN m) = 1 -> Leaf(p, m[p])
        [] Cardinality(DOMAIN m) > 1 /\ p # <<>> -> Extension(p, Under(p))
        [] OTHER -> Branch([i \in Nibbles |-> Under(<<i>>)])

-----------------------------------------------------------------------------
\* The trie of a list: its keys are the encoded indices, so the first item comes after those up
\* to EmptyStringCode (util.rs, list_walker.rs).
index_path(i) == IF i = 0 THEN <<EmptyStringCode>> ELSE IF i < EmptyStringCode THEN <<i>> ELSE <<EmptyStringCode + 1, i - EmptyStringCode>>

\* adjust_index_for_rlp: the i-th key in the order of the keys
adjust_index_for_rlp(i, len) ==
  IF i > EmptyStringCode - 1 THEN i ELSE IF i = EmptyStringCode - 1 \/ i + 1 = len THEN 0 ELSE i + 1

ordered_trie_with_encoder(items) ==
  FoldLeft(LAMBDA n, i : LET index == adjust_index_for_rlp(i, Len(items)) IN insert(n, index_path(index), items[index + 1]),
           Empty, [i \in 1 .. Len(items) |-> i - 1])

RECURSIVE fetch_leaves(_)
fetch_leaves(n) ==
  CASE n.type = "Empty" -> <<>>
    [] n.type = "Blinded" -> fetch_leaves(unblind(n))
    [] n.type = "Leaf" -> <<n.value>>
    [] n.type = "Extension" -> fetch_leaves(n.node)
    [] n.type = "Branch" -> FlattenSeq([k \in 1 .. Cardinality(Nibbles) |-> fetch_leaves(n.stack[k - 1])])

\* Mutant: the first item is always taken from the end.
hydrate_last(n) ==
  LET leaves == fetch_leaves(n)
  IN  IF leaves = <<>> THEN leaves ELSE <<Last(leaves)>> \o Front(leaves)

\* OrderedListWalker::hydrate
hydrate(n) ==
  LET leaves == fetch_leaves(n)
      first == IF Len(leaves) <= EmptyStringCode THEN Len(leaves) ELSE EmptyStringCode
  IN  IF leaves = <<>> THEN leaves ELSE <<leaves[first]>> \o RemoveAt(leaves, first)
=============================================================================
