------------------------------- MODULE Merkle -------------------------------
(* The tree of hashes over a checkpoint's tree-state (bridge/merkle.py): a   *)
(* pinned tree and the one recomputed later, the paths localize names, and  *)
(* the audit path that proves one file under a root.                        *)
(*                                                                          *)
(* A hash is the value hashed: canonical_hash is taken to be injective.  A  *)
(* tree-state maps paths to entries; the directories of the record's own    *)
(* fold are entries too, but the scheme does not rely on it.                *)
EXTENDS Naturals, Sequences, SequencesExt, FiniteSets

CONSTANTS AllPaths,     \* the paths of a tree-state, sequences of names
          Metas,        \* what an entry says besides its kind
          Scheme        \* 1: children only, 2: a directory's own entry too

VARIABLES pinned, live  \* the tree-state of the checkpoint, and now

vars == <<pinned, live>>

NoEntry == << >>
Dir(m)  == <<"dir", m>>
File(m) == <<"reg", m>>
Entries == {Dir(m) : m \in Metas} \cup {File(m) : m \in Metas}

Init == pinned = [p \in AllPaths |-> NoEntry] /\ live = pinned

----------------------------------------------------------------------------
(* Entries below a file turn it into a directory without an entry of its    *)
(* own, as do entries below a path that has none (_structure).              *)
Present(t) == {p \in DOMAIN t : t[p] # NoEntry}
Below(t, p) == {q \in Present(t) : Len(q) > Len(p) /\ IsPrefix(p, q)}
InTree(t, p) == p \in Present(t) \/ Below(t, p) # {}
IsDir(t, p) == p = << >> \/ Below(t, p) # {} \/ (p \in Present(t) /\ t[p][1] = "dir")
OwnEntry(t, p) == IF p \in Present(t) /\ t[p][1] = "dir" THEN t[p] ELSE NoEntry
Children(t, p) ==
  {q[Len(p) + 1] : q \in Below(t, p)}

RECURSIVE Hash(_, _)
Hash(t, p) ==
  LET pairs == [n \in Children(t, p) |-> Hash(t, Append(p, n))]
  IN  IF ~ IsDir(t, p) THEN <<"leaf", t[p]>>
      ELSE IF Scheme = 1 THEN <<"dir", pairs>> ELSE <<"dir", OwnEntry(t, p), pairs>>

Root(t) == Hash(t, << >>)

(* The walk over both trees: a matching hash prunes, a difference descends, *)
(* and a directory is named itself only if no child was.                    *)
(* Mutant: the directory's own entry is forgotten. *)
RECURSIVE WalkChildrenOnly(_, _, _)
WalkChildrenOnly(a, b, p) ==
  IF InTree(a, p) /\ InTree(b, p) /\ Hash(a, p) = Hash(b, p) THEN {}
  ELSE LET aDir == InTree(a, p) /\ IsDir(a, p)
           bDir == InTree(b, p) /\ IsDir(b, p)
           names == (IF aDir THEN Children(a, p) ELSE {})
                      \cup (IF bDir THEN Children(b, p) ELSE {})
           below == UNION {WalkChildrenOnly(a, b, Append(p, n)) : n \in names}
       IN  IF aDir /\ bDir THEN below ELSE below \cup {p}

RECURSIVE Walk(_, _, _)
Walk(a, b, p) ==
  LET inA == p = << >> \/ InTree(a, p)
      inB == p = << >> \/ InTree(b, p)
      aDir == inA /\ IsDir(a, p)
      bDir == inB /\ IsDir(b, p)
      names == (IF aDir THEN Children(a, p) ELSE {}) \cup (IF bDir THEN Children(b, p) ELSE {})
      below == UNION {Walk(a, b, Append(p, n)) : n \in names}
  IN  IF inA /\ inB /\ Hash(a, p) = Hash(b, p) THEN {}
      ELSE IF aDir /\ bDir /\ below # {} THEN below
      ELSE below \cup {p}

Localize(a, b) == Walk(a, b, << >>)

(* One level of an audit path: the name taken, the directory's own entry,   *)
(* and the hashes of the other children.  Leaf's parent first.              *)
Level(t, p, n) ==
  [name |-> n, node |-> OwnEntry(t, p),
   siblings |-> [m \in Children(t, p) \ {n} |-> Hash(t, Append(p, m))]]

InclusionProof(t, p) ==
  IF p = << >> \/ ~ InTree(t, p) \/ IsDir(t, p) THEN << >>
  ELSE [i \in 1..Len(p) |-> Level(t, SubSeq(p, 1, Len(p) - i), p[Len(p) - i + 1])]

FoldLevel(level, running) ==
  LET pairs == [m \in DOMAIN level.siblings \cup {level.name} |->
                  IF m = level.name THEN running ELSE level.siblings[m]]
  IN  IF Scheme = 1 THEN <<"dir", pairs>> ELSE <<"dir", level.node, pairs>>

VerifyInclusion(leaf, path, root) ==
  path # << >> /\ FoldLeft(LAMBDA run, level : FoldLevel(level, run), leaf, path) = root

----------------------------------------------------------------------------
(* The live tree changes one path at a time; now and then it is pinned.     *)
Change ==
  \E p \in AllPaths : \E e \in Entries \cup {NoEntry} :
    live' = [live EXCEPT ![p] = e] /\ UNCHANGED pinned

Pin == pinned # live /\ pinned' = live /\ UNCHANGED live

Next == Change \/ Pin
Spec == Init /\ [][Next]_vars

----------------------------------------------------------------------------
(* What a comparison names is what differs: a path is named when a file     *)
(* differs, appeared, vanished or traded places with a directory there, or  *)
(* when a directory's own entry alone differs; and never anything else.     *)
Kind(t, p) == IF p # << >> /\ ~ InTree(t, p) THEN "none" ELSE IF IsDir(t, p) THEN "dir" ELSE "reg"

Nodes == {<< >>} \cup UNION {{SubSeq(p, 1, k) : k \in 1..Len(p)} : p \in AllPaths}

Differs(p) ==
  \/ Kind(pinned, p) # Kind(live, p)
  \/ Kind(live, p) = "reg" /\ pinned[p] # live[p]

OwnDiffers(p) ==
  /\ Scheme = 2 /\ Kind(pinned, p) = "dir" /\ Kind(live, p) = "dir"
  /\ OwnEntry(pinned, p) # OwnEntry(live, p)

LocalizeIsExact ==
  LET named == Localize(pinned, live)
      strictly(p, q) == Len(q) > Len(p) /\ IsPrefix(p, q)
  IN  \A p \in Nodes :
        p \in named <=>
          \/ Differs(p)
          \/ /\ OwnDiffers(p)
             /\ ~ \E q \in Nodes : strictly(p, q) /\ (Differs(q) \/ OwnDiffers(q))

(* A file's proof from the pinned tree verifies under the live root exactly *)
(* when nothing anywhere in the tree differs.                               *)
ProofsFollowTheTree ==
  \A p \in AllPaths :
    LET path == InclusionProof(pinned, p)
    IN  path # << >> =>
          (VerifyInclusion(Hash(pinned, p), path, Root(live)) <=> Root(pinned) = Root(live))

=============================================================================
