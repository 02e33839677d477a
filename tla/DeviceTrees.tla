----------------------------- MODULE DeviceTrees -----------------------------
(***************************************************************************)
(* The walks over the two flat forms of a device tree that the serial and  *)
(* interrupt drivers find their registers with: the token stream of        *)
(* kernel/fdtree.c (QEMU) and the counted records of kernel/dtree.c        *)
(* (Apple).  Each is compared with a search in the tree itself, for every  *)
(* tree of three levels.                                                   *)
(*                                                                         *)
(* A tree is [name, props, kids]; a name says whether it is the one that   *)
(* is searched for, a property is [key, len].                              *)
(***************************************************************************)
EXTENDS Integers, SequencesExt, FiniteSetsExt

\* Paths are sequences of positive numbers.
NotFound == <<0>>

\* All the nodes of a tree in the order of the flat form, with their paths.
RECURSIVE Preorder(_, _)
Preorder(tree, path) ==
  <<[path |-> path, node |-> tree]>>
    \o FlattenSeq([i \in DOMAIN tree.kids |-> Preorder(tree.kids[i], Append(path, i))])

\* Reference: the path of the first property, in that order, that satisfies P.
FirstProp(tree, P(_, _)) ==
  LET all == Preorder(tree, << >>)
      hits == {<<i, j>> \in (DOMAIN all) \X (1..2) :
                 j \in DOMAIN all[i].node.props /\ P(all[i].node, all[i].node.props[j])}
      node == Min({h[1] : h \in hits})
  IN  IF hits = {} THEN NotFound
      ELSE Append(all[node].path, Min({h[2] : h \in {g \in hits : g[1] = node}}))

Node(name, props, kids) == [name |-> name, props |-> props, kids |-> kids]

\* Trees of three levels over the given properties.
TreesOf(props) ==
  LET leaf == {Node(n, p, << >>) : n \in {"hit", "miss"}, p \in props}
      inner == leaf \cup {Node(n, p, <<k>>) : n \in {"hit", "miss"}, p \in props, k \in leaf}
  IN  {Node("miss", << >>, kids) : kids \in SeqOf(inner, 2)}

------------------------------------------------------------------------------
(* The flattened device tree.                                              *)

\* The tokens of a tree; with nops, FDT_NOP comes before each of them.
RECURSIVE FdtTokens(_, _)
FdtTokens(tree, path) ==
  <<[t |-> "BEGIN_NODE", name |-> tree.name]>>
    \o [i \in DOMAIN tree.props |-> [t |-> "PROP", prop |-> tree.props[i],
                                     val |-> Append(path, i)]]
    \o FlattenSeq([i \in DOMAIN tree.kids |-> FdtTokens(tree.kids[i], Append(path, i))])
    \o <<[t |-> "END_NODE"]>>
Fdt(tree, nops) ==
  LET s == FdtTokens(tree, << >>)
  IN  IF nops THEN FlattenSeq([i \in DOMAIN s |-> <<[t |-> "NOP"], s[i]>>]) ELSE s

\* read_token: the index of the next token, FDT_NOP skipped.
ReadToken(s, ptr) == Min({i \in ptr..Len(s) : s[i].t # "NOP"})

\* The two callbacks: find_fdtree_prop_cb stops (2) at a node whose name begins
\* with the prefix, for a property with the key and the size of the buffer.
FindFdtPropCb(name, prop) == name = "hit" /\ prop.key = "reg" /\ prop.len = 16

\* parse_fdt_node: the properties come first, then the nodes, each of which is
\* read again from its FDT_BEGIN_NODE; a result other than 0 ends the walk.
RECURSIVE ParseFdtNode(_, _), ParseFdtProps(_, _, _), ParseFdtKids(_, _)
ParseFdtNode(s, ptr) ==
  LET i == ReadToken(s, ptr)
  IN  IF s[i].t # "BEGIN_NODE" THEN [res |-> 1, ptr |-> i + 1]
      ELSE ParseFdtProps(s, i + 1, s[i].name)
ParseFdtProps(s, ptr, name) ==
  LET i == ReadToken(s, ptr)
  IN  IF s[i].t # "PROP" THEN ParseFdtKids(s, ptr)
      ELSE IF FindFdtPropCb(name, s[i].prop) THEN [res |-> 2, val |-> s[i].val]
      ELSE ParseFdtProps(s, i + 1, name)
ParseFdtKids(s, ptr) ==
  LET i == ReadToken(s, ptr)
  IN  IF s[i].t = "BEGIN_NODE"
      THEN LET r == ParseFdtNode(s, i) IN IF r.res # 0 THEN r ELSE ParseFdtKids(s, r.ptr)
      ELSE [res |-> IF s[i].t = "END_NODE" THEN 0 ELSE 1, ptr |-> i + 1]

\* fdtree_find_prop.
FdtreeFindProp(s) == LET r == ParseFdtNode(s, 1)
                     IN  IF r.res = 2 THEN r.val ELSE NotFound

\* The walk finds the property that a search in the tree finds first, however
\* nodes nest and wherever FDT_NOP stands; in particular it comes back to the
\* right level after a node with nodes in it.
ASSUME FdtFindsFirst ==
  \A tree \in TreesOf({<< >>, <<[key |-> "reg", len |-> 8]>>, <<[key |-> "reg", len |-> 16]>>}),
     nops \in BOOLEAN :
    FdtreeFindProp(Fdt(tree, nops)) =
      FirstProp(tree, LAMBDA n, p : FindFdtPropCb(n.name, p))

------------------------------------------------------------------------------
(* The Apple device tree, in words: a node is NodeSize words and then its   *)
(* properties and nodes, a property is PropSize words and its value.       *)

NodeSize == 2
PropSize == 3                 \* nine in the code, which only adds it
LenMask == 2^24               \* the high bits of len are flags
DtLen(prop) == prop.len % LenMask
ValueWords(prop) == (DtLen(prop) + 3) \div 4

\* The words of a tree, whose properties also have the number of words that their
\* values take; only the first word of a record is looked at.
Filler(n) == [i \in 1..n |-> "data"]
RECURSIVE DtWords(_, _)
DtWords(tree, path) ==
  <<[nprop |-> Len(tree.props), nchld |-> Len(tree.kids), path |-> path]>>
    \o Filler(NodeSize - 1)
    \o FlattenSeq([i \in DOMAIN tree.props |->
                     <<tree.props[i]>> \o Filler(PropSize - 1 + tree.props[i].words)])
    \o FlattenSeq([i \in DOMAIN tree.kids |-> DtWords(tree.kids[i], Append(path, i))])

\* dt_check: nothing outside size words is read, and off is the size of the node.
RECURSIVE DtCheck(_, _, _), DtCheckProps(_, _, _, _, _), DtCheckKids(_, _, _, _, _)
DtBad == [ok |-> FALSE, off |-> 0]
DtCheck(mem, at, size) ==
  IF size < NodeSize THEN DtBad
  ELSE LET r == DtCheckProps(mem, at, size, NodeSize, mem[at + 1].nprop)
       IN  IF ~r.ok THEN DtBad ELSE DtCheckKids(mem, at, size, r.off, mem[at + 1].nchld)
DtCheckProps(mem, at, size, off, n) ==
  IF n = 0 THEN [ok |-> TRUE, off |-> off]
  ELSE IF size < off + PropSize THEN DtBad
  ELSE LET next == off + PropSize + ValueWords(mem[at + off + 1])
       IN  IF size < next THEN DtBad ELSE DtCheckProps(mem, at, size, next, n - 1)
DtCheckKids(mem, at, size, off, n) ==
  IF n = 0 THEN [ok |-> TRUE, off |-> off]
  ELSE LET r == DtCheck(mem, at + off, size - off)
       IN  IF ~r.ok THEN DtBad ELSE DtCheckKids(mem, at, size, off + r.off, n - 1)

\* The callbacks for properties: dt_find_cb stops at the property "name" with the
\* name searched for, which is 4 bytes long here, dt_prop_cb at a key.
DtCallback(cb, prop) ==
  /\ prop.key = "name"
  /\ cb = "dt_find_cb" => DtLen(prop) = 4

\* dt_parse with one of them: a node whose depth is not negative is followed into
\* its nodes, whose sizes add up.
RECURSIVE DtParse(_, _, _, _), DtParseProps(_, _, _, _, _), DtParseKids(_, _, _, _, _, _)
DtParse(mem, at, depth, cb) ==
  LET r == DtParseProps(mem, at, NodeSize, mem[at + 1].nprop, cb)
  IN  IF r.res # 0 \/ depth < 0 THEN r
      ELSE DtParseKids(mem, at, depth, r.off, mem[at + 1].nchld, cb)
DtParseProps(mem, at, off, n, cb) ==
  IF n = 0 THEN [res |-> 0, off |-> off]
  ELSE IF DtCallback(cb, mem[at + off + 1])
       THEN [res |-> 1, node |-> mem[at + 1].path]
  ELSE DtParseProps(mem, at, off + PropSize + ValueWords(mem[at + off + 1]), n - 1, cb)
DtParseKids(mem, at, depth, off, n, cb) ==
  IF n = 0 THEN [res |-> 0, off |-> off]
  ELSE LET r == DtParse(mem, at + off, depth + 1, cb)
       IN  IF r.res # 0 THEN r ELSE DtParseKids(mem, at, depth, off + r.off, n - 1, cb)

\* dt_find walks the whole tree, dt_prop looks at the properties of one node.
DtFind(mem) == LET r == DtParse(mem, 0, 0, "dt_find_cb")
               IN  IF r.res = 1 THEN r.node ELSE NotFound
DtProp(mem, at) == DtParse(mem, at, -1, "dt_prop_cb").res = 1

AppleProp(key, len, words) == [key |-> key, len |-> len, words |-> words]
AppleTrees == TreesOf({<< >>, <<AppleProp("reg", LenMask + 5, 2)>>,
                       <<AppleProp("reg", 0, 0), AppleProp("name", 4, 1)>>})

\* dt_check accepts a tree exactly when all of it is inside the given size, and
\* then says how large it is.
ASSUME DtCheckExact ==
  \A tree \in AppleTrees :
    LET mem == DtWords(tree, << >>)
    IN  \A size \in 0..(Len(mem) + 1) :
          DtCheck(mem, 0, size) =
            IF size < Len(mem) THEN DtBad ELSE [ok |-> TRUE, off |-> Len(mem)]

\* dt_find returns the first node with the name, whatever the sizes and flags of
\* the properties before it, and dt_prop never looks into the nodes of a node.
ASSUME DtFindsFirst ==
  \A tree \in AppleTrees :
    LET mem == DtWords(tree, << >>)
        first == FirstProp(tree, LAMBDA n, p : DtCallback("dt_find_cb", p))
    IN  /\ DtFind(mem) = IF first = NotFound THEN first ELSE Front(first)
        /\ ~DtProp(mem, 0)
==============================================================================
