------------------------------- MODULE Trees --------------------------------
(* The red-black and splay trees that the macros of usr/include/sys/tree.h   *)
(* generate.  An element is a number, its key a constant, and two elements   *)
(* may have the same key.  The two halves of each macro that mirror each     *)
(* other are one operator with a side.                                       *)
EXTENDS Integers, FiniteSets, Sequences

CONSTANTS
  TreeNodes,      \* the elements, positive numbers
  TreeKey         \* their keys, a function

ASSUME TreesAssumption ==
  /\ TreeNodes \subseteq Nat \ {0}
  /\ TreeKey \in [TreeNodes -> Int]

VARIABLES
  tree,           \* its kind, root and children; a red-black tree's parents
                  \* and colors
  members,        \* the elements it holds
  tree_ret        \* what the last operation was asked and returned
trees_vars == <<tree, members, tree_ret>>

NONE == 0                              \* the null pointer
HOLDER == -1                           \* __node, the local of the splaying
Sides == {"left", "right"}
Opposite(s) == IF s = "left" THEN "right" ELSE "left"
\* The comparison of the elements, a number.
cmp(x, y) == TreeKey[x] - TreeKey[y]
SideFor(comp) == IF comp < 0 THEN "left" ELSE "right"

-----------------------------------------------------------------------------
IsRed(t, n) == n # NONE /\ t.color[n] = "red"
Kid(t, n, s) == t.child[s][n]
WithKid(t, n, s, c) == [t EXCEPT !.child[s][n] = c]
WithParent(t, n, p) == IF n = NONE THEN t ELSE [t EXCEPT !.parent[n] = p]
\* The side of its parent on which an element hangs.
Hangs(t, n) == IF Kid(t, t.parent[n], "left") = n THEN "left" ELSE "right"
\* What points to old from above points to new.
Hung(t, p, old, new) ==
  IF p = NONE THEN [t EXCEPT !.root = new]
  ELSE WithKid(t, p, IF Kid(t, p, "left") = old THEN "left" ELSE "right", new)

RB_SET(t, elm, parent) ==
  [t EXCEPT !.parent[elm] = parent, !.child["left"][elm] = NONE,
            !.child["right"][elm] = NONE, !.color[elm] = "red"]
RB_SET_BLACKRED(t, black, red) ==
  [t EXCEPT !.color[black] = "black", !.color[red] = "red"]

\* RB_ROTATE_LEFT and RB_ROTATE_RIGHT: elm goes down on side s.
RB_ROTATE(t, elm, s) ==
  LET tmp == Kid(t, elm, Opposite(s))
      moved == Kid(t, tmp, s)
      a == WithParent(WithKid(t, elm, Opposite(s), moved), moved, elm)
      b == Hung([a EXCEPT !.parent[tmp] = t.parent[elm]],
                t.parent[elm], elm, tmp)
  IN [WithKid(b, tmp, s, elm) EXCEPT !.parent[elm] = tmp]

RECURSIVE RB_INSERT_COLOR(_, _)
RB_INSERT_COLOR(t, elm) ==
  LET parent == t.parent[elm]
      gparent == t.parent[parent]
      s == Hangs(t, parent)
      uncle == Kid(t, gparent, Opposite(s))
      inner == Kid(t, parent, Opposite(s)) = elm
      u == IF inner THEN RB_ROTATE(t, parent, s) ELSE t
      upper == IF inner THEN elm ELSE parent
      lower == IF inner THEN parent ELSE elm
  IN IF ~IsRed(t, parent) THEN [t EXCEPT !.color[t.root] = "black"]
     ELSE IF IsRed(t, uncle)
     THEN RB_INSERT_COLOR(RB_SET_BLACKRED([t EXCEPT !.color[uncle] = "black"],
                                          parent, gparent), gparent)
     ELSE RB_INSERT_COLOR(RB_ROTATE(RB_SET_BLACKRED(u, upper, gparent),
                                    gparent, Opposite(s)), lower)

\* The sibling tmp of the short side s has a red child: the last step.
Refilled(t, parent, s, sibling) ==
  LET far == Opposite(s)
      straight == IsRed(t, Kid(t, sibling, far))
      near == Kid(t, sibling, s)
      a == IF near = NONE THEN t ELSE [t EXCEPT !.color[near] = "black"]
      u == IF straight THEN t
           ELSE RB_ROTATE([a EXCEPT !.color[sibling] = "red"], sibling, far)
      tmp == Kid(u, parent, far)
      b == [u EXCEPT !.color[tmp] = u.color[parent], !.color[parent] = "black"]
      outer == Kid(u, tmp, far)
      c == IF outer = NONE THEN b ELSE [b EXCEPT !.color[outer] = "black"]
  IN RB_ROTATE(c, parent, s)

RECURSIVE RB_REMOVE_COLOR(_, _, _)
RB_REMOVE_COLOR(t, parent, elm) ==
  LET s == IF Kid(t, parent, "left") = elm THEN "left" ELSE "right"
      first == Kid(t, parent, Opposite(s))
      u == IF IsRed(t, first)
           THEN RB_ROTATE(RB_SET_BLACKRED(t, first, parent), parent, s) ELSE t
      tmp == Kid(u, parent, Opposite(s))
      v == Refilled(u, parent, s, tmp)
      blackened(w, n) == IF n = NONE THEN w ELSE [w EXCEPT !.color[n] = "black"]
  IN IF IsRed(t, elm) \/ elm = t.root THEN blackened(t, elm)
     ELSE IF \A side \in Sides : ~IsRed(u, Kid(u, tmp, side))
     THEN RB_REMOVE_COLOR([u EXCEPT !.color[tmp] = "red"],
                          u.parent[parent], parent)
     ELSE blackened(v, v.root)

RECURSIVE Farthest(_, _, _)
Farthest(t, n, s) ==
  IF Kid(t, n, s) = NONE THEN n ELSE Farthest(t, Kid(t, n, s), s)

\* Element elm, which lacks a child, leaves; its other child takes its place.
Spliced(t, elm) ==
  LET parent == t.parent[elm]
      child == IF Kid(t, elm, "left") = NONE THEN Kid(t, elm, "right")
               ELSE Kid(t, elm, "left")
  IN Hung(WithParent(t, child, parent), parent, elm, child)

\* Mutant: the parent of the removed successor is never the successor itself.
RemoveKeepsParent(t, old) ==
  LET elm == Farthest(t, Kid(t, old, "right"), "left")
      child == Kid(t, elm, "right")
      parent == t.parent[elm]
      a == Spliced(t, elm)
      b == [a EXCEPT !.child["left"][elm] = a.child["left"][old],
                     !.child["right"][elm] = a.child["right"][old],
                     !.parent[elm] = a.parent[old], !.color[elm] = a.color[old]]
      c == WithParent(WithParent(Hung(b, b.parent[old], old, elm),
                                 b.child["left"][old], elm),
                      b.child["right"][old], elm)
  IN IF t.color[elm] = "black" THEN RB_REMOVE_COLOR(c, parent, child) ELSE c

\* An element with two children: its successor takes its place.
Succeeded(t, old) ==
  LET elm == Farthest(t, Kid(t, old, "right"), "left")
      child == Kid(t, elm, "right")
      parent == IF t.parent[elm] = old THEN elm ELSE t.parent[elm]
      a == Spliced(t, elm)
      b == [a EXCEPT !.child["left"][elm] = a.child["left"][old],
                     !.child["right"][elm] = a.child["right"][old],
                     !.parent[elm] = a.parent[old], !.color[elm] = a.color[old]]
      c == WithParent(WithParent(Hung(b, b.parent[old], old, elm),
                                 b.child["left"][old], elm),
                      b.child["right"][old], elm)
  IN IF t.color[elm] = "black" THEN RB_REMOVE_COLOR(c, parent, child) ELSE c

\* The fields of a removed element are not read again before RB_SET writes
\* them; the model blanks them.
RB_REMOVE(t, elm) ==
  LET child == IF Kid(t, elm, "left") = NONE THEN Kid(t, elm, "right")
               ELSE Kid(t, elm, "left")
      a == Spliced(t, elm)
      whole == \A s \in Sides : Kid(t, elm, s) # NONE
      u == IF whole THEN Succeeded(t, elm)
           ELSE IF t.color[elm] = "black"
           THEN RB_REMOVE_COLOR(a, t.parent[elm], child) ELSE a
  IN RB_SET(u, elm, NONE)

\* Where the search for elm ends: an element of equal key, or the null
\* pointer with the last element passed.
RECURSIVE Descended(_, _, _, _)
Descended(t, n, elm, parent) ==
  IF n = NONE \/ cmp(elm, n) = 0 THEN [found |-> n, parent |-> parent]
  ELSE Descended(t, Kid(t, n, SideFor(cmp(elm, n))), elm, n)

RB_INSERT(t, elm) ==
  LET d == Descended(t, t.root, elm, NONE)
      a == RB_SET(t, elm, d.parent)
      b == IF d.parent = NONE THEN [a EXCEPT !.root = elm]
           ELSE WithKid(a, d.parent, SideFor(cmp(elm, d.parent)), elm)
  IN IF d.found # NONE THEN [tree |-> t, ret |-> d.found]
     ELSE [tree |-> RB_INSERT_COLOR(b, elm), ret |-> NONE]

RB_FIND(t, elm) == Descended(t, t.root, elm, NONE).found

RECURSIVE NotLess(_, _, _, _)
NotLess(t, n, elm, res) ==
  IF n = NONE THEN res
  ELSE IF cmp(elm, n) = 0 THEN n
  ELSE NotLess(t, Kid(t, n, SideFor(cmp(elm, n))), elm,
               IF cmp(elm, n) < 0 THEN n ELSE res)
RB_NFIND(t, elm) == NotLess(t, t.root, elm, NONE)

\* RB_NEXT (side "right") and RB_PREV (side "left").
RECURSIVE Ascended(_, _, _)
Ascended(t, n, s) ==
  IF t.parent[n] = NONE \/ Kid(t, t.parent[n], s) # n THEN t.parent[n]
  ELSE Ascended(t, t.parent[n], s)
RB_STEP(t, elm, s) ==
  IF Kid(t, elm, s) # NONE THEN Farthest(t, Kid(t, elm, s), Opposite(s))
  ELSE Ascended(t, elm, s)
RB_NEXT(t, elm) == RB_STEP(t, elm, "right")
RB_PREV(t, elm) == RB_STEP(t, elm, "left")
RB_MINMAX(t, val) ==
  IF t.root = NONE THEN NONE ELSE Farthest(t, t.root, SideFor(val))

-----------------------------------------------------------------------------
\* SPLAY_ROTATE_RIGHT (s = "left") and SPLAY_ROTATE_LEFT.
SPLAY_ROTATE(t, tmp, s) ==
  [t EXCEPT !.child[s][t.root] = Kid(t, tmp, Opposite(s)),
            !.child[Opposite(s)][tmp] = t.root, !.root = tmp]
\* SPLAY_LINKLEFT (s = "left") and SPLAY_LINKRIGHT: the root and its other
\* subtree go to the end of the tree of that side.
SPLAY_LINK(t, end, s) ==
  LET u == WithKid(t, end, s, t.root)
  IN [u EXCEPT !.root = Kid(u, u.root, s)]
SPLAY_ASSEMBLE(t, ends) ==
  LET a == WithKid(t, ends.right, "right", Kid(t, t.root, "left"))
      b == WithKid(a, ends.left, "left", Kid(a, a.root, "right"))
      c == WithKid(b, b.root, "left", Kid(b, HOLDER, "right"))
      d == WithKid(c, c.root, "right", Kid(c, HOLDER, "left"))
  IN WithKid(WithKid(d, HOLDER, "left", NONE), HOLDER, "right", NONE)

\* The loop of name_SPLAY and name_SPLAY_MINMAX: toward says on which side
\* of each element the sought one is; ends.left is __right, ends.right __left.
RECURSIVE Splayed(_, _, _)
Splayed(t, toward, ends) ==
  LET comp == toward[t.root]
      s == SideFor(comp)
      tmp == Kid(t, t.root, s)
      zig == SideFor(toward[tmp]) = s /\ toward[tmp] # 0
      u == IF zig THEN SPLAY_ROTATE(t, tmp, s) ELSE t
  IN IF comp = 0 \/ tmp = NONE \/ (zig /\ Kid(u, u.root, s) = NONE)
     THEN SPLAY_ASSEMBLE(IF comp = 0 \/ tmp = NONE THEN t ELSE u, ends)
     ELSE Splayed(SPLAY_LINK(u, ends[s], s), toward, [ends EXCEPT ![s] = u.root])
HolderEnds == [left |-> HOLDER, right |-> HOLDER]
SPLAY(t, elm) == Splayed(t, [n \in TreeNodes |-> cmp(elm, n)], HolderEnds)
SPLAY_MINMAX(t, val) == Splayed(t, [n \in TreeNodes |-> val], HolderEnds)

SPLAY_INSERT(t, elm) ==
  LET u == SPLAY(t, elm)
      comp == cmp(elm, u.root)
      s == SideFor(comp)
      a == WithKid(WithKid(u, elm, s, Kid(u, u.root, s)),
                   elm, Opposite(s), u.root)
      alone == WithKid(WithKid(t, elm, "left", NONE), elm, "right", NONE)
  IN IF t.root = NONE THEN [tree |-> [alone EXCEPT !.root = elm], ret |-> NONE]
     ELSE IF comp = 0 THEN [tree |-> u, ret |-> u.root]
     ELSE [tree |-> [WithKid(a, u.root, s, NONE) EXCEPT !.root = elm],
           ret |-> NONE]

\* The fields of the removed root are blanked, as for RB_REMOVE.
SPLAY_REMOVE(t, elm) ==
  LET u == SPLAY(t, elm)
      left == Kid(u, u.root, "left")
      tmp == Kid(u, u.root, "right")
      v == SPLAY([u EXCEPT !.root = left], elm)
      w == IF left = NONE THEN [u EXCEPT !.root = tmp]
           ELSE WithKid(v, v.root, "right", tmp)
  IN IF t.root = NONE THEN [tree |-> t, ret |-> NONE]
     ELSE IF cmp(elm, u.root) # 0 THEN [tree |-> u, ret |-> NONE]
     ELSE [tree |-> WithKid(WithKid(w, u.root, "left", NONE),
                            u.root, "right", NONE), ret |-> elm]

SPLAY_FIND(t, elm) ==
  LET u == SPLAY(t, elm)
  IN IF t.root = NONE THEN [tree |-> t, ret |-> NONE]
     ELSE [tree |-> u, ret |-> IF cmp(elm, u.root) = 0 THEN u.root ELSE NONE]
SPLAY_NEXT(t, elm) ==
  LET u == SPLAY(t, elm)
      after == Kid(u, elm, "right")
  IN [tree |-> u, ret |-> IF after = NONE THEN NONE
                          ELSE Farthest(u, after, "left")]
SPLAY_MIN_MAX(t, val) ==
  LET u == SPLAY_MINMAX(t, val)
  IN IF t.root = NONE THEN [tree |-> t, ret |-> NONE]
     ELSE [tree |-> u, ret |-> u.root]

-----------------------------------------------------------------------------
NoLinks == [n \in TreeNodes \cup {HOLDER} |-> NONE]
TreesInit ==
  /\ \E kind \in {"RB", "SPLAY"} :
       tree = [kind |-> kind, root |-> NONE, child |-> [s \in Sides |-> NoLinks],
               parent |-> NoLinks, color |-> [n \in TreeNodes |-> "red"]]
  /\ members = {}
  /\ tree_ret = [call |-> "none", elm |-> NONE, ret |-> NONE]

\* An operation on a tree of the kind returned r; the tree holds set.
Answers(kind, call, elm, r, set) ==
  /\ tree.kind = kind
  /\ tree' = r.tree /\ members' = set
  /\ tree_ret' = [call |-> call, elm |-> elm, ret |-> r.ret]

Inserts(kind, elm, r) ==
  /\ elm \notin members
  /\ Answers(kind, "insert", elm, r,
             IF r.ret = NONE THEN members \cup {elm} ELSE members)
RbRemove(elm) ==
  /\ elm \in members
  /\ Answers("RB", "remove", elm, [tree |-> RB_REMOVE(tree, elm), ret |-> elm],
             members \ {elm})
SplayRemove(elm) ==
  Answers("SPLAY", "remove", elm, SPLAY_REMOVE(tree, elm),
          {n \in members : cmp(n, elm) # 0})
Looks(call, elm, r) == Answers("SPLAY", call, elm, r, members)

TreesNext ==
  \/ \E elm \in TreeNodes :
       \/ Inserts("RB", elm, RB_INSERT(tree, elm)) \/ RbRemove(elm)
       \/ Inserts("SPLAY", elm, SPLAY_INSERT(tree, elm)) \/ SplayRemove(elm)
       \/ Looks("find", elm, SPLAY_FIND(tree, elm))
       \/ elm \in members /\ Looks("next", elm, SPLAY_NEXT(tree, elm))
  \/ Looks("min", NONE, SPLAY_MIN_MAX(tree, -1))
  \/ Looks("max", NONE, SPLAY_MIN_MAX(tree, 1))

-----------------------------------------------------------------------------
\* The elements below n from left to right.
RECURSIVE InOrder(_, _)
InOrder(t, n) ==
  IF n = NONE THEN <<>>
  ELSE InOrder(t, Kid(t, n, "left")) \o <<n>> \o InOrder(t, Kid(t, n, "right"))

\* The tree t holds the elements of the set, each once, in the order of
\* their keys, which are all different.
Holds(t, set) ==
  LET s == InOrder(t, t.root)
  IN /\ {s[i] : i \in DOMAIN s} = set
     /\ \A i \in 1..Len(s) - 1 : cmp(s[i], s[i + 1]) < 0

\* The elements of the set that come after (before) the key of elm or are
\* equal to it, and the first (last) of a set.
NotBelow(set, elm) == {n \in set : cmp(n, elm) >= 0}
Above(set, elm) == {n \in set : cmp(n, elm) > 0}
Below(set, elm) == {n \in set : cmp(n, elm) < 0}
Least(set) == IF set = {} THEN NONE ELSE CHOOSE n \in set : NotBelow(set, n) = set
Greatest(set) ==
  IF set = {} THEN NONE ELSE CHOOSE n \in set : Above(set, n) = {}
Same(set, elm) == Least(NotBelow(set, elm) \ Above(set, elm))

\* The black elements on the leftmost way down from n.
RECURSIVE BlackHeight(_, _)
BlackHeight(t, n) ==
  IF n = NONE THEN 0
  ELSE BlackHeight(t, Kid(t, n, "left"))
         + (IF t.color[n] = "black" THEN 1 ELSE 0)

\* After any sequence of insertions and removals a red-black tree holds
\* exactly the inserted elements in order, its parent pointers are those of
\* the children, no red element has a red child, every way down from an
\* element passes as many black ones, and the searches and steps RB_FIND,
\* RB_NFIND, RB_NEXT, RB_PREV, RB_MIN and RB_MAX answer as the set does.
\* (tree.h: RB_GENERATE.)
RedBlackAgrees ==
  tree.kind = "RB" =>
  /\ Holds(tree, members)
  /\ ~IsRed(tree, tree.root)
  /\ tree.root # NONE => tree.parent[tree.root] = NONE
  /\ \A n \in members :
       /\ \A s \in Sides : LET kid == Kid(tree, n, s) IN
            /\ kid # NONE => tree.parent[kid] = n
            /\ IsRed(tree, n) => ~IsRed(tree, kid)
       /\ BlackHeight(tree, Kid(tree, n, "left"))
            = BlackHeight(tree, Kid(tree, n, "right"))
       /\ RB_NEXT(tree, n) = Least(Above(members, n))
       /\ RB_PREV(tree, n) = Greatest(Below(members, n))
  /\ \A n \in TreeNodes : /\ RB_FIND(tree, n) = Same(members, n)
                          /\ RB_NFIND(tree, n) = Least(NotBelow(members, n))
  /\ RB_MINMAX(tree, -1) = Least(members)
  /\ RB_MINMAX(tree, 1) = Greatest(members)

\* Whatever splaying does to its shape, a splay tree holds exactly the
\* inserted elements in order, and SPLAY_FIND, SPLAY_NEXT, SPLAY_MIN and
\* SPLAY_MAX answer as the set does.  (tree.h: SPLAY_GENERATE.)
SplayAgrees ==
  tree.kind = "SPLAY" =>
  LET call == tree_ret.call
      elm == tree_ret.elm
      ret == tree_ret.ret
  IN /\ Holds(tree, members)
     /\ call = "find" => ret = Same(members, elm)
     /\ call = "next" => ret = Least(Above(members, elm))
     /\ call = "min" => ret = Least(members)
     /\ call = "max" => ret = Greatest(members)
=============================================================================
