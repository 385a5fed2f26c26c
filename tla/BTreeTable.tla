---------------------------- MODULE BTreeTable ----------------------------
(***************************************************************************)
(* The single-table store of db_lab: Pager (pager.h), the leaf and the     *)
(* internal node layout (node.h) and Table with its Cursor (table.h).      *)
(*                                                                         *)
(* A page is a header and an array of cells.  Leaf and internal pages      *)
(* share the layout, as they do in memory: num_cells / num_keys is n, and  *)
(* next_leaf / right_child is link.  Slots past n keep what was written    *)
(* there last, because the code reads one of them (FindCell just after     *)
(* SetNumOfKeys).  A row is its key.                                       *)
(*                                                                         *)
(* Pages live in memory once they are touched; only Close() and the        *)
(* destructor of Pager write them to the file.  One thread uses the table, *)
(* so each operation is one action.                                        *)
(***************************************************************************)
EXTENDS Integers, Sequences, FiniteSets

CONSTANTS
  Keys,          \* keys that rows may have
  CellsCapacity, \* cells of a leaf page (13 in the code)
  MaxCells,      \* keys an internal page may have (509 in the code)
  MaxPages,      \* bound on the page numbers of the model
  MaxFailures,   \* bound on the writes that fail in one Close()
  Orders         \* the orders of insertion: TRUE where keys are only
                 \* inserted into the rightmost leaf, FALSE for any order

ASSUME TableAssumption ==
  /\ Keys \subseteq Nat
  /\ CellsCapacity \in Nat \ {0, 1}
  /\ MaxCells \in Nat \ {0}
  /\ MaxPages \in Nat \ {0}
  /\ MaxFailures \in Nat
  /\ Orders \subseteq BOOLEAN

RightSplitCount == (CellsCapacity + 1) \div 2
LeftSplitCount == CellsCapacity + 1 - RightSplitCount

PageNums == 0 .. MaxPages - 1
Slots == 0 .. (IF CellsCapacity > MaxCells THEN CellsCapacity ELSE MaxCells)

VARIABLES
  pages,      \* Pager::pages: what is in memory, NoPage where nothing is
  num_pages,  \* Pager::num_pages
  file,       \* the contents of the file, by page
  file_pages, \* its length in pages
  phase,      \* "open", "exited", "lost" (a page was not written) or "abort"
  rows,       \* history: the keys whose Insert succeeded
  appendOnly  \* the order of insertion of this run, one of Orders

tableVars == <<pages, num_pages, file, file_pages, phase, rows, appendOnly>>

\* calloc: type NONE, everything zero.
ZeroPage == [type |-> "none", root |-> FALSE, parent |-> 0, n |-> 0, link |-> 0,
             key |-> [i \in Slots |-> 0], child |-> [i \in Slots |-> 0]]
NoPage == [type |-> "null"]

\* LeafNode::Reset and InternalNode::Reset; the latter clears the body.
ResetLeaf(p) == [p EXCEPT !.type = "leaf", !.n = 0, !.link = 0]
ResetInternal(p) == [p EXCEPT !.type = "internal", !.n = 0,
                              !.key = ZeroPage.key, !.child = ZeroPage.child]

InMemory == {i \in PageNums : pages[i] # NoPage}

TableTypeOK ==
  LET Page == [type : {"none", "internal", "leaf"}, root : BOOLEAN,
               parent : PageNums, n : Nat, link : PageNums,
               key : [Slots -> Nat], child : [Slots -> PageNums]]
  IN  /\ \A i \in PageNums : pages[i] = NoPage \/ pages[i] \in Page
      /\ \A i \in InMemory :
           pages[i].n <= IF pages[i].type = "leaf" THEN CellsCapacity ELSE MaxCells
      /\ \A i \in PageNums : file[i] \in Page
      /\ num_pages \in 0 .. MaxPages
      /\ file_pages \in 0 .. num_pages
      /\ phase \in {"open", "exited", "lost", "abort"}
      /\ rows \subseteq Keys
      /\ appendOnly \in Orders

-----------------------------------------------------------------------------
(* Pager. *)

\* GetPage and OnPageMissing: memory first, then the file, then zeros.
GetPage(i) ==
  IF pages[i] # NoPage THEN pages[i]
  ELSE IF i < num_pages THEN file[i] ELSE ZeroPage

\* Memory after the pages of S have been touched.
Touch(S) == [i \in PageNums |-> IF i \in S THEN GetPage(i) ELSE pages[i]]

\* The largest page number written plus one, over what the file had before.
Extend(len, S) ==
  IF \E i \in S : i >= len THEN CHOOSE m \in 1 .. MaxPages :
       m - 1 \in S /\ \A i \in S : i < m
  ELSE len

\* Close(): write every page in memory; the writes of Failed return -1 and
\* their pages stay in memory.
Flush(Failed) ==
  LET S == InMemory \ Failed IN
  /\ file' = [i \in PageNums |-> IF i \in S THEN pages[i] ELSE file[i]]
  /\ file_pages' = Extend(file_pages, S)
  /\ pages' = [i \in PageNums |-> IF i \in S THEN NoPage ELSE pages[i]]

-----------------------------------------------------------------------------
(* Node searches: binary search as the code does it, since the separators  *)
(* of an internal page need not be sorted.  A round halves the window from *)
(* min_cell to max_cell, so that p.n rounds are enough.                    *)

InternalRound(p, k, w) ==
  LET cell == (w.min + w.max) \div 2
  IN  IF w.min = w.max THEN w
      ELSE IF p.key[cell] >= k THEN [w EXCEPT !.max = cell] ELSE [w EXCEPT !.min = cell + 1]

InternalFindCell(p, k) ==
  LET window[m \in 0 .. p.n] ==
        IF m = 0 THEN [min |-> 0, max |-> p.n] ELSE InternalRound(p, k, window[m - 1])
  IN  window[p.n].min

\* A cell with the key ends the search.
LeafRound(p, k, w) ==
  LET cell == (w.min + w.max) \div 2
  IN  IF w.min = w.max THEN w
      ELSE IF p.key[cell] = k THEN [min |-> cell, max |-> cell]
      ELSE IF k < p.key[cell] THEN [w EXCEPT !.max = cell] ELSE [w EXCEPT !.min = cell + 1]

LeafFindCell(p, k) ==
  LET window[m \in 0 .. p.n] ==
        IF m = 0 THEN [min |-> 0, max |-> p.n] ELSE LeafRound(p, k, window[m - 1])
  IN  window[p.n].min

GetMaxKey(p) == p.key[p.n - 1]
ChildPage(p, c) == IF c = p.n THEN p.link ELSE p.child[c]

\* Table::Find: the leaf page and the cell for a key.  With one level of
\* internal pages (InsertInternal aborts before a second), the child of the
\* root is a leaf or the descent fails.
FindPage(k) ==
  LET root == GetPage(0)
  IN  IF root.type = "internal" THEN ChildPage(root, InternalFindCell(root, k))
      ELSE 0

Find(k) == [page |-> FindPage(k), cell |-> LeafFindCell(GetPage(FindPage(k)), k)]

-----------------------------------------------------------------------------
(* Cursor::ExecuteInsert and the splits. *)

\* Shift the cells from c on one to the right and put k at c.
PutInLeaf(leaf, c, k) ==
  [leaf EXCEPT !.n = @ + 1,
               !.key = [i \in Slots |-> IF i < c \/ i > leaf.n THEN @[i]
                                        ELSE IF i = c THEN k ELSE @[i - 1]]]

\* Variant: the cells on the right of the new one are not shifted.
MoveCellUnshifted(i, c, k, halves) ==
  LET v == IF i = c THEN k ELSE halves.curr.key[i]
      slot == i % LeftSplitCount
  IN  IF i >= LeftSplitCount
      THEN [halves EXCEPT !.next.key[slot] = v]
      ELSE [halves EXCEPT !.curr.key[slot] = v]

\* The pages after one round of the redistribution loop of DoInsertAndSplit.
MoveCell(i, c, k, halves) ==
  LET v == IF i > c THEN halves.curr.key[i - 1]
           ELSE IF i < c THEN halves.curr.key[i] ELSE k
      slot == i % LeftSplitCount
  IN  IF i >= LeftSplitCount
      THEN [halves EXCEPT !.next.key[slot] = v]
      ELSE [halves EXCEPT !.curr.key[slot] = v]

\* Stage 1 and 2 of DoInsertAndSplit: the full leaf `curr` and the new leaf
\* share the CellsCapacity + 1 cells; i runs from CellsCapacity down to 0.
SplitLeaf(curr, c, k, nextNum) ==
  LET start == [curr |-> [curr EXCEPT !.link = nextNum],
                next |-> [ResetLeaf(ZeroPage) EXCEPT !.parent = curr.parent,
                                                     !.link = curr.link]]
      moved[m \in 0 .. CellsCapacity + 1] ==
        IF m = 0 THEN start ELSE MoveCell(CellsCapacity + 1 - m, c, k, moved[m - 1])
      end == moved[CellsCapacity + 1]
  IN  [curr |-> [end.curr EXCEPT !.n = LeftSplitCount],
       next |-> [end.next EXCEPT !.n = RightSplitCount]]

\* Table::SplitRoot: the left half moves to a page of its own and page 0
\* becomes the internal page above both halves.
SplitRoot(halves, nextNum) ==
  LET leftNum == nextNum + 1
      left == [halves.curr EXCEPT !.root = FALSE, !.parent = 0]
      root == [ResetInternal(halves.curr)
                 EXCEPT !.n = 1, !.child[0] = leftNum,
                        !.key[0] = GetMaxKey(left), !.link = nextNum]
  IN  /\ pages' = [Touch({0}) EXCEPT ![0] = root, ![leftNum] = left,
                                     ![nextNum] = [halves.next EXCEPT !.parent = 0]]
      /\ num_pages' = leftNum + 1

\* Cursor::InsertInternal: append on the right if the new child has the
\* largest keys, else insert at an index.  The index is searched with
\* num_keys, after the number of keys was raised, and can be one past the
\* last cell, where SetChild() writes right_child.
InsertInternal(parent, rightMax, childMax, childNum) ==
  LET n == parent.n
      grown == [parent EXCEPT !.n = n + 1]
      index == InternalFindCell(grown, n)
      Shift(f, v) == [i \in Slots |-> IF i = index THEN v
                                      ELSE IF index < i /\ i <= n THEN f[i - 1]
                                      ELSE f[i]]
  IN  IF childMax > rightMax
      THEN [grown EXCEPT !.key[n] = rightMax, !.child[n] = parent.link,
                         !.link = childNum]
      ELSE [grown EXCEPT !.key = Shift(@, childMax),
                         !.child = IF index <= n THEN Shift(@, childNum) ELSE @,
                         !.link = IF index <= n THEN @ ELSE childNum]

\* Variant: the new child is always appended on the right.
SplitChildFlat(leafNum, leaf, halves, nextNum) ==
  LET parent == GetPage(leaf.parent)
      new == [parent EXCEPT !.n = @ + 1, !.key[parent.n] = GetMaxKey(halves.next),
                            !.child[parent.n] = parent.link, !.link = nextNum]
  IN  /\ parent.n < MaxCells
      /\ pages' = [Touch({0, leafNum}) EXCEPT ![leafNum] = halves.curr,
                      ![nextNum] = halves.next, ![leaf.parent] = new]
      /\ num_pages' = nextNum + 1

\* The rest of DoInsertAndSplit for a leaf below the root.  The separator of
\* the leaf that was split is set to the largest key of the *parent*.
SplitChild(leafNum, leaf, halves, nextNum) ==
  LET parent == GetPage(leaf.parent)
      marked == [parent EXCEPT !.key[InternalFindCell(parent, GetMaxKey(leaf))]
                                 = GetMaxKey(parent)]
      mem == [Touch({0, leafNum, parent.link})
                EXCEPT ![leafNum] = halves.curr, ![nextNum] = halves.next]
      new == InsertInternal(marked, GetMaxKey(mem[parent.link]),
                            GetMaxKey(halves.next), nextNum)
  IN  /\ parent.n < MaxCells
      /\ pages' = [mem EXCEPT ![leaf.parent] = new]
      /\ num_pages' = nextNum + 1

-----------------------------------------------------------------------------
(* Table::Open, Insert, Close and the destructor. *)

EmptyRoot == [ResetLeaf(ZeroPage) EXCEPT !.root = TRUE]

\* The file does not exist: Open creates the root leaf in memory.
TableInit ==
  /\ pages = [i \in PageNums |-> IF i = 0 THEN EmptyRoot ELSE NoPage]
  /\ num_pages = 1
  /\ file = [i \in PageNums |-> ZeroPage]
  /\ file_pages = 0
  /\ phase = "open"
  /\ rows = {}
  /\ appendOnly \in Orders

\* The keys the program is used with: distinct, and where appendOnly, greater
\* than every separator, so that they go to the rightmost leaf (the tests
\* insert in ascending order).
Admissible(k) ==
  LET root == GetPage(0) IN
  /\ k \notin rows
  /\ appendOnly /\ root.type = "internal"
       => \A i \in 0 .. root.n - 1 : root.key[i] < k

LeafFull(leaf) == leaf.n >= CellsCapacity

InsertNoSplit(k) ==
  LET c == Find(k)
      leaf == GetPage(c.page)
  IN  /\ phase = "open" /\ Admissible(k)
      /\ ~LeafFull(leaf)
      /\ pages' = [Touch({0}) EXCEPT ![c.page] = PutInLeaf(leaf, c.cell, k)]
      /\ rows' = rows \cup {k}
      /\ UNCHANGED <<num_pages, file, file_pages, phase>>

InsertSplit(k) ==
  LET c == Find(k)
      leaf == GetPage(c.page)
      halves == SplitLeaf(leaf, c.cell, k, num_pages)
  IN  /\ phase = "open" /\ Admissible(k)
      /\ LeafFull(leaf)
      /\ num_pages + 2 <= MaxPages
      /\ \/ leaf.root /\ SplitRoot(halves, num_pages)
         \/ ~leaf.root /\ SplitChild(c.page, leaf, halves, num_pages)
      /\ rows' = rows \cup {k}
      /\ UNCHANGED <<file, file_pages, phase>>

\* assert(false) when the internal page is full.
InsertAbort(k) ==
  LET c == Find(k)
      leaf == GetPage(c.page)
  IN  /\ phase = "open" /\ Admissible(k)
      /\ LeafFull(leaf) /\ ~leaf.root
      /\ GetPage(leaf.parent).n >= MaxCells
      /\ phase' = "abort"
      /\ UNCHANGED <<pages, num_pages, file, file_pages, rows>>

Insert(k) == InsertNoSplit(k) \/ InsertSplit(k) \/ InsertAbort(k)

Failures == {F \in SUBSET InMemory : Cardinality(F) <= MaxFailures}

\* Table::Close(): the table may be used afterwards, from the file.
Close ==
  /\ phase = "open"
  /\ \E Failed \in Failures : Flush(Failed)
  /\ UNCHANGED <<num_pages, phase, rows>>

\* ~Pager, when the last user of the table lets go of it: Close() again.
Destroy ==
  /\ phase = "open"
  /\ \E Failed \in Failures :
       /\ Flush(Failed)
       /\ phase' = IF Failed = {} THEN "exited" ELSE "lost"
  /\ UNCHANGED <<num_pages, rows>>

\* Table::Open on the file left behind.
Reopen ==
  /\ phase = "exited"
  /\ num_pages' = file_pages
  /\ phase' = "open"
  /\ UNCHANGED <<pages, file, file_pages, rows>>

\* A select walks the leaves and so touches every page.
Select ==
  /\ phase = "open"
  /\ pages' = Touch(0 .. num_pages - 1)
  /\ UNCHANGED <<num_pages, file, file_pages, phase, rows>>

TableStep ==
  \/ \E k \in Keys : Insert(k)
  \/ Close \/ Destroy \/ Reopen \/ Select

TableNext == TableStep /\ UNCHANGED appendOnly

TableSpec == TableInit /\ [][TableNext]_tableVars

-----------------------------------------------------------------------------
(* Properties. *)

Readable == phase \in {"open", "exited"}

Root == GetPage(0)
Leaves == {i \in 0 .. num_pages - 1 : GetPage(i).type = "leaf"}

\* Where a scan is: the cursor, and the keys it has passed.
\* StartCursor() is Find(0); Advance() goes to the next cell or along
\* next_leaf, until next_leaf is 0.
Scan ==
  LET From(c) == {GetPage(c.page).key[i] : i \in c.cell .. GetPage(c.page).n - 1}
      walk[m \in 0 .. num_pages] ==
        IF m = 0 THEN [page |-> Find(0).page, seen |-> <<From(Find(0))>>]
        ELSE LET w == walk[m - 1]
                 next == GetPage(w.page).link
             IN  IF next = 0 THEN w
                 ELSE [page |-> next,
                       seen |-> Append(w.seen, From([page |-> next, cell |-> 0]))]
  IN  walk[num_pages].seen

\* A scan returns the inserted rows, leaf after leaf in key order.
ScanReturnsRows ==
  /\ UNION {Scan[i] : i \in DOMAIN Scan} = rows
  /\ \A i, j \in DOMAIN Scan :
       i < j => \A x \in Scan[i], y \in Scan[j] : x < y
  /\ \A p \in Leaves : \A i \in 1 .. GetPage(p).n - 1 :
       GetPage(p).key[i - 1] < GetPage(p).key[i]

\* Find leads to the cell that holds the key.
FindLocates ==
  \A k \in rows :
    LET c == Find(k) IN c.cell < GetPage(c.page).n /\ GetPage(c.page).key[c.cell] = k

\* Every page is the root or a child of the root that knows its parent, and
\* is the child of one slot only: no page is lost or shared by a split.
NoOrphans ==
  Root.type = "internal" =>
    /\ Cardinality({ChildPage(Root, i) : i \in 0 .. Root.n}) = Root.n + 1
    /\ {ChildPage(Root, i) : i \in 0 .. Root.n} = Leaves
    /\ num_pages = Root.n + 2
    /\ \A p \in Leaves : GetPage(p).parent = 0 /\ ~GetPage(p).root

\* Each separator of the root is the largest key of the child on its left.
SeparatorIsMaxKey ==
  Readable /\ Root.type = "internal" =>
    \A i \in 0 .. Root.n - 1 : Root.key[i] = GetMaxKey(GetPage(Root.child[i]))

\* With keys inserted in ascending order a select returns every row once and
\* in order, Find locates each of them and the root has one sound separator
\* per leaf, whatever was split, closed, reopened or left in memory by a
\* failed write.
AscendingSound ==
  Readable /\ appendOnly =>
    ScanReturnsRows /\ FindLocates /\ NoOrphans /\ SeparatorIsMaxKey

\* The descent from the root ends in a leaf: no child number of the root
\* leads back to the root, where Find would recurse for ever.
DescentEndsInLeaf ==
  \A k \in Keys : GetPage(FindPage(k)).type = "leaf"

\* Every leaf but the first follows exactly one other.
LeavesChained ==
  LET linked == {p \in Leaves : GetPage(p).link # 0}
  IN  /\ Cardinality(linked) = Cardinality(Leaves) - 1
      /\ Cardinality({GetPage(p).link : p \in linked}) = Cardinality(linked)

\* Whatever the order of insertion, and even where wrong separators make rows
\* unreachable from the root, each inserted row is in one cell of one leaf,
\* the leaves form one chain, and a search always ends.
RowsKept ==
  /\ TableTypeOK
  /\ Readable =>
       /\ \A k \in rows :
            Cardinality({c \in Leaves \X (0 .. CellsCapacity - 1) :
                           c[2] < GetPage(c[1]).n /\ GetPage(c[1]).key[c[2]] = k}) = 1
       /\ LeavesChained
       /\ DescentEndsInLeaf
=============================================================================
