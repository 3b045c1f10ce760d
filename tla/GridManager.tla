---------------------------- MODULE GridManager ----------------------------
(***************************************************************************)
(* The icons of the desktop: GridManager keeps which icon is in which cell *)
(* of the grid, CanvasGridView calls it from the handlers of file events,  *)
(* drops, menus and changes of the screen.  All of it runs in the          *)
(* interface thread, so that a handler is one step; what is hard is the    *)
(* order of the handlers.                                                  *)
(*                                                                         *)
(* The cell <<x, y>> of a grid of w times h is the number x * h + y, as in *)
(* indexOfGridPos().  Icons are numbers in the order of their URLs.  An    *)
(* icon of the merged desktop goes by the name of the icon it stands for.  *)
(* Not modelled: hidden icons (hideIcon), the animation that makes room    *)
(* under a drag, and a model that lags behind the directory.               *)
(*                                                                         *)
(* As in CopyJobControl, an unused definition just before another of the   *)
(* same shape is a plausible bug that violates a property.                 *)
(***************************************************************************)
EXTENDS Integers, Sequences, FiniteSets, FiniteSetsExt, SequencesExt

CONSTANTS
  NItems,       (* the files that may be on the desktop are 1 .. NItems     *)
  Hidden,       (* those whose name makes them hidden                       *)
  Sizes,        (* the sizes <<w, h>> of the grid                           *)
  LateEvents,   (* whether a file may be announced while its icon overlaps, *)
                (* as happens when it was listed and is then reported       *)
  AnyOrder,     (* whether a directory is listed in any order, or in that   *)
                (* of the names                                             *)
  MaxSelected,  (* bounds of the model: the icons that are selected one by  *)
  MaxEvents     (* one, none for no drops, and the handlers that run        *)

Items == 1 .. NItems
None  == 0

ASSUME GridAssumption ==
  /\ NItems \in Nat
  /\ Hidden \subseteq Items
  /\ Sizes \subseteq (Nat \ {0}) \X (Nat \ {0})
  /\ LateEvents \in BOOLEAN
  /\ AnyOrder \in BOOLEAN
  /\ MaxSelected \in Nat
  /\ MaxEvents \in Nat

VARIABLES
  events,       (* the handlers that ran                                    *)
  files,        (* the files in the directory of the desktop                *)
  showHidden,   (* m_whetherShowHiddenFiles and the filters of the model    *)
  fresh,        (* the new file of the menu that was not yet moved, or None *)
  grid          (* GridManagerPrivate: its size, the item at a cell         *)
                (* (m_gridItems), the cell of an item (m_itemGrids), the    *)
                (* cells in use (m_cellStatus), m_overlapItems,             *)
                (* savedProfiles, autoArrange and autoMerge                 *)

vars == <<events, files, showHidden, fresh, grid>>

(***************************************************************************)
(* Cells                                                                   *)
(***************************************************************************)
Count(s) == s[1] * s[2]
Cells(s) == 0 .. Count(s) - 1
overlapPosBehind(g) == Count(g.size)
overlapPos(g) == Count(g.size) - 1
Free(g) == Cells(g.size) \ g.used
emptyPos(g) == IF Free(g) = {} THEN overlapPos(g) ELSE Min(Free(g))

(* QMap::value() of an icon without a cell is QPoint(0, 0). *)
CellOf(g, i) == IF i \in DOMAIN g.pos THEN g.pos[i] ELSE 0
Placed(g) == DOMAIN g.pos
contains(g, i) == i \in Placed(g) \/ i \in Range(g.over)

Ascending(S) ==
  [k \in 1 .. Cardinality(S) |-> CHOOSE c \in S : Cardinality({d \in S : d <= c}) = k]
Inverted(f) == [i \in Range(f) |-> CHOOSE c \in DOMAIN f : f[c] = i]
Without(f, x) == Restrict(f, DOMAIN f \ {x})

(* QMap::insert(). *)
With(f, x, v) == [y \in DOMAIN f \union {x} |-> IF y = x THEN v ELSE f[y]]

(* The values of f at the numbers S, in their order. *)
Values(f, S) == [k \in 1 .. Cardinality(S) |-> f[Ascending(S)[k]]]
(* QList::removeAll(). *)
Dropped(q, i) == Values(q, {k \in DOMAIN q : q[k] # i})

(***************************************************************************)
(* GridManagerPrivate                                                      *)
(***************************************************************************)
(* createProfile() and resetGridSize(): the empty grid of a size. *)
Cleared(g, s) == [g EXCEPT !.size = s, !.at = <<>>, !.pos = <<>>, !.used = {},
                           !.over = <<>>]

(* A cell that is not one of the grid is written behind m_cellStatus. *)
AddPrivate(g, c, i) ==
  IF c \notin DOMAIN g.at
  THEN [g EXCEPT !.at = With(@, c, i), !.pos = With(@, i, c),
                 !.used = @ \union ({c} \intersect Cells(g.size))]
  ELSE IF c = overlapPos(g) THEN [g EXCEPT !.over = Append(@, i)] ELSE g

(* takeEmptyPos() and add(). *)
Put(g, i) ==
  LET c == emptyPos(g) IN AddPrivate([g EXCEPT !.used = @ \union {c}], c, i)
PutAll(g, q) ==
  LET h[k \in 0 .. Len(q)] == IF k = 0 THEN g ELSE Put(h[k - 1], q[k]) IN h[Len(q)]

RemoveStaysUsed(g, i) ==
  IF i \notin Placed(g) THEN [g EXCEPT !.over = Dropped(@, i)]
  ELSE [g EXCEPT !.over = Dropped(@, i), !.at = Without(@, CellOf(g, i)), !.pos = Without(@, i)]
RemovePrivate(g, i) ==
  LET c     == CellOf(g, i)
      left  == [g EXCEPT !.over = Dropped(@, i)]
      freed == [left EXCEPT !.at = Without(@, c), !.pos = Without(@, i), !.used = @ \ {c}]
  IN  IF i \notin Placed(g) THEN left
      ELSE IF left.over # <<>> /\ c = overlapPos(g)
           THEN AddPrivate([freed EXCEPT !.over = Tail(@)], c, Head(left.over))
           ELSE freed

rangeItems(g) == Values(g.at, DOMAIN g.at) \o g.over

(* arrange(), and what changeGridSize() does when it cannot keep cells. *)
Packed(g, s, q) ==
  LET n == Min({Count(s), Len(q)})
  IN  [PutAll(Cleared(g, s), SubSeq(q, 1, n)) EXCEPT !.over = SubSeq(q, n + 1, Len(q))]
arrange(g) == Packed(g, g.size, rangeItems(g))
shouldArrange(g) == g.autoArrange \/ g.autoMerge
Tidied(g) == IF shouldArrange(g) THEN arrange(g) ELSE g

syncProfile(g) == [g EXCEPT !.saved = With(@, g.size, g.at)]

restoreResurrects(g, s, items) ==
  LET at == IF s \in DOMAIN g.saved THEN g.saved[s] ELSE <<>>
  IN  Tidied(PutAll([Cleared(g, s) EXCEPT !.at = at, !.pos = Inverted(at), !.used = DOMAIN at],
                    Ascending(items \ Range(at))))
(* restoreProfile(): every item has the cell that was saved for it, the    *)
(* first one if there are several; the others take what is free.           *)
restoreProfile(g, s, items) ==
  LET profile == IF s \in DOMAIN g.saved THEN g.saved[s] ELSE <<>>
      first(c) == \A b \in DOMAIN profile : b < c => profile[b] # profile[c]
      kept == {c \in DOMAIN profile \intersect Cells(s) : profile[c] \in items /\ first(c)}
      at   == Restrict(profile, kept)
      old  == [Cleared(g, s) EXCEPT !.at = at, !.pos = Inverted(at), !.used = kept]
  IN  Tidied(PutAll(old, Ascending(items \ Range(at))))

(* The icons q side by side, the first one in cell c. *)
AddBehind(g, c, q) ==
  LET h[k \in 0 .. Len(q)] == IF k = 0 THEN g ELSE AddPrivate(h[k - 1], c + k - 1, q[k])
  IN  h[Len(q)]

(* changeGridSize(): as many icons as possible keep the number of their    *)
(* cell; those behind the last cell that can stay empty move forward.      *)
changeGridSize(g, s) ==
  LET n       == Count(s)
      out     == Cardinality({c \in g.used : c >= n})
      spare   == n - Cardinality({c \in g.used : c < n})
      empties == Ascending(Free(g))
      allowed == spare - out + Len(g.over)
      stop    == IF Len(empties) > allowed THEN empties[allowed + 1] ELSE n
      keeps   == {c \in g.used : Len(empties) > allowed => c < stop}
      moved   == Values(g.at, {c \in g.used : c >= stop})
      at      == Restrict(g.at, {c \in keeps : c < n})
      kept    == [Cleared(g, s) EXCEPT !.at = at, !.pos = Inverted(at), !.used = DOMAIN at]
  IN  IF spare <= out + Len(g.over) THEN Packed(g, s, rangeItems(g))
                                    ELSE PutAll(AddBehind(kept, stop, moved), g.over)

(***************************************************************************)
(* GridManager: operations that returned true are saved, unless the        *)
(* desktop is merged.                                                      *)
(***************************************************************************)
Synced(g, h) == IF g.at # h.at /\ ~g.autoMerge THEN syncProfile(h) ELSE h

addAt(g, c, i) == Synced(g, AddPrivate(g, c, i))
removeUnsaved(g, i) == RemovePrivate(g, i)
remove(g, i) == Synced(g, RemovePrivate(g, i))
add(g, i, show) ==
  IF i \in Placed(g) \/ (i \in Hidden /\ ~show) THEN g ELSE Synced(g, Put(g, i))

(* The loops of move() and of the views: an operation on one icon after the *)
(* other.                                                                  *)
addAtAll(g, to, q) ==
  LET h[k \in 0 .. Len(q)] == IF k = 0 THEN g ELSE addAt(h[k - 1], to[k], q[k]) IN h[Len(q)]
removeAll(g, q) ==
  LET h[k \in 0 .. Len(q)] == IF k = 0 THEN g ELSE remove(h[k - 1], q[k]) IN h[Len(q)]
addAll(g, q, show) ==
  LET h[k \in 0 .. Len(q)] == IF k = 0 THEN g ELSE add(h[k - 1], q[k], show) IN h[Len(q)]

reArrange(g) == LET h == arrange(g) IN IF g.autoMerge THEN h ELSE syncProfile(h)
Settled(g) == IF shouldArrange(g) THEN reArrange(g) ELSE g

clear(g) == syncProfile(Cleared(g, g.size))

(* Points of the screen: those of the cells and of the margin behind them. *)
Points(s) == (0 .. s[1]) \X (0 .. s[2])

(* The first free cell from a point on.  What lies beside the grid has no  *)
(* status and passes for free; from below it the search goes on with the   *)
(* next column.                                                            *)
forwardFindEmpty(g, start) ==
  LET h     == g.size[2]
      ahead == {b \in Free(g) : b >= start[1] * h + start[2]}
      to    == IF ahead = {} THEN emptyPos(g) ELSE Min(ahead)
  IN  IF start[1] >= g.size[1] /\ start[2] < h THEN start ELSE <<to \div h, to % h>>

(* move(): the cells of the selected icons, sel, when current goes to the  *)
(* point dest; around other icons they take the free cells next to it.     *)
Destinations(g, sel, current, dest) ==
  LET h == g.size[2]
      origins == {CellOf(g, sel[k]) : k \in 1 .. Len(sel)}
      from == CellOf(g, current)
      x(k) == CellOf(g, sel[k]) \div h + dest[1] - from \div h
      y(k) == (CellOf(g, sel[k]) % h) + dest[2] - (from % h)
      valid(k) == x(k) \in 0 .. g.size[1] - 1 /\ y(k) \in 0 .. h - 1
      conflict == \E k \in 1 .. Len(sel) :
                     ~valid(k) \/ x(k) * h + y(k) \in DOMAIN g.at \ origins
      open     == Cells(g.size) \ (g.used \ origins)
      free     == Ascending(open)
      selHead  == CHOOSE k \in 1 .. Len(sel) : sel[k] = current
      target   == dest[1] * h + dest[2]
      destHead == IF target \in open THEN Cardinality({c \in open : c <= target}) ELSE 0
      first    == IF Len(free) - destHead <= Len(sel) - selHead
                  THEN Len(free) - Len(sel) + 1
                  ELSE IF destHead < selHead THEN 1 ELSE destHead - selHead + 1
      start    == IF first \in 1 .. Len(free) THEN free[first] ELSE 0
      cells    == Ascending({c \in open : c >= start})
  IN  [k \in 1 .. Len(sel) |-> IF ~conflict THEN x(k) * h + y(k)
                                ELSE IF k <= Len(cells) THEN cells[k] ELSE 0]

move(g, sel, current, dest) ==
  Settled(addAtAll(removeAll(g, sel), Destinations(g, sel, current, dest), sel))

updateGridSizeAnew(g, s) ==
  LET h == changeGridSize(g, s)
      r == IF g.autoArrange THEN arrange(h) ELSE h
  IN  IF g.autoMerge THEN r ELSE syncProfile(r)
updateGridSize(g, s) ==
  LET h == IF ~g.autoMerge /\ s \in DOMAIN g.saved
           THEN restoreProfile(g, s, Range(rangeItems(g)))
           ELSE changeGridSize(g, s)
      r == IF g.autoArrange THEN arrange(h) ELSE h
  IN  IF g.autoMerge THEN r ELSE syncProfile(r)

(* initProfile() and initWithoutProfile(), of the files in some order. *)
load(g, q) ==
  IF g.autoMerge THEN arrange(PutAll(Cleared(g, g.size), q))
                 ELSE syncProfile(restoreProfile(g, g.size, Range(q)))

(***************************************************************************)
(* CanvasGridView: the handlers                                            *)
(***************************************************************************)
Listings(S) == IF AnyOrder THEN SetToSeqs(S) ELSE {Ascending(S)}

Visible == {i \in files : showHidden \/ i \notin Hidden}

DeletedLeavesGap(g, i) == remove(g, i)
Deleted(g, i) == Settled(remove(g, i))

(* itemCreated; a file the menu made is moved by a later event. *)
ItemCreated(i) ==
  /\ i \notin files
  /\ LateEvents \/ i \notin Range(grid.over)
  /\ files' = files \union {i}
  /\ fresh' \in IF fresh = None THEN {None, i} ELSE {fresh}
  /\ grid' = add(grid, i, showHidden)
  /\ UNCHANGED showHidden

(* The same event for a file that has its icon already: it was listed just *)
(* before, or another file was moved over it from outside.                 *)
ItemCreatedAgain(i) ==
  /\ i \in files
  /\ LateEvents \/ i \notin Range(grid.over)
  /\ grid' = add(grid, i, showHidden)
  /\ UNCHANGED <<files, showHidden, fresh>>

ItemDeleted(i) ==
  /\ i \in files
  /\ files' = files \ {i}
  /\ grid' = Deleted(grid, i)
  /\ UNCHANGED <<showHidden, fresh>>

(* fileMoved within the desktop; j may be replaced by it. *)
FileMoved(i, j) ==
  /\ i \in files
  /\ i # j
  /\ files' = (files \ {i}) \union {j}
  /\ grid' = IF contains(grid, j) THEN Deleted(grid, i)
             ELSE IF contains(grid, i)
             THEN addAt(remove(grid, i),
                        IF i \in Placed(grid) THEN grid.pos[i] ELSE overlapPos(grid), j)
             ELSE add(grid, j, showHidden)
  /\ UNCHANGED <<showHidden, fresh>>

(* newFileByInternal: to the point of the menu or the next free cell.  It  *)
(* stays if it is there already and no other file came after it.           *)
NewFileByInternal(start) ==
  /\ fresh # None
  /\ fresh' = None
  /\ \/ grid' = move(grid, <<fresh>>, fresh, forwardFindEmpty(grid, start))
     \/ /\ start[2] < grid.size[2]
        /\ start[1] * grid.size[2] + start[2] =
             IF fresh \in Placed(grid) THEN grid.pos[fresh] ELSE overlapPos(grid)
        /\ grid' = grid
  /\ UNCHANGED <<files, showHidden>>

(* A drop of selected icons, on the grid or the margin behind it.          *)
DropIcons(sel, current, dest) ==
  /\ ~grid.autoMerge
  /\ current \in Range(sel)
  /\ grid' = move(grid, sel, current, dest)
  /\ UNCHANGED <<files, showHidden, fresh>>

(* Icons that have a cell are selected one by one; selectAll() selects    *)
(* whatever the model has, in its order.                                   *)
Selections ==
  (UNION {SetToSeqs(S) : S \in {T \in SUBSET (Placed(grid) \intersect Visible) :
                                  Cardinality(T) \in 1 .. MaxSelected}})
    \union {q \in {Ascending(Visible)} : MaxSelected > 0}

DropEvent ==
  \E sel \in Selections :
    \E current \in Range(sel), dest \in Points(grid.size) : DropIcons(sel, current, dest)

UpdateGridSize(s) ==
  /\ s # grid.size
  /\ grid' = updateGridSize(grid, s)
  /\ UNCHANGED <<files, showHidden, fresh>>

ToggleArrange ==
  /\ LET g == [grid EXCEPT !.autoArrange = ~@]
     IN  grid' = IF g.autoArrange THEN reArrange(g) ELSE g
  /\ UNCHANGED <<files, showHidden, fresh>>

SetAutoMerge ==
  /\ \E q \in Listings(Visible) : grid' = load([grid EXCEPT !.autoMerge = ~@], q)
  /\ UNCHANGED <<files, showHidden, fresh>>

(* Ctrl+H: updateHiddenItems() adds what is listed now and removes the rest. *)
ToggleHidden ==
  /\ showHidden' = ~showHidden
  /\ LET listed == {i \in files : ~showHidden \/ i \notin Hidden}
         range  == rangeItems(grid)
         gone   == Values(range, {k \in DOMAIN range : range[k] \notin listed})
     IN  \E q \in Listings({i \in listed : ~contains(grid, i)}) :
           grid' = Settled(removeAll(addAll(grid, q, ~showHidden), gone))
  /\ UNCHANGED <<files, fresh>>

(* dataChanged after a choice of the sort menu, in the order of the model. *)
Resort ==
  /\ \E q \in Listings(Visible) : grid' = reArrange(addAll(clear(grid), q, showHidden))
  /\ UNCHANGED <<files, showHidden, fresh>>

(* A write behind m_cellStatus is undefined: nothing is said of what       *)
(* follows it.                                                             *)
InsideGrid == DOMAIN grid.at \subseteq Cells(grid.size)

Init ==
  /\ events = 0
  /\ files \in SUBSET Items
  /\ showHidden = FALSE
  /\ fresh = None
  /\ \E s \in Sizes, arranged, merged \in BOOLEAN :
       LET g == [size |-> s, at |-> <<>>, pos |-> <<>>, used |-> {}, over |-> <<>>,
                 saved |-> <<>>, autoArrange |-> arranged, autoMerge |-> merged]
       IN  \E q \in Listings(Visible) : grid = load(g, q)

Next ==
  /\ InsideGrid
  /\ events < MaxEvents
  /\ events' = events + 1
  /\ \/ \E i \in Items : ItemCreated(i) \/ ItemCreatedAgain(i) \/ ItemDeleted(i)
     \/ \E i, j \in Items : FileMoved(i, j)
     \/ \E start \in Points(grid.size) : NewFileByInternal(start)
     \/ DropEvent
     \/ \E s \in Sizes : UpdateGridSize(s)
     \/ ToggleArrange
     \/ SetAutoMerge
     \/ ToggleHidden
     \/ Resort

Spec == Init /\ [][Next]_vars

(***************************************************************************)
(* Properties                                                              *)
(***************************************************************************)
(* Every variable has its type.  Positions are numbers, not always of      *)
(* cells (see PositionsOnGrid); the status is kept of cells only, and      *)
(* while every icon is in one of them so is every saved position in one of *)
(* the size it was saved for.                                              *)
TypeOK ==
  /\ events \in 0 .. MaxEvents
  /\ files \subseteq Items
  /\ showHidden \in BOOLEAN
  /\ fresh \in Items \union {None}
  /\ grid.size \in Sizes
  /\ DOMAIN grid.at \subseteq Nat /\ Range(grid.at) \subseteq Items
  /\ DOMAIN grid.pos \subseteq Items /\ Range(grid.pos) \subseteq Nat
  /\ grid.used \subseteq Cells(grid.size)
  /\ grid.over \in Seq(Items)
  /\ InsideGrid => /\ DOMAIN grid.saved \subseteq Sizes
                   /\ \A s \in DOMAIN grid.saved : DOMAIN grid.saved[s] \subseteq Cells(s)
  /\ grid.autoArrange \in BOOLEAN
  /\ grid.autoMerge \in BOOLEAN

(* The two maps and the status of the cells, which every operation changes *)
(* one by one, agree, even if changeGridSize() put an icon behind the last *)
(* cell; no icon is shown twice; and icons that overlap lie on one that    *)
(* has the last cell, where position() says they are.                      *)
Consistent ==
  /\ grid.used = DOMAIN grid.at \intersect Cells(grid.size)
  /\ IsInjective(grid.at)
  /\ grid.pos = Inverted(grid.at)
  /\ IsInjective(grid.over)
  /\ Range(grid.over) \intersect Placed(grid) = {}
  /\ grid.over # <<>> => overlapPos(grid) \in grid.used

(* Unless the desktop is merged, the positions on the screen are those     *)
(* that the next start or the way back to this size would restore.         *)
SavedIsShown ==
  ~grid.autoMerge => /\ grid.size \in DOMAIN grid.saved
                     /\ grid.saved[grid.size] = grid.at

(* A desktop that arranges itself has no gap and overlaps only when full,  *)
(* whichever handler ran last.                                             *)
ArrangedIsPacked ==
  shouldArrange(grid) => /\ grid.used = 0 .. Cardinality(grid.used) - 1
                         /\ grid.over # <<>> => Free(grid) = {}

(* An icon of a file that stays visible goes away in two cases only: the   *)
(* grid gets another size while icons overlap, or an icon or a new file is *)
(* moved on a desktop where a visible file has no cell.  And nothing gives *)
(* an icon to a file that is gone, except the late move of a new file that *)
(* was deleted meanwhile.                                                  *)
Crowded == \E i \in Visible : i \notin Placed(grid)

IconsFollowFiles ==
  [][/\ \A i \in Visible' :
          contains(grid, i) => \/ contains(grid', i)
                               \/ grid.over # <<>> /\ grid'.size # grid.size
                               \/ Crowded /\ DropEvent
                               \/ Crowded /\ \E p \in Points(grid.size) : NewFileByInternal(p)
     /\ \A i \in Items \ files' :
          contains(grid', i) => (contains(grid, i) /\ i \notin files) \/ i = fresh]_vars

(* A change of the size brings the icons back to where they were when the  *)
(* grid last had that size, unless they are arranged.                      *)
RoundTrip ==
  [][LET s == grid'.size IN
     s # grid.size /\ ~shouldArrange(grid) /\ s \in DOMAIN grid.saved =>
       \A c \in DOMAIN grid.saved[s] :
         contains(grid, grid.saved[s][c]) =>
           c \in DOMAIN grid'.at /\ grid'.at[c] = grid.saved[s][c]]_vars

(* The test of the profiles says "new geometry retains files" and asks for *)
(* positions with isValid(): every icon that has a cell has one of the     *)
(* grid.  It does not hold: see the count of empty cells in                *)
(* changeGridSize().                                                       *)
PositionsOnGrid == \A i \in Placed(grid) : grid.pos[i] \in Cells(grid.size)

(* syncProfile() reports "data sync failed" when its two maps differ in    *)
(* size.  They do once an icon that overlaps was announced again.          *)
DataInSync == Cardinality(DOMAIN grid.at) = Cardinality(DOMAIN grid.pos)

=============================================================================
