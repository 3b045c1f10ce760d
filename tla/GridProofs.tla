----------------------------- MODULE GridProofs -----------------------------
(***************************************************************************)
(* Proofs about GridManager, for any number of files, any sizes of the     *)
(* grid and any bound on the handlers.  They suppose that no file is       *)
(* announced while its icon overlaps, ~LateEvents: otherwise the two maps  *)
(* come apart, see DataInSync.                                             *)
(*                                                                         *)
(* The loops of the model are recursive functions.  What holds of them for *)
(* every number of rounds follows from LoopProofs, which gives the values  *)
(* after each round, and EachUpTo, the induction over the rounds.          *)
(***************************************************************************)
EXTENDS GridManager, FiniteSetTheorems, SequenceTheorems, WellFoundedInduction, TLAPS

-----------------------------------------------------------------------------
(* The loops of the model, as instances of LoopProofs.                     *)

(* The step that each of them repeats.                                     *)
PutBody(h, p, q, k) == Put(h, q[k])
Puts == INSTANCE LoopProofs WITH Body <- PutBody

BehindBody(h, c, q, k) == AddPrivate(h, c + k - 1, q[k])
Behinds == INSTANCE LoopProofs WITH Body <- BehindBody

AddAtBody(h, to, q, k) == addAt(h, to[k], q[k])
AddAts == INSTANCE LoopProofs WITH Body <- AddAtBody

RemoveBody(h, p, q, k) == remove(h, q[k])
Removes == INSTANCE LoopProofs WITH Body <- RemoveBody

AddBody(h, show, q, k) == add(h, q[k], show)
Adds == INSTANCE LoopProofs WITH Body <- AddBody

-----------------------------------------------------------------------------
(* Numbers, lists and maps.                                                *)

(* A set of numbers that is not empty has a least one.                     *)
LEMMA LeastNumber ==
  ASSUME NEW T \in SUBSET Nat, T # {}
  PROVE  \E n \in T : \A m \in T : n <= m
BY Puts!LeastNumber

(* What holds at 0 and passes from one number to the next holds up to n.   *)
LEMMA EachUpTo ==
  ASSUME NEW n \in Nat, NEW G, 0 \in G, \A k \in 1 .. n : k - 1 \in G => k \in G
  PROVE  \A k \in 0 .. n : k \in G
<1> DEFINE Bad == {k \in 0 .. n : k \notin G}
<1> SUFFICES ASSUME Bad # {} PROVE FALSE
  OBVIOUS
<1>1. PICK m \in Bad : \A l \in Bad : m <= l
  <2>1. Bad \in SUBSET Nat
    OBVIOUS
  <2> HIDE DEF Bad
  <2> QED BY <2>1, LeastNumber
<1>2. m \in 1 .. n /\ m - 1 \in 0 .. n /\ ~(m <= m - 1)
  OBVIOUS
<1>3. m - 1 \in G
  BY <1>1, <1>2
<1> QED BY <1>2, <1>3

(* The least of a set of numbers is in it, and no larger than the others.  *)
LEMMA MinLemma ==
  ASSUME NEW T \in SUBSET Nat, T # {}
  PROVE  Min(T) \in T /\ \A m \in T : Min(T) <= m
BY LeastNumber DEF Min

(* Ascending(S) lists every number of S once, and the k-th has k numbers   *)
(* of S up to it.                                                          *)
LEMMA AscendingEnumerates ==
  ASSUME NEW S \in SUBSET Nat, IsFiniteSet(S)
  PROVE  /\ Cardinality(S) \in Nat
         /\ Ascending(S) \in [1 .. Cardinality(S) -> S]
         /\ \A k, l \in 1 .. Cardinality(S) : Ascending(S)[k] = Ascending(S)[l] => k = l
         /\ \A c \in S : \E k \in 1 .. Cardinality(S) : Ascending(S)[k] = c
         /\ \A k \in 1 .. Cardinality(S) :
              Cardinality({d \in S : d <= Ascending(S)[k]}) = k
<1> DEFINE n == Cardinality(S)
           upTo(c) == {d \in S : d <= c}
           rank == [c \in S |-> Cardinality(upTo(c))]
<1>1. n \in Nat
  BY FS_CardinalityType
<1>2. \A c \in S : IsFiniteSet(upTo(c)) /\ rank[c] \in 1 .. n
  <2> TAKE c \in S
  <2>1. /\ IsFiniteSet(upTo(c))
        /\ Cardinality(upTo(c)) <= n
    BY FS_Subset
  <2>2. c \in upTo(c)
    OBVIOUS
  <2>3. Cardinality(upTo(c)) \in Nat /\ Cardinality(upTo(c)) # 0
    BY <2>1, <2>2, FS_CardinalityType, FS_EmptySet
  <2> QED BY <1>1, <2>1, <2>3
<1>3. \A c, e \in S : c < e => rank[c] < rank[e]
  <2> SUFFICES ASSUME NEW c \in S, NEW e \in S, c < e
               PROVE  rank[c] < rank[e]
    OBVIOUS
  <2>1. IsFiniteSet(upTo(e)) /\ rank[e] \in 1 .. n /\ rank[c] \in 1 .. n
    BY <1>2
  <2>2. /\ IsFiniteSet(upTo(e) \ {e})
        /\ Cardinality(upTo(e) \ {e}) = Cardinality(upTo(e)) - 1
    <3>1. e \in upTo(e)
      OBVIOUS
    <3> HIDE DEF upTo
    <3> QED BY <2>1, <3>1, FS_RemoveElement
  <2>3. upTo(c) \subseteq upTo(e) \ {e}
    <3> SUFFICES ASSUME NEW d \in upTo(c) PROVE d \in upTo(e) \ {e}
      OBVIOUS
    <3>1. d \in Nat /\ c \in Nat /\ e \in Nat /\ d \in S /\ d <= c
      OBVIOUS
    <3>2. d <= e /\ d # e
      BY <3>1
    <3> QED BY <3>1, <3>2
  <2>4. Cardinality(upTo(c)) <= Cardinality(upTo(e) \ {e})
    BY <2>2, <2>3, FS_Subset
  <2> QED BY <1>1, <2>1, <2>2, <2>4
<1>4. \A c, e \in S : rank[c] = rank[e] => c = e
  <2> SUFFICES ASSUME NEW c \in S, NEW e \in S, rank[c] = rank[e]
               PROVE  c = e
    OBVIOUS
  <2>1. rank[c] \in 1 .. n /\ rank[e] \in 1 .. n
    BY <1>2
  <2>2. ~(c < e) /\ ~(e < c)
    BY <1>3, <2>1
  <2> QED BY <2>2
<1> HIDE DEF rank
<1>5. rank \in Injection(S, 1 .. n)
  BY <1>2, <1>4 DEF Injection, IsInjective, rank
<1>6. \A k \in 1 .. n : \E c \in S : rank[c] = k
  <2>1. IsFiniteSet(1 .. n) /\ Cardinality(1 .. n) = n
    BY <1>1, FS_Interval
  <2>2. rank \in Surjection(S, 1 .. n)
    BY <1>5, <2>1, FS_Injection
  <2> QED BY <2>2 DEF Surjection
<1>7. \A k \in 1 .. n : Ascending(S)[k] \in S /\ rank[Ascending(S)[k]] = k
  BY <1>6 DEF Ascending, rank
<1>9. \A k \in 1 .. n : Cardinality(upTo(Ascending(S)[k])) = k
  BY <1>7 DEF rank
<1>8. Ascending(S) = [k \in 1 .. n |-> Ascending(S)[k]]
  BY DEF Ascending
<1> QED
  BY <1>1, <1>2, <1>4, <1>7, <1>8, <1>9

(* Values(f, S) lists the values of f on S.                                *)
LEMMA ValuesInOrder ==
  ASSUME NEW f, NEW S \in SUBSET Nat, IsFiniteSet(S),
         NEW A, \A c \in S : f[c] \in A
  PROVE  /\ Values(f, S) \in Seq(A)
         /\ Len(Values(f, S)) = Cardinality(S)
         /\ Range(Values(f, S)) = {f[c] : c \in S}
         /\ (\A b, c \in S : f[b] = f[c] => b = c) => IsInjective(Values(f, S))
<1> DEFINE n == Cardinality(S)
<1>1. /\ n \in Nat
      /\ \A k \in 1 .. n : Ascending(S)[k] \in S
      /\ \A k, l \in 1 .. n : Ascending(S)[k] = Ascending(S)[l] => k = l
      /\ \A c \in S : \E k \in 1 .. n : Ascending(S)[k] = c
  BY AscendingEnumerates
<1>2. /\ DOMAIN Values(f, S) = 1 .. n
      /\ \A k \in 1 .. n : Values(f, S)[k] = f[Ascending(S)[k]]
      /\ Values(f, S) = [k \in 1 .. n |-> Values(f, S)[k]]
  BY DEF Values
<1>3. \A k \in 1 .. n : Values(f, S)[k] \in A
  BY <1>1, <1>2
<1>4. Values(f, S) \in Seq(A)
  BY <1>1, <1>2, <1>3
<1>5. Range(Values(f, S)) = {f[c] : c \in S}
  BY <1>1, <1>2 DEF Range
<1>6. (\A b, c \in S : f[b] = f[c] => b = c) => IsInjective(Values(f, S))
  BY <1>1, <1>2 DEF IsInjective
<1> QED BY <1>1, <1>2, <1>4, <1>5, <1>6

(* QList::removeAll() of one icon: the others stay.                        *)
LEMMA DroppedLemma ==
  ASSUME NEW A, NEW q \in Seq(A), NEW i
  PROVE  /\ Dropped(q, i) \in Seq(A)
         /\ Range(Dropped(q, i)) = Range(q) \ {i}
         /\ IsInjective(q) => IsInjective(Dropped(q, i))
<1> DEFINE S == {k \in DOMAIN q : q[k] # i}
<1>1. Len(q) \in Nat /\ DOMAIN q = 1 .. Len(q) /\ \A k \in 1 .. Len(q) : q[k] \in A
  OBVIOUS
<1>2. S \in SUBSET Nat /\ IsFiniteSet(S)
  <2>1. IsFiniteSet(1 .. Len(q)) /\ S \subseteq 1 .. Len(q)
    BY <1>1, FS_Interval
  <2> QED BY <1>1, <2>1, FS_Subset
<1>3. \A k \in S : q[k] \in A
  BY <1>1
<1>4. {q[k] : k \in S} = Range(q) \ {i}
  BY DEF Range
<1>5. IsInjective(q) => \A b, c \in S : q[b] = q[c] => b = c
  BY DEF IsInjective
<1>6. Dropped(q, i) = Values(q, S)
  BY DEF Dropped
<1> HIDE DEF S
<1>7. /\ Values(q, S) \in Seq(A)
      /\ Range(Values(q, S)) = {q[k] : k \in S}
      /\ (\A b, c \in S : q[b] = q[c] => b = c) => IsInjective(Values(q, S))
  BY <1>2, <1>3, ValuesInOrder
<1> QED
  BY <1>4, <1>5, <1>6, <1>7

(* PutAll() puts one icon after the other.                                 *)
LEMMA PutAllSteps ==
  ASSUME NEW g, NEW q, Len(q) \in Nat
  PROVE  \E h : /\ h[0] = g
                /\ \A k \in 1 .. Len(q) : h[k] = Put(h[k - 1], q[k])
                /\ PutAll(g, q) = h[Len(q)]
<1>1. PutAll(g, q) = Puts!Loop(g, 0, q, Len(q))[Len(q)]
  BY DEF PutAll, Puts!Loop, PutBody
<1> QED
  BY <1>1, Puts!LoopSteps DEF PutBody

(* AddBehind() adds one icon after the other, cell by cell.                *)
LEMMA AddBehindSteps ==
  ASSUME NEW g, NEW c \in Nat, NEW q \in Seq(Items)
  PROVE  \E h : /\ h[0] = g
                /\ \A k \in 1 .. Len(q) : h[k] = BehindBody(h[k - 1], c, q, k)
                /\ AddBehind(g, c, q) = h[Len(q)]
<1>1. AddBehind(g, c, q) = Behinds!Loop(g, c, q, Len(q))[Len(q)]
  BY DEF AddBehind, Behinds!Loop, BehindBody
<1> QED
  BY <1>1, Behinds!LoopSteps

(* The loop of move() over the cells and the selected icons.               *)
LEMMA addAtAllSteps ==
  ASSUME NEW g, NEW to, NEW q, Len(q) \in Nat
  PROVE  \E h : /\ h[0] = g
                /\ \A k \in 1 .. Len(q) : h[k] = addAt(h[k - 1], to[k], q[k])
                /\ addAtAll(g, to, q) = h[Len(q)]
<1>1. addAtAll(g, to, q) = AddAts!Loop(g, to, q, Len(q))[Len(q)]
  BY DEF addAtAll, AddAts!Loop, AddAtBody
<1> QED
  BY <1>1, AddAts!LoopSteps DEF AddAtBody

(* The loops that remove icons one by one.                                 *)
LEMMA removeAllSteps ==
  ASSUME NEW g, NEW q, Len(q) \in Nat
  PROVE  \E h : /\ h[0] = g
                /\ \A k \in 1 .. Len(q) : h[k] = remove(h[k - 1], q[k])
                /\ removeAll(g, q) = h[Len(q)]
<1>1. removeAll(g, q) = Removes!Loop(g, 0, q, Len(q))[Len(q)]
  BY DEF removeAll, Removes!Loop, RemoveBody
<1> QED
  BY <1>1, Removes!LoopSteps DEF RemoveBody

(* The loops that add icons one by one.                                    *)
LEMMA addAllSteps ==
  ASSUME NEW g, NEW q, NEW show, Len(q) \in Nat
  PROVE  \E h : /\ h[0] = g
                /\ \A k \in 1 .. Len(q) : h[k] = add(h[k - 1], q[k], show)
                /\ addAll(g, q, show) = h[Len(q)]
<1>1. addAll(g, q, show) = Adds!Loop(g, show, q, Len(q))[Len(q)]
  BY DEF addAll, Adds!Loop, AddBody
<1> QED
  BY <1>1, Adds!LoopSteps DEF AddBody

-----------------------------------------------------------------------------
(* What every operation does to the fields of GridManagerPrivate.          *)

(* A GridManagerPrivate, and two of them with the same size and settings.  *)
IsGrid(g) ==
  DOMAIN g = {"size", "at", "pos", "used", "over", "saved", "autoArrange", "autoMerge"}

SameSettings(g, h) ==
  /\ h.size = g.size
  /\ h.autoArrange = g.autoArrange
  /\ h.autoMerge = g.autoMerge

(* A map after insert().                                                   *)
LEMMA WithLemma ==
  ASSUME NEW f, NEW x, NEW v
  PROVE  /\ DOMAIN With(f, x, v) = DOMAIN f \union {x}
         /\ With(f, x, v)[x] = v
         /\ \A y \in DOMAIN f \ {x} : With(f, x, v)[y] = f[y]
         /\ With(f, x, v) = [y \in DOMAIN With(f, x, v) |-> With(f, x, v)[y]]
BY DEF With

(* A map after remove().                                                   *)
LEMMA WithoutLemma ==
  ASSUME NEW f, NEW x
  PROVE  /\ DOMAIN Without(f, x) = DOMAIN f \ {x}
         /\ \A y \in DOMAIN f \ {x} : Without(f, x)[y] = f[y]
         /\ Without(f, x) = [y \in DOMAIN Without(f, x) |-> Without(f, x)[y]]
BY DEF Without, Restrict

(* What GridManagerPrivate::add() does to every field.                     *)
LEMMA AddPrivateFields ==
  ASSUME NEW g, IsGrid(g), NEW c, NEW i
  PROVE  LET h == AddPrivate(g, c, i) IN
         /\ IsGrid(h)
         /\ SameSettings(g, h)
         /\ h.saved = g.saved
         /\ c \notin DOMAIN g.at =>
              /\ h.at = With(g.at, c, i)
              /\ h.pos = With(g.pos, i, c)
              /\ h.used = g.used \union ({c} \intersect Cells(g.size))
              /\ h.over = g.over
         /\ c \in DOMAIN g.at =>
              /\ h.at = g.at
              /\ h.pos = g.pos
              /\ h.used = g.used
              /\ h.over = IF c = overlapPos(g) THEN Append(g.over, i) ELSE g.over
BY DEF AddPrivate, IsGrid, SameSettings

(* What takeEmptyPos() and add() do together.                              *)
LEMMA PutFields ==
  ASSUME NEW g, IsGrid(g), NEW i
  PROVE  LET h == Put(g, i)
             c == emptyPos(g) IN
         /\ IsGrid(h)
         /\ SameSettings(g, h)
         /\ h.saved = g.saved
         /\ c \notin DOMAIN g.at =>
              /\ h.at = With(g.at, c, i)
              /\ h.pos = With(g.pos, i, c)
              /\ h.used = g.used \union {c}
              /\ h.over = g.over
         /\ c \in DOMAIN g.at =>
              /\ h.at = g.at
              /\ h.pos = g.pos
              /\ h.used = g.used \union {c}
              /\ h.over = IF c = overlapPos(g) THEN Append(g.over, i) ELSE g.over
<1> DEFINE c == emptyPos(g)
           f == [g EXCEPT !.used = @ \union {c}]
<1>1. /\ IsGrid(f)
      /\ SameSettings(g, f)
      /\ f.saved = g.saved
      /\ f.at = g.at /\ f.pos = g.pos /\ f.over = g.over
      /\ f.used = g.used \union {c}
  BY DEF IsGrid, SameSettings
<1>2. overlapPos(f) = overlapPos(g) /\ Cells(f.size) = Cells(g.size)
  BY <1>1 DEF overlapPos, SameSettings
<1>3. Put(g, i) = AddPrivate(f, c, i)
  BY DEF Put
<1> HIDE DEF f, c
<1>4. (g.used \union {c}) \union ({c} \intersect Cells(g.size)) = g.used \union {c}
  OBVIOUS
<1> QED
  BY <1>1, <1>2, <1>3, <1>4, AddPrivateFields DEF c, SameSettings

(* What GridManagerPrivate::remove() does: an icon that overlaps may take  *)
(* the last cell.                                                          *)
LEMMA RemovePrivateFields ==
  ASSUME NEW g, IsGrid(g), NEW i
  PROVE  LET h == RemovePrivate(g, i)
             c == CellOf(g, i)
             rest == Dropped(g.over, i)
             moves == rest # <<>> /\ c = overlapPos(g) IN
         /\ IsGrid(h)
         /\ SameSettings(g, h)
         /\ h.saved = g.saved
         /\ i \notin Placed(g) =>
              h.at = g.at /\ h.pos = g.pos /\ h.used = g.used /\ h.over = rest
         /\ i \in Placed(g) /\ ~moves =>
              /\ h.at = Without(g.at, c)
              /\ h.pos = Without(g.pos, i)
              /\ h.used = g.used \ {c}
              /\ h.over = rest
         /\ i \in Placed(g) /\ moves =>
              /\ h.at = With(Without(g.at, c), c, Head(rest))
              /\ h.pos = With(Without(g.pos, i), Head(rest), c)
              /\ h.used = (g.used \ {c}) \union ({c} \intersect Cells(g.size))
              /\ h.over = Tail(rest)
<1> DEFINE c == CellOf(g, i)
           rest == Dropped(g.over, i)
           left == [g EXCEPT !.over = rest]
           freed == [left EXCEPT !.at = Without(@, c), !.pos = Without(@, i), !.used = @ \ {c}]
           moved == [freed EXCEPT !.over = Tail(@)]
<1>1. /\ IsGrid(left)
      /\ SameSettings(g, left) /\ left.saved = g.saved
      /\ left.at = g.at /\ left.pos = g.pos /\ left.used = g.used /\ left.over = rest
  BY DEF IsGrid, SameSettings
<1> HIDE DEF left, rest, c
<1>2. /\ IsGrid(freed)
      /\ SameSettings(g, freed) /\ freed.saved = g.saved
      /\ freed.at = Without(g.at, c) /\ freed.pos = Without(g.pos, i)
      /\ freed.used = g.used \ {c} /\ freed.over = rest
  BY <1>1 DEF IsGrid, SameSettings
<1> HIDE DEF freed
<1>3. /\ IsGrid(moved)
      /\ SameSettings(g, moved) /\ moved.saved = g.saved
      /\ moved.at = Without(g.at, c) /\ moved.pos = Without(g.pos, i)
      /\ moved.used = g.used \ {c} /\ moved.over = Tail(rest)
  BY <1>2 DEF IsGrid, SameSettings
<1> HIDE DEF moved
<1>4. RemovePrivate(g, i) = IF i \notin Placed(g) THEN left
                            ELSE IF left.over # <<>> /\ c = overlapPos(g)
                                 THEN AddPrivate(moved, c, Head(left.over))
                                 ELSE freed
  BY DEF RemovePrivate, left, freed, moved, rest, c
<1>5. c \notin DOMAIN moved.at
  <2>1. DOMAIN Without(g.at, c) = DOMAIN g.at \ {c}
    BY WithoutLemma
  <2> QED BY <1>3, <2>1
<1>6. moved.size = g.size
  BY <1>3 DEF SameSettings
<1>7. LET h == AddPrivate(moved, c, Head(rest)) IN
        /\ IsGrid(h)
        /\ SameSettings(g, h)
        /\ h.saved = g.saved
        /\ h.at = With(Without(g.at, c), c, Head(rest))
        /\ h.pos = With(Without(g.pos, i), Head(rest), c)
        /\ h.used = (g.used \ {c}) \union ({c} \intersect Cells(g.size))
        /\ h.over = Tail(rest)
  BY <1>3, <1>5, <1>6, AddPrivateFields DEF SameSettings
<1> QED
  BY <1>1, <1>2, <1>4, <1>7 DEF rest, c

(* What syncProfile() does.                                                *)
LEMMA SyncProfileFields ==
  ASSUME NEW g, IsGrid(g)
  PROVE  LET h == syncProfile(g) IN
         /\ IsGrid(h)
         /\ SameSettings(g, h)
         /\ h.at = g.at /\ h.pos = g.pos /\ h.used = g.used /\ h.over = g.over
         /\ h.saved = With(g.saved, g.size, g.at)
BY DEF syncProfile, IsGrid, SameSettings

(* What resetGridSize() and createProfile() do.                            *)
LEMMA ClearedFields ==
  ASSUME NEW g, IsGrid(g), NEW s
  PROVE  LET h == Cleared(g, s) IN
         /\ IsGrid(h)
         /\ h.size = s
         /\ h.autoArrange = g.autoArrange /\ h.autoMerge = g.autoMerge
         /\ h.at = <<>> /\ h.pos = <<>> /\ h.used = {} /\ h.over = <<>>
         /\ h.saved = g.saved
BY DEF Cleared, IsGrid

-----------------------------------------------------------------------------
(* When a grid is good, and that its operations keep it so.                *)

(* m_gridItems and m_itemGrids are inverse to each other.                  *)
MapsAgree(g) ==
  /\ DOMAIN g.at \subseteq Nat
  /\ IsFiniteSet(DOMAIN g.at)
  /\ DOMAIN g.pos \subseteq Items
  /\ g.pos = [i \in DOMAIN g.pos |-> g.pos[i]]
  /\ \A c \in DOMAIN g.at : g.at[c] \in DOMAIN g.pos /\ g.pos[g.at[c]] = c
  /\ \A i \in DOMAIN g.pos : g.pos[i] \in DOMAIN g.at /\ g.at[g.pos[i]] = i

(* The maps and the status of the cells agree, and no icon is shown twice. *)
(* An icon may be behind the grid, where it has no status.                 *)
Sound(g) ==
  /\ IsGrid(g)
  /\ g.size \in Sizes
  /\ g.autoArrange \in BOOLEAN
  /\ g.autoMerge \in BOOLEAN
  /\ MapsAgree(g)
  /\ g.used = DOMAIN g.at \intersect Cells(g.size)
  /\ g.over \in Seq(Items)
  /\ IsInjective(g.over)
  /\ Range(g.over) \intersect DOMAIN g.pos = {}

(* Besides, icons overlap only on one that has the last cell.              *)
Good(g) ==
  /\ Sound(g)
  /\ g.over # <<>> => overlapPos(g) \in g.used

(* Every icon is in a cell of the grid.                                    *)
Inside(g) == DOMAIN g.at \subseteq Cells(g.size)

(* A grid has a first and a last cell.                                     *)
LEMMA CellsOfSize ==
  ASSUME NEW s \in Sizes
  PROVE  /\ Count(s) \in Nat \ {0}
         /\ Cells(s) \subseteq Nat
         /\ IsFiniteSet(Cells(s))
         /\ Cardinality(Cells(s)) = Count(s)
         /\ 0 \in Cells(s)
         /\ Count(s) - 1 \in Cells(s)
<1>1. s[1] \in Nat \ {0} /\ s[2] \in Nat \ {0}
  BY GridAssumption
<1>2. Count(s) \in Nat \ {0}
  BY <1>1 DEF Count
<1>3. IsFiniteSet(0 .. Count(s) - 1) /\ Cardinality(0 .. Count(s) - 1) = Count(s)
  BY <1>2, FS_Interval
<1> QED
  BY <1>2, <1>3 DEF Cells

(* An icon that is not in the list goes behind it.                         *)
LEMMA AppendLemma ==
  ASSUME NEW A, NEW q \in Seq(A), IsInjective(q), NEW i \in A, i \notin Range(q)
  PROVE  /\ Append(q, i) \in Seq(A)
         /\ IsInjective(Append(q, i))
         /\ Range(Append(q, i)) = Range(q) \union {i}
         /\ Append(q, i) # <<>>
<1>1. /\ Len(q) \in Nat /\ DOMAIN q = 1 .. Len(q)
      /\ DOMAIN Append(q, i) = 1 .. Len(q) + 1
      /\ \A k \in 1 .. Len(q) : Append(q, i)[k] = q[k]
      /\ Append(q, i)[Len(q) + 1] = i
  OBVIOUS
<1>2. Append(q, i) \in Seq(A) /\ Append(q, i) # <<>>
  <2>1. Append(q, i) \in Seq(A) /\ Len(Append(q, i)) = Len(q) + 1
    OBVIOUS
  <2>2. Len(q) + 1 # 0 /\ Len(<<>>) = 0
    BY <1>1
  <2> QED BY <2>1, <2>2
<1>3. IsInjective(Append(q, i))
  <2> SUFFICES ASSUME NEW k \in 1 .. Len(q) + 1, NEW l \in 1 .. Len(q) + 1,
                      Append(q, i)[k] = Append(q, i)[l]
               PROVE  k = l
    BY <1>1 DEF IsInjective
  <2>1. \A m \in 1 .. Len(q) : q[m] # i
    BY <1>1 DEF Range
  <2>2. k \in 1 .. Len(q) \/ k = Len(q) + 1
    BY <1>1
  <2>3. l \in 1 .. Len(q) \/ l = Len(q) + 1
    BY <1>1
  <2> QED BY <1>1, <2>1, <2>2, <2>3 DEF IsInjective
<1>4. Range(Append(q, i)) = Range(q) \union {i}
  <2>1. 1 .. Len(q) + 1 = (1 .. Len(q)) \union {Len(q) + 1}
    BY <1>1
  <2> QED BY <1>1, <2>1 DEF Range
<1> QED BY <1>2, <1>3, <1>4

(* A list with the first icon taken off.                                   *)
LEMMA HeadTailLemma ==
  ASSUME NEW A, NEW q \in Seq(A), IsInjective(q), q # <<>>
  PROVE  /\ Tail(q) \in Seq(A)
         /\ IsInjective(Tail(q))
         /\ Head(q) \in A
         /\ Head(q) \notin Range(Tail(q))
         /\ Range(q) = Range(Tail(q)) \union {Head(q)}
<1>1. /\ Len(q) \in Nat \ {0} /\ DOMAIN q = 1 .. Len(q)
      /\ DOMAIN Tail(q) = 1 .. Len(q) - 1
      /\ \A k \in 1 .. Len(q) - 1 : Tail(q)[k] = q[k + 1]
      /\ Head(q) = q[1]
  OBVIOUS
<1>2. Tail(q) \in Seq(A) /\ Head(q) \in A
  BY <1>1
<1>3. \A k, l \in 1 .. Len(q) : q[k] = q[l] => k = l
  BY <1>1 DEF IsInjective
<1>4. IsInjective(Tail(q)) /\ Head(q) \notin Range(Tail(q))
  BY <1>1, <1>3 DEF IsInjective, Range
<1>5. Range(q) = Range(Tail(q)) \union {Head(q)}
  <2>1. \A k \in 1 .. Len(q) : k = 1 \/ (k - 1 \in 1 .. Len(q) - 1 /\ q[k] = Tail(q)[k - 1])
    BY <1>1
  <2>2. \A k \in 1 .. Len(q) - 1 : k + 1 \in 1 .. Len(q)
    BY <1>1
  <2>3. 1 \in 1 .. Len(q)
    BY <1>1
  <2>4. ASSUME NEW x \in Range(q) PROVE x \in Range(Tail(q)) \union {Head(q)}
    <3>1. PICK k \in 1 .. Len(q) : x = q[k]
      BY <1>1 DEF Range
    <3> QED BY <1>1, <2>1, <3>1 DEF Range
  <2>5. ASSUME NEW x \in Range(Tail(q)) PROVE x \in Range(q)
    <3>1. PICK k \in 1 .. Len(q) - 1 : x = q[k + 1]
      BY <1>1 DEF Range
    <3> QED BY <1>1, <2>2, <3>1 DEF Range
  <2>6. Head(q) \in Range(q)
    BY <1>1, <2>3 DEF Range
  <2> QED BY <2>4, <2>5, <2>6
<1> QED BY <1>2, <1>4, <1>5

(* The empty list has no icon, any other has one.                          *)
LEMMA EmptyRange ==
  /\ Range(<<>>) = {}
  /\ IsInjective(<<>>)
  /\ \A q \in Seq(Items) : q # <<>> => Range(q) # {}
  /\ \A q \in Seq(Items) : Range(q) \subseteq Items
<1>1. Range(<<>>) = {} /\ IsInjective(<<>>)
  BY DEF Range, IsInjective
<1>2. \A q \in Seq(Items) : q # <<>> => Range(q) # {}
  <2> SUFFICES ASSUME NEW q \in Seq(Items), q # <<>> PROVE Range(q) # {}
    OBVIOUS
  <2>1. 1 \in DOMAIN q
    OBVIOUS
  <2> QED BY <2>1 DEF Range
<1>3. \A q \in Seq(Items) : Range(q) \subseteq Items
  BY DEF Range
<1> QED BY <1>1, <1>2, <1>3

(* The maps still agree when an icon without a cell gets a free one.       *)
LEMMA PlacedAgree ==
  ASSUME NEW g, MapsAgree(g), NEW h,
         NEW c \in Nat, c \notin DOMAIN g.at, NEW i \in Items, i \notin DOMAIN g.pos,
         h.at = With(g.at, c, i), h.pos = With(g.pos, i, c)
  PROVE  MapsAgree(h)
<1>1. /\ DOMAIN h.at = DOMAIN g.at \union {c}
      /\ h.at[c] = i
      /\ \A b \in DOMAIN g.at : h.at[b] = g.at[b]
  BY DEF With
<1>2. /\ DOMAIN h.pos = DOMAIN g.pos \union {i}
      /\ h.pos[i] = c
      /\ \A j \in DOMAIN g.pos : h.pos[j] = g.pos[j]
      /\ h.pos = [j \in DOMAIN h.pos |-> h.pos[j]]
  BY DEF With
<1>3. IsFiniteSet(DOMAIN g.at \union {c})
  BY FS_AddElement DEF MapsAgree
<1> QED
  BY <1>1, <1>2, <1>3 DEF MapsAgree

(* The maps still agree when an icon leaves its cell.                      *)
LEMMA TakenAgree ==
  ASSUME NEW g, MapsAgree(g), NEW h, NEW i \in DOMAIN g.pos,
         h.at = Without(g.at, g.pos[i]), h.pos = Without(g.pos, i)
  PROVE  MapsAgree(h)
<1> DEFINE c == g.pos[i]
<1>1. /\ DOMAIN h.at = DOMAIN g.at \ {c}
      /\ \A b \in DOMAIN g.at \ {c} : h.at[b] = g.at[b]
  BY DEF Without, Restrict
<1>2. /\ DOMAIN h.pos = DOMAIN g.pos \ {i}
      /\ \A j \in DOMAIN g.pos \ {i} : h.pos[j] = g.pos[j]
      /\ h.pos = [j \in DOMAIN h.pos |-> h.pos[j]]
  BY DEF Without, Restrict
<1>3. IsFiniteSet(DOMAIN g.at \ {c})
  BY FS_RemoveElement DEF MapsAgree
<1> QED
  BY <1>1, <1>2, <1>3 DEF MapsAgree

(* An icon that gets a free cell.                                          *)
LEMMA PlacedSound ==
  ASSUME NEW g, Sound(g), NEW h, IsGrid(h), SameSettings(g, h),
         NEW c \in Nat, c \notin DOMAIN g.at, NEW i \in Items, ~contains(g, i),
         h.at = With(g.at, c, i), h.pos = With(g.pos, i, c),
         h.used = g.used \union ({c} \intersect Cells(g.size)), h.over = g.over
  PROVE  /\ Sound(h)
         /\ Placed(h) = Placed(g) \union {i}
<1>1. i \notin DOMAIN g.pos /\ i \notin Range(g.over)
  BY DEF contains, Placed
<1>2. MapsAgree(h)
  BY <1>1, PlacedAgree DEF Sound
<1>3. DOMAIN h.at = DOMAIN g.at \union {c} /\ DOMAIN h.pos = DOMAIN g.pos \union {i}
  BY DEF With
<1>4. h.used = DOMAIN h.at \intersect Cells(h.size)
  BY <1>3 DEF Sound, SameSettings
<1> QED
  BY <1>1, <1>2, <1>3, <1>4 DEF Sound, SameSettings, Placed

(* GridManagerPrivate::add() of an icon that is not shown: all stays       *)
(* sound, nothing else appears or goes away, and the icon is shown unless  *)
(* the cell was taken.                                                     *)
LEMMA AddPrivateSound ==
  ASSUME NEW g, Sound(g), NEW c \in Nat, NEW i \in Items, ~contains(g, i)
  PROVE  /\ Sound(AddPrivate(g, c, i))
         /\ Good(g) => Good(AddPrivate(g, c, i))
         /\ Inside(g) /\ c \in Cells(g.size) => Inside(AddPrivate(g, c, i))
         /\ \A j : contains(AddPrivate(g, c, i), j) => contains(g, j) \/ j = i
         /\ \A j : contains(g, j) => contains(AddPrivate(g, c, i), j)
         /\ c \notin DOMAIN g.at \/ c = overlapPos(g) => contains(AddPrivate(g, c, i), i)
<1> DEFINE h == AddPrivate(g, c, i)
<1>1. IsGrid(g)
  BY DEF Sound
<1>2. /\ IsGrid(h) /\ SameSettings(g, h)
      /\ c \notin DOMAIN g.at =>
           /\ h.at = With(g.at, c, i)
           /\ h.pos = With(g.pos, i, c)
           /\ h.used = g.used \union ({c} \intersect Cells(g.size))
           /\ h.over = g.over
      /\ c \in DOMAIN g.at =>
           /\ h.at = g.at
           /\ h.pos = g.pos
           /\ h.used = g.used
           /\ h.over = IF c = overlapPos(g) THEN Append(g.over, i) ELSE g.over
  BY <1>1, AddPrivateFields
<1>3. overlapPos(h) = overlapPos(g)
  BY <1>2 DEF overlapPos, SameSettings
<1>0. Inside(g) /\ c \in Cells(g.size) => Inside(h)
  BY <1>2 DEF Inside, SameSettings, With
<1> HIDE DEF h
<1>4. CASE c \notin DOMAIN g.at
  <2>1. Sound(h) /\ Placed(h) = Placed(g) \union {i}
    BY <1>2, <1>4, PlacedSound
  <2> QED BY <1>0, <1>2, <1>3, <1>4, <2>1 DEF Good, contains, h
<1>5. CASE c \in DOMAIN g.at /\ c = overlapPos(g)
  <2>1. i \notin DOMAIN g.pos /\ i \notin Range(g.over)
    BY DEF contains, Placed
  <2>2. /\ h.over \in Seq(Items) /\ IsInjective(h.over)
        /\ Range(h.over) = Range(g.over) \union {i}
    <3>1. g.over \in Seq(Items) /\ IsInjective(g.over)
      BY DEF Sound
    <3>2. h.over = Append(g.over, i)
      BY <1>2, <1>5
    <3> QED BY <2>1, <3>1, <3>2, AppendLemma
  <2>3. MapsAgree(h)
    BY <1>2, <1>5 DEF Sound, MapsAgree
  <2>4. Sound(h)
    BY <1>2, <1>5, <2>1, <2>2, <2>3 DEF Sound, SameSettings
  <2>5. g.size \in Sizes
    BY DEF Sound
  <2>6. overlapPos(g) \in Cells(g.size)
    BY <2>5, CellsOfSize DEF overlapPos
  <2>7. overlapPos(h) \in h.used
    BY <1>2, <1>3, <1>5, <2>6 DEF Sound
  <2> QED BY <1>0, <1>2, <1>5, <2>2, <2>4, <2>7 DEF Good, contains, Placed, h
<1>6. CASE c \in DOMAIN g.at /\ c # overlapPos(g)
  <2>1. h.at = g.at /\ h.pos = g.pos /\ h.used = g.used /\ h.over = g.over
    BY <1>2, <1>6
  <2>2. MapsAgree(h)
    BY <2>1 DEF Sound, MapsAgree
  <2>3. Sound(h)
    BY <1>2, <2>1, <2>2 DEF Sound, SameSettings
  <2>4. c \in DOMAIN g.at /\ c # overlapPos(g)
    BY <1>6
  <2>5. Good(g) => Good(h)
    BY <1>3, <2>1, <2>3 DEF Good
  <2>6. \A j : contains(h, j) <=> contains(g, j)
    BY <2>1 DEF contains, Placed
  <2> QED BY <1>0, <2>3, <2>4, <2>5, <2>6 DEF h
<1> QED BY <1>4, <1>5, <1>6

(* An icon that leaves its cell.                                           *)
LEMMA TakenSound ==
  ASSUME NEW g, Sound(g), NEW h, IsGrid(h), SameSettings(g, h), NEW i \in Placed(g),
         h.at = Without(g.at, g.pos[i]), h.pos = Without(g.pos, i),
         h.used = g.used \ {g.pos[i]}, h.over \in Seq(Items), IsInjective(h.over),
         Range(h.over) \subseteq Range(g.over)
  PROVE  /\ Sound(h)
         /\ Placed(h) = Placed(g) \ {i}
<1>1. i \in DOMAIN g.pos
  BY DEF Placed
<1>2. MapsAgree(h)
  BY <1>1, TakenAgree DEF Sound
<1>3. DOMAIN h.at = DOMAIN g.at \ {g.pos[i]} /\ DOMAIN h.pos = DOMAIN g.pos \ {i}
  BY DEF Without, Restrict
<1>4. h.used = DOMAIN h.at \intersect Cells(h.size)
  BY <1>3 DEF Sound, SameSettings
<1> QED
  BY <1>2, <1>3, <1>4 DEF Sound, SameSettings, Placed

(* GridManagerPrivate::remove() takes one icon away and no other.          *)
LEMMA RemovePrivateGood ==
  ASSUME NEW g, Good(g), NEW i \in Items
  PROVE  /\ Good(RemovePrivate(g, i))
         /\ \A j : contains(RemovePrivate(g, i), j) <=> contains(g, j) /\ j # i
         /\ Inside(g) => Inside(RemovePrivate(g, i))
<1> DEFINE h == RemovePrivate(g, i)
           c == CellOf(g, i)
           rest == Dropped(g.over, i)
           moves == rest # <<>> /\ c = overlapPos(g)
<1>1. Sound(g) /\ IsGrid(g) /\ MapsAgree(g) /\ g.over \in Seq(Items) /\ IsInjective(g.over)
  BY DEF Good, Sound
<1>2. /\ IsGrid(h) /\ SameSettings(g, h)
      /\ i \notin Placed(g) =>
           h.at = g.at /\ h.pos = g.pos /\ h.used = g.used /\ h.over = rest
      /\ i \in Placed(g) /\ ~moves =>
           /\ h.at = Without(g.at, c)
           /\ h.pos = Without(g.pos, i)
           /\ h.used = g.used \ {c}
           /\ h.over = rest
      /\ i \in Placed(g) /\ moves =>
           /\ h.at = With(Without(g.at, c), c, Head(rest))
           /\ h.pos = With(Without(g.pos, i), Head(rest), c)
           /\ h.used = (g.used \ {c}) \union ({c} \intersect Cells(g.size))
           /\ h.over = Tail(rest)
  BY <1>1, RemovePrivateFields
<1>3. rest \in Seq(Items) /\ IsInjective(rest) /\ Range(rest) = Range(g.over) \ {i}
  BY <1>1, DroppedLemma
<1>4. overlapPos(h) = overlapPos(g)
  BY <1>2 DEF overlapPos, SameSettings
<1>5. rest # <<>> => g.over # <<>>
  BY <1>1, <1>3, EmptyRange
<1>0. Inside(g) => Inside(h)
  <2> HIDE DEF h, rest
  <2>1. CASE i \notin Placed(g)
    BY <1>2, <2>1 DEF Inside, SameSettings
  <2>2. CASE i \in Placed(g)
    <3>1. c \in DOMAIN g.at
      BY <1>1, <2>2 DEF CellOf, Placed, MapsAgree
    <3> HIDE DEF c
    <3>2. DOMAIN h.at \subseteq DOMAIN g.at
      BY <1>2, <2>2, <3>1 DEF With, Without, Restrict
    <3> QED BY <1>2, <3>2 DEF Inside, SameSettings
  <2> QED BY <2>1, <2>2
<1> HIDE DEF h, rest
<1>6. CASE i \notin Placed(g)
  <2>1. h.at = g.at /\ h.pos = g.pos /\ h.used = g.used /\ h.over = rest
    BY <1>2, <1>6
  <2>2. MapsAgree(h)
    BY <1>1, <2>1 DEF MapsAgree
  <2>3. Sound(h)
    BY <1>1, <1>2, <1>3, <2>1, <2>2 DEF Sound, SameSettings
  <2>4. Good(h)
    BY <1>4, <1>5, <2>1, <2>3 DEF Good
  <2> QED BY <1>0, <1>3, <1>6, <2>1, <2>4 DEF contains, Placed, h
<1>7. CASE i \in Placed(g) /\ ~moves
  <2>1. c = g.pos[i] /\ i \in DOMAIN g.pos
    BY <1>7 DEF CellOf, Placed
  <2>2. Sound(h) /\ Placed(h) = Placed(g) \ {i}
    <3>1. h.at = Without(g.at, g.pos[i]) /\ h.pos = Without(g.pos, i)
      BY <1>2, <1>7, <2>1
    <3>2. h.used = g.used \ {g.pos[i]} /\ h.over = rest
      BY <1>2, <1>7, <2>1
    <3> HIDE DEF c
    <3> QED BY <1>1, <1>2, <1>3, <1>7, <3>1, <3>2, TakenSound
  <2>3. h.used = g.used \ {c} /\ h.over = rest
    BY <1>2, <1>7
  <2>4. Good(h)
    BY <1>4, <1>5, <1>7, <2>2, <2>3 DEF Good
  <2> QED BY <1>0, <1>3, <2>2, <2>3, <2>4 DEF contains, h
<1>8. CASE i \in Placed(g) /\ moves
  <2> DEFINE j == Head(rest)
             f == [g EXCEPT !.at = Without(@, c), !.pos = Without(@, i), !.used = @ \ {c},
                            !.over = Tail(rest)]
  <2>1. c = g.pos[i] /\ i \in DOMAIN g.pos /\ c \in DOMAIN g.at /\ c \in Nat
    BY <1>1, <1>8 DEF CellOf, Placed, MapsAgree
  <2>2. /\ Tail(rest) \in Seq(Items) /\ IsInjective(Tail(rest))
        /\ j \in Items /\ j \notin Range(Tail(rest))
        /\ Range(rest) = Range(Tail(rest)) \union {j}
    BY <1>3, <1>8, HeadTailLemma
  <2>3. /\ IsGrid(f) /\ SameSettings(g, f)
        /\ f.at = Without(g.at, c) /\ f.pos = Without(g.pos, i) /\ f.used = g.used \ {c}
        /\ f.over = Tail(rest)
    BY <1>1 DEF IsGrid, SameSettings
  <2> HIDE DEF f, j
  <2>4. Sound(f) /\ Placed(f) = Placed(g) \ {i}
    <3>1. f.at = Without(g.at, g.pos[i]) /\ f.used = g.used \ {g.pos[i]}
      BY <2>1, <2>3
    <3>2. Range(f.over) \subseteq Range(g.over)
      BY <1>3, <2>2, <2>3
    <3> HIDE DEF c
    <3>3. f.over \in Seq(Items) /\ IsInjective(f.over) /\ f.pos = Without(g.pos, i)
      BY <2>2, <2>3
    <3>4. i \in Placed(g) /\ Sound(g) /\ IsGrid(f) /\ SameSettings(g, f)
      BY <1>1, <1>8, <2>3
    <3> QED BY <3>1, <3>2, <3>3, <3>4, TakenSound
  <2>5. j \in Range(g.over) /\ j # i
    BY <1>3, <2>2
  <2>6. ~contains(f, j)
    BY <1>1, <2>2, <2>3, <2>4, <2>5 DEF contains, Placed, Sound
  <2>7. c \notin DOMAIN f.at
    BY <2>3 DEF Without, Restrict
  <2>8. SameSettings(f, h)
    BY <1>2, <2>3 DEF SameSettings
  <2>9. /\ h.at = With(f.at, c, j) /\ h.pos = With(f.pos, j, c)
        /\ h.used = f.used \union ({c} \intersect Cells(f.size)) /\ h.over = f.over
    BY <1>2, <1>8, <2>3 DEF SameSettings, j
  <2>10. Sound(h) /\ Placed(h) = Placed(f) \union {j}
    <3> HIDE DEF c
    <3> QED BY <1>2, <2>1, <2>2, <2>4, <2>6, <2>7, <2>8, <2>9, PlacedSound
  <2>11. c \in h.used
    <3>1. c \in Cells(g.size)
      BY <1>8, CellsOfSize DEF overlapPos, Good, Sound
    <3> QED BY <2>3, <2>9, <3>1 DEF SameSettings
  <2>12. Good(h)
    BY <1>4, <1>8, <2>10, <2>11 DEF Good
  <2>13. Placed(h) = (Placed(g) \ {i}) \union {j} /\ Range(h.over) = Range(Tail(rest))
    BY <2>3, <2>4, <2>9, <2>10
  <2>14. i \notin Range(g.over)
    BY <1>1, <1>8 DEF Sound, Placed
  <2> QED BY <1>0, <1>3, <2>2, <2>5, <2>12, <2>13, <2>14 DEF contains, h
<1> QED BY <1>6, <1>7, <1>8

(* emptyPos() is the first free cell, or the last one when there is none.  *)
LEMMA EmptyPosLemma ==
  ASSUME NEW g, Sound(g)
  PROVE  /\ emptyPos(g) \in Cells(g.size)
         /\ emptyPos(g) \in Nat
         /\ Free(g) # {} => /\ emptyPos(g) \notin DOMAIN g.at
                            /\ emptyPos(g) \in Free(g)
                            /\ \A b \in Free(g) : emptyPos(g) <= b
         /\ Free(g) = {} => /\ emptyPos(g) = overlapPos(g)
                            /\ g.used = Cells(g.size)
                            /\ emptyPos(g) \in DOMAIN g.at
<1>1. /\ Cells(g.size) \subseteq Nat
      /\ overlapPos(g) \in Cells(g.size)
  BY CellsOfSize DEF Sound, overlapPos
<1>2. g.used = DOMAIN g.at \intersect Cells(g.size)
  BY DEF Sound
<1>3. CASE Free(g) # {}
  <2>1. Free(g) \in SUBSET Nat
    BY <1>1 DEF Free
  <2>2. Min(Free(g)) \in Free(g) /\ \A b \in Free(g) : Min(Free(g)) <= b
    BY <1>3, <2>1, MinLemma
  <2>3. emptyPos(g) = Min(Free(g))
    BY <1>3 DEF emptyPos
  <2> QED BY <1>1, <1>2, <1>3, <2>2, <2>3 DEF Free
<1>4. CASE Free(g) = {}
  <2>1. emptyPos(g) = overlapPos(g)
    BY <1>4 DEF emptyPos
  <2>2. g.used = Cells(g.size)
    BY <1>2, <1>4 DEF Free
  <2> QED BY <1>1, <1>2, <1>4, <2>1, <2>2
<1> QED BY <1>3, <1>4

(* An icon that is put is shown, and no other comes or goes.               *)
LEMMA PutGood ==
  ASSUME NEW g, Good(g), NEW i \in Items, ~contains(g, i)
  PROVE  /\ Good(Put(g, i))
         /\ \A j : contains(Put(g, i), j) <=> contains(g, j) \/ j = i
         /\ Free(g) # {} => /\ Put(g, i).used = g.used \union {emptyPos(g)}
                            /\ Put(g, i).over = g.over
                            /\ Placed(Put(g, i)) = Placed(g) \union {i}
         /\ Free(g) = {} => Put(g, i).used = g.used
         /\ Inside(g) => Inside(Put(g, i))
<1> DEFINE h == Put(g, i)
           c == emptyPos(g)
<1>1. Sound(g) /\ IsGrid(g) /\ g.over \in Seq(Items) /\ IsInjective(g.over)
  BY DEF Good, Sound
<1>2. /\ IsGrid(h) /\ SameSettings(g, h)
      /\ c \notin DOMAIN g.at =>
           /\ h.at = With(g.at, c, i)
           /\ h.pos = With(g.pos, i, c)
           /\ h.used = g.used \union {c}
           /\ h.over = g.over
      /\ c \in DOMAIN g.at =>
           /\ h.at = g.at
           /\ h.pos = g.pos
           /\ h.used = g.used \union {c}
           /\ h.over = IF c = overlapPos(g) THEN Append(g.over, i) ELSE g.over
  BY <1>1, PutFields
<1>3. overlapPos(h) = overlapPos(g)
  BY <1>2 DEF overlapPos, SameSettings
<1>4. /\ c \in Cells(g.size) /\ c \in Nat
      /\ Free(g) # {} => c \notin DOMAIN g.at
      /\ Free(g) = {} => c = overlapPos(g) /\ c \in DOMAIN g.at /\ g.used = Cells(g.size)
  BY <1>1, EmptyPosLemma
<1>0. Inside(g) => Inside(h)
  BY <1>2, <1>4 DEF Inside, SameSettings, With
<1> HIDE DEF h, c
<1>5. CASE Free(g) # {}
  <2>1. /\ h.at = With(g.at, c, i) /\ h.pos = With(g.pos, i, c)
        /\ h.used = g.used \union {c} /\ h.over = g.over
    BY <1>2, <1>4, <1>5
  <2>2. h.used = g.used \union ({c} \intersect Cells(g.size))
    BY <1>4, <2>1
  <2>3. Sound(h) /\ Placed(h) = Placed(g) \union {i}
    BY <1>1, <1>2, <1>4, <1>5, <2>1, <2>2, PlacedSound
  <2>4. Good(h)
    BY <1>3, <2>1, <2>3 DEF Good
  <2> QED BY <1>0, <1>5, <2>1, <2>3, <2>4 DEF contains, h, c
<1>6. CASE Free(g) = {}
  <2>1. i \notin DOMAIN g.pos /\ i \notin Range(g.over)
    BY DEF contains, Placed
  <2>2. h.at = g.at /\ h.pos = g.pos /\ h.used = g.used /\ h.over = Append(g.over, i)
    BY <1>2, <1>4, <1>6
  <2>3. /\ h.over \in Seq(Items) /\ IsInjective(h.over)
        /\ Range(h.over) = Range(g.over) \union {i}
    BY <1>1, <2>1, <2>2, AppendLemma
  <2>4. MapsAgree(h)
    BY <1>1, <2>2 DEF Sound, MapsAgree
  <2>5. Sound(h)
    BY <1>1, <1>2, <2>1, <2>2, <2>3, <2>4 DEF Sound, SameSettings
  <2>6. Good(h)
    BY <1>3, <1>4, <1>6, <2>2, <2>5 DEF Good
  <2> QED BY <1>0, <1>6, <2>2, <2>3, <2>6 DEF contains, Placed, h
<1> QED BY <1>5, <1>6

(* The icons have the first cells, and overlap only when there is no       *)
(* other.                                                                  *)
Dense(g) ==
  /\ \E m \in Nat : g.used = 0 .. m - 1
  /\ g.over # <<>> => Free(g) = {}

(* Behind icons without a gap, the first free cell is the next one.        *)
LEMMA DenseEmptyPos ==
  ASSUME NEW g, Sound(g), NEW m \in Nat, g.used = 0 .. m - 1, Free(g) # {}
  PROVE  /\ emptyPos(g) = m
         /\ m < Count(g.size)
         /\ g.used \union {emptyPos(g)} = 0 .. m
<1>1. /\ Count(g.size) \in Nat
      /\ Cells(g.size) = 0 .. Count(g.size) - 1
  BY CellsOfSize DEF Sound, Cells
<1>2. /\ emptyPos(g) \in Free(g)
      /\ \A b \in Free(g) : emptyPos(g) <= b
  BY EmptyPosLemma
<1>3. \A b \in Free(g) : b \in Nat /\ m <= b /\ b < Count(g.size)
  BY <1>1 DEF Free
<1>4. m \in Free(g)
  BY <1>1, <1>2, <1>3 DEF Free
<1>5. emptyPos(g) = m
  <2>1. emptyPos(g) <= m
    BY <1>2, <1>4
  <2>2. emptyPos(g) \in Nat /\ m <= emptyPos(g)
    BY <1>2, <1>3
  <2> QED BY <2>1, <2>2
<1>6. (0 .. m - 1) \union {m} = 0 .. m
  OBVIOUS
<1> QED BY <1>3, <1>4, <1>5, <1>6

(* An icon that is put leaves no gap.                                      *)
LEMMA PutDense ==
  ASSUME NEW g, Good(g), Dense(g), NEW i \in Items, ~contains(g, i)
  PROVE  Dense(Put(g, i))
<1> DEFINE h == Put(g, i)
<1>1. Sound(g) /\ IsGrid(g)
  BY DEF Good, Sound
<1>2. SameSettings(g, h)
  BY <1>1, PutFields
<1>3. /\ Free(g) # {} => h.used = g.used \union {emptyPos(g)} /\ h.over = g.over
      /\ Free(g) = {} => h.used = g.used
  BY PutGood
<1> HIDE DEF h
<1>4. PICK m \in Nat : g.used = 0 .. m - 1
  BY DEF Dense
<1>5. CASE Free(g) # {}
  <2>1. h.used = 0 .. m
    BY <1>1, <1>3, <1>4, <1>5, DenseEmptyPos
  <2>2. h.over = <<>>
    BY <1>3, <1>5 DEF Dense
  <2>3. m + 1 \in Nat /\ (m + 1) - 1 = m
    OBVIOUS
  <2> QED BY <2>1, <2>2, <2>3 DEF Dense, h
<1>6. CASE Free(g) = {}
  <2>1. h.used = g.used /\ Free(h) = {}
    BY <1>2, <1>3, <1>6 DEF Free, SameSettings
  <2> QED BY <1>4, <2>1 DEF Dense, h
<1> QED BY <1>5, <1>6

(* Every icon of g is still in its cell in h.                              *)
Extends(g, h) == \A c \in DOMAIN g.at : c \in DOMAIN h.at /\ h.at[c] = g.at[c]

(* Putting icons moves none that has a cell.                               *)
LEMMA PutAllKeeps ==
  ASSUME NEW g, IsGrid(g), NEW q, Len(q) \in Nat
  PROVE  LET h == PutAll(g, q) IN
         IsGrid(h) /\ SameSettings(g, h) /\ h.saved = g.saved /\ Extends(g, h)
<1>1. PICK h : /\ h[0] = g
               /\ \A k \in 1 .. Len(q) : h[k] = Put(h[k - 1], q[k])
               /\ PutAll(g, q) = h[Len(q)]
  BY PutAllSteps
<1> DEFINE P(f) == IsGrid(f) /\ SameSettings(g, f) /\ f.saved = g.saved /\ Extends(g, f)
           K == {k \in 0 .. Len(q) : P(h[k])}
<1>2. 0 \in K
  BY <1>1 DEF SameSettings, Extends
<1>3. ASSUME NEW k \in 1 .. Len(q), k - 1 \in K PROVE k \in K
  <2> DEFINE f == h[k - 1]
             c == emptyPos(f)
  <2>1. P(f) /\ h[k] = Put(f, q[k])
    BY <1>1, <1>3
  <2> HIDE DEF f
  <2>2. /\ IsGrid(h[k]) /\ SameSettings(f, h[k]) /\ h[k].saved = f.saved
        /\ c \notin DOMAIN f.at => h[k].at = With(f.at, c, q[k])
        /\ c \in DOMAIN f.at => h[k].at = f.at
    BY <2>1, PutFields
  <2>3. Extends(f, h[k])
    BY <2>2 DEF Extends, With
  <2> QED BY <2>1, <2>2, <2>3 DEF SameSettings, Extends
<1> HIDE DEF K
<1>4. Len(q) \in K
  <2> DEFINE n == Len(q)
  <2>1. n \in Nat /\ 0 \in K /\ \A k \in 1 .. n : k - 1 \in K => k \in K
    BY <1>2, <1>3
  <2> HIDE DEF n
  <2>2. \A k \in 0 .. n : k \in K
    BY <2>1, EachUpTo
  <2> QED BY <2>1, <2>2 DEF n
<1> QED BY <1>1, <1>4 DEF K

(* Putting icons shows them all, and leaves no gap where there was none.   *)
LEMMA PutAllGood ==
  ASSUME NEW g, Good(g), NEW q \in Seq(Items), IsInjective(q),
         \A i \in Range(q) : ~contains(g, i)
  PROVE  /\ Good(PutAll(g, q))
         /\ \A j : contains(PutAll(g, q), j) <=> contains(g, j) \/ j \in Range(q)
         /\ Inside(g) => Inside(PutAll(g, q))
         /\ Dense(g) => Dense(PutAll(g, q))
<1>0. /\ Len(q) \in Nat /\ DOMAIN q = 1 .. Len(q)
      /\ \A k \in 1 .. Len(q) : q[k] \in Items /\ ~contains(g, q[k])
      /\ \A k, l \in 1 .. Len(q) : q[k] = q[l] => k = l
  BY DEF Range, IsInjective
<1>1. PICK h : /\ h[0] = g
               /\ \A k \in 1 .. Len(q) : h[k] = Put(h[k - 1], q[k])
               /\ PutAll(g, q) = h[Len(q)]
  BY <1>0, PutAllSteps
<1> DEFINE in(k) == \A j : contains(h[k], j) <=> contains(g, j) \/ \E l \in 1 .. k : q[l] = j
           kept(k) == /\ Inside(g) => Inside(h[k])
                      /\ Dense(g) => Dense(h[k])
           K == {k \in 0 .. Len(q) : Good(h[k]) /\ in(k) /\ kept(k)}
<1>2. 0 \in K
  BY <1>0, <1>1
<1>3. ASSUME NEW k \in 1 .. Len(q), k - 1 \in K PROVE k \in K
  <2>1. Good(h[k - 1]) /\ in(k - 1) /\ kept(k - 1) /\ h[k] = Put(h[k - 1], q[k]) /\ q[k] \in Items
    BY <1>0, <1>1, <1>3
  <2>2. ~contains(h[k - 1], q[k])
    <3>1. \A l \in 1 .. k - 1 : l \in 1 .. Len(q) /\ l # k
      BY <1>0
    <3> QED BY <1>0, <2>1, <3>1
  <2>3. /\ Good(h[k])
        /\ \A j : contains(h[k], j) <=> contains(h[k - 1], j) \/ j = q[k]
        /\ kept(k)
    BY <2>1, <2>2, PutGood, PutDense
  <2>4. 1 .. k = (1 .. k - 1) \union {k}
    BY <1>0
  <2>5. in(k)
    BY <2>1, <2>3, <2>4
  <2>6. k \in 0 .. Len(q)
    BY <1>0
  <2> QED BY <2>3, <2>5, <2>6
<1> HIDE DEF K
<1>4. Len(q) \in K
  <2> DEFINE n == Len(q)
  <2>1. n \in Nat /\ 0 \in K /\ \A k \in 1 .. n : k - 1 \in K => k \in K
    BY <1>0, <1>2, <1>3
  <2> HIDE DEF n
  <2>2. \A k \in 0 .. n : k \in K
    BY <2>1, EachUpTo
  <2> QED BY <2>1, <2>2 DEF n
<1>5. Good(h[Len(q)]) /\ in(Len(q)) /\ kept(Len(q))
  BY <1>4 DEF K
<1>6. \A j : j \in Range(q) <=> \E l \in 1 .. Len(q) : q[l] = j
  BY <1>0 DEF Range
<1> QED BY <1>1, <1>5, <1>6

(* Two lists without a common icon, one behind the other.                  *)
LEMMA ConcatLemma ==
  ASSUME NEW A, NEW q \in Seq(A), NEW r \in Seq(A), IsInjective(q), IsInjective(r),
         Range(q) \intersect Range(r) = {}
  PROVE  /\ q \o r \in Seq(A)
         /\ IsInjective(q \o r)
         /\ Range(q \o r) = Range(q) \union Range(r)
<1>1. /\ q \o r \in Seq(A)
      /\ Len(q) \in Nat /\ Len(r) \in Nat
      /\ DOMAIN q = 1 .. Len(q) /\ DOMAIN r = 1 .. Len(r)
      /\ DOMAIN (q \o r) = 1 .. Len(q) + Len(r)
      /\ \A k \in 1 .. Len(q) : (q \o r)[k] = q[k]
      /\ \A k \in Len(q) + 1 .. Len(q) + Len(r) : (q \o r)[k] = r[k - Len(q)]
  OBVIOUS
<1> DEFINE p == q \o r
           m == Len(q)
           n == Len(r)
<1>2. /\ m \in Nat /\ n \in Nat /\ DOMAIN q = 1 .. m /\ DOMAIN r = 1 .. n
      /\ DOMAIN p = 1 .. m + n
      /\ \A k \in 1 .. m : p[k] = q[k]
      /\ \A k \in m + 1 .. m + n : p[k] = r[k - m]
  BY <1>1
<1> HIDE DEF p, m, n
<1>3. \A k \in 1 .. m + n : k \in 1 .. m \/ (k \in m + 1 .. m + n /\ k - m \in 1 .. n)
  BY <1>2
<1>4. \A k \in 1 .. m : k \in 1 .. m + n
  BY <1>2
<1>5. \A k \in 1 .. n : k + m \in m + 1 .. m + n /\ k + m \in 1 .. m + n /\ (k + m) - m = k
  BY <1>2
<1>6. \A k \in 1 .. m, l \in 1 .. n : q[k] # r[l]
  BY <1>2 DEF Range
<1>7. IsInjective(p)
  <2> SUFFICES ASSUME NEW k \in 1 .. m + n, NEW l \in 1 .. m + n, p[k] = p[l]
               PROVE  k = l
    BY <1>2 DEF IsInjective
  <2>1. CASE k \in 1 .. m /\ l \in 1 .. m
    BY <1>2, <2>1 DEF IsInjective
  <2>2. CASE k \notin 1 .. m /\ l \notin 1 .. m
    <3>1. r[k - m] = r[l - m] /\ k - m \in 1 .. n /\ l - m \in 1 .. n
      BY <1>2, <1>3, <2>2
    <3>2. k - m = l - m
      BY <1>2, <3>1 DEF IsInjective
    <3> QED BY <1>2, <3>2
  <2>3. CASE k \in 1 .. m /\ l \notin 1 .. m
    BY <1>2, <1>3, <1>6, <2>3
  <2>4. CASE k \notin 1 .. m /\ l \in 1 .. m
    BY <1>2, <1>3, <1>6, <2>4
  <2> QED BY <2>1, <2>2, <2>3, <2>4
<1>8. Range(p) = Range(q) \union Range(r)
  <2>1. ASSUME NEW x \in Range(p) PROVE x \in Range(q) \union Range(r)
    <3>1. PICK k \in 1 .. m + n : x = p[k]
      BY <1>2 DEF Range
    <3> QED BY <1>2, <1>3, <3>1 DEF Range
  <2>2. ASSUME NEW x \in Range(q) PROVE x \in Range(p)
    <3>1. PICK k \in 1 .. m : x = q[k]
      BY <1>2 DEF Range
    <3> QED BY <1>2, <1>4, <3>1 DEF Range
  <2>3. ASSUME NEW x \in Range(r) PROVE x \in Range(p)
    <3>1. PICK k \in 1 .. n : x = r[k]
      BY <1>2 DEF Range
    <3>2. x = p[k + m] /\ k + m \in 1 .. m + n
      BY <1>2, <1>5, <3>1
    <3> QED BY <1>2, <3>2 DEF Range
  <2> QED BY <2>1, <2>2, <2>3
<1> QED BY <1>1, <1>7, <1>8 DEF p

(* rangeItems() lists every icon that is shown, once.                      *)
LEMMA RangeItemsLemma ==
  ASSUME NEW g, Sound(g)
  PROVE  /\ rangeItems(g) \in Seq(Items)
         /\ IsInjective(rangeItems(g))
         /\ \A j : j \in Range(rangeItems(g)) <=> contains(g, j)
<1> DEFINE v == Values(g.at, DOMAIN g.at)
<1>1. /\ DOMAIN g.at \subseteq Nat /\ IsFiniteSet(DOMAIN g.at)
      /\ \A c \in DOMAIN g.at : g.at[c] \in Items
      /\ \A b, c \in DOMAIN g.at : g.at[b] = g.at[c] => b = c
      /\ {g.at[c] : c \in DOMAIN g.at} = Placed(g)
  BY DEF Sound, MapsAgree, Placed
<1>2. /\ v \in Seq(Items)
      /\ IsInjective(v)
      /\ Range(v) = Placed(g)
  BY <1>1, ValuesInOrder
<1>3. /\ g.over \in Seq(Items) /\ IsInjective(g.over)
      /\ Range(v) \intersect Range(g.over) = {}
  BY <1>2 DEF Sound, Placed
<1>4. rangeItems(g) = v \o g.over
  BY DEF rangeItems
<1> HIDE DEF v
<1> QED
  BY <1>2, <1>3, <1>4, ConcatLemma DEF contains

(* The empty grid.                                                         *)
LEMMA ClearedGood ==
  ASSUME NEW g, IsGrid(g), g.autoArrange \in BOOLEAN, g.autoMerge \in BOOLEAN,
         NEW s \in Sizes
  PROVE  /\ Good(Cleared(g, s))
         /\ Placed(Cleared(g, s)) = {}
         /\ \A j : ~contains(Cleared(g, s), j)
         /\ Inside(Cleared(g, s))
<1> DEFINE h == Cleared(g, s)
<1>1. /\ IsGrid(h)
      /\ h.size = s
      /\ h.autoArrange = g.autoArrange /\ h.autoMerge = g.autoMerge
      /\ h.at = <<>> /\ h.pos = <<>> /\ h.used = {} /\ h.over = <<>>
  BY ClearedFields
<1> HIDE DEF h
<1>2. DOMAIN h.at = {} /\ DOMAIN h.pos = {} /\ h.pos = [i \in DOMAIN h.pos |-> h.pos[i]]
  BY <1>1
<1>3. MapsAgree(h)
  BY <1>2, FS_EmptySet DEF MapsAgree
<1>4. h.over \in Seq(Items) /\ IsInjective(h.over) /\ Range(h.over) = {}
  BY <1>1, EmptyRange
<1> QED
  BY <1>1, <1>2, <1>3, <1>4 DEF Good, Sound, Inside, contains, Placed, h

(* Icons that are put on an empty grid have its first cells.               *)
LEMMA PackedPuts ==
  ASSUME NEW g, Good(g), Placed(g) = {}, g.used = {}, g.over = <<>>,
         NEW q \in Seq(Items), IsInjective(q), Len(q) <= Count(g.size)
  PROVE  LET h == PutAll(g, q) IN
         /\ Good(h)
         /\ Inside(g) => Inside(h)
         /\ h.used = 0 .. Len(q) - 1
         /\ Placed(h) = Range(q)
<1>0. /\ Len(q) \in Nat /\ DOMAIN q = 1 .. Len(q)
      /\ \A k \in 1 .. Len(q) : q[k] \in Items
      /\ \A k, l \in 1 .. Len(q) : q[k] = q[l] => k = l
  BY DEF IsInjective
<1>1. PICK h : /\ h[0] = g
               /\ \A k \in 1 .. Len(q) : h[k] = Put(h[k - 1], q[k])
               /\ PutAll(g, q) = h[Len(q)]
  BY <1>0, PutAllSteps
<1> DEFINE P(f, k) == /\ Good(f)
                      /\ Inside(g) => Inside(f)
                      /\ f.size = g.size
                      /\ f.used = 0 .. k - 1
                      /\ f.over = <<>>
                      /\ Placed(f) = {q[l] : l \in 1 .. k}
           K == {k \in 0 .. Len(q) : P(h[k], k)}
<1>2. 0 \in K
  <2>1. 0 .. 0 - 1 = {} /\ 1 .. 0 = {}
    OBVIOUS
  <2>2. P(g, 0)
    BY <2>1
  <2> HIDE DEF P
  <2> QED BY <1>0, <1>1, <2>2
<1>3. ASSUME NEW k \in 1 .. Len(q), k - 1 \in K PROVE k \in K
  <2> DEFINE f == h[k - 1]
  <2>1. P(f, k - 1) /\ h[k] = Put(f, q[k]) /\ q[k] \in Items
    BY <1>0, <1>1, <1>3
  <2> HIDE DEF f
  <2>2. ~contains(f, q[k])
    <3>1. \A l \in 1 .. k - 1 : l \in 1 .. Len(q) /\ l # k
      BY <1>0
    <3>2. q[k] \notin Placed(f)
      BY <1>0, <2>1, <3>1
    <3> QED BY <2>1, <3>2, EmptyRange DEF contains
  <2>3. Sound(f) /\ IsGrid(f) /\ f.used = 0 .. (k - 1) - 1 /\ k - 1 \in Nat
    BY <1>0, <2>1 DEF Good, Sound
  <2>4. Free(f) # {}
    <3>1. Count(g.size) \in Nat /\ Cells(f.size) = 0 .. Count(g.size) - 1
      BY <2>1, <2>3, CellsOfSize DEF Sound, Cells
    <3>2. k - 1 \in Cells(f.size) /\ k - 1 \notin f.used
      BY <1>0, <2>3, <3>1
    <3> QED BY <3>2 DEF Free
  <2>5. f.used \union {emptyPos(f)} = 0 .. k - 1
    BY <2>3, <2>4, DenseEmptyPos
  <2>6. /\ Good(h[k])
        /\ h[k].used = 0 .. k - 1
        /\ h[k].over = <<>>
        /\ Placed(h[k]) = Placed(f) \union {q[k]}
        /\ Inside(f) => Inside(h[k])
    <3>1. Good(f) /\ q[k] \in Items /\ f.over = <<>> /\ h[k] = Put(f, q[k])
      BY <2>1
    <3>2. /\ Good(Put(f, q[k]))
          /\ Put(f, q[k]).used = f.used \union {emptyPos(f)}
          /\ Put(f, q[k]).over = f.over
          /\ Placed(Put(f, q[k])) = Placed(f) \union {q[k]}
          /\ Inside(f) => Inside(Put(f, q[k]))
      BY <2>2, <2>4, <3>1, PutGood
    <3> QED BY <2>5, <3>1, <3>2
  <2>7. h[k].size = g.size
    BY <2>1, <2>3, PutFields DEF SameSettings
  <2>8. 1 .. k = (1 .. k - 1) \union {k}
    BY <1>0
  <2>9. Placed(h[k]) = {q[l] : l \in 1 .. k}
    BY <2>1, <2>6, <2>8
  <2>10. k \in 0 .. Len(q)
    BY <1>0
  <2> QED BY <2>1, <2>6, <2>7, <2>9, <2>10
<1>4. Len(q) \in K
  <2> DEFINE n == Len(q)
  <2> HIDE DEF K
  <2>1. n \in Nat /\ 0 \in K /\ \A k \in 1 .. n : k - 1 \in K => k \in K
    BY <1>0, <1>2, <1>3
  <2> HIDE DEF n
  <2>2. \A k \in 0 .. n : k \in K
    BY <2>1, EachUpTo
  <2> QED BY <2>1, <2>2 DEF n
<1>5. Range(q) = {q[l] : l \in 1 .. Len(q)}
  BY <1>0 DEF Range
<1> QED BY <1>1, <1>4, <1>5

(* A list cut in two.                                                      *)
LEMMA SplitLemma ==
  ASSUME NEW A, NEW q \in Seq(A), IsInjective(q), NEW n \in 0 .. Len(q)
  PROVE  LET p == SubSeq(q, 1, n)
             r == SubSeq(q, n + 1, Len(q)) IN
         /\ p \in Seq(A) /\ IsInjective(p) /\ Len(p) = n
         /\ r \in Seq(A) /\ IsInjective(r)
         /\ Range(p) \intersect Range(r) = {}
         /\ Range(q) = Range(p) \union Range(r)
         /\ r # <<>> => n < Len(q)
<1> DEFINE p == SubSeq(q, 1, n)
           r == SubSeq(q, n + 1, Len(q))
           l == Len(q)
<1>1. /\ l \in Nat /\ n \in Nat /\ n <= l
      /\ DOMAIN q = 1 .. l
      /\ \A i, j \in 1 .. l : q[i] = q[j] => i = j
      /\ \A k \in 1 .. l : q[k] \in A
  BY DEF IsInjective
<1>2. /\ p \in Seq(A) /\ Len(p) = n /\ DOMAIN p = 1 .. n
      /\ \A k \in 1 .. n : p[k] = q[k]
  OBVIOUS
<1>3. /\ r \in Seq(A) /\ Len(r) = l - n /\ DOMAIN r = 1 .. l - n
      /\ \A k \in 1 .. l - n : r[k] = q[k + n]
  OBVIOUS
<1> HIDE DEF p, r, l
<1>4. /\ \A k \in 1 .. n : k \in 1 .. l
      /\ \A k \in 1 .. l - n : k + n \in 1 .. l /\ k + n \notin 1 .. n
      /\ \A k \in 1 .. l : k \in 1 .. n \/ (k - n \in 1 .. l - n /\ (k - n) + n = k)
      /\ \A j, k \in 1 .. l - n : j + n = k + n => j = k
  BY <1>1
<1>5. IsInjective(p)
  BY <1>1, <1>2, <1>4 DEF IsInjective
<1>6. IsInjective(r)
  <2> SUFFICES ASSUME NEW j \in 1 .. l - n, NEW k \in 1 .. l - n, r[j] = r[k] PROVE j = k
    BY <1>3 DEF IsInjective
  <2>1. j + n = k + n
    BY <1>1, <1>3, <1>4
  <2> QED BY <1>4, <2>1
<1>7. Range(p) \intersect Range(r) = {}
  <2> SUFFICES ASSUME NEW j \in 1 .. n, NEW k \in 1 .. l - n, p[j] = r[k] PROVE FALSE
    BY <1>2, <1>3 DEF Range
  <2>1. j = k + n
    BY <1>1, <1>2, <1>3, <1>4
  <2> QED BY <1>4, <2>1
<1>8. Range(q) = Range(p) \union Range(r)
  <2>1. ASSUME NEW k \in 1 .. l PROVE q[k] \in Range(p) \union Range(r)
    <3>1. CASE k \in 1 .. n
      BY <1>2, <3>1 DEF Range
    <3>2. CASE k - n \in 1 .. l - n /\ (k - n) + n = k
      <4>1. r[k - n] = q[k]
        BY <1>3, <3>2
      <4> QED BY <1>3, <3>2, <4>1 DEF Range
    <3> QED BY <1>4, <3>1, <3>2
  <2>2. \A k \in 1 .. n : p[k] \in Range(q)
    BY <1>1, <1>2, <1>4 DEF Range
  <2>3. \A k \in 1 .. l - n : r[k] \in Range(q)
    BY <1>1, <1>3, <1>4 DEF Range
  <2>4. Range(q) \subseteq Range(p) \union Range(r)
    BY <1>1, <2>1 DEF Range
  <2>5. Range(p) \subseteq Range(q) /\ Range(r) \subseteq Range(q)
    BY <1>2, <1>3, <2>2, <2>3 DEF Range
  <2> QED BY <2>4, <2>5
<1>9. r # <<>> => n < l
  BY <1>1, <1>3
<1> QED BY <1>2, <1>3, <1>5, <1>6, <1>7, <1>8, <1>9 DEF p, r, l

(* The way of arrange(): the grid has no gap, whatever it was before, and  *)
(* shows just the given icons.                                             *)
LEMMA PackedGood ==
  ASSUME NEW g, IsGrid(g), g.autoArrange \in BOOLEAN, g.autoMerge \in BOOLEAN,
         NEW s \in Sizes, NEW q \in Seq(Items), IsInjective(q)
  PROVE  LET h == Packed(g, s, q) IN
         /\ Good(h) /\ Dense(h) /\ Inside(h)
         /\ h.size = s /\ h.autoArrange = g.autoArrange /\ h.autoMerge = g.autoMerge
         /\ h.saved = g.saved
         /\ \A j : contains(h, j) <=> j \in Range(q)
<1> DEFINE n == Min({Count(s), Len(q)})
           e == Cleared(g, s)
           p == SubSeq(q, 1, n)
           r == SubSeq(q, n + 1, Len(q))
           f == PutAll(e, p)
           h == [f EXCEPT !.over = r]
<1>1. Count(s) \in Nat \ {0} /\ Len(q) \in Nat
  BY CellsOfSize
<1>2. n \in 0 .. Len(q) /\ n <= Count(s) /\ (n < Len(q) => n = Count(s))
  <2> DEFINE T == {Count(s), Len(q)}
  <2>1. T \in SUBSET Nat /\ T # {}
    BY <1>1
  <2> HIDE DEF T
  <2>2. Min(T) \in T /\ \A m \in T : Min(T) <= m
    BY <2>1, MinLemma
  <2> QED BY <1>1, <2>2 DEF T
<1>3. /\ IsGrid(e) /\ e.size = s /\ e.used = {} /\ e.over = <<>>
      /\ e.autoArrange = g.autoArrange /\ e.autoMerge = g.autoMerge
      /\ e.saved = g.saved
  BY ClearedFields
<1>4. Good(e) /\ Placed(e) = {} /\ Inside(e)
  BY ClearedGood
<1> HIDE DEF n, e
<1>5. /\ p \in Seq(Items) /\ IsInjective(p) /\ Len(p) = n
      /\ r \in Seq(Items) /\ IsInjective(r)
      /\ Range(p) \intersect Range(r) = {}
      /\ Range(q) = Range(p) \union Range(r)
      /\ r # <<>> => n < Len(q)
  BY <1>2, SplitLemma
<1> HIDE DEF p, r
<1>6. Good(f) /\ Inside(f) /\ f.used = 0 .. n - 1 /\ Placed(f) = Range(p)
  BY <1>2, <1>3, <1>4, <1>5, PackedPuts
<1>7. IsGrid(f) /\ SameSettings(e, f) /\ f.saved = g.saved
  <2>1. Len(p) \in Nat
    BY <1>5
  <2> QED BY <1>3, <2>1, PutAllKeeps
<1>8. Packed(g, s, q) = h
  BY DEF Packed, n, e, p, r
<1> HIDE DEF f
<1>9. /\ IsGrid(h) /\ SameSettings(f, h) /\ h.saved = f.saved
      /\ h.at = f.at /\ h.pos = f.pos /\ h.used = f.used /\ h.over = r
  BY <1>7 DEF IsGrid, SameSettings
<1> HIDE DEF h
<1>10. h.size = s /\ h.autoArrange = g.autoArrange /\ h.autoMerge = g.autoMerge
  BY <1>3, <1>7, <1>9 DEF SameSettings
<1>11. MapsAgree(h)
  BY <1>6, <1>9 DEF Good, Sound, MapsAgree
<1>12. Sound(h)
  BY <1>5, <1>6, <1>7, <1>9, <1>10, <1>11 DEF Good, Sound, SameSettings, Placed
<1>13. h.over # <<>> => h.used = Cells(s)
  BY <1>2, <1>5, <1>6, <1>9 DEF Cells
<1>14. Good(h)
  <2>1. overlapPos(h) \in Cells(s)
    BY <1>10, CellsOfSize DEF overlapPos
  <2> QED BY <1>12, <1>13, <2>1 DEF Good
<1>15. Dense(h)
  <2>1. n \in Nat /\ h.used = 0 .. n - 1
    BY <1>2, <1>6, <1>9
  <2>2. h.over # <<>> => Free(h) = {}
    BY <1>10, <1>13 DEF Free
  <2> QED BY <2>1, <2>2 DEF Dense
<1>16. \A j : contains(h, j) <=> j \in Range(q)
  BY <1>5, <1>6, <1>9 DEF contains, Placed
<1>17. Inside(h)
  BY <1>6, <1>9 DEF Inside, SameSettings
<1> QED
  BY <1>7, <1>8, <1>9, <1>10, <1>14, <1>15, <1>16, <1>17

(* arrange() keeps the icons.                                              *)
LEMMA ArrangeGood ==
  ASSUME NEW g, Sound(g)
  PROVE  LET h == arrange(g) IN
         /\ Good(h) /\ Dense(h) /\ Inside(h)
         /\ SameSettings(g, h)
         /\ h.saved = g.saved
         /\ \A j : contains(h, j) <=> contains(g, j)
<1>1. /\ rangeItems(g) \in Seq(Items)
      /\ IsInjective(rangeItems(g))
      /\ \A j : j \in Range(rangeItems(g)) <=> contains(g, j)
  BY RangeItemsLemma
<1>2. IsGrid(g) /\ g.autoArrange \in BOOLEAN /\ g.autoMerge \in BOOLEAN /\ g.size \in Sizes
  BY DEF Sound
<1> QED
  BY <1>1, <1>2, PackedGood DEF arrange, SameSettings

-----------------------------------------------------------------------------
(* The profiles, and the operations of GridManager.                        *)

(* What SavedIsShown says, of any grid.                                    *)
SavedShown(g) ==
  ~g.autoMerge => g.size \in DOMAIN g.saved /\ g.saved[g.size] = g.at

(* The profiles are placements of their sizes.                             *)
SavedFits(g) ==
  /\ DOMAIN g.saved \subseteq Sizes
  /\ \A s \in DOMAIN g.saved : DOMAIN g.saved[s] \subseteq Cells(s) /\ IsInjective(g.saved[s])

(* What holds of the grid while every icon is in one of its cells.         *)
Valid(g) == Good(g) /\ Inside(g) /\ SavedFits(g)

(* No icon has two cells.                                                  *)
LEMMA InjectiveAt ==
  ASSUME NEW g, Sound(g)
  PROVE  IsInjective(g.at)
BY DEF Sound, MapsAgree, IsInjective

(* syncProfile() changes the profile only.                                 *)
LEMMA SyncProfileLemma ==
  ASSUME NEW g, IsGrid(g)
  PROVE  LET h == syncProfile(g) IN
         /\ IsGrid(h) /\ SameSettings(g, h)
         /\ h.at = g.at /\ h.pos = g.pos /\ h.used = g.used /\ h.over = g.over
         /\ SavedShown(h)
         /\ Good(g) => Good(h)
         /\ Dense(g) => Dense(h)
         /\ Inside(g) => Inside(h)
         /\ \A j : contains(h, j) <=> contains(g, j)
         /\ Sound(g) /\ Inside(g) /\ SavedFits(g) => SavedFits(h)
<1> DEFINE h == syncProfile(g)
<1>1. /\ IsGrid(h) /\ SameSettings(g, h)
      /\ h.at = g.at /\ h.pos = g.pos /\ h.used = g.used /\ h.over = g.over
      /\ h.saved = With(g.saved, g.size, g.at)
  BY SyncProfileFields
<1> HIDE DEF h
<1>2. SavedShown(h)
  BY <1>1 DEF SavedShown, SameSettings, With
<1>3. MapsAgree(g) => MapsAgree(h)
  BY <1>1 DEF MapsAgree
<1>4. Sound(g) => Sound(h)
  BY <1>1, <1>3 DEF Sound, SameSettings
<1>5. Good(g) => Good(h)
  BY <1>1, <1>4 DEF Good, SameSettings, overlapPos
<1>6. Dense(g) => Dense(h)
  BY <1>1 DEF Dense, Free, SameSettings
<1>7. Inside(g) => Inside(h)
  BY <1>1 DEF Inside, SameSettings
<1>8. \A j : contains(h, j) <=> contains(g, j)
  BY <1>1 DEF contains, Placed
<1>9. ASSUME Sound(g), Inside(g), SavedFits(g) PROVE SavedFits(h)
  <2>1. g.size \in Sizes /\ IsInjective(g.at) /\ DOMAIN g.at \subseteq Cells(g.size)
    BY <1>9, InjectiveAt DEF Sound, Inside
  <2>2. /\ DOMAIN h.saved = DOMAIN g.saved \union {g.size}
        /\ h.saved[g.size] = g.at
        /\ \A s \in DOMAIN g.saved \ {g.size} : h.saved[s] = g.saved[s]
    BY <1>1 DEF With
  <2> QED BY <1>9, <2>1, <2>2 DEF SavedFits
<1> QED
  BY <1>1, <1>2, <1>5, <1>6, <1>7, <1>8, <1>9 DEF h

(* The same of the operations that save when they changed something.       *)
LEMMA SyncedLemma ==
  ASSUME NEW g, IsGrid(g), NEW h, IsGrid(h), SameSettings(g, h), h.saved = g.saved
  PROVE  LET k == Synced(g, h) IN
         /\ IsGrid(k) /\ SameSettings(g, k)
         /\ k.at = h.at /\ k.pos = h.pos /\ k.used = h.used /\ k.over = h.over
         /\ SavedShown(g) => SavedShown(k)
         /\ Good(h) => Good(k)
         /\ Dense(h) => Dense(k)
         /\ Inside(h) => Inside(k)
         /\ \A j : contains(k, j) <=> contains(h, j)
         /\ SavedFits(g) /\ Sound(h) /\ Inside(h) => SavedFits(k)
<1>1. CASE g.at # h.at /\ ~g.autoMerge
  <2>1. Synced(g, h) = syncProfile(h)
    BY <1>1 DEF Synced
  <2>2. SavedFits(g) => SavedFits(h)
    BY DEF SavedFits
  <2> QED BY <2>1, <2>2, SyncProfileLemma DEF SameSettings
<1>2. CASE ~(g.at # h.at /\ ~g.autoMerge)
  <2>1. Synced(g, h) = h
    BY <1>2 DEF Synced
  <2> QED BY <1>2, <2>1 DEF SavedShown, SameSettings, SavedFits
<1> QED BY <1>1, <1>2

(* GridManager::add() to a given cell.                                     *)
LEMMA AddAtLemma ==
  ASSUME NEW g, IsGrid(g), NEW c, NEW i
  PROVE  LET h == addAt(g, c, i) IN
         /\ IsGrid(h) /\ SameSettings(g, h)
         /\ SavedShown(g) => SavedShown(h)
         /\ Valid(g) /\ i \in Items /\ ~contains(g, i) /\ c \in Cells(g.size) =>
              /\ Valid(h)
              /\ \A j : contains(h, j) => contains(g, j) \/ j = i
              /\ \A j : contains(g, j) => contains(h, j)
              /\ DOMAIN h.at \subseteq DOMAIN g.at \union {c}
              /\ c \notin DOMAIN g.at \/ c = overlapPos(g) => contains(h, i)
<1> DEFINE f == AddPrivate(g, c, i)
<1>1. IsGrid(f) /\ SameSettings(g, f) /\ f.saved = g.saved
  BY AddPrivateFields
<1>2. ASSUME Valid(g), i \in Items, ~contains(g, i), c \in Cells(g.size)
      PROVE  /\ Good(f) /\ Inside(f)
             /\ \A j : contains(f, j) => contains(g, j) \/ j = i
             /\ \A j : contains(g, j) => contains(f, j)
             /\ c \notin DOMAIN g.at \/ c = overlapPos(g) => contains(f, i)
  <2>1. Sound(g) /\ Good(g) /\ Inside(g) /\ c \in Nat
    BY <1>2, CellsOfSize DEF Valid, Good, Sound
  <2> QED BY <1>2, <2>1, AddPrivateSound
<1>3. addAt(g, c, i) = Synced(g, f)
  BY DEF addAt
<1>4. DOMAIN f.at \subseteq DOMAIN g.at \union {c}
  <2>1. c \notin DOMAIN g.at => f.at = With(g.at, c, i)
    BY AddPrivateFields
  <2>2. c \in DOMAIN g.at => f.at = g.at
    BY AddPrivateFields
  <2>3. DOMAIN With(g.at, c, i) = DOMAIN g.at \union {c}
    BY WithLemma
  <2> HIDE DEF f
  <2> QED BY <2>1, <2>2, <2>3
<1> HIDE DEF f
<1> QED
  BY <1>1, <1>2, <1>3, <1>4, SyncedLemma DEF Valid, Good

(* No icon of h is in a cell where it was not in g, but for the last one.  *)
OldAt(g, h) ==
  \A c \in DOMAIN h.at : c = overlapPos(g) \/ (c \in DOMAIN g.at /\ h.at[c] = g.at[c])

(* GridManager::remove().                                                  *)
LEMMA RemoveLemma ==
  ASSUME NEW g, IsGrid(g), NEW i
  PROVE  LET h == remove(g, i) IN
         /\ IsGrid(h) /\ SameSettings(g, h)
         /\ SavedShown(g) => SavedShown(h)
         /\ Valid(g) /\ i \in Items =>
              /\ Valid(h)
              /\ \A j : contains(h, j) <=> contains(g, j) /\ j # i
              /\ OldAt(g, h)
<1> DEFINE f == RemovePrivate(g, i)
<1>1. IsGrid(f) /\ SameSettings(g, f) /\ f.saved = g.saved
  BY RemovePrivateFields
<1>2. ASSUME Valid(g), i \in Items
      PROVE  /\ Good(f) /\ Inside(f)
             /\ \A j : contains(f, j) <=> contains(g, j) /\ j # i
  BY <1>2, RemovePrivateGood DEF Valid
<1>3. remove(g, i) = Synced(g, f)
  BY DEF remove
<1>4. OldAt(g, f)
  <2> DEFINE c == CellOf(g, i)
             rest == Dropped(g.over, i)
             moves == rest # <<>> /\ c = overlapPos(g)
  <2>1. /\ i \notin Placed(g) => f.at = g.at
        /\ i \in Placed(g) /\ ~moves => f.at = Without(g.at, c)
        /\ i \in Placed(g) /\ moves => f.at = With(Without(g.at, c), c, Head(rest))
    BY RemovePrivateFields
  <2>2. moves => c = overlapPos(g)
    OBVIOUS
  <2> HIDE DEF f, moves, c
  <2>3. CASE i \notin Placed(g)
    BY <2>1, <2>3 DEF OldAt
  <2>4. CASE i \in Placed(g) /\ ~moves
    <3>1. f.at = Without(g.at, c)
      BY <2>1, <2>4
    <3>2. /\ DOMAIN Without(g.at, c) = DOMAIN g.at \ {c}
          /\ \A d \in DOMAIN g.at \ {c} : Without(g.at, c)[d] = g.at[d]
      BY WithoutLemma
    <3> QED BY <3>1, <3>2 DEF OldAt
  <2>5. CASE i \in Placed(g) /\ moves
    <3> DEFINE u == Without(g.at, c)
               x == Head(rest)
               w == With(u, c, x)
    <3>1. f.at = w /\ c = overlapPos(g)
      BY <2>1, <2>2, <2>5
    <3> HIDE DEF x
    <3>2. /\ DOMAIN u = DOMAIN g.at \ {c}
          /\ \A d \in DOMAIN g.at \ {c} : u[d] = g.at[d]
      BY WithoutLemma
    <3> HIDE DEF u
    <3> HIDE DEF w
    <3>3. /\ DOMAIN w = DOMAIN u \union {c}
          /\ \A d \in DOMAIN u \ {c} : w[d] = u[d]
      <4>1. DOMAIN With(u, c, x) = DOMAIN u \union {c}
        BY WithLemma
      <4>2. ASSUME NEW d \in DOMAIN u \ {c} PROVE With(u, c, x)[d] = u[d]
        <5>1. d \in DOMAIN u \union {c} /\ d # c
          OBVIOUS
        <5> QED BY <5>1 DEF With
      <4> QED BY <4>1, <4>2 DEF w
    <3> QED BY <3>1, <3>2, <3>3 DEF OldAt
  <2> QED BY <2>3, <2>4, <2>5
<1> HIDE DEF f
<1> QED
  BY <1>1, <1>2, <1>3, <1>4, SyncedLemma DEF Valid, Good, OldAt

(* GridManager::add() to the first free cell.                              *)
LEMMA AddLemma ==
  ASSUME NEW g, IsGrid(g), NEW i, NEW show
  PROVE  LET h == add(g, i, show) IN
         /\ IsGrid(h) /\ SameSettings(g, h)
         /\ SavedShown(g) => SavedShown(h)
         /\ Valid(g) /\ i \in Items /\ i \notin Range(g.over) =>
              /\ Valid(h)
              /\ \A j : contains(h, j) => contains(g, j) \/ j = i
              /\ \A j : contains(g, j) => contains(h, j)
              /\ Dense(g) => Dense(h)
              /\ ~(i \in Hidden /\ ~show) => contains(h, i)
<1> DEFINE f == Put(g, i)
<1>1. CASE i \in Placed(g) \/ (i \in Hidden /\ ~show)
  <2>1. add(g, i, show) = g
    BY <1>1 DEF add
  <2> QED BY <1>1, <2>1 DEF SameSettings, contains
<1>2. CASE ~(i \in Placed(g) \/ (i \in Hidden /\ ~show))
  <2>1. IsGrid(f) /\ SameSettings(g, f) /\ f.saved = g.saved
    BY PutFields
  <2>2. ASSUME Valid(g), i \in Items, i \notin Range(g.over)
        PROVE  /\ Good(f) /\ Inside(f)
               /\ \A j : contains(f, j) <=> contains(g, j) \/ j = i
               /\ Dense(g) => Dense(f)
    <3>1. ~contains(g, i)
      BY <1>2, <2>2 DEF contains
    <3> QED BY <2>2, <3>1, PutGood, PutDense DEF Valid
  <2>3. add(g, i, show) = Synced(g, f)
    BY <1>2 DEF add
  <2> HIDE DEF f
  <2> QED
    BY <2>1, <2>2, <2>3, SyncedLemma DEF Valid, Good
<1> QED BY <1>1, <1>2

(* Removing icons takes them all away and no other.                        *)
LEMMA RemoveAllLemma ==
  ASSUME NEW g, IsGrid(g), NEW q, Len(q) \in Nat
  PROVE  LET h == removeAll(g, q) IN
         /\ IsGrid(h) /\ SameSettings(g, h)
         /\ SavedShown(g) => SavedShown(h)
         /\ Valid(g) /\ q \in Seq(Items) =>
              /\ Valid(h)
              /\ \A j : contains(h, j) <=> contains(g, j) /\ j \notin Range(q)
              /\ OldAt(g, h)
<1> DEFINE n == Len(q)
<1>1. PICK h : /\ h[0] = g
               /\ \A k \in 1 .. n : h[k] = remove(h[k - 1], q[k])
               /\ removeAll(g, q) = h[n]
  BY removeAllSteps
<1> DEFINE gone(k) == \A j : contains(h[k], j) <=> contains(g, j) /\ \A l \in 1 .. k : q[l] # j
           P(k) == /\ IsGrid(h[k]) /\ SameSettings(g, h[k])
                   /\ SavedShown(g) => SavedShown(h[k])
                   /\ Valid(g) /\ q \in Seq(Items) => Valid(h[k]) /\ gone(k) /\ OldAt(g, h[k])
           K == {k \in 0 .. n : P(k)}
<1>2. 0 \in K
  <2>1. 1 .. 0 = {}
    OBVIOUS
  <2> QED BY <1>1, <2>1 DEF SameSettings, OldAt
<1>3. ASSUME NEW k \in 1 .. n, k - 1 \in K PROVE k \in K
  <2>1. P(k - 1) /\ h[k] = remove(h[k - 1], q[k])
    BY <1>1, <1>3
  <2>2. /\ IsGrid(h[k]) /\ SameSettings(h[k - 1], h[k])
        /\ SavedShown(h[k - 1]) => SavedShown(h[k])
        /\ Valid(h[k - 1]) /\ q[k] \in Items =>
             /\ Valid(h[k])
             /\ \A j : contains(h[k], j) <=> contains(h[k - 1], j) /\ j # q[k]
             /\ OldAt(h[k - 1], h[k])
    BY <2>1, RemoveLemma
  <2>3. 1 .. k = (1 .. k - 1) \union {k}
    OBVIOUS
  <2>4. ASSUME Valid(g), q \in Seq(Items) PROVE Valid(h[k]) /\ gone(k) /\ OldAt(g, h[k])
    <3>1. q[k] \in Items
      BY <2>4
    <3>2. OldAt(g, h[k])
      <4>1. overlapPos(h[k - 1]) = overlapPos(g)
        BY <2>1 DEF overlapPos, SameSettings
      <4>2. OldAt(g, h[k - 1]) /\ OldAt(h[k - 1], h[k])
        BY <2>1, <2>2, <2>4, <3>1
      <4> QED BY <4>1, <4>2 DEF OldAt
    <3> QED BY <2>1, <2>2, <2>3, <2>4, <3>1, <3>2
  <2>5. SameSettings(g, h[k])
    BY <2>1, <2>2 DEF SameSettings
  <2>6. k \in 0 .. n
    OBVIOUS
  <2> HIDE DEF gone
  <2> QED BY <2>1, <2>2, <2>4, <2>5, <2>6
<1> HIDE DEF K, n
<1>4. n \in K
  <2>1. n \in Nat
    BY DEF n
  <2>2. \A k \in 0 .. n : k \in K
    BY <1>2, <1>3, <2>1, EachUpTo
  <2> QED BY <2>1, <2>2
<1>5. q \in Seq(Items) => \A j : j \notin Range(q) <=> \A l \in 1 .. n : q[l] # j
  BY DEF Range, n
<1> QED BY <1>1, <1>4, <1>5 DEF K

(* Adding icons at given cells: they are all shown if the cells differ and *)
(* are free.                                                               *)
LEMMA AddAtAllLemma ==
  ASSUME NEW g, IsGrid(g), NEW to, NEW q, Len(q) \in Nat
  PROVE  LET h == addAtAll(g, to, q) IN
         /\ IsGrid(h) /\ SameSettings(g, h)
         /\ SavedShown(g) => SavedShown(h)
         /\ (/\ Valid(g)
             /\ q \in Seq(Items) /\ IsInjective(q)
             /\ \A k \in 1 .. Len(q) : ~contains(g, q[k]) /\ to[k] \in Cells(g.size))
            => /\ Valid(h)
               /\ \A j : contains(h, j) => contains(g, j) \/ j \in Range(q)
               /\ \A j : contains(g, j) => contains(h, j)
               /\ (/\ \A k \in 1 .. Len(q) : to[k] \notin DOMAIN g.at \/ to[k] = overlapPos(g)
                   /\ \A k, l \in 1 .. Len(q) : to[k] = to[l] => k = l)
                  => \A j \in Range(q) : contains(h, j)
<1>1. PICK h : /\ h[0] = g
               /\ \A k \in 1 .. Len(q) : h[k] = addAt(h[k - 1], to[k], q[k])
               /\ addAtAll(g, to, q) = h[Len(q)]
  <2>1. \E h : /\ h[0] = g
               /\ \A k \in 1 .. Len(q) : h[k] = addAt(h[k - 1], to[k], q[k])
               /\ addAtAll(g, to, q) = h[Len(q)]
    BY ONLY Len(q) \in Nat, addAtAllSteps
  <2> QED BY <2>1
<1> DEFINE n == Len(q)
           Pre == /\ Valid(g)
                  /\ q \in Seq(Items) /\ IsInjective(q)
                  /\ \A k \in 1 .. Len(q) : ~contains(g, q[k]) /\ to[k] \in Cells(g.size)
           Apart == /\ \A k \in 1 .. Len(q) : to[k] \notin DOMAIN g.at \/ to[k] = overlapPos(g)
                    /\ \A k, l \in 1 .. Len(q) : to[k] = to[l] => k = l
           in(k) == \A j : contains(h[k], j) => contains(g, j) \/ \E l \in 1 .. k : q[l] = j
           kept(k) == /\ \A j : contains(g, j) => contains(h[k], j)
                      /\ \A c \in DOMAIN h[k].at : c \in DOMAIN g.at \/ \E l \in 1 .. k : to[l] = c
                      /\ Apart => \A l \in 1 .. k : contains(h[k], q[l])
           P(k) == /\ IsGrid(h[k]) /\ SameSettings(g, h[k])
                   /\ SavedShown(g) => SavedShown(h[k])
                   /\ Pre => Valid(h[k]) /\ in(k) /\ kept(k)
           K == {k \in 0 .. n : P(k)}
<1>2. 0 \in K
  <2>1. 1 .. 0 = {}
    OBVIOUS
  <2> QED BY <1>1, <2>1 DEF SameSettings
<1>3. ASSUME NEW k \in 1 .. n, k - 1 \in K PROVE k \in K
  <2>1. P(k - 1) /\ h[k] = addAt(h[k - 1], to[k], q[k])
    BY <1>1, <1>3
  <2>2. /\ IsGrid(h[k]) /\ SameSettings(h[k - 1], h[k])
        /\ SavedShown(h[k - 1]) => SavedShown(h[k])
        /\ (/\ Valid(h[k - 1])
            /\ q[k] \in Items /\ ~contains(h[k - 1], q[k])
            /\ to[k] \in Cells(h[k - 1].size))
           => /\ Valid(h[k])
              /\ \A j : contains(h[k], j) => contains(h[k - 1], j) \/ j = q[k]
              /\ \A j : contains(h[k - 1], j) => contains(h[k], j)
              /\ DOMAIN h[k].at \subseteq DOMAIN h[k - 1].at \union {to[k]}
              /\ to[k] \notin DOMAIN h[k - 1].at \/ to[k] = overlapPos(h[k - 1]) =>
                   contains(h[k], q[k])
    BY <2>1, AddAtLemma
  <2>3. 1 .. k = (1 .. k - 1) \union {k}
    OBVIOUS
  <2>4. ASSUME Pre PROVE Valid(h[k]) /\ in(k) /\ kept(k)
    <3>1. q[k] \in Items /\ ~contains(g, q[k]) /\ to[k] \in Cells(g.size)
      BY <2>4
    <3>2. \A l \in 1 .. k - 1 : q[l] # q[k]
      <4>1. \A l \in 1 .. k - 1 : l \in 1 .. n /\ l # k
        OBVIOUS
      <4> QED BY <2>4, <4>1 DEF IsInjective
    <3>3. Valid(h[k - 1]) /\ in(k - 1) /\ kept(k - 1)
      BY <2>1, <2>4
    <3>4. ~contains(h[k - 1], q[k]) /\ h[k - 1].size = g.size
      BY <2>1, <3>1, <3>2, <3>3 DEF SameSettings
    <3>5. Valid(h[k]) /\ in(k)
      BY <2>2, <2>3, <3>1, <3>3, <3>4
    <3>6. /\ \A j : contains(g, j) => contains(h[k], j)
          /\ \A c \in DOMAIN h[k].at : c \in DOMAIN g.at \/ \E l \in 1 .. k : to[l] = c
      BY <2>2, <2>3, <3>1, <3>3, <3>4
    <3>7. ASSUME Apart PROVE \A l \in 1 .. k : contains(h[k], q[l])
      <4>1. overlapPos(h[k - 1]) = overlapPos(g)
        BY <3>4 DEF overlapPos
      <4>2. \A l \in 1 .. k - 1 : l \in 1 .. n /\ l # k
        OBVIOUS
      <4>3. to[k] \notin DOMAIN h[k - 1].at \/ to[k] = overlapPos(h[k - 1])
        BY <3>3, <3>7, <4>1, <4>2
      <4> QED BY <2>2, <2>3, <3>1, <3>3, <3>4, <3>7, <4>3
    <3> QED BY <3>5, <3>6, <3>7
  <2>5. SameSettings(g, h[k])
    BY <2>1, <2>2 DEF SameSettings
  <2>6. k \in 0 .. n
    OBVIOUS
  <2> HIDE DEF in, Pre, kept
  <2> QED BY <2>1, <2>2, <2>4, <2>5, <2>6
<1> HIDE DEF K, n
<1>4. n \in K
  <2>1. n \in Nat
    BY DEF n
  <2>2. \A k \in 0 .. n : k \in K
    BY <1>2, <1>3, <2>1, EachUpTo
  <2> QED BY <2>1, <2>2
<1>5. q \in Seq(Items) => \A j : j \in Range(q) <=> \E l \in 1 .. n : q[l] = j
  BY DEF Range, n
<1>6. P(n)
  BY <1>4 DEF K
<1> QED BY <1>1, <1>5, <1>6 DEF n

(* Adding icons: they are all shown, but for hidden ones.                  *)
LEMMA AddAllLemma ==
  ASSUME NEW g, IsGrid(g), NEW q, Len(q) \in Nat, NEW show
  PROVE  LET h == addAll(g, q, show) IN
         /\ IsGrid(h) /\ SameSettings(g, h)
         /\ SavedShown(g) => SavedShown(h)
         /\ (/\ Valid(g)
             /\ q \in Seq(Items) /\ IsInjective(q)
             /\ \A k \in 1 .. Len(q) : ~contains(g, q[k]))
            => /\ Valid(h)
               /\ \A j : contains(h, j) => contains(g, j) \/ j \in Range(q)
               /\ \A j : contains(g, j) => contains(h, j)
               /\ \A j \in Range(q) : ~(j \in Hidden /\ ~show) => contains(h, j)
<1> DEFINE n == Len(q)
           Pre == /\ Valid(g)
                  /\ q \in Seq(Items) /\ IsInjective(q)
                  /\ \A k \in 1 .. Len(q) : ~contains(g, q[k])
<1>1. PICK h : /\ h[0] = g
               /\ \A k \in 1 .. n : h[k] = add(h[k - 1], q[k], show)
               /\ addAll(g, q, show) = h[n]
  BY addAllSteps
<1> DEFINE in(k) == \A j : contains(h[k], j) => contains(g, j) \/ \E l \in 1 .. k : q[l] = j
           kept(k) == /\ \A j : contains(g, j) => contains(h[k], j)
                      /\ \A l \in 1 .. k : ~(q[l] \in Hidden /\ ~show) => contains(h[k], q[l])
           P(k) == /\ IsGrid(h[k]) /\ SameSettings(g, h[k])
                   /\ SavedShown(g) => SavedShown(h[k])
                   /\ Pre => Valid(h[k]) /\ in(k) /\ kept(k)
           K == {k \in 0 .. n : P(k)}
<1>2. 0 \in K
  <2>1. 1 .. 0 = {}
    OBVIOUS
  <2> QED BY <1>1, <2>1 DEF SameSettings
<1>3. ASSUME NEW k \in 1 .. n, k - 1 \in K PROVE k \in K
  <2>1. P(k - 1) /\ h[k] = add(h[k - 1], q[k], show)
    BY <1>1, <1>3
  <2>2. /\ IsGrid(h[k]) /\ SameSettings(h[k - 1], h[k])
        /\ SavedShown(h[k - 1]) => SavedShown(h[k])
        /\ Valid(h[k - 1]) /\ q[k] \in Items /\ q[k] \notin Range(h[k - 1].over)
           => /\ Valid(h[k])
              /\ \A j : contains(h[k], j) => contains(h[k - 1], j) \/ j = q[k]
              /\ \A j : contains(h[k - 1], j) => contains(h[k], j)
              /\ ~(q[k] \in Hidden /\ ~show) => contains(h[k], q[k])
    BY <2>1, AddLemma
  <2>3. 1 .. k = (1 .. k - 1) \union {k}
    OBVIOUS
  <2>4. ASSUME Pre PROVE Valid(h[k]) /\ in(k) /\ kept(k)
    <3>1. q[k] \in Items /\ ~contains(g, q[k])
      BY <2>4
    <3>2. \A l \in 1 .. k - 1 : q[l] # q[k]
      <4>1. \A l \in 1 .. k - 1 : l \in 1 .. n /\ l # k
        OBVIOUS
      <4> QED BY <2>4, <4>1 DEF IsInjective
    <3>3. Valid(h[k - 1]) /\ in(k - 1) /\ kept(k - 1)
      BY <2>1, <2>4
    <3>4. ~contains(h[k - 1], q[k])
      BY <3>1, <3>2, <3>3
    <3>5. q[k] \notin Range(h[k - 1].over)
      BY <3>4 DEF contains
    <3> QED BY <2>2, <2>3, <3>1, <3>3, <3>5
  <2>5. SameSettings(g, h[k])
    BY <2>1, <2>2 DEF SameSettings
  <2>6. k \in 0 .. n
    OBVIOUS
  <2> HIDE DEF in, Pre, kept
  <2> QED BY <2>1, <2>2, <2>4, <2>5, <2>6
<1> HIDE DEF K, n
<1>4. n \in K
  <2>1. n \in Nat
    BY DEF n
  <2>2. \A k \in 0 .. n : k \in K
    BY <1>2, <1>3, <2>1, EachUpTo
  <2> QED BY <2>1, <2>2
<1>5. q \in Seq(Items) => \A j : j \in Range(q) <=> \E l \in 1 .. n : q[l] = j
  BY DEF Range, n
<1> QED BY <1>1, <1>4, <1>5 DEF K, n

(* The icons of a set in their order.                                      *)
LEMMA AscendingItems ==
  ASSUME NEW S \in SUBSET Items
  PROVE  /\ Ascending(S) \in Seq(Items)
         /\ IsInjective(Ascending(S))
         /\ Range(Ascending(S)) = S
<1>1. S \in SUBSET Nat /\ IsFiniteSet(S)
  <2>1. NItems \in Nat
    BY GridAssumption
  <2>2. IsFiniteSet(1 .. NItems)
    BY <2>1, FS_Interval
  <2>3. IsFiniteSet(S)
    BY <2>2, FS_Subset DEF Items
  <2> QED BY <2>1, <2>3 DEF Items
<1> DEFINE n == Cardinality(S)
<1>2. /\ n \in Nat
      /\ Ascending(S) \in [1 .. n -> S]
      /\ \A k, l \in 1 .. n : Ascending(S)[k] = Ascending(S)[l] => k = l
      /\ \A c \in S : \E k \in 1 .. n : Ascending(S)[k] = c
  BY <1>1, AscendingEnumerates
<1> HIDE DEF n
<1> QED
  BY <1>2 DEF IsInjective, Range

(* The inverse of a map without repeated values.                           *)
LEMMA InvertedLemma ==
  ASSUME NEW f, IsInjective(f)
  PROVE  /\ DOMAIN Inverted(f) = Range(f)
         /\ Inverted(f) = [i \in DOMAIN Inverted(f) |-> Inverted(f)[i]]
         /\ \A c \in DOMAIN f : f[c] \in Range(f) /\ Inverted(f)[f[c]] = c
         /\ \A i \in Range(f) : Inverted(f)[i] \in DOMAIN f /\ f[Inverted(f)[i]] = i
<1>1. \A i \in Range(f) : Inverted(f)[i] \in DOMAIN f /\ f[Inverted(f)[i]] = i
  BY DEF Inverted, Range
<1>2. \A c \in DOMAIN f : f[c] \in Range(f)
  BY DEF Range
<1>3. \A c \in DOMAIN f : Inverted(f)[f[c]] = c
  BY <1>1, <1>2 DEF IsInjective
<1>4. DOMAIN Inverted(f) = Range(f) /\ Inverted(f) = [i \in DOMAIN Inverted(f) |-> Inverted(f)[i]]
  BY DEF Inverted
<1> QED BY <1>1, <1>2, <1>3, <1>4

(* The grid of size s with the icons at, as restoreProfile() and           *)
(* changeGridSize() build it.                                              *)
Kept(g, s, at) ==
  [Cleared(g, s) EXCEPT !.at = at, !.pos = Inverted(at), !.used = DOMAIN at]

(* Such a grid is good when at is a placement of its size.                 *)
LEMMA KeptGood ==
  ASSUME NEW g, IsGrid(g), g.autoArrange \in BOOLEAN, g.autoMerge \in BOOLEAN,
         NEW s \in Sizes, NEW at, DOMAIN at \subseteq Cells(s), IsInjective(at),
         Range(at) \subseteq Items
  PROVE  LET h == Kept(g, s, at) IN
         /\ Good(h) /\ Inside(h)
         /\ h.size = s /\ h.autoArrange = g.autoArrange /\ h.autoMerge = g.autoMerge
         /\ h.saved = g.saved
         /\ h.at = at /\ h.used = DOMAIN at /\ h.over = <<>>
         /\ \A j : contains(h, j) <=> j \in Range(at)
<1> DEFINE e == Cleared(g, s)
           h == [e EXCEPT !.at = at, !.pos = Inverted(at), !.used = DOMAIN at]
<1>1. Cells(s) \subseteq Nat /\ IsFiniteSet(Cells(s))
  BY CellsOfSize
<1>2. IsFiniteSet(DOMAIN at)
  BY <1>1, FS_Subset
<1>3. /\ IsGrid(e) /\ e.size = s /\ e.over = <<>> /\ e.saved = g.saved
      /\ e.autoArrange = g.autoArrange /\ e.autoMerge = g.autoMerge
  BY ClearedFields
<1> HIDE DEF e
<1>4. /\ IsGrid(h) /\ h.size = s /\ h.over = <<>> /\ h.saved = g.saved
      /\ h.autoArrange = g.autoArrange /\ h.autoMerge = g.autoMerge
      /\ h.at = at /\ h.pos = Inverted(at) /\ h.used = DOMAIN at
  BY <1>3 DEF IsGrid
<1> HIDE DEF h
<1>5. /\ DOMAIN Inverted(at) = Range(at)
      /\ Inverted(at) = [i \in DOMAIN Inverted(at) |-> Inverted(at)[i]]
      /\ \A c \in DOMAIN at : at[c] \in Range(at) /\ Inverted(at)[at[c]] = c
      /\ \A i \in Range(at) : Inverted(at)[i] \in DOMAIN at /\ at[Inverted(at)[i]] = i
  BY InvertedLemma
<1>6. MapsAgree(h)
  BY <1>1, <1>2, <1>4, <1>5 DEF MapsAgree
<1>7. h.over \in Seq(Items) /\ IsInjective(h.over) /\ Range(h.over) = {}
  BY <1>4, EmptyRange
<1>8. Sound(h)
  BY <1>4, <1>6, <1>7 DEF Sound
<1>9. Good(h) /\ Inside(h)
  BY <1>4, <1>8 DEF Good, Inside
<1>10. \A j : contains(h, j) <=> j \in Range(at)
  BY <1>4, <1>5, <1>7 DEF contains, Placed
<1>11. h = Kept(g, s, at)
  BY DEF e, h, Kept
<1> QED BY <1>4, <1>9, <1>10, <1>11

(* Tidied() keeps the icons.                                               *)
LEMMA TidiedLemma ==
  ASSUME NEW g, Sound(g)
  PROVE  LET h == Tidied(g) IN
         /\ Good(g) => Good(h)
         /\ Inside(g) => Inside(h)
         /\ SameSettings(g, h)
         /\ h.saved = g.saved
         /\ shouldArrange(g) => Dense(h) /\ Good(h) /\ Inside(h)
         /\ \A j : contains(h, j) <=> contains(g, j)
BY ArrangeGood DEF Tidied, SameSettings

(* restoreProfile() shows just the given icons, every one whose saved cell *)
(* is its own there.                                                       *)
LEMMA RestoreLemma ==
  ASSUME NEW g, IsGrid(g), g.autoArrange \in BOOLEAN, g.autoMerge \in BOOLEAN, SavedFits(g),
         NEW s \in Sizes, NEW items \in SUBSET Items
  PROVE  LET h == restoreProfile(g, s, items) IN
         /\ Good(h) /\ Inside(h)
         /\ h.size = s /\ h.autoArrange = g.autoArrange /\ h.autoMerge = g.autoMerge
         /\ h.saved = g.saved
         /\ \A j : contains(h, j) <=> j \in items
         /\ shouldArrange(g) => Dense(h)
         /\ ~shouldArrange(g) /\ s \in DOMAIN g.saved =>
              \A c \in DOMAIN g.saved[s] : g.saved[s][c] \in items =>
                c \in DOMAIN h.at /\ h.at[c] = g.saved[s][c]
<1> DEFINE profile == IF s \in DOMAIN g.saved THEN g.saved[s] ELSE <<>>
           first(c) == \A b \in DOMAIN profile : b < c => profile[b] # profile[c]
           kept == {c \in DOMAIN profile \intersect Cells(s) : profile[c] \in items /\ first(c)}
           at == Restrict(profile, kept)
           old == [Cleared(g, s) EXCEPT !.at = at, !.pos = Inverted(at), !.used = kept]
           q == Ascending(items \ Range(at))
           f == PutAll(old, q)
<1>1. restoreProfile(g, s, items) = Tidied(f)
  BY DEF restoreProfile
<1>2. DOMAIN profile \subseteq Cells(s) /\ IsInjective(profile)
  <2>1. CASE s \in DOMAIN g.saved
    BY <2>1 DEF SavedFits
  <2>2. CASE s \notin DOMAIN g.saved
    BY <2>2, EmptyRange
  <2> QED BY <2>1, <2>2
<1>3. s \in DOMAIN g.saved => profile = g.saved[s]
  OBVIOUS
<1> HIDE DEF profile
<1>4. Cells(s) \subseteq Nat
  BY CellsOfSize
<1>5. /\ kept \subseteq Cells(s) /\ kept \subseteq DOMAIN profile
      /\ \A c \in kept : profile[c] \in items
      /\ \A c \in DOMAIN profile : profile[c] \in items => c \in kept
  BY <1>2, <1>4 DEF IsInjective
<1> HIDE DEF kept
<1>6. /\ DOMAIN at = kept
      /\ \A c \in kept : at[c] = profile[c]
      /\ IsInjective(at)
      /\ Range(at) \subseteq items
  BY <1>2, <1>5 DEF Restrict, IsInjective, Range
<1> HIDE DEF at
<1>7. /\ Good(old) /\ Inside(old)
       /\ old.size = s /\ old.autoArrange = g.autoArrange /\ old.autoMerge = g.autoMerge
       /\ old.saved = g.saved
       /\ old.at = at
       /\ \A j : contains(old, j) <=> j \in Range(at)
  <2>1. DOMAIN at \subseteq Cells(s) /\ Range(at) \subseteq Items
    BY <1>5, <1>6
  <2>2. old = [Cleared(g, s) EXCEPT !.at = at, !.pos = Inverted(at), !.used = DOMAIN at]
    BY <1>6
  <2>3. old = Kept(g, s, at)
    BY <2>2 DEF Kept
  <2> HIDE DEF old
  <2> QED BY <1>6, <2>1, <2>3, KeptGood
<1> HIDE DEF old
<1>8. q \in Seq(Items) /\ IsInjective(q) /\ Range(q) = items \ Range(at)
  <2>1. items \ Range(at) \in SUBSET Items
    OBVIOUS
  <2> QED BY <2>1, AscendingItems
<1> HIDE DEF q
<1>9. /\ Good(f) /\ Inside(f)
       /\ \A j : contains(f, j) <=> j \in items
  <2>1. \A i \in Range(q) : ~contains(old, i)
    BY <1>7, <1>8
  <2> QED BY <1>6, <1>7, <1>8, <2>1, PutAllGood
<1>10. IsGrid(f) /\ SameSettings(old, f) /\ f.saved = g.saved /\ Extends(old, f)
  <2>1. Len(q) \in Nat
    BY <1>8
  <2> QED BY <1>7, <2>1, PutAllKeeps DEF Good, Sound
<1> HIDE DEF f
<1>11. f.size = s /\ f.autoArrange = g.autoArrange /\ f.autoMerge = g.autoMerge
  BY <1>7, <1>10 DEF SameSettings
<1>12. shouldArrange(f) <=> shouldArrange(g)
  BY <1>11 DEF shouldArrange
<1>13. LET h == Tidied(f) IN
         /\ Good(h) /\ Inside(h) /\ SameSettings(f, h) /\ h.saved = g.saved
         /\ \A j : contains(h, j) <=> j \in items
         /\ shouldArrange(g) => Dense(h)
  BY <1>9, <1>10, <1>12, TidiedLemma DEF Good
<1>14. ASSUME ~shouldArrange(g), s \in DOMAIN g.saved,
              NEW c \in DOMAIN g.saved[s], g.saved[s][c] \in items
       PROVE  c \in DOMAIN Tidied(f).at /\ Tidied(f).at[c] = g.saved[s][c]
  <2>1. Tidied(f) = f
    BY <1>12, <1>14 DEF Tidied
  <2>2. c \in kept /\ at[c] = g.saved[s][c]
    BY <1>3, <1>5, <1>6, <1>14
  <2> QED BY <1>6, <1>7, <1>10, <2>1, <2>2 DEF Extends
<1> QED
  BY <1>1, <1>11, <1>13, <1>14 DEF SameSettings

(* Icons that get the cells from c on, with all others before c.           *)
LEMMA AddBehindLemma ==
  ASSUME NEW g, Sound(g), NEW c \in Nat, \A b \in DOMAIN g.at : b < c,
         NEW q \in Seq(Items), IsInjective(q), \A i \in Range(q) : ~contains(g, i)
  PROVE  LET h == AddBehind(g, c, q) IN
         /\ Sound(h) /\ SameSettings(g, h)
         /\ h.saved = g.saved /\ h.over = g.over
         /\ \A j : contains(h, j) <=> contains(g, j) \/ j \in Range(q)
         /\ q = <<>> => h = g
         /\ \A b \in DOMAIN h.at : b < c + Len(q)
<1>0. /\ Len(q) \in Nat /\ DOMAIN q = 1 .. Len(q)
      /\ \A k \in 1 .. Len(q) : q[k] \in Items /\ ~contains(g, q[k])
      /\ \A k, l \in 1 .. Len(q) : q[k] = q[l] => k = l
      /\ q = <<>> => Len(q) = 0
  BY DEF Range, IsInjective
<1>1. PICK h : /\ h[0] = g
               /\ \A k \in 1 .. Len(q) : h[k] = BehindBody(h[k - 1], c, q, k)
               /\ AddBehind(g, c, q) = h[Len(q)]
  <2>1. Len(q) \in Nat
    BY <1>0
  <2>2. \E h : /\ h[0] = g
               /\ \A k \in 1 .. Len(q) : h[k] = BehindBody(h[k - 1], c, q, k)
               /\ AddBehind(g, c, q) = h[Len(q)]
    BY AddBehindSteps
  <2> QED BY <2>2
<1> DEFINE in(k) == \A j : contains(h[k], j) <=> contains(g, j) \/ \E l \in 1 .. k : q[l] = j
           P(f, k) == /\ Sound(f) /\ SameSettings(g, f)
                      /\ f.saved = g.saved /\ f.over = g.over
                      /\ \A b \in DOMAIN f.at : b < c + k
           K == {k \in 0 .. Len(q) : P(h[k], k) /\ in(k)}
<1>2. 0 \in K
  <2>1. SameSettings(g, g) /\ c + 0 = c
    BY DEF SameSettings
  <2> QED BY <1>0, <1>1, <2>1
<1>3. ASSUME NEW k \in 1 .. Len(q), k - 1 \in K PROVE k \in K
  <2> DEFINE f == h[k - 1]
             d == c + k - 1
             i == q[k]
  <2>1. P(f, k - 1) /\ in(k - 1) /\ h[k] = AddPrivate(f, d, i) /\ i \in Items
    BY <1>0, <1>1, <1>3 DEF BehindBody
  <2>2. ~contains(f, i)
    <3>1. \A l \in 1 .. k - 1 : l \in 1 .. Len(q) /\ l # k
      BY <1>0
    <3> QED BY <1>0, <2>1, <3>1
  <2>3. d \in Nat /\ d = c + (k - 1) /\ d < c + k
    BY <1>0
  <2>4. Sound(f) /\ IsGrid(f) /\ DOMAIN f.at \subseteq Nat
    BY <2>1 DEF Sound, MapsAgree
  <2>5. d \notin DOMAIN f.at
    <3>1. ~(d < d)
      BY <2>3
    <3> QED BY <2>1, <2>3, <3>1
  <2> HIDE DEF f, d, i
  <2>6. /\ IsGrid(h[k]) /\ SameSettings(f, h[k]) /\ h[k].saved = f.saved
        /\ h[k].at = With(f.at, d, i) /\ h[k].pos = With(f.pos, i, d)
        /\ h[k].used = f.used \union ({d} \intersect Cells(f.size))
        /\ h[k].over = f.over
    BY <2>1, <2>4, <2>5, AddPrivateFields
  <2>7. Sound(h[k]) /\ Placed(h[k]) = Placed(f) \union {i}
    BY <2>1, <2>2, <2>3, <2>4, <2>5, <2>6, PlacedSound
  <2>8. \A j : contains(h[k], j) <=> contains(f, j) \/ j = i
    BY <2>6, <2>7 DEF contains
  <2>9. \A b \in DOMAIN h[k].at : b < c + k
    <3>1. DOMAIN h[k].at = DOMAIN f.at \union {d}
      BY <2>6 DEF With
    <3>2. \A b \in DOMAIN f.at : b < c + (k - 1) => b < c + k
      BY <1>0, <2>4
    <3> QED BY <2>1, <2>3, <3>1, <3>2
  <2>10. 1 .. k = (1 .. k - 1) \union {k}
    BY <1>0
  <2>11. in(k)
    BY <2>1, <2>8, <2>10 DEF f, i
  <2>12. P(h[k], k)
    BY <2>1, <2>6, <2>7, <2>9 DEF SameSettings
  <2>13. k \in 0 .. Len(q)
    BY <1>0
  <2> QED BY <2>11, <2>12, <2>13
<1> HIDE DEF K
<1>4. Len(q) \in K
  <2> DEFINE n == Len(q)
  <2>1. n \in Nat /\ 0 \in K /\ \A k \in 1 .. n : k - 1 \in K => k \in K
    BY <1>0, <1>2, <1>3
  <2> HIDE DEF n
  <2>2. \A k \in 0 .. n : k \in K
    BY <2>1, EachUpTo
  <2> QED BY <2>1, <2>2 DEF n
<1>5. P(h[Len(q)], Len(q)) /\ in(Len(q))
  BY <1>4 DEF K
<1>6. \A j : j \in Range(q) <=> \E l \in 1 .. Len(q) : q[l] = j
  BY <1>0 DEF Range
<1> QED BY <1>0, <1>1, <1>5, <1>6

(* A part of a placement is one.                                           *)
LEMMA RestrictLemma ==
  ASSUME NEW f, IsInjective(f), NEW S \in SUBSET DOMAIN f
  PROVE  /\ DOMAIN Restrict(f, S) = S
         /\ \A c \in S : Restrict(f, S)[c] = f[c]
         /\ IsInjective(Restrict(f, S))
         /\ Range(Restrict(f, S)) = {f[c] : c \in S}
<1>1. /\ DOMAIN Restrict(f, S) = S
      /\ \A c \in S : Restrict(f, S)[c] = f[c]
  BY DEF Restrict
<1> QED BY <1>1 DEF IsInjective, Range

OutOf(g, s)   == Cardinality({c \in g.used : c >= Count(s)})
Spare(g, s)   == Count(s) - Cardinality({c \in g.used : c < Count(s)})

-----------------------------------------------------------------------------
(* changeGridSize().                                                       *)

(* What changeGridSize() computes first: how many cells can stay empty,    *)
(* the cell from which on icons move, those that do, and the cells of the  *)
(* others.                                                                 *)
Allowed(g, s) == Spare(g, s) - OutOf(g, s) + Len(g.over)
Stop(g, s)    == IF Len(Ascending(Free(g))) > Allowed(g, s)
                 THEN Ascending(Free(g))[Allowed(g, s) + 1] ELSE Count(s)
Moved(g, s)   == Values(g.at, {c \in g.used : c >= Stop(g, s)})
Stays(g, s)   == {c \in {b \in g.used : Len(Ascending(Free(g))) > Allowed(g, s) => b < Stop(g, s)} :
                    c < Count(s)}

(* changeGridSize() arranges everything, or keeps and moves icons.         *)
LEMMA ChangeCases ==
  ASSUME NEW g, NEW s
  PROVE  changeGridSize(g, s) =
           IF Spare(g, s) <= OutOf(g, s) + Len(g.over)
           THEN Packed(g, s, rangeItems(g))
           ELSE PutAll(AddBehind(Kept(g, s, Restrict(g.at, Stays(g, s))), Stop(g, s), Moved(g, s)),
                       g.over)
BY DEF changeGridSize, Spare, OutOf, Stop, Moved, Stays, Allowed, Kept

(* The cell from which on icons move is free or the end of the grid, and   *)
(* the icons that stay are before it; without a gap none moves.            *)
LEMMA StopLemma ==
  ASSUME NEW g, Good(g), Inside(g), NEW s \in Sizes,
         ~(Spare(g, s) <= OutOf(g, s) + Len(g.over))
  PROVE  /\ Stop(g, s) \in Nat
         /\ Stop(g, s) \notin g.used \/ Stop(g, s) = Count(s)
         /\ \A c \in Stays(g, s) : c \in Cells(s) /\ c < Stop(g, s)
         /\ Stays(g, s) \subseteq g.used
         /\ \A m \in Nat : g.used = 0 .. m - 1 =>
              /\ {c \in g.used : c >= Stop(g, s)} = {}
              /\ Stays(g, s) = g.used
<1> DEFINE E == Ascending(Free(g))
           n == Count(s)
           less == {c \in g.used : c < n}
           more == {c \in g.used : c >= n}
<1>1. /\ g.size \in Sizes /\ n \in Nat \ {0}
      /\ g.used = DOMAIN g.at /\ g.used \subseteq Cells(g.size)
      /\ Cells(g.size) \subseteq Nat /\ IsFiniteSet(Cells(g.size))
      /\ g.over \in Seq(Items) /\ Len(g.over) \in Nat
  BY CellsOfSize DEF Good, Sound, Inside
<1>2. IsFiniteSet(g.used) /\ IsFiniteSet(Free(g)) /\ Free(g) \in SUBSET Nat
  <2>1. Free(g) \subseteq Cells(g.size)
    BY DEF Free
  <2> QED BY <1>1, <2>1, FS_Subset
<1>3. /\ Cardinality(Free(g)) \in Nat
      /\ E \in [1 .. Cardinality(Free(g)) -> Free(g)]
  BY <1>2, AscendingEnumerates
<1>4. Len(E) \in Nat /\ \A k \in 1 .. Len(E) : E[k] \in Free(g)
  <2> HIDE DEF E
  <2> QED BY <1>3
<1>5. OutOf(g, s) = Cardinality(more) /\ Cardinality(more) \in Nat
  <2>1. more \subseteq g.used
    OBVIOUS
  <2>2. IsFiniteSet(more)
    BY <1>2, <2>1, FS_Subset
  <2> QED BY <2>2, FS_CardinalityType DEF OutOf
<1>6. Spare(g, s) = n - Cardinality(less) /\ Cardinality(less) \in Nat
  <2>1. less \subseteq g.used
    OBVIOUS
  <2>2. IsFiniteSet(less)
    BY <1>2, <2>1, FS_Subset
  <2> QED BY <2>2, FS_CardinalityType DEF Spare
<1>7. Allowed(g, s) \in Nat /\ Spare(g, s) \in Nat \ {0}
  BY <1>1, <1>5, <1>6 DEF Allowed
<1> DEFINE a == Allowed(g, s)
           t == Stop(g, s)
<1>8. \/ Len(E) > a /\ t \in Free(g)
      \/ ~(Len(E) > a) /\ t = n
  <2>1. Len(E) > a => a + 1 \in 1 .. Len(E)
    BY <1>4, <1>7
  <2> QED BY <1>4, <2>1 DEF Stop
<1>9. t \in Nat /\ (t \notin g.used \/ t = n)
  BY <1>1, <1>2, <1>8 DEF Free
<1>10. Stays(g, s) = {c \in g.used : (Len(E) > a => c < t) /\ c < n}
  BY DEF Stays
<1> HIDE DEF a, t, n, E
<1>11. \A c \in Stays(g, s) : c \in Cells(s) /\ c < t
  <2>1. \A c \in Stays(g, s) : c \in Nat /\ c < n /\ c < t
    BY <1>1, <1>8, <1>10
  <2>2. Cells(s) = 0 .. n - 1
    BY DEF Cells, n
  <2> QED BY <1>1, <2>1, <2>2
<1>12. ASSUME NEW m \in Nat, g.used = 0 .. m - 1
       PROVE  {c \in g.used : c >= t} = {} /\ Stays(g, s) = g.used
  <2>1. m <= n
    <3> SUFFICES ASSUME m > n PROVE FALSE
      BY <1>1
    <3>1. less = 0 .. n - 1
      BY <1>1, <1>12
    <3>2. Cardinality(0 .. n - 1) = n
      BY <1>1, FS_Interval
    <3>3. Cardinality(less) = n
      BY <3>1, <3>2
    <3> QED BY <1>1, <1>6, <1>7, <3>3
  <2>2. \A c \in g.used : c < m /\ c \in Nat
    BY <1>12
  <2>3. m <= t
    <3>1. CASE t = n
      BY <2>1, <3>1
    <3>2. CASE t \in Free(g)
      <4>1. t \notin 0 .. m - 1
        BY <1>12, <3>2 DEF Free
      <4> QED BY <1>9, <4>1
    <3> QED BY <1>8, <3>1, <3>2
  <2>4. \A c \in g.used : c < t /\ c < n /\ ~(c >= t)
    BY <1>1, <1>9, <2>1, <2>2, <2>3
  <2> QED BY <1>10, <2>4
<1> QED
  BY <1>9, <1>10, <1>11, <1>12 DEF t, n

(* A set of numbers is cut in two at n.                                    *)
LEMMA Halves ==
  ASSUME NEW S \in SUBSET Nat, IsFiniteSet(S), NEW n \in Nat
  PROVE  LET less == {c \in S : c < n}
             more == {c \in S : c >= n} IN
         /\ Cardinality(S) \in Nat /\ Cardinality(less) \in Nat /\ Cardinality(more) \in Nat
         /\ Cardinality(less) + Cardinality(more) = Cardinality(S)
<1> DEFINE less == {c \in S : c < n}
           more == {c \in S : c >= n}
<1>1. less \subseteq S /\ more \subseteq S
  OBVIOUS
<1>2. \A c : c \in more <=> c \in S /\ c \notin less
  <2>1. \A c \in S : c >= n <=> ~(c < n)
    OBVIOUS
  <2> QED BY <2>1
<1> HIDE DEF less, more
<1>3. more = S \ less /\ S \intersect less = less
  <2>1. more = S \ less
    BY <1>2
  <2>2. S \intersect less = less
    BY <1>1
  <2> QED BY <2>1, <2>2
<1>4. IsFiniteSet(less) /\ IsFiniteSet(more)
  BY <1>1, FS_Subset
<1>5. Cardinality(S) \in Nat /\ Cardinality(less) \in Nat /\ Cardinality(more) \in Nat
  BY <1>4, FS_CardinalityType
<1>6. Cardinality(S \ less) = Cardinality(S) - Cardinality(S \intersect less)
  BY FS_Difference
<1>7. Cardinality(more) = Cardinality(S) - Cardinality(less)
  BY <1>3, <1>6
<1>8. Cardinality(less) + Cardinality(more) = Cardinality(S)
  BY <1>5, <1>7
<1> QED BY <1>5, <1>8 DEF less, more

(* How many numbers of S are before its k-th, and how many are not.        *)
LEMMA UpperPart ==
  ASSUME NEW S \in SUBSET Nat, IsFiniteSet(S), NEW k \in 1 .. Cardinality(S)
  PROVE  /\ Cardinality({d \in S : d < Ascending(S)[k]}) = k - 1
         /\ Cardinality({d \in S : d >= Ascending(S)[k]}) = Cardinality(S) - k + 1
<1> DEFINE n == Cardinality(S)
           s == Ascending(S)[k]
           below == {d \in S : d < s}
           from == {d \in S : d >= s}
           upTo == {d \in S : d <= s}
<1>1. s \in S /\ s \in Nat /\ Cardinality(upTo) = k /\ n \in Nat /\ k \in 1 .. n
  BY AscendingEnumerates
<1> HIDE DEF s
<1>2. IsFiniteSet(upTo)
  <2>1. upTo \subseteq S
    OBVIOUS
  <2> HIDE DEF upTo
  <2> QED BY <2>1, FS_Subset
<1>3. s \in upTo /\ below = upTo \ {s}
  <2>1. s \in upTo
    BY <1>1
  <2>2. \A d : d \in below <=> d \in upTo /\ d # s
    <3>1. \A d \in S : d < s <=> d <= s /\ d # s
      BY <1>1
    <3> QED BY <3>1
  <2> HIDE DEF upTo, below
  <2> QED BY <2>1, <2>2
<1>5. /\ Cardinality(below) \in Nat /\ Cardinality(from) \in Nat
      /\ Cardinality(below) + Cardinality(from) = n
  BY <1>1, Halves
<1> HIDE DEF upTo, below, from
<1>4. Cardinality(below) = k - 1
  <2>1. Cardinality(upTo \ {s}) = Cardinality(upTo) - 1
    BY <1>2, <1>3, FS_RemoveElement
  <2> QED BY <1>1, <1>3, <2>1
<1> HIDE DEF n
<1>6. Cardinality(from) = n - k + 1
  BY <1>1, <1>4, <1>5
<1> QED BY <1>4, <1>6 DEF below, from, s, n

(* The numbers of S from n on.                                             *)
From(S, n) == {c \in S : c >= n}

(* Of the cells that are free, a are before the (a + 1)-st; the rest       *)
(* before it are taken.                                                    *)
LEMMA HolesAndRest ==
  ASSUME NEW U \in SUBSET Nat, NEW N \in Nat, U \subseteq 0 .. N - 1,
         NEW F, F = (0 .. N - 1) \ U,
         NEW a \in Nat, a < Cardinality(F)
  PROVE  LET t == Ascending(F)[a + 1] IN
         /\ t \in F
         /\ t + Cardinality(From(U, t)) = Cardinality(U) + a
<1> DEFINE t == Ascending(F)[a + 1]
           T == {c \in U : c >= t}
           free == {d \in F : d < t}
           taken == {d \in U : d < t}
<1>1. IsFiniteSet(0 .. N - 1) /\ (\A d \in 0 .. N - 1 : d \in Nat)
  BY FS_Interval
<1>2. IsFiniteSet(U) /\ IsFiniteSet(F) /\ F \in SUBSET Nat
  <2>1. F \subseteq 0 .. N - 1
    OBVIOUS
  <2> QED BY <1>1, <2>1, FS_Subset
<1>3. Cardinality(F) \in Nat /\ Cardinality(U) \in Nat
  BY <1>2, FS_CardinalityType
<1>4. a + 1 \in 1 .. Cardinality(F)
  BY <1>3
<1>5. t \in F /\ t \in Nat /\ t < N
  <2>1. t \in F
    BY <1>2, <1>4, AscendingEnumerates
  <2> HIDE DEF t
  <2> QED BY <2>1
<1>6. Cardinality(free) = a
  <2>1. Cardinality(free) = (a + 1) - 1
    BY <1>2, <1>4, UpperPart
  <2> HIDE DEF free
  <2> QED BY <2>1
<1> HIDE DEF t
<1>7. \A d \in U : d \in Nat
  OBVIOUS
<1>8. taken = (0 .. t - 1) \ free /\ (0 .. t - 1) \intersect free = free
  <2>1. \A d : d \in 0 .. t - 1 <=> d \in 0 .. N - 1 /\ d < t
    BY <1>5
  <2>2. \A d : d \in free <=> d \in 0 .. t - 1 /\ d \notin U
    BY <2>1
  <2>3. \A d : d \in taken <=> d \in 0 .. t - 1 /\ d \in U
    BY <2>1
  <2> HIDE DEF free, taken
  <2>4. taken = (0 .. t - 1) \ free
    BY <2>2, <2>3
  <2>5. (0 .. t - 1) \intersect free = free
    BY <2>2
  <2> QED BY <2>4, <2>5
<1>9. /\ Cardinality(taken) \in Nat /\ Cardinality(T) \in Nat
      /\ Cardinality(taken) + Cardinality(T) = Cardinality(U)
  BY <1>2, <1>5, Halves
<1>10. IsFiniteSet(0 .. t - 1) /\ Cardinality(0 .. t - 1) = t
  <2>1. t \in Int /\ t - 1 \in Int /\ (0 <= t - 1 + 1)
    BY <1>5
  <2>2. IsFiniteSet(0 .. t - 1) /\ Cardinality(0 .. t - 1) = IF 0 > t - 1 THEN 0 ELSE (t - 1) - 0 + 1
    BY <2>1, FS_Interval
  <2> QED BY <1>5, <2>2
<1> HIDE DEF T, free, taken
<1>13. Cardinality(taken) = t - a
  <2>1. Cardinality((0 .. t - 1) \ free)
          = Cardinality(0 .. t - 1) - Cardinality((0 .. t - 1) \intersect free)
    BY <1>10, FS_Difference
  <2> QED BY <1>6, <1>8, <1>10, <2>1
<1>15. t + Cardinality(T) = Cardinality(U) + a
  BY <1>3, <1>5, <1>9, <1>13
<1> QED BY <1>5, <1>15 DEF T, t, From

(* Where no icons overlap, those that stay are all that are before the     *)
(* cell, and those that move have room behind it.                          *)
LEMMA StopFits ==
  ASSUME NEW g, Good(g), Inside(g), NEW s \in Sizes, g.over = <<>>,
         ~(Spare(g, s) <= OutOf(g, s) + Len(g.over))
  PROVE  /\ \A c \in g.used : c < Stop(g, s) => c \in Stays(g, s)
         /\ Stop(g, s) + Cardinality({c \in g.used : c >= Stop(g, s)}) <= Count(s)
<1> DEFINE F == Free(g)
           E == Ascending(F)
           N == Count(g.size)
           n == Count(s)
           U == g.used
           less == {c \in U : c < n}
           more == {c \in U : c >= n}
           a == Allowed(g, s)
           t == Stop(g, s)
           T == {c \in U : c >= t}
<1>1. /\ g.size \in Sizes /\ n \in Nat \ {0} /\ N \in Nat \ {0}
      /\ U \subseteq 0 .. N - 1
      /\ F = (0 .. N - 1) \ U
  BY CellsOfSize DEF Good, Sound, Inside, Free, Cells
<1>2. /\ Stays(g, s) = {c \in {b \in U : Len(E) > a => b < t} : c < n}
      /\ t = IF Len(E) > a THEN E[a + 1] ELSE n
      /\ a = n - Cardinality(less) - Cardinality(more) + 0
      /\ n - Cardinality(less) > Cardinality(more) + 0 \/ ~(n - Cardinality(less) <= Cardinality(more) + 0)
  <2>1. Len(g.over) = 0
    OBVIOUS
  <2> QED BY <2>1 DEF Stays, Stop, Allowed, Spare, OutOf
<1> HIDE DEF F, N, n, U, a, t
<1>3. /\ IsFiniteSet(0 .. N - 1) /\ Cardinality(0 .. N - 1) = N
      /\ \A d \in 0 .. N - 1 : d \in Nat
  BY <1>1, FS_Interval
<1>4. IsFiniteSet(U) /\ IsFiniteSet(F) /\ F \in SUBSET Nat /\ U \in SUBSET Nat
  <2>1. F \subseteq 0 .. N - 1
    BY <1>1
  <2> QED BY <1>1, <1>3, <2>1, FS_Subset
<1>5. Cardinality(F) = N - Cardinality(U)
  <2>1. (0 .. N - 1) \intersect U = U
    BY <1>1
  <2>2. Cardinality((0 .. N - 1) \ U) = Cardinality(0 .. N - 1) - Cardinality((0 .. N - 1) \intersect U)
    BY <1>3, FS_Difference
  <2> QED BY <1>1, <1>3, <2>1, <2>2
<1>6. Cardinality(U) \in Nat /\ Cardinality(F) \in Nat
  BY <1>4, FS_CardinalityType
<1>a. \A c \in U : c \in Nat
  BY <1>4
<1>7. /\ Cardinality(less) \in Nat /\ Cardinality(more) \in Nat
      /\ Cardinality(less) + Cardinality(more) = Cardinality(U)
  BY <1>1, <1>4, Halves
<1> HIDE DEF less, more
<1>8. a = n - Cardinality(U) /\ a \in Nat
  BY <1>1, <1>2, <1>6, <1>7
<1>9. E \in [1 .. Cardinality(F) -> F] /\ Len(E) = Cardinality(F)
  <2>1. E \in [1 .. Cardinality(F) -> F]
    BY <1>4, AscendingEnumerates
  <2> HIDE DEF E
  <2> QED BY <1>6, <2>1
<1> HIDE DEF E
<1>10. CASE ~(Len(E) > a)
  <2>1. t = n
    BY <1>2, <1>10
  <2>2. N <= n
    BY <1>1, <1>5, <1>6, <1>8, <1>9, <1>10
  <2>3. \A c \in U : c < n
    BY <1>1, <1>a, <2>2
  <2>4. T = {}
    <3>1. \A c \in U : ~(c >= t)
      BY <1>1, <1>a, <2>1, <2>3
    <3> QED BY <3>1
  <2> HIDE DEF T
  <2>5. Cardinality(T) = 0
    BY <2>4, FS_EmptySet
  <2>6. \A c \in U : c < t => c \in Stays(g, s)
    BY <1>2, <1>10, <2>3
  <2>7. t + Cardinality(T) <= n
    BY <1>1, <2>1, <2>5
  <2> QED BY <2>6, <2>7 DEF T, U, n, t
<1>11. CASE Len(E) > a
  <2>1. a \in Nat /\ a < Cardinality(F)
    BY <1>6, <1>8, <1>9, <1>11
  <2>2. t = E[a + 1]
    BY <1>2, <1>11
  <2>3. t \in F /\ t + Cardinality(T) = Cardinality(U) + a
    <3>1. /\ U \in SUBSET Nat /\ N \in Nat /\ U \subseteq 0 .. N - 1
          /\ F = (0 .. N - 1) \ U
          /\ a \in Nat /\ a < Cardinality(F)
      BY <1>1, <1>4, <2>1
    <3>2. /\ Ascending(F)[a + 1] \in F
          /\ Ascending(F)[a + 1] + Cardinality(From(U, Ascending(F)[a + 1])) = Cardinality(U) + a
      BY <3>1, HolesAndRest
    <3>3. t = Ascending(F)[a + 1]
      BY <2>2 DEF E
    <3>4. T = From(U, t)
      BY DEF From
    <3> HIDE DEF T
    <3> QED BY <3>2, <3>3, <3>4
  <2>4. T \subseteq U
    OBVIOUS
  <2> HIDE DEF T
  <2>5. Cardinality(T) \in Nat
    BY <1>4, <2>4, FS_Subset, FS_CardinalityType
  <2>6. t \in Nat
    BY <1>4, <2>3
  <2>7. t + Cardinality(T) = n /\ t <= n
    BY <1>1, <1>6, <1>8, <2>3, <2>5, <2>6
  <2>8. ASSUME NEW c \in U, c < t PROVE c \in Stays(g, s)
    <3>1. c \in Nat
      BY <1>a
    <3>2. c < n
      BY <1>1, <2>6, <2>7, <2>8, <3>1
    <3> QED BY <1>2, <2>8, <3>2
  <2>9. t + Cardinality(T) <= n
    BY <1>1, <2>7
  <2> QED BY <2>8, <2>9 DEF T, U, n, t
<1> QED BY <1>10, <1>11

(* changeGridSize() makes no icon; and if none overlap, it loses none and  *)
(* leaves the grid with none.                                              *)
LEMMA ChangeLemma ==
  ASSUME NEW g, Good(g), Inside(g), NEW s \in Sizes
  PROVE  LET h == changeGridSize(g, s) IN
         /\ Good(h)
         /\ h.size = s /\ h.autoArrange = g.autoArrange /\ h.autoMerge = g.autoMerge
         /\ h.saved = g.saved
         /\ Dense(g) => Dense(h) /\ Inside(h)
         /\ \A j : contains(h, j) => contains(g, j)
         /\ g.over = <<>> => Inside(h) /\ \A j : contains(g, j) => contains(h, j)
<1>0. /\ IsGrid(g) /\ Sound(g) /\ MapsAgree(g)
      /\ g.autoArrange \in BOOLEAN /\ g.autoMerge \in BOOLEAN
      /\ g.over \in Seq(Items) /\ IsInjective(g.over)
      /\ Range(g.over) \intersect DOMAIN g.pos = {}
      /\ g.used = DOMAIN g.at
  BY DEF Good, Sound, Inside
<1>1. CASE Spare(g, s) <= OutOf(g, s) + Len(g.over)
  <2>1. changeGridSize(g, s) = Packed(g, s, rangeItems(g))
    BY <1>1, ChangeCases
  <2>2. /\ rangeItems(g) \in Seq(Items) /\ IsInjective(rangeItems(g))
        /\ \A j : j \in Range(rangeItems(g)) <=> contains(g, j)
    BY <1>0, RangeItemsLemma
  <2> QED BY <1>0, <2>1, <2>2, PackedGood
<1>2. CASE ~(Spare(g, s) <= OutOf(g, s) + Len(g.over))
  <2> DEFINE t == Stop(g, s)
             S == Stays(g, s)
             T == {c \in g.used : c >= t}
             at == Restrict(g.at, S)
             k == Kept(g, s, at)
             b == AddBehind(k, t, Moved(g, s))
             h == PutAll(b, g.over)
  <2>1. changeGridSize(g, s) = h
    BY <1>2, ChangeCases
  <2>2. /\ t \in Nat
        /\ \A c \in S : c \in Cells(s) /\ c < t
        /\ S \subseteq g.used
        /\ \A m \in Nat : g.used = 0 .. m - 1 => T = {} /\ S = g.used
    BY <1>2, StopLemma
  <2>3. Moved(g, s) = Values(g.at, T)
    BY DEF Moved
  <2>18. g.over = <<>> => /\ g.used \subseteq S \union T
                          /\ t + Cardinality(T) <= Count(s)
    <3> SUFFICES ASSUME g.over = <<>> PROVE g.used \subseteq S \union T /\ t + Cardinality(T) <= Count(s)
      OBVIOUS
    <3>1. /\ \A c \in g.used : c < t => c \in S
          /\ t + Cardinality(T) <= Count(s)
      BY <1>2, StopFits
    <3>2. \A c \in g.used : c < t \/ c >= t
      BY <1>0, <2>2 DEF MapsAgree
    <3> QED BY <3>1, <3>2
  <2> DEFINE q == Values(g.at, T)
  <2> HIDE DEF S, t
  <2>4. IsInjective(g.at) /\ \A c \in g.used : g.at[c] \in Items /\ g.at[c] \in DOMAIN g.pos
    BY <1>0, InjectiveAt DEF MapsAgree
  <2>5. /\ DOMAIN at = S
        /\ IsInjective(at)
        /\ Range(at) = {g.at[c] : c \in S}
        /\ S = g.used => at = [c \in DOMAIN g.at |-> g.at[c]]
    BY <1>0, <2>2, <2>4, RestrictLemma DEF Restrict
  <2>6. DOMAIN at \subseteq Cells(s) /\ Range(at) \subseteq Items
    BY <2>2, <2>4, <2>5
  <2> HIDE DEF at
  <2>7. /\ Good(k) /\ Inside(k)
        /\ k.size = s /\ k.autoArrange = g.autoArrange /\ k.autoMerge = g.autoMerge
        /\ k.saved = g.saved
        /\ k.at = at /\ k.used = DOMAIN at /\ k.over = <<>>
        /\ \A j : contains(k, j) <=> j \in Range(at)
    BY <1>0, <2>5, <2>6, KeptGood
  <2> HIDE DEF k
  <2>8. /\ q \in Seq(Items) /\ IsInjective(q)
        /\ Range(q) = {g.at[c] : c \in T}
        /\ T = {} => q = <<>>
        /\ Len(q) = Cardinality(T)
    <3>1. T \in SUBSET Nat /\ IsFiniteSet(T)
      <4>1. T \subseteq DOMAIN g.at
        BY <1>0
      <4> QED BY <1>0, <4>1, FS_Subset DEF MapsAgree
    <3>2. \A c \in T : g.at[c] \in Items
      BY <2>4
    <3>3. \A c, d \in T : g.at[c] = g.at[d] => c = d
      BY <1>0, <2>4 DEF IsInjective
    <3> HIDE DEF T
    <3>4. /\ q \in Seq(Items) /\ IsInjective(q)
          /\ Range(q) = {g.at[c] : c \in T}
          /\ Len(q) = Cardinality(T)
      BY <3>1, <3>2, <3>3, ValuesInOrder
    <3>5. T = {} => q = <<>>
      <4> HIDE DEF q
      <4> QED BY <3>4, EmptyRange
    <3> QED BY <3>4, <3>5
  <2>9. \A i \in Range(q) : ~contains(k, i)
    <3> SUFFICES ASSUME NEW c \in T, NEW d \in S, g.at[c] = g.at[d] PROVE FALSE
      BY <2>5, <2>7, <2>8
    <3>1. c = d
      BY <1>0, <2>2, <2>4 DEF IsInjective
    <3>2. d < t /\ c >= t /\ c \in Nat
      BY <1>0, <2>2 DEF MapsAgree
    <3> QED BY <2>2, <3>1, <3>2
  <2>10. \A i \in Range(g.over) : i \notin Range(at) /\ i \notin Range(q)
    BY <1>0, <2>2, <2>4, <2>5, <2>8
  <2>11. b = AddBehind(k, t, q)
    BY <2>3
  <2> HIDE DEF T, q, b
  <2>12. /\ Sound(b) /\ SameSettings(k, b)
         /\ b.saved = k.saved /\ b.over = k.over
         /\ \A j : contains(b, j) <=> contains(k, j) \/ j \in Range(q)
         /\ q = <<>> => b = k
         /\ \A c \in DOMAIN b.at : c < t + Len(q)
    <3>1. Sound(k) /\ \A c \in DOMAIN k.at : c < t
      BY <2>2, <2>5, <2>7 DEF Good
    <3> QED BY <2>2, <2>8, <2>9, <2>11, <3>1, AddBehindLemma
  <2>13. Good(b)
    BY <2>7, <2>12 DEF Good
  <2>14. \A i \in Range(g.over) : ~contains(b, i)
    BY <2>7, <2>10, <2>12
  <2>15. /\ Good(h)
         /\ \A j : contains(h, j) <=> contains(b, j) \/ j \in Range(g.over)
         /\ Inside(b) => Inside(h)
         /\ Dense(b) => Dense(h)
    BY <1>0, <2>13, <2>14, PutAllGood
  <2>16. SameSettings(b, h) /\ h.saved = b.saved
    <3>1. Len(g.over) \in Nat /\ IsGrid(b)
      BY <1>0, <2>12 DEF Sound
    <3> QED BY <3>1, PutAllKeeps
  <2>17. ASSUME Dense(g) PROVE Dense(h) /\ Inside(h)
    <3>1. PICK m \in Nat : g.used = 0 .. m - 1
      BY <2>17 DEF Dense
    <3>2. S = g.used /\ b = k
      BY <2>2, <2>8, <2>12, <3>1
    <3>3. k.used = 0 .. m - 1 /\ k.over = <<>>
      BY <2>5, <2>7, <3>1, <3>2
    <3>4. Dense(k)
      BY <3>3 DEF Dense
    <3> QED BY <2>7, <2>15, <3>2, <3>4
  <2> HIDE DEF h
  <2>19. \A j : contains(h, j) <=> (\E c \in S \union T : j = g.at[c]) \/ j \in Range(g.over)
    BY <2>5, <2>7, <2>8, <2>12, <2>15
  <2>20. \A j : contains(h, j) => contains(g, j)
    <3>1. S \union T \subseteq g.used
      BY <2>2 DEF T
    <3> QED BY <2>4, <2>19, <3>1 DEF contains, Placed
  <2>21. ASSUME g.over = <<>> PROVE Inside(h) /\ \A j : contains(g, j) => contains(h, j)
    <3>1. Inside(b)
      <4>1. b.size = s /\ DOMAIN b.at \subseteq Nat
        BY <2>7, <2>12 DEF SameSettings, Sound, MapsAgree
      <4>2. \A c \in DOMAIN b.at : c < Count(s)
        BY <2>2, <2>8, <2>12, <2>18, <2>21, <4>1, CellsOfSize
      <4>3. Count(s) \in Nat
        BY CellsOfSize
      <4> QED BY <4>1, <4>2, <4>3 DEF Inside, Cells
    <3>2. \A j : contains(g, j) => \E c \in g.used : j = g.at[c]
      BY <1>0, <2>21, EmptyRange DEF contains, Placed, MapsAgree
    <3> QED BY <2>15, <2>18, <2>19, <2>21, <3>1, <3>2
  <2> QED BY <2>1, <2>7, <2>12, <2>15, <2>16, <2>17, <2>20, <2>21 DEF SameSettings
<1> QED BY <1>1, <1>2

-----------------------------------------------------------------------------
(* What the handlers preserve, and the operations they are made of.        *)

(* What the handlers preserve.                                             *)
Fit(g) ==
  /\ Valid(g)
  /\ SavedShown(g)
  /\ shouldArrange(g) => Dense(g)

(* What a valid grid is.                                                   *)
LEMMA FitGrid ==
  ASSUME NEW g, Valid(g)
  PROVE  /\ IsGrid(g) /\ Sound(g) /\ Good(g) /\ Inside(g) /\ SavedFits(g)
         /\ g.size \in Sizes /\ g.autoArrange \in BOOLEAN /\ g.autoMerge \in BOOLEAN
         /\ g.over \in Seq(Items) /\ Range(g.over) \subseteq Items
         /\ DOMAIN g.pos \subseteq Items
         /\ g.used = DOMAIN g.at
BY EmptyRange DEF Valid, Good, Sound, Inside, MapsAgree

(* reArrange() keeps the icons, and the grid is fit whatever it was.       *)
LEMMA ReArrangeLemma ==
  ASSUME NEW g, Sound(g), SavedFits(g)
  PROVE  LET h == reArrange(g) IN
         /\ Fit(h) /\ SameSettings(g, h)
         /\ \A j : contains(h, j) <=> contains(g, j)
<1> DEFINE f == arrange(g)
<1>1. /\ Good(f) /\ Dense(f) /\ Inside(f)
      /\ SameSettings(g, f)
      /\ f.saved = g.saved
      /\ \A j : contains(f, j) <=> contains(g, j)
  BY ArrangeGood
<1>2. reArrange(g) = IF g.autoMerge THEN f ELSE syncProfile(f)
  BY DEF reArrange
<1> HIDE DEF f
<1>3. Sound(f) /\ IsGrid(f) /\ SavedFits(f)
  BY <1>1 DEF Good, Sound, SavedFits
<1>4. CASE g.autoMerge
  BY <1>1, <1>2, <1>3, <1>4 DEF Fit, Valid, SavedShown, SameSettings
<1>5. CASE ~g.autoMerge
  BY <1>1, <1>2, <1>3, <1>5, SyncProfileLemma DEF Fit, Valid, SameSettings
<1> QED BY <1>4, <1>5

(* The end of most handlers keeps the icons.                               *)
LEMMA SettledLemma ==
  ASSUME NEW g, Valid(g), SavedShown(g)
  PROVE  LET h == Settled(g) IN
         /\ Fit(h) /\ SameSettings(g, h)
         /\ \A j : contains(h, j) <=> contains(g, j)
<1>1. CASE shouldArrange(g)
  BY <1>1, FitGrid, ReArrangeLemma DEF Settled
<1>2. CASE ~shouldArrange(g)
  BY <1>2 DEF Settled, Fit, SameSettings
<1> QED BY <1>1, <1>2

(* clear() takes every icon away.                                          *)
LEMMA ClearLemma ==
  ASSUME NEW g, Valid(g)
  PROVE  LET h == clear(g) IN
         /\ Valid(h) /\ SameSettings(g, h)
         /\ \A j : ~contains(h, j)
<1> DEFINE f == Cleared(g, g.size)
<1>1. IsGrid(g) /\ g.size \in Sizes /\ g.autoArrange \in BOOLEAN /\ g.autoMerge \in BOOLEAN
  BY FitGrid
<1>2. /\ IsGrid(f) /\ SameSettings(g, f) /\ f.saved = g.saved
  BY <1>1, ClearedFields DEF SameSettings
<1>3. Good(f) /\ Inside(f) /\ \A j : ~contains(f, j)
  BY <1>1, ClearedGood
<1>4. clear(g) = syncProfile(f)
  BY DEF clear
<1> HIDE DEF f
<1>5. Sound(f) /\ SavedFits(f)
  BY <1>2, <1>3, FitGrid DEF Good, SavedFits
<1> QED BY <1>2, <1>3, <1>4, <1>5, SyncProfileLemma DEF Valid, SameSettings

(* Every way to load a desktop.                                            *)
LEMMA LoadLemma ==
  ASSUME NEW g, IsGrid(g), g.size \in Sizes, g.autoArrange \in BOOLEAN, g.autoMerge \in BOOLEAN,
         SavedFits(g), NEW q \in Seq(Items), IsInjective(q)
  PROVE  /\ Fit(load(g, q)) /\ SameSettings(g, load(g, q))
         /\ \A j : contains(load(g, q), j) <=> j \in Range(q)
<1> DEFINE e == Cleared(g, g.size)
           f == PutAll(e, q)
           r == restoreProfile(g, g.size, Range(q))
<1>1. CASE g.autoMerge
  <2>1. load(g, q) = arrange(f)
    BY <1>1 DEF load
  <2>2. IsGrid(e) /\ SameSettings(g, e) /\ e.saved = g.saved
    BY ClearedFields DEF SameSettings
  <2>3. Good(e) /\ \A j : ~contains(e, j)
    BY ClearedGood
  <2> HIDE DEF e
  <2>4. Good(f) /\ \A j : contains(f, j) <=> j \in Range(q)
    BY <2>3, PutAllGood
  <2>5. SameSettings(e, f) /\ f.saved = g.saved
    <3>1. Len(q) \in Nat
      OBVIOUS
    <3> QED BY <2>2, <3>1, PutAllKeeps
  <2> HIDE DEF f
  <2> DEFINE h == arrange(f)
  <2>6. Good(h) /\ Dense(h) /\ Inside(h) /\ SameSettings(f, h) /\ h.saved = g.saved
        /\ \A j : contains(h, j) <=> contains(f, j)
    BY <2>4, <2>5, ArrangeGood DEF Good
  <2> HIDE DEF h
  <2>7. SavedFits(h)
    BY <2>6 DEF SavedFits
  <2>8. SameSettings(g, h)
    BY <2>2, <2>5, <2>6 DEF SameSettings
  <2>9. SavedShown(h)
    BY <1>1, <2>8 DEF SavedShown, SameSettings
  <2>10. load(g, q) = h
    BY <2>1 DEF h
  <2> QED BY <2>4, <2>6, <2>7, <2>8, <2>9, <2>10 DEF Fit, Valid
<1>2. CASE ~g.autoMerge
  <2>1. load(g, q) = syncProfile(r)
    BY <1>2 DEF load
  <2>2. Range(q) \in SUBSET Items
    BY EmptyRange
  <2>3. /\ Good(r) /\ Inside(r)
        /\ r.size = g.size /\ r.autoArrange = g.autoArrange /\ r.autoMerge = g.autoMerge
        /\ r.saved = g.saved
        /\ shouldArrange(g) => Dense(r)
        /\ \A j : contains(r, j) <=> j \in Range(q)
    BY <2>2, RestoreLemma
  <2> HIDE DEF r
  <2>4. Sound(r) /\ IsGrid(r) /\ SavedFits(r) /\ SameSettings(g, r)
    BY <2>3 DEF Good, Sound, SavedFits, SameSettings
  <2>5. shouldArrange(syncProfile(r)) = shouldArrange(g)
    BY <2>4, SyncProfileLemma DEF shouldArrange, SameSettings
  <2> QED BY <2>1, <2>3, <2>4, <2>5, SyncProfileLemma DEF Fit, Valid, SameSettings
<1> QED BY <1>1, <1>2

(* updateGridSize(): the profile is what is shown, and the way back to a   *)
(* size brings the icons back.  They may be behind the grid afterwards or  *)
(* go away only if some overlapped.                                        *)
LEMMA UpdateLemma ==
  ASSUME NEW g, Fit(g), NEW s \in Sizes
  PROVE  LET h == updateGridSize(g, s) IN
         /\ Good(h) /\ SavedShown(h)
         /\ h.size = s
         /\ shouldArrange(h) => Dense(h)
         /\ Inside(h) => SavedFits(h)
         /\ ~shouldArrange(g) /\ s \in DOMAIN g.saved =>
              \A c \in DOMAIN g.saved[s] : contains(g, g.saved[s][c]) =>
                c \in DOMAIN h.at /\ h.at[c] = g.saved[s][c]
         /\ \A j : contains(h, j) => contains(g, j)
         /\ g.over = <<>> => Inside(h) /\ \A j : contains(g, j) => contains(h, j)
<1> DEFINE back == ~g.autoMerge /\ s \in DOMAIN g.saved
           items == Range(rangeItems(g))
           f == IF back THEN restoreProfile(g, s, items) ELSE changeGridSize(g, s)
           r == IF g.autoArrange THEN arrange(f) ELSE f
           h == IF g.autoMerge THEN r ELSE syncProfile(r)
<1>1. updateGridSize(g, s) = h
  BY DEF updateGridSize
<1>2. /\ Valid(g) /\ IsGrid(g) /\ Sound(g) /\ Good(g) /\ Inside(g) /\ SavedFits(g)
      /\ g.autoArrange \in BOOLEAN /\ g.autoMerge \in BOOLEAN
  BY FitGrid DEF Fit
<1>3. /\ \A j : j \in items <=> contains(g, j)
      /\ items \in SUBSET Items
  <2>1. rangeItems(g) \in Seq(Items)
    BY <1>2, RangeItemsLemma
  <2> QED BY <1>2, <2>1, RangeItemsLemma, EmptyRange
<1> HIDE DEF items
<1>4. /\ Good(f)
      /\ f.size = s /\ f.autoArrange = g.autoArrange /\ f.autoMerge = g.autoMerge
      /\ f.saved = g.saved
      /\ shouldArrange(g) => Dense(f)
      /\ back /\ ~shouldArrange(g) =>
           \A c \in DOMAIN g.saved[s] : g.saved[s][c] \in items =>
             c \in DOMAIN f.at /\ f.at[c] = g.saved[s][c]
      /\ \A j : contains(f, j) => contains(g, j)
      /\ g.over = <<>> => Inside(f) /\ \A j : contains(g, j) => contains(f, j)
  <2>1. CASE back
    <3>1. f = restoreProfile(g, s, items)
      BY <2>1
    <3> QED BY <1>2, <1>3, <2>1, <3>1, RestoreLemma
  <2>2. CASE ~back
    <3>1. f = changeGridSize(g, s)
      BY <2>2
    <3>2. shouldArrange(g) => Dense(g)
      BY DEF Fit
    <3> QED BY <1>2, <2>2, <3>1, <3>2, ChangeLemma
  <2> QED BY <2>1, <2>2
<1>5. g.autoMerge => shouldArrange(g)
  BY DEF shouldArrange
<1> HIDE DEF f
<1>6. /\ Good(r) /\ r.saved = g.saved
      /\ r.size = s /\ r.autoArrange = g.autoArrange /\ r.autoMerge = g.autoMerge
      /\ shouldArrange(g) => Dense(r)
      /\ ~shouldArrange(g) => r = f
      /\ \A j : contains(r, j) <=> contains(f, j)
      /\ Inside(f) => Inside(r)
  <2>1. CASE g.autoArrange
    <3>1. r = arrange(f) /\ shouldArrange(g) /\ Sound(f)
      BY <1>4, <2>1 DEF shouldArrange, Good
    <3> QED BY <1>4, <3>1, ArrangeGood DEF SameSettings
  <2>2. CASE ~g.autoArrange
    BY <1>4, <2>2
  <2> QED BY <2>1, <2>2
<1> HIDE DEF r
<1>7. IsGrid(r) /\ Sound(r) /\ SavedFits(r)
  BY <1>2, <1>6 DEF Good, Sound, SavedFits
<1>8. /\ Good(h) /\ SavedShown(h) /\ h.size = s
      /\ h.autoArrange = g.autoArrange /\ h.autoMerge = g.autoMerge
      /\ h.at = r.at
      /\ Dense(r) => Dense(h)
      /\ Inside(h) => SavedFits(h)
      /\ Inside(r) => Inside(h)
      /\ \A j : contains(h, j) <=> contains(r, j)
  <2>1. CASE g.autoMerge
    BY <1>6, <1>7, <2>1 DEF SavedShown
  <2>2. CASE ~g.autoMerge
    <3> DEFINE k == syncProfile(r)
    <3>1. /\ IsGrid(k) /\ SameSettings(r, k) /\ k.at = r.at
          /\ SavedShown(k) /\ Good(k)
          /\ Dense(r) => Dense(k)
          /\ Inside(r) => SavedFits(k)
          /\ Inside(r) => Inside(k)
          /\ \A j : contains(k, j) <=> contains(r, j)
      BY <1>6, <1>7, SyncProfileLemma
    <3>2. h = k
      BY <2>2
    <3> HIDE DEF h, k
    <3>3. Inside(k) => Inside(r)
      BY <3>1 DEF Inside, SameSettings
    <3> QED BY <1>6, <3>1, <3>2, <3>3 DEF SameSettings
  <2> QED BY <2>1, <2>2
<1> HIDE DEF h
<1>9. shouldArrange(h) => Dense(h)
  BY <1>6, <1>8 DEF shouldArrange
<1>10. ASSUME ~shouldArrange(g), s \in DOMAIN g.saved,
              NEW c \in DOMAIN g.saved[s], contains(g, g.saved[s][c])
       PROVE  c \in DOMAIN h.at /\ h.at[c] = g.saved[s][c]
  <2>1. back
    BY <1>5, <1>10
  <2> QED BY <1>3, <1>4, <1>6, <1>8, <1>10, <2>1
<1>11. /\ \A j : contains(h, j) => contains(g, j)
       /\ g.over = <<>> => Inside(h) /\ \A j : contains(g, j) => contains(h, j)
  BY <1>4, <1>6, <1>8
<1> QED BY <1>1, <1>8, <1>9, <1>10, <1>11

(* The number of a cell is one of the grid.                                *)
LEMMA CellNumber ==
  ASSUME NEW w \in Nat \ {0}, NEW h \in Nat \ {0},
         NEW x \in 0 .. w - 1, NEW y \in 0 .. h - 1
  PROVE  x * h + y \in 0 .. w * h - 1
<1>1. w - 1 - x \in Nat /\ x \in Nat /\ y \in Nat
  OBVIOUS
<1>2. (w - 1 - x) * h \in Nat /\ x * h \in Nat /\ w * h \in Nat
  BY <1>1
<1>3. (w - 1 - x) * h = w * h - h - x * h
  BY <1>1
<1> QED BY <1>1, <1>2, <1>3

(* The cells that move() computes are cells of the grid.                   *)
LEMMA DestinationsLemma ==
  ASSUME NEW g, g.size \in Sizes, NEW sel, NEW current, NEW dest, NEW n \in 1 .. Len(sel)
  PROVE  Destinations(g, sel, current, dest)[n] \in Cells(g.size)
<1> DEFINE h == g.size[2]
           origins == {CellOf(g, sel[k]) : k \in 1 .. Len(sel)}
           from == CellOf(g, current)
           x(k) == CellOf(g, sel[k]) \div h + dest[1] - from \div h
           y(k) == (CellOf(g, sel[k]) % h) + dest[2] - (from % h)
           valid(k) == x(k) \in 0 .. g.size[1] - 1 /\ y(k) \in 0 .. h - 1
           conflict == \E k \in 1 .. Len(sel) :
                          ~valid(k) \/ x(k) * h + y(k) \in DOMAIN g.at \ origins
           open     == Cells(g.size) \ (g.used \ origins)
           free     == Ascending(open)
           selHead  == CHOOSE k \in 1 .. Len(sel) : sel[k] = current
           target   == dest[1] * h + dest[2]
           destHead == IF target \in open THEN Cardinality({c \in open : c <= target}) ELSE 0
           first    == IF Len(free) - destHead <= Len(sel) - selHead
                       THEN Len(free) - Len(sel) + 1
                       ELSE IF destHead < selHead THEN 1 ELSE destHead - selHead + 1
           start    == IF first \in 1 .. Len(free) THEN free[first] ELSE 0
           cells    == Ascending({c \in open : c >= start})
           to(k)    == IF ~conflict THEN x(k) * h + y(k)
                       ELSE IF k <= Len(cells) THEN cells[k] ELSE 0
<1>1. Destinations(g, sel, current, dest)[n] = to(n)
  BY DEF Destinations
<1>2. g.size[1] \in Nat \ {0} /\ h \in Nat \ {0} /\ Cells(g.size) = 0 .. g.size[1] * h - 1
  BY GridAssumption DEF Cells, Count
<1>3. /\ Cells(g.size) \subseteq Nat /\ IsFiniteSet(Cells(g.size)) /\ 0 \in Cells(g.size)
  BY CellsOfSize
<1> DEFINE ahead == {c \in open : c >= start}
<1>4. ahead \subseteq Cells(g.size)
  OBVIOUS
<1>5. ~conflict => valid(n)
  OBVIOUS
<1> HIDE DEF conflict, ahead
<1>6. cells = Ascending(ahead)
  BY DEF ahead
<1> HIDE DEF cells
<1>7. Len(cells) \in Nat /\ \A k \in 1 .. Len(cells) : cells[k] \in Cells(g.size)
  <2>1. ahead \in SUBSET Nat /\ IsFiniteSet(ahead)
    BY <1>3, <1>4, FS_Subset
  <2>2. /\ Cardinality(ahead) \in Nat
        /\ cells \in [1 .. Cardinality(ahead) -> ahead]
    BY <1>6, <2>1, AscendingEnumerates
  <2> QED BY <1>4, <2>2
<1>8. n \in Nat \ {0}
  <2>1. n \in Int /\ n >= 1
    OBVIOUS
  <2> QED BY <2>1
<1>9. CASE ~conflict
  <2> DEFINE a == x(n)
             b == y(n)
  <2>1. a \in 0 .. g.size[1] - 1 /\ b \in 0 .. h - 1
    BY <1>5, <1>9
  <2>2. Destinations(g, sel, current, dest)[n] = a * h + b
    BY <1>1, <1>9
  <2> HIDE DEF a, b, h
  <2> DEFINE w == g.size[1]
  <2>3. w \in Nat \ {0}
    BY <1>2
  <2>4. Cells(g.size) = 0 .. w * h - 1
    BY <1>2
  <2>5. a \in 0 .. w - 1
    BY <2>1
  <2> HIDE DEF w
  <2>6. a * h + b \in 0 .. w * h - 1
    BY <1>2, <2>1, <2>3, <2>5, CellNumber
  <2> QED BY <2>2, <2>4, <2>6
<1>10. CASE conflict
  <2>1. Destinations(g, sel, current, dest)[n] = IF n <= Len(cells) THEN cells[n] ELSE 0
    BY <1>1, <1>10
  <2> QED BY <1>3, <1>7, <1>8, <2>1
<1> QED BY <1>9, <1>10

(* A number of a cell has one column and one row.                          *)
LEMMA CellsDiffer ==
  ASSUME NEW h \in Nat \ {0}, NEW x \in Int, NEW u \in Int,
         NEW y \in 0 .. h - 1, NEW v \in 0 .. h - 1, x * h + y = u * h + v
  PROVE  x = u /\ y = v
<1>1. ASSUME NEW a \in Int, NEW b \in Int, NEW c \in 0 .. h - 1, NEW d \in 0 .. h - 1,
             a * h + c = b * h + d
      PROVE  ~(a < b)
  <2> SUFFICES ASSUME a < b PROVE FALSE
    OBVIOUS
  <2>1. b - a - 1 \in Nat
    OBVIOUS
  <2>2. (b - a - 1) * h \in Nat /\ a * h \in Int /\ b * h \in Int
    BY <2>1
  <2>3. (b - a - 1) * h = b * h - a * h - h
    BY <2>1
  <2>4. c \in Nat /\ d \in Nat /\ c < h
    OBVIOUS
  <2> QED BY <1>1, <2>2, <2>3, <2>4
<1>2. ~(x < u) /\ ~(u < x)
  BY <1>1
<1>3. x = u
  BY <1>2
<1>4. x * h \in Int /\ y \in Int /\ v \in Int
  OBVIOUS
<1> QED BY <1>3, <1>4

(* The column and the row of a number.                                     *)
LEMMA DivMod ==
  ASSUME NEW h \in Nat \ {0}, NEW c \in Nat
  PROVE  /\ c \div h \in Int /\ c % h \in Int
         /\ c = h * (c \div h) + (c % h)
OBVIOUS

(* When all selected icons have cells, the cells that move() computes      *)
(* differ, and none belongs to another icon: around other icons there is   *)
(* room for all of them, wherever they are dropped.                        *)
LEMMA DestinationsDiffer ==
  ASSUME NEW g, Valid(g), NEW sel \in Seq(Items), IsInjective(sel),
         Range(sel) \subseteq Placed(g), NEW current \in Range(sel),
         NEW dest, dest[1] \in Int, dest[2] \in Int
  PROVE  LET to == Destinations(g, sel, current, dest) IN
         /\ \A k \in 1 .. Len(sel) :
              to[k] \notin DOMAIN g.at \ {CellOf(g, sel[l]) : l \in 1 .. Len(sel)}
         /\ \A k, l \in 1 .. Len(sel) : to[k] = to[l] => k = l
<1> DEFINE h == g.size[2]
           origins == {CellOf(g, sel[k]) : k \in 1 .. Len(sel)}
           from == CellOf(g, current)
           x(k) == CellOf(g, sel[k]) \div h + dest[1] - from \div h
           y(k) == (CellOf(g, sel[k]) % h) + dest[2] - (from % h)
           valid(k) == x(k) \in 0 .. g.size[1] - 1 /\ y(k) \in 0 .. h - 1
           conflict == \E k \in 1 .. Len(sel) :
                          ~valid(k) \/ x(k) * h + y(k) \in DOMAIN g.at \ origins
           open     == Cells(g.size) \ (g.used \ origins)
           free     == Ascending(open)
           selHead  == CHOOSE k \in 1 .. Len(sel) : sel[k] = current
           target   == dest[1] * h + dest[2]
           destHead == IF target \in open THEN Cardinality({c \in open : c <= target}) ELSE 0
           first    == IF Len(free) - destHead <= Len(sel) - selHead
                       THEN Len(free) - Len(sel) + 1
                       ELSE IF destHead < selHead THEN 1 ELSE destHead - selHead + 1
           start    == IF first \in 1 .. Len(free) THEN free[first] ELSE 0
           ahead    == {c \in open : c >= start}
           cells    == Ascending(ahead)
           n == Len(sel)
           m == Cardinality(open)
           to(k)    == IF ~conflict THEN x(k) * h + y(k)
                       ELSE IF k <= Len(cells) THEN cells[k] ELSE 0
<1>1. \A k \in 1 .. Len(sel) : Destinations(g, sel, current, dest)[k] = to(k)
  BY DEF Destinations
<1>2. g.size \in Sizes /\ h \in Nat \ {0} /\ MapsAgree(g) /\ g.used = DOMAIN g.at
      /\ DOMAIN g.at \subseteq Cells(g.size)
  BY FitGrid, GridAssumption DEF Sound, Inside
<1>3. /\ Cells(g.size) \subseteq Nat /\ IsFiniteSet(Cells(g.size))
  BY <1>2, CellsOfSize
<1>4. n \in Nat /\ \A k \in 1 .. n : sel[k] \in Range(sel)
  BY DEF Range
<1>5. /\ \A k \in 1 .. n : CellOf(g, sel[k]) \in DOMAIN g.at
      /\ \A k, l \in 1 .. n : CellOf(g, sel[k]) = CellOf(g, sel[l]) => k = l
      /\ from \in DOMAIN g.at
  <2>1. \A i \in Range(sel) : CellOf(g, i) \in DOMAIN g.at /\ g.at[CellOf(g, i)] = i
    BY <1>2 DEF MapsAgree, Placed, CellOf
  <2>2. \A k, l \in 1 .. n : sel[k] = sel[l] => k = l
    BY <1>4 DEF IsInjective
  <2> QED BY <1>4, <2>1, <2>2
<1>6. \A k \in 1 .. n : CellOf(g, sel[k]) \in Nat
  BY <1>2, <1>3, <1>5
<1>7. from \in Nat
  BY <1>2, <1>3, <1>5
<1> HIDE DEF h, from, n
<1>8. ASSUME ~conflict
      PROVE  /\ \A k \in 1 .. n : to(k) \notin DOMAIN g.at \ origins
             /\ \A k, l \in 1 .. n : to(k) = to(l) => k = l
  <2>1. \A k \in 1 .. n : to(k) = x(k) * h + y(k)
    BY <1>8
  <2>2. \A k \in 1 .. n : valid(k) /\ x(k) * h + y(k) \notin DOMAIN g.at \ origins
    BY <1>8 DEF n
  <2>3. ASSUME NEW k \in 1 .. n, NEW l \in 1 .. n, x(k) * h + y(k) = x(l) * h + y(l)
        PROVE  k = l
    <3> DEFINE a == CellOf(g, sel[k])
               b == CellOf(g, sel[l])
    <3>1. /\ from \div h \in Int /\ from % h \in Int
          /\ a \div h \in Int /\ a % h \in Int /\ a = h * (a \div h) + (a % h)
          /\ b \div h \in Int /\ b % h \in Int /\ b = h * (b \div h) + (b % h)
      BY <1>2, <1>6, <1>7, DivMod
    <3>2. x(k) \in Int /\ x(l) \in Int /\ y(k) \in 0 .. h - 1 /\ y(l) \in 0 .. h - 1
      BY <2>2, <3>1
    <3>3. x(k) = x(l) /\ y(k) = y(l)
      <4> HIDE DEF x, y
      <4> QED BY <1>2, <2>3, <3>2, CellsDiffer
    <3> DEFINE p == from \div h
               q == from % h
               a1 == a \div h
               a2 == a % h
               b1 == b \div h
               b2 == b % h
    <3>4. a1 + dest[1] - p = b1 + dest[1] - p /\ a2 + dest[2] - q = b2 + dest[2] - q
      BY <3>3
    <3>5. p \in Int /\ q \in Int /\ a1 \in Int /\ a2 \in Int /\ b1 \in Int /\ b2 \in Int
          /\ a = h * a1 + a2 /\ b = h * b1 + b2
      BY <3>1
    <3> HIDE DEF p, q, a1, a2, b1, b2
    <3>6. a1 = b1 /\ a2 = b2
      <4> DEFINE d == dest[1]
                 e == dest[2]
      <4>1. a1 + d - p = b1 + d - p /\ a2 + e - q = b2 + e - q /\ d \in Int /\ e \in Int
        BY <3>4
      <4> HIDE DEF d, e
      <4> QED BY <3>5, <4>1
    <3>7. a = b
      BY <3>5, <3>6
    <3> QED BY <1>5, <3>7
  <2> HIDE DEF to, x, y, valid, conflict, origins
  <2>4. \A k \in 1 .. n : to(k) \notin DOMAIN g.at \ origins
    BY <2>1, <2>2
  <2>5. \A k, l \in 1 .. n : to(k) = to(l) => k = l
    BY <2>1, <2>3
  <2> QED BY <2>4, <2>5
<1>9. /\ open \in SUBSET Nat /\ IsFiniteSet(open) /\ m \in Nat
      /\ \A c \in open : c \notin DOMAIN g.at \ origins
      /\ \A k \in 1 .. n : CellOf(g, sel[k]) \in open
  <2>1. open \subseteq Cells(g.size)
    OBVIOUS
  <2>2. \A k \in 1 .. n : CellOf(g, sel[k]) \in origins
    BY DEF n
  <2>3. \A k \in 1 .. n : CellOf(g, sel[k]) \in open
    BY <1>2, <1>5, <2>2
  <2>4. \A c \in open : c \notin DOMAIN g.at \ origins
    BY <1>2
  <2> HIDE DEF open
  <2>5. IsFiniteSet(open)
    BY <1>3, <2>1, FS_Subset
  <2> QED BY <1>3, <2>1, <2>3, <2>4, <2>5, FS_CardinalityType
<1> HIDE DEF open, origins
<1>10. n <= m
  <2> DEFINE f == [k \in 1 .. n |-> CellOf(g, sel[k])]
  <2>1. f \in Injection(1 .. n, open)
    BY <1>5, <1>9 DEF Injection, IsInjective
  <2>2. Cardinality(1 .. n) = n
    BY <1>4, FS_Interval
  <2> HIDE DEF f
  <2>3. Cardinality(1 .. n) <= Cardinality(open)
    BY <1>9, <2>1, FS_Injection
  <2> QED BY <2>2, <2>3
<1>11. selHead \in 1 .. n
  <2>1. \E k \in 1 .. Len(sel) : sel[k] = current
    BY DEF Range
  <2> QED BY <2>1 DEF n
<1>12. destHead \in 0 .. m
  <2> DEFINE upTo == {c \in open : c <= target}
  <2>1. upTo \subseteq open
    OBVIOUS
  <2> HIDE DEF upTo
  <2>2. Cardinality(upTo) \in Nat /\ Cardinality(upTo) <= m
    BY <1>9, <2>1, FS_Subset, FS_CardinalityType
  <2>3. destHead = IF target \in open THEN Cardinality(upTo) ELSE 0
    BY DEF upTo
  <2> HIDE DEF destHead, target, m
  <2> QED BY <1>9, <2>2, <2>3
<1>13. Len(free) = m /\ free = Ascending(open)
  <2>1. free \in [1 .. m -> open]
    BY <1>9, AscendingEnumerates
  <2> HIDE DEF free, m
  <2>2. Len(free) = m
    BY <1>9, <2>1
  <2> QED BY <2>2 DEF free
<1> HIDE DEF free, m, selHead, destHead
<1>14. first \in 1 .. m - n + 1
  <2>1. first = IF m - destHead <= n - selHead THEN m - n + 1
                ELSE IF destHead < selHead THEN 1 ELSE destHead - selHead + 1
    BY <1>13 DEF n
  <2>2. n \in Nat /\ m \in Nat /\ n <= m
    BY <1>4, <1>9, <1>10
  <2> HIDE DEF first
  <2> QED BY <1>11, <1>12, <2>1, <2>2
<1> HIDE DEF first
<1>15. first \in 1 .. m /\ start = Ascending(open)[first]
  <2>1. first \in 1 .. m
    BY <1>4, <1>9, <1>11, <1>14
  <2> QED BY <1>13, <2>1
<1>16. Cardinality(ahead) = m - first + 1 /\ ahead \subseteq open
  <2>1. Cardinality({d \in open : d >= Ascending(open)[first]}) = Cardinality(open) - first + 1
    BY <1>9, <1>15, UpperPart DEF m
  <2>2. ahead = {d \in open : d >= Ascending(open)[first]}
    BY <1>15
  <2> HIDE DEF start
  <2>3. ahead \subseteq open
    OBVIOUS
  <2> HIDE DEF ahead
  <2> QED BY <2>1, <2>2, <2>3 DEF m
<1> HIDE DEF ahead
<1>17. /\ Len(cells) >= n
       /\ \A k \in 1 .. n : k <= Len(cells) /\ cells[k] \in open
       /\ \A k, l \in 1 .. n : cells[k] = cells[l] => k = l
  <2> DEFINE a == Cardinality(ahead)
  <2>1. IsFiniteSet(ahead) /\ ahead \in SUBSET Nat
    BY <1>9, <1>16, FS_Subset
  <2>2. /\ a \in Nat
        /\ cells \in [1 .. a -> ahead]
        /\ \A k, l \in 1 .. a : cells[k] = cells[l] => k = l
    BY <2>1, AscendingEnumerates
  <2>3. a >= n
    BY <1>4, <1>9, <1>14, <1>16
  <2> HIDE DEF a, cells
  <2>4. Len(cells) = a /\ \A k \in 1 .. n : k \in 1 .. a /\ k <= a
    BY <1>4, <2>2, <2>3
  <2> QED BY <1>16, <2>2, <2>3, <2>4
<1> HIDE DEF cells
<1>18. ASSUME conflict
       PROVE  /\ \A k \in 1 .. n : to(k) \notin DOMAIN g.at \ origins
              /\ \A k, l \in 1 .. n : to(k) = to(l) => k = l
  <2>1. \A k \in 1 .. n : to(k) = cells[k]
    BY <1>17, <1>18
  <2> HIDE DEF to
  <2> QED BY <1>9, <1>17, <2>1
<1>19. /\ \A k \in 1 .. n : to(k) \notin DOMAIN g.at \ origins
       /\ \A k, l \in 1 .. n : to(k) = to(l) => k = l
  <2> HIDE DEF to
  <2> QED BY <1>8, <1>18
<1> HIDE DEF to
<1> QED BY <1>1, <1>19 DEF n, origins

(* move() of any icons to any cell.  It can lose selected ones only if one *)
(* of them has no cell.                                                    *)
LEMMA MoveLemma ==
  ASSUME NEW g, Valid(g), SavedShown(g), NEW sel \in Seq(Items), IsInjective(sel),
         NEW current, NEW dest
  PROVE  LET h == move(g, sel, current, dest) IN
         /\ Fit(h) /\ SameSettings(g, h)
         /\ \A j : contains(h, j) => contains(g, j) \/ j \in Range(sel)
         /\ \A j : contains(g, j) /\ j \notin Range(sel) => contains(h, j)
         /\ (/\ Range(sel) \subseteq Placed(g) /\ current \in Range(sel)
             /\ dest[1] \in Int /\ dest[2] \in Int)
            => \A j \in Range(sel) : contains(h, j)
<1> DEFINE f == removeAll(g, sel)
           to == Destinations(g, sel, current, dest)
           h == addAtAll(f, to, sel)
<1>0. Len(sel) \in Nat /\ \A k \in 1 .. Len(sel) : sel[k] \in Range(sel)
  BY DEF Range
<1>1. /\ IsGrid(f) /\ SameSettings(g, f) /\ SavedShown(f) /\ Valid(f)
      /\ \A j : contains(f, j) <=> contains(g, j) /\ j \notin Range(sel)
      /\ OldAt(g, f)
  BY <1>0, FitGrid, RemoveAllLemma
<1>2. g.size \in Sizes
  BY FitGrid
<1>3. \A k \in 1 .. Len(sel) : to[k] \in Cells(g.size)
  BY <1>2, DestinationsLemma
<1>4. move(g, sel, current, dest) = Settled(h)
  BY DEF move
<1>7. ASSUME Range(sel) \subseteq Placed(g), current \in Range(sel), dest[1] \in Int, dest[2] \in Int
      PROVE  /\ \A k \in 1 .. Len(sel) : to[k] \notin DOMAIN f.at \/ to[k] = overlapPos(f)
             /\ \A k, l \in 1 .. Len(sel) : to[k] = to[l] => k = l
  <2> DEFINE origins == {CellOf(g, sel[l]) : l \in 1 .. Len(sel)}
  <2>1. /\ \A k \in 1 .. Len(sel) : to[k] \notin DOMAIN g.at \ origins
        /\ \A k, l \in 1 .. Len(sel) : to[k] = to[l] => k = l
    BY <1>7, DestinationsDiffer
  <2>2. overlapPos(f) = overlapPos(g)
    BY <1>1 DEF overlapPos, SameSettings
  <2>3. \A l \in 1 .. Len(sel) :
          LET c == CellOf(g, sel[l]) IN c \in DOMAIN g.at /\ g.at[c] = sel[l]
    BY <1>0, <1>7, FitGrid DEF Sound, MapsAgree, Placed, CellOf
  <2> HIDE DEF f, to
  <2>4. ASSUME NEW c \in origins, c \in DOMAIN f.at, c # overlapPos(f)
        PROVE  FALSE
    <3>1. PICK l \in 1 .. Len(sel) : c = CellOf(g, sel[l])
      OBVIOUS
    <3>2. f.at[c] = sel[l]
      BY <1>1, <2>2, <2>3, <2>4, <3>1 DEF OldAt
    <3>3. contains(f, sel[l])
      <4>1. Sound(f)
        BY <1>1, FitGrid
      <4>2. sel[l] \in DOMAIN f.pos
        BY <2>4, <3>2, <4>1 DEF Sound, MapsAgree
      <4> QED BY <4>2 DEF contains, Placed
    <3> QED BY <1>0, <1>1, <3>3
  <2>5. \A c \in DOMAIN f.at : c = overlapPos(f) \/ c \in DOMAIN g.at \ origins
    BY <1>1, <2>2, <2>4 DEF OldAt
  <2> HIDE DEF origins
  <2> QED BY <2>1, <2>5
<1> HIDE DEF f, to
<1>5. \A k \in 1 .. Len(sel) : ~contains(f, sel[k]) /\ to[k] \in Cells(f.size)
  BY <1>0, <1>1, <1>3 DEF SameSettings
<1>6. /\ SameSettings(f, h) /\ SavedShown(h) /\ Valid(h)
      /\ \A j : contains(h, j) => contains(f, j) \/ j \in Range(sel)
      /\ \A j : contains(f, j) => contains(h, j)
      /\ (/\ \A k \in 1 .. Len(sel) : to[k] \notin DOMAIN f.at \/ to[k] = overlapPos(f)
          /\ \A k, l \in 1 .. Len(sel) : to[k] = to[l] => k = l)
         => \A j \in Range(sel) : contains(h, j)
  BY <1>0, <1>1, <1>5, AddAtAllLemma
<1> HIDE DEF h
<1>8. /\ Fit(Settled(h)) /\ SameSettings(h, Settled(h))
      /\ \A j : contains(Settled(h), j) <=> contains(h, j)
  BY <1>6, SettledLemma
<1>9. SameSettings(g, Settled(h))
  BY <1>1, <1>6, <1>8 DEF SameSettings
<1> QED BY <1>1, <1>4, <1>6, <1>7, <1>8, <1>9

(* A file that takes the cell of another one.                              *)
LEMMA RenameLemma ==
  ASSUME NEW g, Fit(g), NEW i \in Items, contains(g, i), NEW j \in Items, ~contains(g, j)
  PROVE  LET c == IF i \in Placed(g) THEN g.pos[i] ELSE overlapPos(g)
             h == addAt(remove(g, i), c, j) IN
         /\ Fit(h) /\ SameSettings(g, h)
         /\ \A k : contains(h, k) => (contains(g, k) /\ k # i) \/ k = j
         /\ \A k : contains(g, k) /\ k # i => contains(h, k)
<1> DEFINE c == IF i \in Placed(g) THEN g.pos[i] ELSE overlapPos(g)
           p == RemovePrivate(g, i)
           r == remove(g, i)
           f == AddPrivate(r, c, j)
           h == addAt(r, c, j)
           rest == Dropped(g.over, i)
<1>1. /\ IsGrid(g) /\ Sound(g) /\ Good(g) /\ Inside(g) /\ Valid(g) /\ SavedShown(g)
      /\ g.size \in Sizes /\ g.over \in Seq(Items)
      /\ g.used = DOMAIN g.at /\ MapsAgree(g)
  BY FitGrid DEF Fit, Sound
<1>2. /\ c \in Cells(g.size) /\ c \in g.used
      /\ i \in Placed(g) => c = CellOf(g, i)
      /\ i \notin Placed(g) => c = overlapPos(g) /\ g.over # <<>>
  <2>1. CASE i \in Placed(g)
    BY <1>1, <2>1 DEF MapsAgree, Inside, Placed, CellOf
  <2>2. CASE i \notin Placed(g)
    <3>1. g.over # <<>>
      BY <2>2, EmptyRange DEF contains
    <3> QED BY <1>1, <2>2, <3>1 DEF Good, Inside
  <2> QED BY <2>1, <2>2
<1> HIDE DEF c
<1>3. /\ IsGrid(p) /\ SameSettings(g, p) /\ p.saved = g.saved
      /\ IsGrid(r) /\ SameSettings(g, r) /\ SavedShown(r) /\ Valid(r)
      /\ \A k : contains(r, k) <=> contains(g, k) /\ k # i
  BY <1>1, RemovePrivateFields, RemoveLemma
<1>4. r.at = p.at /\ r.used = p.used /\ r.over = p.over
  BY <1>1, <1>3, SyncedLemma DEF remove
<1>5. /\ IsGrid(h) /\ SameSettings(r, h) /\ SavedShown(h) /\ Valid(h)
      /\ \A k : contains(h, k) => contains(r, k) \/ k = j
      /\ \A k : contains(r, k) => contains(h, k)
  <2>1. c \in Cells(r.size)
    BY <1>2, <1>3 DEF SameSettings
  <2>2. ~contains(r, j)
    BY <1>3
  <2> HIDE DEF r
  <2> QED BY <1>3, <2>1, <2>2, AddAtLemma
<1>6. /\ IsGrid(f) /\ SameSettings(r, f) /\ f.saved = r.saved
      /\ c \notin DOMAIN r.at =>
           f.used = r.used \union ({c} \intersect Cells(r.size)) /\ f.over = r.over
      /\ c \in DOMAIN r.at =>
           f.used = r.used /\ f.over = IF c = overlapPos(r) THEN Append(r.over, j) ELSE r.over
  BY <1>3, AddPrivateFields
<1>7. h.used = f.used /\ h.over = f.over
  BY <1>3, <1>6, SyncedLemma DEF addAt
<1>8. rest \in Seq(Items) /\ (rest # <<>> => g.over # <<>>)
  <2>1. rest \in Seq(Items) /\ Range(rest) = Range(g.over) \ {i}
    BY <1>1, DroppedLemma
  <2> QED BY <2>1, EmptyRange
<1>9. /\ i \notin Placed(g) => p.at = g.at /\ p.used = g.used /\ p.over = rest
      /\ i \in Placed(g) /\ ~(rest # <<>> /\ c = overlapPos(g)) =>
           p.at = Without(g.at, c) /\ p.used = g.used \ {c} /\ p.over = rest
      /\ i \in Placed(g) /\ (rest # <<>> /\ c = overlapPos(g)) =>
           /\ p.at = With(Without(g.at, c), c, Head(rest))
           /\ p.used = (g.used \ {c}) \union ({c} \intersect Cells(g.size))
           /\ p.over = Tail(rest)
  BY <1>1, <1>2, RemovePrivateFields
<1> HIDE DEF p, r, f, h, rest
<1>10. f.used = g.used /\ (f.over # <<>> => g.over # <<>>)
  <2>1. CASE i \notin Placed(g)
    BY <1>1, <1>2, <1>4, <1>6, <1>9, <2>1
  <2>2. CASE i \in Placed(g) /\ ~(rest # <<>> /\ c = overlapPos(g))
    <3>1. c \notin DOMAIN r.at
      <4>1. r.at = Without(g.at, c)
        BY <1>4, <1>9, <2>2
      <4>2. DOMAIN Without(g.at, c) = DOMAIN g.at \ {c}
        BY WithoutLemma
      <4> QED BY <4>1, <4>2
    <3>2. f.used = (g.used \ {c}) \union ({c} \intersect Cells(g.size)) /\ f.over = rest
      BY <1>3, <1>4, <1>6, <1>9, <2>2, <3>1 DEF SameSettings
    <3> QED BY <1>2, <1>8, <3>2
  <2>3. CASE i \in Placed(g) /\ (rest # <<>> /\ c = overlapPos(g))
    <3>1. c \in DOMAIN r.at
      <4>1. r.at = With(Without(g.at, c), c, Head(rest))
        BY <1>4, <1>9, <2>3
      <4>2. DOMAIN With(Without(g.at, c), c, Head(rest)) = DOMAIN Without(g.at, c) \union {c}
        BY WithLemma
      <4> QED BY <4>1, <4>2
    <3>2. f.used = (g.used \ {c}) \union ({c} \intersect Cells(g.size))
      BY <1>4, <1>6, <1>9, <2>3, <3>1
    <3> QED BY <1>2, <1>8, <2>3, <3>2
  <2> QED BY <2>1, <2>2, <2>3
<1>11. SameSettings(g, h)
  BY <1>3, <1>5 DEF SameSettings
<1>12. Dense(g) => Dense(h)
  BY <1>7, <1>10, <1>11 DEF Dense, Free, SameSettings
<1>13. shouldArrange(h) => Dense(h)
  BY <1>11, <1>12 DEF shouldArrange, SameSettings, Fit
<1>14. Fit(h)
  BY <1>5, <1>13 DEF Fit
<1>15. /\ \A k : contains(h, k) => (contains(g, k) /\ k # i) \/ k = j
       /\ \A k : contains(g, k) /\ k # i => contains(h, k)
  BY <1>3, <1>5
<1> QED BY <1>11, <1>14, <1>15 DEF c, h, r

-----------------------------------------------------------------------------
(* The invariant, and one lemma per handler.                               *)

(* The invariant.  The profiles are placements only while nothing was      *)
(* written behind the grid, where the next handler would not run.          *)
GridInv ==
  /\ events \in 0 .. MaxEvents
  /\ files \subseteq Items
  /\ showHidden \in BOOLEAN
  /\ fresh \in Items \union {None}
  /\ Good(grid)
  /\ SavedShown(grid)
  /\ shouldArrange(grid) => Dense(grid)
  /\ InsideGrid => SavedFits(grid)

(* The types of the other variables, and what a handler other than a       *)
(* change of the size has to preserve.                                     *)
Typed == files \subseteq Items /\ showHidden \in BOOLEAN /\ fresh \in Items \union {None}

StaysFit == Typed' /\ Fit(grid') /\ grid'.size = grid.size

(* A listing has every file once.                                          *)
LEMMA ListingsLemma ==
  ASSUME NEW S \in SUBSET Items, NEW q \in Listings(S)
  PROVE  q \in Seq(Items) /\ IsInjective(q) /\ Range(q) = S
<1>1. CASE AnyOrder
  <2> DEFINE n == Cardinality(S)
  <2>1. n \in Nat /\ IsFiniteSet(S)
    <3>1. NItems \in Nat
      BY GridAssumption
    <3>2. IsFiniteSet(1 .. NItems)
      BY <3>1, FS_Interval
    <3>3. IsFiniteSet(S)
      BY <3>2, FS_Subset DEF Items
    <3> QED BY <3>3, FS_CardinalityType
  <2>2. q \in [1 .. n -> S] /\ \A i, j \in 1 .. n : i # j => q[i] # q[j]
    BY <1>1 DEF Listings, SetToSeqs
  <2>7. Cardinality(S) = n
    OBVIOUS
  <2> HIDE DEF n
  <2>5. q \in Surjection(1 .. n, S)
    <3>1. q \in Injection(1 .. n, S)
      BY <2>2 DEF Injection, IsInjective
    <3>2. Cardinality(1 .. n) = Cardinality(S)
      BY <2>1, <2>7, FS_Interval
    <3> QED BY <2>1, <3>1, <3>2, FS_Injection
  <2>6. \A i \in S : \E k \in 1 .. n : q[k] = i
    BY <2>5 DEF Surjection
  <2>3. q \in Seq(Items)
    <3>1. q \in [1 .. n -> Items]
      BY <2>2
    <3> QED BY <2>1, <3>1
  <2>4. DOMAIN q = 1 .. n
    BY <2>2
  <2> QED BY <2>2, <2>3, <2>4, <2>6 DEF IsInjective, Range
<1>2. CASE ~AnyOrder
  BY <1>2, AscendingItems DEF Listings
<1> QED BY <1>1, <1>2

(* A selection has every icon once.                                        *)
LEMMA SelectionsLemma ==
  ASSUME files \subseteq Items, NEW sel \in Selections
  PROVE  sel \in Seq(Items) /\ IsInjective(sel) /\ Range(sel) \subseteq Visible
<1>1. Visible \in SUBSET Items
  BY DEF Visible
<1>2. CASE sel \in {q \in {Ascending(Visible)} : MaxSelected > 0}
  BY <1>1, <1>2, AscendingItems
<1>3. CASE sel \notin {q \in {Ascending(Visible)} : MaxSelected > 0}
  <2> DEFINE Sets == {T \in SUBSET (Placed(grid) \intersect Visible) :
                        Cardinality(T) \in 1 .. MaxSelected}
  <2>0. /\ sel \in (UNION {SetToSeqs(S) : S \in Sets})
        /\ \A S \in Sets : S \in SUBSET Visible
    <3> DEFINE Whole == {q \in {Ascending(Visible)} : MaxSelected > 0}
               Few == (UNION {SetToSeqs(S) : S \in Sets})
    <3>1. Selections = Few \union Whole
      BY DEF Selections
    <3>2. sel \notin Whole
      BY <1>3
    <3>3. sel \in Few
      <4> HIDE DEF Few, Whole
      <4> QED BY <3>1, <3>2
    <3>4. \A S \in Sets : S \in SUBSET Visible
      OBVIOUS
    <3> HIDE DEF Sets, Whole
    <3> QED BY <3>3, <3>4, Zenon
  <2> HIDE DEF Sets
  <2>1. PICK T \in SUBSET Visible : sel \in SetToSeqs(T)
    <3>1. PICK S \in Sets : sel \in SetToSeqs(S)
      BY <2>0
    <3> QED BY <2>0, <3>1
  <2> DEFINE n == Cardinality(T)
  <2>2. n \in Nat
    <3>1. NItems \in Nat
      BY GridAssumption
    <3>2. IsFiniteSet(1 .. NItems)
      BY <3>1, FS_Interval
    <3>3. IsFiniteSet(T)
      BY <1>1, <3>2, FS_Subset DEF Items
    <3> QED BY <3>3, FS_CardinalityType
  <2>3. sel \in [1 .. n -> T] /\ \A i, j \in 1 .. n : i # j => sel[i] # sel[j]
    BY <2>1 DEF SetToSeqs
  <2> HIDE DEF n
  <2>4. sel \in [1 .. n -> Items]
    BY <1>1, <2>3
  <2>5. sel \in Seq(Items)
    BY <2>2, <2>4
  <2>6. DOMAIN sel = 1 .. n
    BY <2>3
  <2> QED BY <2>3, <2>5, <2>6 DEF IsInjective, Range
<1> QED BY <1>2, <1>3

(* An icon that is announced.                                              *)
LEMMA AddFit ==
  ASSUME NEW g, Fit(g), NEW i \in Items, i \notin Range(g.over), NEW show
  PROVE  Fit(add(g, i, show)) /\ SameSettings(g, add(g, i, show))
BY FitGrid, AddLemma DEF Fit, shouldArrange, SameSettings

(* An icon of a file that is deleted.                                      *)
LEMMA DeletedFit ==
  ASSUME NEW g, Fit(g), NEW i \in Items
  PROVE  Fit(Deleted(g, i)) /\ SameSettings(g, Deleted(g, i))
<1>1. LET h == remove(g, i) IN Valid(h) /\ SavedShown(h) /\ SameSettings(g, h)
  BY FitGrid, RemoveLemma DEF Fit
<1> QED BY <1>1, SettledLemma DEF Deleted, SameSettings

(* itemCreated leaves a fit grid of the same size.                         *)
LEMMA CreatedFit ==
  ASSUME ~LateEvents, Typed, Fit(grid), NEW i \in Items, ItemCreated(i) \/ ItemCreatedAgain(i)
  PROVE  StaysFit
<1>1. i \notin Range(grid.over)
  BY DEF ItemCreated, ItemCreatedAgain
<1>2. grid' = add(grid, i, showHidden)
  BY DEF ItemCreated, ItemCreatedAgain
<1>3. Fit(grid') /\ SameSettings(grid, grid')
  BY <1>1, <1>2, AddFit
<1>4. Typed'
  BY DEF ItemCreated, ItemCreatedAgain, Typed
<1> QED BY <1>3, <1>4 DEF StaysFit, SameSettings

(* itemDeleted leaves a fit grid of the same size.                         *)
LEMMA ItemDeletedFit ==
  ASSUME Typed, Fit(grid), NEW i \in Items, ItemDeleted(i)
  PROVE  StaysFit
<1>1. Fit(grid') /\ SameSettings(grid, grid')
  BY DeletedFit DEF ItemDeleted
<1>2. Typed'
  BY DEF ItemDeleted, Typed
<1> QED BY <1>1, <1>2 DEF StaysFit, SameSettings

(* fileMoved leaves a fit grid of the same size.                           *)
LEMMA FileMovedFit ==
  ASSUME Typed, Fit(grid), NEW i \in Items, NEW j \in Items, FileMoved(i, j)
  PROVE  StaysFit
<1>1. Fit(grid') /\ SameSettings(grid, grid')
  <2>1. CASE contains(grid, j)
    <3>1. grid' = Deleted(grid, i)
      BY <2>1 DEF FileMoved
    <3> QED BY <3>1, DeletedFit
  <2>2. CASE ~contains(grid, j) /\ contains(grid, i)
    <3>1. grid' = addAt(remove(grid, i),
                        IF i \in Placed(grid) THEN grid.pos[i] ELSE overlapPos(grid), j)
      BY <2>2 DEF FileMoved
    <3> QED BY <2>2, <3>1, RenameLemma
  <2>3. CASE ~contains(grid, j) /\ ~contains(grid, i)
    <3>1. grid' = add(grid, j, showHidden)
      BY <2>3 DEF FileMoved
    <3>2. j \notin Range(grid.over)
      BY <2>3 DEF contains
    <3> QED BY <3>1, <3>2, AddFit
  <2> QED BY <2>1, <2>2, <2>3
<1>2. Typed'
  BY DEF FileMoved, Typed
<1> QED BY <1>1, <1>2 DEF StaysFit, SameSettings

(* The move of a new file leaves a fit grid of the same size.              *)
LEMMA NewFileFit ==
  ASSUME Typed, Fit(grid), NEW start, NewFileByInternal(start)
  PROVE  StaysFit
<1>1. fresh \in Items
  BY DEF NewFileByInternal, Typed
<1>2. <<fresh>> \in Seq(Items) /\ IsInjective(<<fresh>>)
  BY <1>1 DEF IsInjective
<1>3. Fit(grid') /\ SameSettings(grid, grid')
  <2>1. CASE grid' = grid
    BY <2>1 DEF SameSettings
  <2>2. CASE grid' # grid
    <3>1. PICK dest : grid' = move(grid, <<fresh>>, fresh, dest)
      BY <2>2 DEF NewFileByInternal
    <3>2. Fit(move(grid, <<fresh>>, fresh, dest)) /\ SameSettings(grid, move(grid, <<fresh>>, fresh, dest))
      <4> DEFINE sel == <<fresh>>
      <4>1. sel \in Seq(Items) /\ IsInjective(sel) /\ Valid(grid) /\ SavedShown(grid)
        BY <1>2 DEF Fit
      <4> HIDE DEF sel
      <4>2. Fit(move(grid, sel, fresh, dest)) /\ SameSettings(grid, move(grid, sel, fresh, dest))
        BY <4>1, MoveLemma
      <4> QED BY <4>2 DEF sel
    <3> QED BY <3>1, <3>2
  <2> QED BY <2>1, <2>2
<1>4. Typed'
  BY DEF NewFileByInternal, Typed
<1> QED BY <1>3, <1>4 DEF StaysFit, SameSettings

(* A drop leaves a fit grid of the same size.                              *)
LEMMA DropFit ==
  ASSUME Typed, Fit(grid), DropEvent
  PROVE  StaysFit
<1>1. PICK sel \in Selections : \E current, dest : DropIcons(sel, current, dest)
  BY DEF DropEvent
<1>2. PICK current, dest : DropIcons(sel, current, dest)
  BY <1>1
<1>3. sel \in Seq(Items) /\ IsInjective(sel)
  BY SelectionsLemma DEF Typed
<1>4. Fit(grid') /\ SameSettings(grid, grid')
  BY <1>2, <1>3, MoveLemma DEF Fit, DropIcons
<1>5. Typed'
  BY <1>2 DEF DropIcons, Typed
<1> QED BY <1>4, <1>5 DEF StaysFit, SameSettings

(* The flag alone changes nothing that is shown.                           *)
LEMMA ArrangeFlagLemma ==
  ASSUME NEW g, Valid(g), SavedShown(g), NEW b \in BOOLEAN
  PROVE  LET h == [g EXCEPT !.autoArrange = b] IN
         /\ Valid(h) /\ SavedShown(h) /\ h.size = g.size
         /\ h.autoArrange = b /\ h.autoMerge = g.autoMerge
         /\ Dense(g) => Dense(h)
<1> DEFINE h == [g EXCEPT !.autoArrange = b]
<1>1. IsGrid(g)
  BY FitGrid
<1>2. /\ IsGrid(h) /\ h.size = g.size /\ h.at = g.at /\ h.pos = g.pos /\ h.used = g.used
      /\ h.over = g.over /\ h.saved = g.saved /\ h.autoMerge = g.autoMerge
      /\ h.autoArrange = b
  BY <1>1 DEF IsGrid
<1> HIDE DEF h
<1>3. MapsAgree(h)
  BY <1>2 DEF Valid, Good, Sound, MapsAgree
<1>4. Sound(h)
  BY <1>2, <1>3 DEF Valid, Good, Sound
<1>5. Valid(h)
  BY <1>2, <1>4 DEF Valid, Good, overlapPos, Inside, SavedFits
<1>6. SavedShown(h)
  BY <1>2 DEF SavedShown
<1>7. Dense(g) => Dense(h)
  BY <1>2 DEF Dense, Free
<1> QED BY <1>2, <1>5, <1>6, <1>7 DEF h

(* The choice of autoArrange leaves a fit grid of the same size.           *)
LEMMA ToggleArrangeFit ==
  ASSUME Typed, Fit(grid), ToggleArrange
  PROVE  StaysFit
<1> DEFINE b == ~grid.autoArrange
           g == [grid EXCEPT !.autoArrange = b]
<1>1. b \in BOOLEAN
  OBVIOUS
<1>2. /\ Valid(g) /\ SavedShown(g) /\ g.size = grid.size
      /\ g.autoArrange = b /\ g.autoMerge = grid.autoMerge
      /\ Dense(grid) => Dense(g)
  BY <1>1, ArrangeFlagLemma DEF Fit
<1>3. grid' = IF g.autoArrange THEN reArrange(g) ELSE g
  BY DEF ToggleArrange
<1>4. grid.autoArrange \in BOOLEAN
  BY FitGrid DEF Fit
<1> HIDE DEF g
<1>5. CASE g.autoArrange
  <2>1. Fit(reArrange(g)) /\ SameSettings(g, reArrange(g))
    BY <1>2, FitGrid, ReArrangeLemma
  <2> QED BY <1>2, <1>3, <1>5, <2>1 DEF StaysFit, Typed, ToggleArrange, SameSettings
<1>6. CASE ~g.autoArrange
  <2>1. shouldArrange(g) => shouldArrange(grid)
    BY <1>2, <1>6 DEF shouldArrange
  <2>2. Fit(g)
    BY <1>2, <2>1 DEF Fit
  <2> QED BY <1>2, <1>3, <1>6, <2>2 DEF StaysFit, Typed, ToggleArrange
<1> QED BY <1>5, <1>6

(* The choice of autoMerge leaves a fit grid of the same size.             *)
LEMMA SetAutoMergeFit ==
  ASSUME Typed, Fit(grid), SetAutoMerge
  PROVE  StaysFit
<1> DEFINE g == [grid EXCEPT !.autoMerge = ~@]
<1>1. PICK q \in Listings(Visible) : grid' = load(g, q)
  BY DEF SetAutoMerge
<1>2. Visible \in SUBSET Items
  BY DEF Visible, Typed
<1>3. q \in Seq(Items) /\ IsInjective(q)
  BY <1>2, ListingsLemma
<1>4. IsGrid(grid) /\ grid.size \in Sizes /\ grid.autoArrange \in BOOLEAN /\ SavedFits(grid)
  BY FitGrid DEF Fit
<1>5. /\ IsGrid(g) /\ g.size = grid.size /\ g.autoArrange = grid.autoArrange
      /\ g.saved = grid.saved /\ g.autoMerge \in BOOLEAN
  BY <1>4 DEF IsGrid
<1> HIDE DEF g
<1>6. SavedFits(g)
  BY <1>4, <1>5 DEF SavedFits
<1>7. Fit(load(g, q)) /\ SameSettings(g, load(g, q))
  BY <1>3, <1>4, <1>5, <1>6, LoadLemma
<1>8. Typed'
  BY DEF SetAutoMerge, Typed
<1> QED BY <1>1, <1>5, <1>7, <1>8 DEF StaysFit, SameSettings

(* Ctrl+H leaves a fit grid of the same size.                              *)
LEMMA ToggleHiddenFit ==
  ASSUME Typed, Fit(grid), ToggleHidden
  PROVE  StaysFit
<1> DEFINE listed == {i \in files : ~showHidden \/ i \notin Hidden}
           range == rangeItems(grid)
           T == {k \in DOMAIN range : range[k] \notin listed}
           gone == Values(range, T)
           new == {i \in listed : ~contains(grid, i)}
<1>1. PICK q \in Listings(new) : grid' = Settled(removeAll(addAll(grid, q, ~showHidden), gone))
  BY DEF ToggleHidden
<1> DEFINE f == addAll(grid, q, ~showHidden)
           h == removeAll(f, gone)
<1>2. Valid(grid) /\ SavedShown(grid) /\ IsGrid(grid) /\ Sound(grid)
  BY FitGrid DEF Fit
<1>3. new \in SUBSET Items /\ \A i \in new : ~contains(grid, i)
  BY DEF Typed
<1> HIDE DEF new
<1>4. q \in Seq(Items) /\ IsInjective(q) /\ \A i \in Range(q) : ~contains(grid, i)
  BY <1>3, ListingsLemma
<1>5. range \in Seq(Items)
  BY <1>2, RangeItemsLemma
<1> HIDE DEF listed, range
<1>6. gone \in Seq(Items)
  <2>1. T \in SUBSET Nat /\ IsFiniteSet(T)
    <3>1. T \subseteq 1 .. Len(range) /\ Len(range) \in Nat
      BY <1>5
    <3>2. IsFiniteSet(1 .. Len(range))
      BY <3>1, FS_Interval
    <3>3. IsFiniteSet(T)
      BY <3>1, <3>2, FS_Subset
    <3> QED BY <3>1, <3>3
  <2>2. \A k \in T : range[k] \in Items
    BY <1>5
  <2> HIDE DEF T
  <2> QED BY <2>1, <2>2, ValuesInOrder
<1> HIDE DEF gone
<1>7. SameSettings(grid, f) /\ SavedShown(f) /\ Valid(f) /\ IsGrid(f)
  <2>1. Len(q) \in Nat /\ \A k \in 1 .. Len(q) : ~contains(grid, q[k])
    BY <1>4 DEF Range
  <2> QED BY <1>2, <1>4, <2>1, AddAllLemma
<1> HIDE DEF f
<1>8. SameSettings(f, h) /\ SavedShown(h) /\ Valid(h)
  <2>1. Len(gone) \in Nat
    BY <1>6
  <2> QED BY <1>6, <1>7, <2>1, RemoveAllLemma
<1>9. grid' = Settled(h)
  BY <1>1 DEF f
<1> HIDE DEF h
<1>10. Fit(grid') /\ SameSettings(h, grid')
  BY <1>8, <1>9, SettledLemma
<1>11. Typed'
  BY DEF ToggleHidden, Typed
<1> QED BY <1>7, <1>8, <1>10, <1>11 DEF StaysFit, SameSettings

(* A sort leaves a fit grid of the same size.                              *)
LEMMA ResortFit ==
  ASSUME Typed, Fit(grid), Resort
  PROVE  StaysFit
<1>1. PICK q \in Listings(Visible) : grid' = reArrange(addAll(clear(grid), q, showHidden))
  BY DEF Resort
<1> DEFINE e == clear(grid)
           f == addAll(e, q, showHidden)
<1>2. Visible \in SUBSET Items
  BY DEF Visible, Typed
<1>3. q \in Seq(Items) /\ IsInjective(q)
  BY <1>2, ListingsLemma
<1>4. Valid(e) /\ SameSettings(grid, e) /\ \A j : ~contains(e, j)
  BY ClearLemma DEF Fit
<1> HIDE DEF e
<1>5. SameSettings(e, f) /\ Valid(f)
  <2>1. Len(q) \in Nat /\ \A k \in 1 .. Len(q) : ~contains(e, q[k])
    BY <1>3, <1>4
  <2> QED BY <1>3, <1>4, <2>1, FitGrid, AddAllLemma
<1>6. grid' = reArrange(f)
  BY <1>1 DEF e
<1> HIDE DEF f
<1>7. Fit(grid') /\ SameSettings(f, grid')
  BY <1>5, <1>6, FitGrid, ReArrangeLemma
<1>8. Typed'
  BY DEF Resort, Typed
<1> QED BY <1>4, <1>5, <1>7, <1>8 DEF StaysFit, SameSettings

(* A desktop that was just loaded.                                         *)
LEMMA GridInvInit ==
  ASSUME Init
  PROVE  GridInv
<1>1. PICK s \in Sizes, arranged \in BOOLEAN, merged \in BOOLEAN :
        LET g == [size |-> s, at |-> <<>>, pos |-> <<>>, used |-> {}, over |-> <<>>,
                  saved |-> <<>>, autoArrange |-> arranged, autoMerge |-> merged]
        IN  \E q \in Listings(Visible) : grid = load(g, q)
  BY DEF Init
<1> DEFINE g == [size |-> s, at |-> <<>>, pos |-> <<>>, used |-> {}, over |-> <<>>,
                 saved |-> <<>>, autoArrange |-> arranged, autoMerge |-> merged]
<1>2. PICK q \in Listings(Visible) : grid = load(g, q)
  BY <1>1
<1>3. Visible \in SUBSET Items
  BY DEF Init, Visible
<1>4. q \in Seq(Items) /\ IsInjective(q)
  BY <1>3, ListingsLemma
<1>5. /\ IsGrid(g) /\ g.size \in Sizes /\ g.autoArrange \in BOOLEAN /\ g.autoMerge \in BOOLEAN
      /\ g.saved = <<>>
  BY DEF IsGrid
<1> HIDE DEF g
<1>6. SavedFits(g)
  <2>1. DOMAIN g.saved = {}
    BY <1>5
  <2> QED BY <2>1 DEF SavedFits
<1>7. Fit(grid)
  BY <1>2, <1>4, <1>5, <1>6, LoadLemma
<1>8. events \in 0 .. MaxEvents
  BY GridAssumption DEF Init
<1>9. files \subseteq Items /\ showHidden \in BOOLEAN /\ fresh \in Items \union {None}
  BY DEF Init
<1> QED BY <1>7, <1>8, <1>9 DEF GridInv, Fit, Valid

(* Every handler preserves the invariant, and only one changes the size.   *)
LEMMA GridStep ==
  ASSUME ~LateEvents, GridInv, Next
  PROVE  /\ GridInv'
         /\ StaysFit \/ \E s \in Sizes : UpdateGridSize(s)
<1>1. InsideGrid /\ events' \in 0 .. MaxEvents
  BY GridAssumption DEF GridInv, Next
<1>2. Fit(grid) /\ Typed
  BY <1>1 DEF GridInv, Fit, Valid, Inside, InsideGrid, Typed
<1>3. StaysFit \/ \E s \in Sizes : UpdateGridSize(s)
  <2>1. CASE \E i \in Items : ItemCreated(i) \/ ItemCreatedAgain(i) \/ ItemDeleted(i)
    BY <1>2, <2>1, CreatedFit, ItemDeletedFit
  <2>2. CASE \E i, j \in Items : FileMoved(i, j)
    BY <1>2, <2>2, FileMovedFit
  <2>3. CASE \E p \in Points(grid.size) : NewFileByInternal(p)
    BY <1>2, <2>3, NewFileFit
  <2>4. CASE DropEvent
    BY <1>2, <2>4, DropFit
  <2>5. CASE ToggleArrange
    BY <1>2, <2>5, ToggleArrangeFit
  <2>6. CASE SetAutoMerge
    BY <1>2, <2>6, SetAutoMergeFit
  <2>7. CASE ToggleHidden
    BY <1>2, <2>7, ToggleHiddenFit
  <2>8. CASE Resort
    BY <1>2, <2>8, ResortFit
  <2> QED BY <2>1, <2>2, <2>3, <2>4, <2>5, <2>6, <2>7, <2>8 DEF Next
<1>4. CASE StaysFit
  BY <1>1, <1>4 DEF StaysFit, Typed, GridInv, Fit, Valid
<1>5. ASSUME NEW s \in Sizes, UpdateGridSize(s)
      PROVE  GridInv'
  <2>1. grid' = updateGridSize(grid, s) /\ Typed'
    BY <1>2, <1>5 DEF UpdateGridSize, Typed
  <2>2. /\ Good(grid') /\ SavedShown(grid')
        /\ shouldArrange(grid') => Dense(grid')
        /\ Inside(grid') => SavedFits(grid')
    BY <1>2, <2>1, UpdateLemma
  <2> QED BY <1>1, <2>1, <2>2 DEF GridInv, Typed, Inside, InsideGrid
<1> QED BY <1>3, <1>4, <1>5

(* The invariant holds.                                                    *)
LEMMA GridInvariant ==
  ASSUME ~LateEvents
  PROVE  Spec => []GridInv
<1>1. Init => GridInv
  BY GridInvInit
<1>2. GridInv /\ [Next]_vars => GridInv'
  <2> SUFFICES ASSUME GridInv, [Next]_vars PROVE GridInv'
    OBVIOUS
  <2>1. CASE Next
    BY <2>1, GridStep
  <2>2. CASE UNCHANGED vars
    BY <2>2 DEF vars, GridInv, InsideGrid
  <2> QED BY <2>1, <2>2
<1> QED
  BY <1>1, <1>2, PTL DEF Spec

-----------------------------------------------------------------------------
(* The theorems.                                                           *)

(* For any number of files, any sizes and any order of the handlers, every *)
(* variable keeps a value of its kind; the status is kept of cells of the  *)
(* grid only, and every saved profile is a placement of its size as long   *)
(* as changeGridSize() wrote nothing behind the grid.  It is supposed that *)
(* no file is announced while its icon overlaps.                           *)
THEOREM GridTypeOK ==
  ASSUME ~LateEvents
  PROVE  Spec => []TypeOK
<1>1. GridInv => TypeOK
  <2> SUFFICES ASSUME GridInv PROVE TypeOK
    OBVIOUS
  <2>1. Sound(grid) /\ MapsAgree(grid)
    BY DEF GridInv, Good, Sound
  <2>2. /\ grid.size \in Sizes /\ grid.autoArrange \in BOOLEAN /\ grid.autoMerge \in BOOLEAN
        /\ grid.over \in Seq(Items) /\ grid.used \subseteq Cells(grid.size)
    BY <2>1 DEF Sound
  <2>3. /\ DOMAIN grid.at \subseteq Nat /\ Range(grid.at) \subseteq Items
        /\ DOMAIN grid.pos \subseteq Items /\ Range(grid.pos) \subseteq Nat
    BY <2>1 DEF MapsAgree, Range
  <2>4. InsideGrid =>
          /\ DOMAIN grid.saved \subseteq Sizes
          /\ \A s \in DOMAIN grid.saved : DOMAIN grid.saved[s] \subseteq Cells(s)
    BY DEF GridInv, SavedFits
  <2> QED BY <2>2, <2>3, <2>4 DEF GridInv, TypeOK
<1> QED
  BY <1>1, GridInvariant, PTL

(* m_itemGrids is the inverse of m_gridItems.                              *)
LEMMA InvertedAgrees ==
  ASSUME NEW g, MapsAgree(g)
  PROVE  g.pos = Inverted(g.at)
<1>1. Range(g.at) = DOMAIN g.pos /\ IsInjective(g.at)
  BY DEF MapsAgree, Range, IsInjective
<1>2. /\ DOMAIN Inverted(g.at) = Range(g.at)
      /\ Inverted(g.at) = [i \in DOMAIN Inverted(g.at) |-> Inverted(g.at)[i]]
      /\ \A c \in DOMAIN g.at : g.at[c] \in Range(g.at) /\ Inverted(g.at)[g.at[c]] = c
  BY <1>1, InvertedLemma
<1>3. \A i \in DOMAIN g.pos : Inverted(g.at)[i] = g.pos[i]
  BY <1>2 DEF MapsAgree
<1>4. g.pos = [i \in DOMAIN g.pos |-> g.pos[i]]
  BY DEF MapsAgree
<1> QED BY <1>1, <1>2, <1>3, <1>4

(* On the same condition the two maps of GridManagerPrivate and the status *)
(* of its cells, which every operation changes one by one, agree, even if  *)
(* changeGridSize() has put an icon behind the grid; no icon is shown      *)
(* twice; and icons that overlap lie on one in the last cell.              *)
THEOREM GridConsistent ==
  ASSUME ~LateEvents
  PROVE  Spec => []Consistent
<1>1. GridInv => Consistent
  <2> SUFFICES ASSUME GridInv PROVE Consistent
    OBVIOUS
  <2>1. Good(grid) /\ Sound(grid) /\ MapsAgree(grid)
    BY DEF GridInv, Good, Sound
  <2>2. grid.used = DOMAIN grid.at \intersect Cells(grid.size)
    BY <2>1 DEF Sound
  <2>3. IsInjective(grid.at) /\ grid.pos = Inverted(grid.at)
    BY <2>1, InjectiveAt, InvertedAgrees
  <2> QED BY <2>1, <2>2, <2>3 DEF Good, Sound, Consistent, Placed
<1> QED
  BY <1>1, GridInvariant, PTL

(* Unless the desktop is merged, the profile of the size of the grid is    *)
(* what is on the screen: no handler forgets syncProfile(), provided that  *)
(* no file is announced while its icon overlaps.                           *)
THEOREM GridSavedIsShown ==
  ASSUME ~LateEvents
  PROVE  Spec => []SavedIsShown
<1>1. GridInv => SavedIsShown
  BY DEF GridInv, SavedShown, SavedIsShown
<1> QED
  BY <1>1, GridInvariant, PTL

(* A desktop that arranges itself has no gap and overlaps only when it is  *)
(* full, whichever handler ran last, on the same condition.                *)
THEOREM GridArrangedIsPacked ==
  ASSUME ~LateEvents
  PROVE  Spec => []ArrangedIsPacked
<1>1. GridInv => ArrangedIsPacked
  <2> SUFFICES ASSUME GridInv, shouldArrange(grid)
               PROVE  /\ grid.used = 0 .. Cardinality(grid.used) - 1
                      /\ grid.over # <<>> => Free(grid) = {}
    BY DEF ArrangedIsPacked
  <2>1. Dense(grid)
    BY DEF GridInv
  <2>2. PICK m \in Nat : grid.used = 0 .. m - 1
    BY <2>1 DEF Dense
  <2>3. Cardinality(0 .. m - 1) = m
    BY FS_Interval
  <2>4. Cardinality(grid.used) = m
    BY <2>2, <2>3
  <2> QED BY <2>1, <2>2, <2>4 DEF Dense
<1> QED
  BY <1>1, GridInvariant, PTL

(* A change of the size brings every icon back to the cell that it had     *)
(* when the grid last had that size, unless icons are arranged, on the     *)
(* same condition.                                                         *)
THEOREM GridRoundTrip ==
  ASSUME ~LateEvents
  PROVE  Spec => RoundTrip
<1> DEFINE Back ==
      LET s == grid'.size IN
      s # grid.size /\ ~shouldArrange(grid) /\ s \in DOMAIN grid.saved =>
        \A c \in DOMAIN grid.saved[s] :
          contains(grid, grid.saved[s][c]) =>
            c \in DOMAIN grid'.at /\ grid'.at[c] = grid.saved[s][c]
<1>1. GridInv /\ [Next]_vars => [Back]_vars
  <2> SUFFICES ASSUME GridInv, Next, grid'.size # grid.size PROVE Back
    BY DEF vars
  <2>1. PICK s \in Sizes : UpdateGridSize(s)
    BY GridStep DEF StaysFit
  <2>2. grid' = updateGridSize(grid, s)
    BY <2>1 DEF UpdateGridSize
  <2>3. Fit(grid)
    BY DEF GridInv, Next, Fit, Valid, Inside, InsideGrid
  <2>4. /\ grid'.size = s
        /\ ~shouldArrange(grid) /\ s \in DOMAIN grid.saved =>
             \A c \in DOMAIN grid.saved[s] : contains(grid, grid.saved[s][c]) =>
               c \in DOMAIN grid'.at /\ grid'.at[c] = grid.saved[s][c]
    BY <2>2, <2>3, UpdateLemma
  <2> QED BY <2>4
<1>2. RoundTrip <=> [][Back]_vars
  BY DEF RoundTrip
<1> HIDE DEF Back
<1> QED
  BY <1>1, <1>2, GridInvariant, PTL DEF Spec

-----------------------------------------------------------------------------
(* The icons of files that stay, and of files that are gone.               *)

(* No icon of a file that stays visible goes away, and none comes to a     *)
(* file that is gone.                                                      *)
StaysShown == \A i \in Visible' : contains(grid, i) => contains(grid', i)
NoneOfGone ==
  \A i \in Items \ files' :
    contains(grid', i) => (contains(grid, i) /\ i \notin files) \/ i = fresh
Follow == StaysShown /\ NoneOfGone

(* What is visible is there.                                               *)
LEMMA VisibleIsFile ==
  /\ \A i \in Visible : i \in files
  /\ \A i \in Visible' : i \in files'
BY DEF Visible

(* The icon of a deleted file goes away and no other.                      *)
LEMMA DeletedKeeps ==
  ASSUME NEW g, Fit(g), NEW i \in Items
  PROVE  \A j : contains(Deleted(g, i), j) <=> contains(g, j) /\ j # i
<1>1. LET h == remove(g, i) IN
      /\ Valid(h) /\ SavedShown(h)
      /\ \A j : contains(h, j) <=> contains(g, j) /\ j # i
  BY FitGrid, RemoveLemma DEF Fit
<1> QED BY <1>1, SettledLemma DEF Deleted

(* An announced icon comes and no other goes.                              *)
LEMMA AddKeeps ==
  ASSUME NEW g, Fit(g), NEW i \in Items, i \notin Range(g.over), NEW show
  PROVE  /\ \A j : contains(add(g, i, show), j) => contains(g, j) \/ j = i
         /\ \A j : contains(g, j) => contains(add(g, i, show), j)
BY FitGrid, AddLemma DEF Fit

(* itemCreated takes and gives icons as it should.                         *)
LEMMA CreatedFollow ==
  ASSUME ~LateEvents, Typed, Fit(grid), NEW i \in Items, ItemCreated(i) \/ ItemCreatedAgain(i)
  PROVE  Follow
<1>1. /\ i \notin Range(grid.over)
      /\ grid' = add(grid, i, showHidden)
      /\ files' = files \union {i}
  BY DEF ItemCreated, ItemCreatedAgain
<1>2. /\ \A j : contains(grid', j) => contains(grid, j) \/ j = i
      /\ \A j : contains(grid, j) => contains(grid', j)
  BY <1>1, AddKeeps
<1> QED BY <1>1, <1>2 DEF Follow, StaysShown, NoneOfGone

(* itemDeleted takes and gives icons as it should.                         *)
LEMMA ItemDeletedFollow ==
  ASSUME Typed, Fit(grid), NEW i \in Items, ItemDeleted(i)
  PROVE  Follow
<1>1. files' = files \ {i} /\ grid' = Deleted(grid, i)
  BY DEF ItemDeleted
<1>2. \A j : contains(grid', j) <=> contains(grid, j) /\ j # i
  BY <1>1, DeletedKeeps
<1> QED BY <1>1, <1>2, VisibleIsFile DEF Follow, StaysShown, NoneOfGone

(* fileMoved takes and gives icons as it should.                           *)
LEMMA FileMovedFollow ==
  ASSUME Typed, Fit(grid), NEW i \in Items, NEW j \in Items, FileMoved(i, j)
  PROVE  Follow
<1>1. i # j /\ files' = (files \ {i}) \union {j}
  BY DEF FileMoved
<1>2. /\ \A k : contains(grid', k) => (contains(grid, k) /\ k # i) \/ k = j
      /\ \A k : contains(grid, k) /\ k # i => contains(grid', k)
  <2>1. CASE contains(grid, j)
    <3>1. grid' = Deleted(grid, i)
      BY <2>1 DEF FileMoved
    <3> QED BY <3>1, DeletedKeeps
  <2>2. CASE ~contains(grid, j) /\ contains(grid, i)
    <3>1. grid' = addAt(remove(grid, i),
                        IF i \in Placed(grid) THEN grid.pos[i] ELSE overlapPos(grid), j)
      BY <2>2 DEF FileMoved
    <3> QED BY <2>2, <3>1, RenameLemma
  <2>3. CASE ~contains(grid, j) /\ ~contains(grid, i)
    <3>1. grid' = add(grid, j, showHidden)
      BY <2>3 DEF FileMoved
    <3>2. j \notin Range(grid.over)
      BY <2>3 DEF contains
    <3> QED BY <2>3, <3>1, <3>2, AddKeeps
  <2> QED BY <2>1, <2>2, <2>3
<1> QED BY <1>1, <1>2, VisibleIsFile DEF Follow, StaysShown, NoneOfGone

(* The move of a new file takes and gives icons as it should, unless the   *)
(* desktop is crowded.                                                     *)
LEMMA NewFileFollow ==
  ASSUME Typed, Fit(grid), NEW start \in Points(grid.size), NewFileByInternal(start)
  PROVE  NoneOfGone /\ (~Crowded => StaysShown)
<1>1. /\ fresh \in Items
      /\ UNCHANGED <<files, showHidden>>
  BY DEF NewFileByInternal, Typed
<1>2. Visible' = Visible
  BY <1>1 DEF Visible
<1>3. CASE grid' = grid
  BY <1>1, <1>3 DEF StaysShown, NoneOfGone
<1>4. CASE grid' # grid
  <2> DEFINE h  == grid.size[2]
             ahead == {b \in Free(grid) : b >= start[1] * h + start[2]}
             to == IF ahead = {} THEN emptyPos(grid) ELSE Min(ahead)
             dest == forwardFindEmpty(grid, start)
             sel == <<fresh>>
  <2>1. grid' = move(grid, sel, fresh, dest)
    BY <1>4 DEF NewFileByInternal
  <2>2. Valid(grid) /\ SavedShown(grid) /\ Sound(grid) /\ grid.size \in Sizes
    BY FitGrid DEF Fit
  <2>3. sel \in Seq(Items) /\ IsInjective(sel) /\ Range(sel) = {fresh}
    BY <1>1 DEF IsInjective, Range
  <2>4. to \in Nat
    <3>1. ahead \in SUBSET Nat
      BY <2>2, CellsOfSize DEF Free
    <3> HIDE DEF ahead
    <3>2. ahead # {} => Min(ahead) \in Nat
      BY <3>1, MinLemma
    <3> QED BY <2>2, <3>2, EmptyPosLemma
  <2>5. h \in Nat \ {0} /\ start[1] \in Int /\ start[2] \in Int
    BY <2>2, GridAssumption DEF Points
  <2>6. dest \in {start, <<to \div h, to % h>>}
    BY DEF forwardFindEmpty
  <2> HIDE DEF to, h, ahead, dest
  <2>10. dest[1] \in Int /\ dest[2] \in Int
    BY <2>4, <2>5, <2>6, DivMod
  <2> HIDE DEF sel
  <2>7. /\ \A j : contains(grid', j) => contains(grid, j) \/ j \in Range(sel)
        /\ \A j : contains(grid, j) /\ j \notin Range(sel) => contains(grid', j)
        /\ Range(sel) \subseteq Placed(grid) /\ fresh \in Range(sel)
             => \A j \in Range(sel) : contains(grid', j)
    BY <2>1, <2>2, <2>3, <2>10, MoveLemma
  <2>8. NoneOfGone
    BY <1>1, <2>3, <2>7 DEF NoneOfGone
  <2>9. ASSUME ~Crowded, NEW i \in Visible, contains(grid, i)
        PROVE  contains(grid', i)
    BY <2>3, <2>7, <2>9 DEF Crowded
  <2> QED BY <1>2, <2>8, <2>9 DEF StaysShown
<1> QED BY <1>3, <1>4

(* A drop takes and gives icons as it should, unless the desktop is        *)
(* crowded.                                                                *)
LEMMA DropFollow ==
  ASSUME Typed, Fit(grid), DropEvent
  PROVE  NoneOfGone /\ (~Crowded => StaysShown)
<1>1. PICK sel \in Selections :
        \E current \in Range(sel), dest \in Points(grid.size) : DropIcons(sel, current, dest)
  BY DEF DropEvent
<1>2. PICK current \in Range(sel), dest \in Points(grid.size) : DropIcons(sel, current, dest)
  BY <1>1
<1>3. sel \in Seq(Items) /\ IsInjective(sel) /\ Range(sel) \subseteq Visible
  BY SelectionsLemma DEF Typed
<1>4. UNCHANGED <<files, showHidden>>
  BY <1>2 DEF DropIcons
<1>5. Valid(grid) /\ SavedShown(grid)
  BY DEF Fit
<1>6. dest[1] \in Int /\ dest[2] \in Int
  BY DEF Points
<1>7. grid' = move(grid, sel, current, dest)
  BY <1>2 DEF DropIcons
<1>8. /\ \A j : contains(grid', j) => contains(grid, j) \/ j \in Range(sel)
      /\ \A j : contains(grid, j) /\ j \notin Range(sel) => contains(grid', j)
      /\ Range(sel) \subseteq Placed(grid) => \A j \in Range(sel) : contains(grid', j)
  BY <1>3, <1>5, <1>6, <1>7, MoveLemma
<1>9. NoneOfGone
  BY <1>3, <1>4, <1>8, VisibleIsFile DEF NoneOfGone
<1>10. ~Crowded => Range(sel) \subseteq Placed(grid)
  BY <1>3 DEF Crowded
<1>11. Visible' = Visible
  BY <1>4 DEF Visible
<1> QED BY <1>8, <1>9, <1>10, <1>11 DEF StaysShown

(* A change of the size loses no icon unless some overlapped.              *)
LEMMA UpdateFollow ==
  ASSUME Typed, Fit(grid), NEW s \in Sizes, UpdateGridSize(s)
  PROVE  NoneOfGone /\ (StaysShown \/ (grid.over # <<>> /\ grid'.size # grid.size))
<1>1. /\ grid' = updateGridSize(grid, s) /\ s # grid.size
      /\ UNCHANGED <<files, showHidden>>
  BY DEF UpdateGridSize
<1>2. /\ grid'.size = s
      /\ \A j : contains(grid', j) => contains(grid, j)
      /\ grid.over = <<>> => \A j : contains(grid, j) => contains(grid', j)
  BY <1>1, UpdateLemma
<1> QED BY <1>1, <1>2 DEF NoneOfGone, StaysShown

(* The choice of autoArrange takes and gives icons as it should.           *)
LEMMA ToggleArrangeFollow ==
  ASSUME Typed, Fit(grid), ToggleArrange
  PROVE  Follow
<1> DEFINE b == ~grid.autoArrange
           g == [grid EXCEPT !.autoArrange = b]
<1>1. b \in BOOLEAN
  OBVIOUS
<1>2. Valid(g)
  BY <1>1, ArrangeFlagLemma DEF Fit
<1>3. grid' = IF g.autoArrange THEN reArrange(g) ELSE g
  BY DEF ToggleArrange
<1>4. g.pos = grid.pos /\ g.over = grid.over
  BY FitGrid DEF Fit, IsGrid
<1> HIDE DEF g
<1>5. \A j : contains(reArrange(g), j) <=> contains(g, j)
  BY <1>2, FitGrid, ReArrangeLemma
<1>6. \A j : contains(g, j) <=> contains(grid, j)
  BY <1>4 DEF contains, Placed
<1>7. \A j : contains(grid', j) <=> contains(grid, j)
  BY <1>3, <1>5, <1>6
<1>8. UNCHANGED files
  BY DEF ToggleArrange
<1> QED BY <1>7, <1>8 DEF Follow, StaysShown, NoneOfGone

(* The choice of autoMerge takes and gives icons as it should.             *)
LEMMA SetAutoMergeFollow ==
  ASSUME Typed, Fit(grid), SetAutoMerge
  PROVE  Follow
<1> DEFINE g == [grid EXCEPT !.autoMerge = ~@]
<1>1. PICK q \in Listings(Visible) : grid' = load(g, q)
  BY DEF SetAutoMerge
<1>2. Visible \in SUBSET Items
  BY DEF Visible, Typed
<1>3. q \in Seq(Items) /\ IsInjective(q) /\ Range(q) = Visible
  BY <1>2, ListingsLemma
<1>4. IsGrid(grid) /\ grid.size \in Sizes /\ grid.autoArrange \in BOOLEAN /\ SavedFits(grid)
  BY FitGrid DEF Fit
<1>5. /\ IsGrid(g) /\ g.size = grid.size /\ g.autoArrange = grid.autoArrange
      /\ g.saved = grid.saved /\ g.autoMerge \in BOOLEAN
  BY <1>4 DEF IsGrid
<1> HIDE DEF g
<1>6. SavedFits(g)
  BY <1>4, <1>5 DEF SavedFits
<1>7. \A j : contains(grid', j) <=> j \in Visible
  BY <1>1, <1>3, <1>4, <1>5, <1>6, LoadLemma
<1>8. UNCHANGED <<files, showHidden>>
  BY DEF SetAutoMerge
<1>9. Visible' = Visible
  BY <1>8 DEF Visible
<1> QED BY <1>7, <1>8, <1>9, VisibleIsFile DEF Follow, StaysShown, NoneOfGone

(* Ctrl+H takes and gives icons as it should.                              *)
LEMMA ToggleHiddenFollow ==
  ASSUME Typed, Fit(grid), ToggleHidden
  PROVE  Follow
<1> DEFINE listed == {i \in files : ~showHidden \/ i \notin Hidden}
           range == rangeItems(grid)
           T == {k \in DOMAIN range : range[k] \notin listed}
           gone == Values(range, T)
           new == {i \in listed : ~contains(grid, i)}
<1>1. PICK q \in Listings(new) : grid' = Settled(removeAll(addAll(grid, q, ~showHidden), gone))
  BY DEF ToggleHidden
<1> DEFINE f == addAll(grid, q, ~showHidden)
           h == removeAll(f, gone)
<1>2. Valid(grid) /\ SavedShown(grid) /\ IsGrid(grid) /\ Sound(grid)
  BY FitGrid DEF Fit
<1>3. new \in SUBSET Items /\ \A i \in new : ~contains(grid, i) /\ i \in files
  BY DEF Typed
<1>a. UNCHANGED files /\ Visible' = listed
  BY DEF ToggleHidden, Visible
<1> HIDE DEF new
<1>4. /\ q \in Seq(Items) /\ IsInjective(q) /\ Range(q) = new
  BY <1>3, ListingsLemma
<1>5. range \in Seq(Items)
  BY <1>2, RangeItemsLemma
<1> HIDE DEF listed, range
<1>6. gone \in Seq(Items) /\ \A i \in Range(gone) : i \notin listed
  <2>1. T \in SUBSET Nat /\ IsFiniteSet(T)
    <3>1. T \subseteq 1 .. Len(range) /\ Len(range) \in Nat
      BY <1>5
    <3>2. IsFiniteSet(1 .. Len(range))
      BY <3>1, FS_Interval
    <3>3. IsFiniteSet(T)
      BY <3>1, <3>2, FS_Subset
    <3> QED BY <3>1, <3>3
  <2>2. \A k \in T : range[k] \in Items /\ range[k] \notin listed
    BY <1>5
  <2> HIDE DEF T
  <2>3. gone \in Seq(Items) /\ Range(gone) = {range[k] : k \in T}
    BY <2>1, <2>2, ValuesInOrder
  <2> HIDE DEF gone
  <2> QED BY <2>2, <2>3
<1> HIDE DEF gone
<1>7. /\ SavedShown(f) /\ Valid(f) /\ IsGrid(f)
      /\ \A j : contains(f, j) => contains(grid, j) \/ j \in Range(q)
      /\ \A j : contains(grid, j) => contains(f, j)
  <2>1. Len(q) \in Nat /\ \A k \in 1 .. Len(q) : ~contains(grid, q[k])
    BY <1>3, <1>4 DEF Range
  <2> QED BY <1>2, <1>4, <2>1, AddAllLemma
<1> HIDE DEF f
<1>8. /\ SavedShown(h) /\ Valid(h)
      /\ \A j : contains(h, j) <=> contains(f, j) /\ j \notin Range(gone)
  <2>1. Len(gone) \in Nat
    BY <1>6
  <2> QED BY <1>6, <1>7, <2>1, RemoveAllLemma
<1>9. grid' = Settled(h)
  BY <1>1 DEF f
<1> HIDE DEF h
<1>10. \A j : contains(grid', j) <=> contains(h, j)
  BY <1>8, <1>9, SettledLemma
<1>11. NoneOfGone
  BY <1>3, <1>4, <1>7, <1>8, <1>10, <1>a DEF NoneOfGone
<1>12. StaysShown
  BY <1>6, <1>7, <1>8, <1>10, <1>a DEF StaysShown
<1> QED BY <1>11, <1>12 DEF Follow

(* A sort takes and gives icons as it should.                              *)
LEMMA ResortFollow ==
  ASSUME Typed, Fit(grid), Resort
  PROVE  Follow
<1>1. PICK q \in Listings(Visible) : grid' = reArrange(addAll(clear(grid), q, showHidden))
  BY DEF Resort
<1> DEFINE e == clear(grid)
           f == addAll(e, q, showHidden)
<1>2. Visible \in SUBSET Items /\ \A i \in Visible : ~(i \in Hidden /\ ~showHidden)
  BY DEF Visible, Typed
<1>3. q \in Seq(Items) /\ IsInjective(q) /\ Range(q) = Visible
  BY <1>2, ListingsLemma
<1>4. Valid(e) /\ SameSettings(grid, e) /\ \A j : ~contains(e, j)
  BY ClearLemma DEF Fit
<1> HIDE DEF e
<1>5. /\ Valid(f)
      /\ \A j : contains(f, j) <=> j \in Visible
  <2>1. Len(q) \in Nat /\ \A k \in 1 .. Len(q) : ~contains(e, q[k])
    BY <1>3, <1>4
  <2>2. /\ Valid(f)
        /\ \A j : contains(f, j) => contains(e, j) \/ j \in Range(q)
        /\ \A j \in Range(q) : ~(j \in Hidden /\ ~showHidden) => contains(f, j)
    BY <1>3, <1>4, <2>1, FitGrid, AddAllLemma
  <2> QED BY <1>2, <1>3, <1>4, <2>2
<1>6. grid' = reArrange(f)
  BY <1>1 DEF e
<1> HIDE DEF f
<1>7. \A j : contains(grid', j) <=> j \in Visible
  BY <1>5, <1>6, FitGrid, ReArrangeLemma
<1>8. UNCHANGED <<files, showHidden>>
  BY DEF Resort
<1>9. Visible' = Visible
  BY <1>8 DEF Visible
<1> QED BY <1>7, <1>8, <1>9, VisibleIsFile DEF Follow, StaysShown, NoneOfGone

(* An icon of a file that stays visible goes away only when the grid gets  *)
(* another size while icons overlap, or when it or a new one is moved on a *)
(* crowded desktop; and only the late move of a new file gives an icon to  *)
(* a file that is gone, on the same condition.                             *)
THEOREM GridIconsFollowFiles ==
  ASSUME ~LateEvents
  PROVE  Spec => IconsFollowFiles
<1> DEFINE Followed ==
      /\ \A i \in Visible' :
           contains(grid, i) => \/ contains(grid', i)
                                \/ grid.over # <<>> /\ grid'.size # grid.size
                                \/ Crowded /\ DropEvent
                                \/ Crowded /\ \E p \in Points(grid.size) : NewFileByInternal(p)
      /\ \A i \in Items \ files' :
           contains(grid', i) => (contains(grid, i) /\ i \notin files) \/ i = fresh
<1>1. GridInv /\ [Next]_vars => [Followed]_vars
  <2> SUFFICES ASSUME GridInv, Next PROVE Followed
    BY DEF vars
  <2>1. Fit(grid) /\ Typed
    BY DEF GridInv, Next, Fit, Valid, Inside, InsideGrid, Typed
  <2>2. ASSUME NoneOfGone,
               \/ StaysShown
               \/ grid.over # <<>> /\ grid'.size # grid.size
               \/ Crowded /\ DropEvent
               \/ Crowded /\ \E p \in Points(grid.size) : NewFileByInternal(p)
        PROVE  Followed
    BY <2>2 DEF NoneOfGone, StaysShown
  <2>3. CASE \E i \in Items : ItemCreated(i) \/ ItemCreatedAgain(i) \/ ItemDeleted(i)
    BY <2>1, <2>2, <2>3, CreatedFollow, ItemDeletedFollow DEF Follow
  <2>4. CASE \E i, j \in Items : FileMoved(i, j)
    BY <2>1, <2>2, <2>4, FileMovedFollow DEF Follow
  <2>5. CASE \E p \in Points(grid.size) : NewFileByInternal(p)
    BY <2>1, <2>2, <2>5, NewFileFollow
  <2>6. CASE DropEvent
    BY <2>1, <2>2, <2>6, DropFollow
  <2>7. CASE \E s \in Sizes : UpdateGridSize(s)
    BY <2>1, <2>2, <2>7, UpdateFollow
  <2>8. CASE ToggleArrange
    BY <2>1, <2>2, <2>8, ToggleArrangeFollow DEF Follow
  <2>9. CASE SetAutoMerge
    BY <2>1, <2>2, <2>9, SetAutoMergeFollow DEF Follow
  <2>10. CASE ToggleHidden
    BY <2>1, <2>2, <2>10, ToggleHiddenFollow DEF Follow
  <2>11. CASE Resort
    BY <2>1, <2>2, <2>11, ResortFollow DEF Follow
  <2> HIDE DEF Followed
  <2> QED BY <2>3, <2>4, <2>5, <2>6, <2>7, <2>8, <2>9, <2>10, <2>11 DEF Next
<1>2. IconsFollowFiles <=> [][Followed]_vars
  BY DEF IconsFollowFiles
<1> HIDE DEF Followed
<1> QED
  BY <1>1, <1>2, GridInvariant, PTL DEF Spec

(* No handler writes behind the grid while no icons overlap: the icons     *)
(* that PositionsOnGrid finds there come from a change of the size with    *)
(* overlapping ones, and only from there, on the same condition.           *)
THEOREM GridLeftOnlyByOverlap ==
  ASSUME ~LateEvents
  PROVE  Spec => [][grid.over = <<>> => InsideGrid']_vars
<1> DEFINE Leaves == grid.over = <<>> => InsideGrid'
<1>1. GridInv /\ [Next]_vars => [Leaves]_vars
  <2> SUFFICES ASSUME GridInv, Next, grid.over = <<>> PROVE InsideGrid'
    BY DEF vars
  <2>1. Fit(grid) /\ Typed
    BY DEF GridInv, Next, Fit, Valid, Inside, InsideGrid, Typed
  <2>2. CASE \E s \in Sizes : UpdateGridSize(s)
    <3>1. PICK s \in Sizes : grid' = updateGridSize(grid, s)
      BY <2>2 DEF UpdateGridSize
    <3>2. Inside(grid')
      BY <2>1, <3>1, UpdateLemma
    <3> QED BY <3>2 DEF Inside, InsideGrid
  <2>3. CASE ~\E s \in Sizes : UpdateGridSize(s)
    <3>1. StaysFit
      BY <2>3, GridStep
    <3> QED BY <3>1 DEF StaysFit, Fit, Valid, Inside, InsideGrid
  <2> QED BY <2>2, <2>3
<1> HIDE DEF Leaves
<1>2. Spec => [][Leaves]_vars
  BY <1>1, GridInvariant, PTL DEF Spec
<1> QED BY <1>2 DEF Leaves
=============================================================================
