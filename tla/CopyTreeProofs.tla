--------------------------- MODULE CopyTreeProofs ---------------------------
(***************************************************************************)
(* Proofs about CopyTree: that the walk takes every entry once and passes  *)
(* over none, that a move loses nothing and a copy replaces nothing the    *)
(* user did not agree to.                                                  *)
(*                                                                         *)
(* The first part is about trees.  The directories above an entry are a    *)
(* smallest closed set, so what would be an induction along the path to    *)
(* the source is a closed set here: the entries of which the fact holds.   *)
(***************************************************************************)
EXTENDS CopyTree, SequenceTheorems, TLAPS

-----------------------------------------------------------------------------
(* The tree.                                                               *)

(* A set of entries that has the directory of n and of each of its members *)
(* has all that is above n.                                                *)
LEMMA AboveIsLeast ==
  ASSUME NEW n \in Nodes, NEW S \in SUBSET Nodes,
         \A m \in S \union {n} : Parent[m] \in S \union {Top}
  PROVE  Above[n] \subseteq S
  BY DEF Above

(* What is above n is such a set.                                          *)
LEMMA AboveIsClosed ==
  ASSUME NEW n \in Nodes, NEW m \in Above[n] \union {n}
  PROVE  Above[n] \subseteq Nodes /\ Parent[m] \in Above[n] \union {Top}
<1>1. Above[n] \subseteq Nodes /\ m \in Nodes
  BY DEF Above
<1>2. ASSUME Parent[m] # Top, NEW S \in SUBSET Nodes,
             \A k \in S \union {n} : Parent[k] \in S \union {Top}
      PROVE  Parent[m] \in S
  <2>1. m \in S \union {n}
    BY <1>2, AboveIsLeast
  <2> QED
    BY <1>2, <2>1
<1>3. Parent[m] # Top => Parent[m] \in Above[n]
  BY <1>1, <1>2, CopyTreeAssumption DEF Above
<1> QED
  BY <1>1, <1>3

(* Above is transitive.                                                    *)
LEMMA AboveGoesOn ==
  ASSUME NEW n \in Nodes, NEW a \in Above[n]
  PROVE  Above[a] \subseteq Above[n]
<1> DEFINE S == Above[n]
<1>1. a \in Nodes /\ S \in SUBSET Nodes
  BY AboveIsClosed
<1>2. \A m \in S \union {a} : Parent[m] \in S \union {Top}
  BY AboveIsClosed
<1> HIDE DEF S
<1>3. Above[a] \subseteq S
  BY <1>1, <1>2, AboveIsLeast
<1> QED
  BY <1>3 DEF S

(* Above an entry are its directory and what is above that.                *)
LEMMA AboveUnfolds ==
  ASSUME NEW n \in Nodes
  PROVE  /\ Parent[n] = Top => Above[n] = {}
         /\ Parent[n] # Top =>
              /\ Parent[n] \in Nodes
              /\ Above[n] = {Parent[n]} \union Above[Parent[n]]
<1>1. CASE Parent[n] = Top
  <2> DEFINE S == {}
  <2>1. S \in SUBSET Nodes /\ \A m \in S \union {n} : Parent[m] \in S \union {Top}
    BY <1>1
  <2> HIDE DEF S
  <2>2. Above[n] \subseteq S
    BY <2>1, AboveIsLeast
  <2> QED
    BY <1>1, <2>2 DEF S
<1>2. CASE Parent[n] # Top
  <2> DEFINE p == Parent[n]
             S == {p} \union Above[p]
  <2>1. p \in Nodes /\ p \in Above[n]
    BY <1>2, CopyTreeAssumption, AboveIsClosed
  <2>2. \A m \in S : Parent[m] \in S \union {Top}
    BY <2>1, AboveIsClosed
  <2>3. S \in SUBSET Nodes
    BY <2>1, AboveIsClosed
  <2>4. \A m \in S \union {n} : Parent[m] \in S \union {Top}
    BY <2>2
  <2>5. Above[n] \subseteq S
    BY <2>3, <2>4, AboveIsLeast
  <2> QED
    BY <1>2, <2>1, <2>5, AboveGoesOn
<1> QED
  BY <1>1, <1>2

(* Nothing is above itself: the path to a source would not end.            *)
LEMMA NothingAboveItself ==
  ASSUME NEW n \in Nodes
  PROVE  n \notin Above[n]
<1> SUFFICES ASSUME n \in Above[n] PROVE FALSE
  OBVIOUS
<1> DEFINE S == {m \in Above[n] : n \in Above[m]}
<1>1. ASSUME NEW m \in Nodes, n \in Above[m], m \in Above[n]
      PROVE  Parent[m] \in S
  <2>1. Parent[m] # Top /\ (Parent[m] = n \/ n \in Above[Parent[m]])
    BY <1>1, AboveUnfolds
  <2>2. Parent[m] \in Above[n]
    BY <1>1, <2>1, AboveIsClosed
  <2> QED
    BY <2>1, <2>2
<1>2. n \in S /\ S \in SUBSET Nodes
  BY AboveIsClosed
<1>3. \A m \in S \union {n} : Parent[m] \in S
  BY <1>1, <1>2
<1>4. Above[n] \subseteq S
  BY <1>2, <1>3, AboveIsLeast
<1>5. PICK a \in Above[n] \union {n} : Parent[a] = Top
  BY EntriesHaveSources
<1> QED
  BY <1>2, <1>3, <1>4, <1>5, CopyTreeAssumption

(* Of two entries on one path one is above the other.                      *)
LEMMA PathsAreChains ==
  ASSUME NEW n \in Nodes,
         NEW a \in Above[n] \union {n}, NEW b \in Above[n] \union {n}
  PROVE  a = b \/ a \in Above[b] \/ b \in Above[a]
<1>1. a \in Nodes /\ b \in Nodes
  BY AboveIsClosed
<1> DEFINE S == {m \in Nodes : m = b \/ m \in Above[b] \/ b \in Above[m]}
<1>2. ASSUME NEW m \in S PROVE Parent[m] \in S \union {Top}
  <2>1. CASE m = b \/ m \in Above[b]
    BY <1>1, <2>1, AboveIsClosed
  <2>2. CASE b \in Above[m]
    BY <2>2, AboveUnfolds
  <2> QED
    BY <2>1, <2>2
<1>3. n \in S /\ S \in SUBSET Nodes
  OBVIOUS
<1>4. \A m \in S \union {n} : Parent[m] \in S \union {Top}
  BY <1>2, <1>3
<1>5. Above[n] \subseteq S
  BY <1>3, <1>4, AboveIsLeast
<1> QED
  BY <1>3, <1>5

(* Only directories have something below them.                             *)
LEMMA DirectoriesAreAbove ==
  ASSUME NEW n \in Nodes
  PROVE  \A a \in Above[n] : Kind[a] = "dir"
<1> DEFINE S == {m \in Nodes : Kind[m] = "dir"}
<1>1. \A m \in S \union {n} : Parent[m] \in S \union {Top}
  BY CopyTreeAssumption
<1>2. S \in SUBSET Nodes
  OBVIOUS
<1>3. Above[n] \subseteq S
  BY <1>1, <1>2, AboveIsLeast
<1> QED
  BY <1>3

(* What is below a directory is one of its entries or below one.           *)
LEMMA BelowAnEntry ==
  ASSUME NEW n \in Nodes, NEW a \in Above[n]
  PROVE  \E c \in Nodes : Parent[c] = a /\ (c = n \/ c \in Above[n])
<1> DEFINE S == {m \in Above[n] : \E c \in Above[n] \union {n} : Parent[c] = m}
<1>1. ASSUME NEW m \in Above[n] \union {n} PROVE Parent[m] \in S \union {Top}
  BY AboveIsClosed
<1>2. Above[n] \subseteq Nodes
  BY AboveIsClosed
<1>3. S \in SUBSET Nodes
  BY <1>2
<1>4. \A m \in S \union {n} : Parent[m] \in S \union {Top}
  BY <1>1
<1> HIDE DEF S
<1>5. Above[n] \subseteq S
  BY <1>3, <1>4, AboveIsLeast
<1>6. PICK c \in Above[n] \union {n} : Parent[c] = a
  BY <1>5 DEF S
<1> QED
  BY <1>2, <1>6

(* The entries of a directory are not above each other, and it is above    *)
(* none of those above it.                                                 *)
LEMMA EntriesApart ==
  ASSUME NEW d \in Nodes, NEW c \in Children(d)
  PROVE  /\ c # d /\ c \notin Above[d] /\ d \in Above[c]
         /\ Above[c] = {d} \union Above[d]
         /\ \A e \in Children(d) : c \notin Above[e]
<1>1. c \in Nodes /\ Parent[c] = d /\ d # Top
  BY CopyTreeAssumption DEF Children
<1>2. Above[c] = {d} \union Above[d]
  BY <1>1, AboveUnfolds
<1>3. c \notin Above[c]
  BY <1>1, NothingAboveItself
<1>4. ASSUME NEW e \in Children(d) PROVE Above[e] = {d} \union Above[d]
  BY <1>1, AboveUnfolds DEF Children
<1> QED
  BY <1>2, <1>3, <1>4

-----------------------------------------------------------------------------
(* The stack.                                                              *)

(* A frame that is pushed.                                                 *)
LEMMA Pushed ==
  ASSUME NEW s \in Seq(Frames), NEW f \in Frames
  PROVE  /\ <<f>> \o s \in Seq(Frames) /\ <<f>> \o s # <<>>
         /\ Len(<<f>> \o s) = Len(s) + 1
         /\ (<<f>> \o s)[1] = f
         /\ \A i \in 1..Len(s) : (<<f>> \o s)[i + 1] = s[i]
<1>1. Len(<<f>>) = 1 /\ <<f>>[1] = f /\ <<f>> \in Seq(Frames)
  OBVIOUS
<1> QED
  BY <1>1

(* The frames below the top.                                               *)
LEMMA Popped ==
  ASSUME NEW s \in Seq(Frames), s # <<>>
  PROVE  /\ Tail(s) \in Seq(Frames)
         /\ Len(s) \in Nat \ {0} /\ Len(Tail(s)) = Len(s) - 1
         /\ Head(s) = s[1] /\ Head(s) \in Frames
         /\ \A i \in 1..Len(s) : s[i] \in Frames
         /\ \A i \in 1..Len(s) - 1 : Tail(s)[i] = s[i + 1]
  OBVIOUS

(* A frame that replaces the top.                                          *)
LEMMA Replaced ==
  ASSUME NEW s \in Seq(Frames), s # <<>>, NEW f \in Frames
  PROVE  /\ <<f>> \o Tail(s) \in Seq(Frames) /\ <<f>> \o Tail(s) # <<>>
         /\ Len(<<f>> \o Tail(s)) = Len(s)
         /\ (<<f>> \o Tail(s))[1] = f
         /\ \A i \in 2..Len(s) : (<<f>> \o Tail(s))[i] = s[i]
<1>1. /\ Tail(s) \in Seq(Frames)
      /\ Len(s) \in Nat \ {0} /\ Len(Tail(s)) = Len(s) - 1
      /\ \A i \in 1..Len(s) - 1 : Tail(s)[i] = s[i + 1]
  BY Popped
<1>2. ASSUME NEW i \in 2..Len(s) PROVE (<<f>> \o Tail(s))[i] = s[i]
  <2>1. i - 1 \in 1..Len(Tail(s)) /\ i = (i - 1) + 1 /\ i - 1 \in 1..Len(s) - 1
    BY <1>1
  <2>2. (<<f>> \o Tail(s))[(i - 1) + 1] = Tail(s)[i - 1]
    BY <1>1, <2>1, Pushed
  <2>3. Tail(s)[i - 1] = s[(i - 1) + 1]
    BY <1>1, <2>1
  <2> QED
    BY <2>1, <2>2, <2>3
<1> QED
  BY <1>1, <1>2, Pushed

-----------------------------------------------------------------------------
(* Where the walk is.                                                      *)

Active   == pc \notin {"loop", "finished", "failed"}
Entering == pc \in {"process", "place", "transfer", "copying", "mkdir",
                    "mkdirAgain", "enter"}

(* The stack is the path from a source to the directory being merged, and   *)
(* what is left to do in each frame are entries of its directory.          *)
FramesOK ==
  \A i \in 1..Len(stack) :
    /\ stack[i].dir = Top <=> i = Len(stack)
    /\ stack[i].dir # Top => Kind[stack[i].dir] = "dir"
    /\ stack[i].todo \subseteq Children(stack[i].dir)
    /\ i < Len(stack) => Parent[stack[i].dir] = stack[i + 1].dir
    /\ \A j \in 1..Len(stack) : i < j =>
         stack[j].dir \in Above[stack[i].dir] \union {Top}

StackOK == FramesOK /\ (Active => Parent[cur] = Head(stack).dir)

(* What is left to do in the frame on top, and in those below it.          *)
Here   == Head(stack).todo
Rest   == UNION {stack[i].todo : i \in 2..Len(stack)}
Opened == {stack[i].dir : i \in 1..Len(stack)} \ {Top}

(* What doProcess() knows of an entry at each of its places.               *)
PlaceOK ==
  /\ pc \in {"mkdir", "mkdirAgain", "enter"} => Kind[cur] = "dir"
  /\ pc \in {"transfer", "copying"} => Kind[cur] # "dir"
  /\ pc \in {"place", "transfer", "copying", "mkdir", "mkdirAgain"} =>
       mode # "delete"
  /\ pc \in {"place", "transfer", "copying"} =>
       Occupant(cur) = "none" \/ cur \in agreed
  /\ pc \in {"transfer", "copying"} /\ mode = "copy" /\ Kind[cur] = "file" =>
       Occupant(cur) # "link" \/ cur \in skipped

Places == {"loop", "process", "place", "transfer", "copying", "mkdir",
           "mkdirAgain", "enter", "remove", "return", "finished", "failed"}

(* A question keeps the types.                                             *)
LEMMA AskTyped ==
  ASSUME TypeOK, cur \in Nodes,
         NEW retry \in Places, NEW skip \in Places, Ask(retry, skip)
  PROVE  /\ pc' \in Places /\ lastErrorHandleAction' \in Actions
         /\ faults' \in 0..MaxFaults
         /\ reported' \subseteq Nodes /\ agreed' \subseteq Nodes
         /\ skipped' \subseteq Nodes
<1>1. faults' \in 0..MaxFaults
  BY CopyTreeAssumption DEF TypeOK, Ask
<1>2. pc' \in Places /\ lastErrorHandleAction' \in Actions
  BY DEF Ask, Places, Actions
<1> QED
  BY <1>1, <1>2 DEF TypeOK, Ask

TypeInv == TypeOK /\ StackOK

(* The stack, frame by frame.                                              *)
LEMMA FramesTyped ==
  ASSUME TypeOK
  PROVE  /\ stack \in Seq(Frames) /\ stack # <<>> /\ Len(stack) \in Nat \ {0}
         /\ Head(stack) = stack[1] /\ 1 \in 1..Len(stack)
         /\ \A i \in 1..Len(stack) :
              /\ stack[i] \in Frames /\ stack[i].dir \in Nodes \union {Top}
              /\ stack[i].todo \subseteq Nodes /\ stack[i].skip \in {"yes", "no"}
<1>1. stack \in Seq(Frames) /\ stack # <<>>
  BY DEF TypeOK
<1>2. /\ Len(stack) \in Nat \ {0} /\ Head(stack) = stack[1]
      /\ \A i \in 1..Len(stack) : stack[i] \in Frames
  BY <1>1, Popped
<1> QED
  BY <1>1, <1>2 DEF Frames

(* The frame on top is replaced by one of the same directory.              *)
LEMMA TopReplaced ==
  ASSUME TypeInv, NEW f \in Frames, stack' = <<f>> \o Tail(stack),
         f.dir = Head(stack).dir, f.todo \subseteq Head(stack).todo
  PROVE  /\ stack' \in Seq(Frames) /\ stack' # <<>> /\ Len(stack') = Len(stack)
         /\ Head(stack') = f /\ stack'[1] = f
         /\ \A i \in 2..Len(stack) : stack'[i] = stack[i]
         /\ FramesOK' /\ UNCHANGED <<Rest, Opened>>
<1>t. /\ stack \in Seq(Frames) /\ stack # <<>> /\ Len(stack) \in Nat \ {0}
      /\ Head(stack) = stack[1]
  BY FramesTyped DEF TypeInv
<1>1. /\ stack' \in Seq(Frames) /\ stack' # <<>> /\ Len(stack') = Len(stack)
      /\ stack'[1] = f
      /\ \A i \in 2..Len(stack) : stack'[i] = stack[i]
  BY <1>t, Replaced
<1>2. Head(stack') = f
  BY <1>1, Popped
<1>3. \A i \in 1..Len(stack) : /\ stack'[i].dir = stack[i].dir
                              /\ stack'[i].todo \subseteq stack[i].todo
  BY <1>t, <1>1
<1>4. FramesOK'
  <2> SUFFICES ASSUME NEW i \in 1..Len(stack)
               PROVE  /\ stack'[i].dir = Top <=> i = Len(stack)
                      /\ stack'[i].dir # Top => Kind[stack'[i].dir] = "dir"
                      /\ stack'[i].todo \subseteq Children(stack'[i].dir)
                      /\ i < Len(stack) =>
                           Parent[stack'[i].dir] = stack'[i + 1].dir
                      /\ \A j \in 1..Len(stack) : i < j =>
                           stack'[j].dir \in Above[stack'[i].dir] \union {Top}
    BY <1>1 DEF FramesOK
  <2>1. i < Len(stack) => i + 1 \in 1..Len(stack)
    BY <1>t
  <2> QED
    BY <1>3, <2>1 DEF TypeInv, StackOK, FramesOK
<1>5. Rest' = Rest
  BY <1>1 DEF Rest
<1>6. Opened' = Opened
  BY <1>1, <1>3 DEF Opened
<1> QED
  BY <1>1, <1>2, <1>4, <1>5, <1>6

(* A frame is pushed for the directory that is entered.                    *)
LEMMA TopPushed ==
  ASSUME TypeInv, cur \in Nodes, Active, Kind[cur] = "dir",
         NEW f \in Frames, stack' = <<f>> \o stack,
         f.dir = cur, f.todo \subseteq Children(cur)
  PROVE  /\ stack' \in Seq(Frames) /\ stack' # <<>>
         /\ Len(stack') = Len(stack) + 1
         /\ Head(stack') = f /\ stack'[1] = f
         /\ \A i \in 1..Len(stack) : stack'[i + 1] = stack[i]
         /\ FramesOK'
         /\ Rest' = Here \union Rest /\ Opened' = Opened \union {cur}
<1>t. /\ stack \in Seq(Frames) /\ stack # <<>> /\ Len(stack) \in Nat \ {0}
      /\ Head(stack) = stack[1] /\ Parent[cur] = stack[1].dir
  BY FramesTyped DEF TypeInv, StackOK
<1>1. /\ stack' \in Seq(Frames) /\ stack' # <<>> /\ Len(stack') = Len(stack) + 1
      /\ stack'[1] = f
      /\ \A i \in 1..Len(stack) : stack'[i + 1] = stack[i]
  BY <1>t, Pushed
<1>2. Head(stack') = f
  BY <1>1, Popped
<1>3. \A i \in 1..Len(stack') : i = 1 \/ (i - 1 \in 1..Len(stack)
                                        /\ stack'[i] = stack[i - 1])
  <2> SUFFICES ASSUME NEW i \in 1..Len(stack'), i # 1
               PROVE  i - 1 \in 1..Len(stack) /\ stack'[i] = stack[i - 1]
    OBVIOUS
  <2>1. i - 1 \in 1..Len(stack) /\ (i - 1) + 1 = i
    BY <1>t, <1>1
  <2> QED
    BY <1>1, <2>1
<1>4. cur # Top
  BY CopyTreeAssumption
<1>5. ASSUME NEW j \in 1..Len(stack)
      PROVE  stack[j].dir \in Above[cur] \union {Top}
  <2>1. CASE j = 1
    BY <1>t, <2>1, AboveUnfolds
  <2>2. CASE j # 1 /\ stack[j].dir # Top
    <3>1. 1 \in 1..Len(stack) /\ 1 < j
      BY <1>t, <2>2
    <3>2. stack[1].dir # Top /\ stack[j].dir \in Above[stack[1].dir]
      BY <1>t, <2>2, <3>1 DEF TypeInv, StackOK, FramesOK
    <3> QED
      BY <1>t, <3>2, AboveUnfolds
  <2> QED
    BY <2>1, <2>2
<1>6. FramesOK'
  <2> SUFFICES ASSUME NEW i \in 1..Len(stack')
               PROVE  /\ stack'[i].dir = Top <=> i = Len(stack')
                      /\ stack'[i].dir # Top => Kind[stack'[i].dir] = "dir"
                      /\ stack'[i].todo \subseteq Children(stack'[i].dir)
                      /\ i < Len(stack') =>
                           Parent[stack'[i].dir] = stack'[i + 1].dir
                      /\ \A j \in 1..Len(stack') : i < j =>
                           stack'[j].dir \in Above[stack'[i].dir] \union {Top}
    BY DEF FramesOK
  <2>1. CASE i = 1
    <3>1. 1 \in 1..Len(stack) /\ stack'[1 + 1] = stack[1]
      BY <1>t, <1>1
    <3>2. \A j \in 1..Len(stack') : i < j =>
            stack'[j].dir \in Above[cur] \union {Top}
      BY <1>3, <1>5, <2>1
    <3> QED
      BY <1>t, <1>1, <1>4, <2>1, <3>1, <3>2
  <2>2. CASE i # 1
    <3> DEFINE k == i - 1
    <3>1. k \in 1..Len(stack) /\ stack'[i] = stack[k] /\ i = k + 1
      BY <1>3, <2>2
    <3>2. i = Len(stack') <=> k = Len(stack)
      BY <1>t, <1>1, <3>1
    <3>3. i < Len(stack') => k < Len(stack) /\ stack'[i + 1] = stack[k + 1]
      <4> SUFFICES ASSUME i < Len(stack')
                   PROVE  k < Len(stack) /\ stack'[i + 1] = stack[k + 1]
        OBVIOUS
      <4>1. k + 1 \in 1..Len(stack)
        BY <1>t, <1>1, <3>1
      <4> QED
        BY <1>1, <3>1, <4>1
    <3>4. ASSUME NEW j \in 1..Len(stack'), i < j
          PROVE  stack'[j].dir \in Above[stack[k].dir] \union {Top}
      <4>1. j - 1 \in 1..Len(stack) /\ stack'[j] = stack[j - 1] /\ k < j - 1
        BY <1>3, <3>1, <3>4
      <4> QED
        BY <3>1, <4>1 DEF TypeInv, StackOK, FramesOK
    <3> QED
      BY <3>1, <3>2, <3>3, <3>4 DEF TypeInv, StackOK, FramesOK
  <2> QED
    BY <2>1, <2>2
<1>7. Rest' = Here \union Rest
  <2>1. ASSUME NEW n \in Rest' PROVE n \in Here \union Rest
    <3>1. PICK i \in 2..Len(stack') : n \in stack'[i].todo
      BY <2>1 DEF Rest
    <3>2. i - 1 \in 1..Len(stack) /\ n \in stack[i - 1].todo
      BY <1>1, <1>3, <3>1
    <3> QED
      BY <1>t, <3>2 DEF Here, Rest
  <2>2. ASSUME NEW i \in 1..Len(stack) PROVE stack[i].todo \subseteq Rest'
    <3>1. i + 1 \in 2..Len(stack')
      BY <1>t, <1>1
    <3> QED
      BY <1>1, <3>1 DEF Rest
  <2>3. Here \subseteq Rest'
    BY <1>t, <2>2 DEF Here
  <2>4. ASSUME NEW n \in Rest PROVE n \in Rest'
    <3>1. PICK i \in 2..Len(stack) : n \in stack[i].todo
      BY <2>4 DEF Rest
    <3>2. i \in 1..Len(stack)
      BY <1>t
    <3> QED
      BY <2>2, <3>1, <3>2
  <2> QED
    BY <2>1, <2>3, <2>4
<1>8. Opened' = Opened \union {cur}
  <2>1. ASSUME NEW d \in Opened' PROVE d \in Opened \union {cur}
    BY <1>1, <1>3, <2>1 DEF Opened
  <2>2. ASSUME NEW i \in 1..Len(stack), stack[i].dir # Top
        PROVE  stack[i].dir \in Opened'
    <3>1. i + 1 \in 1..Len(stack')
      BY <1>t, <1>1
    <3> QED
      BY <1>1, <2>2, <3>1 DEF Opened
  <2>3. cur \in Opened'
    <3>1. 1 \in 1..Len(stack')
      BY <1>t, <1>1
    <3> QED
      BY <1>1, <1>4, <3>1 DEF Opened
  <2> QED
    BY <2>1, <2>2, <2>3 DEF Opened
<1> QED
  BY <1>1, <1>2, <1>6, <1>7, <1>8

(* The frame on top is left.                                               *)
LEMMA TopLeft ==
  ASSUME TypeInv, Len(stack) > 1, stack' = Tail(stack)
  PROVE  /\ stack' \in Seq(Frames) /\ stack' # <<>>
         /\ Len(stack') = Len(stack) - 1
         /\ Head(stack).dir \in Opened /\ Head(stack).dir \in Nodes
         /\ Parent[Head(stack).dir] = Head(stack').dir
         /\ \A i \in 1..Len(stack') : stack'[i] = stack[i + 1]
         /\ FramesOK'
         /\ Here' \union Rest' = Rest
         /\ Opened' \subseteq Opened
         /\ Opened \subseteq Opened' \union {Head(stack).dir}
<1>t. /\ stack \in Seq(Frames) /\ stack # <<>> /\ Len(stack) \in Nat \ {0}
      /\ Head(stack) = stack[1]
      /\ \A i \in 1..Len(stack) : stack[i].dir \in Nodes \union {Top}
  BY FramesTyped DEF TypeInv
<1>1. /\ stack' \in Seq(Frames) /\ Len(stack') = Len(stack) - 1
      /\ \A i \in 1..Len(stack') : stack'[i] = stack[i + 1]
  BY <1>t, Popped
<1>2. stack' # <<>> /\ 1 \in 1..Len(stack')
  BY <1>t, <1>1
<1>3. Head(stack') = stack[2]
  BY <1>1, <1>2, Popped
<1>4. 1 \in 1..Len(stack) /\ stack[1].dir # Top /\ stack[1].dir \in Nodes
      /\ Parent[stack[1].dir] = stack[2].dir
  BY <1>t DEF TypeInv, StackOK, FramesOK
<1>5. FramesOK'
  <2> SUFFICES ASSUME NEW i \in 1..Len(stack')
               PROVE  /\ stack'[i].dir = Top <=> i = Len(stack')
                      /\ stack'[i].dir # Top => Kind[stack'[i].dir] = "dir"
                      /\ stack'[i].todo \subseteq Children(stack'[i].dir)
                      /\ i < Len(stack') =>
                           Parent[stack'[i].dir] = stack'[i + 1].dir
                      /\ \A j \in 1..Len(stack') : i < j =>
                           stack'[j].dir \in Above[stack'[i].dir] \union {Top}
    BY DEF FramesOK
  <2>1. i + 1 \in 1..Len(stack) /\ stack'[i] = stack[i + 1]
        /\ (i = Len(stack') <=> i + 1 = Len(stack))
    BY <1>t, <1>1
  <2>2. i < Len(stack') => i + 1 < Len(stack)
                           /\ stack'[i + 1] = stack[(i + 1) + 1]
    BY <1>t, <1>1
  <2>3. ASSUME NEW j \in 1..Len(stack'), i < j
        PROVE  stack'[j].dir \in Above[stack'[i].dir] \union {Top}
    <3>1. j + 1 \in 1..Len(stack) /\ stack'[j] = stack[j + 1] /\ i + 1 < j + 1
      BY <1>t, <1>1, <2>3
    <3> QED
      BY <2>1, <3>1 DEF TypeInv, StackOK, FramesOK
  <2> QED
    BY <2>1, <2>2, <2>3 DEF TypeInv, StackOK, FramesOK
<1>6. Here' \union Rest' = Rest
  <2>1. Here' \union Rest' = UNION {stack'[i].todo : i \in 1..Len(stack')}
    BY <1>1, <1>2, <1>3 DEF Here, Rest
  <2>2. ASSUME NEW n, NEW i \in 1..Len(stack'), n \in stack'[i].todo
        PROVE  n \in Rest
    <3>1. i + 1 \in 2..Len(stack) /\ stack'[i] = stack[i + 1]
      BY <1>t, <1>1
    <3> QED
      BY <2>2, <3>1 DEF Rest
  <2>3. ASSUME NEW n, NEW i \in 2..Len(stack), n \in stack[i].todo
        PROVE  n \in UNION {stack'[k].todo : k \in 1..Len(stack')}
    <3>1. i - 1 \in 1..Len(stack') /\ stack'[i - 1] = stack[(i - 1) + 1]
      BY <1>t, <1>1
    <3> QED
      BY <2>3, <3>1
  <2> QED
    BY <2>1, <2>2, <2>3 DEF Rest
<1>7. Opened' \subseteq Opened
  BY <1>t, <1>1 DEF Opened
<1>8. Opened \subseteq Opened' \union {Head(stack).dir}
  <2> SUFFICES ASSUME NEW i \in 1..Len(stack), i # 1, stack[i].dir # Top
               PROVE  stack[i].dir \in Opened'
    BY <1>t DEF Opened
  <2>1. i - 1 \in 1..Len(stack') /\ stack'[i - 1] = stack[(i - 1) + 1]
        /\ i = (i - 1) + 1
    BY <1>t, <1>1
  <2>2. stack'[i - 1].dir = stack[i].dir
    BY <2>1
  <2> QED
    BY <2>1, <2>2 DEF Opened
<1> QED
  BY <1>t, <1>1, <1>2, <1>3, <1>4, <1>5, <1>6, <1>7, <1>8 DEF Opened

-----------------------------------------------------------------------------
(* Types.                                                                  *)

(* The steps that leave the stack, and the entry in work, alone.           *)
Still ==
  /\ UNCHANGED <<mode, stack, cur>>
  /\ \/ Active /\ pc' \notin {"loop", "finished"}
     \/ pc = "loop" /\ pc' = "failed"
     \/ pc = "loop" /\ pc' = "finished" /\ Here = {} /\ Len(stack) = 1

(* The actions are still steps but for those of the walk and Enter.        *)
Working ==
  \/ Stopped \/ Finish \/ Begin \/ Transfer
  \/ RenameDirectory \/ Merge \/ Mkdir \/ MkdirFails
  \/ Remove \/ RemoveFails
  \/ Enter /\ GoTo("failed") /\ UNCHANGED stack

(* They are: none of them goes to the loop or ends the walk with a frame   *)
(* left.                                                                   *)
LEMMA WorkingIsStill ==
  ASSUME Working
  PROVE  Still
<1> USE DEF Still, Active, Ask, GoTo
<1>1. CASE Stopped \/ Finish
  BY <1>1 DEF Stopped, Finish, Here
<1>2. CASE Begin
  BY <1>2 DEF Begin, Unusable, Delete, Unoccupied, Conflict
<1>3. CASE NoSpace \/ Clear \/ ClearFails \/ NoNeedToClear
  BY <1>3 DEF NoSpace, Clear, ClearFails, NoNeedToClear
<1>4. CASE Rename \/ Transferred \/ NotTransferred \/ Link \/ LinkFails
  BY <1>4 DEF Rename, Transferred, NotTransferred, Link, LinkFails
<1>5. CASE RenameDirectory \/ Merge \/ Mkdir \/ MkdirFails
  BY <1>5 DEF RenameDirectory, Merge, Mkdir, MkdirFails
<1>6. CASE Remove \/ RemoveFails
  BY <1>6 DEF Remove, RemoveFails
<1>7. CASE Enter /\ GoTo("failed") /\ UNCHANGED stack
  BY <1>7 DEF Enter
<1> QED
  BY <1>1, <1>2, <1>3, <1>4, <1>5, <1>6, <1>7 DEF Working, Transfer

(* The parts of a step's types that one action at a time disturbs.         *)
FilesTyped ==
  /\ src \in [Nodes -> {"there", "gone"}]
  /\ foreign \in [Nodes -> {"none", "file", "link", "dir"}]
  /\ made \in [Nodes -> {"nothing", "partial", "whole"}]
  /\ where \in [Nodes -> {"name", "copy"}]
  /\ spoilt \subseteq Nodes

AnswerTyped ==
  /\ pc \in Places /\ lastErrorHandleAction \in Actions
  /\ faults \in 0..MaxFaults
  /\ reported \subseteq Nodes /\ agreed \subseteq Nodes /\ skipped \subseteq Nodes

(* And they keep the types.                                                *)
LEMMA WorkingTyped ==
  ASSUME TypeOK, Working
  PROVE  TypeOK'
<1>1. Still
  BY WorkingIsStill
<1>2. FilesTyped /\ AnswerTyped
  BY DEF TypeOK, FilesTyped, AnswerTyped, Places
<1>3. Active => cur \in Nodes
  BY DEF TypeOK, Active
<1>4. ASSUME NEW retry \in Places, NEW skip \in Places, cur \in Nodes,
             Ask(retry, skip)
      PROVE  AnswerTyped'
  BY <1>4, AskTyped DEF AnswerTyped
<1>5. ASSUME NEW to \in Places, GoTo(to)
      PROVE  AnswerTyped'
  BY <1>2, <1>5 DEF AnswerTyped, GoTo, hist
<1>6. ASSUME cur \in Nodes, NEW c \in {"partial", "whole"}, Fill(c),
             UNCHANGED where, src' \in [Nodes -> {"there", "gone"}]
      PROVE  FilesTyped'
  BY <1>2, <1>6 DEF FilesTyped, Fill
<1>7. UNCHANGED <<files, where>> => FilesTyped'
  BY <1>2 DEF FilesTyped, files
<1>8. FilesTyped' /\ AnswerTyped'
  <2>1. CASE Stopped \/ Finish
    BY <1>5, <1>7, <2>1 DEF Stopped, Finish, Places
  <2>2. CASE Unusable
    BY <1>3, <1>4, <1>7, <2>2 DEF Unusable, Places, Active
  <2>3. CASE Delete \/ Unoccupied
    BY <1>5, <1>7, <2>3 DEF Delete, Unoccupied, Places
  <2>4. CASE Conflict
    <3>1. cur \in Nodes
      BY <1>3, <2>4 DEF Conflict, Active
    <3>2. FilesTyped'
      BY <1>2, <2>4, <3>1 DEF Conflict, FilesTyped, files
    <3>3. AnswerTyped'
      BY <1>2, <2>4, <3>1 DEF Conflict, AnswerTyped, Places, Actions
    <3> QED
      BY <3>2, <3>3
  <2>5. CASE NoSpace \/ ClearFails
    BY <1>3, <1>4, <1>7, <2>5 DEF NoSpace, ClearFails, Places, Active
  <2>6. CASE Clear
    BY <1>2, <1>5, <2>6 DEF Clear, FilesTyped, Places
  <2>7. CASE NoNeedToClear
    BY <1>5, <1>7, <2>7 DEF NoNeedToClear, Places
  <2>8. CASE Rename
    BY <1>2, <1>5, <2>8 DEF Rename, FilesTyped, Places
  <2>9. CASE Transferred
    <3>1. cur \in Nodes /\ src' \in [Nodes -> {"there", "gone"}]
      BY <1>2, <1>3, <2>9 DEF Transferred, Active, FilesTyped
    <3> QED
      BY <1>5, <1>6, <2>9, <3>1 DEF Transferred, Places
  <2>10. CASE NotTransferred
    <3>1. cur \in Nodes /\ src' \in [Nodes -> {"there", "gone"}]
      BY <1>2, <1>3, <2>10 DEF NotTransferred, Active, FilesTyped
    <3>2. FilesTyped'
      BY <1>2, <1>6, <2>10, <3>1 DEF NotTransferred, FilesTyped
    <3>3. AnswerTyped'
      BY <1>4, <1>5, <2>10, <3>1 DEF NotTransferred, Places
    <3> QED
      BY <3>2, <3>3
  <2>11. CASE Link
    BY <1>2, <1>5, <2>11 DEF Link, FilesTyped, Places
  <2>12. CASE LinkFails
    BY <1>3, <1>4, <1>7, <2>12 DEF LinkFails, Places, Active
  <2>13. CASE RenameDirectory
    BY <1>2, <1>5, <2>13 DEF RenameDirectory, FilesTyped, Places
  <2>14. CASE Merge
    BY <1>5, <1>7, <2>14 DEF Merge, Places
  <2>15. CASE Mkdir
    BY <1>2, <1>5, <2>15 DEF Mkdir, FilesTyped, Places
  <2>16. CASE MkdirFails \/ RemoveFails
    BY <1>3, <1>4, <1>7, <2>16 DEF MkdirFails, RemoveFails, Places, Active
  <2>17. CASE Remove
    BY <1>2, <1>5, <2>17 DEF Remove, FilesTyped, Places
  <2>18. CASE Enter /\ GoTo("failed") /\ UNCHANGED stack
    BY <1>5, <1>7, <2>18 DEF Enter, Places
  <2> QED
    BY <2>1, <2>2, <2>3, <2>4, <2>5, <2>6, <2>7, <2>8, <2>9, <2>10, <2>11,
       <2>12, <2>13, <2>14, <2>15, <2>16, <2>17, <2>18
    DEF Working, Begin, Transfer
<1> QED
  BY <1>1, <1>8
  DEF TypeOK, Still, Active, FilesTyped, AnswerTyped, Places

(* One more entry is taken from the frame on top.                          *)
LEMMA TakeStep ==
  ASSUME TypeInv, NEW n \in Nodes, Take(n)
  PROVE  /\ TypeInv'
         /\ n \in Here /\ Here' = Here \ {n} /\ UNCHANGED <<Rest, Opened>>
         /\ Head(stack').skip = Head(stack).skip
         /\ Head(stack').dir = Head(stack).dir /\ Len(stack') = Len(stack)
         /\ \A i \in 2..Len(stack) : stack'[i] = stack[i]
         /\ Parent[n] = Head(stack).dir
<1> DEFINE f == [Head(stack) EXCEPT !.todo = @ \ {n}]
<1>1. /\ Head(stack) \in Frames /\ Head(stack) = stack[1]
      /\ 1 \in 1..Len(stack)
  BY FramesTyped DEF TypeInv
<1>2. /\ f \in Frames /\ f.dir = Head(stack).dir /\ f.skip = Head(stack).skip
      /\ f.todo = Here \ {n} /\ f.todo \subseteq Head(stack).todo
  BY <1>1 DEF Frames, Here
<1>3. stack' = <<f>> \o Tail(stack) /\ n \in Here
  BY DEF Take, Here
<1> HIDE DEF f
<1>4. /\ stack' \in Seq(Frames) /\ stack' # <<>> /\ Len(stack') = Len(stack)
      /\ Head(stack') = f
      /\ \A i \in 2..Len(stack) : stack'[i] = stack[i]
      /\ FramesOK' /\ UNCHANGED <<Rest, Opened>>
  BY <1>2, <1>3, TopReplaced
<1>5. Parent[n] = Head(stack).dir
  BY <1>1, <1>3 DEF Here, TypeInv, StackOK, FramesOK, Children
<1>6. TypeOK'
  BY <1>4 DEF Take, TypeInv, TypeOK, files, hist, Actions
<1>7. StackOK'
  BY <1>2, <1>4, <1>5 DEF StackOK, Take
<1> QED
  BY <1>2, <1>3, <1>4, <1>5, <1>6, <1>7 DEF TypeInv, Here

(* A source there is no information about is passed over.                  *)
LEMMA UnsupportedStep ==
  ASSUME TypeInv, Unsupported
  PROVE  /\ TypeInv'
         /\ \E n \in Here : Here' = Here \ {n} /\ skipped' = skipped \union {n}
         /\ UNCHANGED <<Rest, Opened>>
         /\ Head(stack').skip = Head(stack).skip /\ Len(stack') = Len(stack)
         /\ \A i \in 2..Len(stack) : stack'[i] = stack[i]
<1>1. PICK n \in Head(stack).todo :
        /\ stack' = <<[Head(stack) EXCEPT !.todo = @ \ {n}]>>
        /\ skipped' = skipped \union {n}
  BY DEF Unsupported
<1> DEFINE f == [Head(stack) EXCEPT !.todo = @ \ {n}]
<1>2. /\ Head(stack) \in Frames /\ Head(stack) = stack[1]
      /\ Head(stack).todo \subseteq Nodes
      /\ 1 \in 1..Len(stack) /\ stack \in Seq(Frames) /\ stack # <<>>
  BY FramesTyped DEF TypeInv
<1>3. /\ f \in Frames /\ f.dir = Head(stack).dir /\ f.skip = Head(stack).skip
      /\ f.todo = Here \ {n} /\ f.todo \subseteq Head(stack).todo
  BY <1>2 DEF Frames, Here
<1>h. stack' = <<f>>
  BY <1>1
<1> HIDE DEF f
<1>4. stack' = <<f>> \o Tail(stack)
  <2>1. Tail(stack) = <<>>
    <3>1. Tail(stack) \in Seq(Frames) /\ Len(Tail(stack)) = 0
      BY <1>2, Popped DEF Unsupported
    <3> QED
      BY <3>1, EmptySeq
  <2>2. <<f>> \o <<>> = <<f>>
    BY <1>3
  <2> QED
    BY <1>h, <2>1, <2>2
<1>5. /\ stack' \in Seq(Frames) /\ stack' # <<>> /\ Len(stack') = Len(stack)
      /\ Head(stack') = f
      /\ \A i \in 2..Len(stack) : stack'[i] = stack[i]
      /\ FramesOK' /\ UNCHANGED <<Rest, Opened>>
  BY <1>3, <1>4, TopReplaced
<1>6. TypeOK'
  BY <1>1, <1>2, <1>5 DEF Unsupported, TypeInv, TypeOK, files
<1>7. StackOK'
  BY <1>5 DEF StackOK, Unsupported, Active
<1> QED
  BY <1>1, <1>3, <1>5, <1>6, <1>7 DEF TypeInv, Here

(* The entry in work has returned to the loop above it.                    *)
LEMMA ReturnStep ==
  ASSUME TypeInv, Return
  PROVE  /\ TypeInv' /\ UNCHANGED <<Here, Rest, Opened>>
         /\ Len(stack') = Len(stack)
         /\ Head(stack').dir = Head(stack).dir
         /\ lastErrorHandleAction = "Skip" => Head(stack').skip = "yes"
         /\ lastErrorHandleAction # "Skip" => Head(stack').skip = Head(stack).skip
         /\ \A i \in 2..Len(stack) : stack'[i] = stack[i]
<1> DEFINE f == [Head(stack) EXCEPT !.skip = "yes"]
<1>1. Head(stack) \in Frames /\ cur \in Nodes
  BY FramesTyped DEF TypeInv, TypeOK, Return
<1>2. CASE lastErrorHandleAction = "Skip"
  <2>1. /\ f \in Frames /\ f.dir = Head(stack).dir /\ f.skip = "yes"
        /\ f.todo = Head(stack).todo
    BY <1>1 DEF Frames
  <2>2. stack' = <<f>> \o Tail(stack)
    BY <1>2 DEF Return
  <2> HIDE DEF f
  <2>3. /\ stack' \in Seq(Frames) /\ stack' # <<>> /\ Len(stack') = Len(stack)
        /\ Head(stack') = f
        /\ \A i \in 2..Len(stack) : stack'[i] = stack[i]
        /\ FramesOK' /\ UNCHANGED <<Rest, Opened>>
    BY <2>1, <2>2, TopReplaced
  <2>4. TypeOK'
    BY <1>2, <2>3 DEF Return, TypeInv, TypeOK, files
  <2> QED
    BY <1>2, <2>1, <2>3, <2>4 DEF TypeInv, StackOK, Return, Active, Here
<1>3. CASE lastErrorHandleAction # "Skip"
  <2>1. UNCHANGED stack
    BY <1>3 DEF Return
  <2>2. TypeOK'
    BY <1>1, <1>3, <2>1 DEF Return, TypeInv, TypeOK, files
  <2>3. UNCHANGED <<Here, Rest, Opened>> /\ FramesOK'
    BY <2>1 DEF Here, Rest, Opened, TypeInv, StackOK, FramesOK
  <2> QED
    BY <1>3, <2>1, <2>2, <2>3 DEF TypeInv, StackOK, Return, Active
<1> QED
  BY <1>2, <1>3

(* A directory is left: it is the entry in work again.                     *)
LEMMA LeaveStep ==
  ASSUME TypeInv, Leave
  PROVE  /\ TypeInv' /\ Here = {} /\ Here' \union Rest' = Rest
         /\ Opened' \subseteq Opened /\ Opened \subseteq Opened' \union {cur'}
         /\ cur' \in Opened /\ cur' = Head(stack).dir /\ Kind[cur'] = "dir"
         /\ Len(stack') = Len(stack) - 1
         /\ \A i \in 1..Len(stack') : stack'[i] = stack[i + 1]
<1>1. /\ stack' \in Seq(Frames) /\ stack' # <<>> /\ Len(stack') = Len(stack) - 1
      /\ Head(stack).dir \in Opened /\ Head(stack).dir \in Nodes
      /\ Parent[Head(stack).dir] = Head(stack').dir
      /\ \A i \in 1..Len(stack') : stack'[i] = stack[i + 1]
      /\ FramesOK'
      /\ Here' \union Rest' = Rest
      /\ Opened' \subseteq Opened
      /\ Opened \subseteq Opened' \union {Head(stack).dir}
  BY TopLeft DEF Leave
<1>2. TypeOK'
  BY <1>1 DEF Leave, TypeInv, TypeOK, GoTo, files, hist
<1>3. cur' = Head(stack).dir /\ Here = {}
  BY DEF Leave, Here
<1>4. StackOK'
  BY <1>1, <1>3 DEF StackOK
<1>5. Kind[cur'] = "dir"
  BY <1>1, <1>3 DEF TypeInv, StackOK, FramesOK, Opened
<1> QED
  BY <1>1, <1>2, <1>3, <1>4, <1>5 DEF TypeInv

(* A directory is entered: those of its entries are to be done that are    *)
(* still in the source.                                                    *)
Entered == Enter /\ GoTo("loop")

(* Entering keeps the types and the frames of the stack.                   *)
LEMMA EnterStep ==
  ASSUME TypeInv, PlaceOK, Entered
  PROVE  /\ TypeInv' /\ cur \in Nodes
         /\ Here' = {n \in Children(cur) : src[n] = "there"}
         /\ Rest' = Here \union Rest /\ Opened' = Opened \union {cur}
         /\ Len(stack') = Len(stack) + 1
         /\ Head(stack').dir = cur /\ Head(stack').skip = "no"
         /\ \A i \in 1..Len(stack) : stack'[i + 1] = stack[i]
<1> DEFINE f == [dir |-> cur, todo |-> {n \in Children(cur) : src[n] = "there"},
                 skip |-> "no"]
<1>1. /\ cur \in Nodes /\ Active /\ Kind[cur] = "dir"
  BY DEF Entered, Enter, TypeInv, TypeOK, PlaceOK, Active
<1>2. /\ f \in Frames /\ f.dir = cur /\ f.skip = "no"
      /\ f.todo = {n \in Children(cur) : src[n] = "there"}
      /\ f.todo \subseteq Children(cur)
  BY <1>1 DEF Frames, Children
<1>3. stack' = <<f>> \o stack
  BY DEF Entered, Enter, GoTo
<1> HIDE DEF f
<1>4. /\ stack' \in Seq(Frames) /\ stack' # <<>> /\ Len(stack') = Len(stack) + 1
      /\ Head(stack') = f
      /\ \A i \in 1..Len(stack) : stack'[i + 1] = stack[i]
      /\ FramesOK'
      /\ Rest' = Here \union Rest /\ Opened' = Opened \union {cur}
  BY <1>1, <1>2, <1>3, TopPushed
<1>5. TypeOK'
  BY <1>4 DEF Entered, Enter, TypeInv, TypeOK, GoTo, files, hist
<1>6. StackOK'
  BY <1>4 DEF StackOK, Active, Entered, GoTo
<1> QED
  BY <1>1, <1>2, <1>4, <1>5, <1>6 DEF TypeInv, Here

(* Every step is one of these.                                             *)
LEMMA StepsOfTheWalk ==
  ASSUME Next
  PROVE  \/ Working \/ \E n \in Nodes : Take(n)
         \/ Unsupported \/ Leave \/ Return \/ Entered
<1>1. Enter => Entered \/ (Enter /\ GoTo("failed") /\ UNCHANGED stack)
  BY DEF Enter, Entered
<1> QED
  BY <1>1 DEF Next, Walk, Directory, Working

-----------------------------------------------------------------------------
(* What doProcess() knows at its places.                                   *)

(* What is in the way stays what it is but for a conflict and for what is  *)
(* written.                                                                *)
LEMMA OccupantStays ==
  ASSUME UNCHANGED <<foreign, where, cur>>
  PROVE  Occupant(cur)' = Occupant(cur)
  BY DEF Occupant

(* What is in the way of an entry that was cleared, renamed or written is  *)
(* nothing, or still the link through which was written.                   *)
LEMMA OccupantCleared ==
  ASSUME TypeOK, cur \in Nodes, UNCHANGED <<where, cur>>,
         \/ foreign' = [foreign EXCEPT ![cur] = "none"]
         \/ Occupant(cur) = "none" /\ UNCHANGED foreign
  PROVE  Occupant(cur)' = "none"
<1>1. CASE foreign' = [foreign EXCEPT ![cur] = "none"]
  <2>1. foreign'[cur] = "none"
    BY <1>1 DEF TypeOK
  <2> QED
    BY <2>1 DEF Occupant
<1>2. CASE Occupant(cur) = "none" /\ UNCHANGED foreign
  BY <1>2, OccupantStays
<1> QED
  BY <1>1, <1>2

(* What is written is in place of the old entry, or behind the old link.   *)
LEMMA FillClears ==
  ASSUME TypeOK, cur \in Nodes, UNCHANGED <<where, cur>>, NEW c, Fill(c)
  PROVE  IF Occupant(cur) = "link" THEN Occupant(cur)' = "link"
                                   ELSE Occupant(cur)' = "none"
<1>1. CASE Occupant(cur) = "link"
  BY <1>1, OccupantStays DEF Fill
<1>2. CASE Occupant(cur) # "link"
  BY <1>2, OccupantCleared DEF Fill
<1> QED
  BY <1>1, <1>2

(* Every step keeps what is known.                                         *)
LEMMA PlaceStep ==
  ASSUME TypeOK, PlaceOK, [Next]_vars
  PROVE  PlaceOK'
<1>a. Active => cur \in Nodes
  BY DEF TypeOK, Active
<1> USE DEF PlaceOK
<1>1. CASE Stopped \/ Finish \/ Unsupported \/ Leave \/ Return
  BY <1>1 DEF Stopped, Finish, Unsupported, Leave, Return, GoTo
<1>2. ASSUME NEW n \in Nodes, Take(n) PROVE PlaceOK'
  BY <1>2 DEF Take
<1>3. CASE Unusable \/ Delete
  BY <1>3 DEF Unusable, Delete, Ask, GoTo
<1>4. CASE Unoccupied
  <2>1. Occupant(cur)' = "none"
    BY <1>4, OccupantStays DEF Unoccupied, files
  <2> QED
    BY <1>4, <2>1 DEF Unoccupied, GoTo
<1>5. CASE Conflict
  <2>1. pc' \in {"place", "return", "failed"} /\ mode # "delete" /\ mode' = mode
        /\ cur' = cur
    BY <1>5 DEF Conflict
  <2>2. ASSUME pc' = "place" PROVE Occupant(cur)' = "none" \/ cur \in agreed'
    <3>1. cur \in agreed' \/ where' = [where EXCEPT ![cur] = "copy"]
      BY <1>5, <2>2 DEF Conflict
    <3>2. ASSUME where' = [where EXCEPT ![cur] = "copy"]
          PROVE  Occupant(cur)' = "none"
      <4>1. cur \in Nodes
        BY <1>a, <1>5 DEF Active, Conflict
      <4>2. where'[cur] = "copy"
        BY <3>2, <4>1 DEF TypeOK
      <4> QED
        BY <2>1, <4>2 DEF Occupant
    <3> QED
      BY <3>1, <3>2
  <2> QED
    BY <2>1, <2>2
<1>6. CASE NoSpace \/ ClearFails
  <2>1. Occupant(cur)' = Occupant(cur)
    BY <1>6, OccupantStays DEF NoSpace, ClearFails, files
  <2> QED
    BY <1>6, <2>1 DEF NoSpace, ClearFails, Ask, MustClear
<1>7. CASE Clear
  <2>1. cur \in Nodes
    BY <1>a, <1>7 DEF Active, Clear
  <2>2. Occupant(cur)' = "none"
    BY <1>7, <2>1, OccupantCleared DEF Clear
  <2> QED
    BY <1>7, <2>2 DEF Clear, GoTo, MustClear
<1>8. CASE NoNeedToClear
  <2>1. Occupant(cur)' = Occupant(cur)
    BY <1>8, OccupantStays DEF NoNeedToClear, files
  <2> QED
    BY <1>8, <2>1 DEF NoNeedToClear, MustClear, GoTo, hist
<1>9. CASE Rename \/ Transferred \/ Link \/ RenameDirectory \/ Remove
  BY <1>9 DEF Rename, Transferred, Link, RenameDirectory, Remove, GoTo
<1>10. CASE NotTransferred
  <2>1. cur \in Nodes
    BY <1>a, <1>10 DEF Active, NotTransferred
  <2>2. /\ pc \in {"transfer", "copying"}
        /\ pc' \in {"copying", "return", "failed"}
        /\ UNCHANGED <<mode, cur, where, agreed>>
        /\ skipped \subseteq skipped'
    BY <1>10 DEF NotTransferred, Ask, GoTo, hist
  <2>3. CASE UNCHANGED <<made, spoilt, foreign>>
    <3>1. Occupant(cur)' = Occupant(cur)
      BY <2>2, <2>3, OccupantStays
    <3> QED
      BY <2>2, <3>1
  <2>4. CASE \E c \in {"partial", "whole"} : Fill(c)
    <3>1. Occupant(cur)' \in {"none", Occupant(cur)}
      BY <2>1, <2>2, <2>4, FillClears
    <3> QED
      BY <2>2, <3>1
  <2> QED
    BY <1>10, <2>3, <2>4 DEF NotTransferred
<1>11. CASE LinkFails
  <2>1. Occupant(cur)' = Occupant(cur)
    BY <1>11, OccupantStays DEF LinkFails, files
  <2> QED
    BY <1>11, <2>1 DEF LinkFails, Ask
<1>12. CASE Merge \/ Mkdir \/ MkdirFails \/ Enter \/ RemoveFails
  BY <1>12 DEF Merge, Mkdir, MkdirFails, Enter, RemoveFails, Ask, GoTo
<1>13. CASE UNCHANGED vars
  BY <1>13, OccupantStays DEF vars, files, hist
<1> QED
  BY <1>1, <1>2, <1>3, <1>4, <1>5, <1>6, <1>7, <1>8, <1>9, <1>10, <1>11, <1>12,
     <1>13
  DEF Next, Walk, Begin, Transfer, Directory

(* The types, the stack, and what is known at each place of the walk.      *)
WhereInv == TypeInv /\ PlaceOK

(* Every step keeps them.                                                  *)
LEMMA WhereStep == WhereInv /\ [Next]_vars => WhereInv'
<1> SUFFICES ASSUME TypeInv, PlaceOK, [Next]_vars PROVE TypeInv'
  BY PlaceStep DEF WhereInv, TypeInv
<1>1. CASE UNCHANGED vars
  <2>1. TypeOK'
    BY <1>1 DEF vars, files, hist, TypeInv, TypeOK
  <2>2. StackOK'
    BY <1>1 DEF vars, TypeInv, StackOK, FramesOK, Active
  <2> QED
    BY <2>1, <2>2 DEF TypeInv
<1>2. CASE Working
  <2>1. TypeOK' /\ Still
    BY <1>2, WorkingTyped, WorkingIsStill DEF TypeInv
  <2>2. StackOK'
    BY <2>1 DEF TypeInv, StackOK, FramesOK, Still, Active
  <2> QED
    BY <2>1, <2>2 DEF TypeInv
<1> QED
  BY <1>1, <1>2, StepsOfTheWalk, TakeStep, UnsupportedStep, LeaveStep,
     ReturnStep, EnterStep

(* The walk begins in the loop of run(), with all the sources to do.       *)
LEMMA WhereInit == Init => WhereInv
<1> SUFFICES ASSUME Init PROVE WhereInv
  OBVIOUS
<1> DEFINE f == [dir |-> Top, todo |-> Children(Top), skip |-> "no"]
<1>1. /\ f \in Frames /\ f.dir = Top /\ f.todo = Children(Top)
      /\ stack = <<f>>
  BY DEF Init, Frames, Children
<1> HIDE DEF f
<1>2. stack \in Seq(Frames) /\ stack # <<>> /\ Len(stack) = 1 /\ stack[1] = f
  BY <1>1
<1>3. TypeOK
  BY <1>2, CopyTreeAssumption DEF Init, TypeOK, Actions
<1>4. FramesOK
  BY <1>1, <1>2 DEF FramesOK
<1> QED
  BY <1>3, <1>4 DEF Init, WhereInv, TypeInv, StackOK, Active, PlaceOK

(* Every variable has a value of its kind, and the loop of run() is never  *)
(* left before the end.                                                    *)
THEOREM TreeTypeCorrect == Spec => []TypeOK
<1>1. WhereInv => TypeOK
  BY DEF WhereInv, TypeInv
<1> QED
  BY <1>1, WhereInit, WhereStep, PTL DEF Spec

-----------------------------------------------------------------------------
(* The walk takes every entry once.                                        *)

(* What is left to do, without and with the entry in work, which may have   *)
(* something below it.                                                     *)
Todo  == Here \union Rest
Ahead == Todo \union (IF Entering THEN {cur} ELSE {})

(* Neither of two entries that are left is above the other, and none is    *)
(* the entry in work, or above it or an open directory.                    *)
Apart ==
  /\ \A m \in Ahead, k \in Ahead : m \notin Above[k]
  /\ Active => \A m \in Todo : m # cur /\ m \notin Above[cur]
  /\ \A d \in Opened, m \in Ahead : m # d /\ m \notin Above[d]

(* What is left, with all that is below it, is not reported and still in    *)
(* the source.                                                             *)
Untouched ==
  \A m \in Ahead, k \in Nodes :
    k = m \/ m \in Above[k] => k \notin reported /\ src[k] = "there"

WalkInv == Apart /\ Untouched

(* The sets that the walk is about are sets of entries.                    *)
LEMMA SetsTyped ==
  ASSUME TypeInv
  PROVE  /\ Here \subseteq Nodes /\ Rest \subseteq Nodes
         /\ Todo \subseteq Nodes /\ Ahead \subseteq Nodes
         /\ Opened \subseteq Nodes /\ (Active => cur \in Nodes)
         /\ (Entering => Active)
<1>1. /\ Len(stack) \in Nat \ {0} /\ Head(stack) = stack[1]
      /\ \A i \in 1..Len(stack) : /\ stack[i].dir \in Nodes \union {Top}
                                 /\ stack[i].todo \subseteq Nodes
  BY FramesTyped DEF TypeInv
<1>2. Here \subseteq Nodes /\ Rest \subseteq Nodes /\ Opened \subseteq Nodes
  BY <1>1 DEF Here, Rest, Opened
<1>3. (Active => cur \in Nodes) /\ (Entering => Active)
  BY DEF TypeInv, TypeOK, Active, Entering
<1> QED
  BY <1>2, <1>3 DEF Todo, Ahead

(* The entries of the directory on top are left in no other frame.         *)
LEMMA HereIsNotInRest ==
  ASSUME TypeInv
  PROVE  Here \intersect Rest = {}
<1> SUFFICES ASSUME NEW n \in Here, NEW i \in 2..Len(stack), n \in stack[i].todo
             PROVE  FALSE
  BY DEF Rest
<1>1. /\ Len(stack) \in Nat \ {0} /\ Head(stack) = stack[1] /\ 1 < i
      /\ 1 \in 1..Len(stack) /\ i \in 1..Len(stack)
      /\ \A j \in 1..Len(stack) : stack[j].dir \in Nodes \union {Top}
  BY FramesTyped DEF TypeInv
<1>2. Parent[n] = stack[1].dir /\ Parent[n] = stack[i].dir
  BY <1>1 DEF Here, TypeInv, StackOK, FramesOK, Children
<1>3. stack[1].dir # Top /\ stack[i].dir \in Above[stack[1].dir] \union {Top}
  BY <1>1 DEF TypeInv, StackOK, FramesOK
<1> QED
  BY <1>1, <1>2, <1>3, NothingAboveItself

(* A step of doProcess() changes the source only where the entry in work   *)
(* returns, and only there or below it.                                    *)
LEMMA WorkingEffects ==
  ASSUME WhereInv, Working
  PROVE  /\ UNCHANGED reported
         /\ Entering' => Entering
         /\ \A k \in Nodes : src'[k] # src[k] =>
              /\ Active /\ pc' = "return" /\ src'[k] = "gone"
              /\ k = cur \/ (Entering /\ cur \in Above[k])
<1>t. TypeOK
  BY DEF WhereInv, TypeInv
<1> USE DEF Entering, Active
<1>1. CASE Stopped \/ Finish
  BY <1>1 DEF Stopped, Finish, GoTo, hist, files
<1>2. CASE Begin
  BY <1>2 DEF Begin, Unusable, Delete, Unoccupied, Conflict, Ask, GoTo, hist, files
<1>3. CASE NoSpace \/ Clear \/ ClearFails \/ NoNeedToClear
  BY <1>3 DEF NoSpace, Clear, ClearFails, NoNeedToClear, Ask, GoTo, hist, files
<1>4. CASE Rename \/ Transferred
  BY <1>4, <1>t DEF Rename, Transferred, GoTo, hist, TypeOK
<1>5. CASE NotTransferred
  BY <1>5 DEF NotTransferred, Ask, GoTo, hist
<1>6. CASE Link \/ LinkFails
  BY <1>6 DEF Link, LinkFails, Ask, GoTo, hist, files
<1>7. CASE RenameDirectory
  BY <1>7, <1>t DEF RenameDirectory, GoTo, hist, TypeOK, Below
<1>8. CASE Merge \/ Mkdir \/ MkdirFails
  BY <1>8 DEF Merge, Mkdir, MkdirFails, Ask, GoTo, hist, files
<1>9. CASE Remove \/ RemoveFails
  BY <1>9, <1>t DEF Remove, RemoveFails, Ask, GoTo, hist, files, TypeOK
<1>10. CASE Enter /\ GoTo("failed") /\ UNCHANGED stack
  BY <1>10 DEF Enter, GoTo, hist, files
<1> QED
  BY <1>1, <1>2, <1>3, <1>4, <1>5, <1>6, <1>7, <1>8, <1>9, <1>10
  DEF Working, Transfer

(* Every step keeps the entries that are left apart and untouched.         *)
LEMMA WalkStep ==
  ASSUME WhereInv, WalkInv, [Next]_vars
  PROVE  WalkInv'
<1>t. /\ TypeInv /\ Todo \subseteq Nodes /\ Ahead \subseteq Nodes
      /\ Opened \subseteq Nodes /\ (Active => cur \in Nodes)
      /\ (Entering => Active)
  BY SetsTyped DEF WhereInv
<1>1. CASE UNCHANGED vars
  <2>1. UNCHANGED <<stack, cur, pc, reported, src>>
    BY <1>1 DEF vars, files, hist
  <2>2. /\ UNCHANGED <<Ahead, Todo, Opened, cur, reported, src>>
        /\ Active' <=> Active
    BY <2>1 DEF Ahead, Todo, Here, Rest, Opened, Entering, Active
  <2> QED
    BY <2>2 DEF WalkInv, Apart, Untouched
<1>2. CASE Working
  <2>1. UNCHANGED <<Todo, Opened, cur>> /\ (Active' => Active)
    BY <1>2, WorkingIsStill DEF Still, Todo, Here, Rest, Opened, Active
  <2>2. /\ UNCHANGED reported
        /\ Entering' => Entering
        /\ \A k \in Nodes : src'[k] # src[k] =>
             /\ Active /\ pc' = "return"
             /\ k = cur \/ (Entering /\ cur \in Above[k])
    BY <1>2, WorkingEffects
  <2>3. Ahead' \subseteq Ahead
    BY <2>1, <2>2 DEF Ahead
  <2>4. Apart'
    BY <2>1, <2>3 DEF WalkInv, Apart
  <2>5. ASSUME NEW m \in Ahead', NEW k \in Nodes, k = m \/ m \in Above[k],
               src'[k] # src[k]
        PROVE  FALSE
    <3>1. Active /\ m \in Todo /\ m # cur /\ m \notin Above[cur]
      <4>1. Active /\ ~Entering'
        BY <2>2, <2>5 DEF Entering
      <4>2. m \in Todo
        BY <2>1, <2>5, <4>1 DEF Ahead
      <4> QED
        BY <4>1, <4>2 DEF WalkInv, Apart
    <3>2. Entering /\ cur \in Above[k]
      BY <2>2, <2>5, <3>1
    <3>3. cur \notin Above[m]
      BY <3>1, <3>2 DEF WalkInv, Apart, Ahead
    <3> QED
      BY <2>5, <3>1, <3>2, <3>3, PathsAreChains
  <2>6. Untouched'
    BY <2>2, <2>3, <2>5 DEF WalkInv, Untouched
  <2> QED
    BY <2>4, <2>6 DEF WalkInv
<1>3. ASSUME NEW n \in Nodes, Take(n) PROVE WalkInv'
  <2>1. n \in Here /\ Here' = Here \ {n} /\ UNCHANGED <<Rest, Opened>>
    BY <1>3, <1>t, TakeStep
  <2>2. /\ pc = "loop" /\ cur' = n /\ pc' = "process"
        /\ UNCHANGED <<reported, src>>
    BY <1>3 DEF Take, files, hist
  <2>3. Ahead' = Ahead /\ n \in Ahead
    BY <2>1, <2>2 DEF Ahead, Todo, Entering
  <2>4. n \notin Todo' /\ Todo' \subseteq Ahead
    BY <1>t, <2>1, HereIsNotInRest DEF Todo, Ahead
  <2>5. Apart'
    BY <2>1, <2>2, <2>3, <2>4 DEF WalkInv, Apart
  <2>6. Untouched'
    BY <2>2, <2>3 DEF WalkInv, Untouched
  <2> QED
    BY <2>5, <2>6 DEF WalkInv
<1>4. CASE Unsupported
  <2>1. Here' \subseteq Here /\ UNCHANGED <<Rest, Opened>>
    BY <1>4, <1>t, UnsupportedStep
  <2>2. pc = "loop" /\ UNCHANGED <<pc, cur, reported, src>>
    BY <1>4 DEF Unsupported, files
  <2>3. Ahead' \subseteq Ahead /\ ~Active'
    BY <2>1, <2>2 DEF Ahead, Todo, Entering, Active
  <2> QED
    BY <2>1, <2>2, <2>3 DEF WalkInv, Apart, Untouched
<1>5. CASE Leave
  <2>1. /\ Here' \union Rest' = Rest /\ Opened' \subseteq Opened
        /\ cur' \in Opened
    BY <1>5, <1>t, LeaveStep
  <2>2. ~Entering' /\ UNCHANGED <<reported, src>>
    BY <1>5 DEF Leave, GoTo, files, hist, Entering
  <2>3. Ahead' \subseteq Ahead /\ Todo' \subseteq Ahead
    BY <2>1, <2>2 DEF Ahead, Todo
  <2> QED
    BY <2>1, <2>2, <2>3 DEF WalkInv, Apart, Untouched
<1>6. CASE Return
  <2>1. UNCHANGED <<Here, Rest, Opened>>
    BY <1>6, <1>t, ReturnStep
  <2>2. /\ Active /\ ~Active' /\ ~Entering' /\ UNCHANGED src
        /\ reported' \subseteq reported \union {cur}
    BY <1>6 DEF Return, files, Active, Entering
  <2>3. Ahead' = Todo /\ Todo \subseteq Ahead
    BY <2>1, <2>2 DEF Ahead, Todo
  <2>4. \A m \in Todo : m # cur /\ m \notin Above[cur]
    BY <2>2 DEF WalkInv, Apart
  <2> QED
    BY <2>1, <2>2, <2>3, <2>4 DEF WalkInv, Apart, Untouched
<1>7. CASE Entered
  <2>1. /\ cur \in Nodes /\ Here' = {n \in Children(cur) : src[n] = "there"}
        /\ Rest' = Here \union Rest /\ Opened' = Opened \union {cur}
    BY <1>7, <1>t, EnterStep DEF WhereInv
  <2>2. /\ Entering /\ Active /\ ~Active' /\ ~Entering' /\ cur' = cur
        /\ UNCHANGED <<reported, src>>
    BY <1>7 DEF Entered, Enter, GoTo, files, hist, Active, Entering
  <2>3. /\ Ahead' = Here' \union Todo /\ Todo \subseteq Ahead /\ cur \in Ahead
    BY <2>1, <2>2 DEF Ahead, Todo
  <2>4. ASSUME NEW c \in Here'
        PROVE  /\ c \in Children(cur) /\ c # cur /\ c \notin Above[cur]
               /\ Above[c] = {cur} \union Above[cur]
               /\ cur \in Above[c] /\ \A e \in Here' : c \notin Above[e]
    BY <2>1, EntriesApart
  <2>5. ASSUME NEW c \in Here', NEW m \in Todo
        PROVE  c \notin Above[m] /\ m \notin Above[c]
    <3>1. cur \notin Above[m] /\ m # cur /\ m \notin Above[cur] /\ m \in Nodes
      BY <1>t, <2>2, <2>3 DEF WalkInv, Apart
    <3> QED
      BY <2>4, <3>1, AboveGoesOn
  <2>6. ASSUME NEW d \in Opened, NEW c \in Here'
        PROVE  c # d /\ c \notin Above[d]
    <3>1. cur # d /\ cur \notin Above[d] /\ d \in Nodes
      BY <1>t, <2>3 DEF WalkInv, Apart
    <3> QED
      BY <2>4, <3>1, AboveGoesOn
  <2>7. \A m \in Todo : m # cur /\ m \notin Above[cur]
    BY <2>2 DEF WalkInv, Apart
  <2>8. Apart'
    BY <2>1, <2>2, <2>3, <2>4, <2>5, <2>6, <2>7 DEF WalkInv, Apart
  <2>9. Untouched'
    <3>1. ASSUME NEW c \in Here', NEW k \in Nodes, k = c \/ c \in Above[k]
          PROVE  cur \in Above[k]
      BY <2>4, <3>1, AboveGoesOn
    <3> QED
      BY <2>2, <2>3, <3>1 DEF WalkInv, Untouched
  <2> QED
    BY <2>8, <2>9 DEF WalkInv
<1> QED
  BY <1>1, <1>2, <1>3, <1>4, <1>5, <1>6, <1>7, StepsOfTheWalk

(* The sources are.                                                        *)
LEMMA WalkInit == Init => WalkInv
<1> SUFFICES ASSUME Init PROVE WalkInv
  OBVIOUS
<1> DEFINE f == [dir |-> Top, todo |-> Children(Top), skip |-> "no"]
<1>1. stack = <<f>> /\ f.todo = Children(Top) /\ f.dir = Top
  BY DEF Init
<1> HIDE DEF f
<1>2. Len(stack) = 1 /\ Head(stack) = f /\ stack[1] = f
  BY <1>1
<1>3. Here = Children(Top) /\ Rest = {} /\ Opened = {}
  BY <1>1, <1>2 DEF Here, Rest, Opened
<1>4. Ahead = Children(Top) /\ ~Active
  BY <1>3 DEF Init, Ahead, Todo, Entering, Active
<1>5. \A k \in Children(Top) : k \in Nodes /\ Above[k] = {}
  BY AboveUnfolds DEF Children
<1> QED
  BY <1>3, <1>4, <1>5 DEF WalkInv, Apart, Untouched, Init

-----------------------------------------------------------------------------
(* What doProcess() does to the files.                                     *)

(* What a step of doProcess() does: it marks conflicts and skips, replaces  *)
(* nothing else, makes entries whole but where a transfer is cut short, and *)
(* takes from the source of a move what is whole, or a directory that is    *)
(* emptied.                                                                *)
FileEffects ==
  /\ agreed \subseteq agreed' /\ skipped \subseteq skipped'
  /\ \A k \in Nodes : foreign'[k] # foreign[k] => k \in agreed
  /\ \A k \in Nodes : made'[k] \notin {"whole", made[k]} =>
       k = cur /\ pc \in {"transfer", "copying"} /\ UNCHANGED src
  /\ \A k \in Nodes : src'[k] # src[k] /\ mode # "delete" =>
       made'[k] = "whole" \/ (k = cur /\ pc = "remove")
  /\ mode = "copy" => spoilt' \subseteq spoilt \union skipped

(* How it goes on: into a directory that is there, to its removal, back to *)
(* the loop with the entry done or skipped, or on with the entry.          *)
WayOut ==
  /\ pc' = "enter" /\ mode # "delete" => Arrived(cur)'
  /\ pc' = "remove" => \/ pc = "remove"
                       \/ mode = "delete" /\ Entering /\ Kind[cur] # "dir"
  /\ pc' = "return" =>
       \/ lastErrorHandleAction' = "Skip" /\ cur \in skipped'
       \/ /\ UNCHANGED lastErrorHandleAction
          /\ pc \in {"transfer", "copying", "place", "remove"}
          /\ mode # "delete" => made'[cur] = "whole" \/ pc = "remove"
          /\ mode # "copy" => src'[cur] = "gone"
          /\ pc = "place" => \A k \in Below(cur) : made'[k] = "whole"
                                               /\ src'[k] = "gone"
  /\ lastErrorHandleAction' = "Skip" =>
       \/ cur \in skipped'
       \/ UNCHANGED lastErrorHandleAction

(* Fill() leaves the entries other than the one in work alone.             *)
LEMMA FillEffects ==
  ASSUME WhereInv, NEW c \in {"partial", "whole"}, Fill(c), Copies,
         pc \in {"transfer", "copying"}
  PROVE  /\ \A k \in Nodes : foreign'[k] # foreign[k] => k \in agreed
         /\ \A k \in Nodes : made'[k] # made[k] => k = cur
         /\ made'[cur] = c
         /\ mode = "copy" => spoilt' \subseteq spoilt \union skipped
<1>1. cur \in Nodes /\ foreign \in [Nodes -> {"none", "file", "link", "dir"}]
      /\ made \in [Nodes -> {"nothing", "partial", "whole"}]
  BY DEF WhereInv, TypeInv, TypeOK
<1>2. ASSUME foreign' # foreign PROVE cur \in agreed
  BY <1>2 DEF Fill, WhereInv, PlaceOK
<1>3. \A k \in Nodes : foreign'[k] # foreign[k] => k = cur
  BY <1>1 DEF Fill
<1>4. ASSUME mode = "copy" PROVE spoilt' \subseteq spoilt \union skipped
  BY <1>4 DEF Fill, WhereInv, PlaceOK, Copies
<1> QED
  BY <1>1, <1>2, <1>3, <1>4 DEF Fill

(* Every step of doProcess() has these effects.                            *)
LEMMA WorkingOnFiles ==
  ASSUME WhereInv, Working
  PROVE  FileEffects /\ WayOut
<1>t. /\ Active => cur \in Nodes
      /\ mode \in {"copy", "move", "delete"}
      /\ src \in [Nodes -> {"there", "gone"}]
      /\ foreign \in [Nodes -> {"none", "file", "link", "dir"}]
      /\ made \in [Nodes -> {"nothing", "partial", "whole"}]
  BY DEF WhereInv, TypeInv, TypeOK, Active
<1>p. PlaceOK
  BY DEF WhereInv
<1> USE DEF FileEffects, WayOut, Entering, Active
<1>1. CASE Stopped \/ Finish
  BY <1>1 DEF Stopped, Finish, GoTo, hist, files
<1>2. CASE Unusable
  BY <1>2 DEF Unusable, Ask, files
<1>3. CASE Delete \/ Unoccupied
  BY <1>3 DEF Delete, Unoccupied, GoTo, hist, files
<1>4. CASE Conflict
  BY <1>4 DEF Conflict, files
<1>5. CASE NoSpace \/ ClearFails
  BY <1>5 DEF NoSpace, ClearFails, Ask, files
<1>6. CASE Clear
  BY <1>6, <1>t, <1>p DEF Clear, MustClear, PlaceOK, GoTo, hist
<1>7. CASE NoNeedToClear
  BY <1>7 DEF NoNeedToClear, GoTo, hist, files
<1>8. CASE Rename
  BY <1>8, <1>t, <1>p DEF Rename, PlaceOK, GoTo, hist
<1>9. CASE Transferred
  <2>1. /\ \A k \in Nodes : foreign'[k] # foreign[k] => k \in agreed
        /\ \A k \in Nodes : made'[k] # made[k] => k = cur
        /\ made'[cur] = "whole"
        /\ mode = "copy" => spoilt' \subseteq spoilt \union skipped
    BY <1>9, FillEffects DEF Transferred
  <2> QED
    BY <1>9, <1>t, <1>p, <2>1 DEF Transferred, PlaceOK, GoTo, hist
<1>10. CASE NotTransferred
  <2>1. /\ \A k \in Nodes : foreign'[k] # foreign[k] => k \in agreed
        /\ \A k \in Nodes : made'[k] # made[k] => k = cur
        /\ mode = "copy" => spoilt' \subseteq spoilt \union skipped
    BY <1>10, FillEffects DEF NotTransferred
  <2>2. /\ pc \in {"transfer", "copying"} /\ UNCHANGED src
        /\ Ask("copying", "return") \/ GoTo("failed")
    BY <1>10 DEF NotTransferred
  <2>3. FileEffects
    BY <2>1, <2>2 DEF Ask, GoTo, hist
  <2>4. WayOut
    BY <2>2 DEF Ask, GoTo, hist
  <2> QED
    BY <2>3, <2>4
<1>11. CASE Link
  BY <1>11, <1>t, <1>p DEF Link, Copies, PlaceOK, GoTo, hist
<1>12. CASE LinkFails
  BY <1>12 DEF LinkFails, Ask, files
<1>13. CASE RenameDirectory
  <2>1. /\ pc = "place" /\ pc' = "return" /\ cur \in Nodes /\ mode # "delete"
        /\ UNCHANGED <<spoilt, agreed, skipped, lastErrorHandleAction>>
    BY <1>13, <1>t, <1>p DEF RenameDirectory, PlaceOK, GoTo, hist
  <2>2. \A k \in Nodes :
          IF k \in Below(cur) \union {cur}
            THEN src'[k] = "gone" /\ made'[k] = "whole"
            ELSE src'[k] = src[k] /\ made'[k] = made[k]
    BY <1>13, <1>t DEF RenameDirectory
  <2>3. \A k \in Nodes : foreign'[k] # foreign[k] => k \in agreed
    BY <1>13, <1>t, <1>p DEF RenameDirectory, PlaceOK
  <2>4. FileEffects
    BY <2>1, <2>2, <2>3
  <2>5. WayOut
    BY <2>1, <2>2 DEF Below
  <2> QED
    BY <2>4, <2>5
<1>14. CASE Merge
  BY <1>14, <1>p DEF Merge, PlaceOK, Arrived, GoTo, hist, files
<1>15. CASE Mkdir
  BY <1>15, <1>t DEF Mkdir, Arrived, GoTo, hist
<1>16. CASE MkdirFails \/ RemoveFails
  BY <1>16 DEF MkdirFails, RemoveFails, Ask, files
<1>17. CASE Remove
  BY <1>17, <1>t DEF Remove, GoTo, hist
<1>18. CASE Enter /\ GoTo("failed") /\ UNCHANGED stack
  BY <1>18 DEF Enter, GoTo, hist, files
<1> QED
  BY <1>1, <1>2, <1>3, <1>4, <1>5, <1>6, <1>7, <1>8, <1>9, <1>10, <1>11, <1>12,
     <1>13, <1>14, <1>15, <1>16, <1>17, <1>18
  DEF Working, Begin, Transfer

(* Nothing old in the target is replaced but where the user said so.       *)
THEOREM ReplacesOnlyAgreed == Spec => OnlyAgreedReplaced
<1>1. WhereInv /\ [Next]_vars =>
        [\A n \in Nodes : foreign'[n] # foreign[n] => n \in agreed]_vars
  <2> SUFFICES ASSUME WhereInv, Next
               PROVE  \A n \in Nodes : foreign'[n] # foreign[n] => n \in agreed
    OBVIOUS
  <2>1. CASE Working
    BY <2>1, WorkingOnFiles DEF FileEffects
  <2>2. ASSUME ~Working PROVE UNCHANGED foreign
    BY <2>2, StepsOfTheWalk
    DEF Take, Unsupported, Leave, Return, Entered, Enter, files
  <2> QED
    BY <2>1, <2>2
<1> QED
  BY <1>1, WhereInit, WhereStep, PTL DEF Spec, OnlyAgreedReplaced

-----------------------------------------------------------------------------
(* Nothing is lost, and what is reported is done.                          *)

Done(n) ==
  /\ mode # "delete" => Arrived(n)
  /\ mode # "copy" => src[n] = "gone"

(* A directory is open, or about to be emptied, only when it is in the     *)
(* target; and a file returns without a Skip only when it is done.         *)
ArrivedInv ==
  /\ mode # "delete" =>
       /\ \A d \in Opened : Arrived(d)
       /\ pc \in {"enter", "remove"} => Kind[cur] = "dir" /\ Arrived(cur)
  /\ pc = "return" /\ lastErrorHandleAction # "Skip" /\ Kind[cur] # "dir" =>
       Done(cur)

KeptInv == ArrivedInv /\ NothingLost /\ ReportedIsDone

(* What is in the target stays there, but for a file whose transfer is cut *)
(* short.                                                                  *)
LEMMA ArrivedStays ==
  ASSUME WhereInv, Working, NEW n \in Nodes, Arrived(n)
  PROVE  \/ Arrived(n)'
         \/ /\ n = cur /\ pc \in {"transfer", "copying"} /\ Kind[n] # "dir"
            /\ UNCHANGED src
<1>1. FileEffects /\ PlaceOK
  BY WorkingOnFiles DEF WhereInv
<1> QED
  BY <1>1 DEF FileEffects, Arrived, PlaceOK

(* The steps of the walk leave the files alone.                            *)
LEMMA WalkLeavesFiles ==
  ASSUME Next, ~Working
  PROVE  UNCHANGED <<mode, src, made, spoilt, agreed>>
  BY StepsOfTheWalk
  DEF Take, Unsupported, Leave, Return, Entered, Enter, GoTo, hist, files

(* Every step keeps what has arrived, and reports only what is done.       *)
LEMMA KeptStep ==
  ASSUME WhereInv, WalkInv, KeptInv, [Next]_vars
  PROVE  KeptInv'
<1>t. /\ TypeInv /\ PlaceOK /\ mode \in {"copy", "move", "delete"}
      /\ (Active => cur \in Nodes) /\ reported \subseteq Nodes
      /\ Opened \subseteq Nodes /\ src \in [Nodes -> {"there", "gone"}]
  BY SetsTyped DEF WhereInv, TypeInv, TypeOK
<1>1. CASE UNCHANGED vars
  <2>1. UNCHANGED <<stack, cur, pc, reported, src, mode, made, agreed, skipped,
                    spoilt, lastErrorHandleAction>>
    BY <1>1 DEF vars, files, hist
  <2> QED
    BY <2>1 DEF KeptInv, ArrivedInv, NothingLost, ReportedIsDone, Opened, Arrived,
                Done
<1>2. CASE Working
  <2>1. FileEffects /\ WayOut /\ UNCHANGED <<mode, cur, Opened, reported>>
    BY <1>2, WorkingOnFiles, WorkingEffects, WorkingIsStill DEF Still, Opened
  <2>2. ASSUME pc \in {"transfer", "copying"}
        PROVE  src[cur] = "there" /\ cur \notin reported
    <3>1. Entering /\ cur \in Ahead /\ cur \in Nodes
      BY <1>t, <2>2 DEF Entering, Active, Ahead
    <3> QED
      BY <3>1 DEF WalkInv, Untouched
  <2>3. ASSUME NEW n \in Nodes, src'[n] # src[n], mode # "delete"
        PROVE  Arrived(n)'
    <3>1. made'[n] = "whole" \/ (n = cur /\ pc = "remove")
      BY <2>1, <2>3 DEF FileEffects
    <3>2. CASE n = cur /\ pc = "remove"
      <4>1. Arrived(n) /\ pc \notin {"transfer", "copying"}
        BY <2>3, <3>2 DEF KeptInv, ArrivedInv
      <4> QED
        BY <1>2, <4>1, ArrivedStays
    <3> QED
      BY <3>1, <3>2 DEF Arrived
  <2>4. NothingLost'
    <3>1. ASSUME NEW n \in Nodes, mode = "move", src'[n] = "gone", src[n] = "gone"
          PROVE  Arrived(n)'
      <4>1. Arrived(n)
        BY <3>1 DEF KeptInv, NothingLost
      <4> QED
        BY <1>2, <2>2, <3>1, <4>1, ArrivedStays
    <3>2. mode = "copy" => spoilt' \subseteq skipped'
      BY <2>1 DEF FileEffects, KeptInv, NothingLost
    <3> QED
      BY <2>1, <2>3, <3>1, <3>2 DEF NothingLost
  <2>5. ReportedIsDone'
    <3> SUFFICES ASSUME NEW n \in reported, Kind[n] # "dir"
                 PROVE  /\ mode # "delete" => made'[n] = "whole"
                        /\ mode # "copy" => src'[n] = "gone"
      BY <2>1 DEF ReportedIsDone
    <3>1. n \in Nodes /\ (mode # "delete" => made[n] = "whole")
          /\ (mode # "copy" => src[n] = "gone")
      BY <1>t DEF KeptInv, ReportedIsDone
    <3>2. src'[n] = src[n] \/ src'[n] = "gone"
      BY <1>2, <3>1, WorkingEffects
    <3>3. made[n] = "whole" => made'[n] = "whole"
      BY <2>1, <2>2, <3>1 DEF FileEffects
    <3> QED
      BY <3>1, <3>2, <3>3
  <2>6. ASSUME mode # "delete", NEW d \in Opened
        PROVE  Arrived(d)'
    <3>1. Arrived(d) /\ d \in Nodes
      BY <1>t, <2>6 DEF KeptInv, ArrivedInv
    <3>2. Kind[d] = "dir"
      BY <1>t DEF Opened, TypeInv, StackOK, FramesOK
    <3> QED
      BY <1>2, <3>1, <3>2, ArrivedStays
  <2>7. ASSUME mode # "delete", pc' \in {"enter", "remove"}
        PROVE  Kind[cur] = "dir" /\ Arrived(cur)'
    <3>1. CASE pc' = "enter"
      <4>1. PlaceOK'
        BY <1>t, PlaceStep DEF TypeInv
      <4> QED
        BY <2>1, <2>7, <3>1, <4>1 DEF WayOut, PlaceOK
    <3>2. CASE pc' = "remove"
      <4>1. pc = "remove" /\ Kind[cur] = "dir" /\ Arrived(cur) /\ cur \in Nodes
        BY <1>t, <2>1, <2>7, <3>2 DEF WayOut, KeptInv, ArrivedInv, Active
      <4>2. PICK c \in Nodes : c = cur
        BY <4>1
      <4>3. Arrived(c)'
        BY <1>2, <4>1, <4>2, ArrivedStays
      <4> QED
        BY <2>1, <4>1, <4>2, <4>3 DEF Arrived
    <3> QED
      BY <2>7, <3>1, <3>2
  <2>8. ASSUME pc' = "return", lastErrorHandleAction' # "Skip", Kind[cur] # "dir"
        PROVE  Done(cur)'
    <3>1. mode # "delete" => pc # "remove"
      BY <2>8 DEF KeptInv, ArrivedInv
    <3> QED
      BY <2>1, <2>8, <3>1 DEF WayOut, Done, Arrived
  <2>9. ArrivedInv'
    BY <2>1, <2>6, <2>7, <2>8 DEF ArrivedInv
  <2> QED
    BY <2>4, <2>5, <2>9 DEF KeptInv
<1>3. ASSUME Next, ~Working PROVE KeptInv'
  <2>f. UNCHANGED <<mode, src, made, spoilt, agreed>>
    BY <1>3, WalkLeavesFiles
  <2>1. NothingLost'
    <3>1. skipped \subseteq skipped'
      BY <1>3, StepsOfTheWalk
      DEF Take, Unsupported, Leave, Return, Entered, Enter, GoTo, hist
    <3> QED
      BY <2>f, <3>1 DEF KeptInv, NothingLost, Arrived
  <2>2. ASSUME NEW n \in Nodes, Take(n) PROVE ArrivedInv' /\ ReportedIsDone'
    <3>1. UNCHANGED Opened /\ pc' = "process" /\ UNCHANGED reported
      BY <1>t, <2>2, TakeStep DEF Take, hist
    <3> QED
      BY <1>t, <2>f, <3>1 DEF KeptInv, ArrivedInv, ReportedIsDone, Arrived
  <2>3. CASE Unsupported
    <3>1. UNCHANGED Opened /\ pc' = "loop" /\ UNCHANGED reported
      BY <1>t, <2>3, UnsupportedStep DEF Unsupported
    <3> QED
      BY <1>t, <2>1, <2>f, <3>1 DEF KeptInv, ArrivedInv, ReportedIsDone, Arrived
  <2>4. CASE Leave
    <3>1. /\ Opened' \subseteq Opened /\ cur' \in Opened /\ Kind[cur'] = "dir"
          /\ pc' \in {"return", "remove"} /\ UNCHANGED reported
      BY <1>t, <2>4, LeaveStep DEF Leave, GoTo, hist
    <3> QED
      BY <1>t, <2>1, <2>f, <3>1 DEF KeptInv, ArrivedInv, ReportedIsDone, Arrived
  <2>5. CASE Return
    <3>1. UNCHANGED Opened /\ pc = "return" /\ pc' = "loop"
      BY <1>t, <2>5, ReturnStep DEF Return
    <3>2. \/ reported' = reported
          \/ lastErrorHandleAction # "Skip" /\ reported' = reported \union {cur}
      BY <2>5 DEF Return
    <3>3. lastErrorHandleAction # "Skip" /\ Kind[cur] # "dir" =>
            /\ mode # "delete" => made[cur] = "whole"
            /\ mode # "copy" => src[cur] = "gone"
      BY <3>1 DEF KeptInv, ArrivedInv, Done, Arrived
    <3>4. ReportedIsDone'
      BY <2>f, <3>2, <3>3 DEF KeptInv, ReportedIsDone
    <3> QED
      BY <1>t, <2>1, <2>f, <3>1, <3>4 DEF KeptInv, ArrivedInv, Arrived
  <2>6. CASE Entered
    <3>1. /\ Opened' = Opened \union {cur} /\ cur \in Nodes /\ pc = "enter"
          /\ pc' = "loop" /\ UNCHANGED reported
      BY <1>t, <2>6, EnterStep DEF Entered, Enter, GoTo, hist
    <3> QED
      BY <1>t, <2>1, <2>f, <3>1 DEF KeptInv, ArrivedInv, ReportedIsDone, Arrived
  <2> QED
    BY <1>3, <2>1, <2>2, <2>3, <2>4, <2>5, <2>6, StepsOfTheWalk DEF KeptInv
<1> QED
  BY <1>1, <1>2, <1>3

(* Nothing is taken or reported when the job begins.                       *)
LEMMA KeptInit == Init => KeptInv
<1> SUFFICES ASSUME Init PROVE KeptInv
  OBVIOUS
<1>1. Opened = {}
  BY DEF Init, Opened
<1> QED
  BY <1>1 DEF Init, KeptInv, ArrivedInv, NothingLost, ReportedIsDone

(* What a move has taken from the source is in the target, and a copy does *)
(* not write through a link that it replaces.                              *)
THEOREM LosesNothing == Spec => []NothingLost
<1>1. KeptInv => NothingLost
  BY DEF KeptInv
<1> QED
  BY <1>1, WhereInit, WalkInit, KeptInit, WhereStep, WalkStep, KeptStep, PTL
  DEF Spec

(* A file that is reported as completed is: there as a whole, or gone.     *)
THEOREM ReportsWhatIsDone == Spec => []ReportedIsDone
<1>1. KeptInv => ReportedIsDone
  BY DEF KeptInv
<1> QED
  BY <1>1, WhereInit, WalkInit, KeptInit, WhereStep, WalkStep, KeptStep, PTL
  DEF Spec

-----------------------------------------------------------------------------
(* The walk passes over nothing but what was skipped.                      *)

Within(n) == Below(n) \union {n}

(* A Skip that the loop still remembers belongs to the entry in work or to *)
(* the directory on top.  A directory that is marked has something below   *)
(* it that was skipped.                                                    *)
SkipInv ==
  /\ pc \in {"process", "place", "mkdir", "mkdirAgain", "enter", "remove"} =>
       lastErrorHandleAction # "Skip"
  /\ lastErrorHandleAction = "Skip" =>
       /\ pc \in {"transfer", "copying"} => cur \in skipped
       /\ pc = "return" => Within(cur) \intersect skipped # {}
       /\ pc = "loop" => Head(stack).skip = "yes"
  /\ \A i \in 1..Len(stack) : stack[i].skip = "yes" =>
       stack[i].dir = Top \/ Below(stack[i].dir) \intersect skipped # {}

(* From a place of doProcess() to another a Skip is carried only on to the  *)
(* transfer, and then it is about the entry in work.                       *)
LEMMA SkipKept ==
  ASSUME TypeOK, SkipInv, Working, lastErrorHandleAction' = "Skip",
         pc' \in {"process", "place", "mkdir", "mkdirAgain", "enter", "remove",
                 "transfer", "copying", "loop"}
  PROVE  cur \in skipped' /\ pc' \in {"transfer", "copying"}
<1> USE DEF SkipInv, Ask, GoTo, hist
<1>1. CASE Stopped \/ Finish
  BY <1>1 DEF Stopped, Finish
<1>2. CASE Begin
  BY <1>2 DEF Begin, Unusable, Delete, Unoccupied, Conflict
<1>3. CASE NoSpace \/ Clear \/ ClearFails \/ NoNeedToClear
  BY <1>3 DEF NoSpace, Clear, ClearFails, NoNeedToClear
<1>4. CASE Rename \/ Transferred \/ NotTransferred \/ Link \/ LinkFails
  BY <1>4 DEF Rename, Transferred, NotTransferred, Link, LinkFails
<1>5. CASE RenameDirectory \/ Merge \/ Mkdir \/ MkdirFails
  BY <1>5 DEF RenameDirectory, Merge, Mkdir, MkdirFails
<1>6. CASE Remove \/ RemoveFails
  BY <1>6 DEF Remove, RemoveFails
<1>7. CASE Enter /\ GoTo("failed") /\ UNCHANGED stack
  BY <1>7
<1> QED
  BY <1>1, <1>2, <1>3, <1>4, <1>5, <1>6, <1>7 DEF Working, Transfer

(* Every step keeps the marks.                                             *)
LEMMA SkipStep ==
  ASSUME WhereInv, SkipInv, [Next]_vars
  PROVE  SkipInv'
<1>t. /\ TypeInv /\ TypeOK /\ (Active => cur \in Nodes)
      /\ Len(stack) \in Nat \ {0} /\ Head(stack) = stack[1]
      /\ 1 \in 1..Len(stack)
      /\ \A i \in 1..Len(stack) : stack[i].skip \in {"yes", "no"}
  BY FramesTyped, SetsTyped DEF WhereInv, TypeInv
<1>h. TypeInv' => Head(stack') = stack'[1] /\ Len(stack') \in Nat \ {0}
  BY Popped DEF TypeInv, TypeOK
<1>1. CASE UNCHANGED vars
  BY <1>1 DEF vars, hist, SkipInv
<1>2. CASE Working
  <2>1. FileEffects /\ WayOut /\ UNCHANGED <<stack, cur>> /\ Still
    BY <1>2, WorkingOnFiles, WorkingIsStill DEF Still
  <2>2. skipped \subseteq skipped'
    BY <2>1 DEF FileEffects
  <2>3. ASSUME lastErrorHandleAction' = "Skip", pc' = "return"
        PROVE  Within(cur) \intersect skipped' # {}
    <3>1. cur \in skipped'
      BY <2>1, <2>2, <2>3 DEF WayOut, SkipInv
    <3> QED
      BY <3>1 DEF Within
  <2>4. lastErrorHandleAction' = "Skip" =>
          /\ pc' \notin {"process", "place", "mkdir", "mkdirAgain", "enter",
                         "remove", "loop"}
          /\ pc' \in {"transfer", "copying"} => cur \in skipped'
    BY <1>2, <1>t, SkipKept
  <2> QED
    BY <2>1, <2>2, <2>3, <2>4 DEF SkipInv
<1>3. ASSUME NEW n \in Nodes, Take(n) PROVE SkipInv'
  <2>1. /\ TypeInv' /\ Head(stack').skip = Head(stack).skip
        /\ Head(stack').dir = Head(stack).dir /\ Len(stack') = Len(stack)
        /\ \A i \in 2..Len(stack) : stack'[i] = stack[i]
    BY <1>3, <1>t, TakeStep
  <2>2. lastErrorHandleAction' = "No" /\ UNCHANGED skipped
    BY <1>3 DEF Take, hist
  <2> QED
    BY <1>t, <1>h, <2>1, <2>2 DEF SkipInv
<1>4. CASE Unsupported
  <2>1. /\ TypeInv' /\ Head(stack').skip = Head(stack).skip
        /\ Len(stack') = Len(stack)
        /\ \A i \in 2..Len(stack) : stack'[i] = stack[i]
        /\ skipped \subseteq skipped'
    BY <1>4, <1>t, UnsupportedStep
  <2>2. /\ pc = "loop" /\ UNCHANGED <<pc, lastErrorHandleAction>>
        /\ Len(stack) = 1
    BY <1>4 DEF Unsupported
  <2>3. Head(stack').dir = Top
    BY <1>h, <2>1, <2>2 DEF TypeInv, StackOK, FramesOK
  <2> QED
    BY <1>t, <1>h, <2>1, <2>2, <2>3 DEF SkipInv
<1>5. CASE Leave
  <2>1. /\ cur' = Head(stack).dir /\ cur' \in Opened
        /\ Len(stack') = Len(stack) - 1
        /\ \A i \in 1..Len(stack') : stack'[i] = stack[i + 1]
    BY <1>5, <1>t, LeaveStep
  <2>2. /\ pc = "loop" /\ UNCHANGED <<lastErrorHandleAction, skipped>>
        /\ pc' \in {"return", "remove"}
        /\ Head(stack).skip = "yes" => pc' = "return"
    BY <1>5 DEF Leave, GoTo, hist
  <2>3. \A i \in 1..Len(stack') : i + 1 \in 1..Len(stack)
    BY <1>t, <2>1
  <2>4. lastErrorHandleAction = "Skip" => Below(cur') \intersect skipped # {}
    BY <1>t, <2>1, <2>2 DEF SkipInv, Opened
  <2> QED
    BY <2>1, <2>2, <2>3, <2>4 DEF SkipInv, Within
<1>6. CASE Return
  <2>1. /\ TypeInv' /\ Len(stack') = Len(stack)
        /\ Head(stack').dir = Head(stack).dir
        /\ lastErrorHandleAction = "Skip" => Head(stack').skip = "yes"
        /\ lastErrorHandleAction # "Skip" => Head(stack').skip = Head(stack).skip
        /\ \A i \in 2..Len(stack) : stack'[i] = stack[i]
    BY <1>6, <1>t, ReturnStep
  <2>2. /\ pc = "return" /\ pc' = "loop" /\ cur \in Nodes
        /\ UNCHANGED <<lastErrorHandleAction, skipped>>
    BY <1>6, <1>t DEF Return, Active
  <2>3. ASSUME lastErrorHandleAction = "Skip", Head(stack).dir # Top
        PROVE  Below(Head(stack).dir) \intersect skipped # {}
    <3>1. PICK k \in Within(cur) : k \in skipped
      BY <2>2, <2>3 DEF SkipInv
    <3>2. Parent[cur] = Head(stack).dir
      BY <1>t, <2>2 DEF TypeInv, StackOK, Active
    <3>3. Head(stack).dir \in Above[cur]
      BY <2>2, <2>3, <3>2, AboveUnfolds
    <3>4. k \in Nodes /\ Head(stack).dir \in Above[k]
      BY <2>2, <3>1, <3>3, AboveGoesOn DEF Within, Below
    <3> QED
      BY <3>1, <3>4 DEF Below
  <2>4. Head(stack').skip = "yes" =>
          Head(stack').dir = Top \/ Below(Head(stack').dir) \intersect skipped # {}
    BY <1>t, <2>1, <2>3 DEF SkipInv
  <2> QED
    BY <1>t, <1>h, <2>1, <2>2, <2>4 DEF SkipInv
<1>7. CASE Entered
  <2>1. /\ TypeInv' /\ Len(stack') = Len(stack) + 1 /\ Head(stack').skip = "no"
        /\ \A i \in 1..Len(stack) : stack'[i + 1] = stack[i]
    BY <1>7, <1>t, EnterStep DEF WhereInv
  <2>2. /\ pc = "enter" /\ pc' = "loop"
        /\ UNCHANGED <<lastErrorHandleAction, skipped>>
    BY <1>7 DEF Entered, Enter, GoTo, hist
  <2>3. ASSUME NEW i \in 1..Len(stack')
        PROVE  i = 1 \/ (i - 1 \in 1..Len(stack) /\ stack'[i] = stack[i - 1])
    <3>1. i # 1 => i - 1 \in 1..Len(stack) /\ (i - 1) + 1 = i
      BY <1>t, <2>1
    <3> QED
      BY <2>1, <3>1
  <2> QED
    BY <1>h, <2>1, <2>2, <2>3 DEF SkipInv
<1> QED
  BY <1>1, <1>2, <1>3, <1>4, <1>5, <1>6, <1>7, StepsOfTheWalk

(* What was skipped excuses itself, what is below it, and what is above it. *)
Excused(n) == (Above[n] \union {n} \union Below(n)) \intersect skipped # {}

(* An entry is done, excused, still to come, or its directory is open.     *)
Covered(n) ==
  \/ Done(n) \/ Excused(n)
  \/ \E m \in Ahead : m = n \/ m \in Above[n]
  \/ n \in Opened
  \/ n = cur /\ pc \in {"remove", "return"}

CoverInv ==
  /\ pc # "failed" => \A n \in Nodes : Covered(n)
  /\ pc = "return" => Done(cur) \/ Excused(cur)
  /\ pc = "finished" => Here = {} /\ Len(stack) = 1

(* An entry that the job turns away from was skipped, has nothing below it, *)
(* or was renamed with all that is.                                        *)
LEMMA TurnedAway ==
  ASSUME WhereInv, SkipInv, Working, Entering, ~Entering', pc' # "failed",
         NEW n \in Below(cur)
  PROVE  Done(n)' \/ cur \in skipped'
<1>1. /\ WayOut /\ UNCHANGED mode /\ pc' \notin {"loop", "finished"}
      /\ Active /\ cur \in Nodes /\ n \in Nodes /\ cur \in Above[n]
  BY WorkingOnFiles, WorkingIsStill
  DEF Still, WhereInv, TypeInv, TypeOK, Entering, Active, Below
<1>2. Kind[cur] = "dir"
  BY <1>1, DirectoriesAreAbove
<1>3. pc \notin {"transfer", "copying"}
  BY <1>2 DEF WhereInv, PlaceOK
<1>4. pc' \in {"remove", "return"}
  <2>1. TypeOK'
    BY WorkingTyped DEF WhereInv, TypeInv
  <2> QED
    BY <1>1, <2>1 DEF TypeOK, Entering
<1>5. pc' # "remove"
  BY <1>1, <1>2 DEF WayOut, Entering
<1> QED
  BY <1>1, <1>3, <1>4, <1>5 DEF WayOut, Done, Arrived, Entering

(* Every step keeps every entry covered.                                   *)
LEMMA CoverStep ==
  ASSUME WhereInv, WalkInv, KeptInv, SkipInv, CoverInv, [Next]_vars
  PROVE  CoverInv'
<1>t. /\ TypeInv /\ TypeOK /\ (Active => cur \in Nodes)
      /\ mode \in {"copy", "move", "delete"}
      /\ Opened \subseteq Nodes /\ Ahead \subseteq Nodes
  BY SetsTyped DEF WhereInv, TypeInv, TypeOK
<1>1. CASE UNCHANGED vars
  <2>1. UNCHANGED <<stack, cur, pc, src, mode, made, agreed, skipped>>
    BY <1>1 DEF vars, files, hist
  <2> QED
    BY <2>1 DEF CoverInv, Covered, Done, Arrived, Excused, Ahead, Todo, Here, Rest,
                Opened, Entering
<1>2. CASE Working
  <2>1. /\ FileEffects /\ WayOut /\ Still
        /\ UNCHANGED <<mode, cur, stack, Todo, Here, Opened>>
        /\ skipped \subseteq skipped'
    BY <1>2, WorkingOnFiles, WorkingIsStill
    DEF Still, FileEffects, Todo, Here, Rest, Opened
  <2>2. pc' = "finished" => Here = {} /\ Len(stack) = 1
    BY <2>1 DEF Still, Active, CoverInv
  <2>3. ASSUME pc' = "return" PROVE Done(cur)' \/ Excused(cur)'
    <3>1. Active /\ cur \in Nodes
      BY <1>t, <2>1, <2>3 DEF Still
    <3>2. CASE lastErrorHandleAction' = "Skip"
      <4>1. SkipInv'
        BY SkipStep
      <4> QED
        BY <2>3, <3>2, <4>1 DEF SkipInv, Within, Excused
    <3>3. CASE lastErrorHandleAction' # "Skip"
      <4>1. /\ mode # "delete" => made'[cur] = "whole" \/ pc = "remove"
            /\ mode # "copy" => src'[cur] = "gone"
        BY <2>1, <2>3, <3>3 DEF WayOut
      <4>2. ASSUME pc = "remove", mode # "delete" PROVE Arrived(cur)'
        <5>1. Arrived(cur)
          BY <4>2 DEF KeptInv, ArrivedInv
        <5>2. PICK c \in Nodes : c = cur
          BY <3>1
        <5>3. Arrived(c)'
          BY <1>2, <4>2, <5>1, <5>2, ArrivedStays
        <5> QED
          BY <2>1, <5>2, <5>3 DEF Arrived
      <4> QED
        BY <2>1, <4>1, <4>2 DEF Done, Arrived
    <3> QED
      BY <3>2, <3>3
  <2>4. ASSUME pc' # "failed", NEW n \in Nodes PROVE Covered(n)'
    <3>1. pc # "failed"
      BY <2>1 DEF Still, Active
    <3>2. ASSUME n = cur, Active PROVE Covered(n)'
      <4>1. TypeOK' /\ pc' \notin {"loop", "finished"}
        BY <1>2, <1>t, <2>1, <3>2, WorkingTyped DEF Still, Active
      <4>2. Entering' \/ pc' \in {"remove", "return"}
        BY <2>4, <4>1 DEF TypeOK, Entering
      <4> QED
        BY <2>1, <3>2, <4>2 DEF Covered, Ahead
    <3>3. CASE Done(n)
      <4>1. src'[n] = src[n] \/ src'[n] = "gone"
        BY <1>2, WorkingEffects
      <4>2. Arrived(n) => Arrived(n)' \/ (n = cur /\ Active)
        BY <1>2, ArrivedStays DEF Active
      <4>3. Done(n)' \/ (n = cur /\ Active)
        BY <2>1, <3>3, <4>1, <4>2 DEF Done
      <4> QED
        BY <3>2, <4>3 DEF Covered
    <3>4. CASE Excused(n)
      BY <2>1, <3>4 DEF Excused, Covered
    <3>5. ASSUME NEW m \in Ahead, m = n \/ m \in Above[n]
          PROVE  Covered(n)'
      <4>1. CASE m \in Ahead'
        BY <3>5, <4>1 DEF Covered
      <4>2. CASE m \notin Ahead'
        <5>1. Entering /\ ~Entering' /\ m = cur /\ Active
          BY <2>1, <3>5, <4>2 DEF Ahead, Entering, Active
        <5>2. CASE m \in Above[n]
          <6>1. n \in Below(cur)
            BY <5>1, <5>2 DEF Below
          <6>2. Done(n)' \/ cur \in skipped'
            BY <1>2, <2>4, <5>1, <6>1, TurnedAway
          <6> QED
            BY <5>1, <5>2, <6>2 DEF Covered, Excused
        <5> QED
          BY <3>2, <3>5, <5>1, <5>2
      <4> QED
        BY <4>1, <4>2
    <3>6. CASE n \in Opened
      BY <2>1, <3>6 DEF Covered
    <3>7. CASE n = cur /\ pc \in {"remove", "return"}
      BY <3>2, <3>7 DEF Active
    <3> QED
      BY <3>1, <3>3, <3>4, <3>5, <3>6, <3>7 DEF CoverInv, Covered
  <2> QED
    BY <2>1, <2>2, <2>3, <2>4 DEF CoverInv
<1>3. ASSUME Next, ~Working PROVE CoverInv'
  <2>f. UNCHANGED <<mode, src, made, spoilt, agreed>>
    BY <1>3, WalkLeavesFiles
  <2>s. skipped \subseteq skipped'
    BY <1>3, StepsOfTheWalk
    DEF Take, Unsupported, Leave, Return, Entered, Enter, GoTo, hist
  <2>d. ASSUME NEW n \in Nodes
        PROVE  /\ Done(n) => Done(n)'
               /\ Excused(n) => Excused(n)'
    BY <2>f, <2>s DEF Done, Arrived, Excused
  <2>c. pc # "failed" => \A n \in Nodes : Covered(n)
    BY DEF CoverInv
  <2>1. ASSUME NEW n \in Nodes, Take(n) PROVE CoverInv'
    <3>1. n \in Here /\ Here' = Here \ {n} /\ UNCHANGED <<Rest, Opened>>
      BY <1>t, <2>1, TakeStep
    <3>2. pc = "loop" /\ pc' = "process" /\ cur' = n
      BY <2>1 DEF Take
    <3>3. Ahead' = Ahead
      BY <3>1, <3>2 DEF Ahead, Todo, Entering
    <3>4. ASSUME NEW k \in Nodes PROVE Covered(k)'
      BY <2>c, <2>d, <3>1, <3>2, <3>3 DEF Covered
    <3> QED
      BY <3>2, <3>4 DEF CoverInv
  <2>2. CASE Unsupported
    <3>1. PICK n \in Here : Here' = Here \ {n} /\ skipped' = skipped \union {n}
      BY <1>t, <2>2, UnsupportedStep
    <3>2. UNCHANGED <<Rest, Opened, pc>> /\ pc = "loop"
      BY <1>t, <2>2, UnsupportedStep DEF Unsupported
    <3>3. Ahead \subseteq Ahead' \union {n}
      BY <3>1, <3>2 DEF Ahead, Todo, Entering
    <3>4. ASSUME NEW k \in Nodes PROVE Covered(k)'
      BY <2>c, <2>d, <3>1, <3>2, <3>3 DEF Covered, Excused
    <3> QED
      BY <3>2, <3>4 DEF CoverInv
  <2>3. CASE Leave
    <3>1. /\ Here = {} /\ Here' \union Rest' = Rest
          /\ Opened \subseteq Opened' \union {cur'}
          /\ cur' \in Opened /\ cur' = Head(stack).dir
      BY <1>t, <2>3, LeaveStep
    <3>2. /\ pc = "loop" /\ pc' \in {"return", "remove"}
          /\ pc' = "return" => mode = "copy" \/ Head(stack).skip = "yes"
      BY <2>3 DEF Leave, GoTo
    <3>3. Ahead' = Ahead
      BY <3>1, <3>2 DEF Ahead, Todo, Entering
    <3>4. ASSUME NEW k \in Nodes PROVE Covered(k)'
      BY <2>c, <2>d, <3>1, <3>2, <3>3 DEF Covered
    <3>5. PICK d \in Nodes : d = cur'
      BY <1>t, <3>1
    <3>6. ASSUME pc' = "return" PROVE Done(d) \/ Excused(d)
      <4>1. CASE mode = "copy"
        BY <3>1, <3>5, <4>1 DEF KeptInv, ArrivedInv, Done
      <4>2. CASE Head(stack).skip = "yes"
        <5>1. /\ Head(stack) = stack[1] /\ 1 \in 1..Len(stack)
              /\ Head(stack).dir # Top
          BY <1>t, <3>1, FramesTyped DEF Opened
        <5> QED
          BY <3>1, <3>5, <4>2, <5>1 DEF SkipInv, Excused
      <4> QED
        BY <3>2, <3>6, <4>1, <4>2
    <3>7. pc' = "return" => Done(cur)' \/ Excused(cur)'
      BY <2>d, <3>5, <3>6 DEF Done, Arrived, Excused
    <3> QED
      BY <3>2, <3>4, <3>7 DEF CoverInv
  <2>4. CASE Return
    <3>1. UNCHANGED <<Here, Rest, Opened>>
      BY <1>t, <2>4, ReturnStep
    <3>2. pc = "return" /\ pc' = "loop" /\ cur' = cur
      BY <2>4 DEF Return
    <3>3. Ahead' = Ahead
      BY <3>1, <3>2 DEF Ahead, Todo, Entering
    <3>4. ASSUME NEW k \in Nodes PROVE Covered(k)'
      <4>1. k = cur => Done(k) \/ Excused(k)
        BY <3>2 DEF CoverInv
      <4> QED
        BY <2>c, <2>d, <3>1, <3>2, <3>3, <4>1 DEF Covered
    <3> QED
      BY <3>2, <3>4 DEF CoverInv
  <2>5. CASE Entered
    <3>1. /\ cur \in Nodes /\ Here' = {n \in Children(cur) : src[n] = "there"}
          /\ Rest' = Here \union Rest /\ Opened' = Opened \union {cur}
      BY <1>t, <2>5, EnterStep DEF WhereInv
    <3>2. pc = "enter" /\ pc' = "loop"
      BY <2>5 DEF Entered, Enter, GoTo
    <3>3. /\ Ahead = Todo \union {cur} /\ Todo \subseteq Ahead'
          /\ Here' \subseteq Ahead' /\ cur \in Ahead
      BY <3>1, <3>2 DEF Ahead, Todo, Entering
    <3>4. ASSUME NEW k \in Nodes, cur \in Above[k]
          PROVE  \E m \in Ahead' : m = k \/ m \in Above[k]
      <4>1. PICK c \in Nodes : Parent[c] = cur /\ (c = k \/ c \in Above[k])
        BY <3>4, BelowAnEntry
      <4>2. cur \in Above[c]
        BY <3>1, <4>1, AboveUnfolds, CopyTreeAssumption
      <4>3. src[c] = "there"
        BY <3>3, <4>2 DEF WalkInv, Untouched
      <4> QED
        BY <3>1, <3>3, <4>1, <4>3 DEF Children
    <3>5. ASSUME NEW k \in Nodes PROVE Covered(k)'
      BY <2>c, <2>d, <3>1, <3>2, <3>3, <3>4 DEF Covered
    <3> QED
      BY <3>2, <3>5 DEF CoverInv
  <2> QED
    BY <1>3, <2>1, <2>2, <2>3, <2>4, <2>5, StepsOfTheWalk
<1> QED
  BY <1>1, <1>2, <1>3

(* Every entry is a source or below one, so all are still to come.         *)
LEMMA CoverInit == Init => SkipInv /\ CoverInv
<1> SUFFICES ASSUME Init PROVE SkipInv /\ CoverInv
  OBVIOUS
<1> DEFINE f == [dir |-> Top, todo |-> Children(Top), skip |-> "no"]
<1>1. stack = <<f>> /\ f.todo = Children(Top) /\ f.dir = Top
  BY DEF Init
<1> HIDE DEF f
<1>2. Len(stack) = 1 /\ Head(stack) = f /\ stack[1] = f
  BY <1>1
<1>3. SkipInv
  BY <1>1, <1>2 DEF Init, SkipInv
<1>4. Children(Top) \subseteq Ahead
  BY <1>1, <1>2 DEF Here, Todo, Ahead
<1>5. ASSUME NEW n \in Nodes PROVE Covered(n)
  <2>1. PICK a \in Above[n] \union {n} : Parent[a] = Top
    BY EntriesHaveSources
  <2>2. a \in Children(Top)
    BY <2>1, AboveIsClosed DEF Children
  <2> QED
    BY <1>4, <2>1, <2>2 DEF Covered
<1> QED
  BY <1>3, <1>5 DEF Init, CoverInv

(* A job that goes through has transferred every entry, and emptied the    *)
(* source of a move, but for what was skipped, below it or above it.       *)
THEOREM WalkIsComplete == Spec => []CompleteUnlessSkipped
<1>1. WhereInv /\ CoverInv => CompleteUnlessSkipped
  <2> SUFFICES ASSUME WhereInv, CoverInv, pc = "finished", NEW n \in Nodes,
                      ~Excused(n)
               PROVE  Done(n)
    BY DEF CompleteUnlessSkipped, Excused, Done
  <2>1. TypeInv /\ Here = {} /\ Len(stack) = 1
    BY DEF WhereInv, CoverInv
  <2>2. Rest = {}
    BY <2>1 DEF Rest
  <2>3. Opened = {}
    BY <2>1 DEF TypeInv, StackOK, FramesOK, Opened
  <2>4. Ahead = {}
    BY <2>1, <2>2 DEF Ahead, Todo, Entering
  <2> QED
    BY <2>3, <2>4 DEF CoverInv, Covered
<1> QED
  BY <1>1, WhereInit, WalkInit, KeptInit, CoverInit,
     WhereStep, WalkStep, KeptStep, SkipStep, CoverStep, PTL
  DEF Spec

=============================================================================
