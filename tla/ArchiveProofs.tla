--------------------------- MODULE ArchiveProofs ---------------------------
(***************************************************************************)
(* Theorems about the walk through an archive and what is nested in it, of *)
(* the worker's run in Analysis: for every layout, any depth and any cap.  *)
(***************************************************************************)
EXTENDS AnalysisProofs

-----------------------------------------------------------------------------
(* The children of each directory.                                         *)

\* How many of a list of children are from the directory.
CountIn(list, dir) == Cardinality({i \in 1..Len(list) : list[i].dir = dir})

\* The calls of _collect_children, the files of each directory and the list: every file is on
\* the list or still to come in the one call that walks its directory, unless the list was
\* `full` when that call ended.
Book(calling, files, list, full) ==
  /\ \A i \in 1..Len(calling) :
       /\ calling[i].dir \in DOMAIN files
       /\ CountIn(list, calling[i].dir) + Len(calling[i].rest) = Len(files[calling[i].dir])
  /\ \A i, j \in 1..Len(calling) : calling[i].dir = calling[j].dir => i = j
  /\ \A dir \in DOMAIN files :
       /\ dir \in Nat \X Nat /\ dir[2] <= Len(list)
       /\ CountIn(list, dir) <= Len(files[dir])
       /\ \/ full
          \/ CountIn(list, dir) = Len(files[dir])
          \/ \E i \in 1..Len(calling) : calling[i].dir = dir
  /\ \A i \in 1..Len(list) : list[i].dir \in DOMAIN files

ListFull == "cap" \in cut

BookInv ==
  /\ Book(stack, disk, children, ListFull)
  /\ unpack = "idle" => disk = <<>> /\ stack = <<>> /\ children = <<>>
  /\ unpack = "done" => stack = <<>>

LEMMA CountAppend ==
  ASSUME NEW list \in Seq(Listed), NEW child \in Listed, NEW dir
  PROVE  /\ CountIn(list, dir) \in Nat
         /\ CountIn(Append(list, child), dir)
              = IF child.dir = dir THEN CountIn(list, dir) + 1 ELSE CountIn(list, dir)
<1> DEFINE longer == Append(list, child)
           old == {i \in 1..Len(list) : list[i].dir = dir}
           new == {i \in 1..Len(longer) : longer[i].dir = dir}
<1>1. /\ Len(list) \in Nat /\ Len(longer) = Len(list) + 1 /\ longer[Len(list) + 1] = child
      /\ \A i \in 1..Len(list) : longer[i] = list[i]
  OBVIOUS
<1> HIDE DEF longer
<1>2. IsFiniteSet(1..Len(list)) /\ old \in SUBSET (1..Len(list))
  BY <1>1, FS_Interval
<1>3. IsFiniteSet(old) /\ Cardinality(old) \in Nat
  BY <1>2, FS_Subset, FS_CardinalityType
<1>4. CASE child.dir = dir
  <2>1. new = old \cup {Len(list) + 1}
    BY <1>1, <1>4
  <2>2. Len(list) + 1 \notin old
    BY <1>1
  <2>3. Cardinality(new) = Cardinality(old) + 1
    BY <1>3, <2>1, <2>2, FS_AddElement
  <2> QED
    BY <1>3, <1>4, <2>3 DEF CountIn, longer
<1>5. CASE child.dir # dir
  <2>1. new = old
    BY <1>1, <1>5
  <2> QED
    BY <1>3, <1>5, <2>1 DEF CountIn, longer
<1> QED
  BY <1>4, <1>5

LEMMA CountIsNat ==
  ASSUME NEW list \in Seq(Listed), NEW dir
  PROVE  CountIn(list, dir) \in Nat
<1>1. Len(list) \in Nat /\ IsFiniteSet(1..Len(list))
  BY FS_Interval
<1>2. IsFiniteSet({i \in 1..Len(list) : list[i].dir = dir})
  BY <1>1, FS_Subset
<1> QED
  BY <1>2, FS_CardinalityType DEF CountIn

\* A list that is full is no longer held against the calls.
LEMMA BookIsMonotone ==
  ASSUME NEW calling, NEW files, NEW list, NEW full, NEW capped, full => capped,
         Book(calling, files, list, full)
  PROVE  Book(calling, files, list, capped)
BY DEF Book

\* A directory none of the children is from.
LEMMA CountOfNew ==
  ASSUME NEW list \in Seq(Listed), NEW dir, \A i \in 1..Len(list) : list[i].dir # dir
  PROVE  CountIn(list, dir) = 0
<1>1. {i \in 1..Len(list) : list[i].dir = dir} = {}
  OBVIOUS
<1> QED
  BY <1>1, FS_EmptySet DEF CountIn

LEMMA FrameRest == \A frame \in Frames : Len(frame.rest) \in Nat
<1> SUFFICES ASSUME NEW frame \in Frames PROVE Len(frame.rest) \in Nat
  OBVIOUS
<1>1. frame.rest \in Seq(Entries)
  BY DEF Frames
<1> QED
  BY <1>1

\* The file at the head of the innermost call goes on the list.
LEMMA BookAfterFile ==
  ASSUME NEW calling \in Seq(Frames), NEW files, files \in [DOMAIN files -> Seq(Entries)],
         NEW list \in Seq(Listed), NEW full, Book(calling, files, list, full), Len(calling) > 0,
         NEW later \in Seq(Frames), Len(later) = Len(calling),
         later[1].dir = calling[1].dir, Len(later[1].rest) = Len(calling[1].rest) - 1,
         \A i \in 2..Len(calling) : later[i] = calling[i],
         NEW child \in Listed, child.dir = calling[1].dir
  PROVE  Book(later, files, Append(list, child), full)
<1> DEFINE longer == Append(list, child)
           top == calling[1].dir
<1>1. /\ Len(list) \in Nat /\ Len(longer) = Len(list) + 1 /\ longer[Len(list) + 1] = child
      /\ \A i \in 1..Len(list) : longer[i] = list[i]
  OBVIOUS
<1>2. \A dir : /\ CountIn(list, dir) \in Nat
               /\ CountIn(longer, dir) = IF dir = top THEN CountIn(list, dir) + 1
                                         ELSE CountIn(list, dir)
  BY CountAppend
<1> HIDE DEF longer
<1>3. /\ 1 \in 1..Len(calling) /\ Len(calling) \in Nat /\ top \in DOMAIN files
      /\ CountIn(list, top) + Len(calling[1].rest) = Len(files[top])
      /\ Len(calling[1].rest) \in Nat /\ Len(later[1].rest) \in Nat
  <2>1. 1 \in 1..Len(calling) /\ Len(calling) \in Nat
    OBVIOUS
  <2>2. calling[1] \in Frames /\ later[1] \in Frames
    BY <2>1
  <2>3. Len(calling[1].rest) \in Nat /\ Len(later[1].rest) \in Nat
    BY <2>2, FrameRest
  <2>4. /\ calling[1].dir \in DOMAIN files
        /\ CountIn(list, calling[1].dir) + Len(calling[1].rest) = Len(files[calling[1].dir])
    BY <2>1 DEF Book
  <2> QED
    BY <2>1, <2>3, <2>4
<1>4. \A i \in 1..Len(later) : later[i].dir = calling[i].dir
  <2> SUFFICES ASSUME NEW i \in 1..Len(later) PROVE later[i].dir = calling[i].dir
    OBVIOUS
  <2>1. i = 1 \/ i \in 2..Len(calling)
    BY <1>3
  <2> QED
    BY <2>1
<1>5. ASSUME NEW i \in 1..Len(later)
      PROVE  /\ later[i].dir \in DOMAIN files
             /\ CountIn(longer, later[i].dir) + Len(later[i].rest) = Len(files[later[i].dir])
  <2>1. CASE i = 1
    <3>1. later[i].dir = top /\ Len(later[i].rest) = Len(calling[1].rest) - 1
      BY <2>1
    <3>2. CountIn(longer, top) = CountIn(list, top) + 1 /\ CountIn(list, top) \in Nat
      BY <1>2
    <3> HIDE DEF top
    <3> QED
      BY <1>3, <3>1, <3>2
  <2>2. CASE i # 1
    <3>1. i \in 2..Len(calling) /\ i \in 1..Len(calling) /\ later[i] = calling[i]
      BY <1>3, <2>2
    <3>2. calling[i].dir # top
      BY <1>3, <2>2, <3>1 DEF Book
    <3>3. /\ calling[i].dir \in DOMAIN files
          /\ CountIn(list, calling[i].dir) + Len(calling[i].rest) = Len(files[calling[i].dir])
      BY <3>1 DEF Book
    <3> QED
      BY <1>2, <3>1, <3>2, <3>3
  <2> QED
    BY <2>1, <2>2
<1>6. \A i, j \in 1..Len(later) : later[i].dir = later[j].dir => i = j
  BY <1>4 DEF Book
<1>7. ASSUME NEW dir \in DOMAIN files
      PROVE  /\ dir \in Nat \X Nat /\ dir[2] <= Len(longer)
             /\ CountIn(longer, dir) <= Len(files[dir])
             /\ \/ full
                \/ CountIn(longer, dir) = Len(files[dir])
                \/ \E i \in 1..Len(later) : later[i].dir = dir
  <2>1. dir \in Nat \X Nat /\ dir[2] <= Len(list) /\ dir[2] \in Nat
    BY DEF Book
  <2>2. CASE dir = top
    <3>1. 1 \in 1..Len(later) /\ later[1].dir = dir
      BY <1>3, <2>2
    <3>2. CountIn(longer, dir) + Len(later[1].rest) = Len(files[dir])
      BY <1>5, <3>1
    <3>3. CountIn(longer, dir) = CountIn(list, dir) + 1 /\ CountIn(list, dir) \in Nat
      BY <1>2, <2>2
    <3>4. CountIn(longer, dir) <= Len(files[dir])
      BY <1>3, <3>2, <3>3
    <3> QED
      BY <1>1, <2>1, <3>1, <3>4
  <2>3. CASE dir # top
    <3>1. \/ full
          \/ CountIn(list, dir) = Len(files[dir])
          \/ \E i \in 1..Len(calling) : calling[i].dir = dir
      BY DEF Book
    <3>2. CountIn(list, dir) <= Len(files[dir])
      BY DEF Book
    <3>3. CountIn(longer, dir) = CountIn(list, dir)
      BY <1>2, <2>3
    <3>4. (\E i \in 1..Len(calling) : calling[i].dir = dir)
            => \E i \in 1..Len(later) : later[i].dir = dir
      BY <1>4
    <3>5. dir[2] <= Len(longer)
      BY <1>1, <2>1
    <3> QED
      BY <2>1, <3>1, <3>2, <3>3, <3>4, <3>5
  <2> QED
    BY <2>2, <2>3
<1>8. \A i \in 1..Len(longer) : longer[i].dir \in DOMAIN files
  <2> SUFFICES ASSUME NEW i \in 1..Len(longer) PROVE longer[i].dir \in DOMAIN files
    OBVIOUS
  <2>1. i \in 1..Len(list) \/ i = Len(list) + 1
    BY <1>1
  <2> QED
    BY <1>1, <1>3, <2>1 DEF Book
<1>9. Book(later, files, longer, full)
  BY <1>5, <1>6, <1>7, <1>8 DEF Book
<1> QED
  BY <1>9 DEF longer

\* A directory of its own for what an extraction leaves, and a call for it if that is anything.
LEMMA BookAfterExtract ==
  ASSUME NEW calling \in Seq(Frames), NEW files, files \in [DOMAIN files -> Seq(Entries)],
         NEW list \in Seq(Listed), NEW full, Book(calling, files, list, full),
         NEW dir \in Nat \X Nat, dir \notin DOMAIN files, dir[2] <= Len(list),
         NEW found \in Seq(Entries),
         NEW more, DOMAIN more = DOMAIN files \cup {dir}, more[dir] = found,
         \A d \in DOMAIN files : more[d] = files[d],
         NEW frame \in Frames, frame.dir = dir, frame.rest = found,
         NEW later, \/ later = <<frame>> \o calling
                    \/ later = calling /\ Len(found) = 0
  PROVE  Book(later, more, list, full)
<1>1. /\ DOMAIN more = DOMAIN files \cup {dir} /\ more[dir] = found
      /\ \A d \in DOMAIN files : more[d] = files[d] /\ d # dir
  OBVIOUS
<1>2. CountIn(list, dir) = 0
  <2>1. \A i \in 1..Len(list) : list[i].dir # dir
    BY DEF Book
  <2> QED
    BY <2>1, CountOfNew
<1>3. \A i \in 1..Len(list) : list[i].dir \in DOMAIN more
  BY <1>1 DEF Book
<1>4. \A i \in 1..Len(calling) : calling[i].dir # dir
  BY DEF Book
<1>5. CASE later = calling /\ Len(found) = 0
  <2>1. \A i \in 1..Len(calling) :
          /\ calling[i].dir \in DOMAIN more
          /\ CountIn(list, calling[i].dir) + Len(calling[i].rest) = Len(more[calling[i].dir])
    BY <1>1 DEF Book
  <2>2. \A d \in DOMAIN more :
          /\ d \in Nat \X Nat /\ d[2] <= Len(list)
          /\ CountIn(list, d) <= Len(more[d])
          /\ \/ full
             \/ CountIn(list, d) = Len(more[d])
             \/ \E i \in 1..Len(calling) : calling[i].dir = d
    <3> SUFFICES ASSUME NEW d \in DOMAIN more
                 PROVE  /\ d \in Nat \X Nat /\ d[2] <= Len(list)
                        /\ CountIn(list, d) <= Len(more[d])
                        /\ \/ full
                           \/ CountIn(list, d) = Len(more[d])
                           \/ \E i \in 1..Len(calling) : calling[i].dir = d
      OBVIOUS
    <3>1. CASE d = dir
      BY <1>1, <1>2, <1>5, <3>1
    <3>2. CASE d # dir
      BY <1>1, <3>2 DEF Book
    <3> QED
      BY <3>1, <3>2
  <2>3. \A i, j \in 1..Len(calling) : calling[i].dir = calling[j].dir => i = j
    BY DEF Book
  <2>4. Book(calling, more, list, full)
    BY <1>3, <2>1, <2>2, <2>3 DEF Book
  <2> QED
    BY <1>5, <2>4
<1>6. CASE later = <<frame>> \o calling
  <2>1. /\ Len(later) = Len(calling) + 1 /\ Len(calling) \in Nat /\ later[1] = frame
        /\ \A i \in 1..Len(calling) : later[i + 1] = calling[i]
    BY <1>6
  <2>2. \A i \in 1..Len(later) :
          i = 1 \/ (i - 1 \in 1..Len(calling) /\ later[i] = calling[i - 1])
    <3> SUFFICES ASSUME NEW i \in 1..Len(later), i # 1
                 PROVE  i - 1 \in 1..Len(calling) /\ later[i] = calling[i - 1]
      OBVIOUS
    <3>1. i - 1 \in 1..Len(calling) /\ i = (i - 1) + 1
      BY <2>1
    <3> QED
      BY <2>1, <3>1
  <2>3. ASSUME NEW i \in 1..Len(later)
        PROVE  /\ later[i].dir \in DOMAIN more
               /\ CountIn(list, later[i].dir) + Len(later[i].rest) = Len(more[later[i].dir])
    <3>1. CASE i = 1
      <4>1. later[i].dir = dir /\ later[i].rest = found /\ Len(found) \in Nat
        BY <2>1, <3>1
      <4> QED
        BY <1>1, <1>2, <4>1
    <3>2. CASE i # 1
      <4>1. i - 1 \in 1..Len(calling) /\ later[i] = calling[i - 1]
        BY <2>2, <3>2
      <4> QED
        BY <1>1, <4>1 DEF Book
    <3> QED
      BY <3>1, <3>2
  <2>4. ASSUME NEW i \in 1..Len(later), NEW j \in 1..Len(later), later[i].dir = later[j].dir
        PROVE  i = j
    <3>1. CASE i = 1 \/ j = 1
      <4>1. \A m \in 1..Len(later) : m # 1 => later[m].dir # dir
        BY <1>4, <2>2
      <4>2. later[1].dir = dir
        BY <2>1
      <4> QED
        BY <2>4, <3>1, <4>1, <4>2
    <3>2. CASE i # 1 /\ j # 1
      <4>1. /\ i - 1 \in 1..Len(calling) /\ later[i] = calling[i - 1]
            /\ j - 1 \in 1..Len(calling) /\ later[j] = calling[j - 1]
        BY <2>2, <3>2
      <4>2. \A m, n \in 1..Len(calling) : calling[m].dir = calling[n].dir => m = n
        BY DEF Book
      <4>3. calling[i - 1].dir = calling[j - 1].dir
        BY <2>4, <4>1
      <4>4. i - 1 = j - 1
        BY <4>1, <4>2, <4>3
      <4> QED
        BY <4>4
    <3> QED
      BY <3>1, <3>2
  <2>5. ASSUME NEW d \in DOMAIN more
        PROVE  /\ d \in Nat \X Nat /\ d[2] <= Len(list)
               /\ CountIn(list, d) <= Len(more[d])
               /\ \/ full
                  \/ CountIn(list, d) = Len(more[d])
                  \/ \E i \in 1..Len(later) : later[i].dir = d
    <3>1. CASE d = dir
      <4>1. 1 \in 1..Len(later) /\ later[1].dir = d /\ Len(found) \in Nat
        BY <2>1, <3>1
      <4> QED
        BY <1>1, <1>2, <3>1, <4>1
    <3>2. CASE d # dir
      <4>1. /\ d \in DOMAIN files /\ more[d] = files[d]
            /\ \/ full
               \/ CountIn(list, d) = Len(files[d])
               \/ \E i \in 1..Len(calling) : calling[i].dir = d
        BY <1>1, <3>2 DEF Book
      <4>2. \A i \in 1..Len(calling) : i + 1 \in 1..Len(later) /\ later[i + 1] = calling[i]
        BY <2>1
      <4>3. d \in Nat \X Nat /\ d[2] <= Len(list) /\ CountIn(list, d) <= Len(files[d])
        BY <4>1 DEF Book
      <4> QED
        BY <4>1, <4>2, <4>3
    <3> QED
      BY <3>1, <3>2
  <2> QED
    BY <1>3, <2>3, <2>4, <2>5 DEF Book
<1> QED
  BY <1>5, <1>6

\* A call ends with its last file, or with the list full.
LEMMA BookAfterReturn ==
  ASSUME NEW calling \in Seq(Frames), Len(calling) > 0,
         NEW files, NEW list \in Seq(Listed), NEW full, Book(calling, files, list, full),
         NEW capped, full => capped, capped \/ Len(calling[1].rest) = 0,
         NEW later, later = Tail(calling)
  PROVE  Book(later, files, list, capped)
<1>1. /\ Len(later) = Len(calling) - 1 /\ Len(calling) \in Nat
      /\ \A i \in 1..Len(later) : i + 1 \in 1..Len(calling) /\ later[i] = calling[i + 1]
  OBVIOUS
<1>2. \A i \in 1..Len(later) :
        /\ later[i].dir \in DOMAIN files
        /\ CountIn(list, later[i].dir) + Len(later[i].rest) = Len(files[later[i].dir])
  BY <1>1 DEF Book
<1>3. ASSUME NEW i \in 1..Len(later), NEW j \in 1..Len(later), later[i].dir = later[j].dir
      PROVE  i = j
  <2>1. i + 1 = j + 1
    BY <1>1, <1>3 DEF Book
  <2> QED
    BY <2>1
<1>4. ASSUME NEW dir \in DOMAIN files
      PROVE  /\ dir \in Nat \X Nat /\ dir[2] <= Len(list)
             /\ CountIn(list, dir) <= Len(files[dir])
             /\ \/ capped
                \/ CountIn(list, dir) = Len(files[dir])
                \/ \E i \in 1..Len(later) : later[i].dir = dir
  <2>1. /\ dir \in Nat \X Nat /\ dir[2] <= Len(list)
        /\ CountIn(list, dir) <= Len(files[dir])
        /\ \/ full
           \/ CountIn(list, dir) = Len(files[dir])
           \/ \E i \in 1..Len(calling) : calling[i].dir = dir
    BY DEF Book
  <2>2. ASSUME NEW i \in 1..Len(calling), calling[i].dir = dir, ~capped
        PROVE  \/ CountIn(list, dir) = Len(files[dir])
               \/ \E j \in 1..Len(later) : later[j].dir = dir
    <3>1. CASE i = 1
      <4>1. CountIn(list, dir) + 0 = Len(files[dir])
        BY <2>2, <3>1 DEF Book
      <4>2. CountIn(list, dir) \in Nat
        BY CountIsNat
      <4> QED
        BY <4>1, <4>2
    <3>2. CASE i # 1
      <4>1. i - 1 \in 1..Len(later) /\ i = (i - 1) + 1
        BY <1>1, <3>2
      <4>2. later[i - 1].dir = dir
        BY <1>1, <2>2, <4>1
      <4> QED
        BY <4>1, <4>2
    <3> QED
      BY <3>1, <3>2
  <2> QED
    BY <2>1, <2>2
<1> QED
  BY <1>2, <1>3, <1>4 DEF Book

\* A new directory has a number that none had before.
LEMMA ExtractIntoNew ==
  ASSUME NEW archive \in Archives, NEW dir \in Nat \X Nat, NEW depth \in 1..MaxDepth,
         NEW below \in Seq(Frames), NEW k \in 0..Len(layout[archive]),
         layout \in Layouts, disk \in [DOMAIN disk -> Seq(Entries)], dir \notin DOMAIN disk,
         Extract(archive, dir, depth, below, k)
  PROVE  \E found \in Seq(Entries) :
           /\ DOMAIN disk' = DOMAIN disk \cup {dir} /\ disk'[dir] = found
           /\ \A d \in DOMAIN disk : disk'[d] = disk[d]
           /\ \E frame \in Frames :
                /\ frame.dir = dir /\ frame.rest = found
                /\ \/ stack' = <<frame>> \o below
                   \/ stack' = below /\ Len(found) = 0
<1> DEFINE found == <<>> \o SubSeq(layout[archive], 1, k)
           frame == [dir |-> dir, depth |-> depth, rest |-> found]
<1>1. layout[archive] \in Seq(Entries)
  BY LayoutsAssumption
<1>2. found \in Seq(Entries) /\ Len(found) = k
  BY <1>1
<1>3. FilesIn(dir) = <<>>
  BY DEF FilesIn
<1>4. /\ disk' = [d \in DOMAIN disk \cup {dir} |-> IF d = dir THEN found ELSE disk[d]]
      /\ stack' = IF k > 0 THEN <<frame>> \o below ELSE below
  BY <1>3 DEF Extract
<1> HIDE DEF found
<1>5. frame \in Frames /\ frame.dir = dir /\ frame.rest = found
  BY <1>2 DEF Frames
<1> HIDE DEF frame
<1>6. stack' = <<frame>> \o below \/ (stack' = below /\ Len(found) = 0)
  BY <1>2, <1>4
<1>7. /\ DOMAIN disk' = DOMAIN disk \cup {dir} /\ disk'[dir] = found
      /\ \A d \in DOMAIN disk : disk'[d] = disk[d]
  BY <1>4
<1> QED
  BY <1>2, <1>5, <1>6, <1>7

LEMMA NextChildBooks == WalkInv /\ BookInv /\ NextChild => BookInv'
<1> SUFFICES ASSUME WalkInv, BookInv, NextChild PROVE BookInv'
  OBVIOUS
<1> DEFINE entry == Head(Top.rest)
           child == [dir |-> Top.dir, entry |-> entry, depth |-> Top.depth]
           longer == Append(children, child)
<1>1. /\ unpack' = "busy" /\ stack # <<>> /\ Top.rest # <<>> /\ children' = longer
      /\ "cap" \in cut => "cap" \in cut'
  BY DEF NextChild
<1>2. /\ stack \in Seq(Frames) /\ Len(stack) \in Nat /\ Len(stack) > 0
      /\ disk \in [DOMAIN disk -> Seq(Entries)]
      /\ children \in Seq(Listed) /\ layout \in Layouts /\ Len(children) \in Nat
  BY <1>1 DEF WalkInv
<1>3. child \in Listed /\ child.dir = Top.dir
  BY <1>1, TopOfWalk DEF Listed, Frames
<1>4. /\ WithoutFile \in Seq(Frames) /\ Len(WithoutFile) = Len(stack)
      /\ WithoutFile[1].dir = Top.dir /\ Len(WithoutFile[1].rest) = Len(Top.rest) - 1
      /\ \A i \in 2..Len(stack) : WithoutFile[i] = stack[i]
  BY <1>1, FileTaken
<1> HIDE DEF child
<1>5. Book(WithoutFile, disk, longer, ListFull)
  <2>1. Book(stack, disk, children, ListFull) /\ Top = stack[1]
    BY DEF BookInv, Top
  <2> QED
    BY <1>2, <1>3, <1>4, <2>1, BookAfterFile
<1>6. longer \in Seq(Listed) /\ Len(longer) = Len(children) + 1
  BY <1>2, <1>3
<1> HIDE DEF longer, entry
<1>7. CASE stack' = WithoutFile /\ UNCHANGED disk
  <2>1. Book(stack', disk', children', ListFull)
    BY <1>1, <1>5, <1>7
  <2> QED
    BY <1>1, <2>1, BookIsMonotone DEF BookInv, ListFull
<1>8. ASSUME Nested(entry), NEW k \in 0..Len(layout[entry]),
             Extract(entry, NestedDir, Top.depth + 1, WithoutFile, k)
      PROVE  BookInv'
  <2>1. entry \in Archives /\ Top.depth < MaxDepth
    BY <1>8 DEF Nested
  <2>2. /\ NestedDir \in Nat \X Nat /\ NestedDir[2] = Len(children) + 1
        /\ Top.depth + 1 \in 1..MaxDepth
    <3>1. Top.depth \in 1..MaxDepth
      BY <1>1, TopOfWalk DEF Frames
    <3> QED
      BY <1>2, <2>1, <3>1, DepthAssumption DEF NestedDir
  <2>3. NestedDir \notin DOMAIN disk
    <3>1. \A dir \in DOMAIN disk : dir \in Nat \X Nat /\ dir[2] <= Len(children)
      BY DEF BookInv, Book
    <3> QED
      BY <1>2, <2>2, <3>1
  <2> DEFINE dir == NestedDir
  <2>4. /\ dir \in Nat \X Nat /\ dir \notin DOMAIN disk /\ dir[2] <= Len(longer)
        /\ Extract(entry, dir, Top.depth + 1, WithoutFile, k)
    BY <1>2, <1>6, <1>8, <2>2, <2>3
  <2> HIDE DEF dir
  <2>5. PICK found \in Seq(Entries) :
          /\ DOMAIN disk' = DOMAIN disk \cup {dir} /\ disk'[dir] = found
          /\ \A d \in DOMAIN disk : disk'[d] = disk[d]
          /\ \E frame \in Frames :
               /\ frame.dir = dir /\ frame.rest = found
               /\ \/ stack' = <<frame>> \o WithoutFile
                  \/ stack' = WithoutFile /\ Len(found) = 0
    BY <1>2, <1>4, <2>1, <2>2, <2>4, ExtractIntoNew
  <2>6. Book(stack', disk', longer, ListFull)
    <3>1. PICK frame \in Frames :
            /\ frame.dir = dir /\ frame.rest = found
            /\ \/ stack' = <<frame>> \o WithoutFile
               \/ stack' = WithoutFile /\ Len(found) = 0
      BY <2>5
    <3>2. /\ WithoutFile \in Seq(Frames) /\ disk \in [DOMAIN disk -> Seq(Entries)]
          /\ longer \in Seq(Listed) /\ Book(WithoutFile, disk, longer, ListFull)
      BY <1>2, <1>4, <1>5, <1>6
    <3>3. /\ dir \in Nat \X Nat /\ dir \notin DOMAIN disk /\ dir[2] <= Len(longer)
          /\ DOMAIN disk' = DOMAIN disk \cup {dir} /\ disk'[dir] = found
          /\ \A d \in DOMAIN disk : disk'[d] = disk[d]
      BY <2>4, <2>5
    <3>4. found \in Seq(Entries) /\ frame.dir = dir /\ frame.rest = found
      BY <2>5, <3>1
    <3>5. CASE stack' = <<frame>> \o WithoutFile
      BY <3>2, <3>3, <3>4, <3>5, BookAfterExtract, Zenon
    <3>6. CASE stack' = WithoutFile /\ Len(found) = 0
      BY <3>2, <3>3, <3>4, <3>6, BookAfterExtract, Zenon
    <3> QED
      BY <3>1, <3>5, <3>6
  <2> QED
    BY <1>1, <2>6, BookIsMonotone DEF BookInv, ListFull
<1> QED
  BY <1>7, <1>8 DEF NextChild, entry

LEMMA OpenBooks == WalkInv /\ BookInv /\ Open => BookInv'
<1> SUFFICES ASSUME WalkInv, BookInv, Open PROVE BookInv'
  OBVIOUS
<1>1. /\ disk = <<>> /\ stack = <<>> /\ children = <<>>
      /\ unpack' = "busy" /\ children' = <<>>
  BY DEF BookInv, Open
<1>2. PICK k \in 0..Len(layout[Outer]) : Extract(Outer, <<0, 0>>, 1, <<>>, k)
  BY DEF Open
<1> DEFINE dir == <<0, 0>>
<1>3. /\ dir \in Nat \X Nat /\ dir \notin DOMAIN disk /\ dir[2] <= Len(children')
      /\ Extract(Outer, dir, 1, <<>>, k)
  BY <1>1, <1>2
<1> HIDE DEF dir
<1>4. Outer \in Archives /\ 1 \in 1..MaxDepth /\ << >> \in Seq(Frames)
  BY EntriesAssumption, DepthAssumption
<1>5. layout \in Layouts /\ disk \in [DOMAIN disk -> Seq(Entries)]
  BY DEF WalkInv
<1>6. PICK found \in Seq(Entries) :
        /\ DOMAIN disk' = DOMAIN disk \cup {dir} /\ disk'[dir] = found
        /\ \A d \in DOMAIN disk : disk'[d] = disk[d]
        /\ \E frame \in Frames :
             /\ frame.dir = dir /\ frame.rest = found
             /\ \/ stack' = <<frame>> \o << >>
                \/ stack' = << >> /\ Len(found) = 0
  BY <1>3, <1>4, <1>5, ExtractIntoNew
<1>7. PICK frame \in Frames :
        /\ frame.dir = dir /\ frame.rest = found
        /\ \/ stack' = <<frame>> \o << >>
           \/ stack' = << >> /\ Len(found) = 0
  BY <1>6
<1>8. children' \in Seq(Listed) /\ << >> \in Seq(Frames)
  BY <1>1
<1>9. Book(<< >>, disk, children', ListFull')
  BY <1>1 DEF Book
<1>10. /\ found \in Seq(Entries) /\ frame.dir = dir /\ frame.rest = found
       /\ DOMAIN disk' = DOMAIN disk \cup {dir} /\ disk'[dir] = found
       /\ \A d \in DOMAIN disk : disk'[d] = disk[d]
  BY <1>6, <1>7
<1>11. CASE stack' = <<frame>> \o << >>
  <2>1. Book(stack', disk', children', ListFull')
    BY <1>3, <1>5, <1>8, <1>9, <1>10, <1>11, BookAfterExtract, Zenon
  <2> QED
    BY <1>1, <2>1 DEF BookInv, ListFull
<1>12. CASE stack' = << >> /\ Len(found) = 0
  <2>1. Book(stack', disk', children', ListFull')
    BY <1>3, <1>5, <1>8, <1>9, <1>10, <1>12, BookAfterExtract, Zenon
  <2> QED
    BY <1>1, <2>1 DEF BookInv, ListFull
<1> QED
  BY <1>7, <1>11, <1>12

LEMMA UnpackBooks == WalkInv /\ BookInv /\ UnpackStep => BookInv'
<1> SUFFICES ASSUME WalkInv, BookInv, UnpackStep PROVE BookInv'
  OBVIOUS
<1>1. CASE Refuse
  <2>1. /\ disk = <<>> /\ stack = <<>> /\ children = <<>> /\ unpack' = "done"
        /\ UNCHANGED <<stack, disk, children>>
    BY <1>1 DEF Refuse, BookInv
  <2>2. Book(stack', disk', children', ListFull')
    BY <2>1 DEF Book
  <2> QED
    BY <2>1, <2>2 DEF BookInv, ListFull
<1>2. CASE Open
  BY <1>2, OpenBooks
<1>3. CASE NextChild
  BY <1>3, NextChildBooks
<1>4. CASE Return
  <2>1. /\ stack # <<>> /\ unpack' = "busy" /\ stack' = Tail(stack)
        /\ UNCHANGED <<disk, children>>
        /\ ListFull => ListFull'
        /\ ListFull' \/ Top.rest = <<>>
    BY <1>4 DEF Return, ListFull
  <2>2. /\ stack \in Seq(Frames) /\ Len(stack) > 0 /\ children \in Seq(Listed)
        /\ Book(stack, disk, children, ListFull) /\ Top = stack[1]
    BY <2>1 DEF WalkInv, BookInv, Top
  <2>3. ListFull' \/ Len(stack[1].rest) = 0
    BY <2>1, <2>2
  <2>4. Book(stack', disk, children, ListFull')
    BY <2>1, <2>2, <2>3, BookAfterReturn, Zenon
  <2> QED
    BY <2>1, <2>4 DEF BookInv, ListFull
<1>5. CASE Unpacked
  <2>1. stack = <<>> /\ unpack' = "done" /\ UNCHANGED <<stack, disk, children, cut>>
    BY <1>5 DEF Unpacked
  <2> QED
    BY <2>1 DEF BookInv, ListFull
<1> QED
  BY <1>1, <1>2, <1>3, <1>4, <1>5 DEF UnpackStep

LEMMA BookInductive == WalkInv /\ BookInv /\ [Next]_vars => BookInv'
<1> SUFFICES ASSUME WalkInv, BookInv, [Next]_vars PROVE BookInv'
  OBVIOUS
<1>1. CASE Working
  <2>1. CASE Unpacking
    BY <2>1, UnpackBooks DEF Unpacking
  <2>2. CASE UNCHANGED unpackVars
    BY <2>2 DEF unpackVars, BookInv, ListFull
  <2> QED
    BY <1>1, <2>1, <2>2 DEF Working, WorkerStep
<1>2. CASE Collect
  <2>1. unpack' = "idle" /\ stack' = <<>> /\ disk' = <<>> /\ children' = <<>>
    BY <1>2 DEF Collect
  <2>2. Book(stack', disk', children', ListFull')
    BY <2>1 DEF Book
  <2> QED
    BY <2>1, <2>2 DEF BookInv, ListFull
<1>3. CASE Verdict
  <2>1. Rest
    BY <1>3 DEF Verdict, RuleFires, RuleRaises, Evaluated, Weighing, Judging
  <2> QED
    BY <2>1 DEF Rest, unpackVars, BookInv, ListFull
<1>4. CASE UNCHANGED vars
  BY <1>4 DEF vars, unpackVars, BookInv, ListFull
<1> QED
  BY <1>1, <1>2, <1>3, <1>4 DEF Next

LEMMA WalkInit == Init => WalkInv
BY DepthAssumption DEF Init, WorkerInit, UnpackInit, WalkInv, OneLevelEach

\* However archives are nested, in themselves even, and wherever an extraction stops, no file is
\* triaged twice, and unless the list is full none is left out (_extract and _collect_children
\* in archive.py).
THEOREM NoFileTwice == Spec => []EachFileOnce
<1>1. Init => BookInv
  BY DEF Init, WorkerInit, UnpackInit, BookInv, Book
<1>2. WalkInv /\ BookInv => EachFileOnce
  <2> SUFFICES ASSUME WalkInv, BookInv, NEW dir \in DOMAIN disk
               PROVE  LET listed == Cardinality({i \in DOMAIN children : children[i].dir = dir})
                      IN  /\ listed <= Len(disk[dir])
                          /\ unpack = "done" /\ "cap" \notin cut => listed = Len(disk[dir])
    BY DEF EachFileOnce
  <2>1. DOMAIN children = 1..Len(children)
    BY DEF WalkInv
  <2>2. /\ CountIn(children, dir) <= Len(disk[dir])
        /\ \/ "cap" \in cut
           \/ CountIn(children, dir) = Len(disk[dir])
           \/ \E i \in 1..Len(stack) : stack[i].dir = dir
    BY DEF BookInv, Book, ListFull
  <2>3. unpack = "done" => ~ \E i \in 1..Len(stack) : stack[i].dir = dir
    BY DEF BookInv
  <2> QED
    BY <2>1, <2>2, <2>3 DEF CountIn
<1> QED
  BY <1>1, <1>2, WalkInit, WalkInductive, BookInductive, PTL DEF Spec

-----------------------------------------------------------------------------
(* What there is at each depth.                                            *)

\* The recursion of AtDepth: the files of the archives that are opened at depth d.
OpenedAt(at, d) == IF d = 1 THEN {Outer} ELSE at[d - 1] \cap (Archives \ Unreadable)

FilesOf(at, d) == UNION {{layout[a][i] : i \in DOMAIN layout[a]} : a \in OpenedAt(at, d)}

Solves(at, n) == at = [d \in 1..n |-> FilesOf(at, d)]

\* A solution down to one depth has one of the next depth.
LEMMA SolutionExtends ==
  ASSUME NEW n \in Nat, NEW at, Solves(at, n)
  PROVE  \E deeper : Solves(deeper, n + 1)
<1> DEFINE deeper == [d \in 1..(n + 1) |-> IF d = n + 1 THEN FilesOf(at, n + 1) ELSE at[d]]
<1>1. \A d \in 1..n : deeper[d] = at[d]
  OBVIOUS
<1>2. \A d \in 1..(n + 1) : OpenedAt(deeper, d) = OpenedAt(at, d)
  <2> SUFFICES ASSUME NEW d \in 1..(n + 1), d # 1 PROVE deeper[d - 1] = at[d - 1]
    BY DEF OpenedAt
  <2>1. d - 1 \in 1..n
    OBVIOUS
  <2> QED
    BY <1>1, <2>1
<1>3. \A d \in 1..(n + 1) : FilesOf(deeper, d) = FilesOf(at, d)
  BY <1>2 DEF FilesOf
<1>4. \A d \in 1..(n + 1) : deeper[d] = FilesOf(at, d)
  <2> SUFFICES ASSUME NEW d \in 1..(n + 1) PROVE deeper[d] = FilesOf(at, d)
    OBVIOUS
  <2>1. CASE d = n + 1
    BY <2>1
  <2>2. CASE d # n + 1
    <3>1. d \in 1..n
      BY <2>2
    <3>2. at[d] = FilesOf(at, d)
      BY <3>1 DEF Solves
    <3> QED
      BY <1>1, <3>1, <3>2
  <2> QED
    BY <2>1, <2>2
<1>5. deeper = [d \in 1..(n + 1) |-> FilesOf(deeper, d)]
  <2>1. DOMAIN deeper = 1..(n + 1) /\ deeper = [d \in 1..(n + 1) |-> deeper[d]]
    OBVIOUS
  <2> QED
    BY <1>3, <1>4, <2>1
<1> QED
  BY <1>5 DEF Solves

LEMMA SolutionExists == \A n \in Nat : \E at : Solves(at, n)
<1> DEFINE S == {n \in Nat : ~ \E at : Solves(at, n)}
<1> SUFFICES ASSUME S # {} PROVE FALSE
  OBVIOUS
<1>1. PICK n \in S : \A m \in S : n <= m
  BY LeastMember
<1>2. CASE n = 0
  <2>1. Solves([d \in 1..0 |-> {}], 0)
    BY DEF Solves
  <2> QED
    BY <1>2, <2>1
<1>3. CASE n # 0
  <2>1. n - 1 \in Nat /\ n - 1 \notin S /\ (n - 1) + 1 = n
    BY <1>1, <1>3
  <2> QED
    BY <2>1, SolutionExtends
<1> QED
  BY <1>2, <1>3

LEMMA AtDepthUnfolds == \A d \in 1..MaxDepth : AtDepth[d] = FilesOf(AtDepth, d)
<1>1. \E at : Solves(at, MaxDepth)
  BY SolutionExists, DepthAssumption
<1>2. AtDepth = CHOOSE at : Solves(at, MaxDepth)
  BY DEF AtDepth, Solves, FilesOf, OpenedAt
<1>3. Solves(AtDepth, MaxDepth)
  BY <1>1, <1>2, Zenon
<1> QED
  BY <1>3 DEF Solves

-----------------------------------------------------------------------------
(* Nothing stays buried.                                                   *)

\* The file is on the list with that depth, or a call at that depth has it still to come.
OnList(list, entry, d) == \E i \in 1..Len(list) : list[i].entry = entry /\ list[i].depth = d

ToCome(calling, entry, d) ==
  \E i \in 1..Len(calling) :
    calling[i].depth = d /\ \E j \in 1..Len(calling[i].rest) : calling[i].rest[j] = entry

Reached(calling, list, entry, d) == OnList(list, entry, d) \/ ToCome(calling, entry, d)

Opened(calling, list, archive, d) ==
  \A j \in 1..Len(layout[archive]) : Reached(calling, list, layout[archive][j], d)

\* Every archive on the list that is not too deep was opened.
ListedOpened(calling, list) ==
  \A i \in 1..Len(list) :
    list[i].entry \in Archives \ Unreadable /\ list[i].depth < MaxDepth
      => Opened(calling, list, list[i].entry, list[i].depth + 1)

FoundInv ==
  cut \subseteq {"depth"} =>
    /\ unpack # "idle" => Opened(stack, children, Outer, 1)
    /\ ListedOpened(stack, children)

LEMMA KeptByFile ==
  ASSUME NEW calling \in Seq(Frames), NEW list \in Seq(Listed), Len(calling) > 0,
         Len(calling[1].rest) > 0,
         NEW later \in Seq(Frames), Len(later) = Len(calling),
         later[1].depth = calling[1].depth, later[1].rest = Tail(calling[1].rest),
         \A i \in 2..Len(calling) : later[i] = calling[i],
         NEW child \in Listed, child.entry = Head(calling[1].rest),
         child.depth = calling[1].depth,
         NEW entry, NEW d, Reached(calling, list, entry, d)
  PROVE  Reached(later, Append(list, child), entry, d)
<1> DEFINE longer == Append(list, child)
<1>1. /\ Len(list) \in Nat /\ Len(longer) = Len(list) + 1 /\ longer[Len(list) + 1] = child
      /\ \A i \in 1..Len(list) : longer[i] = list[i]
  OBVIOUS
<1> HIDE DEF longer
<1>2. CASE OnList(list, entry, d)
  <2>1. PICK i \in 1..Len(list) : list[i].entry = entry /\ list[i].depth = d
    BY <1>2 DEF OnList
  <2>2. i \in 1..Len(longer) /\ longer[i] = list[i]
    BY <1>1
  <2>3. OnList(longer, entry, d)
    BY <2>1, <2>2 DEF OnList
  <2> QED
    BY <2>3 DEF Reached, longer
<1>3. CASE ToCome(calling, entry, d)
  <2>1. PICK i \in 1..Len(calling) :
          calling[i].depth = d /\ \E j \in 1..Len(calling[i].rest) : calling[i].rest[j] = entry
    BY <1>3 DEF ToCome
  <2>2. PICK j \in 1..Len(calling[i].rest) : calling[i].rest[j] = entry
    BY <2>1
  <2>3. CASE i # 1
    <3>1. i \in 2..Len(calling) /\ i \in 1..Len(later) /\ later[i] = calling[i]
      BY <2>3
    <3>2. ToCome(later, entry, d)
      BY <2>1, <3>1 DEF ToCome
    <3> QED
      BY <3>2 DEF Reached
  <2>4. CASE i = 1
    <3>1. calling[1].rest \in Seq(Entries)
      <4>1. calling[1] \in Frames
        OBVIOUS
      <4> QED
        BY <4>1 DEF Frames
    <3>2. /\ j \in Nat /\ j >= 1 /\ j <= Len(calling[1].rest) /\ calling[1].rest[j] = entry
          /\ calling[1].depth = d
      BY <2>1, <2>2, <2>4, <3>1
    <3>3. CASE j = 1
      <4>1. child.entry = entry /\ child.depth = d
        BY <3>1, <3>2, <3>3
      <4>2. Len(list) + 1 \in 1..Len(longer)
        BY <1>1
      <4>3. OnList(longer, entry, d)
        BY <1>1, <4>1, <4>2 DEF OnList
      <4> QED
        BY <4>3 DEF Reached, longer
    <3>4. CASE j # 1
      <4>1. /\ j - 1 \in 1..Len(Tail(calling[1].rest))
            /\ Tail(calling[1].rest)[j - 1] = calling[1].rest[j]
        BY <3>1, <3>2, <3>4
      <4>2. 1 \in 1..Len(later)
        OBVIOUS
      <4>3. ToCome(later, entry, d)
        BY <3>2, <4>1, <4>2 DEF ToCome
      <4> QED
        BY <4>3 DEF Reached
    <3> QED
      BY <3>3, <3>4
  <2> QED
    BY <2>3, <2>4
<1> QED
  BY <1>2, <1>3 DEF Reached

LEMMA KeptByCall ==
  ASSUME NEW calling \in Seq(Frames), NEW list, NEW frame \in Frames,
         NEW entry, NEW d, Reached(calling, list, entry, d)
  PROVE  Reached(<<frame>> \o calling, list, entry, d)
<1> DEFINE later == <<frame>> \o calling
<1>1. /\ Len(calling) \in Nat /\ Len(later) = Len(calling) + 1
      /\ \A i \in 1..Len(calling) : later[i + 1] = calling[i] /\ i + 1 \in 1..Len(later)
  OBVIOUS
<1> HIDE DEF later
<1>2. ToCome(calling, entry, d) => ToCome(later, entry, d)
  BY <1>1 DEF ToCome
<1> QED
  BY <1>2 DEF Reached, later

LEMMA KeptByReturn ==
  ASSUME NEW calling \in Seq(Frames), NEW list, Len(calling) > 0, Len(calling[1].rest) = 0,
         NEW entry, NEW d, Reached(calling, list, entry, d)
  PROVE  Reached(Tail(calling), list, entry, d)
<1> DEFINE later == Tail(calling)
<1>1. /\ Len(calling) \in Nat /\ Len(later) = Len(calling) - 1
      /\ \A i \in 1..Len(later) : later[i] = calling[i + 1]
  OBVIOUS
<1> HIDE DEF later
<1>2. ASSUME ToCome(calling, entry, d) PROVE ToCome(later, entry, d)
  <2>1. PICK i \in 1..Len(calling) :
          calling[i].depth = d /\ \E j \in 1..Len(calling[i].rest) : calling[i].rest[j] = entry
    BY <1>2 DEF ToCome
  <2>2. i # 1
    BY <2>1
  <2>3. i - 1 \in 1..Len(later) /\ later[i - 1] = calling[i]
    <3>1. i - 1 \in 1..Len(later) /\ (i - 1) + 1 = i
      BY <1>1, <2>2
    <3> QED
      BY <1>1, <3>1
  <2> QED
    BY <2>1, <2>3 DEF ToCome
<1> QED
  BY <1>2 DEF Reached, later

\* An extraction that came to its end has all files of the archive still to come.
LEMMA ExtractionOpens ==
  ASSUME NEW archive \in Archives, NEW dir, NEW depth \in 1..MaxDepth, dir \in Nat \X Nat,
         NEW below \in Seq(Frames), NEW k \in 0..Len(layout[archive]),
         layout \in Layouts, dir \notin DOMAIN disk,
         Cutting(archive, k) = {}, Extract(archive, dir, depth, below, k), NEW list
  PROVE  /\ Opened(stack', list, archive, depth)
         /\ \A entry, d : Reached(below, list, entry, d) => Reached(stack', list, entry, d)
<1> DEFINE files == layout[archive]
           frame == [dir |-> dir, depth |-> depth, rest |-> files]
<1>1. files \in Seq(Entries) /\ Len(files) \in Nat
  BY LayoutsAssumption
<1>2. k = Len(files)
  BY <1>1 DEF Cutting
<1>3. <<>> \o SubSeq(files, 1, k) = files
  BY <1>1, <1>2
<1>4. stack' = IF k > 0 THEN <<frame>> \o below ELSE below
  BY <1>3 DEF Extract, FilesIn
<1>5. frame \in Frames /\ frame.depth = depth /\ frame.rest = files
  BY <1>1 DEF Frames
<1> HIDE DEF frame, files
<1>6. CASE k = 0
  <2>1. stack' = below
    BY <1>4, <1>6
  <2>2. Opened(stack', list, archive, depth)
    BY <1>2, <1>6 DEF Opened, files
  <2> QED
    BY <2>1, <2>2
<1>7. CASE k > 0
  <2>1. stack' = <<frame>> \o below
    BY <1>4, <1>7
  <2>2. 1 \in 1..Len(stack') /\ stack'[1] = frame
    BY <1>5, <2>1
  <2>3. \A j \in 1..Len(files) : ToCome(stack', files[j], depth)
    BY <1>5, <2>2 DEF ToCome
  <2>4. Opened(stack', list, archive, depth)
    BY <2>3 DEF Opened, Reached, files
  <2>5. \A entry, d : Reached(below, list, entry, d) => Reached(stack', list, entry, d)
    BY <1>5, <2>1, KeptByCall
  <2> QED
    BY <2>4, <2>5
<1> QED
  BY <1>1, <1>2, <1>6, <1>7

LEMMA OpenedIsKept ==
  ASSUME NEW calling, NEW list, NEW later, NEW longer, NEW archive, NEW d,
         \A entry, n : Reached(calling, list, entry, n) => Reached(later, longer, entry, n),
         Opened(calling, list, archive, d)
  PROVE  Opened(later, longer, archive, d)
BY DEF Opened

\* The list with one more child on it.
LEMMA ListedStaysOpened ==
  ASSUME NEW calling, NEW list \in Seq(Listed), NEW child \in Listed, NEW later,
         ListedOpened(calling, list),
         \A entry, n :
           Reached(calling, list, entry, n) => Reached(later, Append(list, child), entry, n),
         child.entry \in Archives \ Unreadable /\ child.depth < MaxDepth
           => Opened(later, Append(list, child), child.entry, child.depth + 1)
  PROVE  ListedOpened(later, Append(list, child))
<1> DEFINE longer == Append(list, child)
<1>1. /\ Len(list) \in Nat /\ Len(longer) = Len(list) + 1 /\ longer[Len(list) + 1] = child
      /\ \A i \in 1..Len(list) : longer[i] = list[i]
  OBVIOUS
<1>2. /\ \A entry, n : Reached(calling, list, entry, n) => Reached(later, longer, entry, n)
      /\ child.entry \in Archives \ Unreadable /\ child.depth < MaxDepth
           => Opened(later, longer, child.entry, child.depth + 1)
  OBVIOUS
<1> HIDE DEF longer
<1> SUFFICES ASSUME NEW i \in 1..Len(longer),
                    longer[i].entry \in Archives \ Unreadable, longer[i].depth < MaxDepth
             PROVE  Opened(later, longer, longer[i].entry, longer[i].depth + 1)
  BY DEF ListedOpened, longer
<1>3. CASE i = Len(list) + 1
  BY <1>1, <1>2, <1>3
<1>4. CASE i # Len(list) + 1
  <2>1. i \in 1..Len(list) /\ longer[i] = list[i]
    BY <1>1, <1>4
  <2>2. Opened(calling, list, list[i].entry, list[i].depth + 1)
    BY <2>1 DEF ListedOpened
  <2>3. Opened(later, longer, list[i].entry, list[i].depth + 1)
    BY <1>2, <2>2, OpenedIsKept
  <2> QED
    BY <2>1, <2>3
<1> QED
  BY <1>3, <1>4

LEMMA NextChildFinds == WalkInv /\ BookInv /\ FoundInv /\ NextChild => FoundInv'
<1> SUFFICES ASSUME WalkInv, BookInv, FoundInv, NextChild, cut' \subseteq {"depth"}
             PROVE  Opened(stack, children, Outer, 1)' /\ ListedOpened(stack, children)'
  BY DEF FoundInv
<1> DEFINE entry == Head(Top.rest)
           child == [dir |-> Top.dir, entry |-> entry, depth |-> Top.depth]
           longer == Append(children, child)
<1>1. /\ stack # <<>> /\ Top.rest # <<>> /\ children' = longer /\ unpack = "busy"
      /\ layout' = layout /\ cut \subseteq cut'
  BY DEF NextChild
<1>2. /\ Opened(stack, children, Outer, 1) /\ ListedOpened(stack, children)
      /\ stack \in Seq(Frames) /\ Len(stack) > 0 /\ children \in Seq(Listed)
      /\ Len(children) \in Nat /\ layout \in Layouts /\ Top = stack[1]
  BY <1>1 DEF FoundInv, WalkInv, Top
<1>3. child \in Listed /\ Top.depth \in 1..MaxDepth /\ Len(Top.rest) > 0
  <2>1. Top \in Frames /\ entry \in Entries
    BY <1>1, TopOfWalk
  <2>2. Top.rest \in Seq(Entries) /\ Top.depth \in 1..MaxDepth /\ Top.dir \in Nat \X Nat
    BY <2>1 DEF Frames
  <2> QED
    BY <1>1, <2>1, <2>2 DEF Listed
<1>4. child.entry = entry /\ child.depth = Top.depth
  OBVIOUS
<1> HIDE DEF child
<1>5. \A e, n : Reached(stack, children, e, n) => Reached(WithoutFile, longer, e, n)
  <2>1. /\ WithoutFile \in Seq(Frames) /\ Len(WithoutFile) = Len(stack)
        /\ WithoutFile[1].depth = stack[1].depth
        /\ WithoutFile[1].rest = Tail(stack[1].rest)
        /\ \A i \in 2..Len(stack) : WithoutFile[i] = stack[i]
    BY <1>1, <1>2, FileTaken
  <2>2. child.entry = Head(stack[1].rest) /\ child.depth = stack[1].depth
        /\ Len(stack[1].rest) > 0
    BY <1>2, <1>3, <1>4
  <2> QED
    BY <1>2, <1>3, <2>1, <2>2, KeptByFile
<1> HIDE DEF entry
<1>6. /\ \A e, n : Reached(stack, children, e, n) => Reached(stack', longer, e, n)
      /\ entry \in Archives \ Unreadable /\ Top.depth < MaxDepth
           => Opened(stack', longer, entry, Top.depth + 1)
  <2>1. CASE ~Nested(entry) /\ stack' = WithoutFile
    BY <1>5, <2>1 DEF Nested
  <2>2. ASSUME Nested(entry), NEW k \in 0..Len(layout[entry]),
               Extract(entry, NestedDir, Top.depth + 1, WithoutFile, k),
               cut' = cut \cup Cutting(entry, k)
        PROVE  /\ \A e, n : Reached(stack, children, e, n) => Reached(stack', longer, e, n)
               /\ Opened(stack', longer, entry, Top.depth + 1)
    <3>1. Cutting(entry, k) = {}
      BY <2>2 DEF Cutting
    <3>2. entry \in Archives /\ Top.depth + 1 \in 1..MaxDepth
      BY <1>3, <2>2, DepthAssumption DEF Nested
    <3>3. NestedDir \in Nat \X Nat /\ NestedDir[2] = Len(children) + 1
      BY <1>2, <1>3 DEF NestedDir
    <3>4. NestedDir \notin DOMAIN disk
      <4>1. \A dir \in DOMAIN disk : dir \in Nat \X Nat /\ dir[2] <= Len(children)
        BY DEF BookInv, Book
      <4> QED
        BY <1>2, <3>3, <4>1
    <3>5. WithoutFile \in Seq(Frames)
      BY <1>1, FileTaken
    <3> DEFINE dir == NestedDir
               below == WithoutFile
               deeper == Top.depth + 1
    <3>6. /\ dir \in Nat \X Nat /\ dir \notin DOMAIN disk /\ below \in Seq(Frames)
          /\ deeper \in 1..MaxDepth /\ Extract(entry, dir, deeper, below, k)
      BY <2>2, <3>2, <3>3, <3>4, <3>5
    <3> HIDE DEF dir, below, deeper
    <3>7. /\ Opened(stack', longer, entry, deeper)
          /\ \A e, n : Reached(below, longer, e, n) => Reached(stack', longer, e, n)
      BY <1>2, <3>1, <3>2, <3>6, ExtractionOpens
    <3> QED
      BY <1>5, <3>7 DEF below, deeper
  <2> QED
    BY <2>1, <2>2 DEF NextChild, entry
<1>7. Opened(stack', longer, Outer, 1)
  BY <1>2, <1>6, OpenedIsKept
<1>8. ListedOpened(stack', longer)
  BY <1>2, <1>3, <1>4, <1>6, ListedStaysOpened
<1>9. Opened(stack, children, Outer, 1)'
  BY <1>1, <1>7 DEF Opened
<1>10. ListedOpened(stack, children)'
  BY <1>1, <1>8 DEF ListedOpened, Opened
<1> QED
  BY <1>9, <1>10

LEMMA UnpackFinds == WalkInv /\ BookInv /\ FoundInv /\ UnpackStep => FoundInv'
<1> SUFFICES ASSUME WalkInv, BookInv, FoundInv, UnpackStep PROVE FoundInv'
  OBVIOUS
<1>1. CASE Refuse
  BY <1>1 DEF Refuse, FoundInv
<1>2. CASE Open
  <2> SUFFICES ASSUME cut' \subseteq {"depth"}
               PROVE  Opened(stack, children, Outer, 1)' /\ ListedOpened(stack, children)'
    BY DEF FoundInv
  <2>1. disk = <<>> /\ children' = <<>> /\ layout' = layout
    BY <1>2 DEF BookInv, Open
  <2>2. PICK k \in 0..Len(layout[Outer]) :
          Extract(Outer, <<0, 0>>, 1, <<>>, k) /\ cut' = Cutting(Outer, k)
    BY <1>2 DEF Open
  <2> DEFINE dir == <<0, 0>>
  <2>3. dir \in Nat \X Nat /\ dir \notin DOMAIN disk /\ Extract(Outer, dir, 1, <<>>, k)
    BY <2>1, <2>2
  <2> HIDE DEF dir
  <2>4. Outer \in Archives /\ 1 \in 1..MaxDepth /\ << >> \in Seq(Frames) /\ layout \in Layouts
    BY EntriesAssumption, DepthAssumption DEF WalkInv
  <2>5. Cutting(Outer, k) = {}
    BY <2>2 DEF Cutting
  <2>6. Opened(stack', children', Outer, 1)
    BY <2>2, <2>3, <2>4, <2>5, ExtractionOpens
  <2> QED
    BY <2>1, <2>6 DEF Opened, ListedOpened
<1>3. CASE NextChild
  BY <1>3, NextChildFinds
<1>4. CASE Return
  <2> SUFFICES ASSUME cut' \subseteq {"depth"}
               PROVE  Opened(stack, children, Outer, 1)' /\ ListedOpened(stack, children)'
    BY DEF FoundInv
  <2>1. /\ stack # <<>> /\ Top.rest = <<>> /\ stack' = Tail(stack) /\ unpack = "busy"
        /\ UNCHANGED <<layout, children>> /\ cut \subseteq cut'
    BY <1>4 DEF Return
  <2>2. /\ Opened(stack, children, Outer, 1) /\ ListedOpened(stack, children)
        /\ stack \in Seq(Frames) /\ Len(stack) > 0 /\ Len(stack[1].rest) = 0
    BY <2>1 DEF FoundInv, WalkInv, Top
  <2>3. \A e, n : Reached(stack, children, e, n) => Reached(stack', children, e, n)
    BY <2>1, <2>2, KeptByReturn
  <2>4. Opened(stack', children, Outer, 1)
    BY <2>2, <2>3, OpenedIsKept
  <2>5. \A archive, n :
          Opened(stack, children, archive, n) => Opened(stack', children, archive, n)
    BY <2>3, OpenedIsKept
  <2>6. ListedOpened(stack', children)
    BY <2>2, <2>5 DEF ListedOpened
  <2> QED
    BY <2>1, <2>4, <2>6 DEF Opened, ListedOpened
<1>5. CASE Unpacked
  BY <1>5 DEF Unpacked, FoundInv, Opened, ListedOpened
<1> QED
  BY <1>1, <1>2, <1>3, <1>4, <1>5 DEF UnpackStep

LEMMA FoundInductive == WalkInv /\ BookInv /\ FoundInv /\ [Next]_vars => FoundInv'
<1> SUFFICES ASSUME WalkInv, BookInv, FoundInv, [Next]_vars PROVE FoundInv'
  OBVIOUS
<1> USE DEF FoundInv, Opened, ListedOpened
<1>1. CASE Working
  <2>1. CASE Unpacking
    BY <2>1, UnpackFinds DEF Unpacking
  <2>2. CASE UNCHANGED unpackVars
    BY <2>2 DEF unpackVars
  <2> QED
    BY <1>1, <2>1, <2>2 DEF Working, WorkerStep
<1>2. CASE Collect
  BY <1>2 DEF Collect
<1>3. CASE Verdict
  <2>1. Rest
    BY <1>3 DEF Verdict, RuleFires, RuleRaises, Evaluated, Weighing, Judging
  <2> QED
    BY <2>1 DEF Rest, unpackVars
<1>4. CASE UNCHANGED vars
  BY <1>4 DEF vars, unpackVars
<1> QED
  BY <1>1, <1>2, <1>3, <1>4 DEF Next

\* When the walk is over and nothing was in its way, all there is down to MaxDepth is listed.
LEMMA AllListed ==
  ASSUME FoundInv, BookInv, unpack = "done", cut \subseteq {"depth"},
         layout \in Layouts, children \in Seq(Listed)
  PROVE  \A d \in 1..MaxDepth : \A entry \in AtDepth[d] : OnList(children, entry, d)
<1> DEFINE Missed == {d \in 1..MaxDepth : \E entry \in AtDepth[d] : ~OnList(children, entry, d)}
<1> SUFFICES ASSUME Missed # {} PROVE FALSE
  OBVIOUS
<1>1. PICK d \in Missed : \A n \in Missed : d <= n
  <2>1. Missed \in SUBSET Nat
    OBVIOUS
  <2> QED
    BY <2>1, LeastMember
<1>2. PICK entry \in AtDepth[d] : ~OnList(children, entry, d)
  OBVIOUS
<1>3. PICK archive \in OpenedAt(AtDepth, d) :
        \E j \in DOMAIN layout[archive] : layout[archive][j] = entry
  <2>1. AtDepth[d] = FilesOf(AtDepth, d)
    BY AtDepthUnfolds
  <2> QED
    BY <1>2, <2>1 DEF FilesOf
<1>4. archive \in Archives /\ Opened(stack, children, archive, d)
  <2>1. CASE d = 1
    BY <2>1, EntriesAssumption DEF OpenedAt, FoundInv
  <2>2. CASE d # 1
    <3>1. /\ d - 1 \in 1..MaxDepth /\ d - 1 \notin Missed /\ d - 1 < MaxDepth
          /\ (d - 1) + 1 = d
      BY <1>1, <2>2, DepthAssumption
    <3>2. archive \in AtDepth[d - 1] /\ archive \in Archives \ Unreadable
      BY <2>2 DEF OpenedAt
    <3>3. PICK i \in 1..Len(children) :
            children[i].entry = archive /\ children[i].depth = d - 1
      BY <3>1, <3>2 DEF OnList
    <3> QED
      BY <3>1, <3>2, <3>3 DEF FoundInv, ListedOpened
  <2> QED
    BY <2>1, <2>2
<1>5. PICK j \in 1..Len(layout[archive]) : layout[archive][j] = entry
  <2>1. layout[archive] \in Seq(Entries)
    BY <1>4, LayoutsAssumption
  <2> QED
    BY <1>3, <2>1
<1>6. Reached(stack, children, entry, d)
  BY <1>4, <1>5 DEF Opened
<1>7. ~ToCome(stack, entry, d)
  BY DEF ToCome, BookInv
<1> QED
  BY <1>2, <1>6, <1>7 DEF Reached

\* An executable in up to MaxDepth layers of archives is told in the features of the report,
\* unless a password, an extraction, the cap or triage of the file itself was in the way
\* (_collect_children in archive.py): no file is forgotten when the walk goes down and comes
\* back up.
THEOREM NothingStaysBuried == Spec => []BuriedExecutableFound
<1>1. Init => FoundInv
  BY DEF Init, WorkerInit, UnpackInit, FoundInv, ListedOpened
<1>2. Init => BookInv
  BY DEF Init, WorkerInit, UnpackInit, BookInv, Book
<1>3. WalkInv /\ BookInv /\ FoundInv => BuriedExecutableFound
  <2> SUFFICES ASSUME WalkInv, BookInv, FoundInv, unpack = "done", cut \subseteq {"depth"},
                      NEW d \in 1..MaxDepth, AtDepth[d] \cap (Executable \ Unreadable) # {}
               PROVE  /\ "executable_child" \in ChildFeatures
                      /\ d >= 2 => "nested_executable" \in ChildFeatures
    BY DEF BuriedExecutableFound
  <2>1. PICK entry \in AtDepth[d] : entry \in Executable \ Unreadable
    OBVIOUS
  <2>2. layout \in Layouts /\ children \in Seq(Listed)
    BY DEF WalkInv
  <2>3. PICK i \in 1..Len(children) : children[i].entry = entry /\ children[i].depth = d
    BY <2>1, <2>2, AllListed DEF OnList
  <2>4. i \in ExecutableChildren
    BY <2>1, <2>2, <2>3 DEF ExecutableChildren
  <2> QED
    BY <2>3, <2>4 DEF ChildFeatures
<1> QED
  BY <1>1, <1>2, <1>3, WalkInit, WalkInductive, BookInductive, FoundInductive, PTL DEF Spec
=============================================================================
