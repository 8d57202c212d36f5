--------------------------- MODULE ArchiveUnpack ---------------------------
(***************************************************************************)
(* archive.analyze, _extract and _collect_children: an archive is unpacked *)
(* into a directory of its own, every file in there is triaged in order,   *)
(* and an archive among them is unpacked in turn, depth first, down to     *)
(* MaxDepth.  The recursion is a stack of directories with the files still *)
(* to be triaged in each.                                                  *)
(***************************************************************************)
EXTENDS Naturals, Sequences, FiniteSets

CONSTANTS Entries,    \* what may be in an archive
          Executable, \* those whose content or extension is executable
          Archives,   \* those of a NESTED_ARCHIVE_FAMILIES family
          Unreadable, \* those on which triage raises
          Outer,      \* the archive that was submitted
          Layouts,    \* functions from Archives to the sequence of files in each
          MaxDepth,   \* MAX_DEPTH, 3 in the code
          ChildCap    \* MAX_CHILDREN * MAX_DEPTH, 180 in the code

ASSUME EntriesAssumption ==
  /\ Executable \subseteq Entries /\ Unreadable \subseteq Entries
  /\ Archives \subseteq Entries /\ Outer \in Archives
ASSUME LayoutsAssumption == \A l \in Layouts : l \in [Archives -> Seq(Entries)]
ASSUME DepthAssumption == MaxDepth \in Nat \ {0} /\ ChildCap \in Nat

VARIABLES
  layout,    \* what is in which archive
  locked,    \* the outer archive is encrypted
  unpack,    \* "idle", "busy", "done"
  stack,     \* of [dir, depth, rest]: the active calls of _collect_children
  disk,      \* the files in each directory of the work area
  children,  \* the report's children: [dir, entry, depth]
  cut        \* why children may be missing (history)

unpackVars == <<layout, locked, unpack, stack, disk, children, cut>>

\* Every file of a directory comes from one archive, and a directory is named after the depth
\* and the number of children found so far, the outermost being "unpacked".
Dirs == {<<d, n>> : d \in 0..MaxDepth, n \in 0..ChildCap}

UnpackTypeOK ==
  /\ layout \in Layouts
  /\ locked \in BOOLEAN
  /\ unpack \in {"idle", "busy", "done"}
  /\ \A i \in DOMAIN stack : stack[i].dir \in Dirs /\ stack[i].rest \in Seq(Entries)
  /\ DOMAIN disk \subseteq Dirs
  /\ \A i \in DOMAIN children : children[i].dir \in Dirs /\ children[i].entry \in Entries
  /\ cut \subseteq {"locked", "extraction", "cap", "depth"}

UnpackInit ==
  /\ layout \in Layouts
  /\ locked \in BOOLEAN
  /\ unpack = "idle"
  /\ stack = <<>> /\ disk = <<>> /\ children = <<>> /\ cut = {}

-----------------------------------------------------------------------------

FilesIn(dir) == IF dir \in DOMAIN disk THEN disk[dir] ELSE <<>>

\* _extract unpacks k files of the archive into dir and the caller walks what is in there.
\* A tool that fails or is killed half-way is good enough when it left a file; the guard of
\* 512 MiB over a tmpfs of 256 MiB ends as an extraction that ran out of space.
Extract(archive, dir, depth, below, k) ==
  LET files == FilesIn(dir) \o SubSeq(layout[archive], 1, k)
      known == [d \in DOMAIN disk \cup {dir} |-> IF d = dir THEN files ELSE disk[d]]
  IN  /\ disk' = known
      /\ stack' = IF k > 0 THEN <<[dir |-> dir, depth |-> depth, rest |-> files]>> \o below
                           ELSE below

Cutting(archive, k) == IF k < Len(layout[archive]) THEN {"extraction"} ELSE {}

\* analyze: a password-protected archive is not unpacked.
Refuse ==
  /\ unpack = "idle" /\ locked
  /\ unpack' = "done"
  /\ cut' = {"locked"}
  /\ UNCHANGED <<layout, locked, stack, disk, children>>

Open ==
  /\ unpack = "idle" /\ ~locked
  /\ unpack' = "busy"
  /\ \E k \in 0..Len(layout[Outer]) :
       /\ Extract(Outer, <<0, 0>>, 1, <<>>, k)
       /\ cut' = Cutting(Outer, k)
  /\ UNCHANGED <<layout, locked, children>>

Top == stack[1]

WithoutFile == <<[Top EXCEPT !.rest = Tail(@)]>> \o Tail(stack)

\* Mutants: one child too many, one level too few.
CapOffByOne == Len(children) > ChildCap

DepthOffByOne(entry) == entry \in Archives \ Unreadable /\ Top.depth + 1 < MaxDepth

CapReached == Len(children) >= ChildCap

Nested(entry) == entry \in Archives \ Unreadable /\ Top.depth < MaxDepth

\* Mutant: archives of one depth share a directory.
DirByDepth == <<Top.depth, 0>>

\* f"nested_{depth}_{len(out)}", after the archive itself was appended to out.
NestedDir == <<Top.depth, Len(children) + 1>>

\* The next file: triaged, listed, and opened when it is an archive not too deep.
NextChild ==
  /\ unpack = "busy" /\ stack # <<>> /\ Top.rest # <<>> /\ ~CapReached
  /\ LET entry == Head(Top.rest) IN
       /\ children' = Append(children, [dir |-> Top.dir, entry |-> entry, depth |-> Top.depth])
       /\ \/ /\ ~Nested(entry)
             /\ stack' = WithoutFile
             /\ cut' = cut \cup IF entry \in Archives THEN {"depth"} ELSE {}
             /\ UNCHANGED disk
          \/ /\ Nested(entry)
             /\ \E k \in 0..Len(layout[entry]) :
                  /\ Extract(entry, NestedDir, Top.depth + 1, WithoutFile, k)
                  /\ cut' = cut \cup Cutting(entry, k)
  /\ UNCHANGED <<layout, locked, unpack>>

\* A call of _collect_children ends with its last file, or when the list is full.
Return ==
  /\ unpack = "busy" /\ stack # <<>> /\ (Top.rest = <<>> \/ CapReached)
  /\ cut' = cut \cup IF Top.rest = <<>> THEN {} ELSE {"cap"}
  /\ stack' = Tail(stack)
  /\ UNCHANGED <<layout, locked, unpack, disk, children>>

Unpacked ==
  /\ unpack = "busy" /\ stack = <<>>
  /\ unpack' = "done"
  /\ UNCHANGED <<layout, locked, stack, disk, children, cut>>

UnpackStep == Refuse \/ Open \/ NextChild \/ Return \/ Unpacked

-----------------------------------------------------------------------------
(* What the report says of the children.                                   *)

\* A child on which triage raised has no family and is not called dangerous.
ExecutableChildren == {i \in DOMAIN children : children[i].entry \in Executable \ Unreadable}

ChildFeatures ==
  (IF ExecutableChildren # {} THEN {"executable_child"} ELSE {})
    \cup (IF \E i \in ExecutableChildren : children[i].depth >= 2 THEN {"nested_executable"} ELSE {})
    \cup (IF locked THEN {"password_protected"} ELSE {})

-----------------------------------------------------------------------------
(* Properties.                                                             *)

\* What is at depth d, going by the layout alone.
AtDepth[d \in 1..MaxDepth] ==
  LET opened == IF d = 1 THEN {Outer} ELSE AtDepth[d - 1] \cap (Archives \ Unreadable)
  IN  UNION {{layout[a][i] : i \in DOMAIN layout[a]} : a \in opened}

\* An executable in up to MaxDepth layers of archives is missed only when something the
\* report could tell was in the way: a password, an extraction that failed or stopped
\* half-way, the cap on children, or triage raising on the file itself.
BuriedExecutableFound ==
  unpack = "done" /\ cut \subseteq {"depth"} =>
    \A d \in 1..MaxDepth : AtDepth[d] \cap (Executable \ Unreadable) # {} =>
      /\ "executable_child" \in ChildFeatures
      /\ d >= 2 => "nested_executable" \in ChildFeatures

\* Each extraction has a directory of its own: no file is triaged twice, and none is left
\* out unless the list is full.
EachFileOnce ==
  \A dir \in DOMAIN disk :
    LET listed == Cardinality({i \in DOMAIN children : children[i].dir = dir})
    IN  /\ listed <= Len(disk[dir])
        /\ unpack = "done" /\ "cap" \notin cut => listed = Len(disk[dir])

\* However archives are nested, in themselves even, the walk stays within its bounds.
UnpackBounded ==
  /\ Len(children) <= ChildCap
  /\ \A i \in DOMAIN children : children[i].depth <= MaxDepth
  /\ Len(stack) <= MaxDepth
=============================================================================
