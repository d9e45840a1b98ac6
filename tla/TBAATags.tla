------------------------------ MODULE TBAATags ------------------------------
(***************************************************************************)
(* mayAliasByTBAA: may two memory accesses with !tbaa tags A and B alias?  *)
(* Each run of the procedure starts from any two tags of a program's type  *)
(* descriptors, which are MDNodes: the modules of a program have each      *)
(* their own LLVMContext, so a type has one descriptor per module.         *)
(***************************************************************************)
EXTENDS Naturals, Sequences

CONSTANTS
  Node,      \* type descriptors
  Worlds,    \* what they may describe: sets of functions Node -> Descriptor
  MaxOffset, \* bound
  NoNode

\* The type it is for, by a name; the (field, offset) operands, of which a scalar has
\* one for its parent and a root none; what the front end describes, and its size.
\* An opaque descriptor has a format the code does not read, with no name first.
Kind == {"root", "scalar", "struct", "opaque"}
Descriptor == [name : STRING, kind : Kind, fields : Seq(Node \X Nat), size : Nat]

\* What the front end describes: any number of fields, one after the other (no
\* bit-fields, which may share an offset, and a union is described as char).
LaidOut(D, n) ==
  LET fields == D[n].fields IN
  /\ D[n].kind \in {"root", "opaque"} => fields = <<>>
  /\ D[n].kind = "scalar" =>
       Len(fields) = 1 /\ fields[1][2] = 0 /\ D[fields[1][1]].kind \in {"root", "scalar"}
  /\ \A j, k \in DOMAIN fields : j < k => fields[j][2] + D[fields[j][1]].size <= fields[k][2]

\* No type contains or derives from itself: some type of any is built from none of them.
WellFounded(D) ==
  \A S \in (SUBSET Node) \ {{}} : \E n \in S : \A k \in DOMAIN D[n].fields : D[n].fields[k][1] \notin S

ASSUME WorldAssumption ==
  /\ Worlds \subseteq [Node -> Descriptor] /\ MaxOffset \in Nat /\ NoNode \notin Node
  /\ \A D \in Worlds : (\A n \in Node : LaidOut(D, n)) /\ WellFounded(D)

VARIABLES
  desc,            \* the descriptors, fixed
  A, B,            \* the tags, fixed: [base, access, offset]
  pc,
  ChainA, ChainB,  \* the ancestors found so far
  answer

vars == <<desc, A, B, pc, ChainA, ChainB, answer>>

Fields(n) == desc[n].fields
FieldType(n, k) == Fields(n)[k][1]
FieldOffset(n, k) == Fields(n)[k][2]

Link == Node \X (0..MaxOffset)
Tag == [base : Node, access : Node, offset : 0..MaxOffset]
TypeOK ==
  /\ desc \in Worlds
  /\ A \in Tag /\ B \in Tag
  /\ pc \in {"start", "roots", "chainA", "chainB", "search", "done"}
  /\ ChainA \in Seq(Link) /\ ChainB \in Seq(Link)
  /\ answer \in BOOLEAN

-----------------------------------------------------------------------------
(* Where the fields of a type lie, whatever the descriptors look like.  The *)
(* byte at an offset of a struct belongs to the field that covers it.       *)

\* A link <<n, o>> is the byte at offset o of type n; Inner, the same in its k'th field.
Inner(x, k) == <<FieldType(x[1], k), x[2] - FieldOffset(x[1], k)>>
Covers(x, k) ==
  FieldOffset(x[1], k) <= x[2] /\ x[2] < FieldOffset(x[1], k) + desc[FieldType(x[1], k)].size

\* The subobjects of a type the byte is part of, with its offsets in them.
Subobjects[x \in Link] ==
  {x} \cup UNION {Subobjects[Inner(x, k)] :
                    k \in {j \in DOMAIN Fields(x[1]) : desc[x[1]].kind = "struct" /\ Covers(x, j)}}

Start(tag) == <<tag.base, tag.offset>>

\* The front end tags a scalar access with any struct it is known to be part of.
Tags == {tag \in Tag : desc[tag.access].kind \in {"scalar", "opaque"}}
WellFormed(tag) == tag.offset < desc[tag.base].size /\ <<tag.access, 0>> \in Subobjects[Start(tag)]

Init ==
  /\ desc \in Worlds
  /\ A \in {tag \in Tags : WellFormed(tag)}
  /\ B \in {tag \in Tags : WellFormed(tag)}
  /\ pc = "start"
  /\ ChainA = <<>> /\ ChainB = <<>>
  /\ answer = TRUE

-----------------------------------------------------------------------------
(* The descriptors as the code reads them, by the number of operands: a     *)
(* struct of one field has as many as a scalar.                             *)

isRootNode(n) == Fields(n) = <<>> /\ desc[n].kind # "opaque"
HasParent(n) == Fields(n) # <<>>
isScalarDesc(n) == Len(Fields(n)) = 1
isStructDesc(n) == Fields(n) # <<>>

\* The last field at or before an offset, the fields in order of offsets.
LastField(n, o) == CHOOSE k \in DOMAIN Fields(n) : k = Len(Fields(n))
FieldAt(n, o) ==
  CHOOSE k \in DOMAIN Fields(n) :
    /\ \A j \in 1..k : FieldOffset(n, j) <= o
    /\ k < Len(Fields(n)) => FieldOffset(n, k + 1) > o

\* At most one (descriptor, offset), none when the parent is not defined.
immediateParent(n, o) ==
  IF isScalarDesc(n) /\ o = 0 THEN {<<FieldType(n, 1), 0>>}
  ELSE IF ~isScalarDesc(n) /\ isStructDesc(n) /\ FieldOffset(n, 1) <= o
  THEN {<<FieldType(n, FieldAt(n, o)), o - FieldOffset(n, FieldAt(n, o))>>}
  ELSE {}

root[n \in Node] ==
  IF isRootNode(n) THEN n ELSE IF isScalarDesc(n) THEN root[FieldType(n, 1)] ELSE NoNode
getTBAARootFromTag(tag) == root[tag.access]

-----------------------------------------------------------------------------
Answer(b) == answer' = b /\ pc' = "done" /\ UNCHANGED <<desc, A, B, ChainA, ChainB>>
GoOn(at) == pc' = at /\ UNCHANGED <<desc, A, B, ChainA, ChainB, answer>>

CompareBases ==
  /\ pc = "start"
  /\ \/ A = B /\ Answer(TRUE)
     \/ A # B /\ A.base = B.base /\ A.offset # B.offset /\ Answer(FALSE)
     \/ A # B /\ (A.base # B.base \/ A.offset = B.offset) /\ GoOn("roots")

CompareRoots ==
  LET RootA == getTBAARootFromTag(A)
      RootB == getTBAARootFromTag(B)
  IN  /\ pc = "roots"
      /\ \/ NoNode \notin {RootA, RootB} /\ RootA # RootB /\ Answer(FALSE)
         \/ NoNode \in {RootA, RootB} /\ Answer(TRUE)
         \/ NoNode \notin {RootA, RootB} /\ RootA = RootB /\ GoOn("chainA")

\* The next link of a chain that starts at the tag's base and offset.
NextLink(chain, tag) ==
  IF chain = <<>> THEN {Start(tag)}
  ELSE immediateParent(chain[Len(chain)][1], chain[Len(chain)][2])

BuildChainA ==
  /\ pc = "chainA"
  /\ \/ /\ \E link \in NextLink(ChainA, A) : ChainA' = Append(ChainA, link)
        /\ UNCHANGED <<desc, A, B, pc, ChainB, answer>>
     \/ NextLink(ChainA, A) = {} /\ GoOn("chainB")

BuildChainB ==
  /\ pc = "chainB"
  /\ \/ /\ \E link \in NextLink(ChainB, B) : ChainB' = Append(ChainB, link)
        /\ UNCHANGED <<desc, A, B, pc, ChainA, answer>>
     \/ NextLink(ChainB, B) = {} /\ GoOn("search")

In(link, chain) == \E k \in DOMAIN chain : chain[k] = link
SearchOneWay == pc = "search" /\ Answer(In(Start(A), ChainB))
Search ==
  /\ pc = "search"
  /\ Answer(In(Start(A), ChainB) \/ In(Start(B), ChainA))

Next == CompareBases \/ CompareRoots \/ BuildChainA \/ BuildChainB \/ Search

Spec == Init /\ [][Next]_vars

-----------------------------------------------------------------------------
(* Properties. *)

\* The struct-path rule: a scalar's parent is the type it derives from, a struct's
\* the field that covers the offset, and a link derives from those above it.
Derived[x \in Link] ==
  {x} \cup UNION {Derived[Inner(x, k)] :
                    k \in {j \in DOMAIN Fields(x[1]) : desc[x[1]].kind = "scalar" \/ Covers(x, j)}}

\* Where the code does not follow it: it takes a struct of one field for a scalar,
\* which has no parent but at offset 0.
TakenForScalar(x) == desc[x[1]].kind = "struct" /\ Len(Fields(x[1])) = 1 /\ x[2] # 0
Seen[x \in Link] ==
  {x} \cup UNION {Seen[Inner(x, k)] :
                    k \in {j \in DOMAIN Fields(x[1]) :
                             ~TakenForScalar(x) /\ (desc[x[1]].kind = "scalar" \/ Covers(x, j))}}

\* The answer is the rule but for what lies beyond a struct of one field: A is
\* reachable from B or B from A, as far as that lets the code see.  Neither the early
\* answers nor the guess at what kind of descriptor a node is change it otherwise.
\* Only a tag whose root is not found aliases every other one, but for those of
\* the same struct at another offset.
Rootless == "opaque" \in {desc[A.access].kind, desc[B.access].kind}
MatchesRule ==
  pc = "done" =>
    answer = (\/ Rootless /\ (A.base = B.base => A.offset = B.offset)
              \/ Start(A) \in Seen[Start(B)] \/ Start(B) \in Seen[Start(A)])

\* Two accesses of one module may be to the same byte when one's struct is part of
\* the other's there, or when one is of a scalar by itself, as a char is, that the
\* other's type derives from (or may, where the type has an unknown format).
PartOf(x, y) == Start(x) \in Subobjects[Start(y)]
DerivesFrom(y, x) == desc[y.access].kind = "opaque" \/ Start(x) \in Derived[<<y.access, 0>>]
Overlap(x, y) == PartOf(x, y) \/ (x.base = x.access /\ DerivesFrom(y, x))

\* "Return false => TBAA proves they do NOT alias": such accesses are not found
\* disjoint, by the chains or the early answers on the offsets and the roots, unless
\* a struct of one field is taken for a scalar on the way.
RightlyTaken == \A x \in Derived[Start(A)] \cup Derived[Start(B)] : ~TakenForScalar(x)
OverlapFound == pc = "done" /\ RightlyTaken /\ (Overlap(A, B) \/ Overlap(B, A)) => answer

\* The same claim for accesses to the same field in whichever module they were
\* compiled: a type has the same name in each.
Named(x) == <<desc[x[1]].name, x[2]>>
OverlapNeverDisjoint ==
  pc = "done" /\ (\E x \in Subobjects[Start(B)] : Named(x) = Named(Start(A))) => answer
=============================================================================
