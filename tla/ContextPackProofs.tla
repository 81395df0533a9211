-------------------------- MODULE ContextPackProofs --------------------------
(***************************************************************************)
(* What context packs guarantee, for all references, packets, packs and    *)
(* links, and any number of changes by others.                             *)
(*                                                                         *)
(* The argument: what the builder found in order is in order as long as no *)
(* document changes (CleanInv), and it writes down just that (PackInv); a  *)
(* pack is handed to the validator as it was written, and what that has    *)
(* looked at without an error is as it should be (CheckInv).  So the       *)
(* validator finds no fault with a built pack but those that only it looks *)
(* for (AcceptInv).  The place of a pack is judged as it is written        *)
(* (LandInv).                                                              *)
(***************************************************************************)
EXTENDS ContextPack, SequenceTheorems, FiniteSetTheorems, FunctionTheorems, TLAPS

References == [path : Paths, slash : BOOLEAN]

\* The documents of the pack, as its sources name them.
Required == {[path |-> d.path, slash |-> d.slash] : d \in Range(pack.docs)}

BuildInv ==
  /\ docs \in Seq(Entries)
  /\ pc = "idle" => docs = <<>>
  /\ pc \in {"docs", "sha256", "size"} => todo \in Seq(Paths)
  /\ pc \in {"docs", "sha256"} => Len(docs) + Len(todo) <= Len(packet.required)
  /\ pc \in {"sha256", "size"} => todo # <<>>
  /\ pc = "size" =>
       /\ Len(docs) > 0 /\ Len(docs) + Len(todo) <= Len(packet.required) + 1
       /\ docs[Len(docs)].path = Head(todo)
  /\ pc = "resolve" => out # NONE
  /\ pc \in {"check", "write"} => target \in Locations

\* A document the builder lets pass.
Clean(p) ==
  /\ ~Lexical[p].archived
  /\ ~Covered(p, ForbiddenDocs)
  /\ tree[p].kind \in {"file", "dir"}

CleanInv ==
  "build" \in still =>
    /\ \A i \in DOMAIN docs : Clean(docs[i].path)
    /\ pc \in {"sha256", "size"} => Clean(Head(todo))

Validating == {"vdocs", "vsource", "end"}

PackInv ==
  /\ pc \in {"resolve", "check", "write"} => docs # <<>>
  /\ pack.by = "builder" =>
       /\ docs # <<>> /\ pack = Proposal
       /\ pc \in {"end_build", "validate"} \cup Validating

\* A document the validator finds no error in.
Passed(p) ==
  /\ ~Lexical[p].unsafe
  /\ PolicyErrors(p, pack.forbidden) = {}
  /\ tree[p].kind = "file" \/ (tree[p].kind = "dir" /\ DirectoryErrors(p) = {})

TodoInv ==
  /\ pc = "vdocs" =>
       /\ todo \in Seq(Paths)
       /\ \A x \in Range(todo) : \E i \in DOMAIN pack.docs : x = pack.docs[i].path
  /\ pc = "vsource" => todo \in Seq(References) /\ Range(todo) \subseteq pack.source

CheckInv ==
  /\ pc \in Validating /\ errors = {} => ForbiddenErrors = {}
  /\ pc = "vdocs" /\ errors = {} /\ "validation" \in still =>
       \A i \in DOMAIN pack.docs :
         pack.docs[i].path \in Range(todo) \/ Passed(pack.docs[i].path)
  /\ pc \in {"vsource", "end"} /\ errors = {} /\ "validation" \in still =>
       \A i \in DOMAIN pack.docs : Passed(pack.docs[i].path)
  /\ pc = "vsource" /\ errors = {} /\ warnings = {} =>
       \A s \in pack.source : s \in Range(todo) \/ s \in Required
  /\ pc = "end" /\ errors = {} /\ warnings = {} => pack.source \subseteq Required
  /\ verdict = "passed" => pc = "end" /\ errors = {} /\ warnings = {}

\* What only the validator looks at.
Excused ==
  \/ \E i \in DOMAIN pack.docs :
       LET p == pack.docs[i].path IN
       Lexical[p].unsafe \/ (tree[p].kind = "dir" /\ DirectoryErrors(p) # {})
  \/ \E f \in pack.forbidden : Lexical[f].unsafe

AcceptInv ==
  /\ pc = "validate" => errors = {} /\ warnings = {}
  /\ pc \in Validating /\ pack.by = "builder" /\ "build" \in still =>
       (errors # {} => Excused) /\ warnings = {}
  /\ verdict = "failed" => pc = "end" /\ (errors # {} \/ warnings # {})

LandInv ==
  "links" \in still =>
    /\ pc = "write" => Allowed(leads[target], leads, {"proposals"}, InTmp)
    /\ landed # NONE =>
         /\ \E x \in Locations : landed = leads[x]
         /\ Allowed(landed, leads, {"proposals"}, InTmp)

IInv ==
  /\ TypeOK /\ BuildInv /\ CleanInv /\ PackInv
  /\ TodoInv /\ CheckInv /\ AcceptInv /\ LandInv

------------------------------------------------------------------------------
\* A finite set turned into a sequence loses nothing.
LEMMA SetToSeqProperties ==
  ASSUME NEW S, NEW Q, Q \subseteq S, IsFiniteSet(Q)
  PROVE  SetToSeq(Q) \in Seq(S) /\ Range(SetToSeq(Q)) = Q
<1> DEFINE n == Cardinality(Q)
<1>1. n \in Nat /\ ExistsBijection(1 .. n, Q)
  BY FS_CardinalityType
<1>2. \E f \in [1 .. n -> Q] : IsInjective(f)
  BY <1>1 DEF ExistsBijection, Bijection, Injection
<1>3. SetToSeq(Q) \in [1 .. n -> Q] /\ IsInjective(SetToSeq(Q))
  BY <1>2 DEF SetToSeq
<1>4. SetToSeq(Q) \in Injection(1 .. n, Q)
  BY <1>3 DEF Injection
<1>5. Cardinality(1 .. n) = n
  BY <1>1, FS_Interval
<1>6. SetToSeq(Q) \in Surjection(1 .. n, Q)
  BY <1>4, <1>5, FS_Injection
<1>7. Range(SetToSeq(Q)) = Q
  BY <1>3, <1>6 DEF Surjection, Range
<1> QED BY <1>1, <1>3, <1>7

\* The first element of a sequence, and the others.
LEMMA HeadAndTail ==
  ASSUME NEW S, NEW q \in Seq(S), q # <<>>
  PROVE  /\ Head(q) \in S /\ Tail(q) \in Seq(S) /\ Len(Tail(q)) = Len(q) - 1
         /\ Range(q) = {Head(q)} \cup Range(Tail(q))
<1>1. Head(q) = q[1] /\ Len(q) \in Nat /\ Len(q) > 0 /\ DOMAIN q = 1 .. Len(q)
  OBVIOUS
<1>2. /\ Head(q) \in S /\ Tail(q) \in Seq(S) /\ Len(Tail(q)) = Len(q) - 1
      /\ \A i \in 1 .. Len(Tail(q)) : Tail(q)[i] = q[i + 1]
  BY HeadTailProperties
<1>3. DOMAIN Tail(q) = 1 .. Len(q) - 1
  BY <1>2
<1>4. ASSUME NEW x \in Range(q) PROVE x \in {Head(q)} \cup Range(Tail(q))
  <2>1. PICK i \in 1 .. Len(q) : x = q[i]
    BY <1>1 DEF Range
  <2>2. CASE i = 1
    BY <1>1, <2>1, <2>2
  <2>3. CASE i # 1
    <3>1. i - 1 \in 1 .. Len(q) - 1 /\ Tail(q)[i - 1] = q[i]
      BY <1>1, <1>2, <2>1, <2>3
    <3> QED BY <1>3, <2>1, <3>1 DEF Range
  <2> QED BY <2>2, <2>3
<1>5. ASSUME NEW x \in Range(Tail(q)) PROVE x \in Range(q)
  <2>1. PICK i \in 1 .. Len(q) - 1 : x = Tail(q)[i]
    BY <1>3, <1>5 DEF Range
  <2>2. x = q[i + 1] /\ i + 1 \in 1 .. Len(q)
    BY <1>1, <1>2, <2>1
  <2> QED BY <1>1, <2>2 DEF Range
<1>6. Head(q) \in Range(q)
  BY <1>1 DEF Range
<1> QED BY <1>2, <1>4, <1>5, <1>6

\* Nodes, packets and links have the shapes the constants are assumed to have.
LEMMA Shapes ==
  ASSUME TypeOK
  PROVE  /\ \A p \in Paths :
              /\ tree[p] \in Nodes
              /\ tree[p].kind \in {"missing", "file", "dir", "outside"}
              /\ Lexical[p].slash \in BOOLEAN
         /\ packet.required \in Seq(Paths)
         /\ packet.forbidden \subseteq Paths /\ packet.source \subseteq Paths
         /\ leads \in [Locations -> Locations]
<1>1. \A p \in Paths : Lexical[p] \in Texts /\ tree[p] \in NodeKinds
  BY PathsAssumption, NodesAssumption DEF TypeOK
<1>2. packet \in ParsedPackets
  BY PacketsAssumption DEF TypeOK
<1> QED BY <1>1, <1>2, LinksAssumption DEF TypeOK, Texts, NodeKinds, ParsedPackets

\* Nothing changes for the documents, unless somebody writes one.
LEMMA CleanFrame ==
  ASSUME tree' = tree, packet' = packet
  PROVE  \A p : Clean(p)' <=> Clean(p)
BY DEF Clean, Covered, ForbiddenDocs

LEMMA PassedFrame ==
  ASSUME tree' = tree, pack' = pack
  PROVE  /\ \A p : Passed(p)' <=> Passed(p)
         /\ Excused' <=> Excused
BY DEF Passed, Excused, DirectoryErrors

LEMMA RequiredFrame ==
  ASSUME pack' = pack
  PROVE  Required' = Required /\ ForbiddenErrors' = ForbiddenErrors
BY DEF Required, ForbiddenErrors

LEMMA ProposalFrame ==
  ASSUME docs' = docs, packet' = packet
  PROVE  Proposal' = Proposal
BY DEF Proposal, ForbiddenDocs, SourcePaths, DocPaths

\* What is written down of a document is of its type.
LEMMA EntryType ==
  ASSUME TypeOK, NEW p \in Paths, NEW x \in {n.version : n \in Nodes},
         NEW y \in {n.version : n \in Nodes}
  PROVE  Entry(p, x, y) \in Entries /\ Entry(p, x, y).path = p
<1>1. (Lexical[p].slash \/ looked.kind = "dir") \in BOOLEAN
  OBVIOUS
<1> QED BY <1>1 DEF Entry, Entries

LEMMA VersionType ==
  ASSUME TypeOK, NEW p \in Paths
  PROVE  /\ ReadNow(p) \in {n.version : n \in Nodes}
         /\ 0 \in {n.version : n \in Nodes}
<1>1. 0 \in {n.version : n \in Nodes}
  BY NodesAssumption DEF Missing
<1>2. tree[p] \in Nodes
  BY Shapes
<1> QED BY <1>1, <1>2 DEF ReadNow

\* The proposal is a pack.
LEMMA ProposalType ==
  ASSUME TypeOK, docs \in Seq(Entries)
  PROVE  /\ Proposal \in ContextPacks /\ IsFiniteSet(Proposal.source)
         /\ Proposal.by = "builder" /\ Proposal.fields /\ Proposal.fits
         /\ Proposal.docs = docs /\ Proposal.forbidden = ForbiddenDocs
         /\ Proposal.source = SourcePaths /\ SourcePaths \subseteq DocPaths
         /\ docs # <<>> => SourcePaths # {}
<1> DEFINE f == [i \in 1 .. Len(docs) |-> [path |-> docs[i].path, slash |-> docs[i].slash]]
<1>1. \A i \in 1 .. Len(docs) : docs[i].path \in Paths /\ docs[i].slash \in BOOLEAN
  <2>1. \A i \in 1 .. Len(docs) : docs[i] \in Entries
    OBVIOUS
  <2> QED BY <2>1 DEF Entries
<1>2. DocPaths \subseteq References
  BY <1>1 DEF DocPaths, References
<1>3. IsFiniteSet(DocPaths)
  <2>1. f \in [1 .. Len(docs) -> References]
    BY <1>1 DEF References
  <2>2. Range(f) = DocPaths
    BY DEF Range, DocPaths
  <2>3. f \in Surjection(1 .. Len(docs), DocPaths)
    <3> HIDE DEF f
    <3>1. f \in Surjection(1 .. Len(docs), Range(f))
      BY <2>1, Fun_RangeProperties
    <3> QED BY <3>1, <2>2
  <2>4. IsFiniteSet(1 .. Len(docs))
    BY FS_Interval
  <2> QED BY <2>3, <2>4, FS_Surjection
<1>4. SourcePaths \subseteq DocPaths
  BY DEF SourcePaths
<1>5. IsFiniteSet(SourcePaths)
  BY <1>3, <1>4, FS_Subset
<1>6. docs # <<>> => DocPaths # {}
  <2>1. docs # <<>> => 1 \in DOMAIN docs
    OBVIOUS
  <2> QED BY <2>1 DEF DocPaths
<1>7. docs # <<>> => SourcePaths # {}
  BY <1>6 DEF SourcePaths
<1>8. ForbiddenDocs \subseteq Paths
  BY PathsAssumption, Shapes DEF ForbiddenDocs
<1> QED BY <1>2, <1>4, <1>5, <1>7, <1>8 DEF Proposal, ContextPacks, References

\* Errors have their codes.
LEMMA ErrorTypes ==
  /\ \A p : /\ DocFindings(p) \subseteq ErrorCodes /\ NormalErrors(p) \subseteq ErrorCodes
            /\ SourceErrors(p) \subseteq ErrorCodes /\ DirectoryErrors(p) \subseteq ErrorCodes
            /\ \A fs : PolicyErrors(p, fs) \subseteq ErrorCodes
  /\ TopLevelErrors \subseteq ErrorCodes /\ ForbiddenErrors \subseteq ErrorCodes
  /\ BudgetErrors \subseteq ErrorCodes
<1>1. \A p : DocFindings(p) \subseteq ErrorCodes
  BY DEF DocFindings, ErrorCodes
<1>2. \A p : NormalErrors(p) \subseteq ErrorCodes
  BY DEF NormalErrors, ErrorCodes
<1>3. \A p : DirectoryErrors(p) \subseteq ErrorCodes
  BY DEF DirectoryErrors, ErrorCodes
<1>4. \A p, fs : PolicyErrors(p, fs) \subseteq ErrorCodes
  BY DEF PolicyErrors, ErrorCodes
<1>5. \A p : SourceErrors(p) \subseteq ErrorCodes
  <2>1. {"CPP-001"} \subseteq ErrorCodes
    BY DEF ErrorCodes
  <2> QED BY <1>2, <1>3, <1>4, <2>1 DEF SourceErrors
<1>6. TopLevelErrors \subseteq ErrorCodes /\ BudgetErrors \subseteq ErrorCodes
  BY DEF TopLevelErrors, BudgetErrors, ErrorCodes
<1>7. ForbiddenErrors \subseteq ErrorCodes
  BY <1>2 DEF ForbiddenErrors
<1> QED BY <1>1, <1>2, <1>3, <1>4, <1>5, <1>6, <1>7

\* The entry begun by _file_sha256 is the last one, for the document in hand.
LEMMA DigestedDocs ==
  ASSUME IInv, DigestDoc, Readable(Head(todo))
  PROVE  /\ docs' \in Seq(Entries) /\ Len(docs') = Len(docs) + 1
         /\ docs'[Len(docs')].path = Head(todo)
         /\ \A i \in DOMAIN docs' :
              docs'[i].path = Head(todo) \/ (i \in DOMAIN docs /\ docs'[i] = docs[i])
<1>1. docs \in Seq(Entries) /\ Head(todo) \in Paths
  BY HeadAndTail DEF IInv, BuildInv, DigestDoc
<1> DEFINE e == Entry(Head(todo), ReadNow(Head(todo)), 0)
<1>2. e \in Entries /\ e.path = Head(todo)
  BY <1>1, VersionType, EntryType DEF IInv
<1>3. docs' = Append(docs, e)
  BY DEF DigestDoc
<1> QED BY <1>1, <1>2, <1>3

\* Its size completes it, or it goes.
LEMMA SizedDocs ==
  ASSUME IInv, SizeDoc, Readable(Head(todo))
  PROVE  /\ docs' \in Seq(Entries) /\ Len(docs') <= Len(docs)
         /\ \A i \in DOMAIN docs' : i \in DOMAIN docs /\ docs'[i].path = docs[i].path
<1> DEFINE n == Len(docs)
           before == SubSeq(docs, 1, n - 1)
           sized == [docs EXCEPT ![n].estimated_chars = ReadNow(Head(todo))]
<1>1. docs \in Seq(Entries) /\ Head(todo) \in Paths /\ n > 0
  BY HeadAndTail DEF IInv, BuildInv, SizeDoc
<1>2. docs' = before \/ docs' = sized
  BY DEF SizeDoc
<1>3. /\ before \in Seq(Entries) /\ Len(before) = n - 1
      /\ \A i \in 1 .. n - 1 : before[i] = docs[i]
  <2>1. n \in Nat /\ \A i \in 1 .. n - 1 : docs[i] \in Entries
    BY <1>1
  <2>2. (n - 1) - 1 + 1 = n - 1 /\ \A i \in 1 .. n - 1 : 1 + i - 1 = i
    BY <2>1
  <2> QED BY <1>1, <2>1, <2>2, SubSeqProperties
<1>4. /\ sized \in Seq(Entries) /\ Len(sized) = n
      /\ \A i \in 1 .. n : sized[i].path = docs[i].path
  <2>1. docs[n] \in Entries /\ ReadNow(Head(todo)) \in {x.version : x \in Nodes}
    BY <1>1, VersionType DEF IInv
  <2>2. /\ [docs[n] EXCEPT !.estimated_chars = ReadNow(Head(todo))] \in Entries
        /\ [docs[n] EXCEPT !.estimated_chars = ReadNow(Head(todo))].path = docs[n].path
    BY <2>1 DEF Entries
  <2>3. sized = [docs EXCEPT ![n] = [docs[n] EXCEPT !.estimated_chars = ReadNow(Head(todo))]]
    BY <1>1
  <2> QED BY <1>1, <2>2, <2>3
<1>5. /\ DOMAIN docs = 1 .. n /\ DOMAIN before = 1 .. n - 1 /\ DOMAIN sized = 1 .. n
      /\ n \in Nat
  BY <1>1, <1>3, <1>4
<1> HIDE DEF before, sized
<1>6. CASE docs' = before
  BY <1>1, <1>3, <1>5, <1>6
<1>7. CASE docs' = sized
  BY <1>1, <1>4, <1>5, <1>7
<1> QED BY <1>2, <1>6, <1>7

\* The first states satisfy the invariant.
LEMMA InitIInv == Init => IInv
<1> SUFFICES ASSUME Init PROVE IInv
  OBVIOUS
<1>1. Range(<<>>) = {}
  BY DEF Range
<1>2. NoPack \in ContextPacks /\ IsFiniteSet(NoPack.source)
  BY FS_EmptySet DEF NoPack, ContextPacks
<1>3. packet.required \in Seq(Paths) /\ Len(packet.required) \in Nat
  BY PacketsAssumption DEF Init, ParsedPackets
<1>4. TypeOK
  BY <1>1, <1>2, <1>3, BoundAssumption, NodesAssumption DEF Init, TypeOK, Places
<1>5. BuildInv /\ CleanInv /\ TodoInv
  BY DEF Init, BuildInv, CleanInv, TodoInv
<1>6. pack.by = NONE /\ NONE # "builder"
  BY NoneAssumption DEF Init, NoPack
<1>7. PackInv /\ CheckInv /\ AcceptInv /\ LandInv
  BY <1>6 DEF Init, PackInv, CheckInv, AcceptInv, LandInv, Validating
<1> QED BY <1>4, <1>5, <1>7 DEF IInv

\* Types are kept.
LEMMA TypeStep ==
  ASSUME IInv, [Next]_vars
  PROVE  TypeOK'
<1> USE DEF arguments, environment, findings, IInv, TypeOK, BuildInv, TodoInv, Places
<1>0. CASE UNCHANGED vars
  BY <1>0 DEF vars
<1>1. CASE ReadPacket
  <2>1. Range(packet.required) \subseteq Paths
    BY RangeOfSeq, Shapes DEF IInv
  <2> QED BY <1>1, <2>1 DEF ReadPacket, ErrorCodes
<1>2. CASE ExamineDoc
  <2>1. Head(todo) \in Paths /\ Tail(todo) \in Seq(Paths) /\ Len(Tail(todo)) = Len(todo) - 1
    BY <1>2, HeadAndTail DEF ExamineDoc
  <2>2. Range(Tail(todo)) \subseteq Paths /\ tree[Head(todo)] \in Nodes
    BY <2>1, RangeOfSeq, Shapes DEF IInv
  <2>3. errors' \subseteq ErrorCodes /\ warnings' \subseteq {"CPB-BUILD-005", "CPS-007"}
    <3>1. DocFindings(Head(todo)) \subseteq ErrorCodes
      BY ErrorTypes
    <3>2. "CPB-BUILD-005" \in DocFindings(Head(todo)) => DocFindings(Head(todo)) = {"CPB-BUILD-005"}
      BY DEF DocFindings
    <3> QED BY <1>2, <3>1, <3>2 DEF ExamineDoc
  <2> QED BY <1>2, <2>2, <2>3 DEF ExamineDoc
<1>3. CASE DigestDoc
  <2>1. todo \in Seq(Paths) /\ todo # <<>> /\ Len(todo) > 0
    BY <1>3 DEF DigestDoc
  <2>2. CASE Readable(Head(todo))
    <3>1. Len(docs') <= Len(packet.required) /\ docs' \in Seq(Entries)
      BY <1>3, <2>1, <2>2, DigestedDocs, Shapes DEF DigestDoc
    <3> QED BY <1>3, <2>2, <3>1 DEF DigestDoc
  <2>3. CASE ~Readable(Head(todo))
    BY <1>3, <2>3 DEF DigestDoc
  <2> QED BY <2>2, <2>3
<1>4. CASE SizeDoc
  <2>1. Head(todo) \in Paths /\ Tail(todo) \in Seq(Paths) /\ Len(Tail(todo)) = Len(todo) - 1
    BY <1>4, HeadAndTail DEF SizeDoc
  <2>2. Range(Tail(todo)) \subseteq Paths
    BY <2>1, RangeOfSeq
  <2>3. CASE Readable(Head(todo))
    <3>1. docs' \in Seq(Entries) /\ Len(docs') <= Len(docs)
      BY <1>4, <2>3, SizedDocs
    <3>2. /\ Len(docs) <= Len(packet.required) /\ Len(packet.required) \in Nat
          /\ \A i \in DOMAIN docs' : docs'[i] \in Entries
      BY <3>1, Shapes
    <3>3. /\ todo' = Tail(todo) /\ pc' = "docs" /\ built' = built
          /\ UNCHANGED <<arguments, looked, findings, target, pack, landed, verdict, environment>>
      BY <1>4, <2>3 DEF SizeDoc
    <3> QED BY <2>2, <3>1, <3>2, <3>3
  <2>4. CASE ~Readable(Head(todo))
    BY <1>4, <2>4 DEF SizeDoc
  <2> QED BY <2>3, <2>4
<1>5. CASE Decide
  BY <1>5 DEF Decide
<1>6. CASE ResolveOutput
  <2>1. leads[out] \in Locations
    BY <1>6, Shapes, LinksAssumption DEF ResolveOutput
  <2> QED BY <1>6, <2>1 DEF ResolveOutput
<1>7. CASE CheckOutput
  BY <1>7 DEF CheckOutput
<1>8. ASSUME NEW written \in BOOLEAN, WritePack(written) PROVE TypeOK'
  <2>1. leads[target] \in Locations /\ Proposal \in ContextPacks /\ IsFiniteSet(Proposal.source)
    BY <1>8, Shapes, ProposalType DEF WritePack
  <2> QED BY <1>8, <2>1 DEF WritePack
<1>9. ASSUME NEW k \in Packs \cup {pack}, HandOver(k) PROVE TypeOK'
  <2>1. CASE pc = "idle"
    <3>1. k \in ContextPacks /\ IsFiniteSet(k.source)
      BY <1>9, <2>1, PacksAssumption DEF HandOver
    <3>2. [k EXCEPT !.by = "hand"] \in ContextPacks /\ [k EXCEPT !.by = "hand"].source = k.source
      BY <3>1 DEF ContextPacks
    <3> QED BY <1>9, <2>1, <3>1, <3>2 DEF HandOver
  <2>2. CASE pc # "idle"
    BY <1>9, <2>2 DEF HandOver
  <2> QED BY <2>1, <2>2
<1>10. CASE ReadPack
  <2>1. \A i \in DOMAIN pack.docs : pack.docs[i].path \in Paths
    <3>1. \A i \in DOMAIN pack.docs : pack.docs[i] \in Entries
      BY DEF ContextPacks
    <3> QED BY <3>1 DEF Entries
  <2>2. Range(todo') \subseteq Paths
    BY <1>10, <2>1 DEF ReadPack, Range
  <2>3. errors' \subseteq ErrorCodes
    BY <1>10, ErrorTypes DEF ReadPack
  <2> QED BY <1>10, <2>2, <2>3 DEF ReadPack
<1>11. CASE ValidateDoc
  <2>1. todo \in Seq(Paths) /\ todo # <<>>
    BY <1>11 DEF ValidateDoc
  <2>2. Range(Tail(todo)) \subseteq Range(todo)
    BY <2>1, HeadAndTail
  <2>3. errors' \subseteq ErrorCodes
    BY <1>11, ErrorTypes DEF ValidateDoc, ErrorCodes
  <2> QED BY <1>11, <2>2, <2>3 DEF ValidateDoc
<1>12. CASE DocsDone
  <2>1. Range(SetToSeq(pack.source)) = pack.source /\ pack.source \subseteq References
    BY SetToSeqProperties DEF ContextPacks, References
  <2> QED BY <1>12, <2>1 DEF DocsDone, References
<1>13. CASE ValidateSource
  <2>1. todo \in Seq(References) /\ todo # <<>>
    BY <1>13 DEF ValidateSource
  <2>2. Range(Tail(todo)) \subseteq Range(todo)
    BY <2>1, HeadAndTail
  <2>3. errors' \subseteq ErrorCodes
    BY <1>13, ErrorTypes DEF ValidateSource
  <2> QED BY <1>13, <2>2, <2>3 DEF ValidateSource
<1>14. CASE Conclude
  <2>1. errors' \subseteq ErrorCodes
    BY <1>14, ErrorTypes DEF Conclude
  <2>2. verdict' \in {"failed", "warning", "passed"}
    BY <1>14 DEF Conclude
  <2> QED BY <1>14, <2>1, <2>2 DEF Conclude
<1>15. ASSUME NEW p \in Paths, NEW n \in Nodes, WriteDoc(p, n) PROVE TypeOK'
  <2>1. writes + 1 \in 0 .. MaxWrites
    BY <1>15, BoundAssumption DEF WriteDoc, Change
  <2>2. tree' \in [Paths -> Nodes]
    BY <1>15 DEF WriteDoc
  <2> QED BY <1>15, <2>1, <2>2 DEF WriteDoc, Change
<1>16. ASSUME NEW l \in Links, Relink(l) PROVE TypeOK'
  <2>1. writes + 1 \in 0 .. MaxWrites
    BY <1>16, BoundAssumption DEF Relink, Change
  <2> QED BY <1>16, <2>1 DEF Relink, Change
<1> QED
  BY <1>0, <1>1, <1>2, <1>3, <1>4, <1>5, <1>6, <1>7, <1>8, <1>9, <1>10, <1>11, <1>12, <1>13, <1>14, <1>15, <1>16 DEF Next

\* The builder makes an entry of each reference at most.
LEMMA BuildStep ==
  ASSUME IInv, [Next]_vars
  PROVE  BuildInv'
<1> USE DEF arguments, environment, findings, IInv, TypeOK, BuildInv
<1>0. CASE UNCHANGED vars
  BY <1>0 DEF vars
<1>1. CASE ReadPacket
  BY <1>1, Shapes DEF ReadPacket
<1>2. CASE ExamineDoc
  <2>1. Head(todo) \in Paths /\ Tail(todo) \in Seq(Paths) /\ Len(Tail(todo)) = Len(todo) - 1
    BY <1>2, HeadAndTail DEF ExamineDoc
  <2>2. Len(packet.required) \in Nat /\ Len(todo) \in Nat /\ Len(docs) \in Nat
    BY <1>2, Shapes DEF ExamineDoc
  <2>3. /\ docs' = docs /\ packet' = packet /\ pc = "docs"
        /\ \/ pc' = "sha256" /\ todo' = todo
           \/ pc' = "docs" /\ todo' = Tail(todo)
    BY <1>2 DEF ExamineDoc
  <2>4. todo \in Seq(Paths) /\ todo # <<>>
    BY <1>2 DEF ExamineDoc
  <2>5. docs \in Seq(Entries) /\ Len(docs) + Len(todo) <= Len(packet.required)
    BY <2>3
  <2>6. todo' \in Seq(Paths) /\ Len(todo') <= Len(todo) /\ Len(todo') \in Nat
    <3>1. CASE todo' = todo
      BY <2>2, <2>4, <3>1
    <3>2. CASE todo' = Tail(todo)
      <4>1. Len(todo) - 1 <= Len(todo) /\ Len(Tail(todo)) \in Nat
        BY <2>1, <2>2
      <4> QED BY <2>1, <3>2, <4>1
    <3> QED BY <2>3, <3>1, <3>2
  <2>7. Len(docs') + Len(todo') <= Len(packet'.required)
    BY <2>2, <2>3, <2>5, <2>6
  <2> QED BY <2>3, <2>4, <2>5, <2>6, <2>7
<1>3. CASE DigestDoc
  <2>1. CASE Readable(Head(todo))
    <3>1. Len(docs') > 0 /\ todo' = todo
      BY <1>3, <2>1, DigestedDocs DEF DigestDoc
    <3> QED BY <1>3, <2>1, <3>1, DigestedDocs, Shapes DEF DigestDoc
  <2>2. CASE ~Readable(Head(todo))
    BY <1>3, <2>2 DEF DigestDoc
  <2> QED BY <2>1, <2>2
<1>4. CASE SizeDoc
  <2>1. Head(todo) \in Paths /\ Tail(todo) \in Seq(Paths) /\ Len(Tail(todo)) = Len(todo) - 1
    BY <1>4, HeadAndTail DEF SizeDoc
  <2>2. CASE Readable(Head(todo))
    <3>1. docs' \in Seq(Entries) /\ Len(docs') <= Len(docs)
      BY <1>4, <2>2, SizedDocs
    <3>2. todo' = Tail(todo) /\ pc' = "docs" /\ packet' = packet
      BY <1>4, <2>2 DEF SizeDoc
    <3>3. Len(docs) + Len(todo) <= Len(packet.required) + 1 /\ Len(packet.required) \in Nat
      BY <1>4, Shapes DEF SizeDoc
    <3> QED BY <2>1, <3>1, <3>2, <3>3
  <2>3. CASE ~Readable(Head(todo))
    BY <1>4, <2>3 DEF SizeDoc
  <2> QED BY <2>2, <2>3
<1>5. CASE Decide
  BY <1>5 DEF Decide
<1>6. CASE ResolveOutput
  <2>1. leads[out] \in Locations
    BY <1>6, Shapes, LinksAssumption DEF ResolveOutput
  <2> QED BY <1>6, <2>1 DEF ResolveOutput
<1>7. CASE CheckOutput
  BY <1>7 DEF CheckOutput
<1>8. ASSUME NEW written \in BOOLEAN, WritePack(written) PROVE BuildInv'
  BY <1>8 DEF WritePack
<1>9. ASSUME NEW k \in Packs \cup {pack}, HandOver(k) PROVE BuildInv'
  BY <1>9 DEF HandOver
<1>10. CASE ReadPack
  BY <1>10 DEF ReadPack
<1>11. CASE ValidateDoc
  BY <1>11 DEF ValidateDoc
<1>12. CASE DocsDone
  BY <1>12 DEF DocsDone
<1>13. CASE ValidateSource
  BY <1>13 DEF ValidateSource
<1>14. CASE Conclude
  BY <1>14 DEF Conclude
<1>15. ASSUME NEW p \in Paths, NEW n \in Nodes, WriteDoc(p, n) PROVE BuildInv'
  BY <1>15 DEF WriteDoc, Change
<1>16. ASSUME NEW l \in Links, Relink(l) PROVE BuildInv'
  BY <1>16 DEF Relink, Change
<1> QED
  BY <1>0, <1>1, <1>2, <1>3, <1>4, <1>5, <1>6, <1>7, <1>8, <1>9, <1>10, <1>11, <1>12, <1>13, <1>14, <1>15, <1>16 DEF Next

\* What was in order stays so until a document changes.
LEMMA CleanStep ==
  ASSUME IInv, [Next]_vars
  PROVE  CleanInv'
<1> USE CleanFrame DEF arguments, environment, findings, IInv, TypeOK, BuildInv, CleanInv
<1>0. CASE UNCHANGED vars
  BY <1>0 DEF vars
<1>1. CASE ReadPacket
  BY <1>1 DEF ReadPacket
<1>2. CASE ExamineDoc
  <2>1. Head(todo) \in Paths
    BY <1>2, HeadAndTail DEF ExamineDoc
  <2>2. DocFindings(Head(todo)) = {} => Clean(Head(todo))
    BY <2>1, Shapes DEF DocFindings, Clean
  <2> QED BY <1>2, <2>2, CleanFrame DEF ExamineDoc
<1>3. CASE DigestDoc
  <2>1. CASE Readable(Head(todo))
    BY <1>3, <2>1, DigestedDocs, CleanFrame DEF DigestDoc
  <2>2. CASE ~Readable(Head(todo))
    BY <1>3, <2>2, CleanFrame DEF DigestDoc
  <2> QED BY <2>1, <2>2
<1>4. CASE SizeDoc
  <2>1. CASE Readable(Head(todo))
    BY <1>4, <2>1, SizedDocs, CleanFrame DEF SizeDoc
  <2>2. CASE ~Readable(Head(todo))
    BY <1>4, <2>2, CleanFrame DEF SizeDoc
  <2> QED BY <2>1, <2>2
<1>5. CASE Decide
  BY <1>5 DEF Decide
<1>6. CASE ResolveOutput
  BY <1>6 DEF ResolveOutput
<1>7. CASE CheckOutput
  BY <1>7 DEF CheckOutput
<1>8. ASSUME NEW written \in BOOLEAN, WritePack(written) PROVE CleanInv'
  BY <1>8 DEF WritePack
<1>9. ASSUME NEW k \in Packs \cup {pack}, HandOver(k) PROVE CleanInv'
  BY <1>9 DEF HandOver
<1>10. CASE ReadPack
  BY <1>10 DEF ReadPack
<1>11. CASE ValidateDoc
  BY <1>11 DEF ValidateDoc
<1>12. CASE DocsDone
  BY <1>12 DEF DocsDone
<1>13. CASE ValidateSource
  BY <1>13 DEF ValidateSource
<1>14. CASE Conclude
  BY <1>14 DEF Conclude
<1>15. ASSUME NEW p \in Paths, NEW n \in Nodes, WriteDoc(p, n) PROVE CleanInv'
  BY <1>15 DEF WriteDoc, Change
<1>16. ASSUME NEW l \in Links, Relink(l) PROVE CleanInv'
  BY <1>16 DEF Relink, Change
<1> QED
  BY <1>0, <1>1, <1>2, <1>3, <1>4, <1>5, <1>6, <1>7, <1>8, <1>9, <1>10, <1>11, <1>12, <1>13, <1>14, <1>15, <1>16 DEF Next

\* A built pack is the proposal.
LEMMA PackStep ==
  ASSUME IInv, [Next]_vars
  PROVE  PackInv'
<1> USE ProposalFrame DEF arguments, environment, findings, IInv, TypeOK, BuildInv, PackInv, Validating
<1>0. CASE UNCHANGED vars
  BY <1>0 DEF vars
<1>1. CASE ReadPacket
  BY <1>1 DEF ReadPacket
<1>2. CASE ExamineDoc
  BY <1>2 DEF ExamineDoc
<1>3. CASE DigestDoc
  BY <1>3 DEF DigestDoc
<1>4. CASE SizeDoc
  BY <1>4 DEF SizeDoc
<1>5. CASE Decide
  BY <1>5 DEF Decide
<1>6. CASE ResolveOutput
  BY <1>6 DEF ResolveOutput
<1>7. CASE CheckOutput
  BY <1>7 DEF CheckOutput
<1>8. ASSUME NEW written \in BOOLEAN, WritePack(written) PROVE PackInv'
  BY <1>8 DEF WritePack
<1>9. ASSUME NEW k \in Packs \cup {pack}, HandOver(k) PROVE PackInv'
  <2>1. CASE pc = "idle"
    <3>1. k \in ContextPacks
      BY <1>9, <2>1, PacksAssumption DEF HandOver
    <3>2. [k EXCEPT !.by = "hand"].by = "hand"
      BY <3>1 DEF ContextPacks
    <3> QED BY <1>9, <2>1, <3>2 DEF HandOver
  <2>2. CASE pc # "idle"
    BY <1>9, <2>2, ProposalFrame DEF HandOver
  <2> QED BY <2>1, <2>2
<1>10. CASE ReadPack
  BY <1>10 DEF ReadPack
<1>11. CASE ValidateDoc
  BY <1>11 DEF ValidateDoc
<1>12. CASE DocsDone
  BY <1>12 DEF DocsDone
<1>13. CASE ValidateSource
  BY <1>13 DEF ValidateSource
<1>14. CASE Conclude
  BY <1>14 DEF Conclude
<1>15. ASSUME NEW p \in Paths, NEW n \in Nodes, WriteDoc(p, n) PROVE PackInv'
  BY <1>15 DEF WriteDoc, Change
<1>16. ASSUME NEW l \in Links, Relink(l) PROVE PackInv'
  BY <1>16 DEF Relink, Change
<1> QED
  BY <1>0, <1>1, <1>2, <1>3, <1>4, <1>5, <1>6, <1>7, <1>8, <1>9, <1>10, <1>11, <1>12, <1>13, <1>14, <1>15, <1>16 DEF Next

\* The validator works through what the pack lists.
LEMMA TodoStep ==
  ASSUME IInv, [Next]_vars
  PROVE  TodoInv'
<1> USE DEF arguments, environment, findings, IInv, TypeOK, TodoInv
<1>0. CASE UNCHANGED vars
  BY <1>0 DEF vars
<1>1. CASE ReadPacket
  BY <1>1 DEF ReadPacket
<1>2. CASE ExamineDoc
  BY <1>2 DEF ExamineDoc
<1>3. CASE DigestDoc
  BY <1>3 DEF DigestDoc
<1>4. CASE SizeDoc
  BY <1>4 DEF SizeDoc
<1>5. CASE Decide
  BY <1>5 DEF Decide
<1>6. CASE ResolveOutput
  BY <1>6 DEF ResolveOutput
<1>7. CASE CheckOutput
  BY <1>7 DEF CheckOutput
<1>8. ASSUME NEW written \in BOOLEAN, WritePack(written) PROVE TodoInv'
  BY <1>8 DEF WritePack
<1>9. ASSUME NEW k \in Packs \cup {pack}, HandOver(k) PROVE TodoInv'
  BY <1>9 DEF HandOver
<1>10. CASE ReadPack
  <2>1. \A i \in DOMAIN pack.docs : pack.docs[i].path \in Paths
    <3>1. \A i \in DOMAIN pack.docs : pack.docs[i] \in Entries
      BY DEF ContextPacks
    <3> QED BY <3>1 DEF Entries
  <2>2. pack.docs \in Seq(Entries)
    BY DEF ContextPacks
  <2>3. todo' \in Seq(Paths)
    BY <1>10, <2>1, <2>2 DEF ReadPack
  <2>4. \A x \in Range(todo') : \E i \in DOMAIN pack.docs : x = pack.docs[i].path
    BY <1>10 DEF ReadPack, Range
  <2> QED BY <1>10, <2>3, <2>4 DEF ReadPack
<1>11. CASE ValidateDoc
  <2>1. Tail(todo) \in Seq(Paths) /\ Range(Tail(todo)) \subseteq Range(todo)
    BY <1>11, HeadAndTail DEF ValidateDoc
  <2> QED BY <1>11, <2>1 DEF ValidateDoc
<1>12. CASE DocsDone
  <2>1. SetToSeq(pack.source) \in Seq(References) /\ Range(SetToSeq(pack.source)) = pack.source
    BY SetToSeqProperties DEF ContextPacks, References
  <2> QED BY <1>12, <2>1 DEF DocsDone
<1>13. CASE ValidateSource
  <2>1. Tail(todo) \in Seq(References) /\ Range(Tail(todo)) \subseteq Range(todo)
    BY <1>13, HeadAndTail DEF ValidateSource
  <2> QED BY <1>13, <2>1 DEF ValidateSource
<1>14. CASE Conclude
  BY <1>14 DEF Conclude
<1>15. ASSUME NEW p \in Paths, NEW n \in Nodes, WriteDoc(p, n) PROVE TodoInv'
  BY <1>15 DEF WriteDoc, Change
<1>16. ASSUME NEW l \in Links, Relink(l) PROVE TodoInv'
  BY <1>16 DEF Relink, Change
<1> QED
  BY <1>0, <1>1, <1>2, <1>3, <1>4, <1>5, <1>6, <1>7, <1>8, <1>9, <1>10, <1>11, <1>12, <1>13, <1>14, <1>15, <1>16 DEF Next

\* What the validator has been through is as it should be.
LEMMA CheckStep ==
  ASSUME IInv, [Next]_vars
  PROVE  CheckInv'
<1> USE PassedFrame, RequiredFrame DEF arguments, environment, findings, IInv, TypeOK, TodoInv, CheckInv, Validating
<1>0. CASE UNCHANGED vars
  BY <1>0 DEF vars
<1>1. CASE ReadPacket
  BY <1>1 DEF ReadPacket
<1>2. CASE ExamineDoc
  BY <1>2 DEF ExamineDoc
<1>3. CASE DigestDoc
  BY <1>3 DEF DigestDoc
<1>4. CASE SizeDoc
  BY <1>4 DEF SizeDoc
<1>5. CASE Decide
  BY <1>5 DEF Decide
<1>6. CASE ResolveOutput
  BY <1>6 DEF ResolveOutput
<1>7. CASE CheckOutput
  BY <1>7 DEF CheckOutput
<1>8. ASSUME NEW written \in BOOLEAN, WritePack(written) PROVE CheckInv'
  BY <1>8 DEF WritePack
<1>9. ASSUME NEW k \in Packs \cup {pack}, HandOver(k) PROVE CheckInv'
  BY <1>9 DEF HandOver
<1>10. CASE ReadPack
  <2>1. \A i \in DOMAIN pack.docs : pack.docs[i].path \in Range(todo')
    BY <1>10 DEF ReadPack, Range
  <2>2. errors' = {} => ForbiddenErrors = {}
    BY <1>10 DEF ReadPack
  <2> QED BY <1>10, <2>1, <2>2, RequiredFrame DEF ReadPack
<1>11. CASE ValidateDoc
  <2>1. Range(todo) = {Head(todo)} \cup Range(Tail(todo))
    BY <1>11, HeadAndTail DEF ValidateDoc
  <2>2. Head(todo) \in Paths
    BY <1>11, HeadAndTail DEF ValidateDoc
  <2>3. errors' = {} => errors = {} /\ Passed(Head(todo))
    BY <1>11, <2>2, Shapes DEF ValidateDoc, Passed, NormalErrors
  <2> QED BY <1>11, <2>1, <2>3, PassedFrame, RequiredFrame DEF ValidateDoc
<1>12. CASE DocsDone
  <2>1. Range(SetToSeq(pack.source)) = pack.source
    BY SetToSeqProperties DEF ContextPacks
  <2>2. Range(todo) = {}
    BY <1>12 DEF DocsDone, Range
  <2> QED BY <1>12, <2>1, <2>2, PassedFrame, RequiredFrame DEF DocsDone
<1>13. CASE ValidateSource
  <2>1. Range(todo) = {Head(todo)} \cup Range(Tail(todo))
    BY <1>13, HeadAndTail DEF ValidateSource
  <2>2. errors' = {} => errors = {} /\ ~Lexical[Head(todo).path].unsafe
    BY <1>13 DEF ValidateSource, SourceErrors, NormalErrors
  <2>3. errors' = {} /\ warnings' = {} => warnings = {} /\ Head(todo) \in Required
    BY <1>13, <2>2 DEF ValidateSource, Required
  <2> QED BY <1>13, <2>1, <2>2, <2>3, PassedFrame, RequiredFrame DEF ValidateSource
<1>14. CASE Conclude
  <2>1. Range(todo) = {}
    BY <1>14 DEF Conclude, Range
  <2>2. errors' = {} => errors = {}
    BY <1>14 DEF Conclude
  <2>3. verdict' = "passed" => errors' = {} /\ warnings' = {}
    BY <1>14 DEF Conclude
  <2> QED BY <1>14, <2>1, <2>2, <2>3, PassedFrame, RequiredFrame DEF Conclude
<1>15. ASSUME NEW p \in Paths, NEW n \in Nodes, WriteDoc(p, n) PROVE CheckInv'
  BY <1>15 DEF WriteDoc, Change
<1>16. ASSUME NEW l \in Links, Relink(l) PROVE CheckInv'
  BY <1>16 DEF Relink, Change
<1> QED
  BY <1>0, <1>1, <1>2, <1>3, <1>4, <1>5, <1>6, <1>7, <1>8, <1>9, <1>10, <1>11, <1>12, <1>13, <1>14, <1>15, <1>16 DEF Next

\* The sources of a built pack are among its documents.
LEMMA BuiltSources ==
  ASSUME IInv, pack.by = "builder"
  PROVE  pack.source \subseteq Required
<1>1. pack = Proposal /\ docs \in Seq(Entries)
  BY DEF IInv, PackInv, BuildInv
<1>2. pack.docs = docs /\ pack.source \subseteq DocPaths
  BY <1>1, ProposalType DEF IInv
<1> QED BY <1>2 DEF DocPaths, Required, Range

\* A document of a built pack has no errors but those that are excused.
LEMMA BuiltDocs ==
  ASSUME IInv, pack.by = "builder", "build" \in still, ~Excused
  PROVE  /\ TopLevelErrors = {} /\ ForbiddenErrors = {} /\ BudgetErrors = {}
         /\ \A i \in DOMAIN pack.docs : Passed(pack.docs[i].path)
<1>1. pack = Proposal /\ docs # <<>> /\ docs \in Seq(Entries)
  BY DEF IInv, PackInv, BuildInv
<1>2. /\ pack.fields /\ pack.fits /\ pack.docs = docs /\ pack.forbidden = ForbiddenDocs
      /\ pack.source \subseteq DocPaths /\ pack.source # {}
  BY <1>1, ProposalType DEF IInv
<1>3. TopLevelErrors = {} /\ BudgetErrors = {}
  BY <1>1, <1>2 DEF TopLevelErrors, BudgetErrors
<1>4. ForbiddenErrors = {}
  BY DEF ForbiddenErrors, NormalErrors, Excused
<1>5. ASSUME NEW i \in DOMAIN pack.docs PROVE Passed(pack.docs[i].path)
  <2>1. Clean(pack.docs[i].path)
    BY <1>2 DEF IInv, CleanInv
  <2>2. PolicyErrors(pack.docs[i].path, pack.forbidden) = {}
    BY <1>2, <2>1 DEF PolicyErrors, Clean, Covered
  <2> QED BY <2>1, <2>2 DEF Passed, Clean, Excused
<1> QED BY <1>3, <1>4, <1>5

\* The validator finds no fault with a built pack that is not excused.
LEMMA AcceptStep ==
  ASSUME IInv, [Next]_vars
  PROVE  AcceptInv'
<1> USE PassedFrame DEF arguments, environment, findings, IInv, TypeOK, TodoInv, AcceptInv, Validating
<1>0. CASE UNCHANGED vars
  BY <1>0 DEF vars
<1>1. CASE ReadPacket
  BY <1>1 DEF ReadPacket
<1>2. CASE ExamineDoc
  BY <1>2 DEF ExamineDoc
<1>3. CASE DigestDoc
  BY <1>3 DEF DigestDoc
<1>4. CASE SizeDoc
  BY <1>4 DEF SizeDoc
<1>5. CASE Decide
  BY <1>5 DEF Decide
<1>6. CASE ResolveOutput
  BY <1>6 DEF ResolveOutput
<1>7. CASE CheckOutput
  BY <1>7 DEF CheckOutput
<1>8. ASSUME NEW written \in BOOLEAN, WritePack(written) PROVE AcceptInv'
  BY <1>8 DEF WritePack
<1>9. ASSUME NEW k \in Packs \cup {pack}, HandOver(k) PROVE AcceptInv'
  BY <1>9 DEF HandOver
<1>10. CASE ReadPack
  <2> SUFFICES ASSUME pack.by = "builder", "build" \in still, ~Excused
               PROVE  errors' = {}
    BY <1>10, PassedFrame DEF ReadPack
  <2> QED BY <1>10, BuiltDocs DEF ReadPack
<1>11. CASE ValidateDoc
  <2> SUFFICES ASSUME pack.by = "builder", "build" \in still, ~Excused, errors = {}
               PROVE  errors' = {}
    BY <1>11, PassedFrame DEF ValidateDoc
  <2>0. Head(todo) \in Range(todo)
    BY <1>11, HeadAndTail DEF ValidateDoc
  <2>1. PICK i \in DOMAIN pack.docs : Head(todo) = pack.docs[i].path
    BY <1>11, <2>0 DEF ValidateDoc
  <2>2. Passed(Head(todo))
    BY <2>1, BuiltDocs
  <2> QED BY <1>11, <2>2 DEF ValidateDoc, Passed
<1>12. CASE DocsDone
  BY <1>12, PassedFrame DEF DocsDone
<1>13. CASE ValidateSource
  <2> SUFFICES ASSUME pack.by = "builder", "build" \in still
               PROVE  /\ ~Excused /\ errors = {} => errors' = {}
                      /\ warnings' = {}
    BY <1>13, PassedFrame DEF ValidateSource
  <2>1. Head(todo) \in pack.source
    BY <1>13, HeadAndTail DEF ValidateSource
  <2>2. Head(todo) \in Required
    BY <2>1, BuiltSources
  <2>3. ASSUME ~Excused PROVE SourceErrors(Head(todo).path) = {}
    <3>0. PICK d \in Range(pack.docs) : Head(todo) = [path |-> d.path, slash |-> d.slash]
      BY <2>2 DEF Required
    <3>1. PICK i \in DOMAIN pack.docs : Head(todo).path = pack.docs[i].path
      BY <3>0 DEF Range
    <3>2. Passed(Head(todo).path)
      BY <2>3, <3>1, BuiltDocs
    <3> QED BY <3>2 DEF Passed, SourceErrors
  <2>4. warnings' = warnings
    BY <1>13, <2>2 DEF ValidateSource, Required
  <2> QED BY <1>13, <2>3, <2>4 DEF ValidateSource
<1>14. CASE Conclude
  <2>1. verdict' = "failed" => errors' # {} \/ warnings' # {}
    BY <1>14 DEF Conclude
  <2>2. pack.by = "builder" /\ "build" \in still /\ ~Excused => errors' = errors
    BY <1>14, BuiltDocs DEF Conclude
  <2> QED BY <1>14, <2>1, <2>2, PassedFrame DEF Conclude
<1>15. ASSUME NEW p \in Paths, NEW n \in Nodes, WriteDoc(p, n) PROVE AcceptInv'
  BY <1>15 DEF WriteDoc, Change
<1>16. ASSUME NEW l \in Links, Relink(l) PROVE AcceptInv'
  BY <1>16 DEF Relink, Change
<1> QED
  BY <1>0, <1>1, <1>2, <1>3, <1>4, <1>5, <1>6, <1>7, <1>8, <1>9, <1>10, <1>11, <1>12, <1>13, <1>14, <1>15, <1>16 DEF Next

\* A pack lands where the policy allows.
LEMMA LandStep ==
  ASSUME IInv, [Next]_vars
  PROVE  LandInv'
<1> USE DEF arguments, environment, findings, IInv, TypeOK, LandInv
<1>0. CASE UNCHANGED vars
  BY <1>0 DEF vars
<1>1. CASE ReadPacket
  BY <1>1 DEF ReadPacket
<1>2. CASE ExamineDoc
  BY <1>2 DEF ExamineDoc
<1>3. CASE DigestDoc
  BY <1>3 DEF DigestDoc
<1>4. CASE SizeDoc
  BY <1>4 DEF SizeDoc
<1>5. CASE Decide
  BY <1>5 DEF Decide
<1>6. CASE ResolveOutput
  BY <1>6 DEF ResolveOutput
<1>7. CASE CheckOutput
  <2>1. pc' = "write" => Allowed(leads[target], leads, {"proposals"}, InTmp)
    BY <1>7 DEF CheckOutput
  <2> QED BY <1>7, <2>1 DEF CheckOutput
<1>8. ASSUME NEW written \in BOOLEAN, WritePack(written) PROVE LandInv'
  <2>1. target \in Locations
    BY <1>8 DEF WritePack, BuildInv
  <2> QED BY <1>8, <2>1 DEF WritePack
<1>9. ASSUME NEW k \in Packs \cup {pack}, HandOver(k) PROVE LandInv'
  BY <1>9 DEF HandOver
<1>10. CASE ReadPack
  BY <1>10 DEF ReadPack
<1>11. CASE ValidateDoc
  BY <1>11 DEF ValidateDoc
<1>12. CASE DocsDone
  BY <1>12 DEF DocsDone
<1>13. CASE ValidateSource
  BY <1>13 DEF ValidateSource
<1>14. CASE Conclude
  BY <1>14 DEF Conclude
<1>15. ASSUME NEW p \in Paths, NEW n \in Nodes, WriteDoc(p, n) PROVE LandInv'
  BY <1>15 DEF WriteDoc, Change
<1>16. ASSUME NEW l \in Links, Relink(l) PROVE LandInv'
  BY <1>16 DEF Relink, Change
<1> QED
  BY <1>0, <1>1, <1>2, <1>3, <1>4, <1>5, <1>6, <1>7, <1>8, <1>9, <1>10, <1>11, <1>12, <1>13, <1>14, <1>15, <1>16 DEF Next

------------------------------------------------------------------------------
\* The invariant holds in every reachable state.
LEMMA Inductive == Spec => []IInv
<1>1. IInv /\ [Next]_vars => IInv'
  BY TypeStep, BuildStep, CleanStep, PackStep, TodoStep, CheckStep, AcceptStep, LandStep
  DEF IInv
<1> QED BY <1>1, InitIInv, PTL DEF Spec

\* Packs, entries and findings are of their types.
THEOREM TypesAreKept == Spec => []TypeOK
<1>1. IInv => TypeOK
  BY DEF IInv
<1> QED BY <1>1, Inductive, PTL

\* The validator accepts what the builder writes, as long as no document
\* changes, except for what only the validator looks at.
THEOREM BuiltPacksPass == Spec => []BuiltPacksAreAccepted
<1>1. IInv => BuiltPacksAreAccepted
  <2> SUFFICES ASSUME IInv, verdict = "failed", pack.by = "builder", "build" \in still
               PROVE  Excused
    BY DEF BuiltPacksAreAccepted, Excused
  <2> QED BY DEF IInv, AcceptInv, Validating
<1> QED BY <1>1, Inductive, PTL

\* A strict pass lets the receiver rely on every document and every source.
THEOREM StrictPassesAreUsable == Spec => []StrictPassIsUsable
<1>1. IInv => StrictPassIsUsable
  <2> SUFFICES ASSUME IInv, verdict = "passed", "validation" \in still,
                      NEW p \in {d.path : d \in Range(pack.docs)} \cup {s.path : s \in pack.source}
               PROVE  /\ tree[p].kind = "file" \/ (tree[p].kind = "dir" /\ DirectoryErrors(p) = {})
                      /\ \A f \in pack.forbidden : p \notin Under[f]
                      /\ ~Lexical[p].archived
    BY DEF StrictPassIsUsable
  <2>1. pc = "end" /\ errors = {} /\ warnings = {}
    BY DEF IInv, CheckInv
  <2>2. ForbiddenErrors = {} /\ pack.source \subseteq Required
    BY <2>1 DEF IInv, CheckInv, Validating
  <2>3. PICK i \in DOMAIN pack.docs : p = pack.docs[i].path
    BY <2>2 DEF Required, Range
  <2>4. Passed(p)
    BY <2>1, <2>3 DEF IInv, CheckInv
  <2>5. \A f \in pack.forbidden : ~Lexical[f].unsafe
    BY <2>2 DEF ForbiddenErrors, NormalErrors
  <2>6. ~Lexical[p].archived /\ \A f \in pack.forbidden : p \notin Under[f]
    BY <2>4, <2>5 DEF Passed, PolicyErrors, Covered
  <2> QED BY <2>4, <2>6 DEF Passed
<1> QED BY <1>1, Inductive, PTL

\* Packs land in the proposals or under /tmp, if no link is in the way.
THEOREM PacksLand == Spec => []PacksLandInTheirPlace
<1>1. IInv => PacksLandInTheirPlace
  <2> SUFFICES ASSUME IInv, landed # NONE, "links" \in still, leads["proposals"] = "proposals"
               PROVE  landed \in {"proposals", "tmp"} \/ (InTmp /\ landed = "agent-system")
    BY DEF PacksLandInTheirPlace
  <2>1. PICK x \in Locations : landed = leads[x]
    BY DEF IInv, LandInv
  <2>2. Allowed(landed, leads, {"proposals"}, InTmp)
    BY DEF IInv, LandInv
  <2>3. landed \in Locations /\ leads[landed] = landed
    BY <2>1, LinksAssumption DEF IInv, TypeOK
  <2>4. \A d \in GeneratedDirs : leads[d] = d => leads["runtime"] = "runtime"
    BY LinksAssumption DEF IInv, TypeOK
  <2> QED BY <2>2, <2>3, <2>4
          DEF Allowed, Below, Locations, InWorkspace, GeneratedDirs, WORKSPACE_FORBIDDEN_ROOTS
<1> QED BY <1>1, Inductive, PTL
==============================================================================
