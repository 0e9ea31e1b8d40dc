-------------------------- MODULE UsageJournal_proofs --------------------------
(***************************************************************************)
(* Theorems about UsageJournal, for every set of blocks, every bound and   *)
(* every set of faults.  The invariant is proved in layers, each of which  *)
(* uses the ones before it: types, sequences, imports, kept blocks.        *)
(***************************************************************************)
EXTENDS UsageJournal, FiniteSetTheorems, WellFoundedInduction, TLAPS

USE JournalAssumption

Dirs == {"active", "sealed", "consuming", "bad"}
Exts == {"open", "journal", "recovering"}

--------------------------------------------------------------------------------
(* The operators the actions are built from. *)

LEMMA FileFields ==
  ASSUME NEW f \in File
  PROVE  /\ f.seq \in Nat /\ f.dir \in Dirs /\ f.ext \in Exts
         /\ f.blocks \in Seq(Blocks \cup {Torn})
         /\ Len(f.blocks) \in Nat /\ DOMAIN f.blocks = 1..Len(f.blocks)
         /\ \A i \in 1..Len(f.blocks) : f.blocks[i] \in Blocks \cup {Torn}
         /\ f.footer \in BOOLEAN /\ f.aged \in BOOLEAN
BY DEF File, Dirs, Exts

LEMMA MovedEffect ==
  ASSUME NEW f \in File, NEW d \in Dirs
  PROVE  /\ MovedTo(f, d) \in File
         /\ MovedTo(f, d).seq = f.seq /\ MovedTo(f, d).dir = d
         /\ MovedTo(f, d).ext = f.ext /\ MovedTo(f, d).blocks = f.blocks
         /\ MovedTo(f, d).footer = f.footer
BY DEF File, Dirs, MovedTo

LEMMA AppendEffect ==
  ASSUME NEW s \in Seq(Blocks \cup {Torn}), NEW x \in Blocks \cup {Torn}
  PROVE  /\ Append(s, x) \in Seq(Blocks \cup {Torn})
         /\ Len(Append(s, x)) = Len(s) + 1
         /\ Append(s, x)[Len(s) + 1] = x
         /\ \A i \in 1..Len(s) : Append(s, x)[i] = s[i]
OBVIOUS

LEMMA WrittenEffect ==
  ASSUME NEW f \in File, NEW x \in Blocks \cup {Torn}
  PROVE  /\ Written(f, x) \in File
         /\ Written(f, x).seq = f.seq /\ Written(f, x).dir = f.dir
         /\ Written(f, x).ext = f.ext /\ Written(f, x).footer = f.footer
         /\ Len(Written(f, x).blocks) = Len(f.blocks) + 1
         /\ Written(f, x).blocks[Len(f.blocks) + 1] = x
         /\ \A i \in 1..Len(f.blocks) : Written(f, x).blocks[i] = f.blocks[i]
<1>1. f.blocks \in Seq(Blocks \cup {Torn})
  BY DEF File
<1>2. /\ Written(f, x).blocks = Append(f.blocks, x)
      /\ Written(f, x).seq = f.seq /\ Written(f, x).dir = f.dir
      /\ Written(f, x).ext = f.ext /\ Written(f, x).footer = f.footer
  BY DEF File, Written
<1>3. Written(f, x) \in File
  BY <1>1, AppendEffect DEF File, Written
<1> QED
  BY <1>1, <1>2, <1>3, AppendEffect

LEMMA FootedEffect ==
  ASSUME NEW f \in File
  PROVE  LET g == [f EXCEPT !.footer = TRUE, !.aged = FALSE]
         IN  /\ g \in File /\ g.footer
             /\ g.seq = f.seq /\ g.dir = f.dir /\ g.ext = f.ext
             /\ g.blocks = f.blocks
BY DEF File

LEMMA PublishedEffect ==
  ASSUME NEW f \in File
  PROVE  LET g == [f EXCEPT !.dir = "sealed", !.ext = "journal"]
         IN  /\ g \in File /\ g.footer = f.footer
             /\ g.seq = f.seq /\ g.dir = "sealed" /\ g.ext = "journal"
             /\ g.blocks = f.blocks
BY DEF File

LEMMA RenamedEffect ==
  ASSUME NEW f \in File
  PROVE  LET g == [f EXCEPT !.ext = "journal"]
         IN  /\ g \in File /\ g.footer = f.footer
             /\ g.seq = f.seq /\ g.dir = f.dir /\ g.ext = "journal"
             /\ g.blocks = f.blocks
BY DEF File

LEMMA AgedEffect ==
  ASSUME NEW f \in File
  PROVE  LET g == [f EXCEPT !.aged = TRUE]
         IN  /\ g \in File /\ g.footer = f.footer
             /\ g.seq = f.seq /\ g.dir = f.dir /\ g.ext = f.ext
             /\ g.blocks = f.blocks
BY DEF File

LEMMA OldFileEffect ==
  ASSUME NEW s \in OldSequences,
         NEW d \in {"bad", "sealed", "consuming"}
  PROVE  /\ OldFile(s, d) \in File
         /\ OldFile(s, d).seq = s /\ OldFile(s, d).dir = d
         /\ d # "bad" => OldFile(s, d).blocks = <<>>
<1>1. s \in Nat
  BY DEF JournalAssumption
<1>2. CASE d = "bad"
  <2> DEFINE n == NewFile(s, d, "open", <<Torn>>)
  <2>1. <<Torn>> \in Seq(Blocks \cup {Torn})
    OBVIOUS
  <2>2. n \in File /\ n.seq = s /\ n.dir = d
    BY <1>1, <1>2, <2>1 DEF NewFile, File
  <2>3. OldFile(s, d) = [n EXCEPT !.aged = TRUE]
    BY <1>2 DEF OldFile
  <2> HIDE DEF n
  <2> QED
    BY <1>2, <2>2, <2>3, AgedEffect
<1>3. CASE d # "bad"
  <2> DEFINE n == NewFile(s, d, "journal", <<>>)
  <2>1. <<>> \in Seq(Blocks \cup {Torn})
    OBVIOUS
  <2>2. n \in File /\ n.seq = s /\ n.dir = d /\ n.blocks = <<>>
    BY <1>1, <1>3, <2>1 DEF NewFile, File
  <2>3. OldFile(s, d) = [n EXCEPT !.footer = TRUE, !.aged = TRUE]
    BY <1>3 DEF OldFile
  <2> HIDE DEF n
  <2> QED
    BY <1>3, <2>2, <2>3 DEF File
<1> QED
  BY <1>2, <1>3

--------------------------------------------------------------------------------
(* The sequence a new file gets is above all that are in use. *)

LEMMA LeastNumber ==
  ASSUME NEW S, S \subseteq Nat, S # {}
  PROVE  \E m \in S : \A n \in S : m <= n
<1> DEFINE Less == {p \in Nat \X Nat : p[1] < p[2]}
<1>1. IsWellFoundedOn(Less, Nat)
  BY NatLessThanWellFounded, Zenon DEF OpToRel
<1>2. PICK m \in S : \A n \in S : <<n, m>> \notin Less
  <2> HIDE DEF Less
  <2> QED
    BY <1>1, WFMin
<1>3. \A n \in S : <<n, m>> \in Nat \X Nat /\ <<n, m>>[1] = n /\ <<n, m>>[2] = m
  OBVIOUS
<1>4. \A n \in S : ~(n < m)
  BY <1>2, <1>3
<1> QED
  BY <1>4

(* By the least size of a set that has no highest number. *)
LEMMA HighestExists ==
  ASSUME NEW S \in SUBSET Int, IsFiniteSet(S), S # {}
  PROVE  \E x \in S : \A y \in S : x >= y
<1> DEFINE Bounded(T) == \E x \in T : \A y \in T : x >= y
           Sizes == {n \in Nat : \E T \in SUBSET Int :
                       /\ IsFiniteSet(T) /\ T # {} /\ Cardinality(T) = n
                       /\ ~Bounded(T)}
<1>1. SUFFICES ASSUME ~Bounded(S) PROVE FALSE
  OBVIOUS
<1>2. Cardinality(S) \in Sizes
  BY <1>1, FS_CardinalityType
<1>3. PICK n \in Sizes : \A k \in Sizes : n <= k
  <2> HIDE DEF Sizes
  <2>1. Sizes \subseteq Nat
    BY DEF Sizes
  <2> QED
    BY <1>2, <2>1, LeastNumber
<1>4. PICK T \in SUBSET Int :
        /\ IsFiniteSet(T) /\ T # {} /\ Cardinality(T) = n
        /\ ~Bounded(T)
  BY <1>3
<1>5. PICK x \in T : TRUE
  BY <1>4
<1> DEFINE R == T \ {x}
<1>6. IsFiniteSet(R) /\ Cardinality(R) = n - 1
  BY <1>4, <1>5, FS_RemoveElement
<1>7. n - 1 \in Nat /\ n \in Nat
  BY <1>6, FS_CardinalityType
<1>8. R # {}
  BY <1>4, <1>5
<1>9. Bounded(R)
  BY <1>3, <1>6, <1>7, <1>8
<1>10. PICK y \in R : \A z \in R : y >= z
  BY <1>9
<1>11. \A z \in T : z = x \/ z \in R
  OBVIOUS
<1>12. x \in Int /\ y \in Int /\ y \in T
  OBVIOUS
<1>13. CASE x >= y
  BY <1>4, <1>5, <1>10, <1>11, <1>12, <1>13
<1>14. CASE ~(x >= y)
  BY <1>4, <1>5, <1>10, <1>11, <1>12, <1>14
<1> QED
  BY <1>13, <1>14

LEMMA MaxIsHighest ==
  ASSUME NEW S \in SUBSET Int, IsFiniteSet(S), S # {}
  PROVE  Max(S) \in S /\ \A y \in S : Max(S) >= y
BY HighestExists DEF Max

--------------------------------------------------------------------------------
(* Sequences: every new file gets one above all that are in use. *)

UpgradeInv ==
  nextSeq = NoRow =>
    /\ \A f \in files :
         /\ f.seq \in OldSequences /\ f.dir # "active"
         /\ f.dir \in {"sealed", "consuming"} => f.seq \in consumed
    /\ consumed \subseteq OldSequences
    /\ claim = {}

NumbersBelow ==
  nextSeq # NoRow =>
    /\ \A s \in consumed : s < nextSeq
    /\ \A p \in claim : p.seq < nextSeq

SequenceInv == OneFilePerSequence /\ UpgradeInv /\ NumbersBelow

IsFree(s) ==
  /\ s \in Nat
  /\ \A f \in files : f.seq < s
  /\ \A c \in consumed : c < s
  /\ \A p \in claim : p.seq < s

LEMMA SeedIsFree ==
  ASSUME TypeOK, UpgradeInv, nextSeq = NoRow
  PROVE  IsFree(Seed)
<1> DEFINE U == {-1} \cup {f.seq : f \in files} \cup consumed
<1>1. U \subseteq OldSequences \cup {-1}
  BY DEF UpgradeInv
<1>2. IsFiniteSet(OldSequences \cup {-1})
  BY FS_AddElement DEF JournalAssumption
<1>3. IsFiniteSet(U) /\ U \in SUBSET Int /\ U # {}
  <2>1. -1 \in U
    OBVIOUS
  <2> HIDE DEF U
  <2>2. IsFiniteSet(U)
    BY <1>1, <1>2, FS_Subset
  <2>3. U \in SUBSET Int
    BY <1>1 DEF JournalAssumption
  <2> QED
    BY <2>1, <2>2, <2>3
<1>4. -1 \in U /\ (\A f \in files : f.seq \in U) /\ \A c \in consumed : c \in U
  OBVIOUS
<1>5. Seed = 1 + Max(U)
  BY DEF Seed
<1> HIDE DEF U
<1>6. Max(U) \in Int /\ \A y \in U : Max(U) >= y
  BY <1>3, MaxIsHighest
<1>7. \A y \in U : y \in Int
  BY <1>3
<1>8. Seed \in Nat
  BY <1>4, <1>5, <1>6
<1>9. \A y \in U : y < Seed
  BY <1>5, <1>6, <1>7
<1> QED
  BY <1>4, <1>8, <1>9 DEF UpgradeInv, IsFree

LEMMA NextIsFree ==
  ASSUME TypeOK, SequenceInv
  PROVE  IsFree(NextFileSequence)
<1>1. CASE nextSeq = NoRow
  BY <1>1, SeedIsFree DEF NextFileSequence, SequenceInv
<1>2. CASE nextSeq # NoRow
  BY <1>2 DEF NextFileSequence, SequenceInv, OneFilePerSequence, NumbersBelow,
              TypeOK, FilesTypeOK, IsFree
<1> QED
  BY <1>1, <1>2

LEMMA FreeIsNew ==
  ASSUME TypeOK, NEW s, IsFree(s)
  PROVE  /\ \A f \in files : f.seq # s
         /\ s \notin consumed
         /\ \A p \in claim : p.seq # s
         /\ ActiveFile(s) = {}
BY DEF IsFree, TypeOK, FilesTypeOK, File, WorkerTypeOK, Paths, ActiveFile, InDir

(* A file of the new state continues one of the old state: the same sequence,
   never back into active/, never out of bad/. *)
Continues(g, f) ==
  /\ g \in File /\ g.seq = f.seq
  /\ g.dir = "active" => f.dir = "active"
  /\ g.dir \in {"sealed", "consuming"} => f.dir # "bad"

FilesContinue ==
  /\ \A g \in files' : \E f \in files : Continues(g, f)
  /\ \A g, h \in files' : g.seq = h.seq => g = h

LEMMA SameContinues ==
  ASSUME NEW f \in File
  PROVE  Continues(f, f)
BY DEF Continues

LEMMA SubsetContinues ==
  ASSUME TypeOK, OneFilePerSequence, files' \subseteq files
  PROVE  FilesContinue
BY DEF Continues, FilesContinue, OneFilePerSequence, TypeOK, FilesTypeOK

LEMMA ReplacedContinues ==
  ASSUME TypeOK, OneFilePerSequence, NEW f \in files, NEW g, Continues(g, f),
         Replaced(f, g)
  PROVE  FilesContinue
<1>1. \A h \in files' : h = g \/ (h \in files /\ h # f)
  BY DEF Replaced
<1>2. \A h \in files : h \in File
  BY DEF TypeOK, FilesTypeOK
<1>3. \A h, k \in files : h.seq = k.seq => h = k
  BY DEF OneFilePerSequence
<1>4. g.seq = f.seq
  BY DEF Continues
<1>5. \A h, k \in files' : h.seq = k.seq => h = k
  BY <1>1, <1>3, <1>4
<1>6. \A h \in files' : \E k \in files : Continues(h, k)
  BY <1>1, <1>2, SameContinues
<1> QED
  BY <1>5, <1>6 DEF FilesContinue

LEMMA MappedContinues ==
  ASSUME TypeOK, OneFilePerSequence, NEW D \in SUBSET files,
         NEW F, \A f \in D : Continues(F[f], f),
         files' = {F[f] : f \in D}
  PROVE  FilesContinue
<1>1. \A g \in files' : \E f \in D : g = F[f] /\ Continues(g, f)
  OBVIOUS
<1>2. \A h, k \in files : h.seq = k.seq => h = k
  BY DEF OneFilePerSequence
<1>3. \A g, f : Continues(g, f) => g.seq = f.seq
  BY DEF Continues
<1> HIDE DEF Continues
<1>4. ASSUME NEW g \in files', NEW h \in files', g.seq = h.seq
      PROVE  g = h
  <2>1. PICK f \in D : g = F[f] /\ g.seq = f.seq
    BY <1>1, <1>3
  <2>2. PICK k \in D : h = F[k] /\ h.seq = k.seq
    BY <1>1, <1>3
  <2>3. f = k
    BY <1>2, <1>4, <2>1, <2>2
  <2> QED
    BY <2>1, <2>2, <2>3
<1> QED
  BY <1>1, <1>4 DEF FilesContinue

LEMMA NoNewFile ==
  ASSUME TypeOK, SequenceInv, FilesContinue,
         nextSeq' = nextSeq, consumed' = consumed, claim' \subseteq claim
  PROVE  FilesTypeOK' /\ SequenceInv'
<1>1. FilesTypeOK'
  BY DEF FilesContinue, Continues, TypeOK, FilesTypeOK
<1>2. \A g \in files' : \E f \in files :
        /\ g.seq = f.seq
        /\ g.dir = "active" => f.dir = "active"
        /\ g.dir \in {"sealed", "consuming"} => f.dir # "bad"
  BY DEF FilesContinue, Continues
<1>3. OneFilePerSequence'
  BY <1>2 DEF FilesContinue, SequenceInv, OneFilePerSequence
<1>4. NumbersBelow'
  BY DEF SequenceInv, NumbersBelow
<1>5. UpgradeInv'
  <2>1. SUFFICES ASSUME nextSeq = NoRow PROVE UpgradeInv'
    BY DEF UpgradeInv
  <2>2. \A f \in files : f.dir \in Dirs
    BY DEF TypeOK, FilesTypeOK, File, Dirs
  <2> QED
    BY <1>2, <2>1, <2>2 DEF SequenceInv, UpgradeInv, Dirs
<1> QED
  BY <1>1, <1>3, <1>4, <1>5 DEF SequenceInv

LEMMA OneNewFile ==
  ASSUME TypeOK, SequenceInv, AllocateSequence,
         NEW n \in File, n.seq = NextFileSequence,
         files' \subseteq files \cup {n}, consumed' = consumed, claim' = claim
  PROVE  FilesTypeOK' /\ SequenceInv'
<1>1. IsFree(NextFileSequence)
  BY NextIsFree
<1>2. nextSeq' = NextFileSequence + 1 /\ nextSeq' \in Nat /\ nextSeq' # NoRow
      /\ NextFileSequence \in Nat
  BY <1>1 DEF IsFree, AllocateSequence, NoRow
<1> DEFINE N == NextFileSequence
<1>3. N \in Nat /\ nextSeq' = N + 1
  BY <1>2
<1>4. (\A f \in files : f.seq \in Nat) /\ (\A c \in consumed : c \in Nat)
      /\ (\A p \in claim : p.seq \in Nat)
  BY DEF TypeOK, FilesTypeOK, File, WorkerTypeOK, Paths
<1>5. (\A f \in files : f.seq < N) /\ (\A c \in consumed : c < N)
      /\ \A p \in claim : p.seq < N
  BY <1>1 DEF IsFree
<1> HIDE DEF N
<1>6. FilesTypeOK'
  BY <1>2 DEF TypeOK, FilesTypeOK
<1>7. n.seq = N
  BY DEF N
<1>8. OneFilePerSequence'
  <2>1. \A f \in files' : f \in files \/ f = n
    OBVIOUS
  <2>2. \A f \in files' : f.seq < nextSeq'
    BY <1>3, <1>4, <1>5, <1>7, <2>1
  <2>3. \A f, g \in files : f.seq = g.seq => f = g
    BY DEF SequenceInv, OneFilePerSequence
  <2>4. \A f \in files : f.seq # n.seq
    BY <1>3, <1>4, <1>5, <1>7
  <2>5. \A f, g \in files' : f.seq = g.seq => f = g
    BY <2>1, <2>3, <2>4
  <2> QED
    BY <2>2, <2>5 DEF OneFilePerSequence
<1>9. UpgradeInv' /\ NumbersBelow'
  BY <1>2, <1>3, <1>4, <1>5 DEF UpgradeInv, NumbersBelow
<1> QED
  BY <1>6, <1>8, <1>9 DEF SequenceInv

--------------------------------------------------------------------------------
(* First layer: types and sequences. *)

NumberedInv == TypeOK /\ SequenceInv

LEMMA SourceIsFile ==
  ASSUME NumberedInv, NEW f \in Source
  PROVE  /\ f \in files /\ f \in File /\ f.dir = "active"
         /\ f.seq \in orphans /\ nextSeq # NoRow
BY DEF NumberedInv, TypeOK, FilesTypeOK, SequenceInv, UpgradeInv, Source, InDir

LEMMA ActiveIsFile ==
  ASSUME NumberedInv, NEW s, NEW f \in ActiveFile(s)
  PROVE  f \in files /\ f \in File /\ f.dir = "active" /\ f.seq = s
BY DEF NumberedInv, TypeOK, FilesTypeOK, ActiveFile, InDir

LEMMA StartNumbered ==
  ASSUME NumberedInv, Start, UNCHANGED workerVars
  PROVE  NumberedInv'
<1>1. /\ files' = files /\ claim' = claim
      /\ nextSeq' = nextSeq /\ consumed' = consumed
  BY DEF Start, fileVars, workerVars
<1>2. FilesContinue
  BY <1>1, SubsetContinues DEF NumberedInv, SequenceInv
<1>3. FilesTypeOK' /\ SequenceInv'
  BY <1>1, <1>2, NoNewFile DEF NumberedInv
<1>4. orphans' \subseteq Nat
  BY DEF Start, InDir, NumberedInv, TypeOK, FilesTypeOK, File
<1>5. ProducerTypeOK'
  BY <1>4 DEF Start, NumberedInv, TypeOK, ProducerTypeOK, ApiStates,
              writerVars, blockVars
<1>6. WorkerTypeOK'
  BY DEF NumberedInv, TypeOK, WorkerTypeOK, workerVars, storeVars
<1> QED
  BY <1>3, <1>5, <1>6 DEF NumberedInv, TypeOK

LEMMA CopyBlockNumbered ==
  ASSUME NumberedInv, CopyBlock, UNCHANGED workerVars
  PROVE  NumberedInv'
<1>1. claim' = claim /\ consumed' = consumed /\ WorkerTypeOK'
  BY DEF CopyBlock, NumberedInv, TypeOK, WorkerTypeOK, workerVars, storeVars
<1>2. PICK f \in Source :
        /\ copied < Len(f.blocks)
        /\ f.blocks[copied + 1] # Torn
        /\ IF output = NoRow
           THEN /\ AllocateSequence
                /\ output' = NextFileSequence
                /\ files' = files \cup {NewFile(NextFileSequence, "sealed", "recovering",
                                                <<f.blocks[copied + 1]>>)}
           ELSE /\ UNCHANGED <<nextSeq, output>>
                /\ files' = {IF g.seq = output THEN Written(g, f.blocks[copied + 1])
                                               ELSE g : g \in files}
  BY DEF CopyBlock
<1> DEFINE b == f.blocks[copied + 1]
<1>3. f \in File /\ nextSeq # NoRow
  BY SourceIsFile
<1>4. b \in Blocks \cup {Torn}
  BY <1>2, <1>3, FileFields DEF NumberedInv, TypeOK, ProducerTypeOK
<1> HIDE DEF b
<1>5. /\ FilesTypeOK' /\ SequenceInv'
      /\ output' \in Nat \cup {NoRow}
  <2>1. CASE output = NoRow
    <3> DEFINE n == NewFile(NextFileSequence, "sealed", "recovering", <<b>>)
    <3>1. IsFree(NextFileSequence)
      BY NextIsFree DEF NumberedInv
    <3>2. <<b>> \in Seq(Blocks \cup {Torn})
      BY <1>4
    <3>3. n \in File /\ n.seq = NextFileSequence
      BY <3>1, <3>2 DEF IsFree, NewFile, File
    <3>4. AllocateSequence /\ output' = NextFileSequence /\ files' = files \cup {n}
      BY <1>2, <2>1 DEF b
    <3> HIDE DEF n
    <3>5. FilesTypeOK' /\ SequenceInv'
      BY <1>1, <3>3, <3>4, OneNewFile DEF NumberedInv
    <3> QED
      BY <3>1, <3>4, <3>5 DEF IsFree
  <2>2. CASE output # NoRow
    <3> DEFINE F == [g \in files |-> IF g.seq = output THEN Written(g, b) ELSE g]
    <3>1. files' = {F[g] : g \in files} /\ nextSeq' = nextSeq /\ output' = output
      BY <1>2, <2>2 DEF b
    <3>2. ASSUME NEW g \in files PROVE Continues(F[g], g)
      <4>1. g \in File
        BY DEF NumberedInv, TypeOK, FilesTypeOK
      <4>2. Continues(g, g) /\ Continues(Written(g, b), g)
        BY <1>4, <4>1, WrittenEffect DEF Continues
      <4> QED
        BY <4>2
    <3> HIDE DEF F
    <3>3. FilesContinue
      BY <3>1, <3>2, MappedContinues DEF NumberedInv, SequenceInv
    <3> QED
      BY <1>1, <3>1, <3>3, NoNewFile DEF NumberedInv, TypeOK, ProducerTypeOK
  <2> QED
    BY <2>1, <2>2
<1>6. copied' \in Nat
  BY DEF CopyBlock, NumberedInv, TypeOK, ProducerTypeOK
<1>7. ProducerTypeOK'
  BY <1>5, <1>6 DEF CopyBlock, NumberedInv, TypeOK, ProducerTypeOK,
                    writerVars, blockVars
<1> QED
  BY <1>1, <1>5, <1>7 DEF NumberedInv, TypeOK

LEMMA LegibleBlocks ==
  ASSUME NEW f \in File
  PROVE  Legible(f) \subseteq Blocks
<1>1. \A i \in 1..Len(f.blocks) : f.blocks[i] \in Blocks \cup {Torn}
  BY FileFields
<1>2. DOMAIN f.blocks = 1..Len(f.blocks) /\ Len(f.blocks) \in Nat
  BY FileFields
<1> QED
  BY <1>1, <1>2 DEF Legible

LEMMA QuarantineEffect ==
  ASSUME NumberedInv, NEW f \in files, Quarantine(f)
  PROVE  /\ FilesContinue
         /\ orphans' \subseteq orphans /\ output' = NoRow /\ copied' = 0
<1>1. f \in File
  BY DEF NumberedInv, TypeOK, FilesTypeOK
<1>2. Continues(MovedTo(f, "bad"), f)
  BY <1>1, MovedEffect DEF Continues, Dirs
<1>3. Replaced(f, MovedTo(f, "bad"))
  BY DEF Quarantine
<1>4. FilesContinue
  BY <1>2, <1>3, ReplacedContinues DEF NumberedInv, SequenceInv
<1> QED
  BY <1>4 DEF Quarantine, NextOrphan

LEMMA ScanFailsNumbered ==
  ASSUME NumberedInv, ScanFails, UNCHANGED workerVars
  PROVE  NumberedInv'
<1>1. /\ claim' = claim /\ consumed' = consumed /\ nextSeq' = nextSeq
      /\ WorkerTypeOK'
  BY DEF ScanFails, NumberedInv, TypeOK, WorkerTypeOK, workerVars, storeVars
<1>2. PICK f \in Source : /\ Quarantine(f)
                          /\ spoiled' = spoiled \/ spoiled' = spoiled \cup Legible(f)
  BY DEF ScanFails
<1>3. f \in files /\ f \in File
  BY SourceIsFile
<1>4. FilesContinue /\ orphans' \subseteq orphans /\ output' = NoRow /\ copied' = 0
  BY <1>2, <1>3, QuarantineEffect
<1>5. FilesTypeOK' /\ SequenceInv'
  BY <1>1, <1>4, NoNewFile DEF NumberedInv
<1>6. spoiled' \subseteq Blocks
  BY <1>2, <1>3, LegibleBlocks DEF NumberedInv, TypeOK, ProducerTypeOK
<1>7. ProducerTypeOK'
  BY <1>4, <1>6 DEF ScanFails, NumberedInv, TypeOK, ProducerTypeOK, writerVars
<1> QED
  BY <1>1, <1>5, <1>7 DEF NumberedInv, TypeOK

LEMMA ScanEndsNumbered ==
  ASSUME NumberedInv, ScanEnds, UNCHANGED workerVars
  PROVE  NumberedInv'
<1>1. /\ claim' = claim /\ consumed' = consumed /\ nextSeq' = nextSeq
      /\ WorkerTypeOK'
  BY DEF ScanEnds, NumberedInv, TypeOK, WorkerTypeOK, workerVars, storeVars
<1>2. PICK f \in Source :
        IF copied = 0
        THEN Removed(f) /\ NextOrphan(f) /\ UNCHANGED api
        ELSE /\ files' = {IF g.seq = output
                            THEN [g EXCEPT !.footer = TRUE, !.aged = FALSE]
                            ELSE g : g \in files}
             /\ api' = "finish"
             /\ UNCHANGED recoveryVars
  BY DEF ScanEnds
<1>3. /\ FilesContinue /\ api' \in ApiStates /\ orphans' \subseteq orphans
      /\ output' \in {output, NoRow} /\ copied' \in {copied, 0}
  <2>1. CASE copied = 0
    <3>1. files' \subseteq files
      BY <1>2, <2>1 DEF Removed
    <3>2. FilesContinue
      BY <3>1, SubsetContinues DEF NumberedInv, SequenceInv
    <3> QED
      BY <1>2, <2>1, <3>2 DEF NextOrphan, NumberedInv, TypeOK, ProducerTypeOK
  <2>2. CASE copied # 0
    <3> DEFINE F == [g \in files |-> IF g.seq = output
                                     THEN [g EXCEPT !.footer = TRUE, !.aged = FALSE]
                                     ELSE g]
    <3>1. files' = {F[g] : g \in files}
      BY <1>2, <2>2
    <3>2. ASSUME NEW g \in files PROVE Continues(F[g], g)
      <4>1. g \in File
        BY DEF NumberedInv, TypeOK, FilesTypeOK
      <4>2. Continues(g, g) /\ Continues([g EXCEPT !.footer = TRUE, !.aged = FALSE], g)
        BY <4>1, FootedEffect DEF Continues
      <4> QED
        BY <4>2
    <3> HIDE DEF F
    <3>3. FilesContinue
      BY <3>1, <3>2, MappedContinues DEF NumberedInv, SequenceInv
    <3> QED
      BY <1>2, <2>2, <3>3 DEF recoveryVars, ApiStates
  <2> QED
    BY <2>1, <2>2
<1>4. FilesTypeOK' /\ SequenceInv'
  BY <1>1, <1>3, NoNewFile DEF NumberedInv
<1>5. ProducerTypeOK'
  <2>1. orphans' \subseteq Nat /\ output' \in Nat \cup {NoRow} /\ copied' \in Nat
    BY <1>3 DEF NumberedInv, TypeOK, ProducerTypeOK
  <2> QED
    BY <1>3, <2>1 DEF ScanEnds, NumberedInv, TypeOK, ProducerTypeOK, writerVars, blockVars
<1> QED
  BY <1>1, <1>4, <1>5 DEF NumberedInv, TypeOK

LEMMA FinishRecoveredNumbered ==
  ASSUME NumberedInv, FinishRecovered, UNCHANGED workerVars
  PROVE  NumberedInv'
<1>1. /\ claim' = claim /\ consumed' = consumed /\ nextSeq' = nextSeq
      /\ WorkerTypeOK'
  BY DEF FinishRecovered, NumberedInv, TypeOK, WorkerTypeOK, workerVars, storeVars
<1> DEFINE temp == {g \in InDir("sealed") : g.seq = output /\ g.ext = "recovering"}
<1>2. /\ FilesContinue /\ api' \in ApiStates /\ orphans' \subseteq orphans
      /\ output' \in {output, NoRow} /\ copied' \in {copied, 0}
  <2>1. CASE temp # {}
    <3>1. PICK g \in temp : Replaced(g, [g EXCEPT !.ext = "journal"])
      BY <2>1 DEF FinishRecovered
    <3>2. g \in files /\ g \in File
      BY DEF InDir, NumberedInv, TypeOK, FilesTypeOK
    <3>3. Continues([g EXCEPT !.ext = "journal"], g)
      BY <3>2, RenamedEffect DEF Continues
    <3>4. FilesContinue
      BY <3>1, <3>2, <3>3, ReplacedContinues DEF NumberedInv, SequenceInv
    <3> QED
      BY <2>1, <3>4 DEF FinishRecovered, recoveryVars, ApiStates
  <2>2. CASE temp = {}
    <3>1. (\E f \in Source : Quarantine(f)) /\ api' = "scan"
      BY <2>2 DEF FinishRecovered
    <3>2. PICK f \in Source : Quarantine(f)
      BY <3>1
    <3>3. f \in files
      BY SourceIsFile
    <3> QED
      BY <3>1, <3>2, <3>3, QuarantineEffect DEF ApiStates
  <2> QED
    BY <2>1, <2>2
<1>3. FilesTypeOK' /\ SequenceInv'
  BY <1>1, <1>2, NoNewFile DEF NumberedInv
<1>4. ProducerTypeOK'
  BY <1>2 DEF FinishRecovered, NumberedInv, TypeOK, ProducerTypeOK, writerVars, blockVars
<1> QED
  BY <1>1, <1>3, <1>4 DEF NumberedInv, TypeOK

LEMMA RemoveSourceNumbered ==
  ASSUME NumberedInv, RemoveSource, UNCHANGED workerVars
  PROVE  NumberedInv'
<1>1. /\ claim' = claim /\ consumed' = consumed /\ nextSeq' = nextSeq
      /\ WorkerTypeOK'
  BY DEF RemoveSource, NumberedInv, TypeOK, WorkerTypeOK, workerVars, storeVars
<1>2. /\ files' \subseteq files /\ orphans' \subseteq orphans
      /\ output' = NoRow /\ copied' = 0 /\ api' \in ApiStates
  BY DEF RemoveSource, Removed, NextOrphan, ApiStates
<1>3. FilesTypeOK' /\ SequenceInv'
  BY <1>1, <1>2, SubsetContinues, NoNewFile DEF NumberedInv, SequenceInv
<1>4. ProducerTypeOK'
  BY <1>2 DEF RemoveSource, NumberedInv, TypeOK, ProducerTypeOK, writerVars, blockVars
<1> QED
  BY <1>1, <1>3, <1>4 DEF NumberedInv, TypeOK

LEMMA CreateActiveNumbered ==
  ASSUME NumberedInv, CreateActive, consumed' = consumed, claim' = claim
  PROVE  /\ FilesTypeOK' /\ SequenceInv'
         /\ current' \in Nat /\ hasEvents' = FALSE
<1> DEFINE n == NewFile(NextFileSequence, "active", "open", <<>>)
<1>1. IsFree(NextFileSequence) /\ AllocateSequence
  BY NextIsFree DEF NumberedInv, CreateActive
<1>2. <<>> \in Seq(Blocks \cup {Torn})
  OBVIOUS
<1>3. n \in File /\ n.seq = NextFileSequence
  BY <1>1, <1>2 DEF IsFree, NewFile, File
<1>4. files' \subseteq files \cup {n}
  BY DEF CreateActive
<1> HIDE DEF n
<1>5. FilesTypeOK' /\ SequenceInv'
  BY <1>1, <1>3, <1>4, OneNewFile DEF NumberedInv
<1> QED
  BY <1>1, <1>5 DEF CreateActive, IsFree

LEMMA OpenFirstNumbered ==
  ASSUME NumberedInv, OpenFirst, UNCHANGED workerVars
  PROVE  NumberedInv'
<1>1. claim' = claim /\ consumed' = consumed /\ WorkerTypeOK'
  BY DEF OpenFirst, NumberedInv, TypeOK, WorkerTypeOK, workerVars, storeVars
<1>2. CreateActive
  BY DEF OpenFirst
<1>3. FilesTypeOK' /\ SequenceInv' /\ current' \in Nat /\ hasEvents' = FALSE
  BY <1>1, <1>2, CreateActiveNumbered
<1>4. ProducerTypeOK'
  BY <1>3 DEF OpenFirst, NumberedInv, TypeOK, ProducerTypeOK, ApiStates,
              recoveryVars, blockVars
<1> QED
  BY <1>1, <1>3, <1>4 DEF NumberedInv, TypeOK

LEMMA OpenNextNumbered ==
  ASSUME NumberedInv, OpenNext, UNCHANGED workerVars
  PROVE  NumberedInv'
<1>1. claim' = claim /\ consumed' = consumed /\ WorkerTypeOK'
  BY DEF OpenNext, NumberedInv, TypeOK, WorkerTypeOK, workerVars, storeVars
<1>2. CreateActive
  BY DEF OpenNext
<1>3. FilesTypeOK' /\ SequenceInv' /\ current' \in Nat /\ hasEvents' = FALSE
  BY <1>1, <1>2, CreateActiveNumbered
<1>4. ProducerTypeOK'
  BY <1>3 DEF OpenNext, NumberedInv, TypeOK, ProducerTypeOK, ApiStates,
              recoveryVars, blockVars
<1> QED
  BY <1>1, <1>3, <1>4 DEF NumberedInv, TypeOK

LEMMA OpenFailsNumbered ==
  ASSUME NumberedInv, OpenFails, UNCHANGED workerVars
  PROVE  NumberedInv'
<1>1. claim' = claim /\ consumed' = consumed /\ WorkerTypeOK' /\ AllocateSequence
  BY DEF OpenFails, NumberedInv, TypeOK, WorkerTypeOK, workerVars, storeVars
<1> DEFINE n == NewFile(NextFileSequence, "active", "open", <<Torn>>)
<1>2. IsFree(NextFileSequence)
  BY NextIsFree DEF NumberedInv
<1>3. <<Torn>> \in Seq(Blocks \cup {Torn})
  OBVIOUS
<1>4. n \in File /\ n.seq = NextFileSequence
  BY <1>2, <1>3 DEF IsFree, NewFile, File
<1>5. files' \subseteq files \cup {n}
  BY DEF OpenFails
<1> HIDE DEF n
<1>6. FilesTypeOK' /\ SequenceInv'
  BY <1>1, <1>4, <1>5, OneNewFile DEF NumberedInv
<1>7. ProducerTypeOK'
  BY DEF OpenFails, NumberedInv, TypeOK, ProducerTypeOK, ApiStates,
         writerVars, recoveryVars, blockVars
<1> QED
  BY <1>1, <1>6, <1>7 DEF NumberedInv, TypeOK

(* A write to an active file. *)
LEMMA AppendedContinues ==
  ASSUME NumberedInv, NEW s, NEW f \in ActiveFile(s),
         NEW x \in Blocks \cup {Torn}, Replaced(f, Written(f, x))
  PROVE  FilesContinue
<1>1. f \in files /\ f \in File
  BY ActiveIsFile
<1>2. Continues(Written(f, x), f)
  BY <1>1, WrittenEffect DEF Continues
<1> QED
  BY <1>1, <1>2, ReplacedContinues DEF NumberedInv, SequenceInv

LEMMA AppendEventsNumbered ==
  ASSUME NumberedInv, NEW b \in Blocks, AppendEvents(b), UNCHANGED workerVars
  PROVE  NumberedInv'
<1>1. /\ claim' = claim /\ consumed' = consumed /\ nextSeq' = nextSeq
      /\ WorkerTypeOK'
  BY DEF AppendEvents,
         NumberedInv, TypeOK, WorkerTypeOK, workerVars, storeVars
<1>2. FilesContinue
  BY AppendedContinues DEF AppendEvents
<1>3. FilesTypeOK' /\ SequenceInv'
  BY <1>1, <1>2, NoNewFile DEF NumberedInv
<1>4. spoiled' \subseteq Blocks
  BY DEF AppendEvents, NumberedInv, TypeOK, ProducerTypeOK
<1>5. ProducerTypeOK'
  BY <1>4 DEF AppendEvents, NumberedInv, TypeOK, ProducerTypeOK, ApiStates,
              recoveryVars
<1> QED
  BY <1>1, <1>3, <1>5 DEF NumberedInv, TypeOK

LEMMA AppendFailsNumbered ==
  ASSUME NumberedInv, NEW b \in Blocks, AppendFails(b), UNCHANGED workerVars
  PROVE  NumberedInv'
<1>1. /\ claim' = claim /\ consumed' = consumed /\ nextSeq' = nextSeq
      /\ WorkerTypeOK'
  BY DEF AppendFails,
         NumberedInv, TypeOK, WorkerTypeOK, workerVars, storeVars
<1>2. files' = files \/ \E f \in ActiveFile(current) : Replaced(f, Written(f, Torn))
  BY DEF AppendFails
<1>3. FilesContinue
  BY <1>2, SubsetContinues, AppendedContinues DEF NumberedInv, SequenceInv
<1>4. FilesTypeOK' /\ SequenceInv'
  BY <1>1, <1>3, NoNewFile DEF NumberedInv
<1>5. ProducerTypeOK'
  BY DEF AppendFails, NumberedInv, TypeOK, ProducerTypeOK, writerVars, recoveryVars
<1> QED
  BY <1>1, <1>4, <1>5 DEF NumberedInv, TypeOK

LEMMA WriteFooterNumbered ==
  ASSUME NumberedInv, WriteFooter, UNCHANGED workerVars
  PROVE  NumberedInv'
<1>1. /\ claim' = claim /\ consumed' = consumed /\ nextSeq' = nextSeq
      /\ WorkerTypeOK'
  BY DEF WriteFooter,
         NumberedInv, TypeOK, WorkerTypeOK, workerVars, storeVars
<1>2. PICK f \in ActiveFile(sealing) :
        Replaced(f, [f EXCEPT !.footer = TRUE, !.aged = FALSE])
  BY DEF WriteFooter
<1>3. f \in files /\ f \in File
  BY ActiveIsFile
<1>4. Continues([f EXCEPT !.footer = TRUE, !.aged = FALSE], f)
  BY <1>3, FootedEffect DEF Continues
<1>5. FilesContinue
  BY <1>2, <1>3, <1>4, ReplacedContinues DEF NumberedInv, SequenceInv
<1>6. FilesTypeOK' /\ SequenceInv'
  BY <1>1, <1>5, NoNewFile DEF NumberedInv
<1>7. ProducerTypeOK'
  BY DEF WriteFooter, NumberedInv, TypeOK, ProducerTypeOK, ApiStates,
         writerVars, recoveryVars, blockVars
<1> QED
  BY <1>1, <1>6, <1>7 DEF NumberedInv, TypeOK

LEMMA PublishSealedNumbered ==
  ASSUME NumberedInv, PublishSealed, UNCHANGED workerVars
  PROVE  NumberedInv'
<1>1. /\ claim' = claim /\ consumed' = consumed /\ nextSeq' = nextSeq
      /\ WorkerTypeOK'
  BY DEF PublishSealed,
         NumberedInv, TypeOK, WorkerTypeOK, workerVars, storeVars
<1>2. PICK f \in ActiveFile(sealing) :
        Replaced(f, [f EXCEPT !.dir = "sealed", !.ext = "journal"])
  BY DEF PublishSealed
<1>3. f \in files /\ f \in File /\ f.dir = "active"
  BY ActiveIsFile
<1>4. Continues([f EXCEPT !.dir = "sealed", !.ext = "journal"], f)
  BY <1>3, PublishedEffect DEF Continues
<1>5. FilesContinue
  BY <1>2, <1>3, <1>4, ReplacedContinues DEF NumberedInv, SequenceInv
<1>6. FilesTypeOK' /\ SequenceInv'
  BY <1>1, <1>5, NoNewFile DEF NumberedInv
<1>7. ProducerTypeOK'
  BY DEF PublishSealed, NumberedInv, TypeOK, ProducerTypeOK, ApiStates,
         recoveryVars, blockVars, NoRow
<1> QED
  BY <1>1, <1>6, <1>7 DEF NumberedInv, TypeOK

(* The steps that leave the directory alone. *)
LEMMA QuietProducerNumbered ==
  ASSUME NumberedInv, UNCHANGED workerVars,
         Maintain \/ SealFails \/ ListForRetention \/ RetentionEnds
  PROVE  NumberedInv'
<1>1. /\ claim' = claim /\ consumed' = consumed /\ nextSeq' = nextSeq
      /\ files' = files /\ WorkerTypeOK'
  BY DEF Maintain, SealFails, ListForRetention, RetentionEnds, fileVars,
         NumberedInv, TypeOK, WorkerTypeOK, workerVars, storeVars
<1>2. FilesContinue
  BY <1>1, SubsetContinues DEF NumberedInv, SequenceInv
<1>3. FilesTypeOK' /\ SequenceInv'
  BY <1>1, <1>2, NoNewFile DEF NumberedInv
<1>4. ProducerTypeOK'
  <2>1. CASE Maintain \/ SealFails \/ RetentionEnds
    BY <2>1 DEF Maintain, SealFails, RetentionEnds, NumberedInv, TypeOK, NoRow,
                ProducerTypeOK, ApiStates, writerVars, recoveryVars, blockVars
  <2>2. CASE ListForRetention
    <3> DEFINE paths == {Path(f) : f \in InDir("sealed")}
               Doomed == [seq : Nat, ext : {"open", "journal", "recovering"}]
    <3>1. paths \subseteq Doomed
      BY DEF Path, InDir, NumberedInv, TypeOK, FilesTypeOK, File
    <3>2. doomed' = Lowest(Cardinality(paths) - MaxFiles, paths)
      BY <2>2 DEF ListForRetention
    <3> HIDE DEF paths
    <3>3. doomed' \subseteq Doomed
      BY <3>1, <3>2 DEF Lowest
    <3> HIDE DEF Doomed
    <3> QED
      BY <2>2, <3>3 DEF ListForRetention, NumberedInv, TypeOK, Doomed,
                        ProducerTypeOK, ApiStates, recoveryVars, blockVars
  <2> QED
    BY <2>1, <2>2
<1> QED
  BY <1>1, <1>3, <1>4 DEF NumberedInv, TypeOK

LEMMA DeleteOldestNumbered ==
  ASSUME NumberedInv, DeleteOldest, UNCHANGED workerVars
  PROVE  NumberedInv'
<1>1. /\ claim' = claim /\ consumed' = consumed /\ nextSeq' = nextSeq
      /\ WorkerTypeOK'
  BY DEF DeleteOldest,
         NumberedInv, TypeOK, WorkerTypeOK, workerVars, storeVars
<1>2. PICK p \in Lowest(1, doomed) :
        LET found == {f \in InDir("sealed") : Path(f) = p}
        IN  IF found # {}
            THEN /\ files' = files \ found
                 /\ dropped' = dropped \cup UNION {Legible(f) : f \in found}
                 /\ doomed' = doomed \ {p}
                 /\ UNCHANGED api
            ELSE /\ UNCHANGED <<files, dropped>>
                 /\ doomed' = {}
                 /\ api' = "idle"
  BY DEF DeleteOldest
<1> DEFINE found == {f \in InDir("sealed") : Path(f) = p}
<1>3. \A f \in found : f \in File
  BY DEF InDir, NumberedInv, TypeOK, FilesTypeOK
<1>4. /\ files' \subseteq files /\ doomed' \subseteq doomed
      /\ api' \in {api, "idle"}
      /\ dropped' \subseteq dropped \cup UNION {Legible(f) : f \in found}
  BY <1>2
<1> HIDE DEF found
<1>5. dropped' \subseteq Blocks
  <2>1. \A f \in found : Legible(f) \subseteq Blocks
    BY <1>3, LegibleBlocks
  <2> QED
    BY <1>4, <2>1 DEF NumberedInv, TypeOK, ProducerTypeOK
<1>6. FilesTypeOK' /\ SequenceInv'
  BY <1>1, <1>4, SubsetContinues, NoNewFile DEF NumberedInv, SequenceInv
<1>7. ProducerTypeOK'
  BY <1>4, <1>5 DEF DeleteOldest, NumberedInv, TypeOK, ProducerTypeOK, ApiStates,
                    recoveryVars
<1> QED
  BY <1>1, <1>6, <1>7 DEF NumberedInv, TypeOK

LEMMA StopProducerTypes ==
  ASSUME ProducerTypeOK, StopProducer, unwritten' \subseteq unwritten
  PROVE  ProducerTypeOK'
BY DEF StopProducer, ProducerTypeOK, ApiStates, NoRow

LEMMA StopNumbered ==
  ASSUME NumberedInv, Stop \/ Crash, UNCHANGED workerVars
  PROVE  NumberedInv'
<1>1. /\ claim' = claim /\ consumed' = consumed /\ nextSeq' = nextSeq
      /\ StopProducer /\ WorkerTypeOK'
  BY DEF Stop, Crash, StopProducer, NumberedInv, TypeOK, WorkerTypeOK, workerVars,
         storeVars
<1>2. /\ unwritten' \subseteq unwritten
      /\ \/ files' = files
         \/ \E f \in ActiveFile(current) : Replaced(f, Written(f, Torn))
         \/ \E f \in ActiveFile(sealing) : Replaced(f, Written(f, Torn))
  BY DEF Stop, Crash, CrashInWrite
<1>3. FilesContinue
  BY <1>2, SubsetContinues, AppendedContinues DEF NumberedInv, SequenceInv
<1>4. FilesTypeOK' /\ SequenceInv'
  BY <1>1, <1>3, NoNewFile DEF NumberedInv
<1>5. ProducerTypeOK'
  BY <1>1, <1>2, StopProducerTypes DEF NumberedInv, TypeOK
<1> QED
  BY <1>1, <1>4, <1>5 DEF NumberedInv, TypeOK

LEMMA ProducerNumbered ==
  ASSUME NumberedInv, ProducerNext, UNCHANGED workerVars
  PROVE  NumberedInv'
BY StartNumbered, CopyBlockNumbered, ScanFailsNumbered, ScanEndsNumbered,
   FinishRecoveredNumbered, RemoveSourceNumbered, OpenFirstNumbered,
   AppendEventsNumbered, AppendFailsNumbered, OpenNextNumbered, OpenFailsNumbered,
   WriteFooterNumbered, PublishSealedNumbered, QuietProducerNumbered,
   DeleteOldestNumbered, StopNumbered
   DEF ProducerNext, Recovery, Writing, Retention

(* The worker's steps. *)

LEMMA ProducerUntouched ==
  ASSUME ProducerTypeOK, UNCHANGED producerVars
  PROVE  ProducerTypeOK'
BY DEF ProducerTypeOK, producerVars, writerVars, recoveryVars, blockVars

LEMMA InsertRowsTypes ==
  ASSUME WorkerTypeOK, NEW b \in Blocks, InsertRows(b)
  PROVE  /\ segment' \subseteq Blocks /\ archived' \in [Blocks -> Nat]
         /\ rollovers' \in 0..MaxRollovers
<1>1. CASE segment' = segment \cup {b} /\ UNCHANGED <<archived, rollovers>>
  BY <1>1 DEF WorkerTypeOK
<1>2. ASSUME NEW S \in SUBSET Blocks, NEW R \in SUBSET Blocks, Rollover(S, R)
      PROVE  /\ segment' \subseteq Blocks /\ archived' \in [Blocks -> Nat]
             /\ rollovers' \in 0..MaxRollovers
  <2>1. segment' = R /\ rollovers' = rollovers + 1 /\ rollovers < MaxRollovers
        /\ archived' = [c \in Blocks |-> archived[c] + IF c \in S THEN 1 ELSE 0]
    BY <1>2 DEF Rollover
  <2>2. \A c \in Blocks : (archived[c] + IF c \in S THEN 1 ELSE 0) \in Nat
    BY DEF WorkerTypeOK
  <2>3. archived' \in [Blocks -> Nat]
    BY <2>1, <2>2
  <2> QED
    BY <2>1, <2>3, MaxRolloversAssumption DEF WorkerTypeOK, MaxRolloversAssumption
<1>3. segment \in SUBSET Blocks /\ segment \cup {b} \in SUBSET Blocks
      /\ {b} \in SUBSET Blocks /\ {} \in SUBSET Blocks
  BY DEF WorkerTypeOK
<1> QED
  BY <1>1, <1>2, <1>3 DEF InsertRows

LEMMA ClaimedIsFile ==
  ASSUME NumberedInv, NEW f \in Claimed
  PROVE  /\ f \in files /\ f \in File /\ f.dir = "consuming"
         /\ \E p \in claim : f.seq = p.seq /\ f.ext = p.ext
BY DEF NumberedInv, TypeOK, FilesTypeOK, Claimed, At, InDir

LEMMA NextBlock ==
  ASSUME NumberedInv, NEW f \in Claimed, position < Len(f.blocks),
         f.blocks[position + 1] # Torn
  PROVE  f.blocks[position + 1] \in Blocks /\ position + 1 \in 1..Len(f.blocks)
<1>1. f \in File /\ position \in Nat
  BY ClaimedIsFile DEF NumberedInv, TypeOK, WorkerTypeOK
<1>2. position + 1 \in 1..Len(f.blocks)
  BY <1>1, FileFields
<1> QED
  BY <1>1, <1>2, FileFields

(* The steps that neither touch the directory nor record anything. *)
LEMMA QuietWorkerNumbered ==
  ASSUME NumberedInv, UNCHANGED producerVars,
         \/ ListSealed \/ ImportBlock \/ ImportFails \/ ReadFails \/ FinishFile
         \/ BookkeepingFails \/ WorkerDies \/ StartWorker \/ OperatorRestarts
  PROVE  NumberedInv' /\ UNCHANGED fileVars /\ claim' \subseteq claim
<1>1. UNCHANGED fileVars /\ claim' \subseteq claim
  BY DEF ListSealed, ImportBlock, ImportFails, ReadFails, FinishFile,
         BookkeepingFails, WorkerDies, StartWorker, OperatorRestarts, LoopEnds,
         Forget
<1>2. files' = files /\ nextSeq' = nextSeq /\ consumed' = consumed
  BY <1>1 DEF fileVars
<1>3. FilesTypeOK' /\ SequenceInv'
  BY <1>1, <1>2, SubsetContinues, NoNewFile DEF NumberedInv, SequenceInv
<1>4. ProducerTypeOK'
  BY ProducerUntouched DEF NumberedInv, TypeOK
<1>5. WorkerTypeOK'
  <2>1. candidates' \subseteq Paths
    <3>1. \A f \in files : [seq |-> f.seq, ext |-> f.ext] \in Paths
      BY DEF NumberedInv, TypeOK, FilesTypeOK, File, Paths
    <3> QED
      BY <3>1 DEF ListSealed, ImportBlock, ImportFails, ReadFails, FinishFile, InDir,
             BookkeepingFails, WorkerDies, StartWorker, OperatorRestarts, LoopEnds,
             Forget, NumberedInv, TypeOK, WorkerTypeOK
  <2>2. /\ segment' \subseteq Blocks /\ archived' \in [Blocks -> Nat]
        /\ rollovers' \in 0..MaxRollovers
    <3>1. UNCHANGED storeVars \/ \E b \in Blocks : InsertRows(b)
      <4>1. CASE ImportBlock \/ ImportFails
        BY <4>1, NextBlock DEF ImportBlock, ImportFails
      <4>2. CASE ~(ImportBlock \/ ImportFails)
        BY <4>2 DEF ListSealed, ReadFails, FinishFile, BookkeepingFails,
                    WorkerDies, StartWorker, OperatorRestarts
      <4> QED
        BY <4>1, <4>2
    <3>2. WorkerTypeOK
      BY DEF NumberedInv, TypeOK
    <3>3. CASE UNCHANGED storeVars
      BY <3>2, <3>3 DEF WorkerTypeOK, storeVars
    <3> QED
      BY <3>1, <3>2, <3>3, InsertRowsTypes
  <2>3. wk' \in WorkerStates /\ position' \in Nat
    BY DEF ListSealed, ImportBlock, ImportFails, ReadFails, FinishFile,
           BookkeepingFails, WorkerDies, StartWorker, OperatorRestarts, LoopEnds,
           Forget, NumberedInv, TypeOK, WorkerTypeOK, WorkerStates
  <2>4. claim' \in SUBSET Paths
    BY <1>1 DEF NumberedInv, TypeOK, WorkerTypeOK
  <2> QED
    BY <2>1, <2>2, <2>3, <2>4 DEF WorkerTypeOK
<1> QED
  BY <1>1, <1>3, <1>4, <1>5 DEF NumberedInv, TypeOK

LEMMA RecoverConsumingNumbered ==
  ASSUME NumberedInv, RecoverConsuming, UNCHANGED producerVars
  PROVE  NumberedInv'
<1> DEFINE D == {g \in files : ~(g.dir = "consuming" /\ g.seq \in consumed)}
           F == [f \in files |-> IF f.dir = "consuming" /\ f.aged
                                 THEN MovedTo(f, "sealed") ELSE f]
<1>1. D \in SUBSET files /\ files' = {F[f] : f \in D}
  BY DEF RecoverConsuming
<1>2. ASSUME NEW f \in D PROVE Continues(F[f], f)
  <2>1. f \in File
    BY DEF NumberedInv, TypeOK, FilesTypeOK
  <2>2. Continues(f, f)
        /\ (f.dir = "consuming" => Continues(MovedTo(f, "sealed"), f))
    BY <2>1, MovedEffect DEF Continues, Dirs
  <2> QED
    BY <2>2
<1> HIDE DEF D, F
<1>3. FilesContinue
  BY <1>1, <1>2, MappedContinues DEF NumberedInv, SequenceInv
<1>4. FilesTypeOK' /\ SequenceInv'
  BY <1>3, NoNewFile DEF RecoverConsuming, NumberedInv
<1>5. WorkerTypeOK'
  BY DEF RecoverConsuming, NumberedInv, TypeOK, WorkerTypeOK, WorkerStates, storeVars
<1> QED
  BY <1>4, <1>5, ProducerUntouched DEF NumberedInv, TypeOK

LEMMA DeleteConsumedNumbered ==
  ASSUME NumberedInv, DeleteConsumed, UNCHANGED producerVars
  PROVE  NumberedInv'
<1>1. /\ files' \subseteq files /\ claim' \subseteq claim
      /\ candidates' \subseteq candidates
      /\ position' \in {position, 0} /\ wk' \in WorkerStates
      /\ nextSeq' = nextSeq /\ consumed' = consumed
  BY DEF DeleteConsumed, LoopEnds, Forget, WorkerStates
<1>2. FilesTypeOK' /\ SequenceInv'
  BY <1>1, SubsetContinues, NoNewFile DEF NumberedInv, SequenceInv
<1>3. WorkerTypeOK'
  BY <1>1 DEF DeleteConsumed, NumberedInv, TypeOK, WorkerTypeOK, storeVars
<1> QED
  BY <1>2, <1>3, ProducerUntouched DEF NumberedInv, TypeOK

LEMMA ClaimOldestNumbered ==
  ASSUME NumberedInv, ClaimOldest, UNCHANGED producerVars
  PROVE  NumberedInv'
<1>1. PICK p \in candidates :
        /\ p.seq \notin consumed
        /\ IF At("sealed", {p}) # {}
           THEN /\ \E f \in At("sealed", {p}) : Replaced(f, MovedTo(f, "consuming"))
                /\ claim' = {p}
                /\ candidates' = {} /\ position' = 0
                /\ wk' = "import"
           ELSE LoopEnds /\ UNCHANGED files
  BY DEF ClaimOldest
<1>2. /\ claim' \subseteq {p} /\ p \in Paths /\ candidates' = {} /\ position' = 0
      /\ wk' \in WorkerStates /\ nextSeq' = nextSeq /\ consumed' = consumed
  BY <1>1 DEF ClaimOldest, LoopEnds, Forget, WorkerStates, NumberedInv, TypeOK,
              WorkerTypeOK
<1>3. WorkerTypeOK'
  BY <1>2 DEF ClaimOldest, NumberedInv, TypeOK, WorkerTypeOK, storeVars
<1>4. FilesTypeOK' /\ SequenceInv'
  <2>1. CASE At("sealed", {p}) # {}
    <3>1. PICK f \in At("sealed", {p}) : Replaced(f, MovedTo(f, "consuming"))
      BY <1>1, <2>1
    <3>2. f \in files /\ f \in File /\ f.dir = "sealed" /\ f.seq = p.seq
      BY DEF At, InDir, NumberedInv, TypeOK, FilesTypeOK
    <3>3. nextSeq # NoRow /\ f.seq < nextSeq
      BY <1>1, <3>2 DEF NumberedInv, SequenceInv, UpgradeInv, OneFilePerSequence
    <3>4. Continues(MovedTo(f, "consuming"), f)
      BY <3>2, MovedEffect DEF Continues, Dirs
    <3>5. FilesContinue
      BY <3>1, <3>2, <3>4, ReplacedContinues DEF NumberedInv, SequenceInv
    <3>6. \A g \in files' : \E h \in files : g \in File /\ g.seq = h.seq
      BY <3>5 DEF FilesContinue, Continues
    <3>7. FilesTypeOK'
      BY <1>2, <3>6 DEF NumberedInv, TypeOK, FilesTypeOK
    <3>8. OneFilePerSequence'
      BY <1>2, <3>5, <3>6 DEF FilesContinue, NumberedInv, SequenceInv, OneFilePerSequence
    <3>9. UpgradeInv' /\ NumbersBelow'
      BY <1>2, <3>2, <3>3 DEF NumberedInv, SequenceInv, UpgradeInv, NumbersBelow
    <3> QED
      BY <3>7, <3>8, <3>9 DEF SequenceInv
  <2>2. CASE At("sealed", {p}) = {}
    <3>1. files' = files /\ claim' = {}
      BY <1>1, <2>2 DEF LoopEnds, Forget
    <3> QED
      BY <1>2, <3>1, SubsetContinues, NoNewFile DEF NumberedInv, SequenceInv
  <2> QED
    BY <2>1, <2>2
<1> QED
  BY <1>3, <1>4, ProducerUntouched DEF NumberedInv, TypeOK

LEMMA RecordConsumedNumbered ==
  ASSUME NumberedInv, RecordConsumed, UNCHANGED producerVars
  PROVE  NumberedInv'
<1>1. /\ files' = files /\ nextSeq' = nextSeq /\ claim' = claim
      /\ consumed' = consumed \cup {p.seq : p \in claim}
  BY DEF RecordConsumed
<1>2. \A p \in claim : p.seq \in Nat
  BY DEF NumberedInv, TypeOK, WorkerTypeOK, Paths
<1>3. FilesTypeOK'
  BY <1>1, <1>2 DEF NumberedInv, TypeOK, FilesTypeOK
<1>4. OneFilePerSequence'
  BY <1>1 DEF NumberedInv, SequenceInv, OneFilePerSequence
<1>5. UpgradeInv'
  BY <1>1 DEF NumberedInv, SequenceInv, UpgradeInv
<1>6. NumbersBelow'
  BY <1>1 DEF NumberedInv, SequenceInv, NumbersBelow
<1>7. WorkerTypeOK'
  BY DEF RecordConsumed, NumberedInv, TypeOK, WorkerTypeOK, WorkerStates, storeVars
<1> QED
  BY <1>3, <1>4, <1>5, <1>6, <1>7, ProducerUntouched
     DEF NumberedInv, TypeOK, SequenceInv

LEMMA RemoveConsumedNumbered ==
  ASSUME NumberedInv, RemoveConsumed, UNCHANGED producerVars
  PROVE  NumberedInv'
<1>1. /\ files' \subseteq files /\ claim' = {} /\ candidates' = {} /\ position' = 0
      /\ wk' \in WorkerStates /\ nextSeq' = nextSeq /\ consumed' = consumed
  BY DEF RemoveConsumed, Forget, WorkerStates
<1>2. FilesTypeOK' /\ SequenceInv'
  BY <1>1, SubsetContinues, NoNewFile DEF NumberedInv, SequenceInv
<1>3. WorkerTypeOK'
  BY <1>1 DEF RemoveConsumed, NumberedInv, TypeOK, WorkerTypeOK, storeVars
<1> QED
  BY <1>2, <1>3, ProducerUntouched DEF NumberedInv, TypeOK

LEMMA LeasePassesNumbered ==
  ASSUME NumberedInv, LeasePasses, UNCHANGED producerVars
  PROVE  NumberedInv'
<1>1. PICK f \in InDir("consuming") : Replaced(f, [f EXCEPT !.aged = TRUE])
  BY DEF LeasePasses
<1>2. f \in files /\ f \in File
  BY DEF InDir, NumberedInv, TypeOK, FilesTypeOK
<1>3. Continues([f EXCEPT !.aged = TRUE], f)
  BY <1>2, AgedEffect DEF Continues
<1>4. FilesContinue
  BY <1>1, <1>2, <1>3, ReplacedContinues DEF NumberedInv, SequenceInv
<1>5. claim' = claim /\ nextSeq' = nextSeq /\ consumed' = consumed /\ WorkerTypeOK'
  BY DEF LeasePasses, NumberedInv, TypeOK, WorkerTypeOK, workerVars, storeVars
<1>6. FilesTypeOK' /\ SequenceInv'
  BY <1>4, <1>5, NoNewFile DEF NumberedInv
<1> QED
  BY <1>5, <1>6, ProducerUntouched DEF NumberedInv, TypeOK

LEMMA WorkerNumbered ==
  ASSUME NumberedInv, WorkerNext, UNCHANGED producerVars
  PROVE  NumberedInv'
BY QuietWorkerNumbered, RecoverConsumingNumbered, DeleteConsumedNumbered,
   ClaimOldestNumbered, RecordConsumedNumbered, RemoveConsumedNumbered,
   LeasePassesNumbered
   DEF WorkerNext, Importing

LEMMA InitNumbered == Init => NumberedInv
<1> SUFFICES ASSUME Init PROVE NumberedInv
  OBVIOUS
<1>1. PICK place \in [OldSequences -> {"bad", "sealed", "consuming", "gone"}] :
        /\ \A s \in OldSequences : place[s] \in {"sealed", "consuming"} => s \in consumed
        /\ files = {OldFile(s, place[s]) : s \in {t \in OldSequences : place[t] # "gone"}}
  BY DEF Init, FilesInit
<1>2. ASSUME NEW f \in files
      PROVE  \E s \in OldSequences :
               /\ f = OldFile(s, place[s]) /\ place[s] \in {"bad", "sealed", "consuming"}
               /\ f \in File /\ f.seq = s /\ f.dir = place[s]
  <2>1. PICK s \in OldSequences : f = OldFile(s, place[s]) /\ place[s] # "gone"
    BY <1>1
  <2>2. place[s] \in {"bad", "sealed", "consuming"}
    BY <2>1
  <2> QED
    BY <2>1, <2>2, OldFileEffect
<1>3. FilesTypeOK
  BY <1>2 DEF Init, FilesInit, FilesTypeOK, NoRow, JournalAssumption
<1>4. ProducerTypeOK
  BY DEF Init, ProducerInit, ProducerTypeOK, ApiStates, NoRow
<1>5. WorkerTypeOK
  BY MaxRolloversAssumption
     DEF Init, WorkerInit, WorkerTypeOK, WorkerStates, MaxRolloversAssumption
<1>6. OneFilePerSequence
  BY <1>2 DEF Init, FilesInit, OneFilePerSequence
<1>7. UpgradeInv
  BY <1>1, <1>2 DEF Init, FilesInit, WorkerInit, UpgradeInv
<1>8. NumbersBelow
  BY DEF Init, FilesInit, NumbersBelow
<1> QED
  BY <1>3, <1>4, <1>5, <1>6, <1>7, <1>8 DEF NumberedInv, TypeOK, SequenceInv

LEMMA StutterNumbered ==
  ASSUME NumberedInv, UNCHANGED vars
  PROVE  NumberedInv'
BY DEF vars, fileVars, producerVars, writerVars, recoveryVars, blockVars,
       workerVars, storeVars, NumberedInv, TypeOK, FilesTypeOK, ProducerTypeOK,
       WorkerTypeOK, SequenceInv, OneFilePerSequence, UpgradeInv, NumbersBelow

LEMMA Numbered == Spec => []NumberedInv
<1>1. NumberedInv /\ [Next]_vars => NumberedInv'
  BY ProducerNumbered, WorkerNumbered, StutterNumbered DEF Next
<1> QED
  BY InitNumbered, <1>1, PTL DEF Spec

--------------------------------------------------------------------------------
(* Second layer: what a claim, a recovered output and the record of consumed
   files say about the files they name. *)

InPlay(f) == f.dir \in {"sealed", "consuming"}

(* An active file was never handed to the worker. *)
ActiveUnread == \A f \in files : f.dir = "active" => f.seq \notin consumed

(* The worker holds one file, which stays in consuming/ meanwhile; the blocks
   before its position are stored, and all are once it saw the footer. *)
ClaimInv ==
  /\ wk \notin {"import", "record", "remove"} => claim = {}
  /\ \A p, q \in claim : p = q
  /\ \A p \in claim, f \in files :
       f.seq = p.seq =>
         /\ f.dir = "consuming" /\ f.ext = p.ext
         /\ wk = "import" =>
              /\ position <= Len(f.blocks)
              /\ \A i \in 1..position : f.blocks[i] \in Stored
         /\ wk \in {"record", "remove"} =>
              f.footer /\ \A i \in DOMAIN f.blocks : f.blocks[i] \in Stored

RecoveryInv ==
  /\ api \notin {"scan", "finish", "unlink"} => orphans = {}
  /\ orphans = {} => output = NoRow /\ copied = 0
  /\ output # NoRow => \A f \in files : f.seq = output => InPlay(f)

(* While blocks are copied, the output is there and has no footer, so that the
   worker cannot finish it, whether it has claimed it or not. *)
OutputInv ==
  api = "scan" /\ output # NoRow =>
    /\ output \notin consumed
    /\ \E g \in files : g.seq = output /\ ~g.footer /\ ~IsTorn(g)

ImportInv ==
  ActiveUnread /\ ClaimInv /\ RecoveryInv /\ OutputInv /\ ConsumedIsImported

LEMMA SameContent ==
  ASSUME NEW f, NEW g, g.blocks = f.blocks
  PROVE  Legible(g) = Legible(f) /\ (IsTorn(g) <=> IsTorn(f))
BY DEF Legible, IsTorn

LEMMA LegibleContent ==
  ASSUME NEW f \in File
  PROVE  /\ \A b : b \in Legible(f) <=>
              \E i \in 1..Len(f.blocks) :
                f.blocks[i] = b /\ \A k \in 1..i : f.blocks[k] # Torn
         /\ IsTorn(f) <=> \E i \in 1..Len(f.blocks) : f.blocks[i] = Torn
<1>1. DOMAIN f.blocks = 1..Len(f.blocks)
  BY FileFields
<1> QED
  BY <1>1 DEF Legible, IsTorn

LEMMA WrittenContent ==
  ASSUME NEW f \in File, NEW x \in Blocks \cup {Torn}
  PROVE  /\ Legible(f) \subseteq Legible(Written(f, x))
         /\ ~IsTorn(f) /\ x # Torn =>
              ~IsTorn(Written(f, x)) /\ x \in Legible(Written(f, x))
<1> DEFINE g == Written(f, x)
           n == Len(f.blocks)
<1>1. /\ g \in File /\ n \in Nat /\ Len(g.blocks) = n + 1
      /\ g.blocks[n + 1] = x
      /\ \A i \in 1..n : g.blocks[i] = f.blocks[i]
  BY WrittenEffect, FileFields
<1> HIDE DEF g
<1>2. /\ \A b : b \in Legible(f) <=>
           \E i \in 1..n : f.blocks[i] = b /\ \A k \in 1..i : f.blocks[k] # Torn
      /\ IsTorn(f) <=> \E i \in 1..n : f.blocks[i] = Torn
  BY LegibleContent
<1>3. /\ \A b : b \in Legible(g) <=>
           \E i \in 1..(n + 1) : g.blocks[i] = b /\ \A k \in 1..i : g.blocks[k] # Torn
      /\ IsTorn(g) <=> \E i \in 1..(n + 1) : g.blocks[i] = Torn
  BY <1>1, LegibleContent
<1> HIDE DEF n
<1>4. ASSUME NEW b \in Legible(f) PROVE b \in Legible(g)
  <2>1. PICK i \in 1..n : f.blocks[i] = b /\ \A k \in 1..i : f.blocks[k] # Torn
    BY <1>2
  <2>2. i \in 1..(n + 1) /\ \A k \in 1..i : k \in 1..n
    BY <1>1
  <2> QED
    BY <1>1, <1>3, <2>1, <2>2
<1>5. ASSUME ~IsTorn(f), x # Torn PROVE ~IsTorn(g) /\ x \in Legible(g)
  <2>1. \A i \in 1..(n + 1) : i \in 1..n \/ i = n + 1
    BY <1>1
  <2>2. \A i \in 1..(n + 1) : g.blocks[i] # Torn
    BY <1>1, <1>2, <1>5, <2>1
  <2>3. n + 1 \in 1..(n + 1)
    BY <1>1
  <2> QED
    BY <1>1, <1>3, <2>2, <2>3
<1> QED
  BY <1>4, <1>5 DEF g

(* What the producer does to the files: it writes active ones and the output of
   a recovery, moves active ones and publishes what is in sealed/. *)
ProducerKeeps(g, f) ==
  /\ g \in File /\ g.seq = f.seq
  /\ f.dir = "active" => g.dir # "consuming"
  /\ f.dir # "active" =>
       /\ g.dir = f.dir
       /\ f.dir = "consuming" => g.ext = f.ext
       /\ f.footer => g.footer
       /\ \/ g.blocks = f.blocks
          \/ /\ api = "scan" /\ output # NoRow /\ f.seq = output
             /\ Len(f.blocks) <= Len(g.blocks)
             /\ \A i \in 1..Len(f.blocks) : g.blocks[i] = f.blocks[i]

ProducerFiles ==
  \A g \in files' :
    \/ \E f \in files : ProducerKeeps(g, f)
    \/ g \in File /\ IsFree(g.seq)

LEMMA ProducerImports ==
  ASSUME NumberedInv, ImportInv, ProducerFiles, UNCHANGED workerVars,
         consumed' = consumed
  PROVE  ActiveUnread' /\ ClaimInv' /\ ConsumedIsImported'
<1>1. /\ claim' = claim /\ wk' = wk /\ position' = position /\ Stored' = Stored
  BY DEF workerVars, storeVars, Stored, Copies
<1>2. /\ \A f, g \in files : f.seq = g.seq => f = g
      /\ \A f \in files : f \in File
  BY DEF NumberedInv, SequenceInv, OneFilePerSequence, TypeOK, FilesTypeOK
<1>3. ActiveUnread /\ ClaimInv /\ OutputInv /\ ConsumedIsImported
  BY DEF ImportInv
<1>4. \A s : IsFree(s) => s \notin consumed /\ \A p \in claim : p.seq # s
  BY FreeIsNew DEF NumberedInv
<1>5. ASSUME NEW g \in files', g.dir = "active" PROVE g.seq \notin consumed'
  <2>1. CASE IsFree(g.seq)
    BY <1>4, <2>1
  <2>2. CASE \E f \in files : ProducerKeeps(g, f)
    BY <1>3, <1>5, <2>2 DEF ProducerKeeps, ActiveUnread
  <2> QED
    BY <2>1, <2>2 DEF ProducerFiles
<1>6. ASSUME NEW f \in files, f.footer
      PROVE  ~(api = "scan" /\ output # NoRow /\ f.seq = output)
  BY <1>2, <1>3, <1>6 DEF OutputInv
<1>7. ASSUME NEW p \in claim, NEW g \in files', g.seq = p.seq
      PROVE  /\ g.dir = "consuming" /\ g.ext = p.ext
             /\ wk = "import" =>
                  /\ position <= Len(g.blocks)
                  /\ \A i \in 1..position : g.blocks[i] \in Stored
             /\ wk \in {"record", "remove"} =>
                  g.footer /\ \A i \in DOMAIN g.blocks : g.blocks[i] \in Stored
  <2>1. PICK f \in files : ProducerKeeps(g, f)
    BY <1>4, <1>7 DEF ProducerFiles
  <2>2. f.seq = p.seq
    BY <1>7, <2>1 DEF ProducerKeeps
  <2>3. f.dir = "consuming" /\ f.ext = p.ext
    BY <1>3, <2>2 DEF ClaimInv
  <2>4. g.dir = "consuming" /\ g.ext = p.ext /\ (f.footer => g.footer)
    BY <2>1, <2>3 DEF ProducerKeeps
  <2>5. ASSUME wk = "import"
        PROVE  position <= Len(g.blocks) /\ \A i \in 1..position : g.blocks[i] \in Stored
    <3>1. position <= Len(f.blocks) /\ \A i \in 1..position : f.blocks[i] \in Stored
      BY <1>3, <2>2, <2>5 DEF ClaimInv
    <3>2. Len(f.blocks) <= Len(g.blocks)
          /\ \A i \in 1..Len(f.blocks) : g.blocks[i] = f.blocks[i]
      <4>1. Len(f.blocks) \in Nat
        BY <1>2, FileFields
      <4> QED
        BY <2>1, <2>3, <4>1 DEF ProducerKeeps
    <3>3. position \in Nat /\ Len(f.blocks) \in Nat /\ Len(g.blocks) \in Nat
      BY <1>2, <2>1, FileFields DEF ProducerKeeps, NumberedInv, TypeOK, WorkerTypeOK
    <3> HIDE DEF Stored
    <3>4. \A i \in 1..position : i \in 1..Len(f.blocks)
      BY <3>1, <3>3
    <3> QED
      BY <3>1, <3>2, <3>3, <3>4
  <2>6. ASSUME wk \in {"record", "remove"}
        PROVE  g.footer /\ \A i \in DOMAIN g.blocks : g.blocks[i] \in Stored
    <3>1. f.footer /\ \A i \in DOMAIN f.blocks : f.blocks[i] \in Stored
      BY <1>3, <2>2, <2>6 DEF ClaimInv
    <3>2. g.blocks = f.blocks
      BY <1>6, <2>1, <2>3, <3>1 DEF ProducerKeeps
    <3> QED
      BY <2>4, <3>1, <3>2
  <2> QED
    BY <2>4, <2>5, <2>6
<1>8. ASSUME NEW g \in files', g.dir # "bad", g.seq \in consumed
      PROVE  \A i \in DOMAIN g.blocks : g.blocks[i] \in Stored
  <2>1. PICK f \in files : ProducerKeeps(g, f)
    BY <1>4, <1>8 DEF ProducerFiles
  <2>2. f.seq = g.seq /\ f.dir # "active"
    BY <1>3, <1>8, <2>1 DEF ProducerKeeps, ActiveUnread
  <2>3. f.dir = g.dir
    BY <2>1, <2>2 DEF ProducerKeeps
  <2>4. \A i \in DOMAIN f.blocks : f.blocks[i] \in Stored
    BY <1>3, <1>8, <2>2, <2>3 DEF ConsumedIsImported
  <2>5. g.blocks = f.blocks
    BY <1>3, <1>8, <2>1, <2>2 DEF ProducerKeeps, OutputInv
  <2> QED
    BY <2>4, <2>5
<1>9. ActiveUnread'
  BY <1>5 DEF ActiveUnread
<1>10. ClaimInv'
  <2>1. ClaimInv
    BY <1>3
  <2> HIDE DEF Stored
  <2>2. (wk' \notin {"import", "record", "remove"} => claim' = {})
        /\ \A p, q \in claim' : p = q
    BY <1>1, <2>1 DEF ClaimInv
  <2> QED
    BY <1>1, <1>7, <2>2 DEF ClaimInv
<1>11. ConsumedIsImported'
  BY <1>1, <1>8 DEF ConsumedIsImported
<1> QED
  BY <1>9, <1>10, <1>11

LEMMA SameKeeps ==
  ASSUME NEW f \in File
  PROVE  ProducerKeeps(f, f)
BY DEF ProducerKeeps

LEMMA ActiveKeeps ==
  ASSUME NEW f \in File, f.dir = "active",
         NEW g \in File, g.seq = f.seq, g.dir # "consuming"
  PROVE  ProducerKeeps(g, f)
BY DEF ProducerKeeps

LEMMA SubsetKeeps ==
  ASSUME NumberedInv, files' \subseteq files
  PROVE  ProducerFiles
BY SameKeeps DEF ProducerFiles, NumberedInv, TypeOK, FilesTypeOK

LEMMA ReplacedKeeps ==
  ASSUME NumberedInv, NEW f \in files, NEW g, ProducerKeeps(g, f), Replaced(f, g)
  PROVE  ProducerFiles
<1>1. \A h \in files' : h = g \/ (h \in files /\ h \in File)
  BY DEF Replaced, NumberedInv, TypeOK, FilesTypeOK
<1> QED
  BY <1>1, SameKeeps DEF ProducerFiles

LEMMA AppendedKeeps ==
  ASSUME NumberedInv, NEW s, NEW f \in ActiveFile(s),
         NEW x \in Blocks \cup {Torn}, Replaced(f, Written(f, x))
  PROVE  ProducerFiles
<1>1. f \in files /\ f \in File /\ f.dir = "active"
  BY ActiveIsFile
<1>2. ProducerKeeps(Written(f, x), f)
  BY <1>1, WrittenEffect, ActiveKeeps
<1> QED
  BY <1>1, <1>2, ReplacedKeeps

LEMMA QuarantineKeeps ==
  ASSUME NumberedInv, NEW f \in Source, Quarantine(f)
  PROVE  ProducerFiles /\ output' = NoRow /\ copied' = 0
<1>1. f \in files /\ f \in File /\ f.dir = "active"
  BY SourceIsFile
<1>2. ProducerKeeps(MovedTo(f, "bad"), f)
  BY <1>1, MovedEffect, ActiveKeeps DEF Dirs
<1> QED
  BY <1>1, <1>2, ReplacedKeeps DEF Quarantine, NextOrphan

LEMMA CreatedKeeps ==
  ASSUME NumberedInv, CreateActive
  PROVE  ProducerFiles
<1> DEFINE n == NewFile(NextFileSequence, "active", "open", <<>>)
<1>1. IsFree(NextFileSequence)
  BY NextIsFree DEF NumberedInv
<1>2. <<>> \in Seq(Blocks \cup {Torn})
  OBVIOUS
<1>3. n \in File /\ n.seq = NextFileSequence
  BY <1>1, <1>2 DEF IsFree, NewFile, File
<1>4. files' \subseteq files \cup {n}
  BY DEF CreateActive
<1> HIDE DEF n
<1>5. \A f \in files : f \in File
  BY DEF NumberedInv, TypeOK, FilesTypeOK
<1> QED
  BY <1>1, <1>3, <1>4, <1>5, SameKeeps DEF ProducerFiles

(* Without an output, the facts about it hold. *)
LEMMA NoOutput ==
  ASSUME output' = NoRow, copied' = 0,
         api' \notin {"scan", "finish", "unlink"} => orphans' = {}
  PROVE  RecoveryInv' /\ OutputInv'
BY DEF RecoveryInv, OutputInv

LEMMA NoRecovery ==
  ASSUME ImportInv, api \notin {"scan", "finish", "unlink"}
  PROVE  output = NoRow /\ copied = 0 /\ orphans = {}
BY DEF ImportInv, RecoveryInv

LEMMA CopyBlockImports ==
  ASSUME NumberedInv, ImportInv, CopyBlock
  PROVE  ProducerFiles /\ RecoveryInv' /\ OutputInv'
<1>1. PICK f \in Source :
        /\ copied < Len(f.blocks)
        /\ f.blocks[copied + 1] # Torn
        /\ IF output = NoRow
           THEN /\ AllocateSequence
                /\ output' = NextFileSequence
                /\ files' = files \cup {NewFile(NextFileSequence, "sealed", "recovering",
                                                <<f.blocks[copied + 1]>>)}
           ELSE /\ UNCHANGED <<nextSeq, output>>
                /\ files' = {IF g.seq = output THEN Written(g, f.blocks[copied + 1])
                                               ELSE g : g \in files}
  BY DEF CopyBlock
<1> DEFINE b == f.blocks[copied + 1]
<1>2. f \in File /\ f.seq \in orphans
  BY SourceIsFile
<1>3. b \in Blocks \cup {Torn} /\ b # Torn
  BY <1>1, <1>2, FileFields DEF NumberedInv, TypeOK, ProducerTypeOK
<1> HIDE DEF b
<1>4. /\ api' = "scan" /\ api = "scan" /\ orphans' = orphans /\ orphans' # {}
      /\ consumed' = consumed
  BY <1>2 DEF CopyBlock
<1>5. \A g \in files : g \in File
  BY DEF NumberedInv, TypeOK, FilesTypeOK
<1>6. CASE output = NoRow
  <2> DEFINE n == NewFile(NextFileSequence, "sealed", "recovering", <<b>>)
  <2>1. IsFree(NextFileSequence)
    BY NextIsFree DEF NumberedInv
  <2>2. <<b>> \in Seq(Blocks \cup {Torn}) /\ Len(<<b>>) = 1 /\ <<b>>[1] = b
    BY <1>3
  <2>3. /\ n \in File /\ n.seq = NextFileSequence /\ n.dir = "sealed" /\ ~n.footer
        /\ n.blocks = <<b>>
    BY <2>1, <2>2 DEF IsFree, NewFile, File
  <2>4. output' = NextFileSequence /\ files' = files \cup {n}
    BY <1>1, <1>6 DEF b
  <2> HIDE DEF n
  <2>5. ~IsTorn(n)
    <3>1. \A i \in 1..Len(n.blocks) : i = 1
      BY <2>2, <2>3
    <3> QED
      BY <1>3, <2>2, <2>3, <3>1, LegibleContent
  <2>6. ProducerFiles
    BY <1>5, <2>1, <2>3, <2>4, SameKeeps DEF ProducerFiles
  <2>7. NextFileSequence \notin consumed /\ \A g \in files : g.seq # NextFileSequence
    BY <2>1, FreeIsNew DEF NumberedInv
  <2>8. RecoveryInv'
    BY <1>4, <2>3, <2>4, <2>7 DEF RecoveryInv, InPlay
  <2>9. OutputInv'
    BY <1>4, <2>3, <2>4, <2>5, <2>7 DEF OutputInv
  <2> QED
    BY <2>6, <2>8, <2>9
<1>7. CASE output # NoRow
  <2>1. /\ output' = output
        /\ \A h : h \in files' <=>
             \E g \in files : h = IF g.seq = output THEN Written(g, b) ELSE g
    BY <1>1, <1>7 DEF b
  <2>2. \A g \in files : g.seq = output => InPlay(g)
    BY <1>7 DEF ImportInv, RecoveryInv
  <2>3. \A g \in files :
          /\ Written(g, b) \in File /\ Written(g, b).seq = g.seq
          /\ Written(g, b).dir = g.dir
          /\ Written(g, b).ext = g.ext /\ Written(g, b).footer = g.footer
          /\ Len(Written(g, b).blocks) = Len(g.blocks) + 1 /\ Len(g.blocks) \in Nat
          /\ \A i \in 1..Len(g.blocks) : Written(g, b).blocks[i] = g.blocks[i]
    BY <1>3, <1>5, WrittenEffect, FileFields
  <2>4. \A g \in files : g.seq = output => ProducerKeeps(Written(g, b), g)
    <3>1. ASSUME NEW g \in files, g.seq = output PROVE ProducerKeeps(Written(g, b), g)
      <4>1. g.dir \in {"sealed", "consuming"}
        BY <2>2, <3>1 DEF InPlay
      <4>2. Len(g.blocks) <= Len(Written(g, b).blocks)
        BY <2>3
      <4> QED
        BY <1>4, <1>7, <2>3, <3>1, <4>1, <4>2 DEF ProducerKeeps
    <3> QED
      BY <3>1
  <2>5. ProducerFiles
    BY <1>5, <2>1, <2>4, SameKeeps DEF ProducerFiles
  <2>6. RecoveryInv'
    <3>1. \A h \in files' : h.seq = output => InPlay(h)
      BY <2>1, <2>2, <2>3 DEF InPlay
    <3> QED
      BY <1>4, <2>1, <3>1 DEF RecoveryInv, InPlay
  <2>7. OutputInv'
    <3>1. output \notin consumed
          /\ \E g \in files : g.seq = output /\ ~g.footer /\ ~IsTorn(g)
      BY <1>4, <1>7 DEF ImportInv, OutputInv
    <3>2. PICK g \in files : g.seq = output /\ ~g.footer /\ ~IsTorn(g)
      BY <3>1
    <3>3. ~IsTorn(Written(g, b))
      BY <1>3, <1>5, <3>2, WrittenContent
    <3>4. Written(g, b) \in files'
      BY <2>1, <3>2
    <3>5. Written(g, b).seq = output /\ ~Written(g, b).footer
      BY <2>3, <3>2
    <3> QED
      BY <1>4, <2>1, <3>1, <3>3, <3>4, <3>5 DEF OutputInv
  <2> QED
    BY <2>5, <2>6, <2>7
<1> QED
  BY <1>6, <1>7

LEMMA ScanEndsImports ==
  ASSUME NumberedInv, ImportInv, ScanEnds
  PROVE  ProducerFiles /\ RecoveryInv' /\ OutputInv'
<1>1. PICK f \in Source :
        IF copied = 0
        THEN Removed(f) /\ NextOrphan(f) /\ UNCHANGED api
        ELSE /\ files' = {IF g.seq = output
                            THEN [g EXCEPT !.footer = TRUE, !.aged = FALSE]
                            ELSE g : g \in files}
             /\ api' = "finish"
             /\ UNCHANGED recoveryVars
  BY DEF ScanEnds
<1>2. api = "scan" /\ f.seq \in orphans
  BY SourceIsFile DEF ScanEnds
<1>3. \A g \in files : g \in File
  BY DEF NumberedInv, TypeOK, FilesTypeOK
<1>4. CASE copied = 0
  <2>1. files' \subseteq files /\ output' = NoRow /\ copied' = 0 /\ api' = "scan"
    BY <1>1, <1>2, <1>4 DEF Removed, NextOrphan
  <2> QED
    BY <2>1, SubsetKeeps, NoOutput
<1>5. CASE copied # 0
  <2> DEFINE Footed(g) == [g EXCEPT !.footer = TRUE, !.aged = FALSE]
  <2>1. /\ api' = "finish" /\ output' = output /\ orphans' = orphans
        /\ \A h : h \in files' <=>
             \E g \in files : h = IF g.seq = output THEN Footed(g) ELSE g
    BY <1>1, <1>5 DEF recoveryVars
  <2>2. \A g \in files :
          /\ Footed(g) \in File /\ Footed(g).seq = g.seq
          /\ Footed(g).dir = g.dir /\ Footed(g).ext = g.ext
          /\ Footed(g).footer /\ Footed(g).blocks = g.blocks
    BY <1>3, FootedEffect
  <2> HIDE DEF Footed
  <2>3. \A g \in files : ProducerKeeps(Footed(g), g)
    BY <2>2 DEF ProducerKeeps
  <2>4. ProducerFiles
    BY <1>3, <2>1, <2>3, SameKeeps DEF ProducerFiles
  <2>5. output # NoRow => \A h \in files' : h.seq = output => InPlay(h)
    BY <2>1, <2>2 DEF ImportInv, RecoveryInv, InPlay
  <2>6. RecoveryInv'
    BY <1>2, <2>1, <2>5 DEF RecoveryInv, InPlay
  <2>7. OutputInv'
    BY <2>1 DEF OutputInv
  <2> QED
    BY <2>4, <2>6, <2>7
<1> QED
  BY <1>4, <1>5

LEMMA FinishRecoveredImports ==
  ASSUME NumberedInv, ImportInv, FinishRecovered
  PROVE  ProducerFiles /\ RecoveryInv' /\ OutputInv'
<1> DEFINE temp == {g \in InDir("sealed") : g.seq = output /\ g.ext = "recovering"}
<1>1. CASE temp # {}
  <2>1. (\E g \in temp : Replaced(g, [g EXCEPT !.ext = "journal"]))
        /\ api' = "unlink" /\ UNCHANGED recoveryVars
    BY <1>1 DEF FinishRecovered
  <2>2. PICK g \in temp : Replaced(g, [g EXCEPT !.ext = "journal"])
    BY <2>1
  <2> DEFINE h == [g EXCEPT !.ext = "journal"]
  <2>3. g \in files /\ g \in File /\ g.dir = "sealed" /\ g.seq = output
    BY DEF InDir, NumberedInv, TypeOK, FilesTypeOK
  <2>4. h \in File /\ h.seq = g.seq /\ h.dir = g.dir /\ h.blocks = g.blocks
        /\ h.footer = g.footer
    BY <2>3, RenamedEffect
  <2>5. Replaced(g, h)
    BY <2>2
  <2> HIDE DEF h, temp
  <2>6. ProducerKeeps(h, g)
    BY <2>3, <2>4 DEF ProducerKeeps
  <2>7. ProducerFiles
    BY <2>3, <2>5, <2>6, ReplacedKeeps
  <2>8. orphans' = orphans /\ output' = output /\ copied' = copied /\ api' = "unlink"
    BY <2>1 DEF recoveryVars
  <2>9. \A k \in files' : k = h \/ k \in files
    BY <2>5 DEF Replaced
  <2>10. RecoveryInv'
    BY <2>3, <2>4, <2>8, <2>9 DEF ImportInv, RecoveryInv, InPlay
  <2>11. OutputInv'
    BY <2>8 DEF OutputInv
  <2> QED
    BY <2>7, <2>10, <2>11
<1>2. CASE temp = {}
  <2>1. (\E f \in Source : Quarantine(f)) /\ api' = "scan"
    BY <1>2 DEF FinishRecovered
  <2> QED
    BY <2>1, QuarantineKeeps, NoOutput
<1> QED
  BY <1>1, <1>2

LEMMA WritingImports ==
  ASSUME NumberedInv, ImportInv, Writing
  PROVE  ProducerFiles /\ RecoveryInv' /\ OutputInv'
<1>1. /\ api \notin {"scan", "finish", "unlink"}
      /\ api' \notin {"scan", "finish", "unlink"}
      /\ UNCHANGED recoveryVars
  BY DEF Writing, AppendEvents, AppendFails, Maintain, OpenNext, OpenFails,
         WriteFooter, PublishSealed, SealFails
<1>2. RecoveryInv' /\ OutputInv'
  BY <1>1, NoRecovery, NoOutput DEF recoveryVars
<1>3. CASE \E b \in Blocks : AppendEvents(b) \/ AppendFails(b)
  <2>1. files' = files
        \/ \E f \in ActiveFile(current), x \in Blocks \cup {Torn} :
              Replaced(f, Written(f, x))
    BY <1>3 DEF AppendEvents, AppendFails
  <2> QED
    BY <1>2, <2>1, SubsetKeeps, AppendedKeeps
<1>4. CASE Maintain \/ SealFails
  BY <1>2, <1>4, SubsetKeeps DEF Maintain, SealFails, fileVars
<1>5. CASE OpenNext
  BY <1>2, <1>5, CreatedKeeps DEF OpenNext
<1>6. CASE OpenFails
  <2> DEFINE n == NewFile(NextFileSequence, "active", "open", <<Torn>>)
  <2>1. IsFree(NextFileSequence)
    BY NextIsFree DEF NumberedInv
  <2>2. <<Torn>> \in Seq(Blocks \cup {Torn})
    OBVIOUS
  <2>3. n \in File /\ n.seq = NextFileSequence
    BY <2>1, <2>2 DEF IsFree, NewFile, File
  <2>4. files' \subseteq files \cup {n}
    BY <1>6 DEF OpenFails
  <2> HIDE DEF n
  <2>5. \A f \in files : f \in File
    BY DEF NumberedInv, TypeOK, FilesTypeOK
  <2> QED
    BY <1>2, <2>1, <2>3, <2>4, <2>5, SameKeeps DEF ProducerFiles
<1>7. CASE WriteFooter
  <2>1. PICK f \in ActiveFile(sealing) :
          Replaced(f, [f EXCEPT !.footer = TRUE, !.aged = FALSE])
    BY <1>7 DEF WriteFooter
  <2>2. f \in files /\ f \in File /\ f.dir = "active"
    BY ActiveIsFile
  <2>3. ProducerKeeps([f EXCEPT !.footer = TRUE, !.aged = FALSE], f)
    BY <2>2, FootedEffect, ActiveKeeps
  <2> QED
    BY <1>2, <2>1, <2>2, <2>3, ReplacedKeeps
<1>8. CASE PublishSealed
  <2>1. PICK f \in ActiveFile(sealing) :
          Replaced(f, [f EXCEPT !.dir = "sealed", !.ext = "journal"])
    BY <1>8 DEF PublishSealed
  <2>2. f \in files /\ f \in File /\ f.dir = "active"
    BY ActiveIsFile
  <2>3. ProducerKeeps([f EXCEPT !.dir = "sealed", !.ext = "journal"], f)
    BY <2>2, PublishedEffect, ActiveKeeps
  <2> QED
    BY <1>2, <2>1, <2>2, <2>3, ReplacedKeeps
<1> QED
  BY <1>3, <1>4, <1>5, <1>6, <1>7, <1>8 DEF Writing

LEMMA ProducerStepImports ==
  ASSUME NumberedInv, ImportInv, ProducerNext, UNCHANGED workerVars
  PROVE  ImportInv'
<1>1. consumed' = consumed
  BY DEF ProducerNext, Recovery, Writing, Retention, Start, CopyBlock, ScanFails,
         ScanEnds, FinishRecovered, RemoveSource, OpenFirst, AppendEvents,
         AppendFails, Maintain, OpenNext, OpenFails, WriteFooter, PublishSealed,
         SealFails, ListForRetention, DeleteOldest, RetentionEnds, Stop, Crash,
         StopProducer, fileVars
<1>2. ProducerFiles /\ RecoveryInv' /\ OutputInv'
  <2>1. CASE Start
    <3>1. files' = files /\ output' = output /\ copied' = copied /\ api' = "scan"
          /\ api = "down"
      BY <2>1 DEF Start, fileVars
    <3> QED
      BY <3>1, SubsetKeeps, NoRecovery, NoOutput
  <2>2. CASE ScanFails
    <3>1. (\E f \in Source : Quarantine(f)) /\ api' = "scan"
      BY <2>2 DEF ScanFails
    <3> QED
      BY <3>1, QuarantineKeeps, NoOutput
  <2>3. CASE RemoveSource
    <3>1. files' \subseteq files /\ output' = NoRow /\ copied' = 0 /\ api' = "scan"
      BY <2>3 DEF RemoveSource, Removed, NextOrphan
    <3> QED
      BY <3>1, SubsetKeeps, NoOutput
  <2>4. CASE OpenFirst
    <3>1. CreateActive /\ orphans = {} /\ UNCHANGED recoveryVars
      BY <2>4 DEF OpenFirst
    <3>2. output' = NoRow /\ copied' = 0 /\ orphans' = {}
      BY <3>1 DEF ImportInv, RecoveryInv, recoveryVars
    <3> QED
      BY <3>1, <3>2, CreatedKeeps, NoOutput
  <2>5. CASE Retention
    <3>1. /\ files' \subseteq files /\ UNCHANGED recoveryVars
          /\ api \in {"list", "delete"} /\ api' \in {"delete", "idle"}
      BY <2>5 DEF Retention, ListForRetention, DeleteOldest, RetentionEnds, fileVars,
                  recoveryVars
    <3> QED
      BY <3>1, SubsetKeeps, NoRecovery, NoOutput DEF recoveryVars
  <2>6. CASE Stop \/ Crash
    <3>1. /\ \/ files' = files
             \/ \E f \in ActiveFile(current) : Replaced(f, Written(f, Torn))
             \/ \E f \in ActiveFile(sealing) : Replaced(f, Written(f, Torn))
          /\ output' = NoRow /\ copied' = 0 /\ orphans' = {}
      BY <2>6 DEF Stop, Crash, CrashInWrite, StopProducer
    <3> QED
      BY <3>1, SubsetKeeps, AppendedKeeps, NoOutput
  <2> QED
    BY <2>1, <2>2, <2>3, <2>4, <2>5, <2>6, CopyBlockImports, ScanEndsImports,
       FinishRecoveredImports, WritingImports DEF ProducerNext, Recovery
<1> QED
  BY <1>1, <1>2, ProducerImports DEF ImportInv

(* The store only grows. *)

LEMMA StoreSame ==
  ASSUME UNCHANGED storeVars
  PROVE  Stored' = Stored
BY DEF storeVars, Stored, Copies

LEMMA StoreGrows ==
  ASSUME WorkerTypeOK, NEW b \in Blocks, InsertRows(b)
  PROVE  Stored \subseteq Stored' /\ b \in Stored'
<1>1. /\ \A c \in Blocks : archived[c] \in Nat
      /\ \A c \in Blocks : c \in Stored <=> archived[c] > 0 \/ c \in segment
  BY DEF WorkerTypeOK, Stored, Copies
<1>2. /\ \A c \in Blocks : archived'[c] \in Nat
      /\ \A c \in Blocks : c \in Stored' <=> archived'[c] > 0 \/ c \in segment'
  BY InsertRowsTypes DEF Stored, Copies
<1>3. Stored \subseteq Blocks
  BY DEF Stored
<1> HIDE DEF Stored
<1>4. ASSUME NEW S, NEW R, Rollover(S, R), NEW c \in Blocks
      PROVE  /\ segment' = R
             /\ c \in S => archived'[c] > 0
             /\ archived[c] > 0 => archived'[c] > 0
  <2>1. /\ segment' = R
        /\ archived'[c] = archived[c] + IF c \in S THEN 1 ELSE 0
    BY <1>4 DEF Rollover
  <2> QED
    BY <1>1, <2>1
<1>5. CASE segment' = segment \cup {b} /\ UNCHANGED <<archived, rollovers>>
  BY <1>1, <1>2, <1>3, <1>5
<1>6. CASE Rollover(segment, {b})
  BY <1>1, <1>2, <1>3, <1>4, <1>6
<1>7. CASE Rollover(segment \cup {b}, {})
  BY <1>1, <1>2, <1>3, <1>4, <1>7
<1> QED
  BY <1>5, <1>6, <1>7 DEF InsertRows

(* What the worker does to the files: it moves them between sealed/ and
   consuming/ and deletes the ones that are in the store. *)
WorkerKeeps(g, f) ==
  /\ g.seq = f.seq /\ g.ext = f.ext
  /\ g.blocks = f.blocks /\ g.footer = f.footer
  /\ g.dir = f.dir \/ (InPlay(f) /\ InPlay(g))

Imported(f) ==
  /\ InPlay(f)
  /\ f.seq \in consumed \/ f.footer
  /\ \A i \in DOMAIN f.blocks : f.blocks[i] \in Stored

WorkerFiles ==
  /\ \A g \in files' : \E f \in files : WorkerKeeps(g, f)
  /\ \A f \in files : Imported(f) \/ \E g \in files' : WorkerKeeps(g, f)

LEMMA WorkerImports ==
  ASSUME NumberedInv, ImportInv, WorkerFiles, UNCHANGED producerVars,
         consumed' = consumed, Stored \subseteq Stored'
  PROVE  ActiveUnread' /\ RecoveryInv' /\ OutputInv' /\ ConsumedIsImported'
<1>1. /\ api' = api /\ orphans' = orphans /\ output' = output /\ copied' = copied
  BY DEF producerVars, recoveryVars
<1>2. ActiveUnread /\ RecoveryInv /\ OutputInv /\ ConsumedIsImported
  BY DEF ImportInv
<1>3. \A f \in files : f \in File
  BY DEF NumberedInv, TypeOK, FilesTypeOK
<1>4. \A g \in files' : \E f \in files :
        /\ g.seq = f.seq /\ g.ext = f.ext
        /\ g.blocks = f.blocks /\ g.footer = f.footer
        /\ g.dir = f.dir \/ (InPlay(f) /\ InPlay(g))
  BY DEF WorkerFiles, WorkerKeeps
<1>5. ActiveUnread'
  BY <1>2, <1>4 DEF ActiveUnread, InPlay
<1>6. RecoveryInv'
  <2>1. output # NoRow => \A g \in files' : g.seq = output => InPlay(g)
    BY <1>2, <1>4 DEF RecoveryInv, InPlay
  <2> QED
    BY <1>1, <1>2, <2>1 DEF RecoveryInv, InPlay
<1>7. OutputInv'
  <2>1. SUFFICES ASSUME api = "scan", output # NoRow
        PROVE  \E g \in files' : g.seq = output /\ ~g.footer /\ ~IsTorn(g)
    <3>1. api = "scan" /\ output # NoRow => output \notin consumed
      BY <1>2 DEF OutputInv
    <3> QED
      BY <1>1, <2>1, <3>1 DEF OutputInv
  <2>2. PICK f \in files :
           f.seq = output /\ ~f.footer /\ ~IsTorn(f) /\ f.seq \notin consumed
    BY <1>2, <2>1 DEF OutputInv
  <2>3. PICK g \in files' : WorkerKeeps(g, f)
    BY <2>2 DEF WorkerFiles, Imported
  <2>4. ~IsTorn(g) /\ g.seq = output /\ ~g.footer
    BY <2>2, <2>3, SameContent DEF WorkerKeeps
  <2> QED
    BY <2>4
<1>8. ConsumedIsImported'
  <2>1. ASSUME NEW g \in files', g.dir # "bad", g.seq \in consumed
        PROVE  \A i \in DOMAIN g.blocks : g.blocks[i] \in Stored
    <3>1. PICK f \in files : /\ g.seq = f.seq /\ g.blocks = f.blocks
                             /\ g.dir = f.dir \/ (InPlay(f) /\ InPlay(g))
      BY <1>4
    <3>2. f.dir # "bad"
      BY <2>1, <3>1 DEF InPlay
    <3> QED
      BY <1>2, <2>1, <3>1, <3>2 DEF ConsumedIsImported
  <2> HIDE DEF Stored
  <2> QED
    BY <2>1 DEF ConsumedIsImported
<1> QED
  BY <1>5, <1>6, <1>7, <1>8

LEMMA NoClaim ==
  ASSUME claim' = {}
  PROVE  ClaimInv'
BY DEF ClaimInv

LEMMA SameFiles ==
  ASSUME files' = files
  PROVE  WorkerFiles
BY DEF WorkerFiles, WorkerKeeps

LEMMA MovedFile ==
  ASSUME NumberedInv, NEW f \in files, NEW g, Replaced(f, g), WorkerKeeps(g, f)
  PROVE  WorkerFiles
<1>1. \A h \in files : WorkerKeeps(h, h)
  BY DEF WorkerKeeps
<1>2. /\ g \in files'
      /\ \A h \in files' : h = g \/ h \in files
      /\ \A h \in files : h = f \/ h \in files'
  BY DEF Replaced
<1> HIDE DEF WorkerKeeps
<1> QED
  BY <1>1, <1>2 DEF WorkerFiles

LEMMA QuietWorkerImports ==
  ASSUME NumberedInv, ImportInv, UNCHANGED producerVars,
         \/ ListSealed \/ ImportBlock \/ ImportFails \/ ReadFails \/ FinishFile
         \/ BookkeepingFails \/ WorkerDies \/ StartWorker \/ OperatorRestarts
  PROVE  ImportInv'
<1>1. files' = files /\ consumed' = consumed
  BY QuietWorkerNumbered DEF fileVars
<1>2. Stored \subseteq Stored'
  <2>1. UNCHANGED storeVars \/ \E b \in Blocks : InsertRows(b)
    <3>1. CASE ImportBlock \/ ImportFails
      BY <3>1, NextBlock DEF ImportBlock, ImportFails
    <3>2. CASE ~(ImportBlock \/ ImportFails)
      BY <3>2 DEF ListSealed, ReadFails, FinishFile, BookkeepingFails,
                  WorkerDies, StartWorker, OperatorRestarts
    <3> QED
      BY <3>1, <3>2
  <2>2. WorkerTypeOK
    BY DEF NumberedInv, TypeOK
  <2> HIDE DEF Stored
  <2> QED
    BY <2>1, <2>2, StoreSame, StoreGrows
<1>3. ActiveUnread' /\ RecoveryInv' /\ OutputInv' /\ ConsumedIsImported'
  BY <1>1, <1>2, SameFiles, WorkerImports
<1>4. ClaimInv
  BY DEF ImportInv
<1>5. ClaimInv'
  <2>1. CASE ListSealed \/ StartWorker \/ OperatorRestarts
    <3>1. claim = {} /\ claim' = claim
      BY <1>4, <2>1 DEF ClaimInv, ListSealed, StartWorker, OperatorRestarts
    <3> QED
      BY <3>1, NoClaim
  <2>2. CASE ImportFails \/ ReadFails \/ BookkeepingFails \/ WorkerDies
    BY <2>2, NoClaim DEF ImportFails, ReadFails, BookkeepingFails, WorkerDies,
                         LoopEnds, Forget
  <2>3. CASE ImportBlock
    <3>1. PICK f \in Claimed : /\ position < Len(f.blocks)
                               /\ f.blocks[position + 1] # Torn
                               /\ InsertRows(f.blocks[position + 1])
      BY <2>3 DEF ImportBlock
    <3>2. wk = "import" /\ wk' = "import" /\ claim' = claim /\ position' = position + 1
      BY <2>3 DEF ImportBlock
    <3>3. f.blocks[position + 1] \in Stored'
      BY <3>1, NextBlock, StoreGrows DEF NumberedInv, TypeOK
    <3>4. position \in Nat
      BY DEF NumberedInv, TypeOK, WorkerTypeOK
    <3>5. PICK q \in claim : f.seq = q.seq
      BY ClaimedIsFile
    <3>6. f \in files /\ Len(f.blocks) \in Nat
      BY ClaimedIsFile, FileFields
    <3> HIDE DEF Stored
    <3>7. ASSUME NEW p \in claim, NEW g \in files, g.seq = p.seq
          PROVE  /\ g.dir = "consuming" /\ g.ext = p.ext
                 /\ position + 1 <= Len(g.blocks)
                 /\ \A i \in 1..(position + 1) : g.blocks[i] \in Stored'
      <4>1. p = q
        BY <1>4, <3>5 DEF ClaimInv
      <4>2. g = f
        BY <3>5, <3>6, <3>7, <4>1 DEF NumberedInv, SequenceInv, OneFilePerSequence
      <4>3. /\ g.dir = "consuming" /\ g.ext = p.ext
            /\ \A i \in 1..position : g.blocks[i] \in Stored
        BY <1>4, <3>2, <3>7 DEF ClaimInv
      <4>4. \A i \in 1..(position + 1) : i \in 1..position \/ i = position + 1
        BY <3>4
      <4>5. position + 1 <= Len(g.blocks)
        BY <3>1, <3>4, <3>6, <4>2
      <4> QED
        BY <1>2, <3>3, <4>2, <4>3, <4>4, <4>5
    <3>8. \A p, q1 \in claim : p = q1
      BY <1>4 DEF ClaimInv
    <3> QED
      BY <1>1, <3>2, <3>7, <3>8 DEF ClaimInv
  <2>4. CASE FinishFile
    <3>1. PICK f \in Claimed : position = Len(f.blocks) /\ f.footer
      BY <2>4 DEF FinishFile
    <3>2. /\ wk = "import" /\ wk' = "record" /\ claim' = claim /\ Stored' = Stored
      BY <2>4, StoreSame DEF FinishFile
    <3>3. PICK q \in claim : f.seq = q.seq
      BY ClaimedIsFile
    <3>4. f \in files /\ f \in File /\ DOMAIN f.blocks = 1..Len(f.blocks)
      BY ClaimedIsFile, FileFields
    <3> HIDE DEF Stored
    <3>5. ASSUME NEW p \in claim, NEW g \in files, g.seq = p.seq
          PROVE  /\ g.dir = "consuming" /\ g.ext = p.ext
                 /\ g.footer /\ \A i \in DOMAIN g.blocks : g.blocks[i] \in Stored
      <4>1. p = q
        BY <1>4, <3>3 DEF ClaimInv
      <4>2. g = f
        BY <3>3, <3>4, <3>5, <4>1 DEF NumberedInv, SequenceInv, OneFilePerSequence
      <4> QED
        BY <1>4, <3>1, <3>2, <3>4, <3>5, <4>2 DEF ClaimInv
    <3>6. \A p, q1 \in claim : p = q1
      BY <1>4 DEF ClaimInv
    <3> QED
      BY <1>1, <3>2, <3>5, <3>6 DEF ClaimInv
  <2> QED
    BY <2>1, <2>2, <2>3, <2>4
<1> QED
  BY <1>3, <1>5 DEF ImportInv

LEMMA RecoverConsumingImports ==
  ASSUME NumberedInv, ImportInv, RecoverConsuming, UNCHANGED producerVars
  PROVE  WorkerFiles /\ ImportInv'
<1> DEFINE Gone(f) == f.dir = "consuming" /\ f.seq \in consumed
           Back(f) == IF f.dir = "consuming" /\ f.aged THEN MovedTo(f, "sealed") ELSE f
<1>1. \A g : g \in files' <=> \E f \in files : ~Gone(f) /\ g = Back(f)
  BY DEF RecoverConsuming
<1>2. \A f \in files : f \in File
  BY DEF NumberedInv, TypeOK, FilesTypeOK
<1>3. \A f \in files : WorkerKeeps(Back(f), f)
  BY <1>2, MovedEffect DEF WorkerKeeps, InPlay, Dirs
<1>4. \A f \in files : Gone(f) => Imported(f)
  BY DEF ImportInv, ConsumedIsImported, Imported, InPlay
<1> HIDE DEF Gone, Back
<1>5. WorkerFiles
  BY <1>1, <1>3, <1>4 DEF WorkerFiles
<1>6. wk = "recover" /\ claim' = claim /\ consumed' = consumed /\ UNCHANGED storeVars
  BY DEF RecoverConsuming
<1>7. ClaimInv'
  BY <1>6, NoClaim DEF ImportInv, ClaimInv
<1> QED
  BY <1>5, <1>6, <1>7, StoreSame, WorkerImports DEF ImportInv

LEMMA DeleteConsumedImports ==
  ASSUME NumberedInv, ImportInv, DeleteConsumed, UNCHANGED producerVars
  PROVE  WorkerFiles /\ ImportInv'
<1>1. PICK p \in candidates :
        p.seq \in consumed /\ (files' = files \/ files' = files \ At("sealed", {p}))
  BY DEF DeleteConsumed
<1>2. \A f \in At("sealed", {p}) : f.dir = "sealed" /\ f.seq \in consumed /\ f \in files
  BY <1>1 DEF At, InDir
<1>3. \A f \in At("sealed", {p}) : Imported(f)
  BY <1>2 DEF ImportInv, ConsumedIsImported, Imported, InPlay
<1>4. \A f \in files : WorkerKeeps(f, f)
  BY DEF WorkerKeeps
<1>5. WorkerFiles
  BY <1>1, <1>3, <1>4 DEF WorkerFiles
<1>6. claim = {} /\ claim' = {} /\ consumed' = consumed /\ UNCHANGED storeVars
  BY DEF DeleteConsumed, LoopEnds, Forget, ImportInv, ClaimInv
<1>7. ClaimInv'
  BY <1>6, NoClaim
<1> QED
  BY <1>5, <1>6, <1>7, StoreSame, WorkerImports DEF ImportInv

LEMMA ClaimOldestImports ==
  ASSUME NumberedInv, ImportInv, ClaimOldest, UNCHANGED producerVars
  PROVE  WorkerFiles /\ ImportInv'
<1>1. consumed' = consumed /\ UNCHANGED storeVars
  BY DEF ClaimOldest
<1>2. PICK p \in candidates :
        IF At("sealed", {p}) # {}
        THEN /\ \E f \in At("sealed", {p}) : Replaced(f, MovedTo(f, "consuming"))
             /\ claim' = {p}
             /\ candidates' = {} /\ position' = 0
             /\ wk' = "import"
        ELSE LoopEnds /\ UNCHANGED files
  BY DEF ClaimOldest
<1>3. CASE At("sealed", {p}) # {}
  <2>1. PICK f \in At("sealed", {p}) : Replaced(f, MovedTo(f, "consuming"))
    BY <1>2, <1>3
  <2> DEFINE g == MovedTo(f, "consuming")
  <2>2. f \in files /\ f \in File /\ f.dir = "sealed" /\ f.seq = p.seq /\ f.ext = p.ext
    BY DEF At, InDir, NumberedInv, TypeOK, FilesTypeOK
  <2>3. /\ g \in File /\ g.seq = f.seq /\ g.dir = "consuming" /\ g.ext = f.ext
        /\ g.blocks = f.blocks /\ g.footer = f.footer
    BY <2>2, MovedEffect DEF Dirs
  <2>4. Replaced(f, g)
    BY <2>1
  <2> HIDE DEF g
  <2>5. WorkerFiles
    BY <2>2, <2>3, <2>4, MovedFile DEF WorkerKeeps, InPlay
  <2>6. \A h \in files' : h.seq = p.seq => h = g
    BY <2>2, <2>4 DEF Replaced, NumberedInv, SequenceInv, OneFilePerSequence
  <2>7. Len(g.blocks) \in Nat
    BY <2>3, FileFields
  <2>8. ClaimInv'
    BY <1>2, <1>3, <2>2, <2>3, <2>6, <2>7 DEF ClaimInv
  <2> QED
    BY <1>1, <2>5, <2>8, StoreSame, WorkerImports DEF ImportInv
<1>4. CASE At("sealed", {p}) = {}
  <2>1. files' = files /\ claim' = {}
    BY <1>2, <1>4 DEF LoopEnds, Forget
  <2> QED
    BY <1>1, <2>1, SameFiles, NoClaim, StoreSame, WorkerImports DEF ImportInv
<1> QED
  BY <1>3, <1>4

LEMMA RecordConsumedImports ==
  ASSUME NumberedInv, ImportInv, RecordConsumed, UNCHANGED producerVars
  PROVE  ImportInv'
<1>1. /\ files' = files /\ claim' = claim /\ wk = "record" /\ wk' = "remove"
      /\ consumed' = consumed \cup {p.seq : p \in claim}
      /\ UNCHANGED storeVars
  BY DEF RecordConsumed
<1>2. Stored' = Stored
  BY <1>1, StoreSame
<1>3. /\ api' = api /\ orphans' = orphans /\ output' = output /\ copied' = copied
  BY DEF producerVars, recoveryVars
<1>4. ActiveUnread /\ ClaimInv /\ RecoveryInv /\ OutputInv /\ ConsumedIsImported
  BY DEF ImportInv
<1> HIDE DEF Stored
<1>5. \A p \in claim, f \in files :
        f.seq = p.seq =>
          /\ f.dir = "consuming" /\ f.ext = p.ext
          /\ f.footer /\ \A i \in DOMAIN f.blocks : f.blocks[i] \in Stored
  BY <1>1, <1>4 DEF ClaimInv
<1>6. ActiveUnread'
  BY <1>1, <1>4, <1>5 DEF ActiveUnread
<1>7. ClaimInv'
  <2>1. \A p, q \in claim : p = q
    BY <1>4 DEF ClaimInv
  <2> QED
    BY <1>1, <1>2, <1>5, <2>1 DEF ClaimInv
<1>8. RecoveryInv'
  BY <1>1, <1>3, <1>4 DEF RecoveryInv, InPlay
<1>9. OutputInv'
  <2>1. api = "scan" /\ output # NoRow => \A p \in claim : p.seq # output
    BY <1>4, <1>5 DEF OutputInv
  <2> QED
    BY <1>1, <1>3, <1>4, <2>1 DEF OutputInv, IsTorn
<1>10. ConsumedIsImported'
  BY <1>1, <1>2, <1>4, <1>5 DEF ConsumedIsImported
<1> QED
  BY <1>6, <1>7, <1>8, <1>9, <1>10 DEF ImportInv

LEMMA RemoveConsumedImports ==
  ASSUME NumberedInv, ImportInv, RemoveConsumed, UNCHANGED producerVars
  PROVE  WorkerFiles /\ ImportInv'
<1>1. /\ files' = files \ Claimed /\ claim' = {} /\ wk = "remove"
      /\ consumed' = consumed /\ UNCHANGED storeVars
  BY DEF RemoveConsumed, Forget
<1>2. \A f \in Claimed :
         f \in files /\ f.dir = "consuming" /\ \E p \in claim : f.seq = p.seq
  BY ClaimedIsFile
<1>3. \A f \in Claimed : Imported(f)
  BY <1>1, <1>2 DEF ImportInv, ClaimInv, Imported, InPlay
<1>4. \A f \in files : WorkerKeeps(f, f)
  BY DEF WorkerKeeps
<1>5. WorkerFiles
  BY <1>1, <1>3, <1>4 DEF WorkerFiles
<1> QED
  BY <1>1, <1>5, NoClaim, StoreSame, WorkerImports DEF ImportInv

LEMMA LeasePassesImports ==
  ASSUME NumberedInv, ImportInv, LeasePasses, UNCHANGED producerVars
  PROVE  WorkerFiles /\ ImportInv'
<1>1. PICK f \in InDir("consuming") : Replaced(f, [f EXCEPT !.aged = TRUE])
  BY DEF LeasePasses
<1> DEFINE g == [f EXCEPT !.aged = TRUE]
<1>2. f \in files /\ f \in File
  BY DEF InDir, NumberedInv, TypeOK, FilesTypeOK
<1>3. /\ g.seq = f.seq /\ g.dir = f.dir /\ g.ext = f.ext
      /\ g.blocks = f.blocks /\ g.footer = f.footer
  BY <1>2, AgedEffect
<1>4. Replaced(f, g)
  BY <1>1
<1> HIDE DEF g
<1>5. WorkerFiles
  BY <1>2, <1>3, <1>4, MovedFile DEF WorkerKeeps
<1>6. /\ consumed' = consumed /\ claim' = claim /\ wk' = wk /\ position' = position
      /\ UNCHANGED storeVars
  BY DEF LeasePasses, workerVars
<1>7. Stored' = Stored
  BY <1>6, StoreSame
<1>8. ClaimInv'
  <2>1. ClaimInv
    BY DEF ImportInv
  <2>2. \A h \in files' : h \in files \/ (h = g /\ f \in files)
    BY <1>2, <1>4 DEF Replaced
  <2> HIDE DEF Stored
  <2> QED
    BY <1>3, <1>6, <1>7, <2>1, <2>2 DEF ClaimInv
<1> QED
  BY <1>5, <1>6, <1>7, <1>8, WorkerImports DEF ImportInv

LEMMA WorkerStepImports ==
  ASSUME NumberedInv, ImportInv, WorkerNext, UNCHANGED producerVars
  PROVE  ImportInv'
BY QuietWorkerImports, RecoverConsumingImports, DeleteConsumedImports,
   ClaimOldestImports, RecordConsumedImports, RemoveConsumedImports,
   LeasePassesImports
   DEF WorkerNext, Importing

LEMMA InitImports == Init => ImportInv
<1> SUFFICES ASSUME Init PROVE ImportInv
  OBVIOUS
<1>1. PICK place \in [OldSequences -> {"bad", "sealed", "consuming", "gone"}] :
        files = {OldFile(s, place[s]) : s \in {t \in OldSequences : place[t] # "gone"}}
  BY DEF Init, FilesInit
<1>2. ASSUME NEW f \in files
      PROVE  f.dir # "active" /\ (f.dir # "bad" => f.blocks = <<>>)
  <2>1. PICK s \in OldSequences : f = OldFile(s, place[s]) /\ place[s] # "gone"
    BY <1>1
  <2>2. place[s] \in {"bad", "sealed", "consuming"}
    BY <2>1
  <2> QED
    BY <2>1, <2>2, OldFileEffect
<1>3. ActiveUnread /\ ConsumedIsImported
  <2>1. \A f \in files : f.dir # "bad" => DOMAIN f.blocks = {}
    BY <1>2
  <2> HIDE DEF Stored
  <2> QED
    BY <1>2, <2>1 DEF ActiveUnread, ConsumedIsImported
<1> QED
  BY <1>3 DEF Init, ProducerInit, WorkerInit, ImportInv, ClaimInv, RecoveryInv, OutputInv

LEMMA StutterImports ==
  ASSUME ImportInv, UNCHANGED vars
  PROVE  ImportInv'
<1>1. Stored' = Stored
  BY StoreSame DEF vars, workerVars
<1> HIDE DEF Stored
<1> QED
  BY <1>1 DEF vars, fileVars, producerVars, writerVars, recoveryVars, blockVars,
     workerVars, storeVars, ImportInv, ActiveUnread, ClaimInv, RecoveryInv, OutputInv,
     ConsumedIsImported, InPlay, IsTorn

LEMMA Imports == Spec => []ImportInv
<1>1. NumberedInv /\ ImportInv /\ [Next]_vars => ImportInv'
  BY ProducerStepImports, WorkerStepImports, StutterImports DEF Next
<1> QED
  BY Numbered, InitImports, <1>1, PTL DEF Spec

--------------------------------------------------------------------------------
(* Third layer: no written block is lost. *)

(* A block that does not depend on the active file it was written to.        *)
Safe(b) ==
  \/ b \in Stored \cup dropped \cup spoiled
  \/ \E g \in files : InPlay(g) /\ b \in Legible(g)

(* What recovery has copied from its source is safe without the source.      *)
CopiedInv ==
  api \in {"scan", "finish", "unlink"} =>
    \A f \in Source :
      /\ copied <= Len(f.blocks)
      /\ \A i \in 1..copied : f.blocks[i] # Torn /\ Safe(f.blocks[i])
      /\ api # "scan" => copied = Len(f.blocks)

KeptInv == CopiedInv /\ WrittenIsKept

Kept(b) == Safe(b) \/ \E g \in files : g.dir = "active" /\ b \in Legible(g)

LEMMA KeptMeans ==
  ASSUME NumberedInv
  PROVE  WrittenIsKept <=> \A b \in written : Kept(b)
<1>1. \A f \in files : f.dir # "bad" <=> InPlay(f) \/ f.dir = "active"
  BY DEF NumberedInv, TypeOK, FilesTypeOK, File, InPlay
<1> HIDE DEF Stored, Legible, InPlay
<1> QED
  BY <1>1 DEF WrittenIsKept, Kept, Safe

(* A file whose blocks can be read from a file of the new state. *)
Stays(f) ==
  \E g \in files' :
    /\ Legible(f) \subseteq Legible(g)
    /\ g.dir = f.dir \/ InPlay(g)

InStore(f) == Legible(f) \subseteq (Stored \cup dropped \cup spoiled)'

StoresGrow ==
  /\ Stored \subseteq Stored' /\ dropped \subseteq dropped' /\ spoiled \subseteq spoiled'

LEMMA SafeStays ==
  ASSUME StoresGrow, \A f \in files : InPlay(f) => Stays(f) \/ InStore(f)
  PROVE  \A b : Safe(b) => Safe(b)'
<1> SUFFICES ASSUME NEW b, Safe(b) PROVE Safe(b)'
  OBVIOUS
<1> HIDE DEF Stored, Legible
<1>1. CASE b \in Stored \cup dropped \cup spoiled
  BY <1>1 DEF Safe, StoresGrow
<1>2. CASE \E f \in files : InPlay(f) /\ b \in Legible(f)
  <2>1. PICK f \in files : InPlay(f) /\ b \in Legible(f)
    BY <1>2
  <2>2. CASE Stays(f)
    <3>1. PICK g \in files' : /\ Legible(f) \subseteq Legible(g)
                              /\ g.dir = f.dir \/ InPlay(g)
      BY <2>2 DEF Stays
    <3>2. b \in Legible(g) /\ InPlay(g)
      BY <2>1, <3>1 DEF InPlay
    <3> QED
      BY <3>2 DEF Safe, InPlay, Legible
  <2>3. CASE InStore(f)
    BY <2>1, <2>3 DEF InStore, Safe
  <2> QED
    BY <2>1, <2>2, <2>3
<1> QED
  BY <1>1, <1>2 DEF Safe

(* The step keeps every block, if the active files it takes away hold none but
   safe ones. *)
LEMMA KeptStays ==
  ASSUME StoresGrow,
         \A f \in files : InPlay(f) => Stays(f) \/ InStore(f),
         \A f \in files : f.dir = "active" =>
           Stays(f) \/ \A b \in Legible(f) : Safe(b) \/ b \in spoiled'
  PROVE  \A b : Kept(b) => Kept(b)'
<1> SUFFICES ASSUME NEW b, Kept(b) PROVE Kept(b)'
  OBVIOUS
<1>1. Safe(b) => Safe(b)'
  BY SafeStays
<1> HIDE DEF Stored, Legible
<1>2. CASE Safe(b)
  BY <1>1, <1>2 DEF Kept
<1>3. CASE \E f \in files : f.dir = "active" /\ b \in Legible(f)
  <2>1. PICK f \in files : f.dir = "active" /\ b \in Legible(f)
    BY <1>3
  <2>2. CASE Stays(f)
    <3>1. PICK h \in files' : /\ Legible(f) \subseteq Legible(h)
                              /\ h.dir = f.dir \/ InPlay(h)
      BY <2>2 DEF Stays
    <3>2. b \in Legible(h) /\ (h.dir = "active" \/ InPlay(h))
      BY <2>1, <3>1
    <3> QED
      BY <3>2 DEF Kept, Safe, InPlay, Legible
  <2>3. CASE Safe(b) \/ b \in spoiled'
    <3>1. b \in spoiled' => Safe(b)'
      BY DEF Safe
    <3> QED
      BY <1>1, <2>3, <3>1 DEF Kept
  <2> QED
    BY <2>1, <2>2, <2>3
<1> QED
  BY <1>2, <1>3 DEF Kept

LEMMA SameStays ==
  ASSUME NEW f \in files, f \in files'
  PROVE  Stays(f)
BY DEF Stays

LEMMA ReplacedStays ==
  ASSUME NEW f \in files, NEW g, Replaced(f, g), Legible(f) \subseteq Legible(g),
         g.dir = f.dir \/ InPlay(g)
  PROVE  \A h \in files : Stays(h)
<1>1. g \in files' /\ \A h \in files : h = f \/ h \in files'
  BY DEF Replaced
<1>2. Stays(f)
  BY <1>1 DEF Stays
<1> QED
  BY <1>1, <1>2, SameStays

LEMMA AppendedStays ==
  ASSUME NumberedInv, NEW s, NEW f \in ActiveFile(s),
         NEW x \in Blocks \cup {Torn}, Replaced(f, Written(f, x))
  PROVE  \A h \in files : Stays(h)
<1>1. f \in files /\ f \in File
  BY ActiveIsFile
<1>2. Legible(f) \subseteq Legible(Written(f, x)) /\ Written(f, x).dir = f.dir
  BY <1>1, WrittenContent, WrittenEffect
<1> HIDE DEF Legible
<1> QED
  BY <1>1, <1>2, ReplacedStays

(* The source of a recovery. *)

LEMMA OneSource ==
  ASSUME NumberedInv, NEW f \in Source, NEW g \in Source
  PROVE  f = g
<1>1. /\ f \in files /\ g \in files /\ f.seq \in orphans /\ g.seq \in orphans
      /\ f.seq <= g.seq /\ g.seq <= f.seq
  BY DEF Source, InDir
<1>2. f.seq \in Nat /\ g.seq \in Nat
  BY <1>1 DEF NumberedInv, TypeOK, ProducerTypeOK
<1> QED
  BY <1>1, <1>2 DEF NumberedInv, SequenceInv, OneFilePerSequence

LEMMA SourceStays ==
  ASSUME orphans' = orphans, \A f \in files' : f.dir = "active" => f \in files
  PROVE  Source' \subseteq Source
BY DEF Source, InDir

LEMMA NothingCopied ==
  ASSUME NumberedInv', copied' = 0, api' \notin {"finish", "unlink"}
  PROVE  CopiedInv'
<1>1. \A f \in Source' : Len(f.blocks) \in Nat
  BY FileFields DEF Source, InDir, NumberedInv, TypeOK, FilesTypeOK
<1>2. \A f \in Source' : copied' <= Len(f.blocks) /\ 1..copied' = {}
  BY <1>1
<1> QED
  BY <1>2 DEF CopiedInv

(* All of a source that was read to its end, or to a torn record, is copied. *)
LEMMA CopiedIsSafe ==
  ASSUME NumberedInv, CopiedInv, NEW f \in Source,
         api \in {"scan", "finish", "unlink"},
         \/ copied = Len(f.blocks)
         \/ copied < Len(f.blocks) /\ f.blocks[copied + 1] = Torn
  PROVE  \A b \in Legible(f) : Safe(b)
<1>1. \A i \in 1..copied : Safe(f.blocks[i])
  BY DEF CopiedInv
<1>2. f \in File /\ Len(f.blocks) \in Nat /\ copied \in Nat
  BY SourceIsFile, FileFields DEF NumberedInv, TypeOK, ProducerTypeOK
<1>3. ASSUME NEW i \in 1..Len(f.blocks), \A k \in 1..i : f.blocks[k] # Torn
      PROVE  i \in 1..copied
  <2>1. CASE copied = Len(f.blocks)
    BY <2>1
  <2>2. CASE copied < Len(f.blocks) /\ f.blocks[copied + 1] = Torn
    <3>1. ~(copied + 1 \in 1..i)
      BY <1>3, <2>2
    <3> QED
      BY <1>2, <3>1
  <2> QED
    BY <2>1, <2>2
<1> HIDE DEF Safe
<1> QED
  BY <1>1, <1>2, <1>3, LegibleContent

LEMMA WrittenStays ==
  ASSUME NumberedInv, NumberedInv', KeptInv, written' = written,
         \A b : Kept(b) => Kept(b)'
  PROVE  WrittenIsKept'
<1>1. \A b \in written : Kept(b)'
  BY KeptMeans DEF KeptInv
<1>2. \A f \in files' : InPlay(f) \/ f.dir = "active" => f.dir # "bad"
  BY DEF InPlay
<1> HIDE DEF Stored, Legible, InPlay
<1> QED
  BY <1>1, <1>2 DEF WrittenIsKept, Kept, Safe, InPlay, Legible

(* Steps of the producer that take no file away. *)
LEMMA AllStay ==
  ASSUME NumberedInv, NumberedInv', KeptInv, StoresGrow, written' = written,
         \A f \in files : Stays(f)
  PROVE  WrittenIsKept' /\ \A b : Safe(b) => Safe(b)'
BY KeptStays, SafeStays, WrittenStays

LEMMA ProducerStores ==
  ASSUME UNCHANGED workerVars, dropped \subseteq dropped', spoiled \subseteq spoiled'
  PROVE  StoresGrow /\ Stored' = Stored
<1>1. Stored' = Stored
  BY StoreSame DEF workerVars
<1> HIDE DEF Stored
<1> QED
  BY <1>1 DEF StoresGrow

LEMMA CopyBlockKept ==
  ASSUME NumberedInv, NumberedInv', ImportInv, KeptInv, CopyBlock, UNCHANGED workerVars
  PROVE  KeptInv'
<1>1. PICK f \in Source :
        /\ copied < Len(f.blocks)
        /\ f.blocks[copied + 1] # Torn
        /\ IF output = NoRow
           THEN /\ AllocateSequence
                /\ output' = NextFileSequence
                /\ files' = files \cup {NewFile(NextFileSequence, "sealed", "recovering",
                                                <<f.blocks[copied + 1]>>)}
           ELSE /\ UNCHANGED <<nextSeq, output>>
                /\ files' = {IF g.seq = output THEN Written(g, f.blocks[copied + 1])
                                               ELSE g : g \in files}
  BY DEF CopyBlock
<1>2. f \in File /\ f.seq \in orphans /\ Len(f.blocks) \in Nat /\ copied \in Nat
  BY SourceIsFile, FileFields DEF NumberedInv, TypeOK, ProducerTypeOK
<1>3. PICK b \in Blocks : b = f.blocks[copied + 1] /\ b # Torn
  BY <1>1, <1>2, FileFields
<1>4. /\ api' = "scan" /\ api = "scan" /\ orphans' = orphans /\ copied' = copied + 1
      /\ written' = written /\ dropped' = dropped /\ spoiled' = spoiled
  BY DEF CopyBlock, blockVars
<1>5. \A g \in files : g \in File
  BY DEF NumberedInv, TypeOK, FilesTypeOK
<1>6. StoresGrow
  BY <1>4, ProducerStores
<1>7. /\ \A g \in files : Stays(g)
      /\ \E g \in files' : InPlay(g) /\ b \in Legible(g)
      /\ \A g \in files' : g.dir = "active" => g \in files
  <2>1. CASE output = NoRow
    <3> DEFINE n == NewFile(NextFileSequence, "sealed", "recovering", <<b>>)
    <3>1. IsFree(NextFileSequence)
      BY NextIsFree DEF NumberedInv
    <3>2. <<b>> \in Seq(Blocks \cup {Torn}) /\ Len(<<b>>) = 1 /\ <<b>>[1] = b
      BY <1>3
    <3>3. n \in File /\ n.dir = "sealed" /\ n.blocks = <<b>>
      BY <3>1, <3>2 DEF IsFree, NewFile, File
    <3>4. files' = files \cup {n}
      BY <1>1, <1>3, <2>1
    <3> HIDE DEF n
    <3>5. b \in Legible(n)
      <4>1. 1 \in 1..Len(n.blocks) /\ n.blocks[1] = b /\ \A k \in 1..1 : n.blocks[k] = b
        BY <3>2, <3>3
      <4> QED
        BY <1>3, <3>3, <4>1, LegibleContent
    <3> QED
      BY <3>3, <3>4, <3>5, SameStays DEF InPlay
  <2>2. CASE output # NoRow
    <3>1. \A h : h \in files' <=>
            \E g \in files : h = IF g.seq = output THEN Written(g, b) ELSE g
      BY <1>1, <1>3, <2>2
    <3>2. \A g \in files : g.seq = output => InPlay(g)
      BY <2>2 DEF ImportInv, RecoveryInv
    <3>3. \A g \in files :
            /\ Written(g, b).dir = g.dir
            /\ Legible(g) \subseteq Legible(Written(g, b))
      BY <1>3, <1>5, WrittenEffect, WrittenContent
    <3>4. \A g \in files : Stays(g)
      <4> HIDE DEF Legible
      <4> QED
        BY <3>1, <3>3, SameStays DEF Stays
    <3>5. PICK g \in files : g.seq = output /\ ~IsTorn(g)
      BY <1>4, <2>2 DEF ImportInv, OutputInv
    <3>6. /\ b \in Legible(Written(g, b)) /\ InPlay(Written(g, b))
          /\ Written(g, b) \in files'
      BY <1>3, <1>5, <3>1, <3>2, <3>3, <3>5, WrittenContent DEF InPlay
    <3>7. \A h \in files' : h.dir = "active" => h \in files
      BY <3>1, <3>2, <3>3 DEF InPlay
    <3> QED
      BY <3>4, <3>6, <3>7
  <2> QED
    BY <2>1, <2>2
<1>8. WrittenIsKept' /\ \A c : Safe(c) => Safe(c)'
  BY <1>4, <1>6, <1>7, AllStay
<1>9. Safe(b)'
  <2>1. PICK g \in files' : InPlay(g) /\ b \in Legible(g)
    BY <1>7
  <2> HIDE DEF Legible, InPlay, Stored
  <2> QED
    BY <2>1 DEF Safe
<1>10. CopiedInv'
  <2>1. \A g \in Source' : g = f
    BY <1>4, <1>7, SourceStays, OneSource
  <2>2. /\ copied <= Len(f.blocks)
        /\ \A i \in 1..copied : f.blocks[i] # Torn /\ Safe(f.blocks[i])
    BY <1>4 DEF KeptInv, CopiedInv
  <2>3. \A i \in 1..(copied + 1) : i \in 1..copied \/ i = copied + 1
    BY <1>2
  <2> HIDE DEF Safe
  <2>4. \A i \in 1..(copied + 1) : f.blocks[i] # Torn /\ Safe(f.blocks[i])'
    BY <1>3, <1>8, <1>9, <2>2, <2>3
  <2>5. copied + 1 <= Len(f.blocks)
    BY <1>1, <1>2
  <2> QED
    BY <1>4, <2>1, <2>4, <2>5 DEF CopiedInv
<1> QED
  BY <1>8, <1>10 DEF KeptInv

LEMMA QuarantineKept ==
  ASSUME NumberedInv, NumberedInv', KeptInv, StoresGrow, written' = written,
         NEW f \in Source, Quarantine(f),
         \A b \in Legible(f) : Safe(b) \/ b \in spoiled'
  PROVE  WrittenIsKept'
<1>1. f \in files /\ f.dir = "active"
  BY SourceIsFile
<1>2. \A g \in files : g # f => g \in files'
  BY DEF Quarantine, Replaced
<1> HIDE DEF Legible
<1>3. \A g \in files : InPlay(g) => Stays(g)
  BY <1>1, <1>2, SameStays DEF InPlay
<1>4. \A g \in files : Stays(g) \/ g = f
  BY <1>2, SameStays
<1> QED
  BY <1>3, <1>4, KeptStays, WrittenStays

LEMMA ScanFailsKept ==
  ASSUME NumberedInv, NumberedInv', KeptInv, ScanFails, UNCHANGED workerVars
  PROVE  KeptInv'
<1>1. PICK f \in Source :
        /\ \/ /\ copied < Len(f.blocks) /\ f.blocks[copied + 1] = Torn
              /\ UNCHANGED spoiled
           \/ "write" \in Faults /\ spoiled' = spoiled \cup Legible(f)
        /\ Quarantine(f)
  BY DEF ScanFails
<1>2. /\ api = "scan" /\ api' = api /\ written' = written /\ dropped' = dropped
      /\ copied' = 0
  BY <1>1 DEF ScanFails, Quarantine, NextOrphan
<1>3. StoresGrow
  BY <1>1, <1>2, ProducerStores
<1>4. \A b \in Legible(f) : Safe(b) \/ b \in spoiled'
  <2>1. CASE copied < Len(f.blocks) /\ f.blocks[copied + 1] = Torn
    BY <1>2, <2>1, CopiedIsSafe DEF KeptInv
  <2>2. CASE spoiled' = spoiled \cup Legible(f)
    BY <2>2
  <2> QED
    BY <1>1, <2>1, <2>2
<1>5. WrittenIsKept'
  BY <1>1, <1>2, <1>3, <1>4, QuarantineKept
<1>6. CopiedInv'
  BY <1>2, NothingCopied
<1> QED
  BY <1>5, <1>6 DEF KeptInv

(* The source goes, all of it copied. *)
LEMMA RemovedKept ==
  ASSUME NumberedInv, NumberedInv', KeptInv, StoresGrow, written' = written,
         NEW f \in Source, Removed(f), api \in {"scan", "finish", "unlink"},
         copied = Len(f.blocks)
  PROVE  WrittenIsKept'
<1>1. f \in files /\ f.dir = "active"
  BY SourceIsFile
<1>2. \A g \in files : g # f => g \in files'
  BY DEF Removed
<1>3. \A b \in Legible(f) : Safe(b)
  BY CopiedIsSafe DEF KeptInv
<1> HIDE DEF Legible
<1>4. \A g \in files : InPlay(g) => Stays(g)
  BY <1>1, <1>2, SameStays DEF InPlay
<1>5. \A g \in files : Stays(g) \/ g = f
  BY <1>2, SameStays
<1> QED
  BY <1>3, <1>4, <1>5, KeptStays, WrittenStays

LEMMA ScanEndsKept ==
  ASSUME NumberedInv, NumberedInv', ImportInv, KeptInv, ScanEnds, UNCHANGED workerVars
  PROVE  KeptInv'
<1>1. PICK f \in Source :
        /\ copied = Len(f.blocks)
        /\ IF copied = 0
           THEN Removed(f) /\ NextOrphan(f) /\ UNCHANGED api
           ELSE /\ files' = {IF g.seq = output
                               THEN [g EXCEPT !.footer = TRUE, !.aged = FALSE]
                               ELSE g : g \in files}
                /\ api' = "finish"
                /\ UNCHANGED recoveryVars
  BY DEF ScanEnds
<1>2. /\ api = "scan" /\ written' = written /\ dropped' = dropped /\ spoiled' = spoiled
  BY DEF ScanEnds, blockVars
<1>3. StoresGrow
  BY <1>2, ProducerStores
<1>4. CASE copied = 0
  <2>1. copied' = 0 /\ api' = "scan"
    BY <1>1, <1>2, <1>4 DEF NextOrphan
  <2>2. WrittenIsKept'
    BY <1>1, <1>2, <1>3, <1>4, RemovedKept
  <2> QED
    BY <2>1, <2>2, NothingCopied DEF KeptInv
<1>5. CASE copied # 0
  <2> DEFINE Footed(g) == [g EXCEPT !.footer = TRUE, !.aged = FALSE]
  <2>1. /\ api' = "finish" /\ output' = output /\ orphans' = orphans /\ copied' = copied
        /\ \A h : h \in files' <=>
             \E g \in files : h = IF g.seq = output THEN Footed(g) ELSE g
    BY <1>1, <1>5 DEF recoveryVars
  <2>2. \A g \in files : Footed(g).dir = g.dir /\ Footed(g).blocks = g.blocks
    BY FootedEffect DEF NumberedInv, TypeOK, FilesTypeOK
  <2> HIDE DEF Footed
  <2>3. \A g \in files : Legible(Footed(g)) = Legible(g)
    BY <2>2, SameContent
  <2>4. \A g \in files : Stays(g)
    <3> HIDE DEF Legible
    <3> QED
      BY <2>1, <2>2, <2>3, SameStays DEF Stays
  <2>5. WrittenIsKept' /\ \A b : Safe(b) => Safe(b)'
    BY <1>2, <1>3, <2>4, AllStay
  <2>6. \A g \in files : g.seq = output => InPlay(g)
    <3>1. \A g \in files : g.seq # NoRow
      BY DEF NumberedInv, TypeOK, FilesTypeOK, File, NoRow
    <3> QED
      BY <3>1 DEF ImportInv, RecoveryInv
  <2>7. \A h \in files' : h.dir = "active" => h \in files
    BY <2>1, <2>2, <2>6 DEF InPlay
  <2>8. \A g \in Source' : g = f
    BY <2>1, <2>7, SourceStays, OneSource
  <2>9. /\ copied <= Len(f.blocks)
        /\ \A i \in 1..copied : f.blocks[i] # Torn /\ Safe(f.blocks[i])
    BY <1>2 DEF KeptInv, CopiedInv
  <2>10. CopiedInv'
    <3> HIDE DEF Safe
    <3> QED
      BY <1>1, <2>1, <2>5, <2>8, <2>9 DEF CopiedInv
  <2> QED
    BY <2>5, <2>10 DEF KeptInv
<1> QED
  BY <1>4, <1>5

LEMMA FinishRecoveredKept ==
  ASSUME NumberedInv, NumberedInv', KeptInv, FinishRecovered, UNCHANGED workerVars
  PROVE  KeptInv'
<1> DEFINE temp == {g \in InDir("sealed") : g.seq = output /\ g.ext = "recovering"}
<1>1. /\ api = "finish" /\ written' = written /\ dropped' = dropped /\ spoiled' = spoiled
  BY DEF FinishRecovered, blockVars
<1>2. StoresGrow
  BY <1>1, ProducerStores
<1>3. CASE temp # {}
  <2>1. (\E g \in temp : Replaced(g, [g EXCEPT !.ext = "journal"]))
        /\ api' = "unlink" /\ UNCHANGED recoveryVars
    BY <1>3 DEF FinishRecovered
  <2>2. PICK g \in temp : Replaced(g, [g EXCEPT !.ext = "journal"])
    BY <2>1
  <2> DEFINE h == [g EXCEPT !.ext = "journal"]
  <2>3. g \in files /\ g \in File /\ g.dir = "sealed"
    BY DEF InDir, NumberedInv, TypeOK, FilesTypeOK
  <2>4. h.dir = g.dir /\ h.blocks = g.blocks
    BY <2>3, RenamedEffect
  <2>5. Replaced(g, h)
    BY <2>2
  <2>6. orphans' = orphans /\ copied' = copied
    BY <2>1 DEF recoveryVars
  <2> HIDE DEF h, temp
  <2>7. Legible(h) = Legible(g)
    BY <2>4, SameContent
  <2>8. \A f \in files : Stays(f)
    <3> HIDE DEF Legible
    <3> QED
      BY <2>3, <2>4, <2>5, <2>7, ReplacedStays
  <2>9. WrittenIsKept' /\ \A b : Safe(b) => Safe(b)'
    BY <1>1, <1>2, <2>8, AllStay
  <2>10. \A f \in files' : f.dir = "active" => f \in files
    BY <2>3, <2>4, <2>5 DEF Replaced
  <2>11. Source' \subseteq Source
    BY <2>6, <2>10, SourceStays
  <2>12. \A f \in Source :
           /\ copied <= Len(f.blocks) /\ copied = Len(f.blocks)
           /\ \A i \in 1..copied : f.blocks[i] # Torn /\ Safe(f.blocks[i])
    BY <1>1 DEF KeptInv, CopiedInv
  <2>13. CopiedInv'
    <3> HIDE DEF Safe
    <3> QED
      BY <2>6, <2>9, <2>11, <2>12 DEF CopiedInv
  <2> QED
    BY <2>9, <2>13 DEF KeptInv
<1>4. CASE temp = {}
  <2>1. (\E f \in Source : Quarantine(f)) /\ api' = "scan"
    BY <1>4 DEF FinishRecovered
  <2>2. PICK f \in Source : Quarantine(f)
    BY <2>1
  <2>3. copied' = 0
    BY <2>2 DEF Quarantine, NextOrphan
  <2>4. copied = Len(f.blocks)
    BY <1>1 DEF KeptInv, CopiedInv
  <2>5. \A b \in Legible(f) : Safe(b)
    BY <1>1, <2>4, CopiedIsSafe DEF KeptInv
  <2>6. WrittenIsKept'
    BY <1>1, <1>2, <2>2, <2>5, QuarantineKept
  <2>7. CopiedInv'
    BY <2>1, <2>3, NothingCopied
  <2> QED
    BY <2>6, <2>7 DEF KeptInv
<1> QED
  BY <1>3, <1>4

LEMMA RemoveSourceKept ==
  ASSUME NumberedInv, NumberedInv', KeptInv, RemoveSource, UNCHANGED workerVars
  PROVE  KeptInv'
<1>1. PICK f \in Source : Removed(f) /\ NextOrphan(f)
  BY DEF RemoveSource
<1>2. /\ api = "unlink" /\ api' = "scan" /\ written' = written /\ dropped' = dropped
      /\ spoiled' = spoiled /\ copied' = 0
  BY <1>1 DEF RemoveSource, blockVars, NextOrphan
<1>3. StoresGrow
  BY <1>2, ProducerStores
<1>4. copied = Len(f.blocks)
  BY <1>2 DEF KeptInv, CopiedInv
<1>5. WrittenIsKept'
  BY <1>1, <1>2, <1>3, <1>4, RemovedKept
<1> QED
  BY <1>2, <1>5, NothingCopied DEF KeptInv

LEMMA AppendEventsKept ==
  ASSUME NumberedInv, NumberedInv', KeptInv, NEW b \in Blocks, AppendEvents(b),
         UNCHANGED workerVars
  PROVE  WrittenIsKept'
<1>1. PICK f \in ActiveFile(current) :
        /\ Replaced(f, Written(f, b))
        /\ spoiled' = IF IsTorn(f) THEN spoiled \cup {b} ELSE spoiled
  BY DEF AppendEvents
<1>2. written' = written \cup {b} /\ dropped' = dropped
  BY DEF AppendEvents
<1>3. spoiled \subseteq spoiled' /\ (IsTorn(f) => b \in spoiled')
  BY <1>1
<1>4. StoresGrow
  BY <1>2, <1>3, ProducerStores
<1>5. \A h \in files : Stays(h)
  BY <1>1, AppendedStays
<1>6. f \in File /\ f.dir = "active"
  BY ActiveIsFile
<1>7. b \in spoiled' \/ \E g \in files' : g.dir = "active" /\ b \in Legible(g)
  <2>1. CASE IsTorn(f)
    BY <1>3, <2>1
  <2>2. CASE ~IsTorn(f)
    <3>1. b # Torn
      BY DEF JournalAssumption
    <3>2. b \in Legible(Written(f, b)) /\ Written(f, b).dir = "active"
      BY <1>6, <2>2, <3>1, WrittenContent, WrittenEffect
    <3>3. Written(f, b) \in files'
      BY <1>1 DEF Replaced
    <3> QED
      BY <3>2, <3>3
  <2> QED
    BY <2>1, <2>2
<1>8. \A c \in written : Kept(c)'
  <2>1. \A c : Kept(c) => Kept(c)'
    BY <1>4, <1>5, KeptStays
  <2>2. \A c \in written : Kept(c)
    BY KeptMeans DEF KeptInv
  <2> HIDE DEF Kept
  <2> QED
    BY <2>1, <2>2
<1>9. Kept(b)'
  <2> HIDE DEF Legible, Stored, InPlay
  <2> QED
    BY <1>7 DEF Kept, Safe
<1>10. \A g \in files' : InPlay(g) \/ g.dir = "active" => g.dir # "bad"
  BY DEF InPlay
<1> HIDE DEF Stored, Legible, InPlay
<1>11. ASSUME NEW c, Kept(c)'
       PROVE  \/ c \in (Stored \cup dropped \cup spoiled)'
              \/ \E g \in files' : g.dir # "bad" /\ c \in Legible(g)'
  BY <1>10, <1>11 DEF Kept, Safe, InPlay, Legible
<1> HIDE DEF Kept
<1>12. \A c \in written' : Kept(c)'
  BY <1>2, <1>8, <1>9
<1> QED
  BY <1>11, <1>12 DEF WrittenIsKept

(* The rest of the writer's life, and its death. *)
LEMMA WriterKept ==
  ASSUME NumberedInv, NumberedInv', ImportInv, KeptInv, UNCHANGED workerVars,
         Start \/ OpenFirst \/ Writing \/ Retention \/ Stop \/ Crash
  PROVE  KeptInv'
<1>1. api \notin {"scan", "finish", "unlink"} => copied = 0
  BY NoRecovery
<1>2. api = "scan" /\ orphans = {} => copied = 0
  BY DEF ImportInv, RecoveryInv
<1>3. copied' = 0 /\ api' \notin {"finish", "unlink"}
  BY <1>1, <1>2
     DEF Start, OpenFirst, Writing, AppendEvents, AppendFails, Maintain, OpenNext,
         OpenFails, WriteFooter, PublishSealed, SealFails, Retention,
         ListForRetention, DeleteOldest, RetentionEnds, Stop, Crash, StopProducer,
         recoveryVars
<1>4. CopiedInv'
  BY <1>3, NothingCopied
<1>5. CASE \E b \in Blocks : AppendEvents(b)
  BY <1>4, <1>5, AppendEventsKept DEF KeptInv
<1>6. CASE DeleteOldest
  <2>1. PICK p \in Lowest(1, doomed) :
          LET found == {f \in InDir("sealed") : Path(f) = p}
          IN  IF found # {}
              THEN /\ files' = files \ found
                   /\ dropped' = dropped \cup UNION {Legible(f) : f \in found}
                   /\ doomed' = doomed \ {p}
                   /\ UNCHANGED api
              ELSE /\ UNCHANGED <<files, dropped>>
                   /\ doomed' = {}
                   /\ api' = "idle"
    BY <1>6 DEF DeleteOldest
  <2> DEFINE found == {f \in InDir("sealed") : Path(f) = p}
  <2>2. written' = written /\ spoiled' = spoiled
    BY <1>6 DEF DeleteOldest
  <2>3. /\ dropped \subseteq dropped'
        /\ \A f \in files : f \in files' \/ (f \in found /\ Legible(f) \subseteq dropped')
    BY <2>1
  <2>4. \A f \in found : f.dir = "sealed"
    BY DEF InDir
  <2> HIDE DEF found, Legible
  <2>5. StoresGrow
    BY <2>2, <2>3, ProducerStores
  <2>6. \A f \in files : Stays(f) \/ (f.dir = "sealed" /\ InStore(f))
    <3> HIDE DEF Stored
    <3> QED
      BY <2>3, <2>4, SameStays DEF InStore
  <2>7. WrittenIsKept'
    BY <2>2, <2>5, <2>6, KeptStays, WrittenStays
  <2> QED
    BY <1>4, <2>7 DEF KeptInv
<1>7. CASE ~(DeleteOldest \/ \E b \in Blocks : AppendEvents(b))
  <2>1. written' = written /\ dropped' = dropped /\ spoiled' = spoiled
    BY <1>7
     DEF Start, OpenFirst, Writing, AppendFails, Maintain, OpenNext,
         OpenFails, WriteFooter, PublishSealed, SealFails, Retention,
         ListForRetention, RetentionEnds, Stop, Crash, StopProducer, blockVars
  <2>2. StoresGrow
    BY <2>1, ProducerStores
  <2>3. \/ files \subseteq files'
        \/ \E f \in ActiveFile(current) : Replaced(f, Written(f, Torn))
        \/ \E f \in ActiveFile(sealing) : Replaced(f, Written(f, Torn))
        \/ WriteFooter \/ PublishSealed
    <3>1. ActiveFile(NextFileSequence) = {}
      BY NextIsFree, FreeIsNew DEF NumberedInv
    <3>2. CASE OpenFirst \/ OpenNext
      BY <3>1, <3>2 DEF OpenFirst, OpenNext, CreateActive
    <3>3. CASE OpenFails
      BY <3>3 DEF OpenFails
    <3>4. CASE Stop \/ Crash
      BY <3>4 DEF Stop, Crash, CrashInWrite
    <3>5. CASE \E b \in Blocks : AppendFails(b)
      BY <3>5 DEF AppendFails
    <3>6. CASE Start \/ Maintain \/ SealFails \/ ListForRetention \/ RetentionEnds
      BY <3>6 DEF Start, Maintain, SealFails, ListForRetention, RetentionEnds, fileVars
    <3> QED
      BY <1>7, <3>2, <3>3, <3>4, <3>5, <3>6 DEF Writing, Retention
  <2>4. CASE files \subseteq files'
    BY <1>4, <2>1, <2>2, <2>4, SameStays, AllStay DEF KeptInv
  <2>5. CASE \/ \E f \in ActiveFile(current) : Replaced(f, Written(f, Torn))
             \/ \E f \in ActiveFile(sealing) : Replaced(f, Written(f, Torn))
    <3>1. \A f \in files : Stays(f)
      BY <2>5, AppendedStays
    <3> QED
      BY <1>4, <2>1, <2>2, <3>1, AllStay DEF KeptInv
  <2>6. CASE WriteFooter
    <3>1. PICK f \in ActiveFile(sealing) :
            Replaced(f, [f EXCEPT !.footer = TRUE, !.aged = FALSE])
      BY <2>6 DEF WriteFooter
    <3> DEFINE g == [f EXCEPT !.footer = TRUE, !.aged = FALSE]
    <3>2. f \in files /\ g.dir = f.dir /\ g.blocks = f.blocks /\ Replaced(f, g)
      BY <3>1, ActiveIsFile, FootedEffect
    <3> HIDE DEF g
    <3>3. Legible(g) = Legible(f)
      BY <3>2, SameContent
    <3>4. \A h \in files : Stays(h)
      <4> HIDE DEF Legible
      <4> QED
        BY <3>2, <3>3, ReplacedStays
    <3> QED
      BY <1>4, <2>1, <2>2, <3>4, AllStay DEF KeptInv
  <2>7. CASE PublishSealed
    <3>1. PICK f \in ActiveFile(sealing) :
            Replaced(f, [f EXCEPT !.dir = "sealed", !.ext = "journal"])
      BY <2>7 DEF PublishSealed
    <3> DEFINE g == [f EXCEPT !.dir = "sealed", !.ext = "journal"]
    <3>2. f \in files /\ g.dir = "sealed" /\ g.blocks = f.blocks /\ Replaced(f, g)
      BY <3>1, ActiveIsFile, PublishedEffect
    <3> HIDE DEF g
    <3>3. Legible(g) = Legible(f) /\ InPlay(g)
      BY <3>2, SameContent DEF InPlay
    <3>4. \A h \in files : Stays(h)
      <4> HIDE DEF Legible
      <4> QED
        BY <3>2, <3>3, ReplacedStays
    <3> QED
      BY <1>4, <2>1, <2>2, <3>4, AllStay DEF KeptInv
  <2> QED
    BY <2>3, <2>4, <2>5, <2>6, <2>7
<1> QED
  BY <1>5, <1>6, <1>7

LEMMA ProducerStepKept ==
  ASSUME NumberedInv, NumberedInv', ImportInv, KeptInv, ProducerNext,
         UNCHANGED workerVars
  PROVE  KeptInv'
BY CopyBlockKept, ScanFailsKept, ScanEndsKept, FinishRecoveredKept,
   RemoveSourceKept, WriterKept DEF ProducerNext, Recovery

LEMMA WorkerStores ==
  ASSUME NumberedInv, WorkerNext, UNCHANGED producerVars
  PROVE  StoresGrow
<1>1. UNCHANGED storeVars \/ \E b \in Blocks : InsertRows(b)
  <2>1. CASE ImportBlock \/ ImportFails
    BY <2>1, NextBlock DEF ImportBlock, ImportFails
  <2>2. CASE ~(ImportBlock \/ ImportFails)
    BY <2>2 DEF WorkerNext, Importing, RecoverConsuming, ListSealed, DeleteConsumed,
       ClaimOldest, ReadFails, FinishFile, RecordConsumed, RemoveConsumed,
       BookkeepingFails, WorkerDies, StartWorker, OperatorRestarts, LeasePasses,
       workerVars
  <2> QED
    BY <2>1, <2>2
<1>2. WorkerTypeOK /\ dropped' = dropped /\ spoiled' = spoiled
  BY DEF NumberedInv, TypeOK, producerVars, blockVars
<1> HIDE DEF Stored
<1>3. Stored \subseteq Stored'
  BY <1>1, <1>2, StoreSame, StoreGrows
<1> QED
  BY <1>2, <1>3 DEF StoresGrow

LEMMA WorkerMoves ==
  ASSUME NumberedInv, ImportInv, WorkerNext, UNCHANGED producerVars
  PROVE  WorkerFiles
<1>1. CASE RecordConsumed
  BY <1>1, SameFiles DEF RecordConsumed
<1>2. CASE \/ ListSealed \/ ImportBlock \/ ImportFails \/ ReadFails \/ FinishFile
           \/ BookkeepingFails \/ WorkerDies \/ StartWorker \/ OperatorRestarts
  BY <1>2, QuietWorkerNumbered, SameFiles DEF fileVars
<1> QED
  BY <1>1, <1>2, RecoverConsumingImports, DeleteConsumedImports, ClaimOldestImports,
     RemoveConsumedImports, LeasePassesImports DEF WorkerNext, Importing

LEMMA WorkerStepKept ==
  ASSUME NumberedInv, NumberedInv', ImportInv, KeptInv, WorkerNext,
         UNCHANGED producerVars
  PROVE  KeptInv'
<1>1. /\ written' = written /\ api' = api /\ orphans' = orphans /\ copied' = copied
  BY DEF producerVars, blockVars, recoveryVars
<1>2. StoresGrow /\ WorkerFiles
  BY WorkerStores, WorkerMoves
<1>3. \A f \in files : Stays(f) \/ (InPlay(f) /\ InStore(f))
  <2>1. SUFFICES ASSUME NEW f \in files PROVE Stays(f) \/ (InPlay(f) /\ InStore(f))
    OBVIOUS
  <2>2. CASE Imported(f)
    <3>1. InPlay(f) /\ \A i \in 1..Len(f.blocks) : f.blocks[i] \in Stored
      BY <2>2, FileFields DEF Imported, NumberedInv, TypeOK, FilesTypeOK
    <3>2. \A b \in Legible(f) : b \in Stored
      BY <3>1, LegibleContent DEF NumberedInv, TypeOK, FilesTypeOK
    <3> HIDE DEF Stored
    <3> QED
      BY <1>2, <3>1, <3>2 DEF InStore, StoresGrow
  <2>3. ASSUME NEW g \in files', WorkerKeeps(g, f) PROVE Stays(f)
    <3>1. Legible(g) = Legible(f) /\ (g.dir = f.dir \/ InPlay(g))
      BY <2>3, SameContent DEF WorkerKeeps
    <3> HIDE DEF Legible
    <3> QED
      BY <3>1 DEF Stays
  <2> QED
    BY <1>2, <2>2, <2>3 DEF WorkerFiles
<1>4. \A b : Safe(b) => Safe(b)'
  BY <1>2, <1>3, SafeStays
<1>5. WrittenIsKept'
  <2>1. \A f \in files : f.dir = "active" => Stays(f)
    BY <1>3 DEF InPlay
  <2> QED
    BY <1>1, <1>2, <1>3, <2>1, KeptStays, WrittenStays
<1>6. CopiedInv'
  <2>1. SUFFICES ASSUME api \in {"scan", "finish", "unlink"}, NEW g \in Source'
        PROVE  /\ copied <= Len(g.blocks)
               /\ \A i \in 1..copied : g.blocks[i] # Torn /\ Safe(g.blocks[i])'
               /\ api # "scan" => copied = Len(g.blocks)
    <3> HIDE DEF Safe, Source
    <3> QED
      BY <1>1, <2>1 DEF CopiedInv
  <2>2. /\ g \in files' /\ g.dir = "active" /\ g.seq \in orphans
        /\ \A s \in orphans : g.seq <= s
    BY <1>1 DEF Source, InDir
  <2>3. PICK f \in files : WorkerKeeps(g, f)
    BY <1>2, <2>2 DEF WorkerFiles
  <2>4. f \in Source /\ g.blocks = f.blocks
    BY <2>2, <2>3 DEF WorkerKeeps, InPlay, Source, InDir
  <2>5. /\ copied <= Len(f.blocks)
        /\ \A i \in 1..copied : f.blocks[i] # Torn /\ Safe(f.blocks[i])
        /\ api # "scan" => copied = Len(f.blocks)
    BY <2>1, <2>4 DEF KeptInv, CopiedInv
  <2> HIDE DEF Safe
  <2> QED
    BY <1>4, <2>4, <2>5
<1> QED
  BY <1>5, <1>6 DEF KeptInv

LEMMA InitKept == Init => KeptInv
BY DEF Init, ProducerInit, KeptInv, CopiedInv, WrittenIsKept

LEMMA StutterKept ==
  ASSUME KeptInv, UNCHANGED vars
  PROVE  KeptInv'
<1>1. /\ files' = files /\ api' = api /\ orphans' = orphans /\ copied' = copied
      /\ written' = written /\ dropped' = dropped /\ spoiled' = spoiled
  BY DEF vars, fileVars, producerVars, recoveryVars, blockVars
<1>2. Stored' = Stored
  BY StoreSame DEF vars, workerVars
<1>3. Source' = Source
  BY <1>1 DEF Source, InDir
<1> HIDE DEF Stored, Source, Legible
<1>4. \A b : Safe(b) => Safe(b)'
  BY <1>1, <1>2 DEF Safe, InPlay, Legible
<1>5. WrittenIsKept'
  BY <1>1, <1>2 DEF KeptInv, WrittenIsKept, Legible
<1>6. CopiedInv'
  <2> HIDE DEF Safe
  <2> QED
    BY <1>1, <1>3, <1>4 DEF KeptInv, CopiedInv
<1> QED
  BY <1>5, <1>6 DEF KeptInv

LEMMA Keeps == Spec => []KeptInv
<1>1. NumberedInv /\ NumberedInv' /\ ImportInv /\ KeptInv /\ [Next]_vars => KeptInv'
  BY ProducerStepKept, WorkerStepKept, StutterKept DEF Next
<1> QED
  BY Numbered, Imports, InitKept, <1>1, PTL DEF Spec

--------------------------------------------------------------------------------
(* A segment holds a block once, so the copies of a block are bounded by the
   segments there are. *)

OncePerSegment ==
  /\ \A b \in Blocks : archived[b] <= rollovers
  /\ "rollover" \notin Faults => rollovers = 0

LEMMA InsertedOnce ==
  ASSUME NumberedInv, OncePerSegment, NEW b \in Blocks, InsertRows(b)
  PROVE  OncePerSegment'
<1>1. archived \in [Blocks -> Nat] /\ rollovers \in Nat
  BY MaxRolloversAssumption DEF NumberedInv, TypeOK, WorkerTypeOK, MaxRolloversAssumption
<1>2. ASSUME NEW S, NEW R, Rollover(S, R) PROVE OncePerSegment'
  <2>1. /\ rollovers' = rollovers + 1 /\ "rollover" \in Faults
        /\ \A c \in Blocks : archived'[c] = archived[c] + IF c \in S THEN 1 ELSE 0
    BY <1>2 DEF Rollover
  <2>2. \A c \in Blocks : archived'[c] <= rollovers'
    BY <1>1, <2>1 DEF OncePerSegment
  <2> QED
    BY <2>1, <2>2 DEF OncePerSegment
<1>3. CASE UNCHANGED <<archived, rollovers>>
  BY <1>3 DEF OncePerSegment
<1> QED
  BY <1>2, <1>3 DEF InsertRows

LEMMA SegmentsHoldOnce == Spec => []OncePerSegment
<1>1. Init => OncePerSegment
  BY DEF Init, WorkerInit, OncePerSegment
<1>2. NumberedInv /\ OncePerSegment /\ [Next]_vars => OncePerSegment'
  <2> SUFFICES ASSUME NumberedInv, OncePerSegment, [Next]_vars PROVE OncePerSegment'
    OBVIOUS
  <2>1. UNCHANGED storeVars \/ \E b \in Blocks : InsertRows(b)
    <3>1. CASE UNCHANGED vars
      BY <3>1 DEF vars, workerVars
    <3>2. CASE ProducerNext /\ UNCHANGED workerVars
      BY <3>2 DEF workerVars
    <3>3. CASE (ImportBlock \/ ImportFails) /\ UNCHANGED producerVars
      BY <3>3, NextBlock DEF ImportBlock, ImportFails
    <3>4. CASE ~(ImportBlock \/ ImportFails) /\ WorkerNext /\ UNCHANGED producerVars
      BY <3>4 DEF WorkerNext, Importing, RecoverConsuming, ListSealed,
         DeleteConsumed, ClaimOldest, ReadFails, FinishFile, RecordConsumed,
         RemoveConsumed, BookkeepingFails, WorkerDies, StartWorker,
         OperatorRestarts, LeasePasses, workerVars
    <3> QED
      BY <3>1, <3>2, <3>3, <3>4 DEF Next
  <2>2. CASE UNCHANGED storeVars
    BY <2>2 DEF storeVars, OncePerSegment
  <2> QED
    BY <2>1, <2>2, InsertedOnce
<1> QED
  BY Numbered, <1>1, <1>2, PTL DEF Spec

--------------------------------------------------------------------------------
(* The theorems. *)

(* Every variable keeps its type: in particular a sequence a new file gets is a
   number, the record of consumed files holds numbers, and every block of the
   store is one that may be written. *)
THEOREM JournalTypes == Spec => []TypeOK
BY Numbered, PTL DEF NumberedInv

(* Whatever crashes, fails or is recovered, and whatever root an older release
   left, no two files share a sequence and the counter is above all of them
   (allocate_next_file_sequence, seed_next_file_sequence). *)
THEOREM SequencesAreUnique == Spec => []OneFilePerSequence
BY Numbered, PTL DEF NumberedInv, SequenceInv

(* The worker deletes a file whose sequence is recorded without reading it; its
   blocks are all in the analytics store (recover_orphan_consuming_files,
   claim_oldest_sealed_file, mark_consumed). *)
THEOREM ConsumedFilesAreImported == Spec => []ConsumedIsImported
BY Imports, PTL DEF ImportInv

(* A written block stays readable until it is in the store or retention drops
   its file, across every crash of the writer, of sealing and of recovery, and
   every interleaving of these with the worker; only a failing write may take
   blocks of its file with it. *)
THEOREM WrittenBlocksAreKept == Spec => []WrittenIsKept
BY Keeps, PTL DEF KeptInv

(* A block is in the analytics store at most once per segment, however often its
   file is claimed, imported in part or recovered (ON CONFLICT DO NOTHING). *)
THEOREM BlocksOncePerSegment ==
  Spec => [](\A b \in Blocks : Copies(b) <= rollovers + 1)
<1>1. NumberedInv /\ OncePerSegment => \A b \in Blocks : Copies(b) <= rollovers + 1
  <2> SUFFICES ASSUME NumberedInv, OncePerSegment, NEW b \in Blocks
               PROVE  Copies(b) <= rollovers + 1
    OBVIOUS
  <2>1. archived[b] \in Nat /\ rollovers \in Nat /\ archived[b] <= rollovers
    BY MaxRolloversAssumption
       DEF NumberedInv, TypeOK, WorkerTypeOK, MaxRolloversAssumption, OncePerSegment
  <2> QED
    BY <2>1 DEF Copies
<1> QED
  BY Numbered, SegmentsHoldOnce, <1>1, PTL

(* So it is there once as long as the active segment is not archived, which the
   thresholds of the store may put off for ever. *)
THEOREM BlocksImportedOnce ==
  ASSUME MaxRollovers = 0 \/ "rollover" \notin Faults
  PROVE  Spec => []ImportedAtMostOnce
<1>1. NumberedInv /\ OncePerSegment => ImportedAtMostOnce
  <2> SUFFICES ASSUME NumberedInv, OncePerSegment, NEW b \in Blocks
               PROVE  Copies(b) <= 1
    BY DEF ImportedAtMostOnce
  <2>1. /\ archived[b] \in Nat /\ rollovers \in Nat /\ archived[b] <= rollovers
        /\ rollovers <= MaxRollovers
    BY MaxRolloversAssumption
       DEF NumberedInv, TypeOK, WorkerTypeOK, MaxRolloversAssumption, OncePerSegment
  <2>2. archived[b] = 0
    BY <2>1 DEF OncePerSegment
  <2> QED
    BY <2>2 DEF Copies
<1> QED
  BY Numbered, SegmentsHoldOnce, <1>1, PTL

================================================================================
