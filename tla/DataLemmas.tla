----------------------------- MODULE DataLemmas -----------------------------
(***************************************************************************)
(* Lemmas about the data the modules keep.  Induction is by the least      *)
(* counterexample: among the numbers, or the parts of a finite set, that   *)
(* break a statement there is a least one.                                 *)
(***************************************************************************)
EXTENDS HashChain, Integers, FiniteSetsExt, FiniteSetTheorems, WellFoundedInduction, TLAPS

\* A set of natural numbers that is not empty has a least element.
LEMMA LeastOf ==
    ASSUME NEW T, T \subseteq Nat, T # {}
    PROVE  \E x \in T : \A y \in T : x <= y
<1> DEFINE R == {ss \in Nat \X Nat : ss[1] < ss[2]}
<1>0. IsWellFoundedOn(R, Nat)  BY NatLessThanWellFounded DEF OpToRel
<1>1. PICK x \in T : \A y \in T : <<y, x>> \notin R  BY <1>0, WFMin, Zenon
<1>2. ASSUME NEW y \in T, ~(x <= y) PROVE FALSE
  <2>1. <<y, x>> \in Nat \X Nat  OBVIOUS
  <2>2. <<y, x>>[1] < <<y, x>>[2]  BY <1>2
  <2>3. <<y, x>> \in R  BY <2>1, <2>2
  <2> QED  BY <2>3, <1>1
<1> QED  BY <1>2

\* Among some parts of a finite set one contains no other of them.
LEMMA SmallestPart ==
    ASSUME NEW S, IsFiniteSet(S), NEW F, F \subseteq SUBSET S, F # {}
    PROVE  \E x \in F : \A y \in F : y \subseteq x => y = x
<1>1. F \subseteq FiniteSubsetsOf(S)  BY FS_FiniteSubsetsOfFinite
<1>2. PICK x \in F : \A y \in F : <<y, x>> \notin StrictSubsetOrdering(S)
  BY <1>1, FS_StrictSubsetOrderingWellFounded, WFMin
<1>3. \A y \in F : y \subseteq x => y = x  BY <1>2 DEF StrictSubsetOrdering
<1> QED  BY <1>3

\* Min and Max of a set of integers that has a bound.
LEMMA MinIs ==
    ASSUME NEW S, S \subseteq Int, S # {}, NEW n \in Int, \A x \in S : n <= x
    PROVE  Min(S) \in S /\ \A y \in S : Min(S) <= y
<1> DEFINE T == {k \in Nat : n + k \in S}
<1>1. \A x \in S : x - n \in T
  <2> TAKE x \in S
  <2> QED  OBVIOUS
<1>2. PICK k \in T : \A j \in T : k <= j  BY <1>1, LeastOf
<1>3. n + k \in S /\ \A y \in S : n + k <= y  BY <1>1, <1>2
<1> QED  BY <1>3 DEF Min

LEMMA MaxIs ==
    ASSUME NEW S, S \subseteq Int, S # {}, NEW n \in Int, \A x \in S : x <= n
    PROVE  Max(S) \in S /\ \A y \in S : Max(S) >= y
<1> DEFINE T == {k \in Nat : n - k \in S}
<1>1. \A x \in S : n - x \in T
  <2> TAKE x \in S
  <2> QED  OBVIOUS
<1>2. PICK k \in T : \A j \in T : k <= j  BY <1>1, LeastOf
<1>3. n - k \in S /\ \A y \in S : n - k >= y  BY <1>1, <1>2
<1> QED  BY <1>3 DEF Max

\* Counting up from 0.
LEMMA Counting ==
    ASSUME NEW n \in Nat, NEW T, 0 \in T, \A k \in 0..n : k < n /\ k \in T => k + 1 \in T
    PROVE  0..n \subseteq T
<1> DEFINE U == {k \in 0..n : k \notin T}
<1> SUFFICES ASSUME U # {} PROVE FALSE
  OBVIOUS
<1>1. PICK k \in U : \A j \in U : k <= j
  <2>1. U \subseteq Nat  OBVIOUS
  <2> HIDE DEF U
  <2> QED  BY <2>1, LeastOf
<1>2. k - 1 \in 0..n /\ k - 1 < n /\ ~(k <= k - 1) /\ (k - 1) + 1 = k  BY <1>1
<1> QED  BY <1>1, <1>2

-----------------------------------------------------------------------------
(***************************************************************************)
(* The lines of the WORM file.                                             *)
(***************************************************************************)
\* The record append() builds is a record.
LEMMA MakeRecordType ==
    ASSUME NEW P, NEW prv \in Seq(P), NEW pay \in P
    PROVE  MakeRecord(prv, pay) \in RecordsOver(P)
  BY DEF MakeRecord, RecordsOver, Hash

\* The hash of the last line of a file that ends in a whole record is a hash.
LEMMA LastHashType ==
    ASSUME NEW P, NEW lines \in Seq(LinesOver(P)), ~EndsTorn(lines)
    PROVE  LastHash(lines) \in Seq(P)
  <1>1. CASE lines = <<>>
    BY <1>1 DEF LastHash, ZeroHash
  <1>2. CASE lines # <<>>
    <2>1. lines[Len(lines)] \in RecordsOver(P)
      BY <1>2 DEF EndsTorn, LinesOver
    <2>2. lines[Len(lines)].record_hash \in Seq(P)
      BY <2>1 DEF RecordsOver
    <2>3. QED
      BY <1>2, <2>2 DEF LastHash
  <1>3. QED
    BY <1>1, <1>2

\* A file of records has only whole lines.
LEMMA RecordsAreLines ==
    ASSUME NEW P, NEW lines \in Seq(RecordsOver(P)), VerifyIntegrity(lines)
    PROVE  lines \in Seq(LinesOver(P)) /\ ~EndsTorn(lines)
  BY DEF LinesOver, EndsTorn, VerifyIntegrity

\* A file overwritten with lines is a file of lines.
LEMMA OverwriteType ==
    ASSUME NEW S, NEW old \in Seq(S), NEW new \in Seq(S)
    PROVE  Overwrite(old, new) \in Seq(S)
  BY DEF Overwrite

\* Rewriting a file with content that is no shorter leaves that content.
LEMMA OverwriteLonger ==
    ASSUME NEW S, NEW old \in Seq(S), NEW new \in Seq(S), Len(old) <= Len(new)
    PROVE  Overwrite(old, new) = new
  BY DEF Overwrite

\* Chaining a record to the last hash of a valid chain gives a valid chain.
LEMMA AppendKeepsChain ==
    ASSUME NEW P, NEW lines \in Seq(RecordsOver(P)), NEW pay \in P,
           VerifyIntegrity(lines)
    PROVE  LET more == Append(lines, MakeRecord(LastHash(lines), pay))
           IN  more \in Seq(RecordsOver(P)) /\ VerifyIntegrity(more)
  <1> DEFINE rec == MakeRecord(LastHash(lines), pay)
             more == Append(lines, rec)
  <1>1. LastHash(lines) \in Seq(P)
    BY LastHashType, RecordsAreLines
  <1>2. rec \in RecordsOver(P)
    BY <1>1, MakeRecordType
  <1>3. /\ more \in Seq(RecordsOver(P))
        /\ Len(more) = Len(lines) + 1
        /\ \A i \in 1..Len(lines) : more[i] = lines[i]
        /\ more[Len(more)] = rec
    BY <1>2
  <1>4. /\ rec.prev_hash = LastHash(lines)
        /\ rec.payload = pay
        /\ rec.record_hash = Hash(LastHash(lines), pay)
        /\ rec # TornLine
    BY DEF MakeRecord, TornLine
  <1>5. VerifyIntegrity(more)
    <2> SUFFICES ASSUME NEW i \in 1..Len(more)
                 PROVE  /\ more[i] # TornLine
                        /\ more[i].prev_hash = ExpectedPrev(more, i)
                        /\ more[i].record_hash = Hash(more[i].prev_hash, more[i].payload)
      BY DEF VerifyIntegrity
    <2>1. CASE i \in 1..Len(lines)
      BY <2>1, <1>3 DEF VerifyIntegrity, ExpectedPrev
    <2>2. CASE i = Len(lines) + 1
      BY <2>2, <1>3, <1>4 DEF LastHash, ExpectedPrev
    <2>3. QED
      BY <2>1, <2>2, <1>3
  <1>6. QED
    BY <1>3, <1>5

\* The hash of a record chained that way is as long as its place in the file.
LEMMA AppendKeepsNumbers ==
    ASSUME NEW P, NEW lines \in Seq(RecordsOver(P)), NEW pay \in P,
           VerifyIntegrity(lines),
           \A i \in 1..Len(lines) : Len(lines[i].record_hash) = i
    PROVE  LET more == Append(lines, MakeRecord(LastHash(lines), pay))
           IN  \A i \in 1..Len(more) : Len(more[i].record_hash) = i
  <1> DEFINE rec == MakeRecord(LastHash(lines), pay)
             more == Append(lines, rec)
  <1>1. LastHash(lines) \in Seq(P)
    BY LastHashType, RecordsAreLines
  <1>2. rec \in RecordsOver(P) /\ rec.record_hash = Hash(LastHash(lines), pay)
    BY <1>1, MakeRecordType DEF MakeRecord
  <1>3. /\ Len(more) = Len(lines) + 1
        /\ \A i \in 1..Len(lines) : more[i] = lines[i]
        /\ more[Len(more)] = rec
    BY <1>2
  <1>4. Len(LastHash(lines)) = Len(lines)
    BY DEF LastHash, ZeroHash
  <1>5. QED
    BY <1>1, <1>2, <1>3, <1>4 DEF Hash
=============================================================================
